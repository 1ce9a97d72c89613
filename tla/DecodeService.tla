--------------------------- MODULE DecodeService ---------------------------
(***************************************************************************)
(* What MainWindow may expect of the decoder: jobs are asked for one at a  *)
(* time; a job is worked on only after it has been asked for; at most one  *)
(* answer comes back, and it is the answer to the job that was asked for.  *)
(* The worker may die over a job, and the caller may give a job up.  All   *)
(* this is void once a worker that was alive has been replaced.            *)
(***************************************************************************)
EXTENDS Naturals

VARIABLES
  stage,   \* where the job is
  job,     \* the latest job, counted from 1
  got      \* the latest job whose answer was accepted

svars == <<stage, job, got>>

Stages == {"idle", "asked", "running", "answered", "void"}

SInit == stage = "idle" /\ job = 0 /\ got = 0

Ask == /\ stage = "idle"
       /\ stage' = "asked" /\ job' = job + 1
       /\ UNCHANGED got

Run == /\ stage = "asked"
       /\ stage' = "running"
       /\ UNCHANGED <<job, got>>

\* The worker dies; what it was at is not taken up again by itself.
Die == /\ stage = "running"
       /\ stage' = "asked"
       /\ UNCHANGED <<job, got>>

Answer == /\ stage = "running"
          /\ stage' = "answered"
          /\ UNCHANGED <<job, got>>

Accept == /\ stage = "answered"
          /\ stage' = "idle" /\ got' = job
          /\ UNCHANGED job

GiveUp == /\ stage \in {"asked", "running", "answered"}
          /\ stage' = "idle"
          /\ UNCHANGED <<job, got>>

\* Nothing is promised, and nothing counted, from here on.
Void == stage' = "void" /\ job' = 0 /\ got' = 0

SNext == Ask \/ Run \/ Die \/ Answer \/ Accept \/ GiveUp \/ Void

SSpec == SInit /\ [][SNext]_svars
=============================================================================
