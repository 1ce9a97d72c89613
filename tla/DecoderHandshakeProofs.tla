----------------------- MODULE DecoderHandshakeProofs -----------------------
(***************************************************************************)
(* Proofs about DecoderHandshake, for any number of ranges, programs and   *)
(* faults: the types, that no audio is dropped, and that the shared memory *)
(* is never written under a program that reads it.                         *)
(***************************************************************************)
EXTENDS DecoderHandshake, SequenceTheorems, TLAPS

\* Every number of a job that is anywhere is the number of one asked for.
JobsAsked ==
  /\ \A p \in Procs : proc[p].job <= shm
  /\ \A p \in Procs : \A i \in 1..Len(pipe[p]) : pipe[p][i] <= shm
  /\ \A i \in 1..Len(toGui) : toGui[i].job <= shm

\* The worker's process, and the one that comes next, have been started.
Started ==
  /\ current # 0 => proc[current].state # "none"
  /\ next > 0 => proc[next].state # "none"
  /\ next # -1 => current # 0

BaseInv == TypeOK /\ NothingDropped /\ JobsAsked /\ Started

\* A program that runs its loop.
Working(p) == proc[p].state \in {"polling", "checking", "decoding", "sleeping"}

\* While the window is open, and until a restart is ordered over a decoder
\* that is well, there is at most one program at work and none when another
\* is being started; a line that is under way was printed by a program that
\* still sleeps over it; and with .lock in place nobody reads.
StartsAlone ==
  /\ toWorker \in {<<>>, <<"start">>}
  /\ toWorker # <<>> => next = -1 /\ \A p \in Procs : ~Working(p)
OneAtWork == \A p, q \in Procs : Working(p) /\ Working(q) => p = q
OldIsDone == next # -1 => next # 0 /\ ~Working(current)
PipesSleep == \A p \in Procs : pipe[p] # <<>> => proc[p].state = "sleeping"
LinesSleep == \A i \in 1..Len(toGui) :
                toGui[i].kind = "line" => proc[toGui[i].proc].state = "sleeping"
LockStops == lock => \A p \in Procs : ~Reading(p)

Solo == StartsAlone /\ OneAtWork /\ OldIsDone /\ PipesSleep /\ LinesSleep /\ LockStops

SoloInv == window = "open" /\ ~disturbed => Solo

IInv == BaseInv /\ SoloInv

-----------------------------------------------------------------------------
(* What the worker thread reports.                                         *)

\* The rest of a program's output becomes as many signals, in its order.
LEMMA LinesAre ==
  ASSUME TypeOK, NEW p \in Procs
  PROVE  /\ Lines(p) \in Seq(Events)
         /\ Len(Lines(p)) = Len(pipe[p])
         /\ \A i \in 1..Len(pipe[p]) : Lines(p)[i] = Signal("line", p, pipe[p][i])
<1>1. pipe[p] \in Seq(Nat)
  BY DEF TypeOK
<1>2. \A i \in 1..Len(pipe[p]) : Signal("line", p, pipe[p][i]) \in Events
  BY <1>1 DEF Signal, Events
<1> QED
  BY <1>1, <1>2 DEF Lines

\* The two signals of a crash.
LEMMA FailureIs ==
  ASSUME NEW p \in Procs
  PROVE  /\ Failure(p) \in Seq(Events) /\ Len(Failure(p)) = 2
         /\ \A i \in 1..2 : Failure(p)[i].job = 0 /\ Failure(p)[i].kind # "line"
<1>1. Signal("error", p, 0) \in Events /\ Signal("finished", p, 0) \in Events
  BY DEF Signal, Events
<1> QED
  BY <1>1 DEF Failure, Signal

\* Every element of a concatenation comes from one of its parts.
LEMMA ConcatFrom ==
  ASSUME NEW S, NEW s1 \in Seq(S), NEW s2 \in Seq(S)
  PROVE  /\ s1 \o s2 \in Seq(S) /\ Len(s1 \o s2) = Len(s1) + Len(s2)
         /\ \A i \in 1..Len(s1 \o s2) :
              \/ i \in 1..Len(s1) /\ (s1 \o s2)[i] = s1[i]
              \/ \E k \in 1..Len(s2) : (s1 \o s2)[i] = s2[k]
<1>1. /\ s1 \o s2 \in Seq(S) /\ Len(s1 \o s2) = Len(s1) + Len(s2)
      /\ \A i \in 1..Len(s1) + Len(s2) :
           (s1 \o s2)[i] = IF i <= Len(s1) THEN s1[i] ELSE s2[i - Len(s1)]
  BY ConcatProperties
<1>2. Len(s1) \in Nat /\ Len(s2) \in Nat
  BY LenProperties
<1>3. ASSUME NEW i \in 1..Len(s1 \o s2)
      PROVE  \/ i \in 1..Len(s1) /\ (s1 \o s2)[i] = s1[i]
             \/ \E k \in 1..Len(s2) : (s1 \o s2)[i] = s2[k]
  <2>1. CASE i <= Len(s1)
    BY <1>1, <1>2, <1>3, <2>1
  <2>2. CASE ~(i <= Len(s1))
    <3>1. i - Len(s1) \in 1..Len(s2) /\ (s1 \o s2)[i] = s2[i - Len(s1)]
      BY <1>1, <1>2, <1>3, <2>2
    <3> QED
      BY <3>1
  <2> QED
    BY <2>1, <2>2
<1> QED
  BY <1>1, <1>3

\* A report adds signals of the types declared, with the numbers of jobs that
\* were asked for; if all output has been read, it adds no line.
LEMMA ReportAdds ==
  ASSUME TypeOK, JobsAsked, NEW p \in Procs, Report(p)
  PROVE  /\ toGui' \in Seq(Events)
         /\ \A i \in 1..Len(toGui') : toGui'[i].job <= shm
         /\ pipe[p] = <<>> =>
              \A i \in 1..Len(toGui') : toGui'[i].kind = "line" =>
                \E k \in 1..Len(toGui) : toGui'[i] = toGui[k]
<1> DEFINE last == IF proc[p].state = "exited" THEN <<>> ELSE Failure(p)
           lines == Lines(p)
           both == toGui \o lines
<1>1. toGui \in Seq(Events) /\ shm \in Nat /\ pipe[p] \in Seq(Nat)
  BY DEF TypeOK
<1>2. /\ lines \in Seq(Events) /\ Len(lines) = Len(pipe[p])
      /\ \A i \in 1..Len(lines) : lines[i].job <= shm
  <2>1. /\ lines \in Seq(Events) /\ Len(lines) = Len(pipe[p])
        /\ \A i \in 1..Len(pipe[p]) : lines[i] = Signal("line", p, pipe[p][i])
    BY LinesAre
  <2>2. \A i \in 1..Len(pipe[p]) : Signal("line", p, pipe[p][i]).job <= shm
    BY DEF Signal, JobsAsked
  <2> QED
    BY <2>1, <2>2
<1>3. /\ last \in Seq(Events)
      /\ \A i \in 1..Len(last) : last[i].job = 0 /\ last[i].kind # "line"
  BY FailureIs
<1>4. toGui' = both \o last
  BY DEF Report
<1> HIDE DEF last, lines
<1>5. /\ both \in Seq(Events)
      /\ \A i \in 1..Len(both) : \/ i \in 1..Len(toGui) /\ both[i] = toGui[i]
                                 \/ \E k \in 1..Len(lines) : both[i] = lines[k]
  <2>1. toGui \in Seq(Events) /\ lines \in Seq(Events)
    BY <1>1, <1>2
  <2> QED
    BY <2>1, ConcatFrom, SMTT(60)
<1> HIDE DEF both
<1>6. \A i \in 1..Len(both) : both[i].job <= shm
  BY <1>2, <1>5 DEF JobsAsked
<1>7. /\ both \o last \in Seq(Events)
      /\ \A i \in 1..Len(both \o last) :
           \/ i \in 1..Len(both) /\ (both \o last)[i] = both[i]
           \/ \E k \in 1..Len(last) : (both \o last)[i] = last[k]
  <2>1. both \in Seq(Events) /\ last \in Seq(Events)
    BY <1>3, <1>5
  <2> QED
    BY <2>1, ConcatFrom, SMTT(60)
<1>8. \A i \in 1..Len(toGui') : toGui'[i].job <= shm
  <2>1. \A k \in 1..Len(last) : last[k].job <= shm
    BY <1>1, <1>3
  <2> QED
    BY <1>4, <1>6, <1>7, <2>1
<1>9. ASSUME pipe[p] = <<>>, NEW i \in 1..Len(toGui'), toGui'[i].kind = "line"
      PROVE  \E k \in 1..Len(toGui) : toGui'[i] = toGui[k]
  <2>1. 1..Len(lines) = {}
    BY <1>1, <1>2, <1>9
  <2>2. i \in 1..Len(both) /\ toGui'[i] = both[i]
    BY <1>3, <1>4, <1>7, <1>9
  <2> QED
    BY <1>5, <2>1, <2>2
<1> QED
  BY <1>4, <1>7, <1>8, <1>9

-----------------------------------------------------------------------------
(* The types, the lock file and the numbers of jobs.                       *)

\* decode hands over at most what has been queued, and leaves the lock file
\* missing only with the busy flag set.
LEMMA BaseDecode ==
  ASSUME BaseInv, NEW ready \in BOOLEAN, NEW paused \in BOOLEAN,
         NEW kept \in BOOLEAN, Decode(ready, paused, kept)
  PROVE  BaseInv'
<1> DEFINE n == IF ready THEN queue + 1 ELSE queue
           process == ~paused /\ since # "now" /\ ~busy /\ n > 0
           start == process /\ kept /\ lock
<1>1. /\ queue' = IF process THEN 0 ELSE n
      /\ ranges' = IF ready THEN ranges + 1 ELSE ranges
      /\ busy' = (busy \/ start)
      /\ since' = IF start THEN "now" ELSE since
      /\ shm' = IF start THEN shm + 1 ELSE shm
      /\ lock' = (lock /\ ~start)
      /\ UNCHANGED <<valid, dialogs, window, quit, toWorker, toGui, current,
                     next, got, disturbed, proc, pipe, faults>>
  BY DEF Decode, procVars
<1>2. TypeOK
  BY DEF BaseInv
<1>3. shm' \in Nat /\ shm <= shm' /\ shm' <= ranges' /\ ranges' \in Nat
  BY <1>1, <1>2 DEF TypeOK
<1>4. TypeOK'
  <2>1. queue' \in 0..(ranges' - shm')
    BY <1>1, <1>2 DEF TypeOK
  <2>2. busy' \in BOOLEAN /\ since' \in Since /\ lock' \in BOOLEAN
    BY <1>1, <1>2 DEF TypeOK, Since
  <2>3. got' \in 0..shm'
    BY <1>1, <1>2, <1>3 DEF TypeOK
  <2> QED
    BY <1>1, <1>2, <1>3, <2>1, <2>2, <2>3 DEF TypeOK
<1>5. NothingDropped'
  BY <1>1 DEF BaseInv, NothingDropped
<1>6. JobsAsked'
  <2>1. \A p \in Procs : proc[p].job \in Nat
    BY <1>2 DEF TypeOK, ProcType
  <2>2. \A p \in Procs : \A i \in 1..Len(pipe[p]) : pipe[p][i] \in Nat
    BY <1>2 DEF TypeOK
  <2>3. \A i \in 1..Len(toGui) : toGui[i].job \in Nat
    <3>1. \A i \in 1..Len(toGui) : toGui[i] \in Events
      BY <1>2 DEF TypeOK
    <3> QED
      BY <3>1 DEF Events
  <2>4. shm \in Nat /\ \A k \in Nat : k <= shm => k <= shm'
    BY <1>2, <1>3 DEF TypeOK
  <2> HIDE DEF start
  <2> QED
    BY <1>1, <2>1, <2>2, <2>3, <2>4, Zenon DEF BaseInv, JobsAsked
<1>7. Started'
  BY <1>1 DEF BaseInv, Started
<1> QED
  BY <1>4, <1>5, <1>6, <1>7 DEF BaseInv

\* A signal taken from the queue was in it.
LEMMA EventTakes ==
  ASSUME TypeOK, NEW kind, Event(kind)
  PROVE  /\ toGui # <<>> /\ Head(toGui) = toGui[1] /\ 1 \in 1..Len(toGui)
         /\ Head(toGui) \in Events /\ toGui' \in Seq(Events)
         /\ Len(toGui') = Len(toGui) - 1
         /\ \A i \in 1..Len(toGui') : i + 1 \in 1..Len(toGui) /\ toGui'[i] = toGui[i + 1]
<1>1. toGui \in Seq(Events) /\ toGui # <<>> /\ toGui' = Tail(toGui)
  BY DEF TypeOK, Event
<1>2. /\ Head(toGui) \in Events /\ Tail(toGui) \in Seq(Events)
      /\ Len(Tail(toGui)) = Len(toGui) - 1
      /\ \A i \in 1..Len(Tail(toGui)) : Tail(toGui)[i] = toGui[i + 1]
  BY <1>1, HeadTailProperties
<1>3. Head(toGui) = toGui[1] /\ 1 \in 1..Len(toGui) /\ Len(toGui) \in Nat
  BY <1>1
<1> QED
  BY <1>1, <1>2, <1>3

\* decodeDone makes the lock file together with clearing the flag.
LEMMA BaseDecodeDone ==
  ASSUME BaseInv, DecodeDone
  PROVE  BaseInv'
<1>1. /\ lock' = TRUE /\ busy' = FALSE /\ got' = Head(toGui).job
      /\ UNCHANGED <<queue, since, valid, dialogs, window, ranges, quit, shm,
                     toWorker, current, next, disturbed, proc, pipe, faults>>
  BY DEF DecodeDone, procVars
<1>2. TypeOK /\ JobsAsked
  BY DEF BaseInv
<1>3. /\ Head(toGui) = toGui[1] /\ 1 \in 1..Len(toGui)
      /\ Head(toGui) \in Events /\ toGui' \in Seq(Events)
      /\ Len(toGui') = Len(toGui) - 1
      /\ \A i \in 1..Len(toGui') : i + 1 \in 1..Len(toGui) /\ toGui'[i] = toGui[i + 1]
  BY <1>2, EventTakes DEF DecodeDone
<1>4. got' \in 0..shm
  BY <1>1, <1>2, <1>3 DEF TypeOK, JobsAsked, Events
<1>5. TypeOK'
  BY <1>1, <1>2, <1>3, <1>4 DEF TypeOK
<1>6. NothingDropped'
  BY <1>1 DEF NothingDropped
<1>7. JobsAsked'
  BY <1>1, <1>2, <1>3 DEF JobsAsked
<1>8. Started'
  BY <1>1 DEF BaseInv, Started
<1> QED
  BY <1>5, <1>6, <1>7, <1>8 DEF BaseInv

LEMMA BaseSubProcessFailed ==
  ASSUME BaseInv, SubProcessFailed
  PROVE  BaseInv'
<1>1. /\ valid' \in BOOLEAN /\ dialogs' \in {dialogs, dialogs + 1}
      /\ UNCHANGED <<queue, busy, since, window, ranges, got, toWorker, current,
                     next, disturbed, lock, quit, shm, proc, pipe, faults>>
  BY DEF SubProcessFailed, procVars, fileVars
<1>2. TypeOK /\ JobsAsked
  BY DEF BaseInv
<1>3. /\ toGui' \in Seq(Events) /\ Len(toGui') = Len(toGui) - 1
      /\ \A i \in 1..Len(toGui') : i + 1 \in 1..Len(toGui) /\ toGui'[i] = toGui[i + 1]
  BY <1>2, EventTakes DEF SubProcessFailed
<1>4. TypeOK'
  <2>1. dialogs' \in Nat
    BY <1>1, <1>2 DEF TypeOK
  <2> QED
    BY <1>1, <1>2, <1>3, <2>1 DEF TypeOK
<1>5. NothingDropped' /\ Started'
  BY <1>1 DEF BaseInv, NothingDropped, Started
<1>6. JobsAsked'
  BY <1>1, <1>2, <1>3 DEF JobsAsked
<1> QED
  BY <1>4, <1>5, <1>6 DEF BaseInv

\* A restart makes the lock file and clears the flag, whoever asks for it.
LEMMA BaseRestart ==
  ASSUME BaseInv, Acknowledge \/ CheckHanging
  PROVE  BaseInv'
<1>1. /\ lock' = TRUE /\ quit' = FALSE /\ busy' = FALSE /\ valid' = TRUE
      /\ toWorker' = Append(toWorker, "start")
      /\ disturbed' = (disturbed \/ InOrder)
      /\ UNCHANGED <<queue, window, ranges, got, shm, toGui, current, next,
                     proc, pipe, faults>>
  BY DEF Acknowledge, CheckHanging, InitDecoderSubprocess, procVars
<1>2. TypeOK
  BY DEF BaseInv
<1>3. dialogs' \in Nat /\ since' \in Since
  BY <1>2 DEF Acknowledge, CheckHanging, TypeOK, Since
<1>4. toWorker' \in Seq({"start", "quit"})
  BY <1>1, <1>2, AppendProperties DEF TypeOK
<1>5. disturbed' \in BOOLEAN
  BY <1>1
<1>6. TypeOK'
  BY <1>1, <1>2, <1>3, <1>4, <1>5 DEF TypeOK
<1>7. NothingDropped' /\ JobsAsked' /\ Started'
  BY <1>1 DEF BaseInv, NothingDropped, JobsAsked, Started
<1> QED
  BY <1>6, <1>7 DEF BaseInv

LEMMA BaseClosing ==
  ASSUME BaseInv, Close \/ Closed
  PROVE  BaseInv'
<1>1. /\ window' \in {"closing", "closed"} /\ lock' \in BOOLEAN
      /\ quit' \in BOOLEAN /\ valid' \in BOOLEAN
      /\ UNCHANGED <<queue, busy, since, dialogs, ranges, got, shm, toGui,
                     current, next, disturbed, proc, pipe, faults>>
  BY DEF Close, Closed, procVars, BaseInv, TypeOK
<1>2. TypeOK
  BY DEF BaseInv
<1>3. toWorker' \in Seq({"start", "quit"})
  BY <1>2, AppendProperties DEF Close, Closed, TypeOK
<1>4. TypeOK'
  BY <1>1, <1>2, <1>3 DEF TypeOK
<1>5. NothingDropped' /\ JobsAsked' /\ Started'
  BY <1>1 DEF BaseInv, NothingDropped, JobsAsked, Started
<1> QED
  BY <1>4, <1>5 DEF BaseInv

\* A program that changes its state keeps its job, and the others are as before.
LEMMA StateChange ==
  ASSUME TypeOK, NEW p \in Procs, NEW s \in States,
         proc' = [proc EXCEPT ![p].state = s]
  PROVE  /\ proc' \in [Procs -> ProcType]
         /\ proc'[p].state = s
         /\ \A q \in Procs : q # p => proc'[q] = proc[q]
         /\ \A q \in Procs : proc'[q].job = proc[q].job
<1>1. proc \in [Procs -> ProcType]
  BY DEF TypeOK
<1>2. proc'[p] = [proc[p] EXCEPT !.state = s]
  BY <1>1
<1>3. proc[p] \in ProcType
  BY <1>1
<1>4. /\ [proc[p] EXCEPT !.state = s] \in ProcType
      /\ [proc[p] EXCEPT !.state = s].state = s
      /\ [proc[p] EXCEPT !.state = s].job = proc[p].job
  BY <1>3 DEF ProcType
<1>5. \A q \in Procs : q # p => proc'[q] = proc[q]
  BY <1>1
<1>6. proc' \in [Procs -> ProcType]
  BY <1>1, <1>4
<1>7. proc'[p].state = s /\ proc'[p].job = proc[p].job
  BY <1>2, <1>4
<1> QED
  BY <1>5, <1>6, <1>7

\* The new program is one that was never started.
LEMMA StartOne ==
  ASSUME TypeOK, WorkerStart
  PROVE  /\ next = -1 /\ toWorker # <<>> /\ toWorker' = Tail(toWorker)
         /\ \E p \in Procs :
              /\ proc[p].state = "none"
              /\ proc' = [proc EXCEPT ![p].state = "polling"]
              /\ \/ current = 0 /\ current' = p /\ next' = next
                 \/ current # 0 /\ current' = current /\ next' = p
         /\ UNCHANGED <<queue, busy, since, valid, dialogs, window, ranges, got,
                        disturbed, lock, quit, shm, toGui, pipe, faults>>
<1>1. PICK p \in Procs :
        /\ proc[p].state = "none"
        /\ proc' = [proc EXCEPT ![p].state = "polling"]
        /\ IF current = 0 THEN current' = p /\ UNCHANGED next
                          ELSE next' = p /\ UNCHANGED current
  BY DEF WorkerStart
<1>2. \/ current = 0 /\ current' = p /\ next' = next
      \/ current # 0 /\ current' = current /\ next' = p
  BY <1>1
<1> QED
  BY <1>1, <1>2 DEF WorkerStart, guiVars, fileVars

LEMMA BaseWorkerStart ==
  ASSUME BaseInv, WorkerStart
  PROVE  BaseInv'
<1>1. TypeOK /\ JobsAsked /\ Started
  BY DEF BaseInv
<1>2. /\ next = -1 /\ toWorker # <<>> /\ toWorker' = Tail(toWorker)
      /\ UNCHANGED <<queue, busy, since, valid, dialogs, window, ranges, got,
                     disturbed, lock, quit, shm, toGui, pipe, faults>>
  BY <1>1, StartOne
<1>3. PICK p \in Procs :
        /\ proc[p].state = "none"
        /\ proc' = [proc EXCEPT ![p].state = "polling"]
        /\ \/ current = 0 /\ current' = p /\ next' = next
           \/ current # 0 /\ current' = current /\ next' = p
  BY <1>1, StartOne
<1>4. /\ proc' \in [Procs -> ProcType]
      /\ proc'[p].state = "polling"
      /\ \A q \in Procs : q # p => proc'[q] = proc[q]
      /\ \A q \in Procs : proc'[q].job = proc[q].job
  BY <1>1, <1>3, StateChange DEF States
<1>5. toWorker' \in Seq({"start", "quit"})
  BY <1>1, <1>2, HeadTailProperties DEF TypeOK
<1>6. current' \in Procs \cup {0} /\ next' \in Procs \cup {0, -1}
  BY <1>1, <1>3 DEF TypeOK
<1>7. TypeOK'
  BY <1>1, <1>2, <1>4, <1>5, <1>6 DEF TypeOK
<1>8. NothingDropped' /\ JobsAsked'
  BY <1>2, <1>4 DEF BaseInv, NothingDropped, JobsAsked
<1>9. Started'
  <2>1. 0 \notin Procs /\ -1 \notin Procs
    BY DEF Procs
  <2> QED
    BY <1>1, <1>2, <1>3, <1>4, <2>1 DEF Started, TypeOK
<1> QED
  BY <1>7, <1>8, <1>9 DEF BaseInv

LEMMA BaseWorkerQuit ==
  ASSUME BaseInv, WorkerQuit
  PROVE  BaseInv'
<1>1. TypeOK /\ Started
  BY DEF BaseInv
<1>2. /\ toWorker # <<>> /\ toWorker' = Tail(toWorker)
      /\ next' = (IF current = 0 THEN -1 ELSE 0)
      /\ UNCHANGED <<queue, busy, since, valid, dialogs, window, ranges, got,
                     disturbed, lock, quit, shm, proc, pipe, faults, toGui,
                     current>>
  BY DEF WorkerQuit, guiVars, fileVars, procVars
<1>3. toWorker' \in Seq({"start", "quit"})
  BY <1>1, <1>2, HeadTailProperties DEF TypeOK
<1>4. next' \in Procs \cup {0, -1}
  BY <1>2
<1>5. TypeOK'
  BY <1>1, <1>2, <1>3, <1>4 DEF TypeOK
<1>6. NothingDropped' /\ JobsAsked'
  BY <1>2 DEF BaseInv, NothingDropped, JobsAsked
<1>7. Started'
  BY <1>1, <1>2 DEF Started
<1> QED
  BY <1>5, <1>6, <1>7 DEF BaseInv

\* What Report does to the program and its output.
LEMMA ReportEnds ==
  ASSUME TypeOK, NEW p \in Procs, Report(p)
  PROVE  /\ proc' \in [Procs -> ProcType]
         /\ proc'[p].state = "gone"
         /\ \A q \in Procs : q # p => proc'[q] = proc[q] /\ pipe'[q] = pipe[q]
         /\ \A q \in Procs : proc'[q].job = proc[q].job
         /\ pipe' \in [Procs -> Seq(Nat)] /\ pipe'[p] = <<>> /\ faults' = faults
<1>1. /\ proc' \in [Procs -> ProcType]
      /\ proc'[p].state = "gone"
      /\ \A q \in Procs : q # p => proc'[q] = proc[q]
      /\ \A q \in Procs : proc'[q].job = proc[q].job
  BY StateChange DEF Report, States
<1>2. pipe' = [pipe EXCEPT ![p] = <<>>] /\ faults' = faults
  BY DEF Report
<1>3. pipe \in [Procs -> Seq(Nat)] /\ <<>> \in Seq(Nat)
  BY EmptySeq DEF TypeOK
<1>4. /\ pipe' \in [Procs -> Seq(Nat)] /\ pipe'[p] = <<>>
      /\ \A q \in Procs : q # p => pipe'[q] = pipe[q]
  BY <1>2, <1>3
<1> QED
  BY <1>1, <1>2, <1>4

\* The end of a program, noticed or brought about.
LEMMA BaseReport ==
  ASSUME BaseInv, NEW p \in Procs, Report(p), proc[p].state # "none",
         current' \in Procs \cup {0}, next' \in Procs \cup {0, -1},
         current' # 0 => proc[current'].state # "none",
         next' > 0 => proc[next'].state # "none", next' # -1 => current' # 0,
         UNCHANGED <<queue, busy, since, valid, dialogs, window, ranges, got,
                     disturbed, lock, quit, shm, toWorker>>
  PROVE  BaseInv'
<1>1. TypeOK /\ JobsAsked
  BY DEF BaseInv
<1>2. /\ proc' \in [Procs -> ProcType]
      /\ proc'[p].state = "gone"
      /\ \A q \in Procs : q # p => proc'[q] = proc[q] /\ pipe'[q] = pipe[q]
      /\ \A q \in Procs : proc'[q].job = proc[q].job
      /\ pipe' \in [Procs -> Seq(Nat)] /\ pipe'[p] = <<>> /\ faults' = faults
  BY <1>1, ReportEnds
<1>3. /\ toGui' \in Seq(Events)
      /\ \A i \in 1..Len(toGui') : toGui'[i].job <= shm
  BY <1>1, ReportAdds
<1>4. TypeOK'
  BY <1>1, <1>2, <1>3 DEF TypeOK
<1>5. JobsAsked'
  <2>1. \A q \in Procs : \A i \in 1..Len(pipe'[q]) : pipe'[q][i] <= shm
    <3>1. 1..Len(pipe'[p]) = {}
      BY <1>2
    <3> QED
      BY <1>1, <1>2, <3>1 DEF JobsAsked
  <2> QED
    BY <1>1, <1>2, <1>3, <2>1 DEF JobsAsked
<1>6. NothingDropped'
  BY DEF BaseInv, NothingDropped
<1>7. Started'
  <2>1. 0 \notin Procs /\ -1 \notin Procs
    BY DEF Procs
  <2>2. \A q \in Procs : proc[q].state # "none" => proc'[q].state # "none"
    BY <1>2
  <2>3. next' > 0 => next' \in Procs
    BY <1>1
  <2> QED
    BY <2>1, <2>2, <2>3 DEF Started
<1> QED
  BY <1>4, <1>5, <1>6, <1>7 DEF BaseInv

LEMMA BaseReplace ==
  ASSUME BaseInv, Replace
  PROVE  BaseInv'
<1>1. TypeOK /\ Started /\ 0 \notin Procs /\ -1 \notin Procs
  BY DEF BaseInv, Procs
<1>2. /\ next # -1 /\ current' = next /\ next' = -1
      /\ UNCHANGED <<queue, busy, since, valid, dialogs, window, ranges, got,
                     disturbed, lock, quit, shm, toWorker>>
  BY DEF Replace, guiVars, fileVars
<1>3. /\ current \in Procs /\ proc[current].state # "none"
      /\ next \in Procs \cup {0} /\ (next # 0 => proc[next].state # "none")
  BY <1>1, <1>2 DEF TypeOK, Started, Procs
<1>4. CASE Report(current)
  BY <1>2, <1>3, <1>4, BaseReport
<1>5. CASE UNCHANGED <<proc, pipe, faults, toGui>>
  <2>1. TypeOK'
    BY <1>1, <1>2, <1>3, <1>5 DEF TypeOK
  <2>2. NothingDropped' /\ JobsAsked'
    BY <1>2, <1>5 DEF BaseInv, NothingDropped, JobsAsked
  <2>3. Started'
    BY <1>2, <1>3, <1>5 DEF Started
  <2> QED
    BY <2>1, <2>2, <2>3 DEF BaseInv
<1> QED
  BY <1>4, <1>5 DEF Replace, procVars

LEMMA BaseNoticeDeath ==
  ASSUME BaseInv, NoticeDeath
  PROVE  BaseInv'
<1>1. TypeOK /\ Started
  BY DEF BaseInv
<1>2. /\ next = -1 /\ current # 0 /\ proc[current].state \in {"died", "exited"}
      /\ Report(current)
      /\ UNCHANGED <<queue, busy, since, valid, dialogs, window, ranges, got,
                     disturbed, lock, quit, shm, toWorker, current, next>>
  BY DEF NoticeDeath, guiVars, fileVars
<1>3. current \in Procs /\ proc[current].state # "none"
  BY <1>1, <1>2 DEF TypeOK
<1> QED
  BY <1>1, <1>2, <1>3, BaseReport

\* A line read is the first of those printed, and becomes the last signal.
LEMMA LineRead ==
  ASSUME TypeOK, ReadLine
  PROVE  /\ current \in Procs /\ pipe[current] # <<>>
         /\ Head(pipe[current]) = pipe[current][1] /\ 1 \in 1..Len(pipe[current])
         /\ toGui' \in Seq(Events) /\ Len(toGui') = Len(toGui) + 1
         /\ \A i \in 1..Len(toGui) : toGui'[i] = toGui[i]
         /\ toGui'[Len(toGui) + 1] = Signal("line", current, Head(pipe[current]))
         /\ pipe' \in [Procs -> Seq(Nat)]
         /\ Len(pipe'[current]) = Len(pipe[current]) - 1
         /\ \A i \in 1..Len(pipe'[current]) :
              i + 1 \in 1..Len(pipe[current]) /\ pipe'[current][i] = pipe[current][i + 1]
         /\ \A q \in Procs : q # current => pipe'[q] = pipe[q]
         /\ UNCHANGED <<queue, busy, since, valid, dialogs, window, ranges, got,
                        disturbed, lock, quit, shm, toWorker, current, next,
                        proc, faults>>
<1> DEFINE e == Signal("line", current, Head(pipe[current]))
<1>1. /\ current # 0 /\ pipe[current] # <<>> /\ toGui' = Append(toGui, e)
      /\ pipe' = [pipe EXCEPT ![current] = Tail(pipe[current])]
      /\ UNCHANGED <<queue, busy, since, valid, dialogs, window, ranges, got,
                     disturbed, lock, quit, shm, toWorker, current, next,
                     proc, faults>>
  BY DEF ReadLine, guiVars, fileVars
<1>2. /\ current \in Procs /\ pipe \in [Procs -> Seq(Nat)]
      /\ pipe[current] \in Seq(Nat) /\ toGui \in Seq(Events)
  BY <1>1 DEF TypeOK
<1>3. /\ Head(pipe[current]) \in Nat /\ Tail(pipe[current]) \in Seq(Nat)
      /\ Len(Tail(pipe[current])) = Len(pipe[current]) - 1
      /\ \A i \in 1..Len(Tail(pipe[current])) :
           Tail(pipe[current])[i] = pipe[current][i + 1]
  BY <1>1, <1>2, HeadTailProperties
<1>4. Head(pipe[current]) = pipe[current][1] /\ 1 \in 1..Len(pipe[current])
  BY <1>1, <1>2
<1>5. e \in Events
  BY <1>2, <1>3 DEF Signal, Events
<1> HIDE DEF e
<1>6. /\ toGui' \in Seq(Events) /\ Len(toGui') = Len(toGui) + 1
      /\ \A i \in 1..Len(toGui) : toGui'[i] = toGui[i]
      /\ toGui'[Len(toGui) + 1] = e
  BY <1>1, <1>2, <1>5, AppendProperties
<1>7. /\ pipe' \in [Procs -> Seq(Nat)] /\ pipe'[current] = Tail(pipe[current])
      /\ \A q \in Procs : q # current => pipe'[q] = pipe[q]
  BY <1>1, <1>2, <1>3
<1>8. /\ Len(pipe'[current]) = Len(pipe[current]) - 1
      /\ \A i \in 1..Len(pipe'[current]) :
           i + 1 \in 1..Len(pipe[current]) /\ pipe'[current][i] = pipe[current][i + 1]
  BY <1>2, <1>3, <1>7
<1> QED
  BY <1>1, <1>2, <1>4, <1>6, <1>7, <1>8 DEF e

LEMMA BaseReadLine ==
  ASSUME BaseInv, ReadLine
  PROVE  BaseInv'
<1>1. TypeOK /\ JobsAsked
  BY DEF BaseInv
<1>2. /\ current \in Procs
      /\ Head(pipe[current]) = pipe[current][1] /\ 1 \in 1..Len(pipe[current])
      /\ toGui' \in Seq(Events) /\ Len(toGui') = Len(toGui) + 1
      /\ \A i \in 1..Len(toGui) : toGui'[i] = toGui[i]
      /\ toGui'[Len(toGui) + 1] = Signal("line", current, Head(pipe[current]))
      /\ pipe' \in [Procs -> Seq(Nat)]
      /\ \A i \in 1..Len(pipe'[current]) :
           i + 1 \in 1..Len(pipe[current]) /\ pipe'[current][i] = pipe[current][i + 1]
      /\ \A q \in Procs : q # current => pipe'[q] = pipe[q]
      /\ UNCHANGED <<queue, busy, since, valid, dialogs, window, ranges, got,
                     disturbed, lock, quit, shm, toWorker, current, next,
                     proc, faults>>
  BY <1>1, LineRead
<1>3. TypeOK'
  BY <1>1, <1>2 DEF TypeOK
<1>4. NothingDropped' /\ Started'
  BY <1>2 DEF BaseInv, NothingDropped, Started
<1>5. \A q \in Procs : \A i \in 1..Len(pipe'[q]) : pipe'[q][i] <= shm
  <2>1. \A q \in Procs : \A i \in 1..Len(pipe[q]) : pipe[q][i] <= shm
    BY <1>1 DEF JobsAsked
  <2>2. \A i \in 1..Len(pipe'[current]) : pipe'[current][i] <= shm
    BY <1>2, <2>1
  <2> QED
    BY <1>2, <2>1, <2>2, Zenon
<1>6. \A i \in 1..Len(toGui') : toGui'[i].job <= shm
  <2>1. Len(toGui) \in Nat
    BY <1>1 DEF TypeOK
  <2>2. Signal("line", current, Head(pipe[current])).job <= shm
    BY <1>1, <1>2 DEF JobsAsked, Signal
  <2>3. \A i \in 1..Len(toGui') : i \in 1..Len(toGui) \/ i = Len(toGui) + 1
    BY <1>2, <2>1
  <2> QED
    BY <1>1, <1>2, <2>2, <2>3 DEF JobsAsked
<1>7. JobsAsked'
  BY <1>1, <1>2, <1>5, <1>6 DEF JobsAsked
<1> QED
  BY <1>3, <1>4, <1>7 DEF BaseInv

\* A program started before takes a job of at most shm, prints at most its own
\* job, and touches nothing of the others.
LEMMA BaseProgram ==
  ASSUME BaseInv, NEW p \in Procs, Program(p)
  PROVE  BaseInv'
<1>1. TypeOK /\ JobsAsked /\ Started
  BY DEF BaseInv
<1>2. /\ proc[p].state # "none"
      /\ UNCHANGED <<queue, busy, since, valid, dialogs, window, ranges, got,
                     disturbed, lock, quit, shm, toWorker, toGui, current, next>>
  BY DEF Program, Poll, Check, Finish, Wake, Fail, Goes, guiVars, fileVars
<1>3. /\ proc' \in [Procs -> ProcType]
      /\ \A q \in Procs : proc'[q].job <= shm
      /\ \A q \in Procs : proc[q].state # "none" => proc'[q].state # "none"
  <2>1. CASE Check(p) /\ ~quit
    <3>1. proc' = [proc EXCEPT ![p] = [state |-> "decoding", job |-> shm]]
      BY <2>1 DEF Check
    <3>2. [state |-> "decoding", job |-> shm] \in ProcType
      BY <1>1 DEF TypeOK, ProcType, States
    <3> QED
      BY <1>1, <3>1, <3>2 DEF TypeOK, JobsAsked
  <2>2. CASE \E s \in States \ {"none"} : proc' = [proc EXCEPT ![p].state = s]
    <3>1. PICK s \in States \ {"none"} : proc' = [proc EXCEPT ![p].state = s]
      BY <2>2
    <3>2. /\ proc' \in [Procs -> ProcType]
          /\ proc'[p].state = s
          /\ \A q \in Procs : q # p => proc'[q] = proc[q]
          /\ \A q \in Procs : proc'[q].job = proc[q].job
      BY <1>1, <3>1, StateChange
    <3> QED
      BY <1>1, <3>1, <3>2 DEF JobsAsked
  <2>3. Faults \subseteq States \ {"none"}
    BY DecoderAssumption DEF States
  <2> QED
    BY <2>1, <2>2, <2>3 DEF Program, Poll, Check, Finish, Wake, Fail, Goes, States
<1>4. /\ pipe' \in [Procs -> Seq(Nat)]
      /\ \A q \in Procs : \A i \in 1..Len(pipe'[q]) : pipe'[q][i] <= shm
  <2>1. CASE Finish(p)
    <3>1. proc[p].job \in Nat /\ proc[p].job <= shm
      BY <1>1 DEF TypeOK, ProcType, JobsAsked
    <3>2. pipe \in [Procs -> Seq(Nat)] /\ pipe[p] \in Seq(Nat)
      BY <1>1 DEF TypeOK
    <3>3. pipe' = [pipe EXCEPT ![p] = Append(pipe[p], proc[p].job)]
      BY <2>1 DEF Finish
    <3>4. /\ Append(pipe[p], proc[p].job) \in Seq(Nat)
          /\ Len(Append(pipe[p], proc[p].job)) = Len(pipe[p]) + 1
          /\ \A i \in 1..Len(pipe[p]) : Append(pipe[p], proc[p].job)[i] = pipe[p][i]
          /\ Append(pipe[p], proc[p].job)[Len(pipe[p]) + 1] = proc[p].job
      BY <3>1, <3>2, AppendProperties
    <3>5. /\ pipe' \in [Procs -> Seq(Nat)]
          /\ pipe'[p] = Append(pipe[p], proc[p].job)
          /\ \A q \in Procs : q # p => pipe'[q] = pipe[q]
      BY <3>2, <3>3, <3>4
    <3>6. \A i \in 1..Len(pipe'[p]) : pipe'[p][i] <= shm
      <4>1. Len(pipe[p]) \in Nat
        BY <3>2
      <4> QED
        BY <1>1, <3>1, <3>4, <3>5, <4>1 DEF JobsAsked
    <3> QED
      BY <1>1, <3>5, <3>6 DEF JobsAsked
  <2>2. CASE UNCHANGED pipe
    BY <1>1, <2>2 DEF TypeOK, JobsAsked
  <2> QED
    BY <2>1, <2>2 DEF Program, Poll, Check, Wake, Fail
<1>5. faults' \in Nat
  BY <1>1 DEF Program, Poll, Check, Finish, Wake, Fail, TypeOK
<1>6. TypeOK'
  BY <1>1, <1>2, <1>3, <1>4, <1>5 DEF TypeOK
<1>7. NothingDropped'
  BY <1>2 DEF BaseInv, NothingDropped
<1>8. JobsAsked'
  BY <1>1, <1>2, <1>3, <1>4 DEF JobsAsked
<1>9. Started'
  BY <1>1, <1>2, <1>3 DEF Started, TypeOK, Procs
<1> QED
  BY <1>6, <1>7, <1>8, <1>9 DEF BaseInv

LEMMA BaseLater ==
  ASSUME BaseInv, Later
  PROVE  BaseInv'
<1>1. /\ since' \in Since
      /\ UNCHANGED <<queue, busy, valid, dialogs, window, ranges, got, toWorker,
                     toGui, current, next, disturbed, lock, quit, shm, proc,
                     pipe, faults>>
  BY DEF Later, Since, fileVars, procVars
<1> QED
  BY <1>1 DEF BaseInv, TypeOK, NothingDropped, JobsAsked, Started

LEMMA BaseInit == Init => BaseInv
<1> SUFFICES ASSUME Init PROVE BaseInv
  OBVIOUS
<1>1. /\ queue = 0 /\ busy = FALSE /\ since = "unset" /\ valid = TRUE /\ dialogs = 0
      /\ window = "open" /\ lock = TRUE /\ quit = FALSE /\ shm = 0
      /\ toWorker = <<"start">> /\ toGui = <<>> /\ current = 0 /\ next = -1
      /\ proc = [p \in Procs |-> [state |-> "none", job |-> 0]]
      /\ pipe = [p \in Procs |-> <<>>]
      /\ ranges = 0 /\ got = 0 /\ faults = 0 /\ disturbed = FALSE
  BY DEF Init
<1>2. proc \in [Procs -> ProcType] /\ \A p \in Procs : proc[p].job = 0
  BY <1>1 DEF ProcType, States
<1>3. pipe \in [Procs -> Seq(Nat)] /\ toGui \in Seq(Events)
  BY <1>1, EmptySeq
<1>4. toWorker \in Seq({"start", "quit"})
  BY <1>1
<1>5. TypeOK
  <2>1. shm \in 0..ranges /\ queue \in 0..(ranges - shm) /\ got \in 0..shm
    BY <1>1
  <2>2. current \in Procs \cup {0} /\ next \in Procs \cup {0, -1}
    BY <1>1
  <2>3. /\ ranges \in Nat /\ dialogs \in Nat /\ faults \in Nat
        /\ since \in Since /\ window \in {"open", "closing", "closed"}
    BY <1>1 DEF Since
  <2>4. /\ busy \in BOOLEAN /\ valid \in BOOLEAN /\ lock \in BOOLEAN
        /\ quit \in BOOLEAN /\ disturbed \in BOOLEAN
    BY <1>1
  <2> QED
    BY <1>2, <1>3, <1>4, <2>1, <2>2, <2>3, <2>4, Zenon DEF TypeOK
<1>6. NothingDropped /\ Started
  BY <1>1 DEF NothingDropped, Started
<1>7. JobsAsked
  <2>1. \A p \in Procs : Len(pipe[p]) = 0
    BY <1>1
  <2> QED
    BY <1>1, <1>2, <2>1 DEF JobsAsked
<1> QED
  BY <1>5, <1>6, <1>7 DEF BaseInv

\* BaseInv is inductive.
LEMMA BaseNext == BaseInv /\ [Next]_vars => BaseInv'
<1> SUFFICES ASSUME BaseInv, [Next]_vars PROVE BaseInv'
  OBVIOUS
<1>1. CASE Gui
  <2>1. ASSUME NEW ready \in BOOLEAN, NEW paused \in BOOLEAN, NEW kept \in BOOLEAN,
               Decode(ready, paused, kept)
        PROVE  BaseInv'
    BY <2>1, BaseDecode
  <2> QED
    BY <1>1, <2>1, BaseDecodeDone, BaseSubProcessFailed, BaseRestart, BaseClosing
    DEF Gui
<1>2. CASE WorkerThread
  BY <1>2, BaseWorkerStart, BaseWorkerQuit, BaseReplace, BaseReadLine,
     BaseNoticeDeath DEF WorkerThread
<1>3. CASE Later
  BY <1>3, BaseLater
<1>4. CASE \E p \in Procs : Program(p)
  BY <1>4, BaseProgram
<1>5. CASE UNCHANGED vars
  BY <1>5 DEF vars, BaseInv, TypeOK, NothingDropped, JobsAsked, Started
<1> QED
  BY <1>1, <1>2, <1>3, <1>4, <1>5 DEF Next

\* The variables keep their types, and no number of a job is ahead of the
\* number of jobs handed over, nor that of the ranges that were ready.
THEOREM TypeInvariant == Spec => []TypeOK
<1>1. BaseInv => TypeOK
  BY DEF BaseInv
<1> QED
  BY BaseInit, BaseNext, <1>1, PTL DEF Spec

\* Whatever program died, hung or was restarted, the lock file is there
\* whenever the busy flag is clear: what decodeProcessQueue takes out of the
\* queue is decoded.
THEOREM NothingDroppedAlways == Spec => []NothingDropped
<1>1. BaseInv => NothingDropped
  BY DEF BaseInv
<1> QED
  BY BaseInit, BaseNext, <1>1, PTL DEF Spec

-----------------------------------------------------------------------------
(* One program at work, until a restart is ordered over one that is well.  *)

\* A program at work may stop, or go on; only a program that sleeps over its
\* line has one under way, and with .lock in place none reads.
LEMMA SoloStep ==
  ASSUME TypeOK, Started, Solo, NEW p \in Procs,
         \A q \in Procs : q # p => proc'[q] = proc[q] /\ pipe'[q] = pipe[q],
         Working(p)' => Working(p),
         lock => ~Reading(p)',
         pipe'[p] # <<>> => proc'[p].state = "sleeping",
         (\E i \in 1..Len(toGui) : toGui[i].kind = "line" /\ toGui[i].proc = p)
           => proc'[p].state = "sleeping",
         UNCHANGED <<lock, toWorker, toGui, current, next>>
  PROVE  Solo'
<1>1. \A q \in Procs : Working(q)' => Working(q)
  BY DEF Working
<1>2. StartsAlone'
  BY <1>1 DEF Solo, StartsAlone
<1>3. OneAtWork'
  BY <1>1 DEF Solo, OneAtWork
<1>4. OldIsDone'
  <2>1. next # -1 => current \in Procs
    BY DEF TypeOK, Started
  <2> QED
    BY <1>1, <2>1 DEF Solo, OldIsDone
<1>5. PipesSleep'
  BY DEF Solo, PipesSleep
<1>6. LinesSleep'
  <2>1. \A i \in 1..Len(toGui) : toGui[i] \in Events
    BY DEF TypeOK
  <2>2. \A i \in 1..Len(toGui) : toGui[i].proc \in Procs
    BY <2>1 DEF Events
  <2> QED
    BY <2>2 DEF Solo, LinesSleep
<1>7. LockStops'
  BY DEF Solo, LockStops, Reading
<1> QED
  BY <1>2, <1>3, <1>4, <1>5, <1>6, <1>7 DEF Solo

LEMMA SoloDecode ==
  ASSUME Solo, NEW ready \in BOOLEAN, NEW paused \in BOOLEAN,
         NEW kept \in BOOLEAN, Decode(ready, paused, kept)
  PROVE  Solo'
<1>1. /\ lock' => lock
      /\ UNCHANGED <<toWorker, toGui, current, next, proc, pipe>>
  BY DEF Decode, procVars
<1> QED
  BY <1>1 DEF Solo, StartsAlone, OneAtWork, OldIsDone, PipesSleep, LinesSleep,
              LockStops, Working, Reading

\* When the lock file is made, the program that printed the line still sleeps,
\* and no other is at work.
LEMMA SoloDecodeDone ==
  ASSUME TypeOK, Solo, DecodeDone
  PROVE  Solo'
<1>1. /\ Head(toGui).kind = "line" /\ lock' = TRUE
      /\ UNCHANGED <<toWorker, current, next, proc, pipe>>
  BY DEF DecodeDone, Event, procVars
<1>2. /\ Head(toGui) = toGui[1] /\ 1 \in 1..Len(toGui) /\ Head(toGui) \in Events
      /\ \A i \in 1..Len(toGui') : i + 1 \in 1..Len(toGui) /\ toGui'[i] = toGui[i + 1]
  BY EventTakes DEF DecodeDone
<1>3. Head(toGui).proc \in Procs /\ proc[Head(toGui).proc].state = "sleeping"
  BY <1>1, <1>2 DEF Solo, LinesSleep, Events
<1>4. \A q \in Procs : ~Reading(q)
  <2>1. \A q \in Procs : Reading(q) => q = Head(toGui).proc
    BY <1>3 DEF Solo, OneAtWork, Working, Reading
  <2> QED
    BY <1>3, <2>1 DEF Reading
<1>5. StartsAlone' /\ OneAtWork' /\ OldIsDone' /\ PipesSleep'
  BY <1>1 DEF Solo, StartsAlone, OneAtWork, OldIsDone, PipesSleep, Working
<1>6. LinesSleep'
  BY <1>1, <1>2 DEF Solo, LinesSleep
<1>7. LockStops'
  BY <1>1, <1>4 DEF LockStops, Reading
<1> QED
  BY <1>5, <1>6, <1>7 DEF Solo

LEMMA SoloSubProcessFailed ==
  ASSUME TypeOK, Solo, SubProcessFailed
  PROVE  Solo'
<1>1. UNCHANGED <<lock, toWorker, current, next, proc, pipe>>
  BY DEF SubProcessFailed, procVars, fileVars
<1>2. \A i \in 1..Len(toGui') : i + 1 \in 1..Len(toGui) /\ toGui'[i] = toGui[i + 1]
  BY EventTakes DEF SubProcessFailed
<1>3. StartsAlone' /\ OneAtWork' /\ OldIsDone' /\ PipesSleep'
  BY <1>1 DEF Solo, StartsAlone, OneAtWork, OldIsDone, PipesSleep, Working
<1>4. LinesSleep'
  BY <1>1, <1>2 DEF Solo, LinesSleep
<1>5. LockStops'
  BY <1>1 DEF Solo, LockStops, Reading
<1> QED
  BY <1>3, <1>4, <1>5 DEF Solo

\* A restart that disturbs nobody finds no program at work.
LEMMA SoloRestart ==
  ASSUME TypeOK, Solo, Acknowledge \/ CheckHanging, ~disturbed'
  PROVE  Solo'
<1>1. /\ toWorker' = Append(toWorker, "start") /\ ~InOrder
      /\ UNCHANGED <<toGui, current, next, proc, pipe>>
  BY DEF Acknowledge, CheckHanging, InitDecoderSubprocess, procVars
<1>2. toWorker = <<>> /\ next = -1
  BY <1>1 DEF InOrder, TypeOK, Procs, Solo, OldIsDone
<1>3. \A q \in Procs : ~Working(q)
  BY <1>1 DEF InOrder, Alive, Working
<1>4. toWorker' = <<"start">>
  BY <1>1, <1>2
<1>5. StartsAlone'
  BY <1>1, <1>2, <1>3, <1>4 DEF StartsAlone, Working
<1>6. OneAtWork' /\ OldIsDone' /\ PipesSleep' /\ LinesSleep'
  BY <1>1 DEF Solo, OneAtWork, OldIsDone, PipesSleep, LinesSleep, Working
<1>7. LockStops'
  BY <1>1, <1>3 DEF LockStops, Working, Reading
<1> QED
  BY <1>5, <1>6, <1>7 DEF Solo

\* When a program starts, no other is at work and no line is under way.
LEMMA SoloWorkerStart ==
  ASSUME TypeOK, Started, Solo, WorkerStart
  PROVE  Solo'
<1>1. /\ next = -1 /\ toWorker # <<>> /\ toWorker' = Tail(toWorker)
      /\ UNCHANGED <<lock, toGui, pipe>>
  BY StartOne
<1>2. PICK p \in Procs :
        /\ proc[p].state = "none"
        /\ proc' = [proc EXCEPT ![p].state = "polling"]
        /\ \/ current = 0 /\ current' = p /\ next' = next
           \/ current # 0 /\ current' = current /\ next' = p
  BY StartOne
<1>3. /\ proc'[p].state = "polling"
      /\ \A q \in Procs : q # p => proc'[q] = proc[q]
  BY <1>2, StateChange DEF States
<1>4. toWorker' = <<>> /\ \A q \in Procs : ~Working(q)
  <2>1. toWorker = <<"start">> /\ \A q \in Procs : ~Working(q)
    BY <1>1 DEF Solo, StartsAlone
  <2>2. Tail(<<"start">>) = <<>>
    OBVIOUS
  <2> QED
    BY <1>1, <2>1, <2>2, Zenon
<1>5. \A q \in Procs : Working(q)' => q = p
  BY <1>3, <1>4 DEF Working
<1>6. StartsAlone' /\ OneAtWork'
  BY <1>4, <1>5 DEF StartsAlone, OneAtWork
<1>7. OldIsDone'
  <2>1. ASSUME next' # -1 PROVE next' # 0 /\ ~Working(current)'
    <3>1. current # 0 /\ current' = current /\ next' = p
      BY <1>1, <1>2, <2>1
    <3>2. current \in Procs /\ current # p /\ 0 \notin Procs
      BY <1>2, <3>1 DEF TypeOK, Started, Procs
    <3> QED
      BY <1>5, <3>1, <3>2 DEF Working
  <2> QED
    BY <2>1 DEF OldIsDone, Working
<1>8. PipesSleep'
  BY <1>1, <1>4 DEF Solo, PipesSleep, Working
<1>9. LinesSleep'
  <2>1. \A i \in 1..Len(toGui) : toGui[i] \in Events
    BY DEF TypeOK
  <2>2. \A i \in 1..Len(toGui) : toGui[i].proc \in Procs
    BY <2>1 DEF Events
  <2>3. \A i \in 1..Len(toGui) : toGui[i].kind # "line"
    BY <1>4, <2>2 DEF Solo, LinesSleep, Working
  <2> QED
    BY <1>1, <2>3 DEF LinesSleep
<1>10. LockStops'
  <2>1. \A q \in Procs : ~Reading(q)'
    BY <1>3, <1>4 DEF Working, Reading
  <2> QED
    BY <2>1 DEF LockStops, Reading
<1> QED
  BY <1>6, <1>7, <1>8, <1>9, <1>10 DEF Solo

\* The worker is not told to quit before the window closes.
LEMMA SoloWorkerQuit ==
  ASSUME Solo, WorkerQuit
  PROVE  FALSE
BY DEF Solo, StartsAlone, WorkerQuit

\* A program that is not at work has no line under way, and its end adds none.
LEMMA SoloReport ==
  ASSUME TypeOK, JobsAsked, Solo, NEW p \in Procs, Report(p), ~Working(p)
  PROVE  /\ \A q \in Procs : Working(q)' => Working(q)
         /\ \A q \in Procs : Working(q) => proc'[q] = proc[q]
         /\ PipesSleep' /\ LinesSleep' /\ (UNCHANGED lock => LockStops')
<1>1. /\ proc'[p].state = "gone" /\ pipe'[p] = <<>>
      /\ \A q \in Procs : q # p => proc'[q] = proc[q] /\ pipe'[q] = pipe[q]
  BY ReportEnds
<1>2. pipe[p] = <<>>
  BY DEF Solo, PipesSleep, Working
<1>3. \A i \in 1..Len(toGui') : toGui'[i].kind = "line" =>
        \E k \in 1..Len(toGui) : toGui'[i] = toGui[k]
  BY <1>2, ReportAdds
<1>4. /\ \A q \in Procs : Working(q)' => Working(q)
      /\ \A q \in Procs : Working(q) => proc'[q] = proc[q]
  BY <1>1 DEF Working
<1>5. PipesSleep'
  BY <1>1 DEF Solo, PipesSleep
<1>6. LinesSleep'
  <2>1. \A k \in 1..Len(toGui) : toGui[k] \in Events
    BY DEF TypeOK
  <2>2. \A k \in 1..Len(toGui) : toGui[k].proc \in Procs
    BY <2>1 DEF Events
  <2>3. \A k \in 1..Len(toGui) : toGui[k].kind = "line" =>
          proc'[toGui[k].proc].state = "sleeping"
    BY <1>4, <2>2 DEF Solo, LinesSleep, Working
  <2> QED
    BY <1>3, <2>3 DEF LinesSleep
<1>7. UNCHANGED lock => LockStops'
  BY <1>1 DEF Solo, LockStops, Reading
<1> QED
  BY <1>4, <1>5, <1>6, <1>7

\* The program replaced is not at work.
LEMMA SoloReplace ==
  ASSUME TypeOK, JobsAsked, Started, Solo, Replace
  PROVE  Solo'
<1>1. /\ next # -1 /\ current' = next /\ next' = -1
      /\ UNCHANGED <<lock, toWorker>>
  BY DEF Replace, guiVars, fileVars
<1>2. current \in Procs /\ ~Working(current) /\ toWorker = <<>>
  BY <1>1 DEF TypeOK, Started, Solo, OldIsDone, StartsAlone
<1>3. OldIsDone' /\ StartsAlone'
  BY <1>1, <1>2 DEF OldIsDone, StartsAlone
<1>4. CASE Report(current)
  <2>1. /\ \A q \in Procs : Working(q)' => Working(q)
        /\ PipesSleep' /\ LinesSleep' /\ (UNCHANGED lock => LockStops')
    BY <1>2, <1>4, SoloReport
  <2> QED
    BY <1>1, <1>3, <2>1 DEF Solo, OneAtWork
<1>5. CASE UNCHANGED <<proc, pipe, toGui>>
  BY <1>1, <1>3, <1>5 DEF Solo, OneAtWork, PipesSleep, LinesSleep, LockStops,
                          Working, Reading
<1> QED
  BY <1>4, <1>5 DEF Replace, procVars

LEMMA SoloNoticeDeath ==
  ASSUME TypeOK, JobsAsked, Started, Solo, NoticeDeath
  PROVE  Solo'
<1>1. /\ current # 0 /\ proc[current].state \in {"died", "exited"}
      /\ Report(current)
      /\ UNCHANGED <<lock, toWorker, current, next>>
  BY DEF NoticeDeath, guiVars, fileVars
<1>2. current \in Procs /\ ~Working(current)
  BY <1>1 DEF TypeOK, Working
<1>3. /\ \A q \in Procs : Working(q)' => Working(q)
      /\ PipesSleep' /\ LinesSleep' /\ (UNCHANGED lock => LockStops')
  BY <1>1, <1>2, SoloReport
<1>4. StartsAlone' /\ OneAtWork'
  BY <1>1, <1>3 DEF Solo, StartsAlone, OneAtWork
<1>5. OldIsDone'
  <2>1. next = -1
    BY DEF NoticeDeath
  <2> QED
    BY <1>1, <2>1 DEF OldIsDone
<1> QED
  BY <1>1, <1>3, <1>4, <1>5 DEF Solo

LEMMA SoloReadLine ==
  ASSUME TypeOK, Solo, ReadLine
  PROVE  Solo'
<1>1. /\ current \in Procs /\ pipe[current] # <<>>
      /\ Len(toGui') = Len(toGui) + 1
      /\ \A i \in 1..Len(toGui) : toGui'[i] = toGui[i]
      /\ toGui'[Len(toGui) + 1] = Signal("line", current, Head(pipe[current]))
      /\ \A q \in Procs : q # current => pipe'[q] = pipe[q]
      /\ UNCHANGED <<lock, toWorker, current, next, proc>>
  BY LineRead
<1>2. proc[current].state = "sleeping"
  BY <1>1 DEF Solo, PipesSleep
<1>3. StartsAlone' /\ OneAtWork' /\ OldIsDone' /\ LockStops'
  BY <1>1 DEF Solo, StartsAlone, OneAtWork, OldIsDone, LockStops, Working, Reading
<1>4. PipesSleep'
  BY <1>1, <1>2 DEF Solo, PipesSleep
<1>5. LinesSleep'
  <2>1. Len(toGui) \in Nat
    BY DEF TypeOK
  <2>2. Signal("line", current, Head(pipe[current])).proc = current
    BY DEF Signal
  <2>3. \A i \in 1..Len(toGui') : i \in 1..Len(toGui) \/ i = Len(toGui) + 1
    BY <1>1, <2>1
  <2> QED
    BY <1>1, <1>2, <2>2, <2>3 DEF Solo, LinesSleep
<1> QED
  BY <1>3, <1>4, <1>5 DEF Solo

\* The pause of 100 ms is what keeps a program from reading again before its
\* line has arrived.
LEMMA SoloProgram ==
  ASSUME PromptGui, TypeOK, Started, Solo, NEW p \in Procs, Program(p)
  PROVE  Solo'
<1>1. /\ proc \in [Procs -> ProcType] /\ pipe \in [Procs -> Seq(Nat)]
      /\ UNCHANGED <<lock, toWorker, toGui, current, next>>
  BY DEF TypeOK, Program, Poll, Check, Finish, Wake, Fail, Goes, guiVars, fileVars
<1>2. /\ pipe[p] # <<>> => proc[p].state = "sleeping"
      /\ (\E i \in 1..Len(toGui) : toGui[i].kind = "line" /\ toGui[i].proc = p)
           => proc[p].state = "sleeping"
  BY DEF Solo, PipesSleep, LinesSleep
<1>3. \A q \in Procs : q # p => proc'[q] = proc[q] /\ pipe'[q] = pipe[q]
  BY <1>1 DEF Program, Poll, Check, Finish, Wake, Fail, Goes
<1>4. ASSUME NEW s \in States, NEW t \in States, Goes(p, s, t)
      PROVE  proc[p].state = s /\ proc'[p].state = t
  BY <1>4, StateChange DEF Goes
<1>5. CASE Poll(p) \/ Check(p)
  <2>1. /\ proc[p].state \in {"polling", "checking"}
        /\ proc'[p].state \in {"checking", "decoding", "exited"}
        /\ pipe' = pipe
    <3>1. CASE Check(p) /\ ~quit
      <4>1. /\ proc[p].state = "checking" /\ pipe' = pipe
            /\ proc' = [proc EXCEPT ![p] = [state |-> "decoding", job |-> shm]]
        BY <3>1 DEF Check
      <4> QED
        BY <1>1, <4>1
    <3>2. CASE Check(p) /\ quit
      <4>1. Goes(p, "checking", "exited") /\ pipe' = pipe
        BY <3>2 DEF Check
      <4> QED
        BY <1>4, <4>1 DEF States
    <3>3. CASE Poll(p)
      <4>1. Goes(p, "polling", "checking") /\ pipe' = pipe
        BY <3>3 DEF Poll
      <4> QED
        BY <1>4, <4>1 DEF States
    <3> QED
      BY <1>5, <3>1, <3>2, <3>3
  <2>2. Working(p)
    BY <2>1 DEF Working
  <2>3. lock => ~Reading(p)'
    <3>1. CASE Poll(p)
      BY <3>1 DEF Poll
    <3>2. CASE Check(p)
      <4>1. proc[p].state = "checking"
        BY <3>2, <2>1 DEF Check, Goes
      <4> QED
        BY <4>1 DEF Solo, LockStops, Reading
    <3> QED
      BY <1>5, <3>1, <3>2
  <2>4. /\ pipe'[p] = <<>>
        /\ ~\E i \in 1..Len(toGui) : toGui[i].kind = "line" /\ toGui[i].proc = p
    BY <1>2, <2>1
  <2> QED
    BY <1>1, <1>3, <2>2, <2>3, <2>4, SoloStep
<1>6. CASE Finish(p)
  <2>1. proc[p].state = "decoding" /\ proc'[p].state = "sleeping"
    BY <1>4, <1>6 DEF Finish, States
  <2>2. Working(p) /\ ~Reading(p)'
    BY <2>1 DEF Working, Reading
  <2> QED
    BY <1>1, <1>3, <2>1, <2>2, SoloStep
<1>7. CASE Wake(p)
  <2>1. /\ proc[p].state = "sleeping" /\ proc'[p].state = "polling"
        /\ pipe' = pipe
    BY <1>4, <1>7 DEF Wake, States
  <2>2. Working(p) /\ ~Reading(p)'
    BY <2>1 DEF Working, Reading
  <2>3. /\ pipe'[p] = <<>>
        /\ ~\E i \in 1..Len(toGui) : toGui[i].kind = "line" /\ toGui[i].proc = p
    BY <1>7, <2>1 DEF Wake
  <2> QED
    BY <1>1, <1>3, <2>2, <2>3, SoloStep
<1>8. CASE Fail(p)
  <2>1. PICK s \in {"polling", "decoding", "hung"}, fault \in Faults :
          Goes(p, s, fault)
    BY <1>8 DEF Fail
  <2>2. fault \in {"died", "exited", "hung"}
    BY <2>1, DecoderAssumption
  <2>3. proc[p].state = s /\ proc'[p].state = fault /\ pipe' = pipe
    BY <1>4, <1>8, <2>1, <2>2 DEF Fail, States
  <2>4. ~Working(p)' /\ ~Reading(p)'
    BY <2>2, <2>3 DEF Working, Reading
  <2>5. /\ pipe'[p] = <<>>
        /\ ~\E i \in 1..Len(toGui) : toGui[i].kind = "line" /\ toGui[i].proc = p
    BY <1>2, <2>1, <2>3
  <2> QED
    BY <1>1, <1>3, <2>4, <2>5, SoloStep
<1> QED
  BY <1>5, <1>6, <1>7, <1>8 DEF Program

LEMMA SoloUnchanged ==
  ASSUME Solo, UNCHANGED <<lock, toWorker, toGui, current, next, proc, pipe>>
  PROVE  Solo'
BY DEF Solo, StartsAlone, OneAtWork, OldIsDone, PipesSleep, LinesSleep,
       LockStops, Working, Reading

LEMMA SoloInit == Init => SoloInv
<1> SUFFICES ASSUME Init PROVE Solo
  BY DEF SoloInv
<1>1. /\ toWorker = <<"start">> /\ toGui = <<>> /\ next = -1
      /\ \A p \in Procs : proc[p].state = "none" /\ pipe[p] = <<>>
  BY DEF Init
<1>2. StartsAlone /\ OneAtWork /\ OldIsDone /\ PipesSleep /\ LockStops
  BY <1>1 DEF StartsAlone, OneAtWork, OldIsDone, PipesSleep, LockStops,
              Working, Reading
<1>3. LinesSleep
  BY <1>1 DEF LinesSleep
<1> QED
  BY <1>2, <1>3 DEF Solo

\* IInv is inductive if the GUI thread is prompt.
LEMMA SoloNext == ASSUME PromptGui PROVE IInv /\ [Next]_vars => SoloInv'
<1> SUFFICES ASSUME IInv, [Next]_vars, window' = "open", ~disturbed'
             PROVE  Solo'
  BY DEF SoloInv, Solo, StartsAlone, OneAtWork, OldIsDone, PipesSleep,
         LinesSleep, LockStops, Working, Reading
<1>1. TypeOK /\ JobsAsked /\ Started
  BY DEF IInv, BaseInv
<1>2. window = "open" /\ ~disturbed
  BY <1>1 DEF Next, Gui, Decode, DecodeDone, SubProcessFailed, Event, Acknowledge,
         CheckHanging, Close, Closed, InitDecoderSubprocess, WorkerThread,
         WorkerStart, WorkerQuit, Replace, ReadLine, NoticeDeath, Later, Program,
         Poll, Check, Finish, Wake, Fail, Goes, guiVars, vars, TypeOK
<1>3. Solo
  BY <1>2 DEF IInv, SoloInv
<1>4. CASE Gui
  <2>1. ~Close /\ ~Closed
    BY DEF Close, Closed
  <2>2. ASSUME NEW ready \in BOOLEAN, NEW paused \in BOOLEAN, NEW kept \in BOOLEAN,
               Decode(ready, paused, kept)
        PROVE  Solo'
    BY <1>3, <2>2, SoloDecode
  <2> QED
    BY <1>1, <1>3, <1>4, <2>1, <2>2, SoloDecodeDone, SoloSubProcessFailed,
       SoloRestart DEF Gui
<1>5. CASE WorkerThread
  BY <1>1, <1>3, <1>5, SoloWorkerStart, SoloWorkerQuit, SoloReplace, SoloReadLine,
     SoloNoticeDeath DEF WorkerThread
<1>6. CASE Later
  <2>1. UNCHANGED <<lock, toWorker, toGui, current, next, proc, pipe>>
    BY <1>6 DEF Later, fileVars, procVars
  <2> QED
    BY <1>3, <2>1, SoloUnchanged
<1>7. CASE \E p \in Procs : Program(p)
  BY <1>1, <1>3, <1>7, SoloProgram
<1>8. CASE UNCHANGED vars
  BY <1>3, <1>8, SoloUnchanged DEF vars
<1> QED
  BY <1>4, <1>5, <1>6, <1>7, <1>8 DEF Next

\* As long as the GUI thread sees the end of a decode within the 100 ms that
\* the program sleeps, decodeProcessQueue never writes the shared memory under
\* a program that reads it; only a restart ordered over one that is well ends
\* that.
THEOREM NoOverlapAlways == ASSUME PromptGui PROVE Spec => NoOverlap
<1>1. Init => IInv
  BY BaseInit, SoloInit DEF IInv
<1>2. IInv /\ [Next]_vars => IInv'
  BY BaseNext, SoloNext DEF IInv
<1>3. IInv /\ [Next]_vars =>
        [shm' # shm /\ ~disturbed => \A p \in Procs : ~Reading(p)]_vars
  <2> SUFFICES ASSUME IInv, [Next]_vars, shm' # shm, ~disturbed
               PROVE  \A p \in Procs : ~Reading(p)
    OBVIOUS
  <2>1. \E ready, paused, kept \in BOOLEAN : Decode(ready, paused, kept)
    BY DEF Next, Gui, DecodeDone, SubProcessFailed, Acknowledge, CheckHanging,
           Close, Closed, WorkerThread, WorkerStart, WorkerQuit, Replace, ReadLine,
           NoticeDeath, Later, Program, Poll, Check, Finish, Wake, Fail, Goes,
           fileVars, vars
  <2>2. window = "open" /\ lock
    BY <2>1 DEF Decode
  <2> QED
    BY <2>2 DEF IInv, SoloInv, Solo, LockStops
<1> QED
  BY <1>1, <1>2, <1>3, PTL DEF Spec, NoOverlap

=============================================================================
