-------------------------- MODULE DecoderHandshake --------------------------
(***************************************************************************)
(* How MainWindow gets audio decoded.  The decoder is a program of its own *)
(* (js8, lib/jt9a.f90) that shares a block of memory with MainWindow; the  *)
(* file .lock says whose turn it is.  Three kinds of actors take part:     *)
(*   - the GUI thread: decode() whenever audio has arrived, the output of  *)
(*     the program, the error dialogs, the check for a hanging decoder;    *)
(*   - the worker thread, which owns the QProcess and replaces it;         *)
(*   - the programs: usually one, two for a moment during a replacement.   *)
(***************************************************************************)
EXTENDS Integers, Sequences

CONSTANTS
  MaxRanges,    \* bound: ranges of audio found ready in a run
  MaxProcs,     \* bound: programs started in a run
  MaxFaults,    \* bound: programs that die or hang
  Faults,       \* in what ways: "died", "exited", "hung"
  Closes,       \* may the window be closed
  PromptGui     \* does the GUI thread see the end of a decode within 100 ms

ASSUME DecoderAssumption ==
  /\ MaxRanges \in Nat /\ MaxProcs \in Nat \ {0} /\ MaxFaults \in Nat
  /\ Faults \subseteq {"died", "exited", "hung"}
  /\ Closes \in BOOLEAN /\ PromptGui \in BOOLEAN

Procs == 1..MaxProcs

VARIABLES
  queue,     \* length of m_decoderQueue
  busy,      \* m_decoderBusy
  since,     \* how long ago m_decoderBusyStartTime was
  valid,     \* m_valid
  dialogs,   \* error dialogs open, one inside the other
  window,    \* the window: open, in closeEvent, closed
  lock,      \* does .lock exist
  quit,      \* does .quit exist
  shm,       \* the job in the shared memory, counted from 1
  toWorker,  \* signals for the worker thread
  toGui,     \* signals from the worker thread
  current,   \* Worker::m_proc, 0 for none
  next,      \* in Worker::setProcess: the program that comes next, else -1
  proc,      \* the programs
  pipe,      \* lines a program has printed that the worker has not read
  ranges,    \* history: ranges queued so far
  got,       \* history: the job whose answer was accepted last
  faults,    \* history: faults so far
  disturbed  \* history: was a restart ordered with a decoder that was well

vars == <<queue, busy, since, valid, dialogs, window, lock, quit, shm, toWorker,
          toGui, current, next, proc, pipe, ranges, got, faults, disturbed>>

guiVars  == <<queue, busy, since, valid, dialogs, window, ranges, got, disturbed>>
fileVars == <<lock, quit, shm>>
procVars == <<proc, pipe, faults>>

\* "now" is less than a second ago, "long" a minute or more.
Since == {"unset", "now", "recent", "long"}
\* "checking": the program has found .lock gone and is about to look for
\* .quit; "sleeping": it has printed <DecodeFinished> and waits 100 ms.
States == {"none", "polling", "checking", "decoding", "sleeping", "hung",
           "died",     \* crashed, and Qt has not noticed yet
           "exited",   \* ended by itself, whatever its exit code; the same
           "gone"}
ProcType == [state : States, job : Nat]
Events == [kind : {"line", "error", "finished"}, proc : Procs, job : Nat]

Alive(p) == proc[p].state \in {"polling", "checking", "decoding", "sleeping", "hung"}
Reading(p) == proc[p].state \in {"checking", "decoding"}

\* The decoder is well, or is being started.
InOrder == \/ toWorker # <<>> \/ next > 0
           \/ \E p \in Procs : Alive(p) /\ proc[p].state # "hung"

-----------------------------------------------------------------------------
(* The GUI thread.                                                         *)

Init ==
  /\ queue = 0 /\ busy = FALSE /\ since = "unset" /\ valid = TRUE /\ dialogs = 0
  /\ window = "open" /\ lock = TRUE /\ quit = FALSE /\ shm = 0
  /\ toWorker = <<"start">> /\ toGui = <<>> /\ current = 0 /\ next = -1
  /\ proc = [p \in Procs |-> [state |-> "none", job |-> 0]]
  /\ pipe = [p \in Procs |-> <<>>]
  /\ ranges = 0 /\ got = 0 /\ faults = 0 /\ disturbed = FALSE

\* Variant: decodeProcessQueue copies the queue instead of emptying it.
Decode_KeepsQueue(ready, paused, kept) ==
  LET n == IF ready THEN queue + 1 ELSE queue
      start == ~paused /\ since # "now" /\ ~busy /\ n > 0 /\ kept /\ lock
  IN  /\ window = "open" /\ (ready => ranges < MaxRanges)
      /\ queue' = n
      /\ ranges' = IF ready THEN ranges + 1 ELSE ranges
      /\ busy' = (busy \/ start)
      /\ since' = IF start THEN "now" ELSE since
      /\ shm' = IF start THEN shm + 1 ELSE shm
      /\ lock' = (lock /\ ~start)
      /\ UNCHANGED <<valid, dialogs, window, quit, toWorker, toGui, current,
                     next, got, disturbed>>
      /\ UNCHANGED procVars

\* decode: ready when decodeEnqueueReady found a range to decode, paused while
\* transmitting and shortly after, kept when one of the ranges in the queue is
\* of a speed being decoded.  decodeProcessQueue empties the queue.
Decode(ready, paused, kept) ==
  LET n == IF ready THEN queue + 1 ELSE queue
      process == ~paused /\ since # "now" /\ ~busy /\ n > 0
      start   == process /\ kept /\ lock
  IN  /\ window = "open" /\ (ready => ranges < MaxRanges)
      /\ queue' = IF process THEN 0 ELSE n
      /\ ranges' = IF ready THEN ranges + 1 ELSE ranges
      /\ busy' = (busy \/ start)
      /\ since' = IF start THEN "now" ELSE since
      /\ shm' = IF start THEN shm + 1 ELSE shm
      /\ lock' = (lock /\ ~start)
      /\ UNCHANGED <<valid, dialogs, window, quit, toWorker, toGui, current,
                     next, got, disturbed>>
      /\ UNCHANGED procVars

\* Variant: the busy flag is left as it is.
InitDecoderSubprocess_Busy ==
  /\ quit' = FALSE /\ lock' = TRUE
  /\ toWorker' = Append(toWorker, "start")
  /\ valid' = TRUE
  /\ disturbed' = (disturbed \/ InOrder)
  /\ UNCHANGED busy

InitDecoderSubprocess ==
  /\ quit' = FALSE /\ lock' = TRUE
  /\ toWorker' = Append(toWorker, "start")
  /\ busy' = FALSE /\ valid' = TRUE
  /\ disturbed' = (disturbed \/ InOrder)

\* The next signal from the worker thread, also while a dialog is open.
Event(kind) ==
  /\ window = "open" /\ toGui # <<>> /\ Head(toGui).kind = kind
  /\ toGui' = Tail(toGui)

\* Variant: the flag is cleared, and the lock file not made.
DecodeDone_NoLock ==
  /\ Event("line")
  /\ busy' = FALSE /\ got' = Head(toGui).job
  /\ UNCHANGED <<lock, queue, since, valid, dialogs, window, ranges, quit, shm,
                 toWorker, current, next, disturbed>>
  /\ UNCHANGED procVars

\* processDecodedLine for <DecodeFinished>, decodeDone
DecodeDone ==
  /\ Event("line")
  /\ lock' = TRUE /\ busy' = FALSE /\ got' = Head(toGui).job
  /\ UNCHANGED <<queue, since, valid, dialogs, window, ranges, quit, shm,
                 toWorker, current, next, disturbed>>
  /\ UNCHANGED procVars

\* subProcessError, subProcessFailed: a dialog, unless one is open for it.
SubProcessFailed ==
  /\ Event("error") \/ Event("finished")
  /\ valid' = FALSE
  /\ dialogs' = IF valid THEN dialogs + 1 ELSE dialogs
  /\ UNCHANGED <<queue, busy, since, window, ranges, got, toWorker, current,
                 next, disturbed>>
  /\ UNCHANGED fileVars /\ UNCHANGED procVars

\* The operator closes the innermost dialog, after the signals that were queued
\* when it opened: the rest of the same handlers.
Acknowledge ==
  /\ window = "open" /\ dialogs > 0 /\ toGui = <<>>
  /\ dialogs' = dialogs - 1
  /\ InitDecoderSubprocess
  /\ UNCHANGED <<queue, since, window, ranges, got, shm, toGui, current, next>>
  /\ UNCHANGED procVars

\* decodeCheckHangingDecoder, once per transmit period
CheckHanging ==
  /\ window = "open" /\ busy /\ since = "long"
  /\ since' = "unset"
  /\ InitDecoderSubprocess
  /\ UNCHANGED <<queue, dialogs, window, ranges, got, shm, toGui, current, next>>
  /\ UNCHANGED procVars

\* closeEvent; .quit is gone again before the worker thread is asked to wait.
Close ==
  /\ Closes /\ window = "open" /\ dialogs = 0
  /\ window' = "closing" /\ valid' = FALSE
  /\ quit' = TRUE /\ lock' = FALSE
  /\ UNCHANGED <<queue, busy, since, dialogs, ranges, got, shm, toWorker, toGui,
                 current, next, disturbed>>
  /\ UNCHANGED procVars

Closed ==
  /\ window = "closing"
  /\ window' = "closed" /\ quit' = FALSE
  /\ toWorker' = Append(toWorker, "quit")
  /\ UNCHANGED <<queue, busy, since, valid, dialogs, ranges, got, lock, shm,
                 toGui, current, next, disturbed>>
  /\ UNCHANGED procVars

-----------------------------------------------------------------------------
(* The worker thread.                                                      *)

Signal(kind, p, j) == [kind |-> kind, proc |-> p, job |-> j]

\* What is left to read of a program that has died is read first.
Lines(p) == [i \in 1..Len(pipe[p]) |-> Signal("line", p, pipe[p][i])]
Failure(p) == <<Signal("error", p, 0), Signal("finished", p, 0)>>

\* Qt notices that p has died; an end that is no crash concerns nobody.
Report(p) ==
  /\ toGui' = toGui \o Lines(p) \o
              (IF proc[p].state = "exited" THEN <<>> ELSE Failure(p))
  /\ proc' = [proc EXCEPT ![p].state = "gone"]
  /\ pipe' = [pipe EXCEPT ![p] = <<>>]
  /\ UNCHANGED faults

\* Worker::start: the new program runs before the old one is waited for.
WorkerStart ==
  /\ next = -1 /\ toWorker # <<>> /\ Head(toWorker) = "start"
  /\ toWorker' = Tail(toWorker)
  /\ \E p \in Procs :
       /\ proc[p].state = "none" /\ (p > 1 => proc[p - 1].state # "none")
       /\ proc' = [proc EXCEPT ![p].state = "polling"]
       /\ IF current = 0 THEN current' = p /\ UNCHANGED next
                         ELSE next' = p /\ UNCHANGED current
  /\ UNCHANGED guiVars /\ UNCHANGED fileVars
  /\ UNCHANGED <<toGui, pipe, faults>>

\* Worker::quit
WorkerQuit ==
  /\ next = -1 /\ toWorker # <<>> /\ Head(toWorker) = "quit"
  /\ toWorker' = Tail(toWorker)
  /\ next' = IF current = 0 THEN -1 ELSE 0
  /\ UNCHANGED guiVars /\ UNCHANGED fileVars /\ UNCHANGED procVars
  /\ UNCHANGED <<toGui, current>>

\* Worker::setProcess: waitForFinished ends because the old program is gone,
\* or after a second, and close kills it.
Replace ==
  /\ next # -1
  /\ IF proc[current].state = "gone"
     THEN UNCHANGED procVars /\ UNCHANGED toGui
     ELSE Report(current)
  /\ current' = next /\ next' = -1
  /\ UNCHANGED guiVars /\ UNCHANGED fileVars
  /\ UNCHANGED toWorker

\* readyReadStandardOutput, also from within waitForFinished
ReadLine ==
  /\ current # 0 /\ pipe[current] # <<>>
  /\ toGui' = Append(toGui, Signal("line", current, Head(pipe[current])))
  /\ pipe' = [pipe EXCEPT ![current] = Tail(@)]
  /\ UNCHANGED guiVars /\ UNCHANGED fileVars
  /\ UNCHANGED <<toWorker, current, next, proc, faults>>

NoticeDeath ==
  /\ next = -1 /\ current # 0 /\ proc[current].state \in {"died", "exited"}
  /\ Report(current)
  /\ UNCHANGED guiVars /\ UNCHANGED fileVars
  /\ UNCHANGED <<toWorker, current, next>>

-----------------------------------------------------------------------------
(* A program: the loop of lib/jt9a.f90.                                    *)

Goes(p, from, to) ==
  /\ proc[p].state = from
  /\ proc' = [proc EXCEPT ![p].state = to]
  /\ UNCHANGED guiVars /\ UNCHANGED fileVars
  /\ UNCHANGED <<toWorker, toGui, current, next>>

Poll(p) == ~lock /\ Goes(p, "polling", "checking") /\ UNCHANGED <<pipe, faults>>

Check(p) ==
  IF quit
  THEN Goes(p, "checking", "exited") /\ UNCHANGED <<pipe, faults>>
  ELSE /\ proc[p].state = "checking"
       /\ proc' = [proc EXCEPT ![p] = [state |-> "decoding", job |-> shm]]
       /\ UNCHANGED guiVars /\ UNCHANGED fileVars
       /\ UNCHANGED <<toWorker, toGui, current, next, pipe, faults>>

\* Variant: without the pause of 100 ms.
Finish_NoSleep(p) == /\ Goes(p, "decoding", "polling")
                    /\ pipe' = [pipe EXCEPT ![p] = Append(@, proc[p].job)]
                    /\ UNCHANGED faults

\* <DecodeFinished>
Finish(p) == /\ Goes(p, "decoding", "sleeping")
            /\ pipe' = [pipe EXCEPT ![p] = Append(@, proc[p].job)]
            /\ UNCHANGED faults

\* PromptGui: the hundred milliseconds are enough for the GUI thread.
Wake(p) ==
  /\ PromptGui => /\ pipe[p] = <<>>
                  /\ \A i \in 1..Len(toGui) : toGui[i].proc = p => toGui[i].kind # "line"
  /\ Goes(p, "sleeping", "polling") /\ UNCHANGED <<pipe, faults>>

\* It crashes, ends (a STOP, a run-time error, no shared memory) or hangs.
Fail(p) ==
  /\ faults < MaxFaults /\ faults' = faults + 1
  /\ \E s \in {"polling", "decoding", "hung"}, fault \in Faults :
       /\ fault = "hung" => s = "decoding"
       /\ Goes(p, s, fault)
  /\ UNCHANGED pipe

-----------------------------------------------------------------------------
(* The clock.                                                              *)

\* A program that is well decodes in less than a minute.
Well(p) == Reading(p) \/ proc[p].state = "sleeping" \/ (proc[p].state = "polling" /\ ~lock)

AtRest == toGui = <<>> /\ toWorker = <<>> /\ next = -1

Later ==
  /\ since \in {"now", "recent"} /\ window = "open"
  /\ since = "recent" => /\ busy /\ ~\E p \in Procs : Well(p)
                         /\ AtRest /\ \A p \in Procs : proc[p].state # "died"
  /\ since' = IF since = "now" THEN "recent" ELSE "long"
  /\ UNCHANGED <<queue, busy, valid, dialogs, window, ranges, got, toWorker,
                 toGui, current, next, disturbed>>
  /\ UNCHANGED fileVars /\ UNCHANGED procVars

-----------------------------------------------------------------------------
Gui == \/ \E ready, paused, kept \in BOOLEAN : Decode(ready, paused, kept)
       \/ DecodeDone \/ SubProcessFailed \/ Acknowledge \/ CheckHanging
       \/ Close \/ Closed

WorkerThread == WorkerStart \/ WorkerQuit \/ Replace \/ ReadLine \/ NoticeDeath

Program(p) == Poll(p) \/ Check(p) \/ Finish(p) \/ Wake(p) \/ Fail(p)

Next == Gui \/ WorkerThread \/ Later \/ \E p \in Procs : Program(p)

Spec == Init /\ [][Next]_vars

\* Audio keeps arriving and transmissions end; the threads and the programs
\* run on; the operator answers dialogs.  Nothing makes a program fail.
Fairness ==
  /\ WF_vars(queue > 0 /\ Decode(FALSE, FALSE, TRUE))
  /\ WF_vars(DecodeDone \/ SubProcessFailed) /\ WF_vars(Acknowledge)
  /\ WF_vars(CheckHanging) /\ WF_vars(Closed) /\ WF_vars(Later)
  /\ WF_vars(WorkerThread)
  /\ \A p \in Procs : WF_vars(Poll(p) \/ Check(p) \/ Finish(p) \/ Wake(p))

FairSpec == Spec /\ Fairness

-----------------------------------------------------------------------------
(* Properties.                                                             *)

\* The type invariant; no range of audio is handed over twice, and no job is
\* answered that was not asked for.
TypeOK ==
  /\ ranges \in Nat /\ shm \in 0..ranges /\ queue \in 0..(ranges - shm)
  /\ got \in 0..shm
  /\ busy \in BOOLEAN /\ since \in Since /\ valid \in BOOLEAN
  /\ dialogs \in Nat /\ window \in {"open", "closing", "closed"}
  /\ lock \in BOOLEAN /\ quit \in BOOLEAN
  /\ toWorker \in Seq({"start", "quit"}) /\ toGui \in Seq(Events)
  /\ current \in Procs \cup {0} /\ next \in Procs \cup {0, -1}
  /\ proc \in [Procs -> ProcType] /\ pipe \in [Procs -> Seq(Nat)]
  /\ faults \in Nat /\ disturbed \in BOOLEAN

\* Audio taken out of the queue is handed over: whatever died, hung or was
\* restarted, decodeStart never finds the lock file missing after
\* decodeProcessQueue has emptied the queue.
NothingDropped == window = "open" /\ ~busy => lock

\* decodeProcessQueue never writes the shared memory while a program is
\* reading it; only a restart ordered over a program that is well ends that.
NoOverlap == [][shm' # shm /\ ~disturbed => \A p \in Procs : ~Reading(p)]_vars

\* The handshake keeps what DecodeService promises, until a restart is ordered
\* over a program that is well.
LineFor(j) == \/ \E p \in Procs : \E i \in 1..Len(pipe[p]) : pipe[p][i] = j
              \/ \E i \in 1..Len(toGui) : toGui[i].kind = "line" /\ toGui[i].job = j

AtWork == \E p \in Procs : proc[p] = [state |-> "decoding", job |-> shm]

stage == CASE disturbed -> "void"
           [] ~disturbed /\ ~busy -> "idle"
           [] ~disturbed /\ busy /\ LineFor(shm) -> "answered"
           [] ~disturbed /\ busy /\ ~LineFor(shm) -> IF AtWork THEN "running" ELSE "asked"

Service == INSTANCE DecodeService
             WITH stage <- stage, job <- (IF disturbed THEN 0 ELSE shm),
                  got <- (IF disturbed THEN 0 ELSE got)

ServiceSpec == Service!SSpec

\* The decoder does not stay busy for ever, whatever becomes of the programs,
\* and audio that is waiting is taken out of the queue.  A restart over a
\* program that is well may be followed by any number of others, and more
\* programs than MaxProcs; nothing is said of that case.
BusyEnds == busy ~> (~busy \/ window # "open" \/ disturbed)
QueueDrains == (queue > 0) ~> (queue = 0 \/ window # "open" \/ disturbed)

\* "surpress any other process notifications until process restart": what is
\* reported of a program that is being replaced leads to no other restart, so
\* a program that is well is not killed.
HealthyDecoderSurvives ==
  [][\A p \in Procs : Alive(p) /\ proc[p].state # "hung" /\ window = "open"
                        => proc'[p].state # "gone"]_vars
=============================================================================
