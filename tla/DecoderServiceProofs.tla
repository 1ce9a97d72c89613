------------------------- MODULE DecoderServiceProofs -------------------------
(***************************************************************************)
(* Proof that DecoderHandshake keeps what DecodeService promises, for any  *)
(* number of ranges, programs and faults, as long as the GUI thread is     *)
(* prompt.                                                                 *)
(***************************************************************************)
EXTENDS DecoderHandshakeProofs

\* There is at most one line under way; it answers the job in the shared
\* memory, which is waited for, and so will the line of a program at work.
DecodesShm == \A p \in Procs : proc[p].state = "decoding" => proc[p].job = shm
PipesAnswer ==
  \A p \in Procs : pipe[p] # <<>> =>
    /\ busy /\ Len(pipe[p]) = 1 /\ pipe[p][1] = shm
    /\ \A i \in 1..Len(toGui) : toGui[i].kind # "line"
LinesAnswer ==
  \A i \in 1..Len(toGui) : toGui[i].kind = "line" =>
    /\ busy /\ toGui[i].job = shm
    /\ \A k \in 1..Len(toGui) : toGui[k].kind = "line" => k = i

Answers == DecodesShm /\ PipesAnswer /\ LinesAnswer

AnswerInv == window = "open" /\ ~disturbed => Answers

ServiceInv == IInv /\ AnswerInv

-----------------------------------------------------------------------------
(* Answers, step by step.                                                  *)

\* A step that prints nothing and starts no decode.
LEMMA AnswersKept ==
  ASSUME Answers, UNCHANGED <<busy, shm>>,
         \A p \in Procs : proc'[p].state = "decoding" => proc'[p] = proc[p],
         \A p \in Procs : pipe'[p] # <<>> => pipe'[p] = pipe[p],
         \A i \in 1..Len(toGui') : toGui'[i].kind = "line" =>
           i \in 1..Len(toGui) /\ toGui'[i] = toGui[i]
  PROVE  Answers'
<1>1. DecodesShm'  BY DEF Answers, DecodesShm
<1>2. PipesAnswer'  BY DEF Answers, PipesAnswer
<1>3. LinesAnswer'  BY DEF Answers, LinesAnswer
<1> QED BY <1>1, <1>2, <1>3 DEF Answers

LEMMA AnswersUnchanged ==
  ASSUME Answers, UNCHANGED <<busy, shm, proc, pipe, toGui>>
  PROVE  Answers'
<1>1. /\ \A p \in Procs : proc'[p] = proc[p] /\ pipe'[p] = pipe[p]
      /\ \A i \in 1..Len(toGui') : i \in 1..Len(toGui) /\ toGui'[i] = toGui[i]
  OBVIOUS
<1> QED BY <1>1, AnswersKept

\* A decode is started only when nobody reads and no answer is under way.
LEMMA AnswersDecode ==
  ASSUME TypeOK, Solo, Answers, NEW ready \in BOOLEAN, NEW paused \in BOOLEAN,
         NEW kept \in BOOLEAN, Decode(ready, paused, kept)
  PROVE  Answers'
<1>1. /\ \/ UNCHANGED <<busy, shm>>
         \/ ~busy /\ lock
      /\ UNCHANGED <<toGui, proc, pipe>>
  BY DEF Decode, procVars, TypeOK
<1>2. CASE UNCHANGED <<busy, shm>>
  BY <1>1, <1>2, AnswersUnchanged
<1>3. CASE ~busy /\ lock
  <2>1. \A p \in Procs : proc[p].state # "decoding"
    BY <1>3 DEF Solo, LockStops, Reading
  <2>2. /\ \A p \in Procs : pipe[p] = <<>>
        /\ \A i \in 1..Len(toGui) : toGui[i].kind # "line"
    BY <1>3 DEF Answers, PipesAnswer, LinesAnswer
  <2> QED
    BY <1>1, <2>1, <2>2 DEF Answers, DecodesShm, PipesAnswer, LinesAnswer
<1> QED BY <1>1, <1>2, <1>3

\* The line that is taken was the only one.
LEMMA AnswersDecodeDone ==
  ASSUME TypeOK, Answers, DecodeDone
  PROVE  Answers' /\ busy /\ got' = shm
<1>1. /\ Head(toGui).kind = "line" /\ got' = Head(toGui).job
      /\ UNCHANGED <<shm, proc, pipe>>
  BY DEF DecodeDone, Event, procVars
<1>2. /\ Head(toGui) = toGui[1] /\ 1 \in 1..Len(toGui)
      /\ \A i \in 1..Len(toGui') : i + 1 \in 1..Len(toGui) /\ toGui'[i] = toGui[i + 1]
  BY EventTakes DEF DecodeDone
<1>3. /\ busy /\ toGui[1].job = shm
      /\ \A k \in 1..Len(toGui) : toGui[k].kind = "line" => k = 1
  BY <1>1, <1>2 DEF Answers, LinesAnswer
<1>4. \A i \in 1..Len(toGui') : toGui'[i].kind # "line"
  <2>1. \A i \in 1..Len(toGui') : i + 1 # 1
    OBVIOUS
  <2> QED BY <1>2, <1>3, <2>1
<1>5. \A p \in Procs : pipe[p] = <<>>
  BY <1>1, <1>2 DEF Answers, PipesAnswer
<1>6. Answers'
  BY <1>1, <1>4, <1>5 DEF Answers, DecodesShm, PipesAnswer, LinesAnswer
<1> QED BY <1>1, <1>2, <1>3, <1>6

LEMMA AnswersSubProcessFailed ==
  ASSUME TypeOK, Answers, SubProcessFailed
  PROVE  Answers'
<1>1. UNCHANGED <<busy, shm, proc, pipe>>
  BY DEF SubProcessFailed, procVars, fileVars
<1>2. \A i \in 1..Len(toGui') : /\ i + 1 \in 1..Len(toGui) /\ toGui'[i] = toGui[i + 1]
                                /\ i \in Int
  BY EventTakes DEF SubProcessFailed
<1>3. DecodesShm'  BY <1>1 DEF Answers, DecodesShm
<1>4. PipesAnswer'  BY <1>1, <1>2 DEF Answers, PipesAnswer
<1>5. LinesAnswer'
  <2> SUFFICES ASSUME NEW i \in 1..Len(toGui'), toGui'[i].kind = "line"
               PROVE  /\ busy /\ toGui'[i].job = shm
                      /\ \A k \in 1..Len(toGui') : toGui'[k].kind = "line" => k = i
    BY <1>1 DEF LinesAnswer
  <2>1. /\ busy /\ toGui'[i].job = shm
        /\ \A k \in 1..Len(toGui) : toGui[k].kind = "line" => k = i + 1
    BY <1>2 DEF Answers, LinesAnswer
  <2>2. \A k \in 1..Len(toGui') : toGui'[k].kind = "line" => k + 1 = i + 1
    BY <1>2, <2>1
  <2>3. \A k \in 1..Len(toGui') : k + 1 = i + 1 => k = i
    OBVIOUS
  <2> QED BY <2>1, <2>2, <2>3
<1> QED BY <1>3, <1>4, <1>5 DEF Answers

\* A restart that disturbs nobody finds no program that sleeps over its line.
LEMMA AnswersRestart ==
  ASSUME TypeOK, Solo, Answers, Acknowledge \/ CheckHanging, ~disturbed'
  PROVE  Answers'
<1>1. ~InOrder /\ UNCHANGED <<shm, toGui, proc, pipe>>
  BY DEF Acknowledge, CheckHanging, InitDecoderSubprocess, procVars
<1>2. \A q \in Procs : ~Working(q)
  BY <1>1 DEF InOrder, Alive, Working
<1>3. \A q \in Procs : pipe[q] = <<>> /\ proc[q].state # "decoding"
  BY <1>2 DEF Solo, PipesSleep, Working
<1>4. \A i \in 1..Len(toGui) : toGui[i].kind # "line"
  <2>1. \A i \in 1..Len(toGui) : toGui[i].proc \in Procs
    <3>1. \A i \in 1..Len(toGui) : toGui[i] \in Events  BY DEF TypeOK
    <3> QED BY <3>1 DEF Events
  <2> QED BY <1>2, <2>1 DEF Solo, LinesSleep, Working
<1> QED
  BY <1>1, <1>3, <1>4 DEF Answers, DecodesShm, PipesAnswer, LinesAnswer

LEMMA AnswersWorkerStart ==
  ASSUME TypeOK, Answers, WorkerStart
  PROVE  Answers'
<1>1. UNCHANGED <<busy, shm, toGui, pipe>>  BY StartOne
<1>2. PICK p \in Procs : proc' = [proc EXCEPT ![p].state = "polling"]  BY StartOne
<1>3. proc'[p].state = "polling" /\ \A q \in Procs : q # p => proc'[q] = proc[q]
  BY <1>2, StateChange DEF States
<1>4. \A q \in Procs : proc'[q].state = "decoding" => proc'[q] = proc[q]  BY <1>3
<1> QED BY <1>1, <1>4, AnswersKept

\* The end of a program that is not at work adds no line.
LEMMA AnswersReport ==
  ASSUME TypeOK, Solo, Answers, NEW p \in Procs, Report(p), ~Working(p),
         UNCHANGED <<busy, shm>>
  PROVE  Answers'
<1>1. /\ proc'[p].state = "gone" /\ pipe'[p] = <<>>
      /\ \A q \in Procs : q # p => proc'[q] = proc[q] /\ pipe'[q] = pipe[q]
  BY ReportEnds
<1>2. pipe[p] = <<>>  BY DEF Solo, PipesSleep, Working
<1> DEFINE last == IF proc[p].state = "exited" THEN <<>> ELSE Failure(p)
           lines == Lines(p)
<1>3. toGui \in Seq(Events)  BY DEF TypeOK
<1>4. toGui \o lines = toGui
  <2>1. lines \in Seq(Events) /\ Len(lines) = 0  BY <1>2, LinesAre
  <2> HIDE DEF lines
  <2>2. lines = <<>>  BY <2>1, EmptySeq
  <2> QED BY <1>3, <2>2, ConcatEmptySeq
<1>5. toGui' = toGui \o last  BY <1>4 DEF Report
<1>6. /\ last \in Seq(Events)
      /\ \A i \in 1..Len(last) : last[i].kind # "line"
  BY FailureIs
<1> HIDE DEF last, lines
<1>7. \A i \in 1..Len(toGui') :
        \/ i \in 1..Len(toGui) /\ toGui'[i] = toGui[i]
        \/ \E k \in 1..Len(last) : toGui'[i] = last[k]
  BY <1>3, <1>5, <1>6, ConcatFrom, SMTT(60)
<1>8. \A i \in 1..Len(toGui') : toGui'[i].kind = "line" =>
        i \in 1..Len(toGui) /\ toGui'[i] = toGui[i]
  BY <1>6, <1>7
<1>9. /\ \A q \in Procs : proc'[q].state = "decoding" => proc'[q] = proc[q]
      /\ \A q \in Procs : pipe'[q] # <<>> => pipe'[q] = pipe[q]
  BY <1>1
<1> QED BY <1>8, <1>9, AnswersKept

LEMMA AnswersReplace ==
  ASSUME TypeOK, Started, Solo, Answers, Replace
  PROVE  Answers'
<1>1. next # -1 /\ UNCHANGED <<busy, shm>>  BY DEF Replace, guiVars, fileVars
<1>2. current \in Procs /\ ~Working(current)
  BY <1>1 DEF TypeOK, Started, Solo, OldIsDone
<1>3. Report(current) \/ UNCHANGED <<proc, pipe, toGui>>  BY DEF Replace, procVars
<1> QED BY <1>1, <1>2, <1>3, AnswersReport, AnswersUnchanged

LEMMA AnswersNoticeDeath ==
  ASSUME TypeOK, Solo, Answers, NoticeDeath
  PROVE  Answers'
<1>1. /\ current # 0 /\ proc[current].state \in {"died", "exited"} /\ Report(current)
      /\ UNCHANGED <<busy, shm>>
  BY DEF NoticeDeath, guiVars, fileVars
<1>2. current \in Procs /\ ~Working(current)  BY <1>1 DEF TypeOK, Working
<1> QED BY <1>1, <1>2, AnswersReport

\* The line moves from the pipe to the queue.
LEMMA AnswersReadLine ==
  ASSUME TypeOK, Solo, Answers, ReadLine
  PROVE  Answers'
<1>1. /\ current \in Procs /\ pipe[current] # <<>>
      /\ Head(pipe[current]) = pipe[current][1]
      /\ Len(toGui') = Len(toGui) + 1
      /\ \A i \in 1..Len(toGui) : toGui'[i] = toGui[i]
      /\ toGui'[Len(toGui) + 1] = Signal("line", current, Head(pipe[current]))
      /\ pipe' \in [Procs -> Seq(Nat)]
      /\ Len(pipe'[current]) = Len(pipe[current]) - 1
      /\ \A q \in Procs : q # current => pipe'[q] = pipe[q]
      /\ UNCHANGED <<busy, shm, proc>>
  BY LineRead
<1>2. /\ busy /\ Len(pipe[current]) = 1 /\ pipe[current][1] = shm
      /\ \A i \in 1..Len(toGui) : toGui[i].kind # "line"
  BY <1>1 DEF Answers, PipesAnswer
<1>3. \A q \in Procs : pipe'[q] = <<>>
  <2>1. pipe'[current] = <<>>  BY <1>1, <1>2, EmptySeq
  <2>2. \A q \in Procs : pipe[q] # <<>> => q = current
    BY <1>1 DEF Solo, PipesSleep, OneAtWork, Working
  <2> QED BY <1>1, <2>1, <2>2
<1>4. \A i \in 1..Len(toGui') : i \in 1..Len(toGui) \/ i = Len(toGui) + 1
  <2>1. Len(toGui) \in Nat  BY DEF TypeOK
  <2> QED BY <1>1, <2>1
<1>5. \A i \in 1..Len(toGui') : toGui'[i].kind = "line" => i = Len(toGui) + 1
  BY <1>1, <1>2, <1>4
<1>6. LinesAnswer'
  BY <1>1, <1>2, <1>5 DEF LinesAnswer, Signal
<1> QED BY <1>1, <1>3, <1>6 DEF Answers, DecodesShm, PipesAnswer

\* A program prints its line when no other is under way, and while it decodes
\* the busy flag is set.
LEMMA AnswersProgram ==
  ASSUME TypeOK, NothingDropped, window = "open", Solo, Answers,
         NEW p \in Procs, Program(p)
  PROVE  Answers'
<1>1. /\ proc \in [Procs -> ProcType] /\ pipe \in [Procs -> Seq(Nat)] /\ shm \in Nat
      /\ UNCHANGED <<busy, shm, toGui>>
  BY DEF TypeOK, Program, Poll, Check, Finish, Wake, Fail, Goes, guiVars, fileVars
<1>2. ASSUME NEW s \in States, NEW t \in States, Goes(p, s, t)
      PROVE  /\ proc[p].state = s /\ proc'[p].state = t
             /\ \A q \in Procs : q # p => proc'[q] = proc[q]
  BY <1>2, StateChange DEF Goes
<1>3. ASSUME NEW s \in States, NEW t \in States \ {"decoding"}, Goes(p, s, t), pipe' = pipe
      PROVE  Answers'
  <2>1. \A q \in Procs : proc'[q].state = "decoding" => proc'[q] = proc[q]
    BY <1>2, <1>3
  <2> QED BY <1>1, <1>3, <2>1, AnswersKept
<1>4. CASE Poll(p)
  BY <1>3, <1>4 DEF Poll, States
<1>5. CASE Check(p) /\ quit
  BY <1>3, <1>5 DEF Check, States
<1>6. CASE Check(p) /\ ~quit
  <2> DEFINE n == [state |-> "decoding", job |-> shm]
  <2>1. proc' = [proc EXCEPT ![p] = n] /\ pipe' = pipe  BY <1>6 DEF Check
  <2>2. proc'[p] = n /\ \A q \in Procs : q # p => proc'[q] = proc[q]  BY <1>1, <2>1
  <2>3. DecodesShm'  BY <1>1, <2>2 DEF Answers, DecodesShm
  <2> HIDE DEF n
  <2> QED BY <1>1, <2>1, <2>3 DEF Answers, PipesAnswer, LinesAnswer
<1>7. CASE Finish(p)
  <2>1. Goes(p, "decoding", "sleeping") /\ pipe' = [pipe EXCEPT ![p] = Append(@, proc[p].job)]
    BY <1>7 DEF Finish
  <2>2. /\ proc[p].state = "decoding" /\ proc'[p].state = "sleeping"
        /\ \A q \in Procs : q # p => proc'[q] = proc[q]
    BY <1>2, <2>1 DEF States
  <2>3. proc[p].job = shm  BY <2>2 DEF Answers, DecodesShm
  <2>4. pipe[p] = <<>>  BY <2>2 DEF Solo, PipesSleep
  <2>5. /\ pipe'[p] = <<shm>> /\ \A q \in Procs : q # p => pipe'[q] = pipe[q]
    <3>1. Append(<<>>, shm) = <<shm>>  OBVIOUS
    <3> QED BY <1>1, <2>1, <2>3, <2>4, <3>1
  <2>6. busy
    <3>1. ~lock  BY <2>2 DEF Solo, LockStops, Reading
    <3> QED BY <3>1 DEF NothingDropped
  <2>7. \A q \in Procs : q # p => pipe'[q] = <<>>
    <3>1. \A q \in Procs : q # p => ~Working(q)
      BY <2>2 DEF Solo, OneAtWork, Working
    <3> QED BY <2>5, <3>1 DEF Solo, PipesSleep, Working
  <2>8. \A i \in 1..Len(toGui) : toGui[i].kind # "line"
    <3>1. \A i \in 1..Len(toGui) : toGui[i] \in Events  BY DEF TypeOK
    <3>2. \A i \in 1..Len(toGui) : toGui[i].proc \in Procs  BY <3>1 DEF Events
    <3>3. \A q \in Procs : proc[q].state = "sleeping" => q = p
      BY <2>2 DEF Solo, OneAtWork, Working
    <3> QED BY <2>2, <3>2, <3>3 DEF Solo, LinesSleep
  <2>9. PipesAnswer'
    <3>1. Len(<<shm>>) = 1 /\ <<shm>>[1] = shm  OBVIOUS
    <3> QED BY <1>1, <2>5, <2>6, <2>7, <2>8, <3>1 DEF PipesAnswer
  <2>10. DecodesShm'  BY <1>1, <2>2 DEF Answers, DecodesShm
  <2> QED BY <1>1, <2>8, <2>9, <2>10 DEF Answers, LinesAnswer
<1>8. CASE Wake(p)
  BY <1>3, <1>8 DEF Wake, States
<1>9. CASE Fail(p)
  <2>1. PICK s \in {"polling", "decoding", "hung"}, fault \in Faults :
          Goes(p, s, fault) /\ pipe' = pipe
    BY <1>9 DEF Fail
  <2>2. fault \in {"died", "exited", "hung"}  BY <2>1, DecoderAssumption
  <2> QED BY <1>3, <2>1, <2>2 DEF States
<1> QED BY <1>4, <1>5, <1>6, <1>7, <1>8, <1>9 DEF Program

\* Answers is inductive with what was proved of the programs.
LEMMA AnswersInit == Init => AnswerInv
<1> SUFFICES ASSUME Init PROVE Answers
  BY DEF AnswerInv
<1>1. toGui = <<>> /\ \A p \in Procs : proc[p].state = "none" /\ pipe[p] = <<>>
  BY DEF Init
<1> QED BY <1>1 DEF Answers, DecodesShm, PipesAnswer, LinesAnswer

LEMMA AnswersNext == ServiceInv /\ [Next]_vars => AnswerInv'
<1> SUFFICES ASSUME ServiceInv, [Next]_vars, window' = "open", ~disturbed'
             PROVE  Answers'
  BY DEF AnswerInv, Answers, DecodesShm, PipesAnswer, LinesAnswer
<1>1. TypeOK /\ NothingDropped /\ JobsAsked /\ Started
  BY DEF ServiceInv, IInv, BaseInv
<1>2. window = "open" /\ ~disturbed
  BY <1>1 DEF Next, Gui, Decode, DecodeDone, SubProcessFailed, Event, Acknowledge,
         CheckHanging, Close, Closed, InitDecoderSubprocess, WorkerThread,
         WorkerStart, WorkerQuit, Replace, ReadLine, NoticeDeath, Later, Program,
         Poll, Check, Finish, Wake, Fail, Goes, guiVars, vars, TypeOK
<1>3. Solo /\ Answers
  BY <1>2 DEF ServiceInv, IInv, SoloInv, AnswerInv
<1>4. CASE Gui
  <2>1. ~Close /\ ~Closed
    BY DEF Close, Closed
  <2>2. ASSUME NEW ready \in BOOLEAN, NEW paused \in BOOLEAN, NEW kept \in BOOLEAN,
               Decode(ready, paused, kept)
        PROVE  Answers'
    BY <1>1, <1>3, <2>2, AnswersDecode
  <2> QED
    BY <1>1, <1>3, <1>4, <2>1, <2>2, AnswersDecodeDone, AnswersSubProcessFailed,
       AnswersRestart DEF Gui
<1>5. CASE WorkerThread
  <2>1. CASE WorkerQuit
    BY <2>1, <1>3, SoloWorkerQuit
  <2> QED
    BY <1>1, <1>3, <1>5, <2>1, AnswersWorkerStart, AnswersReplace, AnswersReadLine,
       AnswersNoticeDeath DEF WorkerThread
<1>6. CASE Later
  BY <1>3, <1>6, AnswersUnchanged DEF Later, fileVars, procVars
<1>7. CASE \E p \in Procs : Program(p)
  BY <1>1, <1>2, <1>3, <1>7, AnswersProgram
<1>8. CASE UNCHANGED vars
  BY <1>3, <1>8, AnswersUnchanged DEF vars
<1> QED BY <1>4, <1>5, <1>6, <1>7, <1>8 DEF Next

LEMMA ServiceInvAlways == ASSUME PromptGui PROVE Spec => []ServiceInv
<1>1. Init => ServiceInv
  BY BaseInit, SoloInit, AnswersInit DEF ServiceInv, IInv
<1>2. ServiceInv /\ [Next]_vars => ServiceInv'
  BY BaseNext, SoloNext, AnswersNext DEF ServiceInv, IInv
<1> QED BY <1>1, <1>2, PTL DEF Spec

-----------------------------------------------------------------------------
(* The refinement mapping.                                                 *)

\* The stage, before and after a step.
LEMMA Stage ==
  ASSUME TypeOK, TypeOK'
  PROVE  /\ disturbed => stage = "void"
         /\ ~disturbed /\ ~busy => stage = "idle"
         /\ ~disturbed /\ busy /\ LineFor(shm) => stage = "answered"
         /\ ~disturbed /\ busy /\ ~LineFor(shm) /\ AtWork => stage = "running"
         /\ ~disturbed /\ busy /\ ~LineFor(shm) /\ ~AtWork => stage = "asked"
         /\ disturbed' => stage' = "void"
         /\ ~disturbed' /\ ~busy' => stage' = "idle"
         /\ ~disturbed' /\ busy' /\ LineFor(shm)' => stage' = "answered"
         /\ ~disturbed' /\ busy' /\ ~LineFor(shm)' /\ AtWork' => stage' = "running"
         /\ ~disturbed' /\ busy' /\ ~LineFor(shm)' /\ ~AtWork' => stage' = "asked"
<1>1. /\ disturbed \in BOOLEAN /\ busy \in BOOLEAN
      /\ disturbed' \in BOOLEAN /\ busy' \in BOOLEAN
  BY DEF TypeOK
<1>2. /\ disturbed => stage = "void"
      /\ ~disturbed /\ ~busy => stage = "idle"
      /\ ~disturbed /\ busy /\ LineFor(shm) => stage = "answered"
      /\ ~disturbed /\ busy /\ ~LineFor(shm) /\ AtWork => stage = "running"
      /\ ~disturbed /\ busy /\ ~LineFor(shm) /\ ~AtWork => stage = "asked"
  BY <1>1 DEF stage
<1>3. /\ disturbed' => stage' = "void"
      /\ ~disturbed' /\ ~busy' => stage' = "idle"
      /\ ~disturbed' /\ busy' /\ LineFor(shm)' => stage' = "answered"
      /\ ~disturbed' /\ busy' /\ ~LineFor(shm)' /\ AtWork' => stage' = "running"
      /\ ~disturbed' /\ busy' /\ ~LineFor(shm)' /\ ~AtWork' => stage' = "asked"
  BY <1>1 DEF stage
<1> QED BY <1>2, <1>3

\* A step that neither asks nor accepts: it starts work, ends it, or prints an
\* answer, which only a program at work can do.
LEMMA FrozenMaps ==
  ASSUME TypeOK, TypeOK', ~disturbed, UNCHANGED <<busy, shm, got, disturbed>>,
         LineFor(shm) => LineFor(shm)',
         LineFor(shm)' => LineFor(shm) \/ AtWork
  PROVE  [Service!SNext]_Service!svars
<1>1. UNCHANGED <<IF disturbed THEN 0 ELSE shm, IF disturbed THEN 0 ELSE got>>
  OBVIOUS
<1>2. CASE ~busy
  <2>1. stage' = stage  BY <1>2, Stage
  <2> QED BY <1>1, <2>1 DEF Service!svars
<1>3. CASE busy
  <2>1. stage \in {"asked", "running", "answered"}
    BY <1>3, Stage, Zenon
  <2>2. stage = "asked" => stage' \in {"asked", "running"}
    BY <1>3, Stage
  <2>3. stage = "running" => stage' \in {"asked", "running", "answered"}
    BY <1>3, Stage
  <2>4. stage = "answered" => stage' = "answered"
    BY <1>3, Stage
  <2> QED
    BY <1>1, <2>1, <2>2, <2>3, <2>4
    DEF Service!svars, Service!SNext, Service!Run, Service!Die, Service!Answer
<1> QED BY <1>2, <1>3

\* A step that leaves the lines where they are.
LEMMA SilentMaps ==
  ASSUME TypeOK, TypeOK', ~disturbed,
         UNCHANGED <<busy, shm, got, disturbed, pipe, toGui>>
  PROVE  [Service!SNext]_Service!svars
<1>1. LineFor(shm)' <=> LineFor(shm)  BY DEF LineFor
<1> QED BY <1>1, FrozenMaps

\* decodeStart asks, or nothing happens.
LEMMA DecodeMaps ==
  ASSUME TypeOK, TypeOK', JobsAsked, ~disturbed, NEW ready \in BOOLEAN,
         NEW paused \in BOOLEAN, NEW kept \in BOOLEAN, Decode(ready, paused, kept)
  PROVE  [Service!SNext]_Service!svars
<1>1. /\ \/ UNCHANGED <<busy, shm>>
         \/ ~busy /\ busy' /\ shm' = shm + 1
      /\ UNCHANGED <<toGui, proc, pipe, got, disturbed>>
  BY DEF Decode, procVars, TypeOK
<1>2. CASE UNCHANGED <<busy, shm>>
  BY <1>1, <1>2, SilentMaps
<1>3. CASE ~busy /\ busy' /\ shm' = shm + 1
  <2>1. shm \in Nat /\ ~(shm + 1 <= shm)  BY DEF TypeOK
  <2>2. ~LineFor(shm + 1)
    BY <2>1 DEF JobsAsked, LineFor
  <2>3. ~LineFor(shm)'  BY <1>1, <1>3, <2>2 DEF LineFor
  <2>4. ~AtWork'
    <3>1. \A p \in Procs : proc[p] # [state |-> "decoding", job |-> shm + 1]
      BY <2>1 DEF JobsAsked
    <3> QED BY <1>1, <1>3, <3>1 DEF AtWork
  <2>5. stage = "idle" /\ stage' = "asked"  BY <1>1, <1>3, <2>3, <2>4, Stage
  <2> QED BY <1>1, <1>3, <2>5 DEF Service!SNext, Service!Ask
<1> QED BY <1>1, <1>2, <1>3

\* decodeDone accepts the answer to the job that was asked for.
LEMMA DecodeDoneMaps ==
  ASSUME TypeOK, TypeOK', Answers, ~disturbed, DecodeDone
  PROVE  [Service!SNext]_Service!svars
<1>1. busy /\ got' = shm  BY AnswersDecodeDone
<1>2. /\ Head(toGui).kind = "line" /\ got' = Head(toGui).job
      /\ busy' = FALSE /\ UNCHANGED <<shm, disturbed>>
  BY DEF DecodeDone, Event
<1>3. Head(toGui) = toGui[1] /\ 1 \in 1..Len(toGui)  BY EventTakes DEF DecodeDone
<1>4. LineFor(shm)  BY <1>1, <1>2, <1>3 DEF LineFor
<1>5. stage = "answered" /\ stage' = "idle"  BY <1>1, <1>2, <1>4, Stage
<1> QED BY <1>1, <1>2, <1>5 DEF Service!SNext, Service!Accept

\* What is taken from the queue is no line.
LEMMA SubProcessFailedMaps ==
  ASSUME TypeOK, TypeOK', ~disturbed, SubProcessFailed
  PROVE  [Service!SNext]_Service!svars
<1>1. /\ UNCHANGED <<busy, shm, got, disturbed, pipe>> /\ Head(toGui).kind # "line"
  BY DEF SubProcessFailed, procVars, fileVars, Event
<1>2. /\ Head(toGui) = toGui[1] /\ Len(toGui') = Len(toGui) - 1
      /\ \A i \in 1..Len(toGui') : i + 1 \in 1..Len(toGui) /\ toGui'[i] = toGui[i + 1]
  BY EventTakes DEF SubProcessFailed
<1>3. LineFor(shm)' => LineFor(shm)  BY <1>1, <1>2 DEF LineFor
<1>4. LineFor(shm) => LineFor(shm)'
  <2>1. ASSUME NEW i \in 1..Len(toGui), toGui[i].kind = "line"
        PROVE  i - 1 \in 1..Len(toGui') /\ toGui'[i - 1] = toGui[i]
    <3>1. i # 1  BY <1>1, <1>2, <2>1
    <3>2. Len(toGui) \in Nat  BY DEF TypeOK
    <3>3. i - 1 \in 1..Len(toGui') /\ (i - 1) + 1 = i  BY <1>2, <2>1, <3>1, <3>2
    <3> QED BY <1>2, <3>3
  <2> QED BY <1>1, <2>1 DEF LineFor
<1> QED BY <1>1, <1>3, <1>4, FrozenMaps

\* A restart gives the job up, if there is one.
LEMMA RestartMaps ==
  ASSUME TypeOK, TypeOK', ~disturbed, ~disturbed', Acknowledge \/ CheckHanging
  PROVE  [Service!SNext]_Service!svars
<1>1. busy' = FALSE /\ UNCHANGED <<shm, got>>
  BY DEF Acknowledge, CheckHanging, InitDecoderSubprocess
<1>2. stage' = "idle"  BY <1>1, Stage
<1>3. stage \in {"idle", "asked", "running", "answered"}  BY Stage, Zenon
<1> QED BY <1>1, <1>2, <1>3 DEF Service!SNext, Service!GiveUp, Service!svars

\* What has been read of a program has become a signal: no line is lost.
LEMMA ReportMaps ==
  ASSUME TypeOK, TypeOK', ~disturbed, NEW p \in Procs, Report(p),
         UNCHANGED <<busy, shm, got, disturbed>>
  PROVE  [Service!SNext]_Service!svars
<1> DEFINE last == IF proc[p].state = "exited" THEN <<>> ELSE Failure(p)
           lines == Lines(p)
           both == toGui \o lines
<1>1. /\ pipe'[p] = <<>> /\ \A q \in Procs : q # p => pipe'[q] = pipe[q]
  BY ReportEnds
<1>2. /\ lines \in Seq(Events) /\ Len(lines) = Len(pipe[p])
      /\ \A i \in 1..Len(pipe[p]) : lines[i] = Signal("line", p, pipe[p][i])
      /\ Len(pipe[p]) \in Nat
  <2>1. pipe \in [Procs -> Seq(Nat)]  BY DEF TypeOK
  <2>2. Len(pipe[p]) \in Nat  BY <2>1, LenProperties
  <2> QED BY <2>2, LinesAre, Zenon
<1>3. last \in Seq(Events) /\ \A i \in 1..Len(last) : last[i].kind # "line"
  BY FailureIs
<1>4. toGui' = both \o last  BY DEF Report
<1>5. toGui \in Seq(Events)  BY DEF TypeOK
<1> HIDE DEF last, lines
<1>6. /\ both \in Seq(Events) /\ Len(both) = Len(toGui) + Len(lines)
      /\ \A i \in 1..Len(toGui) + Len(lines) :
           both[i] = IF i <= Len(toGui) THEN toGui[i] ELSE lines[i - Len(toGui)]
  <2>1. lines \in Seq(Events)  BY <1>2
  <2> QED BY <1>5, <2>1, ConcatProperties
<1>7. \A i \in 1..Len(both) : \/ i \in 1..Len(toGui) /\ both[i] = toGui[i]
                              \/ \E k \in 1..Len(lines) : both[i] = lines[k]
  <2>1. lines \in Seq(Events)  BY <1>2
  <2> QED BY <1>5, <2>1, ConcatFrom, SMTT(60)
<1> HIDE DEF both
<1>8. /\ Len(both \o last) = Len(both) + Len(last)
      /\ \A i \in 1..Len(both) + Len(last) :
           (both \o last)[i] = IF i <= Len(both) THEN both[i] ELSE last[i - Len(both)]
  <2>1. both \in Seq(Events) /\ last \in Seq(Events)  BY <1>3, <1>6
  <2> QED BY <2>1, ConcatProperties, SMTT(60)
<1>9. \A i \in 1..Len(toGui') : \/ i \in 1..Len(both) /\ toGui'[i] = both[i]
                                \/ \E k \in 1..Len(last) : toGui'[i] = last[k]
  BY <1>3, <1>4, <1>6, ConcatFrom, SMTT(60)
<1>10. Len(toGui) \in Nat /\ Len(lines) \in Nat /\ Len(both) \in Nat /\ Len(last) \in Nat
  BY <1>2, <1>3, <1>5, <1>6, LenProperties
<1>11. LineFor(shm) => LineFor(shm)'
  <2>1. ASSUME NEW i \in 1..Len(both)
        PROVE  i \in 1..Len(toGui') /\ toGui'[i] = both[i]
    BY <1>4, <1>8, <1>10
  <2>2. ASSUME NEW i \in 1..Len(toGui)
        PROVE  i \in 1..Len(toGui') /\ toGui'[i] = toGui[i]
    <3>1. i \in 1..Len(both) /\ both[i] = toGui[i]  BY <1>6, <1>10
    <3> QED BY <2>1, <3>1
  <2>3. ASSUME NEW i \in 1..Len(pipe[p])
        PROVE  /\ i + Len(toGui) \in 1..Len(toGui')
               /\ toGui'[i + Len(toGui)] = Signal("line", p, pipe[p][i])
    <3>1. /\ i + Len(toGui) \in 1..Len(both)
          /\ both[i + Len(toGui)] = lines[(i + Len(toGui)) - Len(toGui)]
      BY <1>2, <1>6, <1>10
    <3>2. (i + Len(toGui)) - Len(toGui) = i  BY <1>10
    <3> QED BY <1>2, <2>1, <3>1, <3>2
  <2>4. CASE \E i \in 1..Len(toGui) : toGui[i].kind = "line" /\ toGui[i].job = shm
    BY <2>2, <2>4 DEF LineFor
  <2>5. CASE \E q \in Procs : \E i \in 1..Len(pipe[q]) : pipe[q][i] = shm
    <3>1. PICK q \in Procs : \E i \in 1..Len(pipe[q]) : pipe[q][i] = shm  BY <2>5
    <3>2. CASE q = p
      <4>1. PICK i \in 1..Len(pipe[p]) : pipe[p][i] = shm  BY <3>1, <3>2
      <4>2. Signal("line", p, pipe[p][i]).kind = "line"
            /\ Signal("line", p, pipe[p][i]).job = shm
        BY <4>1 DEF Signal
      <4> QED BY <1>1, <2>3, <4>1, <4>2 DEF LineFor
    <3>3. CASE q # p  BY <1>1, <3>1, <3>3 DEF LineFor
    <3> QED BY <3>2, <3>3
  <2> QED BY <2>4, <2>5 DEF LineFor
<1>12. LineFor(shm)' => LineFor(shm)
  <2>1. CASE \E q \in Procs : \E i \in 1..Len(pipe'[q]) : pipe'[q][i] = shm
    <3>1. PICK q \in Procs : \E i \in 1..Len(pipe'[q]) : pipe'[q][i] = shm  BY <2>1
    <3>2. q # p  BY <1>1, <3>1
    <3> QED BY <1>1, <3>1, <3>2 DEF LineFor
  <2>2. CASE \E i \in 1..Len(toGui') : toGui'[i].kind = "line" /\ toGui'[i].job = shm
    <3>1. PICK i \in 1..Len(both) : both[i].kind = "line" /\ both[i].job = shm
      BY <1>3, <1>9, <2>2
    <3>2. CASE i \in 1..Len(toGui) /\ both[i] = toGui[i]
      BY <3>1, <3>2 DEF LineFor
    <3>3. CASE \E k \in 1..Len(lines) : both[i] = lines[k]
      <4>1. PICK k \in 1..Len(lines) : both[i] = lines[k]  BY <3>3
      <4>2. k \in 1..Len(pipe[p]) /\ lines[k].job = pipe[p][k]
        <5>1. k \in 1..Len(pipe[p]) /\ lines[k] = Signal("line", p, pipe[p][k])
          BY <1>2, <4>1
        <5> QED BY <5>1 DEF Signal
      <4> QED BY <3>1, <4>1, <4>2 DEF LineFor
    <3> QED BY <1>7, <3>2, <3>3
  <2> QED BY <2>1, <2>2 DEF LineFor
<1> QED BY <1>11, <1>12, FrozenMaps

LEMMA ReadLineMaps ==
  ASSUME TypeOK, TypeOK', ~disturbed, ReadLine
  PROVE  [Service!SNext]_Service!svars
<1> DEFINE e == Signal("line", current, Head(pipe[current]))  n == Len(toGui)
           m == Len(pipe[current])
<1>1. /\ current \in Procs /\ pipe[current] # <<>>
      /\ Head(pipe[current]) = pipe[current][1] /\ 1 \in 1..m
      /\ Len(toGui') = n + 1
      /\ \A i \in 1..n : toGui'[i] = toGui[i]
      /\ toGui'[n + 1] = e
      /\ Len(pipe'[current]) = m - 1
      /\ \A i \in 1..(m - 1) : i + 1 \in 1..m /\ pipe'[current][i] = pipe[current][i + 1]
      /\ \A q \in Procs : q # current => pipe'[q] = pipe[q]
      /\ UNCHANGED <<busy, shm, got, disturbed, proc>>
  BY LineRead
<1>2. n \in Nat /\ m \in Nat
  <2>1. toGui \in Seq(Events) /\ pipe \in [Procs -> Seq(Nat)]  BY DEF TypeOK
  <2> QED BY <1>1, <2>1, LenProperties
<1>3. e.kind = "line" /\ e.job = pipe[current][1]  BY <1>1 DEF Signal
<1> HIDE DEF e, n, m
<1>4. n = Len(toGui) /\ m = Len(pipe[current])  BY DEF n, m
<1>5. n + 1 \in 1..Len(toGui') /\ \A i \in 1..n : i \in 1..Len(toGui')  BY <1>1, <1>2
<1>6. LineFor(shm) => LineFor(shm)'
  <2>1. CASE \E i \in 1..Len(toGui) : toGui[i].kind = "line" /\ toGui[i].job = shm
    BY <1>1, <1>4, <1>5, <2>1 DEF LineFor
  <2>2. CASE \E q \in Procs : \E i \in 1..Len(pipe[q]) : pipe[q][i] = shm
    <3>0. PICK q \in Procs : \E i \in 1..Len(pipe[q]) : pipe[q][i] = shm  BY <2>2
    <3>1. PICK i \in 1..Len(pipe[q]) : pipe[q][i] = shm  BY <3>0
    <3>2. CASE q # current  BY <1>1, <3>1, <3>2 DEF LineFor
    <3>3. CASE q = current /\ i = 1  BY <1>1, <1>3, <1>5, <3>1, <3>3 DEF LineFor
    <3>4. CASE q = current /\ i # 1
      <4>1. i - 1 \in 1..(m - 1) /\ (i - 1) + 1 = i  BY <1>2, <1>4, <3>1, <3>4
      <4>2. i - 1 \in 1..Len(pipe'[current]) /\ pipe'[current][i - 1] = shm
        BY <1>1, <3>1, <3>4, <4>1
      <4> QED BY <1>1, <4>2 DEF LineFor
    <3> QED BY <3>2, <3>3, <3>4
  <2> QED BY <2>1, <2>2 DEF LineFor
<1>7. LineFor(shm)' => LineFor(shm)
  <2>1. CASE \E i \in 1..Len(toGui') : toGui'[i].kind = "line" /\ toGui'[i].job = shm
    <3>1. PICK i \in 1..Len(toGui') : toGui'[i].kind = "line" /\ toGui'[i].job = shm
      BY <2>1
    <3>2. i \in 1..n \/ i = n + 1  BY <1>1, <1>2, <3>1
    <3>3. CASE i \in 1..n  BY <1>1, <1>4, <3>1, <3>3 DEF LineFor
    <3>4. CASE i = n + 1  BY <1>1, <1>3, <1>4, <3>1, <3>4 DEF LineFor
    <3> QED BY <3>2, <3>3, <3>4
  <2>2. CASE \E q \in Procs : \E i \in 1..Len(pipe'[q]) : pipe'[q][i] = shm
    <3>0. PICK q \in Procs : \E i \in 1..Len(pipe'[q]) : pipe'[q][i] = shm  BY <2>2
    <3>1. PICK i \in 1..Len(pipe'[q]) : pipe'[q][i] = shm  BY <3>0
    <3>2. CASE q # current  BY <1>1, <3>1, <3>2 DEF LineFor
    <3>3. CASE q = current  BY <1>1, <1>4, <3>1, <3>3 DEF LineFor
    <3> QED BY <3>2, <3>3
  <2> QED BY <1>1, <2>1, <2>2 DEF LineFor
<1> QED BY <1>1, <1>6, <1>7, FrozenMaps

\* Only a program at work on the job prints its answer.
LEMMA ProgramMaps ==
  ASSUME TypeOK, TypeOK', ~disturbed, NEW p \in Procs, Program(p)
  PROVE  [Service!SNext]_Service!svars
<1>1. UNCHANGED <<busy, shm, got, disturbed, toGui>>
  BY DEF Program, Poll, Check, Finish, Wake, Fail, Goes, guiVars, fileVars
<1>2. CASE Finish(p)
  <2>1. proc[p].state = "decoding" /\ pipe' = [pipe EXCEPT ![p] = Append(@, proc[p].job)]
    BY <1>2 DEF Finish, Goes
  <2>2. /\ pipe[p] \in Seq(Nat) /\ proc[p] \in ProcType /\ proc[p].job \in Nat
        /\ pipe'[p] = Append(pipe[p], proc[p].job)
        /\ \A q \in Procs : q # p => pipe'[q] = pipe[q]
    BY <2>1 DEF TypeOK, ProcType
  <2>3. /\ Len(pipe'[p]) = Len(pipe[p]) + 1 /\ Len(pipe[p]) \in Nat
        /\ \A i \in 1..Len(pipe[p]) : pipe'[p][i] = pipe[p][i]
        /\ pipe'[p][Len(pipe[p]) + 1] = proc[p].job
    BY <2>2, AppendProperties
  <2>4. proc[p].job = shm => AtWork
    <3>1. proc[p] = [state |-> proc[p].state, job |-> proc[p].job]
      BY <2>2 DEF ProcType
    <3> QED BY <2>1, <3>1 DEF AtWork
  <2>5. ASSUME NEW q \in Procs, NEW i \in 1..Len(pipe[q])
        PROVE  i \in 1..Len(pipe'[q]) /\ pipe'[q][i] = pipe[q][i]
    BY <2>2, <2>3
  <2>6. ASSUME NEW q \in Procs, NEW i \in 1..Len(pipe'[q])
        PROVE  \/ i \in 1..Len(pipe[q]) /\ pipe'[q][i] = pipe[q][i]
               \/ pipe'[q][i] = proc[p].job
    <3>1. CASE q # p  BY <2>2, <2>6, <3>1
    <3>2. CASE q = p
      <4>1. i \in 1..Len(pipe[p]) \/ i = Len(pipe[p]) + 1
        BY <2>3, <2>6, <3>2
      <4> QED BY <2>3, <3>2, <4>1
    <3> QED BY <3>1, <3>2
  <2>7. LineFor(shm) => LineFor(shm)'  BY <1>1, <2>5 DEF LineFor
  <2>8. LineFor(shm)' => LineFor(shm) \/ AtWork
    BY <1>1, <2>4, <2>6 DEF LineFor
  <2> QED BY <1>1, <2>7, <2>8, FrozenMaps
<1>3. CASE ~Finish(p)
  <2>1. UNCHANGED pipe  BY <1>3 DEF Program, Poll, Check, Wake, Fail
  <2> QED BY <1>1, <2>1, SilentMaps
<1> QED BY <1>2, <1>3

-----------------------------------------------------------------------------
(* The theorem.                                                            *)

\* Every step is one of the service's, or none.
LEMMA StepMaps ==
  ASSUME ServiceInv, ServiceInv', [Next]_vars
  PROVE  [Service!SNext]_Service!svars
<1>1. TypeOK /\ TypeOK' /\ JobsAsked /\ AnswerInv
  BY DEF ServiceInv, IInv, BaseInv
<1>2. CASE disturbed'
  <2>1. stage' = "void"  BY <1>1, <1>2, Stage
  <2> QED BY <1>2, <2>1 DEF Service!SNext, Service!Void
<1>3. CASE ~disturbed'
  <2>1. ~disturbed
    BY <1>1, <1>3 DEF Next, Gui, Decode, DecodeDone, SubProcessFailed, Event,
         Acknowledge, CheckHanging, Close, Closed, InitDecoderSubprocess,
         WorkerThread, WorkerStart, WorkerQuit, Replace, ReadLine, NoticeDeath,
         Later, Program, Poll, Check, Finish, Wake, Fail, Goes, guiVars, vars, TypeOK
  <2>2. CASE \E ready, paused, kept \in BOOLEAN : Decode(ready, paused, kept)
    BY <1>1, <2>1, <2>2, DecodeMaps
  <2>3. CASE DecodeDone
    <3>1. Answers  BY <1>1, <2>1, <2>3 DEF AnswerInv, DecodeDone, Event
    <3> QED BY <1>1, <2>1, <2>3, <3>1, DecodeDoneMaps
  <2>4. CASE SubProcessFailed  BY <1>1, <2>1, <2>4, SubProcessFailedMaps
  <2>5. CASE Acknowledge \/ CheckHanging  BY <1>1, <1>3, <2>1, <2>5, RestartMaps
  <2>6. CASE Close \/ Closed
    <3>1. UNCHANGED <<busy, shm, got, disturbed, pipe, toGui>>
      BY <2>6 DEF Close, Closed, procVars
    <3> QED BY <1>1, <2>1, <3>1, SilentMaps
  <2>7. CASE WorkerStart \/ WorkerQuit \/ Later \/ UNCHANGED vars
    <3>1. UNCHANGED <<busy, shm, got, disturbed, pipe, toGui>>
      BY <2>7 DEF WorkerStart, WorkerQuit, Later, vars, guiVars, fileVars, procVars
    <3> QED BY <1>1, <2>1, <3>1, SilentMaps
  <2>8. CASE Replace
    <3>1. /\ UNCHANGED <<busy, shm, got, disturbed>>
          /\ Report(current) \/ UNCHANGED <<pipe, toGui>>
      BY <2>8 DEF Replace, guiVars, fileVars, procVars
    <3>2. current \in Procs
      BY <2>8 DEF ServiceInv, IInv, BaseInv, TypeOK, Started, Replace
    <3> QED BY <1>1, <2>1, <3>1, <3>2, ReportMaps, SilentMaps
  <2>9. CASE NoticeDeath
    <3>1. UNCHANGED <<busy, shm, got, disturbed>> /\ Report(current) /\ current # 0
      BY <2>9 DEF NoticeDeath, guiVars, fileVars
    <3>2. current \in Procs  BY <1>1, <3>1 DEF TypeOK
    <3> QED BY <1>1, <2>1, <3>1, <3>2, ReportMaps
  <2>10. CASE ReadLine  BY <1>1, <2>1, <2>10, ReadLineMaps
  <2>11. CASE \E p \in Procs : Program(p)
    BY <1>1, <2>1, <2>11, ProgramMaps
  <2> QED
    BY <2>2, <2>3, <2>4, <2>5, <2>6, <2>7, <2>8, <2>9, <2>10, <2>11
    DEF Next, Gui, WorkerThread
<1> QED BY <1>2, <1>3

LEMMA InitMaps == Init => Service!SInit
<1> SUFFICES ASSUME Init PROVE Service!SInit
  OBVIOUS
<1>1. busy = FALSE /\ disturbed = FALSE /\ shm = 0 /\ got = 0  BY DEF Init
<1>2. stage = "idle"  BY <1>1 DEF stage
<1> QED BY <1>1, <1>2 DEF Service!SInit

\* As long as the GUI thread sees the end of a decode within the 100 ms that
\* the program sleeps, and until a restart is ordered over a decoder that is
\* well, MainWindow and the program keep what DecodeService promises: a job is
\* worked on only after decodeProcessQueue has asked for it, at most one answer
\* comes back, and decodeDone accepts it as the answer to that job, whatever
\* dies, hangs, is restarted or closed.
THEOREM ServiceRefined == ASSUME PromptGui PROVE Spec => ServiceSpec
<1>1. Spec => []ServiceInv
  BY ServiceInvAlways
<1>2. Init => Service!SInit
  BY InitMaps
<1>3. ServiceInv /\ ServiceInv' /\ [Next]_vars => [Service!SNext]_Service!svars
  BY StepMaps
<1> QED
  BY <1>1, <1>2, <1>3, PTL DEF ServiceSpec, Service!SSpec, Spec
=============================================================================
