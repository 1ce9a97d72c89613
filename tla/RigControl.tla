----------------------------- MODULE RigControl -----------------------------
(***************************************************************************)
(* How MainWindow works the radio.  Configuration, on the GUI thread,      *)
(* sends the state it wants to a Transceiver object on a thread of its     *)
(* own, with a number; the object tells what it reads from the radio, with *)
(* the number of the last command it has carried out.  Operations on the   *)
(* radio may fail; the object then goes off line, and MainWindow opens the *)
(* rig again, by itself once and then when the operator says so.           *)
(***************************************************************************)
EXTENDS Transceiver, Sequences

CONSTANTS
  MaxRigs,     \* bound: Transceiver objects made in a run
  MaxMoves,    \* bound: what MainWindow and the operator do and the radio
               \* fails to do; a command counts 1, all else 2
  MaxPending   \* bound: events waiting for the rigs' thread as commands are sent

ASSUME RigControlAssumption ==
  /\ MaxRigs \in Nat \ {0} /\ MaxMoves \in Nat /\ MaxPending \in Nat

Rigs == 1..MaxRigs

VARIABLES
  number,     \* transceiver_command_number_
  cached,     \* cached_rig_state_
  active,     \* rig_active_
  rig,        \* the object Configuration is connected to while active; how many were made
  known,      \* m_rigState of MainWindow
  nominal,    \* m_freqNominal
  waiting,    \* m_tx_when_ready: the rig that was told to transmit, 0 for none
  audio,      \* has ptt1Timer been started, so that audio goes out
  firstError, \* m_first_error
  dialogs,    \* rig error boxes open, one inside the other
  settings,   \* the Settings dialog: "closed" or "visible"
  toGui,      \* events posted to the GUI thread
  toRig,      \* events posted to the rigs' thread
  obj,        \* the Transceiver objects
  radio,      \* the radio
  wanted,     \* history: the frequency of the last QSY, 0 if none was made since an
             \* operation failed or a rig was opened otherwise
  spoilt,     \* history: what has come between the last QSY and the radio (Spoilers)
  stuck,      \* history: has releasing PTT failed as an object went off line
  own,        \* history: the rig that rigOpen opened if none had been opened since
              \* the failure, else 0
  moves       \* history: the moves so far

vars == <<number, cached, active, rig, known, nominal, waiting, audio, firstError,
          dialogs, settings, toGui, toRig, obj, radio, wanted, spoilt, stuck, own, moves>>

configVars == <<number, cached, active, rig, settings, own>>
windowVars == <<known, nominal, waiting, audio, firstError, dialogs>>
threadVars == <<obj, radio, stuck>>

Idle == \A r \in Rigs : obj[r].phase # "failing"

\* "crossed": an update of before a command has changed what Configuration sends
\* next; "ignored": set() took the QSY for none; "turned": the dial was turned by
\* hand since, or before and no poll had told it yet; "untold": none has told it.
Spoilers == {"crossed", "ignored", "turned", "untold"}

Post(kind, r, n, s) == [kind |-> kind, rig |-> r, seq |-> n, state |-> s]

\* The constructor of MainWindow opens the rig; the frequencies are alike.
Init ==
  /\ number = 1 /\ cached = NoState /\ active = TRUE /\ rig = 1
  /\ known = NoState /\ nominal = 0 /\ waiting = 0 /\ audio = FALSE
  /\ firstError = TRUE /\ dialogs = 0 /\ settings = "closed"
  /\ toGui = <<>> /\ toRig = <<Post("start", 1, 1, NoState)>>
  /\ obj = [r \in Rigs |-> IF r = 1 THEN [NoObject EXCEPT !.phase = "ready"] ELSE NoObject]
  /\ LET f == CHOOSE f \in Freqs : TRUE
     IN  radio = [freq |-> f, ptt |-> FALSE, old |-> f, lag |-> 0]
  /\ wanted = 0 /\ spoilt = {} /\ stuck = FALSE /\ own = 0
  /\ moves = 0

-----------------------------------------------------------------------------
(* Configuration: opening and closing the rig.                             *)

Costs(k) == moves + k <= MaxMoves /\ moves' = moves + k

\* close_rig: the old object is told to stop and no longer heard.
Closed == IF active THEN Append(toRig, Post("stop", rig, 0, NoState)) ELSE toRig

CloseRig == /\ toRig' = Closed /\ active' = FALSE
            /\ UNCHANGED <<number, cached, rig, own>>

\* open_rig, where it does open one; cmds are sent right after it.
OpenRig(by, cmds) ==
  /\ rig < MaxRigs
  /\ rig' = rig + 1 /\ active' = TRUE /\ own' = by
  /\ number' = number + 1 + Len(cmds)
  /\ toRig' = Append(Closed, Post("start", rig + 1, number + 1, NoState)) \o cmds
  /\ obj' = [obj EXCEPT ![rig + 1].phase = "ready"]

-----------------------------------------------------------------------------
(* MainWindow: commands.                                                   *)

Commands(r, n, states) ==
  [i \in 1..Len(states) |-> Post("set", r, n + i, states[i])]

\* transceiver_frequency and transceiver_ptt: a command for each of the states,
\* to the rig if it is open
Send(states) ==
  /\ Costs(1) /\ Len(toRig) + Len(states) <= MaxPending
  /\ number' = number + Len(states) /\ cached' = states[Len(states)]
  /\ toRig' = IF active THEN toRig \o Commands(rig, number, states) ELSE toRig
  /\ UNCHANGED <<active, rig, settings, own, obj>>

\* The dial at f, with PTT put on behind it or not.
Dialled(from, f, on) ==
  LET s == [from EXCEPT !.online = TRUE, !.freq = f]
  IN  IF on THEN <<s, [s EXCEPT !.ptt = TRUE]>> ELSE <<s>>

\* setRig while Monitor is on, and an emitPTT(true) behind it: have_rig opens the
\* rig if it is closed.
SetRig(f, on) ==
  IF active
  THEN Send(Dialled(cached, f, on))
  ELSE LET states == Dialled(NoState, f, on)
       IN  /\ Costs(1) /\ OpenRig(0, Commands(rig + 1, number + 1, states))
           /\ cached' = states[Len(states)] /\ UNCHANGED settings

\* setRig(f)
Qsy(f) ==
  /\ SetRig(f, FALSE)
  /\ wanted' = f /\ nominal' = f
  /\ spoilt' = IF "untold" \in spoilt THEN {"turned", "untold"} ELSE {}
  /\ UNCHANGED <<known, waiting, audio, firstError, dialogs, toGui, radio, stuck>>

\* guiUpdate with g_iptt = 0: setRig sends m_freqNominal once more, then emitPTT.
\* setXIT sends nothing without split.
PttOn ==
  /\ waiting = 0 /\ ~audio
  /\ SetRig(nominal, TRUE)
  /\ waiting' = rig' /\ wanted' = IF active THEN wanted ELSE 0
  /\ UNCHANGED <<known, nominal, audio, firstError, dialogs, toGui, radio, spoilt, stuck>>

\* emitPTT(false) from stopTx2
PttOff ==
  /\ cached.ptt
  /\ Send(<<[cached EXCEPT !.online = TRUE, !.ptt = FALSE]>>)
  /\ waiting' = 0 /\ audio' = FALSE
  /\ UNCHANGED <<known, nominal, firstError, dialogs, toGui, wanted, spoilt, radio, stuck>>

-----------------------------------------------------------------------------
(* The GUI thread's events.                                                *)

Event(kind) == toGui # <<>> /\ Head(toGui).kind = kind

\* Configuration::handle_transceiver_update and MainWindow's: what is passed
\* on is what came after the last command was carried out.
\* Variant: updates are passed on whatever their number.
Current_Any(e) == TRUE

Current(e) == e.seq = number

HandleUpdate ==
  LET e == Head(toGui) s == e.state IN
  /\ Event("update") /\ toGui' = Tail(toGui)
  /\ cached' = [cached EXCEPT !.online = s.online, !.freq = s.freq]
  /\ spoilt' = IF e.seq # number /\ s.freq # cached.freq
               THEN spoilt \cup {"crossed"} ELSE spoilt
  /\ active' = (active /\ s.online)
  /\ toRig' = IF s.online THEN toRig ELSE Closed
  /\ known' = IF Current(e) THEN s ELSE known
  /\ nominal' = IF Current(e) /\ (nominal = 0 \/ (s.freq # known.freq /\ ~s.ptt))
                THEN s.freq ELSE nominal
  /\ LET ready == Current(e) /\ s.ptt /\ ~known.ptt /\ waiting # 0
     IN  /\ audio' = (audio \/ ready)
         /\ waiting' = IF ready THEN 0 ELSE waiting
  /\ UNCHANGED <<number, rig, settings, own, firstError, dialogs, wanted, moves>>
  /\ UNCHANGED threadVars

\* Variant: the next attempt goes before the events that were there already.
RigFailure_AtOnce(queue) ==
  /\ waiting' = 0 /\ audio' = FALSE
  /\ IF firstError
     THEN /\ toGui' = <<Post("open", rig, 0, NoState)>> \o queue
          /\ firstError' = FALSE /\ UNCHANGED dialogs
     ELSE /\ toGui' = queue /\ dialogs' = dialogs + 1 /\ UNCHANGED firstError
  /\ UNCHANGED <<known, nominal>>

\* MainWindow::handle_transceiver_failure: Stop is pressed; rigFailure tries
\* again by itself the first time and asks the second.  queue is the rest of
\* the events.
RigFailure(queue) ==
  /\ waiting' = 0 /\ audio' = FALSE
  /\ IF firstError
     THEN /\ toGui' = Append(queue, Post("open", rig, 0, NoState))
          /\ firstError' = FALSE /\ UNCHANGED dialogs
     ELSE /\ toGui' = queue /\ dialogs' = dialogs + 1 /\ UNCHANGED firstError
  /\ UNCHANGED <<known, nominal>>

\* Configuration::handle_transceiver_failure; only a message box while the
\* Settings dialog is visible.
HandleFailure ==
  /\ Event("failure")
  /\ CloseRig
  /\ IF settings = "visible"
     THEN toGui' = Tail(toGui) /\ UNCHANGED windowVars
     ELSE RigFailure(Tail(toGui))
  /\ UNCHANGED <<settings, wanted, spoilt, moves>> /\ UNCHANGED threadVars

\* rigOpen: have_rig opens the rig unless it is open.
RigOpen ==
  /\ Event("open")
  /\ toGui' = Tail(toGui)
  /\ IF active
     THEN UNCHANGED <<number, cached, active, rig, own, toRig, obj, wanted>>
     ELSE /\ OpenRig(IF Head(toGui).rig = rig THEN rig + 1 ELSE 0, <<>>)
          /\ cached' = NoState /\ wanted' = 0
  /\ UNCHANGED <<settings, spoilt, moves, radio, stuck>> /\ UNCHANGED windowVars

\* The factory cannot make the object (open_rig, the catch).
RigOpenFails ==
  /\ Event("open") /\ ~active /\ Costs(2)
  /\ settings # "visible"
  /\ RigFailure(Tail(toGui))
  /\ UNCHANGED <<toRig, wanted, spoilt, obj, radio, stuck>> /\ UNCHANGED configVars

\* The operator answers the error box: Retry, or OK and leaves it at that.
Answer(retry) ==
  /\ dialogs > 0 /\ dialogs' = dialogs - 1 /\ firstError' = TRUE
  /\ LET n == IF active THEN 0 ELSE rig
     IN  toGui' = IF retry THEN Append(toGui, Post("open", n, 0, NoState)) ELSE toGui
  /\ UNCHANGED <<known, nominal, waiting, audio, toRig, wanted, spoilt, moves>>
  /\ UNCHANGED configVars /\ UNCHANGED threadVars

OpenSettings ==
  /\ settings = "closed" /\ settings' = "visible" /\ dialogs = 0
  /\ Costs(2)
  /\ UNCHANGED <<number, cached, active, rig, own, toGui, toRig, wanted, spoilt>>
  /\ UNCHANGED windowVars /\ UNCHANGED threadVars

\* accept or reject; reopened if the rig's parameters were changed, or Test
\* CAT was pressed
CloseSettings(reopen) ==
  /\ settings = "visible" /\ settings' = "closed"
  /\ IF reopen
     THEN OpenRig(0, <<>>) /\ cached' = NoState /\ wanted' = 0
     ELSE UNCHANGED <<number, cached, active, rig, own, toRig, obj, wanted>>
  /\ UNCHANGED <<toGui, spoilt, moves, radio, stuck>> /\ UNCHANGED windowVars

-----------------------------------------------------------------------------
(* The rigs' thread.                                                       *)

Connected(r) == active /\ r = rig

\* What object r has emitted is posted while Configuration is connected to it.
Emitted(r, events) == IF Connected(r) THEN toGui \o events ELSE toGui

\* Variant: the update is sent before the number is stored.
Update_OldNumber(r, o) == Post("update", r, obj[r].seq, o.actual)

\* update_complete(true), at the end of start, set and do_sync
Update(r, o) == Post("update", r, o.seq, o.actual)

Told(kind) ==
  /\ Idle /\ toRig # <<>> /\ Head(toRig).kind = kind /\ toRig' = Tail(toRig)

UnchangedGui == UNCHANGED configVars /\ UNCHANGED windowVars

\* An operation on the radio has thrown: start and set send what they know with
\* the old number, and offline() begins.
Fails(r, o, h, forced) ==
  /\ Costs(2)
  /\ obj' = [obj EXCEPT ![r] = [o EXCEPT !.phase = "failing",
                                         !.last = IF forced THEN o.actual ELSE @]]
  /\ radio' = h
  /\ toGui' = Emitted(r, (IF forced THEN <<Update(r, o)>> ELSE <<>>)
                            \o <<Post("failure", r, 0, NoState)>>)
  /\ wanted' = 0 /\ UNCHANGED stuck

Start ==
  LET e == Head(toRig) o == obj[e.rig] IN
  /\ Told("start")
  /\ \/ LET up == [Startup(o, radio) EXCEPT !.seq = e.seq]
        IN  /\ obj' = [obj EXCEPT ![e.rig] = [up EXCEPT !.last = up.actual]]
            /\ radio' = Read(radio)
            /\ toGui' = Emitted(e.rig, <<Update(e.rig, up)>>)
            /\ UNCHANGED <<wanted, stuck, moves>>
     \/ Fails(e.rig, o, radio, TRUE)
  /\ UNCHANGED spoilt /\ UnchangedGui

\* set, with step k failing if k is one of its steps; a step that fails may
\* have reached the radio.  A frequency that a poll has made the requested one is
\* not set, wherever the radio is: if it is that of the QSY, this is recorded.
Set ==
  LET e == Head(toRig) r == e.rig IN
  /\ Told("set")
  /\ \E lag \in {0, MaxLag} :
       LET steps == Steps(obj[r], radio, e.state, lag)
           before(k) == IF k = 1 THEN [obj |-> obj[r], radio |-> radio] ELSE steps[k - 1]
           done == [steps[4].obj EXCEPT !.seq = e.seq,
                                        !.requested = [@ EXCEPT !.ptt = steps[4].obj.actual.ptt]]
       IN  \/ /\ obj' = [obj EXCEPT ![r] = [done EXCEPT !.last = done.actual]]
              /\ radio' = steps[4].radio
              /\ toGui' = Emitted(r, <<Update(r, done)>>)
              /\ spoilt' = IF /\ e.state.freq = wanted /\ ~steps[3].does
                              /\ steps[4].radio.freq # wanted
                           THEN spoilt \cup {"ignored"} ELSE spoilt
              /\ UNCHANGED <<wanted, stuck, moves>>
           \/ \E k \in 1..4 :
                /\ steps[k].does
                /\ \E h \in {before(k).radio, steps[k].radio} :
                     Fails(r, before(k).obj, h, TRUE) /\ UNCHANGED spoilt
  /\ UnchangedGui

\* Variant: PTT is only released by a set.
GoesOffline_Keyed(r, phase) ==
  /\ obj' = [obj EXCEPT ![r] =
               IF phase = "gone" THEN [NoObject EXCEPT !.phase = "gone"]
               ELSE [Shutdown(obj[r], FALSE) EXCEPT !.phase = "ready"]]
  /\ UNCHANGED <<moves, stuck, radio, toGui, wanted>>

\* The shutdown of offline() and stop(), and the update it ends with, which is
\* withheld while something else is expected.
GoesOffline(r, phase) ==
  \E released \in BOOLEAN :
    LET o == Shutdown(obj[r], released)
        tells == (o.retries = 0 \/ o.actual = o.next) /\ o.actual # o.last
    IN  /\ ~released => obj[r].requested.online
        /\ IF released THEN UNCHANGED moves ELSE Costs(2)
        /\ stuck' = (stuck \/ ~released)
        /\ radio' = IF released /\ obj[r].requested.online
                    THEN [radio EXCEPT !.ptt = FALSE] ELSE radio
        /\ toGui' = IF tells THEN Emitted(r, <<Update(r, o)>>) ELSE toGui
        /\ obj' = [obj EXCEPT ![r] =
                     IF phase = "gone" THEN [NoObject EXCEPT !.phase = "gone"]
                     ELSE [o EXCEPT !.phase = "ready",
                                    !.last = IF tells THEN o.actual ELSE @]]
        /\ UNCHANGED wanted

Offline(r) ==
  /\ obj[r].phase = "failing" /\ GoesOffline(r, "ready")
  /\ UNCHANGED <<toRig, spoilt>> /\ UnchangedGui

Stop ==
  /\ Told("stop") /\ GoesOffline(Head(toRig).rig, "gone")
  /\ UNCHANGED spoilt /\ UnchangedGui

\* handle_timeout, do_sync
Timeout(r) ==
  /\ Idle /\ obj[r].phase = "ready" /\ obj[r].polling
  /\ \/ LET o == Polled(obj[r], radio)
        IN  /\ obj' = [obj EXCEPT ![r] = Synced(o)]
            /\ radio' = Read(radio)
            /\ toGui' = IF Signals(o) THEN Emitted(r, <<Update(r, Synced(o))>>) ELSE toGui
            /\ spoilt' = IF Connected(r) /\ Signals(o) /\ o.actual.freq = radio.freq
                         THEN spoilt \ {"untold"} ELSE spoilt
            /\ UNCHANGED <<wanted, stuck, moves>>
     \/ Fails(r, obj[r], radio, FALSE) /\ UNCHANGED spoilt
  /\ UNCHANGED toRig /\ UnchangedGui

\* The operator turns the radio's own dial.
Turn(f) ==
  /\ Costs(2)
  /\ f # radio.freq /\ radio' = [radio EXCEPT !.freq = f, !.old = f, !.lag = 0]
  /\ spoilt' = spoilt \cup {"turned", "untold"}
  /\ UNCHANGED <<toGui, toRig, obj, wanted, stuck>>
  /\ UNCHANGED configVars /\ UNCHANGED windowVars

-----------------------------------------------------------------------------
Operator == \/ \E f \in Freqs : Qsy(f) \/ Turn(f)
            \/ PttOn \/ PttOff
            \/ OpenSettings \/ \E b \in BOOLEAN : Answer(b) \/ CloseSettings(b)

Gui == HandleUpdate \/ HandleFailure \/ RigOpen \/ RigOpenFails

RigThread == Start \/ Set \/ Stop \/ \E r \in Rigs : Offline(r) \/ Timeout(r)

Next == Operator \/ Gui \/ RigThread

Spec == Init /\ [][Next]_vars

\* Both threads run on, and the radio is polled; nothing else has to happen.
Fairness ==
  /\ WF_vars(HandleUpdate \/ HandleFailure \/ RigOpen)
  /\ WF_vars(Start \/ Set \/ Stop)
  /\ \A r \in Rigs : WF_vars(Offline(r)) /\ WF_vars(Timeout(r))

FairSpec == Spec /\ Fairness

-----------------------------------------------------------------------------
(* Properties.                                                             *)

Events == [kind : {"update", "failure", "open", "start", "set", "stop"},
           rig : Rigs \cup {0}, seq : Nat, state : TransceiverState]

\* The type invariant: no update carries a number that was not given out, and
\* only the newest object is connected.
TypeOK ==
  /\ number \in Nat /\ cached \in TransceiverState /\ active \in BOOLEAN
  /\ rig \in Rigs \cup {0} /\ known \in TransceiverState
  /\ nominal \in Freqs \cup {0} /\ waiting \in Rigs \cup {0} /\ audio \in BOOLEAN /\ firstError \in BOOLEAN
  /\ dialogs \in Nat /\ settings \in {"closed", "visible"}
  /\ toGui \in Seq(Events) /\ toRig \in Seq(Events)
  /\ obj \in [Rigs -> Object] /\ radio \in Radio
  /\ wanted \in Freqs \cup {0} /\ own \in Rigs \cup {0}
  /\ spoilt \subseteq Spoilers /\ stuck \in BOOLEAN /\ moves \in Nat

QsyDone == (\A i \in 1..Len(toRig) : toRig[i].kind # "set") => radio.freq = wanted

\* A frequency the operator has chosen stays: with no command on its way the
\* radio is where the last QSY put it, whatever PTT, poll and late report follow.
\* It does not stand if since that QSY an operation has failed or a rig been
\* opened (wanted), or if one of Spoilers applies: the two of them that are the
\* program's own doing are QsyApplied and NoPingPong.
QsyStands == wanted # 0 /\ spoilt = {} => QsyDone

\* The promise of Transceiver.hpp that set() applies the state to the rig: no QSY
\* is lost inside the object.  Broken: a poll that still shows the old frequency
\* makes it the requested one, and a QSY back to it is then taken for none.
QsyApplied == wanted # 0 /\ spoilt \subseteq {"ignored"} => QsyDone

\* The promise of Transceiver.hpp that the number lets one ignore an update of
\* before the command: none sends the radio back.  Broken: Configuration takes the
\* frequency over first and looks at the number afterwards.
NoPingPong == wanted # 0 /\ spoilt \subseteq {"crossed"} => QsyDone

\* While a rig is open audio starts only on a radio that transmits: the update
\* that starts it was made after the last command was carried out, and the radio
\* has not been released since, but by a failure that is about to be heard of.
Unwell == \/ \E r \in Rigs : obj[r].phase = "failing"
          \/ \E i \in 1..Len(toGui) : toGui[i].kind = "failure"
AudioOnKeyedRig ==
  [][active /\ audio' /\ ~audio => radio.ptt \/ Unwell]_vars

\* A rig that rigOpen has opened after a failure, no other having been opened in
\* between, is not closed by what its predecessor still had to say.
ReopenStands ==
  [][active /\ ~active' /\ rig = own => Head(toGui).rig = rig]_vars

\* The radio is not left transmitting: when MainWindow has asked for PTT off, or
\* has no rig, it is released in the end, unless an object that went off line
\* could not release it.
Released == <>[](~active \/ ~cached.ptt => ~radio.ptt \/ stuck)

\* MainWindow comes to know the radio: once nobody does anything, what it
\* knows of an open rig is how the radio is.
Converges ==
  <>[](active => known = [online |-> TRUE, freq |-> radio.freq, ptt |-> radio.ptt])

\* A transmission does not wait for ever for the rig it was given to, unless
\* MainWindow has not seen the rig release PTT after the one before.
AudioStarts == <>[](active /\ waiting = rig => known.ptt)
=============================================================================
