----------------------------- MODULE TxControl -----------------------------
(***************************************************************************)
(* The transmit pipeline of MainWindow: a message is cut into frames, each *)
(* frame is keyed in a slot of its own, and between slots PTT is dropped   *)
(* or held.  Four actors take part:                                        *)
(*   - the GUI thread: guiUpdate every 100 ms, the buttons and keys, the   *)
(*     three single-shot timers, and rig updates as they are delivered;    *)
(*   - the rig thread (TransceiverBase), which obeys PTT commands;         *)
(*   - the audio thread (Modulator), which obeys start and stop;           *)
(*   - the clock, which moves through the phases of a transmit period.     *)
(*                                                                         *)
(* The members of MainWindow are the fields of one record.  Every function *)
(* of the C++ class is an operator from record to record, so that nested   *)
(* calls are nested applications; the actions only choose the inputs.      *)
(***************************************************************************)
EXTENDS Integers, Sequences

CONSTANTS
  MaxFrames,     \* bound: frames in a message, and frames sent in a session
  MaxReplies,    \* bound: messages waiting in m_txMessageQueue
  MaxLag,        \* bound: signals waiting for the rig or the audio thread
  HoldPtt,       \* Configuration::hold_ptt
  Tuning,        \* may the operator use the Tune button
  GuardBand,     \* is the dial in the 30 m WSPR sub-band: a set of choices
  Ready,         \* may startTx go on (callsign set, TX enabled, not idle)
  PromptRig      \* does the rig answer within a phase

ASSUME TxControlAssumption ==
  /\ MaxFrames \in Nat \ {0}
  /\ MaxReplies \in Nat
  /\ MaxLag \in Nat \ {0}
  /\ HoldPtt \in BOOLEAN /\ Tuning \in BOOLEAN /\ PromptRig \in BOOLEAN
  /\ GuardBand \subseteq BOOLEAN /\ Ready \subseteq BOOLEAN

VARIABLES
  gui,     \* the state of MainWindow, and the signals it has queued
  phase,   \* where the clock is in the transmit period
  ticked,  \* guiUpdate has run in this phase
  keyed,   \* the rig's PTT
  active   \* Modulator::isActive

vars == <<gui, phase, ticked, keyed, active>>

\* A period: a transmission may begin, it may only go on, it must be over.
Phases == {"start", "body", "gap"}
\* A single-shot timer; "due" once a phase has passed since it was started.
Timer == {"off", "armed", "due"}
\* Signals for the modulator, and what the rig has answered.
Signals == {"start", "stop"}
Answers == {"none", "on", "off"}
\* The flags of a frame.
Bits  == [first : BOOLEAN, last : BOOLEAN]
NoBits == [first |-> FALSE, last |-> FALSE]

GuiType ==
  [ auto         : BOOLEAN,  \* m_auto: frames are to be sent
    started      : BOOLEAN,  \* startTxButton is down
    tune         : BOOLEAN,  \* m_tune
    tuneButton   : BOOLEAN,  \* lastChecked of on_tuneButton_clicked
    btxok        : BOOLEAN,  btxok0 : BOOLEAN,
    iptt         : BOOLEAN,  iptt0  : BOOLEAN,   \* g_iptt and m_iptt0
    transmitting : BOOLEAN,
    unsent       : Nat,      \* frames the unsent part of the text makes
    sentText     : BOOLEAN,  \* some of the text is marked as sent
    dirty        : BOOLEAN,  \* the text was edited since frames were made
    frames       : Nat,      \* length of m_txFrameQueue
    frameCount   : Nat,      \* m_txFrameCount
    sentCount    : Nat,      \* m_txFrameCountSent
    next         : BOOLEAN,  \* nextFreeTextMsg holds a frame
    i3bit        : Bits,     \* its first and last flags
    queued       : Nat,      \* length of m_txMessageQueue
    ptt0 : Timer, ptt1 : Timer, tuneTimer : Timer,
    ready        : BOOLEAN,  \* m_tx_when_ready
    rigPtt       : BOOLEAN,  \* m_rigState.ptt
    ptt          : BOOLEAN,  \* the PTT last asked of the rig
    rigCmds      : Seq(BOOLEAN),  \* commands for the rig thread
    rigUpdate    : Answers,       \* its answer to the latest one
    audioCmds    : Seq(Signals),  \* signals for the modulator
    aired        : Nat ]     \* history: frames keyed since the last reset

InitGui ==
  [ auto |-> FALSE, started |-> FALSE, tune |-> FALSE, tuneButton |-> FALSE,
    btxok |-> FALSE, btxok0 |-> FALSE, iptt |-> FALSE, iptt0 |-> FALSE,
    transmitting |-> FALSE, unsent |-> 0, sentText |-> FALSE, dirty |-> FALSE,
    frames |-> 0, frameCount |-> 0, sentCount |-> 0, next |-> FALSE,
    i3bit |-> NoBits, queued |-> 0, ptt0 |-> "off", ptt1 |-> "off",
    tuneTimer |-> "off", ready |-> FALSE, rigPtt |-> FALSE, ptt |-> FALSE,
    rigCmds |-> <<>>, rigUpdate |-> "none", audioCmds |-> <<>>, aired |-> 0 ]

-----------------------------------------------------------------------------
(* The functions of MainWindow.                                            *)

TextEmpty(g) == g.unsent = 0 /\ ~g.sentText

\* endTransmitMessage and tune(false) reach Modulator::stop; a second stop
\* behind a first changes nothing and is not queued.
StopAudio(g) ==
  IF g.audioCmds # <<>> /\ g.audioCmds[Len(g.audioCmds)] = "stop"
  THEN g
  ELSE [g EXCEPT !.audioCmds = Append(@, "stop")]

\* Variant: an update that answers an older command still counts.
EmitPTT_AnyUpdate(g, on) == [g EXCEPT !.ptt = on, !.rigCmds = Append(@, on)]

\* A command gets a new number, and Configuration drops an update that does
\* not answer the latest command: an update not yet delivered is lost.
EmitPTT(g, on) ==
  [g EXCEPT !.ptt = on, !.rigCmds = Append(@, on), !.rigUpdate = "none"]

\* isMessageQueuedForTransmit
MessageQueued(g) == g.transmitting \/ g.frameCount > 0

\* The dirty flag of an empty text is never read; it is kept down.
ClearText(g) == [g EXCEPT !.unsent = 0, !.sentText = FALSE, !.dirty = FALSE]

ResetTransmitQueue(g) ==
  [g EXCEPT !.frameCount = 0, !.sentCount = 0, !.frames = 0, !.queued = 0,
            !.aired = 0]

\* resetMessage while the Send button is up
ResetMessage(g) == ResetTransmitQueue([ClearText(g) EXCEPT !.next = FALSE])

\* on_tuneButton_clicked(false) and the rest of stop_tuning: m_tune is still
\* set when the handler looks at it, so the timer is started.
StopTuning(g) ==
  LET h == IF g.tuneButton THEN [StopAudio(g) EXCEPT !.tuneTimer = "armed"]
                           ELSE g
  IN  [h EXCEPT !.tuneButton = FALSE, !.tune = FALSE]

\* Variant: the frame queue survives a Stop.
Halt_KeepsFrames(g) ==
  LET h == IF g.tune THEN StopTuning(g) ELSE g
  IN  [ClearText(h) EXCEPT !.auto = FALSE, !.btxok = FALSE, !.next = FALSE]

\* on_stopTxButton_clicked while the Send button is up; the calls it makes of
\* itself through stop_tuning and auto_tx_mode find nothing left to do.
Halt(g) ==
  LET h == IF g.tune THEN StopTuning(g) ELSE g
  IN  ResetMessage([h EXCEPT !.auto = FALSE, !.btxok = FALSE])

\* Variant: the timer behind a Stop is not started.
SendButtonUp_NoTimer(g) ==
  [StopAudio(Halt([g EXCEPT !.started = FALSE]))
     EXCEPT !.transmitting = FALSE, !.iptt = FALSE, !.i3bit = NoBits]

\* on_startTxButton_toggled(false): the stopTx it ends with finds no text.
SendButtonUp(g) ==
  [StopAudio(Halt([g EXCEPT !.started = FALSE]))
     EXCEPT !.transmitting = FALSE, !.iptt = FALSE, !.i3bit = NoBits,
            !.ptt0 = "armed"]

\* on_stopTxButton_clicked; resetMessageUI releases the Send button.
StopClicked(g) == IF g.started THEN SendButtonUp(g) ELSE Halt(g)

\* Variant: the first flag is not cleared on frames built by typeahead.
PrepareNextMessageFrame_AnyFirst(g) ==
  LET rebuild == g.dirty /\ ~TextEmpty(g)
      frames  == IF rebuild THEN g.unsent ELSE g.frames
      h == [g EXCEPT !.frameCount = IF rebuild THEN frames ELSE @,
                     !.dirty = @ /\ ~rebuild]
  IN  IF frames = 0
      THEN [h EXCEPT !.frames = 0, !.next = FALSE, !.i3bit = NoBits]
      ELSE [h EXCEPT !.frames = frames - 1, !.unsent = frames - 1,
                     !.sentText = TRUE, !.next = TRUE, !.sentCount = @ + 1,
                     !.i3bit = [first |-> rebuild, last |-> frames = 1]]

\* prepareNextMessageFrame: edited text is cut into frames anew, then one
\* frame is taken.  It returns TRUE iff next is set in the result.
PrepareNextMessageFrame(g) ==
  LET rebuild == g.dirty /\ ~TextEmpty(g)
      frames  == IF rebuild THEN g.unsent ELSE g.frames
      h == [g EXCEPT !.frameCount = IF rebuild THEN frames ELSE @,
                     !.dirty = @ /\ ~rebuild]
  IN  IF frames = 0
      THEN [h EXCEPT !.frames = 0, !.next = FALSE, !.i3bit = NoBits]
      ELSE [h EXCEPT !.frames = frames - 1, !.unsent = frames - 1,
                     !.sentText = TRUE, !.next = TRUE, !.sentCount = @ + 1,
                     !.i3bit = [first |-> rebuild /\ g.sentCount = 0,
                                last  |-> frames = 1]]

StopTx(g) ==
  LET h == PrepareNextMessageFrame(
             [StopAudio(g) EXCEPT !.btxok = FALSE, !.transmitting = FALSE,
                                  !.iptt = FALSE])
      k == IF h.next THEN h ELSE StopClicked(ClearText(h))
  IN  [k EXCEPT !.ptt0 = "armed"]

\* startTx, called with the Send button just pressed.  ok stands for the
\* tests of ensureCreateMessageReady.
StartTx(g, ok) ==
  LET h == PrepareNextMessageFrame(g)
  IN  IF TextEmpty(g) THEN g
      ELSE IF ~ok THEN StopClicked(g)
      ELSE IF h.next THEN [h EXCEPT !.auto = TRUE] ELSE h

\* toggleTx(true)
ToggleTx(g, ok) ==
  IF g.started THEN g ELSE StartTx([g EXCEPT !.started = TRUE], ok)

\* addMessageText(text, true) for a text of n frames
AddMessageText(g, n) ==
  IF MessageQueued(g) THEN g
  ELSE [ClearText(g) EXCEPT !.unsent = n, !.dirty = TRUE]

\* Variant: the queue is not tested for being empty.
ProcessTxQueue_Unchecked(g, n, send, ok) ==
  IF g.frames > 0 \/ ~TextEmpty(g)
  THEN g
  ELSE LET h == AddMessageText([g EXCEPT !.queued = @ - 1], n)
       IN  IF send THEN ToggleTx(h, ok) ELSE h

\* processTxQueue: the head of the queue is a message of n frames that is to
\* be sent at once iff send; which message that is is TxMessageQueue's concern.
ProcessTxQueue(g, n, send, ok) ==
  IF g.queued = 0 \/ g.frames > 0 \/ ~TextEmpty(g)
  THEN g
  ELSE LET h == AddMessageText([g EXCEPT !.queued = @ - 1], n)
       IN  IF send THEN ToggleTx(h, ok) ELSE h

-----------------------------------------------------------------------------
(* guiUpdate, cut at its four top-level tests.                             *)

\* Variant: m_btxok is not lowered when the time to transmit is over.
KeyRig_NoEnd(g, ph, wspr) ==
  LET txTime == ~wspr /\ (ph # "gap" \/ g.tune)
      a == IF wspr /\ g.auto THEN StopClicked(g) ELSE g
      b == IF ~a.next /\ ~a.tune THEN StopClicked(a) ELSE a
  IN  IF ~(g.transmitting \/ g.auto \/ g.tune) THEN g
      ELSE IF ~b.iptt /\ (b.tune \/ (txTime /\ ph = "start" /\ b.next))
           THEN [EmitPTT(b, TRUE) EXCEPT !.iptt = TRUE, !.ready = TRUE]
           ELSE b

\* if(m_transmitting or m_auto or m_tune) {...}
KeyRig(g, ph, wspr) ==
  LET txTime == ~wspr /\ (ph # "gap" \/ g.tune)
      a == IF wspr /\ g.auto THEN StopClicked(g) ELSE g
      b == IF ~a.next /\ ~a.tune THEN StopClicked(a) ELSE a
      c == IF ~b.iptt /\ (b.tune \/ (txTime /\ ph = "start" /\ b.next))
           THEN [EmitPTT(b, TRUE) EXCEPT !.iptt = TRUE, !.ready = TRUE]
           ELSE b
  IN  IF ~(g.transmitting \/ g.auto \/ g.tune) THEN g
      ELSE IF ~txTime /\ ~c.tune THEN [c EXCEPT !.btxok = FALSE] ELSE c

\* if(g_iptt == 1 && m_iptt0 == 0): the frame's tones are computed and the
\* transmission is under way; transmitDisplay(true) sets m_btxok.
BeginFrame(g) ==
  IF g.iptt /\ ~g.iptt0
  THEN [g EXCEPT !.transmitting = TRUE, !.btxok = TRUE,
                 !.aired = IF g.tune THEN @ ELSE @ + 1]
  ELSE g

\* Variant: stopTx is called whenever m_btxok is down.
EndFrame_NoEdge(g) == IF ~g.btxok THEN StopTx(g) ELSE g

EndFrame(g) == IF ~g.btxok /\ g.btxok0 /\ g.iptt THEN StopTx(g) ELSE g

\* if(nsec != m_sec0) {...}; sec0 when nsec is the first of the period, go
\* when the head of the message queue may be sent now.
OncePerSecond(g, sec0, go, n, send, ok) ==
  LET h == IF g.transmitting THEN [g EXCEPT !.btxok = TRUE] ELSE g
  IN  IF go /\ (sec0 \/ ~g.transmitting) THEN ProcessTxQueue(h, n, send, ok)
                                         ELSE h

\* Variant: m_btxok0 follows g_iptt's edge only.
Remember_NoBtxok(g) == [g EXCEPT !.iptt0 = g.iptt]

Remember(g) == [g EXCEPT !.iptt0 = g.iptt, !.btxok0 = g.btxok]

EveryPass(g, ph, wspr) == EndFrame(BeginFrame(KeyRig(g, ph, wspr)))

-----------------------------------------------------------------------------
(* The actions.                                                            *)

\* MaxLag: the threads that serve the two signal queues keep up.
Room == Len(gui.rigCmds) < MaxLag /\ Len(gui.audioCmds) < MaxLag

Init ==
  /\ gui = InitGui
  /\ phase = "gap" /\ ticked = FALSE
  /\ keyed = FALSE /\ active = FALSE

GuiUpdate ==
  /\ Room
  /\ phase # "start" \/ ticked     \* the first pass of a period has a new second
  /\ \E wspr \in GuardBand : gui' = Remember(EveryPass(gui, phase, wspr))
  /\ ticked' = TRUE
  /\ UNCHANGED <<phase, keyed, active>>

GuiUpdateSecond ==
  /\ Room
  /\ \E wspr \in GuardBand, go, send \in BOOLEAN, n \in 1..MaxFrames, ok \in Ready :
       gui' = Remember(OncePerSecond(EveryPass(gui, phase, wspr),
                                     phase = "start" /\ ~ticked, go, n, send, ok))
  /\ ticked' = TRUE
  /\ UNCHANGED <<phase, keyed, active>>

\* What the operator, a network client or another part of MainWindow asks for
\* is one handler, run whole on the GUI thread.
Handle(g) == /\ Room
             /\ gui' = g
             /\ UNCHANGED <<phase, ticked, keyed, active>>

\* An edit of the outgoing text: its unsent part now makes n frames.
UserType ==
  \E n \in 0..MaxFrames :
    /\ gui.sentCount + n <= MaxFrames
    /\ Handle([gui EXCEPT !.unsent = n, !.dirty = n > 0 \/ gui.sentText])

\* Pace: a hundred milliseconds pass between a Stop and the next Send, so that
\* guiUpdate has seen the Stop.
Settled == gui.iptt0 = gui.iptt /\ gui.btxok0 = gui.btxok

\* Enter, or the Send button.
UserSend ==
  /\ ~gui.started /\ ~TextEmpty(gui)
  /\ Settled
  /\ \E ok \in Ready : Handle(ToggleTx(gui, ok))

StopButton == Handle(StopClicked(gui))

\* keyPressEvent
Escape == Handle(StopTx(StopClicked(gui)))

\* on_tuneButton_clicked from the button itself
TuneButton ==
  /\ Tuning
  /\ LET g == [gui EXCEPT !.tuneButton = ~@]
         h == IF g.tune THEN [g EXCEPT !.tuneTimer = "armed"]
                        ELSE [g EXCEPT !.tune = TRUE]
     IN  Handle(IF g.tuneButton THEN h ELSE StopAudio(h))

\* tx_watchdog(true)
IdleTimeout ==
  LET a == IF gui.tune \/ gui.auto THEN StopClicked(gui) ELSE gui
  IN  Handle(ResetTransmitQueue(StopTx(a)))

\* enqueueMessage, for a reply to a decoded command
EnqueueReply ==
  /\ gui.queued < MaxReplies
  /\ Handle([gui EXCEPT !.queued = @ + 1])

\* sendHeartbeat, sendHeartbeatAck, TX.SEND_MESSAGE: enqueue and process
EnqueueAndProcess ==
  /\ gui.queued < MaxReplies
  /\ Settled
  /\ \E n \in 1..MaxFrames, send \in BOOLEAN, ok \in Ready :
       Handle(ProcessTxQueue([gui EXCEPT !.queued = @ + 1], n, send, ok))

\* Variants: PTT is released when no frame waits, as the last goes out;
\* PTT is held whenever the configuration says so.
Ptt0Timeout_FramesLeft ==
  /\ gui.ptt0 # "off"
  /\ LET g == [gui EXCEPT !.ptt0 = "off"]
     IN  Handle(IF ~g.tune /\ HoldPtt /\ g.frames > 0 THEN g
                ELSE EmitPTT(g, FALSE))

Ptt0Timeout_Hold ==
  /\ gui.ptt0 # "off"
  /\ LET g == [gui EXCEPT !.ptt0 = "off"]
     IN  Handle(IF ~g.tune /\ HoldPtt THEN g ELSE EmitPTT(g, FALSE))

\* stopTx2
Ptt0Timeout ==
  /\ gui.ptt0 # "off"
  /\ LET g == [gui EXCEPT !.ptt0 = "off"]
     IN  Handle(IF ~g.tune /\ HoldPtt /\ g.frameCount > 0 THEN g
                ELSE EmitPTT(g, FALSE))

\* startTx2
Ptt1Timeout ==
  /\ gui.ptt1 # "off"
  /\ LET g == [gui EXCEPT !.ptt1 = "off"]
     IN  Handle(IF active THEN g
                ELSE [g EXCEPT !.audioCmds = Append(@, "start")])

TuneTimeout ==
  /\ gui.tuneTimer # "off"
  /\ Handle(StopClicked([gui EXCEPT !.tuneTimer = "off"]))

\* Variant: the delay is started though the slot was given up.
RigUpdate_NotNeeded ==
  /\ gui.rigUpdate # "none"
  /\ LET on   == gui.rigUpdate = "on"
         safe == HoldPtt \/ (on /\ ~gui.rigPtt)
         g    == IF safe
                 THEN [gui EXCEPT !.ptt1 = IF gui.ready THEN "armed" ELSE @,
                                  !.ready = FALSE]
                 ELSE gui
     IN  Handle([g EXCEPT !.rigPtt = on, !.rigUpdate = "none"])

\* handle_transceiver_update
RigUpdate ==
  /\ gui.rigUpdate # "none"
  /\ LET on   == gui.rigUpdate = "on"
         safe == HoldPtt \/ (on /\ ~gui.rigPtt)
         g    == IF safe
                 THEN [gui EXCEPT !.ptt1 = IF gui.ready /\ gui.iptt THEN "armed" ELSE @,
                                  !.ready = FALSE]
                 ELSE gui
     IN  Handle([g EXCEPT !.rigPtt = on, !.rigUpdate = "none"])

\* TransceiverBase::set; the update counts only if no later command waits.
RigThread ==
  /\ gui.rigCmds # <<>>
  /\ keyed' = Head(gui.rigCmds)
  /\ gui' = [gui EXCEPT !.rigCmds = Tail(@),
                        !.rigUpdate = IF Len(gui.rigCmds) > 1 THEN "none"
                                      ELSE IF Head(gui.rigCmds) THEN "on" ELSE "off"]
  /\ UNCHANGED <<phase, ticked, active>>

\* Modulator::start and Modulator::stop; silence never ends by itself.
AudioThread ==
  /\ gui.audioCmds # <<>>
  /\ active' = (Head(gui.audioCmds) = "start")
  /\ gui' = [gui EXCEPT !.audioCmds = Tail(@)]
  /\ UNCHANGED <<phase, ticked, keyed>>

\* The next phase begins.  A phase outlasts a pass of guiUpdate, every timer
\* (at most half a second), the audio thread and, if PromptRig, the rig.
Advance ==
  /\ ticked
  /\ "due" \notin {gui.ptt0, gui.ptt1, gui.tuneTimer}
  /\ gui.audioCmds = <<>>
  /\ PromptRig => gui.rigCmds = <<>> /\ gui.rigUpdate = "none"
  /\ LET Age(t) == IF t = "off" THEN "off" ELSE "due"
     IN  gui' = [gui EXCEPT !.ptt0 = Age(@), !.ptt1 = Age(@), !.tuneTimer = Age(@)]
  /\ phase' = CASE phase = "start" -> "body"
                [] phase = "body"  -> "gap"
                [] phase = "gap"   -> "start"
  /\ ticked' = FALSE
  /\ UNCHANGED <<keyed, active>>

Operator == \/ UserType \/ UserSend \/ StopButton \/ Escape \/ TuneButton
            \/ IdleTimeout \/ EnqueueReply \/ EnqueueAndProcess

Machine == \/ GuiUpdate \/ GuiUpdateSecond
           \/ Ptt0Timeout \/ Ptt1Timeout \/ TuneTimeout
           \/ RigUpdate \/ RigThread \/ AudioThread \/ Advance

Next == Operator \/ Machine

Spec == Init /\ [][Next]_vars

\* The GUI event loop, its timers, the two threads and the clock all run on;
\* nobody has to press a key.
Fairness ==
  /\ WF_vars(GuiUpdate \/ GuiUpdateSecond)
  /\ WF_vars(Ptt0Timeout) /\ WF_vars(Ptt1Timeout) /\ WF_vars(TuneTimeout)
  /\ WF_vars(RigUpdate) /\ WF_vars(RigThread) /\ WF_vars(AudioThread)
  /\ WF_vars(Advance)

FairSpec == Spec /\ Fairness

-----------------------------------------------------------------------------
(* Properties.                                                             *)

\* The type invariant.
TypeOK ==
  /\ gui \in GuiType
  /\ phase \in Phases
  /\ ticked \in BOOLEAN /\ keyed \in BOOLEAN /\ active \in BOOLEAN

\* No path through stop, tune, time-out and send leaves frames to be keyed
\* behind a Send button that is up, where nothing on the screen would show
\* the operator that the next slot is taken.
SendButtonOwnsFrames ==
  /\ gui.auto => gui.started
  /\ gui.frames > 0 => gui.auto /\ gui.next
  /\ gui.next => gui.sentText

\* Once the rig has been told to transmit, something is left that will tell it
\* to stop: the slot being keyed, the timer behind stopTx, or, with PTT held,
\* a session that has a frame for the next slot.
PttHasOwner ==
  gui.ptt => \/ gui.iptt
             \/ gui.ptt0 # "off"
             \/ HoldPtt /\ gui.auto /\ gui.next

\* While a slot is keyed the edge detectors of guiUpdate stand so that the
\* end of the slot will be noticed: m_btxok0 is set whenever g_iptt is.
EndWillBeSeen == gui.iptt => gui.iptt0 /\ gui.btxok0 /\ (gui.transmitting \/ gui.tune)

\* Frames go out one by one: every frame counted and shown as sent has been
\* keyed in a slot of its own, except the one that waits for its slot.
FrameByFrame ==
  gui.auto /\ ~gui.tune /\ gui.tuneTimer = "off"
    => gui.sentCount = gui.aired + (IF gui.iptt THEN 0 ELSE 1)

\* The receiving side opens a message at a first frame and closes it at a last
\* one: of all the frames of a session, however often the text is edited and
\* cut anew, only the first to go out says first, and one says last exactly
\* when no other waits behind it.
Framing ==
  gui.auto /\ gui.next => /\ gui.i3bit.first <=> gui.sentCount = 1
                         /\ gui.i3bit.last <=> gui.frames = 0

\* With PTT held, the rig is not told to receive between the frames of a
\* message, however the operator edits the frames that are still to come.
PttHeldBetweenFrames ==
  HoldPtt /\ gui.auto /\ ~gui.tune /\ gui.tuneTimer = "off" /\ gui.aired > 0
    => gui.ptt

\* The audio delay is only started once the rig has obeyed the PTT command of
\* the slot being keyed: updates that answer older commands do not count.
AudioWaitsForRig ==
  [][gui.ptt1 = "off" /\ gui'.ptt1 = "armed" => keyed /\ gui.iptt]_vars

\* A message that has been started ends, and a PTT that nobody wants is
\* released.
SessionEnds == gui.auto ~> (~gui.auto \/ gui.tune)
PttReleased == (keyed /\ ~gui.auto /\ ~gui.tune) ~> (~keyed \/ gui.auto \/ gui.tune)

\* What the comments of the code say, and the code does not do.

\* "queue the reply here to be sent when a free interval is available": the
\* end of one message in guiUpdate does not take the queued replies with it.
RepliesSurviveCompletion ==
  [][gui.started /\ gui.iptt /\ ~gui'.iptt /\ ~gui'.iptt0
       => gui'.queued >= gui.queued]_vars

\* "waiting to Tx and still needed": when the audio delay has passed, audio is
\* started only if a transmission is still wanted.
AudioOnlyIfNeeded ==
  [][Len(gui'.audioCmds) > Len(gui.audioCmds)
       /\ gui'.audioCmds[Len(gui'.audioCmds)] = "start" => gui.iptt]_vars
=============================================================================
