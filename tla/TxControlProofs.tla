-------------------------- MODULE TxControlProofs --------------------------
(***************************************************************************)
(* Proofs about TxControl.                                                 *)
(***************************************************************************)
EXTENDS TxControl, TLAPS

-----------------------------------------------------------------------------
(* Every function of MainWindow maps a well-typed state to one.            *)

\* A signal put at the end of a queue of signals leaves such a queue.
LEMMA AppendType ==
  ASSUME NEW S, NEW q \in Seq(S), NEW e \in S
  PROVE  Append(q, e) \in Seq(S)
  OBVIOUS

\* What is taken from a queue of signals is a signal and leaves such a queue.
LEMMA HeadTailType ==
  ASSUME NEW S, NEW q \in Seq(S), q # <<>>
  PROVE  Head(q) \in S /\ Tail(q) \in Seq(S)
  OBVIOUS

\* The flags of no frame are flags.
LEMMA NoBitsType == NoBits \in Bits
  BY DEF NoBits, Bits

\* endTransmitMessage queues at most one stop for the modulator.
LEMMA StopAudioType ==
  ASSUME NEW g \in GuiType
  PROVE  StopAudio(g) \in GuiType
<1>1. Append(g.audioCmds, "stop") \in Seq(Signals)
  <2>1. g.audioCmds \in Seq(Signals) /\ "stop" \in Signals
    BY DEF GuiType, Signals
  <2> QED BY <2>1, AppendType
<1>2. [g EXCEPT !.audioCmds = Append(@, "stop")] \in GuiType
  BY <1>1, ZenonT(60) DEF GuiType
<1> QED BY <1>2 DEF StopAudio

\* A PTT command is queued for the rig thread.
LEMMA EmitPTTType ==
  ASSUME NEW g \in GuiType, NEW on \in BOOLEAN
  PROVE  EmitPTT(g, on) \in GuiType
<1>1. Append(g.rigCmds, on) \in Seq(BOOLEAN)
  <2>1. g.rigCmds \in Seq(BOOLEAN)
    BY DEF GuiType
  <2> QED BY <2>1, AppendType
<1> QED BY <1>1, ZenonT(60) DEF EmitPTT, GuiType, Answers

\* Clearing the outgoing text.
LEMMA ClearTextType ==
  ASSUME NEW g \in GuiType
  PROVE  ClearText(g) \in GuiType
<1>1. 0 \in Nat
  OBVIOUS
<1> QED BY <1>1, ZenonT(60) DEF ClearText, GuiType

\* resetMessageTransmitQueue.
LEMMA ResetTransmitQueueType ==
  ASSUME NEW g \in GuiType
  PROVE  ResetTransmitQueue(g) \in GuiType
<1>1. 0 \in Nat
  OBVIOUS
<1> QED BY <1>1, ZenonT(60) DEF ResetTransmitQueue, GuiType

\* resetMessage.
LEMMA ResetMessageType ==
  ASSUME NEW g \in GuiType
  PROVE  ResetMessage(g) \in GuiType
<1>1. [ClearText(g) EXCEPT !.next = FALSE] \in GuiType
  BY ClearTextType, ZenonT(60) DEF GuiType
<1> QED BY <1>1, ResetTransmitQueueType DEF ResetMessage

\* on_stopTxButton_clicked with the Send button up, through stop_tuning or not.
LEMMA HaltType ==
  ASSUME NEW g \in GuiType
  PROVE  Halt(g) \in GuiType
<1>1. StopTuning(g) \in GuiType
  <2> DEFINE f == [StopAudio(g) EXCEPT !.tuneTimer = "armed"]
             h == IF g.tuneButton THEN f ELSE g
  <2>1. f \in GuiType
    <3>1. StopAudio(g) \in GuiType
      BY StopAudioType
    <3> QED BY <3>1, ZenonT(60) DEF GuiType, Timer
  <2>2. h \in GuiType
    BY <2>1
  <2>3. [h EXCEPT !.tuneButton = FALSE, !.tune = FALSE] \in GuiType
    <3> HIDE DEF h
    <3> QED BY <2>2, ZenonT(60) DEF GuiType
  <2> QED BY <2>3 DEF StopTuning
<1> DEFINE h == IF g.tune THEN StopTuning(g) ELSE g
           k == [h EXCEPT !.auto = FALSE, !.btxok = FALSE]
<1>2. h \in GuiType
  BY <1>1
<1>3. k \in GuiType
  BY <1>2, ZenonT(60) DEF GuiType
<1>4. ResetMessage(k) \in GuiType
  BY <1>3, ResetMessageType
<1> QED BY <1>4 DEF Halt

\* on_stopTxButton_clicked, whichever way the Send button is.
LEMMA StopClickedType ==
  ASSUME NEW g \in GuiType
  PROVE  StopClicked(g) \in GuiType
<1> DEFINE h == [g EXCEPT !.started = FALSE]
<1>1. h \in GuiType
  BY ZenonT(60) DEF GuiType
<1>2. StopAudio(Halt(h)) \in GuiType
  BY <1>1, HaltType, StopAudioType
<1>3. SendButtonUp(g) \in GuiType
  BY <1>2, NoBitsType, ZenonT(60) DEF SendButtonUp, GuiType, Timer
<1> QED BY <1>3, HaltType DEF StopClicked

\* prepareNextMessageFrame: the frame counters never go below zero.
LEMMA PrepareType ==
  ASSUME NEW g \in GuiType
  PROVE  PrepareNextMessageFrame(g) \in GuiType
<1> DEFINE rebuild == g.dirty /\ ~TextEmpty(g)
           frames == IF rebuild THEN g.unsent ELSE g.frames
           count == IF rebuild THEN frames ELSE g.frameCount
           dirty == g.dirty /\ ~rebuild
           h == [g EXCEPT !.frameCount = count, !.dirty = dirty]
           bits == [first |-> rebuild /\ g.sentCount = 0, last |-> frames = 1]
<1>1. /\ frames \in Nat /\ count \in Nat /\ dirty \in BOOLEAN
      /\ bits \in Bits /\ 0 \in Nat
  BY DEF GuiType, Bits
<1>2. h \in GuiType
  <2> HIDE DEF count, dirty, frames
  <2> QED BY <1>1, ZenonT(60) DEF GuiType
<1>3. CASE frames = 0
  <2>1. [h EXCEPT !.frames = 0, !.next = FALSE, !.i3bit = NoBits] \in GuiType
    <3> HIDE DEF h
    <3> QED BY <1>1, <1>2, NoBitsType, ZenonT(60) DEF GuiType
  <2> QED BY <1>3, <2>1 DEF PrepareNextMessageFrame
<1>4. CASE frames # 0
  <2> DEFINE left == frames - 1
             sent == h.sentCount + 1
             k == [h EXCEPT !.frames = left, !.unsent = left,
                            !.sentText = TRUE, !.next = TRUE,
                            !.sentCount = sent, !.i3bit = bits]
  <2>1. left \in Nat
    BY <1>1, <1>4
  <2>2. sent \in Nat
    <3> HIDE DEF h
    <3> QED BY <1>2 DEF GuiType
  <2>3. k \in GuiType
    <3> HIDE DEF h, left, sent, bits
    <3> QED BY <1>1, <1>2, <2>1, <2>2, ZenonT(60) DEF GuiType
  <2> QED BY <1>4, <2>3 DEF PrepareNextMessageFrame
<1> QED BY <1>3, <1>4

\* stopTx.
LEMMA StopTxType ==
  ASSUME NEW g \in GuiType
  PROVE  StopTx(g) \in GuiType
<1> DEFINE f == [StopAudio(g) EXCEPT !.btxok = FALSE, !.transmitting = FALSE,
                                     !.iptt = FALSE]
           h == PrepareNextMessageFrame(f)
           k == IF h.next THEN h ELSE StopClicked(ClearText(h))
<1>1. f \in GuiType
  BY StopAudioType, ZenonT(60) DEF GuiType
<1>2. h \in GuiType
  BY <1>1, PrepareType
<1>3. k \in GuiType
  BY <1>2, ClearTextType, StopClickedType
<1>4. [k EXCEPT !.ptt0 = "armed"] \in GuiType
  <2> HIDE DEF k
  <2> QED BY <1>3, ZenonT(60) DEF GuiType, Timer
<1> QED BY <1>4 DEF StopTx

\* toggleTx(true) and the startTx behind it.
LEMMA ToggleTxType ==
  ASSUME NEW g \in GuiType, NEW ok
  PROVE  ToggleTx(g, ok) \in GuiType
<1> DEFINE f == [g EXCEPT !.started = TRUE]
           h == PrepareNextMessageFrame(f)
<1>1. f \in GuiType
  BY ZenonT(60) DEF GuiType
<1>2. h \in GuiType /\ StopClicked(f) \in GuiType
  BY <1>1, PrepareType, StopClickedType
<1>3. [h EXCEPT !.auto = TRUE] \in GuiType
  <2> HIDE DEF h
  <2> QED BY <1>2, ZenonT(60) DEF GuiType
<1> QED BY <1>1, <1>2, <1>3 DEF ToggleTx, StartTx

\* addMessageText.
LEMMA AddMessageTextType ==
  ASSUME NEW g \in GuiType, NEW n \in Nat
  PROVE  AddMessageText(g, n) \in GuiType
<1>1. ClearText(g) \in GuiType
  BY ClearTextType
<1>2. [ClearText(g) EXCEPT !.unsent = n, !.dirty = TRUE] \in GuiType
  BY <1>1, ZenonT(60) DEF GuiType
<1> QED BY <1>2 DEF AddMessageText

\* processTxQueue.
LEMMA ProcessTxQueueType ==
  ASSUME NEW g \in GuiType, NEW n \in Nat, NEW send, NEW ok
  PROVE  ProcessTxQueue(g, n, send, ok) \in GuiType
<1>1. CASE g.queued = 0 \/ g.frames > 0 \/ ~TextEmpty(g)
  BY <1>1 DEF ProcessTxQueue
<1>2. CASE ~(g.queued = 0 \/ g.frames > 0 \/ ~TextEmpty(g))
  <2> DEFINE f == [g EXCEPT !.queued = @ - 1]
             h == AddMessageText(f, n)
  <2>1. f \in GuiType
    <3>1. g.queued - 1 \in Nat
      BY <1>2 DEF GuiType
    <3> QED BY <3>1, ZenonT(60) DEF GuiType
  <2>2. h \in GuiType
    BY <2>1, AddMessageTextType
  <2> QED BY <1>2, <2>2, ToggleTxType DEF ProcessTxQueue
<1> QED BY <1>1, <1>2

\* The first part of guiUpdate.
LEMMA KeyRigType ==
  ASSUME NEW g \in GuiType, NEW ph, NEW wspr
  PROVE  KeyRig(g, ph, wspr) \in GuiType
<1> DEFINE txTime == ~wspr /\ (ph # "gap" \/ g.tune)
           a == IF wspr /\ g.auto THEN StopClicked(g) ELSE g
           b == IF ~a.next /\ ~a.tune THEN StopClicked(a) ELSE a
           c == IF ~b.iptt /\ (b.tune \/ (txTime /\ ph = "start" /\ b.next))
                THEN [EmitPTT(b, TRUE) EXCEPT !.iptt = TRUE, !.ready = TRUE]
                ELSE b
<1>1. a \in GuiType
  BY StopClickedType
<1>2. b \in GuiType
  BY <1>1, StopClickedType
<1>3. c \in GuiType
  <2>1. EmitPTT(b, TRUE) \in GuiType
    BY <1>2, EmitPTTType
  <2>2. [EmitPTT(b, TRUE) EXCEPT !.iptt = TRUE, !.ready = TRUE] \in GuiType
    <3> HIDE DEF b
    <3> QED BY <2>1, ZenonT(60) DEF GuiType
  <2> QED BY <1>2, <2>2
<1>4. [c EXCEPT !.btxok = FALSE] \in GuiType
  <2> HIDE DEF c
  <2> QED BY <1>3, ZenonT(60) DEF GuiType
<1> QED BY <1>3, <1>4 DEF KeyRig

\* The three parts of guiUpdate that every pass runs.
LEMMA EveryPassType ==
  ASSUME NEW g \in GuiType, NEW ph, NEW wspr
  PROVE  EveryPass(g, ph, wspr) \in GuiType
<1> DEFINE a == KeyRig(g, ph, wspr)
           b == BeginFrame(a)
<1>1. a \in GuiType
  BY KeyRigType
<1>2. b \in GuiType
  <2> DEFINE n == IF a.tune THEN a.aired ELSE a.aired + 1
  <2> HIDE DEF a
  <2>1. n \in Nat
    BY <1>1 DEF GuiType
  <2>2. [a EXCEPT !.transmitting = TRUE, !.btxok = TRUE, !.aired = n] \in GuiType
    <3> HIDE DEF n
    <3> QED BY <1>1, <2>1, ZenonT(60) DEF GuiType
  <2> QED BY <1>1, <2>2 DEF BeginFrame
<1>3. EndFrame(b) \in GuiType
  BY <1>2, StopTxType DEF EndFrame
<1> QED BY <1>3 DEF EveryPass

\* The part of guiUpdate that runs when the second changes.
LEMMA OncePerSecondType ==
  ASSUME NEW g \in GuiType, NEW sec0, NEW go, NEW n \in Nat, NEW send, NEW ok
  PROVE  OncePerSecond(g, sec0, go, n, send, ok) \in GuiType
<1> DEFINE h == IF g.transmitting THEN [g EXCEPT !.btxok = TRUE] ELSE g
<1>1. h \in GuiType
  <2>1. [g EXCEPT !.btxok = TRUE] \in GuiType
    BY ZenonT(60) DEF GuiType
  <2> QED BY <2>1
<1> QED BY <1>1, ProcessTxQueueType DEF OncePerSecond

\* The copies guiUpdate keeps for its edge detectors.
LEMMA RememberType ==
  ASSUME NEW g \in GuiType
  PROVE  Remember(g) \in GuiType
<1>1. g.iptt \in BOOLEAN /\ g.btxok \in BOOLEAN
  BY DEF GuiType
<1> QED BY <1>1, ZenonT(60) DEF Remember, GuiType

\* The actions of one handler on the GUI thread.
LEMMA HandleType ==
  ASSUME TypeOK, NEW g \in GuiType, Handle(g)
  PROVE  TypeOK'
  BY DEF Handle, TypeOK

\* The constructor leaves a well-typed state.
LEMMA InitType == Init => TypeOK
<1>1. 0 \in Nat /\ <<>> \in Seq(BOOLEAN) /\ <<>> \in Seq(Signals)
  OBVIOUS
<1>2. InitGui \in GuiType
  BY <1>1, NoBitsType, ZenonT(60) DEF InitGui, GuiType, Timer, Answers
<1> QED BY <1>2 DEF Init, TypeOK, Phases

\* Every handler, timer and thread step keeps the state well typed.
LEMMA NextType == TypeOK /\ [Next]_vars => TypeOK'
<1> SUFFICES ASSUME TypeOK, [Next]_vars
             PROVE  TypeOK'
  OBVIOUS
<1>1. gui \in GuiType
  BY DEF TypeOK
<1>a. CASE UserType
  <2>1. PICK n \in 0..MaxFrames :
          Handle([gui EXCEPT !.unsent = n, !.dirty = n > 0 \/ gui.sentText])
    BY <1>a DEF UserType
  <2> DEFINE dirty == n > 0 \/ gui.sentText
  <2>2. n \in Nat /\ dirty \in BOOLEAN
    BY <1>1, TxControlAssumption DEF GuiType
  <2>3. [gui EXCEPT !.unsent = n, !.dirty = dirty] \in GuiType
    <3> HIDE DEF dirty
    <3> QED BY <1>1, <2>2, ZenonT(60) DEF GuiType
  <2> QED BY <2>1, <2>3, HandleType
<1>b. CASE UserSend
  <2>1. PICK ok \in Ready : Handle(ToggleTx(gui, ok))
    BY <1>b DEF UserSend
  <2>2. ToggleTx(gui, ok) \in GuiType
    BY <1>1, ToggleTxType
  <2> QED BY <2>1, <2>2, HandleType
<1>c. CASE StopButton
  BY <1>1, <1>c, StopClickedType, HandleType DEF StopButton
<1>d. CASE Escape
  <2>1. StopTx(StopClicked(gui)) \in GuiType
    BY <1>1, StopClickedType, StopTxType
  <2> QED BY <1>d, <2>1, HandleType DEF Escape
<1>e. CASE TuneButton
  <2> DEFINE g == [gui EXCEPT !.tuneButton = ~@]
             h == IF g.tune THEN [g EXCEPT !.tuneTimer = "armed"]
                            ELSE [g EXCEPT !.tune = TRUE]
  <2>1. g \in GuiType
    <3>1. (~gui.tuneButton) \in BOOLEAN
      BY <1>1 DEF GuiType
    <3> QED BY <1>1, <3>1, ZenonT(60) DEF GuiType
  <2>2. h \in GuiType
    <3> HIDE DEF g
    <3>1. [g EXCEPT !.tuneTimer = "armed"] \in GuiType
      BY <2>1, ZenonT(60) DEF GuiType, Timer
    <3>2. [g EXCEPT !.tune = TRUE] \in GuiType
      BY <2>1, ZenonT(60) DEF GuiType
    <3> QED BY <3>1, <3>2
  <2>3. StopAudio(h) \in GuiType
    BY <2>2, StopAudioType
  <2> QED BY <1>e, <2>2, <2>3, HandleType DEF TuneButton
<1>f. CASE IdleTimeout
  <2> DEFINE a == IF gui.tune \/ gui.auto THEN StopClicked(gui) ELSE gui
  <2>1. a \in GuiType
    BY <1>1, StopClickedType
  <2>2. ResetTransmitQueue(StopTx(a)) \in GuiType
    BY <2>1, StopTxType, ResetTransmitQueueType
  <2> QED BY <1>f, <2>2, HandleType DEF IdleTimeout
<1>g. CASE EnqueueReply \/ EnqueueAndProcess
  <2> DEFINE g == [gui EXCEPT !.queued = @ + 1]
  <2>1. g \in GuiType
    <3>1. gui.queued + 1 \in Nat
      BY <1>1 DEF GuiType
    <3> QED BY <1>1, <3>1, ZenonT(60) DEF GuiType
  <2>2. CASE EnqueueReply
    BY <2>1, <2>2, HandleType DEF EnqueueReply
  <2>3. CASE EnqueueAndProcess
    <3>1. PICK n \in 1..MaxFrames, send \in BOOLEAN, ok \in Ready :
            Handle(ProcessTxQueue(g, n, send, ok))
      BY <2>3 DEF EnqueueAndProcess
    <3>2. n \in Nat
      BY TxControlAssumption
    <3>3. ProcessTxQueue(g, n, send, ok) \in GuiType
      BY <2>1, <3>2, ProcessTxQueueType
    <3> QED BY <3>1, <3>3, HandleType
  <2> QED BY <1>g, <2>2, <2>3
<1>h. CASE GuiUpdate
  <2>1. PICK wspr \in GuardBand : gui' = Remember(EveryPass(gui, phase, wspr))
    BY <1>h DEF GuiUpdate
  <2>2. gui' \in GuiType
    BY <1>1, <2>1, EveryPassType, RememberType
  <2> QED BY <1>h, <2>2 DEF GuiUpdate, TypeOK
<1>i. CASE GuiUpdateSecond
  <2>1. PICK wspr \in GuardBand, go, send \in BOOLEAN,
             n \in 1..MaxFrames, ok \in Ready :
          gui' = Remember(OncePerSecond(EveryPass(gui, phase, wspr),
                            phase = "start" /\ ~ticked, go, n, send, ok))
    BY <1>i DEF GuiUpdateSecond
  <2>2. n \in Nat
    BY TxControlAssumption
  <2>3. gui' \in GuiType
    BY <1>1, <2>1, <2>2, EveryPassType, OncePerSecondType, RememberType
  <2> QED BY <1>i, <2>3 DEF GuiUpdateSecond, TypeOK
<1>j. CASE Ptt0Timeout
  <2> DEFINE g == [gui EXCEPT !.ptt0 = "off"]
  <2>1. g \in GuiType
    BY <1>1, ZenonT(60) DEF GuiType, Timer
  <2>2. EmitPTT(g, FALSE) \in GuiType
    BY <2>1, EmitPTTType
  <2> QED BY <1>j, <2>1, <2>2, HandleType DEF Ptt0Timeout
<1>k. CASE Ptt1Timeout
  <2> DEFINE g == [gui EXCEPT !.ptt1 = "off"]
             h == [g EXCEPT !.audioCmds = Append(@, "start")]
  <2>1. g \in GuiType
    BY <1>1, ZenonT(60) DEF GuiType, Timer
  <2>2. Append(g.audioCmds, "start") \in Seq(Signals)
    <3> HIDE DEF g
    <3>1. g.audioCmds \in Seq(Signals) /\ "start" \in Signals
      BY <2>1 DEF GuiType, Signals
    <3> QED BY <3>1, AppendType
  <2>3. h \in GuiType
    <3> HIDE DEF g
    <3> QED BY <2>1, <2>2, ZenonT(60) DEF GuiType
  <2> QED BY <1>k, <2>1, <2>3, HandleType DEF Ptt1Timeout
<1>l. CASE TuneTimeout
  <2>1. [gui EXCEPT !.tuneTimer = "off"] \in GuiType
    BY <1>1, ZenonT(60) DEF GuiType, Timer
  <2> QED BY <1>l, <2>1, StopClickedType, HandleType DEF TuneTimeout
<1>m. CASE RigUpdate
  <2> DEFINE on   == gui.rigUpdate = "on"
             safe == HoldPtt \/ (on /\ ~gui.rigPtt)
             ptt1 == IF gui.ready /\ gui.iptt THEN "armed" ELSE gui.ptt1
             f == [gui EXCEPT !.ptt1 = ptt1, !.ready = FALSE]
             g == IF safe THEN f ELSE gui
             h == [g EXCEPT !.rigPtt = on, !.rigUpdate = "none"]
  <2>1. on \in BOOLEAN /\ ptt1 \in Timer
    BY <1>1 DEF GuiType, Timer
  <2>2. f \in GuiType
    <3> HIDE DEF ptt1
    <3> QED BY <1>1, <2>1, ZenonT(60) DEF GuiType
  <2>3. g \in GuiType
    BY <1>1, <2>2
  <2>4. h \in GuiType
    <3> HIDE DEF g, on
    <3> QED BY <2>1, <2>3, ZenonT(60) DEF GuiType, Answers
  <2> QED BY <1>m, <2>4, HandleType DEF RigUpdate
<1>n. CASE RigThread
  <2> DEFINE cmds == Tail(gui.rigCmds)
             answer == IF Len(gui.rigCmds) > 1 THEN "none"
                       ELSE IF Head(gui.rigCmds) THEN "on" ELSE "off"
  <2>1. /\ cmds \in Seq(BOOLEAN) /\ Head(gui.rigCmds) \in BOOLEAN
        /\ answer \in Answers
    <3>1. gui.rigCmds \in Seq(BOOLEAN) /\ gui.rigCmds # <<>>
      BY <1>1, <1>n DEF GuiType, RigThread
    <3>2. cmds \in Seq(BOOLEAN) /\ Head(gui.rigCmds) \in BOOLEAN
      BY <3>1, HeadTailType
    <3>3. answer \in Answers
      BY DEF Answers
    <3> QED BY <3>2, <3>3
  <2>2. [gui EXCEPT !.rigCmds = cmds, !.rigUpdate = answer] \in GuiType
    <3> HIDE DEF cmds, answer
    <3> QED BY <1>1, <2>1, ZenonT(60) DEF GuiType
  <2> QED BY <1>n, <2>1, <2>2 DEF RigThread, TypeOK
<1>o. CASE AudioThread
  <2> DEFINE cmds == Tail(gui.audioCmds)
  <2>1. cmds \in Seq(Signals)
    <3>1. gui.audioCmds \in Seq(Signals) /\ gui.audioCmds # <<>>
      BY <1>1, <1>o DEF GuiType, AudioThread
    <3> QED BY <3>1, HeadTailType
  <2>2. [gui EXCEPT !.audioCmds = cmds] \in GuiType
    <3> HIDE DEF cmds
    <3> QED BY <1>1, <2>1, ZenonT(60) DEF GuiType
  <2> QED BY <1>o, <2>2 DEF AudioThread, TypeOK
<1>p. CASE Advance
  <2> DEFINE Age(t) == IF t = "off" THEN "off" ELSE "due"
             x == Age(gui.ptt0)
             y == Age(gui.ptt1)
             z == Age(gui.tuneTimer)
  <2>1. x \in Timer /\ y \in Timer /\ z \in Timer
    BY DEF Timer
  <2>2. [gui EXCEPT !.ptt0 = x, !.ptt1 = y, !.tuneTimer = z] \in GuiType
    <3> HIDE DEF x, y, z
    <3> QED BY <1>1, <2>1, ZenonT(60) DEF GuiType
  <2> QED BY <1>p, <2>2 DEF Advance, TypeOK, Phases
<1>q. CASE UNCHANGED vars
  BY <1>q DEF TypeOK, vars
<1> QED BY <1>a, <1>b, <1>c, <1>d, <1>e, <1>f, <1>g, <1>h, <1>i, <1>j, <1>k,
           <1>l, <1>m, <1>n, <1>o, <1>p, <1>q DEF Next, Operator, Machine

\* The state of the transmit pipeline is well typed in every reachable state.
THEOREM TypeInvariant == Spec => []TypeOK
  BY InitType, NextType, PTL DEF Spec

-----------------------------------------------------------------------------
(* The session invariant.  While no tuning is possible, m_auto, the Send   *)
(* button and the frame counters move together, and so do g_iptt,          *)
(* m_transmitting and m_btxok.  Session holds of the state of MainWindow   *)
(* at every step inside a handler, Edges only between handlers.            *)

Session(g) ==
  /\ ~g.tune /\ g.tuneTimer = "off"
  /\ g.auto => /\ g.started /\ g.next /\ g.frameCount > 0
               /\ g.sentCount = g.aired + (IF g.iptt THEN 0 ELSE 1)
               /\ g.i3bit.first <=> g.sentCount = 1
               /\ g.i3bit.last <=> g.frames = 0
               /\ HoldPtt /\ g.aired > 0 => g.ptt
               /\ g.iptt => g.aired > 0
  /\ ~g.auto => /\ ~g.iptt /\ g.frames = 0 /\ g.frameCount = 0
                /\ g.sentCount = 0 /\ g.aired = 0
  /\ g.next => g.sentText
  /\ g.transmitting <=> g.iptt
  /\ g.btxok <=> g.iptt
  /\ g.ptt => g.iptt \/ g.ptt0 # "off" \/ (HoldPtt /\ g.auto)

Edges(g) ==
  /\ g.iptt => g.iptt0 /\ g.btxok0
  /\ ~g.iptt /\ (g.iptt0 \/ g.btxok0) => ~g.auto

SessionInv == Session(gui) /\ Edges(gui)

\* What most functions leave alone, and what on_stopTxButton_clicked leaves.
RigKept(g, r) == /\ r.ptt = g.ptt /\ r.rigCmds = g.rigCmds
                 /\ r.rigUpdate = g.rigUpdate /\ r.ptt1 = g.ptt1

Kept(g, r) == /\ r.iptt0 = g.iptt0 /\ r.btxok0 = g.btxok0
              /\ r.tune = g.tune /\ r.tuneTimer = g.tuneTimer
              /\ RigKept(g, r)

Cleared(r) == /\ ~r.auto /\ ~r.next /\ ~r.btxok
              /\ r.unsent = 0 /\ ~r.sentText
              /\ r.frames = 0 /\ r.frameCount = 0
              /\ r.sentCount = 0 /\ r.aired = 0

\* What on_stopTxButton_clicked clears and keeps when the Send button is up.
LEMMA HaltFields ==
  ASSUME NEW g \in GuiType, ~g.tune
  PROVE  LET r == Halt(g)
         IN  /\ Kept(g, r) /\ Cleared(r) /\ r.started = g.started
             /\ r.iptt = g.iptt /\ r.transmitting = g.transmitting
             /\ r.ptt0 = g.ptt0 /\ r.ptt = g.ptt
  BY DEF Halt, ResetMessage, ResetTransmitQueue, ClearText, GuiType, Kept, RigKept, Cleared

\* What it clears and keeps in either case: with the Send button down the slot
\* ends and the PTT timer runs.
LEMMA StopClickedFields ==
  ASSUME NEW g \in GuiType, ~g.tune
  PROVE  LET r == StopClicked(g)
         IN  /\ Kept(g, r) /\ Cleared(r) /\ ~r.started /\ r.ptt = g.ptt
             /\ g.started => ~r.iptt /\ ~r.transmitting /\ r.ptt0 = "armed"
             /\ ~g.started => /\ r.iptt = g.iptt /\ r.ptt0 = g.ptt0
                              /\ r.transmitting = g.transmitting
<1>1. CASE ~g.started
  BY <1>1, HaltFields DEF StopClicked
<1>2. CASE g.started
  <2> DEFINE f == [g EXCEPT !.started = FALSE]
             h == Halt(f)
             k == StopAudio(h)
  <2>1. f \in GuiType /\ h \in GuiType /\ k \in GuiType
    <3>1. f \in GuiType
      BY ZenonT(60) DEF GuiType
    <3> QED BY <3>1, HaltType, StopAudioType
  <2>2. Kept(g, f) /\ ~f.tune /\ ~f.started /\ f.ptt = g.ptt
    BY DEF GuiType, Kept, RigKept
  <2>3. Kept(f, h) /\ Cleared(h) /\ ~h.started /\ h.ptt = f.ptt
    BY <2>1, <2>2, HaltFields
  <2>4. Kept(h, k) /\ Cleared(k) /\ ~k.started /\ k.ptt = h.ptt
    <3> HIDE DEF h
    <3> QED BY <2>1, <2>3 DEF StopAudio, GuiType, Kept, RigKept, Cleared
  <2>5. StopClicked(g) = [k EXCEPT !.transmitting = FALSE, !.iptt = FALSE,
                                   !.i3bit = NoBits, !.ptt0 = "armed"]
    BY <1>2 DEF StopClicked, SendButtonUp
  <2> HIDE DEF k, h, f
  <2> QED BY <1>2, <2>1, <2>2, <2>3, <2>4, <2>5 DEF GuiType, Kept, RigKept, Cleared
<1> QED BY <1>1, <1>2

\* The two results of prepareNextMessageFrame.
Prepared(g, r) ==
  /\ Kept(g, r) /\ r.ptt = g.ptt /\ r.ptt0 = g.ptt0
  /\ r.auto = g.auto /\ r.started = g.started /\ r.aired = g.aired
  /\ r.iptt = g.iptt /\ r.transmitting = g.transmitting /\ r.btxok = g.btxok
  /\ r.next =>
       LET new == g.dirty /\ ~TextEmpty(g)
       IN  /\ r.sentText /\ r.sentCount = g.sentCount + 1
           /\ r.i3bit.first <=> new /\ g.sentCount = 0
           /\ r.i3bit.last <=> r.frames = 0
           /\ IF new THEN r.frameCount > 0
                     ELSE r.frameCount = g.frameCount /\ g.frames > 0
  /\ ~r.next => /\ r.frames = 0 /\ r.sentCount = g.sentCount
                /\ r.frameCount = 0 \/ r.frameCount = g.frameCount

\* prepareNextMessageFrame sets the flags of the frame it takes, and takes one
\* only if there is one.
LEMMA PrepareFields ==
  ASSUME NEW g \in GuiType
  PROVE  Prepared(g, PrepareNextMessageFrame(g))
<1> DEFINE r == PrepareNextMessageFrame(g)
           rebuild == g.dirty /\ ~TextEmpty(g)
           frames == IF rebuild THEN g.unsent ELSE g.frames
           count == IF rebuild THEN frames ELSE g.frameCount
           dirty == g.dirty /\ ~rebuild
           h == [g EXCEPT !.frameCount = count, !.dirty = dirty]
           bits == [first |-> rebuild /\ g.sentCount = 0, last |-> frames = 1]
<1>1. frames \in Nat /\ count \in Nat /\ dirty \in BOOLEAN
  BY DEF GuiType
<1>2. h \in GuiType
  <2> HIDE DEF count, dirty, frames
  <2> QED BY <1>1, ZenonT(60) DEF GuiType
<1>3. /\ Kept(g, h) /\ h.ptt = g.ptt /\ h.ptt0 = g.ptt0
      /\ h.auto = g.auto /\ h.started = g.started /\ h.aired = g.aired
      /\ h.iptt = g.iptt /\ h.transmitting = g.transmitting
      /\ h.btxok = g.btxok /\ h.sentCount = g.sentCount
      /\ h.frameCount = count
  <2> HIDE DEF count, dirty, frames
  <2> QED BY DEF GuiType, Kept, RigKept
<1>4. CASE frames = 0
  <2>1. r = [h EXCEPT !.frames = 0, !.next = FALSE, !.i3bit = NoBits]
    BY <1>4 DEF PrepareNextMessageFrame
  <2>2. count = 0 \/ count = g.frameCount
    BY <1>4
  <2> HIDE DEF r, h, count
  <2>3. Prepared(g, r)
    BY <1>2, <1>3, <2>1, <2>2 DEF GuiType, Kept, RigKept, Prepared
  <2> QED BY <2>3 DEF r
<1>5. CASE frames # 0
  <2>1. r = [h EXCEPT !.frames = frames - 1, !.unsent = frames - 1,
                      !.sentText = TRUE, !.next = TRUE,
                      !.sentCount = h.sentCount + 1, !.i3bit = bits]
    BY <1>5 DEF PrepareNextMessageFrame
  <2>2. /\ rebuild => count > 0
        /\ ~rebuild => count = g.frameCount /\ g.frames > 0
    BY <1>1, <1>5
  <2>3. bits.first <=> rebuild /\ g.sentCount = 0
    OBVIOUS
  <2>4. bits.last <=> frames - 1 = 0
    <3>1. bits.last <=> frames = 1
      OBVIOUS
    <3> HIDE DEF bits, frames
    <3> QED BY <1>1, <3>1
  <2> HIDE DEF r, h, count, frames, bits, rebuild
  <2>5. /\ r.next /\ r.sentText /\ r.sentCount = g.sentCount + 1
        /\ r.i3bit = bits /\ r.frames = frames - 1 /\ r.frameCount = count
    BY <1>2, <1>3, <2>1 DEF GuiType
  <2>6. /\ Kept(h, r) /\ r.ptt = h.ptt /\ r.ptt0 = h.ptt0
        /\ r.auto = h.auto /\ r.started = h.started /\ r.aired = h.aired
        /\ r.iptt = h.iptt /\ r.transmitting = h.transmitting
        /\ r.btxok = h.btxok
    BY <1>2, <2>1 DEF GuiType, Kept, RigKept
  <2>7. Prepared(g, r)
    BY <1>3, <2>2, <2>3, <2>4, <2>5, <2>6 DEF Kept, RigKept, Prepared, rebuild
  <2> QED BY <2>7 DEF r
<1> QED BY <1>4, <1>5

\* stopTx: either the next frame is ready, or everything is cleared.
StoppedTx(g, r) ==
  /\ Kept(g, r) /\ r.ptt = g.ptt /\ r.ptt0 = "armed"
  /\ ~r.iptt /\ ~r.transmitting /\ ~r.btxok
  /\ r.next =>
       LET new == g.dirty /\ ~TextEmpty(g)
       IN  /\ r.auto = g.auto /\ r.started = g.started /\ r.aired = g.aired
           /\ r.sentText /\ r.sentCount = g.sentCount + 1
           /\ r.i3bit.first <=> new /\ g.sentCount = 0
           /\ r.i3bit.last <=> r.frames = 0
           /\ IF new THEN r.frameCount > 0
                     ELSE r.frameCount = g.frameCount /\ g.frames > 0
  /\ ~r.next => Cleared(r)

\* stopTx ends the slot and leaves the next frame ready, or ends the message.
LEMMA StopTxFields ==
  ASSUME NEW g \in GuiType, ~g.tune
  PROVE  StoppedTx(g, StopTx(g))
<1> DEFINE f == [StopAudio(g) EXCEPT !.btxok = FALSE, !.transmitting = FALSE,
                                     !.iptt = FALSE]
           h == PrepareNextMessageFrame(f)
           c == ClearText(h)
           k == IF h.next THEN h ELSE StopClicked(c)
           r == [k EXCEPT !.ptt0 = "armed"]
<1>1. f \in GuiType /\ h \in GuiType /\ c \in GuiType /\ k \in GuiType
  <2>1. StopAudio(g) \in GuiType
    BY StopAudioType
  <2>2. f \in GuiType
    BY <2>1, ZenonT(60) DEF GuiType
  <2> QED BY <2>2, PrepareType, ClearTextType, StopClickedType
<1>2. /\ Kept(g, f) /\ f.ptt = g.ptt /\ f.auto = g.auto /\ f.started = g.started
      /\ f.aired = g.aired /\ f.sentCount = g.sentCount /\ f.frames = g.frames
      /\ f.frameCount = g.frameCount /\ f.dirty = g.dirty
      /\ TextEmpty(f) <=> TextEmpty(g)
      /\ ~f.iptt /\ ~f.transmitting /\ ~f.btxok
  BY DEF StopAudio, TextEmpty, GuiType, Kept, RigKept
<1>3. Prepared(f, h)
  BY <1>1, PrepareFields
<1>4. CASE h.next
  <2>1. k = h
    BY <1>4
  <2> HIDE DEF f, h, k
  <2>2. /\ Kept(h, r) /\ r.ptt = h.ptt /\ r.ptt0 = "armed"
        /\ r.auto = h.auto /\ r.started = h.started /\ r.aired = h.aired
        /\ r.iptt = h.iptt /\ r.transmitting = h.transmitting
        /\ r.btxok = h.btxok /\ r.next = h.next /\ r.sentText = h.sentText
        /\ r.sentCount = h.sentCount /\ r.i3bit = h.i3bit
        /\ r.frames = h.frames /\ r.frameCount = h.frameCount
    BY <1>1, <2>1 DEF GuiType, Kept, RigKept
  <2> HIDE DEF r
  <2>3. StoppedTx(g, r)
    BY <1>2, <1>3, <1>4, <2>2 DEF Kept, RigKept, Prepared, StoppedTx
  <2> QED BY <2>3 DEF StopTx, f, h, k, r
<1>5. CASE ~h.next
  <2>1. k = StopClicked(c)
    BY <1>5
  <2>2. Kept(h, c) /\ c.ptt = h.ptt /\ c.iptt = h.iptt
        /\ c.transmitting = h.transmitting
    <3> HIDE DEF h
    <3> QED BY <1>1 DEF ClearText, GuiType, Kept, RigKept
  <2>3. ~c.tune
    BY <1>2, <1>3, <2>2 DEF Kept, Prepared
  <2>4. /\ Kept(c, k) /\ Cleared(k) /\ k.ptt = c.ptt
        /\ ~k.iptt /\ ~k.transmitting
    <3> HIDE DEF c, h, f
    <3>1. ~c.iptt /\ ~c.transmitting
      BY <1>2, <1>3, <2>2 DEF Prepared
    <3> QED BY <1>1, <2>1, <2>3, <3>1, StopClickedFields
  <2> HIDE DEF f, h, c, k
  <2>5. StoppedTx(g, r)
    BY <1>1, <1>2, <1>3, <2>2, <2>4
       DEF GuiType, Kept, RigKept, Prepared, StoppedTx, Cleared
  <2> QED BY <2>5 DEF StopTx, f, h, c, k
<1> QED BY <1>4, <1>5
\* on_stopTxButton_clicked ends the session, whatever state it is called in.
LEMMA StopClickedSession ==
  ASSUME NEW g \in GuiType, Session(g)
  PROVE  LET r == StopClicked(g)
         IN  Session(r) /\ Kept(g, r) /\ Cleared(r) /\ ~r.iptt /\ ~r.started
<1> DEFINE r == StopClicked(g)
<1>1. ~g.tune
  BY DEF Session
<1>2. /\ Kept(g, r) /\ Cleared(r) /\ ~r.started
      /\ g.started => ~r.iptt /\ ~r.transmitting /\ r.ptt0 = "armed"
      /\ ~g.started => /\ r.iptt = g.iptt /\ r.ptt0 = g.ptt0
                       /\ r.transmitting = g.transmitting
  BY <1>1, StopClickedFields DEF Kept, RigKept
<1> HIDE DEF r
<1>3. ~r.iptt /\ ~r.transmitting
  BY <1>2 DEF Session
<1>4. Session(r)
  BY <1>2, <1>3 DEF Session, Kept, RigKept, Cleared
<1> QED BY <1>2, <1>3, <1>4 DEF r

\* startTx begins a session with its first frame, or leaves things at rest.
LEMMA StartTxSession ==
  ASSUME NEW g \in GuiType, NEW ok, Session(g), ~g.auto, g.started
  PROVE  LET r == StartTx(g, ok) IN Session(r) /\ Kept(g, r) /\ (r.iptt <=> g.iptt)
<1> DEFINE h == PrepareNextMessageFrame(g)
           t == [h EXCEPT !.auto = TRUE]
<1>1. h \in GuiType /\ Prepared(g, h) /\ ~g.tune
  BY PrepareType, PrepareFields DEF Session
<1>2. CASE TextEmpty(g)
  BY <1>2 DEF StartTx, Kept, RigKept
<1>3. CASE ~TextEmpty(g) /\ ~ok
  BY <1>3, StopClickedSession DEF StartTx, Session
<1>4. CASE ~TextEmpty(g) /\ ok /\ h.next
  <2> HIDE DEF h
  <2>1. /\ Kept(h, t) /\ t.auto /\ t.started = h.started /\ t.next = h.next
        /\ t.frameCount = h.frameCount /\ t.sentCount = h.sentCount
        /\ t.aired = h.aired /\ t.iptt = h.iptt /\ t.i3bit = h.i3bit
        /\ t.frames = h.frames /\ t.sentText = h.sentText
        /\ t.transmitting = h.transmitting /\ t.btxok = h.btxok
        /\ t.ptt0 = h.ptt0
    BY <1>1 DEF GuiType, Kept, RigKept
  <2> HIDE DEF t
  <2>2. Kept(g, t)
    BY <1>1, <2>1 DEF Prepared, Kept, RigKept
  <2>4. ~t.iptt /\ ~g.iptt
    BY <1>1, <2>1 DEF Session, Prepared
  <2>3. Session(t)
    BY <1>1, <1>4, <2>1 DEF Session, Prepared, Kept, RigKept, GuiType
  <2> QED BY <1>4, <2>2, <2>3, <2>4 DEF StartTx, h, t
<1>5. CASE ~TextEmpty(g) /\ ok /\ ~h.next
  <2> HIDE DEF h
  <2>1. Session(h) /\ Kept(g, h) /\ (h.iptt <=> g.iptt)
    BY <1>1, <1>5 DEF Session, Prepared, Kept, RigKept, GuiType
  <2> QED BY <1>5, <2>1 DEF StartTx, h
<1> QED BY <1>2, <1>3, <1>4, <1>5

\* toggleTx(true) keys nothing itself.
LEMMA ToggleTxSession ==
  ASSUME NEW g \in GuiType, NEW ok, Session(g)
  PROVE  LET r == ToggleTx(g, ok) IN Session(r) /\ Kept(g, r) /\ (r.iptt <=> g.iptt)
<1>1. CASE g.started
  BY <1>1 DEF ToggleTx, Kept, RigKept
<1>2. CASE ~g.started
  <2> DEFINE f == [g EXCEPT !.started = TRUE]
  <2>1. f \in GuiType
    BY ZenonT(60) DEF GuiType
  <2>2. Session(f) /\ Kept(g, f) /\ ~f.auto /\ f.started /\ (f.iptt <=> g.iptt)
    BY <1>2 DEF Session, GuiType, Kept, RigKept
  <2> HIDE DEF f
  <2>3. LET r == StartTx(f, ok) IN Session(r) /\ Kept(f, r) /\ (r.iptt <=> f.iptt)
    BY <2>1, <2>2, StartTxSession
  <2> QED BY <1>2, <2>2, <2>3 DEF ToggleTx, Kept, RigKept, f
<1> QED BY <1>1, <1>2

\* processTxQueue starts a message only where none is under way.
LEMMA ProcessTxQueueSession ==
  ASSUME NEW g \in GuiType, NEW n \in Nat, NEW send, NEW ok, Session(g)
  PROVE  LET r == ProcessTxQueue(g, n, send, ok) IN Session(r) /\ Kept(g, r) /\ (r.iptt <=> g.iptt)
<1>1. CASE g.queued = 0 \/ g.frames > 0 \/ ~TextEmpty(g)
  BY <1>1 DEF ProcessTxQueue, Kept, RigKept
<1>2. CASE ~(g.queued = 0 \/ g.frames > 0 \/ ~TextEmpty(g))
  <2> DEFINE q == g.queued - 1
             f == [g EXCEPT !.queued = q]
             h == AddMessageText(f, n)
  <2>1. f \in GuiType /\ h \in GuiType
    <3>1. q \in Nat
      BY <1>2 DEF GuiType
    <3>2. f \in GuiType
      <4> HIDE DEF q
      <4> QED BY <3>1, ZenonT(60) DEF GuiType
    <3> QED BY <3>2, AddMessageTextType
  <2>2. Session(f) /\ Kept(g, f) /\ ~f.next /\ (f.iptt <=> g.iptt)
    <3> HIDE DEF q
    <3> QED BY <1>2 DEF Session, GuiType, Kept, RigKept, TextEmpty
  <2>3. Session(h) /\ Kept(g, h) /\ (h.iptt <=> g.iptt)
    <3> HIDE DEF f
    <3> QED BY <2>1, <2>2
            DEF AddMessageText, ClearText, Session, GuiType, Kept, RigKept
  <2> HIDE DEF h
  <2>4. LET r == ToggleTx(h, ok) IN Session(r) /\ Kept(h, r) /\ (r.iptt <=> h.iptt)
    BY <2>1, <2>3, ToggleTxSession
  <2> QED BY <1>2, <2>3, <2>4 DEF ProcessTxQueue, Kept, RigKept, h
<1> QED BY <1>1, <1>2
-----------------------------------------------------------------------------
(* guiUpdate keeps the session together.                                   *)

\* A transmission that is keyed, and one whose time is over.
KeyedBy(g) == [EmitPTT(g, TRUE) EXCEPT !.iptt = TRUE, !.ready = TRUE]
OverFor(g) == [g EXCEPT !.btxok = FALSE]

\* The four things the first part of guiUpdate can do.
KeyRigCases(g, ph, wspr, r) ==
  \/ r = g /\ ~(g.iptt /\ ~g.btxok)
  \/ r = KeyedBy(g) /\ g.auto /\ g.next /\ ~g.iptt /\ ph = "start"
  \/ r = OverFor(g) /\ g.iptt /\ g.auto
  \/ Session(r) /\ Kept(g, r) /\ ~r.iptt

\* The first part of guiUpdate does one of those four things.
LEMMA KeyRigSession ==
  ASSUME NEW g \in GuiType, NEW ph \in Phases, NEW wspr \in BOOLEAN, Session(g)
  PROVE  KeyRigCases(g, ph, wspr, KeyRig(g, ph, wspr))
<1> DEFINE r == KeyRig(g, ph, wspr)
           s == StopClicked(g)
           o == OverFor(s)
<1>0. ~g.tune
  BY DEF Session
<1>1. CASE ~(g.transmitting \/ g.auto)
  BY <1>0, <1>1 DEF KeyRig, KeyRigCases, Session
<1>2. s \in GuiType /\ Session(s) /\ Kept(g, s) /\ Cleared(s) /\ ~s.iptt
  BY StopClickedType, StopClickedSession
<1>3. ~s.tune /\ ~s.next
  BY <1>2 DEF Session, Cleared
<1>4. Session(o) /\ Kept(g, o) /\ ~o.iptt
  <2> HIDE DEF s
  <2> QED BY <1>2 DEF OverFor, Session, GuiType, Kept, RigKept
<1> DEFINE t == StopClicked(s)
           u == OverFor(t)
<1>5. t \in GuiType /\ Session(t) /\ Kept(s, t) /\ ~t.iptt /\ ~t.tune
  <2> HIDE DEF s
  <2>1. t \in GuiType /\ Session(t) /\ Kept(s, t) /\ ~t.iptt
    BY <1>2, StopClickedType, StopClickedSession
  <2> QED BY <2>1 DEF Session
<1>6. Session(u) /\ Kept(g, u) /\ ~u.iptt
  <2> HIDE DEF s, t
  <2>1. Session(u) /\ Kept(t, u) /\ ~u.iptt
    BY <1>5 DEF OverFor, Session, GuiType, Kept, RigKept
  <2> HIDE DEF u
  <2> QED BY <1>2, <1>5, <2>1 DEF Kept, RigKept
<1>7. CASE g.auto /\ wspr
  <2>1. r = u
    BY <1>0, <1>3, <1>5, <1>7 DEF KeyRig, OverFor
  <2> QED BY <1>6, <2>1 DEF KeyRigCases
<1>8. CASE g.auto /\ ~wspr
  <2>1. g.next
    BY <1>8 DEF Session
  <2>2. CASE ~g.iptt /\ ph = "start"
    <3>1. r = KeyedBy(g)
      BY <1>0, <1>8, <2>1, <2>2 DEF KeyRig, KeyedBy, EmitPTT, GuiType
    <3> QED BY <1>8, <2>1, <2>2, <3>1 DEF KeyRigCases
  <2>3. CASE ~(~g.iptt /\ ph = "start")
    <3>1. r = IF ph = "gap" THEN OverFor(g) ELSE g
      BY <1>0, <1>8, <2>1, <2>3 DEF KeyRig, OverFor
    <3>2. g.iptt => g.btxok
      BY DEF Session
    <3>3. ~g.iptt => Session(OverFor(g)) /\ Kept(g, OverFor(g)) /\ ~OverFor(g).iptt
      BY DEF OverFor, Session, GuiType, Kept, RigKept
    <3> QED BY <1>8, <3>1, <3>2, <3>3 DEF KeyRigCases
  <2> QED BY <2>2, <2>3
<1>9. CASE g.transmitting /\ ~g.auto
  BY <1>9 DEF Session
<1> QED BY <1>1, <1>7, <1>8, <1>9

\* What a pass of guiUpdate leaves: either the rig was not spoken to, or it
\* was asked to transmit.
RigAsked(g, r, on) == /\ r.ptt = on /\ r.rigCmds = Append(g.rigCmds, on)
                      /\ r.rigUpdate = "none" /\ r.ptt1 = g.ptt1

RigSteps(g, r) == RigKept(g, r) \/ RigAsked(g, r, TRUE)

\* The end of a slot, seen by guiUpdate: the next frame, or the end.
LEMMA EndFrameSession ==
  ASSUME NEW g \in GuiType, Session(g), g.iptt
  PROVE  LET r == StopTx(OverFor(g)) IN Session(r) /\ RigKept(g, r)
<1> DEFINE f == OverFor(g)
           r == StopTx(f)
<1>1. f \in GuiType
  BY ZenonT(60) DEF OverFor, GuiType
<1>2. /\ Kept(g, f) /\ f.auto = g.auto /\ f.started = g.started
      /\ f.next = g.next /\ f.frameCount = g.frameCount
      /\ f.sentCount = g.sentCount /\ f.aired = g.aired /\ f.frames = g.frames
  BY DEF OverFor, GuiType, Kept, RigKept
<1>3. ~f.tune
  BY <1>2 DEF Session, Kept
<1>4. StoppedTx(f, r) /\ r \in GuiType
  BY <1>1, <1>3, StopTxFields, StopTxType
<1>5. /\ g.auto /\ g.started /\ g.next /\ g.frameCount > 0
      /\ g.sentCount = g.aired /\ g.aired > 0 /\ g.aired \in Nat
      /\ HoldPtt => g.ptt
  BY DEF Session, GuiType
<1> HIDE DEF f, r
<1>6. RigKept(g, r)
  BY <1>2, <1>4 DEF StoppedTx, Kept, RigKept
<1>9. /\ ~r.tune /\ r.tuneTimer = "off" /\ r.ptt0 = "armed"
      /\ ~r.iptt /\ ~r.transmitting /\ ~r.btxok
  BY <1>2, <1>4 DEF Session, StoppedTx, Kept
<1>7. r.next => Session(r)
  <2> SUFFICES ASSUME r.next PROVE Session(r)
    OBVIOUS
  <2> DEFINE new == f.dirty /\ ~TextEmpty(f)
  <2>1. /\ r.auto = f.auto /\ r.started = f.started /\ r.aired = f.aired
        /\ r.sentText /\ r.sentCount = f.sentCount + 1
        /\ r.i3bit.first <=> new /\ f.sentCount = 0
        /\ r.i3bit.last <=> r.frames = 0
        /\ IF new THEN r.frameCount > 0 ELSE r.frameCount = f.frameCount
    BY <1>4 DEF StoppedTx
  <2> HIDE DEF new
  <2>2. r.auto /\ r.started /\ r.frameCount > 0
    BY <1>2, <1>5, <2>1
  <2>3. r.aired = g.aired /\ r.sentCount = g.aired + 1 /\ ~r.i3bit.first
    BY <1>2, <1>5, <2>1
  <2>4. HoldPtt => r.ptt
    BY <1>5, <1>6 DEF RigKept
  <2> QED BY <1>5, <1>9, <2>1, <2>2, <2>3, <2>4 DEF Session
<1>8. ~r.next => Session(r)
  <2> SUFFICES ASSUME ~r.next PROVE Session(r)
    OBVIOUS
  <2>1. Cleared(r)
    BY <1>4 DEF StoppedTx
  <2> QED BY <1>9, <2>1 DEF Session, Cleared
<1> QED BY <1>6, <1>7, <1>8 DEF f, r

\* Keying, beginning and ending a frame in one pass keeps the session whole.
LEMMA EveryPassSession ==
  ASSUME NEW g \in GuiType, NEW ph \in Phases, NEW wspr \in BOOLEAN,
         Session(g), Edges(g)
  PROVE  LET r == EveryPass(g, ph, wspr) IN Session(r) /\ RigSteps(g, r)
<1> DEFINE k == KeyRig(g, ph, wspr)
           b == BeginFrame(k)
           r == EndFrame(b)
<1>1. KeyRigCases(g, ph, wspr, k)
  BY KeyRigSession
<1>2. CASE k = g /\ ~(g.iptt /\ ~g.btxok)
  <2>1. b = g
    BY <1>2 DEF BeginFrame, Edges
  <2>2. r = g
    BY <1>2, <2>1 DEF EndFrame
  <2> QED BY <2>2 DEF EveryPass, RigSteps, RigKept
<1>3. CASE k = KeyedBy(g) /\ g.auto /\ g.next /\ ~g.iptt /\ ph = "start"
  <2> DEFINE n == k.aired + 1
             x == [k EXCEPT !.transmitting = TRUE, !.btxok = TRUE, !.aired = n]
  <2>1. /\ k.iptt /\ ~k.iptt0 /\ ~k.tune /\ k.ptt /\ RigAsked(g, k, TRUE)
        /\ k.tuneTimer = "off" /\ k.auto /\ k.started /\ k.next
        /\ k.frameCount = g.frameCount /\ k.sentCount = g.sentCount
        /\ k.aired = g.aired /\ k.i3bit = g.i3bit /\ k.frames = g.frames
        /\ k.sentText = g.sentText
    <3>1. /\ k.iptt /\ k.ptt /\ RigAsked(g, k, TRUE)
          /\ k.iptt0 = g.iptt0 /\ k.tune = g.tune /\ k.started = g.started
          /\ k.tuneTimer = g.tuneTimer /\ k.auto = g.auto /\ k.next = g.next
          /\ k.frameCount = g.frameCount /\ k.sentCount = g.sentCount
          /\ k.aired = g.aired /\ k.i3bit = g.i3bit /\ k.frames = g.frames
          /\ k.sentText = g.sentText
      <4> DEFINE y == EmitPTT(g, TRUE)
                 c == Append(g.rigCmds, TRUE)
      <4>0. y \in GuiType
        <5>1. TRUE \in BOOLEAN  OBVIOUS
        <5> QED BY <5>1, EmitPTTType, Zenon
      <4>1. y = [g EXCEPT !.ptt = TRUE, !.rigCmds = c, !.rigUpdate = "none"]
        BY Zenon DEF EmitPTT
      <4>2. k = [y EXCEPT !.iptt = TRUE, !.ready = TRUE]  BY <1>3 DEF KeyedBy
      <4> HIDE DEF k, y, c
      <4>3. /\ y.ptt /\ y.rigCmds = c /\ y.rigUpdate = "none" /\ y.ptt1 = g.ptt1
            /\ y.iptt0 = g.iptt0 /\ y.tune = g.tune /\ y.started = g.started
            /\ y.tuneTimer = g.tuneTimer /\ y.auto = g.auto /\ y.next = g.next
            /\ y.frameCount = g.frameCount /\ y.sentCount = g.sentCount
            /\ y.aired = g.aired /\ y.i3bit = g.i3bit /\ y.frames = g.frames
            /\ y.sentText = g.sentText
        BY <4>1 DEF GuiType
      <4>4. /\ k.iptt /\ k.ptt /\ k.rigCmds = c /\ k.rigUpdate = "none" /\ k.ptt1 = g.ptt1
            /\ k.iptt0 = g.iptt0 /\ k.tune = g.tune /\ k.started = g.started
            /\ k.tuneTimer = g.tuneTimer /\ k.auto = g.auto /\ k.next = g.next
            /\ k.frameCount = g.frameCount /\ k.sentCount = g.sentCount
            /\ k.aired = g.aired /\ k.i3bit = g.i3bit /\ k.frames = g.frames
            /\ k.sentText = g.sentText
        BY <4>0, <4>2, <4>3 DEF GuiType
      <4>5. RigAsked(g, k, TRUE)  BY <4>4, Zenon DEF RigAsked, c
      <4> QED BY <4>4, <4>5
    <3> QED BY <1>3, <3>1 DEF Session, Edges
  <2>2. k \in GuiType
    BY KeyRigType
  <2> HIDE DEF k
  <2>3. b = x
    BY <2>1 DEF BeginFrame
  <2>4. r = x
    BY <2>2, <2>3 DEF EndFrame, GuiType
  <2>5. /\ x.iptt /\ ~x.tune /\ x.ptt /\ RigAsked(g, x, TRUE)
        /\ x.tuneTimer = "off" /\ x.auto /\ x.started /\ x.next
        /\ x.frameCount = g.frameCount /\ x.sentCount = g.sentCount
        /\ x.aired = g.aired + 1 /\ x.i3bit = g.i3bit /\ x.frames = g.frames
        /\ x.sentText = g.sentText /\ x.transmitting /\ x.btxok
    BY <2>1, <2>2 DEF GuiType, RigAsked
  <2> HIDE DEF x
  <2>6. Session(x)
    BY <1>3, <2>5 DEF Session, GuiType
  <2> QED BY <2>4, <2>5, <2>6 DEF EveryPass, RigSteps, k, x
<1>4. CASE k = OverFor(g) /\ g.iptt /\ g.auto
  <2>1. k.iptt /\ k.iptt0 /\ ~k.btxok /\ k.btxok0
    BY <1>4 DEF OverFor, GuiType, Edges
  <2>2. b = k /\ r = StopTx(k)
    BY <2>1 DEF BeginFrame, EndFrame
  <2> QED BY <1>4, <2>2, EndFrameSession DEF EveryPass, RigSteps
<1>5. CASE Session(k) /\ Kept(g, k) /\ ~k.iptt
  <2>1. b = k /\ r = k
    BY <1>5 DEF BeginFrame, EndFrame
  <2> QED BY <1>5, <2>1 DEF EveryPass, RigSteps, Kept
<1> QED BY <1>1, <1>2, <1>3, <1>4, <1>5 DEF KeyRigCases

\* So does what happens when the second changes.
LEMMA OncePerSecondSession ==
  ASSUME NEW g \in GuiType, NEW sec0, NEW go, NEW n \in Nat, NEW send, NEW ok,
         Session(g)
  PROVE  LET r == OncePerSecond(g, sec0, go, n, send, ok)
         IN  Session(r) /\ RigKept(g, r)
<1> DEFINE f == [g EXCEPT !.btxok = TRUE]
           h == IF g.transmitting THEN f ELSE g
<1>1. f \in GuiType
  BY ZenonT(60) DEF GuiType
<1>2. h \in GuiType
  BY <1>1
<1>3. g.transmitting => Session(f) /\ RigKept(g, f)
  BY DEF Session, GuiType, RigKept
<1>4. Session(h) /\ RigKept(g, h)
  <2> HIDE DEF f
  <2> QED BY <1>3 DEF RigKept
<1> HIDE DEF h
<1>5. LET r == ProcessTxQueue(h, n, send, ok) IN Session(r) /\ Kept(h, r)
  BY <1>2, <1>4, ProcessTxQueueSession
<1> QED BY <1>4, <1>5 DEF OncePerSecond, Kept, RigKept, h

\* The copies are taken of a whole session, so the edge detectors fit it.
LEMMA RememberSession ==
  ASSUME NEW g \in GuiType, Session(g)
  PROVE  LET r == Remember(g) IN Session(r) /\ Edges(r) /\ RigKept(g, r)
BY DEF Remember, Session, Edges, GuiType, RigKept
-----------------------------------------------------------------------------
(* The inductive invariant.                                                *)

\* The rig ends up with the PTT last asked of it, and an update that has not
\* been delivered yet tells the PTT the rig has.
RigInv ==
  /\ gui.rigCmds = <<>> => keyed = gui.ptt
  /\ gui.rigCmds # <<>> => gui.rigCmds[Len(gui.rigCmds)] = gui.ptt
  /\ gui.rigUpdate # "none" =>
       gui.rigCmds = <<>> /\ (keyed <=> gui.rigUpdate = "on")

IInv == TypeOK /\ SessionInv /\ RigInv

\* The step that AudioWaitsForRig asks for, and what each action is shown to do.
AudioWaits == gui.ptt1 = "off" /\ gui'.ptt1 = "armed" => keyed /\ gui.iptt

Good == SessionInv' /\ RigInv' /\ AudioWaits

\* The last element of a sequence, when one is added and when one is taken.
LEMMA AppendLast ==
  ASSUME NEW S, NEW s \in Seq(S), NEW e \in S
  PROVE  LET t == Append(s, e) IN t # <<>> /\ t[Len(t)] = e
OBVIOUS

\* What is left of a queue still ends in its last element.
LEMMA TailLast ==
  ASSUME NEW S, NEW s \in Seq(S), s # <<>>
  PROVE  /\ Tail(s) = <<>> => Head(s) = s[Len(s)] /\ ~(Len(s) > 1)
         /\ Tail(s) # <<>> => /\ Tail(s)[Len(Tail(s))] = s[Len(s)]
                              /\ Len(s) > 1
OBVIOUS

\* A handler that gives the rig at most one command.
LEMMA RigHandled ==
  ASSUME TypeOK, RigInv, NEW r \in GuiType, gui' = r /\ UNCHANGED keyed,
         RigKept(gui, r) \/ \E on \in BOOLEAN : RigAsked(gui, r, on)
  PROVE  RigInv' /\ AudioWaits
<1>1. gui' = r /\ keyed' = keyed /\ gui \in GuiType
  BY DEF TypeOK
<1>2. AudioWaits
  BY <1>1 DEF AudioWaits, RigKept, RigAsked
<1>3. CASE RigKept(gui, r)
  BY <1>1, <1>2, <1>3 DEF RigInv, RigKept
<1>4. CASE \E on \in BOOLEAN : RigAsked(gui, r, on)
  <2>1. PICK on \in BOOLEAN : RigAsked(gui, r, on)
    BY <1>4
  <2>2. gui.rigCmds \in Seq(BOOLEAN)
    BY <1>1 DEF GuiType
  <2>3. r.rigCmds # <<>> /\ r.rigCmds[Len(r.rigCmds)] = on
    BY <2>1, <2>2, AppendLast DEF RigAsked
  <2>4. RigInv'
    BY <1>1, <2>1, <2>3 DEF RigInv, RigAsked
  <2> QED BY <1>2, <2>4
<1> QED BY <1>3, <1>4

\* A handler that also leaves the session whole.
LEMMA HandledGood ==
  ASSUME IInv, NEW r \in GuiType, gui' = r /\ UNCHANGED keyed,
         Session(r), Edges(r),
         RigKept(gui, r) \/ \E on \in BOOLEAN : RigAsked(gui, r, on)
  PROVE  Good
<1>1. SessionInv'
  BY DEF SessionInv
<1>2. RigInv' /\ AudioWaits
  BY RigHandled DEF IInv
<1> QED BY <1>1, <1>2 DEF Good

\* A session that is at rest needs no edge detector.
LEMMA AtRest ==
  ASSUME NEW g, Session(g), Cleared(g), ~g.iptt
  PROVE  Edges(g)
BY DEF Edges, Cleared

\* Stop, from the button or from a timer.
LEMMA StopClickedGood ==
  ASSUME IInv, Handle(StopClicked(gui))
  PROVE  Good
<1>1. gui \in GuiType /\ Session(gui)
  BY DEF IInv, TypeOK, SessionInv
<1> DEFINE r == StopClicked(gui)
<1>2. r \in GuiType /\ Session(r) /\ Kept(gui, r) /\ Cleared(r) /\ ~r.iptt
  BY <1>1, StopClickedType, StopClickedSession
<1> HIDE DEF r
<1>3. Edges(r)
  BY <1>2, AtRest
<1>4. gui' = r /\ UNCHANGED keyed
  BY DEF r, Handle
<1> QED BY <1>2, <1>3, <1>4, HandledGood DEF Kept

\* stopTx with no session under way, as Escape and the idle timeout call it.
LEMMA StopTxIdle ==
  ASSUME NEW g \in GuiType, Session(g), ~g.auto
  PROVE  LET r == StopTx(g)
         IN  /\ RigKept(g, r) /\ r \in GuiType
             /\ Session(ResetTransmitQueue(r)) /\ Edges(ResetTransmitQueue(r))
             /\ RigKept(g, ResetTransmitQueue(r))
             /\ TextEmpty(g) => Session(r) /\ Edges(r)
<1> DEFINE r == StopTx(g)
           q == ResetTransmitQueue(r)
<1>1. StoppedTx(g, r) /\ r \in GuiType
  BY StopTxFields, StopTxType DEF Session
<1> HIDE DEF r
<1>2. /\ ~r.tune /\ r.tuneTimer = "off" /\ r.ptt0 = "armed"
      /\ ~r.iptt /\ ~r.transmitting /\ ~r.btxok /\ RigKept(g, r)
  BY <1>1 DEF Session, StoppedTx, Kept
<1>3. r.next => ~r.auto /\ r.sentText
  BY <1>1 DEF StoppedTx
<1>4. ~r.next => Cleared(r)
  BY <1>1 DEF StoppedTx
<1>5. ~r.auto
  BY <1>3, <1>4 DEF Cleared
<1>6. Session(q) /\ Edges(q) /\ RigKept(g, q)
  BY <1>1, <1>2, <1>3, <1>5
     DEF ResetTransmitQueue, GuiType, Session, Edges, RigKept
<1>7. TextEmpty(g) => ~r.next
  BY <1>1 DEF StoppedTx, Session, GuiType
<1>8. ~r.next => Session(r) /\ Edges(r)
  BY <1>2, <1>4 DEF Session, Edges, Cleared
<1> QED BY <1>1, <1>2, <1>6, <1>7, <1>8 DEF r
\* A pass of guiUpdate keeps the invariant.
LEMMA GuiUpdateGood ==
  ASSUME IInv, GuiUpdate \/ GuiUpdateSecond
  PROVE  Good
<1>0. gui \in GuiType /\ Session(gui) /\ Edges(gui) /\ phase \in Phases
  BY DEF IInv, TypeOK, SessionInv
<1>1. SUFFICES ASSUME NEW r \in GuiType, Session(r), RigSteps(gui, r),
                      gui' = Remember(r), UNCHANGED keyed
               PROVE  Good
  <2>1. CASE GuiUpdate
    <3>1. PICK wspr \in BOOLEAN : gui' = Remember(EveryPass(gui, phase, wspr))
      BY <2>1, TxControlAssumption DEF GuiUpdate
    <3> DEFINE p == EveryPass(gui, phase, wspr)
    <3>2. p \in GuiType /\ Session(p) /\ RigSteps(gui, p)
      BY <1>0, EveryPassType, EveryPassSession
    <3> HIDE DEF p
    <3>3. gui' = Remember(p) /\ UNCHANGED keyed
      BY <2>1, <3>1 DEF GuiUpdate, p
    <3> QED BY <3>2, <3>3, <1>1
  <2>2. CASE GuiUpdateSecond
    <3>1. PICK wspr \in BOOLEAN, go \in BOOLEAN, send \in BOOLEAN,
               n \in 1..MaxFrames, ok \in Ready :
            gui' = Remember(OncePerSecond(EveryPass(gui, phase, wspr),
                              phase = "start" /\ ~ticked, go, n, send, ok))
      BY <2>2, TxControlAssumption DEF GuiUpdateSecond
    <3>2. n \in Nat
      BY TxControlAssumption
    <3> DEFINE p == EveryPass(gui, phase, wspr)
               q == OncePerSecond(p, phase = "start" /\ ~ticked, go, n, send, ok)
    <3>3. p \in GuiType /\ Session(p) /\ RigSteps(gui, p)
      BY <1>0, EveryPassType, EveryPassSession
    <3>4. q \in GuiType /\ Session(q) /\ RigKept(p, q)
      <4> HIDE DEF p
      <4> QED BY <3>2, <3>3, OncePerSecondType, OncePerSecondSession
    <3>5. gui' = Remember(q) /\ UNCHANGED keyed
      BY <2>2, <3>1 DEF GuiUpdateSecond
    <3> HIDE DEF q, p
    <3>6. RigSteps(gui, q)
      BY <3>3, <3>4 DEF RigSteps, RigKept, RigAsked
    <3> QED BY <3>4, <3>5, <3>6, <1>1
  <2> QED BY <2>1, <2>2
<1> DEFINE m == Remember(r)
<1>2. m \in GuiType /\ Session(m) /\ Edges(m) /\ RigKept(r, m)
  BY <1>1, RememberType, RememberSession
<1>3. gui' = m /\ UNCHANGED keyed
  BY <1>1
<1> HIDE DEF m
<1>4. RigKept(gui, m) \/ \E on \in BOOLEAN : RigAsked(gui, m, on)
  BY <1>1, <1>2 DEF RigSteps, RigKept, RigAsked
<1> QED BY <1>2, <1>3, <1>4, HandledGood
\* A change of fields that neither invariant looks at.
LEMMA PlainGood ==
  ASSUME IInv, NEW r \in GuiType, gui' = r /\ UNCHANGED keyed,
         RigKept(gui, r), Session(gui) => Session(r), Edges(gui) => Edges(r)
  PROVE  Good
<1>1. Session(gui) /\ Edges(gui)
  BY DEF IInv, SessionInv
<1> QED BY <1>1, HandledGood

\* Editing the outgoing text, before or in a session.
LEMMA UserTypeGood == ASSUME IInv, UserType PROVE Good
<1>0. gui \in GuiType
  BY DEF IInv, TypeOK
<1>1. PICK n \in 0..MaxFrames :
        Handle([gui EXCEPT !.unsent = n, !.dirty = n > 0 \/ gui.sentText])
  BY DEF UserType
<1> DEFINE dirty == n > 0 \/ gui.sentText
           r == [gui EXCEPT !.unsent = n, !.dirty = dirty]
<1>2. n \in Nat /\ dirty \in BOOLEAN
  BY <1>0, TxControlAssumption DEF GuiType
<1> HIDE DEF dirty
<1>3. r \in GuiType
  BY <1>0, <1>2, ZenonT(60) DEF GuiType
<1>4. /\ RigKept(gui, r) /\ (Session(gui) => Session(r))
      /\ Edges(gui) => Edges(r)
  BY <1>0 DEF GuiType, RigKept, Session, Edges
<1>5. gui' = r /\ UNCHANGED keyed
  BY <1>1 DEF Handle, dirty
<1> HIDE DEF r
<1> QED BY <1>3, <1>4, <1>5, PlainGood

\* Where guiUpdate has seen the state, starting a session leaves no edge
\* detector behind.
LEMMA SettledEdges ==
  ASSUME Settled, Session(gui), NEW r, Kept(gui, r), Session(r),
         r.iptt <=> gui.iptt
  PROVE  Edges(r)
BY DEF Settled, Session, Kept, Edges

\* Queueing a reply.
LEMMA EnqueueReplyGood == ASSUME IInv, EnqueueReply PROVE Good
<1>0. gui \in GuiType
  BY DEF IInv, TypeOK
<1> DEFINE n == gui.queued + 1
           r == [gui EXCEPT !.queued = n]
<1>1. gui' = r /\ UNCHANGED keyed
  BY DEF EnqueueReply, Handle
<1>2. n \in Nat
  BY <1>0 DEF GuiType
<1> HIDE DEF n
<1>3. r \in GuiType
  BY <1>0, <1>2, ZenonT(60) DEF GuiType
<1>4. /\ RigKept(gui, r) /\ (Session(gui) => Session(r))
      /\ Edges(gui) => Edges(r)
  BY <1>0 DEF GuiType, RigKept, Session, Edges
<1> HIDE DEF r
<1> QED BY <1>1, <1>3, <1>4, PlainGood

\* Escape: Stop and then stopTx.
LEMMA EscapeGood == ASSUME IInv, Escape PROVE Good
<1>0. gui \in GuiType /\ Session(gui)
  BY DEF IInv, TypeOK, SessionInv
<1> DEFINE a == StopClicked(gui)
           r == StopTx(a)
<1>1. a \in GuiType /\ Session(a) /\ Kept(gui, a) /\ Cleared(a)
  BY <1>0, StopClickedType, StopClickedSession
<1> HIDE DEF a
<1>2. ~a.auto /\ TextEmpty(a)
  BY <1>1 DEF Cleared, TextEmpty
<1>3. r \in GuiType /\ Session(r) /\ Edges(r) /\ RigKept(a, r)
  BY <1>1, <1>2, StopTxIdle
<1>4. RigKept(gui, r)
  BY <1>1, <1>3 DEF Kept, RigKept
<1>5. gui' = r /\ UNCHANGED keyed
  BY DEF Escape, Handle, a
<1> HIDE DEF r
<1> QED BY <1>3, <1>4, <1>5, HandledGood

\* The idle timeout: Stop, stopTx and an empty queue.
LEMMA IdleTimeoutGood == ASSUME IInv, IdleTimeout PROVE Good
<1>0. gui \in GuiType /\ Session(gui)
  BY DEF IInv, TypeOK, SessionInv
<1> DEFINE a == IF gui.tune \/ gui.auto THEN StopClicked(gui) ELSE gui
           s == StopTx(a)
           r == ResetTransmitQueue(s)
<1>1. a \in GuiType /\ Session(a) /\ RigKept(gui, a) /\ ~a.auto
  <2>1. gui.tune \/ gui.auto =>
          /\ a \in GuiType /\ Session(a) /\ Kept(gui, a) /\ Cleared(a)
    BY <1>0, StopClickedType, StopClickedSession
  <2>2. ~(gui.tune \/ gui.auto) => a = gui
    OBVIOUS
  <2> HIDE DEF a
  <2> QED BY <1>0, <2>1, <2>2 DEF Kept, RigKept, Cleared
<1> HIDE DEF a
<1>2. /\ s \in GuiType /\ Session(r) /\ Edges(r) /\ RigKept(a, r)
  BY <1>1, StopTxIdle
<1>3. r \in GuiType
  <2> HIDE DEF s
  <2> QED BY <1>2, ResetTransmitQueueType
<1>4. RigKept(gui, r)
  BY <1>1, <1>2 DEF RigKept
<1>5. gui' = r /\ UNCHANGED keyed
  BY DEF IdleTimeout, Handle, a
<1> HIDE DEF r
<1> QED BY <1>2, <1>3, <1>4, <1>5, HandledGood

\* The Send button.
LEMMA UserSendGood == ASSUME IInv, UserSend PROVE Good
<1>0. gui \in GuiType /\ Session(gui) /\ Edges(gui)
  BY DEF IInv, TypeOK, SessionInv
<1>1. PICK ok \in Ready : Handle(ToggleTx(gui, ok))
  BY DEF UserSend
<1> DEFINE r == ToggleTx(gui, ok)
<1>2. r \in GuiType /\ Session(r) /\ Kept(gui, r) /\ (r.iptt <=> gui.iptt)
  BY <1>0, ToggleTxType, ToggleTxSession
<1>3. gui' = r /\ UNCHANGED keyed
  BY <1>1 DEF Handle
<1> HIDE DEF r
<1>4. Edges(r)
  BY <1>0, <1>2, SettledEdges DEF UserSend
<1> QED BY <1>2, <1>3, <1>4, HandledGood DEF Kept
\* A message queued and taken from the queue at once.
LEMMA EnqueueAndProcessGood == ASSUME IInv, EnqueueAndProcess PROVE Good
<1>0. gui \in GuiType /\ Session(gui)
  BY DEF IInv, TypeOK, SessionInv
<1>1. PICK n \in 1..MaxFrames, send \in BOOLEAN, ok \in Ready :
        Handle(ProcessTxQueue([gui EXCEPT !.queued = @ + 1], n, send, ok))
  BY DEF EnqueueAndProcess
<1> DEFINE q == gui.queued + 1
           g == [gui EXCEPT !.queued = q]
           r == ProcessTxQueue(g, n, send, ok)
<1>2. n \in Nat /\ q \in Nat
  BY <1>0, TxControlAssumption DEF GuiType
<1>3. g \in GuiType
  <2> HIDE DEF q
  <2> QED BY <1>0, <1>2, ZenonT(60) DEF GuiType
<1>4. Session(g) /\ Kept(gui, g) /\ (g.iptt <=> gui.iptt)
  <2> HIDE DEF q
  <2> QED BY <1>0 DEF GuiType, Session, Kept, RigKept
<1>5. gui' = r /\ UNCHANGED keyed
  BY <1>1 DEF Handle
<1> HIDE DEF g
<1>6. r \in GuiType /\ Session(r) /\ Kept(g, r) /\ (r.iptt <=> g.iptt)
  BY <1>2, <1>3, <1>4, ProcessTxQueueType, ProcessTxQueueSession
<1> HIDE DEF r
<1>7. Kept(gui, r) /\ (r.iptt <=> gui.iptt)
  BY <1>4, <1>6 DEF Kept, RigKept
<1>8. Edges(r)
  BY <1>0, <1>6, <1>7, SettledEdges DEF EnqueueAndProcess
<1> QED BY <1>5, <1>6, <1>7, <1>8, HandledGood DEF Kept

\* stopTx2 drops PTT only where nobody wants it.
LEMMA Ptt0TimeoutGood == ASSUME IInv, Ptt0Timeout PROVE Good
<1>0. gui \in GuiType /\ Session(gui) /\ Edges(gui)
  BY DEF IInv, TypeOK, SessionInv
<1> DEFINE g == [gui EXCEPT !.ptt0 = "off"]
           r == EmitPTT(g, FALSE)
<1>1. g \in GuiType /\ r \in GuiType
  <2>1. g \in GuiType
    BY <1>0, ZenonT(60) DEF GuiType, Timer
  <2> QED BY <2>1, EmitPTTType
<1>2. Edges(g) /\ RigKept(gui, g)
  BY <1>0 DEF GuiType, Edges, RigKept
<1>3. CASE HoldPtt /\ gui.frameCount > 0
  <2>1. gui' = g /\ UNCHANGED keyed
    BY <1>0, <1>3 DEF Ptt0Timeout, Handle, GuiType, Session
  <2>2. Session(g)
    BY <1>0, <1>3 DEF GuiType, Session
  <2> HIDE DEF g
  <2> QED BY <1>1, <1>2, <2>1, <2>2, HandledGood
<1>4. CASE ~(HoldPtt /\ gui.frameCount > 0)
  <2>1. gui' = r /\ UNCHANGED keyed
    BY <1>0, <1>4 DEF Ptt0Timeout, Handle, GuiType, Session
  <2>2. /\ ~r.ptt /\ r.tune = gui.tune /\ r.tuneTimer = gui.tuneTimer
        /\ r.auto = gui.auto /\ r.started = gui.started /\ r.next = gui.next
        /\ r.frameCount = gui.frameCount /\ r.sentCount = gui.sentCount
        /\ r.aired = gui.aired /\ r.iptt = gui.iptt /\ r.i3bit = gui.i3bit
        /\ r.frames = gui.frames /\ r.sentText = gui.sentText
        /\ r.transmitting = gui.transmitting /\ r.btxok = gui.btxok
        /\ r.iptt0 = gui.iptt0 /\ r.btxok0 = gui.btxok0
        /\ RigAsked(gui, r, FALSE)
    BY <1>0 DEF EmitPTT, GuiType, RigAsked
  <2> HIDE DEF r
  <2>3. Session(r)
    BY <1>0, <1>4, <2>2 DEF Session
  <2>4. Edges(r)
    BY <1>0, <2>2 DEF Edges
  <2>5. \E on \in BOOLEAN : RigAsked(gui, r, on)
    BY <2>2
  <2> QED BY <1>1, <2>1, <2>3, <2>4, <2>5, HandledGood
<1> QED BY <1>3, <1>4

\* startTx2 speaks to the modulator only.
LEMMA Ptt1TimeoutGood == ASSUME IInv, Ptt1Timeout PROVE Good
<1>0. gui \in GuiType /\ Session(gui) /\ Edges(gui)
  BY DEF IInv, TypeOK, SessionInv
<1> DEFINE g == [gui EXCEPT !.ptt1 = "off"]
           cmds == Append(gui.audioCmds, "start")
           h == [g EXCEPT !.audioCmds = cmds]
           r == IF active THEN g ELSE h
<1>1. gui' = r /\ UNCHANGED keyed
  BY <1>0 DEF Ptt1Timeout, Handle, GuiType
<1>2. cmds \in Seq(Signals)
  BY <1>0, AppendType DEF GuiType, Signals
<1> HIDE DEF cmds
<1>3. g \in GuiType
  BY <1>0, ZenonT(60) DEF GuiType, Timer
<1>4. h \in GuiType
  BY <1>2, <1>3, ZenonT(60) DEF GuiType
<1>5. /\ r.ptt = gui.ptt /\ r.rigCmds = gui.rigCmds
      /\ r.rigUpdate = gui.rigUpdate /\ r.ptt1 = "off"
      /\ Session(r) /\ Edges(r)
  BY <1>0 DEF GuiType, Session, Edges
<1> HIDE DEF r
<1> QED BY <1>0, <1>1, <1>5
        DEF Good, SessionInv, IInv, RigInv, AudioWaits

\* An update from the rig starts the audio delay only if the rig transmits.
LEMMA RigUpdateGood == ASSUME IInv, RigUpdate PROVE Good
<1>0. gui \in GuiType /\ Session(gui) /\ Edges(gui)
  BY DEF IInv, TypeOK, SessionInv
<1> DEFINE on   == gui.rigUpdate = "on"
           safe == HoldPtt \/ (on /\ ~gui.rigPtt)
           ptt1 == IF gui.ready /\ gui.iptt THEN "armed" ELSE gui.ptt1
           f == [gui EXCEPT !.ptt1 = ptt1, !.ready = FALSE]
           g == IF safe THEN f ELSE gui
           r == [g EXCEPT !.rigPtt = on, !.rigUpdate = "none"]
<1>1. gui' = r /\ UNCHANGED keyed
  BY DEF RigUpdate, Handle
<1>2. /\ r.ptt = gui.ptt /\ r.rigCmds = gui.rigCmds /\ r.rigUpdate = "none"
      /\ r.ptt1 = IF safe THEN ptt1 ELSE gui.ptt1
      /\ Session(r) /\ Edges(r)
  <2> HIDE DEF on, ptt1
  <2> QED BY <1>0 DEF GuiType, Session, Edges
<1>3. keyed = gui.ptt /\ (keyed <=> on)
  BY DEF IInv, RigInv, RigUpdate
<1>4. HoldPtt /\ gui.iptt => gui.ptt
  BY <1>0 DEF Session
<1>5. AudioWaits
  <2> SUFFICES ASSUME gui.ptt1 = "off", r.ptt1 = "armed"
               PROVE  keyed /\ gui.iptt
    BY <1>1 DEF AudioWaits
  <2>1. safe /\ ptt1 = "armed"
    <3> HIDE DEF r, ptt1
    <3> QED BY <1>2
  <2>2. gui.iptt
    BY <2>1
  <2>3. HoldPtt \/ on
    BY <2>1
  <2> HIDE DEF on, r, safe, ptt1
  <2> QED BY <1>3, <1>4, <2>2, <2>3, ZenonT(60)
<1> HIDE DEF r
<1> QED BY <1>1, <1>2, <1>5 DEF Good, SessionInv, RigInv, IInv

\* The rig obeys the oldest command.
LEMMA RigThreadGood == ASSUME IInv, RigThread PROVE Good
<1>0. gui \in GuiType /\ Session(gui) /\ Edges(gui)
  BY DEF IInv, TypeOK, SessionInv
<1> DEFINE cmds == Tail(gui.rigCmds)
           answer == IF Len(gui.rigCmds) > 1 THEN "none"
                     ELSE IF Head(gui.rigCmds) THEN "on" ELSE "off"
           r == [gui EXCEPT !.rigCmds = cmds, !.rigUpdate = answer]
<1>1. gui' = r /\ keyed' = Head(gui.rigCmds) /\ gui.rigCmds # <<>>
  BY <1>0 DEF RigThread, GuiType
<1>2. gui.rigCmds \in Seq(BOOLEAN) /\ gui.rigCmds[Len(gui.rigCmds)] = gui.ptt
  BY <1>0, <1>1 DEF IInv, RigInv, GuiType
<1>3. /\ cmds = <<>> => Head(gui.rigCmds) = gui.ptt
      /\ cmds # <<>> => cmds[Len(cmds)] = gui.ptt /\ answer = "none"
  BY <1>1, <1>2, TailLast
<1>4. answer # "none" => (Head(gui.rigCmds) <=> answer = "on")
  OBVIOUS
<1> HIDE DEF cmds, answer
<1>5. /\ r.ptt = gui.ptt /\ r.rigCmds = cmds /\ r.rigUpdate = answer
      /\ r.ptt1 = gui.ptt1 /\ Session(r) /\ Edges(r)
  BY <1>0 DEF GuiType, Session, Edges
<1> HIDE DEF r
<1>6. RigInv'
  BY <1>1, <1>3, <1>4, <1>5 DEF RigInv
<1> QED BY <1>1, <1>5, <1>6 DEF Good, SessionInv, AudioWaits

\* The modulator does not touch the session.
LEMMA AudioThreadGood == ASSUME IInv, AudioThread PROVE Good
<1>0. gui \in GuiType /\ Session(gui) /\ Edges(gui)
  BY DEF IInv, TypeOK, SessionInv
<1> DEFINE cmds == Tail(gui.audioCmds)
           r == [gui EXCEPT !.audioCmds = cmds]
<1>1. gui' = r /\ UNCHANGED keyed
  BY DEF AudioThread
<1> HIDE DEF cmds
<1>2. RigKept(gui, r) /\ Session(r) /\ Edges(r)
  BY <1>0 DEF GuiType, RigKept, Session, Edges
<1> HIDE DEF r
<1> QED BY <1>1, <1>2 DEF Good, SessionInv, RigKept, AudioWaits, IInv, RigInv

\* Time passing ages the timers only.
LEMMA AdvanceGood == ASSUME IInv, Advance PROVE Good
<1>0. gui \in GuiType /\ Session(gui) /\ Edges(gui)
  BY DEF IInv, TypeOK, SessionInv
<1> DEFINE Age(t) == IF t = "off" THEN "off" ELSE "due"
           x == Age(gui.ptt0)
           y == Age(gui.ptt1)
           z == Age(gui.tuneTimer)
           r == [gui EXCEPT !.ptt0 = x, !.ptt1 = y, !.tuneTimer = z]
<1>1. gui' = r /\ UNCHANGED keyed
  BY DEF Advance
<1>2. y # "armed" /\ z = "off" /\ (x = "off" <=> gui.ptt0 = "off")
  BY <1>0 DEF Session
<1> HIDE DEF x, y, z
<1>3. /\ r.ptt = gui.ptt /\ r.rigCmds = gui.rigCmds
      /\ r.rigUpdate = gui.rigUpdate /\ r.ptt1 # "armed"
      /\ Session(r) /\ Edges(r)
  BY <1>0, <1>2 DEF GuiType, Session, Edges
<1> HIDE DEF r
<1> QED BY <1>1, <1>3 DEF Good, SessionInv, IInv, RigInv, AudioWaits

\* Every step keeps the invariant, as long as the Tune button is not used.
LEMMA NextGood == ASSUME ~Tuning, IInv, [Next]_vars PROVE Good /\ IInv'
<1>1. TypeOK'
  BY NextType DEF IInv
<1> SUFFICES Good
  BY <1>1 DEF IInv, Good
<1>a. CASE StopButton
  BY <1>a, StopClickedGood DEF StopButton
<1>b. CASE TuneButton
  BY <1>b DEF TuneButton
<1>c. CASE TuneTimeout
  BY <1>c DEF TuneTimeout, IInv, SessionInv, Session
<1>d. CASE UNCHANGED vars
  BY <1>d DEF vars, Good, IInv, SessionInv, RigInv, AudioWaits
<1> QED
  BY <1>a, <1>b, <1>c, <1>d, UserTypeGood, UserSendGood, EscapeGood,
     IdleTimeoutGood, EnqueueReplyGood, EnqueueAndProcessGood, GuiUpdateGood,
     Ptt0TimeoutGood, Ptt1TimeoutGood, RigUpdateGood, RigThreadGood,
     AudioThreadGood, AdvanceGood DEF Next, Operator, Machine

\* The invariant holds at the start.
LEMMA InitGood == ASSUME ~Tuning PROVE Init => IInv
<1> SUFFICES ASSUME Init PROVE IInv
  OBVIOUS
<1>1. TypeOK
  BY InitType
<1>2. SessionInv /\ RigInv
  BY DEF Init, InitGui, SessionInv, Session, Edges, RigInv
<1> QED BY <1>1, <1>2 DEF IInv

\* In every reachable state the session, the edge detectors and the rig's
\* command queue agree with each other, unless the operator may tune.
THEOREM InductiveInvariant == ASSUME ~Tuning PROVE Spec => []IInv
<1>1. Init => IInv
  BY InitGood
<1>2. IInv /\ [Next]_vars => IInv'
  BY NextGood
<1> QED BY <1>1, <1>2, PTL DEF Spec

-----------------------------------------------------------------------------
(* Tuning.  With the Tune button in play the frame counters no longer move *)
(* with the session, but the slot, its edge detectors and PTT still do.    *)
(* Slot holds of the state of MainWindow at every step inside a handler,   *)
(* Watched only between handlers.  Frames may be counted, or one wait,     *)
(* outside a session as long as m_tune is set; on_stopTxButton_clicked is  *)
(* the only one to clear it, and clears the frames with it.                *)

Slot(g) ==
  /\ g.transmitting <=> g.iptt
  /\ g.btxok => g.iptt
  /\ g.iptt0 <=> g.btxok0
  /\ g.auto => g.started /\ g.next
  /\ g.frameCount > 0 /\ ~g.tune => g.auto
  /\ g.iptt /\ g.next /\ ~g.tune => g.auto
  /\ g.ptt => g.iptt \/ g.ptt0 # "off" \/ (HoldPtt /\ g.auto)

Watched(g) == g.iptt => g.iptt0

\* What on_stopTxButton_clicked leaves, whatever state it is called in.
EdgesKept(g, r) == r.iptt0 = g.iptt0 /\ r.btxok0 = g.btxok0 /\ RigKept(g, r)

Emptied(r) == ~r.tune /\ Cleared(r)

\* on_stopTxButton_clicked with the Send button up ends a tune as well.
LEMMA HaltAny ==
  ASSUME NEW g \in GuiType
  PROVE  LET r == Halt(g)
         IN  /\ EdgesKept(g, r) /\ Emptied(r) /\ r.started = g.started
             /\ r.iptt = g.iptt /\ r.transmitting = g.transmitting
             /\ r.ptt0 = g.ptt0
<1>1. CASE ~g.tune
  BY <1>1, HaltFields DEF Kept, EdgesKept, Emptied
<1>2. CASE g.tune
  <2> DEFINE f == [StopAudio(g) EXCEPT !.tuneTimer = "armed"]
             h == IF g.tuneButton THEN f ELSE g
             s == [h EXCEPT !.tuneButton = FALSE, !.tune = FALSE]
             k == [s EXCEPT !.auto = FALSE, !.btxok = FALSE]
             r == ResetMessage(k)
  <2>1. Halt(g) = r
    BY <1>2 DEF Halt, StopTuning
  <2>2. f \in GuiType
    <3>1. StopAudio(g) \in GuiType
      BY StopAudioType
    <3> QED BY <3>1, ZenonT(60) DEF GuiType, Timer
  <2>3. /\ EdgesKept(g, f) /\ f.started = g.started /\ f.ptt0 = g.ptt0
        /\ f.iptt = g.iptt /\ f.transmitting = g.transmitting
    BY DEF StopAudio, GuiType, EdgesKept, RigKept
  <2>4. /\ EdgesKept(g, h) /\ h.started = g.started /\ h.ptt0 = g.ptt0
        /\ h.iptt = g.iptt /\ h.transmitting = g.transmitting
        /\ h \in GuiType
    <3> HIDE DEF f
    <3> QED BY <2>2, <2>3 DEF EdgesKept, RigKept
  <2> HIDE DEF h
  <2>5. /\ EdgesKept(h, s) /\ s.started = h.started /\ s.ptt0 = h.ptt0
        /\ s.iptt = h.iptt /\ s.transmitting = h.transmitting
        /\ s \in GuiType /\ ~s.tune
    <3>1. s \in GuiType
      BY <2>4, ZenonT(60) DEF GuiType
    <3> QED BY <2>4, <3>1 DEF GuiType, EdgesKept, RigKept
  <2> HIDE DEF s
  <2>6. /\ EdgesKept(s, r) /\ r.started = s.started /\ r.ptt0 = s.ptt0
        /\ r.iptt = s.iptt /\ r.transmitting = s.transmitting
        /\ Emptied(r)
    BY <2>5 DEF ResetMessage, ResetTransmitQueue, ClearText, GuiType,
                EdgesKept, RigKept, Emptied, Cleared
  <2> HIDE DEF r
  <2> QED BY <2>1, <2>4, <2>5, <2>6 DEF EdgesKept, RigKept
<1> QED BY <1>1, <1>2

\* With the Send button down the slot ends and the PTT timer runs.
LEMMA StopClickedAny ==
  ASSUME NEW g \in GuiType
  PROVE  LET r == StopClicked(g)
         IN  /\ r \in GuiType /\ EdgesKept(g, r) /\ Emptied(r) /\ ~r.started
             /\ g.started => ~r.iptt /\ ~r.transmitting /\ r.ptt0 = "armed"
             /\ ~g.started => /\ r.iptt = g.iptt /\ r.ptt0 = g.ptt0
                              /\ r.transmitting = g.transmitting
<1>0. StopClicked(g) \in GuiType
  BY StopClickedType
<1>1. CASE ~g.started
  BY <1>0, <1>1, HaltAny DEF StopClicked
<1>2. CASE g.started
  <2> DEFINE f == [g EXCEPT !.started = FALSE]
             h == Halt(f)
             k == StopAudio(h)
             r == StopClicked(g)
  <2>1. f \in GuiType /\ h \in GuiType /\ k \in GuiType
    <3>1. f \in GuiType
      BY ZenonT(60) DEF GuiType
    <3> QED BY <3>1, HaltType, StopAudioType
  <2>2. EdgesKept(g, f) /\ ~f.started
    BY DEF GuiType, EdgesKept, RigKept
  <2>3. EdgesKept(f, h) /\ Emptied(h) /\ h.started = f.started
    BY <2>1, HaltAny
  <2>4. EdgesKept(h, k) /\ Emptied(k) /\ k.started = h.started
    <3> DEFINE cmds == Append(h.audioCmds, "stop")
               q == [h EXCEPT !.audioCmds = cmds]
    <3>1. k = h \/ k = q
      BY DEF StopAudio
    <3> HIDE DEF h, k, cmds
    <3>2. EdgesKept(h, q) /\ q.started = h.started
      BY <2>1 DEF GuiType, EdgesKept, RigKept
    <3>3. Emptied(q)
      BY <2>1, <2>3 DEF GuiType, Emptied, Cleared
    <3>4. EdgesKept(h, h)
      BY DEF EdgesKept, RigKept
    <3> HIDE DEF q
    <3> QED BY <2>3, <3>1, <3>2, <3>3, <3>4
  <2>5. r = [k EXCEPT !.transmitting = FALSE, !.iptt = FALSE,
                      !.i3bit = NoBits, !.ptt0 = "armed"]
    BY <1>2 DEF StopClicked, SendButtonUp
  <2> HIDE DEF k, h, f
  <2>6. /\ EdgesKept(k, r) /\ Emptied(r) /\ r.started = k.started
        /\ ~r.iptt /\ ~r.transmitting /\ r.ptt0 = "armed"
    <3> HIDE DEF r
    <3> QED BY <2>1, <2>4, <2>5
            DEF GuiType, EdgesKept, RigKept, Emptied, Cleared
  <2> HIDE DEF r
  <2>7. EdgesKept(g, r) /\ ~r.started
    BY <2>2, <2>3, <2>4, <2>6 DEF EdgesKept, RigKept
  <2> QED BY <1>0, <1>2, <2>6, <2>7 DEF r
<1> QED BY <1>1, <1>2

\* Stop leaves the slot whole, and adds nothing to it.
LEMMA StopClickedSlot ==
  ASSUME NEW g \in GuiType, Slot(g)
  PROVE  LET r == StopClicked(g)
         IN  /\ Slot(r) /\ r \in GuiType /\ EdgesKept(g, r) /\ Emptied(r)
             /\ r.iptt => g.iptt
             /\ g.started => ~r.iptt
<1> DEFINE r == StopClicked(g)
<1>1. /\ r \in GuiType /\ EdgesKept(g, r) /\ Emptied(r)
      /\ g.started => ~r.iptt /\ ~r.transmitting /\ r.ptt0 = "armed"
      /\ ~g.started => /\ r.iptt = g.iptt /\ r.ptt0 = g.ptt0
                       /\ r.transmitting = g.transmitting
  BY StopClickedAny
<1> HIDE DEF r
<1>2. r.iptt => g.iptt
  BY <1>1
<1>3. Slot(r)
  <2>1. ~r.auto /\ ~r.next /\ ~r.btxok /\ r.frameCount = 0
    BY <1>1 DEF Emptied, Cleared
  <2>2. r.transmitting <=> r.iptt
    BY <1>1 DEF Slot
  <2>3. r.iptt0 <=> r.btxok0
    BY <1>1 DEF Slot, EdgesKept
  <2>4. r.ptt => r.iptt \/ r.ptt0 # "off"
    <3>1. r.ptt = g.ptt
      BY <1>1 DEF EdgesKept, RigKept
    <3> QED BY <1>1, <3>1 DEF Slot
  <2> QED BY <2>1, <2>2, <2>3, <2>4 DEF Slot
<1> QED BY <1>1, <1>2, <1>3 DEF r

\* stopTx ends the slot.  Where a frame is taken the session, if there is one,
\* goes on; where none is left everything is cleared.
LEMMA StopTxAny ==
  ASSUME NEW g \in GuiType
  PROVE  LET r == StopTx(g)
         IN  /\ r \in GuiType /\ EdgesKept(g, r) /\ r.ptt0 = "armed"
             /\ ~r.iptt /\ ~r.transmitting /\ ~r.btxok
             /\ r.next => /\ r.auto = g.auto /\ r.started = g.started
                          /\ r.tune = g.tune
                          /\ ~(TextEmpty(g) /\ g.frames = 0)
             /\ ~r.next => Emptied(r)
<1> DEFINE f == [StopAudio(g) EXCEPT !.btxok = FALSE, !.transmitting = FALSE,
                                     !.iptt = FALSE]
           h == PrepareNextMessageFrame(f)
           c == ClearText(h)
           k == IF h.next THEN h ELSE StopClicked(c)
           r == [k EXCEPT !.ptt0 = "armed"]
<1>0. StopTx(g) \in GuiType
  BY StopTxType
<1>1. f \in GuiType /\ h \in GuiType /\ c \in GuiType /\ k \in GuiType
  <2>1. StopAudio(g) \in GuiType
    BY StopAudioType
  <2>2. f \in GuiType
    BY <2>1, ZenonT(60) DEF GuiType
  <2> QED BY <2>2, PrepareType, ClearTextType, StopClickedType
<1>2. /\ EdgesKept(g, f) /\ f.auto = g.auto /\ f.started = g.started
      /\ f.tune = g.tune /\ f.frames = g.frames
      /\ TextEmpty(f) <=> TextEmpty(g)
      /\ ~f.iptt /\ ~f.transmitting /\ ~f.btxok
  BY DEF StopAudio, TextEmpty, GuiType, EdgesKept, RigKept
<1>3. Prepared(f, h)
  BY <1>1, PrepareFields
<1>4. /\ EdgesKept(f, h) /\ h.auto = f.auto /\ h.started = f.started
      /\ h.tune = f.tune /\ ~h.iptt /\ ~h.transmitting /\ ~h.btxok
      /\ h.next => ~(TextEmpty(f) /\ f.frames = 0)
  <2> HIDE DEF f, h
  <2>1. EdgesKept(f, h) /\ h.tune = f.tune
    BY <1>3 DEF Prepared, Kept, EdgesKept
  <2>2. h.next => ~(TextEmpty(f) /\ f.frames = 0)
    BY <1>1, <1>3 DEF Prepared, GuiType
  <2> QED BY <1>2, <1>3, <2>1, <2>2 DEF Prepared
<1>5. /\ EdgesKept(h, k) /\ ~k.iptt /\ ~k.transmitting /\ ~k.btxok
      /\ h.next => /\ k.auto = h.auto /\ k.started = h.started
                   /\ k.tune = h.tune /\ k.next
      /\ ~h.next => Emptied(k)
  <2>1. CASE h.next
    <3>1. k = h
      BY <2>1
    <3> HIDE DEF f, h, k
    <3> QED BY <1>4, <2>1, <3>1 DEF EdgesKept, RigKept
  <2>2. CASE ~h.next
    <3> HIDE DEF f
    <3>1. /\ EdgesKept(h, c) /\ c.iptt = h.iptt
          /\ c.transmitting = h.transmitting
      <4> HIDE DEF h
      <4> QED BY <1>1 DEF ClearText, GuiType, EdgesKept, RigKept
    <3>2. k = StopClicked(c)
      BY <2>2
    <3> HIDE DEF c, h, k
    <3>3. /\ EdgesKept(c, k) /\ Emptied(k) /\ ~k.iptt /\ ~k.transmitting
      BY <1>1, <1>4, <3>1, <3>2, StopClickedAny
    <3> QED BY <2>2, <3>1, <3>3 DEF EdgesKept, RigKept, Emptied, Cleared
  <2> QED BY <2>1, <2>2
<1> HIDE DEF f, h, c, k
<1>6. /\ EdgesKept(k, r) /\ ~r.iptt /\ ~r.transmitting /\ ~r.btxok
      /\ r.auto = k.auto /\ r.started = k.started /\ r.tune = k.tune
      /\ r.next = k.next /\ r.ptt0 = "armed"
      /\ Emptied(k) => Emptied(r)
  BY <1>1, <1>5 DEF GuiType, EdgesKept, RigKept, Emptied, Cleared
<1>7. StopTx(g) = r
  BY DEF StopTx, f, h, c, k
<1> HIDE DEF r
<1>8. EdgesKept(g, r)
  BY <1>2, <1>4, <1>5, <1>6 DEF EdgesKept, RigKept
<1>9. ~r.next => Emptied(r)
  BY <1>5, <1>6
<1>10. r.next => /\ r.auto = g.auto /\ r.started = g.started /\ r.tune = g.tune
                 /\ ~(TextEmpty(g) /\ g.frames = 0)
  <2>1. r.next => h.next
    BY <1>5, <1>6 DEF Emptied, Cleared
  <2> QED BY <1>2, <1>4, <1>5, <1>6, <2>1
<1> QED BY <1>0, <1>6, <1>7, <1>8, <1>9, <1>10

\* Where the frame that is taken belongs to a session, to a tune, or where
\* none is taken, stopTx leaves the slot whole.
LEMMA StopTxSlot ==
  ASSUME NEW g \in GuiType, g.iptt0 <=> g.btxok0, g.auto => g.started,
         ~g.auto /\ ~g.tune => TextEmpty(g) /\ g.frames = 0
  PROVE  LET r == StopTx(g)
         IN  Slot(r) /\ r \in GuiType /\ EdgesKept(g, r) /\ ~r.iptt
<1> DEFINE r == StopTx(g)
<1>1. /\ r \in GuiType /\ EdgesKept(g, r) /\ r.ptt0 = "armed"
      /\ ~r.iptt /\ ~r.transmitting /\ ~r.btxok
      /\ r.next => /\ r.auto = g.auto /\ r.started = g.started
                   /\ r.tune = g.tune
                   /\ ~(TextEmpty(g) /\ g.frames = 0)
      /\ ~r.next => Emptied(r)
  BY StopTxAny
<1> HIDE DEF r
<1>2. r.iptt0 <=> r.btxok0
  BY <1>1 DEF EdgesKept
<1>3. Slot(r)
  <2>1. CASE r.next
    BY <1>1, <1>2, <2>1 DEF Slot
  <2>2. CASE ~r.next
    BY <1>1, <1>2, <2>2 DEF Slot, Emptied, Cleared
  <2> QED BY <2>1, <2>2
<1> QED BY <1>1, <1>3 DEF r

\* A slot that is keyed with m_btxok up, as every pass of guiUpdate leaves it.
Lit(g) == g.iptt => g.btxok

Whole(g, r) == /\ Slot(r) /\ r \in GuiType /\ EdgesKept(g, r)
               /\ r.iptt => g.iptt
               /\ Lit(g) => Lit(r)

\* startTx begins a session or leaves things at rest, in a tune or not.
LEMMA StartTxSlot ==
  ASSUME NEW g \in GuiType, NEW ok, Slot(g), ~g.auto, g.started
  PROVE  Whole(g, StartTx(g, ok))
<1> DEFINE h == PrepareNextMessageFrame(g)
           t == [h EXCEPT !.auto = TRUE]
<1>1. h \in GuiType /\ Prepared(g, h) /\ t \in GuiType
  <2>1. h \in GuiType /\ Prepared(g, h)
    BY PrepareType, PrepareFields
  <2>2. t \in GuiType
    <3> HIDE DEF h
    <3> QED BY <2>1, ZenonT(60) DEF GuiType
  <2> QED BY <2>1, <2>2
<1>2. CASE TextEmpty(g)
  BY <1>2 DEF StartTx, Whole, EdgesKept, RigKept
<1>3. CASE ~TextEmpty(g) /\ ~ok
  BY <1>3, StopClickedSlot DEF StartTx, Whole, Lit
<1>4. CASE ~TextEmpty(g) /\ ok /\ h.next
  <2> HIDE DEF h
  <2>1. /\ EdgesKept(h, t) /\ t.auto /\ t.started = h.started
        /\ t.next = h.next /\ t.iptt = h.iptt /\ t.tune = h.tune
        /\ t.transmitting = h.transmitting /\ t.btxok = h.btxok
        /\ t.ptt0 = h.ptt0
    BY <1>1 DEF GuiType, EdgesKept, RigKept
  <2> HIDE DEF t
  <2>2. EdgesKept(g, t)
    BY <1>1, <2>1 DEF Prepared, Kept, EdgesKept, RigKept
  <2>3. /\ t.transmitting = g.transmitting /\ t.iptt = g.iptt
        /\ t.btxok = g.btxok /\ t.started /\ t.next /\ t.ptt0 = g.ptt0
    BY <1>1, <1>4, <2>1 DEF Prepared
  <2>4. Slot(t)
    BY <2>1, <2>2, <2>3 DEF Slot, EdgesKept, RigKept
  <2>5. Whole(g, t)
    BY <1>1, <2>2, <2>3, <2>4 DEF Whole, Lit
  <2> QED BY <1>4, <2>5 DEF StartTx, h, t
<1>5. CASE ~TextEmpty(g) /\ ok /\ ~h.next
  <2> HIDE DEF h
  <2>1. /\ EdgesKept(g, h) /\ h.tune = g.tune
        /\ h.transmitting = g.transmitting /\ h.iptt = g.iptt
        /\ h.btxok = g.btxok /\ ~h.auto /\ h.ptt0 = g.ptt0
        /\ h.frameCount = 0 \/ h.frameCount = g.frameCount
    BY <1>1, <1>5 DEF Prepared, Kept, EdgesKept
  <2>2. Slot(h)
    BY <1>5, <2>1 DEF Slot, EdgesKept, RigKept
  <2>3. Whole(g, h)
    BY <1>1, <2>1, <2>2 DEF Whole, Lit
  <2> QED BY <1>5, <2>3 DEF StartTx, h
<1> QED BY <1>2, <1>3, <1>4, <1>5

\* toggleTx(true) keeps the slot whole.
LEMMA ToggleTxSlot ==
  ASSUME NEW g \in GuiType, NEW ok, Slot(g)
  PROVE  Whole(g, ToggleTx(g, ok))
<1>1. CASE g.started
  BY <1>1 DEF ToggleTx, Whole, EdgesKept, RigKept
<1>2. CASE ~g.started
  <2> DEFINE f == [g EXCEPT !.started = TRUE]
  <2>1. f \in GuiType
    BY ZenonT(60) DEF GuiType
  <2>2. /\ Slot(f) /\ EdgesKept(g, f) /\ ~f.auto /\ f.started
        /\ f.iptt = g.iptt /\ f.btxok = g.btxok
    BY <1>2 DEF Slot, GuiType, EdgesKept, RigKept
  <2> HIDE DEF f
  <2>3. Whole(f, StartTx(f, ok))
    BY <2>1, <2>2, StartTxSlot
  <2>4. Whole(g, StartTx(f, ok))
    BY <2>2, <2>3 DEF Whole, EdgesKept, RigKept, Lit
  <2> QED BY <1>2, <2>4 DEF ToggleTx, f
<1> QED BY <1>1, <1>2

\* processTxQueue keeps the slot whole.
LEMMA ProcessTxQueueSlot ==
  ASSUME NEW g \in GuiType, NEW n \in Nat, NEW send, NEW ok, Slot(g)
  PROVE  Whole(g, ProcessTxQueue(g, n, send, ok))
<1>1. CASE g.queued = 0 \/ g.frames > 0 \/ ~TextEmpty(g)
  BY <1>1 DEF ProcessTxQueue, Whole, EdgesKept, RigKept
<1>2. CASE ~(g.queued = 0 \/ g.frames > 0 \/ ~TextEmpty(g))
  <2> DEFINE q == g.queued - 1
             f == [g EXCEPT !.queued = q]
             h == AddMessageText(f, n)
  <2>1. f \in GuiType /\ h \in GuiType
    <3>1. q \in Nat
      BY <1>2 DEF GuiType
    <3>2. f \in GuiType
      <4> HIDE DEF q
      <4> QED BY <3>1, ZenonT(60) DEF GuiType
    <3> QED BY <3>2, AddMessageTextType
  <2>2. /\ Slot(f) /\ EdgesKept(g, f)
        /\ f.iptt = g.iptt /\ f.btxok = g.btxok
    <3> HIDE DEF q
    <3> QED BY DEF Slot, GuiType, EdgesKept, RigKept
  <2>3. /\ Slot(h) /\ EdgesKept(f, h)
        /\ h.iptt = f.iptt /\ h.btxok = f.btxok
    <3> HIDE DEF f
    <3> QED BY <2>1, <2>2
            DEF AddMessageText, ClearText, Slot, GuiType, EdgesKept, RigKept
  <2> HIDE DEF f, h
  <2>4. Whole(h, ToggleTx(h, ok))
    BY <2>1, <2>3, ToggleTxSlot
  <2>5. Whole(g, h) /\ Whole(g, ToggleTx(h, ok))
    BY <2>1, <2>2, <2>3, <2>4 DEF Whole, EdgesKept, RigKept, Lit
  <2> QED BY <1>2, <2>5 DEF ProcessTxQueue, f, h
<1> QED BY <1>1, <1>2

\* What keying the rig changes, and what it leaves.
LEMMA KeyedByFields ==
  ASSUME NEW g \in GuiType
  PROVE  LET k == KeyedBy(g)
         IN  /\ k \in GuiType /\ k.iptt /\ RigAsked(g, k, TRUE)
             /\ k.iptt0 = g.iptt0 /\ k.btxok0 = g.btxok0 /\ k.tune = g.tune
             /\ k.auto = g.auto /\ k.started = g.started /\ k.next = g.next
             /\ k.frameCount = g.frameCount /\ k.btxok = g.btxok
             /\ k.transmitting = g.transmitting
<1> DEFINE c == Append(g.rigCmds, TRUE)
           y == EmitPTT(g, TRUE)
           k == KeyedBy(g)
<1>1. y \in GuiType
  <2>1. TRUE \in BOOLEAN
    OBVIOUS
  <2> QED BY <2>1, EmitPTTType, Zenon
<1>2. y = [g EXCEPT !.ptt = TRUE, !.rigCmds = c, !.rigUpdate = "none"]
  BY Zenon DEF EmitPTT
<1>3. k = [y EXCEPT !.iptt = TRUE, !.ready = TRUE]
  BY DEF KeyedBy
<1> HIDE DEF c, y, k
<1>4. /\ y.ptt = TRUE /\ y.rigCmds = c /\ y.rigUpdate = "none" /\ y.ptt1 = g.ptt1
      /\ y.iptt0 = g.iptt0 /\ y.btxok0 = g.btxok0 /\ y.tune = g.tune
      /\ y.auto = g.auto /\ y.started = g.started /\ y.next = g.next
      /\ y.frameCount = g.frameCount /\ y.btxok = g.btxok
      /\ y.transmitting = g.transmitting
  BY <1>2 DEF GuiType
<1>5. /\ k.ptt = y.ptt /\ k.rigCmds = y.rigCmds /\ k.rigUpdate = y.rigUpdate
      /\ k.ptt1 = y.ptt1 /\ k.iptt
      /\ k.iptt0 = y.iptt0 /\ k.btxok0 = y.btxok0 /\ k.tune = y.tune
      /\ k.auto = y.auto /\ k.started = y.started /\ k.next = y.next
      /\ k.frameCount = y.frameCount /\ k.btxok = y.btxok
      /\ k.transmitting = y.transmitting
  BY <1>1, <1>3 DEF GuiType
<1>6. k \in GuiType
  BY <1>1, <1>3, ZenonT(60) DEF GuiType
<1>7. RigAsked(g, k, TRUE)
  BY <1>4, <1>5, Zenon DEF RigAsked, c
<1> QED BY <1>4, <1>5, <1>6, <1>7 DEF k

\* The two states the first part of guiUpdate can leave: as it found it or
\* stopped, or with the rig just keyed for a frame or a tune.
JustKeyed(k) ==
  /\ k.iptt /\ ~k.transmitting /\ ~k.btxok
  /\ k.auto => k.started /\ k.next
  /\ k.frameCount > 0 /\ ~k.tune => k.auto
  /\ k.auto \/ k.tune

KeyRigLeaves(g, k) ==
  /\ k \in GuiType /\ k.iptt0 = g.iptt0 /\ k.btxok0 = g.btxok0
  /\ \/ Slot(k) /\ RigKept(g, k) /\ (k.iptt => g.iptt)
     \/ JustKeyed(k) /\ RigAsked(g, k, TRUE)
  /\ k.iptt /\ ~k.auto /\ ~k.tune => TextEmpty(k) /\ k.frames = 0

\* Lowering m_btxok does not matter to that.
LEMMA OverForLeaves ==
  ASSUME NEW g \in GuiType, NEW k, KeyRigLeaves(g, k)
  PROVE  KeyRigLeaves(g, OverFor(k))
<1> DEFINE o == OverFor(k)
<1>0. k \in GuiType
  BY DEF KeyRigLeaves
<1>1. /\ o.iptt0 = k.iptt0 /\ o.btxok0 = k.btxok0 /\ RigKept(k, o)
      /\ o.iptt = k.iptt /\ o.transmitting = k.transmitting /\ ~o.btxok
      /\ o.auto = k.auto /\ o.started = k.started /\ o.next = k.next
      /\ o.frameCount = k.frameCount /\ o.tune = k.tune /\ o.ptt0 = k.ptt0
      /\ o.frames = k.frames /\ o.unsent = k.unsent /\ o.sentText = k.sentText
  BY <1>0 DEF OverFor, GuiType, RigKept
<1>2. o \in GuiType
  BY <1>0, ZenonT(60) DEF OverFor, GuiType
<1> HIDE DEF o
<1>3. Slot(k) => Slot(o)
  BY <1>1 DEF Slot, RigKept
<1>4. JustKeyed(k) => JustKeyed(o)
  BY <1>1 DEF JustKeyed
<1>5. RigKept(g, k) => RigKept(g, o)
  BY <1>1 DEF RigKept
<1>6. RigAsked(g, k, TRUE) => RigAsked(g, o, TRUE)
  BY <1>1, Zenon DEF RigKept, RigAsked
<1>7. TextEmpty(k) => TextEmpty(o)
  BY <1>1 DEF TextEmpty
<1> QED BY <1>1, <1>2, <1>3, <1>4, <1>5, <1>6, <1>7 DEF KeyRigLeaves, o

\* The first part of guiUpdate stops, keys or goes on.
LEMMA KeyRigSlot ==
  ASSUME NEW g \in GuiType, NEW ph, NEW wspr, Slot(g)
  PROVE  KeyRigLeaves(g, KeyRig(g, ph, wspr))
<1> DEFINE txTime == ~wspr /\ (ph # "gap" \/ g.tune)
           a == IF wspr /\ g.auto THEN StopClicked(g) ELSE g
           b == IF ~a.next /\ ~a.tune THEN StopClicked(a) ELSE a
           keys == ~b.iptt /\ (b.tune \/ (txTime /\ ph = "start" /\ b.next))
           c == IF keys THEN KeyedBy(b) ELSE b
           k == KeyRig(g, ph, wspr)
<1>1. CASE ~(g.transmitting \/ g.auto \/ g.tune)
  <2>1. k = g
    BY <1>1 DEF KeyRig
  <2>2. ~g.iptt
    BY <1>1 DEF Slot
  <2> HIDE DEF k
  <2> QED BY <2>1, <2>2 DEF KeyRigLeaves, RigKept, k
<1>2. CASE g.transmitting \/ g.auto \/ g.tune
  <2>1. /\ a \in GuiType /\ Slot(a) /\ EdgesKept(g, a) /\ (a.iptt => g.iptt)
        /\ a = g \/ Emptied(a)
    <3>1. CASE wspr /\ g.auto
      BY <3>1, StopClickedSlot
    <3>2. CASE ~(wspr /\ g.auto)
      BY <3>2 DEF EdgesKept, RigKept
    <3> QED BY <3>1, <3>2
  <2>2. /\ b \in GuiType /\ Slot(b) /\ EdgesKept(g, b) /\ (b.iptt => g.iptt)
        /\ Emptied(b) \/ (b = g /\ (g.next \/ g.tune))
    <3> HIDE DEF a
    <3>1. CASE ~a.next /\ ~a.tune
      <4>1. b = StopClicked(a)
        BY <3>1
      <4>2. /\ Slot(b) /\ b \in GuiType /\ EdgesKept(a, b) /\ Emptied(b)
            /\ b.iptt => a.iptt
        BY <2>1, <4>1, StopClickedSlot
      <4> QED BY <2>1, <4>2 DEF EdgesKept, RigKept
    <3>2. CASE a.next \/ a.tune
      <4>1. b = a /\ ~Emptied(a)
        BY <3>2 DEF Emptied, Cleared
      <4> QED BY <2>1, <3>2, <4>1
    <3> QED BY <3>1, <3>2
  <2>3. k = IF ~txTime /\ ~c.tune THEN OverFor(c) ELSE c
    BY <1>2 DEF KeyRig, KeyedBy, OverFor
  <2> HIDE DEF a, b, txTime, k
  <2>4. KeyRigLeaves(g, c)
    <3>1. CASE keys
      <4>1. c = KeyedBy(b)
        BY <3>1
      <4>2. b = g /\ ~g.iptt
        BY <2>2, <3>1 DEF Emptied, Cleared
      <4>3. /\ c \in GuiType /\ c.iptt /\ RigAsked(g, c, TRUE)
            /\ c.iptt0 = g.iptt0 /\ c.btxok0 = g.btxok0 /\ c.tune = g.tune
            /\ c.auto = g.auto /\ c.started = g.started /\ c.next = g.next
            /\ c.frameCount = g.frameCount /\ c.btxok = g.btxok
            /\ c.transmitting = g.transmitting
        BY <4>1, <4>2, KeyedByFields
      <4> HIDE DEF c
      <4>4. g.auto \/ g.tune
        BY <1>2, <4>2 DEF Slot
      <4>5. JustKeyed(c)
        BY <4>2, <4>3, <4>4 DEF JustKeyed, Slot
      <4> QED BY <4>3, <4>5 DEF KeyRigLeaves, JustKeyed
    <3>2. CASE ~keys
      <4>1. c = b
        BY <3>2
      <4> HIDE DEF c, keys
      <4>2. b.iptt /\ ~b.auto /\ ~b.tune => TextEmpty(b) /\ b.frames = 0
        BY <2>2 DEF Emptied, Cleared, TextEmpty, Slot
      <4> QED BY <2>2, <4>1, <4>2 DEF KeyRigLeaves, EdgesKept
    <3> QED BY <3>1, <3>2
  <2>5. KeyRigLeaves(g, OverFor(c))
    BY <2>4, OverForLeaves
  <2>6. KeyRigLeaves(g, k)
    <3> HIDE DEF c
    <3> QED BY <2>3, <2>4, <2>5
  <2> QED BY <2>6 DEF k
<1> QED BY <1>1, <1>2

\* A frame or a tune that begins, in full.
LEMMA BeginFrameSlot ==
  ASSUME NEW k \in GuiType, k.iptt, ~k.iptt0, k.iptt0 <=> k.btxok0,
         JustKeyed(k) \/ Slot(k)
  PROVE  LET x == BeginFrame(k)
         IN  /\ Slot(x) /\ x \in GuiType /\ EdgesKept(k, x)
             /\ x.iptt /\ x.btxok
<1> DEFINE n == IF k.tune THEN k.aired ELSE k.aired + 1
           x == [k EXCEPT !.transmitting = TRUE, !.btxok = TRUE, !.aired = n]
<1>1. n \in Nat
  BY DEF GuiType
<1>2. BeginFrame(k) = x
  BY DEF BeginFrame
<1> HIDE DEF n
<1>3. x \in GuiType
  BY <1>1, ZenonT(60) DEF GuiType
<1>4. /\ x.iptt /\ x.transmitting /\ x.btxok /\ EdgesKept(k, x)
      /\ x.auto = k.auto /\ x.started = k.started /\ x.next = k.next
      /\ x.frameCount = k.frameCount /\ x.tune = k.tune
  BY DEF GuiType, EdgesKept, RigKept
<1> HIDE DEF x
<1>5. /\ k.auto => k.started /\ k.next
      /\ k.frameCount > 0 /\ ~k.tune => k.auto
      /\ k.next /\ ~k.tune => k.auto
  BY DEF JustKeyed, Slot
<1>6. Slot(x)
  BY <1>4, <1>5 DEF Slot, EdgesKept
<1> QED BY <1>2, <1>3, <1>4, <1>6

\* A pass of guiUpdate keeps the slot whole and leaves m_btxok up in a slot
\* that is keyed: an edge that was missed is made up for by stopTx.
LEMMA EveryPassSlot ==
  ASSUME NEW g \in GuiType, NEW ph, NEW wspr, Slot(g)
  PROVE  LET r == EveryPass(g, ph, wspr)
         IN  r \in GuiType /\ Slot(r) /\ Lit(r) /\ RigSteps(g, r)
<1> DEFINE k == KeyRig(g, ph, wspr)
           x == BeginFrame(k)
           r == EndFrame(x)
<1>1. KeyRigLeaves(g, k)
  BY KeyRigSlot
<1> HIDE DEF k
<1>2. /\ k \in GuiType /\ RigSteps(g, k) /\ (k.iptt0 <=> k.btxok0)
      /\ Slot(k) \/ JustKeyed(k)
  BY <1>1 DEF KeyRigLeaves, RigSteps, Slot
<1>3. r \in GuiType /\ Slot(r) /\ Lit(r) /\ RigSteps(g, r)
  <2>1. CASE ~k.iptt
    <3>1. x = k /\ Slot(k)
      BY <1>2, <2>1 DEF BeginFrame, JustKeyed
    <3>2. r = k
      BY <2>1, <3>1 DEF EndFrame
    <3> QED BY <1>2, <2>1, <3>1, <3>2 DEF Lit
  <2>2. CASE k.iptt /\ ~k.iptt0
    <3>1. Slot(x) /\ x \in GuiType /\ EdgesKept(k, x) /\ x.iptt /\ x.btxok
      BY <1>2, <2>2, BeginFrameSlot
    <3> HIDE DEF x
    <3>2. r = x
      BY <3>1 DEF EndFrame
    <3>3. RigSteps(g, x)
      BY <1>2, <3>1 DEF RigSteps, EdgesKept, RigKept, RigAsked
    <3> QED BY <3>1, <3>2, <3>3 DEF Lit
  <2>3. CASE k.iptt /\ k.iptt0
    <3>1. x = k
      BY <2>3 DEF BeginFrame
    <3> HIDE DEF x
    <3>2. CASE k.btxok
      <4>1. r = k /\ Slot(k)
        BY <1>2, <3>1, <3>2 DEF EndFrame, JustKeyed
      <4> QED BY <1>2, <3>2, <4>1 DEF Lit
    <3>3. CASE ~k.btxok
      <4>1. r = StopTx(k)
        BY <1>2, <2>3, <3>1, <3>3 DEF EndFrame
      <4> HIDE DEF r
      <4>2. k.auto => k.started
        BY <1>2 DEF Slot, JustKeyed
      <4>3. ~k.auto /\ ~k.tune => TextEmpty(k) /\ k.frames = 0
        BY <1>1, <2>3 DEF KeyRigLeaves
      <4>4. Slot(r) /\ r \in GuiType /\ EdgesKept(k, r) /\ ~r.iptt
        BY <1>2, <4>1, <4>2, <4>3, StopTxSlot
      <4>5. RigSteps(g, r)
        BY <1>2, <4>4 DEF RigSteps, EdgesKept, RigKept, RigAsked
      <4> QED BY <4>4, <4>5 DEF Lit
    <3> QED BY <3>2, <3>3
  <2> QED BY <2>1, <2>2, <2>3
<1> HIDE DEF r, x
<1> QED BY <1>3 DEF EveryPass, r, x, k
-----------------------------------------------------------------------------
(* The actions, with the Tune button in play.                              *)

SlotInv == TypeOK /\ Slot(gui) /\ Watched(gui) /\ RigInv

\* What each action is shown to do: with PTT dropped between slots the audio
\* waits for the rig in a tune as well.
Sound == /\ (Slot(gui) /\ Watched(gui))'
         /\ RigInv'
         /\ ~HoldPtt => AudioWaits

\* A handler that leaves the slot whole and gives at most one command.
LEMMA HandledSound ==
  ASSUME SlotInv, NEW r \in GuiType, gui' = r /\ UNCHANGED keyed,
         Slot(r), Watched(r),
         RigKept(gui, r) \/ \E on \in BOOLEAN : RigAsked(gui, r, on)
  PROVE  Sound
<1>1. RigInv' /\ AudioWaits
  BY RigHandled DEF SlotInv
<1> QED BY <1>1 DEF Sound

\* A handler that ends with what keeps the slot whole.
LEMMA WholeSound ==
  ASSUME SlotInv, NEW r, gui' = r /\ UNCHANGED keyed,
         Slot(r), r \in GuiType, EdgesKept(gui, r), r.iptt => gui.iptt
  PROVE  Sound
<1>1. Watched(r) /\ RigKept(gui, r)
  BY DEF SlotInv, Watched, EdgesKept
<1> QED BY <1>1, HandledSound

\* Stop, from the button or from the timer behind a tune.
LEMMA StopSound ==
  ASSUME SlotInv, StopButton \/ TuneTimeout
  PROVE  Sound
<1>0. gui \in GuiType /\ Slot(gui)
  BY DEF SlotInv, TypeOK
<1>1. CASE StopButton
  <2> DEFINE r == StopClicked(gui)
  <2>1. Slot(r) /\ r \in GuiType /\ EdgesKept(gui, r) /\ (r.iptt => gui.iptt)
    BY <1>0, StopClickedSlot
  <2>2. gui' = r /\ UNCHANGED keyed
    BY <1>1 DEF StopButton, Handle
  <2> HIDE DEF r
  <2> QED BY <2>1, <2>2, WholeSound
<1>2. CASE TuneTimeout
  <2> DEFINE f == [gui EXCEPT !.tuneTimer = "off"]
             r == StopClicked(f)
  <2>1. f \in GuiType
    BY <1>0, ZenonT(60) DEF GuiType, Timer
  <2>2. Slot(f) /\ EdgesKept(gui, f) /\ f.iptt = gui.iptt
    BY <1>0 DEF GuiType, Slot, EdgesKept, RigKept
  <2>3. gui' = r /\ UNCHANGED keyed
    BY <1>2 DEF TuneTimeout, Handle
  <2> HIDE DEF f
  <2>4. Slot(r) /\ r \in GuiType /\ EdgesKept(f, r) /\ (r.iptt => f.iptt)
    BY <2>1, <2>2, StopClickedSlot
  <2> HIDE DEF r
  <2>5. EdgesKept(gui, r) /\ (r.iptt => gui.iptt)
    BY <2>2, <2>4 DEF EdgesKept, RigKept
  <2> QED BY <2>3, <2>4, <2>5, WholeSound
<1> QED BY <1>1, <1>2

\* The Tune button itself raises m_tune or starts the timer, and may stop the
\* modulator.
LEMMA TuneButtonSound == ASSUME SlotInv, TuneButton PROVE Sound
<1>0. gui \in GuiType /\ Slot(gui)
  BY DEF SlotInv, TypeOK
<1> DEFINE up == ~gui.tuneButton
           g == [gui EXCEPT !.tuneButton = up]
           a == [g EXCEPT !.tuneTimer = "armed"]
           b == [g EXCEPT !.tune = TRUE]
           h == IF g.tune THEN a ELSE b
           s == StopAudio(h)
           r == IF g.tuneButton THEN h ELSE s
<1>1. gui' = r /\ UNCHANGED keyed
  BY DEF TuneButton, Handle
<1>2. g \in GuiType /\ a \in GuiType /\ b \in GuiType
  <2>1. up \in BOOLEAN
    BY <1>0 DEF GuiType
  <2> HIDE DEF up
  <2>2. g \in GuiType
    BY <1>0, <2>1, ZenonT(60) DEF GuiType
  <2> HIDE DEF g
  <2>3. a \in GuiType
    BY <2>2, ZenonT(60) DEF GuiType, Timer
  <2>4. b \in GuiType
    BY <2>2, ZenonT(60) DEF GuiType
  <2> QED BY <2>2, <2>3, <2>4
<1>3. /\ Slot(h) /\ EdgesKept(gui, h) /\ h.iptt = gui.iptt /\ h \in GuiType
  <2>1. Slot(g) /\ EdgesKept(gui, g) /\ g.iptt = gui.iptt
    BY <1>0 DEF GuiType, Slot, EdgesKept, RigKept
  <2> HIDE DEF g
  <2>2. Slot(a) /\ EdgesKept(g, a) /\ a.iptt = g.iptt
    BY <1>2, <2>1 DEF GuiType, Slot, EdgesKept, RigKept
  <2>3. Slot(b) /\ EdgesKept(g, b) /\ b.iptt = g.iptt
    <3>1. /\ EdgesKept(g, b) /\ b.iptt = g.iptt /\ b.tune
          /\ b.transmitting = g.transmitting /\ b.btxok = g.btxok
          /\ b.auto = g.auto /\ b.started = g.started /\ b.next = g.next
          /\ b.ptt0 = g.ptt0
      BY <1>2 DEF GuiType, EdgesKept, RigKept
    <3> HIDE DEF b
    <3> QED BY <2>1, <3>1 DEF Slot, EdgesKept, RigKept
  <2> HIDE DEF a, b
  <2> QED BY <1>2, <2>1, <2>2, <2>3 DEF EdgesKept, RigKept
<1> HIDE DEF h
<1>4. /\ Slot(s) /\ EdgesKept(h, s) /\ s.iptt = h.iptt /\ s \in GuiType
  <2>1. s \in GuiType
    BY <1>3, StopAudioType
  <2> DEFINE cmds == Append(h.audioCmds, "stop")
             q == [h EXCEPT !.audioCmds = cmds]
  <2>2. s = h \/ s = q
    BY DEF StopAudio
  <2> HIDE DEF s, cmds
  <2>3. Slot(q) /\ EdgesKept(h, q) /\ q.iptt = h.iptt
    BY <1>3 DEF GuiType, Slot, EdgesKept, RigKept
  <2>4. EdgesKept(h, h)
    BY DEF EdgesKept, RigKept
  <2> HIDE DEF q
  <2> QED BY <1>3, <2>1, <2>2, <2>3, <2>4
<1> HIDE DEF s, g
<1>5. /\ Slot(r) /\ EdgesKept(gui, r) /\ (r.iptt => gui.iptt)
      /\ r \in GuiType
  <2>1. r = h \/ r = s
    OBVIOUS
  <2>2. EdgesKept(gui, s)
    BY <1>3, <1>4 DEF EdgesKept, RigKept
  <2> HIDE DEF r
  <2> QED BY <1>3, <1>4, <2>1, <2>2
<1> HIDE DEF r
<1> QED BY <1>1, <1>5, WholeSound

\* Escape: Stop and then stopTx, which finds nothing left.
LEMMA EscapeSound == ASSUME SlotInv, Escape PROVE Sound
<1>0. gui \in GuiType /\ Slot(gui)
  BY DEF SlotInv, TypeOK
<1> DEFINE a == StopClicked(gui)
           r == StopTx(a)
<1>1. gui' = r /\ UNCHANGED keyed
  BY DEF Escape, Handle
<1>2. Slot(a) /\ a \in GuiType /\ EdgesKept(gui, a) /\ Emptied(a)
  BY <1>0, StopClickedSlot
<1> HIDE DEF a
<1>3. /\ a.iptt0 <=> a.btxok0
      /\ a.auto => a.started
      /\ TextEmpty(a) /\ a.frames = 0
  BY <1>2 DEF Slot, Emptied, Cleared, TextEmpty
<1>4. Slot(r) /\ r \in GuiType /\ EdgesKept(a, r) /\ ~r.iptt
  BY <1>2, <1>3, StopTxSlot
<1> HIDE DEF r
<1>5. EdgesKept(gui, r)
  BY <1>2, <1>4 DEF EdgesKept, RigKept
<1> QED BY <1>1, <1>4, <1>5, WholeSound

\* The idle timeout: the frame that stopTx may take of a draft is no longer
\* counted when the queue is reset behind it.
LEMMA IdleTimeoutSound == ASSUME SlotInv, IdleTimeout PROVE Sound
<1>0. gui \in GuiType /\ Slot(gui)
  BY DEF SlotInv, TypeOK
<1> DEFINE a == IF gui.tune \/ gui.auto THEN StopClicked(gui) ELSE gui
           s == StopTx(a)
           r == ResetTransmitQueue(s)
<1>1. gui' = r /\ UNCHANGED keyed
  BY DEF IdleTimeout, Handle
<1>2. a \in GuiType /\ Slot(a) /\ EdgesKept(gui, a) /\ ~a.auto
  <2>1. CASE gui.tune \/ gui.auto
    BY <1>0, <2>1, StopClickedSlot DEF Emptied, Cleared
  <2>2. CASE ~(gui.tune \/ gui.auto)
    BY <1>0, <2>2 DEF EdgesKept, RigKept
  <2> QED BY <2>1, <2>2
<1> HIDE DEF a
<1>3. /\ s \in GuiType /\ EdgesKept(a, s) /\ s.ptt0 = "armed"
      /\ ~s.iptt /\ ~s.transmitting /\ ~s.btxok /\ ~s.auto
  <2>1. /\ s \in GuiType /\ EdgesKept(a, s) /\ s.ptt0 = "armed"
        /\ ~s.iptt /\ ~s.transmitting /\ ~s.btxok
        /\ s.next => s.auto = a.auto
        /\ ~s.next => Emptied(s)
    BY <1>2, StopTxAny
  <2> HIDE DEF s
  <2> QED BY <1>2, <2>1 DEF Emptied, Cleared
<1> HIDE DEF s
<1>4. /\ EdgesKept(s, r) /\ r.ptt0 = s.ptt0 /\ r.auto = s.auto
      /\ r.iptt = s.iptt /\ r.transmitting = s.transmitting
      /\ r.btxok = s.btxok /\ r.frameCount = 0
  BY <1>3 DEF ResetTransmitQueue, GuiType, EdgesKept, RigKept
<1>5. r \in GuiType
  BY <1>3, ResetTransmitQueueType
<1> HIDE DEF r
<1>6. EdgesKept(gui, r) /\ ~r.iptt
  BY <1>2, <1>3, <1>4 DEF EdgesKept, RigKept
<1>7. Slot(r)
  <2>1. r.iptt0 <=> r.btxok0
    BY <1>0, <1>6 DEF Slot, EdgesKept
  <2> QED BY <1>3, <1>4, <2>1 DEF Slot
<1> QED BY <1>1, <1>5, <1>6, <1>7, WholeSound

\* Editing the text, and queueing a reply.
LEMMA UserTypeSound == ASSUME SlotInv, UserType PROVE Sound
<1>0. gui \in GuiType /\ Slot(gui)
  BY DEF SlotInv, TypeOK
<1>1. PICK n \in 0..MaxFrames :
        Handle([gui EXCEPT !.unsent = n, !.dirty = n > 0 \/ gui.sentText])
  BY DEF UserType
<1> DEFINE dirty == n > 0 \/ gui.sentText
           r == [gui EXCEPT !.unsent = n, !.dirty = dirty]
<1>2. n \in Nat /\ dirty \in BOOLEAN
  BY <1>0, TxControlAssumption DEF GuiType
<1>3. gui' = r /\ UNCHANGED keyed
  BY <1>1 DEF Handle
<1> HIDE DEF dirty
<1>4. r \in GuiType
  BY <1>0, <1>2, ZenonT(60) DEF GuiType
<1>5. Slot(r) /\ EdgesKept(gui, r) /\ r.iptt = gui.iptt
  BY <1>0 DEF GuiType, Slot, EdgesKept, RigKept
<1> HIDE DEF r
<1> QED BY <1>3, <1>4, <1>5, WholeSound

\* One more reply in the queue of messages.
LEMMA QueuedSlot ==
  ASSUME NEW g \in GuiType, Slot(g)
  PROVE  LET r == [g EXCEPT !.queued = @ + 1]
         IN  Slot(r) /\ r \in GuiType /\ EdgesKept(g, r) /\ r.iptt = g.iptt
<1> DEFINE n == g.queued + 1
           r == [g EXCEPT !.queued = n]
<1>1. n \in Nat
  BY DEF GuiType
<1> HIDE DEF n
<1>2. r \in GuiType
  BY <1>1, ZenonT(60) DEF GuiType
<1>3. Slot(r) /\ EdgesKept(g, r) /\ r.iptt = g.iptt
  BY DEF GuiType, Slot, EdgesKept, RigKept
<1> QED BY <1>2, <1>3 DEF n

\* Queueing one, and taking it from the queue at once.
LEMMA EnqueueSound ==
  ASSUME SlotInv, EnqueueReply \/ EnqueueAndProcess
  PROVE  Sound
<1>0. gui \in GuiType /\ Slot(gui)
  BY DEF SlotInv, TypeOK
<1> DEFINE g == [gui EXCEPT !.queued = @ + 1]
<1>1. Slot(g) /\ g \in GuiType /\ EdgesKept(gui, g) /\ g.iptt = gui.iptt
  BY <1>0, QueuedSlot
<1>2. CASE EnqueueReply
  <2>1. gui' = g /\ UNCHANGED keyed
    BY <1>2 DEF EnqueueReply, Handle
  <2> HIDE DEF g
  <2> QED BY <1>1, <2>1, WholeSound
<1>3. CASE EnqueueAndProcess
  <2>1. PICK n \in 1..MaxFrames, send \in BOOLEAN, ok \in Ready :
          Handle(ProcessTxQueue(g, n, send, ok))
    BY <1>3 DEF EnqueueAndProcess
  <2> DEFINE r == ProcessTxQueue(g, n, send, ok)
  <2>2. n \in Nat
    BY TxControlAssumption
  <2>3. gui' = r /\ UNCHANGED keyed
    BY <2>1 DEF Handle
  <2> HIDE DEF g
  <2>4. Whole(g, r)
    BY <1>1, <2>2, ProcessTxQueueSlot
  <2> HIDE DEF r
  <2>5. Slot(r) /\ r \in GuiType /\ EdgesKept(gui, r) /\ (r.iptt => gui.iptt)
    BY <1>1, <2>4 DEF Whole, EdgesKept, RigKept
  <2> QED BY <2>3, <2>5, WholeSound
<1> QED BY <1>2, <1>3

\* The Send button, in a tune or not.
LEMMA UserSendSound == ASSUME SlotInv, UserSend PROVE Sound
<1>0. gui \in GuiType /\ Slot(gui)
  BY DEF SlotInv, TypeOK
<1>1. PICK ok \in Ready : Handle(ToggleTx(gui, ok))
  BY DEF UserSend
<1> DEFINE r == ToggleTx(gui, ok)
<1>2. Whole(gui, r)
  BY <1>0, ToggleTxSlot
<1>3. gui' = r /\ UNCHANGED keyed
  BY <1>1 DEF Handle
<1> HIDE DEF r
<1> QED BY <1>2, <1>3, WholeSound DEF Whole

\* The part of guiUpdate that runs when the second changes.
LEMMA OncePerSecondSlot ==
  ASSUME NEW g \in GuiType, NEW sec0, NEW go, NEW n \in Nat, NEW send, NEW ok,
         Slot(g), Lit(g)
  PROVE  LET r == OncePerSecond(g, sec0, go, n, send, ok)
         IN  r \in GuiType /\ Slot(r) /\ Lit(r) /\ RigKept(g, r)
<1> DEFINE f == [g EXCEPT !.btxok = TRUE]
           h == IF g.transmitting THEN f ELSE g
<1>1. /\ h \in GuiType /\ Slot(h) /\ Lit(h) /\ RigKept(g, h)
  <2>1. CASE g.transmitting
    <3>1. f \in GuiType
      BY ZenonT(60) DEF GuiType
    <3>2. Slot(f) /\ Lit(f) /\ RigKept(g, f)
      BY <2>1 DEF Slot, Lit, GuiType, RigKept
    <3> QED BY <2>1, <3>1, <3>2
  <2>2. CASE ~g.transmitting
    BY <2>2 DEF RigKept
  <2> QED BY <2>1, <2>2
<1> HIDE DEF h
<1>2. Whole(h, ProcessTxQueue(h, n, send, ok))
  BY <1>1, ProcessTxQueueSlot
<1> QED BY <1>1, <1>2 DEF OncePerSecond, Whole, EdgesKept, RigKept, h

\* The copies guiUpdate takes are those of a slot whose m_btxok is up.
LEMMA RememberSlot ==
  ASSUME NEW g \in GuiType, Slot(g), Lit(g)
  PROVE  LET r == Remember(g)
         IN  r \in GuiType /\ Slot(r) /\ Watched(r) /\ RigKept(g, r)
<1>1. Remember(g) \in GuiType
  BY RememberType
<1>2. LET r == Remember(g) IN Slot(r) /\ Watched(r) /\ RigKept(g, r)
  BY DEF Remember, Slot, Watched, Lit, GuiType, RigKept
<1> QED BY <1>1, <1>2

\* A pass of guiUpdate.
LEMMA GuiUpdateSound ==
  ASSUME SlotInv, GuiUpdate \/ GuiUpdateSecond
  PROVE  Sound
<1>0. gui \in GuiType /\ Slot(gui)
  BY DEF SlotInv, TypeOK
<1>1. SUFFICES ASSUME NEW r \in GuiType, Slot(r), Lit(r), RigSteps(gui, r),
                      gui' = Remember(r), UNCHANGED keyed
               PROVE  Sound
  <2>1. CASE GuiUpdate
    <3>1. PICK wspr \in GuardBand : gui' = Remember(EveryPass(gui, phase, wspr))
      BY <2>1 DEF GuiUpdate
    <3> DEFINE p == EveryPass(gui, phase, wspr)
    <3>2. p \in GuiType /\ Slot(p) /\ Lit(p) /\ RigSteps(gui, p)
      BY <1>0, EveryPassSlot
    <3> HIDE DEF p
    <3>3. gui' = Remember(p) /\ UNCHANGED keyed
      BY <2>1, <3>1 DEF GuiUpdate, p
    <3> QED BY <3>2, <3>3, <1>1
  <2>2. CASE GuiUpdateSecond
    <3>1. PICK wspr \in GuardBand, go \in BOOLEAN, send \in BOOLEAN,
               n \in 1..MaxFrames, ok \in Ready :
            gui' = Remember(OncePerSecond(EveryPass(gui, phase, wspr),
                              phase = "start" /\ ~ticked, go, n, send, ok))
      BY <2>2 DEF GuiUpdateSecond
    <3>2. n \in Nat
      BY TxControlAssumption
    <3> DEFINE p == EveryPass(gui, phase, wspr)
               q == OncePerSecond(p, phase = "start" /\ ~ticked, go, n, send, ok)
    <3>3. p \in GuiType /\ Slot(p) /\ Lit(p) /\ RigSteps(gui, p)
      BY <1>0, EveryPassSlot
    <3>4. q \in GuiType /\ Slot(q) /\ Lit(q) /\ RigKept(p, q)
      <4> HIDE DEF p
      <4> QED BY <3>2, <3>3, OncePerSecondSlot
    <3>5. gui' = Remember(q) /\ UNCHANGED keyed
      BY <2>2, <3>1 DEF GuiUpdateSecond
    <3> HIDE DEF q, p
    <3>6. RigSteps(gui, q)
      BY <3>3, <3>4 DEF RigSteps, RigKept, RigAsked
    <3> QED BY <3>4, <3>5, <3>6, <1>1
  <2> QED BY <2>1, <2>2
<1> DEFINE m == Remember(r)
<1>2. m \in GuiType /\ Slot(m) /\ Watched(m) /\ RigKept(r, m)
  BY <1>1, RememberSlot
<1>3. gui' = m /\ UNCHANGED keyed
  BY <1>1
<1> HIDE DEF m
<1>4. RigKept(gui, m) \/ \E on \in BOOLEAN : RigAsked(gui, m, on)
  BY <1>1, <1>2 DEF RigSteps, RigKept, RigAsked
<1> QED BY <1>2, <1>3, <1>4, HandledSound

\* stopTx2 keeps PTT only for a session that has frames to send: frames are
\* counted for nobody else once a tune is over.
LEMMA Ptt0TimeoutSound == ASSUME SlotInv, Ptt0Timeout PROVE Sound
<1>0. gui \in GuiType /\ Slot(gui) /\ Watched(gui)
  BY DEF SlotInv, TypeOK
<1> DEFINE g == [gui EXCEPT !.ptt0 = "off"]
           r == EmitPTT(g, FALSE)
           holds == ~gui.tune /\ HoldPtt /\ gui.frameCount > 0
<1>1. g \in GuiType /\ r \in GuiType
  <2>1. g \in GuiType
    BY <1>0, ZenonT(60) DEF GuiType, Timer
  <2> QED BY <2>1, EmitPTTType
<1>2. /\ EdgesKept(gui, g) /\ g.tune = gui.tune /\ g.frameCount = gui.frameCount
  BY <1>0 DEF GuiType, EdgesKept, RigKept
<1>3. gui' = (IF holds THEN g ELSE r) /\ UNCHANGED keyed
  <2> HIDE DEF r
  <2>1. gui' = (IF ~g.tune /\ HoldPtt /\ g.frameCount > 0 THEN g ELSE r)
    BY DEF Ptt0Timeout, Handle, r
  <2>2. UNCHANGED keyed
    BY DEF Ptt0Timeout, Handle
  <2> HIDE DEF g
  <2> QED BY <1>2, <2>1, <2>2
<1>4. CASE holds
  <2>1. gui' = g /\ UNCHANGED keyed
    BY <1>3, <1>4
  <2>2. Slot(g) /\ g.iptt = gui.iptt
    BY <1>0, <1>4 DEF GuiType, Slot
  <2> HIDE DEF g
  <2> QED BY <1>1, <1>2, <2>1, <2>2, WholeSound
<1>5. CASE ~holds
  <2>1. gui' = r /\ UNCHANGED keyed
    BY <1>3, <1>5
  <2>2. /\ ~r.ptt /\ r.tune = gui.tune /\ r.auto = gui.auto
        /\ r.started = gui.started /\ r.next = gui.next
        /\ r.frameCount = gui.frameCount /\ r.iptt = gui.iptt
        /\ r.transmitting = gui.transmitting /\ r.btxok = gui.btxok
        /\ r.iptt0 = gui.iptt0 /\ r.btxok0 = gui.btxok0
        /\ RigAsked(gui, r, FALSE)
    BY <1>0 DEF EmitPTT, GuiType, RigAsked
  <2> HIDE DEF r
  <2>3. Slot(r) /\ Watched(r)
    BY <1>0, <2>2 DEF Slot, Watched
  <2>4. \E on \in BOOLEAN : RigAsked(gui, r, on)
    BY <2>2
  <2> QED BY <1>1, <2>1, <2>3, <2>4, HandledSound
<1> QED BY <1>4, <1>5

\* startTx2, the modulator and time passing speak to neither.
LEMMA PlainSound ==
  ASSUME SlotInv, Ptt1Timeout \/ AudioThread \/ Advance
  PROVE  Sound
<1>0. gui \in GuiType /\ Slot(gui) /\ Watched(gui)
  BY DEF SlotInv, TypeOK
<1>1. SUFFICES ASSUME NEW r, gui' = r, UNCHANGED keyed,
                      r.ptt = gui.ptt, r.rigCmds = gui.rigCmds,
                      r.rigUpdate = gui.rigUpdate,
                      r.ptt1 = gui.ptt1 \/ r.ptt1 # "armed",
                      Slot(r), Watched(r)
               PROVE  Sound
  <2>1. CASE Ptt1Timeout
    <3> DEFINE g == [gui EXCEPT !.ptt1 = "off"]
               cmds == Append(gui.audioCmds, "start")
               h == [g EXCEPT !.audioCmds = cmds]
               r == IF active THEN g ELSE h
    <3>1. gui' = r /\ UNCHANGED keyed
      BY <1>0, <2>1 DEF Ptt1Timeout, Handle, GuiType
    <3> HIDE DEF cmds
    <3>2. /\ r.ptt = gui.ptt /\ r.rigCmds = gui.rigCmds
          /\ r.rigUpdate = gui.rigUpdate /\ r.ptt1 = "off"
          /\ Slot(r) /\ Watched(r)
      BY <1>0 DEF GuiType, Slot, Watched
    <3> HIDE DEF r
    <3> QED BY <1>1, <3>1, <3>2
  <2>2. CASE AudioThread
    <3> DEFINE cmds == Tail(gui.audioCmds)
               r == [gui EXCEPT !.audioCmds = cmds]
    <3>1. gui' = r /\ UNCHANGED keyed
      BY <2>2 DEF AudioThread
    <3> HIDE DEF cmds
    <3>2. /\ r.ptt = gui.ptt /\ r.rigCmds = gui.rigCmds
          /\ r.rigUpdate = gui.rigUpdate /\ r.ptt1 = gui.ptt1
          /\ Slot(r) /\ Watched(r)
      BY <1>0 DEF GuiType, Slot, Watched
    <3> HIDE DEF r
    <3> QED BY <1>1, <3>1, <3>2
  <2>3. CASE Advance
    <3> DEFINE Age(t) == IF t = "off" THEN "off" ELSE "due"
               x == Age(gui.ptt0)
               y == Age(gui.ptt1)
               z == Age(gui.tuneTimer)
               r == [gui EXCEPT !.ptt0 = x, !.ptt1 = y, !.tuneTimer = z]
    <3>1. gui' = r /\ UNCHANGED keyed
      BY <2>3 DEF Advance
    <3>2. y # "armed" /\ (x = "off" <=> gui.ptt0 = "off")
      OBVIOUS
    <3> HIDE DEF x, y, z
    <3>3. /\ r.ptt = gui.ptt /\ r.rigCmds = gui.rigCmds
          /\ r.rigUpdate = gui.rigUpdate /\ r.ptt1 # "armed"
          /\ Slot(r) /\ Watched(r)
      BY <1>0, <3>2 DEF GuiType, Slot, Watched
    <3> HIDE DEF r
    <3> QED BY <1>1, <3>1, <3>3
  <2> QED BY <2>1, <2>2, <2>3
<1>2. RigInv'
  BY <1>1 DEF SlotInv, RigInv
<1>3. AudioWaits
  BY <1>1 DEF AudioWaits
<1> QED BY <1>1, <1>2, <1>3 DEF Sound

\* An update from the rig: with PTT dropped between slots only one that says
\* the rig transmits starts the audio delay.
LEMMA RigUpdateSound == ASSUME SlotInv, RigUpdate PROVE Sound
<1>0. gui \in GuiType /\ Slot(gui) /\ Watched(gui)
  BY DEF SlotInv, TypeOK
<1> DEFINE on   == gui.rigUpdate = "on"
           safe == HoldPtt \/ (on /\ ~gui.rigPtt)
           ptt1 == IF gui.ready /\ gui.iptt THEN "armed" ELSE gui.ptt1
           f == [gui EXCEPT !.ptt1 = ptt1, !.ready = FALSE]
           g == IF safe THEN f ELSE gui
           r == [g EXCEPT !.rigPtt = on, !.rigUpdate = "none"]
<1>1. gui' = r /\ UNCHANGED keyed
  BY DEF RigUpdate, Handle
<1>2. /\ r.ptt = gui.ptt /\ r.rigCmds = gui.rigCmds /\ r.rigUpdate = "none"
      /\ r.ptt1 = IF safe THEN ptt1 ELSE gui.ptt1
      /\ Slot(r) /\ Watched(r)
  <2> HIDE DEF on, ptt1
  <2> QED BY <1>0 DEF GuiType, Slot, Watched
<1>3. keyed = gui.ptt /\ (keyed <=> on)
  BY DEF SlotInv, RigInv, RigUpdate
<1>4. ~HoldPtt => AudioWaits
  <2> SUFFICES ASSUME ~HoldPtt, gui.ptt1 = "off", r.ptt1 = "armed"
               PROVE  keyed /\ gui.iptt
    BY <1>1 DEF AudioWaits
  <2>1. safe /\ ptt1 = "armed"
    <3> HIDE DEF r, ptt1
    <3> QED BY <1>2
  <2>2. gui.iptt
    BY <2>1
  <2>3. on
    BY <2>1
  <2> HIDE DEF on, r, safe, ptt1
  <2> QED BY <1>3, <2>2, <2>3
<1> HIDE DEF r
<1>5. RigInv'
  BY <1>1, <1>2 DEF SlotInv, RigInv
<1> QED BY <1>1, <1>2, <1>4, <1>5 DEF Sound

\* The rig obeys the oldest command.
LEMMA RigThreadSound == ASSUME SlotInv, RigThread PROVE Sound
<1>0. gui \in GuiType /\ Slot(gui) /\ Watched(gui)
  BY DEF SlotInv, TypeOK
<1> DEFINE cmds == Tail(gui.rigCmds)
           answer == IF Len(gui.rigCmds) > 1 THEN "none"
                     ELSE IF Head(gui.rigCmds) THEN "on" ELSE "off"
           r == [gui EXCEPT !.rigCmds = cmds, !.rigUpdate = answer]
<1>1. gui' = r /\ keyed' = Head(gui.rigCmds) /\ gui.rigCmds # <<>>
  BY <1>0 DEF RigThread, GuiType
<1>2. gui.rigCmds \in Seq(BOOLEAN) /\ gui.rigCmds[Len(gui.rigCmds)] = gui.ptt
  BY <1>0, <1>1 DEF SlotInv, RigInv, GuiType
<1>3. /\ cmds = <<>> => Head(gui.rigCmds) = gui.ptt
      /\ cmds # <<>> => cmds[Len(cmds)] = gui.ptt /\ answer = "none"
  BY <1>1, <1>2, TailLast
<1>4. answer # "none" => (Head(gui.rigCmds) <=> answer = "on")
  OBVIOUS
<1> HIDE DEF cmds, answer
<1>5. /\ r.ptt = gui.ptt /\ r.rigCmds = cmds /\ r.rigUpdate = answer
      /\ r.ptt1 = gui.ptt1 /\ Slot(r) /\ Watched(r)
  BY <1>0 DEF GuiType, Slot, Watched
<1> HIDE DEF r
<1>6. RigInv'
  BY <1>1, <1>3, <1>4, <1>5 DEF RigInv
<1>7. AudioWaits
  BY <1>1, <1>5 DEF AudioWaits
<1> QED BY <1>1, <1>5, <1>6, <1>7 DEF Sound

\* Every step keeps the slot whole and watched.
LEMMA NextSound == ASSUME SlotInv, [Next]_vars PROVE Sound /\ SlotInv'
<1>1. TypeOK'
  BY NextType DEF SlotInv
<1> SUFFICES Sound
  BY <1>1 DEF SlotInv, Sound
<1>2. CASE UNCHANGED vars
  BY <1>2 DEF vars, Sound, SlotInv, RigInv, AudioWaits
<1> QED
  BY <1>2, UserTypeSound, UserSendSound, StopSound, EscapeSound,
     TuneButtonSound, IdleTimeoutSound, EnqueueSound, GuiUpdateSound,
     Ptt0TimeoutSound, PlainSound, RigUpdateSound, RigThreadSound
     DEF Next, Operator, Machine

\* In every reachable state, whatever the settings and whether the operator
\* tunes or not, a slot that is keyed is shown and watched, and PTT is owned.
THEOREM SlotInvariant == Spec => []SlotInv
<1>1. Init => SlotInv
  <2> SUFFICES ASSUME Init PROVE SlotInv
    OBVIOUS
  <2>1. TypeOK
    BY InitType
  <2>2. gui = InitGui /\ keyed = FALSE
    BY DEF Init
  <2>3. Slot(gui)
    BY <2>2 DEF InitGui, Slot
  <2>4. /\ ~gui.iptt /\ gui.ptt = FALSE /\ gui.rigCmds = <<>>
        /\ gui.rigUpdate = "none"
    BY <2>2 DEF InitGui
  <2>5. Watched(gui) /\ RigInv
    BY <2>2, <2>4 DEF Watched, RigInv
  <2> QED BY <2>1, <2>3, <2>5 DEF SlotInv
<1>2. SlotInv /\ [Next]_vars => SlotInv'
  BY NextSound
<1> QED BY <1>1, <1>2, PTL DEF Spec

-----------------------------------------------------------------------------
(* What it gives.                                                          *)

\* A PTT that is on is always somebody's to release, in a tune or not.
THEOREM PttHasOwnerAlways == Spec => []PttHasOwner
<1>1. SlotInv => PttHasOwner
  BY DEF SlotInv, Slot, PttHasOwner
<1> QED BY <1>1, SlotInvariant, PTL

\* No frame waits behind a Send button that is up.
THEOREM SendButtonOwnsFramesAlways ==
  ASSUME ~Tuning PROVE Spec => []SendButtonOwnsFrames
<1>1. IInv => SendButtonOwnsFrames
  BY DEF IInv, TypeOK, GuiType, SessionInv, Session, SendButtonOwnsFrames
<1> QED BY <1>1, InductiveInvariant, PTL

\* The end of every slot that is keyed will be noticed by guiUpdate, that of
\* a tune included.
THEOREM EndWillBeSeenAlways == Spec => []EndWillBeSeen
<1>1. SlotInv => EndWillBeSeen
  BY DEF SlotInv, Slot, Watched, EndWillBeSeen
<1> QED BY <1>1, SlotInvariant, PTL

\* Frames counted as sent are frames that have been keyed.
THEOREM FrameByFrameAlways == ASSUME ~Tuning PROVE Spec => []FrameByFrame
<1>1. IInv => FrameByFrame
  BY DEF IInv, SessionInv, Session, FrameByFrame
<1> QED BY <1>1, InductiveInvariant, PTL

\* However the text is edited, a session has one first frame, the first to go
\* out, and a last frame is one behind which no other waits.
THEOREM FramingAlways == ASSUME ~Tuning PROVE Spec => []Framing
<1>1. IInv => Framing
  BY DEF IInv, SessionInv, Session, Framing
<1> QED BY <1>1, InductiveInvariant, PTL

\* With PTT held, the rig is not told to receive in mid-message.
THEOREM PttHeldBetweenFramesAlways ==
  ASSUME ~Tuning PROVE Spec => []PttHeldBetweenFrames
<1>1. IInv => PttHeldBetweenFrames
  BY DEF IInv, SessionInv, Session, PttHeldBetweenFrames
<1> QED BY <1>1, InductiveInvariant, PTL

\* Without Tune the audio delay starts only when the rig has obeyed.
LEMMA AudioWaitsTuneless == ASSUME ~Tuning PROVE Spec => AudioWaitsForRig
<1>1. IInv /\ [Next]_vars => [AudioWaits]_vars
  BY NextGood DEF Good
<1>2. [AudioWaits]_vars => [gui.ptt1 = "off" /\ gui'.ptt1 = "armed"
                              => keyed /\ gui.iptt]_vars
  BY DEF AudioWaits
<1> QED BY <1>1, <1>2, InductiveInvariant, PTL DEF Spec, AudioWaitsForRig

\* So it does in a tune, where PTT is dropped between slots.
LEMMA AudioWaitsReleased == ASSUME ~HoldPtt PROVE Spec => AudioWaitsForRig
<1>1. SlotInv /\ [Next]_vars => [AudioWaits]_vars
  BY NextSound DEF Sound
<1>2. [AudioWaits]_vars => [gui.ptt1 = "off" /\ gui'.ptt1 = "armed"
                              => keyed /\ gui.iptt]_vars
  BY DEF AudioWaits
<1> QED BY <1>1, <1>2, SlotInvariant, PTL DEF Spec, AudioWaitsForRig

\* The audio delay starts only when the rig has obeyed, unless the operator
\* may tune while PTT is held between slots: handle_transceiver_update does
\* not look at the PTT of an update then, and the timer of the session before
\* may just have dropped it.
THEOREM AudioWaitsForRigAlways ==
  ASSUME ~(HoldPtt /\ Tuning) PROVE Spec => AudioWaitsForRig
<1>1. CASE ~Tuning
  BY <1>1, AudioWaitsTuneless
<1>2. CASE ~HoldPtt
  BY <1>2, AudioWaitsReleased
<1> QED BY <1>1, <1>2
=============================================================================
