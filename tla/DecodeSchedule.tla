---------------------------- MODULE DecodeSchedule ----------------------------
(***************************************************************************)
(* Which piece of the audio is decoded when.  The detector writes the      *)
(* audio of a minute into dec_data.d2 and reports every block;             *)
(* MainWindow queues, for every speed, ranges of the cycle that is being   *)
(* heard, and hands what is queued to the decoder when the decoder is      *)
(* free.  DecoderHandshake models the decoder itself.                      *)
(***************************************************************************)
EXTENDS Integers

CONSTANTS
  Multi,      \* actionModeMultiDecoder, on by default
  Speed,      \* m_nSubMode, the speed of the station
  AutoDrift,  \* isAutoSyncEnabled: automatic time drift is on
  Drifts,     \* what the clock is moved by, forward or back, in blocks
  MaxDrifts   \* bound: how often it is moved

Speeds == {"Normal", "Fast", "Turbo", "Slow"}

ASSUME ScheduleAssumption ==
  /\ Multi \in BOOLEAN /\ AutoDrift \in BOOLEAN /\ Speed \in Speeds
  /\ Drifts \subseteq Nat /\ MaxDrifts \in Nat

\* The speeds that are decoded; ranges that are queued of another one are passed
\* over by decodeProcessQueue.
Modes == IF Multi THEN Speeds ELSE {Speed}

\* shouldAutoSyncSubmode: those of them with everySecond
AutoSync == IF AutoDrift THEN Modes \cap {"Normal", "Slow"} ELSE {}

VARIABLES
  k,          \* dec_data.params.kin
  heard,      \* k0: the position reported last
  lastStart,  \* m_lastDecodeStartMap, -1 for a speed without an entry
  queue,      \* m_decoderQueue: the last range of each speed, the others being overwritten
  busy,       \* m_decoderBusy
  started,    \* blocks since m_decoderBusyStartTime
  tx,         \* m_transmitting
  stopped,    \* blocks since m_lastTxStopTime
  clean,      \* history: whether the cycle, and the one before it, was listened to
              \* all along, and no decode came in the way for too long
  whole,      \* history: whether a whole transmission of that cycle has been handed over
  unheard,    \* history: the first position from which a transmission need not have
              \* been handed over whole yet, with automatic drift
  drifts      \* history: how often the clock was moved

vars == <<k, heard, lastStart, queue, busy, started, tx, stopped, clean, whole, unheard, drifts>>

-----------------------------------------------------------------------------
(* Lengths, in samples.                                                    *)

Second == 12000
Block  == 3456
Minute == 60 * Second

Cycle(m) == Second * [Normal |-> 15, Fast |-> 10, Turbo |-> 6, Slow |-> 30][m]

Symbols(m) == 79 * [Normal |-> 1920, Fast |-> 1200, Turbo |-> 600, Slow |-> 3840][m]

StartDelay(m) == [Normal |-> 6000, Fast |-> 2400, Turbo |-> 1200, Slow |-> 6000][m]

\* What a decode may last, in blocks, that is running when something of the speed has
\* to be handed over.  Nothing in the code sees to it: a decode lasts as long as it
\* lasts.
Prompt(m) ==
  IF m \in AutoSync THEN (IF m = "Slow" THEN 16 ELSE 8)
  ELSE [Normal |-> 5, Fast |-> 4, Turbo |-> 4, Slow |-> 13][m]

\* Bounds: the blocks since the decoder was started and since the last transmission
\* are counted as far as anything depends on them.
Long == IF AutoDrift THEN 16 ELSE 13
Quiet == IF Speed = "Slow" THEN 13 ELSE 6

\* computeCycleForDecode, times cycleFrames; cycleFramesReady
CycleStart(m, j) == ((j \div Cycle(m)) % (Minute \div Cycle(m))) * Cycle(m)
FramesReady(m, j) == j - CycleStart(m, j)

None == [start |-> 0, sz |-> 0]

Init ==
  /\ k = 0 /\ heard = 0 /\ drifts = 0
  /\ lastStart = [m \in Modes |-> -1] /\ queue = [m \in Modes |-> None]
  /\ busy = FALSE /\ started = Long /\ tx = FALSE /\ stopped = Quiet
  /\ clean = [m \in Modes |-> [now |-> FALSE, before |-> FALSE]]
  /\ whole = clean /\ unheard = [m \in AutoSync |-> 0]

-----------------------------------------------------------------------------
(* decodeEnqueueReadyExperiment.                                           *)

LastStart(m, j) == IF lastStart[m] = -1 THEN CycleStart(m, j) ELSE lastStart[m]

\* Variant: the ring is forgotten.
IncrementedBy_Linear(m, j) == j - LastStart(m, j)

IncrementedBy(m, j) ==
  IF j < LastStart(m, j) THEN Minute - LastStart(m, j) + j ELSE j - LastStart(m, j)

\* A range is queued: every second with everySecond, and else every 3/2 seconds
\* once the needed samples are there, every second in the last 3/2 seconds before
\* that and in the first 3/2 seconds of the cycle.
Due(m, j) ==
  \/ m \in AutoSync /\ IncrementedBy(m, j) >= Second
  \/ 2 * IncrementedBy(m, j) >= 3 * Second /\ FramesReady(m, j) >= Symbols(m)
  \/ /\ IncrementedBy(m, j) >= Second
     /\ \/ 2 * FramesReady(m, j) >= 2 * Symbols(m) - 3 * Second
        \/ 2 * FramesReady(m, j) < 3 * Second

\* Variant: the window may begin before the ring.
Range_Unwrapped(m, j) ==
  IF m \in AutoSync /\ IncrementedBy(m, j) >= Second
  THEN [start |-> j - Cycle(m), sz |-> Cycle(m)]
  ELSE [start |-> CycleStart(m, j), sz |-> FramesReady(m, j)]

Range(m, j) ==
  IF m \in AutoSync /\ IncrementedBy(m, j) >= Second
  THEN [start |-> (j - Cycle(m)) % Minute, sz |-> Cycle(m)]
  ELSE [start |-> CycleStart(m, j), sz |-> FramesReady(m, j)]

\* The queue; of several ranges of a speed decodeProcessQueue uses the last.
\* Variant: the first.
Queued_First(j) ==
  [m \in Modes |-> IF Due(m, j) /\ queue[m] = None THEN Range(m, j) ELSE queue[m]]

Queued(j) == [m \in Modes |-> IF Due(m, j) THEN Range(m, j) ELSE queue[m]]

-----------------------------------------------------------------------------
(* decode and decodeProcessQueue.                                          *)

\* Not transmitting, the decoder free, a second after it was last started, two
\* or four after the last transmission.
MayStart ==
  /\ ~tx /\ ~busy
  /\ (started + 1) * Block >= Second
  /\ (stopped + 1) * Block >= (IF Speed = "Slow" THEN 4 ELSE 2) * Second

\* Where j is heard, what is beyond it has been zeroed by symspec since the
\* ring began again.
Intact(r, j) == r # None /\ r.start + r.sz <= j

IsWhole(m, r, j) == Intact(r, j) /\ r.sz >= StartDelay(m) + Symbols(m)

\* What of it is whole in the window r, when r is handed over: all that begins
\* before it and after the window does, and what is before the ring is zeroed.
Covered(m, r, from, j) ==
  LET to == (r.start + r.sz) % Minute
      begin == IF r.start > to THEN 0 ELSE r.start
  IN  IF to <= j /\ begin <= from /\ from + Symbols(m) <= to THEN to - Symbols(m) ELSE from

NextCycle(m, j) == CycleStart(m, j) # CycleStart(m, heard)

Shift(h, m, j, now) == IF NextCycle(m, j) THEN [now |-> now, before |-> h[m].now] ELSE h[m]

\* The decoder has been at it too long for the speed.
Overdue(m) == busy /\ started + 1 >= Prompt(m)

\* And that when a whole transmission is there to be handed over, or for Turbo when
\* the pauses at the beginning of the cycle are over.
Late(m, j) ==
  /\ Overdue(m) /\ ~whole[m].now
  /\ FramesReady(m, j) >= (IF m = "Turbo" THEN 2 * Second ELSE Symbols(m))

\* What begins from here on is listened to, the ring having begun again at its turn.
From(m, j) == IF tx \/ Overdue(m) THEN j ELSE IF j = Block THEN 0 ELSE unheard[m]

Count(n, limit) == IF n < limit THEN n + 1 ELSE n

\* Audio up to j is reported.  With taken, what is queued goes to the decoder.
DataSink(j) ==
  LET q == Queued(j)
      taken == MayStart /\ \E m \in Modes : q[m] # None
      given(m) == taken /\ IsWhole(m, q[m], j)
      here(m) == q[m].start = CycleStart(m, j)
  IN  /\ heard' = j
      /\ lastStart' = [m \in Modes |-> IF Due(m, j) THEN j ELSE LastStart(m, j)]
      /\ queue' = IF taken THEN [m \in Modes |-> None] ELSE q
      /\ busy' = (busy \/ taken)
      /\ started' = IF taken THEN 0 ELSE Count(started, Long)
      /\ stopped' = Count(stopped, Quiet)
      /\ clean' = [m \in Modes |->
                     LET c == Shift(clean, m, j, ~tx /\ FramesReady(m, j) <= Block)
                     IN  [now |-> c.now /\ ~Late(m, j), before |-> c.before]]
      /\ whole' = [m \in Modes |->
                     LET w == Shift(whole, m, j, FALSE)
                     IN  [now |-> w.now \/ (given(m) /\ here(m)),
                          before |-> w.before \/ (given(m) /\ ~here(m))]]
      /\ unheard' = [m \in AutoSync |->
                       IF taken /\ q[m] # None THEN Covered(m, q[m], From(m, j), j)
                       ELSE From(m, j)]

-----------------------------------------------------------------------------
(* The detector, the decoder, the transmitter and the clock.               *)

\* writeData: the minute begins again with the clock, at most a block early by
\* the samples; what does not fit is dropped.
Frames ==
  /\ \/ k < Minute - Block /\ k' = k + Block
     \/ k >= Minute - 2 * Block /\ k' = Block
  /\ DataSink(k')
  /\ UNCHANGED <<tx, drifts>>

DecodeDone ==
  /\ busy /\ busy' = FALSE
  /\ UNCHANGED <<k, heard, lastStart, queue, started, tx, stopped, clean, whole, unheard, drifts>>

TxStart ==
  /\ ~tx /\ tx' = TRUE
  /\ clean' = [m \in Modes |-> [clean[m] EXCEPT !.now = FALSE]]
  /\ unheard' = [m \in AutoSync |-> k]
  /\ UNCHANGED <<k, heard, lastStart, queue, busy, started, stopped, whole, drifts>>

TxStop ==
  /\ tx /\ tx' = FALSE /\ stopped' = 0
  /\ UNCHANGED <<k, heard, lastStart, queue, busy, started, clean, whole, unheard, drifts>>

\* resetBufferPosition: the contents are turned along with the position.
\* Bound: by whole blocks and not past the turn of a minute.
Drift ==
  /\ drifts < MaxDrifts /\ drifts' = drifts + 1
  /\ \E d \in Drifts : k' \in {k + d * Block, k - d * Block} \cap 0..(Minute - Block)
  /\ clean' = [m \in Modes |-> [now |-> FALSE, before |-> FALSE]]
  /\ unheard' = [m \in AutoSync |-> k']
  /\ UNCHANGED <<heard, lastStart, queue, busy, started, tx, stopped, whole>>

Next == Frames \/ DecodeDone \/ TxStart \/ TxStop \/ Drift

Spec == Init /\ [][Next]_vars

-----------------------------------------------------------------------------
(* Properties.                                                             *)

\* The type invariant: ranges lie in the ring.
TypeOK ==
  /\ k \in 0..Minute /\ heard \in 0..Minute
  /\ lastStart \in [Modes -> -1..Minute]
  /\ queue \in [Modes -> [start : 0..(Minute - 1), sz : 0..Minute]]
  /\ \A m \in Modes : queue[m].sz <= Cycle(m)
  /\ busy \in BOOLEAN /\ tx \in BOOLEAN
  /\ started \in 0..Long /\ stopped \in 0..Quiet /\ drifts \in 0..MaxDrifts
  /\ clean \in [Modes -> [now : BOOLEAN, before : BOOLEAN]]
  /\ whole \in [Modes -> [now : BOOLEAN, before : BOOLEAN]]
  /\ unheard \in [AutoSync -> 0..Minute]

\* Two seconds into the next cycle.
InTime(m) == FramesReady(m, heard) >= 2 * Second /\ clean[m].before => whole[m].before

\* A cycle that was listened to from beginning to end has, two seconds into the
\* next one, been handed to the decoder with the whole of a transmission in it,
\* whatever the decoder was doing at the turn of the cycle, and whether or not
\* the station itself begins to transmit then, unless a decode that was running
\* when a whole transmission was there lasted longer than Prompt.  Others may last
\* any time, one that decodes that transmission over the turn of the cycle too.
\* Of Turbo beside other speeds the last cycle of a minute is not promised, one in
\* ten: it may be zeroed while it waits for the second between two starts
\* (EveryPeriodOfAll).
EveryPeriod ==
  \A m \in Modes \ AutoSync :
    (m = "Turbo" /\ Multi => CycleStart(m, heard) # 0) => InTime(m)

\* The same with no cycle left out: "use a ring buffer instead of clearing the
\* decode frames" (commons.h).  The code does not keep it.
EveryPeriodOfAll == \A m \in Modes \ AutoSync : InTime(m)

\* A fifth of a cycle, 3 s or at the Slow speed 6, after a transmission of a speed
\* with automatic drift has ended it has been whole in one of the windows that
\* were handed over, wherever in the minute it began, if since then the station
\* has not transmitted itself, the clock has not been moved, no decode has lasted
\* longer than Prompt and the minute has not turned: what ends less than that before
\* its turn, or lies across it, is not promised.
EverySignal == \A m \in AutoSync : k <= unheard[m] + Symbols(m) + Cycle(m) \div 5

\* What EverySignal leaves out: at the turn of a minute too, the audio is kept till a
\* transmission that has ended has been whole in a window.  The code does not keep it.
EverySignalAtTheTurn ==
  [][heard' < heard /\ heard = k => \A m \in AutoSync : k <= unheard[m] + Symbols(m)]_vars
=============================================================================
