------------------------- MODULE DecodeScheduleProofs -------------------------
(***************************************************************************)
(* Proofs about DecodeSchedule: ranges lie in the ring, automatic time     *)
(* drift leaves no signal out, and every cycle is handed over, if the      *)
(* decoder is fast enough.                                                 *)
(***************************************************************************)
EXTENDS DecodeSchedule, TLAPS

-----------------------------------------------------------------------------
(* Lengths and positions.                                                  *)

LEMMA Lengths == Second = 12000 /\ Block = 3456 /\ Minute = 720000
BY SMT DEF Second, Block, Minute

LEMMA Bounds ==
  /\ Long \in Nat /\ 13 <= Long /\ Long <= 16 /\ (AutoSync # {} => Long = 16)
  /\ Quiet \in Nat /\ 6 <= Quiet /\ (Speed = "Slow" => 13 <= Quiet)
<1>1. AutoSync # {} => AutoDrift  BY DEF AutoSync
<1>2. (Long = 16 \/ Long = 13) /\ (AutoDrift => Long = 16)  BY DEF Long
<1>3. (Quiet = 6 \/ Quiet = 13) /\ (Speed = "Slow" => Quiet = 13)  BY DEF Quiet
<1> QED BY <1>1, <1>2, <1>3

LEMMA ModesAre ==
  /\ Modes \subseteq Speeds /\ AutoSync \subseteq Modes
  /\ AutoSync \subseteq {"Normal", "Slow"}
BY ScheduleAssumption DEF Modes, AutoSync

LEMMA SpeedLengths ==
  ASSUME NEW m \in Speeds
  PROVE  \/ m = "Normal" /\ Cycle(m) = 180000 /\ Symbols(m) = 151680
         \/ m = "Fast" /\ Cycle(m) = 120000 /\ Symbols(m) = 94800
         \/ m = "Turbo" /\ Cycle(m) = 72000 /\ Symbols(m) = 47400
         \/ m = "Slow" /\ Cycle(m) = 360000 /\ Symbols(m) = 303360
BY Lengths, SMT DEF Speeds, Cycle, Symbols

\* Every cycle begins in the minute, and no more of it is ready than it holds.
LEMMA CycleStartIs ==
  ASSUME NEW m \in Speeds, NEW j \in Nat, j < Minute
  PROVE  LET s == CycleStart(m, j)  f == FramesReady(m, j)  c == Cycle(m) IN
         /\ s \in Nat /\ s <= j /\ f \in Nat /\ f < c /\ f = j - s
         /\ c \in Nat /\ 0 < c /\ c <= Minute
<1> DEFINE c == Cycle(m)  s == ((j \div c) % (Minute \div c)) * c
<1>1. c = 180000 \/ c = 120000 \/ c = 72000 \/ c = 360000  BY SpeedLengths, SMT
<1>2. CycleStart(m, j) = s /\ FramesReady(m, j) = j - s
  BY DEF CycleStart, FramesReady
<1>3. s \in Nat /\ s <= j /\ j - s < c
  <2> HIDE DEF c
  <2>1. CASE c = 180000  BY <2>1, Lengths, SMT
  <2>2. CASE c = 120000  BY <2>2, Lengths, SMT
  <2>3. CASE c = 72000   BY <2>3, Lengths, SMT
  <2>4. CASE c = 360000  BY <2>4, Lengths, SMT
  <2> QED BY <1>1, <2>1, <2>2, <2>3, <2>4
<1> HIDE DEF c, s
<1>4. c \in Nat /\ 0 < c /\ c <= Minute  BY <1>1, Lengths, SMT
<1> QED BY <1>2, <1>3, <1>4, SMT DEF c
-----------------------------------------------------------------------------
(* The type invariant.                                                     *)

InRing(n) == n \in Nat /\ n < Minute

Ranges == [start : Nat, sz : Nat]

RingOK ==
  /\ InRing(k) /\ InRing(heard)
  /\ lastStart \in [Modes -> Int]
  /\ \A m \in Modes : lastStart[m] = -1 \/ InRing(lastStart[m])
  /\ queue \in [Modes -> Ranges]
  /\ \A m \in Modes : InRing(queue[m].start) /\ queue[m].sz <= Cycle(m)
  /\ unheard \in [AutoSync -> Nat] /\ \A m \in AutoSync : InRing(unheard[m])

CountsOK ==
  /\ busy \in BOOLEAN /\ tx \in BOOLEAN
  /\ started \in 0..Long /\ stopped \in 0..Quiet /\ drifts \in 0..MaxDrifts

HistoryOK ==
  /\ clean \in [Modes -> [now : BOOLEAN, before : BOOLEAN]]
  /\ whole \in [Modes -> [now : BOOLEAN, before : BOOLEAN]]

TypeInv == RingOK /\ CountsOK /\ HistoryOK

LEMMA ModeIs ==
  ASSUME NEW m \in Modes
  PROVE  m \in Speeds /\ Cycle(m) \in Nat /\ 0 < Cycle(m) /\ Cycle(m) <= Minute
<1>1. m \in Speeds  BY ModesAre
<1>2. 0 \in Nat /\ 0 < Minute  BY Lengths, SMT
<1> QED BY <1>1, <1>2, CycleStartIs

\* A range lies in the ring and ends where it was queued.
LEMMA RangeIs ==
  ASSUME NEW m \in Modes, NEW j, InRing(j)
  PROVE  LET r == Range(m, j) IN
         /\ r \in Ranges /\ InRing(r.start) /\ r.sz <= Cycle(m)
         /\ (r.start + r.sz) % Minute = j
         /\ m \in AutoSync /\ IncrementedBy(m, j) >= Second => r # None
<1> DEFINE c == Cycle(m)  w == m \in AutoSync /\ IncrementedBy(m, j) >= Second
           r == Range(m, j)
<1>1. m \in Speeds /\ j \in Nat /\ j < Minute  BY ModesAre DEF InRing
<1>2. CASE w
  <2> DEFINE s == (j - c) % Minute
  <2>1. r = [start |-> s, sz |-> c]  BY <1>2 DEF Range
  <2>2. c = 180000 \/ c = 120000 \/ c = 72000 \/ c = 360000  BY <1>1, SpeedLengths, SMT
  <2> HIDE DEF c, w
  <2>3. s \in Nat /\ s < Minute /\ (s + c) % Minute = j /\ c \in Nat
    BY <1>1, <2>2, Lengths, SMT
  <2>4. c # 0 /\ c <= c  BY <2>2, SMT
  <2> HIDE DEF s
  <2> QED BY <2>1, <2>3, <2>4 DEF c, Ranges, InRing, None
<1>3. CASE ~w
  <2> DEFINE s == CycleStart(m, j)  f == FramesReady(m, j)
  <2>1. r = [start |-> s, sz |-> f]  BY <1>3 DEF Range
  <2>2. /\ s \in Nat /\ s <= j /\ f \in Nat /\ f < c /\ f = j - s /\ c \in Nat
    BY <1>1, CycleStartIs
  <2> HIDE DEF s, f, c
  <2>3. s < Minute /\ s + f = j /\ j % Minute = j  BY <1>1, <2>2, Lengths, SMT
  <2>4. f <= c  BY <2>2
  <2> QED BY <1>3, <2>1, <2>2, <2>3, <2>4 DEF c, w, Ranges, InRing
<1> QED BY <1>2, <1>3
\* What a report of audio up to j does, given whether it goes to the decoder.
Given(j) == MayStart /\ \E m \in Modes : Queued(j)[m] # None

To(m, j) == (Queued(j)[m].start + Queued(j)[m].sz) % Minute

LEMMA DataSinkIs ==
  ASSUME NEW j, DataSink(j), NEW m \in Modes
  PROVE  /\ heard' = j
         /\ lastStart'[m] = IF Due(m, j) THEN j ELSE LastStart(m, j)
         /\ Queued(j)[m] = IF Due(m, j) THEN Range(m, j) ELSE queue[m]
         /\ queue'[m] = IF Given(j) THEN None ELSE Queued(j)[m]
         /\ busy' = (busy \/ Given(j))
         /\ started' = IF Given(j) THEN 0 ELSE Count(started, Long)
         /\ stopped' = Count(stopped, Quiet)
BY DEF DataSink, Given, Queued

\* And to what has been handed over of a speed with automatic drift.
LEMMA UnheardIs ==
  ASSUME NEW j, DataSink(j), NEW m \in AutoSync
  PROVE  unheard'[m] = IF Given(j) /\ Queued(j)[m] # None
                       THEN Covered(m, Queued(j)[m], From(m, j), j) ELSE From(m, j)
BY DEF DataSink, Given

LEMMA CoveredIs ==
  ASSUME NEW m \in AutoSync, NEW j, InRing(j), NEW from, InRing(from), InRing(To(m, j))
  PROVE  InRing(Covered(m, Queued(j)[m], from, j))
<1> DEFINE to == To(m, j)  y == Symbols(m)
           begin == IF Queued(j)[m].start > to THEN 0 ELSE Queued(j)[m].start
<1>1. Covered(m, Queued(j)[m], from, j)
        = IF to <= j /\ begin <= from /\ from + y <= to THEN to - y ELSE from
  BY DEF Covered, To
<1>2. y \in Nat
  <2>1. m \in Speeds  BY ModesAre
  <2> QED BY <2>1, SpeedLengths
<1> HIDE DEF to, y, begin
<1>3. ASSUME to <= j, from + y <= to PROVE InRing(to - y)
  <2>1. j \in Nat /\ j < Minute /\ from \in Nat  BY DEF InRing
  <2>2. to \in Nat  BY DEF InRing, to
  <2> QED BY <1>2, <1>3, <2>1, <2>2, Lengths, SMT DEF InRing
<1> QED BY <1>1, <1>3

LEMMA DataSinkOK ==
  ASSUME TypeInv, NEW j, InRing(j), DataSink(j), k' = j
  PROVE  RingOK'
<1>1. heard' = j  BY DEF DataSink
<1>2. ASSUME NEW m \in Modes
      PROVE  lastStart'[m] \in Int /\ (lastStart'[m] = -1 \/ InRing(lastStart'[m]))
  <2>1. LastStart(m, j) \in Int /\ InRing(LastStart(m, j))
    <3>1. InRing(CycleStart(m, j))
      <4>1. CycleStart(m, j) \in Nat /\ CycleStart(m, j) <= j
        BY ModesAre, CycleStartIs DEF InRing
      <4>2. Minute \in Nat  BY Lengths, SMT
      <4> QED BY <4>1, <4>2 DEF InRing
    <3> QED BY <3>1 DEF LastStart, TypeInv, RingOK, InRing
  <2> QED BY <2>1, DataSinkIs DEF InRing
<1>3. ASSUME NEW m \in Modes
      PROVE  /\ Queued(j)[m] \in Ranges /\ InRing(Queued(j)[m].start)
             /\ Queued(j)[m].sz <= Cycle(m)
  BY RangeIs, DataSinkIs DEF TypeInv, RingOK
<1>4. ASSUME NEW m \in Modes
      PROVE  queue'[m] \in Ranges /\ InRing(queue'[m].start) /\ queue'[m].sz <= Cycle(m)
  <2>1. None \in Ranges /\ None.start = 0 /\ None.sz = 0  BY DEF None, Ranges
  <2>2. InRing(0) /\ 0 <= Cycle(m)
    <3>1. 0 < Minute  BY Lengths, SMT
    <3> QED BY <3>1, ModeIs DEF InRing
  <2> QED BY <1>3, <2>1, <2>2, DataSinkIs
<1>5. ASSUME NEW m \in AutoSync PROVE InRing(unheard'[m])
  <2>0. m \in Modes  BY ModesAre
  <2>1. InRing(To(m, j))
    <3> DEFINE n == Queued(j)[m].start + Queued(j)[m].sz
    <3>1. n \in Nat  BY <1>3, <2>0 DEF Ranges
    <3> HIDE DEF n
    <3>2. n % Minute \in Nat /\ n % Minute < Minute  BY <3>1, Lengths, SMT
    <3> QED BY <3>2 DEF InRing, To, n
  <2>2. InRing(From(m, j))
    <3>1. InRing(0)  BY Lengths, SMT DEF InRing
    <3> QED BY <3>1 DEF From, TypeInv, RingOK
  <2> QED BY <2>1, <2>2, UnheardIs, CoveredIs
<1>6. /\ lastStart' \in [Modes -> Int] /\ queue' \in [Modes -> Ranges]
      /\ unheard' \in [AutoSync -> Nat]
  <2>1. lastStart' = [m \in Modes |-> IF Due(m, j) THEN j ELSE LastStart(m, j)]
    BY DEF DataSink
  <2>2. queue' = [m \in Modes |-> IF Given(j) THEN None ELSE Queued(j)[m]]
    BY DEF DataSink, Given, Queued
  <2>3. unheard' = [m \in AutoSync |->
                     IF Given(j) /\ Queued(j)[m] # None
                     THEN Covered(m, Queued(j)[m], From(m, j), j) ELSE From(m, j)]
    BY DEF DataSink, Given
  <2>4. lastStart' \in [Modes -> Int]  BY <1>2, <2>1
  <2>5. queue' \in [Modes -> Ranges]  BY <1>4, <2>2
  <2>6. unheard' \in [AutoSync -> Nat]
    <3>1. \A m \in AutoSync : unheard'[m] \in Nat  BY <1>5 DEF InRing
    <3> QED BY <2>3, <3>1
  <2> QED BY <2>4, <2>5, <2>6
<1> QED BY <1>1, <1>2, <1>4, <1>5, <1>6 DEF RingOK
LEMMA CountIs ==
  ASSUME NEW n \in Nat, NEW limit \in Nat, n <= limit
  PROVE  Count(n, limit) \in 0..limit
BY DEF Count

LEMMA CountsStep ==
  ASSUME TypeInv, NEW j, DataSink(j), UNCHANGED <<tx, drifts>>
  PROVE  CountsOK'
<1>1. /\ busy' = (busy \/ Given(j)) /\ stopped' = Count(stopped, Quiet)
      /\ started' = IF Given(j) THEN 0 ELSE Count(started, Long)
  BY DEF DataSink, Given
<1>2. /\ Long \in Nat /\ Quiet \in Nat /\ 0 \in 0..Long
      /\ started \in Nat /\ started <= Long /\ stopped \in Nat /\ stopped <= Quiet
  BY Bounds DEF TypeInv, CountsOK
<1>3. Count(started, Long) \in 0..Long /\ Count(stopped, Quiet) \in 0..Quiet
  BY <1>2, CountIs
<1>4. (busy \/ Given(j)) \in BOOLEAN  OBVIOUS
<1> QED BY <1>1, <1>2, <1>3, <1>4 DEF TypeInv, CountsOK

LEMMA HistoryStep ==
  ASSUME TypeInv, NEW j, DataSink(j)
  PROVE  HistoryOK'
<1> DEFINE T == [now : BOOLEAN, before : BOOLEAN]
           given(m) == Given(j) /\ IsWhole(m, Queued(j)[m], j)
           here(m) == Queued(j)[m].start = CycleStart(m, j)
<1>1. ASSUME NEW h \in [Modes -> T], NEW m \in Modes, NEW b \in BOOLEAN
      PROVE  Shift(h, m, j, b) \in T
  BY DEF Shift
<1>2. clean' = [m \in Modes |->
                  LET c == Shift(clean, m, j, ~tx /\ FramesReady(m, j) <= Block)
                  IN  [now |-> c.now /\ ~Late(m, j), before |-> c.before]]
  BY DEF DataSink
<1>3. whole' = [m \in Modes |->
                  LET w == Shift(whole, m, j, FALSE)
                  IN  [now |-> w.now \/ (given(m) /\ here(m)),
                       before |-> w.before \/ (given(m) /\ ~here(m))]]
  BY DEF DataSink, Given
<1> HIDE DEF given, here
<1>4. clean \in [Modes -> T] /\ whole \in [Modes -> T]  BY DEF TypeInv, HistoryOK
<1>5. clean' \in [Modes -> T]
  <2>1. ASSUME NEW m \in Modes
        PROVE  LET c == Shift(clean, m, j, ~tx /\ FramesReady(m, j) <= Block)
               IN  [now |-> c.now /\ ~Late(m, j), before |-> c.before] \in T
    <3> DEFINE b == ~tx /\ FramesReady(m, j) <= Block
    <3>1. b \in BOOLEAN  OBVIOUS
    <3> HIDE DEF b
    <3>2. Shift(clean, m, j, b) \in T  BY <1>1, <1>4, <3>1
    <3> QED BY <3>2 DEF b
  <2> QED BY <1>2, <2>1
<1>6. whole' \in [Modes -> T]
  <2>1. ASSUME NEW m \in Modes
        PROVE  LET w == Shift(whole, m, j, FALSE)
               IN  [now |-> w.now \/ (given(m) /\ here(m)),
                    before |-> w.before \/ (given(m) /\ ~here(m))] \in T
    OBVIOUS
  <2> QED BY <1>3, <2>1
<1> QED BY <1>5, <1>6 DEF HistoryOK

LEMMA FramesOK ==
  ASSUME TypeInv, Frames
  PROVE  /\ InRing(k') /\ DataSink(k')
         /\ \/ k' = k + Block
            \/ k >= Minute - 2 * Block /\ k' = Block
<1>1. /\ DataSink(k')
      /\ \/ k < Minute - Block /\ k' = k + Block
         \/ k >= Minute - 2 * Block /\ k' = Block
  BY DEF Frames
<1>2. InRing(k')
  <2>1. k \in Nat  BY DEF TypeInv, RingOK, InRing
  <2>2. CASE k < Minute - Block /\ k' = k + Block
    BY <2>1, <2>2, Lengths, SMT DEF InRing
  <2>3. CASE k' = Block  BY <2>3, Lengths, SMT DEF InRing
  <2> QED BY <1>1, <2>2, <2>3
<1> QED BY <1>1, <1>2

LEMMA DriftOK ==
  ASSUME TypeInv, Drift
  PROVE  /\ InRing(k')
         /\ \E d \in Nat : k' = k + d * Block \/ k' = k - d * Block
<1>1. PICK d \in Drifts : k' \in {k + d * Block, k - d * Block} \cap 0..(Minute - Block)
  BY DEF Drift
<1>2. d \in Nat  BY ScheduleAssumption
<1>3. Minute \in Nat /\ Block \in Nat /\ 0 < Block  BY Lengths, SMT
<1>4. k' \in Nat /\ k' <= Minute - Block  BY <1>1, <1>3
<1>5. k' < Minute  BY <1>3, <1>4
<1> QED BY <1>1, <1>2, <1>4, <1>5 DEF InRing

LEMMA InitType == Init => TypeInv
<1> SUFFICES ASSUME Init PROVE TypeInv
  OBVIOUS
<1>1. 0 < Minute  BY Lengths, SMT
<1>2. None \in Ranges /\ None.start = 0 /\ None.sz = 0  BY DEF None, Ranges
<1>3. RingOK
  <2>1. /\ k = 0 /\ heard = 0 /\ lastStart = [m \in Modes |-> -1]
        /\ queue = [m \in Modes |-> None] /\ unheard = [m \in AutoSync |-> 0]
    BY DEF Init
  <2>2. ASSUME NEW m \in Modes PROVE 0 <= Cycle(m)
    <3>1. Cycle(m) \in Nat  BY ModeIs
    <3> QED BY <3>1
  <2> QED BY <1>1, <1>2, <2>1, <2>2 DEF RingOK, InRing
<1>4. CountsOK
  <2>1. MaxDrifts \in Nat  BY ScheduleAssumption
  <2>2. busy \in BOOLEAN /\ tx \in BOOLEAN  BY DEF Init
  <2>3. started = Long /\ stopped = Quiet /\ drifts = 0  BY DEF Init
  <2>4. started \in 0..Long /\ drifts \in 0..MaxDrifts  BY <2>1, <2>3, Bounds
  <2>5. stopped \in 0..Quiet  BY <2>3, Bounds
  <2> QED BY <2>2, <2>4, <2>5 DEF CountsOK
<1>5. HistoryOK  BY DEF Init, HistoryOK
<1> QED BY <1>3, <1>4, <1>5 DEF TypeInv

LEMMA NextType == TypeInv /\ [Next]_vars => TypeInv'
<1> SUFFICES ASSUME TypeInv, [Next]_vars PROVE TypeInv'
  OBVIOUS
<1> USE DEF TypeInv
<1>1. CASE Frames
  <2>1. RingOK'  BY <1>1, FramesOK, DataSinkOK
  <2>2. CountsOK' /\ HistoryOK'  BY <1>1, CountsStep, HistoryStep DEF Frames
  <2> QED BY <2>1, <2>2
<1>2. CASE DecodeDone
  BY <1>2 DEF DecodeDone, RingOK, CountsOK, HistoryOK
<1>3. ASSUME NEW p, InRing(p), unheard' = [m \in AutoSync |-> p]
      PROVE  unheard' \in [AutoSync -> Nat] /\ \A m \in AutoSync : InRing(unheard'[m])
  BY <1>3 DEF InRing
<1>4. CASE TxStart
  <2>1. RingOK'  BY <1>3, <1>4 DEF TxStart, RingOK
  <2>2. CountsOK'  BY <1>4 DEF TxStart, CountsOK
  <2>3. HistoryOK'  BY <1>4 DEF TxStart, HistoryOK
  <2> QED BY <2>1, <2>2, <2>3
<1>5. CASE TxStop
  <2>1. RingOK' /\ HistoryOK'  BY <1>5 DEF TxStop, RingOK, HistoryOK
  <2>2. tx' = FALSE /\ UNCHANGED <<busy, started, drifts>> /\ stopped' = 0
    BY <1>5 DEF TxStop
  <2>3. stopped' \in 0..Quiet  BY <2>2, Bounds
  <2>4. CountsOK'  BY <2>2, <2>3 DEF CountsOK
  <2> QED BY <2>1, <2>4
<1>6. CASE Drift
  <2>1. RingOK'  BY <1>3, <1>6, DriftOK DEF Drift, RingOK
  <2>2. CountsOK'  BY <1>6, ScheduleAssumption DEF Drift, CountsOK
  <2>3. HistoryOK'  BY <1>6 DEF Drift, HistoryOK
  <2> QED BY <2>1, <2>2, <2>3
<1>7. CASE UNCHANGED vars
  BY <1>7 DEF vars, RingOK, CountsOK, HistoryOK
<1> QED BY <1>1, <1>2, <1>4, <1>5, <1>6, <1>7 DEF Next

LEMMA TypeInvariance == Spec => []TypeInv
BY InitType, NextType, PTL DEF Spec

\* The ranges that are queued lie in the ring and are no longer than the cycle,
\* whatever the detector, the decoder, the transmitter and the clock do
\* (decodeEnqueueReadyExperiment, Detector::resetBufferPosition).
THEOREM TypeInvariant == Spec => []TypeOK
<1>1. TypeInv => TypeOK
  <2> SUFFICES ASSUME TypeInv PROVE TypeOK
    OBVIOUS
  <2>1. Minute \in Nat  BY Lengths, SMT
  <2>2. \A n : InRing(n) => n \in 0..Minute /\ n \in 0..(Minute - 1) /\ n \in -1..Minute
    BY <2>1 DEF InRing
  <2>3. -1 \in -1..Minute  BY <2>1
  <2>4. ASSUME NEW m \in Modes PROVE queue[m].sz \in 0..Minute /\ queue[m] \in Ranges
    <3>1. queue[m] \in Ranges /\ queue[m].sz <= Cycle(m)  BY DEF TypeInv, RingOK
    <3>2. queue[m].sz \in Nat  BY <3>1 DEF Ranges
    <3>3. Cycle(m) \in Nat /\ Cycle(m) <= Minute  BY ModeIs
    <3> QED BY <2>1, <3>1, <3>2, <3>3
  <2>5. queue \in [Modes -> [start : 0..(Minute - 1), sz : 0..Minute]]
    <3>1. ASSUME NEW m \in Modes PROVE queue[m] \in [start : 0..(Minute - 1), sz : 0..Minute]
      BY <2>2, <2>4 DEF TypeInv, RingOK, Ranges
    <3> QED BY <3>1 DEF TypeInv, RingOK
  <2> QED BY <2>2, <2>3, <2>5 DEF TypeInv, RingOK, CountsOK, HistoryOK, TypeOK
<1> QED BY <1>1, TypeInvariance, PTL
-----------------------------------------------------------------------------
(* Automatic time drift.                                                   *)

OnGrid(n) == \E b \in Nat : n = b * Block

\* What is queued of a speed was queued last where its next range is counted from.
Pending(m) ==
  queue[m] # None =>
    /\ lastStart[m] \in Nat \ {0} /\ OnGrid(lastStart[m])
    /\ (queue[m].start + queue[m].sz) % Minute = lastStart[m]
    /\ m \in AutoSync => queue[m].start = (lastStart[m] - Cycle(m)) % Minute

Wait == (IF Speed = "Slow" THEN 4 ELSE 2) * Second

\* No more blocks than that have passed since the decoder was started, as long as
\* something is queued and the decoder not Overdue.
Recent(m) == started <= 3 \/ started < Prompt(m)

\* Since a window was handed over a range has been queued at every fourth block,
\* the last of them l blocks ago, and the decoder has been started again as soon
\* as it was free.
Windowed(m) ==
  /\ ~tx /\ k = heard /\ (stopped + 1) * Block >= Wait /\ Recent(m)
  /\ \E a, n, l \in Nat :
       /\ a * Block <= unheard[m] + Symbols(m) /\ lastStart[m] = (a + 4 * n) * Block
       /\ heard = (a + 4 * n + l) * Block
       /\ l <= 3 /\ 4 * n + l <= started + 3
       /\ queue[m] = None => n = 0 /\ l >= started

\* Where the next range of the speed is counted from, as long as none is queued.
Since(m) == IF k < lastStart[m] THEN Minute - lastStart[m] + k ELSE k - lastStart[m]

\* No window has been handed over in the b blocks since the station began to
\* listen: a range is queued by the fifth of them, the time to wait after a
\* transmission is over by the fourteenth, and then the decoder has been busy.
Fresh(m) ==
  \E c, b \in Nat :
    /\ unheard[m] = c * Block /\ k = (c + b) * Block
    /\ b # 0 => /\ ~tx /\ heard = k /\ (b <= stopped \/ stopped = Quiet)
                /\ lastStart[m] \in Nat /\ Since(m) < Second
                /\ queue[m] = None => (b - 1) * Block <= Since(m)
    /\ b <= 13 \/ (b <= 13 + started /\ Recent(m))

SignalInv ==
  /\ OnGrid(k)
  /\ \A m \in Modes : Pending(m)
  /\ \A m \in AutoSync : Windowed(m) \/ Fresh(m)

LEMMA DueIs ==
  ASSUME TypeInv, NEW m \in AutoSync, NEW j, InRing(j)
  PROVE  /\ Due(m, j) <=> IncrementedBy(m, j) >= Second
         /\ LastStart(m, j) \in Nat /\ LastStart(m, j) < Minute
         /\ Due(m, j) => Range(m, j).start = (j - Cycle(m)) % Minute
<1>1. LastStart(m, j) \in Nat /\ LastStart(m, j) < Minute
  <2>1. m \in Modes  BY ModesAre
  <2>2. CycleStart(m, j) \in Nat /\ CycleStart(m, j) <= j
    BY <2>1, ModesAre, CycleStartIs DEF InRing
  <2>3. lastStart[m] = -1 \/ InRing(lastStart[m])  BY <2>1 DEF TypeInv, RingOK
  <2>4. Minute \in Nat  BY Lengths, SMT
  <2> QED BY <2>2, <2>3, <2>4 DEF LastStart, InRing
<1>2. IncrementedBy(m, j) \in Int
  <2>1. Minute \in Int  BY Lengths, SMT
  <2> QED BY <1>1, <2>1 DEF IncrementedBy, InRing
<1> DEFINE i == IncrementedBy(m, j)
<1>3. 2 * i >= 3 * Second => i >= Second  BY <1>2, Lengths, SMT
<1>4. Due(m, j) <=> i >= Second  BY <1>3 DEF Due
<1>5. i >= Second => Range(m, j).start = (j - Cycle(m)) % Minute  BY DEF Range
<1> QED BY <1>1, <1>4, <1>5

\* A step of the detector, for a speed that is counted from a position of its own.
LEMMA GridStep ==
  ASSUME TypeInv, OnGrid(k), Frames
  PROVE  OnGrid(k') /\ k' \in Nat \ {0} /\ InRing(k') /\ heard' = k' /\ tx' = tx
<1>1. /\ InRing(k') /\ DataSink(k')
      /\ \/ k' = k + Block
         \/ k >= Minute - 2 * Block /\ k' = Block
  BY FramesOK
<1>2. heard' = k' /\ tx' = tx  BY <1>1 DEF DataSink, Frames
<1>3. PICK b \in Nat : k = b * Block  BY DEF OnGrid
<1>4. k' = (b + 1) * Block \/ k' = 1 * Block  BY <1>1, <1>3, Lengths, SMT
<1>5. b + 1 \in Nat /\ 1 \in Nat  BY <1>3
<1>6. k' # 0  BY <1>4, <1>5, Lengths, SMT
<1> QED BY <1>1, <1>2, <1>4, <1>5, <1>6 DEF OnGrid, InRing

LEMMA PendingStep ==
  ASSUME TypeInv, SignalInv, Frames, NEW m \in Modes
  PROVE  /\ Pending(m)'
         /\ Queued(k')[m] # None =>
              /\ To(m, k') = lastStart'[m] /\ lastStart'[m] \in Nat \ {0}
              /\ OnGrid(lastStart'[m])
              /\ m \in AutoSync =>
                   Queued(k')[m].start = (lastStart'[m] - Cycle(m)) % Minute
         /\ ~Due(m, k') /\ queue[m] # None => lastStart'[m] = lastStart[m]
<1> DEFINE j == k'
<1>1. InRing(j) /\ DataSink(j) /\ OnGrid(j) /\ j \in Nat \ {0}
  BY FramesOK, GridStep DEF SignalInv
<1> HIDE DEF j
<1>2. /\ lastStart'[m] = IF Due(m, j) THEN j ELSE LastStart(m, j)
      /\ Queued(j)[m] = IF Due(m, j) THEN Range(m, j) ELSE queue[m]
      /\ queue'[m] = IF Given(j) THEN None ELSE Queued(j)[m]
  BY <1>1, DataSinkIs
<1>3. queue[m] # None => LastStart(m, j) = lastStart[m]
  BY DEF SignalInv, Pending, LastStart
<1>4. /\ (Range(m, j).start + Range(m, j).sz) % Minute = j
      /\ m \in AutoSync /\ Due(m, j) => Range(m, j).start = (j - Cycle(m)) % Minute
  BY <1>1, RangeIs, DueIs
<1>5. ASSUME Queued(j)[m] # None
      PROVE  /\ To(m, j) = lastStart'[m] /\ lastStart'[m] \in Nat \ {0}
             /\ OnGrid(lastStart'[m])
             /\ m \in AutoSync => Queued(j)[m].start = (lastStart'[m] - Cycle(m)) % Minute
  BY <1>1, <1>2, <1>3, <1>4, <1>5 DEF SignalInv, Pending, To
<1>6. Pending(m)'  BY <1>2, <1>5 DEF Pending, To
<1> QED BY <1>2, <1>3, <1>5, <1>6 DEF j

LEMMA WaitIs == Wait \in Nat /\ Wait <= 48000 /\ (Speed # "Slow" => Wait = 24000)
BY Lengths, SMT DEF Wait

LEMMA QuietIs == (Quiet + 1) * Block >= Wait
<1>1. Quiet \in Nat /\ 6 <= Quiet /\ (Speed = "Slow" => 13 <= Quiet)  BY Bounds
<1>2. Wait \in Nat /\ Wait <= 48000 /\ (Speed # "Slow" => Wait = 24000)  BY WaitIs
<1>3. CASE Speed = "Slow"  BY <1>1, <1>2, <1>3, Lengths, SMT
<1>4. CASE Speed # "Slow"  BY <1>1, <1>2, <1>4, Lengths, SMT
<1> QED BY <1>3, <1>4

LEMMA WaitKept ==
  ASSUME NEW s \in Nat, (s + 1) * Block >= Wait
  PROVE  (Count(s, Quiet) + 1) * Block >= Wait
<1> DEFINE t == Count(s, Quiet)
<1>1. t \in Nat /\ s <= t  BY Bounds DEF Count
<1>2. Wait \in Nat  BY WaitIs
<1> HIDE DEF t
<1>3. (s + 1) * Block <= (t + 1) * Block /\ (s + 1) * Block \in Nat /\ (t + 1) * Block \in Nat
  BY <1>1, Lengths, SMT
<1>4. \A x, y, z \in Nat : x >= z /\ x <= y => y >= z  OBVIOUS
<1> QED BY <1>2, <1>3, <1>4 DEF t

\* A speed with automatic drift.
LEMMA SpeedIs ==
  ASSUME NEW m \in AutoSync
  PROVE  /\ m \in Modes /\ m \in Speeds
         /\ \/ Cycle(m) = 180000 /\ Symbols(m) = 151680 /\ Prompt(m) = 8
            \/ Cycle(m) = 360000 /\ Symbols(m) = 303360 /\ Prompt(m) = 16
<1>1. m \in Modes /\ m \in Speeds /\ (m = "Normal" \/ m = "Slow")  BY ModesAre
<1>2. m = "Normal" => Prompt(m) = 8  BY DEF Prompt
<1>3. m = "Slow" => Prompt(m) = 16  BY DEF Prompt
<1>4. "Normal" # "Slow" /\ "Normal" # "Fast" /\ "Normal" # "Turbo" /\ "Slow" # "Fast"
      /\ "Slow" # "Turbo"
  OBVIOUS
<1> QED BY <1>1, <1>2, <1>3, <1>4, SpeedLengths

Handed(m, j) == Given(j) /\ Queued(j)[m] # None /\ To(m, j) <= j

\* What is handed over begins a cycle before it ends, or at the turn of the minute.
LEMMA Handing ==
  ASSUME TypeInv, SignalInv, Frames, NEW m \in AutoSync, Handed(m, k')
  PROVE  LET to == lastStart'[m]  from == From(m, k') IN
         /\ to = To(m, k') /\ to \in Nat /\ to <= k' /\ from \in Nat
         /\ to - Cycle(m) <= from =>
              unheard'[m] = IF from + Symbols(m) <= to THEN to - Symbols(m) ELSE from
<1> DEFINE j == k'  to == lastStart'[m]  from == From(m, j)  c == Cycle(m)
           q == Queued(j)[m]  begin == IF q.start > to THEN 0 ELSE q.start
<1>1. InRing(j) /\ DataSink(j) /\ Given(j) /\ q # None /\ To(m, j) <= j
  BY FramesOK DEF Handed
<1>2. to = To(m, j) /\ to \in Nat /\ q.start = (to - c) % Minute
  BY <1>1, SpeedIs, PendingStep
<1>3. from \in Nat
  BY <1>1, SpeedIs DEF From, TypeInv, RingOK, InRing
<1>4. unheard'[m] = IF to <= j /\ begin <= from /\ from + Symbols(m) <= to
                    THEN to - Symbols(m) ELSE from
  BY <1>1, <1>2, UnheardIs DEF Covered, To
<1>5. j \in Nat /\ j < Minute /\ to <= j  BY <1>1, <1>2 DEF InRing
<1>6. to - c <= from => begin <= from
  <2>1. c = 180000 \/ c = 360000  BY SpeedIs
  <2>2. begin = IF q.start > to THEN 0 ELSE q.start  OBVIOUS
  <2> DEFINE s == q.start
  <2>3. s = (to - c) % Minute /\ begin = IF s > to THEN 0 ELSE s  BY <1>2
  <2> HIDE DEF s, begin, to, from, c, q, j
  <2>4. CASE c = 180000  BY <1>2, <1>3, <1>5, <2>3, <2>4, Lengths, SMT
  <2>5. CASE c = 360000  BY <1>2, <1>3, <1>5, <2>3, <2>5, Lengths, SMT
  <2> QED BY <2>1, <2>4, <2>5
<1> HIDE DEF begin
<1> QED BY <1>2, <1>3, <1>4, <1>5, <1>6

\* A window is handed over: it ends where the last range of the speed was queued.
LEMMA HandedOver ==
  ASSUME TypeInv, SignalInv, Frames, NEW m \in AutoSync, Handed(m, k'),
         lastStart'[m] - Cycle(m) <= From(m, k')
  PROVE  Windowed(m)'
<1> DEFINE j == k'
<1>1. InRing(j) /\ DataSink(j) /\ OnGrid(j) /\ j \in Nat \ {0} /\ heard' = j /\ tx' = tx
  BY FramesOK, GridStep DEF SignalInv
<1>2. m \in Modes  BY ModesAre
<1>3. Given(j) /\ Queued(j)[m] # None /\ To(m, j) <= j  BY DEF Handed
<1>4. /\ To(m, j) = lastStart'[m] /\ lastStart'[m] \in Nat \ {0} /\ OnGrid(lastStart'[m])
      /\ ~Due(m, j) /\ queue[m] # None => lastStart'[m] = lastStart[m]
  BY <1>2, <1>3, PendingStep
<1>5. lastStart'[m] <= unheard'[m] + Symbols(m)
  <2> DEFINE to == lastStart'[m]  from == From(m, j)  y == Symbols(m)
  <2>1. /\ to \in Nat /\ from \in Nat
        /\ unheard'[m] = IF from + y <= to THEN to - y ELSE from
    BY Handing
  <2>2. y \in Nat  BY SpeedIs, SpeedLengths
  <2> HIDE DEF to, from, y
  <2>3. to <= unheard'[m] + y  BY <2>1, <2>2
  <2> QED BY <2>3 DEF to, y
<1> HIDE DEF j
<1>6. /\ lastStart'[m] = IF Due(m, j) THEN j ELSE LastStart(m, j)
      /\ queue'[m] = None /\ started' = 0 /\ stopped' = Count(stopped, Quiet)
  BY <1>1, <1>2, <1>3, DataSinkIs
<1>7. ~tx' /\ (stopped' + 1) * Block >= Wait
  <2>1. ~tx /\ (stopped + 1) * Block >= Wait
    BY <1>3 DEF Given, MayStart, Wait
  <2>2. stopped \in Nat  BY Bounds DEF TypeInv, CountsOK
  <2> QED BY <1>1, <1>6, <2>1, <2>2, WaitKept
<1>8. PICK a \in Nat : lastStart'[m] = a * Block  BY <1>4 DEF OnGrid
<1>9. \E l \in Nat : l <= 3 /\ j = (a + l) * Block
  <2>1. PICK b \in Nat : j = b * Block  BY <1>1 DEF OnGrid
  <2>2. CASE Due(m, j)
    <3>1. j = (a + 0) * Block  BY <1>6, <1>8, <2>2
    <3> QED BY <3>1
  <2>3. CASE ~Due(m, j)
    <3>1. LastStart(m, j) = a * Block  BY <1>6, <1>8, <2>3
    <3>2. a * Block <= j  BY <1>3, <1>4, <1>8
    <3>3. IncrementedBy(m, j) = j - a * Block
      <4>1. ~(j < a * Block)  BY <1>1, <2>1, <3>2, Lengths, SMT
      <4> QED BY <3>1, <4>1 DEF IncrementedBy
    <3>4. ~(j - a * Block >= Second)  BY <1>1, <2>3, <3>3, DueIs
    <3>5. a <= b /\ b - a <= 3  BY <2>1, <3>2, <3>4, Lengths, SMT
    <3>6. (b - a) \in Nat /\ a + (b - a) = b  BY <3>5
    <3> QED BY <2>1, <3>5, <3>6
  <2> QED BY <2>2, <2>3
<1>10. PICK l \in Nat : l <= 3 /\ j = (a + l) * Block  BY <1>9
<1>11. \E x, n, y \in Nat :
         /\ x * Block <= unheard'[m] + Symbols(m) /\ lastStart'[m] = (x + 4 * n) * Block
         /\ heard' = (x + 4 * n + y) * Block
         /\ y <= 3 /\ 4 * n + y <= started' + 3
         /\ queue'[m] = None => n = 0 /\ y >= started'
  <2>1. a + 4 * 0 = a /\ 4 * 0 + l = l /\ 0 \in Nat  BY <1>10
  <2>2. a * Block <= unheard'[m] + Symbols(m) /\ heard' = (a + l) * Block
    BY <1>1, <1>5, <1>8, <1>10
  <2>3. l >= started' /\ 4 * 0 + l <= started' + 3  BY <1>6, <1>10
  <2> QED BY <1>8, <1>10, <2>1, <2>2, <2>3
<1>12. Recent(m)'  BY <1>6 DEF Recent
<1> QED BY <1>1, <1>7, <1>11, <1>12 DEF Windowed, j

\* None is handed over: what is new begins where it did, or anew.
LEMMA NotHanded ==
  ASSUME TypeInv, Frames, NEW m \in AutoSync, ~Handed(m, k')
  PROVE  unheard'[m] = From(m, k')
<1>1. DataSink(k')  BY FramesOK
<1>2. unheard'[m] = IF Given(k') /\ Queued(k')[m] # None
                    THEN Covered(m, Queued(k')[m], From(m, k'), k') ELSE From(m, k')
  BY <1>1, UnheardIs
<1>3. ~(To(m, k') <= k') => Covered(m, Queued(k')[m], From(m, k'), k') = From(m, k')
  BY DEF Covered, To
<1> QED BY <1>2, <1>3 DEF Handed

\* The decoder is busy, or has just been started, where what is queued is not
\* handed over.
LEMMA NotStarted ==
  ASSUME TypeInv, Frames, NEW m \in AutoSync, ~Handed(m, k'), ~Overdue(m), ~tx,
         (stopped + 1) * Block >= Wait, Queued(k')[m] # None \/ started < 3,
         Queued(k')[m] # None => To(m, k') <= k'
  PROVE  ~Given(k') /\ started' = started + 1 /\ Recent(m)'
<1>1. DataSink(k') /\ m \in Modes  BY FramesOK, ModesAre
<1>2. started \in Nat /\ started <= 16 /\ Long = 16  BY Bounds DEF TypeInv, CountsOK
<1>3. Prompt(m) = 8 \/ Prompt(m) = 16  BY SpeedIs
<1>4. (started + 1) * Block >= Second <=> started >= 3  BY <1>2, Lengths, SMT
<1>5. MayStart <=> ~busy /\ started >= 3  BY <1>4 DEF MayStart, Wait
<1>6. Queued(k')[m] # None /\ MayStart => Handed(m, k')  BY <1>1 DEF Given, Handed
<1>7. ~MayStart  BY <1>2, <1>5, <1>6
<1>8. busy => started + 1 < Prompt(m)
  <2>1. busy => ~(started + 1 >= Prompt(m))  BY DEF Overdue
  <2> QED BY <1>2, <1>3, <2>1
<1>9. ~Given(k')  BY <1>7 DEF Given
<1>10. started' = Count(started, Long)  BY <1>1, <1>9, DataSinkIs
<1>11. started < 3 \/ started + 1 < Prompt(m)  BY <1>2, <1>5, <1>7, <1>8
<1>12. started' = started + 1 /\ (started' <= 3 \/ started' < Prompt(m))
  BY <1>2, <1>3, <1>10, <1>11 DEF Count
<1>13. Prompt(m)' = Prompt(m)  BY DEF Prompt
<1> QED BY <1>9, <1>12, <1>13 DEF Recent

\* Where the range that is due next is counted from, after a report.
LEMMA SinceIs ==
  ASSUME TypeInv, Frames, NEW m \in AutoSync
  PROVE  /\ lastStart'[m] \in Nat /\ Since(m)' \in Nat /\ Since(m)' < Second
         /\ ~Due(m, k') => Since(m)' = IncrementedBy(m, k') /\ lastStart'[m] = LastStart(m, k')
         /\ Due(m, k') => Queued(k')[m] # None /\ lastStart'[m] = k'
<1> DEFINE j == k'  l == LastStart(m, j)
<1>1. InRing(j) /\ DataSink(j) /\ m \in Modes  BY FramesOK, ModesAre
<1>2. l \in Nat /\ l < Minute /\ (Due(m, j) <=> IncrementedBy(m, j) >= Second)
  BY <1>1, DueIs
<1>3. lastStart'[m] = IF Due(m, j) THEN j ELSE l  BY <1>1, DataSinkIs
<1>4. Since(m)' = IF j < lastStart'[m] THEN Minute - lastStart'[m] + j ELSE j - lastStart'[m]
  BY DEF Since
<1>5. IncrementedBy(m, j) = IF j < l THEN Minute - l + j ELSE j - l  BY DEF IncrementedBy
<1>6. j \in Nat  BY <1>1 DEF InRing
<1>7. Due(m, j) => Queued(j)[m] # None  BY <1>1, <1>2, DataSinkIs, RangeIs
<1> HIDE DEF j, l
<1>8. CASE Due(m, j)
  <2>1. Since(m)' = 0 /\ lastStart'[m] = j  BY <1>3, <1>4, <1>6, <1>8
  <2>2. 0 < Second  BY Lengths, SMT
  <2> QED BY <1>6, <1>7, <1>8, <2>1, <2>2 DEF j
<1>9. CASE ~Due(m, j)
  <2>1. Since(m)' = IncrementedBy(m, j) /\ lastStart'[m] = l
    BY <1>3, <1>4, <1>5, <1>9
  <2> DEFINE i == IncrementedBy(m, j)
  <2>2. i = (IF j < l THEN Minute - l + j ELSE j - l) /\ ~(i >= Second)
    BY <1>2, <1>5, <1>9
  <2> HIDE DEF i
  <2>3. i \in Nat /\ i < Second  BY <1>2, <1>6, <2>2, Lengths, SMT
  <2> QED BY <1>2, <1>9, <2>1, <2>3 DEF i, j, l
<1> QED BY <1>8, <1>9

\* While none is handed over the decoder is busy or has just been started.
LEMMA HeldBack ==
  ASSUME TypeInv, SignalInv, Frames, NEW m \in AutoSync, Windowed(m),
         ~Handed(m, k'), ~Overdue(m), k' # Block
  PROVE  Windowed(m)'
<1> DEFINE j == k'
<1>1. InRing(j) /\ DataSink(j) /\ j \in Nat \ {0} /\ heard' = j /\ tx' = tx
  BY FramesOK, GridStep DEF SignalInv
<1>2. m \in Modes  BY ModesAre
<1>3. Queued(j)[m] # None => To(m, j) = lastStart'[m]  BY <1>2, PendingStep
<1>4. ~tx /\ k = heard /\ (stopped + 1) * Block >= Wait  BY DEF Windowed
<1>5. PICK a \in Nat, n \in Nat, l \in Nat :
        /\ a * Block <= unheard[m] + Symbols(m) /\ lastStart[m] = (a + 4 * n) * Block
        /\ heard = (a + 4 * n + l) * Block
        /\ l <= 3 /\ 4 * n + l <= started + 3
        /\ queue[m] = None => n = 0 /\ l >= started
  BY DEF Windowed
<1>6. j = (a + 4 * n + l + 1) * Block
  <2>1. j = k + Block  BY FramesOK
  <2> HIDE DEF j
  <2> QED BY <1>4, <1>5, <2>1, Lengths, SMT
<1>7. unheard'[m] = unheard[m]  BY <1>4, NotHanded DEF From
<1> HIDE DEF j
<1>8. /\ lastStart'[m] = IF Due(m, j) THEN j ELSE LastStart(m, j)
      /\ Queued(j)[m] = IF Due(m, j) THEN Range(m, j) ELSE queue[m]
      /\ queue'[m] = IF Given(j) THEN None ELSE Queued(j)[m]
      /\ stopped' = Count(stopped, Quiet)
  BY <1>1, <1>2, DataSinkIs
<1>9. LastStart(m, j) = lastStart[m]
  <2>1. (a + 4 * n) * Block # -1  BY Lengths, SMT
  <2> QED BY <1>5, <2>1 DEF LastStart
<1>10. Due(m, j) <=> l = 3
  <2> DEFINE s == (a + 4 * n) * Block
  <2>1. s \in Nat /\ ~(j < s) /\ j - s = (l + 1) * Block  BY <1>6, Lengths, SMT
  <2>2. IncrementedBy(m, j) = j - s  BY <1>5, <1>9, <2>1 DEF IncrementedBy
  <2> HIDE DEF s
  <2>3. (l + 1) * Block >= Second <=> l = 3  BY <1>5, Lengths, SMT
  <2> QED BY <1>1, <2>1, <2>2, <2>3, DueIs
<1>11. Queued(j)[m] = None => queue[m] = None /\ l # 3
  BY <1>8, <1>10, SinceIs DEF j
<1>12. lastStart'[m] <= j
  <2>1. (a + 4 * n) * Block <= j /\ j <= j  BY <1>6, Lengths, SMT
  <2> QED BY <1>5, <1>8, <1>9, <2>1
<1>13. started \in Nat  BY Bounds DEF TypeInv, CountsOK
<1>14. ~Given(j) /\ started' = started + 1 /\ Recent(m)'
  <2>1. Queued(j)[m] # None \/ started < 3  BY <1>5, <1>11, <1>13
  <2>2. Queued(j)[m] # None => To(m, j) <= j  BY <1>3, <1>12
  <2> QED BY <1>4, <2>1, <2>2, NotStarted DEF j
<1>15. (stopped' + 1) * Block >= Wait
  <2>1. stopped \in Nat  BY Bounds DEF TypeInv, CountsOK
  <2> QED BY <1>4, <1>8, <2>1, WaitKept
<1>16. \E x, i, y \in Nat :
         /\ x * Block <= unheard'[m] + Symbols(m) /\ lastStart'[m] = (x + 4 * i) * Block
         /\ heard' = (x + 4 * i + y) * Block
         /\ y <= 3 /\ 4 * i + y <= started' + 3
         /\ queue'[m] = None => i = 0 /\ y >= started'
  <2>1. CASE l = 3
    <3>1. a + 4 * (n + 1) = a + 4 * n + l + 1 /\ a + 4 * (n + 1) + 0 = a + 4 * n + l + 1
      BY <2>1
    <3>2. lastStart'[m] = j /\ queue'[m] # None
      BY <1>8, <1>10, <1>11, <1>14, <2>1
    <3>3. 4 * (n + 1) + 0 <= started' + 3 /\ n + 1 \in Nat /\ 0 \in Nat /\ 0 <= 3
      BY <1>5, <1>13, <1>14, <2>1
    <3> QED BY <1>1, <1>5, <1>6, <1>7, <3>1, <3>2, <3>3
  <2>2. CASE l # 3
    <3>1. a + 4 * n + (l + 1) = a + 4 * n + l + 1  OBVIOUS
    <3>2. lastStart'[m] = lastStart[m] /\ (queue'[m] = None => queue[m] = None)
      BY <1>8, <1>9, <1>10, <1>14, <2>2
    <3>3. /\ l + 1 \in Nat /\ l + 1 <= 3 /\ 4 * n + (l + 1) <= started' + 3
          /\ l >= started => l + 1 >= started'
      BY <1>5, <1>13, <1>14, <2>2
    <3> QED BY <1>1, <1>5, <1>6, <1>7, <3>1, <3>2, <3>3
  <2> QED BY <2>1, <2>2
<1> QED BY <1>1, <1>4, <1>14, <1>15, <1>16 DEF Windowed, j

\* What is handed over next begins before what is new.
LEMMA WindowedHands ==
  ASSUME TypeInv, SignalInv, Frames, NEW m \in AutoSync, Windowed(m), Handed(m, k'),
         k' # Block
  PROVE  lastStart'[m] - Cycle(m) <= unheard[m]
<1> DEFINE j == k'
<1>1. m \in Modes /\ DataSink(j) /\ InRing(j) /\ unheard[m] \in Nat
  BY FramesOK, ModesAre DEF TypeInv, RingOK
<1>2. k = heard /\ Recent(m)  BY DEF Windowed
<1>3. PICK a \in Nat, n \in Nat, l \in Nat :
        /\ a * Block <= unheard[m] + Symbols(m) /\ lastStart[m] = (a + 4 * n) * Block
        /\ heard = (a + 4 * n + l) * Block
        /\ l <= 3 /\ 4 * n + l <= started + 3
  BY DEF Windowed
<1>4. j = (a + 4 * n + l + 1) * Block
  <2>1. j = k + Block  BY FramesOK
  <2> HIDE DEF j
  <2> QED BY <1>2, <1>3, <2>1, Lengths, SMT
<1> HIDE DEF j
<1>5. LastStart(m, j) = lastStart[m]
  <2>1. (a + 4 * n) * Block # -1  BY Lengths, SMT
  <2> QED BY <1>3, <2>1 DEF LastStart
<1>6. lastStart'[m] = IF Due(m, j) THEN j ELSE lastStart[m]
  BY <1>1, <1>5, DataSinkIs
<1>7. Due(m, j) => l = 3
  <2> DEFINE s == (a + 4 * n) * Block
  <2>1. s \in Nat /\ ~(j < s) /\ j - s = (l + 1) * Block  BY <1>4, Lengths, SMT
  <2>2. IncrementedBy(m, j) = j - s  BY <1>3, <1>5, <2>1 DEF IncrementedBy
  <2> HIDE DEF s
  <2>3. (l + 1) * Block >= Second => l = 3  BY <1>3, Lengths, SMT
  <2> QED BY <1>1, <2>1, <2>2, <2>3, DueIs
<1>8. PICK i \in Nat : lastStart'[m] = (a + 4 * i) * Block /\ 4 * i <= 4 * n + l + 1
  <2>1. CASE Due(m, j)
    <3>1. a + 4 * (n + 1) = a + 4 * n + l + 1 /\ 4 * (n + 1) <= 4 * n + l + 1 /\ n + 1 \in Nat
      BY <1>7, <2>1
    <3> QED BY <1>4, <1>6, <2>1, <3>1
  <2>2. CASE ~Due(m, j)
    <3>1. 4 * n <= 4 * n + l + 1  OBVIOUS
    <3> QED BY <1>3, <1>6, <2>2, <3>1
  <2> QED BY <2>1, <2>2
<1>9. 4 * i <= started + 4 /\ started \in Nat
  <2>1. started \in Nat  BY Bounds DEF TypeInv, CountsOK
  <2> QED BY <1>3, <1>8, <2>1
<1>10. started <= 3 \/ started < Prompt(m)  BY <1>2 DEF Recent
<1> DEFINE u == unheard[m]  s == lastStart'[m]
<1>11. u \in Nat /\ s = (a + 4 * i) * Block /\ a * Block <= u + Symbols(m)
  BY <1>1, <1>3, <1>8
<1> HIDE DEF u, s
<1>12. CASE Cycle(m) = 180000 /\ Symbols(m) = 151680 /\ Prompt(m) = 8
  <2>1. i <= 2  BY <1>9, <1>10, <1>12
  <2>2. (a + 4 * i) * Block <= a * Block + 27648  BY <2>1, Lengths, SMT
  <2>3. a * Block \in Nat  BY Lengths, SMT
  <2>4. s - 180000 <= u  BY <1>11, <1>12, <2>2, <2>3, Lengths, SMT
  <2> QED BY <1>12, <2>4 DEF u, s
<1>13. CASE Cycle(m) = 360000 /\ Symbols(m) = 303360 /\ Prompt(m) = 16
  <2>1. i <= 4  BY <1>9, <1>10, <1>13
  <2>2. (a + 4 * i) * Block <= a * Block + 55296  BY <2>1, Lengths, SMT
  <2>3. a * Block \in Nat  BY Lengths, SMT
  <2>4. s - 360000 <= u  BY <1>11, <1>13, <2>2, <2>3, Lengths, SMT
  <2> QED BY <1>13, <2>4 DEF u, s
<1> QED BY <1>12, <1>13, SpeedIs

\* Not many blocks pass before the first window.
LEMMA FreshIs ==
  ASSUME TypeInv, NEW m \in AutoSync, Fresh(m)
  PROVE  unheard[m] \in Nat /\ k \in Nat /\ unheard[m] <= k /\ k <= unheard[m] + 100224
<1>1. PICK c \in Nat, b \in Nat :
        /\ unheard[m] = c * Block /\ k = (c + b) * Block
        /\ b <= 13 \/ (b <= 13 + started /\ Recent(m))
  BY DEF Fresh
<1>2. started \in Nat /\ Prompt(m) <= 16 /\ Prompt(m) \in Nat
  <2>1. started \in Nat  BY Bounds DEF TypeInv, CountsOK
  <2> QED BY <2>1, SpeedIs
<1>3. b <= 29  BY <1>1, <1>2 DEF Recent
<1>4. c * Block \in Nat /\ (c + b) * Block \in Nat /\ c * Block <= (c + b) * Block
      /\ (c + b) * Block <= c * Block + 100224
  BY <1>3, Lengths, SMT
<1> QED BY <1>1, <1>4

LEMMA FreshHands ==
  ASSUME TypeInv, SignalInv, Frames, NEW m \in AutoSync, Fresh(m), Handed(m, k'),
         k' # Block
  PROVE  lastStart'[m] - Cycle(m) <= unheard[m]
<1> DEFINE s == lastStart'[m]  u == unheard[m]  c == Cycle(m)
<1>1. u \in Nat /\ k \in Nat /\ k <= u + 100224  BY FreshIs
<1>2. s \in Nat /\ s <= k'  BY Handing
<1>3. k' = k + Block  BY FramesOK
<1>4. c = 180000 \/ c = 360000  BY SpeedIs
<1> HIDE DEF s, u, c
<1>5. s - c <= u  BY <1>1, <1>2, <1>3, <1>4, Lengths, SMT
<1> QED BY <1>5 DEF s, u, c

LEMMA Hands ==
  ASSUME TypeInv, SignalInv, Frames, NEW m \in AutoSync, Handed(m, k')
  PROVE  Windowed(m)'
<1>1. ~tx /\ ~Overdue(m)  BY DEF Handed, Given, MayStart, Overdue
<1>2. From(m, k') = IF k' = Block THEN 0 ELSE unheard[m]  BY <1>1 DEF From
<1>3. CASE k' = Block
  <2> DEFINE s == lastStart'[m]  c == Cycle(m)
  <2>1. s \in Nat /\ s <= k'  BY Handing
  <2>2. c = 180000 \/ c = 360000  BY SpeedIs
  <2> HIDE DEF s, c
  <2>3. s - c <= 0  BY <1>3, <2>1, <2>2, Lengths, SMT
  <2>4. lastStart'[m] - Cycle(m) <= From(m, k')  BY <1>2, <1>3, <2>3 DEF s, c
  <2> QED BY <2>4, HandedOver
<1>4. CASE k' # Block
  <2>1. Windowed(m) \/ Fresh(m)  BY DEF SignalInv
  <2>2. lastStart'[m] - Cycle(m) <= From(m, k')
    BY <1>2, <1>4, <2>1, WindowedHands, FreshHands
  <2> QED BY <2>2, HandedOver
<1> QED BY <1>3, <1>4

\* The station begins to listen, or the ring begins again.
LEMMA FreshBegins ==
  ASSUME TypeInv, SignalInv, Frames, NEW m \in AutoSync, ~Handed(m, k'),
         tx \/ Overdue(m) \/ k' = Block
  PROVE  Fresh(m)'
<1>1. /\ OnGrid(k') /\ heard' = k' /\ tx' = tx /\ DataSink(k')
  BY FramesOK, GridStep DEF SignalInv
<1>2. unheard'[m] = From(m, k')  BY NotHanded
<1>3. CASE tx \/ Overdue(m)
  <2>1. PICK c \in Nat : k' = c * Block  BY <1>1 DEF OnGrid
  <2>2. unheard'[m] = c * Block /\ c + 0 = c /\ 0 <= 13 /\ 0 \in Nat
    BY <1>2, <1>3, <2>1 DEF From
  <2> QED BY <2>1, <2>2 DEF Fresh
<1>4. CASE ~tx /\ ~Overdue(m) /\ k' = Block
  <2>1. unheard'[m] = 0 * Block /\ k' = (0 + 1) * Block
    <3>1. 0 * Block = 0 /\ (0 + 1) * Block = Block  BY Lengths, SMT
    <3> QED BY <1>2, <1>4, <3>1 DEF From
  <2>2. 1 <= stopped' \/ stopped' = Quiet
    <3>1. stopped' = Count(stopped, Quiet) /\ stopped \in Nat
      BY <1>1, Bounds DEF DataSink, TypeInv, CountsOK
    <3> QED BY <3>1, Bounds DEF Count
  <2>3. (1 - 1) * Block <= Since(m)'
    <3>1. Since(m)' \in Nat  BY SinceIs
    <3>2. (1 - 1) * Block = 0  BY Lengths, SMT
    <3> QED BY <3>1, <3>2
  <2>4. lastStart'[m] \in Nat /\ Since(m)' < Second  BY SinceIs
  <2>5. ~tx' /\ heard' = k' /\ 1 \in Nat /\ 0 \in Nat /\ 1 <= 13
    BY <1>1, <1>4
  <2> QED BY <2>1, <2>2, <2>3, <2>4, <2>5 DEF Fresh
<1> QED BY <1>3, <1>4

\* As long as nothing of the speed is queued, its next range comes nearer.
LEMMA FreshQueue ==
  ASSUME TypeInv, SignalInv, Frames, NEW m \in AutoSync, ~Handed(m, k'),
         k' = k + Block, NEW c \in Nat, NEW b \in Nat, k = (c + b) * Block,
         b # 0 => /\ lastStart[m] \in Nat /\ Since(m) < Second
                  /\ queue[m] = None => (b - 1) * Block <= Since(m),
         queue'[m] = None
  PROVE  b * Block <= Since(m)'
<1> DEFINE j == k'  l == LastStart(m, j)  t == IncrementedBy(m, j)
<1>1. /\ InRing(j) /\ DataSink(j) /\ m \in Modes /\ k \in Nat
  BY FramesOK, ModesAre DEF TypeInv, RingOK, InRing
<1>2. /\ Queued(j)[m] = IF Due(m, j) THEN Range(m, j) ELSE queue[m]
      /\ queue'[m] = IF Given(j) THEN None ELSE Queued(j)[m]
  BY <1>1, DataSinkIs
<1>3. Queued(j)[m] # None => To(m, j) = lastStart'[m]  BY <1>1, PendingStep
<1>4. ~Due(m, j)
  <2> SUFFICES ASSUME Due(m, j) PROVE FALSE
    OBVIOUS
  <2>1. Queued(j)[m] # None /\ lastStart'[m] = j  BY SinceIs
  <2>2. Given(j)  BY <1>2, <2>1
  <2>3. To(m, j) <= j  BY <1>1, <1>3, <2>1 DEF InRing
  <2> QED BY <2>1, <2>2, <2>3 DEF Handed
<1>5. Since(m)' = t /\ lastStart'[m] = l /\ Since(m)' \in Nat  BY <1>4, SinceIs
<1>6. l \in Nat /\ l < Minute  BY <1>1, DueIs
<1>7. t = IF j < l THEN Minute - l + j ELSE j - l  BY DEF IncrementedBy
<1>8. j \in Nat /\ j = k + Block /\ j < Minute  BY <1>1 DEF InRing
<1>9. queue[m] # None => j < l
  <2> SUFFICES ASSUME queue[m] # None PROVE j < l
    OBVIOUS
  <2>1. Queued(j)[m] # None /\ Given(j)  BY <1>2, <1>4
  <2>2. ~(l <= j)  BY <1>3, <1>5, <2>1 DEF Handed
  <2> QED BY <1>6, <1>8, <2>2
<1> DEFINE s == Since(m)  p == lastStart[m]
<1>10. s = IF k < p THEN Minute - p + k ELSE k - p  BY DEF Since
<1>11. b # 0 => /\ p \in Nat /\ s < Second /\ l = p
                /\ queue[m] = None => (b - 1) * Block <= s
  <2>1. b # 0 => /\ p \in Nat /\ s < Second
                 /\ queue[m] = None => (b - 1) * Block <= s
    OBVIOUS
  <2>2. p \in Nat => l = p  BY DEF LastStart
  <2> QED BY <2>1, <2>2
<1>12. k = (c + b) * Block  OBVIOUS
<1> HIDE DEF j, l, t, s, p
<1>13. CASE b = 0
  <2>1. b * Block = 0  BY <1>13, Lengths, SMT
  <2> QED BY <1>5, <2>1
<1>14. CASE b # 0 /\ j < l
  <2>1. t = Minute - l + j  BY <1>7, <1>14
  <2>2. b * Block <= t  BY <1>6, <1>8, <1>12, <2>1, Lengths, SMT
  <2> QED BY <1>5, <2>2
<1>15. CASE b # 0 /\ ~(j < l)
  <2>1. queue[m] = None /\ t = j - l  BY <1>7, <1>9, <1>15
  <2>2. p \in Nat /\ s < Second /\ l = p /\ (b - 1) * Block <= s  BY <1>11, <1>15, <2>1
  <2>3. ~(k < p)
    <3> SUFFICES ASSUME k < p PROVE FALSE
      OBVIOUS
    <3>1. s = Minute - p + k  BY <1>10
    <3> QED BY <1>1, <1>8, <1>15, <2>2, <3>1, Lengths, SMT
  <2>4. s = k - p  BY <1>10, <2>3
  <2>5. t = s + Block  BY <1>1, <1>8, <2>1, <2>2, <2>4, Lengths, SMT
  <2>6. b * Block <= t  BY <1>1, <2>2, <2>4, <2>5, Lengths, SMT
  <2> QED BY <1>5, <2>6
<1> QED BY <1>13, <1>14, <1>15

LEMMA FreshStep ==
  ASSUME TypeInv, SignalInv, Frames, NEW m \in AutoSync, Fresh(m), ~Handed(m, k'),
         ~tx, ~Overdue(m), k' # Block
  PROVE  Fresh(m)'
<1> DEFINE j == k'
<1>1. /\ InRing(j) /\ DataSink(j) /\ m \in Modes /\ heard' = j /\ tx' = tx /\ j = k + Block
      /\ k \in Nat
  BY FramesOK, GridStep, ModesAre DEF SignalInv, TypeInv, RingOK, InRing
<1>2. PICK c \in Nat, b \in Nat :
        /\ unheard[m] = c * Block /\ k = (c + b) * Block
        /\ b # 0 => /\ ~tx /\ heard = k /\ (b <= stopped \/ stopped = Quiet)
                    /\ lastStart[m] \in Nat /\ Since(m) < Second
                    /\ queue[m] = None => (b - 1) * Block <= Since(m)
        /\ b <= 13 \/ (b <= 13 + started /\ Recent(m))
  BY DEF Fresh
<1>3. unheard'[m] = c * Block  BY <1>2, NotHanded DEF From
<1>4. j = (c + (b + 1)) * Block  BY <1>1, <1>2, Lengths, SMT
<1>5. stopped' = Count(stopped, Quiet) /\ stopped \in Nat /\ stopped <= Quiet /\ started \in Nat
  BY <1>1, Bounds DEF DataSink, TypeInv, CountsOK
<1>6. b + 1 <= stopped' \/ stopped' = Quiet  BY <1>2, <1>5, Bounds DEF Count
<1>7. lastStart'[m] \in Nat /\ Since(m)' < Second  BY SinceIs
<1>8. queue'[m] = None => b * Block <= Since(m)'  BY <1>1, <1>2, FreshQueue
<1>9. b + 1 <= 13 \/ (b + 1 <= 13 + started' /\ Recent(m)')
  <2>1. CASE b <= 12  BY <2>1
  <2>2. CASE ~(b <= 12)
    <3>1. /\ ~tx /\ (b <= stopped \/ stopped = Quiet)
          /\ lastStart[m] \in Nat /\ Since(m) < Second
          /\ queue[m] = None => (b - 1) * Block <= Since(m)
      BY <1>2, <2>2
    <3>2. (stopped + 1) * Block >= Wait
      <4>1. CASE stopped = Quiet  BY <4>1, QuietIs
      <4>2. CASE b <= stopped
        <5>1. stopped >= 13  BY <1>5, <2>2, <4>2
        <5> QED BY <1>5, <5>1, WaitIs, Lengths, SMT
      <4> QED BY <3>1, <4>1, <4>2
    <3> DEFINE s == Since(m)  p == lastStart[m]
    <3>3. s = (IF k < p THEN Minute - p + k ELSE k - p) /\ p \in Nat /\ s < Second /\ p < Minute
      <4>1. p < Minute  BY <1>1, <3>1 DEF TypeInv, RingOK, InRing
      <4> QED BY <3>1, <4>1 DEF Since
    <3>4. k >= 44928  BY <1>2, <2>2, Lengths, SMT
    <3>5. queue[m] = None => (b - 1) * Block <= s  BY <3>1
    <3> HIDE DEF s, p
    <3>6. p <= k  BY <1>1, <3>3, <3>4, Lengths, SMT
    <3>7. s = k - p  BY <1>1, <3>3, <3>6
    <3>8. queue[m] # None
      <4>1. ~((b - 1) * Block <= s)  BY <1>1, <2>2, <3>3, <3>7, Lengths, SMT
      <4> QED BY <3>5, <4>1
    <3>9. Queued(j)[m] # None /\ To(m, j) <= j
      <4>1. Queued(j)[m] = IF Due(m, j) THEN Range(m, j) ELSE queue[m]
        BY <1>1, DataSinkIs
      <4>2. Queued(j)[m] # None  BY <3>8, <4>1, SinceIs
      <4>3. To(m, j) = lastStart'[m] /\ (~Due(m, j) => lastStart'[m] = p)
        BY <1>1, <3>8, <4>2, PendingStep DEF p
      <4>4. Due(m, j) => lastStart'[m] = j  BY SinceIs
      <4>5. p <= j /\ j <= j
        <5>1. j \in Nat  BY <1>1 DEF InRing
        <5> HIDE DEF j
        <5> QED BY <1>1, <3>3, <3>6, <5>1, Lengths, SMT
      <4> QED BY <4>2, <4>3, <4>4, <4>5
    <3>10. started' = started + 1 /\ Recent(m)'  BY <3>2, <3>9, NotStarted
    <3>11. b <= 13 + started  BY <1>2, <1>5
    <3> QED BY <1>5, <3>10, <3>11
  <2> QED BY <2>1, <2>2
<1>10. (b + 1) - 1 = b /\ b + 1 \in Nat  OBVIOUS
<1> HIDE DEF j
<1>11. b + 1 # 0 => /\ ~tx' /\ heard' = j /\ (b + 1 <= stopped' \/ stopped' = Quiet)
                    /\ lastStart'[m] \in Nat /\ Since(m)' < Second
                    /\ queue'[m] = None => ((b + 1) - 1) * Block <= Since(m)'
  BY <1>1, <1>6, <1>7, <1>8, <1>10
<1> QED BY <1>3, <1>4, <1>9, <1>10, <1>11 DEF Fresh, j

LEMMA FramesSignal ==
  ASSUME TypeInv, SignalInv, Frames
  PROVE  SignalInv'
<1>1. OnGrid(k') /\ \A m \in Modes : Pending(m)'
  BY GridStep, PendingStep DEF SignalInv
<1>2. ASSUME NEW m \in AutoSync PROVE Windowed(m)' \/ Fresh(m)'
  <2>1. CASE Handed(m, k')  BY <2>1, Hands
  <2>2. CASE ~Handed(m, k') /\ (tx \/ Overdue(m) \/ k' = Block)  BY <2>2, FreshBegins
  <2>3. CASE ~Handed(m, k') /\ ~(tx \/ Overdue(m) \/ k' = Block)
    <3>1. Windowed(m) \/ Fresh(m)  BY DEF SignalInv
    <3> QED BY <2>3, <3>1, HeldBack, FreshStep
  <2> QED BY <2>1, <2>2, <2>3
<1> QED BY <1>1, <1>2 DEF SignalInv

LEMMA DriftGrid == TypeInv /\ OnGrid(k) /\ Drift => OnGrid(k')
<1> SUFFICES ASSUME TypeInv, OnGrid(k), Drift PROVE OnGrid(k')
  OBVIOUS
<1>1. PICK b \in Nat : k = b * Block  BY DEF OnGrid
<1>2. PICK d \in Nat : k' = k + d * Block \/ k' = k - d * Block  BY DriftOK
<1>3. k' \in Nat  BY DriftOK DEF InRing
<1>4. CASE k' = k + d * Block
  <2>1. k' = (b + d) * Block  BY <1>1, <1>4, Lengths, SMT
  <2> QED BY <2>1 DEF OnGrid
<1>5. CASE k' = k - d * Block
  <2>1. k' = (b - d) * Block /\ d <= b  BY <1>1, <1>3, <1>5, Lengths, SMT
  <2>2. b - d \in Nat  BY <2>1
  <2> QED BY <2>1, <2>2 DEF OnGrid
<1> QED BY <1>2, <1>4, <1>5

\* Nothing but the position counts before the first block.
LEMMA Begun ==
  ASSUME NEW m \in AutoSync, OnGrid(k), unheard[m] = k
  PROVE  Fresh(m)
<1>1. PICK c \in Nat : k = c * Block  BY DEF OnGrid
<1>2. c + 0 = c /\ 0 \in Nat /\ 0 <= 13  OBVIOUS
<1> QED BY <1>1, <1>2 DEF Fresh

LEMMA InitSignal == Init => SignalInv
<1> SUFFICES ASSUME Init PROVE SignalInv
  OBVIOUS
<1>1. k = 0 /\ queue = [m \in Modes |-> None] /\ unheard = [m \in AutoSync |-> 0]
  BY DEF Init
<1>2. 0 = 0 * Block  BY Lengths, SMT
<1>3. OnGrid(k)  BY <1>1, <1>2 DEF OnGrid
<1>4. \A m \in AutoSync : Fresh(m)  BY <1>1, <1>3, Begun
<1> QED BY <1>1, <1>3, <1>4 DEF SignalInv, Pending

LEMMA NextSignal == TypeInv /\ SignalInv /\ [Next]_vars => SignalInv'
<1> SUFFICES ASSUME TypeInv, SignalInv, [Next]_vars PROVE SignalInv'
  OBVIOUS
<1>1. ASSUME UNCHANGED <<lastStart, queue>> PROVE \A m \in Modes : Pending(m)'
  BY <1>1 DEF SignalInv, Pending
<1>2. ASSUME OnGrid(k'), unheard' = [m \in AutoSync |-> k'] PROVE \A m \in AutoSync : Fresh(m)'
  <2> SUFFICES ASSUME NEW m \in AutoSync PROVE Fresh(m)'
    OBVIOUS
  <2>1. PICK c \in Nat : k' = c * Block  BY <1>2 DEF OnGrid
  <2>2. c + 0 = c /\ 0 \in Nat /\ 0 <= 13 /\ unheard'[m] = c * Block  BY <1>2, <2>1
  <2> QED BY <2>1, <2>2 DEF Fresh
<1>3. CASE Frames  BY <1>3, FramesSignal
<1>4. CASE DecodeDone \/ UNCHANGED vars
  <2>1. UNCHANGED <<k, heard, lastStart, queue, started, tx, stopped, unheard>>
    BY <1>4 DEF DecodeDone, vars
  <2>2. ASSUME NEW m \in AutoSync PROVE Windowed(m)' \/ Fresh(m)'
    <3>1. Windowed(m) \/ Fresh(m)  BY DEF SignalInv
    <3>2. (Recent(m)' <=> Recent(m)) /\ Since(m)' = Since(m)
      BY <2>1 DEF Recent, Since, Prompt
    <3>3. CASE Windowed(m)  BY <2>1, <3>2, <3>3 DEF Windowed
    <3>4. CASE Fresh(m)  BY <2>1, <3>2, <3>4 DEF Fresh
    <3> QED BY <3>1, <3>3, <3>4
  <2> QED BY <1>1, <2>1, <2>2 DEF SignalInv
<1>5. CASE TxStart
  <2>1. UNCHANGED <<k, lastStart, queue>> /\ unheard' = [m \in AutoSync |-> k]
    BY <1>5 DEF TxStart
  <2>2. OnGrid(k') /\ unheard' = [m \in AutoSync |-> k']  BY <2>1 DEF SignalInv
  <2> QED BY <1>1, <1>2, <2>1, <2>2 DEF SignalInv
<1>6. CASE TxStop
  <2>1. tx /\ UNCHANGED <<k, lastStart, queue, unheard>>  BY <1>6 DEF TxStop
  <2>2. ASSUME NEW m \in AutoSync PROVE Fresh(m)'
    <3>1. Fresh(m)  BY <2>1 DEF SignalInv, Windowed
    <3>2. PICK c \in Nat, b \in Nat :
            unheard[m] = c * Block /\ k = (c + b) * Block /\ (b # 0 => ~tx)
      BY <3>1 DEF Fresh
    <3>3. b = 0 /\ 0 <= 13  BY <2>1, <3>2
    <3> QED BY <2>1, <3>2, <3>3 DEF Fresh
  <2>3. OnGrid(k')  BY <2>1 DEF SignalInv
  <2> QED BY <1>1, <2>1, <2>2, <2>3 DEF SignalInv
<1>7. CASE Drift
  <2>1. UNCHANGED <<lastStart, queue>> /\ unheard' = [m \in AutoSync |-> k']
    BY <1>7 DEF Drift
  <2>2. OnGrid(k')  BY <1>7, DriftGrid DEF SignalInv
  <2> QED BY <1>1, <1>2, <2>1, <2>2 DEF SignalInv
<1> QED BY <1>3, <1>4, <1>5, <1>6, <1>7 DEF Next

LEMMA SignalInvariance == Spec => []SignalInv
BY InitSignal, NextSignal, TypeInvariance, PTL DEF Spec

LEMMA SignalIs == TypeInv /\ SignalInv => EverySignal
<1> SUFFICES ASSUME TypeInv, SignalInv, NEW m \in AutoSync
             PROVE  k <= unheard[m] + Symbols(m) + Cycle(m) \div 5
  BY DEF EverySignal
<1> DEFINE u == unheard[m]  y == Symbols(m)  d == Cycle(m) \div 5
<1>1. \/ y = 151680 /\ d = 36000 /\ Prompt(m) = 8
      \/ y = 303360 /\ d = 72000 /\ Prompt(m) = 16
  <2>1. 180000 \div 5 = 36000 /\ 360000 \div 5 = 72000  BY SMT
  <2> QED BY <2>1, SpeedIs
<1>2. u \in Nat  BY DEF TypeInv, RingOK
<1>3. CASE Windowed(m)
  <2>1. k = heard /\ (started <= 3 \/ started < Prompt(m))  BY <1>3 DEF Windowed, Recent
  <2>2. PICK a \in Nat, n \in Nat, l \in Nat :
          /\ a * Block <= u + y /\ heard = (a + 4 * n + l) * Block /\ 4 * n + l <= started + 3
    BY <1>3 DEF Windowed
  <2>3. started \in Nat  BY Bounds DEF TypeInv, CountsOK
  <2> HIDE DEF u, y, d
  <2>4. CASE y = 151680 /\ d = 36000 /\ Prompt(m) = 8
    <3>1. 4 * n + l <= 10  BY <2>1, <2>2, <2>3, <2>4
    <3>2. (a + 4 * n + l) * Block <= a * Block + 34560 /\ a * Block \in Nat
      BY <3>1, Lengths, SMT
    <3>3. k <= u + y + d  BY <1>2, <2>1, <2>2, <2>4, <3>2, Lengths, SMT
    <3> QED BY <3>3 DEF u, y, d
  <2>5. CASE y = 303360 /\ d = 72000 /\ Prompt(m) = 16
    <3>1. 4 * n + l <= 18  BY <2>1, <2>2, <2>3, <2>5
    <3>2. (a + 4 * n + l) * Block <= a * Block + 62208 /\ a * Block \in Nat
      BY <3>1, Lengths, SMT
    <3>3. k <= u + y + d  BY <1>2, <2>1, <2>2, <2>5, <3>2, Lengths, SMT
    <3> QED BY <3>3 DEF u, y, d
  <2> QED BY <1>1, <2>4, <2>5
<1>4. CASE Fresh(m)
  <2>1. u \in Nat /\ k \in Nat /\ k <= u + 100224  BY <1>4, FreshIs
  <2> HIDE DEF u, y, d
  <2>2. k <= u + y + d  BY <1>1, <2>1
  <2> QED BY <2>2 DEF u, y, d
<1> QED BY <1>3, <1>4 DEF SignalInv

\* A fifth of a cycle after a transmission of a speed with automatic drift has
\* ended it has been whole in a window that was handed over, wherever in the minute
\* it began, whichever speeds are decoded beside it, whatever the decoder did
\* before, and whenever the station transmitted or the clock was moved before
\* (decodeEnqueueReadyExperiment with everySecond, decodeProcessQueue, decode): as
\* long as no decode lasts longer than Prompt, which is exact.
THEOREM EverySignalAlways == Spec => []EverySignal
BY SignalIs, TypeInvariance, SignalInvariance, PTL

-----------------------------------------------------------------------------
(* Every cycle is handed over.                                             *)

\* The position from which ranges are due till the end of the cycle, and the
\* last one at its beginning at which one is.
First(m) == Symbols(m) - 18000

Early(m) == IF m = "Turbo" THEN 17856 ELSE 18000

\* p whole blocks after the position from which ranges are due.
Phase(m, f, p) == First(m) + p * Block <= f /\ f < First(m) + (p + 1) * Block

\* A decode that is in time has ended when the decoder may be started again.
LEMMA PromptIs ==
  ASSUME NEW m \in Modes
  PROVE  /\ Prompt(m) \in Nat /\ 4 <= Prompt(m) /\ Prompt(m) <= Long
         /\ m \notin AutoSync => /\ m = "Normal" => Prompt(m) = 5
                                 /\ m = "Fast" => Prompt(m) = 4
                                 /\ m = "Turbo" => Prompt(m) = 4
                                 /\ m = "Slow" => Prompt(m) = 13
<1>1. m \notin AutoSync => /\ m = "Normal" => Prompt(m) = 5
                           /\ m = "Fast" => Prompt(m) = 4
                           /\ m = "Turbo" => Prompt(m) = 4
                           /\ m = "Slow" => Prompt(m) = 13
  BY DEF Prompt
<1>2. m \in AutoSync => Prompt(m) = 8 \/ Prompt(m) = 16  BY SpeedIs
<1>3. Prompt(m) \in Nat /\ 4 <= Prompt(m) /\ Prompt(m) <= Long
  <2>1. m = "Normal" \/ m = "Fast" \/ m = "Turbo" \/ m = "Slow"  BY ModeIs DEF Speeds
  <2>2. Prompt(m) \in {4, 5, 13} \/ (m \in AutoSync /\ Prompt(m) \in {8, 16})
    BY <1>1, <1>2, <2>1
  <2>3. Long \in Nat /\ 13 <= Long /\ (m \in AutoSync => Long = 16)  BY Bounds
  <2> QED BY <2>2, <2>3
<1> QED BY <1>1, <1>3

LEMMA FirstIs ==
  ASSUME NEW m \in Modes
  PROVE  /\ First(m) \in Nat /\ 29400 <= First(m) /\ First(m) + 18000 = Symbols(m)
         /\ Early(m) \in Nat /\ 17856 <= Early(m) /\ Early(m) <= 18000
         /\ m # "Turbo" => First(m) >= Early(m) + Second
         /\ m = "Turbo" => First(m) = 29400 /\ Early(m) = 17856 /\ Cycle(m) = 72000
         /\ First(m) + 12 * Block <= Cycle(m)
         /\ StartDelay(m) + Symbols(m) \in Nat
         /\ StartDelay(m) + Symbols(m) <= First(m) + 8 * Block
<1>1. m \in Speeds  BY ModeIs
<1>2. CASE m = "Normal"
  <2>1. Cycle(m) = 180000 /\ Symbols(m) = 151680  BY <1>1, <1>2, SpeedLengths
  <2>2. StartDelay(m) = 6000 /\ First(m) = 151680 - 18000 /\ Early(m) = 18000
    BY <1>2, <2>1 DEF StartDelay, First, Early
  <2> QED BY <1>2, <2>1, <2>2, Lengths, SMT
<1>3. CASE m = "Fast"
  <2>1. Cycle(m) = 120000 /\ Symbols(m) = 94800  BY <1>1, <1>3, SpeedLengths
  <2>2. StartDelay(m) = 2400 /\ First(m) = 94800 - 18000 /\ Early(m) = 18000
    BY <1>3, <2>1 DEF StartDelay, First, Early
  <2> QED BY <1>3, <2>1, <2>2, Lengths, SMT
<1>4. CASE m = "Turbo"
  <2>1. Cycle(m) = 72000 /\ Symbols(m) = 47400  BY <1>1, <1>4, SpeedLengths
  <2>2. StartDelay(m) = 1200 /\ First(m) = 47400 - 18000 /\ Early(m) = 17856
    BY <1>4, <2>1 DEF StartDelay, First, Early
  <2> QED BY <1>4, <2>1, <2>2, Lengths, SMT
<1>5. CASE m = "Slow"
  <2>1. Cycle(m) = 360000 /\ Symbols(m) = 303360  BY <1>1, <1>5, SpeedLengths
  <2>2. StartDelay(m) = 6000 /\ First(m) = 303360 - 18000 /\ Early(m) = 18000
    BY <1>5, <2>1 DEF StartDelay, First, Early
  <2> QED BY <1>5, <2>1, <2>2, Lengths, SMT
<1> QED BY <1>1, <1>2, <1>3, <1>4, <1>5 DEF Speeds

\* The piece that is due eight blocks after First has been taken when the cycle
\* ends, the last block of a minute, 4608 samples, left out.  For Turbo it has in
\* every cycle of a minute but the last.
LEMMA FitsIs ==
  ASSUME NEW m \in Modes \ AutoSync, m # "Turbo"
  PROVE  First(m) + (7 + Prompt(m)) * Block <= Cycle(m) - 4608
<1>1. m \in Modes /\ m \in Speeds  BY ModeIs
<1>2. CASE m = "Normal"
  <2>1. Cycle(m) = 180000 /\ First(m) = 151680 - 18000
    BY <1>1, <1>2, SpeedLengths DEF First
  <2>2. Prompt(m) = 5  BY <1>2, PromptIs
  <2>3. (7 + Prompt(m)) * Block = 41472  BY <2>2, Lengths, SMT
  <2> QED BY <2>1, <2>3
<1>3. CASE m = "Fast"
  <2>1. Cycle(m) = 120000 /\ First(m) = 94800 - 18000
    BY <1>1, <1>3, SpeedLengths DEF First
  <2>2. Prompt(m) = 4  BY <1>3, PromptIs
  <2>3. (7 + Prompt(m)) * Block = 38016  BY <2>2, Lengths, SMT
  <2> QED BY <2>1, <2>3
<1>4. CASE m = "Slow"
  <2>1. Cycle(m) = 360000 /\ First(m) = 303360 - 18000
    BY <1>1, <1>4, SpeedLengths DEF First
  <2>2. Prompt(m) = 13  BY <1>4, PromptIs
  <2>3. (7 + Prompt(m)) * Block = 69120  BY <2>2, Lengths, SMT
  <2> QED BY <2>1, <2>3
<1> QED BY <1>1, <1>2, <1>3, <1>4 DEF Speeds

\* A speed without automatic time drift: what is queued, and when.
LEMMA DueOf ==
  ASSUME TypeInv, NEW m \in Modes \ AutoSync, NEW j, InRing(j)
  PROVE  /\ Due(m, j) <=> /\ IncrementedBy(m, j) >= Second
                          /\ FramesReady(m, j) >= First(m) \/ FramesReady(m, j) < 18000
         /\ Range(m, j) = [start |-> CycleStart(m, j), sz |-> FramesReady(m, j)]
<1> DEFINE i == IncrementedBy(m, j)  f == FramesReady(m, j)  y == Symbols(m)  a == First(m)
<1>1. i \in Int
  <2>1. LastStart(m, j) \in Int
    <3>1. CycleStart(m, j) \in Nat
      BY ModesAre, CycleStartIs DEF InRing
    <3> QED BY <3>1 DEF LastStart, TypeInv, RingOK
  <2>2. Minute \in Int  BY Lengths, SMT
  <2> QED BY <2>1, <2>2 DEF IncrementedBy, InRing
<1>2. f \in Nat  BY ModeIs, CycleStartIs DEF InRing
<1>3. a \in Nat /\ y = a + 18000  BY FirstIs
<1>4. Due(m, j) <=> \/ 2 * i >= 3 * Second /\ f >= y
                    \/ i >= Second /\ (2 * f >= 2 * y - 3 * Second \/ 2 * f < 3 * Second)
  BY DEF Due
<1>5. Range(m, j) = [start |-> CycleStart(m, j), sz |-> f]  BY DEF Range
<1> HIDE DEF i, f, y, a
<1>6. Due(m, j) <=> i >= Second /\ (f >= a \/ f < 18000)
  BY <1>1, <1>2, <1>3, <1>4, Lengths, SMT
<1> QED BY <1>5, <1>6 DEF i, f, a

\* From one block to the next.
LEMMA SameCycle ==
  ASSUME TypeInv, OnGrid(k), Frames, k = heard, NEW m \in Modes, ~NextCycle(m, k')
  PROVE  /\ k' = heard + Block /\ CycleStart(m, k') = CycleStart(m, heard)
         /\ FramesReady(m, k') = FramesReady(m, heard) + Block
         /\ FramesReady(m, heard) \in Nat /\ FramesReady(m, k') \in Nat
         /\ CycleStart(m, heard) \in Nat
         /\ k' = CycleStart(m, heard) + FramesReady(m, k')
<1> DEFINE s == CycleStart(m, heard)  f == FramesReady(m, heard)  c == Cycle(m)
           g == FramesReady(m, k')
<1>1. m \in Speeds /\ heard \in Nat /\ heard < Minute /\ k' \in Nat /\ k' < Minute
  BY ModeIs, GridStep DEF TypeInv, RingOK, InRing
<1>2. /\ s \in Nat /\ f \in Nat /\ f < c /\ f = heard - s
      /\ c = 180000 \/ c = 120000 \/ c = 72000 \/ c = 360000
  BY <1>1, CycleStartIs, SpeedLengths
<1>3. CycleStart(m, k') = s  BY DEF NextCycle
<1>4. g \in Nat /\ g = k' - s /\ s <= k'  BY <1>1, <1>3, CycleStartIs
<1>5. k' = heard + Block \/ (heard >= Minute - 2 * Block /\ k' = Block)  BY FramesOK
<1> HIDE DEF s, f, c, g
<1>6. k' = heard + Block
  <2> SUFFICES ASSUME heard >= Minute - 2 * Block, k' = Block PROVE FALSE
    BY <1>5
  <2> QED BY <1>1, <1>2, <1>4, Lengths, SMT
<1>7. g = f + Block /\ k' = s + g  BY <1>1, <1>2, <1>4, <1>6, Lengths, SMT
<1> QED BY <1>2, <1>3, <1>4, <1>6, <1>7 DEF s, f, g

\* At the end of a cycle all but a block of it is ready; at the end of a minute
\* the last block may be missing as well.
LEMMA LastBlock ==
  ASSUME TypeInv, OnGrid(k), Frames, k = heard, NEW m \in Modes, NextCycle(m, k')
  PROVE  /\ FramesReady(m, heard) \in Nat /\ FramesReady(m, heard) >= Cycle(m) - 4608
         /\ m = "Turbo" => \/ FramesReady(m, heard) >= First(m) + 11 * Block
                           \/ heard = 207 * Block
<1> DEFINE s == CycleStart(m, heard)  f == FramesReady(m, heard)  c == Cycle(m)
<1>1. m \in Speeds /\ heard \in Nat /\ heard < Minute /\ k' \in Nat /\ k' < Minute
  BY ModeIs, GridStep DEF TypeInv, RingOK, InRing
<1>2. /\ s \in Nat /\ f \in Nat /\ f < c /\ f = heard - s
      /\ c = 180000 \/ c = 120000 \/ c = 72000 \/ c = 360000
  BY <1>1, CycleStartIs, SpeedLengths
<1>3. m = "Turbo" => First(m) + 11 * Block = 67416 /\ c = 72000
  <2>1. m = "Turbo" => First(m) = 29400 /\ c = 72000  BY FirstIs
  <2> HIDE DEF c
  <2> QED BY <2>1, Lengths, SMT
<1>4. k' = heard + Block \/ (heard >= Minute - 2 * Block /\ k' = Block)  BY FramesOK
<1>5. CASE k' = heard + Block
  <2>1. ~(k' < s + c)
    <3> SUFFICES ASSUME k' < s + c PROVE FALSE
      OBVIOUS
    <3>1. CycleStart(m, k') = s
      <4>1. /\ CycleStart(m, k') = ((k' \div c) % (Minute \div c)) * c
            /\ s = ((heard \div c) % (Minute \div c)) * c
        BY DEF CycleStart
      <4>2. heard <= k'  BY <1>1, <1>5, Lengths, SMT
      <4> HIDE DEF s, c, f
      <4>3. CASE c = 180000
        BY <1>1, <1>2, <4>1, <4>2, <4>3, Lengths, SMT
      <4>4. CASE c = 120000
        BY <1>1, <1>2, <4>1, <4>2, <4>4, Lengths, SMT
      <4>5. CASE c = 72000
        BY <1>1, <1>2, <4>1, <4>2, <4>5, Lengths, SMT
      <4>6. CASE c = 360000
        BY <1>1, <1>2, <4>1, <4>2, <4>6, Lengths, SMT
      <4> QED BY <1>2, <4>3, <4>4, <4>5, <4>6
    <3> QED BY <3>1 DEF NextCycle
  <2> HIDE DEF s, f, c
  <2>2. f >= c - 4608 /\ f >= c - 3456  BY <1>1, <1>2, <1>5, <2>1, Lengths, SMT
  <2>3. c = 72000 => f >= 67416  BY <1>2, <2>2
  <2> QED BY <1>2, <1>3, <2>2, <2>3 DEF f, c
<1>6. CASE heard >= Minute - 2 * Block
  <2>1. PICK b \in Nat : heard = b * Block  BY DEF OnGrid
  <2>2. b = 207 \/ b = 208  BY <1>1, <1>6, <2>1, Lengths, SMT
  <2>3. heard >= 715392 /\ (heard # 207 * Block => heard = 718848)
    BY <2>1, <2>2, Lengths, SMT
  <2>4. s = Minute - c
    <3>1. s = ((heard \div c) % (Minute \div c)) * c  BY DEF CycleStart
    <3> HIDE DEF s, c, f
    <3>2. CASE c = 180000  BY <1>1, <2>3, <3>1, <3>2, Lengths, SMT
    <3>3. CASE c = 120000  BY <1>1, <2>3, <3>1, <3>3, Lengths, SMT
    <3>4. CASE c = 72000  BY <1>1, <2>3, <3>1, <3>4, Lengths, SMT
    <3>5. CASE c = 360000  BY <1>1, <2>3, <3>1, <3>5, Lengths, SMT
    <3> QED BY <1>2, <3>2, <3>3, <3>4, <3>5
  <2> HIDE DEF s, f, c
  <2>5. f >= c - 4608  BY <1>1, <1>2, <2>3, <2>4, Lengths, SMT
  <2>6. heard = 718848 /\ c = 72000 => f >= 67416  BY <1>2, <2>4, Lengths, SMT
  <2> QED BY <1>2, <1>3, <2>3, <2>5, <2>6 DEF f, c
<1> QED BY <1>4, <1>5, <1>6

\* The first position from which Turbo ranges are due is on the grid later than
\* the threshold, and the last one at the beginning of a cycle earlier.
LEMMA TurboGrid ==
  ASSUME NEW j, InRing(j), OnGrid(j), "Turbo" \in Modes
  PROVE  \E x \in Nat : FramesReady("Turbo", j) = 576 * x
<1>1. PICK b \in Nat : j = b * Block  BY DEF OnGrid
<1> DEFINE f == FramesReady("Turbo", j)
<1>2. /\ Cycle("Turbo") = 72000 /\ j \in Nat
      /\ f = j - ((j \div 72000) % (Minute \div 72000)) * 72000 /\ f \in Nat
  <2>1. "Turbo" \in Speeds  BY ModeIs
  <2>2. Cycle("Turbo") = 72000 /\ j \in Nat  BY FirstIs DEF InRing
  <2>3. FramesReady("Turbo", j) \in Nat  BY <2>1, CycleStartIs DEF InRing
  <2> QED BY <2>2, <2>3 DEF FramesReady, CycleStart
<1> DEFINE q == (j \div 72000) % (Minute \div 72000)
<1>3. q \in Nat  BY <1>2, Lengths, SMT
<1>4. f = j - q * 72000 /\ f \in Nat  BY <1>2
<1> HIDE DEF f, q
<1>5. f = 576 * (6 * b - 125 * q) /\ 6 * b - 125 * q \in Int  BY <1>1, <1>3, <1>4, Lengths, SMT
<1>6. 6 * b - 125 * q \in Nat  BY <1>4, <1>5, SMT
<1> QED BY <1>5, <1>6 DEF f

\* What is queued of the speed is the cycle that is being heard, as much of it
\* as a transmission needs.
Waiting(m) == queue[m].start = CycleStart(m, heard) /\ IsWhole(m, queue[m], heard)

\* A cycle that has been listened to from its beginning: a range is queued at
\* every fourth block from First on, from the third of them on it holds a
\* transmission, and the decoder takes it as soon as it may be started again.
Listened(m) ==
  clean[m].now =>
    /\ ~tx /\ k = heard
    /\ stopped = Quiet \/ stopped * Block >= FramesReady(m, heard)
    /\ Second <= FramesReady(m, heard) /\ FramesReady(m, heard) < First(m)
         => lastStart[m] <= CycleStart(m, heard) + Early(m)
    /\ \A n \in Nat, l \in 0..3 :
         Phase(m, FramesReady(m, heard), 4 * n + l) => lastStart[m] = heard - l * Block
    /\ \A l \in Nat :
         Phase(m, FramesReady(m, heard), 8 + l) /\ l + 1 < Prompt(m)
           => whole[m].now \/ (Waiting(m) /\ started >= l + 1)
    /\ FramesReady(m, heard) >= First(m) + (7 + Prompt(m)) * Block => whole[m].now

\* Without multi-decoding m_nSubMode is both the speed that is decoded and the one
\* that is sent.
Alone == ~Multi /\ Speed = "Turbo"

\* The property itself, from the first block of the next cycle on.
Kept(m) ==
  (m = "Turbo" => Alone \/ CycleStart(m, heard) # 0) /\ clean[m].before => whole[m].before

\* A step of the detector within a cycle that has been listened to so far.
InCycle(m) ==
  /\ TypeInv /\ OnGrid(k) /\ Frames /\ m \in Modes \ AutoSync
  /\ clean[m].now /\ Listened(m) /\ ~NextCycle(m, k') /\ ~Late(m, k')

\* And in which the decoder may have to take what is queued.
MustTake(m) ==
  /\ ~whole[m].now
  /\ FramesReady(m, k') >= (IF m = "Turbo" THEN 2 * Second ELSE Symbols(m))

LEMMA Here ==
  ASSUME NEW m, InCycle(m)
  PROVE  /\ m \in Modes /\ InRing(k') /\ OnGrid(k') /\ DataSink(k') /\ heard' = k'
         /\ k' \in Nat /\ ~tx /\ ~tx' /\ k = heard
         /\ k' = heard + Block /\ CycleStart(m, k') = CycleStart(m, heard)
         /\ FramesReady(m, k') = FramesReady(m, heard) + Block
         /\ FramesReady(m, heard) \in Nat /\ FramesReady(m, k') \in Nat
         /\ CycleStart(m, heard) \in Nat /\ k' = CycleStart(m, heard) + FramesReady(m, k')
         /\ stopped = Quiet \/ stopped * Block >= FramesReady(m, heard)
         /\ MustTake(m) /\ busy => started + 1 < Prompt(m)
         /\ Prompt(m) \in Nat /\ 4 <= Prompt(m) /\ Prompt(m) <= Long
<1>1. m \in Modes /\ TypeInv /\ OnGrid(k) /\ Frames /\ ~NextCycle(m, k')
  BY DEF InCycle
<1>2. /\ ~tx /\ k = heard
      /\ stopped = Quiet \/ stopped * Block >= FramesReady(m, heard)
  BY DEF InCycle, Listened
<1>3. /\ InRing(k') /\ OnGrid(k') /\ DataSink(k') /\ heard' = k' /\ k' \in Nat /\ tx' = tx
  BY <1>1, FramesOK, GridStep
<1>4. Prompt(m) \in Nat /\ 4 <= Prompt(m) /\ Prompt(m) <= Long  BY <1>1, PromptIs
<1>5. MustTake(m) /\ busy => started + 1 < Prompt(m)
  <2>1. MustTake(m) /\ busy => ~(started + 1 >= Prompt(m))
    BY DEF InCycle, Late, Overdue, MustTake
  <2>2. started \in Nat  BY <1>1 DEF TypeInv, CountsOK
  <2> QED BY <1>4, <2>1, <2>2
<1> QED BY <1>1, <1>2, <1>3, <1>4, <1>5, SameCycle

\* From where a range is counted.
LEMMA CountedFrom ==
  ASSUME NEW m, InCycle(m)
  PROVE  LET j == k'  l == LastStart(m, j) IN
         /\ l \in Nat /\ lastStart'[m] = IF Due(m, j) THEN j ELSE l
         /\ lastStart[m] \in Nat => l = lastStart[m]
         /\ lastStart[m] \notin Nat => l = CycleStart(m, heard)
         /\ l <= j => IncrementedBy(m, j) = j - l
         /\ l > j => IncrementedBy(m, j) >= j
         /\ Due(m, j) <=> /\ IncrementedBy(m, j) >= Second
                          /\ FramesReady(m, j) >= First(m) \/ FramesReady(m, j) < 18000
<1> DEFINE j == k'  l == LastStart(m, j)
<1>1. /\ m \in Modes /\ InRing(j) /\ DataSink(j) /\ j \in Nat
      /\ CycleStart(m, j) = CycleStart(m, heard) /\ CycleStart(m, heard) \in Nat
      /\ CycleStart(m, heard) <= j
  BY Here
<1>2. TypeInv /\ m \in Modes \ AutoSync  BY DEF InCycle
<1>3. lastStart[m] = -1 \/ (lastStart[m] \in Nat /\ lastStart[m] < Minute)
  BY <1>1, <1>2 DEF TypeInv, RingOK, InRing
<1>4. /\ lastStart[m] \in Nat => l = lastStart[m]
      /\ lastStart[m] \notin Nat => l = CycleStart(m, heard)
  BY <1>1, <1>3 DEF LastStart
<1>5. l \in Nat /\ (l < Minute \/ l <= j)  BY <1>1, <1>3, <1>4
<1>6. lastStart'[m] = IF Due(m, j) THEN j ELSE l  BY <1>1, DataSinkIs
<1>7. IncrementedBy(m, j) = IF j < l THEN Minute - l + j ELSE j - l
  BY DEF IncrementedBy
<1>8. Due(m, j) <=> /\ IncrementedBy(m, j) >= Second
                    /\ FramesReady(m, j) >= First(m) \/ FramesReady(m, j) < 18000
  BY <1>1, <1>2, DueOf
<1>9. l <= j => IncrementedBy(m, j) = j - l
  <2> HIDE DEF j, l
  <2> QED BY <1>1, <1>5, <1>7
<1>10. l > j => IncrementedBy(m, j) >= j
  <2> HIDE DEF j, l
  <2> QED BY <1>1, <1>5, <1>7, Lengths, SMT
<1> QED BY <1>4, <1>5, <1>6, <1>8, <1>9, <1>10

\* Before First a range is counted from the beginning of the cycle at the latest
\* position at which one is due there.
LEMMA EarlyStep ==
  ASSUME NEW m, InCycle(m),
         Second <= FramesReady(m, k'), FramesReady(m, k') < First(m)
  PROVE  lastStart'[m] <= CycleStart(m, k') + Early(m)
<1> DEFINE j == k'  l == LastStart(m, j)  s == CycleStart(m, heard)
           f == FramesReady(m, heard)  g == FramesReady(m, j)  i == IncrementedBy(m, j)
           e == Early(m)  a == First(m)
<1>1. /\ j = heard + Block /\ CycleStart(m, j) = s /\ g = f + Block /\ f \in Nat
      /\ g \in Nat /\ s \in Nat /\ j = s + g /\ j \in Nat
  BY Here
<1>2. /\ l \in Nat /\ lastStart'[m] = IF Due(m, j) THEN j ELSE l
      /\ lastStart[m] \in Nat => l = lastStart[m]
      /\ lastStart[m] \notin Nat => l = s
      /\ l > j => i >= j
      /\ Due(m, j) <=> i >= Second /\ (g >= a \/ g < 18000)
  BY CountedFrom
<1>3. a \in Nat /\ e \in Nat /\ 17856 <= e /\ e <= 18000 /\ (m # "Turbo" => e = 18000)
  <2>1. m \in Modes  BY Here
  <2> QED BY <2>1, FirstIs DEF Early
<1>4. Second <= f /\ f < a => lastStart[m] <= s + e
  BY DEF InCycle, Listened
<1>5. g < 18000 => g <= e
  <2>1. CASE m = "Turbo"
    <3>1. PICK x \in Nat : g = 576 * x
      <4>1. m \in Modes /\ InRing(j) /\ OnGrid(j)  BY Here
      <4> QED BY <2>1, <4>1, TurboGrid
    <3> HIDE DEF e, g
    <3>2. g < 18000 => g <= 17856  BY <3>1, SMT
    <3> QED BY <1>1, <1>3, <3>2
  <2>2. CASE m # "Turbo"  BY <1>1, <1>3, <2>2
  <2> QED BY <2>1, <2>2
<1>6. Second <= g /\ g < a  OBVIOUS
<1> HIDE DEF j, l, s, f, g, i, e, a
<1>7. CASE Due(m, j)
  <2>1. g < 18000  BY <1>1, <1>2, <1>3, <1>6, <1>7
  <2>2. j <= s + e  BY <1>1, <1>3, <1>5, <2>1
  <2> QED BY <1>1, <1>2, <1>7, <2>2 DEF j, e
<1>8. CASE ~Due(m, j)
  <2>1. CASE lastStart[m] \notin Nat
    <3>1. l <= s + e  BY <1>1, <1>2, <1>3, <2>1
    <3> QED BY <1>1, <1>2, <1>8, <3>1 DEF j, e
  <2>2. CASE lastStart[m] \in Nat /\ Second <= f
    <3>1. f < a  BY <1>1, <1>3, <1>6, Lengths, SMT
    <3>2. l <= s + e  BY <1>2, <1>4, <2>2, <3>1
    <3> QED BY <1>1, <1>2, <1>8, <3>2 DEF j, e
  <2>3. CASE f < Second
    <3>1. g < 18000 /\ 12000 <= j  BY <1>1, <1>6, <2>3, Lengths, SMT
    <3>2. ~(i >= Second)  BY <1>2, <1>8, <3>1
    <3>3. ~(l > j)
      <4>1. l > j => i >= j  BY <1>2
      <4>2. i >= j => i >= Second \/ i \notin Int
        BY <1>1, <3>1, Lengths, SMT
      <4>3. i \in Int
        <5>1. /\ Minute \in Int /\ i = IF j < l THEN Minute - l + j ELSE j - l
          BY Lengths, SMT DEF i, l, j, IncrementedBy
        <5> QED BY <1>1, <1>2, <5>1
      <4> QED BY <3>2, <4>1, <4>2, <4>3
    <3>4. l <= s + e  BY <1>1, <1>2, <1>3, <1>5, <3>1, <3>3
    <3> QED BY <1>1, <1>2, <1>8, <3>4 DEF j, e
  <2>4. Second <= f \/ f < Second  BY <1>1, Lengths, SMT
  <2> QED BY <2>1, <2>2, <2>3, <2>4
<1> QED BY <1>7, <1>8

\* A phase follows the one before it.
LEMMA PhaseBefore ==
  ASSUME NEW m \in Modes, NEW f \in Nat, NEW p \in Nat
  PROVE  Phase(m, f + Block, p + 1) <=> Phase(m, f, p)
<1> DEFINE a == First(m)
<1>1. a \in Nat  BY FirstIs
<1> HIDE DEF a
<1>2. /\ a + (p + 1) * Block <= f + Block <=> a + p * Block <= f
      /\ f + Block < a + (p + 1 + 1) * Block <=> f < a + (p + 1) * Block
  BY <1>1, Lengths, SMT
<1> QED BY <1>2 DEF Phase, a

\* From First on a range is due at every fourth block.
LEMMA PhaseStep ==
  ASSUME NEW m, InCycle(m), NEW n \in Nat, NEW l \in 0..3,
         Phase(m, FramesReady(m, k'), 4 * n + l)
  PROVE  lastStart'[m] = k' - l * Block /\ (Due(m, k') <=> l = 0)
<1> DEFINE j == k'  c == LastStart(m, j)  s == CycleStart(m, heard)
           f == FramesReady(m, heard)  g == FramesReady(m, j)  i == IncrementedBy(m, j)
           e == Early(m)  a == First(m)
<1>1. /\ m \in Modes /\ j = heard + Block /\ g = f + Block /\ f \in Nat
      /\ g \in Nat /\ s \in Nat /\ j = s + g /\ j \in Nat /\ heard \in Nat
  BY Here DEF InCycle, TypeInv, RingOK, InRing
<1>2. /\ c \in Nat /\ lastStart'[m] = IF Due(m, j) THEN j ELSE c
      /\ lastStart[m] \in Nat => c = lastStart[m]
      /\ lastStart[m] \notin Nat => c = s
      /\ c <= j => i = j - c
      /\ Due(m, j) <=> i >= Second /\ (g >= a \/ g < 18000)
  BY CountedFrom
<1>3. /\ a \in Nat /\ 29400 <= a /\ e \in Nat /\ e <= 18000
      /\ m # "Turbo" => a >= e + Second
      /\ m = "Turbo" => a = 29400 /\ e = 17856
  BY <1>1, FirstIs
<1>4. /\ Second <= f /\ f < a => lastStart[m] <= s + e
      /\ \A n0 \in Nat, l0 \in 0..3 :
           Phase(m, f, 4 * n0 + l0) => lastStart[m] = heard - l0 * Block
  BY DEF InCycle, Listened
<1>5. Phase(m, g, 4 * n + l) /\ n \in Nat /\ l \in 0..3  OBVIOUS
<1>6. a <= g /\ (n = 0 /\ l = 0 => g < a + Block)
  <2>1. a + (4 * n + l) * Block <= g /\ g < a + (4 * n + l + 1) * Block
    BY <1>5 DEF Phase
  <2>2. 4 * n + l \in Nat  BY <1>5
  <2> DEFINE p == 4 * n + l
  <2>3. n = 0 /\ l = 0 => p = 0  BY <1>5
  <2> HIDE DEF a, g, p
  <2>4. a <= g /\ (p = 0 => g < a + Block)  BY <1>1, <1>3, <2>1, <2>2, Lengths, SMT DEF p
  <2> QED BY <2>3, <2>4
<1> HIDE DEF j, c, s, f, g, i, e, a
<1>7. CASE n = 0 /\ l = 0
  <2>1. Second <= f /\ f < a
    BY <1>1, <1>3, <1>6, <1>7, Lengths, SMT
  <2>2. c <= s + e
    <3>1. lastStart[m] <= s + e  BY <1>4, <2>1
    <3> QED BY <1>1, <1>2, <1>3, <3>1
  <2>3. g >= e + Second
    <3>1. CASE m # "Turbo"  BY <1>1, <1>3, <1>6, <3>1, Lengths, SMT
    <3>2. CASE m = "Turbo"
      <4>1. PICK x \in Nat : g = 576 * x
        <5>1. InRing(j) /\ OnGrid(j)  BY Here DEF j
        <5> QED BY <1>1, <3>2, <5>1, TurboGrid DEF g
      <4> QED BY <1>3, <1>6, <3>2, <4>1, Lengths, SMT
    <3> QED BY <3>1, <3>2
  <2>4. c <= j /\ j - c >= Second  BY <1>1, <1>2, <1>3, <2>2, <2>3, Lengths, SMT
  <2>5. Due(m, j)  BY <1>2, <1>6, <2>4
  <2>6. j = j - 0 * Block  BY <1>1, Lengths, SMT
  <2> QED BY <1>2, <1>7, <2>5, <2>6 DEF j
<1>8. CASE n # 0 /\ l = 0
  <2>1. Phase(m, f, 4 * (n - 1) + 3)
    <3>1. 4 * n + l = (4 * (n - 1) + 3) + 1 /\ 4 * (n - 1) + 3 \in Nat  BY <1>8
    <3> DEFINE p == 4 * (n - 1) + 3
    <3>2. Phase(m, f + Block, p + 1) /\ p \in Nat  BY <1>1, <1>5, <3>1
    <3> HIDE DEF p
    <3>3. Phase(m, f, p)  BY <1>1, <3>2, PhaseBefore
    <3> QED BY <3>3 DEF p
  <2>2. lastStart[m] = heard - 3 * Block
    <3>1. n - 1 \in Nat /\ 3 \in 0..3  BY <1>8
    <3> QED BY <1>4, <2>1, <3>1
  <2>3. heard - 3 * Block \in Nat
    BY <1>1, <1>3, <1>6, Lengths, SMT
  <2>4. c = heard - 3 * Block  BY <1>2, <2>2, <2>3
  <2>5. c <= j /\ j - c >= Second  BY <1>1, <2>4, Lengths, SMT
  <2>6. Due(m, j)  BY <1>2, <1>6, <2>5
  <2>7. j = j - 0 * Block  BY <1>1, Lengths, SMT
  <2> QED BY <1>2, <1>8, <2>6, <2>7 DEF j
<1>9. CASE l # 0
  <2> DEFINE p == 4 * n + (l - 1)
  <2>1. Phase(m, f, p) /\ a <= f
    <3>1. 4 * n + l = p + 1 /\ p \in Nat  BY <1>9
    <3> HIDE DEF p
    <3>2. Phase(m, f, p)  BY <1>1, <1>5, <3>1, PhaseBefore
    <3>3. a + p * Block <= f  BY <3>2 DEF Phase, a
    <3>4. a <= f  BY <1>1, <1>3, <3>1, <3>3, Lengths, SMT
    <3> QED BY <3>2, <3>4
  <2>2. lastStart[m] = heard - (l - 1) * Block
    <3>1. l - 1 \in 0..3  BY <1>9
    <3> QED BY <1>4, <2>1, <3>1
  <2>3. heard - (l - 1) * Block \in Nat
    BY <1>1, <1>3, <1>9, <2>1, Lengths, SMT
  <2>4. c = heard - (l - 1) * Block  BY <1>2, <2>2, <2>3
  <2>5. c = j - l * Block /\ c <= j /\ ~(j - c >= Second)
    BY <1>1, <1>9, <2>4, Lengths, SMT
  <2>6. ~Due(m, j)  BY <1>2, <2>5
  <2> QED BY <1>2, <1>9, <2>5, <2>6 DEF j
<1> QED BY <1>7, <1>8, <1>9

\* Once two seconds of the cycle, or four at the Slow speed, are over the decoder
\* may be started a second after it was started last, and when it is free.
LEMMA Starts ==
  ASSUME NEW m, InCycle(m), MustTake(m), Wait <= FramesReady(m, k')
  PROVE  /\ MayStart => started >= 3
         /\ started + 1 >= Prompt(m) => MayStart
         /\ started \in Nat
<1>1. /\ m \in Modes /\ ~tx /\ (stopped = Quiet \/ stopped * Block >= FramesReady(m, heard))
      /\ FramesReady(m, k') = FramesReady(m, heard) + Block
      /\ FramesReady(m, heard) \in Nat /\ (busy => started + 1 < Prompt(m))
      /\ Prompt(m) \in Nat /\ 4 <= Prompt(m)
  BY Here
<1>2. started \in Nat /\ stopped \in Nat
  BY DEF InCycle, TypeInv, CountsOK
<1> DEFINE f == FramesReady(m, heard)  g == FramesReady(m, k')
<1>3. Wait <= g /\ g = f + Block /\ f \in Nat  BY <1>1
<1>4. (stopped + 1) * Block >= Wait
  <2> HIDE DEF f, g
  <2>1. CASE stopped = Quiet  BY <2>1, QuietIs
  <2>2. CASE stopped * Block >= FramesReady(m, heard)
    <3>1. Wait \in Nat  BY WaitIs
    <3>2. stopped * Block >= f  BY <2>2 DEF f
    <3> QED BY <1>2, <1>3, <3>1, <3>2, Lengths, SMT
  <2> QED BY <1>1, <2>1, <2>2
<1>5. (started + 1) * Block >= Second <=> started >= 3  BY <1>2, Lengths, SMT
<1>6. started + 1 >= Prompt(m) => started >= 3 /\ ~busy  BY <1>1, <1>2
<1>7. MayStart <=> started >= 3 /\ ~busy  BY <1>1, <1>4, <1>5 DEF MayStart, Wait
<1> QED BY <1>2, <1>6, <1>7

\* What a report does to the count of the blocks since the decoder was started.
LEMMA CountedOn ==
  ASSUME TypeInv, NEW j, DataSink(j), ~Given(j), NEW y \in Nat, started >= y,
         y + 1 <= Long
  PROVE  started' >= y + 1
<1>1. started' = Count(started, Long)  BY DEF DataSink, Given
<1>2. started \in Nat /\ Long \in Nat /\ started <= Long
  BY Bounds DEF TypeInv, CountsOK
<1> QED BY <1>1, <1>2 DEF Count

\* What has been handed over.
LEMMA WholeIs ==
  ASSUME TypeInv, NEW j, DataSink(j), NEW m \in Modes
  PROVE  /\ ~NextCycle(m, j) /\ whole[m].now => whole'[m].now
         /\ Given(j) /\ IsWhole(m, Queued(j)[m], j) /\ Queued(j)[m].start = CycleStart(m, j)
              => whole'[m].now
         /\ NextCycle(m, j) /\ whole[m].now => whole'[m].before
         /\ ~NextCycle(m, j) /\ whole[m].before => whole'[m].before
         /\ clean'[m].now => /\ Shift(clean, m, j, ~tx /\ FramesReady(m, j) <= Block).now
                             /\ ~Late(m, j)
         /\ clean'[m].before = Shift(clean, m, j, ~tx /\ FramesReady(m, j) <= Block).before
<1> DEFINE given == Given(j) /\ IsWhole(m, Queued(j)[m], j)
           here == Queued(j)[m].start = CycleStart(m, j)
           w == Shift(whole, m, j, FALSE)
           c == Shift(clean, m, j, ~tx /\ FramesReady(m, j) <= Block)
<1>1. whole'[m] = [now |-> w.now \/ (given /\ here), before |-> w.before \/ (given /\ ~here)]
  BY DEF DataSink, Given
<1>2. clean'[m] = [now |-> c.now /\ ~Late(m, j), before |-> c.before]
  BY DEF DataSink
<1>3. whole'[m].now = (w.now \/ (given /\ here)) /\ whole'[m].before = (w.before \/ (given /\ ~here))
  BY <1>1
<1>4. /\ NextCycle(m, j) => w.before = whole[m].now
      /\ ~NextCycle(m, j) => w = whole[m]
  BY DEF Shift
<1> HIDE DEF w, given, here, c
<1>5. clean'[m].now = (c.now /\ ~Late(m, j)) /\ clean'[m].before = c.before
  BY <1>2
<1> QED BY <1>3, <1>4, <1>5 DEF given, here, c

\* A whole piece that is queued is handed over, or else the decoder was started
\* too short a time ago.
LEMMA PieceStep ==
  ASSUME NEW m, InCycle(m), MustTake(m), Wait <= FramesReady(m, k'),
         Queued(k')[m].start = CycleStart(m, k'), IsWhole(m, Queued(k')[m], k'),
         NEW y \in Nat, started >= y, y + 1 <= Prompt(m)
  PROVE  whole'[m].now \/ (Waiting(m)' /\ started' >= y + 1 /\ y + 1 < Prompt(m))
<1>1. /\ m \in Modes /\ DataSink(k') /\ heard' = k' /\ TypeInv
      /\ Prompt(m) \in Nat /\ Prompt(m) <= Long
  BY Here DEF InCycle
<1>2. Queued(k')[m] # None  BY DEF IsWhole, Intact
<1>3. (started + 1 >= Prompt(m) => Given(k')) /\ started \in Nat
  BY <1>1, <1>2, Starts DEF Given
<1>4. CASE Given(k')  BY <1>1, <1>4, WholeIs
<1>5. CASE ~Given(k')
  <2>1. started' >= y + 1
    <3>1. Long \in Nat  BY Bounds
    <3>2. y + 1 <= Long  BY <1>1, <3>1
    <3> QED BY <1>1, <1>5, <3>2, CountedOn
  <2>2. queue'[m] = Queued(k')[m]  BY <1>1, <1>5, DataSinkIs
  <2>3. Waiting(m)'  BY <1>1, <2>2 DEF Waiting, IsWhole, Intact
  <2>4. y + 1 < Prompt(m)  BY <1>1, <1>3, <1>5
  <2> QED BY <2>1, <2>3, <2>4
<1> QED BY <1>4, <1>5

\* Eight blocks after First a whole piece is due, and one is queued from then on
\* until it is handed over.
LEMMA PieceQueued ==
  ASSUME NEW m, InCycle(m), NEW l \in Nat, Phase(m, FramesReady(m, k'), 8 + l),
         l = 0 \/ Waiting(m)
  PROVE  /\ Queued(k')[m].start = CycleStart(m, k') /\ IsWhole(m, Queued(k')[m], k')
         /\ 48000 <= FramesReady(m, k') /\ Symbols(m) <= FramesReady(m, k')
<1> DEFINE j == k'  s == CycleStart(m, j)  g == FramesReady(m, j)
           need == StartDelay(m) + Symbols(m)  a == First(m)
<1>1. /\ m \in Modes /\ InRing(j) /\ DataSink(j) /\ s \in Nat /\ g \in Nat /\ j = s + g
      /\ j = heard + Block /\ s = CycleStart(m, heard) /\ j \in Nat /\ heard \in Nat
  BY Here DEF InCycle, TypeInv, RingOK, InRing
<1>2. TypeInv /\ m \in Modes \ AutoSync  BY DEF InCycle
<1>3. /\ need \in Nat /\ need <= a + 8 * Block /\ a \in Nat /\ 29400 <= a
      /\ Symbols(m) = a + 18000
  BY <1>1, FirstIs
<1>4. need <= g /\ 48000 <= g /\ Symbols(m) <= g
  <2>1. a + (8 + l) * Block <= g  BY DEF Phase
  <2> HIDE DEF s, g, need, a
  <2>2. a + 8 * Block <= a + (8 + l) * Block  BY <1>3, Lengths, SMT
  <2>3. a + 8 * Block <= g  BY <1>1, <1>3, <2>1, <2>2, Lengths, SMT
  <2>4. /\ 48000 <= a + 8 * Block /\ a + 18000 <= a + 8 * Block /\ a + 8 * Block \in Nat
    BY <1>3, Lengths, SMT
  <2> QED BY <1>1, <1>3, <2>3, <2>4
<1>5. CASE Due(m, j)
  <2>1. Queued(j)[m] = [start |-> s, sz |-> g]  BY <1>1, <1>2, <1>5, DataSinkIs, DueOf
  <2> HIDE DEF s, g, need, a
  <2>2. g # 0 /\ s + g <= j  BY <1>1, <1>4
  <2> QED BY <1>4, <2>1, <2>2 DEF IsWhole, Intact, None, need, s, g, j
<1>6. CASE ~Due(m, j)
  <2>1. l # 0
    <3>1. 2 \in Nat /\ 0 \in 0..3 /\ 4 * 2 + 0 = 8 + 0  OBVIOUS
    <3>2. l = 0 => Phase(m, FramesReady(m, k'), 4 * 2 + 0)  BY <3>1
    <3> QED BY <1>6, <3>1, <3>2, PhaseStep
  <2>2. Queued(j)[m] = queue[m]  BY <1>1, <1>6, DataSinkIs
  <2>3. /\ queue[m] # None /\ queue[m].start + queue[m].sz <= heard
        /\ queue[m].sz >= need /\ queue[m].start = s
    BY <1>1, <2>1 DEF Waiting, IsWhole, Intact
  <2>4. queue[m].start + queue[m].sz <= j
    <3> DEFINE x == queue[m].start + queue[m].sz
    <3>1. queue[m] \in Ranges  BY <1>1, <1>2 DEF TypeInv, RingOK
    <3>2. x \in Nat /\ x <= heard  BY <2>3, <3>1 DEF Ranges
    <3> HIDE DEF x, j
    <3>3. x <= j  BY <1>1, <3>2, Lengths, SMT
    <3> QED BY <3>3 DEF x
  <2> QED BY <1>4, <2>2, <2>3, <2>4 DEF IsWhole, Intact
<1> QED BY <1>5, <1>6

\* The piece is handed over when the decoder is free.
LEMMA PieceStart ==
  ASSUME NEW m, InCycle(m), NEW l \in Nat, l + 1 <= Prompt(m),
         Phase(m, FramesReady(m, k'), 8 + l)
  PROVE  whole'[m].now \/ (Waiting(m)' /\ started' >= l + 1 /\ l + 1 < Prompt(m))
<1> DEFINE j == k'  f == FramesReady(m, heard)  g == FramesReady(m, j)
<1>1. /\ m \in Modes /\ DataSink(j) /\ g = f + Block /\ f \in Nat /\ g \in Nat /\ TypeInv
      /\ ~NextCycle(m, j) /\ started \in Nat /\ Prompt(m) \in Nat
  BY Here DEF InCycle, TypeInv, CountsOK
<1>2. whole[m].now \/ ((l = 0 \/ Waiting(m)) /\ started >= l)
  <2>1. CASE l = 0  BY <1>1, <2>1
  <2>2. CASE l # 0
    <3>1. Phase(m, f, 8 + (l - 1))
      <4> DEFINE p == 8 + (l - 1)
      <4>1. p \in Nat /\ p + 1 = 8 + l  BY <2>2
      <4>2. Phase(m, f + Block, p + 1)  BY <1>1, <4>1
      <4> HIDE DEF p
      <4>3. Phase(m, f, p)  BY <1>1, <4>1, <4>2, PhaseBefore
      <4> QED BY <4>3 DEF p
    <3>2. l - 1 \in Nat /\ (l - 1) + 1 = l /\ l < Prompt(m)  BY <1>1, <2>2
    <3> QED BY <3>1, <3>2 DEF InCycle, Listened
  <2> QED BY <2>1, <2>2
<1>3. CASE whole[m].now  BY <1>1, <1>3, WholeIs
<1>4. CASE (l = 0 \/ Waiting(m)) /\ started >= l
  <2>1. /\ Queued(j)[m].start = CycleStart(m, j) /\ IsWhole(m, Queued(j)[m], j)
        /\ 48000 <= g /\ Symbols(m) <= g
    BY <1>4, PieceQueued
  <2>2. Wait <= g /\ 2 * Second <= g
    <3> HIDE DEF g
    <3> QED BY <1>1, <2>1, WaitIs, Lengths
  <2>3. CASE ~whole[m].now
    <3>1. MustTake(m)  BY <2>1, <2>2, <2>3 DEF MustTake
    <3> QED BY <1>4, <2>1, <2>2, <3>1, PieceStep
  <2> QED BY <1>3, <2>3
<1> QED BY <1>2, <1>3, <1>4

\* Within a cycle.
LEMMA ListenedStep ==
  ASSUME NEW m, InCycle(m)
  PROVE  Listened(m)'
<1> DEFINE j == k'  s == CycleStart(m, j)  f == FramesReady(m, heard)  g == FramesReady(m, j)
<1>1. /\ m \in Modes /\ DataSink(j) /\ heard' = j /\ ~tx' /\ g = f + Block
      /\ f \in Nat /\ g \in Nat /\ TypeInv /\ ~NextCycle(m, j)
      /\ stopped = Quiet \/ stopped * Block >= f
      /\ Prompt(m) \in Nat /\ 4 <= Prompt(m) /\ Prompt(m)' = Prompt(m)
  BY Here DEF InCycle, Prompt
<1>2. stopped' = Quiet \/ stopped' * Block >= g
  <2>1. stopped' = Count(stopped, Quiet) /\ stopped \in 0..Quiet /\ Quiet \in Nat
    BY <1>1, Bounds DEF DataSink, TypeInv, CountsOK
  <2>2. CASE stopped = Quiet  BY <2>1, <2>2 DEF Count
  <2>3. CASE stopped # Quiet /\ stopped * Block >= f
    <3>1. stopped' = stopped + 1 /\ stopped \in Nat  BY <2>1, <2>3 DEF Count
    <3> HIDE DEF f, g
    <3>2. (stopped + 1) * Block >= g  BY <1>1, <2>3, <3>1, Lengths, SMT
    <3> QED BY <3>1, <3>2
  <2> QED BY <1>1, <2>2, <2>3
<1>3. Second <= g /\ g < First(m) => lastStart'[m] <= s + Early(m)
  BY EarlyStep
<1>4. ASSUME NEW n \in Nat, NEW l \in 0..3, Phase(m, g, 4 * n + l)
      PROVE  lastStart'[m] = j - l * Block
  BY <1>4, PhaseStep
<1>5. ASSUME NEW l \in Nat, Phase(m, g, 8 + l), l + 1 < Prompt(m)
      PROVE  whole'[m].now \/ (Waiting(m)' /\ started' >= l + 1)
  <2>1. l + 1 <= Prompt(m)  BY <1>1, <1>5
  <2> QED BY <1>5, <2>1, PieceStart
<1>6. g >= First(m) + (7 + Prompt(m)) * Block => whole'[m].now
  <2> SUFFICES ASSUME g >= First(m) + (7 + Prompt(m)) * Block PROVE whole'[m].now
    OBVIOUS
  <2> DEFINE a == First(m)  d == Prompt(m) - 1
  <2>1. a \in Nat /\ d \in Nat /\ d + 1 = Prompt(m)  BY <1>1, FirstIs
  <2>2. 7 + Prompt(m) = 8 + d  BY <1>1
  <2>3. g >= a + (8 + d) * Block  BY <2>2
  <2>4. CASE f >= a + (8 + d) * Block
    <3>1. whole[m].now  BY <2>2, <2>4 DEF InCycle, Listened
    <3> QED BY <1>1, <3>1, WholeIs
  <2>5. CASE ~(f >= a + (8 + d) * Block)
    <3> HIDE DEF a, f, g, d
    <3>1. a + (8 + d) * Block <= g /\ g < a + (8 + d + 1) * Block
      BY <1>1, <2>1, <2>3, <2>5, Lengths, SMT
    <3>2. Phase(m, FramesReady(m, k'), 8 + d)  BY <3>1 DEF Phase, a, g
    <3>3. d + 1 <= Prompt(m) /\ ~(d + 1 < Prompt(m))  BY <1>1, <2>1
    <3> QED BY <2>1, <3>2, <3>3, PieceStart
  <2> QED BY <2>4, <2>5
<1> QED BY <1>1, <1>2, <1>3, <1>4, <1>5, <1>6 DEF Listened

-----------------------------------------------------------------------------
(* The last Turbo cycle of a minute: it may end a block early, and then the   *)
(* piece that is due at block 205 has only till block 207.  Alone, and with   *)
(* two seconds to wait after a transmission, the speed finds the decoder free *)
(* by then, for what is due at blocks 192 and earlier is taken by block 195,  *)
(* and what is due at blocks 197 and 201 two blocks later.                    *)

Soon(y) == queue["Turbo"] = None \/ started >= y

LastAt(n) ==
  /\ n \in 192..194 => Soon(n - 191)
  /\ n \in {195, 199, 203} => queue["Turbo"] = None
  /\ n \in {196, 200, 204} => queue["Turbo"] = None /\ started >= 1
  /\ n \in {197, 201} => Soon(2)
  /\ n \in {198, 202} => Soon(3)
  /\ n \in {205, 206} => Waiting("Turbo") /\ started >= n - 203
  /\ n # 207

LastCycle ==
  clean["Turbo"].now /\ ~whole["Turbo"].now =>
    \A n \in 192..207 : heard = n * Block => LastAt(n)

LEMMA AloneIs ==
  /\ Alone => Modes = {"Turbo"} /\ "Turbo" \in Modes \ AutoSync
              /\ Wait = 24000 /\ Prompt("Turbo") = 4
  /\ \A m \in Modes : m = "Turbo" /\ ~Multi => Alone
<1>1. "Turbo" # "Slow" /\ "Turbo" # "Normal"  OBVIOUS
<1>2. "Turbo" \notin AutoSync  BY <1>1, ModesAre
<1>3. Alone => Modes = {"Turbo"} /\ Wait = 24000
  <2>1. Alone => Modes = {"Turbo"}  BY DEF Alone, Modes
  <2>2. Alone => Speed # "Slow"  BY <1>1 DEF Alone
  <2>3. Alone => Wait = 24000  BY <2>2, WaitIs
  <2> QED BY <2>1, <2>3
<1>4. Alone => Prompt("Turbo") = 4  BY <1>2, <1>3, PromptIs
<1>5. \A m \in Modes : m = "Turbo" /\ ~Multi => Alone  BY DEF Modes, Alone
<1> QED BY <1>2, <1>3, <1>4, <1>5

LEMMA LastReady ==
  ASSUME "Turbo" \in Modes, NEW n \in 188..208
  PROVE  FramesReady("Turbo", n * Block) = n * Block - 648000
<1> DEFINE j == n * Block
<1>1. Cycle("Turbo") = 72000  BY FirstIs
<1>2. FramesReady("Turbo", j) = j - ((j \div 72000) % (Minute \div 72000)) * 72000
  BY <1>1 DEF FramesReady, CycleStart
<1>3. j \in Nat /\ 648000 <= j /\ j < 720000  BY Lengths, SMT
<1> HIDE DEF j
<1>4. ((j \div 72000) % (Minute \div 72000)) * 72000 = 648000  BY <1>3, Lengths, SMT
<1>5. FramesReady("Turbo", j) = j - 648000  BY <1>2, <1>4
<1> QED BY <1>5 DEF j

\* When ranges are due there.
LEMMA LastDue ==
  ASSUME InCycle("Turbo"), Alone, NEW n \in 192..207, k' = n * Block
  PROVE  /\ heard = (n - 1) * Block
         /\ n >= 195 => Wait <= FramesReady("Turbo", k') /\ 2 * Second <= FramesReady("Turbo", k')
         /\ n >= 197 => Phase("Turbo", FramesReady("Turbo", k'), n - 197)
         /\ n >= 193 => (Due("Turbo", k') <=> n \in {197, 201, 205})
<1> DEFINE g == FramesReady("Turbo", k')
<1>1. /\ "Turbo" \in Modes /\ InRing(k') /\ k' = heard + Block /\ heard \in Nat
      /\ TypeInv /\ "Turbo" \in Modes \ AutoSync
  BY Here DEF InCycle, TypeInv, RingOK, InRing
<1>2. g = n * Block - 648000
  <2>1. n \in 188..208  OBVIOUS
  <2> QED BY <1>1, <2>1, LastReady
<1>3. heard = (n - 1) * Block  BY <1>1, Lengths, SMT
<1>4. First("Turbo") = 29400  BY <1>1, FirstIs
<1>5. n >= 195 => Wait <= g /\ 2 * Second <= g
  <2>1. Wait = 24000  BY AloneIs
  <2> HIDE DEF g
  <2> QED BY <1>2, <2>1, Lengths, SMT
<1>6. n >= 197 => Phase("Turbo", g, n - 197)
  <2> HIDE DEF g
  <2>1. n >= 197 => /\ 29400 + (n - 197) * Block <= g
                    /\ g < 29400 + (n - 197 + 1) * Block
    BY <1>2, Lengths, SMT
  <2> QED BY <1>4, <2>1 DEF Phase
<1>7. n \in 193..196 => ~Due("Turbo", k')
  <2>1. Due("Turbo", k') => g >= First("Turbo") \/ g < 18000  BY <1>1, DueOf
  <2> HIDE DEF g
  <2>2. n \in 193..196 => ~(g >= 29400) /\ ~(g < 18000)  BY <1>2, Lengths, SMT
  <2> QED BY <1>4, <2>1, <2>2
<1>8. n >= 197 => (Due("Turbo", k') <=> n \in {197, 201, 205})
  <2> SUFFICES ASSUME n >= 197 PROVE Due("Turbo", k') <=> n \in {197, 201, 205}
    OBVIOUS
  <2>1. PICK x \in Nat, l \in 0..3 : n - 197 = 4 * x + l
    <3>1. CASE n \in 197..200
      <4>1. 0 \in Nat /\ n - 197 \in 0..3 /\ n - 197 = 4 * 0 + (n - 197)  BY <3>1
      <4> QED BY <4>1
    <3>2. CASE n \in 201..204
      <4>1. 1 \in Nat /\ n - 201 \in 0..3 /\ n - 197 = 4 * 1 + (n - 201)  BY <3>2
      <4> QED BY <4>1
    <3>3. CASE n \in 205..207
      <4>1. 2 \in Nat /\ n - 205 \in 0..3 /\ n - 197 = 4 * 2 + (n - 205)  BY <3>3
      <4> QED BY <4>1
    <3>4. n \in 197..200 \/ n \in 201..204 \/ n \in 205..207  OBVIOUS
    <3> QED BY <3>1, <3>2, <3>3, <3>4
  <2>2. Due("Turbo", k') <=> l = 0  BY <1>6, <2>1, PhaseStep
  <2>3. l = 0 <=> n \in {197, 201, 205}  BY <2>1
  <2> QED BY <2>2, <2>3
<1>9. n >= 193 => n \in 193..196 \/ n >= 197  OBVIOUS
<1>10. n \in 193..196 => n \notin {197, 201, 205}  OBVIOUS
<1> QED BY <1>3, <1>5, <1>6, <1>7, <1>8, <1>9, <1>10

\* With one speed only, what is queued of it is all that is queued.
LEMMA SoonStep ==
  ASSUME InCycle("Turbo"), Alone, NEW y \in 0..2,
         started >= y \/ (queue["Turbo"] = None /\ ~Due("Turbo", k'))
  PROVE  Soon(y + 1)'
<1>1. "Turbo" \in Modes /\ DataSink(k') /\ TypeInv  BY Here DEF InCycle
<1>2. /\ Queued(k')["Turbo"] = IF Due("Turbo", k') THEN Range("Turbo", k') ELSE queue["Turbo"]
      /\ queue'["Turbo"] = IF Given(k') THEN None ELSE Queued(k')["Turbo"]
  BY <1>1, DataSinkIs
<1>3. CASE Given(k') \/ (queue["Turbo"] = None /\ ~Due("Turbo", k'))
  BY <1>2, <1>3 DEF Soon
<1>4. CASE ~Given(k') /\ started >= y
  <2>1. y \in Nat /\ y + 1 <= Long  BY Bounds
  <2>2. started' >= y + 1  BY <1>1, <1>4, <2>1, CountedOn
  <2> QED BY <2>2 DEF Soon
<1> QED BY <1>3, <1>4

LEMMA SoonEnds ==
  ASSUME InCycle("Turbo"), Alone, MustTake("Turbo"), Wait <= FramesReady("Turbo", k'),
         ~Due("Turbo", k'), Soon(3)
  PROVE  queue'["Turbo"] = None
<1>1. "Turbo" \in Modes /\ DataSink(k')  BY Here
<1>2. /\ Queued(k')["Turbo"] = queue["Turbo"]
      /\ queue'["Turbo"] = IF Given(k') THEN None ELSE Queued(k')["Turbo"]
  BY <1>1, DataSinkIs
<1>3. started >= 3 => MayStart
  <2>1. started \in Nat /\ (started + 1 >= Prompt("Turbo") => MayStart)  BY Starts
  <2>2. Prompt("Turbo") = 4  BY AloneIs
  <2> QED BY <2>1, <2>2
<1> QED BY <1>1, <1>2, <1>3 DEF Soon, Given

LEMMA SoonNone ==
  ASSUME InCycle("Turbo"), Alone, ~Due("Turbo", k'), queue["Turbo"] = None
  PROVE  queue'["Turbo"] = None /\ started' >= 1
<1>1. "Turbo" \in Modes /\ DataSink(k') /\ TypeInv  BY Here DEF InCycle
<1>2. /\ Queued(k')["Turbo"] = None
      /\ queue'["Turbo"] = IF Given(k') THEN None ELSE Queued(k')["Turbo"]
  BY <1>1, DataSinkIs
<1>3. ~Given(k')  BY <1>2, AloneIs DEF Given
<1>4. 0 \in Nat /\ started >= 0 /\ 0 + 1 <= Long
  BY <1>1, Bounds DEF TypeInv, CountsOK
<1>5. started' >= 0 + 1  BY <1>1, <1>3, <1>4, CountedOn
<1> QED BY <1>2, <1>5

LEMMA LastStep ==
  ASSUME InCycle("Turbo"), Alone, LastCycle
  PROVE  LastCycle'
<1> SUFFICES ASSUME NEW n \in 192..207, heard' = n * Block, ~whole'["Turbo"].now
             PROVE  LastAt(n)'
  BY DEF LastCycle
<1>1. k' = n * Block /\ clean["Turbo"].now /\ ~whole["Turbo"].now
  BY Here, WholeIs DEF InCycle
<1>2. /\ heard = (n - 1) * Block
      /\ n >= 195 => Wait <= FramesReady("Turbo", k') /\ MustTake("Turbo")
      /\ n >= 197 => Phase("Turbo", FramesReady("Turbo", k'), n - 197)
      /\ n >= 193 => (Due("Turbo", k') <=> n \in {197, 201, 205})
  BY <1>1, LastDue DEF MustTake
<1>3. n # 192 => LastAt(n - 1)
  <2>1. n # 192 => n - 1 \in 192..207  OBVIOUS
  <2> QED BY <1>1, <1>2, <2>1 DEF LastCycle
<1>4. started \in Nat /\ "Turbo" \in Modes /\ DataSink(k') /\ ~NextCycle("Turbo", k') /\ TypeInv
  BY Here DEF InCycle, TypeInv, CountsOK
<1>5. CASE n = 192
  <2>1. Soon(0 + 1)'
    <3>1. 0 \in 0..2 /\ started >= 0  BY <1>4
    <3> QED BY <3>1, SoonStep
  <2>2. n - 191 = 0 + 1  BY <1>5
  <2> QED BY <1>5, <2>1, <2>2 DEF LastAt
<1>6. CASE n \in {193, 194}
  <2>1. ~Due("Turbo", k') /\ Soon(n - 192)
    <3>1. n - 1 \in 192..194 /\ n - 1 - 191 = n - 192  BY <1>6
    <3> QED BY <1>2, <1>3, <1>6, <3>1 DEF LastAt
  <2>2. Soon(n - 192 + 1)'
    <3>1. n - 192 \in 0..2  BY <1>6
    <3> QED BY <2>1, <3>1, SoonStep DEF Soon
  <2>3. n - 192 + 1 = n - 191  BY <1>6
  <2> QED BY <1>6, <2>2, <2>3 DEF LastAt
<1>7. CASE n \in {195, 199, 203}
  <2>1. /\ ~Due("Turbo", k') /\ Soon(3) /\ Wait <= FramesReady("Turbo", k')
        /\ MustTake("Turbo")
    <3>1. n - 1 = 194 \/ n - 1 \in {198, 202}  BY <1>7
    <3>2. 194 - 191 = 3 /\ 194 \in 192..194  OBVIOUS
    <3> QED BY <1>2, <1>3, <1>7, <3>1, <3>2 DEF LastAt
  <2> QED BY <1>7, <2>1, SoonEnds DEF LastAt
<1>8. CASE n \in {196, 200, 204}
  <2>1. ~Due("Turbo", k') /\ queue["Turbo"] = None
    <3>1. n - 1 \in {195, 199, 203}  BY <1>8
    <3> QED BY <1>2, <1>3, <1>8, <3>1 DEF LastAt
  <2> QED BY <1>8, <2>1, SoonNone DEF LastAt
<1>9. CASE n \in {197, 201}
  <2>1. started >= 1
    <3>1. n - 1 \in {196, 200, 204}  BY <1>9
    <3> QED BY <1>3, <1>9, <3>1 DEF LastAt
  <2>2. Soon(1 + 1)'
    <3>1. 1 \in 0..2  OBVIOUS
    <3> QED BY <2>1, <3>1, SoonStep
  <2> QED BY <1>9, <2>2 DEF LastAt
<1>10. CASE n \in {198, 202}
  <2>1. ~Due("Turbo", k') /\ Soon(2)
    <3>1. n - 1 \in {197, 201}  BY <1>10
    <3> QED BY <1>2, <1>3, <1>10, <3>1 DEF LastAt
  <2>2. Soon(2 + 1)'
    <3>1. 2 \in 0..2  OBVIOUS
    <3> QED BY <2>1, <3>1, SoonStep DEF Soon
  <2> QED BY <1>10, <2>2 DEF LastAt
<1>11. CASE n = 205
  <2>1. started >= 1 /\ 1 \in Nat /\ 1 + 1 <= Prompt("Turbo")
    <3>1. n - 1 \in {196, 200, 204}  BY <1>11
    <3> QED BY <1>3, <1>11, <3>1, AloneIs DEF LastAt
  <2>2. /\ Queued(k')["Turbo"].start = CycleStart("Turbo", k')
        /\ IsWhole("Turbo", Queued(k')["Turbo"], k')
    <3>1. 0 \in Nat /\ n - 197 = 8 + 0  BY <1>11
    <3>2. Phase("Turbo", FramesReady("Turbo", k'), 8 + 0)  BY <1>2, <1>11, <3>1
    <3> QED BY <3>1, <3>2, PieceQueued
  <2>3. Wait <= FramesReady("Turbo", k') /\ MustTake("Turbo")  BY <1>2, <1>11
  <2>4. Waiting("Turbo")' /\ started' >= 1 + 1
    BY <2>1, <2>2, <2>3, PieceStep
  <2> QED BY <1>11, <2>4 DEF LastAt
<1>12. CASE n \in {206, 207}
  <2>1. Prompt("Turbo") = 4  BY AloneIs
  <2>2. Waiting("Turbo") /\ started >= n - 204
    <3>1. n - 1 \in {205, 206} /\ n - 1 - 203 = n - 204  BY <1>12
    <3> QED BY <1>3, <1>12, <3>1 DEF LastAt
  <2>3. Waiting("Turbo")' /\ started' >= n - 204 + 1 /\ n - 204 + 1 < Prompt("Turbo")
    <3>1. /\ Queued(k')["Turbo"].start = CycleStart("Turbo", k')
          /\ IsWhole("Turbo", Queued(k')["Turbo"], k')
      <4>1. n - 205 \in Nat /\ n - 197 = 8 + (n - 205)  BY <1>12
      <4>2. Phase("Turbo", FramesReady("Turbo", k'), 8 + (n - 205))  BY <1>2, <1>12, <4>1
      <4> QED BY <2>2, <4>1, <4>2, PieceQueued
    <3>2. /\ Wait <= FramesReady("Turbo", k') /\ MustTake("Turbo")
          /\ n - 204 \in Nat /\ n - 204 + 1 <= Prompt("Turbo")
      BY <1>2, <1>12, <2>1
    <3> QED BY <2>2, <3>1, <3>2, PieceStep
  <2>4. n = 206  BY <1>12, <2>1, <2>3
  <2> QED BY <2>3, <2>4 DEF LastAt
<1>13. \/ n = 192 \/ n \in {193, 194} \/ n \in {195, 199, 203} \/ n \in {196, 200, 204}
       \/ n \in {197, 201} \/ n \in {198, 202} \/ n = 205 \/ n \in {206, 207}
  OBVIOUS
<1> QED BY <1>5, <1>6, <1>7, <1>8, <1>9, <1>10, <1>11, <1>12, <1>13
-----------------------------------------------------------------------------
PeriodInv ==
  /\ \A m \in Modes \ AutoSync : Listened(m) /\ Kept(m)
  /\ Alone => LastCycle

\* The first block of a cycle.
LEMMA CycleBegins ==
  ASSUME TypeInv, OnGrid(k), Frames, NEW m \in Modes \ AutoSync,
         NextCycle(m, k'), clean'[m].now
  PROVE  Listened(m)' /\ (m = "Turbo" => LastCycle')
<1> DEFINE j == k'  g == FramesReady(m, j)
<1>1. /\ m \in Modes /\ m \in Speeds /\ InRing(j) /\ DataSink(j) /\ heard' = j /\ tx' = tx
      /\ j \in Nat
  BY ModeIs, FramesOK, GridStep
<1>2. Shift(clean, m, j, ~tx /\ g <= Block).now  BY <1>1, WholeIs
<1>3. ~tx /\ g <= Block
  <2> DEFINE b == ~tx /\ g <= Block
  <2>1. Shift(clean, m, j, b) = [now |-> b, before |-> clean[m].now]  BY DEF Shift
  <2>2. Shift(clean, m, j, b).now  BY <1>2
  <2> HIDE DEF b
  <2>3. b  BY <2>1, <2>2
  <2> QED BY <2>3 DEF b
<1>4. g \in Nat /\ First(m) \in Nat /\ 29400 <= First(m)
  BY <1>1, CycleStartIs, FirstIs DEF InRing
<1>5. stopped' = Quiet \/ stopped' * Block >= g
  <2>1. stopped' = Count(stopped, Quiet) /\ stopped \in 0..Quiet /\ Quiet \in Nat /\ 6 <= Quiet
    BY <1>1, Bounds DEF DataSink, TypeInv, CountsOK
  <2>2. stopped' \in Nat /\ stopped' >= 1  BY <2>1 DEF Count
  <2>3. \A n \in Nat : n >= 1 => n * Block >= Block /\ n * Block \in Nat
    BY Lengths, SMT
  <2> HIDE DEF g
  <2>4. \A x, y \in Nat : x >= Block /\ y <= Block => x >= y  BY Lengths, SMT
  <2> QED BY <1>3, <1>4, <2>2, <2>3, <2>4
<1>6. ~(Second <= g) /\ ~(g >= First(m) + (7 + Prompt(m)) * Block)
      /\ \A p \in Nat : ~(First(m) + p * Block <= g)
  <2> DEFINE a == First(m)  p0 == Prompt(m)
  <2>1. a \in Nat /\ 29400 <= a /\ p0 \in Nat  BY <1>1, <1>4, PromptIs
  <2> HIDE DEF g, a, p0
  <2>2. ~(Second <= g) /\ ~(g >= a + (7 + p0) * Block)
    BY <1>3, <1>4, <2>1, Lengths, SMT
  <2>3. ASSUME NEW p \in Nat PROVE ~(a + p * Block <= g)
    BY <1>3, <1>4, <2>1, Lengths, SMT
  <2> QED BY <2>2, <2>3 DEF a, p0
<1>7. Listened(m)'
  <2>1. ASSUME NEW n \in Nat, NEW l \in 0..3 PROVE ~Phase(m, g, 4 * n + l)
    <3>1. 4 * n + l \in Nat  OBVIOUS
    <3> QED BY <1>6, <3>1 DEF Phase
  <2>2. ASSUME NEW l \in Nat PROVE ~Phase(m, g, 8 + l)
    <3>1. 8 + l \in Nat  OBVIOUS
    <3> QED BY <1>6, <3>1 DEF Phase
  <2>3. k' = heard' /\ ~tx' /\ Prompt(m)' = Prompt(m)  BY <1>1, <1>3 DEF Prompt
  <2> QED BY <1>1, <1>5, <1>6, <2>1, <2>2, <2>3 DEF Listened
<1>8. ASSUME m = "Turbo" PROVE LastCycle'
  <2> SUFFICES ASSUME NEW n \in 192..207, heard' = n * Block PROVE FALSE
    BY DEF LastCycle
  <2>1. g = n * Block - 648000
    <3>1. n \in 188..208  OBVIOUS
    <3> QED BY <1>1, <1>8, <3>1, LastReady
  <2> HIDE DEF g
  <2> QED BY <1>3, <2>1, Lengths, SMT
<1> QED BY <1>7, <1>8

\* A cycle that was listened to has been handed over when the next one begins.
LEMMA CycleEnds ==
  ASSUME TypeInv, OnGrid(k), PeriodInv, Frames, NEW m \in Modes \ AutoSync,
         NextCycle(m, k'), clean[m].now,
         m = "Turbo" => Alone \/ CycleStart(m, k') # 0
  PROVE  whole[m].now
<1>1. Listened(m) /\ (Alone => LastCycle) /\ m \in Modes  BY DEF PeriodInv
<1>2. k = heard  BY <1>1 DEF Listened
<1>3. /\ FramesReady(m, heard) \in Nat /\ FramesReady(m, heard) >= Cycle(m) - 4608
      /\ m = "Turbo" => \/ FramesReady(m, heard) >= First(m) + 11 * Block
                        \/ heard = 207 * Block
  BY <1>1, <1>2, LastBlock
<1> DEFINE f == FramesReady(m, heard)  e == First(m) + (7 + Prompt(m)) * Block
           c == Cycle(m) - 4608
<1>4. f >= e \/ (Alone /\ m = "Turbo" /\ heard = 207 * Block)
  <2>1. CASE m # "Turbo"
    <3>1. c \in Int /\ e <= c  BY <1>1, <2>1, ModeIs, FitsIs
    <3>2. e \in Int
      <4>1. First(m) \in Nat /\ Prompt(m) \in Nat  BY <1>1, FirstIs, PromptIs
      <4> QED BY <4>1, Lengths, SMT
    <3>3. f \in Int /\ f >= c  BY <1>3
    <3> HIDE DEF f, e, c
    <3> QED BY <3>1, <3>2, <3>3
  <2>2. CASE m = "Turbo"
    <3>1. 7 + Prompt(m) = 11
      <4>1. Prompt(m) = 4  BY <1>1, <2>2, PromptIs
      <4> QED BY <4>1
    <3>2. heard = 207 * Block => Alone
      <4> SUFFICES ASSUME heard = 207 * Block PROVE CycleStart(m, k') = 0
        BY <2>2
      <4>1. k' = Block \/ k' = 208 * Block  BY <1>2, FramesOK, Lengths, SMT
      <4>2. \A j : CycleStart(m, j) = ((j \div 72000) % (Minute \div 72000)) * 72000
        BY <1>1, <2>2, FirstIs DEF CycleStart
      <4>3. CASE k' = Block  BY <4>2, <4>3, Lengths, SMT
      <4>4. CASE k' = 208 * Block
        <5>1. CycleStart(m, k') = 648000 /\ CycleStart(m, heard) = 648000
          BY <4>2, <4>4, Lengths, SMT
        <5> QED BY <5>1 DEF NextCycle
      <4> QED BY <4>1, <4>3, <4>4
    <3> QED BY <1>3, <2>2, <3>1, <3>2
  <2> QED BY <2>1, <2>2
<1>5. CASE f >= e  BY <1>1, <1>5 DEF Listened
<1>6. CASE Alone /\ m = "Turbo" /\ heard = 207 * Block
  <2>1. 207 \in 192..207  OBVIOUS
  <2>2. ~LastAt(207)  BY DEF LastAt
  <2> QED BY <1>1, <1>6, <2>1, <2>2 DEF LastCycle
<1> QED BY <1>4, <1>5, <1>6

LEMMA FramesPeriod ==
  ASSUME TypeInv, OnGrid(k), PeriodInv, Frames
  PROVE  PeriodInv'
<1>1. ASSUME NEW m \in Modes \ AutoSync
      PROVE  Listened(m)' /\ Kept(m)' /\ (Alone => LastCycle')
  <2>1. /\ Listened(m) /\ Kept(m) /\ (Alone => LastCycle)
        /\ Alone => m = "Turbo"
    BY AloneIs DEF PeriodInv
  <2>2. m \in Modes /\ DataSink(k')  BY FramesOK
  <2>3. /\ clean'[m].now => /\ Shift(clean, m, k', ~tx /\ FramesReady(m, k') <= Block).now
                          /\ ~Late(m, k')
        /\ clean'[m].before = Shift(clean, m, k', ~tx /\ FramesReady(m, k') <= Block).before
    BY <2>2, WholeIs
  <2>4. CASE NextCycle(m, k')
    <3>1. Listened(m)' /\ (Alone => LastCycle')
      <4>1. CASE clean'[m].now  BY <2>1, <2>4, <4>1, CycleBegins
      <4>2. CASE ~clean'[m].now  BY <2>1, <4>2 DEF Listened, LastCycle
      <4> QED BY <4>1, <4>2
    <3>0. heard' = k'  BY <2>2 DEF DataSink
    <3>2. ASSUME clean'[m].before, m = "Turbo" => Alone \/ CycleStart(m, k') # 0
          PROVE  whole'[m].before
      <4>1. clean[m].now  BY <2>3, <2>4, <3>2 DEF Shift
      <4>2. whole[m].now  BY <2>4, <3>2, <4>1, CycleEnds
      <4> QED BY <2>2, <2>4, <4>2, WholeIs
    <3>3. Kept(m)'
      <4>1. CycleStart(m, heard)' = CycleStart(m, k')  BY <3>0 DEF CycleStart
      <4> QED BY <3>2, <4>1 DEF Kept, Alone
    <3> QED BY <3>1, <3>3
  <2>5. CASE ~NextCycle(m, k')
    <3>1. clean'[m].before = clean[m].before /\ (clean'[m].now => clean[m].now /\ ~Late(m, k'))
      BY <2>3, <2>5 DEF Shift
    <3>2. Kept(m)'
      <4>1. heard' = k'  BY <2>2 DEF DataSink
      <4>2. CycleStart(m, heard)' = CycleStart(m, heard)
        BY <2>5, <4>1 DEF NextCycle, CycleStart
      <4> QED BY <2>1, <2>2, <2>5, <3>1, <4>2, WholeIs DEF Kept, Alone
    <3>3. CASE clean'[m].now
      <4>1. InCycle(m)  BY <2>1, <2>5, <3>1, <3>3 DEF InCycle
      <4>2. Listened(m)'  BY <4>1, ListenedStep
      <4>3. Alone => LastCycle'  BY <2>1, <4>1, LastStep
      <4> QED BY <3>2, <4>2, <4>3
    <3>4. CASE ~clean'[m].now  BY <2>1, <3>2, <3>4 DEF Listened, LastCycle
    <3> QED BY <3>3, <3>4
  <2> QED BY <2>4, <2>5
<1>2. Alone => "Turbo" \in Modes \ AutoSync  BY AloneIs
<1>3. (\A m \in Modes \ AutoSync : Listened(m) /\ Kept(m))'
  BY <1>1 DEF Modes, AutoSync
<1>4. (Alone => LastCycle)'  BY <1>1, <1>2 DEF Alone
<1> QED BY <1>3, <1>4 DEF PeriodInv

LEMMA NextPeriod == TypeInv /\ OnGrid(k) /\ PeriodInv /\ [Next]_vars => PeriodInv'
<1> SUFFICES ASSUME TypeInv, OnGrid(k), PeriodInv, [Next]_vars PROVE PeriodInv'
  OBVIOUS
<1>0. Alone => "Turbo" \in Modes \ AutoSync  BY AloneIs
<1>1. ASSUME \A m \in Modes : ~clean'[m].now,
             \A m \in Modes : clean'[m].before => clean[m].before, whole' = whole,
             heard' = heard
      PROVE  PeriodInv'
  BY <1>1, <1>0 DEF PeriodInv, Listened, Kept, LastCycle
<1>2. CASE Frames  BY <1>2, FramesPeriod
<1>3. CASE DecodeDone \/ UNCHANGED vars
  <2>1. UNCHANGED <<k, heard, lastStart, queue, started, tx, stopped, clean, whole>>
    BY <1>3 DEF DecodeDone, vars
  <2>2. ASSUME NEW m \in Modes \ AutoSync PROVE Listened(m)' /\ Kept(m)'
    <3>1. Listened(m) /\ Kept(m)  BY DEF PeriodInv
    <3> QED BY <2>1, <3>1 DEF Listened, Kept, Waiting
  <2>3. Alone => LastCycle'
    BY <2>1 DEF PeriodInv, LastCycle, LastAt, Soon, Waiting
  <2> QED BY <2>2, <2>3 DEF PeriodInv
<1>4. clean \in [Modes -> [now : BOOLEAN, before : BOOLEAN]]
  BY DEF TypeInv, HistoryOK
<1>5. CASE TxStart
  <2>1. /\ clean' = [m \in Modes |-> [clean[m] EXCEPT !.now = FALSE]]
        /\ whole' = whole /\ heard' = heard
    BY <1>5 DEF TxStart
  <2>2. \A m \in Modes : ~clean'[m].now /\ clean'[m].before = clean[m].before
    BY <1>4, <2>1
  <2> QED BY <1>1, <2>1, <2>2
<1>6. CASE TxStop
  <2>1. tx /\ UNCHANGED <<clean, whole, heard>>  BY <1>6 DEF TxStop
  <2>2. ASSUME NEW m \in Modes \ AutoSync PROVE ~clean[m].now
    BY <2>1 DEF PeriodInv, Listened
  <2>3. ASSUME NEW m \in Modes \ AutoSync PROVE Listened(m)' /\ Kept(m)'
    <3>1. Kept(m)  BY DEF PeriodInv
    <3> QED BY <2>1, <2>2, <3>1 DEF Listened, Kept
  <2>4. Alone => LastCycle'
    BY <1>0, <2>1, <2>2 DEF LastCycle
  <2> QED BY <2>3, <2>4 DEF PeriodInv
<1>7. CASE Drift
  <2>1. /\ clean' = [m \in Modes |-> [now |-> FALSE, before |-> FALSE]]
        /\ whole' = whole /\ heard' = heard
    BY <1>7 DEF Drift
  <2>2. \A m \in Modes : ~clean'[m].now /\ ~clean'[m].before  BY <2>1
  <2> QED BY <1>1, <2>1, <2>2
<1> QED BY <1>2, <1>3, <1>5, <1>6, <1>7 DEF Next

LEMMA InitPeriod == Init => PeriodInv
<1> SUFFICES ASSUME Init PROVE PeriodInv
  OBVIOUS
<1>1. \A m \in Modes : ~clean[m].now /\ ~clean[m].before  BY DEF Init
<1>2. Alone => "Turbo" \in Modes  BY AloneIs
<1> QED BY <1>1, <1>2 DEF PeriodInv, Listened, Kept, LastCycle

LEMMA PeriodInvariance == Spec => []PeriodInv
<1>1. TypeInv /\ SignalInv /\ PeriodInv /\ [Next]_vars => PeriodInv'
  BY NextPeriod DEF SignalInv
<1> QED BY <1>1, InitPeriod, TypeInvariance, SignalInvariance, PTL DEF Spec

\* A cycle of a speed that was listened to from beginning to end has, two seconds
\* into the next one, been handed over with the whole of a transmission in it,
\* unless a decode lasted too long in the meantime, whatever other speeds are
\* decoded and whichever is sent at: the bounds are 5 blocks for Normal, 4 for Fast
\* and Turbo and 13 for Slow.  The last Turbo cycle of a minute has no room for the
\* second between two starts, and is covered where Turbo is the only speed
\* (decodeEnqueueReadyExperiment, decodeProcessQueue, decode).
THEOREM EveryPeriodAlways == Spec => []EveryPeriod
<1>1. ASSUME PeriodInv, NEW m \in Modes \ AutoSync,
             m = "Turbo" /\ Multi => CycleStart(m, heard) # 0
      PROVE  InTime(m)
  <2>1. m = "Turbo" => Alone \/ CycleStart(m, heard) # 0  BY <1>1, AloneIs
  <2> QED BY <1>1, <2>1 DEF PeriodInv, Kept, InTime
<1>2. PeriodInv => EveryPeriod  BY <1>1 DEF EveryPeriod
<1> QED BY <1>2, PeriodInvariance, PTL
=============================================================================
