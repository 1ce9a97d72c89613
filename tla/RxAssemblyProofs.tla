-------------------------- MODULE RxAssemblyProofs --------------------------
(***************************************************************************)
(* Proofs about RxAssembly: every field keeps its type, no buffer outlives *)
(* its time, no message is acted upon twice, a command is told by one      *)
(* message, and a message heard frame by frame is acted upon as a whole.   *)
(***************************************************************************)
EXTENDS RxAssembly, SequenceTheorems, FiniteSetTheorems, WellFoundedInduction, TLAPS

-----------------------------------------------------------------------------
(* Arithmetic of the clock.                                                *)

\* Division with remainder.
LEMMA DivMod ==
  ASSUME NEW n \in Nat, NEW P \in Nat \ {0}
  PROVE  n % P \in 0..P - 1 /\ n \div P \in Int /\ n = P * (n \div P) + (n % P)
  BY SMT

\* A multiple of P that is not zero is P at least.
LEMMA MultipleAtLeast ==
  ASSUME NEW P \in Nat \ {0}, NEW d \in Int, d >= 1
  PROVE  P * d >= P
  BY SMT

\* A number has one remainder.
LEMMA OneRemainder ==
  ASSUME NEW P \in Nat \ {0}, NEW q \in Int, NEW r \in 0..P - 1,
         NEW u \in Int, NEW v \in 0..P - 1, P * q + r = P * u + v
  PROVE  r = v
<1>1. P * (q - u) = v - r /\ P * (u - q) = r - v  BY SMT
<1>2. v - r < P /\ r - v < P  OBVIOUS
<1>3. ~(q - u >= 1)  BY <1>1, <1>2, MultipleAtLeast, q - u \in Int
<1>4. ~(u - q >= 1)  BY <1>1, <1>2, MultipleAtLeast, u - q \in Int
<1>5. q = u  BY <1>3, <1>4
<1> QED BY <1>1, <1>5

\* Unless the next second begins a period, it is one second further into one.
LEMMA NextInPeriod ==
  ASSUME NEW n \in Nat, NEW P \in Nat \ {0}, (n + 1) % P # 0
  PROVE  (n + 1) % P = (n % P) + 1
<1> DEFINE q == n \div P  r == n % P  u == (n + 1) \div P  v == (n + 1) % P
<1>1. q \in Int /\ r \in 0..P - 1 /\ n = P * q + r  BY DivMod
<1>2. n + 1 \in Nat  OBVIOUS
<1>3. u \in Int /\ v \in 0..P - 1 /\ n + 1 = P * u + v  BY <1>2, DivMod
<1>4. v # 0  OBVIOUS
<1> HIDE DEF q, r, u, v
<1>5. P * q \in Int /\ P * (q + 1) = P * q + P  BY <1>1
<1>6. CASE r + 1 = P
  <2>1. P * (q + 1) + 0 = P * u + v  BY <1>1, <1>3, <1>5, <1>6
  <2>2. q + 1 \in Int /\ 0 \in 0..P - 1  BY <1>1
  <2>3. 0 = v  BY <2>1, <2>2, <1>3, OneRemainder
  <2> QED BY <2>3, <1>4
<1>7. CASE r + 1 # P
  <2>1. r + 1 \in 0..P - 1  BY <1>1, <1>7
  <2>2. P * q + (r + 1) = P * u + v  BY <1>1, <1>3, <1>5
  <2>3. r + 1 = v  BY <2>1, <2>2, <1>1, <1>3, OneRemainder
  <2> QED BY <2>3 DEF r, v
<1> QED BY <1>6, <1>7

\* The same on a clock that starts again after a whole number of periods.
LEMMA NextSecond ==
  ASSUME NEW n \in 0..Day - 1, ((n + 1) % Day) % Period # 0
  PROVE  ((n + 1) % Day) % Period = (n % Period) + 1
<1> USE RxAssumption
<1>1. Day \in Nat \ {0} /\ Period \in Nat \ {0} /\ n \in Nat  OBVIOUS
<1>2. CASE n + 1 < Day
  <2>1. (n + 1) % Day = n + 1  BY <1>1, <1>2, SMT
  <2>2. (n + 1) % Period # 0  BY <2>1, Zenon
  <2>3. (n + 1) % Period = (n % Period) + 1  BY <1>1, <2>2, NextInPeriod
  <2> QED BY <2>1, <2>3, Zenon
<1>3. CASE n + 1 = Day
  <2>1. (n + 1) % Day = 0  BY <1>1, <1>3, SMT
  <2>2. 0 % Period = 0  BY <1>1, SMT
  <2> QED BY <2>1, <2>2
<1> QED BY <1>1, <1>2, <1>3

-----------------------------------------------------------------------------
(* The inductive invariant.                                                *)

\* What the parts of frames and buffers may be.
KeyType ==
  {k \in [type : {"heartbeat", "compound", "directed", "data"}, from : Calls, to : Calls,
          cmd : Cmds, text : Texts \cup {""}] : k.type = "data" => k.text \in Texts}
FrameType == [key : KeyType, first : BOOLEAN, last : BOOLEAN]
AnyIdle == [mfi : BOOLEAN, last : BOOLEAN, age : Ages]
Cached == [key : {f.key : f \in Frames}, offset : Offsets, age : Ages]

\* Buffers that are not older than n seconds.
YoungBuffer(n) == {b \in BufferType : Fresh(b, n)}

\* f is a map from offsets to elements of S.
MapTo(f, S) == DOMAIN f \subseteq Offsets /\ \A o \in DOMAIN f : f[o] \in S

Fields == {"buffers", "band", "cache", "pending", "commands"}

\* The members of MainWindow, with the buffers in S.
RxWith(r, S) ==
  /\ DOMAIN r = Fields
  /\ MapTo(r.buffers, S)
  /\ MapTo(r.band, AnyIdle)
  /\ r.cache \subseteq Cached /\ r.pending \in BOOLEAN /\ r.commands \in Seq(CommandType)

\* The history of what was sent and heard.
HistoryOK ==
  /\ sent \in Seq(Messages) /\ Len(sent) <= MaxMessages
  /\ missed \in BOOLEAN /\ headless \in BOOLEAN /\ whole \subseteq 1..Len(sent)
  /\ processed \in Seq(CommandType)

IInv ==
  /\ second \in 0..Day - 1 /\ lines \in 0..MaxLines /\ decoded \in BOOLEAN
  /\ place \in Places \cup {{}} /\ onAir \in Seq(Frames)
  /\ RxWith(rx, YoungBuffer(DropAfter + (second % Period)))
  /\ HistoryOK
  /\ onAir # << >> => sent # << >>

\* A nonempty set of natural numbers has a least element.
LEMMA LeastElement ==
  ASSUME NEW S \in SUBSET Nat, S # {}
  PROVE  \E x \in S : \A y \in S : x <= y
<1>1. PICK n \in S : \A m \in S : ~(<<m, n>> \in OpToRel(<, Nat))
  BY WFMin, NatLessThanWellFounded
<1>2. \A m \in S : n <= m
  <2>1. SUFFICES ASSUME NEW m \in S PROVE ~(m < n)
    OBVIOUS
  <2>2. <<m, n>> \in Nat \X Nat  OBVIOUS
  <2>3. m < n => <<m, n>> \in OpToRel(<, Nat)
    BY <2>2, Zenon DEF OpToRel
  <2> QED BY <1>1, <2>3, Zenon
<1> QED BY <1>2

\* The constants that are numbers.
LEMMA Numbers ==
  /\ Period \in Nat /\ Period > 2 /\ Day \in Nat \ {0}
  /\ CloseAfter \in Nat /\ DropAfter \in Nat /\ CloseAfter <= DropAfter
  /\ Threshold \in Nat /\ MaxMessages \in Nat /\ MaxLines \in Nat \ {0}
BY RxAssumption

\* The band is finite and has no negative offsets.
LEMMA OffsetFacts ==
  /\ Offsets \in SUBSET Nat /\ IsFiniteSet(Offsets) /\ Threshold \in Nat
  /\ \A P \in Places : P \subseteq Offsets /\ \A o, p \in P : o - p \in -Threshold..Threshold
BY RxAssumption DEF Offsets

-----------------------------------------------------------------------------
(* Sets of numbers from the lowest up.                                     *)

\* q names the elements of S upward.
Enumerates(q, S) ==
  /\ q \in [1..Cardinality(S) -> S]
  /\ \A i, j \in DOMAIN q : i < j => q[i] < q[j]

\* A set is enumerated by its least element and then the rest.
LEMMA EnumerateNext ==
  ASSUME NEW S \in SUBSET Nat, IsFiniteSet(S), NEW x \in S, \A y \in S : x <= y,
         NEW q, Enumerates(q, S \ {x})
  PROVE  Enumerates([i \in 1..Cardinality(S) |-> IF i = 1 THEN x ELSE q[i - 1]], S)
<1> DEFINE n == Cardinality(S)
           p == [i \in 1..n |-> IF i = 1 THEN x ELSE q[i - 1]]
<1>1. n \in Nat /\ Cardinality(S \ {x}) = n - 1
  BY FS_CardinalityType, FS_RemoveElement
<1> HIDE DEF n
<1>2. ASSUME NEW i \in 1..n, i # 1 PROVE i - 1 \in 1..n - 1 /\ p[i] = q[i - 1] /\ q[i - 1] \in S \ {x}
  <2>1. i - 1 \in 1..n - 1  BY <1>1, <1>2
  <2>2. q \in [1..n - 1 -> S \ {x}]  BY <1>1 DEF Enumerates
  <2>3. q[i - 1] \in S \ {x}  BY <2>1, <2>2
  <2> QED BY <1>2, <2>1, <2>3
<1>3. p \in [1..n -> S]  BY <1>2
<1>4. ASSUME NEW i \in 1..n, NEW j \in 1..n, i < j PROVE p[i] < p[j]
  <2>1. j # 1 /\ p[j] = q[j - 1] /\ q[j - 1] \in S \ {x}  BY <1>1, <1>2, <1>4
  <2>2. CASE i = 1
    <3>1. p[i] = x /\ x <= q[j - 1] /\ x # q[j - 1]  BY <2>1, <2>2
    <3>2. x \in Nat /\ q[j - 1] \in Nat  BY <2>1
    <3> HIDE DEF p
    <3> QED BY <2>1, <3>1, <3>2
  <2>3. CASE i # 1
    <3>1. i - 1 \in 1..n - 1 /\ j - 1 \in 1..n - 1 /\ i - 1 < j - 1  BY <1>1, <1>2, <1>4, <2>1, <2>3
    <3>2. q[i - 1] < q[j - 1]  BY <1>1, <3>1 DEF Enumerates
    <3> QED BY <1>2, <2>1, <2>3, <3>2
  <2> QED BY <2>2, <2>3
<1> QED BY <1>3, <1>4 DEF Enumerates, n

\* Every finite set of numbers is enumerated: one without would have a least size.
LEMMA Enumerated ==
  ASSUME NEW S \in SUBSET Nat, IsFiniteSet(S)
  PROVE  \E q : Enumerates(q, S)
<1> DEFINE Bad(n) == \E R \in SUBSET Nat : IsFiniteSet(R) /\ Cardinality(R) = n /\ ~\E q : Enumerates(q, R)
           T == {n \in Nat : Bad(n)}
<1>1. ASSUME T # {} PROVE FALSE
  <2>2. PICK n \in T : \A m \in T : n <= m
    <3>1. T \in SUBSET Nat  OBVIOUS
    <3> HIDE DEF T
    <3> QED BY <1>1, <3>1, LeastElement
  <2>3. PICK R \in SUBSET Nat : IsFiniteSet(R) /\ Cardinality(R) = n /\ ~\E q : Enumerates(q, R)
    OBVIOUS
  <2>4. R # {}
    <3>1. ASSUME R = {} PROVE FALSE
      <4>1. Cardinality(R) = 0  BY <3>1, FS_EmptySet
      <4>2. \A i \in 1..0 : FALSE  OBVIOUS
      <4>3. Enumerates([i \in 1..0 |-> i], R)  BY <4>1, <4>2 DEF Enumerates
      <4> QED BY <2>3, <4>3
    <3> QED BY <3>1
  <2>5. PICK x \in R : \A y \in R : x <= y
    BY <2>4, LeastElement
  <2>6. IsFiniteSet(R \ {x}) /\ Cardinality(R \ {x}) = n - 1 /\ n - 1 \in Nat
    <3>1. IsFiniteSet(R \ {x}) /\ Cardinality(R \ {x}) = n - 1  BY <2>3, FS_RemoveElement
    <3>2. Cardinality(R \ {x}) \in Nat  BY <3>1, FS_CardinalityType
    <3> QED BY <3>1, <3>2
  <2>7. ~Bad(n - 1)
    <3>1. n - 1 \notin T
      <4> HIDE DEF T
      <4>1. ~(n <= n - 1)  BY DEF T
      <4> QED BY <2>2, <4>1
    <3> QED BY <2>6, <3>1
  <2>8. R \ {x} \in SUBSET Nat  OBVIOUS
  <2>9. PICK q : Enumerates(q, R \ {x})  BY <2>6, <2>7, <2>8
  <2>10. \E p : Enumerates(p, R)  BY <2>3, <2>5, <2>9, EnumerateNext
  <2> QED BY <2>3, <2>10
<1>2. ~Bad(Cardinality(S))
  <2>1. Cardinality(S) \in Nat  BY FS_CardinalityType
  <2> QED BY <1>1, <2>1
<1> QED BY <1>2

\* Ascending names each element of a set once, upward.
LEMMA AscendingIs ==
  ASSUME NEW S \in SUBSET Nat, IsFiniteSet(S)
  PROVE  /\ Cardinality(S) \in Nat /\ Ascending(S) \in [1..Cardinality(S) -> S]
         /\ \A i, j \in 1..Cardinality(S) : i < j => Ascending(S)[i] < Ascending(S)[j]
         /\ \A i, j \in 1..Cardinality(S) : i # j => Ascending(S)[i] # Ascending(S)[j]
         /\ \A x \in S : \E i \in 1..Cardinality(S) : Ascending(S)[i] = x
<1> DEFINE n == Cardinality(S)
           q == Ascending(S)
<1>1. n \in Nat  BY FS_CardinalityType
<1>2. q \in [1..n -> S] /\ \A i, j \in DOMAIN q : i < j => q[i] < q[j]
  <2>1. PICK p : Enumerates(p, S)  BY Enumerated
  <2> QED BY <2>1 DEF Ascending, Enumerates
<1> HIDE DEF q
<1>3. \A i, j \in 1..n : i < j => q[i] < q[j]  BY <1>2
<1>4. ASSUME NEW i \in 1..n, NEW j \in 1..n, i # j PROVE q[i] # q[j]
  <2>1. i < j \/ j < i  BY <1>1, <1>4
  <2>2. q[i] \in Nat /\ q[j] \in Nat  BY <1>2
  <2> QED BY <1>3, <2>1, <2>2
<1>5. q \in Injection(1..n, S)  BY <1>2, <1>4 DEF Injection, IsInjective
<1>6. IsFiniteSet(1..n) /\ Cardinality(1..n) = n  BY <1>1, FS_Interval
<1>7. q \in Surjection(1..n, S)  BY <1>5, <1>6, FS_Injection
<1>8. \A x \in S : \E i \in 1..n : q[i] = x  BY <1>7 DEF Surjection
<1> QED BY <1>1, <1>2, <1>3, <1>4, <1>8 DEF q

-----------------------------------------------------------------------------
(* Maps from offsets.                                                      *)

\* Putting an element of S into a map to S.
LEMMA PutMap ==
  ASSUME NEW S, NEW f, MapTo(f, S), NEW o \in Offsets, NEW b \in S
  PROVE  MapTo(Put(f, o, b), S) /\ o \in DOMAIN Put(f, o, b)
  BY DEF MapTo, Put

\* Taking entries out of a map.
LEMMA WithoutMap ==
  ASSUME NEW S, NEW f, MapTo(f, S), NEW R
  PROVE  MapTo(Without(f, R), S)
  BY DEF MapTo, Without

\* Moving an entry of a map.
LEMMA MovedMap ==
  ASSUME NEW S, NEW f, MapTo(f, S), NEW o \in Offsets
  PROVE  MapTo(Moved(f, o), S) /\ (Near(f, o) # {} => o \in DOMAIN Moved(f, o))
<1>1. CASE o \in DOMAIN f \/ Near(f, o) = {}
  BY <1>1 DEF Moved
<1>2. CASE ~(o \in DOMAIN f \/ Near(f, o) = {})
  <2> DEFINE prev == CHOOSE p \in Near(f, o) : \A q \in Near(f, o) : p <= q
  <2>1. Near(f, o) \in SUBSET Nat
    BY OffsetFacts DEF Near, MapTo
  <2>2. \E p \in Near(f, o) : \A q \in Near(f, o) : p <= q
    <3>1. Near(f, o) # {}  BY <1>2
    <3> QED BY <2>1, <3>1, LeastElement
  <2>3. prev \in Near(f, o)  BY <2>2
  <2>4. f[prev] \in S  BY <2>3 DEF Near, MapTo
  <2>5. MapTo(Without(f, {prev}), S)  BY WithoutMap
  <2>6. MapTo(Put(Without(f, {prev}), o, f[prev]), S)
        /\ o \in DOMAIN Put(Without(f, {prev}), o, f[prev])
    BY <2>4, <2>5, PutMap
  <2>7. Moved(f, o) = Put(Without(f, {prev}), o, f[prev])
    BY <1>2 DEF Moved
  <2> QED BY <2>6, <2>7
<1> QED BY <1>1, <1>2

\* Changing an entry of a map.
LEMMA ExceptMap ==
  ASSUME NEW S, NEW f, MapTo(f, S), NEW o \in DOMAIN f, NEW b \in S
  PROVE  MapTo([f EXCEPT ![o] = b], S)
  BY DEF MapTo

\* A map to S is a map to every larger set.
LEMMA MapMonotonic ==
  ASSUME NEW S, NEW T, S \subseteq T, NEW f, MapTo(f, S)
  PROVE  MapTo(f, T)
  BY DEF MapTo

-----------------------------------------------------------------------------
(* Buffers.                                                                *)

\* Zero is an age, and so is the age of what has been forgotten.
LEMMA AgeFacts == 0 \in Ages /\ OldAge \in Ages /\ OldAge \in Nat
  BY RxAssumption DEF Ages, OldAge

\* Young buffers are buffers, and the older of them include the younger.
LEMMA YoungMonotonic ==
  ASSUME NEW n \in Nat, NEW k \in Nat, n <= k
  PROVE  YoungBuffer(n) \subseteq YoungBuffer(k) /\ YoungBuffer(n) \subseteq BufferType
  BY DEF YoungBuffer, Fresh

\* A function on the numbers up to n is a sequence.
LEMMA FunctionIsSeq ==
  ASSUME NEW T, NEW n \in Nat, NEW f \in [1..n -> T]
  PROVE  f \in Seq(T)
  BY IsASeq

\* The calls, commands and texts of messages, and those that the program adds.
LEMMA CallFacts ==
  /\ "" \in Calls /\ "@HB" \in Calls /\ Partial \in Calls /\ "none" \in Cmds /\ Mfi \in Texts
  /\ \A m \in Messages : /\ m.from \in Calls /\ m.to \in Calls /\ m.cmd \in Cmds
                         /\ m.text \in Seq(Texts)
<1>1. /\ "" \in Calls /\ "@HB" \in Calls /\ Partial \in Calls /\ "none" \in Cmds /\ Mfi \in Texts
  <2>1. \A A, B : A \subseteq A \cup B  OBVIOUS
  <2>2. {"", "@HB", Partial} \subseteq Calls  BY <2>1, Zenon DEF Calls
  <2>3. {"none"} \subseteq Cmds  BY <2>1, Zenon DEF Cmds
  <2>4. {Mfi} \subseteq Texts  BY <2>1, Zenon DEF Texts
  <2> QED BY <2>2, <2>3, <2>4
<1>2. ASSUME NEW m \in Messages
      PROVE  m.from \in Calls /\ m.to \in Calls /\ m.cmd \in Cmds /\ m.text \in Seq(Texts)
  <2>1. m.from \in Calls /\ m.to \in Calls /\ m.cmd \in Cmds  BY Zenon DEF Calls, Cmds
  <2>2. m.text \in Seq(STRING)  BY RxAssumption
  <2>3. DOMAIN m.text = 1..Len(m.text) /\ Len(m.text) \in Nat  BY <2>2, LenProperties
  <2>4. \A i \in 1..Len(m.text) : m.text[i] \in Texts
    <3>1. ToSet(m.text) \subseteq Texts  BY Zenon DEF Texts
    <3> QED BY <2>3, <3>1 DEF ToSet
  <2>5. m.text \in [1..Len(m.text) -> Texts]
    <3>1. m.text = [i \in DOMAIN m.text |-> m.text[i]]  BY <2>2, LenProperties
    <3> QED BY <2>3, <2>4, <3>1
  <2>6. m.text \in Seq(Texts)  BY <2>3, <2>5, FunctionIsSeq
  <2> QED BY <2>1, <2>6
<1> QED BY <1>1, <1>2

\* A new buffer.
LEMMA NewBuffer == NoBuffer \in BufferType
<1>1. NoCmd \in CmdType
  BY AgeFacts, CallFacts DEF NoCmd, CmdType
<1>2. << >> \in Seq(CallType) /\ << >> \in Seq(TextType)
  BY EmptySeq
<1> QED BY <1>1, <1>2 DEF NoBuffer, BufferType

\* The buffer at an offset, made if there is none.
LEMMA AtBuffer ==
  ASSUME NEW f, MapTo(f, BufferType), NEW o
  PROVE  At(f, o) \in BufferType
  BY NewBuffer DEF MapTo, At

\* The last element after an Append.
LEMMA LastAppended ==
  ASSUME NEW S, NEW s \in Seq(S), NEW e \in S
  PROVE  /\ Append(s, e) \in Seq(S)
         /\ Append(s, e) # << >>
         /\ Last(Append(s, e)) = e
  BY AppendProperties DEF Last

\* Text added to a buffer.
LEMMA AddText ==
  ASSUME NEW b \in BufferType, NEW d \in TextType
  PROVE  /\ [b EXCEPT !.msgs = Append(@, d)] \in BufferType
         /\ d.age = 0 => \A n \in Nat : [b EXCEPT !.msgs = Append(@, d)] \in YoungBuffer(n)
<1> DEFINE c == [b EXCEPT !.msgs = Append(@, d)]
<1>1. b.msgs \in Seq(TextType)  BY DEF BufferType
<1>2. Append(b.msgs, d) \in Seq(TextType) /\ Append(b.msgs, d) # << >> /\ Last(Append(b.msgs, d)) = d
  BY <1>1, LastAppended
<1>3. c \in BufferType /\ c.msgs = Append(b.msgs, d)
  BY <1>2 DEF BufferType
<1>4. ASSUME d.age = 0, NEW n \in Nat PROVE Fresh(c, n)
  BY <1>2, <1>3, <1>4 DEF Fresh
<1> QED BY <1>3, <1>4 DEF YoungBuffer

\* A compound call added to a buffer.
LEMMA AddCall ==
  ASSUME NEW b \in BufferType, NEW d \in CallType, d.age = 0, NEW n \in Nat
  PROVE  [b EXCEPT !.compound = Append(@, d)] \in YoungBuffer(n)
<1> DEFINE c == [b EXCEPT !.compound = Append(@, d)]
<1>1. b.compound \in Seq(CallType)  BY DEF BufferType
<1>2. /\ Append(b.compound, d) \in Seq(CallType)
      /\ Append(b.compound, d) # << >>
      /\ Last(Append(b.compound, d)) = d
  BY <1>1, LastAppended
<1>3. c \in BufferType /\ c.compound = Append(b.compound, d)
  BY <1>2 DEF BufferType
<1>4. Fresh(c, n)
  BY <1>2, <1>3 DEF Fresh
<1> QED BY <1>3, <1>4 DEF YoungBuffer

\* A command put into a buffer.
LEMMA SetCommand ==
  ASSUME NEW b \in BufferType, NEW d \in CmdType, d.age = 0, NEW n \in Nat
  PROVE  [b EXCEPT !.cmd = d, !.msgs = << >>] \in YoungBuffer(n)
<1> DEFINE c == [b EXCEPT !.cmd = d, !.msgs = << >>]
<1>1. << >> \in Seq(TextType)  BY EmptySeq
<1>2. c \in BufferType /\ c.cmd = d
  BY <1>1 DEF BufferType
<1>3. Fresh(c, n)
  BY <1>2 DEF Fresh
<1> QED BY <1>2, <1>3 DEF YoungBuffer

-----------------------------------------------------------------------------
(* Frames.                                                                 *)

\* Every message is sent in well-formed frames.
LEMMA FramesType ==
  ASSUME NEW m \in Messages
  PROVE  BuildMessageFrames(m) \in Seq(FrameType)
<1> DEFINE head == CASE m.cmd = "none" -> << >>
                     [] m.cmd = "heartbeat" -> <<Heartbeat(m.from)>>
                     [] OTHER -> IF {m.from, m.to} \cap CompoundCalls = {}
                                 THEN <<Directed(m.from, m.to, m.cmd)>>
                                 ELSE <<Compound(m.from), Directed(Partial, m.to, m.cmd)>>
           text == [i \in DOMAIN m.text |-> Data(m.text[i])]
           all == head \o text
<1>1. /\ m.from \in Calls /\ m.to \in Calls /\ m.cmd \in Cmds /\ m.text \in Seq(Texts)
      /\ "" \in Calls /\ "@HB" \in Calls /\ Partial \in Calls /\ "none" \in Cmds
  BY CallFacts
<1>2. /\ m.cmd = "heartbeat" => Heartbeat(m.from) \in KeyType
      /\ Compound(m.from) \in KeyType
      /\ Directed(m.from, m.to, m.cmd) \in KeyType
      /\ Directed(Partial, m.to, m.cmd) \in KeyType
  BY <1>1 DEF Heartbeat, Compound, Directed, KeyType
<1>3. head \in Seq(KeyType)
  <2>1. /\ << >> \in Seq(KeyType)
        /\ m.cmd = "heartbeat" => <<Heartbeat(m.from)>> \in Seq(KeyType)
        /\ <<Directed(m.from, m.to, m.cmd)>> \in Seq(KeyType)
        /\ <<Compound(m.from), Directed(Partial, m.to, m.cmd)>> \in Seq(KeyType)
    BY <1>2
  <2>2. CASE m.cmd = "none"  BY <2>1, <2>2
  <2>3. CASE m.cmd = "heartbeat"  BY <2>1, <2>3
  <2>4. CASE m.cmd \notin {"none", "heartbeat"}  BY <2>1, <2>4
  <2> QED BY <2>2, <2>3, <2>4
<1>4. text \in Seq(KeyType)
  <2>1. DOMAIN m.text = 1..Len(m.text) /\ Len(m.text) \in Nat  BY <1>1, LenProperties
  <2>2. \A i \in 1..Len(m.text) : Data(m.text[i]) \in KeyType
    <3> TAKE i \in 1..Len(m.text)
    <3>1. m.text[i] \in Texts  BY <1>1, ElementOfSeq
    <3> QED BY <1>1, <3>1 DEF Data, KeyType
  <2>3. text \in [1..Len(m.text) -> KeyType]  BY <2>1, <2>2
  <2> QED BY <2>1, <2>3, FunctionIsSeq
<1>5. all \in Seq(KeyType)
  <2> HIDE DEF head, text
  <2> QED BY <1>3, <1>4, ConcatProperties
<1> DEFINE frames == [i \in DOMAIN all |-> [key |-> all[i], first |-> i = 1, last |-> i = Len(all)]]
<1>6. frames \in Seq(FrameType)
  <2> HIDE DEF all
  <2>1. DOMAIN all = 1..Len(all) /\ Len(all) \in Nat  BY <1>5
  <2>2. ASSUME NEW i \in 1..Len(all)
        PROVE  [key |-> all[i], first |-> i = 1, last |-> i = Len(all)] \in FrameType
    <3>1. all[i] \in KeyType  BY <1>5, <2>2
    <3>2. (i = 1) \in BOOLEAN /\ (i = Len(all)) \in BOOLEAN  OBVIOUS
    <3> QED BY <3>1, <3>2, Zenon DEF FrameType
  <2>3. frames \in [1..Len(all) -> FrameType]  BY <2>1, <2>2
  <2> QED BY <2>1, <2>3, FunctionIsSeq
<1> QED BY <1>6 DEF BuildMessageFrames

-----------------------------------------------------------------------------
(* processDecodedLine leaves no buffer older than it was.                  *)

\* The frames of messages are well-formed.
LEMMA FramesAre ==
  /\ Frames \subseteq FrameType
  /\ \A m \in Messages : BuildMessageFrames(m) \in Seq(Frames)
<1>1. ASSUME NEW m \in Messages
      PROVE  /\ ToSet(BuildMessageFrames(m)) \subseteq FrameType \cap Frames
             /\ BuildMessageFrames(m) \in Seq(Frames)
  <2> DEFINE B == BuildMessageFrames(m)
  <2>1. B \in Seq(FrameType)  BY FramesType
  <2>2. ToSet(B) \subseteq Frames  BY Zenon DEF Frames
  <2> HIDE DEF B
  <2>3. DOMAIN B = 1..Len(B) /\ Len(B) \in Nat /\ B \in [1..Len(B) -> FrameType]
    BY <2>1, LenProperties
  <2>4. \A i \in 1..Len(B) : B[i] \in ToSet(B)  BY <2>3 DEF ToSet
  <2>5. ToSet(B) \subseteq FrameType  BY <2>3 DEF ToSet
  <2>6. B \in [1..Len(B) -> Frames]  BY <2>2, <2>3, <2>4
  <2> QED BY <2>2, <2>3, <2>5, <2>6, FunctionIsSeq DEF B
<1>2. ASSUME NEW f \in Frames PROVE f \in FrameType
  <2>1. PICK m \in Messages : f \in ToSet(BuildMessageFrames(m))  BY Zenon DEF Frames
  <2> QED BY <1>1, <2>1
<1> QED BY <1>1, <1>2

\* What a record says of its parts.
LEMMA FrameParts ==
  ASSUME NEW f \in FrameType
  PROVE  /\ f.key \in KeyType /\ f.first \in BOOLEAN /\ f.last \in BOOLEAN
         /\ f.key.from \in Calls /\ f.key.to \in Calls /\ f.key.cmd \in Cmds
         /\ f.key.type = "data" => f.key.text \in Texts
<1>1. f.key \in KeyType /\ f.first \in BOOLEAN /\ f.last \in BOOLEAN  BY DEF FrameType
<1>2. \A k \in KeyType : /\ k.from \in Calls /\ k.to \in Calls /\ k.cmd \in Cmds
                         /\ k.type = "data" => k.text \in Texts
  BY DEF KeyType
<1> QED BY <1>1, <1>2

\* General activity: the line of the band, and the buffer that is cleared or
\* takes up a frame of text.
LEMMA GeneralActivityYoung ==
  ASSUME NEW n \in Nat, NEW r, RxWith(r, YoungBuffer(n)), NEW f \in FrameType, NEW o \in Offsets
  PROVE  RxWith(GeneralActivity(r, f, o), YoungBuffer(n))
<1> DEFINE S == YoungBuffer(n)
           here == Moved(r.buffers, o)
           kept == IF f.first THEN Without(here, {o}) ELSE here
           drifted == Moved(kept, o)
           datum == [text |-> f.key.text, last |-> f.last, age |-> 0]
           added == [drifted EXCEPT ![o].msgs = Append(@, datum)]
           line == [mfi |-> FALSE, last |-> f.last, age |-> 0]
           band == Put(Moved(r.band, o), o, line)
           buffers == IF f.key.type = "data" /\ HasExistingMessageBuffer(kept, o)
                      THEN added ELSE drifted
<1>1. DOMAIN r = Fields /\ MapTo(r.buffers, S) /\ MapTo(r.band, AnyIdle)
  BY DEF RxWith, Fields
<1>2. MapTo(here, S)  BY <1>1, MovedMap
<1>3. MapTo(kept, S)  BY <1>2, WithoutMap
<1>4. MapTo(drifted, S) /\ (Near(kept, o) # {} => o \in DOMAIN drifted)
  <2> HIDE DEF kept, S
  <2> QED BY <1>3, MovedMap
<1>5. /\ f.key.type = "data" => datum \in TextType
      /\ datum.age = 0 /\ line \in AnyIdle
  BY FrameParts, AgeFacts DEF TextType, AnyIdle
<1>6. ASSUME f.key.type = "data", Near(kept, o) # {} PROVE MapTo(added, S)
  <2> DEFINE b == [drifted[o] EXCEPT !.msgs = Append(@, datum)]
  <2> HIDE DEF drifted, datum
  <2>1. o \in DOMAIN drifted  BY <1>4, <1>6
  <2>2. drifted[o] \in BufferType  BY <1>4, <2>1 DEF MapTo, YoungBuffer
  <2>3. b \in S
    <3>1. datum \in TextType /\ datum.age = 0  BY <1>5, <1>6
    <3> QED BY <2>2, <3>1, AddText
  <2>4. added = [drifted EXCEPT ![o] = b]  OBVIOUS
  <2> HIDE DEF b, S
  <2> QED BY <1>4, <2>1, <2>3, <2>4, ExceptMap
<1>7. MapTo(band, AnyIdle)
  <2> HIDE DEF line
  <2> QED BY <1>1, <1>5, MovedMap, PutMap
<1>8. MapTo(buffers, S)
  <2> HIDE DEF added, drifted, kept, S
  <2> QED BY <1>4, <1>6 DEF HasExistingMessageBuffer
<1>9. GeneralActivity(r, f, o) = [r EXCEPT !.band = band, !.pending = TRUE, !.buffers = buffers]
  BY DEF GeneralActivity
<1> HIDE DEF band, buffers, S
<1>10. RxWith([r EXCEPT !.band = band, !.pending = TRUE, !.buffers = buffers], S)
  BY <1>1, <1>7, <1>8 DEF RxWith, Fields
<1> QED BY <1>9, <1>10 DEF S

\* A compound call is buffered.
LEMMA BufferCompoundYoung ==
  ASSUME NEW n \in Nat, NEW r, RxWith(r, YoungBuffer(n)), NEW f \in FrameType, NEW o \in Offsets
  PROVE  RxWith(BufferCompound(r, f, o), YoungBuffer(n))
<1> DEFINE S == YoungBuffer(n)
           bs == Moved(r.buffers, o)
           call == [call |-> f.key.from, last |-> f.last, age |-> 0]
           b == [At(bs, o) EXCEPT !.compound = Append(@, call)]
           buffers == Put(bs, o, b)
<1>1. DOMAIN r = Fields /\ MapTo(r.buffers, S) /\ MapTo(r.band, AnyIdle)
  BY DEF RxWith, Fields
<1>2. MapTo(bs, S)  BY <1>1, MovedMap
<1>3. call \in CallType /\ call.age = 0
  BY FrameParts, AgeFacts DEF CallType
<1>4. b \in S
  <2>1. MapTo(bs, BufferType)  BY <1>2, MapMonotonic, YoungMonotonic
  <2> HIDE DEF bs, call
  <2>2. At(bs, o) \in BufferType  BY <2>1, AtBuffer
  <2> QED BY <2>2, <1>3, AddCall
<1>5. MapTo(buffers, S)
  <2> HIDE DEF b, bs, S
  <2> QED BY <1>2, <1>4, PutMap
<1>6. BufferCompound(r, f, o) = [r EXCEPT !.buffers = buffers]
  BY DEF BufferCompound
<1> HIDE DEF buffers, S
<1>7. RxWith([r EXCEPT !.buffers = buffers], S)
  BY <1>1, <1>5 DEF RxWith, Fields
<1> QED BY <1>6, <1>7 DEF S

\* A command is buffered.
LEMMA BufferCommandYoung ==
  ASSUME NEW n \in Nat, NEW r, RxWith(r, YoungBuffer(n)), NEW f \in FrameType, NEW o \in Offsets
  PROVE  RxWith(BufferCommand(r, f, o), YoungBuffer(n))
<1> DEFINE S == YoungBuffer(n)
           bs == Moved(r.buffers, o)
           cmd == [from |-> f.key.from, to |-> f.key.to, cmd |-> f.key.cmd, last |-> f.last, age |-> 0]
           b == [At(bs, o) EXCEPT !.cmd = cmd, !.msgs = << >>]
           buffers == Put(bs, o, b)
<1>1. DOMAIN r = Fields /\ MapTo(r.buffers, S) /\ MapTo(r.band, AnyIdle)
  BY DEF RxWith, Fields
<1>2. MapTo(bs, S)  BY <1>1, MovedMap
<1>3. cmd \in CmdType /\ cmd.age = 0
  BY FrameParts, AgeFacts DEF CmdType
<1>4. b \in S
  <2>1. MapTo(bs, BufferType)  BY <1>2, MapMonotonic, YoungMonotonic
  <2> HIDE DEF bs, cmd
  <2>2. At(bs, o) \in BufferType  BY <2>1, AtBuffer
  <2> QED BY <2>2, <1>3, SetCommand
<1>5. MapTo(buffers, S)
  <2> HIDE DEF b, bs, S
  <2> QED BY <1>2, <1>4, PutMap
<1>6. BufferCommand(r, f, o) = [r EXCEPT !.buffers = buffers]
  BY DEF BufferCommand
<1> HIDE DEF buffers, S
<1>7. RxWith([r EXCEPT !.buffers = buffers], S)
  BY <1>1, <1>5 DEF RxWith, Fields
<1> QED BY <1>6, <1>7 DEF S

\* Queueing a command, or changing the cache, leaves the buffers alone.
LEMMA OtherFields ==
  ASSUME NEW S, NEW r, RxWith(r, S)
  PROVE  /\ \A x \in Seq(CommandType) : RxWith([r EXCEPT !.commands = x], S)
         /\ \A x \in SUBSET Cached : RxWith([r EXCEPT !.cache = x], S)
         /\ \A x \in BOOLEAN : RxWith([r EXCEPT !.pending = x], S)
  BY DEF RxWith, Fields

\* A frame is handed on as a command.
LEMMA QueueType ==
  ASSUME NEW S, NEW r, RxWith(r, S), NEW f \in FrameType
  PROVE  RxWith(Queue(r, ToCommand(f.key, << >>)), S)
<1> DEFINE c == ToCommand(f.key, << >>)
<1>1. c \in CommandType
  <2>1. << >> \in Seq(Texts)  BY EmptySeq
  <2> QED BY <2>1, FrameParts DEF ToCommand, CommandType
<1> HIDE DEF c
<1>2. r.commands \in Seq(CommandType)  BY DEF RxWith
<1>3. Append(r.commands, c) \in Seq(CommandType)  BY <1>1, <1>2, AppendProperties
<1>4. Queue(r, c) = [r EXCEPT !.commands = Append(r.commands, c)]  BY DEF Queue
<1> DEFINE q == Append(r.commands, c)
<1> HIDE DEF q
<1>5. RxWith([r EXCEPT !.commands = q], S)  BY <1>3, OtherFields DEF q
<1>6. RxWith(Queue(r, c), S)  BY <1>4, <1>5 DEF q
<1> QED BY <1>6 DEF c

\* The cache keeps frames.
LEMMA CacheType ==
  ASSUME NEW cache \in SUBSET Cached, NEW f \in Frames, NEW o \in Offsets
  PROVE  CacheFrame(cache, f, o) \in SUBSET Cached
<1>1. [key |-> f.key, offset |-> o, age |-> 0] \in Cached  BY AgeFacts DEF Cached
<1> QED BY <1>1, Zenon DEF CacheFrame

\* A line of the decoder.
LEMMA ProcessDecodedLineYoung ==
  ASSUME NEW n \in Nat, NEW r, RxWith(r, YoungBuffer(n)), NEW f \in Frames, NEW o \in Offsets
  PROVE  RxWith(ProcessDecodedLine(r, f, o), YoungBuffer(n))
<1> DEFINE S == YoungBuffer(n)
           cached == [r EXCEPT !.cache = CacheFrame(@, f, o)]
           g == GeneralActivity(cached, f, o)
<1>0. f \in FrameType  BY FramesAre
<1>1. RxWith(cached, S)
  <2>1. r.cache \in SUBSET Cached  BY DEF RxWith
  <2>2. CacheFrame(r.cache, f, o) \in SUBSET Cached  BY <2>1, CacheType
  <2> QED BY <2>2, OtherFields
<1>2. RxWith(g, S)
  <2> HIDE DEF cached
  <2> QED BY <1>0, <1>1, GeneralActivityYoung
<1>3. RxWith(Parse(g, f, o), S)
  <2> HIDE DEF g, S
  <2>1. RxWith(Queue(g, ToCommand(f.key, << >>)), S)  BY <1>0, <1>2, QueueType
  <2>2. RxWith(BufferCompound(g, f, o), S) /\ RxWith(BufferCommand(g, f, o), S)
    BY <1>0, <1>2, BufferCompoundYoung, BufferCommandYoung DEF S
  <2>3. CASE f.key.type = "heartbeat"  BY <2>1, <2>3 DEF Parse
  <2>4. CASE f.key.type = "compound"  BY <2>2, <2>4 DEF Parse
  <2>5. CASE f.key.type = "directed"  BY <2>1, <2>2, <2>5 DEF Parse
  <2>6. CASE f.key.type \notin {"heartbeat", "compound", "directed"}  BY <1>2, <2>6 DEF Parse
  <2> QED BY <2>3, <2>4, <2>5, <2>6
<1>4. ProcessDecodedLine(r, f, o) \in {r, Parse(g, f, o)}
  BY DEF ProcessDecodedLine
<1> QED BY <1>3, <1>4

-----------------------------------------------------------------------------
(* A second passes.                                                        *)

\* An age stays an age.
LEMMA OlderAge ==
  ASSUME NEW a \in Ages
  PROVE  Older(a) \in Ages /\ \A n \in Nat : a \in 0..n => Older(a) \in 0..n + 1
  BY RxAssumption DEF Older, Ages, OldAge

\* The parts of a buffer grow older together.
LEMMA OlderSequence ==
  ASSUME NEW T, NEW s \in Seq(T),
         \A x \in T : x.age \in Ages /\ \A a \in Ages : [x EXCEPT !.age = a] \in T
                      /\ [x EXCEPT !.age = a].age = a
  PROVE  /\ OlderEach(s) \in Seq(T)
         /\ s # << >> => OlderEach(s) # << >> /\ Last(OlderEach(s)).age = Older(Last(s).age)
<1>1. DOMAIN s = 1..Len(s) /\ Len(s) \in Nat  OBVIOUS
<1>2. ASSUME NEW i \in 1..Len(s)
      PROVE  [s[i] EXCEPT !.age = Older(@)] \in T
             /\ [s[i] EXCEPT !.age = Older(@)].age = Older(s[i].age)
  <2>1. s[i] \in T  BY ElementOfSeq
  <2>2. Older(s[i].age) \in Ages  BY <2>1, OlderAge
  <2> QED BY <2>1, <2>2
<1>3. OlderEach(s) \in [1..Len(s) -> T]
  BY <1>1, <1>2 DEF OlderEach
<1>4. OlderEach(s) \in Seq(T)  BY <1>1, <1>3, FunctionIsSeq
<1>5. Len(OlderEach(s)) = Len(s)
  BY <1>1, <1>3, <1>4, LenProperties
<1>6. ASSUME s # << >> PROVE OlderEach(s) # << >> /\ Last(OlderEach(s)).age = Older(Last(s).age)
  <2>1. Len(s) \in 1..Len(s)  BY <1>6, EmptySeq, <1>1
  <2>2. OlderEach(s)[Len(s)].age = Older(s[Len(s)].age)
    BY <1>1, <1>2, <2>1 DEF OlderEach
  <2>3. OlderEach(s) # << >>  BY <1>5, <2>1, EmptySeq
  <2> QED BY <1>5, <2>2, <2>3 DEF Last
<1> QED BY <1>4, <1>6

\* A buffer is a second older.
LEMMA OlderBufferYoung ==
  ASSUME NEW n \in Nat, NEW b \in YoungBuffer(n)
  PROVE  OlderBuffer(b) \in YoungBuffer(n + 1)
<1> DEFINE c == OlderBuffer(b)
<1>1. b.cmd \in CmdType /\ b.compound \in Seq(CallType) /\ b.msgs \in Seq(TextType)
  BY DEF YoungBuffer, BufferType
<1>2. /\ OlderEach(b.compound) \in Seq(CallType)
      /\ b.compound # << >> =>
           OlderEach(b.compound) # << >>
           /\ Last(OlderEach(b.compound)).age = Older(Last(b.compound).age)
  <2>1. \A x \in CallType : x.age \in Ages /\ \A a \in Ages : [x EXCEPT !.age = a] \in CallType
                           /\ [x EXCEPT !.age = a].age = a
    BY DEF CallType
  <2> QED BY <1>1, <2>1, OlderSequence
<1>3. /\ OlderEach(b.msgs) \in Seq(TextType)
      /\ b.msgs # << >> =>
           OlderEach(b.msgs) # << >> /\ Last(OlderEach(b.msgs)).age = Older(Last(b.msgs).age)
  <2>1. \A x \in TextType : x.age \in Ages /\ \A a \in Ages : [x EXCEPT !.age = a] \in TextType
                           /\ [x EXCEPT !.age = a].age = a
    BY DEF TextType
  <2> QED BY <1>1, <2>1, OlderSequence
<1>4. /\ [b.cmd EXCEPT !.age = Older(@)] \in CmdType
      /\ [b.cmd EXCEPT !.age = Older(@)].age = Older(b.cmd.age)
  <2>1. Older(b.cmd.age) \in Ages  BY <1>1, OlderAge DEF CmdType
  <2> QED BY <1>1, <2>1 DEF CmdType
<1>5. c \in BufferType
  BY <1>2, <1>3, <1>4 DEF OlderBuffer, BufferType
<1>6. /\ c.cmd.age = Older(b.cmd.age)
      /\ c.compound = OlderEach(b.compound) /\ c.msgs = OlderEach(b.msgs)
  BY <1>4 DEF OlderBuffer
<1>7. Fresh(c, n + 1)
  <2> HIDE DEF c
  <2>1. CASE b.cmd.age \in 0..n
    <3>1. Older(b.cmd.age) \in 0..n + 1  BY <1>1, <2>1, OlderAge DEF CmdType
    <3> QED BY <1>6, <3>1 DEF Fresh
  <2>2. CASE b.compound # << >> /\ Last(b.compound).age \in 0..n
    <3>1. Last(b.compound) \in CallType  BY <1>1, <2>2, EmptySeq, ElementOfSeq DEF Last
    <3>2. Older(Last(b.compound).age) \in 0..n + 1  BY <3>1, <2>2, OlderAge DEF CallType
    <3> QED BY <1>2, <1>6, <2>2, <3>2 DEF Fresh
  <2>3. CASE b.msgs # << >> /\ Last(b.msgs).age \in 0..n
    <3>1. Last(b.msgs) \in TextType  BY <1>1, <2>3, EmptySeq, ElementOfSeq DEF Last
    <3>2. Older(Last(b.msgs).age) \in 0..n + 1  BY <3>1, <2>3, OlderAge DEF TextType
    <3> QED BY <1>3, <1>6, <2>3, <3>2 DEF Fresh
  <2> QED BY <2>1, <2>2, <2>3 DEF YoungBuffer, Fresh
<1> QED BY <1>5, <1>7 DEF YoungBuffer

\* All members are a second older.
LEMMA OlderRxYoung ==
  ASSUME NEW n \in Nat, NEW r, RxWith(r, YoungBuffer(n))
  PROVE  RxWith(OlderRx(r), YoungBuffer(n + 1))
<1> DEFINE buffers == [o \in DOMAIN r.buffers |-> OlderBuffer(r.buffers[o])]
           band == OlderEach(r.band)
<1>1. DOMAIN r = Fields /\ MapTo(r.buffers, YoungBuffer(n)) /\ MapTo(r.band, AnyIdle)
  BY DEF RxWith, Fields
<1>2. MapTo(buffers, YoungBuffer(n + 1))
  BY <1>1, OlderBufferYoung DEF MapTo
<1>3. MapTo(band, AnyIdle)
  <2>1. ASSUME NEW x \in AnyIdle PROVE [x EXCEPT !.age = Older(@)] \in AnyIdle
    <3>1. Older(x.age) \in Ages  BY OlderAge DEF AnyIdle
    <3> QED BY <3>1 DEF AnyIdle
  <2> QED BY <1>1, <2>1 DEF MapTo, OlderEach
<1> DEFINE cache == {[c EXCEPT !.age = Older(@)] : c \in r.cache}
<1>5. cache \subseteq Cached
  <2>1. ASSUME NEW c \in Cached PROVE [c EXCEPT !.age = Older(@)] \in Cached
    <3>1. Older(c.age) \in Ages  BY OlderAge DEF Cached
    <3> QED BY <3>1 DEF Cached
  <2>2. r.cache \subseteq Cached  BY DEF RxWith
  <2> QED BY <2>1, <2>2
<1>4. /\ DOMAIN OlderRx(r) = Fields
      /\ OlderRx(r).buffers = buffers
      /\ OlderRx(r).band = band
      /\ OlderRx(r).cache = cache
      /\ OlderRx(r).pending = r.pending /\ OlderRx(r).commands = r.commands
  <2> DEFINE r1 == [r EXCEPT !.buffers = buffers]
             r2 == [r1 EXCEPT !.band = band]
  <2>1. /\ DOMAIN r1 = Fields /\ r1.buffers = buffers /\ r1.band = r.band
        /\ r1.cache = r.cache /\ r1.pending = r.pending /\ r1.commands = r.commands
    BY <1>1 DEF Fields
  <2>2. /\ DOMAIN r2 = Fields /\ r2.buffers = buffers /\ r2.band = band
        /\ r2.cache = r.cache /\ r2.pending = r.pending /\ r2.commands = r.commands
    <3> HIDE DEF r1, band
    <3> QED BY <2>1 DEF Fields
  <2>3. OlderRx(r) = [r2 EXCEPT !.cache = cache]
    <3>1. r2 = [r1 EXCEPT !.band = OlderEach(@)]
      <4> HIDE DEF r1
      <4> QED BY <2>1
    <3>2. r1 = [r EXCEPT !.buffers = [o \in DOMAIN @ |-> OlderBuffer(@[o])]]  OBVIOUS
    <3>3. cache = {[c EXCEPT !.age = Older(@)] : c \in r2.cache}
      <4> HIDE DEF r2
      <4> QED BY <2>2
    <3>4. OlderRx(r) = [r2 EXCEPT !.cache = {[c EXCEPT !.age = Older(@)] : c \in @}]
      <4> HIDE DEF r1, r2
      <4> QED BY <3>1, <3>2, Zenon DEF OlderRx
    <3> HIDE DEF r1, r2, cache
    <3> QED BY <3>3, <3>4, Zenon
  <2> HIDE DEF r2, cache, band, buffers
  <2> QED BY <2>2, <2>3 DEF Fields
<1> HIDE DEF buffers, band, cache
<1>6. r.pending \in BOOLEAN /\ r.commands \in Seq(CommandType)  BY DEF RxWith
<1> QED BY <1>2, <1>3, <1>4, <1>5, <1>6 DEF RxWith

-----------------------------------------------------------------------------
(* The passes of processActivity.                                          *)

\* Gaps are added to buffers, some of them new.
LEMMA ProcessIdleActivityType ==
  ASSUME NEW r, RxWith(r, BufferType)
  PROVE  RxWith(ProcessIdleActivity(r), BufferType)
<1> DEFINE idle == {o \in DOMAIN r.band : /\ ~r.band[o].last /\ ~r.band[o].mfi
                                          /\ 2 * r.band[o].age >= 3 * Period}
           found == CHOOSE f : f = [o \in idle |->
                      \/ HasExistingMessageBuffer(r.buffers, o)
                      \/ \E p \in idle : p < o /\ o - p <= Threshold /\ f[p]]
           marked == {o \in idle : found[o]}
           gap(o) == [text |-> Mfi, last |-> FALSE, age |-> r.band[o].age]
           band == [o \in DOMAIN r.band |->
                     IF o \in idle THEN [r.band[o] EXCEPT !.mfi = TRUE] ELSE r.band[o]]
           buffers == [o \in DOMAIN r.buffers \cup marked |->
                        IF o \in marked
                        THEN [At(r.buffers, o) EXCEPT !.msgs = Append(@, gap(o))]
                        ELSE r.buffers[o]]
           pending == r.pending \/ idle # {}
<1>1. DOMAIN r = Fields /\ MapTo(r.buffers, BufferType) /\ MapTo(r.band, AnyIdle)
  BY DEF RxWith, Fields
<1>2. marked \subseteq DOMAIN r.band
  OBVIOUS
<1>3. MapTo(band, AnyIdle)
  <2>1. \A x \in AnyIdle : [x EXCEPT !.mfi = TRUE] \in AnyIdle  BY DEF AnyIdle
  <2> HIDE DEF idle
  <2> QED BY <1>1, <2>1 DEF MapTo
<1>4. MapTo(buffers, BufferType)
  <2> HIDE DEF marked
  <2>1. ASSUME NEW o \in marked
        PROVE  [At(r.buffers, o) EXCEPT !.msgs = Append(@, gap(o))] \in BufferType
    <3>1. r.band[o] \in AnyIdle  BY <1>1, <1>2 DEF MapTo
    <3>2. Mfi \in Texts  BY CallFacts
    <3>3. gap(o) \in TextType  BY <3>1, <3>2 DEF AnyIdle, TextType
    <3>4. At(r.buffers, o) \in BufferType  BY <1>1, AtBuffer
    <3> HIDE DEF gap
    <3> QED BY <3>3, <3>4, AddText
  <2>2. marked \subseteq Offsets  BY <1>1, <1>2 DEF MapTo
  <2> HIDE DEF gap
  <2> QED BY <1>1, <2>1, <2>2 DEF MapTo
<1>5. ProcessIdleActivity(r) =
        [r EXCEPT !.band = band, !.pending = pending, !.buffers = buffers]
  BY DEF ProcessIdleActivity
<1>7. pending \in BOOLEAN /\ r.cache \subseteq Cached /\ r.commands \in Seq(CommandType)
  BY DEF RxWith
<1> HIDE DEF band, buffers, pending
<1>6. RxWith([r EXCEPT !.band = band, !.pending = pending, !.buffers = buffers], BufferType)
  BY <1>1, <1>3, <1>4, <1>7 DEF RxWith, Fields
<1> QED BY <1>5, <1>6

\* A call is taken from the queue and filled in.
LEMMA JoinType ==
  ASSUME NEW b \in BufferType, NEW field \in {"from", "to"}
  PROVE  Join(b, field) \in BufferType
<1>1. CASE b.cmd[field] # Partial \/ b.compound = << >>
  BY <1>1 DEF Join
<1>2. CASE ~(b.cmd[field] # Partial \/ b.compound = << >>)
  <2> DEFINE d == Head(b.compound)
             age == IF d.age > b.cmd.age THEN d.age ELSE b.cmd.age
             last == d.last \/ b.cmd.last
             cmd == [b.cmd EXCEPT ![field] = d.call, !.age = age, !.last = last]
             c == [b EXCEPT !.compound = Tail(@), !.cmd = cmd]
  <2>1. b.cmd \in CmdType /\ b.compound \in Seq(CallType) /\ b.compound # << >>
    BY <1>2 DEF BufferType
  <2>2. d \in CallType /\ Tail(b.compound) \in Seq(CallType)
    BY <2>1, HeadTailProperties
  <2>3. d.call \in Calls /\ age \in Ages /\ last \in BOOLEAN
    BY <2>1, <2>2 DEF CallType, CmdType
  <2>4. cmd \in CmdType
    <3> HIDE DEF d, age, last
    <3> QED BY <2>1, <2>3 DEF CmdType
  <2>5. c \in BufferType
    <3> HIDE DEF cmd
    <3> QED BY <2>2, <2>4 DEF BufferType
  <2>6. Join(b, field) = c
    BY <1>2, <2>1 DEF Join, CmdType, BufferType
  <2> QED BY <2>5, <2>6
<1> QED BY <1>1, <1>2

\* Commands handed on from a set of offsets are appended to those that wait.
LEMMA HandedOn ==
  ASSUME NEW commands \in Seq(CommandType), NEW S \in SUBSET Offsets,
         NEW command, \A o \in S : command[o] \in CommandType
  PROVE  commands \o [i \in DOMAIN Ascending(S) |-> command[Ascending(S)[i]]] \in Seq(CommandType)
<1> DEFINE q == Ascending(S)
           n == Cardinality(S)
           t == [i \in DOMAIN q |-> command[q[i]]]
<1>1. S \in SUBSET Nat /\ IsFiniteSet(S)  BY OffsetFacts, FS_Subset
<1>2. n \in Nat /\ q \in [1..n -> S]  BY <1>1, AscendingIs
<1> HIDE DEF q, n
<1>3. t \in [1..n -> CommandType]  BY <1>2
<1>4. t \in Seq(CommandType)  BY <1>2, <1>3, FunctionIsSeq
<1> HIDE DEF t
<1>5. commands \o t \in Seq(CommandType)  BY <1>4, ConcatProperties
<1> QED BY <1>5 DEF t, q

\* The text of a buffer.
LEMMA TextOfType ==
  ASSUME NEW b \in BufferType
  PROVE  TextOf(b) \in Seq(Texts)
<1>1. b.msgs \in Seq(TextType)  BY DEF BufferType
<1>2. DOMAIN b.msgs = 1..Len(b.msgs) /\ Len(b.msgs) \in Nat  BY <1>1, LenProperties
<1>3. \A i \in 1..Len(b.msgs) : b.msgs[i].text \in Texts
  <2> TAKE i \in 1..Len(b.msgs)
  <2>1. b.msgs[i] \in TextType  BY <1>1, ElementOfSeq
  <2> QED BY <2>1 DEF TextType
<1>4. TextOf(b) \in [1..Len(b.msgs) -> Texts]  BY <1>2, <1>3 DEF TextOf
<1> QED BY <1>2, <1>4, FunctionIsSeq

\* What a buffer is handed on as.
LEMMA HandedType ==
  ASSUME NEW b \in BufferType, NEW text \in Seq(Texts)
  PROVE  ToCommand(b.cmd, text) \in CommandType
<1>1. b.cmd \in CmdType  BY DEF BufferType
<1>2. b.cmd.from \in Calls /\ b.cmd.to \in Calls /\ b.cmd.cmd \in Cmds  BY <1>1 DEF CmdType
<1> QED BY <1>2 DEF ToCommand, CommandType

\* Compound calls are joined; buffers that are ready are handed on.
LEMMA ProcessCompoundActivityType ==
  ASSUME NEW r, RxWith(r, BufferType)
  PROVE  RxWith(ProcessCompoundActivity(r), BufferType)
<1> DEFINE ready == {o \in DOMAIN r.buffers : JoinReady(r.buffers[o])}
           queue == Ascending(ready)
           command(o) == ToCommand(Joined(r.buffers[o]).cmd, << >>)
           buffers == [o \in DOMAIN r.buffers \ ready |-> Joined(r.buffers[o])]
           commands == r.commands \o [i \in DOMAIN queue |-> command(queue[i])]
<1>1. DOMAIN r = Fields /\ MapTo(r.buffers, BufferType) /\ MapTo(r.band, AnyIdle)
  BY DEF RxWith, Fields
<1>2. \A b \in BufferType : Joined(b) \in BufferType
  BY JoinType DEF Joined
<1>3. MapTo(buffers, BufferType)
  <2> HIDE DEF ready
  <2> QED BY <1>1, <1>2 DEF MapTo
<1>4. ProcessCompoundActivity(r) = [r EXCEPT !.buffers = buffers, !.commands = commands]
  BY DEF ProcessCompoundActivity
<1>5. commands \in Seq(CommandType)
  <2> DEFINE handed == [o \in ready |-> command(o)]
  <2>1. ASSUME NEW o \in ready PROVE command(o) \in CommandType
    <3>1. << >> \in Seq(Texts)  BY EmptySeq
    <3>2. Joined(r.buffers[o]) \in BufferType  BY <1>1, <1>2 DEF MapTo
    <3> QED BY <3>1, <3>2, HandedType
  <2>2. ready \subseteq Offsets /\ r.commands \in Seq(CommandType)
    BY <1>1 DEF RxWith, MapTo
  <2> HIDE DEF ready, command
  <2>3. \A o \in ready : handed[o] \in CommandType  BY <2>1
  <2>4. r.commands \o [i \in DOMAIN queue |-> handed[queue[i]]] \in Seq(CommandType)
    <3> HIDE DEF handed
    <3> QED BY <2>2, <2>3, HandedOn
  <2>5. \A i \in DOMAIN queue : handed[queue[i]] = command(queue[i])
    <3>1. \A i \in DOMAIN queue : queue[i] \in ready
      <4>1. ready \in SUBSET Nat /\ IsFiniteSet(ready)  BY <2>2, OffsetFacts, FS_Subset
      <4> QED BY <4>1, AscendingIs
    <3> HIDE DEF queue
    <3> QED BY <3>1
  <2>6. [i \in DOMAIN queue |-> handed[queue[i]]] = [i \in DOMAIN queue |-> command(queue[i])]
    <3> HIDE DEF handed, queue
    <3> QED BY <2>5
  <2> QED BY <2>4, <2>6, Zenon
<1>6. r.cache \subseteq Cached /\ r.pending \in BOOLEAN  BY DEF RxWith
<1> HIDE DEF buffers, commands
<1>7. RxWith([r EXCEPT !.buffers = buffers, !.commands = commands], BufferType)
  BY <1>1, <1>3, <1>5, <1>6 DEF RxWith, Fields
<1> QED BY <1>4, <1>7

\* After the last pass no buffer is older than its time.
LEMMA ProcessBufferedActivityYoung ==
  ASSUME NEW r, RxWith(r, BufferType)
  PROVE  RxWith(ProcessBufferedActivity(r), YoungBuffer(DropAfter))
<1> DEFINE gone == {o \in DOMAIN r.buffers : ~Fresh(r.buffers[o], DropAfter)}
           closed == {o \in DOMAIN r.buffers : Closed(r.buffers[o])}
           queue == Ascending({o \in closed : Valid(r.buffers[o])})
           command(o) == ToCommand(r.buffers[o].cmd, TextOf(r.buffers[o]))
           buffers == Without(r.buffers, gone \cup closed)
           commands == r.commands \o [i \in DOMAIN queue |-> command(queue[i])]
<1>1. DOMAIN r = Fields /\ MapTo(r.buffers, BufferType) /\ MapTo(r.band, AnyIdle)
  BY DEF RxWith, Fields
<1>2. MapTo(buffers, YoungBuffer(DropAfter))
  <2> HIDE DEF closed
  <2> QED BY <1>1 DEF MapTo, Without, YoungBuffer
<1>3. ProcessBufferedActivity(r) = [r EXCEPT !.buffers = buffers, !.commands = commands]
  BY DEF ProcessBufferedActivity
<1>4. commands \in Seq(CommandType)
  <2> DEFINE ready == {o \in closed : Valid(r.buffers[o])}
             handed == [o \in ready |-> command(o)]
  <2>1. ASSUME NEW o \in ready PROVE command(o) \in CommandType
    <3>1. r.buffers[o] \in BufferType  BY <1>1 DEF MapTo
    <3> QED BY <3>1, HandedType, TextOfType
  <2>2. ready \subseteq Offsets /\ r.commands \in Seq(CommandType)
    BY <1>1 DEF RxWith, MapTo
  <2>0. queue = Ascending(ready)  OBVIOUS
  <2> HIDE DEF ready, command
  <2>3. \A o \in ready : handed[o] \in CommandType  BY <2>1
  <2>4. r.commands \o [i \in DOMAIN queue |-> handed[queue[i]]] \in Seq(CommandType)
    <3> HIDE DEF handed, queue
    <3> QED BY <2>0, <2>2, <2>3, HandedOn
  <2>5. \A i \in DOMAIN queue : handed[queue[i]] = command(queue[i])
    <3>1. \A i \in DOMAIN queue : queue[i] \in ready
      <4>1. ready \in SUBSET Nat /\ IsFiniteSet(ready)  BY <2>2, OffsetFacts, FS_Subset
      <4> HIDE DEF queue
      <4> QED BY <2>0, <4>1, AscendingIs
    <3> HIDE DEF queue
    <3> QED BY <3>1
  <2>6. [i \in DOMAIN queue |-> handed[queue[i]]] = [i \in DOMAIN queue |-> command(queue[i])]
    <3> HIDE DEF handed, queue
    <3> QED BY <2>5
  <2> QED BY <2>4, <2>6, Zenon
<1>5. r.cache \subseteq Cached /\ r.pending \in BOOLEAN  BY DEF RxWith
<1> HIDE DEF buffers, commands
<1>6. RxWith([r EXCEPT !.buffers = buffers, !.commands = commands], YoungBuffer(DropAfter))
  BY <1>1, <1>2, <1>4, <1>5 DEF RxWith, Fields
<1> QED BY <1>3, <1>6

\* A pass of processActivity.
LEMMA ProcessActivityYoung ==
  ASSUME NEW r, RxWith(r, BufferType)
  PROVE  RxWith(ProcessActivity(r), YoungBuffer(DropAfter))
<1>1. RxWith(ProcessRxActivity(r), BufferType)
  <2>1. RxWith([r EXCEPT !.pending = FALSE], BufferType)  BY OtherFields
  <2> QED BY <2>1 DEF ProcessRxActivity
<1> QED BY <1>1, ProcessIdleActivityType, ProcessCompoundActivityType,
           ProcessBufferedActivityYoung DEF ProcessActivity

-----------------------------------------------------------------------------
(* The steps.                                                              *)

\* What is selected from a sequence.
LEMMA SelectedType ==
  ASSUME NEW T, NEW s \in Seq(T), NEW S \in SUBSET (DOMAIN s)
  PROVE  /\ Selected(s, S) \in Seq(T) /\ Len(Selected(s, S)) = Cardinality(S)
         /\ IsFiniteSet(S) /\ Cardinality(S) \in Nat
<1> DEFINE q == Ascending(S)
           n == Cardinality(S)
           t == [i \in DOMAIN q |-> s[q[i]]]
<1>1. DOMAIN s = 1..Len(s) /\ Len(s) \in Nat  BY LenProperties
<1>2. S \in SUBSET Nat /\ IsFiniteSet(S)
  <2>1. IsFiniteSet(1..Len(s)) /\ 1..Len(s) \subseteq Nat  BY <1>1, FS_Interval
  <2> QED BY <1>1, <2>1, FS_Subset
<1>3. n \in Nat /\ q \in [1..n -> S]  BY <1>2, AscendingIs
<1> HIDE DEF q, n
<1>4. \A x \in S : s[x] \in T  BY <1>1, ElementOfSeq
<1>5. t \in [1..n -> T]  BY <1>3, <1>4
<1>6. t \in Seq(T)  BY <1>3, <1>5, FunctionIsSeq
<1>7. Len(t) = n  BY <1>3, <1>5, <1>6, LenProperties
<1> QED BY <1>2, <1>3, <1>6, <1>7 DEF Selected, q, n

\* What processCommandActivity takes up.
LEMMA TakenType ==
  ASSUME NEW commands \in Seq(CommandType)
  PROVE  Taken(commands) \in Seq(CommandType)
  BY SelectedType DEF Taken

\* The invariant holds at the start: there are no buffers.
LEMMA InitIInv == Init => IInv
<1> SUFFICES ASSUME Init PROVE IInv
  OBVIOUS
<1>1. second \in 0..Day - 1 /\ lines \in 0..MaxLines /\ decoded \in BOOLEAN /\ place \in {{}}
  <2>1. second \in 0..Day - 1 /\ lines = 0 /\ decoded = FALSE /\ place = {}  BY DEF Init
  <2>2. 0 \in 0..MaxLines  BY Numbers
  <2> QED BY <2>1, <2>2
<1>2. << >> \in Seq(Frames) /\ << >> \in Seq(CommandType) /\ << >> \in Seq(Messages) /\ Len(<< >>) = 0
  BY EmptySeq
<1>3. \A S : RxWith(rx, S)
  <2>1. \A S : MapTo(<< >>, S)  BY DEF MapTo
  <2> QED BY <1>2, <2>1 DEF Init, RxWith, Fields
<1>4. HistoryOK
  <2>1. /\ sent = << >> /\ missed = FALSE /\ headless = FALSE /\ whole = {} /\ processed = << >>
    BY DEF Init
  <2>2. Len(sent) <= MaxMessages  BY <1>2, <2>1, Numbers
  <2> QED BY <1>2, <2>1, <2>2 DEF HistoryOK
<1>5. onAir \in Seq(Frames) /\ onAir = << >>  BY <1>2 DEF Init
<1> QED BY <1>1, <1>3, <1>4, <1>5 DEF IInv

\* What the clock shows within a period.
LEMMA InPeriod ==
  ASSUME NEW n \in 0..Day - 1
  PROVE  n % Period \in 0..Period - 1
  BY RxAssumption, DivMod

\* What the receiver does in a second, with or without a pass.
LEMMA GuiSecondRx ==
  ASSUME IInv, GuiSecond
  PROVE  /\ second' \in 0..Day - 1
         /\ RxWith(rx', YoungBuffer(DropAfter + (second' % Period)))
         /\ processed' \in Seq(CommandType)
<1> DEFINE s == (second + 1) % Day
           r == OlderRx(rx)
           done == ProcessActivity(r)
           n == DropAfter + (second % Period)
<1>1. n \in Nat /\ DropAfter \in Nat /\ second \in 0..Day - 1
  BY Numbers, InPeriod DEF IInv
<1>2. second' = s /\ s \in 0..Day - 1
  <2>1. second' = s  BY DEF GuiSecond
  <2>2. second + 1 \in Nat /\ Day \in Nat \ {0}  BY <1>1, RxAssumption
  <2> QED BY <2>1, <2>2, DivMod
<1>3. RxWith(r, YoungBuffer(n + 1))
  <2> HIDE DEF n
  <2>1. RxWith(rx, YoungBuffer(n))  BY DEF IInv, n
  <2> QED BY <1>1, <2>1, OlderRxYoung
<1>4. processed \in Seq(CommandType)  BY DEF IInv, HistoryOK
<1>5. CASE rx' = [done EXCEPT !.commands = << >>] /\ processed' = processed \o Taken(done.commands)
  <2>1. RxWith(r, BufferType)
    <3> HIDE DEF r, n
    <3>1. YoungBuffer(n + 1) \subseteq BufferType  BY DEF YoungBuffer
    <3> QED BY <1>3, <3>1, MapMonotonic DEF RxWith
  <2>2. RxWith(done, YoungBuffer(DropAfter))
    <3> HIDE DEF r
    <3> QED BY <2>1, ProcessActivityYoung
  <2>3. RxWith(rx', YoungBuffer(DropAfter))
    <3> HIDE DEF done
    <3> QED BY <1>5, <2>2, OtherFields, EmptySeq
  <2>4. second' % Period \in Nat  BY <1>2, InPeriod
  <2>5. YoungBuffer(DropAfter) \subseteq YoungBuffer(DropAfter + (second' % Period))
    BY <1>1, <2>4, YoungMonotonic
  <2>6. RxWith(rx', YoungBuffer(DropAfter + (second' % Period)))
    BY <2>3, <2>5, MapMonotonic DEF RxWith
  <2>7. processed' \in Seq(CommandType)
    <3> HIDE DEF done
    <3>1. Taken(done.commands) \in Seq(CommandType)  BY <2>2, TakenType DEF RxWith
    <3> QED BY <1>4, <1>5, <3>1, ConcatProperties
  <2> QED BY <1>2, <2>6, <2>7
<1>6. CASE ~ForceDirty(s) /\ rx' = r /\ processed' = processed
  <2>1. s % Period # 0  BY <1>6 DEF ForceDirty
  <2>2. s % Period = (second % Period) + 1  BY <1>1, <2>1, NextSecond
  <2>3. DropAfter + (second' % Period) = n + 1
    BY <1>1, <1>2, <2>2, InPeriod
  <2>4. RxWith(rx', YoungBuffer(DropAfter + (second' % Period)))
    BY <1>3, <1>6, <2>3
  <2> QED BY <1>2, <1>4, <1>6, <2>4
<1> QED BY <1>5, <1>6 DEF GuiSecond

\* A second of the GUI thread.
LEMMA GuiSecondStep == IInv /\ GuiSecond => IInv'
<1> SUFFICES ASSUME IInv, GuiSecond PROVE IInv'
  OBVIOUS
<1>1. onAir' \in Seq(Frames) /\ lines' \in 0..MaxLines /\ decoded' \in BOOLEAN
  <2>1. /\ onAir' = onAir \/ onAir' = IF onAir = << >> THEN onAir ELSE Tail(onAir)
        /\ lines' \in {0, lines} /\ decoded' \in {FALSE, decoded}
    BY Zenon DEF GuiSecond
  <2>2. onAir \in Seq(Frames) /\ lines \in 0..MaxLines /\ decoded \in BOOLEAN  BY DEF IInv
  <2>3. onAir' \in Seq(Frames)  BY <2>1, <2>2, HeadTailProperties
  <2>4. 0 \in 0..MaxLines  BY Numbers
  <2> QED BY <2>1, <2>2, <2>3, <2>4
<1>2. onAir' # << >> => onAir # << >>
  BY Zenon DEF GuiSecond
<1>3. UNCHANGED <<place, sent, missed, headless, whole>>  BY DEF GuiSecond
<1> QED BY <1>1, <1>2, <1>3, GuiSecondRx DEF IInv, HistoryOK

\* A line of the decoder.
LEMMA LineStep ==
  ASSUME NEW o \in Offsets, IInv, Line(o)
  PROVE  IInv'
<1> DEFINE n == DropAfter + (second % Period)
<1>1. n \in Nat  BY Numbers, InPeriod DEF IInv
<1>3. Head(onAir) \in Frames
  BY HeadTailProperties DEF IInv, Line
<1>4. RxWith(rx, YoungBuffer(n))  BY DEF IInv
<1>5. RxWith(rx', YoungBuffer(n))
  <2> HIDE DEF n
  <2> QED BY <1>1, <1>3, <1>4, ProcessDecodedLineYoung DEF Line
<1>6. lines' \in 0..MaxLines  BY RxAssumption DEF IInv, Line
<1>7. UNCHANGED <<second, place, onAir, decoded, sent, missed, headless, whole, processed>>
  BY DEF Line
<1> QED BY <1>5, <1>6, <1>7 DEF IInv, HistoryOK

\* The cache is cleaned.
LEMMA CleanStep ==
  ASSUME IInv, DecodeDone \/ OtherDecodeDone
  PROVE  IInv'
<1>1. /\ rx' = [rx EXCEPT !.cache = {c \in @ : c.age <= Period}]
      /\ UNCHANGED <<second, place, onAir, lines, sent, processed>>
  BY DEF DecodeDone, OtherDecodeDone
<1>2. RxWith(rx', YoungBuffer(DropAfter + (second % Period)))
  <2>1. {c \in rx.cache : c.age <= Period} \in SUBSET Cached  BY DEF IInv, RxWith
  <2> QED BY <1>1, <2>1, OtherFields DEF IInv
<1>3. decoded' \in BOOLEAN /\ missed' \in BOOLEAN /\ headless' \in BOOLEAN
  BY DEF IInv, HistoryOK, DecodeDone, OtherDecodeDone
<1>4. whole' \subseteq 1..Len(sent)
  <2>1. CASE OtherDecodeDone  BY <2>1 DEF IInv, HistoryOK, OtherDecodeDone
  <2>2. CASE DecodeDone
    <3>1. whole \subseteq 1..Len(sent) /\ sent \in Seq(Messages) /\ onAir \in Seq(Frames)
      BY DEF IInv, HistoryOK
    <3>2. CASE sent # << >>
      <4>1. Len(sent) \in 1..Len(sent)  BY <3>1, <3>2, EmptySeq, LenProperties
      <4> QED BY <2>2, <3>1, <4>1 DEF DecodeDone
    <3>3. CASE onAir = << >>  BY <2>2, <3>1, <3>3 DEF DecodeDone
    <3>4. onAir # << >> => sent # << >>  BY DEF IInv
    <3> QED BY <3>2, <3>3, <3>4
  <2> QED BY <2>1, <2>2
<1> QED BY <1>1, <1>2, <1>3, <1>4 DEF IInv, HistoryOK

\* A message begins.
LEMMA SendStep ==
  ASSUME NEW m \in Messages, IInv, Send(m)
  PROVE  IInv'
<1>1. sent \in Seq(Messages) /\ MaxMessages \in Nat  BY RxAssumption DEF IInv, HistoryOK
<1>2. /\ sent' \in Seq(Messages) /\ sent' # << >> /\ Len(sent') = Len(sent) + 1
      /\ Len(sent) \in Nat
  BY <1>1, AppendProperties DEF Send
<1>3. /\ onAir' \in Seq(Frames) /\ place' \in Places /\ missed' = FALSE /\ Len(sent) < MaxMessages
      /\ UNCHANGED <<second, lines, decoded, rx, headless, whole, processed>>
  BY FramesAre DEF Send
<1>4. HistoryOK'
  <2>1. whole' \subseteq 1..Len(sent')  BY <1>2, <1>3 DEF IInv, HistoryOK
  <2>2. Len(sent') <= MaxMessages  BY <1>1, <1>2, <1>3
  <2> QED BY <1>2, <1>3, <2>1, <2>2 DEF IInv, HistoryOK
<1>5. RxWith(rx', YoungBuffer(DropAfter + (second' % Period)))  BY <1>3 DEF IInv
<1> QED BY <1>2, <1>3, <1>4, <1>5 DEF IInv

\* Every step keeps the invariant.
LEMMA Step == IInv /\ [Next]_vars => IInv'
<1>1. ASSUME IInv, UNCHANGED vars PROVE IInv'
  BY <1>1 DEF IInv, HistoryOK, vars
<1>2. ASSUME IInv, Next PROVE IInv'
  BY <1>2, SendStep, LineStep, CleanStep, GuiSecondStep DEF Next
<1> QED BY <1>1, <1>2

-----------------------------------------------------------------------------
(* Theorems.                                                               *)

\* The members of MainWindow keep their shape, and every buffer is at most as
\* old as 90 seconds and the time since the period began.
THEOREM InductiveInvariant == Spec => []IInv
<1> QED BY InitIInv, Step, PTL DEF Spec

\* Every field keeps its type, whatever is sent, lost and decoded twice: what
\* processDecodedLine and the passes of processActivity build from frames are
\* buffers, and what they hand on are commands.
THEOREM TypeInvariant == Spec => []TypeOK
<1>1. IInv => TypeOK
  <2> SUFFICES ASSUME IInv PROVE TypeOK
    OBVIOUS
  <2>1. /\ \A o \in DOMAIN rx.buffers : rx.buffers[o] \in BufferType
        /\ DOMAIN rx.buffers \subseteq Offsets /\ DOMAIN rx.band \subseteq Offsets
        /\ \A o \in DOMAIN rx.band : rx.band[o] \in AnyIdle
    BY DEF IInv, RxWith, MapTo, YoungBuffer
  <2>2. ASSUME NEW c \in rx.cache
        PROVE  c.offset \in Offsets /\ c.age \in Ages /\ \E f \in Frames : f.key = c.key
    <3>1. c \in Cached  BY DEF IInv, RxWith
    <3>2. c.offset \in Offsets /\ c.age \in Ages /\ c.key \in {f.key : f \in Frames}
      BY <3>1 DEF Cached
    <3> QED BY <3>2
  <2>3. rx.pending \in BOOLEAN /\ rx.commands \in Seq(CommandType)  BY DEF IInv, RxWith
  <2> QED BY <2>1, <2>2, <2>3 DEF TypeOK, IInv, HistoryOK, AnyIdle
<1> QED BY <1>1, InductiveInvariant, PTL

\* A buffer that gets no more frames is gone at the latest a period after the
\* 90 seconds, for all periods, thresholds, limits and messages, and whether
\* or not other activity forces passes in between.
THEOREM BuffersExpireAlways == Spec => []BuffersExpire
<1>1. IInv => BuffersExpire
  <2> SUFFICES ASSUME IInv, NEW o \in DOMAIN rx.buffers
               PROVE  Fresh(rx.buffers[o], DropAfter + Period)
    BY DEF BuffersExpire
  <2> DEFINE n == DropAfter + (second % Period)
  <2>1. n \in Nat /\ DropAfter + Period \in Nat /\ n <= DropAfter + Period
    BY Numbers, InPeriod DEF IInv
  <2>2. rx.buffers[o] \in YoungBuffer(n)
    BY DEF IInv, RxWith, MapTo
  <2> HIDE DEF n
  <2> QED BY <2>1, <2>2, YoungMonotonic DEF YoungBuffer
<1> QED BY <1>1, InductiveInvariant, PTL

-----------------------------------------------------------------------------
(* At most once.  Every message with a command has one unit to spend.  It  *)
(* lies on the air until the frame with the command has been handled, then *)
(* in a buffer or in the queue of commands, and at last it is processed.   *)

\* Buffers that hold a command, and commands that wait, which are acted upon.
Held(f) == {o \in DOMAIN f : IsCommandAllowed(f[o].cmd.cmd)}
Waiting(cs) == {i \in DOMAIN cs : IsCommandAllowed(cs[i].cmd)}
Total(r) == Cardinality(Held(r.buffers)) + Cardinality(Waiting(r.commands))

\* Messages that may be acted upon.
Acted == {n \in DOMAIN sent : IsCommandAllowed(sent[n].cmd)}

\* The frame on air has been handled in this period.
Handled == \E c \in rx.cache : c.key = Head(onAir).key /\ c.age + DecodeAt <= second % Period

\* Frames still to come that carry a command, and is one not yet handled?
ToCome == {i \in DOMAIN onAir : IsCommandAllowed(onAir[i].key.cmd)}
Pending == \E i \in ToCome : ~(i = 1 /\ Handled)

Spent(p, r, pending) == Len(p) + Total(r) + (IF pending THEN 1 ELSE 0)

OneUnit ==
  /\ \A i, j \in ToCome : i = j
  /\ Spent(processed, rx, Pending) <= Cardinality(Acted)

\* Counting is safe: the sets are finite.
LEMMA CountFacts ==
  ASSUME NEW S, NEW r, RxWith(r, S)
  PROVE  /\ IsFiniteSet(Held(r.buffers)) /\ Cardinality(Held(r.buffers)) \in Nat
         /\ IsFiniteSet(Waiting(r.commands)) /\ Cardinality(Waiting(r.commands)) \in Nat
         /\ Total(r) \in Nat
<1>1. Held(r.buffers) \in SUBSET Offsets  BY DEF RxWith, MapTo, Held
<1>2. IsFiniteSet(Held(r.buffers))  BY <1>1, OffsetFacts, FS_Subset
<1>3. r.commands \in Seq(CommandType)  BY DEF RxWith
<1>4. Waiting(r.commands) \in SUBSET (DOMAIN r.commands)  BY DEF Waiting
<1>5. IsFiniteSet(Waiting(r.commands))  BY <1>3, <1>4, SelectedType
<1>6. Cardinality(Held(r.buffers)) \in Nat /\ Cardinality(Waiting(r.commands)) \in Nat
  BY <1>2, <1>5, FS_CardinalityType
<1> QED BY <1>2, <1>5, <1>6 DEF Total

\* A set that is at most one element larger than a part of another.
LEMMA OneMore ==
  ASSUME NEW A, IsFiniteSet(A), NEW x, NEW B \in SUBSET (A \cup {x})
  PROVE  /\ IsFiniteSet(B) /\ Cardinality(B) \in Nat
         /\ Cardinality(B) <= Cardinality(A) + 1
<1>0. Cardinality(A) \in Nat  BY FS_CardinalityType
<1>1. IsFiniteSet(A \cup {x}) /\ Cardinality(A \cup {x}) <= Cardinality(A) + 1
  <2>1. /\ IsFiniteSet(A \cup {x})
        /\ Cardinality(A \cup {x}) = IF x \in A THEN Cardinality(A) ELSE Cardinality(A) + 1
    BY FS_AddElement
  <2> QED BY <1>0, <2>1
<1>2. IsFiniteSet(B) /\ Cardinality(B) <= Cardinality(A \cup {x})  BY <1>1, FS_Subset
<1> QED BY <1>1, <1>2, FS_CardinalityType

\* Moving an entry moves its command.
LEMMA HeldMoved ==
  ASSUME NEW S, NEW f, MapTo(f, S), NEW o \in Offsets
  PROVE  /\ IsFiniteSet(Held(f)) /\ IsFiniteSet(Held(Moved(f, o)))
         /\ Cardinality(Held(Moved(f, o))) <= Cardinality(Held(f))
<1>1. \A g : MapTo(g, S) => Held(g) \in SUBSET Offsets  BY DEF MapTo, Held
<1>2. IsFiniteSet(Held(f)) /\ IsFiniteSet(Held(Moved(f, o)))
  BY <1>1, OffsetFacts, FS_Subset, MovedMap
<1>3. CASE Moved(f, o) = f  BY <1>2, <1>3, FS_CardinalityType
<1>4. CASE Moved(f, o) # f
  <2> DEFINE prev == CHOOSE p \in Near(f, o) : \A q \in Near(f, o) : p <= q
  <2>1. o \notin DOMAIN f /\ Near(f, o) # {}
        /\ Moved(f, o) = Put(Without(f, {prev}), o, f[prev])
    BY <1>4 DEF Moved
  <2>2. prev \in DOMAIN f
    <3>1. Near(f, o) \in SUBSET Nat  BY OffsetFacts DEF Near, MapTo
    <3>2. \E p \in Near(f, o) : \A q \in Near(f, o) : p <= q  BY <2>1, <3>1, LeastElement
    <3>3. prev \in Near(f, o)  BY <3>2
    <3> QED BY <3>3 DEF Near
  <2> DEFINE g == Put(Without(f, {prev}), o, f[prev])
             rest == Held(f) \ {prev}
  <2> HIDE DEF prev
  <2>3. Held(g) \subseteq rest \cup {o}
    BY <2>2 DEF Held, Put, Without
  <2>4. prev \notin Held(f) => Held(g) \subseteq Held(f)
    BY <2>2 DEF Held, Put, Without
  <2>5. CASE prev \in Held(f)
    <3>1. IsFiniteSet(rest) /\ Cardinality(rest) = Cardinality(Held(f)) - 1
      BY <1>2, <2>5, FS_RemoveElement
    <3>2. Cardinality(Held(g)) <= Cardinality(rest) + 1
      <4> HIDE DEF rest, g
      <4> QED BY <2>3, <3>1, OneMore
    <3>3. Cardinality(Held(f)) \in Nat  BY <1>2, FS_CardinalityType
    <3>4. Cardinality(Held(g)) \in Nat  BY <1>2, <2>1, FS_CardinalityType
    <3> HIDE DEF rest, g
    <3>5. Cardinality(Held(g)) <= Cardinality(Held(f))  BY <3>1, <3>2, <3>3, <3>4
    <3> QED BY <1>2, <2>1, <3>5 DEF g
  <2>6. CASE prev \notin Held(f)
    BY <1>2, <2>1, <2>4, <2>6, FS_Subset
  <2> QED BY <2>5, <2>6
<1> QED BY <1>3, <1>4

\* Taking entries out takes commands out.
LEMMA HeldWithout ==
  ASSUME NEW f, IsFiniteSet(Held(f)), NEW R
  PROVE  IsFiniteSet(Held(Without(f, R))) /\ Cardinality(Held(Without(f, R))) <= Cardinality(Held(f))
<1>1. Held(Without(f, R)) \in SUBSET Held(f)  BY DEF Held, Without
<1> QED BY <1>1, FS_Subset

\* Putting a buffer in adds a command, if it holds one that was not there.
LEMMA HeldPut ==
  ASSUME NEW f, IsFiniteSet(Held(f)), NEW o, NEW b
  PROVE  /\ Cardinality(Held(Put(f, o, b)))
              <= Cardinality(Held(f)) + (IF IsCommandAllowed(b.cmd.cmd) THEN 1 ELSE 0)
         /\ b.cmd.cmd = At(f, o).cmd.cmd => Cardinality(Held(Put(f, o, b))) <= Cardinality(Held(f))
<1> DEFINE g == Put(f, o, b)
<1>0. Cardinality(Held(f)) \in Nat  BY FS_CardinalityType
<1>1. Held(g) \in SUBSET (Held(f) \cup {o})  BY DEF Held, Put
<1>2. ~IsCommandAllowed(b.cmd.cmd) => Held(g) \in SUBSET Held(f)  BY DEF Held, Put
<1>3. b.cmd.cmd = At(f, o).cmd.cmd => Held(g) \in SUBSET Held(f)
  <2>1. ~IsCommandAllowed(NoBuffer.cmd.cmd)  BY DEF NoBuffer, NoCmd, IsCommandAllowed
  <2>2. ASSUME b.cmd.cmd = At(f, o).cmd.cmd, NEW x \in Held(g) PROVE x \in Held(f)
    <3>1. CASE x = o
      <4>1. IsCommandAllowed(b.cmd.cmd)  BY <3>1, <2>2 DEF Held, Put
      <4>2. o \in DOMAIN f  BY <2>1, <2>2, <4>1 DEF At
      <4> QED BY <2>2, <3>1, <4>1, <4>2 DEF Held, At
    <3>2. CASE x # o  BY <3>2, <2>2 DEF Held, Put
    <3> QED BY <3>1, <3>2
  <2> QED BY <2>2
<1> HIDE DEF g
<1>4. Cardinality(Held(g)) <= Cardinality(Held(f)) + 1  BY <1>1, OneMore
<1>5. \A B \in SUBSET Held(f) : Cardinality(B) <= Cardinality(Held(f))  BY FS_Subset
<1> QED BY <1>0, <1>2, <1>3, <1>4, <1>5 DEF g

\* General activity adds no command.
LEMMA GeneralActivityTotal ==
  ASSUME NEW n \in Nat, NEW r, RxWith(r, YoungBuffer(n)), NEW f \in FrameType, NEW o \in Offsets
  PROVE  Total(GeneralActivity(r, f, o)) <= Total(r)
<1> DEFINE S == YoungBuffer(n)
           here == Moved(r.buffers, o)
           kept == IF f.first THEN Without(here, {o}) ELSE here
           drifted == Moved(kept, o)
           datum == [text |-> f.key.text, last |-> f.last, age |-> 0]
           added == [drifted EXCEPT ![o].msgs = Append(@, datum)]
           g == GeneralActivity(r, f, o)
<1>1. MapTo(r.buffers, S) /\ MapTo(here, S)  BY MovedMap DEF RxWith
<1>2. MapTo(kept, S)  BY <1>1, WithoutMap
<1>3. IsFiniteSet(Held(here)) /\ Cardinality(Held(here)) <= Cardinality(Held(r.buffers))
  BY <1>1, HeldMoved
<1>4. IsFiniteSet(Held(kept)) /\ Cardinality(Held(kept)) <= Cardinality(Held(here))
  <2> HIDE DEF here
  <2>1. Cardinality(Held(here)) \in Nat  BY <1>3, FS_CardinalityType
  <2> QED BY <1>3, <2>1, HeldWithout
<1>5. /\ IsFiniteSet(Held(drifted)) /\ Cardinality(Held(drifted)) <= Cardinality(Held(kept))
      /\ Near(kept, o) # {} => o \in DOMAIN drifted
      /\ MapTo(drifted, S)
  <2> HIDE DEF kept, S
  <2> QED BY <1>2, HeldMoved, MovedMap
<1>6. Near(kept, o) # {} => Held(added) = Held(drifted)
  <2> HIDE DEF drifted, datum, kept
  <2>1. SUFFICES ASSUME Near(kept, o) # {} PROVE Held(added) = Held(drifted)
    OBVIOUS
  <2>2. drifted[o] \in BufferType  BY <1>5, <2>1 DEF MapTo, YoungBuffer
  <2>3. [drifted[o] EXCEPT !.msgs = Append(@, datum)].cmd = drifted[o].cmd  BY <2>2 DEF BufferType
  <2>4. \A p \in DOMAIN drifted : added[p].cmd = drifted[p].cmd  BY <1>5, <2>3
  <2> QED BY <2>4 DEF Held
<1>7. g.commands = r.commands /\ (g.buffers = drifted \/ (g.buffers = added /\ Near(kept, o) # {}))
  <2>1. "buffers" \in DOMAIN r /\ "commands" \in DOMAIN r  BY DEF RxWith, Fields
  <2>2. g.commands = r.commands
        /\ g.buffers = IF f.key.type = "data" /\ Near(kept, o) # {} THEN added ELSE drifted
    BY <2>1 DEF GeneralActivity, HasExistingMessageBuffer
  <2> HIDE DEF g, added, drifted, kept
  <2> QED BY <2>2, Zenon
<1>8. Cardinality(Held(g.buffers)) <= Cardinality(Held(r.buffers)) /\ g.commands = r.commands
  <2>1. /\ Cardinality(Held(here)) \in Nat /\ Cardinality(Held(kept)) \in Nat
        /\ Cardinality(Held(drifted)) \in Nat
    <3> HIDE DEF here, kept, drifted
    <3> QED BY <1>3, <1>4, <1>5, FS_CardinalityType
  <2>2. Cardinality(Held(r.buffers)) \in Nat  BY CountFacts
  <2>3. Cardinality(Held(drifted)) <= Cardinality(Held(r.buffers))
    <3> HIDE DEF here, kept, drifted
    <3> QED BY <1>3, <1>4, <1>5, <2>1, <2>2
  <2> HIDE DEF added, drifted, kept, g
  <2> QED BY <1>6, <1>7, <2>3
<1>9. /\ Cardinality(Held(r.buffers)) \in Nat /\ Cardinality(Held(g.buffers)) \in Nat
      /\ Cardinality(Waiting(r.commands)) \in Nat
  <2>1. RxWith(g, S)  BY GeneralActivityYoung
  <2> HIDE DEF g, S
  <2> QED BY <2>1, CountFacts
<1> HIDE DEF g
<1> QED BY <1>8, <1>9 DEF Total, g

\* A command that is appended waits.
LEMMA QueueTotal ==
  ASSUME NEW S, NEW r, RxWith(r, S), NEW c \in CommandType
  PROVE  Total(Queue(r, c)) <= Total(r) + (IF IsCommandAllowed(c.cmd) THEN 1 ELSE 0)
<1> DEFINE q == Queue(r, c)
<1>1. r.commands \in Seq(CommandType) /\ DOMAIN r = Fields  BY DEF RxWith
<1>2. q.buffers = r.buffers /\ q.commands = Append(r.commands, c)
  BY <1>1 DEF Queue, Fields
<1>3. /\ DOMAIN Append(r.commands, c) = DOMAIN r.commands \cup {Len(r.commands) + 1}
      /\ Append(r.commands, c)[Len(r.commands) + 1] = c
      /\ \A i \in DOMAIN r.commands : Append(r.commands, c)[i] = r.commands[i]
  BY <1>1, AppendProperties, LenProperties
<1>4. Waiting(q.commands) \in SUBSET (Waiting(r.commands) \cup {Len(r.commands) + 1})
  BY <1>2, <1>3 DEF Waiting
<1>5. ~IsCommandAllowed(c.cmd) => Waiting(q.commands) \in SUBSET Waiting(r.commands)
  BY <1>2, <1>3 DEF Waiting
<1>6. /\ IsFiniteSet(Waiting(r.commands)) /\ Cardinality(Waiting(r.commands)) \in Nat
      /\ Cardinality(Held(r.buffers)) \in Nat
  BY CountFacts
<1> HIDE DEF q
<1>7. /\ Cardinality(Waiting(q.commands)) <= Cardinality(Waiting(r.commands)) + 1
      /\ Cardinality(Waiting(q.commands)) \in Nat
  BY <1>4, <1>6, OneMore
<1>8. ~IsCommandAllowed(c.cmd) => Cardinality(Waiting(q.commands)) <= Cardinality(Waiting(r.commands))
  BY <1>5, <1>6, FS_Subset
<1>9. Total(q) <= Total(r) + (IF IsCommandAllowed(c.cmd) THEN 1 ELSE 0)
  BY <1>2, <1>6, <1>7, <1>8 DEF Total
<1> QED BY <1>9 DEF q

\* A line that is not a duplicate adds at most the command of its frame.
LEMMA ProcessDecodedLineTotal ==
  ASSUME NEW n \in Nat, NEW r, RxWith(r, YoungBuffer(n)), NEW f \in Frames, NEW o \in Offsets
  PROVE  /\ Total(ProcessDecodedLine(r, f, o))
              <= Total(r) + (IF IsCommandAllowed(f.key.cmd) THEN 1 ELSE 0)
         /\ IsDuplicate(r.cache, f, o) => ProcessDecodedLine(r, f, o) = r
         /\ ~IsDuplicate(r.cache, f, o) =>
              ProcessDecodedLine(r, f, o).cache = CacheFrame(r.cache, f, o)
<1> DEFINE S == YoungBuffer(n)
           cached == [r EXCEPT !.cache = CacheFrame(@, f, o)]
           g == GeneralActivity(cached, f, o)
           more == IF IsCommandAllowed(f.key.cmd) THEN 1 ELSE 0
           bs == Moved(g.buffers, o)
<1>1. f \in FrameType /\ DOMAIN r = Fields  BY FramesAre DEF RxWith
<1>2. RxWith(cached, S) /\ cached.cache = CacheFrame(r.cache, f, o) /\ Total(cached) = Total(r)
  <2>1. r.cache \in SUBSET Cached  BY DEF RxWith
  <2>2. CacheFrame(r.cache, f, o) \in SUBSET Cached  BY <2>1, CacheType
  <2>3. RxWith(cached, S)  BY <2>2, OtherFields
  <2>4. /\ cached.cache = CacheFrame(r.cache, f, o) /\ cached.buffers = r.buffers
        /\ cached.commands = r.commands
    BY <1>1 DEF Fields
  <2> QED BY <2>3, <2>4 DEF Total
<1>3. RxWith(g, S) /\ Total(g) <= Total(r) /\ g.cache = cached.cache
  <2>1. DOMAIN cached = Fields  BY <1>2 DEF RxWith
  <2> HIDE DEF cached
  <2>2. g.cache = cached.cache  BY <2>1 DEF GeneralActivity, Fields
  <2> QED BY <1>1, <1>2, <2>2, GeneralActivityYoung, GeneralActivityTotal
<1>4. /\ Total(r) \in Nat /\ Total(g) \in Nat /\ Cardinality(Held(g.buffers)) \in Nat
      /\ Cardinality(Waiting(g.commands)) \in Nat
  <2> HIDE DEF g, S
  <2> QED BY <1>3, CountFacts DEF S
<1>5. MapTo(g.buffers, S) /\ DOMAIN g = Fields
  <2> HIDE DEF g, S
  <2> QED BY <1>3 DEF RxWith
<1>6. MapTo(bs, S) /\ IsFiniteSet(Held(bs)) /\ Cardinality(Held(bs)) <= Cardinality(Held(g.buffers))
      /\ Cardinality(Held(bs)) \in Nat
  <2> HIDE DEF g, S
  <2>1. MapTo(bs, S) /\ IsFiniteSet(Held(bs)) /\ Cardinality(Held(bs)) <= Cardinality(Held(g.buffers))
    BY <1>5, HeldMoved, MovedMap
  <2> QED BY <2>1, FS_CardinalityType
<1>7. At(bs, o) \in BufferType
  <2>1. MapTo(bs, BufferType)  BY <1>6, MapMonotonic, YoungMonotonic
  <2> QED BY <2>1, AtBuffer
<1>8. Total(Queue(g, ToCommand(f.key, << >>))) <= Total(g) + more
      /\ Queue(g, ToCommand(f.key, << >>)).cache = g.cache
  <2>1. ToCommand(f.key, << >>) \in CommandType
    <3>1. << >> \in Seq(Texts)  BY EmptySeq
    <3> QED BY <1>1, <3>1, FrameParts DEF ToCommand, CommandType
  <2>2. ToCommand(f.key, << >>).cmd = f.key.cmd  BY DEF ToCommand
  <2> HIDE DEF g, S
  <2>3. Queue(g, ToCommand(f.key, << >>)).cache = g.cache  BY <1>5 DEF Queue, Fields
  <2> QED BY <1>3, <2>1, <2>2, <2>3, QueueTotal
<1>9. Total(BufferCompound(g, f, o)) <= Total(g) /\ BufferCompound(g, f, o).cache = g.cache
  <2> DEFINE call == [call |-> f.key.from, last |-> f.last, age |-> 0]
             b == [At(bs, o) EXCEPT !.compound = Append(@, call)]
             h == BufferCompound(g, f, o)
  <2>1. b.cmd = At(bs, o).cmd  BY <1>7 DEF BufferType
  <2>2. h.buffers = Put(bs, o, b) /\ h.commands = g.commands /\ h.cache = g.cache
    <3> HIDE DEF g
    <3> QED BY <1>5 DEF BufferCompound, Fields
  <2>3. RxWith(h, S)  BY <1>1, <1>3, BufferCompoundYoung
  <2> HIDE DEF b, h, bs, g, S
  <2>4. Cardinality(Held(h.buffers)) <= Cardinality(Held(bs))  BY <1>6, <2>1, <2>2, HeldPut
  <2>5. Cardinality(Held(h.buffers)) \in Nat  BY <2>3, CountFacts
  <2>6. Total(h) <= Total(g)  BY <1>4, <1>6, <2>2, <2>4, <2>5 DEF Total
  <2> QED BY <2>2, <2>6 DEF h
<1>10. Total(BufferCommand(g, f, o)) <= Total(g) + more /\ BufferCommand(g, f, o).cache = g.cache
  <2> DEFINE cmd == [from |-> f.key.from, to |-> f.key.to, cmd |-> f.key.cmd, last |-> f.last, age |-> 0]
             b == [At(bs, o) EXCEPT !.cmd = cmd, !.msgs = << >>]
             h == BufferCommand(g, f, o)
  <2>1. b.cmd.cmd = f.key.cmd  BY <1>7 DEF BufferType
  <2>2. h.buffers = Put(bs, o, b) /\ h.commands = g.commands /\ h.cache = g.cache
    <3> HIDE DEF g
    <3> QED BY <1>5 DEF BufferCommand, Fields
  <2>3. RxWith(h, S)  BY <1>1, <1>3, BufferCommandYoung
  <2> HIDE DEF b, h, bs, g, S
  <2>4. Cardinality(Held(h.buffers)) <= Cardinality(Held(bs)) + more  BY <1>6, <2>1, <2>2, HeldPut
  <2>5. Cardinality(Held(h.buffers)) \in Nat  BY <2>3, CountFacts
  <2>6. Total(h) <= Total(g) + more  BY <1>4, <1>6, <2>2, <2>4, <2>5 DEF Total
  <2> QED BY <2>2, <2>6 DEF h
<1>11. Total(Parse(g, f, o)) <= Total(r) + more /\ Parse(g, f, o).cache = g.cache
  <2>0. more \in {0, 1}  OBVIOUS
  <2>1. \/ Parse(g, f, o) = Queue(g, ToCommand(f.key, << >>)) \/ Parse(g, f, o) = g
        \/ Parse(g, f, o) = BufferCompound(g, f, o) \/ Parse(g, f, o) = BufferCommand(g, f, o)
    <3> HIDE DEF g
    <3> QED BY Zenon DEF Parse
  <2>2. /\ Total(Queue(g, ToCommand(f.key, << >>))) <= Total(r) + more
        /\ Total(BufferCompound(g, f, o)) <= Total(r) + more
        /\ Total(BufferCommand(g, f, o)) <= Total(r) + more /\ Total(g) <= Total(r) + more
    <3>1. /\ Total(Queue(g, ToCommand(f.key, << >>))) \in Nat /\ Total(BufferCompound(g, f, o)) \in Nat
          /\ Total(BufferCommand(g, f, o)) \in Nat
      <4>1. /\ RxWith(Queue(g, ToCommand(f.key, << >>)), S) /\ RxWith(BufferCompound(g, f, o), S)
            /\ RxWith(BufferCommand(g, f, o), S)
        <5> HIDE DEF g
        <5> QED BY <1>1, <1>3, QueueType, BufferCompoundYoung, BufferCommandYoung
      <4> HIDE DEF g, S
      <4> QED BY <4>1, CountFacts
    <3> HIDE DEF g, more
    <3> QED BY <1>3, <1>4, <1>8, <1>9, <1>10, <2>0, <3>1
  <2> HIDE DEF g, more
  <2> QED BY <1>8, <1>9, <1>10, <2>1, <2>2
<1>12. /\ IsDuplicate(r.cache, f, o) => ProcessDecodedLine(r, f, o) = r
       /\ ~IsDuplicate(r.cache, f, o) => ProcessDecodedLine(r, f, o) = Parse(g, f, o)
  BY DEF ProcessDecodedLine
<1>13. Total(r) <= Total(r) + more  BY <1>4
<1> HIDE DEF g, cached
<1> QED BY <1>2, <1>3, <1>11, <1>12, <1>13

\* Growing older changes no command.
LEMMA OlderTotal ==
  ASSUME NEW n \in Nat, NEW r, RxWith(r, YoungBuffer(n))
  PROVE  Total(OlderRx(r)) = Total(r)
<1>1. DOMAIN r = Fields /\ MapTo(r.buffers, YoungBuffer(n))  BY DEF RxWith
<1>2. /\ OlderRx(r).commands = r.commands
      /\ OlderRx(r).buffers = [o \in DOMAIN r.buffers |-> OlderBuffer(r.buffers[o])]
  BY <1>1 DEF OlderRx, Fields
<1>3. \A o \in DOMAIN r.buffers : OlderBuffer(r.buffers[o]).cmd.cmd = r.buffers[o].cmd.cmd
  <2> TAKE o \in DOMAIN r.buffers
  <2>1. r.buffers[o].cmd \in CmdType  BY <1>1 DEF MapTo, YoungBuffer, BufferType
  <2> QED BY <2>1 DEF OlderBuffer, CmdType
<1>4. Held(OlderRx(r).buffers) = Held(r.buffers)  BY <1>2, <1>3 DEF Held
<1> QED BY <1>2, <1>4 DEF Total

\* Commands handed on from a set of offsets wait, one for each that is acted upon.
LEMMA HandedTotal ==
  ASSUME NEW commands \in Seq(CommandType), NEW S \in SUBSET Offsets,
         NEW command, \A o \in S : command[o] \in CommandType
  PROVE  Cardinality(Waiting(commands \o [i \in DOMAIN Ascending(S) |-> command[Ascending(S)[i]]]))
           <= Cardinality(Waiting(commands)) + Cardinality({o \in S : IsCommandAllowed(command[o].cmd)})
<1> DEFINE q == Ascending(S)
           n == Cardinality(S)
           k == Len(commands)
           t == [i \in DOMAIN q |-> command[q[i]]]
           A == {o \in S : IsCommandAllowed(command[o].cmd)}
           T == {i \in 1..n : IsCommandAllowed(command[q[i]].cmd)}
           late == {k + i : i \in T}
           all == commands \o t
<1>1. S \in SUBSET Nat /\ IsFiniteSet(S)  BY OffsetFacts, FS_Subset
<1>2. n \in Nat /\ q \in [1..n -> S] /\ \A i, j \in 1..n : i # j => q[i] # q[j]
  BY <1>1, AscendingIs
<1> HIDE DEF q, n
<1>3. t \in [1..n -> CommandType]  BY <1>2
<1>4. t \in Seq(CommandType) /\ Len(t) = n
  <2>1. t \in Seq(CommandType)  BY <1>2, <1>3, FunctionIsSeq
  <2> QED BY <1>2, <1>3, <2>1, LenProperties
<1>5. IsFiniteSet(A) /\ IsFiniteSet(T) /\ Cardinality(T) <= Cardinality(A)
  <2>1. IsFiniteSet(A)  BY <1>1, FS_Subset
  <2> DEFINE f == [i \in T |-> q[i]]
  <2>2. f \in Injection(T, A)
    <3>1. f \in [T -> A]  BY <1>2
    <3>2. ASSUME NEW i \in T, NEW j \in T, f[i] = f[j] PROVE i = j  BY <1>2, <3>2
    <3> QED BY <3>1, <3>2 DEF Injection, IsInjective
  <2> HIDE DEF f, A, T
  <2> QED BY <2>1, <2>2, FS_Injection
<1>6. IsFiniteSet(late) /\ Cardinality(late) <= Cardinality(T)
  <2> DEFINE f == [i \in T |-> k + i]
  <2>1. f \in Surjection(T, late)  BY DEF Surjection
  <2> HIDE DEF f, late, T
  <2> QED BY <1>5, <2>1, FS_Surjection
<1>7. Waiting(all) \subseteq Waiting(commands) \cup late
  <2> SUFFICES ASSUME NEW i \in Waiting(all) PROVE i \in Waiting(commands) \cup late
    OBVIOUS
  <2>1. /\ k \in Nat /\ DOMAIN commands = 1..k /\ Len(all) = k + n /\ all \in Seq(CommandType)
        /\ \A j \in 1..k + n : all[j] = IF j <= k THEN commands[j] ELSE t[j - k]
    <3> HIDE DEF t
    <3>1. k \in Nat /\ DOMAIN commands = 1..k  BY LenProperties
    <3>2. /\ all \in Seq(CommandType) /\ Len(all) = k + Len(t)
          /\ \A j \in 1..k + Len(t) : all[j] = IF j <= k THEN commands[j] ELSE t[j - k]
      BY <1>4, ConcatProperties
    <3> QED BY <1>4, <3>1, <3>2
  <2>2. i \in 1..k + n /\ IsCommandAllowed(all[i].cmd)
    <3> HIDE DEF all
    <3> QED BY <2>1, LenProperties DEF Waiting
  <2>3. CASE i <= k
    <3>1. i \in 1..k /\ all[i] = commands[i]  BY <2>1, <2>2, <2>3
    <3> HIDE DEF all
    <3> QED BY <2>1, <2>2, <3>1 DEF Waiting
  <2>4. CASE ~(i <= k)
    <3>1. i - k \in 1..n /\ all[i] = t[i - k] /\ k + (i - k) = i  BY <1>2, <2>1, <2>2, <2>4
    <3>2. t[i - k] = command[q[i - k]]  BY <1>2, <3>1
    <3>3. i - k \in T
      <4> HIDE DEF all, t
      <4> QED BY <2>2, <3>1, <3>2
    <3> QED BY <3>1, <3>3
  <2> QED BY <2>3, <2>4
<1>8. IsFiniteSet(Waiting(commands))
  <2>1. Waiting(commands) \in SUBSET (DOMAIN commands)  BY DEF Waiting
  <2> QED BY <2>1, SelectedType
<1> HIDE DEF all, late, A, T, k
<1>9. /\ IsFiniteSet(Waiting(commands) \cup late)
      /\ Cardinality(Waiting(commands) \cup late) <= Cardinality(Waiting(commands)) + Cardinality(late)
  <2>1. /\ IsFiniteSet(Waiting(commands) \cup late)
        /\ Cardinality(Waiting(commands) \cup late)
             = Cardinality(Waiting(commands)) + Cardinality(late) - Cardinality(Waiting(commands) \cap late)
    BY <1>6, <1>8, FS_Union
  <2>2. Cardinality(Waiting(commands) \cap late) \in Nat
    BY <1>8, FS_Intersection, FS_CardinalityType
  <2>3. Cardinality(Waiting(commands)) \in Nat /\ Cardinality(late) \in Nat
    BY <1>6, <1>8, FS_CardinalityType
  <2> QED BY <2>1, <2>2, <2>3
<1>10. Cardinality(Waiting(all)) <= Cardinality(Waiting(commands) \cup late)
       /\ Cardinality(Waiting(all)) \in Nat
  <2>1. IsFiniteSet(Waiting(all)) /\ Cardinality(Waiting(all)) <= Cardinality(Waiting(commands) \cup late)
    BY <1>7, <1>9, FS_Subset
  <2> QED BY <2>1, FS_CardinalityType
<1>11. /\ Cardinality(Waiting(commands)) \in Nat /\ Cardinality(late) \in Nat /\ Cardinality(T) \in Nat
       /\ Cardinality(A) \in Nat /\ Cardinality(Waiting(commands) \cup late) \in Nat
  BY <1>5, <1>6, <1>8, <1>9, FS_CardinalityType
<1>12. Cardinality(Waiting(all)) <= Cardinality(Waiting(commands)) + Cardinality(A)
  BY <1>5, <1>6, <1>9, <1>10, <1>11
<1> QED BY <1>12 DEF all, A, q, t

\* Two parts of a finite set that share nothing are no larger than the set.
LEMMA TwoParts ==
  ASSUME NEW H, IsFiniteSet(H), NEW A \in SUBSET H, NEW B \in SUBSET H, A \cap B = {}
  PROVE  Cardinality(A) + Cardinality(B) <= Cardinality(H)
<1>1. IsFiniteSet(A) /\ IsFiniteSet(B)  BY FS_Subset
<1>2. Cardinality(A \cup B) = Cardinality(A) + Cardinality(B) - Cardinality(A \cap B)
  BY <1>1, FS_Union
<1>3. Cardinality(A \cap B) = 0  BY FS_EmptySet
<1>4. Cardinality(A \cup B) <= Cardinality(H)  BY FS_Subset
<1>5. Cardinality(A) \in Nat /\ Cardinality(B) \in Nat  BY <1>1, FS_CardinalityType
<1> QED BY <1>2, <1>3, <1>4, <1>5

\* Gaps are marked in buffers that hold what they held.
LEMMA ProcessIdleActivityTotal ==
  ASSUME NEW r, RxWith(r, BufferType)
  PROVE  Total(ProcessIdleActivity(r)) = Total(r)
<1> DEFINE idle == {o \in DOMAIN r.band : /\ ~r.band[o].last /\ ~r.band[o].mfi
                                          /\ 2 * r.band[o].age >= 3 * Period}
           found == CHOOSE f : f = [o \in idle |->
                      \/ HasExistingMessageBuffer(r.buffers, o)
                      \/ \E p \in idle : p < o /\ o - p <= Threshold /\ f[p]]
           marked == {o \in idle : found[o]}
           gap(o) == [text |-> Mfi, last |-> FALSE, age |-> r.band[o].age]
           buffers == [o \in DOMAIN r.buffers \cup marked |->
                        IF o \in marked
                        THEN [At(r.buffers, o) EXCEPT !.msgs = Append(@, gap(o))]
                        ELSE r.buffers[o]]
           q == ProcessIdleActivity(r)
<1>1. DOMAIN r = Fields /\ MapTo(r.buffers, BufferType)  BY DEF RxWith
<1>2. q.buffers = buffers /\ q.commands = r.commands
  BY <1>1 DEF ProcessIdleActivity, Fields
<1> HIDE DEF marked, gap
<1>3. \A o \in DOMAIN buffers : buffers[o].cmd = At(r.buffers, o).cmd
  <2> TAKE o \in DOMAIN buffers
  <2>1. At(r.buffers, o) \in BufferType  BY <1>1, AtBuffer
  <2>2. [At(r.buffers, o) EXCEPT !.msgs = Append(@, gap(o))].cmd = At(r.buffers, o).cmd
    BY <2>1 DEF BufferType
  <2> QED BY <2>2 DEF At
<1>4. ~IsCommandAllowed(NoBuffer.cmd.cmd)  BY DEF NoBuffer, NoCmd, IsCommandAllowed
<1>5. DOMAIN r.buffers \subseteq DOMAIN buffers  OBVIOUS
<1> HIDE DEF buffers
<1>6. Held(buffers) = Held(r.buffers)  BY <1>3, <1>4, <1>5 DEF Held, At
<1> QED BY <1>2, <1>6 DEF Total

\* Joining fills in calls and leaves the command.
LEMMA JoinedKeeps ==
  ASSUME NEW b \in BufferType
  PROVE  Joined(b) \in BufferType /\ Joined(b).cmd.cmd = b.cmd.cmd
<1>1. \A c \in BufferType : \A field \in {"from", "to"} : Join(c, field).cmd.cmd = c.cmd.cmd
  <2> TAKE c \in BufferType, field \in {"from", "to"}
  <2>1. c.cmd \in CmdType  BY DEF BufferType
  <2>2. field # "cmd"  OBVIOUS
  <2> QED BY <2>1, <2>2 DEF Join, CmdType, BufferType
<1>2. Join(b, "from") \in BufferType /\ Join(Join(b, "from"), "to") \in BufferType  BY JoinType
<1>3. Join(b, "from").cmd.cmd = b.cmd.cmd  BY <1>1
<1>4. Join(Join(b, "from"), "to").cmd.cmd = b.cmd.cmd  BY <1>1, <1>2, <1>3
<1> QED BY <1>2, <1>4 DEF Joined

\* Buffers that are handed on become commands.
LEMMA ProcessCompoundActivityTotal ==
  ASSUME NEW r, RxWith(r, BufferType)
  PROVE  Total(ProcessCompoundActivity(r)) <= Total(r)
<1> DEFINE ready == {o \in DOMAIN r.buffers : JoinReady(r.buffers[o])}
           queue == Ascending(ready)
           handed == [o \in ready |-> ToCommand(Joined(r.buffers[o]).cmd, << >>)]
           buffers == [o \in DOMAIN r.buffers \ ready |-> Joined(r.buffers[o])]
           commands == r.commands \o [i \in DOMAIN queue |-> handed[queue[i]]]
           q == ProcessCompoundActivity(r)
           A == {o \in ready : IsCommandAllowed(handed[o].cmd)}
<1>1. DOMAIN r = Fields /\ MapTo(r.buffers, BufferType) /\ r.commands \in Seq(CommandType)
  BY DEF RxWith
<1>2. ready \in SUBSET Offsets /\ \A i \in DOMAIN queue : queue[i] \in ready
  <2>1. ready \in SUBSET Offsets  BY <1>1 DEF MapTo
  <2>2. ready \in SUBSET Nat /\ IsFiniteSet(ready)  BY <2>1, OffsetFacts, FS_Subset
  <2> HIDE DEF ready
  <2> QED BY <2>1, <2>2, AscendingIs
<1>3. \A o \in ready : handed[o] \in CommandType /\ handed[o].cmd = r.buffers[o].cmd.cmd
  <2> TAKE o \in ready
  <2>1. r.buffers[o] \in BufferType  BY <1>1 DEF MapTo
  <2>2. Joined(r.buffers[o]) \in BufferType /\ Joined(r.buffers[o]).cmd.cmd = r.buffers[o].cmd.cmd
    BY <2>1, JoinedKeeps
  <2>3. << >> \in Seq(Texts)  BY EmptySeq
  <2>4. ToCommand(Joined(r.buffers[o]).cmd, << >>) \in CommandType  BY <2>2, <2>3, HandedType
  <2> QED BY <2>2, <2>4 DEF ToCommand
<1>4. q.buffers = buffers /\ q.commands = commands
  <2> DEFINE command(o) == ToCommand(Joined(r.buffers[o]).cmd, << >>)
  <2>1. q.buffers = buffers /\ q.commands = r.commands \o [i \in DOMAIN queue |-> command(queue[i])]
    BY <1>1 DEF ProcessCompoundActivity, Fields
  <2>2. \A i \in DOMAIN queue : command(queue[i]) = handed[queue[i]]  BY <1>2
  <2> HIDE DEF queue, command, handed
  <2>3. [i \in DOMAIN queue |-> command(queue[i])] = [i \in DOMAIN queue |-> handed[queue[i]]]
    BY <2>2
  <2> QED BY <2>1, <2>3, Zenon
<1>5. Cardinality(Waiting(commands)) <= Cardinality(Waiting(r.commands)) + Cardinality(A)
  <2> HIDE DEF ready, handed
  <2> QED BY <1>1, <1>2, <1>3, HandedTotal
<1>6. A \subseteq Held(r.buffers)  BY <1>3 DEF Held
<1>7. Held(buffers) \subseteq Held(r.buffers) /\ A \cap Held(buffers) = {}
  <2>1. \A o \in DOMAIN r.buffers : Joined(r.buffers[o]).cmd.cmd = r.buffers[o].cmd.cmd
    BY <1>1, JoinedKeeps DEF MapTo
  <2> HIDE DEF ready, handed
  <2> QED BY <2>1 DEF Held
<1>8. /\ IsFiniteSet(Held(r.buffers)) /\ Cardinality(Held(r.buffers)) \in Nat
      /\ Cardinality(Waiting(r.commands)) \in Nat
  BY CountFacts
<1>9. Cardinality(Held(buffers)) \in Nat /\ Cardinality(Waiting(commands)) \in Nat
  <2>1. RxWith(q, BufferType)  BY ProcessCompoundActivityType
  <2> HIDE DEF q, buffers, commands
  <2> QED BY <1>4, <2>1, CountFacts
<1>10. Cardinality(A) \in Nat
  <2> HIDE DEF A
  <2> QED BY <1>6, <1>8, FS_Subset, FS_CardinalityType
<1> HIDE DEF A, buffers, commands, q
<1>11. Cardinality(A) + Cardinality(Held(buffers)) <= Cardinality(Held(r.buffers))
  BY <1>6, <1>7, <1>8, TwoParts
<1>12. Total(q) <= Total(r)  BY <1>4, <1>5, <1>8, <1>9, <1>10, <1>11 DEF Total
<1> QED BY <1>12 DEF q

\* Buffers that are closed become commands, others are dropped.
LEMMA ProcessBufferedActivityTotal ==
  ASSUME NEW r, RxWith(r, BufferType)
  PROVE  Total(ProcessBufferedActivity(r)) <= Total(r)
<1> DEFINE gone == {o \in DOMAIN r.buffers : ~Fresh(r.buffers[o], DropAfter)}
           closed == {o \in DOMAIN r.buffers : Closed(r.buffers[o])}
           ready == {o \in closed : Valid(r.buffers[o])}
           queue == Ascending(ready)
           handed == [o \in ready |-> ToCommand(r.buffers[o].cmd, TextOf(r.buffers[o]))]
           buffers == Without(r.buffers, gone \cup closed)
           commands == r.commands \o [i \in DOMAIN queue |-> handed[queue[i]]]
           q == ProcessBufferedActivity(r)
           A == {o \in ready : IsCommandAllowed(handed[o].cmd)}
<1>1. DOMAIN r = Fields /\ MapTo(r.buffers, BufferType) /\ r.commands \in Seq(CommandType)
  BY DEF RxWith
<1>2. ready \in SUBSET Offsets /\ \A i \in DOMAIN queue : queue[i] \in ready
  <2>1. ready \in SUBSET Offsets  BY <1>1 DEF MapTo
  <2>2. ready \in SUBSET Nat /\ IsFiniteSet(ready)  BY <2>1, OffsetFacts, FS_Subset
  <2> HIDE DEF ready
  <2> QED BY <2>1, <2>2, AscendingIs
<1>3. \A o \in ready : handed[o] \in CommandType /\ handed[o].cmd = r.buffers[o].cmd.cmd
  <2> TAKE o \in ready
  <2>1. r.buffers[o] \in BufferType  BY <1>1 DEF MapTo
  <2>2. ToCommand(r.buffers[o].cmd, TextOf(r.buffers[o])) \in CommandType
    BY <2>1, HandedType, TextOfType
  <2> QED BY <2>2 DEF ToCommand
<1>4. q.buffers = buffers /\ q.commands = commands
  <2> DEFINE command(o) == ToCommand(r.buffers[o].cmd, TextOf(r.buffers[o]))
  <2>1. q.buffers = buffers /\ q.commands = r.commands \o [i \in DOMAIN queue |-> command(queue[i])]
    BY <1>1 DEF ProcessBufferedActivity, Fields
  <2>2. \A i \in DOMAIN queue : command(queue[i]) = handed[queue[i]]  BY <1>2
  <2> HIDE DEF queue, command, handed
  <2>3. [i \in DOMAIN queue |-> command(queue[i])] = [i \in DOMAIN queue |-> handed[queue[i]]]
    BY <2>2
  <2> QED BY <2>1, <2>3, Zenon
<1>5. Cardinality(Waiting(commands)) <= Cardinality(Waiting(r.commands)) + Cardinality(A)
  <2> HIDE DEF ready, handed
  <2> QED BY <1>1, <1>2, <1>3, HandedTotal
<1>6. A \subseteq Held(r.buffers)  BY <1>3 DEF Held
<1>7. Held(buffers) \subseteq Held(r.buffers) /\ A \cap Held(buffers) = {}
  <2>1. ready \subseteq gone \cup closed  OBVIOUS
  <2> HIDE DEF ready, handed, gone, closed
  <2> QED BY <2>1 DEF Held, Without
<1>8. /\ IsFiniteSet(Held(r.buffers)) /\ Cardinality(Held(r.buffers)) \in Nat
      /\ Cardinality(Waiting(r.commands)) \in Nat
  BY CountFacts
<1>9. Cardinality(Held(buffers)) \in Nat /\ Cardinality(Waiting(commands)) \in Nat
  <2>1. RxWith(q, YoungBuffer(DropAfter))  BY ProcessBufferedActivityYoung
  <2> HIDE DEF q, buffers, commands
  <2> QED BY <1>4, <2>1, CountFacts
<1>10. Cardinality(A) \in Nat
  <2> HIDE DEF A
  <2> QED BY <1>6, <1>8, FS_Subset, FS_CardinalityType
<1> HIDE DEF A, buffers, commands, q
<1>11. Cardinality(A) + Cardinality(Held(buffers)) <= Cardinality(Held(r.buffers))
  BY <1>6, <1>7, <1>8, TwoParts
<1>12. Total(q) <= Total(r)  BY <1>4, <1>5, <1>8, <1>9, <1>10, <1>11 DEF Total
<1> QED BY <1>12 DEF q

\* A pass makes nothing.
LEMMA ProcessActivityTotal ==
  ASSUME NEW r, RxWith(r, BufferType)
  PROVE  Total(ProcessActivity(r)) <= Total(r)
<1> DEFINE a == ProcessRxActivity(r)
           b == ProcessIdleActivity(a)
           c == ProcessCompoundActivity(b)
           d == ProcessBufferedActivity(c)
<1>1. RxWith(a, BufferType) /\ Total(a) = Total(r)
  <2>1. RxWith([r EXCEPT !.pending = FALSE], BufferType)  BY OtherFields
  <2>2. DOMAIN r = Fields  BY DEF RxWith
  <2>3. a.buffers = r.buffers /\ a.commands = r.commands  BY <2>2 DEF ProcessRxActivity, Fields
  <2> QED BY <2>1, <2>3 DEF ProcessRxActivity, Total
<1> HIDE DEF a
<1>2. RxWith(b, BufferType) /\ Total(b) = Total(a)
  BY <1>1, ProcessIdleActivityType, ProcessIdleActivityTotal
<1> HIDE DEF b
<1>3. RxWith(c, BufferType) /\ Total(c) <= Total(b)
  BY <1>2, ProcessCompoundActivityType, ProcessCompoundActivityTotal
<1> HIDE DEF c
<1>4. RxWith(d, YoungBuffer(DropAfter)) /\ Total(d) <= Total(c)
  BY <1>3, ProcessBufferedActivityYoung, ProcessBufferedActivityTotal
<1> HIDE DEF d
<1>5. Total(r) \in Nat /\ Total(b) \in Nat /\ Total(c) \in Nat /\ Total(d) \in Nat
  BY <1>2, <1>3, <1>4, CountFacts
<1>6. Total(d) <= Total(r)  BY <1>1, <1>2, <1>3, <1>4, <1>5
<1> QED BY <1>6 DEF ProcessActivity, a, b, c, d

\* A pass leaves the cache alone.
LEMMA ProcessActivityCache ==
  ASSUME NEW r, DOMAIN r = Fields
  PROVE  ProcessActivity(r).cache = r.cache
<1>1. \A q : DOMAIN q = Fields =>
        /\ DOMAIN ProcessRxActivity(q) = Fields /\ ProcessRxActivity(q).cache = q.cache
  BY DEF ProcessRxActivity, Fields
<1>2. \A q : DOMAIN q = Fields =>
        /\ DOMAIN ProcessIdleActivity(q) = Fields /\ ProcessIdleActivity(q).cache = q.cache
  BY DEF ProcessIdleActivity, Fields
<1>3. \A q : DOMAIN q = Fields =>
        /\ DOMAIN ProcessCompoundActivity(q) = Fields /\ ProcessCompoundActivity(q).cache = q.cache
  BY DEF ProcessCompoundActivity, Fields
<1>4. \A q : DOMAIN q = Fields => ProcessBufferedActivity(q).cache = q.cache
  BY DEF ProcessBufferedActivity, Fields
<1> DEFINE a == ProcessRxActivity(r)
           b == ProcessIdleActivity(a)
           c == ProcessCompoundActivity(b)
<1>5. DOMAIN a = Fields /\ a.cache = r.cache  BY <1>1
<1> HIDE DEF a
<1>6. DOMAIN b = Fields /\ b.cache = r.cache  BY <1>2, <1>5
<1> HIDE DEF b
<1>7. DOMAIN c = Fields /\ c.cache = r.cache  BY <1>3, <1>6
<1> HIDE DEF c
<1>8. ProcessBufferedActivity(c).cache = r.cache  BY <1>4, <1>7
<1> QED BY <1>8 DEF ProcessActivity, a, b, c

\* What is taken up has waited.
LEMMA TakenWaited ==
  ASSUME NEW commands \in Seq(CommandType)
  PROVE  Len(Taken(commands)) \in Nat /\ Len(Taken(commands)) <= Cardinality(Waiting(commands))
<1> DEFINE T == {i \in DOMAIN commands :
                  Partial \notin {commands[i].from, commands[i].to} /\ IsCommandAllowed(commands[i].cmd)}
<1>1. Taken(commands) = Selected(commands, T)  BY DEF Taken
<1>2. T \in SUBSET (DOMAIN commands) /\ T \in SUBSET Waiting(commands)
      /\ Waiting(commands) \in SUBSET (DOMAIN commands)
  BY DEF Waiting
<1> HIDE DEF T
<1>3. Len(Selected(commands, T)) = Cardinality(T) /\ Cardinality(T) \in Nat  BY <1>2, SelectedType
<1>4. IsFiniteSet(Waiting(commands))  BY <1>2, SelectedType
<1>5. Cardinality(T) <= Cardinality(Waiting(commands))  BY <1>2, <1>4, FS_Subset
<1> QED BY <1>1, <1>3, <1>5

\* A message has at most one frame with a command, and a text to nobody none.
LEMMA OneCommand ==
  ASSUME NEW m \in Messages
  PROVE  \A i, j \in DOMAIN BuildMessageFrames(m) :
           /\ IsCommandAllowed(BuildMessageFrames(m)[i].key.cmd) => IsCommandAllowed(m.cmd)
           /\ (IsCommandAllowed(BuildMessageFrames(m)[i].key.cmd)
                /\ IsCommandAllowed(BuildMessageFrames(m)[j].key.cmd)) => i = j
<1> DEFINE head == CASE m.cmd = "none" -> << >>
                     [] m.cmd = "heartbeat" -> <<Heartbeat(m.from)>>
                     [] OTHER -> IF {m.from, m.to} \cap CompoundCalls = {}
                                 THEN <<Directed(m.from, m.to, m.cmd)>>
                                 ELSE <<Compound(m.from), Directed(Partial, m.to, m.cmd)>>
           text == [i \in DOMAIN m.text |-> Data(m.text[i])]
           all == head \o text
           F == BuildMessageFrames(m)
<1>1. F = [i \in DOMAIN all |-> [key |-> all[i], first |-> i = 1, last |-> i = Len(all)]]
  BY DEF BuildMessageFrames
<1>2. DOMAIN F = DOMAIN all /\ \A i \in DOMAIN all : F[i].key = all[i]
  <2> HIDE DEF all
  <2> QED BY <1>1
<1>3. DOMAIN m.text = 1..Len(m.text) /\ Len(m.text) \in Nat
  BY CallFacts, LenProperties
<1>4. DOMAIN text = 1..Len(m.text) /\ \A i \in DOMAIN text : ~IsCommandAllowed(text[i].cmd)
  BY <1>3 DEF Data, IsCommandAllowed
<1>5. /\ head \in Seq({Heartbeat(m.from), Compound(m.from), Directed(m.from, m.to, m.cmd),
                       Directed(Partial, m.to, m.cmd)})
      /\ \A i \in DOMAIN head : IsCommandAllowed(head[i].cmd) => i = Len(head) /\ IsCommandAllowed(m.cmd)
  <2> DEFINE H == {Heartbeat(m.from), Compound(m.from), Directed(m.from, m.to, m.cmd),
                   Directed(Partial, m.to, m.cmd)}
             OK(h) == h \in Seq(H) /\ \A i \in DOMAIN h :
                        IsCommandAllowed(h[i].cmd) => i = Len(h) /\ IsCommandAllowed(m.cmd)
  <2>1. OK(<< >>)  OBVIOUS
  <2>2. m.cmd = "heartbeat" => OK(<<Heartbeat(m.from)>>)  BY DEF IsCommandAllowed
  <2>3. m.cmd # "none" => OK(<<Directed(m.from, m.to, m.cmd)>>)  BY DEF IsCommandAllowed
  <2>4. m.cmd # "none" => OK(<<Compound(m.from), Directed(Partial, m.to, m.cmd)>>)
    <3> DEFINE c == Compound(m.from)  d == Directed(Partial, m.to, m.cmd)
    <3>1. c.cmd = "none" /\ c \in H /\ d \in H  BY DEF Compound
    <3> HIDE DEF c, d, H
    <3>2. <<c, d>> \in Seq(H) /\ Len(<<c, d>>) = 2 /\ DOMAIN <<c, d>> = 1..2  BY <3>1
    <3>3. ASSUME NEW i \in 1..2, IsCommandAllowed(<<c, d>>[i].cmd) PROVE i = 2
      <4>1. i # 1  BY <3>1, <3>3 DEF IsCommandAllowed
      <4> QED BY <4>1
    <3>4. m.cmd # "none" => OK(<<c, d>>)  BY <3>2, <3>3 DEF IsCommandAllowed
    <3> QED BY <3>4 DEF c, d
  <2> HIDE DEF OK
  <2>5. OK(head)
    <3>1. CASE m.cmd = "none"  BY <2>1, <3>1
    <3>2. CASE m.cmd = "heartbeat"  BY <2>2, <3>2
    <3>3. CASE m.cmd \notin {"none", "heartbeat"}  BY <2>3, <2>4, <3>3
    <3> QED BY <3>1, <3>2, <3>3
  <2> HIDE DEF head
  <2> QED BY <2>5 DEF OK
<1>6. \A i \in DOMAIN all : IsCommandAllowed(all[i].cmd) => i = Len(head) /\ IsCommandAllowed(m.cmd)
  <2> HIDE DEF head
  <2> DEFINE H == {Heartbeat(m.from), Compound(m.from), Directed(m.from, m.to, m.cmd),
                   Directed(Partial, m.to, m.cmd)} \cup {text[i] : i \in DOMAIN text}
  <2>1. text \in Seq(H) /\ Len(text) = Len(m.text)
    <3>1. text \in [1..Len(m.text) -> H]  BY <1>4
    <3> HIDE DEF text, H
    <3> QED BY <1>3, <3>1, FunctionIsSeq, LenProperties
  <2>2. head \in Seq(H)
    <3>1. Len(head) \in Nat /\ head \in [1..Len(head) -> H]
      <4> HIDE DEF text
      <4> QED BY <1>5, LenProperties
    <3> QED BY <3>1, FunctionIsSeq
  <2> HIDE DEF H, text
  <2>3. /\ DOMAIN head = 1..Len(head) /\ Len(head) \in Nat
        /\ all \in Seq(H) /\ Len(all) = Len(head) + Len(text) /\ DOMAIN all = 1..Len(all)
        /\ \A i \in 1..Len(head) + Len(text) :
             all[i] = IF i <= Len(head) THEN head[i] ELSE text[i - Len(head)]
    BY <2>1, <2>2, ConcatProperties, LenProperties
  <2> HIDE DEF all
  <2> TAKE i \in DOMAIN all
  <2>4. CASE i <= Len(head)
    <3>1. i \in DOMAIN head /\ all[i] = head[i]  BY <2>3, <2>4
    <3> QED BY <1>5, <3>1
  <2>5. CASE ~(i <= Len(head))
    <3>1. i - Len(head) \in 1..Len(text) /\ all[i] = text[i - Len(head)]
      BY <1>3, <2>1, <2>3, <2>5
    <3> QED BY <1>4, <2>1, <3>1
  <2> QED BY <2>4, <2>5
<1> HIDE DEF head, all, F
<1>7. \A i \in DOMAIN F : IsCommandAllowed(F[i].key.cmd) => i = Len(head) /\ IsCommandAllowed(m.cmd)
  BY <1>2, <1>6
<1> QED BY <1>7 DEF F

\* A message begins with one unit more.
LEMMA SendOneUnit ==
  ASSUME NEW m \in Messages, IInv, OneUnit, Send(m)
  PROVE  OneUnit'
<1> DEFINE F == BuildMessageFrames(m)
<1>1. /\ onAir' = F /\ sent' = Append(sent, m) /\ second' = second /\ second % Period = 0
      /\ rx' = rx /\ processed' = processed
  BY DEF Send
<1>2. sent \in Seq(Messages) /\ DOMAIN sent = 1..Len(sent) /\ Len(sent) \in Nat
  BY LenProperties DEF IInv, HistoryOK
<1>3. /\ DOMAIN sent' = DOMAIN sent \cup {Len(sent) + 1} /\ sent'[Len(sent) + 1] = m
      /\ \A i \in DOMAIN sent : sent'[i] = sent[i]
  BY <1>1, <1>2, AppendProperties, LenProperties
<1>4. \A i, j \in ToCome' : i = j
  BY <1>1, OneCommand DEF ToCome
<1>5. Pending' => IsCommandAllowed(m.cmd)
  BY <1>1, OneCommand DEF ToCome, Pending
<1>6. Acted' = IF IsCommandAllowed(m.cmd) THEN Acted \cup {Len(sent) + 1} ELSE Acted
  BY <1>3 DEF Acted
<1>7. IsFiniteSet(Acted) /\ Cardinality(Acted) \in Nat /\ Len(sent) + 1 \notin Acted
  <2>1. Acted \in SUBSET (DOMAIN sent)  BY DEF Acted
  <2>2. IsFiniteSet(Acted) /\ Cardinality(Acted) \in Nat  BY <1>2, <2>1, SelectedType
  <2> QED BY <1>2, <2>1, <2>2
<1>8. Cardinality(Acted') = Cardinality(Acted) + (IF IsCommandAllowed(m.cmd) THEN 1 ELSE 0)
  <2>1. Cardinality(Acted \cup {Len(sent) + 1}) = Cardinality(Acted) + 1
    <3> DEFINE x == Len(sent) + 1
    <3> HIDE DEF x
    <3>1. Cardinality(Acted \cup {x}) = IF x \in Acted THEN Cardinality(Acted) ELSE Cardinality(Acted) + 1
      BY <1>7, FS_AddElement
    <3>2. x \notin Acted  BY <1>7 DEF x
    <3> QED BY <3>1, <3>2 DEF x
  <2> QED BY <1>6, <1>7, <2>1
<1>9. Len(processed) \in Nat /\ Total(rx) \in Nat
  BY CountFacts, LenProperties DEF IInv, HistoryOK
<1>10. Len(processed) + Total(rx) <= Cardinality(Acted)
  BY <1>7, <1>9 DEF OneUnit, Spent
<1>11. Spent(processed, rx, Pending') <= Cardinality(Acted')
  BY <1>5, <1>7, <1>8, <1>9, <1>10 DEF Spent
<1> QED BY <1>1, <1>4, <1>11 DEF OneUnit, Spent, Total, Held, Waiting

\* A frame that has been handled is a duplicate, and one that is not has been
\* handled then.
LEMMA LineHandled ==
  ASSUME NEW o \in Offsets, IInv, Line(o)
  PROVE  /\ Handled => IsDuplicate(rx.cache, Head(onAir), o)
         /\ ~IsDuplicate(rx.cache, Head(onAir), o) => Handled'
<1> DEFINE f == Head(onAir)
           n == DropAfter + (second % Period)
<1>1. /\ onAir' = onAir /\ second' = second /\ second % Period >= DecodeAt /\ f \in Frames
      /\ rx' = ProcessDecodedLine(rx, f, o)
  <2>1. onAir \in Seq(Frames)  BY DEF IInv
  <2> QED BY <2>1, HeadTailProperties DEF Line
<1>2. n \in Nat /\ second % Period \in 0..Period - 1 /\ Period \in Nat /\ Period > 2
      /\ DecodeAt = Period - 2
  BY Numbers, InPeriod DEF IInv, DecodeAt
<1>3. ASSUME Handled PROVE IsDuplicate(rx.cache, f, o)
  <2>1. PICK c \in rx.cache : c.key = f.key /\ c.age + DecodeAt <= second % Period
    BY <1>3 DEF Handled
  <2>2. c.age \in Nat  BY Numbers DEF IInv, RxWith, Cached, Ages, OldAge
  <2>3. 2 * c.age < Period  BY <1>2, <2>1, <2>2
  <2> HIDE DEF f
  <2> QED BY <2>1, <2>3 DEF IsDuplicate
<1>4. ASSUME ~IsDuplicate(rx.cache, f, o) PROVE Handled'
  <2> DEFINE c == [key |-> f.key, offset |-> o, age |-> 0]
  <2>1. RxWith(rx, YoungBuffer(n))  BY DEF IInv
  <2>2. rx'.cache = CacheFrame(rx.cache, f, o)
    <3> HIDE DEF f, n
    <3> QED BY <1>1, <1>2, <1>4, <2>1, ProcessDecodedLineTotal
  <2>3. c \in rx'.cache  BY <2>2 DEF CacheFrame
  <2>4. c.key = f.key /\ c.age + DecodeAt <= second % Period  BY <1>1, <1>2
  <2> QED BY <1>1, <2>3, <2>4 DEF Handled, DecodeAt
<1> QED BY <1>3, <1>4

\* What has been handled has been when the cache is cleaned.
LEMMA CleanHandled ==
  ASSUME IInv, DecodeDone \/ OtherDecodeDone, Handled
  PROVE  Handled'
<1>1. /\ rx' = [rx EXCEPT !.cache = {c \in @ : c.age <= Period}]
      /\ UNCHANGED <<second, onAir>>
  BY DEF DecodeDone, OtherDecodeDone
<1>2. rx'.cache = {c \in rx.cache : c.age <= Period}
  BY <1>1 DEF IInv, RxWith, Fields
<1>3. PICK c \in rx.cache : c.key = Head(onAir).key /\ c.age + DecodeAt <= second % Period
  BY DEF Handled
<1>4. c.age \in Nat  BY Numbers DEF IInv, RxWith, Cached, Ages, OldAge
<1>5. second % Period \in 0..Period - 1 /\ Period \in Nat /\ Period > 2  BY Numbers, InPeriod DEF IInv
<1>6. c.age <= Period  BY <1>3, <1>4, <1>5 DEF DecodeAt
<1>7. c \in rx'.cache  BY <1>2, <1>6
<1> QED BY <1>1, <1>3, <1>7 DEF Handled, DecodeAt

\* A frame that is handled puts its command into a buffer or into the queue,
\* and is a duplicate for the rest of the period.
LEMMA LineOneUnit ==
  ASSUME NEW o \in Offsets, IInv, OneUnit, Line(o)
  PROVE  OneUnit'
<1> DEFINE f == Head(onAir)
           n == DropAfter + (second % Period)
           more == IF IsCommandAllowed(f.key.cmd) THEN 1 ELSE 0
<1>1. /\ onAir' = onAir /\ onAir # << >> /\ second' = second /\ second % Period >= DecodeAt
      /\ rx' = ProcessDecodedLine(rx, f, o) /\ processed' = processed /\ sent' = sent
  BY DEF Line
<1>2. f \in Frames /\ onAir \in Seq(Frames) /\ f = onAir[1] /\ 1 \in DOMAIN onAir
  <2>1. onAir \in Seq(Frames)  BY DEF IInv
  <2> QED BY <1>1, <2>1, HeadTailProperties, EmptySeq
<1>3. n \in Nat /\ second % Period \in 0..Period - 1 /\ Period \in Nat /\ Period > 2
      /\ DecodeAt = Period - 2
  BY Numbers, InPeriod DEF IInv, DecodeAt
<1>4. RxWith(rx, YoungBuffer(n)) /\ RxWith(rx', YoungBuffer(n))
  <2>1. RxWith(rx, YoungBuffer(n))  BY DEF IInv
  <2> HIDE DEF n, f
  <2> QED BY <1>1, <1>2, <1>3, <2>1, ProcessDecodedLineYoung
<1>5. /\ Len(processed) \in Nat /\ Total(rx) \in Nat /\ Total(rx') \in Nat
      /\ Total(rx') <= Total(rx) + more
      /\ IsDuplicate(rx.cache, f, o) => rx' = rx
      /\ ~IsDuplicate(rx.cache, f, o) => rx'.cache = CacheFrame(rx.cache, f, o)
  <2>1. Len(processed) \in Nat  BY LenProperties DEF IInv, HistoryOK
  <2> HIDE DEF f, n
  <2>2. Total(rx) \in Nat /\ Total(rx') \in Nat  BY <1>4, CountFacts
  <2> QED BY <1>1, <1>2, <1>3, <1>4, <2>1, <2>2, ProcessDecodedLineTotal
<1>6. 1 \in ToCome <=> IsCommandAllowed(f.key.cmd)  BY <1>2 DEF ToCome
<1>7. ToCome' = ToCome /\ Acted' = Acted  BY <1>1 DEF ToCome, Acted
<1>8. (Handled => IsDuplicate(rx.cache, f, o)) /\ (~IsDuplicate(rx.cache, f, o) => Handled')
  BY LineHandled
<1>9. Spent(processed, rx', Pending') <= Spent(processed, rx, Pending)
  <2>1. CASE IsDuplicate(rx.cache, f, o)
    <3>1. rx' = rx  BY <1>5, <2>1
    <3>2. Pending' = Pending  BY <1>1, <3>1 DEF Pending, ToCome, Handled
    <3> QED BY <1>5, <3>1, <3>2 DEF Spent
  <2>2. CASE ~IsDuplicate(rx.cache, f, o)
    <3>1. ~Handled  BY <1>8, <2>2
    <3>2. Handled'  BY <1>8, <2>2
    <3>3. CASE IsCommandAllowed(f.key.cmd)
      <4>1. Pending  BY <1>6, <3>1, <3>3 DEF Pending
      <4>2. ~Pending'  BY <1>6, <1>7, <3>2, <3>3 DEF Pending, OneUnit
      <4> QED BY <1>5, <3>3, <4>1, <4>2 DEF Spent
    <3>4. CASE ~IsCommandAllowed(f.key.cmd)
      <4>1. Pending' => Pending  BY <1>6, <1>7, <3>4 DEF Pending
      <4> QED BY <1>5, <3>4, <4>1 DEF Spent
    <3> QED BY <3>3, <3>4
  <2> QED BY <2>1, <2>2
<1>10. Spent(processed, rx, Pending) \in Nat /\ Spent(processed, rx', Pending') \in Nat
  BY <1>5 DEF Spent
<1>11. Cardinality(Acted) \in Nat
  <2>1. sent \in Seq(Messages)  BY DEF IInv, HistoryOK
  <2>2. Acted \in SUBSET (DOMAIN sent)  BY DEF Acted
  <2> QED BY <2>1, <2>2, SelectedType
<1>12. Spent(processed, rx', Pending') <= Cardinality(Acted)  BY <1>9, <1>10, <1>11 DEF OneUnit
<1> QED BY <1>1, <1>7, <1>12 DEF OneUnit, Spent, Total, Held, Waiting

\* The cache is cleaned of frames that are older than a period only.
LEMMA CleanOneUnit ==
  ASSUME IInv, OneUnit, DecodeDone \/ OtherDecodeDone
  PROVE  OneUnit'
<1>1. /\ rx' = [rx EXCEPT !.cache = {c \in @ : c.age <= Period}]
      /\ UNCHANGED <<second, onAir, sent, processed>>
  BY DEF DecodeDone, OtherDecodeDone
<1>2. DOMAIN rx = Fields  BY DEF IInv, RxWith
<1>3. rx'.buffers = rx.buffers /\ rx'.commands = rx.commands
      /\ rx'.cache = {c \in rx.cache : c.age <= Period}
  BY <1>1, <1>2 DEF Fields
<1>4. Handled => Handled'  BY CleanHandled
<1>5. Pending' => Pending  BY <1>1, <1>4 DEF Pending, ToCome
<1>6. Total(rx') = Total(rx)  BY <1>3 DEF Total
<1>7. ToCome' = ToCome /\ Acted' = Acted  BY <1>1 DEF ToCome, Acted
<1>8. Len(processed) \in Nat /\ Total(rx) \in Nat /\ Cardinality(Acted) \in Nat
  <2>1. Len(processed) \in Nat /\ Total(rx) \in Nat
    BY CountFacts, LenProperties DEF IInv, HistoryOK
  <2>2. sent \in Seq(Messages)  BY DEF IInv, HistoryOK
  <2>3. Acted \in SUBSET (DOMAIN sent)  BY DEF Acted
  <2> QED BY <2>1, <2>2, <2>3, SelectedType
<1>9. Spent(processed, rx', Pending') <= Cardinality(Acted)
  BY <1>5, <1>6, <1>8 DEF OneUnit, Spent
<1> QED BY <1>1, <1>7, <1>9 DEF OneUnit, Spent, Total, Held, Waiting

\* What waits is processed in a second with a pass.
LEMMA GuiSecondSpent ==
  ASSUME IInv, GuiSecond
  PROVE  /\ Len(processed') \in Nat /\ Total(rx') \in Nat
         /\ Len(processed') + Total(rx') <= Len(processed) + Total(rx)
         /\ rx'.cache = OlderRx(rx).cache
<1> DEFINE r == OlderRx(rx)
           done == ProcessActivity(r)
           n == DropAfter + (second % Period)
<1>1. n \in Nat  BY Numbers, InPeriod DEF IInv
<1>2. RxWith(rx, YoungBuffer(n)) /\ RxWith(r, YoungBuffer(n + 1)) /\ Total(r) = Total(rx)
  <2> HIDE DEF n
  <2>1. RxWith(rx, YoungBuffer(n))  BY DEF IInv, n
  <2> QED BY <1>1, <2>1, OlderRxYoung, OlderTotal
<1>3. RxWith(r, BufferType)
  <2> HIDE DEF r, n
  <2>1. YoungBuffer(n + 1) \subseteq BufferType  BY DEF YoungBuffer
  <2> QED BY <1>2, <2>1, MapMonotonic DEF RxWith
<1>4. RxWith(done, YoungBuffer(DropAfter)) /\ Total(done) <= Total(r) /\ done.cache = r.cache
  <2> HIDE DEF r
  <2>1. DOMAIN r = Fields  BY <1>3 DEF RxWith
  <2> QED BY <1>3, <2>1, ProcessActivityYoung, ProcessActivityTotal, ProcessActivityCache
<1>5. processed \in Seq(CommandType) /\ Len(processed) \in Nat
  BY LenProperties DEF IInv, HistoryOK
<1>6. Total(rx) \in Nat  BY <1>2, CountFacts
<1> HIDE DEF n
<1>7. CASE rx' = [done EXCEPT !.commands = << >>] /\ processed' = processed \o Taken(done.commands)
  <2> HIDE DEF done, r
  <2>1. DOMAIN done = Fields /\ done.commands \in Seq(CommandType)  BY <1>4 DEF RxWith
  <2>2. rx'.buffers = done.buffers /\ rx'.commands = << >> /\ rx'.cache = done.cache
    BY <1>7, <2>1 DEF Fields
  <2>3. /\ Len(Taken(done.commands)) \in Nat
        /\ Len(Taken(done.commands)) <= Cardinality(Waiting(done.commands))
        /\ Taken(done.commands) \in Seq(CommandType)
    BY <2>1, TakenWaited, TakenType
  <2>4. Len(processed') = Len(processed) + Len(Taken(done.commands))
    BY <1>5, <1>7, <2>3, ConcatProperties
  <2>5. Cardinality(Waiting(rx'.commands)) = 0
    <3>1. Waiting(<< >>) = {}  BY DEF Waiting
    <3> QED BY <2>2, <3>1, FS_EmptySet
  <2>6. /\ Cardinality(Held(done.buffers)) \in Nat /\ Cardinality(Waiting(done.commands)) \in Nat
    BY <1>4, CountFacts
  <2>7. Total(rx') = Cardinality(Held(done.buffers))  BY <2>2, <2>5, <2>6 DEF Total
  <2>8. Total(done) = Cardinality(Held(done.buffers)) + Cardinality(Waiting(done.commands))
    BY DEF Total
  <2> DEFINE h == Cardinality(Held(done.buffers))
             w == Cardinality(Waiting(done.commands))
             k == Len(Taken(done.commands))
  <2>9. h \in Nat /\ w \in Nat /\ k \in Nat /\ k <= w /\ h + w <= Total(rx)
    BY <1>2, <1>4, <2>3, <2>6, <2>8
  <2>10. Len(processed') = Len(processed) + k /\ Total(rx') = h  BY <2>4, <2>7
  <2>11. rx'.cache = r.cache  BY <1>4, <2>2
  <2> HIDE DEF h, w, k
  <2>12. Len(processed') \in Nat /\ Total(rx') \in Nat
    BY <1>5, <2>9, <2>10
  <2>13. Len(processed') + Total(rx') <= Len(processed) + Total(rx)
    BY <1>5, <1>6, <2>9, <2>10
  <2> QED BY <2>11, <2>12, <2>13 DEF r
<1>8. CASE rx' = r /\ processed' = processed
  BY <1>2, <1>5, <1>6, <1>8
<1> QED BY <1>7, <1>8 DEF GuiSecond

\* What has been handled in this period has been in its next second.
LEMMA SecondHandled ==
  ASSUME IInv, GuiSecond, ((second + 1) % Day) % Period # 0, Handled
  PROVE  Handled'
<1> DEFINE s == (second + 1) % Day
<1>1. second' = s /\ onAir' = onAir /\ second \in 0..Day - 1  BY DEF GuiSecond, IInv
<1>2. s % Period = (second % Period) + 1  BY <1>1, NextSecond
<1>3. PICK c \in rx.cache : c.key = Head(onAir).key /\ c.age + DecodeAt <= second % Period
  BY DEF Handled
<1> DEFINE d == [c EXCEPT !.age = Older(@)]
<1>4. c \in Cached /\ c.age \in Nat  BY Numbers DEF IInv, RxWith, Cached, Ages, OldAge
<1>5. d.key = c.key /\ d.age = Older(c.age) /\ Older(c.age) \in Nat /\ Older(c.age) <= c.age + 1
  BY <1>4 DEF Cached, Older
<1>6. d \in rx'.cache
  <2>1. rx'.cache = OlderRx(rx).cache  BY GuiSecondSpent
  <2>2. DOMAIN rx = Fields  BY DEF IInv, RxWith
  <2>3. OlderRx(rx).cache = {[x EXCEPT !.age = Older(@)] : x \in rx.cache}
    BY <2>2 DEF OlderRx, Fields
  <2> QED BY <2>1, <2>3
<1>7. second % Period \in Nat /\ DecodeAt \in Nat
  BY <1>1, InPeriod, Numbers DEF DecodeAt
<1> HIDE DEF d
<1>8. d.age + DecodeAt <= second' % Period  BY <1>1, <1>2, <1>3, <1>4, <1>5, <1>7
<1> QED BY <1>1, <1>3, <1>5, <1>6, <1>8 DEF Handled, DecodeAt

\* A second changes nothing of what is to come, but takes a frame off the air.
LEMMA GuiSecondOneUnit ==
  ASSUME IInv, OneUnit, GuiSecond
  PROVE  OneUnit'
<1> DEFINE s == (second + 1) % Day
<1>1. second' = s /\ sent' = sent /\ Acted' = Acted  BY DEF GuiSecond, Acted
<1>2. second \in 0..Day - 1 /\ onAir \in Seq(Frames)  BY DEF IInv
<1>3. (\A i, j \in ToCome' : i = j) /\ (Pending' => Pending)
  <2>1. CASE s % Period = 0 /\ onAir # << >>
    <3>1. onAir' = Tail(onAir)  BY <2>1 DEF GuiSecond
    <3>2. /\ DOMAIN onAir' = 1..Len(onAir) - 1 /\ Len(onAir) \in Nat /\ DOMAIN onAir = 1..Len(onAir)
          /\ \A i \in 1..Len(onAir) - 1 : onAir'[i] = onAir[i + 1]
      BY <1>2, <2>1, <3>1, HeadTailProperties, LenProperties
    <3>3. \A i \in ToCome' : i \in Nat /\ i + 1 \in ToCome /\ i + 1 # 1  BY <3>2 DEF ToCome
    <3>4. \A i, j \in ToCome' : i = j
      <4> TAKE i, j \in ToCome'
      <4>1. i + 1 = j + 1 /\ i \in Nat /\ j \in Nat  BY <3>3 DEF OneUnit
      <4> QED BY <4>1
    <3>5. Pending' => Pending  BY <3>3 DEF Pending
    <3> QED BY <3>4, <3>5
  <2>2. CASE s % Period = 0 /\ onAir = << >>
    <3>1. onAir' = << >>  BY <2>2 DEF GuiSecond
    <3>2. ToCome' = {}  BY <3>1 DEF ToCome
    <3> QED BY <3>2 DEF Pending
  <2>3. CASE s % Period # 0
    <3>1. onAir' = onAir  BY <2>3 DEF GuiSecond
    <3>2. Handled => Handled'  BY <2>3, SecondHandled
    <3> QED BY <3>1, <3>2 DEF OneUnit, Pending, ToCome
  <2> QED BY <2>1, <2>2, <2>3
<1>4. /\ Len(processed) \in Nat /\ Total(rx) \in Nat /\ Cardinality(Acted) \in Nat
  <2>1. Len(processed) \in Nat /\ Total(rx) \in Nat
    BY CountFacts, LenProperties DEF IInv, HistoryOK
  <2>2. sent \in Seq(Messages)  BY DEF IInv, HistoryOK
  <2>3. Acted \in SUBSET (DOMAIN sent)  BY DEF Acted
  <2> QED BY <2>1, <2>2, <2>3, SelectedType
<1>5. Spent(processed', rx', Pending') <= Cardinality(Acted)
  BY <1>3, <1>4, GuiSecondSpent DEF OneUnit, Spent
<1> QED BY <1>1, <1>3, <1>5 DEF OneUnit, Spent, Total, Held, Waiting

\* No message is acted upon twice, for all periods and limits, whatever is
\* sent at whatever offsets, whichever frames are missed and however often a
\* frame is decoded: the duplicate cache and the clearing of buffers suffice,
\* and calls that are too near to each other do not change that.
THEOREM AtMostOnceAlways == Spec => []AtMostOnce
<1>1. Init => OneUnit
  <2> SUFFICES ASSUME Init PROVE OneUnit
    OBVIOUS
  <2>1. onAir = << >> /\ processed = << >> /\ rx.buffers = << >> /\ rx.commands = << >> /\ sent = << >>
    BY DEF Init
  <2>2. ToCome = {} /\ ~Pending  BY <2>1 DEF ToCome, Pending
  <2>3. Held(rx.buffers) = {} /\ Waiting(rx.commands) = {} /\ Acted = {}
    BY <2>1 DEF Held, Waiting, Acted
  <2>4. Len(processed) = 0 /\ Total(rx) = 0 /\ Cardinality(Acted) = 0
    <3>1. Cardinality({}) = 0  BY FS_EmptySet
    <3>2. Len(processed) = 0  BY <2>1
    <3>3. Total(rx) = Cardinality({}) + Cardinality({}) /\ Cardinality(Acted) = 0
      BY <2>3, <3>1, Zenon DEF Total
    <3> QED BY <3>1, <3>2, <3>3
  <2> QED BY <2>2, <2>4 DEF OneUnit, Spent
<1>2. IInv /\ OneUnit /\ [Next]_vars => OneUnit'
  <2>1. ASSUME OneUnit, UNCHANGED vars PROVE OneUnit'
    BY <2>1 DEF OneUnit, ToCome, Pending, Handled, Spent, Total, Held, Waiting, Acted, vars
  <2>2. ASSUME IInv, OneUnit, Next PROVE OneUnit'
    BY <2>2, SendOneUnit, LineOneUnit, CleanOneUnit, GuiSecondOneUnit DEF Next
  <2> QED BY <2>1, <2>2
<1>3. IInv /\ OneUnit => AtMostOnce
  <2> SUFFICES ASSUME IInv, OneUnit PROVE AtMostOnce
    OBVIOUS
  <2>1. Len(processed) \in Nat /\ Total(rx) \in Nat
    BY CountFacts, LenProperties DEF IInv, HistoryOK
  <2>2. sent \in Seq(Messages)  BY DEF IInv, HistoryOK
  <2>3. Acted \in SUBSET (DOMAIN sent)  BY DEF Acted
  <2>4. Cardinality(Acted) \in Nat  BY <2>2, <2>3, SelectedType
  <2>5. Len(processed) <= Cardinality(Acted)  BY <2>1, <2>4 DEF OneUnit, Spent
  <2> QED BY <2>5 DEF AtMostOnce, Acted
<1> QED BY <1>1, <1>2, <1>3, InductiveInvariant, PTL DEF Spec

-----------------------------------------------------------------------------
(* Whose buffers they are.  If two places are never within the threshold   *)
(* of each other and no message begins with a frame of another, a buffer   *)
(* holds the calls, the command and the text of one message.               *)

Close(o, p) == o - p \in -Threshold..Threshold

PlacesApart == \A P, Q \in Places : P = Q \/ \A o \in P, p \in Q : ~Close(o, p)

\* Frames with the same payload are duplicates of each other.
KeysOf(m) == {BuildMessageFrames(m)[i].key : i \in DOMAIN BuildMessageFrames(m)}
HeadsDiffer == \A m, n \in Messages :
  m # n /\ BuildMessageFrames(m) # << >> => BuildMessageFrames(m)[1].key \notin KeysOf(n)

\* Texts of a buffer stand for texts of a message, in order, among the first k.
Embedding(g, msgs, text, k) ==
  /\ \A i \in DOMAIN msgs : msgs[i].text # Mfi => g[i] \in 1..k /\ text[g[i]] = msgs[i].text
  /\ \A i, j \in DOMAIN msgs : i < j /\ msgs[i].text # Mfi /\ msgs[j].text # Mfi => g[i] < g[j]
Embeds(msgs, text, k) ==
  \E g \in [DOMAIN msgs -> 0..Len(text)] : Embedding(g, msgs, text, k)

\* What buffer b holds is of message m, of whose texts the first k have come.
From(b, m, k) ==
  /\ \A i \in DOMAIN b.compound : b.compound[i].call = m.from
  /\ IsCommandAllowed(b.cmd.cmd) =>
       /\ b.cmd.cmd = m.cmd /\ b.cmd.to = m.to /\ b.cmd.from \in {m.from, Partial}
       /\ Embeds(b.msgs, m.text, k)

\* A command that is not skipped, and what it says of a message.
Fit(c) == Partial \notin {c.from, c.to} /\ IsCommandAllowed(c.cmd)
ToldBy(c, m) == SameHeader(c, m) /\ IsSubsequence(Told(c), m.text)

\* Offsets are close to each other when they are of the same place.
LEMMA CloseFacts ==
  ASSUME PlacesApart
  PROVE  /\ \A o \in Offsets : Close(o, o)
         /\ \A o, p \in Offsets : Close(o, p) => Close(p, o)
         /\ \A o, p, q \in Offsets : Close(o, p) /\ Close(p, q) => Close(o, q)
         /\ \A P \in Places : \A o \in P, p \in Offsets : Close(p, o) => p \in P
<1>1. \A P \in Places : P \subseteq Offsets /\ \A o, p \in P : Close(o, p)
  BY OffsetFacts DEF Close
<1>2. \A o \in Offsets : \E P \in Places : o \in P  BY DEF Offsets
<1>3. \A P \in Places : \A o \in P, p \in Offsets : Close(p, o) \/ Close(o, p) => p \in P
  <2> TAKE P \in Places
  <2> TAKE o \in P, p \in Offsets
  <2>1. PICK Q \in Places : p \in Q  BY <1>2
  <2> QED BY <2>1 DEF PlacesApart
<1> HIDE DEF Close
<1>4. \A o, p \in Offsets : Close(o, p) => Close(p, o)
  <2> TAKE o, p \in Offsets
  <2>1. PICK P \in Places : o \in P  BY <1>2
  <2> QED BY <1>1, <1>3, <2>1
<1>5. ASSUME NEW o \in Offsets, NEW p \in Offsets, NEW q \in Offsets, Close(o, p), Close(p, q)
      PROVE  Close(o, q)
  <2>1. PICK P \in Places : o \in P  BY <1>2
  <2>2. p \in P  BY <1>3, <1>5, <2>1
  <2>3. q \in P  BY <1>3, <1>5, <2>2
  <2> QED BY <1>1, <2>1, <2>3
<1>6. \A o \in Offsets : Close(o, o)  BY <1>1, <1>2
<1> QED BY <1>3, <1>4, <1>5, <1>6

\* A set of offsets with one of each place at most.
Sparse(S) == S \subseteq Offsets /\ \A o, p \in S : Close(o, p) => o = p

\* What is moved to o is the one entry near it.
LEMMA MovedApart ==
  ASSUME PlacesApart, NEW f, Sparse(DOMAIN f), NEW o \in Offsets
  PROVE  /\ DOMAIN Moved(f, o)
              = (DOMAIN f \ Near(f, o)) \cup (IF Near(f, o) = {} THEN {} ELSE {o})
         /\ \A p \in DOMAIN f \ Near(f, o) : p # o /\ Moved(f, o)[p] = f[p]
         /\ Near(f, o) # {} => \E q \in Near(f, o) : Moved(f, o)[o] = f[q]
         /\ Near(Moved(f, o), o) \subseteq {o}
         /\ Moved(Moved(f, o), o) = Moved(f, o)
<1> DEFINE g == Moved(f, o)
<1>1. Near(f, o) \subseteq Offsets /\ Near(f, o) = {p \in DOMAIN f : Close(p, o)}
  BY DEF Near, Close, Sparse
<1>2. \A p, q \in Near(f, o) : p = q
  BY <1>1, CloseFacts DEF Sparse
<1>3. o \in DOMAIN f => o \in Near(f, o)  BY <1>1, CloseFacts
<1>4. \A p \in DOMAIN f \ Near(f, o) : p # o  BY <1>3
<1>5. /\ DOMAIN g = (DOMAIN f \ Near(f, o)) \cup (IF Near(f, o) = {} THEN {} ELSE {o})
      /\ \A p \in DOMAIN f \ Near(f, o) : g[p] = f[p]
      /\ Near(f, o) # {} => \E q \in Near(f, o) : g[o] = f[q]
  <2>1. CASE o \in DOMAIN f
    <3>1. g = f /\ Near(f, o) = {o}  BY <1>2, <1>3, <2>1 DEF Moved
    <3> HIDE DEF g
    <3> QED BY <2>1, <3>1
  <2>2. CASE Near(f, o) = {}
    <3>1. g = f  BY <2>2 DEF Moved
    <3> HIDE DEF g
    <3> QED BY <2>2, <3>1
  <2>3. CASE o \notin DOMAIN f /\ Near(f, o) # {}
    <3> DEFINE prev == CHOOSE p \in Near(f, o) : \A q \in Near(f, o) : p <= q
    <3>1. g = Put(Without(f, {prev}), o, f[prev])  BY <2>3 DEF Moved
    <3>2. prev \in Near(f, o)
      <4>1. Near(f, o) \in SUBSET Nat  BY <1>1, OffsetFacts
      <4>2. \E p \in Near(f, o) : \A q \in Near(f, o) : p <= q  BY <2>3, <4>1, LeastElement
      <4> QED BY <4>2
    <3> HIDE DEF prev, g
    <3>3. Near(f, o) = {prev}  BY <1>2, <3>2
    <3>4. DOMAIN g = (DOMAIN f \ {prev}) \cup {o}  BY <3>1 DEF Put, Without
    <3>5. \A p \in DOMAIN f \ {prev} : g[p] = f[p]  BY <3>1, <2>3 DEF Put, Without
    <3>6. g[o] = f[prev]  BY <3>1 DEF Put
    <3> QED BY <2>3, <3>2, <3>3, <3>4, <3>5, <3>6
  <2> QED BY <2>1, <2>2, <2>3
<1> HIDE DEF g
<1>6. Near(g, o) \subseteq {o}
  BY <1>1, <1>5 DEF Near, Close
<1>7. Moved(g, o) = g
  <2>1. CASE Near(f, o) = {}
    <3>1. o \notin DOMAIN g  BY <1>3, <1>5, <2>1
    <3>2. Near(g, o) = {}  BY <1>6, <3>1 DEF Near
    <3> QED BY <3>2 DEF Moved
  <2>2. CASE Near(f, o) # {}
    <3>1. o \in DOMAIN g  BY <1>5, <2>2
    <3> QED BY <3>1 DEF Moved
  <2> QED BY <2>1, <2>2
<1> QED BY <1>4, <1>5, <1>6, <1>7 DEF g

\* A new buffer is of any message.
LEMMA FromNothing ==
  ASSUME NEW m, NEW k
  PROVE  From(NoBuffer, m, k)
<1>1. NoBuffer.compound = << >> /\ NoBuffer.cmd.cmd = "none"  BY Zenon DEF NoBuffer, NoCmd
<1>2. DOMAIN NoBuffer.compound = {}  BY <1>1
<1>3. ~IsCommandAllowed(NoBuffer.cmd.cmd)  BY <1>1 DEF IsCommandAllowed
<1> QED BY <1>2, <1>3 DEF From

\* What was of the first texts of a message is of more of them.
LEMMA FromMore ==
  ASSUME NEW b, NEW m, NEW k \in Int, NEW l \in Int, k <= l, From(b, m, k)
  PROVE  From(b, m, l)
<1>1. ASSUME NEW g \in [DOMAIN b.msgs -> 0..Len(m.text)], Embedding(g, b.msgs, m.text, k)
      PROVE  Embedding(g, b.msgs, m.text, l)
  BY <1>1 DEF Embedding
<1>2. Embeds(b.msgs, m.text, k) => Embeds(b.msgs, m.text, l)
  BY <1>1 DEF Embeds
<1> QED BY <1>2 DEF From

\* The next text of the message, or a mark for a gap, is added.
LEMMA FromAppend ==
  ASSUME NEW b \in BufferType, NEW m \in Messages, NEW k \in Int, NEW l \in Int, k <= l,
         NEW d \in TextType, From(b, m, k),
         d.text # Mfi => k < l /\ l \in 1..Len(m.text) /\ d.text = m.text[l]
  PROVE  From([b EXCEPT !.msgs = Append(@, d)], m, l)
<1> DEFINE c == [b EXCEPT !.msgs = Append(@, d)]
           x == Len(b.msgs) + 1
<1>1. b.msgs \in Seq(TextType) /\ Len(m.text) \in Nat
  <2>1. b.msgs \in Seq(TextType)  BY DEF BufferType
  <2>2. m.text \in Seq(STRING)  BY RxAssumption
  <2> QED BY <2>1, <2>2, LenProperties
<1>2. c.compound = b.compound /\ c.cmd = b.cmd /\ c.msgs = Append(b.msgs, d)
  BY DEF BufferType
<1>3. /\ DOMAIN b.msgs = 1..Len(b.msgs) /\ Len(b.msgs) \in Nat
      /\ DOMAIN c.msgs = 1..x /\ c.msgs[x] = d
      /\ \A i \in 1..Len(b.msgs) : c.msgs[i] = b.msgs[i]
  BY <1>1, <1>2, AppendProperties, LenProperties
<1> HIDE DEF c
<1>4. ASSUME NEW g \in [DOMAIN b.msgs -> 0..Len(m.text)], Embedding(g, b.msgs, m.text, k)
      PROVE  Embeds(c.msgs, m.text, l)
  <2> DEFINE h == [i \in 1..x |-> IF i = x THEN (IF d.text = Mfi THEN 0 ELSE l) ELSE g[i]]
  <2>1. h \in [DOMAIN c.msgs -> 0..Len(m.text)]  BY <1>1, <1>3
  <2>2. \A i \in 1..Len(b.msgs) : i # x /\ h[i] = g[i]  BY <1>3
  <2>3. x \in 1..x /\ (d.text # Mfi => h[x] = l)  BY <1>3
  <2>4. \A i \in DOMAIN c.msgs : i = x \/ i \in 1..Len(b.msgs)  BY <1>3
  <2> HIDE DEF h, x
  <2>5. ASSUME NEW i \in DOMAIN c.msgs, c.msgs[i].text # Mfi
        PROVE  h[i] \in 1..l /\ m.text[h[i]] = c.msgs[i].text
               /\ (i # x => h[i] \in 1..k)
    <3>1. CASE i = x  BY <1>3, <2>3, <2>5, <3>1
    <3>2. CASE i # x
      <4>1. i \in 1..Len(b.msgs)  BY <2>4, <3>2
      <4>2. h[i] = g[i] /\ c.msgs[i] = b.msgs[i]  BY <1>3, <2>2, <4>1
      <4>3. g[i] \in 1..k /\ m.text[g[i]] = b.msgs[i].text
        BY <1>3, <1>4, <2>5, <4>1, <4>2 DEF Embedding
      <4> QED BY <4>2, <4>3
    <3> QED BY <3>1, <3>2
  <2>6. ASSUME NEW i \in DOMAIN c.msgs, NEW j \in DOMAIN c.msgs, i < j,
               c.msgs[i].text # Mfi, c.msgs[j].text # Mfi
        PROVE  h[i] < h[j]
    <3>1. i \in 1..Len(b.msgs)  BY <1>3, <2>4, <2>6 DEF x
    <3>2. CASE j = x
      <4>1. h[i] \in 1..k /\ h[j] = l /\ k < l
        BY <1>3, <2>2, <2>3, <2>5, <2>6, <3>1, <3>2
      <4> QED BY <4>1
    <3>3. CASE j # x
      <4>1. j \in 1..Len(b.msgs)  BY <2>4, <3>3
      <4>2. h[i] = g[i] /\ c.msgs[i] = b.msgs[i] /\ h[j] = g[j] /\ c.msgs[j] = b.msgs[j]
        BY <1>3, <2>2, <3>1, <4>1
      <4> QED BY <1>3, <1>4, <2>6, <3>1, <4>1, <4>2 DEF Embedding
    <3> QED BY <3>2, <3>3
  <2>7. Embedding(h, c.msgs, m.text, l)  BY <2>5, <2>6 DEF Embedding
  <2> QED BY <2>1, <2>7 DEF Embeds
<1>5. Embeds(b.msgs, m.text, k) => Embeds(c.msgs, m.text, l)  BY <1>4 DEF Embeds
<1>6. From(c, m, l)  BY <1>2, <1>5 DEF From
<1> QED BY <1>6 DEF c

\* A call of the sender is added.
LEMMA FromCall ==
  ASSUME NEW b \in BufferType, NEW m \in Messages, NEW k \in Int, From(b, m, k),
         NEW d \in CallType, d.call = m.from
  PROVE  From([b EXCEPT !.compound = Append(@, d)], m, k)
<1> DEFINE c == [b EXCEPT !.compound = Append(@, d)]
<1>1. b.compound \in Seq(CallType)  BY DEF BufferType
<1>2. c.compound = Append(b.compound, d) /\ c.cmd = b.cmd /\ c.msgs = b.msgs
  BY DEF BufferType
<1>3. /\ DOMAIN b.compound = 1..Len(b.compound) /\ Len(b.compound) \in Nat
      /\ DOMAIN c.compound = 1..Len(b.compound) + 1 /\ c.compound[Len(b.compound) + 1] = d
      /\ \A i \in 1..Len(b.compound) : c.compound[i] = b.compound[i]
  BY <1>1, <1>2, AppendProperties, LenProperties
<1> HIDE DEF c
<1>4. \A i \in DOMAIN c.compound : c.compound[i].call = m.from  BY <1>3 DEF From
<1>5. From(c, m, k)  BY <1>2, <1>4 DEF From
<1> QED BY <1>5 DEF c

\* The command of the message is put in.
LEMMA FromCommand ==
  ASSUME NEW b \in BufferType, NEW m \in Messages, NEW k \in Int, From(b, m, k),
         NEW d \in CmdType, d.cmd = m.cmd, d.to = m.to, d.from \in {m.from, Partial}
  PROVE  From([b EXCEPT !.cmd = d, !.msgs = << >>], m, k)
<1> DEFINE c == [b EXCEPT !.cmd = d, !.msgs = << >>]
<1>1. c.compound = b.compound /\ c.cmd = d /\ c.msgs = << >>
  BY DEF BufferType
<1> HIDE DEF c
<1>2. Embedding(<< >>, << >>, m.text, k)  BY DEF Embedding
<1>3. Embeds(<< >>, m.text, k)
  <2>1. << >> \in [DOMAIN << >> -> 0..Len(m.text)]  OBVIOUS
  <2> QED BY <1>2, <2>1 DEF Embeds
<1>4. From(c, m, k)  BY <1>1, <1>3 DEF From
<1> QED BY <1>4 DEF c

\* A command without text tells nothing that was not sent.
LEMMA ToldNothing ==
  ASSUME NEW d, NEW m, SameHeader(d, m)
  PROVE  ToldBy(ToCommand(d, << >>), m)
<1> DEFINE c == ToCommand(d, << >>)
           e == << >>
<1>1. SameHeader(c, m) /\ c.text = e  BY DEF ToCommand, SameHeader
<1>2. DOMAIN e = {}  OBVIOUS
<1> HIDE DEF c, e
<1>3. DOMAIN Told(c) = {}
  <2>1. {} \in SUBSET Nat /\ IsFiniteSet({}) /\ Cardinality({}) = 0  BY FS_EmptySet
  <2>2. DOMAIN Ascending({}) = {}  BY <2>1, AscendingIs
  <2>3. {i \in DOMAIN c.text : c.text[i] # Mfi} = {}  BY <1>1, <1>2
  <2> QED BY <2>2, <2>3 DEF Told, Selected
<1>4. IsSubsequence(Told(c), m.text)
  <2> DEFINE f == [i \in DOMAIN Told(c) |-> i]
  <2>1. f \in [DOMAIN Told(c) -> DOMAIN m.text]  BY <1>3
  <2> QED BY <1>3, <2>1 DEF IsSubsequence
<1>5. ToldBy(c, m)  BY <1>1, <1>4 DEF ToldBy
<1> QED BY <1>5 DEF c

\* A buffer of a message is handed on with text of that message.
LEMMA ToldText ==
  ASSUME NEW b \in BufferType, NEW m \in Messages, NEW k \in Int, From(b, m, k),
         Fit(ToCommand(b.cmd, TextOf(b)))
  PROVE  ToldBy(ToCommand(b.cmd, TextOf(b)), m)
<1> DEFINE c == ToCommand(b.cmd, TextOf(b))
           S == {i \in DOMAIN c.text : c.text[i] # Mfi}
           q == Ascending(S)
           n == Cardinality(S)
<1>1. /\ c.from = b.cmd.from /\ c.to = b.cmd.to /\ c.cmd = b.cmd.cmd /\ c.text = TextOf(b)
  BY DEF ToCommand
<1>2. /\ b.cmd.cmd = m.cmd /\ b.cmd.to = m.to /\ b.cmd.from = m.from
      /\ Embeds(b.msgs, m.text, k)
  BY DEF From, Fit, ToCommand
<1>3. PICK g \in [DOMAIN b.msgs -> 0..Len(m.text)] : Embedding(g, b.msgs, m.text, k)
  BY <1>2 DEF Embeds
<1>4. /\ DOMAIN c.text = DOMAIN b.msgs
      /\ \A i \in DOMAIN c.text : c.text[i] = b.msgs[i].text
  BY <1>1 DEF TextOf
<1>5. DOMAIN b.msgs = 1..Len(b.msgs) /\ Len(b.msgs) \in Nat
  <2>1. b.msgs \in Seq(TextType)  BY DEF BufferType
  <2> QED BY <2>1, LenProperties
<1>6. Len(m.text) \in Nat /\ DOMAIN m.text = 1..Len(m.text)
  <2>1. m.text \in Seq(STRING)  BY RxAssumption
  <2> QED BY <2>1, LenProperties
<1> HIDE DEF c
<1>7. S \in SUBSET Nat /\ IsFiniteSet(S)
  <2>1. S \in SUBSET (1..Len(b.msgs))  BY <1>4, <1>5
  <2> HIDE DEF S
  <2>2. IsFiniteSet(1..Len(b.msgs)) /\ 1..Len(b.msgs) \subseteq Nat  BY <1>5, FS_Interval
  <2> QED BY <2>1, <2>2, FS_Subset
<1>8. n \in Nat /\ q \in [1..n -> S] /\ \A i, j \in 1..n : i < j => q[i] < q[j]
  <2> HIDE DEF S
  <2> QED BY <1>7, AscendingIs
<1>9. Told(c) = [i \in DOMAIN q |-> c.text[q[i]]]  BY DEF Told, Selected
<1> HIDE DEF q, n
<1>10. ASSUME NEW i \in 1..n
       PROVE  /\ q[i] \in DOMAIN b.msgs /\ b.msgs[q[i]].text # Mfi
              /\ g[q[i]] \in DOMAIN m.text /\ Told(c)[i] = m.text[g[q[i]]]
  <2>1. q[i] \in S  BY <1>8
  <2>2. q[i] \in DOMAIN b.msgs /\ b.msgs[q[i]].text # Mfi /\ c.text[q[i]] = b.msgs[q[i]].text
    BY <1>4, <2>1
  <2>3. g[q[i]] \in 1..k /\ m.text[g[q[i]]] = b.msgs[q[i]].text  BY <1>3, <2>2 DEF Embedding
  <2>4. g[q[i]] \in 0..Len(m.text)  BY <2>2
  <2>5. Told(c)[i] = c.text[q[i]]  BY <1>8, <1>9
  <2> QED BY <1>6, <2>2, <2>3, <2>4, <2>5
<1>11. DOMAIN Told(c) = 1..n  BY <1>8, <1>9
<1> HIDE DEF S
<1>12. IsSubsequence(Told(c), m.text)
  <2> DEFINE f == [i \in 1..n |-> g[q[i]]]
  <2>1. f \in [DOMAIN Told(c) -> DOMAIN m.text]  BY <1>10, <1>11
  <2>2. ASSUME NEW i \in 1..n, NEW j \in 1..n
        PROVE  Told(c)[i] = m.text[f[i]] /\ (i < j => f[i] < f[j])
    <3>1. Told(c)[i] = m.text[f[i]]  BY <1>10
    <3>2. ASSUME i < j PROVE f[i] < f[j]
      <4>1. q[i] < q[j]  BY <1>8, <3>2
      <4> QED BY <1>3, <1>10, <4>1 DEF Embedding
    <3> QED BY <3>1, <3>2
  <2> HIDE DEF f
  <2> QED BY <1>11, <2>1, <2>2 DEF IsSubsequence
<1>13. SameHeader(c, m)  BY <1>1, <1>2 DEF SameHeader
<1> QED BY <1>12, <1>13 DEF ToldBy, c

-----------------------------------------------------------------------------
(* What a second and the passes of processActivity make of whose it is.    *)

\* What was of a message stays of it; what was of it tells a command.
Leads(b, c) == \A m \in Messages : \A k \in Int : From(b, m, k) => From(c, m, k)
Tells(b, c) == \A m \in Messages : \A k \in Int : From(b, m, k) /\ Fit(c) => ToldBy(c, m)

\* Members q were made of r alone: each buffer of the one at its offset, each
\* command of a buffer, or it was there.
Derived(r, q) ==
  /\ DOMAIN q.band = DOMAIN r.band /\ DOMAIN q.buffers \subseteq DOMAIN q.band
  /\ \A o \in DOMAIN r.band : Leads(At(r.buffers, o), At(q.buffers, o))
  /\ \A i \in DOMAIN q.commands :
       \/ \E j \in DOMAIN r.commands : q.commands[i] = r.commands[j]
       \/ \E o \in DOMAIN r.band : Tells(At(r.buffers, o), q.commands[i])

\* What was made of members made of others was made of these.
LEMMA DerivedTwice ==
  ASSUME NEW r, NEW q, NEW s, Derived(r, q), Derived(q, s)
  PROVE  Derived(r, s)
<1>1. \A o \in DOMAIN r.band : Leads(At(r.buffers, o), At(s.buffers, o))
  BY DEF Derived, Leads
<1>2. ASSUME NEW o \in DOMAIN r.band, NEW c, Tells(At(q.buffers, o), c)
      PROVE  Tells(At(r.buffers, o), c)
  BY <1>2 DEF Derived, Leads, Tells
<1>3. ASSUME NEW i \in DOMAIN s.commands
      PROVE  \/ \E j \in DOMAIN r.commands : s.commands[i] = r.commands[j]
             \/ \E o \in DOMAIN r.band : Tells(At(r.buffers, o), s.commands[i])
  <2>1. CASE \E j \in DOMAIN q.commands : s.commands[i] = q.commands[j]
    <3>1. PICK j \in DOMAIN q.commands : s.commands[i] = q.commands[j]  BY <2>1
    <3> QED BY <3>1 DEF Derived
  <2>2. CASE \E o \in DOMAIN q.band : Tells(At(q.buffers, o), s.commands[i])
    <3>1. PICK o \in DOMAIN q.band : Tells(At(q.buffers, o), s.commands[i])  BY <2>2
    <3>2. o \in DOMAIN r.band  BY DEF Derived
    <3> QED BY <1>2, <3>1, <3>2
  <2> QED BY <2>1, <2>2 DEF Derived
<1> QED BY <1>1, <1>3 DEF Derived

\* A buffer leads to itself and to a new one.
LEMMA LeadsOn ==
  ASSUME NEW b
  PROVE  Leads(b, b) /\ Leads(b, NoBuffer)
  BY FromNothing DEF Leads

\* Older parts are of the same message.
LEMMA OlderLeads ==
  ASSUME NEW b \in BufferType
  PROVE  Leads(b, OlderBuffer(b))
<1> DEFINE c == OlderBuffer(b)
<1>1. b.cmd \in CmdType /\ b.compound \in Seq(CallType) /\ b.msgs \in Seq(TextType)
  BY DEF BufferType
<1>2. c.cmd = [b.cmd EXCEPT !.age = Older(@)] /\ c.compound = OlderEach(b.compound)
      /\ c.msgs = OlderEach(b.msgs)
  BY DEF OlderBuffer
<1> HIDE DEF c
<1>3. c.cmd.cmd = b.cmd.cmd /\ c.cmd.to = b.cmd.to /\ c.cmd.from = b.cmd.from
  BY <1>1, <1>2 DEF CmdType
<1>4. /\ DOMAIN c.compound = DOMAIN b.compound
      /\ \A i \in DOMAIN b.compound : c.compound[i].call = b.compound[i].call
  <2>1. DOMAIN b.compound = 1..Len(b.compound)  BY <1>1, LenProperties
  <2>2. ASSUME NEW i \in DOMAIN b.compound PROVE c.compound[i].call = b.compound[i].call
    <3>1. b.compound[i] \in CallType  BY <1>1, <2>1, ElementOfSeq
    <3>2. c.compound[i] = [b.compound[i] EXCEPT !.age = Older(@)]  BY <1>2 DEF OlderEach
    <3> QED BY <3>1, <3>2 DEF CallType
  <2> QED BY <1>2, <2>2 DEF OlderEach
<1>5. /\ DOMAIN c.msgs = DOMAIN b.msgs
      /\ \A i \in DOMAIN b.msgs : c.msgs[i].text = b.msgs[i].text
  <2>1. DOMAIN b.msgs = 1..Len(b.msgs)  BY <1>1, LenProperties
  <2>2. ASSUME NEW i \in DOMAIN b.msgs PROVE c.msgs[i].text = b.msgs[i].text
    <3>1. b.msgs[i] \in TextType  BY <1>1, <2>1, ElementOfSeq
    <3>2. c.msgs[i] = [b.msgs[i] EXCEPT !.age = Older(@)]  BY <1>2 DEF OlderEach
    <3> QED BY <3>1, <3>2 DEF TextType
  <2> QED BY <1>2, <2>2 DEF OlderEach
<1>6. ASSUME NEW m \in Messages, NEW k \in Int, From(b, m, k) PROVE From(c, m, k)
  <2>1. Embeds(b.msgs, m.text, k) => Embeds(c.msgs, m.text, k)
    BY <1>5 DEF Embeds, Embedding
  <2> QED BY <1>3, <1>4, <1>6, <2>1 DEF From
<1> QED BY <1>6 DEF Leads, c

\* A second.
LEMMA OlderDerived ==
  ASSUME NEW r, RxWith(r, BufferType), DOMAIN r.buffers \subseteq DOMAIN r.band
  PROVE  Derived(r, OlderRx(r))
<1> DEFINE q == OlderRx(r)
<1>1. DOMAIN r = Fields /\ MapTo(r.buffers, BufferType)  BY DEF RxWith
<1>2. /\ q.commands = r.commands
      /\ q.buffers = [o \in DOMAIN r.buffers |-> OlderBuffer(r.buffers[o])]
      /\ q.band = OlderEach(r.band)
  BY <1>1 DEF OlderRx, Fields
<1> HIDE DEF q
<1>3. DOMAIN q.band = DOMAIN r.band /\ DOMAIN q.buffers \subseteq DOMAIN q.band
  BY <1>2 DEF OlderEach
<1>4. ASSUME NEW o \in DOMAIN r.band PROVE Leads(At(r.buffers, o), At(q.buffers, o))
  <2>1. CASE o \in DOMAIN r.buffers
    <3>1. r.buffers[o] \in BufferType  BY <1>1, <2>1 DEF MapTo
    <3>2. At(r.buffers, o) = r.buffers[o] /\ At(q.buffers, o) = OlderBuffer(r.buffers[o])
      BY <1>2, <2>1 DEF At
    <3> QED BY <3>1, <3>2, OlderLeads
  <2>2. CASE o \notin DOMAIN r.buffers
    <3>1. At(q.buffers, o) = NoBuffer  BY <1>2, <2>2 DEF At
    <3> QED BY <3>1, LeadsOn
  <2> QED BY <2>1, <2>2
<1> QED BY <1>2, <1>3, <1>4 DEF Derived, q

\* Gaps are marked at offsets of the band.
LEMMA IdleDerived ==
  ASSUME NEW r, RxWith(r, BufferType), DOMAIN r.buffers \subseteq DOMAIN r.band
  PROVE  Derived(r, ProcessIdleActivity(r))
<1> DEFINE idle == {o \in DOMAIN r.band : /\ ~r.band[o].last /\ ~r.band[o].mfi
                                          /\ 2 * r.band[o].age >= 3 * Period}
           found == CHOOSE f : f = [o \in idle |->
                      \/ HasExistingMessageBuffer(r.buffers, o)
                      \/ \E p \in idle : p < o /\ o - p <= Threshold /\ f[p]]
           marked == {o \in idle : found[o]}
           gap(o) == [text |-> Mfi, last |-> FALSE, age |-> r.band[o].age]
           band == [o \in DOMAIN r.band |->
                     IF o \in idle THEN [r.band[o] EXCEPT !.mfi = TRUE] ELSE r.band[o]]
           buffers == [o \in DOMAIN r.buffers \cup marked |->
                        IF o \in marked
                        THEN [At(r.buffers, o) EXCEPT !.msgs = Append(@, gap(o))]
                        ELSE r.buffers[o]]
           q == ProcessIdleActivity(r)
<1>1. DOMAIN r = Fields /\ MapTo(r.buffers, BufferType) /\ MapTo(r.band, AnyIdle)
  BY DEF RxWith
<1>2. q.buffers = buffers /\ q.commands = r.commands /\ q.band = band
  BY <1>1 DEF ProcessIdleActivity, Fields
<1>3. marked \subseteq DOMAIN r.band  OBVIOUS
<1> HIDE DEF marked, gap, q
<1>4. DOMAIN q.band = DOMAIN r.band /\ DOMAIN q.buffers \subseteq DOMAIN q.band
  BY <1>2, <1>3
<1>5. ASSUME NEW o \in DOMAIN r.band PROVE Leads(At(r.buffers, o), At(q.buffers, o))
  <2>1. CASE o \in marked
    <3>1. At(q.buffers, o) = [At(r.buffers, o) EXCEPT !.msgs = Append(@, gap(o))]
      BY <1>2, <2>1 DEF At
    <3>2. r.band[o] \in AnyIdle /\ At(r.buffers, o) \in BufferType
      BY <1>1, AtBuffer DEF MapTo
    <3>3. gap(o) \in TextType /\ gap(o).text = Mfi
      <4>1. r.band[o].age \in Ages  BY <3>2 DEF AnyIdle
      <4>2. Mfi \in Texts  BY Zenon DEF Texts
      <4> QED BY <4>1, <4>2 DEF gap, TextType
    <3>4. ASSUME NEW m \in Messages, NEW k \in Int, From(At(r.buffers, o), m, k)
          PROVE  From(At(q.buffers, o), m, k)
      BY <3>1, <3>2, <3>3, <3>4, FromAppend
    <3> QED BY <3>4 DEF Leads
  <2>2. CASE o \notin marked
    <3>1. At(q.buffers, o) = At(r.buffers, o)  BY <1>2, <2>2 DEF At
    <3> QED BY <3>1, LeadsOn
  <2> QED BY <2>1, <2>2
<1> QED BY <1>2, <1>4, <1>5 DEF Derived, q

\* A call that is filled in is the sender's, in the sender's place.
LEMMA JoinLeads ==
  ASSUME NEW b \in BufferType, NEW field \in {"from", "to"}
  PROVE  Leads(b, Join(b, field))
<1>1. CASE b.cmd[field] # Partial \/ b.compound = << >>
  <2>1. Join(b, field) = b  BY <1>1 DEF Join
  <2> QED BY <2>1, LeadsOn
<1>2. CASE ~(b.cmd[field] # Partial \/ b.compound = << >>)
  <2> DEFINE d == Head(b.compound)
             c == Join(b, field)
  <2>1. b.cmd \in CmdType /\ b.compound \in Seq(CallType) /\ b.compound # << >>
    BY <1>2 DEF BufferType
  <2>2. /\ c.compound = Tail(b.compound) /\ c.msgs = b.msgs /\ c.cmd.cmd = b.cmd.cmd
        /\ field = "from" => c.cmd.from = d.call /\ c.cmd.to = b.cmd.to
    BY <1>2, <2>1 DEF Join, CmdType, BufferType
  <2>3. /\ 1 \in DOMAIN b.compound /\ d = b.compound[1]
        /\ \A i \in DOMAIN Tail(b.compound) :
             i + 1 \in DOMAIN b.compound /\ Tail(b.compound)[i] = b.compound[i + 1]
    BY <2>1, HeadTailProperties, LenProperties, EmptySeq
  <2> HIDE DEF c, d
  <2>4. ASSUME NEW m \in Messages, NEW k \in Int, From(b, m, k) PROVE From(c, m, k)
    <3>1. \A i \in DOMAIN c.compound : c.compound[i].call = m.from  BY <2>2, <2>3, <2>4 DEF From
    <3>2. d.call = m.from  BY <2>3, <2>4 DEF From
    <3>3. ASSUME IsCommandAllowed(b.cmd.cmd)
          PROVE  c.cmd.to = m.to /\ c.cmd.from = m.from
      <4>1. b.cmd.to = m.to /\ m.to # Partial  BY <2>4, <3>3, RxAssumption DEF From
      <4>2. field = "from"
        <5>1. field # "to"  BY <1>2, <4>1
        <5> QED BY <5>1
      <4> QED BY <2>2, <3>2, <4>1, <4>2
    <3> QED BY <2>2, <2>4, <3>1, <3>3 DEF From
  <2> QED BY <2>4 DEF Leads, c
<1> QED BY <1>1, <1>2

\* Both calls.
LEMMA JoinedLeads ==
  ASSUME NEW b \in BufferType
  PROVE  Leads(b, Joined(b))
<1>1. Join(b, "from") \in BufferType  BY JoinType
<1>2. Leads(b, Join(b, "from"))  BY JoinLeads
<1>3. Leads(Join(b, "from"), Join(Join(b, "from"), "to"))  BY <1>1, JoinLeads
<1>4. Leads(b, Join(Join(b, "from"), "to"))  BY <1>2, <1>3 DEF Leads
<1> QED BY <1>4, LeadsOn DEF Joined

\* Each of all is one of the commands or one of those made at the offsets in S.
Joint(all, commands, S, command) ==
  \A i \in DOMAIN all : \/ \E j \in DOMAIN commands : all[i] = commands[j]
                        \/ \E o \in S : all[i] = command[o]

\* What is handed on from offsets of the band is appended to what was there.
LEMMA HandedFrom ==
  ASSUME NEW commands \in Seq(CommandType), NEW S \in SUBSET Offsets,
         NEW command, \A o \in S : command[o] \in CommandType
  PROVE  Joint(commands \o [i \in DOMAIN Ascending(S) |-> command[Ascending(S)[i]]],
               commands, S, command)
<1> DEFINE q == Ascending(S)
           n == Cardinality(S)
           k == Len(commands)
           t == [i \in DOMAIN q |-> command[q[i]]]
           all == commands \o t
<1>1. S \in SUBSET Nat /\ IsFiniteSet(S)  BY OffsetFacts, FS_Subset
<1>2. n \in Nat /\ q \in [1..n -> S]  BY <1>1, AscendingIs
<1> HIDE DEF q, n
<1>3. t \in [1..n -> CommandType]  BY <1>2
<1>4. t \in Seq(CommandType) /\ Len(t) = n
  <2>1. t \in Seq(CommandType)  BY <1>2, <1>3, FunctionIsSeq
  <2> QED BY <1>2, <1>3, <2>1, LenProperties
<1>5. \A j \in 1..n : \E o \in S : t[j] = command[o]  BY <1>2
<1> HIDE DEF t
<1>6. /\ k \in Nat /\ DOMAIN commands = 1..k /\ DOMAIN all = 1..k + n
      /\ \A j \in 1..k + n : all[j] = IF j <= k THEN commands[j] ELSE t[j - k]
  <2>1. /\ Len(all) = k + n /\ all \in Seq(CommandType)
        /\ \A j \in 1..k + n : all[j] = IF j <= k THEN commands[j] ELSE t[j - k]
    BY <1>2, <1>4, ConcatProperties
  <2> HIDE DEF all
  <2> QED BY <1>2, <2>1, LenProperties
<1> HIDE DEF all, k
<1>7. ASSUME NEW i \in DOMAIN all
      PROVE  \/ \E j \in DOMAIN commands : all[i] = commands[j]
             \/ \E o \in S : all[i] = command[o]
  <2>1. CASE i <= k  BY <1>6, <2>1
  <2>2. CASE ~(i <= k)
    <3>1. i - k \in 1..n /\ all[i] = t[i - k]  BY <1>2, <1>6, <2>2
    <3> QED BY <1>5, <3>1
  <2> QED BY <2>1, <2>2
<1>8. Joint(all, commands, S, command)  BY <1>7 DEF Joint
<1> QED BY <1>8 DEF all, t, q

\* Calls are joined and buffers that are ready handed on.
LEMMA CompoundDerived ==
  ASSUME NEW r, RxWith(r, BufferType), DOMAIN r.buffers \subseteq DOMAIN r.band
  PROVE  Derived(r, ProcessCompoundActivity(r))
<1> DEFINE ready == {o \in DOMAIN r.buffers : JoinReady(r.buffers[o])}
           queue == Ascending(ready)
           handed == [o \in ready |-> ToCommand(Joined(r.buffers[o]).cmd, << >>)]
           buffers == [o \in DOMAIN r.buffers \ ready |-> Joined(r.buffers[o])]
           commands == r.commands \o [i \in DOMAIN queue |-> handed[queue[i]]]
           q == ProcessCompoundActivity(r)
<1>1. DOMAIN r = Fields /\ MapTo(r.buffers, BufferType) /\ r.commands \in Seq(CommandType)
  BY DEF RxWith
<1>2. ready \in SUBSET Offsets /\ \A i \in DOMAIN queue : queue[i] \in ready
  <2>1. ready \in SUBSET Offsets  BY <1>1 DEF MapTo
  <2>2. ready \in SUBSET Nat /\ IsFiniteSet(ready)  BY <2>1, OffsetFacts, FS_Subset
  <2> HIDE DEF ready
  <2> QED BY <2>1, <2>2, AscendingIs
<1>3. \A o \in ready : handed[o] \in CommandType
  <2> TAKE o \in ready
  <2>1. r.buffers[o] \in BufferType  BY <1>1 DEF MapTo
  <2>2. Joined(r.buffers[o]) \in BufferType  BY <2>1, JoinedKeeps
  <2>3. << >> \in Seq(Texts)  BY EmptySeq
  <2>4. ToCommand(Joined(r.buffers[o]).cmd, << >>) \in CommandType  BY <2>2, <2>3, HandedType
  <2> QED BY <2>4
<1>4. q.buffers = buffers /\ q.commands = commands /\ q.band = r.band
  <2> DEFINE command(o) == ToCommand(Joined(r.buffers[o]).cmd, << >>)
  <2>1. /\ q.buffers = buffers /\ q.band = r.band
        /\ q.commands = r.commands \o [i \in DOMAIN queue |-> command(queue[i])]
    BY <1>1 DEF ProcessCompoundActivity, Fields
  <2>2. \A i \in DOMAIN queue : command(queue[i]) = handed[queue[i]]  BY <1>2
  <2> HIDE DEF queue, command, handed
  <2>3. [i \in DOMAIN queue |-> command(queue[i])] = [i \in DOMAIN queue |-> handed[queue[i]]]
    BY <2>2
  <2> QED BY <2>1, <2>3, Zenon
<1>5. Joint(commands, r.commands, ready, handed)
  <2> HIDE DEF ready, handed
  <2> QED BY <1>1, <1>2, <1>3, HandedFrom
<1>6. ASSUME NEW o \in ready PROVE o \in DOMAIN r.band /\ Tells(At(r.buffers, o), handed[o])
  <2> DEFINE b == r.buffers[o]
             c == Joined(b).cmd
  <2>1. o \in DOMAIN r.band /\ At(r.buffers, o) = b /\ b \in BufferType  BY <1>1 DEF At, MapTo
  <2>2. Leads(b, Joined(b))  BY <2>1, JoinedLeads
  <2>3. handed[o] = ToCommand(c, << >>)  OBVIOUS
  <2> HIDE DEF b, c, handed
  <2>4. ASSUME NEW m \in Messages, NEW k \in Int, From(b, m, k), Fit(handed[o])
        PROVE  ToldBy(handed[o], m)
    <3>1. From(Joined(b), m, k)  BY <2>2, <2>4 DEF Leads
    <3>2. c.from # Partial /\ IsCommandAllowed(c.cmd)  BY <2>3, <2>4 DEF Fit, ToCommand
    <3>3. SameHeader(c, m)  BY <3>1, <3>2 DEF From, SameHeader, c
    <3> QED BY <2>3, <3>3, ToldNothing
  <2> QED BY <2>1, <2>4 DEF Tells
<1>7. ASSUME NEW o \in DOMAIN r.band PROVE Leads(At(r.buffers, o), At(q.buffers, o))
  <2>1. CASE o \in DOMAIN buffers
    <3>1. r.buffers[o] \in BufferType /\ At(r.buffers, o) = r.buffers[o]
          /\ At(q.buffers, o) = Joined(r.buffers[o])
      BY <1>1, <1>4, <2>1 DEF At, MapTo
    <3> QED BY <3>1, JoinedLeads
  <2>2. CASE o \notin DOMAIN buffers
    <3>1. At(q.buffers, o) = NoBuffer  BY <1>4, <2>2 DEF At
    <3> QED BY <3>1, LeadsOn
  <2> QED BY <2>1, <2>2
<1>8. DOMAIN q.band = DOMAIN r.band /\ DOMAIN q.buffers \subseteq DOMAIN q.band  BY <1>4
<1> HIDE DEF q, handed, ready, commands
<1>9. \A i \in DOMAIN q.commands :
        \/ \E j \in DOMAIN r.commands : q.commands[i] = r.commands[j]
        \/ \E o \in DOMAIN r.band : Tells(At(r.buffers, o), q.commands[i])
  BY <1>4, <1>5, <1>6 DEF Joint
<1>10. Derived(r, q)  BY <1>7, <1>8, <1>9 DEF Derived
<1> QED BY <1>10 DEF q

\* Buffers that are closed are handed on with their text, or dropped.
LEMMA BufferedDerived ==
  ASSUME NEW r, RxWith(r, BufferType), DOMAIN r.buffers \subseteq DOMAIN r.band
  PROVE  Derived(r, ProcessBufferedActivity(r))
<1> DEFINE gone == {o \in DOMAIN r.buffers : ~Fresh(r.buffers[o], DropAfter)}
           closed == {o \in DOMAIN r.buffers : Closed(r.buffers[o])}
           ready == {o \in closed : Valid(r.buffers[o])}
           queue == Ascending(ready)
           handed == [o \in ready |-> ToCommand(r.buffers[o].cmd, TextOf(r.buffers[o]))]
           buffers == Without(r.buffers, gone \cup closed)
           commands == r.commands \o [i \in DOMAIN queue |-> handed[queue[i]]]
           q == ProcessBufferedActivity(r)
<1>1. DOMAIN r = Fields /\ MapTo(r.buffers, BufferType) /\ r.commands \in Seq(CommandType)
  BY DEF RxWith
<1>2. ready \in SUBSET Offsets /\ \A i \in DOMAIN queue : queue[i] \in ready
  <2>1. ready \in SUBSET Offsets  BY <1>1 DEF MapTo
  <2>2. ready \in SUBSET Nat /\ IsFiniteSet(ready)  BY <2>1, OffsetFacts, FS_Subset
  <2> HIDE DEF ready
  <2> QED BY <2>1, <2>2, AscendingIs
<1>3. \A o \in ready : handed[o] \in CommandType
  <2> TAKE o \in ready
  <2>1. r.buffers[o] \in BufferType  BY <1>1 DEF MapTo
  <2>2. ToCommand(r.buffers[o].cmd, TextOf(r.buffers[o])) \in CommandType
    BY <2>1, HandedType, TextOfType
  <2> QED BY <2>2
<1>4. q.buffers = buffers /\ q.commands = commands /\ q.band = r.band
  <2> DEFINE command(o) == ToCommand(r.buffers[o].cmd, TextOf(r.buffers[o]))
  <2>1. /\ q.buffers = buffers /\ q.band = r.band
        /\ q.commands = r.commands \o [i \in DOMAIN queue |-> command(queue[i])]
    BY <1>1 DEF ProcessBufferedActivity, Fields
  <2>2. \A i \in DOMAIN queue : command(queue[i]) = handed[queue[i]]  BY <1>2
  <2> HIDE DEF queue, command, handed
  <2>3. [i \in DOMAIN queue |-> command(queue[i])] = [i \in DOMAIN queue |-> handed[queue[i]]]
    BY <2>2
  <2> QED BY <2>1, <2>3, Zenon
<1>5. Joint(commands, r.commands, ready, handed)
  <2> HIDE DEF ready, handed
  <2> QED BY <1>1, <1>2, <1>3, HandedFrom
<1>6. ASSUME NEW o \in ready PROVE o \in DOMAIN r.band /\ Tells(At(r.buffers, o), handed[o])
  <2> DEFINE b == r.buffers[o]
  <2>1. o \in DOMAIN r.band /\ At(r.buffers, o) = b /\ b \in BufferType  BY <1>1 DEF At, MapTo
  <2>2. handed[o] = ToCommand(b.cmd, TextOf(b))  OBVIOUS
  <2> HIDE DEF b, handed
  <2>3. ASSUME NEW m \in Messages, NEW k \in Int, From(b, m, k), Fit(handed[o])
        PROVE  ToldBy(handed[o], m)
    BY <2>1, <2>2, <2>3, ToldText
  <2> QED BY <2>1, <2>3 DEF Tells
<1> HIDE DEF gone, closed, q, handed, ready, commands
<1>7. DOMAIN buffers \subseteq DOMAIN r.buffers /\ \A o \in DOMAIN buffers : buffers[o] = r.buffers[o]
  BY DEF Without
<1> HIDE DEF buffers
<1>8. ASSUME NEW o \in DOMAIN r.band PROVE Leads(At(r.buffers, o), At(q.buffers, o))
  <2>1. CASE o \in DOMAIN buffers
    <3>1. At(q.buffers, o) = At(r.buffers, o)  BY <1>4, <1>7, <2>1 DEF At
    <3> QED BY <3>1, LeadsOn
  <2>2. CASE o \notin DOMAIN buffers
    <3>1. At(q.buffers, o) = NoBuffer  BY <1>4, <2>2 DEF At
    <3> QED BY <3>1, LeadsOn
  <2> QED BY <2>1, <2>2
<1>9. DOMAIN q.band = DOMAIN r.band /\ DOMAIN q.buffers \subseteq DOMAIN q.band
  BY <1>4, <1>7
<1>10. \A i \in DOMAIN q.commands :
        \/ \E j \in DOMAIN r.commands : q.commands[i] = r.commands[j]
        \/ \E o \in DOMAIN r.band : Tells(At(r.buffers, o), q.commands[i])
  BY <1>4, <1>5, <1>6 DEF Joint
<1>11. Derived(r, q)  BY <1>8, <1>9, <1>10 DEF Derived
<1> QED BY <1>11 DEF q

\* A pass makes everything of what was there.
LEMMA ActivityDerived ==
  ASSUME NEW r, RxWith(r, BufferType), DOMAIN r.buffers \subseteq DOMAIN r.band
  PROVE  Derived(r, ProcessActivity(r))
<1> DEFINE a == ProcessRxActivity(r)
           b == ProcessIdleActivity(a)
           c == ProcessCompoundActivity(b)
           d == ProcessBufferedActivity(c)
<1>1. RxWith(a, BufferType) /\ Derived(r, a)
  <2>1. RxWith([r EXCEPT !.pending = FALSE], BufferType)  BY OtherFields
  <2>2. DOMAIN r = Fields  BY DEF RxWith
  <2>3. a.buffers = r.buffers /\ a.commands = r.commands /\ a.band = r.band
    BY <2>2 DEF ProcessRxActivity, Fields
  <2>4. RxWith(a, BufferType)  BY <2>1 DEF ProcessRxActivity
  <2> HIDE DEF a
  <2>5. Derived(r, a)  BY <2>3, LeadsOn DEF Derived
  <2> QED BY <2>4, <2>5
<1> HIDE DEF a
<1>2. RxWith(b, BufferType) /\ Derived(a, b)
  <2>1. DOMAIN a.buffers \subseteq DOMAIN a.band  BY <1>1 DEF Derived
  <2> QED BY <1>1, <2>1, ProcessIdleActivityType, IdleDerived
<1> HIDE DEF b
<1>3. RxWith(c, BufferType) /\ Derived(b, c)
  <2>1. DOMAIN b.buffers \subseteq DOMAIN b.band  BY <1>2 DEF Derived
  <2> QED BY <1>2, <2>1, ProcessCompoundActivityType, CompoundDerived
<1> HIDE DEF c
<1>4. Derived(c, d)
  <2>1. DOMAIN c.buffers \subseteq DOMAIN c.band  BY <1>3 DEF Derived
  <2> QED BY <1>3, <2>1, BufferedDerived
<1> HIDE DEF d
<1>5. Derived(r, b)  BY <1>1, <1>2, DerivedTwice
<1>6. Derived(r, c)  BY <1>3, <1>5, DerivedTwice
<1>7. Derived(r, d)  BY <1>4, <1>6, DerivedTwice
<1> QED BY <1>7 DEF ProcessActivity, a, b, c, d

-----------------------------------------------------------------------------
(* A line: what it makes of the buffers.                                   *)

\* What a frame says is of its message.
Says(key, m) ==
  /\ key.type = "heartbeat" => SameHeader(key, m)
  /\ key.type = "compound" => key.from = m.from
  /\ key.type = "directed" => key.from \in {m.from, Partial} /\ key.to = m.to /\ key.cmd = m.cmd

\* The frames that come before the text.
HeadOf(m) ==
  CASE m.cmd = "none" -> << >>
    [] m.cmd = "heartbeat" -> <<Heartbeat(m.from)>>
    [] OTHER -> IF {m.from, m.to} \cap CompoundCalls = {}
                THEN <<Directed(m.from, m.to, m.cmd)>>
                ELSE <<Compound(m.from), Directed(Partial, m.to, m.cmd)>>

\* What a frame before the text says is of its message.
Good(key, m) == key.type # "data" /\ Says(key, m)

\* Everything a message has before its text is of that message.
LEMMA HeadGood ==
  ASSUME NEW m \in Messages
  PROVE  /\ DOMAIN HeadOf(m) = 1..Len(HeadOf(m)) /\ Len(HeadOf(m)) \in Nat
         /\ \A j \in DOMAIN HeadOf(m) : Good(HeadOf(m)[j], m)
<1> DEFINE OK(s) == DOMAIN s = 1..Len(s) /\ Len(s) \in Nat /\ \A j \in DOMAIN s : Good(s[j], m)
<1>1. m.cmd = "heartbeat" => Good(Heartbeat(m.from), m)
  BY RxAssumption, Zenon DEF Heartbeat, Says, SameHeader, Good
<1>2. Good(Compound(m.from), m)  BY Zenon DEF Compound, Says, Good
<1>3. Good(Directed(m.from, m.to, m.cmd), m) /\ Good(Directed(Partial, m.to, m.cmd), m)
  BY Zenon DEF Directed, Says, Good
<1>4. OK(<< >>)  OBVIOUS
<1>5. m.cmd = "heartbeat" => OK(<<Heartbeat(m.from)>>)  BY <1>1
<1>6. OK(<<Directed(m.from, m.to, m.cmd)>>)  BY <1>3
<1>7. OK(<<Compound(m.from), Directed(Partial, m.to, m.cmd)>>)
  <2> DEFINE c == Compound(m.from)  d == Directed(Partial, m.to, m.cmd)
  <2>1. Good(c, m) /\ Good(d, m)  BY <1>2, <1>3
  <2> HIDE DEF c, d
  <2>2. OK(<<c, d>>)  BY <2>1
  <2> QED BY <2>2 DEF c, d
<1> HIDE DEF OK
<1>8. OK(HeadOf(m))
  <2>1. CASE m.cmd = "none"  BY <1>4, <2>1 DEF HeadOf
  <2>2. CASE m.cmd = "heartbeat"  BY <1>5, <2>2 DEF HeadOf
  <2>3. CASE m.cmd \notin {"none", "heartbeat"}  BY <1>6, <1>7, <2>3 DEF HeadOf
  <2> QED BY <2>1, <2>2, <2>3
<1> QED BY <1>8 DEF OK

\* The frames of a message: calls and the command, and then its texts.
LEMMA FrameIs ==
  ASSUME NEW m \in Messages
  PROVE  LET F == BuildMessageFrames(m)
             h == Len(HeadOf(m))
         IN  /\ h \in Nat /\ Len(m.text) \in Nat /\ DOMAIN m.text = 1..Len(m.text)
             /\ Len(F) = h + Len(m.text) /\ DOMAIN F = 1..h + Len(m.text)
             /\ \A i \in DOMAIN F :
                  /\ F[i].first = (i = 1) /\ F[i].last = (i = Len(F))
                  /\ F[i].key = IF i <= h THEN HeadOf(m)[i] ELSE Data(m.text[i - h])
<1> DEFINE head == HeadOf(m)
           t == Len(m.text)
           h == Len(head)
           text == [j \in DOMAIN m.text |-> Data(m.text[j])]
           all == head \o text
           F == BuildMessageFrames(m)
<1>1. F = [j \in DOMAIN all |-> [key |-> all[j], first |-> j = 1, last |-> j = Len(all)]]
  BY DEF BuildMessageFrames, HeadOf
<1>2. DOMAIN m.text = 1..t /\ t \in Nat
  <2>1. m.text \in Seq(STRING)  BY RxAssumption
  <2> QED BY <2>1, LenProperties
<1>3. DOMAIN head = 1..h /\ h \in Nat  BY HeadGood
<1> HIDE DEF head
<1>4. DOMAIN all = 1..h + t /\ Len(all) = h + t
      /\ \A j \in 1..h + t : all[j] = IF j <= h THEN head[j] ELSE text[j - h]
  <2> DEFINE T == {head[j] : j \in DOMAIN head} \cup {text[j] : j \in DOMAIN text}
  <2>1. DOMAIN text = 1..t  BY <1>2
  <2>2. text \in Seq(T) /\ Len(text) = t
    <3>1. text \in [1..t -> T]  BY <2>1
    <3> HIDE DEF text, T
    <3> QED BY <1>2, <3>1, FunctionIsSeq, LenProperties
  <2>3. head \in Seq(T)
    <3>1. HeadOf(m) = [j \in DOMAIN HeadOf(m) |-> HeadOf(m)[j]]
      <4>1. \A a : <<a>> = [j \in DOMAIN <<a>> |-> <<a>>[j]]  OBVIOUS
      <4>2. \A a, b : <<a, b>> = [j \in DOMAIN <<a, b>> |-> <<a, b>>[j]]  OBVIOUS
      <4>3. << >> = [j \in DOMAIN << >> |-> << >>[j]]  OBVIOUS
      <4> DEFINE Whole(s) == s = [j \in DOMAIN s |-> s[j]]
      <4>4. \A a, b : Whole(<<a>>) /\ Whole(<<a, b>>) /\ Whole(<< >>)  BY <4>1, <4>2, <4>3, Zenon
      <4> HIDE DEF Whole
      <4>5. Whole(HeadOf(m))
        <5>1. CASE m.cmd = "none"  BY <4>4, <5>1 DEF HeadOf
        <5>2. CASE m.cmd = "heartbeat"  BY <4>4, <5>2 DEF HeadOf
        <5>3. CASE m.cmd \notin {"none", "heartbeat"}  BY <4>4, <5>3 DEF HeadOf
        <5> QED BY <5>1, <5>2, <5>3
      <4> QED BY <4>5 DEF Whole
    <3>2. head = [j \in DOMAIN head |-> head[j]]  BY <3>1 DEF head
    <3>3. \A j \in DOMAIN head : head[j] \in T  OBVIOUS
    <3> HIDE DEF T, text
    <3>4. head \in [1..h -> T]  BY <1>3, <3>2, <3>3
    <3> QED BY <1>3, <3>4, FunctionIsSeq
  <2> HIDE DEF T, text
  <2>4. /\ all \in Seq(T) /\ Len(all) = Len(head) + Len(text)
        /\ \A j \in 1..Len(head) + Len(text) :
             all[j] = IF j <= Len(head) THEN head[j] ELSE text[j - Len(head)]
    BY <2>2, <2>3, ConcatProperties
  <2> HIDE DEF all
  <2> QED BY <2>2, <2>4, LenProperties
<1>5. \A j \in 1..h + t : j > h => text[j - h] = Data(m.text[j - h])
  BY <1>2, <1>3
<1> HIDE DEF text
<1>6. /\ DOMAIN F = DOMAIN all
      /\ \A j \in DOMAIN all : F[j].key = all[j] /\ F[j].first = (j = 1) /\ F[j].last = (j = Len(all))
  <2> HIDE DEF all
  <2> QED BY <1>1
<1> HIDE DEF all
<1>7. Len(F) = h + t
  <2>1. F \in Seq(Frames)  BY FramesAre
  <2> HIDE DEF F
  <2> QED BY <1>2, <1>3, <1>4, <1>6, <2>1, LenProperties
<1> HIDE DEF F, h, t
<1>8. \A i \in DOMAIN F : F[i].key = IF i <= h THEN head[i] ELSE Data(m.text[i - h])
  <2> TAKE i \in DOMAIN F
  <2>1. i \in 1..h + t /\ F[i].key = all[i] /\ all[i] = IF i <= h THEN head[i] ELSE text[i - h]
    BY <1>4, <1>6
  <2>2. CASE i <= h  BY <2>1, <2>2
  <2>3. CASE ~(i <= h)
    <3>1. i > h  BY <1>2, <1>3, <2>1, <2>3
    <3> QED BY <1>5, <2>1, <2>3, <3>1
  <2> QED BY <2>2, <2>3
<1>9. \A i \in DOMAIN F : F[i].first = (i = 1) /\ F[i].last = (i = Len(F))  BY <1>4, <1>6, <1>7
<1> QED BY <1>2, <1>3, <1>4, <1>6, <1>7, <1>8, <1>9 DEF F, h, t, head

\* What a frame says is of its message, and the texts come in order.
LEMMA FrameOf ==
  ASSUME NEW m \in Messages, NEW i \in DOMAIN BuildMessageFrames(m)
  PROVE  LET F == BuildMessageFrames(m)
             k == i - (Len(F) - Len(m.text))
         IN  /\ Len(F) \in Nat /\ DOMAIN F = 1..Len(F) /\ F[i].first = (i = 1)
             /\ Says(F[i].key, m)
             /\ F[i].key.type = "data" => k \in 1..Len(m.text) /\ F[i].key.text = m.text[k]
<1> DEFINE F == BuildMessageFrames(m)
           h == Len(HeadOf(m))
           t == Len(m.text)
           k == i - (Len(F) - t)
<1>1. /\ h \in Nat /\ t \in Nat /\ Len(F) = h + t /\ DOMAIN F = 1..h + t /\ F[i].first = (i = 1)
      /\ F[i].key = IF i <= h THEN HeadOf(m)[i] ELSE Data(m.text[i - h])
  BY FrameIs
<1>2. i \in DOMAIN F  OBVIOUS
<1> HIDE DEF F
<1>3. k = i - h /\ i \in 1..h + t
  <2>1. i \in 1..h + t /\ Len(F) - t = h
    <3> HIDE DEF h, t
    <3> QED BY <1>1, <1>2
  <2> QED BY <2>1
<1> HIDE DEF k
<1>4. CASE i <= h
  <2>1. i \in DOMAIN HeadOf(m)  BY <1>1, <1>3, <1>4, HeadGood
  <2>2. Good(F[i].key, m)  BY <1>1, <1>4, <2>1, HeadGood
  <2> QED BY <1>1, <2>2 DEF Good, F, k
<1>5. CASE ~(i <= h)
  <2>1. F[i].key = Data(m.text[k]) /\ k \in 1..t
    <3> HIDE DEF h, t
    <3> QED BY <1>1, <1>3, <1>5
  <2>2. F[i].key.type = "data" /\ F[i].key.text = m.text[k]
    <3>1. \A x : Data(x).type = "data" /\ Data(x).text = x  BY Zenon DEF Data
    <3> QED BY <2>1, <3>1
  <2>3. Says(F[i].key, m)  BY <2>2 DEF Says
  <2> QED BY <1>1, <2>1, <2>2, <2>3 DEF F, k
<1> QED BY <1>4, <1>5

\* Members q were made of r by a line at o: what was near o is at o now, and
\* the rest is as it was.
LineMade(r, q, o) ==
  /\ DOMAIN q.band = {p \in DOMAIN r.band : ~Close(p, o)} \cup {o}
  /\ DOMAIN q.buffers \subseteq DOMAIN q.band
  /\ \A p \in DOMAIN r.band : ~Close(p, o) => At(q.buffers, p) = At(r.buffers, p)

\* Frame f is the next of m after k of its texts, and what is near o is of m
\* unless the frame clears it.
NextOf(r, f, o, m, k) ==
  /\ Says(f.key, m)
  /\ f.key.type = "data" => k + 1 \in 1..Len(m.text) /\ f.key.text = m.text[k + 1]
  /\ ~f.first => \A p \in DOMAIN r.band : Close(p, o) => From(At(r.buffers, p), m, k)

\* One entry at most is near o, and it is at o: there is nothing to move.
LEMMA NothingToMove ==
  ASSUME NEW f, NEW o, Near(f, o) \subseteq {o}
  PROVE  Moved(f, o) = f /\ (Near(f, o) # {} => o \in DOMAIN f)
  BY DEF Moved, Near

\* Buffer b with the text of frame f.
WithText(b, f) ==
  [b EXCEPT !.msgs = Append(@, [text |-> f.key.text, last |-> f.last, age |-> 0])]

\* General activity: a first frame leaves no buffer near o, another moves the one
\* it finds to o and adds its text to it.
LEMMA GeneralActivityMade ==
  ASSUME PlacesApart, NEW r, RxWith(r, BufferType), Sparse(DOMAIN r.band),
         DOMAIN r.buffers \subseteq DOMAIN r.band, NEW f \in FrameType, NEW o \in Offsets,
         NEW g, g = GeneralActivity(r, f, o)
  PROVE  /\ LineMade(r, g, o) /\ Near(g.buffers, o) \subseteq {o}
         /\ g.commands = r.commands /\ g.band[o].age = 0
         /\ f.first => o \notin DOMAIN g.buffers
         /\ o \in DOMAIN g.buffers => \E p \in DOMAIN r.buffers : Close(p, o)
         /\ ~f.first => \A p \in DOMAIN r.buffers : Close(p, o) =>
              /\ o \in DOMAIN g.buffers
              /\ f.key.type = "data" => g.buffers[o] = WithText(r.buffers[p], f)
              /\ f.key.type # "data" => g.buffers[o] = r.buffers[p]
<1> DEFINE here == Moved(r.buffers, o)
           kept == IF f.first THEN Without(here, {o}) ELSE here
           drifted == Moved(kept, o)
           datum == [text |-> f.key.text, last |-> f.last, age |-> 0]
           added == [drifted EXCEPT ![o].msgs = Append(@, datum)]
           line == [mfi |-> FALSE, last |-> f.last, age |-> 0]
           band == Put(Moved(r.band, o), o, line)
           buffers == IF f.key.type = "data" /\ HasExistingMessageBuffer(kept, o)
                      THEN added ELSE drifted
<1>1. DOMAIN r = Fields /\ MapTo(r.buffers, BufferType) /\ MapTo(r.band, AnyIdle)
  BY DEF RxWith
<1>2. g.band = band /\ g.buffers = buffers /\ g.commands = r.commands
  BY <1>1 DEF GeneralActivity, Fields
<1>3. Sparse(DOMAIN r.buffers)  BY DEF Sparse
<1>4. /\ Near(r.band, o) = {p \in DOMAIN r.band : Close(p, o)}
      /\ Near(r.buffers, o) = {p \in DOMAIN r.buffers : Close(p, o)}
  BY DEF Near, Close
<1>5. DOMAIN band = {p \in DOMAIN r.band : ~Close(p, o)} \cup {o} /\ band[o].age = 0
  <2>1. DOMAIN Moved(r.band, o)
          = (DOMAIN r.band \ Near(r.band, o)) \cup (IF Near(r.band, o) = {} THEN {} ELSE {o})
    BY MovedApart
  <2>2. line.age = 0  OBVIOUS
  <2> HIDE DEF line
  <2> QED BY <1>4, <2>1, <2>2 DEF Put
<1>6. /\ DOMAIN here = (DOMAIN r.buffers \ Near(r.buffers, o))
                         \cup (IF Near(r.buffers, o) = {} THEN {} ELSE {o})
      /\ \A p \in DOMAIN r.buffers \ Near(r.buffers, o) : p # o /\ here[p] = r.buffers[p]
      /\ Near(r.buffers, o) # {} => \E p \in Near(r.buffers, o) : here[o] = r.buffers[p]
      /\ Near(here, o) \subseteq {o}
  BY <1>3, MovedApart
<1> HIDE DEF here
<1>7. /\ DOMAIN kept \subseteq DOMAIN here /\ \A p \in DOMAIN kept : kept[p] = here[p]
      /\ \A p \in DOMAIN here : p # o => p \in DOMAIN kept
      /\ f.first => o \notin DOMAIN kept
      /\ ~f.first => kept = here
  BY DEF Without
<1> HIDE DEF kept
<1>8. Near(kept, o) \subseteq {o}  BY <1>6, <1>7 DEF Near
<1>9. drifted = kept /\ (Near(kept, o) # {} => o \in DOMAIN kept)  BY <1>8, NothingToMove
<1>10. \A p \in DOMAIN r.band : ~Close(p, o) => p # o /\ At(kept, p) = At(r.buffers, p)
  <2> TAKE p \in DOMAIN r.band
  <2> HAVE ~Close(p, o)
  <2>1. p # o  BY CloseFacts
  <2>2. CASE p \in DOMAIN r.buffers
    <3>1. p \in DOMAIN r.buffers \ Near(r.buffers, o)  BY <1>4, <2>2
    <3>2. p \in DOMAIN here /\ here[p] = r.buffers[p]  BY <1>6, <3>1
    <3> QED BY <1>7, <2>1, <2>2, <3>2 DEF At
  <2>3. CASE p \notin DOMAIN r.buffers
    <3>1. p \notin DOMAIN here  BY <1>6, <2>1, <2>3
    <3> QED BY <1>7, <2>1, <2>3, <3>1 DEF At
  <2> QED BY <2>1, <2>2, <2>3
<1>11. DOMAIN kept \subseteq {p \in DOMAIN r.band : ~Close(p, o)} \cup {o}
  BY <1>4, <1>6, <1>7
<1>12. o \in DOMAIN kept => Near(r.buffers, o) # {}  BY <1>6, <1>7
<1>13. ASSUME ~f.first, NEW p \in DOMAIN r.buffers, Close(p, o)
       PROVE  o \in DOMAIN kept /\ kept[o] = r.buffers[p]
  <2>1. PICK q \in Near(r.buffers, o) : here[o] = r.buffers[q] /\ o \in DOMAIN here
    BY <1>4, <1>6, <1>13
  <2>2. q = p
    <3>1. p \in Offsets /\ q \in Offsets /\ q \in DOMAIN r.buffers /\ Close(q, o)
      BY <1>3, <1>4 DEF Sparse
    <3>2. Close(o, p)  BY <1>13, <3>1, CloseFacts
    <3>3. Close(q, p)  BY <3>1, <3>2, CloseFacts
    <3> QED BY <1>3, <3>1, <3>3 DEF Sparse
  <2> QED BY <1>7, <1>13, <2>1, <2>2
<1> HIDE DEF drifted
<1>14. /\ DOMAIN buffers = DOMAIN kept
       /\ \A p \in DOMAIN kept : p # o => buffers[p] = kept[p]
       /\ o \in DOMAIN kept => buffers[o] =
            IF f.key.type = "data" THEN [kept[o] EXCEPT !.msgs = Append(@, datum)] ELSE kept[o]
  <2> HIDE DEF datum
  <2>1. HasExistingMessageBuffer(kept, o) <=> o \in DOMAIN kept
    <3>1. o \in DOMAIN kept => o \in Near(kept, o)
      <4>1. o - o \in -Threshold..Threshold  BY CloseFacts DEF Close
      <4> QED BY <4>1 DEF Near
    <3> QED BY <1>9, <3>1 DEF HasExistingMessageBuffer
  <2>2. CASE f.key.type = "data" /\ o \in DOMAIN kept
    <3> DEFINE b == [kept[o] EXCEPT !.msgs = Append(@, datum)]
    <3>1. buffers = [kept EXCEPT ![o] = b]  BY <1>9, <2>1, <2>2
    <3> HIDE DEF b, buffers
    <3>2. DOMAIN buffers = DOMAIN kept /\ buffers[o] = b
          /\ \A p \in DOMAIN kept : p # o => buffers[p] = kept[p]
      BY <2>2, <3>1
    <3> QED BY <2>2, <3>2 DEF b
  <2>3. CASE ~(f.key.type = "data" /\ o \in DOMAIN kept)
    <3>1. buffers = kept  BY <1>9, <2>1, <2>3
    <3> HIDE DEF buffers
    <3> QED BY <2>3, <3>1
  <2> QED BY <2>2, <2>3
<1> HIDE DEF buffers, band
<1>15. \A p \in DOMAIN r.band : ~Close(p, o) => At(g.buffers, p) = At(r.buffers, p)
  BY <1>2, <1>10, <1>14 DEF At
<1>16. LineMade(r, g, o)  BY <1>2, <1>5, <1>11, <1>14, <1>15 DEF LineMade
<1>17. Near(g.buffers, o) \subseteq {o}  BY <1>2, <1>8, <1>14 DEF Near
<1>18. o \in DOMAIN g.buffers => \E p \in DOMAIN r.buffers : Close(p, o)
  BY <1>2, <1>4, <1>12, <1>14
<1>19. g.commands = r.commands /\ g.band[o].age = 0 /\ (f.first => o \notin DOMAIN g.buffers)
  BY <1>2, <1>5, <1>7, <1>14
<1>20. ASSUME ~f.first, NEW p \in DOMAIN r.buffers, Close(p, o)
       PROVE  /\ o \in DOMAIN g.buffers
              /\ f.key.type = "data" => g.buffers[o] = WithText(r.buffers[p], f)
              /\ f.key.type # "data" => g.buffers[o] = r.buffers[p]
  <2>1. \A b : [b EXCEPT !.msgs = Append(@, datum)] = WithText(b, f)  BY DEF WithText
  <2> HIDE DEF datum
  <2> QED BY <1>2, <1>13, <1>14, <1>20, <2>1
<1> QED BY <1>16, <1>17, <1>18, <1>19, <1>20

\* The next frame of m leaves what is of m at o.
LEMMA GeneralActivityFrom ==
  ASSUME PlacesApart, NEW r, RxWith(r, BufferType), Sparse(DOMAIN r.band),
         DOMAIN r.buffers \subseteq DOMAIN r.band, NEW f \in FrameType, NEW o \in Offsets,
         NEW m \in Messages, NEW k \in Int, NextOf(r, f, o, m, k),
         NEW g, g = GeneralActivity(r, f, o)
  PROVE  From(At(g.buffers, o), m, k + 1)
<1> DEFINE datum == [text |-> f.key.text, last |-> f.last, age |-> 0]
<1>1. CASE o \notin DOMAIN g.buffers
  <2>1. At(g.buffers, o) = NoBuffer  BY <1>1 DEF At
  <2> QED BY <2>1, FromNothing
<1>2. CASE o \in DOMAIN g.buffers
  <2>1. ~f.first  BY <1>2, GeneralActivityMade DEF FrameType
  <2>2. PICK p \in DOMAIN r.buffers : Close(p, o)  BY <1>2, GeneralActivityMade
  <2> DEFINE b == r.buffers[p]
  <2>3. b \in BufferType /\ At(r.buffers, p) = b /\ p \in DOMAIN r.band
    BY DEF RxWith, MapTo, At
  <2>4. From(b, m, k)  BY <2>1, <2>2, <2>3 DEF NextOf
  <2>5. /\ At(g.buffers, o) = g.buffers[o]
        /\ f.key.type = "data" => g.buffers[o] = WithText(b, f)
        /\ f.key.type # "data" => g.buffers[o] = b
    BY <1>2, <2>1, <2>2, GeneralActivityMade DEF At
  <2>6. k + 1 \in Int /\ k <= k + 1 /\ k < k + 1  OBVIOUS
  <2> HIDE DEF b
  <2>7. CASE f.key.type = "data"
    <3>1. datum \in TextType /\ datum.text = f.key.text
      BY <2>7, FrameParts, AgeFacts DEF TextType
    <3>2. f.key.text = m.text[k + 1] /\ k + 1 \in 1..Len(m.text)  BY <2>7 DEF NextOf
    <3> HIDE DEF datum
    <3>3. From([b EXCEPT !.msgs = Append(@, datum)], m, k + 1)
      BY <2>3, <2>4, <2>6, <3>1, <3>2, FromAppend
    <3> QED BY <2>5, <2>7, <3>3 DEF WithText, datum
  <2>8. CASE f.key.type # "data"
    <3>1. From(b, m, k + 1)  BY <2>4, <2>6, FromMore
    <3> QED BY <2>5, <2>8, <3>1
  <2> QED BY <2>7, <2>8
<1> QED BY <1>1, <1>2

\* A buffer put in at o, where there is nothing else near.
LEMMA PutMade ==
  ASSUME NEW r, NEW g, NEW q, NEW o, NEW b, LineMade(r, g, o), PlacesApart, o \in Offsets,
         q.band = g.band, q.buffers = Put(g.buffers, o, b)
  PROVE  LineMade(r, q, o) /\ At(q.buffers, o) = b
<1>1. DOMAIN q.buffers = DOMAIN g.buffers \cup {o} /\ At(q.buffers, o) = b
  BY DEF Put, At
<1>2. \A p : p # o => At(q.buffers, p) = At(g.buffers, p)  BY DEF Put, At
<1>3. \A p \in DOMAIN r.band : ~Close(p, o) => p # o  BY CloseFacts
<1> QED BY <1>1, <1>2, <1>3 DEF LineMade

\* Members with young buffers are members with buffers.
LEMMA YoungRx ==
  ASSUME NEW n \in Nat, NEW r, RxWith(r, YoungBuffer(n))
  PROVE  RxWith(r, BufferType)
<1>1. YoungBuffer(n) \subseteq BufferType  BY DEF YoungBuffer
<1> QED BY <1>1, MapMonotonic DEF RxWith

\* A line puts into the buffer at its offset what is of the message on the air,
\* and hands on nothing else.
LEMMA LineFrom ==
  ASSUME PlacesApart, NEW n \in Nat, NEW r, RxWith(r, YoungBuffer(n)), Sparse(DOMAIN r.band),
         DOMAIN r.buffers \subseteq DOMAIN r.band, NEW f \in Frames, NEW o \in Offsets,
         NEW m \in Messages, NEW k \in Int, NextOf(r, f, o, m, k), ~IsDuplicate(r.cache, f, o),
         NEW q, q = ProcessDecodedLine(r, f, o)
  PROVE  /\ LineMade(r, q, o)
         /\ From(At(q.buffers, o), m, k + 1)
         /\ \A i \in DOMAIN q.commands :
              (\E j \in DOMAIN r.commands : q.commands[i] = r.commands[j])
              \/ ToldBy(q.commands[i], m)
<1> DEFINE cached == [r EXCEPT !.cache = CacheFrame(@, f, o)]
           g == GeneralActivity(cached, f, o)
<1>0. f \in FrameType /\ f.key \in KeyType
      /\ f.key.type \in {"heartbeat", "compound", "directed", "data"}
  <2>1. f \in FrameType /\ f.key \in KeyType  BY FramesAre, FrameParts
  <2> QED BY <2>1 DEF KeyType
<1>1. /\ RxWith(cached, YoungBuffer(n)) /\ cached.band = r.band /\ cached.buffers = r.buffers
      /\ cached.commands = r.commands
  <2>1. r.cache \in SUBSET Cached  BY DEF RxWith
  <2>2. CacheFrame(r.cache, f, o) \in SUBSET Cached  BY <2>1, CacheType
  <2>3. RxWith(cached, YoungBuffer(n))  BY <2>2, OtherFields
  <2>4. DOMAIN r = Fields  BY DEF RxWith
  <2> QED BY <2>3, <2>4 DEF Fields
<1>2. q = Parse(g, f, o)  BY DEF ProcessDecodedLine
<1> HIDE DEF cached
<1>3. /\ LineMade(r, g, o) /\ Near(g.buffers, o) \subseteq {o}
      /\ From(At(g.buffers, o), m, k + 1) /\ g.commands = r.commands
  <2>1. NextOf(cached, f, o, m, k)  BY <1>1 DEF NextOf
  <2>2. /\ LineMade(cached, g, o) /\ Near(g.buffers, o) \subseteq {o}
        /\ g.commands = cached.commands
    <3>1. RxWith(cached, BufferType)  BY <1>1, YoungRx
    <3>2. /\ Sparse(DOMAIN cached.band) /\ DOMAIN cached.buffers \subseteq DOMAIN cached.band
      BY <1>1
    <3> QED BY <1>0, <3>1, <3>2, GeneralActivityMade
  <2>3. From(At(g.buffers, o), m, k + 1)
    BY <1>0, <1>1, <2>1, YoungRx, GeneralActivityFrom
  <2> HIDE DEF g
  <2> QED BY <1>1, <2>2, <2>3 DEF LineMade
<1>4. /\ DOMAIN g = Fields /\ MapTo(g.buffers, BufferType)
      /\ g.commands \in Seq(CommandType) /\ At(g.buffers, o) \in BufferType
  <2>1. RxWith(g, YoungBuffer(n))  BY <1>0, <1>1, GeneralActivityYoung
  <2> HIDE DEF g
  <2>2. RxWith(g, BufferType)  BY <2>1, YoungRx
  <2> QED BY <2>2, AtBuffer DEF RxWith
<1> HIDE DEF g
<1>5. Moved(g.buffers, o) = g.buffers  BY <1>3, NothingToMove
<1>6. \A i \in DOMAIN g.commands : \E j \in DOMAIN r.commands : g.commands[i] = r.commands[j]
  BY <1>3
<1> DEFINE c == ToCommand(f.key, << >>)
<1>7. ASSUME SameHeader(f.key, m), q = Queue(g, c)
      PROVE  /\ LineMade(r, q, o) /\ From(At(q.buffers, o), m, k + 1)
             /\ \A i \in DOMAIN q.commands :
                  (\E j \in DOMAIN r.commands : q.commands[i] = r.commands[j])
                  \/ ToldBy(q.commands[i], m)
  <2>1. q.buffers = g.buffers /\ q.band = g.band /\ q.commands = Append(g.commands, c)
    BY <1>4, <1>7 DEF Queue, Fields
  <2>2. ToldBy(c, m)  BY <1>7, ToldNothing
  <2> HIDE DEF c
  <2>3. /\ DOMAIN q.commands = 1..Len(g.commands) + 1 /\ DOMAIN g.commands = 1..Len(g.commands)
        /\ Len(g.commands) \in Nat /\ q.commands[Len(g.commands) + 1] = c
        /\ \A i \in 1..Len(g.commands) : q.commands[i] = g.commands[i]
    BY <1>4, <2>1, AppendProperties, LenProperties
  <2>4. ASSUME NEW i \in DOMAIN q.commands
        PROVE  (\E j \in DOMAIN r.commands : q.commands[i] = r.commands[j])
               \/ ToldBy(q.commands[i], m)
    <3>1. CASE i = Len(g.commands) + 1  BY <2>2, <2>3, <3>1
    <3>2. CASE i # Len(g.commands) + 1
      <4>1. i \in 1..Len(g.commands)  BY <2>3, <3>2
      <4>2. i \in DOMAIN g.commands /\ q.commands[i] = g.commands[i]  BY <2>3, <4>1
      <4> QED BY <1>6, <4>2
    <3> QED BY <3>1, <3>2
  <2> QED BY <1>3, <2>1, <2>4 DEF LineMade
<1>8. CASE f.key.type = "heartbeat"
  <2>1. q = Queue(g, c)  BY <1>2, <1>8 DEF Parse
  <2>2. SameHeader(f.key, m)  BY <1>8 DEF NextOf, Says
  <2> HIDE DEF c
  <2> QED BY <1>7, <2>1, <2>2
<1>9. CASE f.key.type = "compound"
  <2> DEFINE d == [call |-> f.key.from, last |-> f.last, age |-> 0]
             b == [At(g.buffers, o) EXCEPT !.compound = Append(@, d)]
  <2>1. q = BufferCompound(g, f, o)  BY <1>2, <1>9 DEF Parse
  <2>2. q.buffers = Put(g.buffers, o, b) /\ q.band = g.band /\ q.commands = g.commands
    BY <1>4, <1>5, <2>1 DEF BufferCompound, Fields
  <2>3. d \in CallType /\ d.call = m.from
    <3>1. f.key.from = m.from  BY <1>9 DEF NextOf, Says
    <3>2. f.key.from \in Calls /\ f.last \in BOOLEAN  BY <1>0, FrameParts
    <3> QED BY <3>1, <3>2, AgeFacts DEF CallType
  <2> HIDE DEF d
  <2>4. From(b, m, k + 1)
    <3>1. k + 1 \in Int  OBVIOUS
    <3> QED BY <1>3, <1>4, <2>3, <3>1, FromCall
  <2> HIDE DEF b
  <2>5. LineMade(r, q, o) /\ At(q.buffers, o) = b  BY <1>3, <2>2, PutMade
  <2> QED BY <1>6, <2>2, <2>4, <2>5
<1>10. CASE f.key.type = "directed"
  <2> DEFINE d == [from |-> f.key.from, to |-> f.key.to, cmd |-> f.key.cmd, last |-> f.last, age |-> 0]
             b == [At(g.buffers, o) EXCEPT !.cmd = d, !.msgs = << >>]
  <2>0. f.key.from \in {m.from, Partial} /\ f.key.to = m.to /\ f.key.cmd = m.cmd
    BY <1>10 DEF NextOf, Says
  <2>1. CASE q = BufferCommand(g, f, o)
    <3>2. q.buffers = Put(g.buffers, o, b) /\ q.band = g.band /\ q.commands = g.commands
      BY <1>4, <1>5, <2>1 DEF BufferCommand, Fields
    <3>3. d \in CmdType /\ d.cmd = m.cmd /\ d.to = m.to /\ d.from \in {m.from, Partial}
      <4>1. f.key.from \in Calls /\ f.key.to \in Calls /\ f.key.cmd \in Cmds /\ f.last \in BOOLEAN
        BY <1>0, FrameParts
      <4> QED BY <2>0, <4>1, AgeFacts DEF CmdType
    <3> HIDE DEF d
    <3>4. From(b, m, k + 1)
      <4>1. k + 1 \in Int  OBVIOUS
      <4> QED BY <1>3, <1>4, <3>3, <4>1, FromCommand
    <3> HIDE DEF b
    <3>5. LineMade(r, q, o) /\ At(q.buffers, o) = b  BY <1>3, <3>2, PutMade
    <3> QED BY <1>6, <3>2, <3>4, <3>5
  <2>2. CASE q = Queue(g, c) /\ Partial \notin {f.key.from, f.key.to}
    <3>1. SameHeader(f.key, m)  BY <2>0, <2>2 DEF SameHeader
    <3> HIDE DEF c
    <3> QED BY <1>7, <2>2, <3>1
  <2>3. q = BufferCommand(g, f, o) \/ (q = Queue(g, c) /\ Partial \notin {f.key.from, f.key.to})
    BY <1>2, <1>10 DEF Parse
  <2> QED BY <2>1, <2>2, <2>3
<1>11. CASE f.key.type = "data"
  <2>1. q = g  BY <1>2, <1>11 DEF Parse
  <2> QED BY <1>3, <1>6, <2>1
<1> QED BY <1>0, <1>8, <1>9, <1>10, <1>11
-----------------------------------------------------------------------------
(* Every command is told by a message.                                     *)

\* How many of the texts of message n can have been decoded.
Reach(n) ==
  IF n < Len(sent) \/ onAir = << >> THEN Len(sent[n].text)
  ELSE Len(sent[n].text) - Len(onAir) + (IF Handled THEN 1 ELSE 0)

\* The first frame of a message is on the air and has not been decoded.
AtHead == onAir # << >> /\ Head(onAir).first /\ lines = 0

Timing ==
  /\ second % Period < DecodeAt => lines = 0 /\ ~decoded
  /\ ~headless /\ decoded => ~AtHead

\* What is on the air is the end of the last message.
OnAirOK ==
  /\ \A i, j \in DOMAIN sent : sent[i] = sent[j] => i = j
  /\ onAir # << >> =>
       /\ Len(onAir) <= Len(BuildMessageFrames(Last(sent)))
       /\ \A i \in DOMAIN onAir : LET F == BuildMessageFrames(Last(sent))
                                  IN  onAir[i] = F[Len(F) - Len(onAir) + i]

\* Whose the frames in the cache are, the buffers, those near the message on the
\* air once its first frame has been decoded, and the commands.
BandOK == Sparse(DOMAIN rx.band) /\ DOMAIN rx.buffers \subseteq DOMAIN rx.band
CacheOwned == \A c \in rx.cache : \E n \in DOMAIN sent :
  c.key \in KeysOf(sent[n]) /\ (AtHead => n < Len(sent))
BuffersOwned == \A o \in DOMAIN rx.band : \E n \in DOMAIN sent :
  From(At(rx.buffers, o), sent[n], Reach(n))
PlaceOwned == onAir # << >> /\ ~AtHead => \A o \in DOMAIN rx.band :
  (\E p \in place : Close(o, p)) => From(At(rx.buffers, o), Last(sent), Reach(Len(sent)))
WaitingOwned == \A i \in DOMAIN rx.commands : Fit(rx.commands[i]) =>
  \E n \in DOMAIN sent : ToldBy(rx.commands[i], sent[n])
ProcessedOwned == \A i \in DOMAIN processed : \E n \in DOMAIN sent :
  ToldBy(processed[i], sent[n])

Owned == /\ BandOK /\ CacheOwned /\ BuffersOwned /\ PlaceOwned
         /\ WaitingOwned /\ ProcessedOwned
FromInv == Timing /\ OnAirOK /\ (~headless => Owned)

\* No more texts can have been decoded than the message has.
LEMMA ReachInt ==
  ASSUME IInv, NEW n \in DOMAIN sent
  PROVE  /\ sent[n] \in Messages /\ Len(sent[n].text) \in Nat
         /\ Reach(n) \in Int /\ Reach(n) <= Len(sent[n].text)
<1>1. sent \in Seq(Messages) /\ onAir \in Seq(Frames)  BY DEF IInv, HistoryOK
<1>2. sent[n] \in Messages  BY <1>1, ElementOfSeq, LenProperties
<1>3. Len(sent[n].text) \in Nat
  <2>1. sent[n].text \in Seq(STRING)  BY <1>2, RxAssumption
  <2> QED BY <2>1, LenProperties
<1>4. Len(onAir) \in Nat /\ (onAir # << >> => Len(onAir) >= 1)
  BY <1>1, EmptySeq, LenProperties
<1> DEFINE t == Len(sent[n].text)
           a == Len(onAir)
           h == IF Handled THEN 1 ELSE 0
<1>5. Reach(n) = t \/ (onAir # << >> /\ Reach(n) = t - a + h)
  <2>1. CASE n < Len(sent) \/ onAir = << >>  BY <2>1, Zenon DEF Reach
  <2>2. CASE ~(n < Len(sent) \/ onAir = << >>)
    <3>1. Reach(n) = t - a + h  BY <2>2, Zenon DEF Reach
    <3> QED BY <2>2, <3>1
  <2> QED BY <2>1, <2>2
<1>6. h \in {0, 1}  OBVIOUS
<1>7. t \in Nat /\ a \in Nat /\ (onAir # << >> => a >= 1)  BY <1>3, <1>4
<1> HIDE DEF t, a, h
<1>8. Reach(n) \in Int /\ Reach(n) <= t  BY <1>5, <1>6, <1>7
<1> QED BY <1>2, <1>3, <1>8 DEF t

\* The frame on the air.
LEMMA OnAirFacts ==
  ASSUME IInv, OnAirOK, onAir # << >>
  PROVE  /\ Len(sent) \in DOMAIN sent /\ Last(sent) = sent[Len(sent)] /\ Last(sent) \in Messages
         /\ \A n \in DOMAIN sent : n \in Nat /\ n <= Len(sent)
         /\ Len(onAir) \in Nat /\ Len(onAir) >= 1
         /\ Head(onAir) \in Frames /\ Head(onAir).key \in KeysOf(Last(sent))
         /\ Says(Head(onAir).key, Last(sent))
         /\ Head(onAir).first =>
              BuildMessageFrames(Last(sent)) # << >>
              /\ Head(onAir).key = BuildMessageFrames(Last(sent))[1].key
         /\ Len(onAir) >= 2 => ~Head(Tail(onAir)).first
         /\ Head(onAir).key.type = "data" =>
              LET l == Len(Last(sent).text) - Len(onAir) + 1
              IN  l \in 1..Len(Last(sent).text) /\ Head(onAir).key.text = Last(sent).text[l]
<1> DEFINE m == Last(sent)
           F == BuildMessageFrames(m)
           x == Len(F) - Len(onAir) + 1
<1>1. sent \in Seq(Messages) /\ onAir \in Seq(Frames) /\ sent # << >>  BY DEF IInv, HistoryOK
<1>2. /\ DOMAIN sent = 1..Len(sent) /\ Len(sent) \in Nat /\ Len(sent) >= 1
      /\ m = sent[Len(sent)] /\ m \in Messages
  BY <1>1, EmptySeq, LenProperties, ElementOfSeq DEF Last
<1>3. /\ Len(onAir) \in Nat /\ Len(onAir) >= 1 /\ DOMAIN onAir = 1..Len(onAir)
      /\ Head(onAir) = onAir[1] /\ Head(onAir) \in Frames
  BY <1>1, EmptySeq, LenProperties, HeadTailProperties
<1>4. F \in Seq(Frames) /\ Len(F) \in Nat /\ DOMAIN F = 1..Len(F)  BY <1>2, FramesAre, LenProperties
<1>5. Len(onAir) <= Len(F) /\ \A i \in DOMAIN onAir : onAir[i] = F[Len(F) - Len(onAir) + i]
  BY DEF OnAirOK
<1>6. x \in DOMAIN F /\ Head(onAir) = F[x] /\ F # << >>
  <2>1. x \in 1..Len(F) /\ 1 \in DOMAIN onAir  BY <1>3, <1>4, <1>5
  <2>2. onAir[1] = F[x]  BY <1>5, <2>1
  <2> HIDE DEF F
  <2> QED BY <1>3, <1>4, <2>1, <2>2, EmptySeq
<1> HIDE DEF m
<1>7. \A i \in DOMAIN F : /\ F[i].first = (i = 1) /\ Says(F[i].key, m)
                          /\ F[i].key.type = "data" =>
                               /\ i - (Len(F) - Len(m.text)) \in 1..Len(m.text)
                               /\ F[i].key.text = m.text[i - (Len(F) - Len(m.text))]
  BY <1>2, FrameOf
<1>8. Head(onAir).key \in KeysOf(m)  BY <1>6 DEF KeysOf
<1>9. Len(m.text) \in Nat
  <2>1. m.text \in Seq(STRING)  BY <1>2, RxAssumption
  <2> QED BY <2>1, LenProperties
<1> HIDE DEF F
<1>10. x - (Len(F) - Len(m.text)) = Len(m.text) - Len(onAir) + 1
  <2>1. Len(F) \in Nat /\ Len(onAir) \in Nat /\ Len(m.text) \in Nat  BY <1>3, <1>4, <1>9
  <2>2. PICK a \in Nat, b \in Nat, c \in Nat : a = Len(F) /\ b = Len(onAir) /\ c = Len(m.text)
    BY <2>1
  <2>3. ((a - b) + 1) - (a - c) = (c - b) + 1  OBVIOUS
  <2>4. x - (Len(F) - Len(m.text)) = ((a - b) + 1) - (a - c)  BY <2>2, Zenon
  <2>5. (c - b) + 1 = Len(m.text) - Len(onAir) + 1  BY <2>2, Zenon
  <2> QED BY <2>3, <2>4, <2>5, Zenon
<1>11. Len(onAir) >= 2 => ~Head(Tail(onAir)).first
  <2> HAVE Len(onAir) >= 2
  <2>1. Head(Tail(onAir)) = onAir[2]
    <3>1. /\ Tail(onAir) \in Seq(Frames) /\ Len(Tail(onAir)) = Len(onAir) - 1
          /\ \A i \in 1..Len(Tail(onAir)) : Tail(onAir)[i] = onAir[i + 1]
      BY <1>1, HeadTailProperties
    <3>2. 1 \in 1..Len(Tail(onAir)) /\ onAir[1 + 1] = onAir[2]  BY <1>3, <3>1
    <3>3. Head(Tail(onAir)) = Tail(onAir)[1]  OBVIOUS
    <3> QED BY <3>1, <3>2, <3>3
  <2>2. 2 \in DOMAIN onAir /\ x + 1 \in DOMAIN F /\ x + 1 # 1  BY <1>3, <1>4, <1>5
  <2>3. Len(F) - Len(onAir) + 2 = x + 1  BY <1>3, <1>4
  <2>4. onAir[2] = F[x + 1]  BY <1>5, <2>2, <2>3
  <2> HIDE DEF x
  <2>5. F[x + 1].first = (x + 1 = 1)  BY <1>7, <2>2
  <2> QED BY <2>1, <2>2, <2>4, <2>5, Zenon
<1>12. Head(onAir).first => F # << >> /\ Head(onAir).key = F[1].key
  <2> HIDE DEF x
  <2> QED BY <1>6, <1>7
<1>13. Says(Head(onAir).key, m) /\ (Head(onAir).key.type = "data" =>
         /\ Len(m.text) - Len(onAir) + 1 \in 1..Len(m.text)
         /\ Head(onAir).key.text = m.text[Len(m.text) - Len(onAir) + 1])
  <2> HIDE DEF x
  <2> QED BY <1>6, <1>7, <1>10
<1> QED BY <1>2, <1>3, <1>8, <1>11, <1>12, <1>13 DEF m, F
\* Nothing changes hands when the receiver makes r of its members, or cleans the
\* cache, and takes up commands.
LEMMA OwnedKept ==
  ASSUME IInv, Owned, sent' = sent, place' = place,
         \A n \in DOMAIN sent : Reach(n)' \in Int /\ Reach(n) <= Reach(n)',
         AtHead' => AtHead,
         onAir' # << >> /\ ~AtHead' => onAir # << >> /\ ~AtHead,
         NEW r, Derived(rx, r), rx'.buffers = r.buffers, rx'.band = r.band,
         \A c \in rx'.cache : \E d \in rx.cache : c.key = d.key,
         \A i \in DOMAIN rx'.commands : \E j \in DOMAIN r.commands : rx'.commands[i] = r.commands[j],
         \A i \in DOMAIN processed' :
           \/ \E j \in DOMAIN processed : processed'[i] = processed[j]
           \/ Fit(processed'[i]) /\ \E j \in DOMAIN r.commands : processed'[i] = r.commands[j]
  PROVE  Owned'
<1>1. BandOK'  BY DEF Owned, BandOK, Derived
<1>2. CacheOwned'
  <2> SUFFICES ASSUME NEW c \in rx'.cache
               PROVE  \E n \in DOMAIN sent : c.key \in KeysOf(sent[n]) /\ (AtHead' => n < Len(sent))
    BY DEF CacheOwned
  <2>1. PICK d \in rx.cache : c.key = d.key  OBVIOUS
  <2>2. PICK n \in DOMAIN sent : d.key \in KeysOf(sent[n]) /\ (AtHead => n < Len(sent))
    BY DEF Owned, CacheOwned
  <2> QED BY <2>1, <2>2
<1>3. ASSUME NEW o \in DOMAIN rx.band, NEW n \in DOMAIN sent, From(At(rx.buffers, o), sent[n], Reach(n))
      PROVE  From(At(r.buffers, o), sent[n], Reach(n)')
  <2>1. sent[n] \in Messages /\ Reach(n) \in Int  BY ReachInt
  <2>2. From(At(r.buffers, o), sent[n], Reach(n))  BY <1>3, <2>1 DEF Derived, Leads
  <2> QED BY <2>1, <2>2, FromMore
<1>4. BuffersOwned'
  <2> SUFFICES ASSUME NEW o \in DOMAIN rx'.band
               PROVE  \E n \in DOMAIN sent : From(At(rx'.buffers, o), sent[n], Reach(n)')
    BY DEF BuffersOwned
  <2>1. o \in DOMAIN rx.band  BY DEF Derived
  <2>2. PICK n \in DOMAIN sent : From(At(rx.buffers, o), sent[n], Reach(n))
    BY <2>1 DEF Owned, BuffersOwned
  <2> QED BY <1>3, <2>1, <2>2
<1>5. PlaceOwned'
  <2> SUFFICES ASSUME onAir' # << >>, ~AtHead', NEW o \in DOMAIN rx'.band,
                      \E p \in place : Close(o, p)
               PROVE  From(At(rx'.buffers, o), Last(sent), Reach(Len(sent))')
    BY DEF PlaceOwned
  <2>1. o \in DOMAIN rx.band  BY DEF Derived
  <2>2. From(At(rx.buffers, o), Last(sent), Reach(Len(sent)))
    BY <2>1 DEF Owned, PlaceOwned
  <2>3. Len(sent) \in DOMAIN sent /\ Last(sent) = sent[Len(sent)]
    <3>1. sent \in Seq(Messages) /\ sent # << >>  BY DEF IInv, HistoryOK
    <3> QED BY <3>1, EmptySeq, LenProperties DEF Last
  <2> QED BY <1>3, <2>1, <2>2, <2>3
<1>6. ASSUME NEW j \in DOMAIN r.commands, Fit(r.commands[j])
      PROVE  \E n \in DOMAIN sent : ToldBy(r.commands[j], sent[n])
  <2>1. CASE \E i \in DOMAIN rx.commands : r.commands[j] = rx.commands[i]
    BY <1>6, <2>1 DEF Owned, WaitingOwned
  <2>2. CASE \E o \in DOMAIN rx.band : Tells(At(rx.buffers, o), r.commands[j])
    <3>1. PICK o \in DOMAIN rx.band : Tells(At(rx.buffers, o), r.commands[j])  BY <2>2
    <3>2. PICK n \in DOMAIN sent : From(At(rx.buffers, o), sent[n], Reach(n))
      BY DEF Owned, BuffersOwned
    <3>3. sent[n] \in Messages /\ Reach(n) \in Int  BY ReachInt
    <3> QED BY <1>6, <3>1, <3>2, <3>3 DEF Tells
  <2> QED BY <2>1, <2>2 DEF Derived
<1>7. WaitingOwned'  BY <1>6 DEF WaitingOwned
<1>8. ProcessedOwned'
  <2> SUFFICES ASSUME NEW i \in DOMAIN processed'
               PROVE  \E n \in DOMAIN sent : ToldBy(processed'[i], sent[n])
    BY DEF ProcessedOwned
  <2>1. CASE \E j \in DOMAIN processed : processed'[i] = processed[j]
    BY <2>1 DEF Owned, ProcessedOwned
  <2>2. CASE Fit(processed'[i]) /\ \E j \in DOMAIN r.commands : processed'[i] = r.commands[j]
    BY <1>6, <2>2
  <2> QED BY <2>1, <2>2
<1> QED BY <1>1, <1>2, <1>4, <1>5, <1>7, <1>8 DEF Owned

\* What is taken up of the commands is fit, and was among them.
LEMMA TakenFit ==
  ASSUME NEW commands \in Seq(CommandType), NEW i \in DOMAIN Taken(commands)
  PROVE  Fit(Taken(commands)[i]) /\ \E j \in DOMAIN commands : Taken(commands)[i] = commands[j]
<1> DEFINE S == {j \in DOMAIN commands : Fit(commands[j])}
           q == Ascending(S)
<1>1. Taken(commands) = [j \in DOMAIN q |-> commands[q[j]]]  BY DEF Taken, Selected, Fit
<1>2. DOMAIN commands = 1..Len(commands) /\ Len(commands) \in Nat  BY LenProperties
<1>3. S \in SUBSET Nat /\ IsFiniteSet(S)
  <2>1. IsFiniteSet(1..Len(commands)) /\ 1..Len(commands) \subseteq Nat  BY <1>2, FS_Interval
  <2> QED BY <1>2, <2>1, FS_Subset
<1>4. q \in [1..Cardinality(S) -> S]  BY <1>3, AscendingIs
<1> HIDE DEF q
<1>5. i \in DOMAIN q /\ q[i] \in S /\ Taken(commands)[i] = commands[q[i]]  BY <1>1, <1>4
<1> QED BY <1>5

\* A member left or cleaned was made of itself.
LEMMA SameDerived ==
  ASSUME NEW r, DOMAIN r.buffers \subseteq DOMAIN r.band
  PROVE  Derived(r, r)
  BY LeadsOn DEF Derived

\* Nothing is there at the start.
LEMMA InitFrom == Init => FromInv
<1> SUFFICES ASSUME Init PROVE FromInv
  OBVIOUS
<1>1. /\ lines = 0 /\ decoded = FALSE /\ onAir = << >> /\ sent = << >> /\ processed = << >>
      /\ rx.band = << >> /\ rx.buffers = << >> /\ rx.cache = {} /\ rx.commands = << >>
  BY DEF Init
<1>2. Timing /\ OnAirOK  BY <1>1 DEF Timing, OnAirOK
<1>3. Owned
  BY <1>1 DEF Owned, BandOK, Sparse, CacheOwned, BuffersOwned, PlaceOwned, WaitingOwned, ProcessedOwned
<1> QED BY <1>2, <1>3 DEF FromInv

\* A message begins: its first frame is to come, and nothing is of it.
LEMMA SendFrom ==
  ASSUME NEW m \in Messages, IInv, FromInv, Send(m)
  PROVE  FromInv'
<1> DEFINE F == BuildMessageFrames(m)
<1>1. /\ onAir' = F /\ sent' = Append(sent, m) /\ m \notin ToSet(sent) /\ second % Period = 0
      /\ UNCHANGED <<second, lines, decoded, rx, headless, processed>>
  BY DEF Send
<1>2. sent \in Seq(Messages) /\ DOMAIN sent = 1..Len(sent) /\ Len(sent) \in Nat
  BY LenProperties DEF IInv, HistoryOK
<1>3. /\ sent' \in Seq(Messages) /\ Len(sent') = Len(sent) + 1
      /\ DOMAIN sent' = 1..Len(sent) + 1 /\ sent'[Len(sent) + 1] = m /\ Last(sent') = m
      /\ \A i \in DOMAIN sent : sent'[i] = sent[i]
  BY <1>1, <1>2, AppendProperties, LenProperties DEF Last
<1>4. lines = 0 /\ ~decoded
  <2>1. 0 < DecodeAt  BY Numbers DEF DecodeAt
  <2> QED BY <1>1, <2>1 DEF FromInv, Timing
<1>5. Timing'  BY <1>1, <1>4 DEF Timing
<1>6. F \in Seq(Frames) /\ DOMAIN F = 1..Len(F) /\ Len(F) \in Nat  BY FramesAre, LenProperties
<1>7. OnAirOK'
  <2>1. \A i \in DOMAIN sent : sent[i] # m  BY <1>1 DEF ToSet
  <2>2. \A i, j \in DOMAIN sent' : sent'[i] = sent'[j] => i = j
    <3> TAKE i, j \in DOMAIN sent'
    <3> HAVE sent'[i] = sent'[j]
    <3>1. (i \in DOMAIN sent \/ i = Len(sent) + 1) /\ (j \in DOMAIN sent \/ j = Len(sent) + 1)
      BY <1>2, <1>3
    <3> QED BY <1>3, <2>1, <3>1 DEF FromInv, OnAirOK
  <2> HIDE DEF F
  <2>3. Len(F) <= Len(F) /\ \A i \in DOMAIN F : F[i] = F[Len(F) - Len(F) + i]
    <3>1. \A i \in 1..Len(F) : Len(F) - Len(F) + i = i  BY <1>6
    <3> QED BY <1>6, <3>1
  <2> QED BY <1>1, <1>3, <2>2, <2>3 DEF OnAirOK, F
<1>8. AtHead' \/ onAir' = << >>
  <2>1. CASE F # << >>
    <3> HIDE DEF F
    <3>1. 1 \in DOMAIN F /\ Head(F) = F[1]  BY <1>6, <2>1, EmptySeq
    <3>2. F[1].first  BY <3>1, FrameOf DEF F
    <3> QED BY <1>1, <1>4, <2>1, <3>1, <3>2 DEF AtHead, F
  <2> QED BY <1>1, <2>1
<1>9. ASSUME Owned PROVE Owned'
  <2>1. BandOK'  BY <1>1, <1>9 DEF Owned, BandOK
  <2>2. \A n \in DOMAIN sent : n \in DOMAIN sent' /\ n < Len(sent') /\ sent'[n] = sent[n]
    BY <1>2, <1>3
  <2>3. CacheOwned'
    <3> SUFFICES ASSUME NEW c \in rx'.cache
                 PROVE  \E n \in DOMAIN sent' : c.key \in KeysOf(sent'[n]) /\ (AtHead' => n < Len(sent'))
      BY DEF CacheOwned
    <3>1. PICK n \in DOMAIN sent : c.key \in KeysOf(sent[n])
      BY <1>1, <1>9 DEF Owned, CacheOwned
    <3> QED BY <2>2, <3>1
  <2>4. BuffersOwned'
    <3> SUFFICES ASSUME NEW o \in DOMAIN rx'.band
                 PROVE  \E n \in DOMAIN sent' : From(At(rx'.buffers, o), sent'[n], Reach(n)')
      BY DEF BuffersOwned
    <3>1. PICK n \in DOMAIN sent : From(At(rx.buffers, o), sent[n], Reach(n))
      BY <1>1, <1>9 DEF Owned, BuffersOwned
    <3>2. Reach(n) \in Int /\ Reach(n) <= Len(sent[n].text) /\ Len(sent[n].text) \in Nat  BY ReachInt
    <3>3. Reach(n)' = Len(sent[n].text)  BY <2>2 DEF Reach
    <3>4. From(At(rx.buffers, o), sent[n], Len(sent[n].text))  BY <3>1, <3>2, FromMore
    <3> QED BY <1>1, <2>2, <3>3, <3>4
  <2>5. PlaceOwned'  BY <1>8 DEF PlaceOwned
  <2>6. WaitingOwned'
    <3> SUFFICES ASSUME NEW i \in DOMAIN rx.commands, Fit(rx.commands[i])
                 PROVE  \E n \in DOMAIN sent' : ToldBy(rx.commands[i], sent'[n])
      BY <1>1 DEF WaitingOwned
    <3>1. PICK n \in DOMAIN sent : ToldBy(rx.commands[i], sent[n])
      BY <1>9 DEF Owned, WaitingOwned
    <3> QED BY <2>2, <3>1
  <2>7. ProcessedOwned'
    <3> SUFFICES ASSUME NEW i \in DOMAIN processed
                 PROVE  \E n \in DOMAIN sent' : ToldBy(processed[i], sent'[n])
      BY <1>1 DEF ProcessedOwned
    <3>1. PICK n \in DOMAIN sent : ToldBy(processed[i], sent[n])
      BY <1>9 DEF Owned, ProcessedOwned
    <3> QED BY <2>2, <3>1
  <2> QED BY <2>1, <2>3, <2>4, <2>5, <2>6, <2>7 DEF Owned
<1> QED BY <1>1, <1>5, <1>7, <1>9 DEF FromInv
\* A line puts the frame where it belongs.
LEMMA LineOwned ==
  ASSUME PlacesApart, HeadsDiffer, NEW o \in Offsets, IInv, OnAirOK, Owned, Line(o)
  PROVE  Owned'
<1> DEFINE f == Head(onAir)
           m == Last(sent)
           k == Len(m.text) - Len(onAir)
           L == Len(sent)
           n == DropAfter + (second % Period)
<1>1. /\ onAir # << >> /\ o \in place /\ rx' = ProcessDecodedLine(rx, f, o) /\ lines' = lines + 1
      /\ UNCHANGED <<second, place, onAir, sent, processed>>
  BY DEF Line
<1>2. /\ L \in DOMAIN sent /\ m = sent[L] /\ m \in Messages
      /\ \A i \in DOMAIN sent : i \in Nat /\ i <= L
      /\ Len(onAir) \in Nat /\ f \in Frames /\ f.key \in KeysOf(m) /\ Says(f.key, m)
      /\ f.first => BuildMessageFrames(m) # << >> /\ f.key = BuildMessageFrames(m)[1].key
      /\ f.key.type = "data" => k + 1 \in 1..Len(m.text) /\ f.key.text = m.text[k + 1]
  BY <1>1, OnAirFacts
<1>3. ~AtHead'
  <2>1. lines \in Nat  BY Numbers DEF IInv
  <2>2. lines' # 0  BY <1>1, <2>1
  <2> QED BY <2>2 DEF AtHead
<1>4. CASE IsDuplicate(rx.cache, f, o)
  <2>1. rx' = rx  BY <1>1, <1>4 DEF ProcessDecodedLine
  <2>2. ~AtHead
    <3> SUFFICES ASSUME AtHead PROVE FALSE
      OBVIOUS
    <3>1. PICK c \in rx.cache : c.key = f.key  BY <1>4 DEF IsDuplicate
    <3>2. PICK i \in DOMAIN sent : c.key \in KeysOf(sent[i]) /\ i < L  BY DEF Owned, CacheOwned
    <3>3. sent[i] \in Messages /\ sent[i] # m
      <4>1. sent[i] \in Messages  BY ReachInt
      <4>2. i # L  BY <1>2, <3>2
      <4> QED BY <1>2, <4>1, <4>2 DEF OnAirOK
    <3>4. f.first  BY DEF AtHead
    <3> HIDE DEF f, m
    <3> QED BY <1>2, <3>1, <3>2, <3>3, <3>4 DEF HeadsDiffer
  <2>3. \A i \in DOMAIN sent : Reach(i)' = Reach(i) /\ Reach(i) \in Int
    <3>1. Handled' = Handled  BY <1>1, <2>1 DEF Handled
    <3> QED BY <1>1, <3>1, ReachInt DEF Reach
  <2>4. Derived(rx, rx)  BY SameDerived DEF Owned, BandOK
  <2> QED BY <1>1, <1>3, <2>1, <2>2, <2>3, <2>4, OwnedKept
<1>5. CASE ~IsDuplicate(rx.cache, f, o)
  <2>1. ~Handled /\ Handled'  BY <1>5, LineHandled
  <2>2. Len(m.text) \in Nat /\ k \in Int  BY <1>2, ReachInt
  <2>3. Reach(L) = k /\ Reach(L)' = k + 1
    <3>1. /\ Reach(L) = k + (IF Handled THEN 1 ELSE 0)
          /\ Reach(L)' = k + (IF Handled' THEN 1 ELSE 0)
      <4>1. ~(L < L)  BY <1>2
      <4> QED BY <1>1, <1>2, <4>1, Zenon DEF Reach
    <3>2. Reach(L) = k + 0 /\ Reach(L)' = k + 1  BY <2>1, <3>1, Zenon
    <3> HIDE DEF k
    <3> QED BY <2>2, <3>2
  <2>4. \A i \in DOMAIN sent : Reach(i) \in Int /\ Reach(i)' \in Int /\ Reach(i) <= Reach(i)'
    <3> TAKE i \in DOMAIN sent
    <3>1. Reach(i) \in Int /\ i \in Nat /\ L \in Nat /\ i <= L  BY <1>2, ReachInt
    <3>2. CASE i = L
      <4>1. sent' = sent  BY <1>1
      <4>2. Reach(i) = k /\ Reach(i)' = k + 1  BY <2>3, <3>2, <4>1
      <4> HIDE DEF k
      <4> QED BY <2>2, <4>2
    <3>3. CASE i < L
      <4>1. Reach(i)' = Reach(i)  BY <1>1, <3>3 DEF Reach
      <4> QED BY <3>1, <4>1
    <3> QED BY <3>1, <3>2, <3>3
  <2>5. n \in Nat /\ RxWith(rx, YoungBuffer(n))  BY Numbers, InPeriod DEF IInv
  <2>6. place \subseteq Offsets /\ place \in Places
    <3>1. place \in Places  BY <1>1 DEF IInv
    <3> QED BY <3>1, OffsetFacts
  <2>7. \A p \in DOMAIN rx.band : p \in Offsets  BY DEF Owned, BandOK, Sparse
  <2>8. NextOf(rx, f, o, m, k)
    <3>1. ~f.first => \A p \in DOMAIN rx.band : Close(p, o) => From(At(rx.buffers, p), m, k)
      <4> SUFFICES ASSUME ~f.first, NEW p \in DOMAIN rx.band, Close(p, o)
                   PROVE  From(At(rx.buffers, p), m, k)
        OBVIOUS
      <4>1. ~AtHead  BY DEF AtHead
      <4>2. From(At(rx.buffers, p), m, Reach(L))  BY <1>1, <4>1 DEF Owned, PlaceOwned
      <4> QED BY <2>3, <4>2
    <3> HIDE DEF f, m, k
    <3> QED BY <1>2, <3>1 DEF NextOf
  <2> HIDE DEF f, m, k, n, L
  <2>9. /\ LineMade(rx, rx', o) /\ From(At(rx'.buffers, o), m, k + 1)
        /\ \A i \in DOMAIN rx'.commands :
             (\E j \in DOMAIN rx.commands : rx'.commands[i] = rx.commands[j])
             \/ ToldBy(rx'.commands[i], m)
    BY <1>1, <1>2, <1>5, <2>2, <2>5, <2>8, LineFrom DEF Owned, BandOK
  <2>10. /\ DOMAIN rx'.band = {p \in DOMAIN rx.band : ~Close(p, o)} \cup {o}
         /\ DOMAIN rx'.buffers \subseteq DOMAIN rx'.band
         /\ \A p \in DOMAIN rx.band : ~Close(p, o) => At(rx'.buffers, p) = At(rx.buffers, p)
    BY <2>9 DEF LineMade
  <2>11. BandOK'
    <3>1. DOMAIN rx'.band \subseteq Offsets  BY <2>7, <2>10
    <3>2. \A p, q \in DOMAIN rx'.band : Close(p, q) => p = q
      <4> TAKE p, q \in DOMAIN rx'.band
      <4> HAVE Close(p, q)
      <4>1. Close(q, p)  BY <3>1, CloseFacts
      <4>2. (p \in DOMAIN rx.band /\ q \in DOMAIN rx.band) \/ p = q  BY <2>10, <4>1
      <4> QED BY <4>2 DEF Owned, BandOK, Sparse
    <3> QED BY <2>10, <3>1, <3>2 DEF BandOK, Sparse
  <2>12. CacheOwned'
    <3>1. rx'.cache = CacheFrame(rx.cache, f, o)
      BY <1>1, <1>2, <1>5, <2>5, ProcessDecodedLineTotal
    <3> SUFFICES ASSUME NEW c \in rx'.cache
                 PROVE  \E i \in DOMAIN sent : c.key \in KeysOf(sent[i])
      BY <1>1, <1>3 DEF CacheOwned
    <3>2. CASE c \in rx.cache  BY <3>2 DEF Owned, CacheOwned
    <3>3. CASE c.key = f.key  BY <1>2, <3>3
    <3> QED BY <3>1, <3>2, <3>3 DEF CacheFrame
  <2>13. BuffersOwned'
    <3> SUFFICES ASSUME NEW p \in DOMAIN rx'.band
                 PROVE  \E i \in DOMAIN sent : From(At(rx'.buffers, p), sent[i], Reach(i)')
      BY <1>1 DEF BuffersOwned
    <3>1. CASE p = o
      <4>1. sent' = sent  BY <1>1
      <4>2. PICK i \in DOMAIN sent : i = L /\ m = sent[i]  BY <1>2
      <4>3. Reach(i)' = k + 1  BY <2>3, <4>1, <4>2 DEF L
      <4> QED BY <2>9, <3>1, <4>2, <4>3
    <3>2. CASE p \in DOMAIN rx.band /\ ~Close(p, o)
      <4>1. PICK i \in DOMAIN sent : From(At(rx.buffers, p), sent[i], Reach(i))
        BY <3>2 DEF Owned, BuffersOwned
      <4>2. From(At(rx.buffers, p), sent[i], Reach(i)')  BY <2>4, <4>1, FromMore
      <4> QED BY <2>10, <3>2, <4>2
    <3> QED BY <2>10, <3>1, <3>2
  <2>14. PlaceOwned'
    <3> SUFFICES ASSUME NEW p \in DOMAIN rx'.band, NEW x \in place, Close(p, x)
                 PROVE  From(At(rx'.buffers, p), m, k + 1)
      BY <1>1, <2>3 DEF PlaceOwned, m, L
    <3>1. Close(x, o)  BY <1>1, <2>6, OffsetFacts DEF Close
    <3>2. p \in Offsets /\ x \in Offsets  BY <2>6, <2>7, <2>10
    <3>3. Close(p, o)  BY <3>1, <3>2, CloseFacts
    <3>4. p = o  BY <2>10, <3>3
    <3> QED BY <2>9, <3>4
  <2>15. WaitingOwned'
    <3> SUFFICES ASSUME NEW i \in DOMAIN rx'.commands, Fit(rx'.commands[i])
                 PROVE  \E j \in DOMAIN sent : ToldBy(rx'.commands[i], sent[j])
      BY <1>1 DEF WaitingOwned
    <3>1. CASE \E j \in DOMAIN rx.commands : rx'.commands[i] = rx.commands[j]
      BY <3>1 DEF Owned, WaitingOwned
    <3>2. CASE ToldBy(rx'.commands[i], m)  BY <1>2, <3>2
    <3> QED BY <2>9, <3>1, <3>2
  <2>16. ProcessedOwned'  BY <1>1 DEF Owned, ProcessedOwned
  <2> QED BY <2>11, <2>12, <2>13, <2>14, <2>15, <2>16 DEF Owned
<1> QED BY <1>4, <1>5

\* A line of the decoder keeps what is known of the buffers.
LEMMA LineFromInv ==
  ASSUME PlacesApart, HeadsDiffer, NEW o \in Offsets, IInv, FromInv, Line(o)
  PROVE  FromInv'
<1>1. /\ lines' = lines + 1 /\ second % Period >= DecodeAt
      /\ UNCHANGED <<second, onAir, sent, decoded, headless>>
  BY DEF Line
<1>2. Timing'
  <2>1. lines \in Nat  BY Numbers DEF IInv
  <2>2. lines' # 0  BY <1>1, <2>1
  <2>3. second % Period \in Int /\ DecodeAt \in Int
    BY Numbers, InPeriod DEF IInv, DecodeAt
  <2>4. ~(second % Period < DecodeAt)  BY <1>1, <2>3
  <2>5. ~(second' % Period < DecodeAt)  BY <1>1, <2>4
  <2> QED BY <2>2, <2>5 DEF Timing, AtHead
<1>3. OnAirOK'  BY <1>1 DEF FromInv, OnAirOK
<1>4. ~headless' => Owned'  BY <1>1, LineOwned DEF FromInv
<1> QED BY <1>2, <1>3, <1>4 DEF FromInv

\* Cleaning the cache forgets only.
LEMMA CleanFrom ==
  ASSUME IInv, FromInv, DecodeDone \/ OtherDecodeDone
  PROVE  FromInv'
<1>1. /\ rx' = [rx EXCEPT !.cache = {c \in @ : c.age <= Period}]
      /\ UNCHANGED <<second, place, onAir, lines, sent, processed>>
  BY DEF DecodeDone, OtherDecodeDone
<1>2. /\ rx'.buffers = rx.buffers /\ rx'.band = rx.band /\ rx'.commands = rx.commands
      /\ rx'.cache \subseteq rx.cache
  <2>1. DOMAIN rx = Fields  BY DEF IInv, RxWith
  <2> QED BY <1>1, <2>1 DEF Fields
<1>3. AtHead' <=> AtHead  BY <1>1 DEF AtHead
<1>4. ~headless' => ~headless
  BY DEF DecodeDone, OtherDecodeDone
<1>5. Timing'
  <2>1. second' % Period < DecodeAt => lines' = 0 /\ ~decoded'
    <3>1. CASE OtherDecodeDone
      BY <1>1, <3>1 DEF FromInv, Timing, OtherDecodeDone
    <3>2. CASE DecodeDone
      <4>1. second' % Period = Period - 1 /\ DecodeAt = Period - 2 /\ Period \in Nat
        BY <1>1, <3>2, Numbers DEF DecodeDone, DecodeAt
      <4> QED BY <4>1
    <3> QED BY <3>1, <3>2
  <2>2. ~headless' /\ decoded' => ~AtHead'
    <3>1. CASE OtherDecodeDone
      BY <1>3, <3>1 DEF FromInv, Timing, OtherDecodeDone
    <3>2. CASE DecodeDone
      <4>1. headless' = (headless \/ (onAir # << >> /\ lines = 0 /\ Head(onAir).first))
        BY <3>2 DEF DecodeDone
      <4> QED BY <1>3, <4>1 DEF AtHead
    <3> QED BY <3>1, <3>2
  <2> QED BY <2>1, <2>2 DEF Timing
<1>6. OnAirOK'  BY <1>1 DEF FromInv, OnAirOK
<1>7. ASSUME Owned PROVE Owned'
  <2>1. \A n \in DOMAIN sent : Reach(n)' \in Int /\ Reach(n) <= Reach(n)'
    <3> TAKE n \in DOMAIN sent
    <3>1. Reach(n) \in Int  BY ReachInt
    <3>2. CASE Reach(n)' = Reach(n)  BY <3>1, <3>2
    <3>3. CASE Reach(n)' = Reach(n) + 1  BY <3>1, <3>3
    <3>4. Reach(n)' = Reach(n) \/ Reach(n)' = Reach(n) + 1
      <4>1. Handled => Handled'  BY CleanHandled
      <4>2. CASE n < Len(sent) \/ onAir = << >>  BY <1>1, <4>2, Zenon DEF Reach
      <4>3. CASE ~(n < Len(sent) \/ onAir = << >>)
        <5> DEFINE k == Len(sent[n].text) - Len(onAir)
        <5>1. /\ Reach(n) = k + (IF Handled THEN 1 ELSE 0)
              /\ Reach(n)' = k + (IF Handled' THEN 1 ELSE 0)
          BY <1>1, <4>3, Zenon DEF Reach
        <5>2. k \in Int
          <6>1. Len(onAir) \in Nat  BY LenProperties DEF IInv
          <6> QED BY <6>1, ReachInt
        <5> HIDE DEF k
        <5> QED BY <4>1, <5>1, <5>2
      <4> QED BY <4>2, <4>3
    <3> QED BY <3>2, <3>3, <3>4
  <2>2. Derived(rx, rx)  BY <1>7, SameDerived DEF Owned, BandOK
  <2> QED BY <1>1, <1>2, <1>3, <1>7, <2>1, <2>2, OwnedKept
<1> QED BY <1>4, <1>5, <1>6, <1>7 DEF FromInv
\* What the receiver makes of its members in a second.
LEMMA GuiSecondDerived ==
  ASSUME IInv, BandOK, GuiSecond
  PROVE  \E r :
    /\ Derived(rx, r) /\ rx'.buffers = r.buffers /\ rx'.band = r.band
    /\ \A i \in DOMAIN rx'.commands : \E j \in DOMAIN r.commands : rx'.commands[i] = r.commands[j]
    /\ \A i \in DOMAIN processed' :
         \/ \E j \in DOMAIN processed : processed'[i] = processed[j]
         \/ Fit(processed'[i]) /\ \E j \in DOMAIN r.commands : processed'[i] = r.commands[j]
<1> DEFINE r == OlderRx(rx)
           done == ProcessActivity(r)
           n == DropAfter + (second % Period)
<1>1. n \in Nat  BY Numbers, InPeriod DEF IInv
<1>2. RxWith(rx, YoungBuffer(n)) /\ RxWith(r, YoungBuffer(n + 1))
  <2> HIDE DEF n
  <2>1. RxWith(rx, YoungBuffer(n))  BY DEF IInv, n
  <2> QED BY <1>1, <2>1, OlderRxYoung
<1>3. RxWith(rx, BufferType) /\ RxWith(r, BufferType)
  <2>1. n + 1 \in Nat  BY <1>1
  <2> HIDE DEF n, r
  <2> QED BY <1>1, <1>2, <2>1, YoungRx
<1>4. Derived(rx, r)  BY <1>3, OlderDerived DEF BandOK
<1>5. RxWith(done, YoungBuffer(DropAfter)) /\ Derived(r, done)
  <2> HIDE DEF r
  <2>1. DOMAIN r.buffers \subseteq DOMAIN r.band  BY <1>4 DEF Derived
  <2> QED BY <1>3, <2>1, ProcessActivityYoung, ActivityDerived
<1> HIDE DEF n, r
<1>6. CASE rx' = r /\ processed' = processed
  BY <1>4, <1>6
<1>7. CASE rx' = [done EXCEPT !.commands = << >>] /\ processed' = processed \o Taken(done.commands)
  <2> HIDE DEF done
  <2>1. Derived(rx, done)  BY <1>4, <1>5, DerivedTwice
  <2>2. DOMAIN done = Fields /\ done.commands \in Seq(CommandType)  BY <1>5 DEF RxWith
  <2>3. rx'.buffers = done.buffers /\ rx'.commands = << >> /\ rx'.band = done.band
    BY <1>7, <2>2 DEF Fields
  <2> DEFINE taken == Taken(done.commands)
  <2>4. taken \in Seq(CommandType) /\ processed \in Seq(CommandType)
    BY <2>2, TakenType DEF IInv, HistoryOK
  <2>5. \A i \in DOMAIN taken : Fit(taken[i]) /\ \E j \in DOMAIN done.commands : taken[i] = done.commands[j]
    BY <2>2, TakenFit
  <2> HIDE DEF taken
  <2>6. processed' = processed \o taken  BY <1>7 DEF taken
  <2>7. /\ DOMAIN processed = 1..Len(processed) /\ Len(processed) \in Nat
        /\ DOMAIN taken = 1..Len(taken) /\ Len(taken) \in Nat
        /\ DOMAIN processed' = 1..Len(processed) + Len(taken)
        /\ \A i \in 1..Len(processed) + Len(taken) :
             processed'[i] = IF i <= Len(processed) THEN processed[i] ELSE taken[i - Len(processed)]
    BY <2>4, <2>6, ConcatProperties, LenProperties
  <2>8. ASSUME NEW i \in DOMAIN processed'
        PROVE  \/ \E j \in DOMAIN processed : processed'[i] = processed[j]
               \/ Fit(processed'[i]) /\ \E j \in DOMAIN done.commands : processed'[i] = done.commands[j]
    <3>1. CASE i <= Len(processed)
      <4>1. i \in DOMAIN processed /\ processed'[i] = processed[i]  BY <2>7, <3>1
      <4> QED BY <4>1
    <3>2. CASE ~(i <= Len(processed))
      <4>1. i - Len(processed) \in DOMAIN taken /\ processed'[i] = taken[i - Len(processed)]
        BY <2>7, <3>2
      <4> QED BY <2>5, <4>1
    <3> QED BY <3>1, <3>2
  <2> QED BY <2>1, <2>3, <2>8
<1>8. (rx' = r /\ processed' = processed)
      \/ (rx' = [done EXCEPT !.commands = << >>] /\ processed' = processed \o Taken(done.commands))
  BY DEF GuiSecond, r
<1> QED BY <1>6, <1>7, <1>8

\* A second takes a frame off the air at the end of a period only, when it has
\* been decoded or missed.
LEMMA GuiSecondFrom ==
  ASSUME IInv, FromInv, GuiSecond
  PROVE  FromInv'
<1> DEFINE s == (second + 1) % Day
<1>1. /\ second' = s /\ UNCHANGED <<place, sent, headless>> /\ (s % Period = 0 => decoded)
      /\ second \in 0..Day - 1 /\ onAir \in Seq(Frames) /\ sent \in Seq(Messages)
  BY DEF GuiSecond, IInv, HistoryOK
<1>2. /\ second % Period \in Int /\ s % Period \in Int /\ DecodeAt \in Int
      /\ (s % Period # 0 => s % Period = (second % Period) + 1)
  <2>1. s \in 0..Day - 1  BY <1>1, GuiSecondRx
  <2>2. second % Period \in 0..Period - 1 /\ Period \in Nat /\ DecodeAt \in Int
    BY <1>1, InPeriod, Numbers DEF DecodeAt
  <2>3. s % Period # 0 => s % Period = (second % Period) + 1  BY <1>1, NextSecond
  <2> HIDE DEF s
  <2>4. s % Period \in 0..Period - 1  BY <2>1, InPeriod
  <2> QED BY <2>2, <2>3, <2>4
<1> HIDE DEF s
<1>3. s % Period = 0 =>
        /\ lines' = 0 /\ decoded' = FALSE
        /\ onAir' = IF onAir = << >> THEN onAir ELSE Tail(onAir)
  BY DEF GuiSecond, s
<1>4. s % Period # 0 => UNCHANGED <<lines, decoded, onAir>>
  BY DEF GuiSecond, s
<1>5. /\ Len(onAir) \in Nat /\ DOMAIN onAir = 1..Len(onAir)
      /\ onAir # << >> => /\ Len(Tail(onAir)) = Len(onAir) - 1 /\ Len(onAir) >= 1
                          /\ DOMAIN Tail(onAir) = 1..Len(onAir) - 1
                          /\ \A i \in 1..Len(onAir) - 1 : Tail(onAir)[i] = onAir[i + 1]
                          /\ Tail(onAir) # << >> => Len(onAir) >= 2
  <2>1. Len(onAir) \in Nat /\ DOMAIN onAir = 1..Len(onAir)  BY <1>1, LenProperties
  <2>2. ASSUME onAir # << >>
        PROVE  /\ Len(Tail(onAir)) = Len(onAir) - 1 /\ Len(onAir) >= 1
               /\ DOMAIN Tail(onAir) = 1..Len(onAir) - 1
               /\ \A i \in 1..Len(onAir) - 1 : Tail(onAir)[i] = onAir[i + 1]
               /\ Tail(onAir) # << >> => Len(onAir) >= 2
    <3>1. /\ Tail(onAir) \in Seq(Frames) /\ Len(Tail(onAir)) = Len(onAir) - 1
          /\ \A i \in 1..Len(Tail(onAir)) : Tail(onAir)[i] = onAir[i + 1]
      BY <1>1, <2>2, HeadTailProperties
    <3>2. DOMAIN Tail(onAir) = 1..Len(Tail(onAir))  BY <3>1, LenProperties
    <3>3. Len(onAir) >= 1  BY <1>1, <2>2, EmptySeq
    <3>4. Tail(onAir) # << >> => Len(Tail(onAir)) >= 1  BY <3>1, EmptySeq
    <3> QED BY <2>1, <3>1, <3>2, <3>3, <3>4
  <2> QED BY <2>1, <2>2
<1>6. s % Period = 0 => ~AtHead'
  <2> SUFFICES ASSUME s % Period = 0, AtHead' PROVE FALSE
    OBVIOUS
  <2>1. onAir # << >> /\ onAir' = Tail(onAir) /\ Tail(onAir) # << >> /\ Head(Tail(onAir)).first
    BY <1>3, Zenon DEF AtHead
  <2>2. OnAirOK /\ Len(onAir) >= 2  BY <1>5, <2>1 DEF FromInv
  <2> QED BY <2>1, <2>2, OnAirFacts
<1>7. s % Period # 0 => (AtHead' <=> AtHead)  BY <1>4 DEF AtHead
<1>8. Timing'
  <2>1. CASE s % Period = 0  BY <1>3, <2>1 DEF Timing
  <2>2. CASE s % Period # 0
    <3>1. s % Period < DecodeAt => second % Period < DecodeAt  BY <1>2, <2>2
    <3> QED BY <1>1, <1>4, <1>7, <2>2, <3>1 DEF FromInv, Timing
  <2> QED BY <2>1, <2>2
<1>9. OnAirOK'
  <2>1. CASE s % Period # 0 \/ onAir = << >>
    <3>1. onAir' = onAir  BY <1>3, <1>4, <2>1
    <3> QED BY <1>1, <3>1 DEF FromInv, OnAirOK
  <2>2. CASE s % Period = 0 /\ onAir # << >>
    <3> DEFINE F == BuildMessageFrames(Last(sent))
    <3>1. onAir' = Tail(onAir)  BY <1>3, <2>2
    <3>2. Len(onAir) <= Len(F) /\ \A i \in DOMAIN onAir : onAir[i] = F[Len(F) - Len(onAir) + i]
      BY <2>2 DEF FromInv, OnAirOK
    <3>3. Len(F) \in Nat
      <4>1. Last(sent) \in Messages  BY <2>2, OnAirFacts DEF FromInv
      <4> QED BY <4>1, FramesAre, LenProperties
    <3> HIDE DEF F
    <3>4. Len(Tail(onAir)) <= Len(F)  BY <1>5, <2>2, <3>2, <3>3
    <3>5. ASSUME NEW i \in DOMAIN Tail(onAir)
          PROVE  Tail(onAir)[i] = F[Len(F) - Len(Tail(onAir)) + i]
      <4>1. i \in 1..Len(onAir) - 1 /\ Tail(onAir)[i] = onAir[i + 1]  BY <1>5, <2>2
      <4>2. i + 1 \in DOMAIN onAir  BY <1>5, <4>1
      <4>3. onAir[i + 1] = F[Len(F) - Len(onAir) + (i + 1)]  BY <3>2, <4>2
      <4>4. Len(F) - Len(onAir) + (i + 1) = Len(F) - Len(Tail(onAir)) + i
        <5>1. PICK a \in Nat, b \in Nat, c \in Int :
                a = Len(F) /\ b = Len(onAir) /\ c = Len(Tail(onAir)) /\ c = b - 1
          <6>1. Len(F) \in Nat /\ Len(onAir) \in Nat /\ Len(Tail(onAir)) = Len(onAir) - 1
            BY <1>5, <2>2, <3>3
          <6>2. Len(onAir) - 1 \in Int  BY <6>1
          <6> QED BY <6>1, <6>2, Zenon
        <5>2. i \in Int /\ a - b + (i + 1) = a - c + i  BY <4>1, <5>1
        <5> QED BY <5>1, <5>2, Zenon
      <4> QED BY <4>1, <4>3, <4>4
    <3> QED BY <1>1, <3>1, <3>4, <3>5 DEF FromInv, OnAirOK, F
  <2> QED BY <2>1, <2>2
<1>10. \A n \in DOMAIN sent : Reach(n)' \in Int /\ Reach(n) <= Reach(n)'
  <2> TAKE n \in DOMAIN sent
  <2> DEFINE t == Len(sent[n].text)
             a == Len(onAir)
             h == IF Handled THEN 1 ELSE 0
             g == IF Handled' THEN 1 ELSE 0
  <2>1. Reach(n) \in Int /\ Reach(n) <= t /\ t \in Nat  BY ReachInt
  <2>2. h \in {0, 1} /\ g \in {0, 1}  OBVIOUS
  <2>3. CASE n < Len(sent) \/ onAir' = << >>
    <3>1. Reach(n)' = t  BY <1>1, <2>3, Zenon DEF Reach
    <3> HIDE DEF t
    <3> QED BY <2>1, <3>1
  <2>4. CASE ~(n < Len(sent) \/ onAir' = << >>)
    <3>1. onAir # << >>  BY <1>3, <1>4, <2>4
    <3>2. Reach(n) = t - a + h  BY <2>4, <3>1, Zenon DEF Reach
    <3>3. Reach(n)' = t - Len(onAir') + g  BY <1>1, <2>4, Zenon DEF Reach
    <3>4. CASE s % Period = 0
      <4>1. Len(onAir') = a - 1 /\ a \in Nat  BY <1>3, <1>5, <3>1, <3>4
      <4> DEFINE b == Len(onAir')
      <4>2. b = a - 1 /\ Reach(n)' = t - b + g  BY <3>3, <4>1
      <4> HIDE DEF t, a, b, h, g
      <4> QED BY <2>1, <2>2, <3>2, <4>1, <4>2
    <3>5. CASE s % Period # 0
      <4>1. Len(onAir') = a /\ a \in Nat  BY <1>4, <1>5, <3>5
      <4>2. h <= g
        <5>1. Handled => Handled'  BY <3>5, SecondHandled DEF s
        <5> QED BY <5>1
      <4> DEFINE b == Len(onAir')
      <4>3. b = a /\ Reach(n)' = t - b + g  BY <3>3, <4>1
      <4> HIDE DEF t, a, b, h, g
      <4> QED BY <2>1, <2>2, <3>2, <4>1, <4>2, <4>3
    <3> QED BY <3>4, <3>5
  <2> QED BY <2>3, <2>4
<1>11. ASSUME Owned, ~headless PROVE Owned'
  <2>1. onAir' # << >> /\ ~AtHead' => onAir # << >> /\ ~AtHead
    <3>1. onAir' # << >> => onAir # << >>  BY <1>3, <1>4
    <3>2. s % Period = 0 => ~AtHead  BY <1>1, <1>11 DEF FromInv, Timing
    <3> QED BY <1>7, <3>1, <3>2
  <2>2. AtHead' => AtHead  BY <1>6, <1>7
  <2>3. PICK r :
          /\ Derived(rx, r) /\ rx'.buffers = r.buffers /\ rx'.band = r.band
          /\ \A i \in DOMAIN rx'.commands : \E j \in DOMAIN r.commands : rx'.commands[i] = r.commands[j]
          /\ \A i \in DOMAIN processed' :
               \/ \E j \in DOMAIN processed : processed'[i] = processed[j]
               \/ Fit(processed'[i]) /\ \E j \in DOMAIN r.commands : processed'[i] = r.commands[j]
    BY <1>11, GuiSecondDerived DEF Owned
  <2>4. \A c \in rx'.cache : \E d \in rx.cache : c.key = d.key
    <3>1. rx'.cache = OlderRx(rx).cache  BY GuiSecondSpent
    <3>2. DOMAIN rx = Fields /\ rx.cache \subseteq Cached  BY DEF IInv, RxWith
    <3>3. OlderRx(rx).cache = {[c EXCEPT !.age = Older(@)] : c \in rx.cache}
      BY <3>2 DEF OlderRx, Fields
    <3> TAKE c \in rx'.cache
    <3>4. PICK d \in rx.cache : c = [d EXCEPT !.age = Older(@)]  BY <3>1, <3>3
    <3>5. c.key = d.key  BY <3>2, <3>4 DEF Cached
    <3> QED BY <3>5
  <2> QED BY <1>1, <1>10, <1>11, <2>1, <2>2, <2>3, <2>4, OwnedKept
<1> QED BY <1>1, <1>8, <1>9, <1>11 DEF FromInv

\* Every step keeps it.
LEMMA FromStep ==
  ASSUME PlacesApart, HeadsDiffer
  PROVE  IInv /\ FromInv /\ [Next]_vars => FromInv'
<1>1. ASSUME FromInv, UNCHANGED vars PROVE FromInv'
  BY <1>1 DEF FromInv, Timing, AtHead, OnAirOK, Owned, BandOK, CacheOwned, BuffersOwned, PlaceOwned,
              WaitingOwned, ProcessedOwned, Reach, Handled, vars
<1>2. ASSUME IInv, FromInv, Next PROVE FromInv'
  BY <1>2, SendFrom, LineFromInv, CleanFrom, GuiSecondFrom DEF Next
<1> QED BY <1>1, <1>2

\* If no two places are within the threshold of each other and no message begins
\* with a frame of another, and unless the first frame of a message is missed,
\* every command that is acted upon was sent as one message, and its text is
\* text of that message in order: a buffer that a message cut short has left
\* behind lends neither its call nor its text to the next one.
THEOREM FaithfulAlways ==
  ASSUME PlacesApart, HeadsDiffer
  PROVE  Spec => []Faithful
<1>1. Init => FromInv  BY InitFrom
<1>2. IInv /\ FromInv /\ [Next]_vars => FromInv'  BY FromStep
<1>3. FromInv => Faithful
  BY DEF FromInv, Owned, ProcessedOwned, ToldBy, Faithful
<1> QED BY <1>1, <1>2, <1>3, InductiveInvariant, PTL DEF Spec

\* Buffer b with the call, or with the command, of frame f.
WithCall(b, f) ==
  [b EXCEPT !.compound = Append(@, [call |-> f.key.from, last |-> f.last, age |-> 0])]
WithCommand(b, f) ==
  [b EXCEPT !.cmd = [from |-> f.key.from, to |-> f.key.to, cmd |-> f.key.cmd, last |-> f.last, age |-> 0],
            !.msgs = << >>]

\* A directed frame that is not handed on at once.
IsHeld(f) == (IsCommandBuffered(f.key.cmd) /\ ~f.last) \/ Partial \in {f.key.from, f.key.to}

\* What parsing a frame at o does to the buffer there, and to the queue.
LEMMA ParseIs ==
  ASSUME NEW g, RxWith(g, BufferType), NEW f, NEW o, Near(g.buffers, o) \subseteq {o},
         NEW q, q = Parse(g, f, o)
  PROVE  /\ q.band = g.band
         /\ f.key.type = "heartbeat" \/ (f.key.type = "directed" /\ ~IsHeld(f)) =>
              q.buffers = g.buffers /\ q.commands = Append(g.commands, ToCommand(f.key, << >>))
         /\ f.key.type = "compound" => /\ q.buffers = Put(g.buffers, o, WithCall(At(g.buffers, o), f))
                                       /\ q.commands = g.commands
         /\ f.key.type = "directed" /\ IsHeld(f) =>
              /\ q.buffers = Put(g.buffers, o, WithCommand(At(g.buffers, o), f))
              /\ q.commands = g.commands
         /\ f.key.type = "data" => q = g
<1> DEFINE a == BufferCompound(g, f, o)
           b == BufferCommand(g, f, o)
           c == Queue(g, ToCommand(f.key, << >>))
<1>1. DOMAIN g = Fields  BY DEF RxWith
<1>2. Moved(g.buffers, o) = g.buffers  BY NothingToMove
<1>3. /\ a.band = g.band /\ a.commands = g.commands
      /\ a.buffers = Put(g.buffers, o, WithCall(At(g.buffers, o), f))
  BY <1>1, <1>2 DEF BufferCompound, WithCall, Fields
<1>4. /\ b.band = g.band /\ b.commands = g.commands
      /\ b.buffers = Put(g.buffers, o, WithCommand(At(g.buffers, o), f))
  BY <1>1, <1>2 DEF BufferCommand, WithCommand, Fields
<1>5. /\ c.band = g.band /\ c.buffers = g.buffers
      /\ c.commands = Append(g.commands, ToCommand(f.key, << >>))
  BY <1>1 DEF Queue, Fields
<1>6. /\ f.key.type = "heartbeat" => q = c
      /\ f.key.type = "compound" => q = a
      /\ f.key.type = "directed" => q = IF IsHeld(f) THEN b ELSE c
      /\ f.key.type \notin {"heartbeat", "compound", "directed"} => q = g
  BY DEF Parse, IsHeld
<1> HIDE DEF a, b, c
<1> QED BY <1>3, <1>4, <1>5, <1>6

\* Frame f at o finds b near o, with its text added, or a new buffer.
Finds(r, f, o, b) ==
  /\ f.first => b = NoBuffer
  /\ ~f.first => \A p \in DOMAIN r.buffers : Close(p, o) =>
       b = IF f.key.type = "data" THEN WithText(r.buffers[p], f) ELSE r.buffers[p]

\* And leaves it there, or hands a command on.
Leaves(r, q, f, o, b) ==
  /\ f.key.type = "heartbeat" \/ (f.key.type = "directed" /\ ~IsHeld(f)) =>
       q.commands = Append(r.commands, ToCommand(f.key, << >>))
  /\ f.key.type \in {"compound", "data"} \/ (f.key.type = "directed" /\ IsHeld(f)) =>
       q.commands = r.commands
  /\ f.key.type = "compound" => o \in DOMAIN q.buffers /\ q.buffers[o] = WithCall(b, f)
  /\ f.key.type = "directed" /\ IsHeld(f) => o \in DOMAIN q.buffers /\ q.buffers[o] = WithCommand(b, f)
  /\ f.key.type = "data" /\ ~f.first /\ (\E p \in DOMAIN r.buffers : Close(p, o)) =>
       o \in DOMAIN q.buffers /\ q.buffers[o] = b

\* What a line that is no duplicate does.
LEMMA LineIs ==
  ASSUME PlacesApart, NEW n \in Nat, NEW r, RxWith(r, YoungBuffer(n)), Sparse(DOMAIN r.band),
         DOMAIN r.buffers \subseteq DOMAIN r.band, NEW f \in Frames, NEW o \in Offsets,
         ~IsDuplicate(r.cache, f, o), NEW q, q = ProcessDecodedLine(r, f, o)
  PROVE  /\ LineMade(r, q, o) /\ q.band[o].age = 0
         /\ \E b \in BufferType : Finds(r, f, o, b) /\ Leaves(r, q, f, o, b)
<1> DEFINE cached == [r EXCEPT !.cache = CacheFrame(@, f, o)]
           g == GeneralActivity(cached, f, o)
           b == At(g.buffers, o)
<1>1. f \in FrameType /\ f.key.type \in {"heartbeat", "compound", "directed", "data"}
  <2>1. f \in FrameType /\ f.key \in KeyType  BY FramesAre, FrameParts
  <2> QED BY <2>1 DEF KeyType
<1>2. /\ RxWith(cached, YoungBuffer(n)) /\ cached.band = r.band /\ cached.buffers = r.buffers
      /\ cached.commands = r.commands
  <2>1. r.cache \in SUBSET Cached  BY DEF RxWith
  <2>2. CacheFrame(r.cache, f, o) \in SUBSET Cached  BY <2>1, CacheType
  <2>3. RxWith(cached, YoungBuffer(n))  BY <2>2, OtherFields
  <2>4. DOMAIN r = Fields  BY DEF RxWith
  <2> QED BY <2>3, <2>4 DEF Fields
<1>3. q = Parse(g, f, o)  BY DEF ProcessDecodedLine
<1> HIDE DEF cached
<1>4. RxWith(cached, BufferType) /\ RxWith(g, BufferType) /\ b \in BufferType
  <2>1. RxWith(g, YoungBuffer(n))  BY <1>1, <1>2, GeneralActivityYoung
  <2> HIDE DEF g
  <2> QED BY <1>2, <2>1, YoungRx, AtBuffer DEF RxWith
<1>5. /\ LineMade(cached, g, o) /\ Near(g.buffers, o) \subseteq {o}
      /\ g.commands = cached.commands /\ g.band[o].age = 0
      /\ f.first => o \notin DOMAIN g.buffers
      /\ ~f.first => \A p \in DOMAIN cached.buffers : Close(p, o) =>
           /\ o \in DOMAIN g.buffers
           /\ f.key.type = "data" => g.buffers[o] = WithText(cached.buffers[p], f)
           /\ f.key.type # "data" => g.buffers[o] = cached.buffers[p]
  <2>1. Sparse(DOMAIN cached.band) /\ DOMAIN cached.buffers \subseteq DOMAIN cached.band
    BY <1>2
  <2> QED BY <1>1, <1>4, <2>1, GeneralActivityMade
<1> HIDE DEF g
<1>6. LineMade(r, g, o)  BY <1>2, <1>5 DEF LineMade
<1>7. Finds(r, f, o, b)  BY <1>2, <1>5 DEF Finds, At
<1>8. /\ q.band = g.band
      /\ f.key.type = "heartbeat" \/ (f.key.type = "directed" /\ ~IsHeld(f)) =>
           q.buffers = g.buffers /\ q.commands = Append(g.commands, ToCommand(f.key, << >>))
      /\ f.key.type = "compound" => /\ q.buffers = Put(g.buffers, o, WithCall(b, f))
                                    /\ q.commands = g.commands
      /\ f.key.type = "directed" /\ IsHeld(f) => /\ q.buffers = Put(g.buffers, o, WithCommand(b, f))
                                                 /\ q.commands = g.commands
      /\ f.key.type = "data" => q = g
  BY <1>3, <1>4, <1>5, ParseIs
<1>9. LineMade(r, q, o)
  <2>1. CASE q.buffers = g.buffers  BY <1>6, <1>8, <2>1 DEF LineMade
  <2>2. ASSUME NEW x, q.buffers = Put(g.buffers, o, x) PROVE LineMade(r, q, o)
    BY <1>6, <1>8, <2>2, PutMade
  <2> QED BY <1>1, <1>8, <2>1, <2>2
<1>10. Leaves(r, q, f, o, b)
  <2>1. \A x : o \in DOMAIN Put(g.buffers, o, x) /\ Put(g.buffers, o, x)[o] = x  BY DEF Put
  <2>2. g.commands = r.commands  BY <1>2, <1>5
  <2>3. f.key.type = "data" /\ ~f.first /\ (\E p \in DOMAIN r.buffers : Close(p, o)) =>
          o \in DOMAIN q.buffers /\ q.buffers[o] = b
    BY <1>2, <1>5, <1>8 DEF At
  <2> HIDE DEF b
  <2> QED BY <1>8, <2>1, <2>2, <2>3 DEF Leaves
<1> QED BY <1>4, <1>5, <1>7, <1>8, <1>9, <1>10

-----------------------------------------------------------------------------
(* A message that is heard completely.                                     *)

\* Buffer b holds the one call of m, not older than a seconds,
Called(b, m, a) ==
  /\ Len(b.compound) = 1 /\ b.compound[1].call = m.from
  /\ ~b.compound[1].last /\ b.compound[1].age <= a

\* and waits for the command,
Opened(b, m, a) ==
  /\ Called(b, m, a) /\ b.msgs = << >>
  /\ Partial \notin {b.cmd.from, b.cmd.to} /\ ~b.cmd.last

\* or holds the command, whose sender's place is open.
Open(b, m, a) ==
  /\ Called(b, m, a + Period) /\ b.msgs = << >>
  /\ b.cmd.from = Partial /\ b.cmd.to = m.to /\ b.cmd.cmd = m.cmd
  /\ b.cmd.last = (m.text = << >>) /\ b.cmd.age <= a

\* Buffer b holds the command of m and k of its texts.
Filled(b, m, k, a) ==
  /\ m.text # << >> /\ b.compound = << >> /\ SameHeader(b.cmd, m) /\ Len(b.msgs) = k
  /\ \A i \in 1..k : b.msgs[i].text = m.text[i] /\ b.msgs[i].last = (i = Len(m.text))
  /\ k = 0 => b.cmd.age <= a + Period
  /\ k > 0 => b.msgs[k].age <= a

\* Buffer b holds the first j frames of m, the last of them a seconds old.
Stage(b, m, j, a) ==
  \/ j = 1 /\ Len(HeadOf(m)) = 2 /\ Opened(b, m, a)
  \/ /\ j >= Len(HeadOf(m)) /\ Filled(b, m, j - Len(HeadOf(m)), a)
     /\ Understood(m) = ToCommand(m, m.text)

InSeq(x, s) == \E i \in DOMAIN s : s[i] = x

\* A new buffer has no open place.
LEMMA NoBufferIs ==
  /\ NoBuffer \in BufferType
  /\ NoBuffer.compound = << >> /\ NoBuffer.msgs = << >>
  /\ Partial \notin {NoBuffer.cmd.from, NoBuffer.cmd.to} /\ NoBuffer.cmd.last = FALSE
<1>1. NoBuffer.compound = << >> /\ NoBuffer.msgs = << >> /\ NoBuffer.cmd = NoCmd
  BY Zenon DEF NoBuffer
<1>2. NoCmd.from = "" /\ NoCmd.to = "" /\ NoCmd.last = FALSE  BY Zenon DEF NoCmd
<1>3. Partial # ""  BY Zenon DEF Partial
<1>4. Partial \notin {NoBuffer.cmd.from, NoBuffer.cmd.to}  BY <1>1, <1>2, <1>3, Zenon
<1> QED BY <1>1, <1>2, <1>4, NewBuffer, Zenon

\* What becomes of the parts of a buffer.
LEMMA WithParts ==
  ASSUME NEW b \in BufferType, NEW f
  PROVE  /\ WithCall(b, f).cmd = b.cmd /\ WithCall(b, f).msgs = b.msgs
         /\ WithCall(b, f).compound = Append(b.compound, [call |-> f.key.from, last |-> f.last, age |-> 0])
         /\ WithCommand(b, f).compound = b.compound /\ WithCommand(b, f).msgs = << >>
         /\ WithCommand(b, f).cmd = [from |-> f.key.from, to |-> f.key.to, cmd |-> f.key.cmd,
                                     last |-> f.last, age |-> 0]
         /\ WithText(b, f).cmd = b.cmd /\ WithText(b, f).compound = b.compound
         /\ WithText(b, f).msgs = Append(b.msgs, [text |-> f.key.text, last |-> f.last, age |-> 0])
  BY DEF BufferType, WithCall, WithCommand, WithText

\* The call of m opens a new buffer.
LEMMA OpensBuffer ==
  ASSUME NEW m \in Messages, NEW f, f.key.from = m.from, ~f.last, NEW a \in Nat
  PROVE  Opened(WithCall(NoBuffer, f), m, a)
<1> DEFINE b == WithCall(NoBuffer, f)
           d == [call |-> f.key.from, last |-> f.last, age |-> 0]
<1>1. b.cmd = NoBuffer.cmd /\ b.msgs = NoBuffer.msgs /\ b.compound = Append(NoBuffer.compound, d)
  BY NoBufferIs, WithParts
<1>2. d.call = m.from /\ d.last = f.last /\ d.age = 0  OBVIOUS
<1> HIDE DEF b, d
<1>3. b.compound = <<d>>  BY <1>1, NoBufferIs
<1>4. Len(b.compound) = 1 /\ b.compound[1] = d  BY <1>3
<1> QED BY <1>1, <1>2, <1>4, NoBufferIs DEF Opened, Called, b

\* The command of m, without its sender, comes after the call.
LEMMA OpensCommand ==
  ASSUME NEW m \in Messages, NEW f, f.key.from = Partial, f.key.to = m.to, f.key.cmd = m.cmd,
         f.last = (m.text = << >>), NEW a \in Nat, NEW b \in BufferType, Opened(b, m, a + Period)
  PROVE  Open(WithCommand(b, f), m, a)
<1> DEFINE c == WithCommand(b, f)
           d == [from |-> f.key.from, to |-> f.key.to, cmd |-> f.key.cmd, last |-> f.last, age |-> 0]
<1>1. c.compound = b.compound /\ c.msgs = << >> /\ c.cmd = d  BY WithParts
<1>2. d.from = Partial /\ d.to = m.to /\ d.cmd = m.cmd /\ d.last = (m.text = << >>) /\ d.age = 0
  OBVIOUS
<1> HIDE DEF c, d
<1>3. Called(c, m, a + Period)  BY <1>1 DEF Opened, Called
<1> QED BY <1>1, <1>2, <1>3 DEF Open, c

\* The command of m in a new buffer.
LEMMA FillsCommand ==
  ASSUME NEW m \in Messages, NEW f, f.key.from = m.from, f.key.to = m.to, f.key.cmd = m.cmd,
         m.text # << >>, NEW a \in Nat
  PROVE  Filled(WithCommand(NoBuffer, f), m, 0, a)
<1> DEFINE c == WithCommand(NoBuffer, f)
           d == [from |-> f.key.from, to |-> f.key.to, cmd |-> f.key.cmd, last |-> f.last, age |-> 0]
<1>1. c.compound = NoBuffer.compound /\ c.msgs = << >> /\ c.cmd = d  BY NoBufferIs, WithParts
<1>2. SameHeader(d, m) /\ d.age = 0  BY DEF SameHeader
<1> HIDE DEF c, d
<1>3. 0 <= a + Period  BY Numbers
<1> QED BY <1>1, <1>2, <1>3, NoBufferIs DEF Filled, c

\* The next text of m.
LEMMA FillsText ==
  ASSUME NEW m \in Messages, NEW k \in Nat, NEW f \in FrameType, f.key.type = "data",
         f.key.text = m.text[k + 1], f.last = (k + 1 = Len(m.text)),
         NEW a \in Nat, NEW b \in BufferType, Filled(b, m, k, a + Period)
  PROVE  Filled(WithText(b, f), m, k + 1, a)
<1> DEFINE c == WithText(b, f)
           d == [text |-> f.key.text, last |-> f.last, age |-> 0]
<1>1. c.compound = b.compound /\ c.msgs = Append(b.msgs, d) /\ c.cmd = b.cmd  BY WithParts
<1>2. d.text = m.text[k + 1] /\ d.last = (k + 1 = Len(m.text)) /\ d.age = 0  OBVIOUS
<1>3. d \in TextType  BY FrameParts, AgeFacts DEF TextType
<1> HIDE DEF c, d
<1>4. b.msgs \in Seq(TextType) /\ Len(b.msgs) = k  BY DEF BufferType, Filled
<1>5. /\ Len(c.msgs) = k + 1 /\ c.msgs[k + 1] = d
      /\ \A i \in 1..k : c.msgs[i] = b.msgs[i]
  BY <1>1, <1>3, <1>4, AppendProperties
<1>6. \A i \in 1..k + 1 : c.msgs[i].text = m.text[i] /\ c.msgs[i].last = (i = Len(m.text))
  <2> TAKE i \in 1..k + 1
  <2>1. i = k + 1 \/ i \in 1..k  OBVIOUS
  <2>2. ASSUME i \in 1..k
        PROVE  c.msgs[i].text = m.text[i] /\ c.msgs[i].last = (i = Len(m.text))
    BY <1>5, <2>2 DEF Filled
  <2>3. ASSUME i = k + 1
        PROVE  c.msgs[i].text = m.text[i] /\ c.msgs[i].last = (i = Len(m.text))
    <3>1. c.msgs[i] = d  BY <1>5, <2>3
    <3> QED BY <1>2, <2>3, <3>1, Zenon
  <2> QED BY <2>1, <2>2, <2>3
<1>7. c.msgs[k + 1].age <= a /\ k + 1 # 0  BY <1>2, <1>5
<1> QED BY <1>1, <1>5, <1>6, <1>7 DEF Filled, c

\* The frames before the text, and what the receiver makes of the message.
LEMMA HeadFrames ==
  ASSUME NEW m \in Messages, IsCommandAllowed(m.cmd)
  PROVE  LET F == BuildMessageFrames(m)
             h == Len(HeadOf(m))
         IN  /\ h \in {1, 2} /\ 1 \in DOMAIN F /\ (h = 2 => 2 \in DOMAIN F)
             /\ Partial \notin {m.from, m.to}
             /\ h = 1 => /\ F[1].key.type \in {"heartbeat", "directed"} /\ SameHeader(F[1].key, m)
                         /\ F[1].key.type = "heartbeat" => m.text = << >>
                         /\ F[1].key.type = "heartbeat" => ~IsCommandBuffered(m.cmd)
                         /\ Understood(m) = ToCommand(m, IF IsCommandBuffered(m.cmd) THEN m.text ELSE << >>)
             /\ h = 2 => /\ F[1].key.type = "compound" /\ F[1].key.from = m.from
                         /\ F[2].key.type = "directed" /\ F[2].key.from = Partial
                         /\ F[2].key.to = m.to /\ F[2].key.cmd = m.cmd
                         /\ Understood(m) = ToCommand(m, m.text)
<1> DEFINE F == BuildMessageFrames(m)
           H == HeadOf(m)
           h == Len(H)
           simple == {m.from, m.to} \cap CompoundCalls = {}
           D == Directed(m.from, m.to, m.cmd)
           E == Directed(Partial, m.to, m.cmd)
           C == Compound(m.from)
           B == Heartbeat(m.from)
<1>1. /\ h \in Nat /\ Len(m.text) \in Nat /\ DOMAIN F = 1..h + Len(m.text)
      /\ \A i \in DOMAIN F : F[i].key = IF i <= h THEN H[i] ELSE Data(m.text[i - h])
  BY FrameIs
<1>2. /\ Partial \notin {m.from, m.to}
      /\ m.cmd = "heartbeat" => m.to = "@HB" /\ m.text = << >>
      /\ m.cmd # "none"
  BY RxAssumption DEF IsCommandAllowed
<1>3. /\ D.type = "directed" /\ SameHeader(D, m)
      /\ E.type = "directed" /\ E.from = Partial /\ E.to = m.to /\ E.cmd = m.cmd
      /\ C.type = "compound" /\ C.from = m.from
      /\ B.type = "heartbeat" /\ (m.cmd = "heartbeat" => SameHeader(B, m))
  <2>1. D.type = "directed" /\ SameHeader(D, m)  BY Zenon DEF Directed, SameHeader
  <2>2. E.type = "directed" /\ E.from = Partial /\ E.to = m.to /\ E.cmd = m.cmd
    BY Zenon DEF Directed
  <2>3. C.type = "compound" /\ C.from = m.from  BY Zenon DEF Compound
  <2>4. B.type = "heartbeat" /\ (m.cmd = "heartbeat" => SameHeader(B, m))
    BY <1>2, Zenon DEF Heartbeat, SameHeader
  <2> QED BY <2>1, <2>2, <2>3, <2>4
<1>4. /\ m.cmd = "heartbeat" => H = <<B>>
      /\ m.cmd # "heartbeat" /\ simple => H = <<D>>
      /\ m.cmd # "heartbeat" /\ ~simple => H = <<C, E>>
  <2>1. CASE m.cmd = "heartbeat"  BY <2>1 DEF HeadOf
  <2>2. CASE m.cmd # "heartbeat"
    <3> HIDE DEF D, C, E, B
    <3> QED BY <1>2, <2>2 DEF HeadOf, D, C, E
  <2> QED BY <2>1, <2>2
<1>5. Understood(m) = ToCommand(m, IF ~IsCommandBuffered(m.cmd) /\ simple THEN << >> ELSE m.text)
  BY DEF Understood
<1>6. m.cmd = "heartbeat" => ~IsCommandBuffered(m.cmd)  BY DEF IsCommandBuffered
<1> HIDE DEF F, D, C, E, B, simple
<1>7. CASE m.cmd = "heartbeat"
  <2>0. H = <<B>>  BY <1>4, <1>7
  <2>1. h = 1 /\ H[1] = B /\ 1 \in DOMAIN F  BY <1>1, <2>0
  <2>2. F[1].key = B  BY <1>1, <2>1
  <2>3. Understood(m) = ToCommand(m, << >>)  BY <1>2, <1>5, <1>7
  <2> QED BY <1>2, <1>3, <1>6, <1>7, <2>1, <2>2, <2>3 DEF F
<1>8. CASE m.cmd # "heartbeat" /\ simple
  <2>1. h = 1 /\ H[1] = D /\ 1 \in DOMAIN F  BY <1>1, <1>4, <1>8
  <2>2. F[1].key = D  BY <1>1, <2>1
  <2>3. Understood(m) = ToCommand(m, IF IsCommandBuffered(m.cmd) THEN m.text ELSE << >>)
    BY <1>5, <1>8
  <2> QED BY <1>2, <1>3, <2>1, <2>2, <2>3 DEF F
<1>9. CASE m.cmd # "heartbeat" /\ ~simple
  <2>1. h = 2 /\ H[1] = C /\ H[2] = E /\ 1 \in DOMAIN F /\ 2 \in DOMAIN F
    BY <1>1, <1>4, <1>9
  <2>2. F[1].key = C /\ F[2].key = E  BY <1>1, <2>1
  <2>3. Understood(m) = ToCommand(m, m.text)  BY <1>5, <1>9
  <2> QED BY <1>2, <1>3, <2>1, <2>2, <2>3 DEF F
<1>10. CASE m.cmd # "heartbeat"
  <2>1. CASE simple  BY <1>8, <1>10, <2>1, SMT
  <2>2. CASE ~simple  BY <1>9, <1>10, <2>2, SMT
  <2> QED BY <2>1, <2>2, SMT
<1> QED BY <1>7, <1>10, SMT

\* The next frame of a message takes its buffer, which is near, to the next stage,
\* or hands the message on.
LEMMA LineStage ==
  ASSUME NEW m \in Messages, IsCommandAllowed(m.cmd), NEW x \in DOMAIN BuildMessageFrames(m),
         NEW r, MapTo(r.buffers, BufferType), r.commands \in Seq(CommandType),
         NEW f \in FrameType, f = BuildMessageFrames(m)[x], NEW o, NEW a \in Nat,
         NEW q, NEW b \in BufferType, Finds(r, f, o, b), Leaves(r, q, f, o, b),
         x > 1 => \/ InSeq(Understood(m), r.commands)
                  \/ \E p \in DOMAIN r.buffers :
                       Close(p, o) /\ Stage(r.buffers[p], m, x - 1, a + Period)
  PROVE  \/ InSeq(Understood(m), q.commands)
         \/ /\ o \in DOMAIN q.buffers
            /\ Stage(q.buffers[o], m, x, a) \/ (x = 2 /\ Len(HeadOf(m)) = 2 /\ Open(q.buffers[o], m, a))
<1> DEFINE F == BuildMessageFrames(m)
           h == Len(HeadOf(m))
           t == Len(m.text)
<1>1. /\ h \in {1, 2} /\ t \in Nat /\ DOMAIN F = 1..h + t /\ Len(F) = h + t /\ DOMAIN m.text = 1..t
      /\ Partial \notin {m.from, m.to}
  BY FrameIs, HeadFrames
<1>2. f.first = (x = 1) /\ f.last = (x = h + t) /\ (x > h => f.key = Data(m.text[x - h]))
  BY <1>1, FrameIs
<1>3. x \in 1..h + t  BY <1>1
<1>4. m.text = << >> <=> t = 0
  <2>1. m.text \in Seq(STRING)  BY RxAssumption
  <2> QED BY <2>1, EmptySeq
<1>5. f.key.type \in {"heartbeat", "compound", "directed", "data"}
  <2>1. f.key \in KeyType  BY FrameParts
  <2> QED BY <2>1 DEF KeyType
<1>6. /\ InSeq(Understood(m), r.commands) => InSeq(Understood(m), q.commands)
      /\ \A c \in CommandType : q.commands = Append(r.commands, c) => InSeq(c, q.commands)
  <2>1. ASSUME NEW c, q.commands = Append(r.commands, c)
        PROVE  /\ InSeq(Understood(m), r.commands) => InSeq(Understood(m), q.commands)
               /\ c \in CommandType => InSeq(c, q.commands)
    <3>1. \A i \in DOMAIN r.commands : i \in DOMAIN q.commands /\ q.commands[i] = r.commands[i]
      BY <2>1, LenProperties
    <3>2. Len(r.commands) + 1 \in DOMAIN q.commands /\ q.commands[Len(r.commands) + 1] = c
      BY <2>1, LenProperties
    <3> QED BY <3>1, <3>2 DEF InSeq
  <2>2. q.commands = r.commands \/ \E c : q.commands = Append(r.commands, c)
    BY <1>5 DEF Leaves
  <2> QED BY <2>1, <2>2
<1>12. /\ x = 1 => f.first
       /\ x > 1 => ~f.first /\ x # 1 /\ (x > h \/ (x = 2 /\ h = 2))
       /\ x = 1 /\ h = 1 => f.last = (m.text = << >>)
       /\ x = 1 /\ h = 2 => ~f.last
       /\ x > h => ~(x - 1 = 1 /\ h = 2)
  <2>1. x > 1 => x # 1 /\ (x > h \/ (x = 2 /\ h = 2))
    <3> HIDE DEF h, t, F
    <3> QED BY <1>1, <1>3
  <2>2. x > h => ~(x - 1 = 1 /\ h = 2)
    <3> HIDE DEF h, t, F
    <3> QED BY <1>1, <1>3
  <2>3. x = 1 => f.first  BY <1>2
  <2>4. x > 1 => ~f.first  BY <1>2, <2>1
  <2>5. x = 1 /\ h = 1 => (x = h + t <=> m.text = << >>)
    <3> HIDE DEF h, t, F
    <3> QED BY <1>1, <1>4
  <2>6. x = 1 /\ h = 2 => x # h + t
    <3> HIDE DEF h, t, F
    <3> QED BY <1>1
  <2>7. f.last = (x = h + t)  BY <1>2
  <2>8. x = 1 /\ h = 1 => f.last = (m.text = << >>)
    <3> HIDE DEF h, t, F
    <3> QED BY <2>5, <2>7, Zenon
  <2>9. x = 1 /\ h = 2 => ~f.last
    <3> HIDE DEF h, t, F
    <3> QED BY <2>6, <2>7, Zenon
  <2> HIDE DEF h, t, F
  <2> QED BY <2>1, <2>2, <2>3, <2>4, <2>8, <2>9, Zenon
<1>7. CASE x = 1 /\ h = 1
  <2>1. /\ f.key.type \in {"heartbeat", "directed"} /\ SameHeader(f.key, m)
        /\ f.key.type = "heartbeat" => m.text = << >> /\ ~IsCommandBuffered(m.cmd)
        /\ Understood(m) = ToCommand(m, IF IsCommandBuffered(m.cmd) THEN m.text ELSE << >>)
    BY <1>7, HeadFrames
  <2>2. b = NoBuffer /\ f.last = (m.text = << >>)  BY <1>7, <1>12 DEF Finds
  <2>3. CASE q.commands = Append(r.commands, ToCommand(f.key, << >>)) /\ (IsCommandBuffered(m.cmd) => f.last)
    <3>1. Understood(m) = ToCommand(f.key, << >>)
      BY <2>1, <2>2, <2>3 DEF ToCommand, SameHeader
    <3>2. Understood(m) \in CommandType
      <4>1. \A key : SameHeader(key, m) => ToCommand(key, << >>) \in CommandType
        BY CallFacts, EmptySeq DEF ToCommand, SameHeader, CommandType
      <4> QED BY <2>1, <3>1, <4>1
    <3> QED BY <1>6, <2>3, <3>1, <3>2
  <2>4. CASE f.key.type = "directed" /\ IsCommandBuffered(m.cmd) /\ ~f.last
    <3>1. IsHeld(f)  BY <2>1, <2>4 DEF IsHeld, SameHeader
    <3>2. o \in DOMAIN q.buffers /\ q.buffers[o] = WithCommand(b, f)  BY <2>4, <3>1 DEF Leaves
    <3>3. Filled(q.buffers[o], m, 0, a)
      BY <2>1, <2>2, <2>4, <3>2, FillsCommand DEF SameHeader
    <3>4. x - h = 0 /\ x >= h  BY <1>7
    <3>5. Stage(q.buffers[o], m, x, a)  BY <2>1, <2>4, <3>3, <3>4 DEF Stage
    <3> QED BY <3>2, <3>5
  <2>5. \/ q.commands = Append(r.commands, ToCommand(f.key, << >>)) /\ (IsCommandBuffered(m.cmd) => f.last)
        \/ f.key.type = "directed" /\ IsCommandBuffered(m.cmd) /\ ~f.last
    <3>1. CASE f.key.type = "heartbeat"  BY <2>1, <3>1 DEF Leaves
    <3>2. CASE f.key.type = "directed"
      <4>1. IsHeld(f) <=> IsCommandBuffered(m.cmd) /\ ~f.last
        BY <1>1, <2>1 DEF IsHeld, SameHeader
      <4> QED BY <3>2, <4>1 DEF Leaves
    <3> QED BY <2>1, <3>1, <3>2
  <2> QED BY <2>3, <2>4, <2>5
<1>8. CASE x = 1 /\ h = 2
  <2>1. f.key.type = "compound" /\ f.key.from = m.from  BY <1>8, HeadFrames
  <2>2. b = NoBuffer /\ ~f.last  BY <1>8, <1>12 DEF Finds
  <2>3. o \in DOMAIN q.buffers /\ q.buffers[o] = WithCall(b, f)  BY <2>1 DEF Leaves
  <2>4. Opened(q.buffers[o], m, a)  BY <2>1, <2>2, <2>3, OpensBuffer
  <2> QED BY <1>8, <2>3, <2>4 DEF Stage
<1>9. ASSUME x > 1, NEW p \in DOMAIN r.buffers, Close(p, o), Stage(r.buffers[p], m, x - 1, a + Period)
      PROVE  /\ o \in DOMAIN q.buffers
             /\ Stage(q.buffers[o], m, x, a) \/ (x = 2 /\ Len(HeadOf(m)) = 2 /\ Open(q.buffers[o], m, a))
  <2>0. r.buffers[p] \in BufferType /\ ~f.first /\ x # 1  BY <1>9, <1>12 DEF MapTo
  <2>1. b = IF f.key.type = "data" THEN WithText(r.buffers[p], f) ELSE r.buffers[p]
    BY <1>9, <2>0 DEF Finds
  <2>2. CASE x = 2 /\ h = 2
    <3>1. /\ f.key.type = "directed" /\ f.key.from = Partial
          /\ f.key.to = m.to /\ f.key.cmd = m.cmd
      BY <2>2, HeadFrames
    <3>2. b = r.buffers[p] /\ IsHeld(f)  BY <2>1, <3>1 DEF IsHeld
    <3>3. o \in DOMAIN q.buffers /\ q.buffers[o] = WithCommand(b, f)  BY <3>1, <3>2 DEF Leaves
    <3>4. Opened(b, m, a + Period)  BY <1>9, <2>2, <3>2 DEF Stage
    <3>5. f.last = (m.text = << >>)  BY <1>1, <1>2, <1>4, <2>2
    <3>6. Open(q.buffers[o], m, a)  BY <3>1, <3>3, <3>4, <3>5, OpensCommand
    <3> QED BY <2>2, <3>3, <3>6
  <2>3. CASE x > h
    <3> DEFINE k == (x - 1) - h
    <3>1. k \in Nat /\ k + 1 = x - h /\ x >= h /\ x \in Nat  BY <1>1, <1>3, <2>3
    <3>2. f.key.type = "data" /\ f.key.text = m.text[k + 1]
      <4>1. \A s : Data(s).type = "data" /\ Data(s).text = s  BY Zenon DEF Data
      <4> QED BY <1>2, <2>3, <3>1, <4>1
    <3>3. f.last = (k + 1 = t)  BY <1>1, <1>2, <2>3, <3>1
    <3>4. ~(x - 1 = 1 /\ h = 2)  BY <1>12, <2>3
    <3>5. Filled(r.buffers[p], m, k, a + Period) /\ Understood(m) = ToCommand(m, m.text)
      BY <1>9, <3>4 DEF Stage
    <3> HIDE DEF k
    <3>6. Filled(WithText(r.buffers[p], f), m, k + 1, a)
      BY <2>0, <3>1, <3>2, <3>3, <3>5, FillsText
    <3>7. o \in DOMAIN q.buffers /\ q.buffers[o] = WithText(r.buffers[p], f)
      BY <1>9, <2>0, <2>1, <3>2 DEF Leaves
    <3>8. Stage(q.buffers[o], m, x, a)  BY <3>1, <3>5, <3>6, <3>7 DEF Stage
    <3> QED BY <3>7, <3>8
  <2>4. x > h \/ (x = 2 /\ h = 2)  BY <1>9, <1>12
  <2> QED BY <2>2, <2>3, <2>4
<1>10. CASE x > 1
  BY <1>6, <1>9, <1>10
<1>11. x > 1 \/ (x = 1 /\ h \in {1, 2})  BY <1>1, <1>3
<1> QED BY <1>7, <1>8, <1>10, <1>11

\* Older parts of a buffer.
LEMMA OlderParts ==
  ASSUME NEW b \in BufferType, NEW c, c = OlderBuffer(b)
  PROVE  /\ c.cmd.cmd = b.cmd.cmd /\ c.cmd.to = b.cmd.to /\ c.cmd.from = b.cmd.from
         /\ c.cmd.last = b.cmd.last /\ c.cmd.age = Older(b.cmd.age) /\ b.cmd.age \in Ages
         /\ DOMAIN c.compound = DOMAIN b.compound /\ Len(c.compound) = Len(b.compound)
         /\ c.compound = << >> <=> b.compound = << >>
         /\ \A i \in DOMAIN b.compound :
              /\ c.compound[i].call = b.compound[i].call /\ c.compound[i].last = b.compound[i].last
              /\ c.compound[i].age = Older(b.compound[i].age) /\ b.compound[i].age \in Ages
         /\ DOMAIN c.msgs = DOMAIN b.msgs /\ Len(c.msgs) = Len(b.msgs)
         /\ c.msgs = << >> <=> b.msgs = << >>
         /\ \A i \in DOMAIN b.msgs :
              /\ c.msgs[i].text = b.msgs[i].text /\ c.msgs[i].last = b.msgs[i].last
              /\ c.msgs[i].age = Older(b.msgs[i].age) /\ b.msgs[i].age \in Ages
<1>1. b.cmd \in CmdType /\ b.compound \in Seq(CallType) /\ b.msgs \in Seq(TextType)
  BY DEF BufferType
<1>2. c.cmd = [b.cmd EXCEPT !.age = Older(@)] /\ c.compound = OlderEach(b.compound)
      /\ c.msgs = OlderEach(b.msgs)
  BY DEF OlderBuffer
<1>3. /\ c.cmd.cmd = b.cmd.cmd /\ c.cmd.to = b.cmd.to /\ c.cmd.from = b.cmd.from
      /\ c.cmd.last = b.cmd.last /\ c.cmd.age = Older(b.cmd.age) /\ b.cmd.age \in Ages
  BY <1>1, <1>2 DEF CmdType
<1>4. ASSUME NEW T, NEW s \in Seq(T)
      PROVE  /\ DOMAIN OlderEach(s) = DOMAIN s /\ Len(OlderEach(s)) = Len(s)
             /\ OlderEach(s) = << >> <=> s = << >>
  <2> DEFINE e == OlderEach(s)
             U == {e[i] : i \in DOMAIN s}
  <2>1. DOMAIN e = DOMAIN s /\ DOMAIN s = 1..Len(s) /\ Len(s) \in Nat  BY LenProperties DEF OlderEach
  <2>2. e \in [1..Len(s) -> U]
    <3>1. e = [i \in DOMAIN s |-> e[i]]  BY <2>1 DEF OlderEach
    <3>2. \A i \in DOMAIN s : e[i] \in U  OBVIOUS
    <3> HIDE DEF e, U
    <3> QED BY <2>1, <3>1, <3>2
  <2> HIDE DEF e, U
  <2>3. e \in Seq(U) /\ Len(e) = Len(s)  BY <2>1, <2>2, FunctionIsSeq, LenProperties
  <2>4. e = << >> <=> s = << >>  BY <2>3, EmptySeq
  <2> QED BY <2>1, <2>3, <2>4 DEF e
<1>5. \A i \in DOMAIN b.compound :
        /\ c.compound[i].call = b.compound[i].call /\ c.compound[i].last = b.compound[i].last
        /\ c.compound[i].age = Older(b.compound[i].age) /\ b.compound[i].age \in Ages
  <2> TAKE i \in DOMAIN b.compound
  <2>1. DOMAIN b.compound = 1..Len(b.compound)  BY <1>1, LenProperties
  <2>2. b.compound[i] \in CallType  BY <1>1, <2>1, ElementOfSeq
  <2>3. c.compound[i] = [b.compound[i] EXCEPT !.age = Older(@)]  BY <1>2 DEF OlderEach
  <2> QED BY <2>2, <2>3 DEF CallType
<1>6. \A i \in DOMAIN b.msgs :
        /\ c.msgs[i].text = b.msgs[i].text /\ c.msgs[i].last = b.msgs[i].last
        /\ c.msgs[i].age = Older(b.msgs[i].age) /\ b.msgs[i].age \in Ages
  <2> TAKE i \in DOMAIN b.msgs
  <2>1. DOMAIN b.msgs = 1..Len(b.msgs)  BY <1>1, LenProperties
  <2>2. b.msgs[i] \in TextType  BY <1>1, <2>1, ElementOfSeq
  <2>3. c.msgs[i] = [b.msgs[i] EXCEPT !.age = Older(@)]  BY <1>2 DEF OlderEach
  <2> QED BY <2>2, <2>3 DEF TextType
<1> QED BY <1>1, <1>2, <1>3, <1>4, <1>5, <1>6

\* A second adds a second at most.
LEMMA OlderBound ==
  ASSUME NEW x \in Ages, NEW a \in Nat, x <= a
  PROVE  Older(x) <= a + 1
  BY Numbers DEF Older, Ages, OldAge

\* A stage a second later.
LEMMA OlderStage ==
  ASSUME NEW b \in BufferType, NEW c, c = OlderBuffer(b), NEW m, NEW a \in Nat
  PROVE  /\ Opened(b, m, a) => Opened(c, m, a + 1)
         /\ Open(b, m, a) => Open(c, m, a + 1)
         /\ \A k \in Nat : Filled(b, m, k, a) => Filled(c, m, k, a + 1)
<1>1. a + Period \in Nat /\ (a + Period) + 1 = (a + 1) + Period  BY Numbers
<1>2. ASSUME NEW n \in Nat, Called(b, m, n) PROVE Called(c, m, n + 1)
  <2>1. 1 \in DOMAIN b.compound
    <3>1. b.compound \in Seq(CallType) /\ Len(b.compound) = 1  BY <1>2 DEF BufferType, Called
    <3> QED BY <3>1, LenProperties
  <2>2. /\ c.compound[1].call = b.compound[1].call /\ c.compound[1].last = b.compound[1].last
        /\ c.compound[1].age = Older(b.compound[1].age) /\ b.compound[1].age \in Ages
        /\ Len(c.compound) = Len(b.compound)
    BY <2>1, OlderParts
  <2>3. Older(b.compound[1].age) <= n + 1  BY <1>2, <2>2, OlderBound DEF Called
  <2> QED BY <1>2, <2>2, <2>3 DEF Called
<1>3. /\ c.cmd.cmd = b.cmd.cmd /\ c.cmd.to = b.cmd.to /\ c.cmd.from = b.cmd.from
      /\ c.cmd.last = b.cmd.last /\ c.cmd.age = Older(b.cmd.age) /\ b.cmd.age \in Ages
      /\ c.msgs = << >> <=> b.msgs = << >>
      /\ c.compound = << >> <=> b.compound = << >>
      /\ Len(c.msgs) = Len(b.msgs)
  BY OlderParts
<1>4. Opened(b, m, a) => Opened(c, m, a + 1)
  BY <1>2, <1>3 DEF Opened
<1>5. Open(b, m, a) => Open(c, m, a + 1)
  <2> HAVE Open(b, m, a)
  <2>1. Called(c, m, (a + 1) + Period)  BY <1>1, <1>2 DEF Open
  <2>2. c.cmd.age <= a + 1  BY <1>3, OlderBound DEF Open
  <2> QED BY <1>3, <2>1, <2>2 DEF Open
<1>6. ASSUME NEW k \in Nat, Filled(b, m, k, a) PROVE Filled(c, m, k, a + 1)
  <2>1. DOMAIN b.msgs = 1..k
    <3>1. b.msgs \in Seq(TextType) /\ Len(b.msgs) = k  BY <1>6 DEF BufferType, Filled
    <3> QED BY <3>1, LenProperties
  <2>2. \A i \in 1..k : /\ c.msgs[i].text = b.msgs[i].text /\ c.msgs[i].last = b.msgs[i].last
                        /\ c.msgs[i].age = Older(b.msgs[i].age) /\ b.msgs[i].age \in Ages
    BY <2>1, OlderParts
  <2>3. k = 0 => c.cmd.age <= (a + 1) + Period
    <3> HAVE k = 0
    <3>1. b.cmd.age <= a + Period  BY <1>6 DEF Filled
    <3>2. c.cmd.age <= (a + Period) + 1  BY <1>1, <1>3, <3>1, OlderBound
    <3> QED BY <1>1, <3>2
  <2>4. k > 0 => c.msgs[k].age <= a + 1
    <3> HAVE k > 0
    <3>1. k \in 1..k  OBVIOUS
    <3>2. b.msgs[k].age <= a  BY <1>6 DEF Filled
    <3> QED BY <2>2, <3>1, <3>2, OlderBound
  <2>5. SameHeader(c.cmd, m)  BY <1>3, <1>6 DEF Filled, SameHeader
  <2> QED BY <1>3, <1>6, <2>2, <2>3, <2>4, <2>5 DEF Filled
<1> QED BY <1>4, <1>5, <1>6

\* The call of a message is filled in, and no other place is open.
LEMMA JoinedOpen ==
  ASSUME NEW b \in BufferType, NEW m \in Messages, NEW a \in Nat, Open(b, m, a)
  PROVE  /\ b.compound # << >> /\ CanJoin(b)
         /\ Joined(b).compound = << >> /\ Joined(b).msgs = << >> /\ SameHeader(Joined(b).cmd, m)
         /\ Joined(b).cmd.last = (m.text = << >>) /\ Joined(b).cmd.age <= a + Period
<1> DEFINE d == Head(b.compound)
           c == Join(b, "from")
<1>1. /\ b.cmd \in CmdType /\ b.compound \in Seq(CallType) /\ b.compound # << >>
      /\ Len(b.compound) = 1
  <2>1. b.compound \in Seq(CallType) /\ Len(b.compound) = 1 /\ b.cmd \in CmdType
    BY DEF BufferType, Open, Called
  <2>2. Len(<< >>) = 0 /\ 1 # 0  OBVIOUS
  <2>3. b.compound # << >>  BY <2>1, <2>2, Zenon
  <2> QED BY <2>1, <2>3
<1>2. d = b.compound[1] /\ d \in CallType /\ Tail(b.compound) = << >>
  <2>1. d = b.compound[1] /\ d \in CallType  BY <1>1, HeadTailProperties
  <2>2. Tail(b.compound) \in Seq(CallType) /\ Len(Tail(b.compound)) = 0
    BY <1>1, HeadTailProperties
  <2> QED BY <2>1, <2>2, EmptySeq
<1>3. /\ d.call = m.from /\ d.last = FALSE /\ d.age <= a + Period /\ d.age \in Ages
      /\ b.cmd.age \in Ages /\ b.cmd.age <= a /\ b.cmd.last \in BOOLEAN
  BY <1>1, <1>2 DEF Open, Called, CallType, CmdType
<1>4. /\ b.cmd["from"] = Partial /\ b.cmd["to"] = m.to /\ m.to # Partial /\ m.from # Partial
  BY RxAssumption DEF Open
<1>5. CanJoin(b)
  <2> DEFINE open == {field \in {"from", "to"} : b.cmd[field] = Partial}
  <2>1. open = {"from"}  BY <1>4
  <2>2. Cardinality({"from"}) = 1  BY FS_Singleton
  <2> HIDE DEF open
  <2>3. Len(b.compound) >= Cardinality(open)  BY <1>1, <2>1, <2>2
  <2> QED BY <2>3 DEF CanJoin, open
<1>6. /\ c.compound = Tail(b.compound) /\ c.msgs = b.msgs
      /\ c.cmd.from = d.call /\ c.cmd.to = b.cmd.to /\ c.cmd.cmd = b.cmd.cmd
      /\ c.cmd.last = (d.last \/ b.cmd.last)
      /\ c.cmd.age = IF d.age > b.cmd.age THEN d.age ELSE b.cmd.age
  BY <1>1, <1>3, <1>4 DEF Join, CmdType, BufferType
<1> HIDE DEF c, d
<1>7. Joined(b) = c
  <2>1. c.cmd["to"] # Partial  BY <1>4, <1>6
  <2>2. Join(c, "to") = c  BY <2>1 DEF Join
  <2> QED BY <1>1, <1>5, <2>2 DEF Joined, c
<1>8. c.cmd.age <= a + Period
  BY <1>3, <1>6, Numbers DEF Ages, OldAge
<1>9. c.cmd.last = (m.text = << >>)
  <2>1. c.cmd.last = b.cmd.last  BY <1>3, <1>6
  <2> QED BY <2>1 DEF Open
<1>10. SameHeader(c.cmd, m)  BY <1>3, <1>4, <1>6 DEF SameHeader, Open
<1>11. c.msgs = << >>  BY <1>6 DEF Open
<1> QED BY <1>1, <1>2, <1>5, <1>6, <1>7, <1>8, <1>9, <1>10, <1>11

\* Where no place is open or no call waits, nothing is filled in.
LEMMA JoinedSame ==
  ASSUME NEW b, b.compound = << >> \/ Partial \notin {b.cmd["from"], b.cmd["to"]}
  PROVE  Joined(b) = b
  BY DEF Joined, Join

\* Every command that waited, and every one made at an offset in S, is among those
\* that are handed on.
HandsOn(all, commands, S, command) ==
  /\ \A c : InSeq(c, commands) => InSeq(c, all)
  /\ \A o \in S : InSeq(command[o], all)

\* A pass hands on what was waiting and a command for every offset in S.
LEMMA HandedAll ==
  ASSUME NEW commands \in Seq(CommandType), NEW S \in SUBSET Offsets,
         NEW command, \A o \in S : command[o] \in CommandType
  PROVE  HandsOn(commands \o [i \in DOMAIN Ascending(S) |-> command[Ascending(S)[i]]],
                 commands, S, command)
<1> DEFINE q == Ascending(S)
           n == Cardinality(S)
           k == Len(commands)
           t == [i \in DOMAIN q |-> command[q[i]]]
           all == commands \o t
<1>1. S \in SUBSET Nat /\ IsFiniteSet(S)  BY OffsetFacts, FS_Subset
<1>2. n \in Nat /\ q \in [1..n -> S] /\ \A o \in S : \E i \in 1..n : q[i] = o
  BY <1>1, AscendingIs
<1> HIDE DEF q, n
<1>3. t \in [1..n -> CommandType]  BY <1>2
<1>4. t \in Seq(CommandType) /\ Len(t) = n
  <2>1. t \in Seq(CommandType)  BY <1>2, <1>3, FunctionIsSeq
  <2> QED BY <1>2, <1>3, <2>1, LenProperties
<1>5. \A o \in S : \E i \in 1..n : t[i] = command[o]  BY <1>2
<1> HIDE DEF t
<1>6. /\ k \in Nat /\ DOMAIN commands = 1..k /\ DOMAIN all = 1..k + n
      /\ \A j \in 1..k + n : all[j] = IF j <= k THEN commands[j] ELSE t[j - k]
  <2>1. /\ Len(all) = k + n /\ all \in Seq(CommandType)
        /\ \A j \in 1..k + n : all[j] = IF j <= k THEN commands[j] ELSE t[j - k]
    BY <1>2, <1>4, ConcatProperties
  <2> HIDE DEF all
  <2> QED BY <1>2, <2>1, LenProperties
<1> HIDE DEF all, k
<1>7. \A j \in DOMAIN commands : j \in DOMAIN all /\ all[j] = commands[j]  BY <1>2, <1>6
<1>8. ASSUME NEW i \in 1..n PROVE k + i \in DOMAIN all /\ all[k + i] = t[i]
  <2>1. k + i \in 1..k + n /\ ~(k + i <= k) /\ (k + i) - k = i  BY <1>2, <1>6
  <2> QED BY <1>6, <2>1
<1>9. HandsOn(all, commands, S, command)  BY <1>5, <1>7, <1>8 DEF HandsOn, InSeq
<1> QED BY <1>9 DEF all, t, q

\* The commands that are fit are all taken up.
LEMMA TakenAll ==
  ASSUME NEW commands \in Seq(CommandType), NEW c, InSeq(c, commands), Fit(c)
  PROVE  InSeq(c, Taken(commands))
<1> DEFINE S == {j \in DOMAIN commands : Fit(commands[j])}
           q == Ascending(S)
<1>1. Taken(commands) = [j \in DOMAIN q |-> commands[q[j]]]  BY DEF Taken, Selected, Fit
<1>2. DOMAIN commands = 1..Len(commands) /\ Len(commands) \in Nat  BY LenProperties
<1>3. S \in SUBSET Nat /\ IsFiniteSet(S)
  <2>1. IsFiniteSet(1..Len(commands)) /\ 1..Len(commands) \subseteq Nat  BY <1>2, FS_Interval
  <2> QED BY <1>2, <2>1, FS_Subset
<1>4. /\ q \in [1..Cardinality(S) -> S] /\ \A x \in S : \E i \in 1..Cardinality(S) : q[i] = x
  BY <1>3, AscendingIs
<1>5. PICK j \in S : commands[j] = c  BY DEF InSeq
<1> HIDE DEF q
<1>6. PICK i \in DOMAIN q : q[i] = j  BY <1>4, <1>5
<1> QED BY <1>1, <1>5, <1>6 DEF InSeq

\* A gap is marked at an idle offset only.
LEMMA IdleKeeps ==
  ASSUME NEW r, DOMAIN r = Fields, NEW o \in DOMAIN r.buffers, 
         ~(2 * r.band[o].age >= 3 * Period), NEW q, q = ProcessIdleActivity(r)
  PROVE  o \in DOMAIN q.buffers /\ q.buffers[o] = r.buffers[o] /\ q.commands = r.commands
<1> DEFINE idle == {p \in DOMAIN r.band : /\ ~r.band[p].last /\ ~r.band[p].mfi
                                          /\ 2 * r.band[p].age >= 3 * Period}
           found == CHOOSE f : f = [p \in idle |->
                      \/ HasExistingMessageBuffer(r.buffers, p)
                      \/ \E x \in idle : x < p /\ p - x <= Threshold /\ f[x]]
           marked == {p \in idle : found[p]}
           gap(p) == [text |-> Mfi, last |-> FALSE, age |-> r.band[p].age]
           buffers == [p \in DOMAIN r.buffers \cup marked |->
                        IF p \in marked
                        THEN [At(r.buffers, p) EXCEPT !.msgs = Append(@, gap(p))]
                        ELSE r.buffers[p]]
<1>1. q.buffers = buffers /\ q.commands = r.commands
  BY DEF ProcessIdleActivity, Fields
<1>2. o \notin marked  OBVIOUS
<1> HIDE DEF marked, gap
<1>3. o \in DOMAIN buffers /\ buffers[o] = r.buffers[o]  BY <1>2
<1> QED BY <1>1, <1>3

\* Calls are joined in a buffer, and it is kept or handed on.
LEMMA CompoundKeeps ==
  ASSUME NEW r, RxWith(r, BufferType), NEW q, q = ProcessCompoundActivity(r)
  PROVE  /\ \A c : InSeq(c, r.commands) => InSeq(c, q.commands)
         /\ \A o \in DOMAIN r.buffers :
              IF JoinReady(r.buffers[o])
              THEN InSeq(ToCommand(Joined(r.buffers[o]).cmd, << >>), q.commands)
              ELSE o \in DOMAIN q.buffers /\ q.buffers[o] = Joined(r.buffers[o])
<1> DEFINE ready == {o \in DOMAIN r.buffers : JoinReady(r.buffers[o])}
           queue == Ascending(ready)
           handed == [o \in ready |-> ToCommand(Joined(r.buffers[o]).cmd, << >>)]
           buffers == [o \in DOMAIN r.buffers \ ready |-> Joined(r.buffers[o])]
           commands == r.commands \o [i \in DOMAIN queue |-> handed[queue[i]]]
<1>1. DOMAIN r = Fields /\ MapTo(r.buffers, BufferType) /\ r.commands \in Seq(CommandType)
  BY DEF RxWith
<1>2. ready \in SUBSET Offsets /\ \A i \in DOMAIN queue : queue[i] \in ready
  <2>1. ready \in SUBSET Offsets  BY <1>1 DEF MapTo
  <2>2. ready \in SUBSET Nat /\ IsFiniteSet(ready)  BY <2>1, OffsetFacts, FS_Subset
  <2> HIDE DEF ready
  <2> QED BY <2>1, <2>2, AscendingIs
<1>3. \A o \in ready : handed[o] \in CommandType
  <2> TAKE o \in ready
  <2>1. r.buffers[o] \in BufferType  BY <1>1 DEF MapTo
  <2>2. Joined(r.buffers[o]) \in BufferType  BY <2>1, JoinedKeeps
  <2>3. << >> \in Seq(Texts)  BY EmptySeq
  <2>4. ToCommand(Joined(r.buffers[o]).cmd, << >>) \in CommandType  BY <2>2, <2>3, HandedType
  <2> QED BY <2>4
<1>4. q.buffers = buffers /\ q.commands = commands
  <2> DEFINE command(o) == ToCommand(Joined(r.buffers[o]).cmd, << >>)
  <2>1. /\ q.buffers = buffers
        /\ q.commands = r.commands \o [i \in DOMAIN queue |-> command(queue[i])]
    BY <1>1 DEF ProcessCompoundActivity, Fields
  <2>2. \A i \in DOMAIN queue : command(queue[i]) = handed[queue[i]]  BY <1>2
  <2> HIDE DEF queue, command, handed
  <2>3. [i \in DOMAIN queue |-> command(queue[i])] = [i \in DOMAIN queue |-> handed[queue[i]]]
    BY <2>2
  <2> QED BY <2>1, <2>3, Zenon
<1>5. /\ \A c : InSeq(c, r.commands) => InSeq(c, q.commands)
      /\ \A o \in ready : InSeq(handed[o], q.commands)
  <2> HIDE DEF ready, handed
  <2>1. HandsOn(commands, r.commands, ready, handed)  BY <1>1, <1>2, <1>3, HandedAll
  <2> HIDE DEF commands
  <2> QED BY <1>4, <2>1 DEF HandsOn
<1>6. \A o \in ready : handed[o] = ToCommand(Joined(r.buffers[o]).cmd, << >>)  OBVIOUS
<1>7. \A o \in DOMAIN r.buffers : o \notin ready =>
        o \in DOMAIN q.buffers /\ q.buffers[o] = Joined(r.buffers[o])
  BY <1>4
<1> HIDE DEF handed
<1> QED BY <1>5, <1>6, <1>7

\* A buffer that is not too old is kept until it is closed, and handed on if it
\* is valid.
LEMMA BufferedKeeps ==
  ASSUME NEW r, RxWith(r, BufferType), NEW q, q = ProcessBufferedActivity(r)
  PROVE  /\ \A c : InSeq(c, r.commands) => InSeq(c, q.commands)
         /\ \A o \in DOMAIN r.buffers :
              /\ Closed(r.buffers[o]) /\ Valid(r.buffers[o]) =>
                   InSeq(ToCommand(r.buffers[o].cmd, TextOf(r.buffers[o])), q.commands)
              /\ Fresh(r.buffers[o], DropAfter) /\ ~Closed(r.buffers[o]) =>
                   o \in DOMAIN q.buffers /\ q.buffers[o] = r.buffers[o]
<1> DEFINE gone == {o \in DOMAIN r.buffers : ~Fresh(r.buffers[o], DropAfter)}
           closed == {o \in DOMAIN r.buffers : Closed(r.buffers[o])}
           ready == {o \in closed : Valid(r.buffers[o])}
           queue == Ascending(ready)
           handed == [o \in ready |-> ToCommand(r.buffers[o].cmd, TextOf(r.buffers[o]))]
           buffers == Without(r.buffers, gone \cup closed)
           commands == r.commands \o [i \in DOMAIN queue |-> handed[queue[i]]]
<1>1. DOMAIN r = Fields /\ MapTo(r.buffers, BufferType) /\ r.commands \in Seq(CommandType)
  BY DEF RxWith
<1>2. ready \in SUBSET Offsets /\ \A i \in DOMAIN queue : queue[i] \in ready
  <2>1. ready \in SUBSET Offsets  BY <1>1 DEF MapTo
  <2>2. ready \in SUBSET Nat /\ IsFiniteSet(ready)  BY <2>1, OffsetFacts, FS_Subset
  <2> HIDE DEF ready
  <2> QED BY <2>1, <2>2, AscendingIs
<1>3. \A o \in ready : handed[o] \in CommandType
  <2> TAKE o \in ready
  <2>1. r.buffers[o] \in BufferType  BY <1>1 DEF MapTo
  <2>2. ToCommand(r.buffers[o].cmd, TextOf(r.buffers[o])) \in CommandType
    BY <2>1, HandedType, TextOfType
  <2> QED BY <2>2
<1>4. q.buffers = buffers /\ q.commands = commands
  <2> DEFINE command(o) == ToCommand(r.buffers[o].cmd, TextOf(r.buffers[o]))
  <2>1. /\ q.buffers = buffers
        /\ q.commands = r.commands \o [i \in DOMAIN queue |-> command(queue[i])]
    BY <1>1 DEF ProcessBufferedActivity, Fields
  <2>2. \A i \in DOMAIN queue : command(queue[i]) = handed[queue[i]]  BY <1>2
  <2> HIDE DEF queue, command, handed
  <2>3. [i \in DOMAIN queue |-> command(queue[i])] = [i \in DOMAIN queue |-> handed[queue[i]]]
    BY <2>2
  <2> QED BY <2>1, <2>3, Zenon
<1>5. /\ \A c : InSeq(c, r.commands) => InSeq(c, q.commands)
      /\ \A o \in ready : InSeq(handed[o], q.commands)
  <2> HIDE DEF ready, handed
  <2>1. HandsOn(commands, r.commands, ready, handed)  BY <1>1, <1>2, <1>3, HandedAll
  <2> HIDE DEF commands
  <2> QED BY <1>4, <2>1 DEF HandsOn
<1>6. \A o \in ready : handed[o] = ToCommand(r.buffers[o].cmd, TextOf(r.buffers[o]))  OBVIOUS
<1>7. \A o \in DOMAIN r.buffers : o \notin gone /\ o \notin closed =>
        o \in DOMAIN q.buffers /\ q.buffers[o] = r.buffers[o]
  <2> HIDE DEF gone, closed, ready, handed
  <2> QED BY <1>4 DEF Without
<1> HIDE DEF handed
<1> QED BY <1>5, <1>6, <1>7

\* A part of a buffer that is not older than n seconds.
LEMMA FreshPart ==
  ASSUME NEW b \in BufferType, NEW n \in Nat
  PROVE  /\ b.cmd.age <= n => Fresh(b, n)
         /\ Len(b.compound) = 1 /\ b.compound[1].age <= n => Fresh(b, n)
         /\ \A k \in Nat : k > 0 /\ Len(b.msgs) = k /\ b.msgs[k].age <= n => Fresh(b, n)
<1>1. /\ b.cmd \in CmdType /\ b.compound \in Seq(CallType) /\ b.msgs \in Seq(TextType)
      /\ Ages \subseteq Nat
  BY Numbers DEF BufferType, Ages, OldAge
<1>2. b.cmd.age <= n => Fresh(b, n)
  <2>1. b.cmd.age \in Nat  BY <1>1 DEF CmdType
  <2> QED BY <2>1 DEF Fresh
<1>3. ASSUME Len(b.compound) = 1, b.compound[1].age <= n PROVE Fresh(b, n)
  <2>1. b.compound[1] \in CallType  BY <1>1, <1>3, ElementOfSeq
  <2>5. b.compound[1].age \in Ages  BY <2>1 DEF CallType
  <2>6. b.compound[1].age \in Nat  BY <1>1, <2>5, Zenon
  <2>2. b.compound[1].age \in 0..n  BY <1>3, <2>6
  <2>3. Last(b.compound) = b.compound[1]  BY <1>3, Zenon DEF Last
  <2>4. b.compound # << >>
    <3>1. Len(<< >>) = 0 /\ 1 # 0  OBVIOUS
    <3> QED BY <1>3, <3>1, Zenon
  <2> QED BY <2>2, <2>3, <2>4, Zenon DEF Fresh
<1>4. ASSUME NEW k \in Nat, k > 0, Len(b.msgs) = k, b.msgs[k].age <= n PROVE Fresh(b, n)
  <2>1. b.msgs[k] \in TextType  BY <1>1, <1>4, ElementOfSeq
  <2>5. b.msgs[k].age \in Ages  BY <2>1 DEF TextType
  <2>6. b.msgs[k].age \in Nat  BY <1>1, <2>5, Zenon
  <2>2. b.msgs[k].age \in 0..n  BY <1>4, <2>6
  <2>3. Last(b.msgs) = b.msgs[k]  BY <1>4, Zenon DEF Last
  <2>4. b.msgs # << >>
    <3>1. Len(<< >>) = 0 /\ k # 0  BY <1>4
    <3> QED BY <1>4, <3>1, Zenon
  <2> QED BY <2>2, <2>3, <2>4, Zenon DEF Fresh
<1> QED BY <1>2, <1>3, <1>4

\* A buffer with the command of m and k of its texts is kept until all are there.
LEMMA FilledPass ==
  ASSUME NEW m \in Messages, NEW b \in BufferType, NEW k \in Nat, k <= Len(m.text),
         NEW a \in Nat, Filled(b, m, k, a), a <= CloseAfter, a + Period <= DropAfter
  PROVE  /\ Fresh(b, DropAfter) /\ ~JoinReady(b) /\ Joined(b) = b
         /\ k < Len(m.text) => ~Closed(b)
         /\ k = Len(m.text) => Closed(b) /\ Valid(b) /\ ToCommand(b.cmd, TextOf(b)) = ToCommand(m, m.text)
<1> DEFINE t == Len(m.text)
<1>1. /\ t \in Nat /\ DOMAIN m.text = 1..t /\ m.text = [i \in 1..t |-> m.text[i]]
      /\ b.msgs \in Seq(TextType) /\ Len(b.msgs) = k /\ DOMAIN b.msgs = 1..k
  <2>1. m.text \in Seq(STRING)  BY RxAssumption
  <2>2. b.msgs \in Seq(TextType) /\ Len(b.msgs) = k  BY DEF BufferType, Filled
  <2> QED BY <2>1, <2>2, LenProperties
<1>2. t > 0 /\ b.compound = << >> /\ SameHeader(b.cmd, m)
  <2>1. m.text \in Seq(STRING) /\ m.text # << >>  BY RxAssumption DEF Filled
  <2> QED BY <2>1, EmptySeq DEF Filled
<1>3. ~JoinReady(b) /\ Joined(b) = b  BY <1>2, JoinedSame DEF JoinReady
<1>4. Fresh(b, DropAfter) /\ (k > 0 => Fresh(b, CloseAfter))
  <2>1. CASE k = 0
    <3>1. b.cmd.age <= a + Period  BY <2>1 DEF Filled
    <3>2. b.cmd.age <= DropAfter
      <4>1. b.cmd.age \in Ages  BY DEF BufferType, CmdType
      <4> QED BY <3>1, <4>1, Numbers DEF Ages, OldAge
    <3> QED BY <2>1, <3>2, Numbers, FreshPart
  <2>2. CASE k > 0
    <3>1. b.msgs[k].age <= a  BY <2>2 DEF Filled
    <3>2. b.msgs[k].age \in Ages
      <4>1. b.msgs[k] \in TextType  BY <1>1, <2>2, ElementOfSeq
      <4> QED BY <4>1 DEF TextType
    <3>3. b.msgs[k].age <= CloseAfter /\ b.msgs[k].age <= DropAfter
      BY <3>1, <3>2, Numbers DEF Ages, OldAge
    <3> QED BY <1>1, <2>2, <3>3, Numbers, FreshPart
  <2> QED BY <2>1, <2>2
<1>5. k > 0 => b.msgs # << >> /\ Last(b.msgs).last = (k = t)
  <2> HAVE k > 0
  <2>1. Last(b.msgs) = b.msgs[k] /\ k \in 1..k  BY <1>1 DEF Last
  <2>2. b.msgs[k].last = (k = t)  BY <2>1 DEF Filled
  <2>3. Len(<< >>) = 0 /\ k # 0  OBVIOUS
  <2>4. b.msgs # << >>  BY <1>1, <2>3, Zenon
  <2> QED BY <2>1, <2>2, <2>4, Zenon
<1>6. k = 0 => b.msgs = << >>  BY <1>1, EmptySeq
<1> HIDE DEF t
<1>7. k < t => ~Closed(b)
  <2> HAVE k < t
  <2>1. k # t  BY <1>1
  <2>2. CASE k = 0  BY <1>6, <2>2 DEF Closed
  <2>3. CASE k > 0  BY <1>4, <1>5, <2>1, <2>3 DEF Closed
  <2> QED BY <2>2, <2>3
<1>8. k = t => Closed(b) /\ Valid(b) /\ ToCommand(b.cmd, TextOf(b)) = ToCommand(m, m.text)
  <2> HAVE k = t
  <2>1. Closed(b)  BY <1>2, <1>4, <1>5 DEF Closed
  <2>2. TextOf(b) = m.text
    <3>1. \A i \in 1..t : b.msgs[i].text = m.text[i]  BY DEF Filled
    <3>2. TextOf(b) = [i \in 1..t |-> b.msgs[i].text]  BY <1>1 DEF TextOf
    <3>3. [i \in 1..t |-> b.msgs[i].text] = [i \in 1..t |-> m.text[i]]  BY <3>1
    <3> QED BY <1>1, <3>2, <3>3, Zenon
  <2>3. Valid(b)  BY <1>2, <2>2 DEF Valid, ChecksumValid, SameHeader
  <2>4. ToCommand(b.cmd, TextOf(b)) = ToCommand(m, m.text)
    BY <1>2, <2>2 DEF ToCommand, SameHeader
  <2> QED BY <2>1, <2>3, <2>4
<1> QED BY <1>3, <1>4, <1>7, <1>8 DEF t

\* Commands that wait are still there after a pass.
LEMMA PassCommands ==
  ASSUME NEW r, RxWith(r, BufferType), NEW c, InSeq(c, r.commands)
  PROVE  InSeq(c, ProcessActivity(r).commands)
<1> DEFINE p == ProcessRxActivity(r)
           i == ProcessIdleActivity(p)
           d == ProcessCompoundActivity(i)
<1>1. RxWith(p, BufferType) /\ p.commands = r.commands
  <2>1. RxWith([r EXCEPT !.pending = FALSE], BufferType)  BY OtherFields
  <2>2. DOMAIN r = Fields  BY DEF RxWith
  <2> QED BY <2>1, <2>2 DEF ProcessRxActivity, Fields
<1> HIDE DEF p
<1>2. RxWith(i, BufferType) /\ i.commands = p.commands
  <2>1. DOMAIN p = Fields  BY <1>1 DEF RxWith
  <2>2. i.commands = p.commands  BY <2>1 DEF ProcessIdleActivity, Fields
  <2> QED BY <1>1, <2>2, ProcessIdleActivityType
<1> HIDE DEF i
<1>3. RxWith(d, BufferType) /\ InSeq(c, d.commands)
  BY <1>1, <1>2, ProcessCompoundActivityType, CompoundKeeps
<1> HIDE DEF d
<1>4. InSeq(c, ProcessBufferedActivity(d).commands)  BY <1>3, BufferedKeeps
<1> QED BY <1>4 DEF ProcessActivity, p, i, d

\* What one pass does with a buffer of m.
Passes(b, m, c, s) ==
  \/ /\ JoinReady(b) /\ ToCommand(Joined(b).cmd, << >>) = Understood(m)
  \/ /\ ~JoinReady(b) /\ c = Joined(b)
     /\ \/ Closed(c) /\ Valid(c) /\ ToCommand(c.cmd, TextOf(c)) = Understood(m)
        \/ ~Closed(c) /\ Fresh(c, DropAfter) /\ s

\* A pass joins the buffer of m, and then hands the message on when it is complete,
\* or leaves the buffer at its stage.
LEMMA BufferPass ==
  ASSUME NEW m \in Messages, IsCommandAllowed(m.cmd), NEW j \in 1..Len(BuildMessageFrames(m)),
         NEW a \in Nat, a <= CloseAfter, a + Period <= DropAfter, NEW b \in BufferType,
         Stage(b, m, j, a) \/ (j = 2 /\ Len(HeadOf(m)) = 2 /\ Open(b, m, a))
  PROVE  Passes(b, m, Joined(b), j < Len(BuildMessageFrames(m)) /\ Stage(Joined(b), m, j, a))
<1> DEFINE h == Len(HeadOf(m))
           t == Len(m.text)
           n == Len(BuildMessageFrames(m))
<1>1. h \in {1, 2} /\ t \in Nat /\ n = h + t  BY HeadFrames, FrameIs
<1>2. j \in 1..n  OBVIOUS
<1>3. m.text = << >> <=> t = 0
  <2>1. m.text \in Seq(STRING)  BY RxAssumption
  <2> QED BY <2>1, EmptySeq
<1>4. Joined(b) \in BufferType  BY JoinedKeeps
<1>5. CASE j = 1 /\ h = 2 /\ Opened(b, m, a)
  <2>1. Joined(b) = b /\ ~JoinReady(b)
    <3>1. Partial \notin {b.cmd["from"], b.cmd["to"]} /\ ~b.cmd.last  BY <1>5 DEF Opened
    <3>2. Joined(b) = b  BY <3>1, JoinedSame
    <3> QED BY <3>1, <3>2 DEF JoinReady
  <2>2. ~Closed(b)  BY <1>5 DEF Opened, Closed
  <2>3. Fresh(b, DropAfter)
    <3>1. b.compound[1].age <= a /\ Len(b.compound) = 1  BY <1>5 DEF Opened, Called
    <3>2. b.compound[1].age \in Ages
      <4>1. b.compound \in Seq(CallType)  BY DEF BufferType
      <4>2. b.compound[1] \in CallType  BY <3>1, <4>1, ElementOfSeq
      <4> QED BY <4>2 DEF CallType
    <3>3. b.compound[1].age <= DropAfter  BY <3>1, <3>2, Numbers DEF Ages, OldAge
    <3> QED BY <3>1, <3>3, Numbers, FreshPart
  <2>4. j < n
    <3> HIDE DEF h, t, n
    <3> QED BY <1>1, <1>2, <1>3, <1>5
  <2>5. Stage(b, m, j, a)  BY <1>5 DEF Stage
  <2> QED BY <2>1, <2>2, <2>3, <2>4, <2>5 DEF Passes
<1>6. CASE j = 2 /\ h = 2 /\ Open(b, m, a)
  <2> DEFINE c == Joined(b)
  <2>1. /\ b.compound # << >> /\ CanJoin(b) /\ c.compound = << >> /\ c.msgs = << >>
        /\ SameHeader(c.cmd, m) /\ c.cmd.last = (m.text = << >>) /\ c.cmd.age <= a + Period
    BY <1>6, JoinedOpen
  <2>2. Understood(m) = ToCommand(m, m.text)  BY <1>6, HeadFrames
  <2>3. JoinReady(b) <=> m.text = << >>  BY <2>1 DEF JoinReady
  <2> HIDE DEF c
  <2>4. CASE m.text = << >>
    <3>1. ToCommand(c.cmd, << >>) = Understood(m)  BY <2>1, <2>2, <2>4 DEF ToCommand, SameHeader
    <3> QED BY <2>3, <2>4, <3>1 DEF Passes, c
  <2>5. CASE m.text # << >>
    <3>1. Filled(c, m, 0, a)
      <4>1. Len(c.msgs) = 0  BY <2>1
      <4>2. 0 \in Nat /\ ~(0 > 0) /\ 1..0 = {}  OBVIOUS
      <4> QED BY <2>1, <2>5, <4>1, <4>2 DEF Filled
    <3>2. j < n /\ j >= h /\ j - h = 0 /\ 0 \in Nat /\ 0 < t
      <4> HIDE DEF h, t, n
      <4> QED BY <1>1, <1>2, <1>3, <1>6, <2>5
    <3>3. Stage(c, m, j, a)  BY <2>2, <3>1, <3>2 DEF Stage
    <3>4. Fresh(c, DropAfter) /\ ~Closed(c)
      <4>1. c \in BufferType /\ 0 <= Len(m.text)  BY <1>1, <1>4 DEF c
      <4> QED BY <3>1, <3>2, <4>1, FilledPass
    <3> QED BY <2>3, <2>5, <3>2, <3>3, <3>4 DEF Passes, c
  <2> QED BY <2>4, <2>5
<1>7. CASE j >= h /\ Filled(b, m, j - h, a) /\ Understood(m) = ToCommand(m, m.text)
  <2> DEFINE k == j - h
  <2>1. k \in Nat /\ k <= t /\ (k < t \/ k = t) /\ (k < t => j < n)
    <3> HIDE DEF h, t, n
    <3> QED BY <1>1, <1>2, <1>7
  <2>2. Filled(b, m, k, a)  BY <1>7
  <2>3. Stage(b, m, j, a)  BY <1>7 DEF Stage
  <2> HIDE DEF k
  <2>4. /\ Fresh(b, DropAfter) /\ ~JoinReady(b) /\ Joined(b) = b
        /\ k < t => ~Closed(b)
        /\ k = t => Closed(b) /\ Valid(b) /\ ToCommand(b.cmd, TextOf(b)) = ToCommand(m, m.text)
    BY <2>1, <2>2, FilledPass
  <2> QED BY <1>7, <2>1, <2>3, <2>4 DEF Passes
<1> QED BY <1>5, <1>6, <1>7 DEF Stage

\* A pass over the buffers keeps the buffer of m, or hands m on.
LEMMA PassStage ==
  ASSUME NEW r, RxWith(r, BufferType), NEW m \in Messages, IsCommandAllowed(m.cmd),
         NEW o \in DOMAIN r.buffers, ~(2 * r.band[o].age >= 3 * Period),
         NEW j \in 1..Len(BuildMessageFrames(m)), NEW a \in Nat, a <= CloseAfter, a + Period <= DropAfter,
         Stage(r.buffers[o], m, j, a) \/ (j = 2 /\ Len(HeadOf(m)) = 2 /\ Open(r.buffers[o], m, a)),
         NEW done, done = ProcessActivity(r)
  PROVE  \/ InSeq(Understood(m), done.commands)
         \/ /\ j < Len(BuildMessageFrames(m)) /\ o \in DOMAIN done.buffers
            /\ Stage(done.buffers[o], m, j, a)
<1> DEFINE p == ProcessRxActivity(r)
           i == ProcessIdleActivity(p)
           d == ProcessCompoundActivity(i)
           b == r.buffers[o]
<1>1. RxWith(p, BufferType) /\ p.buffers = r.buffers /\ p.band = r.band
  <2>1. RxWith([r EXCEPT !.pending = FALSE], BufferType)  BY OtherFields
  <2>2. DOMAIN r = Fields  BY DEF RxWith
  <2> QED BY <2>1, <2>2 DEF ProcessRxActivity, Fields
<1>2. b \in BufferType  BY DEF RxWith, MapTo
<1>3. done = ProcessBufferedActivity(d)  BY DEF ProcessActivity
<1> HIDE DEF p
<1>4. RxWith(i, BufferType) /\ o \in DOMAIN i.buffers /\ i.buffers[o] = b
  <2>1. DOMAIN p = Fields  BY <1>1 DEF RxWith
  <2> QED BY <1>1, <2>1, ProcessIdleActivityType, IdleKeeps
<1> HIDE DEF i
<1>5. RxWith(d, BufferType)  BY <1>4, ProcessCompoundActivityType
<1>6. IF JoinReady(b) THEN InSeq(ToCommand(Joined(b).cmd, << >>), d.commands)
      ELSE o \in DOMAIN d.buffers /\ d.buffers[o] = Joined(b)
  BY <1>4, CompoundKeeps
<1> HIDE DEF d
<1> DEFINE S == j < Len(BuildMessageFrames(m)) /\ Stage(Joined(b), m, j, a)
<1>7. Passes(b, m, Joined(b), S)  BY <1>2, BufferPass
<1>8. CASE JoinReady(b)
  <2>1. InSeq(Understood(m), d.commands)  BY <1>6, <1>7, <1>8 DEF Passes
  <2> QED BY <1>3, <1>5, <2>1, BufferedKeeps
<1>9. CASE ~JoinReady(b)
  <2> DEFINE c == Joined(b)
  <2>1. o \in DOMAIN d.buffers /\ d.buffers[o] = c  BY <1>6, <1>9
  <2>2. \/ Closed(c) /\ Valid(c) /\ ToCommand(c.cmd, TextOf(c)) = Understood(m)
        \/ ~Closed(c) /\ Fresh(c, DropAfter) /\ S
    BY <1>7, <1>9 DEF Passes
  <2> HIDE DEF c, b
  <2>3. /\ Closed(c) /\ Valid(c) => InSeq(ToCommand(c.cmd, TextOf(c)), done.commands)
        /\ Fresh(c, DropAfter) /\ ~Closed(c) => o \in DOMAIN done.buffers /\ done.buffers[o] = c
    BY <1>3, <1>5, <2>1, BufferedKeeps
  <2> QED BY <2>2, <2>3 DEF c
<1> QED BY <1>8, <1>9

-----------------------------------------------------------------------------
(* The message on the air, frame by frame.                                 *)

\* The frames of different messages differ, and so do those of one.
KeysDiffer == \A m, n \in Messages :
  \A i \in DOMAIN BuildMessageFrames(m), j \in DOMAIN BuildMessageFrames(n) :
    BuildMessageFrames(m)[i].key = BuildMessageFrames(n)[j].key => m = n /\ i = j

\* A buffer outlives the wait for the next frame.
Patient == Period + 1 <= CloseAfter /\ 2 * Period + 1 <= DropAfter

\* Which frame of the last message is to come or on the air, which has been
\* decoded last, and how long ago that was at the most.
Cur == Len(BuildMessageFrames(Last(sent))) - Len(onAir) + 1
Heard == IF lines > 0 THEN Cur ELSE Cur - 1
HeardAge == IF lines > 0 THEN (second % Period) - DecodeAt ELSE (second % Period) + 2

\* Message m is among the commands cs or ps, or a buffer of r that is near one of
\* the offsets P holds its first j frames, of which l lines at least are of this
\* period.
Made(m, cs, ps) == InSeq(Understood(m), cs) \/ InSeq(Understood(m), ps)
Staged(b, m, j, a, l) ==
  Stage(b, m, j, a) \/ (l > 0 /\ j = 2 /\ Len(HeadOf(m)) = 2 /\ Open(b, m, a))
Buffered(r, P, m, j, a, l) == \E o \in DOMAIN r.buffers \cap DOMAIN r.band :
  /\ \E p \in P : Close(o, p)
  /\ r.band[o].age <= a /\ Staged(r.buffers[o], m, j, a, l)

\* Frames are in the cache once they have been decoded.
CacheWhose == \A c \in rx.cache : \E n \in DOMAIN sent : \E i \in DOMAIN BuildMessageFrames(sent[n]) :
  /\ c.key = BuildMessageFrames(sent[n])[i].key
  /\ n = Len(sent) /\ onAir # << >> => i < Cur \/ (i = Cur /\ lines > 0)
LinesHandled == onAir # << >> /\ lines > 0 => Handled
Decoded == /\ decoded => second % Period = Period - 1
           /\ decoded /\ onAir # << >> /\ ~missed => lines > 0
Progress == onAir # << >> /\ ~missed /\ IsCommandAllowed(Last(sent).cmd) /\ Heard > 0 =>
  \/ Made(Last(sent), rx.commands, processed)
  \/ Buffered(rx, place, Last(sent), Heard, HeardAge, lines)
WholeMade == \A n \in whole : IsCommandAllowed(sent[n].cmd) =>
  \/ InSeq(Understood(sent[n]), processed)
  \/ n = Len(sent) /\ Len(onAir) = 1 /\ lines > 0 /\ ~missed /\ decoded

HeardInv == /\ BandOK /\ CacheWhose /\ LinesHandled
            /\ Decoded /\ Progress /\ WholeMade

\* The frame on the air is one of the last message.
LEMMA CurFacts ==
  ASSUME IInv, OnAirOK, onAir # << >>
  PROVE  LET F == BuildMessageFrames(Last(sent))
         IN  /\ Len(sent) \in DOMAIN sent /\ Last(sent) = sent[Len(sent)] /\ Last(sent) \in Messages
             /\ Len(F) \in Nat /\ DOMAIN F = 1..Len(F) /\ Len(onAir) \in Nat /\ Len(onAir) >= 1
             /\ Cur \in DOMAIN F /\ Cur \in 1..Len(F) /\ Head(onAir) = F[Cur] /\ Head(onAir) \in Frames
             /\ (Head(onAir).last <=> Len(onAir) = 1) /\ (Cur = Len(F) <=> Len(onAir) = 1)
<1> DEFINE m == Last(sent)
           F == BuildMessageFrames(m)
           a == Len(onAir)
           f == Len(F)
<1>1. /\ Len(sent) \in DOMAIN sent /\ m = sent[Len(sent)] /\ m \in Messages
      /\ a \in Nat /\ a >= 1 /\ Head(onAir) \in Frames
  BY OnAirFacts
<1>2. f \in Nat /\ DOMAIN F = 1..f  BY <1>1, FramesAre, LenProperties
<1>3. Head(onAir) = onAir[1] /\ DOMAIN onAir = 1..a
  <2>1. onAir \in Seq(Frames)  BY DEF IInv
  <2> QED BY <2>1, HeadTailProperties, LenProperties
<1>4. a <= f /\ \A i \in DOMAIN onAir : onAir[i] = F[f - a + i]  BY DEF OnAirOK
<1>5. Cur = f - a + 1  BY DEF Cur
<1>6. \A i \in DOMAIN F : F[i].last = (i = f)  BY <1>1, FrameIs
<1> HIDE DEF a, f, F, m
<1>7. Cur \in 1..f /\ (Cur = f <=> a = 1) /\ 1 \in 1..a  BY <1>1, <1>2, <1>4, <1>5
<1>8. Head(onAir) = F[Cur]  BY <1>3, <1>4, <1>5, <1>7
<1>9. Head(onAir).last <=> a = 1  BY <1>2, <1>6, <1>7, <1>8
<1> QED BY <1>1, <1>2, <1>7, <1>8, <1>9 DEF a, f, F, m

\* The seconds since the last frame.
LEMMA HeardAgeFacts ==
  ASSUME IInv, Timing
  PROVE  /\ second % Period \in 0..Period - 1 /\ HeardAge \in Nat /\ HeardAge <= Period + 1
         /\ lines > 0 => second % Period >= DecodeAt
<1>1. second % Period \in 0..Period - 1 /\ lines \in Nat /\ Period \in Nat /\ DecodeAt = Period - 2
  BY InPeriod, Numbers DEF IInv, DecodeAt
<1>2. lines > 0 => second % Period >= DecodeAt  BY <1>1 DEF Timing
<1>3. CASE lines > 0  BY <1>1, <1>2, <1>3 DEF HeardAge
<1>4. CASE ~(lines > 0)  BY <1>1, <1>4, Numbers DEF HeardAge
<1> QED BY <1>1, <1>2, <1>3, <1>4

\* Nothing has been heard at the start.
LEMMA InitHeard == Init => HeardInv
<1> SUFFICES ASSUME Init PROVE HeardInv
  OBVIOUS
<1>1. /\ lines = 0 /\ decoded = FALSE /\ onAir = << >> /\ whole = {}
      /\ rx.band = << >> /\ rx.buffers = << >> /\ rx.cache = {}
  BY DEF Init
<1> QED BY <1>1 DEF HeardInv, BandOK, Sparse, CacheWhose, LinesHandled, Decoded, Progress, WholeMade

\* Nothing of a message has been heard when it begins.
LEMMA SendHeard ==
  ASSUME NEW m \in Messages, IInv, Timing, HeardInv, Send(m)
  PROVE  HeardInv'
<1> DEFINE F == BuildMessageFrames(m)
           l == Len(sent)
<1>1. /\ onAir' = F /\ sent' = Append(sent, m) /\ second % Period = 0 /\ missed' = FALSE
      /\ UNCHANGED <<second, lines, decoded, rx, whole, processed>>
  BY DEF Send
<1>2. sent \in Seq(Messages) /\ DOMAIN sent = 1..l /\ l \in Nat /\ whole \subseteq 1..l
  BY LenProperties DEF IInv, HistoryOK
<1>3. /\ Len(sent') = l + 1 /\ Last(sent') = m /\ DOMAIN sent' = 1..l + 1
      /\ \A i \in DOMAIN sent : sent'[i] = sent[i]
  BY <1>1, <1>2, AppendProperties, LenProperties DEF Last
<1>4. lines = 0 /\ ~decoded
  <2>1. 0 < DecodeAt  BY Numbers DEF DecodeAt
  <2> QED BY <1>1, <2>1 DEF Timing
<1> HIDE DEF l
<1>5. CacheWhose'
  <2> SUFFICES ASSUME NEW c \in rx'.cache
               PROVE  \E n \in DOMAIN sent' : \E i \in DOMAIN BuildMessageFrames(sent'[n]) :
                        /\ c.key = BuildMessageFrames(sent'[n])[i].key
                        /\ n # Len(sent')
    BY DEF CacheWhose
  <2>1. PICK n \in DOMAIN sent : \E i \in DOMAIN BuildMessageFrames(sent[n]) :
               c.key = BuildMessageFrames(sent[n])[i].key
    BY <1>1 DEF HeardInv, CacheWhose
  <2>2. sent'[n] = sent[n] /\ n \in DOMAIN sent' /\ n # Len(sent')  BY <1>2, <1>3
  <2> QED BY <2>1, <2>2
<1>6. Progress'
  <2>1. Heard' = Cur' - 1
    <3>1. ~(lines' > 0)  BY <1>1, <1>4
    <3> QED BY <3>1, Zenon DEF Heard
  <2>2. Cur' = Len(F) - Len(F) + 1  BY <1>1, <1>3 DEF Cur
  <2>3. Len(F) \in Nat  BY FramesAre, LenProperties
  <2> HIDE DEF F
  <2>4. ~(Heard' > 0)  BY <2>1, <2>2, <2>3
  <2> QED BY <2>4 DEF Progress
<1>7. WholeMade'
  <2> SUFFICES ASSUME NEW n \in whole, IsCommandAllowed(sent'[n].cmd)
               PROVE  InSeq(Understood(sent'[n]), processed)
    BY <1>1 DEF WholeMade
  <2>1. sent'[n] = sent[n]  BY <1>2, <1>3
  <2> QED BY <1>4, <2>1 DEF HeardInv, WholeMade
<1>8. BandOK' /\ LinesHandled' /\ Decoded'
  BY <1>1, <1>4 DEF HeardInv, BandOK, LinesHandled, Decoded
<1> QED BY <1>5, <1>6, <1>7, <1>8 DEF HeardInv

\* The decoder is done: a message is whole when its last frame has been heard.
LEMMA CleanHeard ==
  ASSUME IInv, OnAirOK, HeardInv, DecodeDone \/ OtherDecodeDone
  PROVE  HeardInv'
<1>1. /\ rx' = [rx EXCEPT !.cache = {c \in @ : c.age <= Period}]
      /\ UNCHANGED <<second, place, onAir, lines, sent, processed>>
  BY DEF DecodeDone, OtherDecodeDone
<1>2. /\ rx'.buffers = rx.buffers /\ rx'.band = rx.band /\ rx'.commands = rx.commands
      /\ rx'.cache \subseteq rx.cache
  <2>1. DOMAIN rx = Fields  BY DEF IInv, RxWith
  <2> QED BY <1>1, <2>1 DEF Fields
<1>3. missed => missed'  BY DEF DecodeDone, OtherDecodeDone
<1>4. Cur' = Cur /\ Heard' = Heard /\ HeardAge' = HeardAge  BY <1>1 DEF Cur, Heard, HeardAge
<1>5. BandOK'  BY <1>2 DEF HeardInv, BandOK
<1>6. CacheWhose'  BY <1>1, <1>2, <1>4 DEF HeardInv, CacheWhose
<1>7. LinesHandled'  BY <1>1, CleanHandled DEF HeardInv, LinesHandled
<1>8. Decoded'
  <2>1. CASE OtherDecodeDone  BY <1>1, <2>1 DEF HeardInv, Decoded, OtherDecodeDone
  <2>2. CASE DecodeDone
    <3>1. second % Period = Period - 1 /\ missed' = (missed \/ (onAir # << >> /\ lines = 0))
      BY <2>2 DEF DecodeDone
    <3>2. lines = 0 \/ lines > 0  BY Numbers DEF IInv
    <3> QED BY <1>1, <3>1, <3>2, Zenon DEF Decoded
  <2> QED BY <2>1, <2>2
<1>9. Progress'
  BY <1>1, <1>2, <1>3, <1>4 DEF HeardInv, Progress, Buffered
<1>10. WholeMade'
  <2> SUFFICES ASSUME NEW n \in whole', IsCommandAllowed(sent[n].cmd)
               PROVE  \/ InSeq(Understood(sent[n]), processed)
                      \/ n = Len(sent) /\ Len(onAir) = 1 /\ lines > 0 /\ ~missed' /\ decoded'
    BY <1>1 DEF WholeMade
  <2>1. CASE OtherDecodeDone
    BY <2>1 DEF HeardInv, WholeMade, OtherDecodeDone
  <2>2. CASE DecodeDone
    <3>1. /\ ~decoded /\ decoded'
          /\ missed' = (missed \/ (onAir # << >> /\ lines = 0))
          /\ whole' = IF onAir # << >> /\ Head(onAir).last /\ ~missed'
                      THEN whole \cup {Len(sent)} ELSE whole
      BY <2>2 DEF DecodeDone
    <3>2. CASE n \in whole  BY <3>1, <3>2 DEF HeardInv, WholeMade
    <3>3. CASE n \notin whole
      <4>1. n = Len(sent) /\ onAir # << >> /\ Head(onAir).last /\ ~missed'  BY <3>1, <3>3
      <4>2. Len(onAir) = 1  BY <4>1, CurFacts
      <4>3. lines > 0
        <5>1. lines # 0  BY <3>1, <4>1, Zenon
        <5>2. lines \in Nat  BY Numbers DEF IInv
        <5> QED BY <5>1, <5>2
      <4> QED BY <3>1, <4>1, <4>2, <4>3
    <3> QED BY <3>2, <3>3
  <2> QED BY <2>1, <2>2
<1> QED BY <1>5, <1>6, <1>7, <1>8, <1>9, <1>10 DEF HeardInv

\* A line is no duplicate unless another was printed for the frame before.
LEMMA FirstLine ==
  ASSUME KeysDiffer, NEW o, IInv, OnAirOK, CacheWhose, onAir # << >>, ~(lines > 0)
  PROVE  ~IsDuplicate(rx.cache, Head(onAir), o)
<1> DEFINE F == BuildMessageFrames(Last(sent))
<1>1. /\ Len(sent) \in DOMAIN sent /\ Last(sent) = sent[Len(sent)] /\ Last(sent) \in Messages
      /\ Cur \in DOMAIN F /\ Cur \in 1..Len(F) /\ Head(onAir) = F[Cur]
  BY CurFacts
<1> SUFFICES ASSUME NEW c \in rx.cache, c.key = Head(onAir).key PROVE FALSE
  BY Zenon DEF IsDuplicate
<1>2. PICK n \in DOMAIN sent : \E i \in DOMAIN BuildMessageFrames(sent[n]) :
        /\ c.key = BuildMessageFrames(sent[n])[i].key
        /\ n = Len(sent) /\ onAir # << >> => i < Cur \/ (i = Cur /\ lines > 0)
  BY Zenon DEF CacheWhose
<1>3. PICK i \in DOMAIN BuildMessageFrames(sent[n]) :
        /\ c.key = BuildMessageFrames(sent[n])[i].key
        /\ n = Len(sent) => i < Cur
  BY <1>2, Zenon
<1>4. sent[n] \in Messages  BY ReachInt
<1>5. sent[n] = Last(sent) /\ i = Cur
  <2> HIDE DEF F
  <2>1. c.key = F[Cur].key  BY <1>1
  <2>2. BuildMessageFrames(sent[n])[i].key = BuildMessageFrames(Last(sent))[Cur].key
    BY <1>3, <2>1 DEF F
  <2>3. Cur \in DOMAIN BuildMessageFrames(Last(sent))  BY <1>1 DEF F
  <2>4. \A x, y \in Messages : \A a \in DOMAIN BuildMessageFrames(x), b \in DOMAIN BuildMessageFrames(y) :
          BuildMessageFrames(x)[a].key = BuildMessageFrames(y)[b].key => x = y /\ a = b
    BY Zenon DEF KeysDiffer
  <2>5. Last(sent) \in Messages  BY <1>1
  <2> QED BY <1>4, <2>2, <2>3, <2>4, <2>5
<1>6. n = Len(sent)  BY <1>1, <1>5, Zenon DEF OnAirOK
<1>7. Cur < Cur /\ Cur \in Int  BY <1>1, <1>3, <1>5, <1>6
<1> QED BY <1>7

\* What is close to what a line has moved is what it has moved.
LEMMA LineBand ==
  ASSUME PlacesApart, NEW r, Sparse(DOMAIN r.band), NEW o \in Offsets, NEW q, LineMade(r, q, o)
  PROVE  Sparse(DOMAIN q.band) /\ DOMAIN q.buffers \subseteq DOMAIN q.band /\ o \in DOMAIN q.band
<1>1. /\ DOMAIN q.band = {p \in DOMAIN r.band : ~Close(p, o)} \cup {o}
      /\ DOMAIN q.buffers \subseteq DOMAIN q.band
  BY DEF LineMade
<1>2. DOMAIN q.band \subseteq Offsets  BY <1>1 DEF Sparse
<1>3. \A p, x \in DOMAIN q.band : Close(p, x) => p = x
  <2> TAKE p, x \in DOMAIN q.band
  <2> HAVE Close(p, x)
  <2>1. Close(x, p)  BY <1>2, CloseFacts
  <2>2. (p \in DOMAIN r.band /\ x \in DOMAIN r.band) \/ p = x  BY <1>1, <2>1
  <2> QED BY <2>2 DEF Sparse
<1> QED BY <1>1, <1>2, <1>3 DEF Sparse

\* The first line for a frame takes the buffer of its message further.
LEMMA LineProgress ==
  ASSUME PlacesApart, NEW o \in Offsets, IInv, OnAirOK, Timing, BandOK, Progress, Line(o),
         ~(lines > 0), ~IsDuplicate(rx.cache, Head(onAir), o)
  PROVE  BandOK' /\ Progress'
<1> DEFINE f == Head(onAir)
           m == Last(sent)
           F == BuildMessageFrames(m)
           n == DropAfter + (second % Period)
           a == (second % Period) - DecodeAt
<1>1. /\ onAir # << >> /\ o \in place /\ rx' = ProcessDecodedLine(rx, f, o) /\ lines' = lines + 1
      /\ second % Period >= DecodeAt /\ place \in Places
      /\ UNCHANGED <<second, place, onAir, sent, missed, processed>>
  BY DEF Line, IInv
<1>2. /\ m \in Messages /\ Cur \in DOMAIN F /\ Cur \in 1..Len(F) /\ f = F[Cur] /\ f \in Frames
  BY <1>1, CurFacts
<1>3. /\ Cur' = Cur /\ Heard' = Cur /\ Heard = Cur - 1 /\ lines' > 0
      /\ HeardAge' = a /\ a \in Nat /\ HeardAge = a + Period
  <2>1. lines' > 0  BY <1>1, Numbers DEF IInv
  <2>2. Cur' = Cur  BY <1>1 DEF Cur
  <2>3. Heard' = Cur /\ Heard = Cur - 1  BY <2>1, <2>2, Zenon DEF Heard
  <2>4. HeardAge' = a /\ HeardAge = (second % Period) + 2
    BY <1>1, <2>1, Zenon DEF HeardAge
  <2>5. second % Period \in Nat /\ DecodeAt = Period - 2 /\ Period \in Nat /\ Period > 2
    BY InPeriod, Numbers DEF IInv, DecodeAt
  <2> QED BY <1>1, <2>1, <2>2, <2>3, <2>4, <2>5
<1>4. n \in Nat /\ RxWith(rx, YoungBuffer(n))  BY Numbers, InPeriod DEF IInv
<1>5. MapTo(rx.buffers, BufferType) /\ rx.commands \in Seq(CommandType)
  <2> HIDE DEF n
  <2> QED BY <1>4, YoungRx DEF RxWith
<1> HIDE DEF f, n
<1>6. /\ LineMade(rx, rx', o) /\ rx'.band[o].age = 0
      /\ \E b \in BufferType : Finds(rx, f, o, b) /\ Leaves(rx, rx', f, o, b)
  BY <1>1, <1>2, <1>4, LineIs DEF BandOK, f
<1>7. BandOK' /\ o \in DOMAIN rx'.band  BY <1>6, LineBand DEF BandOK
<1> HIDE DEF a
<1>8. Progress'
  <2> SUFFICES ASSUME ~missed, IsCommandAllowed(m.cmd)
               PROVE  Made(m, rx'.commands, processed) \/ Buffered(rx', place, m, Cur, a, lines')
    BY <1>1, <1>3 DEF Progress
  <2>1. PICK b \in BufferType : Finds(rx, f, o, b) /\ Leaves(rx, rx', f, o, b)  BY <1>6
  <2>2. CASE InSeq(Understood(m), processed)
    BY <1>1, <2>2 DEF Made
  <2>3. CASE ~InSeq(Understood(m), processed)
    <3>1. ASSUME Cur > 1
          PROVE  \/ InSeq(Understood(m), rx.commands)
                 \/ \E p \in DOMAIN rx.buffers : Close(p, o) /\ Stage(rx.buffers[p], m, Cur - 1, a + Period)
      <4>1. Heard > 0  BY <1>2, <1>3, <3>1
      <4>2. Made(m, rx.commands, processed) \/ Buffered(rx, place, m, Cur - 1, a + Period, lines)
        BY <1>1, <1>3, <4>1 DEF Progress
      <4>3. CASE Made(m, rx.commands, processed)  BY <2>3, <4>3 DEF Made
      <4>4. CASE Buffered(rx, place, m, Cur - 1, a + Period, lines)
        <5>1. PICK p \in DOMAIN rx.buffers \cap DOMAIN rx.band :
                (\E x \in place : Close(p, x)) /\ Stage(rx.buffers[p], m, Cur - 1, a + Period)
          BY <4>4 DEF Buffered, Staged
        <5>2. PICK x \in place : Close(p, x)  BY <5>1
        <5>3. p \in Offsets /\ x \in Offsets /\ Close(x, o)
          BY <1>1, OffsetFacts DEF BandOK, Sparse, Close
        <5>4. Close(p, o)  BY <5>2, <5>3, CloseFacts
        <5> QED BY <5>1, <5>4
      <4> QED BY <4>2, <4>3, <4>4
    <3>2. f \in FrameType /\ f = BuildMessageFrames(m)[Cur]  BY <1>2, FramesAre
    <3>3. \/ InSeq(Understood(m), rx'.commands)
          \/ /\ o \in DOMAIN rx'.buffers
             /\ \/ Stage(rx'.buffers[o], m, Cur, a)
                \/ (Cur = 2 /\ Len(HeadOf(m)) = 2 /\ Open(rx'.buffers[o], m, a))
      <4> HIDE DEF m
      <4> QED BY <1>2, <1>3, <1>5, <2>1, <3>1, <3>2, LineStage
    <3>4. Close(o, o)  BY CloseFacts
    <3>5. 0 <= a  BY <1>3
    <3>6. Stage(rx'.buffers[o], m, Cur, a) \/ (Cur = 2 /\ Len(HeadOf(m)) = 2 /\ Open(rx'.buffers[o], m, a))
            => Staged(rx'.buffers[o], m, Cur, a, lines')
      BY <1>3 DEF Staged
    <3> QED BY <1>1, <1>6, <1>7, <3>3, <3>4, <3>5, <3>6 DEF Made, Buffered
  <2> QED BY <2>2, <2>3
<1> QED BY <1>7, <1>8

\* A line for a frame that has been heard is a duplicate; the first one is not.
LEMMA LineHeard ==
  ASSUME PlacesApart, KeysDiffer, NEW o \in Offsets, IInv, OnAirOK, Timing, HeardInv, Line(o)
  PROVE  HeardInv'
<1> DEFINE f == Head(onAir)
           F == BuildMessageFrames(Last(sent))
<1>1. /\ onAir # << >> /\ rx' = ProcessDecodedLine(rx, f, o) /\ lines' = lines + 1
      /\ UNCHANGED <<second, place, onAir, decoded, sent, missed, whole, processed>>
  BY DEF Line
<1>2. lines' > 0 /\ Cur' = Cur /\ lines \in Nat
  BY <1>1, Numbers DEF IInv, Cur
<1>3. Decoded' /\ WholeMade'
  BY <1>1, <1>2 DEF HeardInv, Decoded, WholeMade
<1>4. CASE lines > 0
  <2>1. IsDuplicate(rx.cache, f, o) /\ Handled
    BY <1>1, <1>4, LineHandled DEF HeardInv, LinesHandled
  <2>2. rx' = rx  BY <1>1, <2>1 DEF ProcessDecodedLine
  <2>3. Heard' = Heard /\ HeardAge' = HeardAge
    <3>1. Heard' = Cur /\ Heard = Cur  BY <1>2, <1>4, Zenon DEF Heard
    <3>2. HeardAge' = (second % Period) - DecodeAt /\ HeardAge = (second % Period) - DecodeAt
      BY <1>1, <1>2, <1>4, Zenon DEF HeardAge, DecodeAt
    <3> QED BY <3>1, <3>2
  <2>4. BandOK' /\ CacheWhose' /\ LinesHandled'
    BY <1>1, <1>2, <1>4, <2>1, <2>2 DEF HeardInv, BandOK, CacheWhose, LinesHandled, Handled, DecodeAt
  <2>5. Progress'
    BY <1>1, <1>2, <1>4, <2>2, <2>3 DEF HeardInv, Progress, Buffered, Staged
  <2> QED BY <1>3, <2>4, <2>5 DEF HeardInv
<1>5. CASE ~(lines > 0)
  <2>1. ~IsDuplicate(rx.cache, f, o)  BY <1>1, <1>5, FirstLine DEF HeardInv
  <2>2. BandOK' /\ Progress'  BY <1>5, <2>1, LineProgress DEF HeardInv
  <2>3. LinesHandled'  BY <2>1, LineHandled DEF LinesHandled
  <2>4. rx'.cache = CacheFrame(rx.cache, f, o)
    <3> DEFINE n == DropAfter + (second % Period)
    <3>1. n \in Nat /\ RxWith(rx, YoungBuffer(n))  BY Numbers, InPeriod DEF IInv
    <3>2. f \in Frames  BY <1>1, CurFacts
    <3> HIDE DEF n, f
    <3> QED BY <1>1, <2>1, <3>1, <3>2, ProcessDecodedLineTotal
  <2>5. CacheWhose'
    <3> SUFFICES ASSUME NEW c \in rx'.cache
                 PROVE  \E n \in DOMAIN sent : \E i \in DOMAIN BuildMessageFrames(sent[n]) :
                          /\ c.key = BuildMessageFrames(sent[n])[i].key
                          /\ n = Len(sent) => i < Cur \/ i = Cur
      BY <1>1, <1>2 DEF CacheWhose
    <3>1. CASE c \in rx.cache
      BY <1>1, <1>5, <3>1 DEF HeardInv, CacheWhose
    <3>2. CASE c.key = f.key
      <4>1. /\ Len(sent) \in DOMAIN sent /\ Last(sent) = sent[Len(sent)]
            /\ Cur \in DOMAIN F /\ f = F[Cur]
        BY <1>1, CurFacts
      <4> HIDE DEF f
      <4>2. c.key = BuildMessageFrames(sent[Len(sent)])[Cur].key  BY <3>2, <4>1
      <4> QED BY <4>1, <4>2
    <3> QED BY <2>4, <3>1, <3>2 DEF CacheFrame
  <2> QED BY <1>3, <2>2, <2>3, <2>5 DEF HeardInv
<1> QED BY <1>4, <1>5

\* What waits or has been taken up stays so.
LEMMA Appended ==
  ASSUME NEW s \in Seq(CommandType), NEW t \in Seq(CommandType)
  PROVE  \A c : InSeq(c, s) \/ InSeq(c, t) => InSeq(c, s \o t)
<1> DEFINE k == Len(s)
           n == Len(t)
           all == s \o t
<1>1. /\ k \in Nat /\ n \in Nat /\ DOMAIN s = 1..k /\ DOMAIN t = 1..n /\ DOMAIN all = 1..k + n
      /\ \A j \in 1..k + n : all[j] = IF j <= k THEN s[j] ELSE t[j - k]
  <2>1. /\ Len(all) = k + n /\ all \in Seq(CommandType)
        /\ \A j \in 1..k + n : all[j] = IF j <= k THEN s[j] ELSE t[j - k]
    BY ConcatProperties
  <2> HIDE DEF all
  <2> QED BY <2>1, LenProperties
<1> HIDE DEF all, k, n
<1>2. \A j \in DOMAIN s : j \in DOMAIN all /\ all[j] = s[j]  BY <1>1
<1>3. ASSUME NEW i \in DOMAIN t PROVE k + i \in DOMAIN all /\ all[k + i] = t[i]
  <2>1. k + i \in 1..k + n /\ ~(k + i <= k) /\ (k + i) - k = i  BY <1>1
  <2> QED BY <1>1, <2>1
<1>4. \A c : InSeq(c, s) \/ InSeq(c, t) => InSeq(c, all)  BY <1>2, <1>3 DEF InSeq
<1> QED BY <1>4 DEF all

\* What a second does with the buffers and the commands, with or without a pass.
Kept(r) == rx' = r /\ processed' = processed
Passed(done) == rx' = [done EXCEPT !.commands = << >>] /\ processed' = processed \o Taken(done.commands)

\* Every second makes all parts older, and some run a pass after that; each second
\* that begins a period does.
LEMMA SecondIs ==
  ASSUME IInv, GuiSecond
  PROVE  /\ RxWith(rx, BufferType) /\ RxWith(OlderRx(rx), BufferType)
         /\ OlderRx(rx).commands = rx.commands
         /\ DOMAIN OlderRx(rx).buffers = DOMAIN rx.buffers /\ DOMAIN OlderRx(rx).band = DOMAIN rx.band
         /\ \A o \in DOMAIN rx.buffers : OlderRx(rx).buffers[o] = OlderBuffer(rx.buffers[o])
         /\ \A o \in DOMAIN rx.band : /\ rx.band[o].age \in Ages
                                      /\ OlderRx(rx).band[o].age = Older(rx.band[o].age)
         /\ Kept(OlderRx(rx)) \/ Passed(ProcessActivity(OlderRx(rx)))
         /\ ((second + 1) % Day) % Period = 0 => Passed(ProcessActivity(OlderRx(rx)))
         /\ \A c \in rx'.cache : \E d \in rx.cache : c.key = d.key
<1> DEFINE r == OlderRx(rx)
           n == DropAfter + (second % Period)
           s == (second + 1) % Day
<1>1. n \in Nat  BY Numbers, InPeriod DEF IInv
<1>2. RxWith(rx, BufferType) /\ RxWith(r, BufferType)
  <2>1. RxWith(rx, YoungBuffer(n))  BY DEF IInv
  <2> HIDE DEF n, r
  <2>2. RxWith(r, YoungBuffer(n + 1))  BY <1>1, <2>1, OlderRxYoung DEF r
  <2>3. n + 1 \in Nat  BY <1>1
  <2> QED BY <1>1, <2>1, <2>2, <2>3, YoungRx
<1>3. /\ r.commands = rx.commands
      /\ r.buffers = [o \in DOMAIN rx.buffers |-> OlderBuffer(rx.buffers[o])]
      /\ r.band = OlderEach(rx.band)
      /\ r.cache = {[c EXCEPT !.age = Older(@)] : c \in rx.cache}
  <2>1. DOMAIN rx = Fields  BY <1>2 DEF RxWith
  <2> QED BY <2>1 DEF OlderRx, Fields
<1>4. \A o \in DOMAIN rx.band : rx.band[o].age \in Ages /\ r.band[o].age = Older(rx.band[o].age)
  <2> TAKE o \in DOMAIN rx.band
  <2>1. rx.band[o] \in AnyIdle  BY <1>2 DEF RxWith, MapTo
  <2>2. r.band[o] = [rx.band[o] EXCEPT !.age = Older(@)]  BY <1>3 DEF OlderEach
  <2> QED BY <2>1, <2>2 DEF AnyIdle
<1>5. Kept(r) \/ Passed(ProcessActivity(r))  BY DEF GuiSecond, Kept, Passed
<1>6. s % Period = 0 => Passed(ProcessActivity(r))
  BY Zenon DEF GuiSecond, Passed, ForceDirty
<1>7. \A c \in rx'.cache : \E d \in rx.cache : c.key = d.key
  <2>1. rx'.cache = r.cache  BY GuiSecondSpent
  <2> TAKE c \in rx'.cache
  <2>2. PICK d \in rx.cache : c = [d EXCEPT !.age = Older(@)]  BY <1>3, <2>1
  <2>3. d \in Cached  BY <1>2 DEF RxWith
  <2>4. c.key = d.key  BY <2>2, <2>3 DEF Cached
  <2> QED BY <2>4
<1> QED BY <1>2, <1>3, <1>4, <1>5, <1>6, <1>7 DEF OlderEach

\* A pass leaves the age of every offset.
LEMMA PassBand ==
  ASSUME NEW r, RxWith(r, BufferType), NEW done, done = ProcessActivity(r)
  PROVE  DOMAIN done.band = DOMAIN r.band /\ \A o \in DOMAIN r.band : done.band[o].age = r.band[o].age
<1> DEFINE p == ProcessRxActivity(r)
           i == ProcessIdleActivity(p)
           d == ProcessCompoundActivity(i)
<1>1. RxWith(p, BufferType) /\ p.band = r.band
  <2>1. RxWith([r EXCEPT !.pending = FALSE], BufferType)  BY OtherFields
  <2>2. DOMAIN r = Fields  BY DEF RxWith
  <2> QED BY <2>1, <2>2 DEF ProcessRxActivity, Fields
<1> HIDE DEF p
<1>2. /\ RxWith(i, BufferType) /\ DOMAIN i.band = DOMAIN p.band
      /\ \A o \in DOMAIN p.band : i.band[o] = p.band[o] \/ i.band[o] = [p.band[o] EXCEPT !.mfi = TRUE]
  <2>1. DOMAIN p = Fields  BY <1>1 DEF RxWith
  <2> DEFINE idle == {o \in DOMAIN p.band : /\ ~p.band[o].last /\ ~p.band[o].mfi
                                            /\ 2 * p.band[o].age >= 3 * Period}
  <2>2. i.band = [o \in DOMAIN p.band |->
                    IF o \in idle THEN [p.band[o] EXCEPT !.mfi = TRUE] ELSE p.band[o]]
    BY <2>1 DEF ProcessIdleActivity, Fields
  <2> HIDE DEF idle, i
  <2>3. RxWith(i, BufferType)  BY <1>1, ProcessIdleActivityType DEF i
  <2> QED BY <2>2, <2>3
<1> HIDE DEF i
<1>3. \A o \in DOMAIN p.band : i.band[o].age = p.band[o].age
  <2> TAKE o \in DOMAIN p.band
  <2>1. p.band[o] \in AnyIdle  BY <1>1 DEF RxWith, MapTo
  <2> QED BY <1>2, <2>1 DEF AnyIdle
<1>4. RxWith(d, BufferType) /\ d.band = i.band
  <2>1. DOMAIN i = Fields  BY <1>2 DEF RxWith
  <2>2. d.band = i.band  BY <2>1 DEF ProcessCompoundActivity, Fields
  <2> QED BY <1>2, <2>2, ProcessCompoundActivityType
<1> HIDE DEF d
<1>5. ProcessBufferedActivity(d).band = d.band
  <2>1. DOMAIN d = Fields  BY <1>4 DEF RxWith
  <2> QED BY <2>1 DEF ProcessBufferedActivity, Fields
<1>6. done = ProcessBufferedActivity(d)  BY DEF ProcessActivity, d, i, p
<1> QED BY <1>1, <1>2, <1>3, <1>4, <1>5, <1>6

\* What the receiver makes of a message can be taken up.
LEMMA UnderstoodFit ==
  ASSUME NEW m \in Messages, IsCommandAllowed(m.cmd)
  PROVE  Fit(Understood(m))
<1>1. Partial \notin {m.from, m.to}  BY HeadFrames
<1>2. \A text : Fit(ToCommand(m, text))  BY <1>1 DEF Fit, ToCommand
<1> QED BY <1>2 DEF Understood

\* A pass hands on what waits.
LEMMA PassMade ==
  ASSUME IInv, NEW r, RxWith(r, BufferType), NEW done, done = ProcessActivity(r), Passed(done),
         NEW m \in Messages, IsCommandAllowed(m.cmd)
  PROVE  /\ InSeq(Understood(m), processed) \/ InSeq(Understood(m), done.commands)
              \/ InSeq(Understood(m), r.commands) => InSeq(Understood(m), processed')
         /\ rx'.buffers = done.buffers /\ rx'.band = done.band
<1>1. RxWith(done, YoungBuffer(DropAfter))  BY ProcessActivityYoung
<1>2. done.commands \in Seq(CommandType) /\ DOMAIN done = Fields  BY <1>1 DEF RxWith
<1>3. processed \in Seq(CommandType)  BY DEF IInv, HistoryOK
<1>4. InSeq(Understood(m), r.commands) => InSeq(Understood(m), done.commands)  BY PassCommands
<1>5. InSeq(Understood(m), done.commands) => InSeq(Understood(m), Taken(done.commands))
  BY <1>2, UnderstoodFit, TakenAll
<1>6. \A c : InSeq(c, processed) \/ InSeq(c, Taken(done.commands)) => InSeq(c, processed')
  BY <1>2, <1>3, TakenType, Appended DEF Passed
<1>7. rx'.buffers = done.buffers /\ rx'.band = done.band  BY <1>2 DEF Passed, Fields
<1> QED BY <1>4, <1>5, <1>6, <1>7

\* The next frame of the message is decoded within a period, so that the last is
\* not older than that when the period ends.
LEMMA NextAge ==
  ASSUME IInv, Timing, Decoded, GuiSecond, onAir # << >>, ~missed
  PROVE  /\ HeardAge' = HeardAge + 1 /\ HeardAge \in Nat /\ HeardAge + 1 <= Period + 1
         /\ ((second + 1) % Day) % Period = 0 => lines > 0
<1> DEFINE s == (second + 1) % Day
           x == second % Period
           y == s % Period
<1>1. second' = s /\ (y = 0 => decoded /\ lines' = 0) /\ (y # 0 => lines' = lines)
  BY Zenon DEF GuiSecond
<1>2. x \in 0..Period - 1 /\ HeardAge \in Nat /\ (lines > 0 => x >= DecodeAt)
  BY HeardAgeFacts
<1>3. DecodeAt = Period - 2 /\ Period \in Nat /\ Period > 2  BY Numbers DEF DecodeAt
<1>4. y # 0 => y = x + 1 /\ y \in 0..Period - 1
  <2>1. second \in 0..Day - 1 /\ second' \in 0..Day - 1  BY GuiSecondRx DEF IInv
  <2>2. s \in 0..Day - 1  BY <1>1, <2>1
  <2>3. y # 0 => y = x + 1  BY <2>1, NextSecond
  <2> HIDE DEF s
  <2>4. y \in 0..Period - 1  BY <2>2, InPeriod
  <2> QED BY <2>3, <2>4
<1>5. /\ lines > 0 => HeardAge = x - DecodeAt
      /\ ~(lines > 0) => HeardAge = x + 2
      /\ lines' > 0 => HeardAge' = y - DecodeAt
      /\ ~(lines' > 0) => HeardAge' = y + 2
  <2>1. HeardAge = IF lines > 0 THEN x - DecodeAt ELSE x + 2  BY DEF HeardAge
  <2>2. HeardAge' = IF lines' > 0 THEN y - DecodeAt ELSE y + 2
    BY <1>1 DEF HeardAge, DecodeAt
  <2> HIDE DEF x, y
  <2> QED BY <2>1, <2>2
<1>6. y = 0 => x = Period - 1 /\ lines > 0  BY <1>1 DEF Decoded
<1> HIDE DEF s, x, y
<1>7. CASE y = 0
  <2>1. ~(lines' > 0)  BY <1>1, <1>7
  <2> QED BY <1>2, <1>3, <1>5, <1>6, <1>7, <2>1 DEF s, y
<1>8. CASE y # 0
  <2>1. lines' > 0 <=> lines > 0  BY <1>1, <1>8
  <2> QED BY <1>2, <1>3, <1>4, <1>5, <1>8, <2>1 DEF s, y
<1> QED BY <1>7, <1>8

\* A buffer a second later, after a pass or without one.
LEMMA SecondProgress ==
  ASSUME Patient, IInv, OnAirOK, Timing, Decoded, Progress, GuiSecond,
         onAir # << >>, ~missed, IsCommandAllowed(Last(sent).cmd), Heard > 0
  PROVE  LET m == Last(sent)
         IN  /\ Passed(ProcessActivity(OlderRx(rx))) =>
                  \/ InSeq(Understood(m), processed')
                  \/ /\ Heard < Len(BuildMessageFrames(m))
                     /\ Buffered(rx', place, m, Heard, HeardAge + 1, 0)
             /\ Kept(OlderRx(rx)) => \/ Made(m, rx'.commands, processed')
                                     \/ Buffered(rx', place, m, Heard, HeardAge + 1, lines)
<1> DEFINE m == Last(sent)
           F == BuildMessageFrames(m)
           r == OlderRx(rx)
           done == ProcessActivity(r)
           a == HeardAge + 1
           j == Heard
<1>1. /\ RxWith(rx, BufferType) /\ RxWith(r, BufferType) /\ r.commands = rx.commands
      /\ DOMAIN r.buffers = DOMAIN rx.buffers /\ DOMAIN r.band = DOMAIN rx.band
      /\ \A o \in DOMAIN rx.buffers : r.buffers[o] = OlderBuffer(rx.buffers[o])
      /\ \A o \in DOMAIN rx.band : /\ rx.band[o].age \in Ages
                                   /\ r.band[o].age = Older(rx.band[o].age)
  BY SecondIs
<1>2. m \in Messages /\ j \in 1..Len(F)
  <2>1. m \in Messages /\ Cur \in 1..Len(F) /\ Len(F) \in Nat  BY CurFacts
  <2>2. j = Cur \/ j = Cur - 1  BY DEF Heard
  <2> HIDE DEF F, m, j
  <2>3. j > 0  BY DEF j
  <2> QED BY <2>1, <2>2, <2>3
<1>3. HeardAge \in Nat /\ a \in Nat /\ a <= Period + 1  BY NextAge
<1>4. a <= CloseAfter /\ a + Period <= DropAfter  BY <1>3, Numbers DEF Patient
<1> HIDE DEF r, F, a, m, j
<1>5. CASE Made(m, rx.commands, processed)
  <2>1. Passed(done) => InSeq(Understood(m), processed')
    <3> HAVE Passed(done)
    <3>1. InSeq(Understood(m), processed) \/ InSeq(Understood(m), r.commands)
      BY <1>1, <1>5 DEF Made
    <3>2. IsCommandAllowed(m.cmd)  BY DEF m
    <3> HIDE DEF done
    <3>3. done = ProcessActivity(r)  BY DEF done
    <3> QED BY <1>1, <1>2, <3>1, <3>2, <3>3, PassMade
  <2>2. Kept(r) => Made(m, rx'.commands, processed')  BY <1>1, <1>5 DEF Kept, Made
  <2> QED BY <2>1, <2>2 DEF r, m
<1>6. CASE Buffered(rx, place, m, j, HeardAge, lines)
  <2>1. PICK o \in DOMAIN rx.buffers \cap DOMAIN rx.band :
          /\ \E p \in place : Close(o, p)
          /\ rx.band[o].age <= HeardAge /\ Staged(rx.buffers[o], m, j, HeardAge, lines)
    BY <1>6 DEF Buffered
  <2>2. r.band[o].age \in Nat /\ r.band[o].age <= a /\ o \in DOMAIN r.buffers \cap DOMAIN r.band
    <3>1. r.band[o].age = Older(rx.band[o].age) /\ rx.band[o].age \in Ages  BY <1>1
    <3>2. Older(rx.band[o].age) <= a  BY <1>3, <2>1, <3>1, OlderBound DEF a
    <3>3. Older(rx.band[o].age) \in Nat  BY <3>1, Numbers DEF Older, Ages, OldAge
    <3> QED BY <1>1, <3>1, <3>2, <3>3
  <2>3. rx.buffers[o] \in BufferType  BY <1>1 DEF RxWith, MapTo
  <2>4. r.buffers[o] = OlderBuffer(rx.buffers[o])  BY <1>1
  <2>5. Staged(r.buffers[o], m, j, a, lines)
    <3>1. /\ Opened(rx.buffers[o], m, HeardAge) => Opened(r.buffers[o], m, a)
          /\ Open(rx.buffers[o], m, HeardAge) => Open(r.buffers[o], m, a)
          /\ \A k \in Nat : Filled(rx.buffers[o], m, k, HeardAge) => Filled(r.buffers[o], m, k, a)
      BY <1>3, <2>3, <2>4, OlderStage DEF a
    <3>2. j >= Len(HeadOf(m)) => j - Len(HeadOf(m)) \in Nat
      <4>1. Len(HeadOf(m)) \in Nat  BY <1>2, HeadGood
      <4> QED BY <1>2, <4>1
    <3> QED BY <2>1, <3>1, <3>2 DEF Staged, Stage
  <2>6. Passed(done) => \/ InSeq(Understood(m), processed')
                        \/ j < Len(F) /\ Buffered(rx', place, m, j, a, 0)
    <3> HAVE Passed(done)
    <3>1. IsCommandAllowed(m.cmd)  BY DEF m
    <3>2. ~(2 * r.band[o].age >= 3 * Period)
      BY <1>3, <2>2, Numbers
    <3> HIDE DEF done
    <3>3. done = ProcessActivity(r)  BY DEF done
    <3>4. \/ InSeq(Understood(m), done.commands)
          \/ j < Len(F) /\ o \in DOMAIN done.buffers /\ Stage(done.buffers[o], m, j, a)
      BY <1>1, <1>2, <1>3, <1>4, <2>2, <2>5, <3>1, <3>2, <3>3, PassStage DEF Staged, F
    <3>5. /\ InSeq(Understood(m), done.commands) => InSeq(Understood(m), processed')
          /\ rx'.buffers = done.buffers /\ rx'.band = done.band
      BY <1>1, <1>2, <3>1, <3>3, PassMade
    <3>6. o \in DOMAIN done.band /\ done.band[o].age = r.band[o].age
      BY <1>1, <2>2, <3>3, PassBand
    <3> QED BY <2>1, <2>2, <3>4, <3>5, <3>6 DEF Buffered, Staged
  <2>7. Kept(r) => Buffered(rx', place, m, j, a, lines)
    BY <2>1, <2>2, <2>5 DEF Kept, Buffered
  <2> QED BY <2>6, <2>7 DEF r, m, F, a, j
<1>7. Made(m, rx.commands, processed) \/ Buffered(rx, place, m, j, HeardAge, lines)
  BY DEF Progress, m, j
<1> QED BY <1>5, <1>6, <1>7

\* A second takes the frame off the air, when it has been heard, and hands the
\* message on after its last frame.
LEMMA GuiSecondHeard ==
  ASSUME Patient, IInv, OnAirOK, Timing, HeardInv, GuiSecond
  PROVE  HeardInv'
<1> DEFINE s == (second + 1) % Day
           m == Last(sent)
           F == BuildMessageFrames(m)
           done == ProcessActivity(OlderRx(rx))
<1>1. /\ second' = s /\ UNCHANGED <<place, sent, missed, whole>>
      /\ s % Period = 0 => /\ decoded /\ lines' = 0 /\ decoded' = FALSE
                           /\ onAir' = IF onAir = << >> THEN onAir ELSE Tail(onAir)
      /\ s % Period # 0 => lines' = lines /\ decoded' = decoded /\ onAir' = onAir
  BY Zenon DEF GuiSecond
<1>2. onAir' # << >> => onAir # << >>  BY <1>1
<1>3. onAir # << >> =>
        /\ m \in Messages /\ Cur \in 1..Len(F) /\ Len(F) \in Nat /\ (Cur = Len(F) <=> Len(onAir) = 1)
        /\ Cur' = IF s % Period = 0 THEN Cur + 1 ELSE Cur
  <2> HAVE onAir # << >>
  <2>1. m \in Messages /\ Cur \in 1..Len(F) /\ Len(F) \in Nat /\ (Cur = Len(F) <=> Len(onAir) = 1)
        /\ Len(onAir) \in Nat
    BY CurFacts
  <2>2. s % Period = 0 => Len(onAir') = Len(onAir) - 1
    <3> HAVE s % Period = 0
    <3>1. onAir' = Tail(onAir) /\ onAir \in Seq(Frames)  BY <1>1 DEF IInv
    <3> QED BY <3>1, HeadTailProperties
  <2>3. Cur = Len(F) - Len(onAir) + 1 /\ Cur' = Len(F) - Len(onAir') + 1  BY <1>1 DEF Cur
  <2>4. s % Period # 0 => Len(onAir') = Len(onAir)  BY <1>1
  <2> HIDE DEF F, m, s
  <2>5. CASE s % Period = 0
    <3> DEFINE x == Len(onAir')
    <3>1. x = Len(onAir) - 1 /\ Cur' = Len(F) - x + 1  BY <2>2, <2>3, <2>5
    <3> HIDE DEF x
    <3>2. Cur' = Cur + 1  BY <2>1, <2>3, <3>1
    <3> QED BY <2>1, <2>5, <3>2
  <2>6. CASE s % Period # 0
    <3>1. Cur' = Cur  BY <2>3, <2>4, <2>6
    <3> QED BY <2>1, <2>6, <3>1
  <2> QED BY <2>5, <2>6
<1>4. BandOK'
  <2>1. \E r : Derived(rx, r) /\ rx'.buffers = r.buffers /\ rx'.band = r.band
    BY GuiSecondDerived DEF HeardInv
  <2> QED BY <2>1 DEF HeardInv, BandOK, Derived
<1>5. CacheWhose'
  <2> SUFFICES ASSUME NEW c \in rx'.cache
               PROVE  \E n \in DOMAIN sent : \E i \in DOMAIN BuildMessageFrames(sent[n]) :
                        /\ c.key = BuildMessageFrames(sent[n])[i].key
                        /\ n = Len(sent) /\ onAir' # << >> => i < Cur' \/ (i = Cur' /\ lines' > 0)
    BY <1>1 DEF CacheWhose
  <2>1. PICK d \in rx.cache : c.key = d.key  BY SecondIs
  <2>2. PICK n \in DOMAIN sent : \E i \in DOMAIN BuildMessageFrames(sent[n]) :
          /\ d.key = BuildMessageFrames(sent[n])[i].key
          /\ n = Len(sent) /\ onAir # << >> => i < Cur \/ (i = Cur /\ lines > 0)
    BY Zenon DEF HeardInv, CacheWhose
  <2>3. PICK i \in DOMAIN BuildMessageFrames(sent[n]) :
          /\ d.key = BuildMessageFrames(sent[n])[i].key
          /\ n = Len(sent) /\ onAir # << >> => i < Cur \/ (i = Cur /\ lines > 0)
    BY <2>2, Zenon
  <2>4. i \in Nat
    <3>1. sent[n] \in Messages  BY ReachInt
    <3> QED BY <3>1, FrameOf
  <2>5. n = Len(sent) /\ onAir' # << >> => i < Cur' \/ (i = Cur' /\ lines' > 0)
    <3> HAVE n = Len(sent) /\ onAir' # << >>
    <3>1. i < Cur \/ (i = Cur /\ lines > 0)  BY <1>2, <2>3
    <3>2. Cur \in Nat  BY <1>2, <1>3
    <3> HIDE DEF s
    <3>3. CASE s % Period = 0
      <4>1. Cur' = Cur + 1  BY <1>2, <1>3, <3>3
      <4> QED BY <2>4, <3>1, <3>2, <4>1
    <3>4. CASE s % Period # 0
      <4>1. Cur' = Cur /\ lines' = lines  BY <1>1, <1>2, <1>3, <3>4
      <4> QED BY <3>1, <4>1
    <3> QED BY <3>3, <3>4
  <2> QED BY <2>1, <2>3, <2>5
<1>6. LinesHandled'
  <2>1. CASE s % Period = 0
    <3>1. ~(lines' > 0)  BY <1>1, <2>1
    <3> QED BY <3>1, Zenon DEF LinesHandled
  <2>2. CASE s % Period # 0
    <3>1. Handled => Handled'  BY <2>2, SecondHandled
    <3> QED BY <1>1, <2>2, <3>1 DEF HeardInv, LinesHandled
  <2> QED BY <2>1, <2>2
<1>7. ~decoded'
  <2>1. \/ /\ s % Period = (second % Period) + 1
           /\ s % Period \in 0..Period - 1 /\ Period \in Nat
        \/ s % Period = 0
    <3>1. second \in 0..Day - 1 /\ second' \in 0..Day - 1  BY GuiSecondRx DEF IInv
    <3>2. s \in 0..Day - 1  BY <1>1, <3>1
    <3>3. s % Period # 0 => s % Period = (second % Period) + 1  BY <3>1, NextSecond
    <3> HIDE DEF s
    <3> QED BY <3>2, <3>3, InPeriod, Numbers
  <2>2. s % Period # 0 => second % Period # Period - 1
    <3>1. second % Period \in Nat  BY InPeriod DEF IInv
    <3> HIDE DEF s
    <3> QED BY <2>1, <3>1
  <2>3. decoded => second % Period = Period - 1  BY DEF HeardInv, Decoded
  <2> HIDE DEF s
  <2> QED BY <1>1, <2>2, <2>3
<1>8. Decoded'  BY <1>7 DEF Decoded
<1> DEFINE Heeded == onAir # << >> /\ ~missed /\ IsCommandAllowed(m.cmd) /\ Heard > 0
<1>9. Heeded =>
        /\ HeardAge' = HeardAge + 1 /\ (s % Period = 0 => lines > 0)
        /\ Passed(done) =>
             \/ InSeq(Understood(m), processed')
             \/ /\ Heard < Len(F)
                /\ Buffered(rx', place, m, Heard, HeardAge + 1, 0)
        /\ Kept(OlderRx(rx)) => \/ Made(m, rx'.commands, processed')
                                \/ Buffered(rx', place, m, Heard, HeardAge + 1, lines)
  BY NextAge, SecondProgress DEF HeardInv
<1>10. (Kept(OlderRx(rx)) \/ Passed(done)) /\ (s % Period = 0 => Passed(done))  BY SecondIs
<1> HIDE DEF s, done
<1>11. Progress'
  <2> SUFFICES ASSUME onAir' # << >>, ~missed, IsCommandAllowed(m.cmd), Heard' > 0
               PROVE  \/ Made(m, rx'.commands, processed')
                      \/ Buffered(rx', place, m, Heard', HeardAge', lines')
    BY <1>1 DEF Progress
  <2>1. onAir # << >>  BY <1>2
  <2>2. Heard' = Heard
    <3>1. CASE s % Period = 0
      <4>1. lines > 0 /\ ~(lines' > 0)
        <5>1. lines > 0  BY <1>1, <2>1, <3>1 DEF HeardInv, Decoded
        <5> QED BY <1>1, <3>1, <5>1
      <4>2. Cur' = Cur + 1 /\ Cur \in Nat  BY <1>3, <2>1, <3>1
      <4>3. Heard' = Cur' - 1 /\ Heard = Cur  BY <4>1, Zenon DEF Heard
      <4> QED BY <4>2, <4>3
    <3>2. CASE s % Period # 0
      <4>1. Cur' = Cur /\ lines' = lines  BY <1>1, <1>3, <2>1, <3>2
      <4> QED BY <4>1 DEF Heard
    <3> QED BY <3>1, <3>2
  <2>3. Heeded  BY <2>1, <2>2
  <2>4. Buffered(rx', place, m, Heard, HeardAge + 1, 0) => Buffered(rx', place, m, Heard, HeardAge + 1, lines')
    BY DEF Buffered, Staged
  <2> HIDE DEF Heeded, m
  <2>5. CASE s % Period = 0
    <3>1. Passed(done)  BY <1>10, <2>5
    <3> QED BY <1>9, <2>2, <2>3, <2>4, <3>1 DEF Made
  <2>6. CASE s % Period # 0
    <3>1. lines' = lines  BY <1>1, <2>6
    <3> QED BY <1>9, <1>10, <2>2, <2>3, <2>4, <3>1 DEF Made
  <2> QED BY <2>5, <2>6
<1>12. WholeMade'
  <2> SUFFICES ASSUME NEW n \in whole, IsCommandAllowed(sent[n].cmd)
               PROVE  InSeq(Understood(sent[n]), processed') \/ (s % Period # 0 /\ decoded')
    BY <1>1, <1>7 DEF WholeMade
  <2>0. sent[n] \in Messages
    <3>1. whole \subseteq DOMAIN sent  BY LenProperties DEF IInv, HistoryOK
    <3> QED BY <3>1, ReachInt
  <2>1. CASE InSeq(Understood(sent[n]), processed)
    <3>1. CASE Kept(OlderRx(rx))  BY <2>1, <3>1 DEF Kept
    <3>2. CASE Passed(done)
      <4>1. RxWith(OlderRx(rx), BufferType)  BY SecondIs
      <4> QED BY <2>0, <2>1, <3>2, <4>1, PassMade DEF done
    <3> QED BY <1>10, <3>1, <3>2
  <2>2. CASE n = Len(sent) /\ Len(onAir) = 1 /\ lines > 0 /\ ~missed /\ decoded
    <3>1. CASE s % Period # 0
      BY <1>1, <2>2, <3>1
    <3>2. CASE s % Period = 0
      <4>1. onAir # << >>
        <5>1. Len(<< >>) = 0 /\ 0 # 1  OBVIOUS
        <5> QED BY <2>2, <5>1, Zenon
      <4>2. m = sent[n]  BY <2>2, <4>1, CurFacts
      <4>3. Cur = Len(F) /\ Len(F) \in Nat /\ Cur > 0  BY <1>3, <2>2, <4>1
      <4>4. Heard = Cur  BY <2>2, Zenon DEF Heard
      <4>5. Heeded /\ ~(Heard < Len(F))  BY <2>2, <4>1, <4>2, <4>3, <4>4
      <4> HIDE DEF Heeded, m, F
      <4> QED BY <1>9, <1>10, <3>2, <4>2, <4>5
    <3> QED BY <3>1, <3>2
  <2> QED BY <2>1, <2>2 DEF HeardInv, WholeMade
<1> QED BY <1>4, <1>5, <1>6, <1>8, <1>11, <1>12 DEF HeardInv

\* The first frame of a message is not in another.
LEMMA KeysHeads == KeysDiffer => HeadsDiffer
<1> SUFFICES ASSUME KeysDiffer, NEW m \in Messages, NEW n \in Messages, m # n,
                    BuildMessageFrames(m) # << >>, BuildMessageFrames(m)[1].key \in KeysOf(n)
             PROVE  FALSE
  BY Zenon DEF HeadsDiffer
<1>1. PICK j \in DOMAIN BuildMessageFrames(n) :
        BuildMessageFrames(m)[1].key = BuildMessageFrames(n)[j].key
  BY DEF KeysOf
<1>2. 1 \in DOMAIN BuildMessageFrames(m)
  <2> DEFINE F == BuildMessageFrames(m)
  <2>1. F \in Seq(Frames) /\ F # << >>  BY FramesAre
  <2> HIDE DEF F
  <2>2. 1 \in DOMAIN F  BY <2>1, EmptySeq, LenProperties
  <2> QED BY <2>2 DEF F
<1> QED BY <1>1, <1>2, Zenon DEF KeysDiffer

\* What is whole has been acted upon by the time the next period begins.
LEMMA HeardWhole ==
  ASSUME IInv, OnAirOK, Timing, WholeMade
  PROVE  WholeIsProcessed
<1> SUFFICES ASSUME second % Period = 0, NEW n \in whole, IsCommandAllowed(sent[n].cmd)
             PROVE  Cardinality({k \in whole : sent[k] = sent[n]})
                      <= Cardinality({i \in DOMAIN processed : processed[i] = Understood(sent[n])})
  BY DEF WholeIsProcessed
<1> DEFINE W == {k \in whole : sent[k] = sent[n]}
           D == {i \in DOMAIN processed : processed[i] = Understood(sent[n])}
<1>1. ~decoded
  <2>1. 0 < DecodeAt  BY Numbers DEF DecodeAt
  <2> QED BY <2>1 DEF Timing
<1>2. PICK i \in DOMAIN processed : processed[i] = Understood(sent[n])
  <2>1. InSeq(Understood(sent[n]), processed)  BY <1>1 DEF WholeMade
  <2> QED BY <2>1 DEF InSeq
<1>3. whole \subseteq DOMAIN sent  BY LenProperties DEF IInv, HistoryOK
<1>4. W = {n}  BY <1>3 DEF OnAirOK
<1>5. Cardinality(W) = 1  BY <1>4, FS_Singleton
<1>6. processed \in Seq(CommandType) /\ D \in SUBSET (DOMAIN processed)  BY DEF IInv, HistoryOK
<1> HIDE DEF W
<1>7. IsFiniteSet(D) /\ Cardinality(D) \in Nat
  <2> HIDE DEF D
  <2> QED BY <1>6, SelectedType
<1>8. {i} \subseteq D  BY <1>2
<1> HIDE DEF D
<1>9. Cardinality({i}) <= Cardinality(D) /\ Cardinality({i}) = 1
  BY <1>7, <1>8, FS_Subset, FS_Singleton
<1>10. Cardinality(W) <= Cardinality(D)  BY <1>5, <1>7, <1>9
<1> QED BY <1>10 DEF W, D

\* Every step keeps what is known of the message on the air.
LEMMA HeardStep ==
  ASSUME PlacesApart, KeysDiffer, Patient, IInv, FromInv, HeardInv, [Next]_vars
  PROVE  HeardInv'
<1>1. OnAirOK /\ Timing  BY DEF FromInv
<1>2. ASSUME UNCHANGED vars PROVE HeardInv'
  BY <1>2 DEF HeardInv, BandOK, CacheWhose, LinesHandled, Decoded, Progress, WholeMade, Cur, Heard,
              HeardAge, Handled, vars
<1>3. ASSUME Next PROVE HeardInv'
  <2>1. ASSUME NEW m \in Messages, Send(m) PROVE HeardInv'  BY <1>1, <2>1, SendHeard
  <2>2. ASSUME NEW o \in Offsets, Line(o) PROVE HeardInv'  BY <1>1, <2>2, LineHeard
  <2>3. ASSUME DecodeDone \/ OtherDecodeDone PROVE HeardInv'  BY <1>1, <2>3, CleanHeard
  <2>4. ASSUME GuiSecond PROVE HeardInv'  BY <1>1, <2>4, GuiSecondHeard
  <2> QED BY <1>3, <2>1, <2>2, <2>3, <2>4 DEF Next
<1> QED BY <1>2, <1>3

\* If no two places are within the threshold of each other, every frame says of
\* which message it is, and a buffer outlives the wait for the next frame, then
\* every message with a command that is heard frame by frame has been acted upon
\* when the next period begins, with its calls, its command and its text: no
\* refresh of a buffer is missed, no half of it is handed on or dropped early,
\* and what is in the band beside it takes nothing from it.
THEOREM WholeIsProcessedAlways ==
  ASSUME PlacesApart, KeysDiffer, Patient
  PROVE  Spec => []WholeIsProcessed
<1>1. HeadsDiffer  BY KeysHeads
<1>2. Init => FromInv /\ HeardInv  BY InitFrom, InitHeard
<1>3. IInv /\ FromInv /\ [Next]_vars => FromInv'  BY <1>1, FromStep
<1>4. IInv /\ FromInv /\ HeardInv /\ [Next]_vars => HeardInv'  BY HeardStep
<1>5. IInv /\ FromInv /\ HeardInv => WholeIsProcessed  BY HeardWhole DEF FromInv, HeardInv
<1> QED BY <1>2, <1>3, <1>4, <1>5, InductiveInvariant, PTL DEF Spec

=============================================================================
