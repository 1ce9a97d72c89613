--------------------------- MODULE RigControlProofs ---------------------------
(***************************************************************************)
(* Proofs about RigControl: what is known of the radio keeps its shape,    *)
(* and a rig opened again is not closed by its predecessor, for any number *)
(* of rigs, moves, commands and failures.                                  *)
(***************************************************************************)
EXTENDS RigControl, SequenceTheorems, TLAPS

-----------------------------------------------------------------------------
(* The operators on an object and its radio.                               *)

LEMMA NoObjectType == NoState \in TransceiverState /\ NoObject \in Object
BY TransceiverAssumption DEF NoState, TransceiverState, NoObject, Object

LEMMA Counts ==
  /\ 0 \in 0..PollsToStabilize /\ PollsToStabilize \in 0..PollsToStabilize
  /\ 0 \in 0..MaxLag /\ MaxLag \in Nat /\ PollsToStabilize \in Nat
BY TransceiverAssumption

\* What is expected, and how often it is looked for.
LEMMA ExpectType ==
  ASSUME NEW o \in Object, NEW n \in TransceiverState
  PROVE  Expect(o, n) \in Object
<1> DEFINE c == IF o.next = n THEN o.retries ELSE PollsToStabilize
<1>1. c \in 0..PollsToStabilize  BY Counts DEF Object
<1>2. Expect(o, n) = [o EXCEPT !.next = n, !.retries = c]  BY DEF Expect
<1> HIDE DEF c
<1> QED BY <1>1, <1>2 DEF Object

LEMMA DoPttType ==
  ASSUME NEW o \in Object, NEW b \in BOOLEAN
  PROVE  DoPtt(o, b) \in Object
<1>1. o.actual \in TransceiverState /\ o.next \in TransceiverState  BY DEF Object
<1>2. [o.actual EXCEPT !.ptt = b] \in TransceiverState
      /\ [o.next EXCEPT !.ptt = b] \in TransceiverState
  BY <1>1, TransceiverAssumption DEF TransceiverState
<1> DEFINE a == [o.actual EXCEPT !.ptt = b]  n == [o.next EXCEPT !.ptt = b]
<1>3. DoPtt(o, b) = Expect([o EXCEPT !.actual = a], n)  BY DEF DoPtt
<1>4. a \in TransceiverState /\ n \in TransceiverState  BY <1>2
<1> HIDE DEF a, n
<1>5. [o EXCEPT !.actual = a] \in Object  BY <1>4 DEF Object
<1> QED BY <1>3, <1>4, <1>5, ExpectType

LEMMA DoFrequencyType ==
  ASSUME NEW o \in Object, NEW f \in Freqs \cup {0}
  PROVE  DoFrequency(o, f) \in Object
<1> DEFINE a == [o.actual EXCEPT !.freq = f]  q == [o.requested EXCEPT !.freq = f]
           n == [o.next EXCEPT !.freq = f]
<1>1. /\ o.actual \in TransceiverState /\ o.next \in TransceiverState
      /\ o.requested \in TransceiverState
  BY DEF Object
<1>2. a \in TransceiverState /\ n \in TransceiverState /\ q \in TransceiverState
  BY <1>1 DEF TransceiverState
<1>3. DoFrequency(o, f) = Expect([o EXCEPT !.actual = a, !.requested = q], n)
  BY DEF DoFrequency
<1> HIDE DEF a, n, q
<1>4. [o EXCEPT !.actual = a, !.requested = q] \in Object  BY <1>2 DEF Object
<1> QED BY <1>2, <1>3, <1>4, ExpectType

LEMMA RadioType ==
  ASSUME NEW h \in Radio, NEW f \in Freqs, NEW b \in BOOLEAN, NEW lag \in 0..MaxLag
  PROVE  /\ Shown(h) \in Freqs /\ Read(h) \in Radio /\ Tuned(h, f, lag) \in Radio
         /\ [h EXCEPT !.ptt = b] \in Radio /\ h.ptt \in BOOLEAN
         /\ [h EXCEPT !.freq = f, !.old = f, !.lag = 0] \in Radio
<1>1. Shown(h) \in Freqs  BY DEF Shown, Radio
<1>2. Read(h) \in Radio
  <2> DEFINE f0 == IF h.lag = 1 THEN h.freq ELSE h.old  n == h.lag - 1
  <2>1. CASE h.lag # 0
    <3>1. f0 \in Freqs /\ n \in 0..MaxLag  BY <2>1, Counts DEF Radio
    <3>2. Read(h) = [h EXCEPT !.old = f0, !.lag = n]  BY <2>1 DEF Read
    <3> HIDE DEF f0, n
    <3> QED BY <3>1, <3>2 DEF Radio
  <2> QED BY <2>1 DEF Read
<1>3. Tuned(h, f, lag) \in Radio  BY <1>1, TransceiverAssumption DEF Tuned, Radio
<1>4. [h EXCEPT !.ptt = b] \in Radio /\ h.ptt \in BOOLEAN  BY DEF Radio
<1>5. [h EXCEPT !.freq = f, !.old = f, !.lag = 0] \in Radio  BY Counts DEF Radio
<1> QED BY <1>1, <1>2, <1>3, <1>4, <1>5

LEMMA PolledType ==
  ASSUME NEW o \in Object, NEW h \in Radio
  PROVE  Polled(o, h) \in Object
<1> DEFINE a == [o.actual EXCEPT !.freq = Shown(h), !.ptt = h.ptt]
           q == [o.requested EXCEPT !.freq = Shown(h)]
<1>1. o.actual \in TransceiverState /\ o.requested \in TransceiverState  BY DEF Object
<1>2. Shown(h) \in Freqs \cup {0} /\ h.ptt \in BOOLEAN  BY DEF Shown, Radio
<1>3. a \in TransceiverState /\ q \in TransceiverState  BY <1>1, <1>2 DEF TransceiverState
<1>4. Polled(o, h) = [o EXCEPT !.actual = a, !.requested = q]  BY DEF Polled
<1> HIDE DEF a, q
<1> QED BY <1>3, <1>4 DEF Object

LEMMA SyncedType ==
  ASSUME NEW o \in Object
  PROVE  Synced(o) \in Object
<1>1. o.actual \in TransceiverState /\ o.retries \in 0..PollsToStabilize  BY DEF Object
<1>2. CASE Signals(o)
  BY <1>1, <1>2, Counts DEF Synced, Object
<1>3. CASE ~Signals(o)
  <2>1. (IF o.retries > 0 THEN o.retries - 1 ELSE 0) \in 0..PollsToStabilize
    BY <1>1, TransceiverAssumption
  <2> QED BY <1>3, <2>1 DEF Synced, Object
<1> QED BY <1>2, <1>3

\* Going on line and off line.
LEMMA OnOff ==
  ASSUME NEW o \in Object, NEW b \in BOOLEAN
  PROVE  /\ [o EXCEPT !.polling = b, !.actual = [@ EXCEPT !.online = b],
                      !.requested = [@ EXCEPT !.online = b]] \in Object
<1> DEFINE a == [o.actual EXCEPT !.online = b]  q == [o.requested EXCEPT !.online = b]
<1>1. o.actual \in TransceiverState /\ o.requested \in TransceiverState  BY DEF Object
<1>2. a \in TransceiverState /\ q \in TransceiverState  BY <1>1 DEF TransceiverState
<1> DEFINE new == [o EXCEPT !.polling = b, !.actual = [@ EXCEPT !.online = b],
                           !.requested = [@ EXCEPT !.online = b]]
<1>3. new = [o EXCEPT !.polling = b, !.actual = a, !.requested = q]  OBVIOUS
<1> HIDE DEF a, q
<1>4. [o EXCEPT !.polling = b, !.actual = a, !.requested = q] \in Object
  BY <1>2 DEF Object
<1> QED BY <1>3, <1>4

LEMMA StartupType ==
  ASSUME NEW o \in Object, NEW h \in Radio
  PROVE  Startup(o, h) \in Object
<1> DEFINE n == [o.next EXCEPT !.online = TRUE]  p == Expect(Polled(o, h), n)
<1>1. n \in TransceiverState  BY DEF Object, TransceiverState
<1>2. p \in Object  BY <1>1, PolledType, ExpectType
<1>3. Startup(o, h) = [p EXCEPT !.polling = TRUE, !.actual = [@ EXCEPT !.online = TRUE],
                                !.requested = [@ EXCEPT !.online = TRUE]]
  BY DEF Startup
<1> HIDE DEF p
<1> QED BY <1>2, <1>3, OnOff

LEMMA ShutdownType ==
  ASSUME NEW o \in Object, NEW b \in BOOLEAN
  PROVE  Shutdown(o, b) \in Object
<1> DEFINE p == IF o.requested.online /\ b THEN DoPtt(o, FALSE) ELSE o
<1>1. p \in Object  BY DoPttType
<1>2. Shutdown(o, b) = [p EXCEPT !.polling = FALSE, !.actual = [@ EXCEPT !.online = FALSE],
                                 !.requested = [@ EXCEPT !.online = FALSE]]
  BY DEF Shutdown
<1> HIDE DEF p
<1> QED BY <1>1, <1>2, OnOff

\* After any number of steps of set the object and the radio have their types.
LEMMA StepsType ==
  ASSUME NEW o \in Object, NEW h \in Radio, NEW s \in TransceiverState, NEW lag \in 0..MaxLag,
         NEW k \in 1..4
  PROVE  Steps(o, h, s, lag)[k].obj \in Object /\ Steps(o, h, s, lag)[k].radio \in Radio
<1> DEFINE up   == ~o.requested.online
           o1   == IF up THEN Startup(o, h) ELSE o
           h1   == IF up THEN Read(h) ELSE h
           turn == s.ptt # o1.requested.ptt
           off  == turn /\ ~s.ptt
           o2   == IF off THEN DoPtt(o1, FALSE) ELSE o1
           h2   == IF off THEN [h1 EXCEPT !.ptt = FALSE] ELSE h1
           tune == s.freq # 0 /\ (s.freq # o2.requested.freq \/ off)
           o3   == IF tune THEN DoFrequency(o2, s.freq) ELSE o2
           h3   == IF tune THEN Tuned(h2, s.freq, lag) ELSE h2
           on   == turn /\ s.ptt
           o4   == IF on THEN DoPtt(o3, TRUE) ELSE o3
           h4   == IF on THEN [h3 EXCEPT !.ptt = TRUE] ELSE h3
<1>1. Steps(o, h, s, lag) =
        << [does |-> up,   obj |-> o1, radio |-> h1], [does |-> off, obj |-> o2, radio |-> h2],
           [does |-> tune, obj |-> o3, radio |-> h3], [does |-> on,  obj |-> o4, radio |-> h4] >>
  BY DEF Steps
<1>2. \E f \in Freqs : TRUE  BY TransceiverAssumption
<1>3. o1 \in Object /\ h1 \in Radio  BY <1>2, StartupType, RadioType, Counts
<1> HIDE DEF o1, h1, up
<1>4. o2 \in Object /\ h2 \in Radio  BY <1>2, <1>3, DoPttType, RadioType, Counts
<1> HIDE DEF o2, h2, off
<1>5. o3 \in Object
  <2>1. s.freq \in Freqs \cup {0}  BY DEF TransceiverState
  <2> QED BY <1>4, <2>1, DoFrequencyType
<1>6. h3 \in Radio
  <2>1. CASE tune
    <3>1. s.freq \in Freqs  BY <2>1 DEF TransceiverState
    <3> QED BY <1>4, <2>1, <3>1, RadioType
  <2> QED BY <1>4, <2>1
<1> HIDE DEF o3, h3, tune
<1>7. o4 \in Object /\ h4 \in Radio  BY <1>2, <1>5, <1>6, DoPttType, RadioType, Counts
<1> HIDE DEF o4, h4, on
<1> QED BY <1>1, <1>3, <1>4, <1>5, <1>6, <1>7

-----------------------------------------------------------------------------
(* The events posted to the GUI thread.                                    *)

Kinds == {"update", "failure", "open"}

\* What is in the queue, given the rig, whether it is open, and the rig that
\* rigOpen has opened: if the rig is the one that rigOpen has opened, the queue
\* holds only what that rig has said; and an attempt to open that is to follow
\* the present rig finds it closed, and nothing of any rig behind it.
QueueOK(q, r, on, w) ==
  /\ q \in Seq(Events)
  /\ \A i \in 1..Len(q) :
       /\ q[i].kind \in Kinds
       /\ q[i].kind = "open" => q[i].rig \in 0..r
       /\ q[i].kind # "open" /\ w = r => q[i].rig = r
       /\ q[i].kind = "open" /\ q[i].rig = r
            => on = FALSE /\ \A j \in i..Len(q) : q[j].kind = "open"

LEMMA QueueTail ==
  ASSUME NEW q, NEW r, NEW on, NEW w, QueueOK(q, r, on, w), q # <<>>
  PROVE  /\ QueueOK(Tail(q), r, on, w) /\ Head(q) \in Events /\ Head(q).kind \in Kinds
         /\ Head(q).kind # "open" /\ w = r => Head(q).rig = r
<1>1. q \in Seq(Events)  BY DEF QueueOK
<1>2. /\ Head(q) \in Events /\ Tail(q) \in Seq(Events) /\ Len(Tail(q)) = Len(q) - 1
      /\ \A i \in 1..Len(Tail(q)) : Tail(q)[i] = q[i + 1]
  BY <1>1, HeadTailProperties
<1>3. Len(q) \in Nat \ {0} /\ Head(q) = q[1]  BY <1>1, EmptySeq
<1>4. 1 \in 1..Len(q)  BY <1>3
<1>5. ASSUME NEW i \in 1..Len(Tail(q))
      PROVE  /\ i + 1 \in 1..Len(q) /\ Tail(q)[i] = q[i + 1]
             /\ \A j \in i..Len(Tail(q)) : j + 1 \in (i + 1)..Len(q) /\ Tail(q)[j] = q[j + 1]
  BY <1>2, <1>3
<1> QED BY <1>1, <1>2, <1>3, <1>4, <1>5 DEF QueueOK

\* What an open rig says goes to the end.
LEMMA QueueSaid ==
  ASSUME NEW q, NEW r, NEW on, NEW w, QueueOK(q, r, on, w), on = TRUE,
         NEW e \in Events, e.kind \in {"update", "failure"}, e.rig = r
  PROVE  QueueOK(Append(q, e), r, on, w)
<1>1. q \in Seq(Events)  BY DEF QueueOK
<1>2. /\ Append(q, e) \in Seq(Events) /\ Len(Append(q, e)) = Len(q) + 1
      /\ \A i \in 1..Len(q) : Append(q, e)[i] = q[i]
      /\ Append(q, e)[Len(q) + 1] = e
  BY <1>1, AppendProperties
<1>3. Len(q) \in Nat  BY <1>1, LenProperties
<1>4. ASSUME NEW i \in 1..Len(Append(q, e))
      PROVE  (i \in 1..Len(q) /\ Append(q, e)[i] = q[i]) \/ Append(q, e)[i] = e
  BY <1>2, <1>3
<1> QED BY <1>2, <1>4 DEF QueueOK, Kinds

\* An attempt to open goes to the end: after a failure the rig is closed.
LEMMA QueueOpen ==
  ASSUME NEW q, NEW r \in Nat \ {0}, NEW on, NEW w, QueueOK(q, r, on, w),
         NEW e \in Events, e.kind = "open", e.rig = 0 \/ (e.rig = r /\ on = FALSE)
  PROVE  QueueOK(Append(q, e), r, on, w)
<1>1. q \in Seq(Events)  BY DEF QueueOK
<1> DEFINE a == Append(q, e)
<1>2. /\ a \in Seq(Events) /\ Len(a) = Len(q) + 1
      /\ \A i \in 1..Len(q) : a[i] = q[i]
      /\ a[Len(q) + 1] = e
  BY <1>1, AppendProperties
<1>3. Len(q) \in Nat  BY <1>1, LenProperties
<1> HIDE DEF a
<1>4. ASSUME NEW i \in 1..Len(a)
      PROVE  (i \in 1..Len(q) /\ a[i] = q[i]) \/ (i = Len(q) + 1 /\ a[i] = e)
  <2>1. i \in 1..Len(q) \/ i = Len(q) + 1  BY <1>2, <1>3
  <2> QED BY <1>2, <2>1
<1>5. ASSUME NEW i \in 1..Len(a), a[i].kind = "open", a[i].rig = r
      PROVE  on = FALSE /\ \A j \in i..Len(a) : a[j].kind = "open"
  <2>1. CASE i = Len(q) + 1
    <3>1. \A j \in i..Len(a) : j = i  BY <1>2, <1>3, <2>1
    <3>2. e.rig = r  BY <1>2, <1>5, <2>1
    <3> QED BY <1>5, <3>1, <3>2
  <2>2. CASE i \in 1..Len(q) /\ a[i] = q[i]
    <3>1. on = FALSE /\ \A j \in i..Len(q) : q[j].kind = "open"
      BY <1>5, <2>2 DEF QueueOK
    <3>2. \A j \in i..Len(a) : (j \in i..Len(q) /\ a[j] = q[j]) \/ a[j] = e
      <4>1. \A j \in i..Len(a) : j \in 1..Len(a)  BY <1>2, <1>3, <2>2
      <4>2. \A j \in i..Len(a) : j \in 1..Len(q) => j \in i..Len(q)  BY <1>2, <1>3, <2>2
      <4> QED BY <1>4, <4>1, <4>2
    <3> QED BY <3>1, <3>2
  <2> QED BY <1>4, <2>1, <2>2
<1>6. \A i \in 1..Len(a) : /\ a[i].kind \in Kinds
                           /\ a[i].kind = "open" => a[i].rig \in 0..r
                           /\ a[i].kind # "open" /\ w = r => a[i].rig = r
  BY <1>4 DEF QueueOK, Kinds
<1>7. QueueOK(a, r, on, w)  BY <1>2, <1>5, <1>6 DEF QueueOK
<1> QED BY <1>7 DEF a

\* The rig is closed.
LEMMA QueueClosed ==
  ASSUME NEW q, NEW r, NEW on, NEW w, QueueOK(q, r, on, w)
  PROVE  QueueOK(q, r, FALSE, w)
BY DEF QueueOK

\* Another rig is opened, by hand or by an attempt that is not to follow the
\* present rig.
LEMMA QueueNext ==
  ASSUME NEW q, NEW r \in Nat \ {0}, NEW on, NEW w, QueueOK(q, r, on, w), NEW b
  PROVE  QueueOK(q, r + 1, b, 0)
<1>1. r \in Nat /\ r # 0 /\ r + 1 # 0 /\ r + 1 \notin 0..r /\ 0..r \subseteq 0..(r + 1)
  OBVIOUS
<1> QED BY <1>1 DEF QueueOK

\* Another rig is opened by the attempt that follows the present one.
LEMMA QueueOwn ==
  ASSUME NEW q, NEW r \in Nat \ {0}, NEW on, NEW w, QueueOK(q, r, on, w), q # <<>>,
         Head(q).kind = "open", Head(q).rig = r, NEW b, NEW v
  PROVE  QueueOK(Tail(q), r + 1, b, v)
<1>1. q \in Seq(Events)  BY DEF QueueOK
<1>2. /\ Tail(q) \in Seq(Events) /\ Len(Tail(q)) = Len(q) - 1
      /\ \A i \in 1..Len(Tail(q)) : Tail(q)[i] = q[i + 1]
  BY <1>1, HeadTailProperties
<1>3. Len(q) \in Nat \ {0} /\ Head(q) = q[1]  BY <1>1, EmptySeq
<1>4. 1 \in 1..Len(q)  BY <1>3
<1>5. \A j \in 1..Len(q) : q[j].kind = "open"  BY <1>3, <1>4 DEF QueueOK
<1>6. \A i \in 1..Len(Tail(q)) : i + 1 \in 1..Len(q)  BY <1>2, <1>3
<1>7. \A i \in 1..Len(Tail(q)) : Tail(q)[i].kind = "open" /\ Tail(q)[i].rig \in 0..r
  BY <1>2, <1>5, <1>6 DEF QueueOK
<1>8. r + 1 \notin 0..r /\ 0..r \subseteq 0..(r + 1)  OBVIOUS
<1> QED BY <1>2, <1>7, <1>8 DEF QueueOK, Kinds

-----------------------------------------------------------------------------
(* The inductive invariant.                                                *)

\* What is posted to the rigs' thread is for a rig that exists.
ToRigOK(q) == q \in Seq(Events) /\ \A i \in 1..Len(q) : q[i].rig \in Rigs

ConfigOK ==
  /\ number \in Nat /\ cached \in TransceiverState /\ active \in BOOLEAN
  /\ rig \in Rigs /\ own \in 0..rig /\ settings \in {"closed", "visible"}

WindowOK ==
  /\ known \in TransceiverState /\ nominal \in Freqs \cup {0}
  /\ waiting \in Rigs \cup {0} /\ audio \in BOOLEAN
  /\ firstError \in BOOLEAN /\ dialogs \in Nat

ThreadOK == obj \in [Rigs -> Object] /\ radio \in Radio /\ stuck \in BOOLEAN

RestOK ==
  /\ wanted \in Freqs \cup {0} /\ moves \in Nat
  /\ spoilt \subseteq Spoilers /\ ("untold" \in spoilt => "turned" \in spoilt)

IInv ==
  /\ ConfigOK /\ WindowOK /\ ThreadOK /\ RestOK
  /\ ToRigOK(toRig) /\ QueueOK(toGui, rig, active, own)

LEMMA PostType ==
  ASSUME NEW c \in {"update", "failure", "open", "start", "set", "stop"},
         NEW r \in Rigs \cup {0}, NEW n \in Nat, NEW s \in TransceiverState
  PROVE  /\ Post(c, r, n, s) \in Events /\ Post(c, r, n, s).kind = c
         /\ Post(c, r, n, s).rig = r
BY DEF Post, Events

LEMMA Pair ==
  ASSUME NEW S, NEW e \in S, NEW d \in S
  PROVE  <<e>> \o <<d>> = <<e, d>>
<1> DEFINE z == <<e>> \o <<d>>
<1>1. <<e>> \in Seq(S) /\ <<d>> \in Seq(S) /\ <<e, d>> \in Seq(S)  OBVIOUS
<1>2. <<e>>[1] = e /\ <<d>>[1] = d /\ Len(<<e>>) = 1 /\ Len(<<d>>) = 1  OBVIOUS
<1>3. z \in Seq(S) /\ Len(z) = 2 /\ z[1] = e /\ z[2] = d  BY <1>1, <1>2, ConcatProperties
<1> HIDE DEF z
<1>4. z = <<e, d>>  BY <1>1, <1>3, SeqEqual
<1> QED BY <1>4 DEF z

LEMMA ToRigTail ==
  ASSUME NEW q, ToRigOK(q), q # <<>>
  PROVE  /\ ToRigOK(Tail(q)) /\ Head(q) \in Events /\ Head(q).rig \in Rigs
<1>1. /\ Head(q) \in Events /\ Tail(q) \in Seq(Events) /\ Len(Tail(q)) = Len(q) - 1
      /\ \A i \in 1..Len(Tail(q)) : Tail(q)[i] = q[i + 1]
  BY HeadTailProperties DEF ToRigOK
<1>2. Len(q) \in Nat \ {0} /\ Head(q) = q[1]  BY EmptySeq DEF ToRigOK
<1>3. 1 \in 1..Len(q) /\ \A i \in 1..Len(Tail(q)) : i + 1 \in 1..Len(q)  BY <1>1, <1>2
<1> QED BY <1>1, <1>2, <1>3 DEF ToRigOK

LEMMA ToRigAppend ==
  ASSUME NEW q, ToRigOK(q), NEW e \in Events, e.rig \in Rigs
  PROVE  ToRigOK(Append(q, e))
<1>1. /\ Append(q, e) \in Seq(Events) /\ Len(Append(q, e)) = Len(q) + 1
      /\ \A i \in 1..Len(q) : Append(q, e)[i] = q[i]
      /\ Append(q, e)[Len(q) + 1] = e
  BY AppendProperties DEF ToRigOK
<1>2. Len(q) \in Nat  BY LenProperties DEF ToRigOK
<1>3. \A i \in 1..Len(Append(q, e)) :
        (i \in 1..Len(q) /\ Append(q, e)[i] = q[i]) \/ Append(q, e)[i] = e
  BY <1>1, <1>2
<1> QED BY <1>1, <1>3 DEF ToRigOK

LEMMA ToRigConcat ==
  ASSUME NEW q, ToRigOK(q), NEW cmds, ToRigOK(cmds)
  PROVE  ToRigOK(q \o cmds) /\ Len(cmds) \in Nat
<1>1. q \in Seq(Events) /\ cmds \in Seq(Events)  BY DEF ToRigOK
<1>2. Len(q) \in Nat /\ Len(cmds) \in Nat  BY <1>1, LenProperties
<1> DEFINE z == q \o cmds
<1>3. /\ z \in Seq(Events) /\ Len(z) = Len(q) + Len(cmds)
      /\ \A i \in 1..Len(z) : z[i] = IF i <= Len(q) THEN q[i] ELSE cmds[i - Len(q)]
  BY <1>1, ConcatProperties
<1> HIDE DEF z
<1>4. ASSUME NEW i \in 1..Len(z) PROVE z[i].rig \in Rigs
  <2>1. CASE i <= Len(q)
    <3>1. i \in 1..Len(q)  BY <1>2, <1>3, <2>1
    <3> QED BY <1>3, <2>1, <3>1 DEF ToRigOK
  <2>2. CASE ~(i <= Len(q))
    <3>1. i - Len(q) \in 1..Len(cmds)  BY <1>2, <1>3, <2>2
    <3> QED BY <1>3, <2>2, <3>1 DEF ToRigOK
  <2> QED BY <2>1, <2>2
<1>5. ToRigOK(z)  BY <1>3, <1>4 DEF ToRigOK
<1> QED BY <1>2, <1>5 DEF z

\* The commands for a rig, one for each of the states.
LEMMA CommandsType ==
  ASSUME NEW r \in Rigs, NEW n \in Nat, NEW states \in Seq(TransceiverState)
  PROVE  /\ ToRigOK(Commands(r, n, states)) /\ Len(Commands(r, n, states)) = Len(states)
         /\ \A i \in 1..Len(states) : Commands(r, n, states)[i] = Post("set", r, n + i, states[i])
<1> DEFINE z == Commands(r, n, states)
<1>1. Len(states) \in Nat  BY LenProperties
<1>2. \A i \in 1..Len(states) : states[i] \in TransceiverState /\ n + i \in Nat
  BY <1>1, ElementOfSeq
<1>3. \A i \in 1..Len(states) :
        Post("set", r, n + i, states[i]) \in Events /\ Post("set", r, n + i, states[i]).rig = r
  BY <1>2, PostType
<1>4. z = [i \in 1..Len(states) |-> Post("set", r, n + i, states[i])]  BY DEF Commands
<1> HIDE DEF z
<1>5. z \in [1..Len(states) -> Events]  BY <1>3, <1>4
<1>6. z \in Seq(Events) /\ Len(z) = Len(states)
  <2>1. z \in Seq(Events)  BY <1>1, <1>5, SeqDef
  <2> QED BY <1>1, <1>5, <2>1, LenProperties
<1>7. \A i \in 1..Len(states) : z[i] = Post("set", r, n + i, states[i])  BY <1>4
<1>8. ToRigOK(z)  BY <1>3, <1>6, <1>7 DEF ToRigOK
<1> QED BY <1>6, <1>7, <1>8 DEF z

LEMMA NoCommands == ToRigOK(<<>>)
BY DEF ToRigOK

\* The states that setRig asks for.
LEMMA DialledType ==
  ASSUME NEW from \in TransceiverState, NEW f \in Freqs \cup {0}, NEW on
  PROVE  LET d == Dialled(from, f, on) IN
         /\ d \in Seq(TransceiverState) /\ Len(d) \in {1, 2}
         /\ d[Len(d)] \in TransceiverState
<1> DEFINE s == [from EXCEPT !.online = TRUE, !.freq = f]  p == [s EXCEPT !.ptt = TRUE]
<1>1. s \in TransceiverState  BY DEF TransceiverState
<1> HIDE DEF s
<1>2. p \in TransceiverState  BY <1>1 DEF TransceiverState
<1> HIDE DEF p
<1>3. Dialled(from, f, on) = IF on THEN <<s, p>> ELSE <<s>>  BY DEF Dialled, s, p
<1> QED BY <1>1, <1>2, <1>3

\* The old rig is told to stop.
LEMMA ClosedOK ==
  ASSUME IInv
  PROVE  ToRigOK(Closed)
<1> DEFINE e == Post("stop", rig, 0, NoState)
<1>1. rig \in Rigs /\ ToRigOK(toRig)  BY DEF IInv, ConfigOK
<1>2. e \in Events /\ e.rig = rig  BY <1>1, PostType, NoObjectType
<1> HIDE DEF e
<1>3. Closed = IF active THEN Append(toRig, e) ELSE toRig  BY DEF Closed, e
<1> QED BY <1>1, <1>2, <1>3, ToRigAppend

\* What an object has said, once or twice, is in the queue if it is connected.
LEMMA EmittedOK ==
  ASSUME IInv, NEW r \in Rigs,
         NEW e \in Events, e.kind \in {"update", "failure"}, e.rig = r,
         NEW d \in Events, d.kind \in {"update", "failure"}, d.rig = r
  PROVE  /\ QueueOK(Emitted(r, <<e>>), rig, active, own)
         /\ QueueOK(Emitted(r, <<e, d>>), rig, active, own)
<1>1. QueueOK(toGui, rig, active, own) /\ active \in BOOLEAN  BY DEF IInv, ConfigOK
<1>2. toGui \in Seq(Events)  BY <1>1 DEF QueueOK
<1>3. toGui \o <<e>> = Append(toGui, e)  BY <1>2, AppendIsConcat
<1>4. toGui \o <<e, d>> = Append(Append(toGui, e), d)
  <2>1. Append(toGui, e) \in Seq(Events)  BY <1>2, AppendProperties
  <2>2. Append(Append(toGui, e), d) = (toGui \o <<e>>) \o <<d>>
    BY <1>2, <2>1, AppendIsConcat
  <2>3. (toGui \o <<e>>) \o <<d>> = toGui \o (<<e>> \o <<d>>)
    BY <1>2, ConcatAssociative
  <2>4. <<e>> \o <<d>> = <<e, d>>  BY Pair
  <2> QED BY <2>2, <2>3, <2>4
<1>5. CASE Connected(r)
  <2>1. active = TRUE /\ r = rig  BY <1>1, <1>5 DEF Connected
  <2>2. QueueOK(Append(toGui, e), rig, active, own)  BY <1>1, <2>1, QueueSaid
  <2>3. QueueOK(Append(Append(toGui, e), d), rig, active, own)
    BY <2>1, <2>2, QueueSaid
  <2> QED BY <1>3, <1>4, <1>5, <2>2, <2>3 DEF Emitted
<1>6. CASE ~Connected(r)  BY <1>1, <1>6 DEF Emitted
<1> QED BY <1>5, <1>6

\* A rig is opened.
LEMMA OpenRigOK ==
  ASSUME IInv, NEW by, NEW cmds, OpenRig(by, cmds), ToRigOK(cmds)
  PROVE  /\ rig' = rig + 1 /\ rig' \in Rigs /\ active' = TRUE /\ own' = by /\ number' \in Nat
         /\ ToRigOK(toRig') /\ obj' \in [Rigs -> Object]
<1> DEFINE s == Post("start", rig + 1, number + 1, NoState)
<1>1. rig \in Rigs /\ number \in Nat /\ obj \in [Rigs -> Object]
  BY DEF IInv, ConfigOK, ThreadOK
<1>2. rig + 1 \in Rigs  BY <1>1, RigControlAssumption DEF OpenRig, Rigs
<1>3. s \in Events /\ s.rig = rig + 1  BY <1>1, <1>2, PostType, NoObjectType
<1> HIDE DEF s
<1>4. ToRigOK(Append(Closed, s))  BY <1>2, <1>3, ClosedOK, ToRigAppend
<1>5. toRig' = Append(Closed, s) \o cmds  BY DEF OpenRig, s
<1>6. number' = number + 1 + Len(cmds)  BY DEF OpenRig
<1>7. ToRigOK(toRig') /\ number' \in Nat
  <2> DEFINE q == Append(Closed, s)
  <2>1. ToRigOK(q) /\ toRig' = q \o cmds  BY <1>4, <1>5
  <2> HIDE DEF q
  <2> QED BY <1>1, <1>6, <2>1, ToRigConcat
<1>8. obj' \in [Rigs -> Object]
  <2> DEFINE o == [obj[rig + 1] EXCEPT !.phase = "ready"]
  <2>1. obj[rig + 1] \in Object  BY <1>1, <1>2
  <2>2. o \in Object  BY <2>1 DEF Object
  <2>3. obj' = [obj EXCEPT ![rig + 1] = o]  BY DEF OpenRig
  <2> HIDE DEF o
  <2> QED BY <1>1, <1>2, <2>2, <2>3
<1> QED BY <1>2, <1>7, <1>8 DEF OpenRig

-----------------------------------------------------------------------------
(* The GUI thread.                                                         *)

\* The rest of the events.
LEMMA EventOK ==
  ASSUME IInv, NEW c, Event(c)
  PROVE  LET e == Head(toGui) IN
         /\ QueueOK(Tail(toGui), rig, active, own) /\ e \in Events /\ e.kind = c
         /\ c # "open" /\ own = rig => e.rig = rig
         /\ e.seq \in Nat /\ e.state \in TransceiverState
<1>1. QueueOK(toGui, rig, active, own) /\ toGui # <<>> /\ Head(toGui).kind = c
  BY DEF IInv, Event
<1>2. Head(toGui) \in Events  BY <1>1, QueueTail
<1>3. Head(toGui).seq \in Nat /\ Head(toGui).state \in TransceiverState
  BY <1>2 DEF Events
<1> QED BY <1>1, <1>2, <1>3, QueueTail

LEMMA SendOK ==
  ASSUME IInv, NEW states \in Seq(TransceiverState),
         states[Len(states)] \in TransceiverState, Send(states)
  PROVE  ConfigOK' /\ ToRigOK(toRig') /\ moves' \in Nat /\ UNCHANGED <<rig, active, own, obj>>
<1> DEFINE cmds == Commands(rig, number, states)
<1>1. rig \in Rigs /\ number \in Nat /\ ToRigOK(toRig) /\ moves \in Nat
  BY DEF IInv, ConfigOK, RestOK
<1>2. ToRigOK(cmds) /\ Len(states) \in Nat  BY <1>1, CommandsType, LenProperties
<1>3. toRig' = IF active THEN toRig \o cmds ELSE toRig  BY DEF Send
<1> HIDE DEF cmds
<1>4. ToRigOK(toRig')  BY <1>1, <1>2, <1>3, ToRigConcat
<1>5. /\ number' = number + Len(states) /\ cached' = states[Len(states)] /\ moves' = moves + 1
      /\ UNCHANGED <<active, rig, settings, own, obj>>
  BY DEF Send, Costs
<1> QED BY <1>1, <1>2, <1>4, <1>5 DEF IInv, ConfigOK

\* setRig, whether it has to open the rig or not.
LEMMA SetRigOK ==
  ASSUME IInv, NEW f \in Freqs \cup {0}, NEW on, SetRig(f, on)
  PROVE  /\ ConfigOK' /\ ToRigOK(toRig') /\ moves' \in Nat /\ obj' \in [Rigs -> Object]
         /\ QueueOK(toGui, rig', active', own') /\ active' = TRUE
<1>1. /\ cached \in TransceiverState /\ number \in Nat /\ rig \in Rigs
      /\ active \in BOOLEAN /\ obj \in [Rigs -> Object] /\ moves \in Nat
      /\ QueueOK(toGui, rig, active, own)
  BY DEF IInv, ConfigOK, ThreadOK, RestOK
<1>2. CASE active
  <2> DEFINE d == Dialled(cached, f, on)
  <2>1. Send(d)  BY <1>2 DEF SetRig
  <2>2. d \in Seq(TransceiverState) /\ d[Len(d)] \in TransceiverState
    BY <1>1, DialledType
  <2> HIDE DEF d
  <2>3. ConfigOK' /\ ToRigOK(toRig') /\ moves' \in Nat /\ UNCHANGED <<rig, active, own, obj>>
    BY <2>1, <2>2, SendOK
  <2>4. active' = TRUE  BY <1>1, <1>2, <2>3
  <2> QED BY <1>1, <2>3, <2>4
<1>3. CASE ~active
  <2> DEFINE d == Dialled(NoState, f, on)  cmds == Commands(rig + 1, number + 1, d)
  <2>1. /\ OpenRig(0, cmds) /\ cached' = d[Len(d)] /\ UNCHANGED settings
        /\ moves' = moves + 1
    BY <1>3 DEF SetRig, Costs
  <2>2. d \in Seq(TransceiverState) /\ d[Len(d)] \in TransceiverState
    BY NoObjectType, DialledType
  <2> HIDE DEF d
  <2>3. rig + 1 \in Rigs /\ number + 1 \in Nat
    BY <1>1, <2>1, RigControlAssumption DEF OpenRig, Rigs
  <2>4. ToRigOK(cmds)  BY <2>2, <2>3, CommandsType
  <2> HIDE DEF cmds
  <2>5. /\ rig' = rig + 1 /\ rig' \in Rigs /\ active' = TRUE /\ own' = 0 /\ number' \in Nat
        /\ ToRigOK(toRig') /\ obj' \in [Rigs -> Object]
    BY <2>1, <2>4, OpenRigOK
  <2>6. QueueOK(toGui, rig + 1, TRUE, 0)
    <3>1. rig \in Nat \ {0}  BY <1>1, RigControlAssumption DEF Rigs
    <3> QED BY <1>1, <3>1, QueueNext
  <2>7. ConfigOK'  BY <2>1, <2>2, <2>5 DEF IInv, ConfigOK, Rigs
  <2>8. QueueOK(toGui, rig', active', own')  BY <2>5, <2>6, Zenon
  <2>9. moves' \in Nat  BY <1>1, <2>1
  <2> QED BY <2>5, <2>7, <2>8, <2>9, Zenon
<1> QED BY <1>2, <1>3

LEMMA QsyStep ==
  ASSUME IInv, NEW f \in Freqs, Qsy(f)
  PROVE  IInv'
<1>1. /\ wanted' = f /\ nominal' = f
      /\ spoilt' \subseteq Spoilers /\ ("untold" \in spoilt' => "turned" \in spoilt')
      /\ UNCHANGED <<known, waiting, audio, firstError, dialogs, toGui, radio, stuck>>
  BY DEF Qsy, Spoilers
<1>2. f \in Freqs \cup {0} /\ SetRig(f, FALSE)  BY DEF Qsy
<1>3. /\ ConfigOK' /\ ToRigOK(toRig') /\ moves' \in Nat /\ obj' \in [Rigs -> Object]
      /\ QueueOK(toGui, rig', active', own')
  BY <1>2, SetRigOK
<1>4. QueueOK(toGui', rig', active', own')  BY <1>1, <1>3, Zenon
<1> QED BY <1>1, <1>2, <1>3, <1>4 DEF IInv, WindowOK, ThreadOK, RestOK

LEMMA PttOnStep ==
  ASSUME IInv, PttOn
  PROVE  IInv'
<1>1. /\ waiting' = rig' /\ wanted' \in {wanted, 0}
      /\ UNCHANGED <<known, nominal, audio, firstError, dialogs, toGui, radio, spoilt, stuck>>
  BY DEF PttOn
<1>2. nominal \in Freqs \cup {0} /\ SetRig(nominal, TRUE)  BY DEF PttOn, IInv, WindowOK
<1>3. /\ ConfigOK' /\ ToRigOK(toRig') /\ moves' \in Nat /\ obj' \in [Rigs -> Object]
      /\ QueueOK(toGui, rig', active', own')
  BY <1>2, SetRigOK
<1>4. QueueOK(toGui', rig', active', own')  BY <1>1, <1>3, Zenon
<1>5. waiting' \in Rigs \cup {0}  BY <1>1, <1>3 DEF ConfigOK
<1> QED BY <1>1, <1>3, <1>4, <1>5 DEF IInv, WindowOK, ThreadOK, RestOK

LEMMA PttOffStep ==
  ASSUME IInv, PttOff
  PROVE  IInv' /\ active' = active
<1> DEFINE s == [cached EXCEPT !.online = TRUE, !.ptt = FALSE]
<1>1. cached \in TransceiverState  BY DEF IInv, ConfigOK
<1>2. s \in TransceiverState  BY <1>1 DEF TransceiverState
<1>3. /\ Send(<<s>>) /\ waiting' = 0 /\ audio' = FALSE
      /\ UNCHANGED <<known, nominal, firstError, dialogs, toGui, wanted, spoilt, radio, stuck>>
  BY DEF PttOff
<1> HIDE DEF s
<1>4. <<s>> \in Seq(TransceiverState) /\ <<s>>[Len(<<s>>)] = s  BY <1>2
<1>5. ConfigOK' /\ ToRigOK(toRig') /\ moves' \in Nat /\ UNCHANGED <<rig, active, own, obj>>
  BY <1>2, <1>3, <1>4, SendOK
<1> QED BY <1>3, <1>5 DEF IInv, WindowOK, ThreadOK, RestOK

LEMMA UpdateStep ==
  ASSUME IInv, HandleUpdate
  PROVE  IInv' /\ (active /\ ~active' /\ rig = own => Head(toGui).rig = rig)
<1> DEFINE e == Head(toGui)  s == e.state
<1>1. /\ QueueOK(Tail(toGui), rig, active, own) /\ s \in TransceiverState
      /\ own = rig => e.rig = rig
  BY EventOK DEF HandleUpdate
<1>2. /\ toGui' = Tail(toGui)
      /\ cached' = [cached EXCEPT !.online = s.online, !.freq = s.freq]
      /\ active' = (active /\ s.online)
      /\ toRig' = IF s.online THEN toRig ELSE Closed
      /\ UNCHANGED <<number, rig, settings, own, firstError, dialogs, wanted, moves>>
      /\ UNCHANGED <<obj, radio, stuck>>
  BY DEF HandleUpdate, threadVars
<1>2a. /\ known' \in {s, known} /\ nominal' \in {s.freq, nominal}
       /\ waiting' \in {0, waiting} /\ spoilt' \in {spoilt \cup {"crossed"}, spoilt}
  BY DEF HandleUpdate
<1>3. audio' \in BOOLEAN /\ active' \in BOOLEAN
  BY DEF HandleUpdate
<1>4. s.online \in BOOLEAN /\ s.freq \in Freqs \cup {0}  BY <1>1 DEF TransceiverState
<1> HIDE DEF s, e
<1>5. cached' \in TransceiverState
  BY <1>2, <1>4 DEF IInv, ConfigOK, TransceiverState
<1>6. ToRigOK(toRig')  BY <1>2, ClosedOK DEF IInv
<1>7. QueueOK(toGui', rig, active', own)
  <2>1. CASE s.online
    <3>1. active' = active  BY <1>2, <1>3, <2>1 DEF IInv, ConfigOK
    <3> QED BY <1>1, <1>2, <3>1
  <2>2. CASE ~s.online
    <3>1. active' = FALSE  BY <1>2, <1>3, <2>2
    <3> QED BY <1>1, <1>2, <3>1, QueueClosed
  <2> QED BY <2>1, <2>2
<1>8. ConfigOK'  BY <1>2, <1>3, <1>5 DEF IInv, ConfigOK
<1>9. WindowOK'  BY <1>1, <1>2, <1>3, <1>4, <1>2a DEF IInv, WindowOK
<1>10. ThreadOK' /\ RestOK'  BY <1>2, <1>2a DEF IInv, ThreadOK, RestOK, Spoilers
<1>11. IInv'  BY <1>2, <1>6, <1>7, <1>8, <1>9, <1>10 DEF IInv
<1> QED BY <1>1, <1>11 DEF e

\* rigFailure and Stop; the rig is closed already.
LEMMA RigFailureOK ==
  ASSUME IInv, NEW q, RigFailure(q), NEW on, on = FALSE, QueueOK(q, rig, on, own)
  PROVE  WindowOK' /\ QueueOK(toGui', rig, on, own)
<1> DEFINE e == Post("open", rig, 0, NoState)
<1>1. rig \in Rigs /\ rig \in Nat \ {0}
  BY RigControlAssumption DEF IInv, ConfigOK, Rigs
<1>2. e \in Events /\ e.kind = "open" /\ e.rig = rig  BY <1>1, PostType, NoObjectType
<1>3. toGui' \in {Append(q, e), q}  BY DEF RigFailure
<1> HIDE DEF e
<1>4. QueueOK(toGui', rig, on, own)  BY <1>1, <1>2, <1>3, QueueOpen
<1>5. waiting' = 0 /\ audio' = FALSE /\ UNCHANGED <<known, nominal>>  BY DEF RigFailure
<1>6. firstError' \in BOOLEAN /\ dialogs' \in Nat
  <2>1. firstError \in BOOLEAN /\ dialogs \in Nat  BY DEF IInv, WindowOK
  <2>2. CASE firstError  BY <2>1, <2>2 DEF RigFailure
  <2>3. CASE ~firstError  BY <2>1, <2>3 DEF RigFailure
  <2> QED BY <2>2, <2>3
<1>7. WindowOK'  BY <1>5, <1>6 DEF IInv, WindowOK
<1> QED BY <1>4, <1>7

LEMMA FailureStep ==
  ASSUME IInv, HandleFailure
  PROVE  IInv' /\ (active /\ ~active' /\ rig = own => Head(toGui).rig = rig)
<1> DEFINE q == Tail(toGui)
<1>1. /\ QueueOK(q, rig, active, own)
      /\ own = rig => Head(toGui).rig = rig
  BY EventOK DEF HandleFailure
<1>2. QueueOK(q, rig, FALSE, own)
  <2> HIDE DEF q
  <2> QED BY <1>1, QueueClosed
<1>3. /\ toRig' = Closed /\ active' = FALSE /\ UNCHANGED <<number, cached, rig, own>>
      /\ UNCHANGED <<settings, wanted, spoilt, moves, obj, radio, stuck>>
  BY DEF HandleFailure, CloseRig, threadVars
<1>4. WindowOK' /\ QueueOK(toGui', rig, FALSE, own)
  <2>1. CASE settings = "visible"
    <3>1. toGui' = q /\ UNCHANGED windowVars  BY <2>1 DEF HandleFailure
    <3> QED BY <1>2, <3>1 DEF windowVars, IInv, WindowOK
  <2>2. CASE settings # "visible"
    <3>1. RigFailure(q)  BY <2>2 DEF HandleFailure
    <3> HIDE DEF q
    <3> QED BY <1>2, <3>1, RigFailureOK
  <2> QED BY <2>1, <2>2
<1>5. ToRigOK(toRig')  BY <1>3, ClosedOK
<1>6. ConfigOK' /\ ThreadOK' /\ RestOK'
  BY <1>3 DEF IInv, ConfigOK, ThreadOK, RestOK
<1>7. QueueOK(toGui', rig', active', own')  BY <1>3, <1>4, Zenon
<1>8. IInv'  BY <1>4, <1>5, <1>6, <1>7 DEF IInv
<1> QED BY <1>1, <1>8

LEMMA RigOpenStep ==
  ASSUME IInv, RigOpen
  PROVE  IInv'
<1>1. /\ QueueOK(Tail(toGui), rig, active, own) /\ QueueOK(toGui, rig, active, own)
      /\ toGui # <<>> /\ Head(toGui).kind = "open" /\ toGui' = Tail(toGui)
  BY EventOK DEF RigOpen, Event, IInv
<1>2. UNCHANGED <<settings, spoilt, moves, radio, stuck, known, nominal, waiting, audio, firstError, dialogs>>
  BY DEF RigOpen, windowVars
<1>3. rig \in Rigs /\ rig \in Nat \ {0}
  BY RigControlAssumption DEF IInv, ConfigOK, Rigs
<1>4. CASE active
  <2>1. UNCHANGED <<number, cached, active, rig, own, toRig, obj, wanted>>
    BY <1>4 DEF RigOpen
  <2> QED BY <1>1, <1>2, <2>1 DEF IInv, ConfigOK, WindowOK, ThreadOK, RestOK
<1>5. CASE ~active
  <2> DEFINE w == IF Head(toGui).rig = rig THEN rig + 1 ELSE 0
  <2>1. OpenRig(w, <<>>) /\ cached' = NoState /\ wanted' = 0  BY <1>5 DEF RigOpen
  <2>2. QueueOK(Tail(toGui), rig + 1, TRUE, w)
    BY <1>1, <1>3, QueueOwn, QueueNext
  <2>3. w \in 0..(rig + 1)  BY <1>3
  <2> HIDE DEF w
  <2>4. /\ rig' = rig + 1 /\ rig' \in Rigs /\ active' = TRUE /\ own' = w /\ number' \in Nat
        /\ ToRigOK(toRig') /\ obj' \in [Rigs -> Object]
    BY <2>1, NoCommands, OpenRigOK
  <2>5. QueueOK(toGui', rig', active', own')  BY <1>1, <2>2, <2>4, Zenon
  <2>6. ConfigOK'  BY <1>2, <2>1, <2>3, <2>4, NoObjectType DEF IInv, ConfigOK
  <2>7. WindowOK' /\ ThreadOK' /\ RestOK'
    BY <1>2, <2>1, <2>4 DEF IInv, WindowOK, ThreadOK, RestOK
  <2> QED BY <2>4, <2>5, <2>6, <2>7 DEF IInv
<1> QED BY <1>4, <1>5

LEMMA RigOpenFailsStep ==
  ASSUME IInv, RigOpenFails
  PROVE  IInv'
<1>1. QueueOK(Tail(toGui), rig, active, own)  BY EventOK DEF RigOpenFails
<1>2. active = FALSE  BY DEF RigOpenFails, IInv, ConfigOK
<1>3. RigFailure(Tail(toGui))  BY DEF RigOpenFails
<1>4. WindowOK' /\ QueueOK(toGui', rig, active, own)  BY <1>1, <1>2, <1>3, RigFailureOK
<1>5. /\ UNCHANGED <<number, cached, active, rig, settings, own>>
      /\ UNCHANGED <<toRig, wanted, spoilt, obj, radio, stuck>> /\ moves' = moves + 2
  BY DEF RigOpenFails, configVars, Costs
<1>6. ConfigOK' /\ ThreadOK' /\ RestOK'
  BY <1>5 DEF IInv, ConfigOK, ThreadOK, RestOK
<1> QED BY <1>4, <1>5, <1>6 DEF IInv

LEMMA AnswerStep ==
  ASSUME IInv, NEW retry \in BOOLEAN, Answer(retry)
  PROVE  IInv'
<1> DEFINE n == IF active THEN 0 ELSE rig  e == Post("open", n, 0, NoState)
<1>1. rig \in Rigs /\ rig \in Nat \ {0} /\ active \in BOOLEAN
  BY RigControlAssumption DEF IInv, ConfigOK, Rigs
<1>2. n \in Rigs \cup {0} /\ (n = 0 \/ (n = rig /\ active = FALSE))  BY <1>1
<1>3. toGui' \in {Append(toGui, e), toGui}  BY DEF Answer
<1> HIDE DEF n
<1>4. e \in Events /\ e.kind = "open" /\ e.rig = n  BY <1>2, PostType, NoObjectType
<1> HIDE DEF e
<1>5. QueueOK(toGui, rig, active, own)  BY DEF IInv
<1>6. QueueOK(toGui', rig, active, own)  BY <1>1, <1>2, <1>3, <1>4, <1>5, QueueOpen
<1>7. /\ dialogs > 0 /\ dialogs' = dialogs - 1 /\ firstError' = TRUE
      /\ UNCHANGED <<number, cached, active, rig, settings, own>>
      /\ UNCHANGED <<known, nominal, waiting, audio, toRig, wanted, spoilt, moves, obj, radio, stuck>>
  BY DEF Answer, configVars, threadVars
<1>8. ConfigOK' /\ WindowOK' /\ ThreadOK' /\ RestOK'
  BY <1>7 DEF IInv, ConfigOK, WindowOK, ThreadOK, RestOK
<1> QED BY <1>6, <1>7, <1>8 DEF IInv

LEMMA SettingsStep ==
  ASSUME IInv, OpenSettings \/ \E b \in BOOLEAN : CloseSettings(b)
  PROVE  IInv'
<1>1. QueueOK(toGui, rig, active, own) /\ rig \in Nat \ {0}
  BY RigControlAssumption DEF IInv, ConfigOK, Rigs
<1>2. CASE OpenSettings
  <2>1. /\ settings' = "visible" /\ moves' = moves + 2
        /\ UNCHANGED <<number, cached, active, rig, own, toGui, toRig, wanted, spoilt>>
        /\ UNCHANGED <<known, nominal, waiting, audio, firstError, dialogs, obj, radio, stuck>>
    BY <1>2 DEF OpenSettings, windowVars, threadVars, Costs
  <2> QED BY <2>1 DEF IInv, ConfigOK, WindowOK, ThreadOK, RestOK
<1>3. ASSUME NEW b \in BOOLEAN, CloseSettings(b) PROVE IInv'
  <2>1. /\ settings' = "closed"
        /\ UNCHANGED <<toGui, spoilt, moves, radio, stuck, known, nominal, waiting, audio, firstError, dialogs>>
    BY <1>3 DEF CloseSettings, windowVars
  <2>2. CASE b
    <3>1. OpenRig(0, <<>>) /\ cached' = NoState /\ wanted' = 0
      BY <1>3, <2>2 DEF CloseSettings
    <3>2. /\ rig' = rig + 1 /\ rig' \in Rigs /\ active' = TRUE /\ own' = 0 /\ number' \in Nat
          /\ ToRigOK(toRig') /\ obj' \in [Rigs -> Object]
      BY <3>1, NoCommands, OpenRigOK
    <3>3. QueueOK(toGui, rig + 1, TRUE, 0)  BY <1>1, QueueNext
    <3>4. QueueOK(toGui', rig', active', own')  BY <2>1, <3>2, <3>3, Zenon
    <3>5. 0 \in 0..(rig + 1)  BY <1>1
    <3>6. ConfigOK'  BY <2>1, <3>1, <3>2, <3>5, NoObjectType DEF IInv, ConfigOK
    <3>7. WindowOK' /\ ThreadOK' /\ RestOK'
      BY <2>1, <3>1, <3>2 DEF IInv, WindowOK, ThreadOK, RestOK
    <3> QED BY <3>2, <3>4, <3>6, <3>7 DEF IInv
  <2>3. CASE ~b
    <3>1. UNCHANGED <<number, cached, active, rig, own, toRig, obj, wanted>>
      BY <1>3, <2>3 DEF CloseSettings
    <3> QED BY <2>1, <3>1 DEF IInv, ConfigOK, WindowOK, ThreadOK, RestOK
  <2> QED BY <2>2, <2>3
<1> QED BY <1>2, <1>3

-----------------------------------------------------------------------------
(* The rigs' thread.                                                       *)

\* A step of the rigs' thread leaves the GUI thread's own state alone; what it
\* adds to the history of the last QSY is one of its ends.
ThreadStepOK ==
  /\ obj' \in [Rigs -> Object] /\ radio' \in Radio /\ stuck' \in BOOLEAN
  /\ wanted' \in Freqs \cup {0} /\ moves' \in Nat
  /\ QueueOK(toGui', rig, active, own)

Spoils == spoilt' \subseteq Spoilers /\ ("untold" \in spoilt' => "turned" \in spoilt')

LEMMA ThreadStep ==
  ASSUME IInv, UnchangedGui, ThreadStepOK, Spoils, ToRigOK(toRig')
  PROVE  IInv' /\ active' = active
<1>1. /\ UNCHANGED <<number, cached, active, rig, settings, own>>
      /\ UNCHANGED <<known, nominal, waiting, audio, firstError, dialogs>>
  BY DEF UnchangedGui, configVars, windowVars
<1>2. QueueOK(toGui', rig', active', own')  BY <1>1, Zenon DEF ThreadStepOK
<1>3. ConfigOK' /\ WindowOK' /\ ThreadOK' /\ RestOK'
  BY <1>1 DEF ThreadStepOK, Spoils, IInv, ConfigOK, WindowOK, ThreadOK, RestOK
<1> QED BY <1>1, <1>2, <1>3 DEF IInv

LEMMA UpdateType ==
  ASSUME NEW r \in Rigs, NEW o \in Object
  PROVE  Update(r, o) \in Events /\ Update(r, o).kind = "update" /\ Update(r, o).rig = r
<1>1. o.seq \in Nat /\ o.actual \in TransceiverState  BY DEF Object
<1> QED BY <1>1, PostType DEF Update

\* An object has said one thing, an update.
LEMMA Says ==
  ASSUME IInv, NEW r \in Rigs, NEW o \in Object
  PROVE  QueueOK(Emitted(r, <<Update(r, o)>>), rig, active, own)
<1> DEFINE u == Update(r, o)
<1>1. u \in Events /\ u.kind \in {"update", "failure"} /\ u.rig = r  BY UpdateType
<1> HIDE DEF u
<1>2. QueueOK(Emitted(r, <<u>>), rig, active, own)  BY <1>1, EmittedOK
<1> QED BY <1>2 DEF u

\* One object is replaced by another.
LEMMA ObjType ==
  ASSUME IInv, NEW r \in Rigs, NEW o \in Object
  PROVE  [obj EXCEPT ![r] = o] \in [Rigs -> Object] /\ obj[r] \in Object
BY DEF IInv, ThreadOK

LEMMA FailsOK ==
  ASSUME IInv, NEW r \in Rigs, NEW o \in Object, NEW h \in Radio, NEW forced \in BOOLEAN,
         Fails(r, o, h, forced)
  PROVE  ThreadStepOK
<1> DEFINE l == IF forced THEN o.actual ELSE o.last
           n == [o EXCEPT !.phase = "failing", !.last = l]
           u == Update(r, o)  e == Post("failure", r, 0, NoState)
<1>1. l \in TransceiverState  BY DEF Object
<1>2. obj' = [obj EXCEPT ![r] = n]  BY DEF Fails
<1> HIDE DEF l
<1>3. n \in Object  BY <1>1 DEF Object
<1> HIDE DEF n
<1>4. obj' \in [Rigs -> Object]  BY <1>2, <1>3, ObjType
<1>5. u \in Events /\ u.kind \in {"update", "failure"} /\ u.rig = r  BY UpdateType
<1>6. e \in Events /\ e.kind \in {"update", "failure"} /\ e.rig = r
  BY PostType, NoObjectType
<1>7. toGui' = Emitted(r, (IF forced THEN <<u>> ELSE <<>>) \o <<e>>)  BY DEF Fails
<1> HIDE DEF u, e
<1>8. QueueOK(toGui', rig, active, own)
  <2>1. CASE forced
    <3>1. <<u>> \o <<e>> = <<u, e>>  BY <1>5, <1>6, Pair
    <3>2. toGui' = Emitted(r, <<u, e>>)  BY <1>7, <2>1, <3>1
    <3> QED BY <1>5, <1>6, <3>2, EmittedOK
  <2>2. CASE ~forced
    <3>1. <<e>> \in Seq(Events)  BY <1>6
    <3>2. <<>> \o <<e>> = <<e>>  BY <3>1, ConcatEmptySeq
    <3>3. toGui' = Emitted(r, <<e>>)  BY <1>7, <2>2, <3>2
    <3> QED BY <1>6, <3>3, EmittedOK
  <2> QED BY <2>1, <2>2
<1>9. radio' = h /\ wanted' = 0 /\ stuck' = stuck /\ moves' = moves + 2
  BY DEF Fails, Costs
<1>10. moves \in Nat /\ stuck \in BOOLEAN  BY DEF IInv, RestOK, ThreadOK
<1> QED BY <1>4, <1>8, <1>9, <1>10 DEF ThreadStepOK

\* What the rigs' thread is told next.
LEMMA ToldOK ==
  ASSUME IInv, NEW c, Told(c)
  PROVE  LET e == Head(toRig) IN
         /\ ToRigOK(toRig') /\ e.rig \in Rigs /\ e.seq \in Nat /\ e.state \in TransceiverState
         /\ obj[e.rig] \in Object /\ radio \in Radio
<1>1. ToRigOK(toRig) /\ toRig # <<>> /\ toRig' = Tail(toRig)  BY DEF IInv, Told
<1>2. ToRigOK(toRig') /\ Head(toRig) \in Events /\ Head(toRig).rig \in Rigs
  BY <1>1, ToRigTail
<1>3. Head(toRig).seq \in Nat /\ Head(toRig).state \in TransceiverState
  BY <1>2 DEF Events
<1> QED BY <1>2, <1>3 DEF IInv, ThreadOK

\* The fields that are not of the radio.
LEMMA FieldsType ==
  ASSUME NEW o \in Object, NEW n \in Nat, NEW c \in {"none", "ready", "failing", "gone"}
  PROVE  /\ [o EXCEPT !.seq = n] \in Object
         /\ [o EXCEPT !.last = o.actual] \in Object
         /\ [o EXCEPT !.phase = c] \in Object
         /\ [o EXCEPT !.phase = c, !.last = o.actual] \in Object
BY DEF Object

\* What every step finds.
LEMMA RestType ==
  ASSUME IInv
  PROVE  /\ radio \in Radio /\ stuck \in BOOLEAN /\ moves \in Nat /\ wanted \in Freqs \cup {0}
         /\ \A r \in Rigs : obj[r] \in Object
         /\ QueueOK(toGui, rig, active, own)
         /\ Read(radio) \in Radio
<1>1. \E f \in Freqs : TRUE  BY TransceiverAssumption
<1> QED BY <1>1, RadioType, Counts DEF IInv, ThreadOK, RestOK

LEMMA StartStep ==
  ASSUME IInv, Start
  PROVE  IInv' /\ active' = active
<1> DEFINE e == Head(toRig)  o == obj[e.rig]
           up == [Startup(o, radio) EXCEPT !.seq = e.seq]
           n == [up EXCEPT !.last = up.actual]
<1>1. /\ ToRigOK(toRig') /\ e.rig \in Rigs /\ e.seq \in Nat
      /\ o \in Object /\ radio \in Radio /\ UnchangedGui /\ Spoils
  BY ToldOK DEF Start, Spoils, IInv, RestOK
<1>2. \/ /\ obj' = [obj EXCEPT ![e.rig] = n]
         /\ radio' = Read(radio) /\ toGui' = Emitted(e.rig, <<Update(e.rig, up)>>)
         /\ UNCHANGED <<wanted, stuck, moves>>
      \/ Fails(e.rig, o, radio, TRUE)
  BY DEF Start
<1>3. up \in Object /\ n \in Object
  <2>1. Startup(o, radio) \in Object  BY <1>1, StartupType
  <2>2. up \in Object  BY <1>1, <2>1, FieldsType
  <2> HIDE DEF up
  <2> QED BY <2>2, FieldsType
<1> HIDE DEF e, up, n, o
<1>4. CASE Fails(e.rig, o, radio, TRUE)
  BY <1>1, <1>4, FailsOK, ThreadStep
<1>5. CASE ~Fails(e.rig, o, radio, TRUE)
  <2>1. obj' \in [Rigs -> Object]  BY <1>1, <1>2, <1>3, <1>5, ObjType
  <2>2. QueueOK(toGui', rig, active, own)  BY <1>1, <1>2, <1>3, <1>5, Says
  <2>3. ThreadStepOK  BY <1>2, <1>5, <2>1, <2>2, RestType DEF ThreadStepOK
  <2> QED BY <1>1, <2>3, ThreadStep
<1> QED BY <1>4, <1>5

LEMMA TimeoutStep ==
  ASSUME IInv, NEW r \in Rigs, Timeout(r)
  PROVE  IInv' /\ active' = active
<1> DEFINE o == Polled(obj[r], radio)  n == Synced(o)
<1>1. ToRigOK(toRig') /\ UnchangedGui /\ Spoils
  BY DEF Timeout, IInv, RestOK, Spoils
<1>2. \/ /\ obj' = [obj EXCEPT ![r] = n] /\ radio' = Read(radio)
         /\ toGui' \in {Emitted(r, <<Update(r, n)>>), toGui}
         /\ UNCHANGED <<wanted, stuck, moves>>
      \/ Fails(r, obj[r], radio, FALSE)
  BY DEF Timeout
<1>3. n \in Object  BY RestType, PolledType, SyncedType
<1> HIDE DEF n
<1>4. CASE Fails(r, obj[r], radio, FALSE)
  BY <1>1, <1>4, RestType, FailsOK, ThreadStep
<1>5. CASE ~Fails(r, obj[r], radio, FALSE)
  <2>1. obj' \in [Rigs -> Object]  BY <1>2, <1>3, <1>5, ObjType
  <2>2. QueueOK(toGui', rig, active, own)  BY <1>2, <1>3, <1>5, Says, RestType
  <2>3. ThreadStepOK  BY <1>2, <1>5, <2>1, <2>2, RestType DEF ThreadStepOK
  <2> QED BY <1>1, <2>3, ThreadStep
<1> QED BY <1>4, <1>5

LEMMA SetStep ==
  ASSUME IInv, Set
  PROVE  IInv' /\ active' = active
<1> DEFINE e == Head(toRig)  r == e.rig  s == e.state
<1>1. /\ ToRigOK(toRig') /\ r \in Rigs /\ e.seq \in Nat /\ s \in TransceiverState
      /\ obj[r] \in Object /\ radio \in Radio /\ UnchangedGui
  BY ToldOK DEF Set
<1>0. Spoils
  <2>1. spoilt' \in {spoilt, spoilt \cup {"ignored"}}  BY DEF Set
  <2> QED BY <2>1 DEF Spoils, Spoilers, IInv, RestOK
<1> DEFINE st(l) == Steps(obj[r], radio, s, l)
           before(l, k) == IF k = 1 THEN [obj |-> obj[r], radio |-> radio] ELSE st(l)[k - 1]
           done(l) == [st(l)[4].obj EXCEPT
                         !.seq = e.seq,
                         !.requested = [@ EXCEPT !.ptt = st(l)[4].obj.actual.ptt]]
<1>2. PICK l \in {0, MaxLag} :
        \/ /\ obj' = [obj EXCEPT ![r] = [done(l) EXCEPT !.last = done(l).actual]]
           /\ radio' = st(l)[4].radio
           /\ toGui' = Emitted(r, <<Update(r, done(l))>>)
           /\ UNCHANGED <<wanted, stuck, moves>>
        \/ \E k \in 1..4 : \E h \in {before(l, k).radio, st(l)[k].radio} :
             Fails(r, before(l, k).obj, h, TRUE)
  BY DEF Set
<1>3. l \in 0..MaxLag  BY Counts
<1>4. ASSUME NEW k \in 1..4
      PROVE  /\ st(l)[k].obj \in Object /\ st(l)[k].radio \in Radio
             /\ before(l, k).obj \in Object /\ before(l, k).radio \in Radio
  <2>1. st(l)[k].obj \in Object /\ st(l)[k].radio \in Radio  BY <1>1, <1>3, StepsType
  <2>2. CASE k = 1  BY <1>1, <2>1, <2>2
  <2>3. CASE k # 1
    <3>1. k - 1 \in 1..4  BY <2>3
    <3>2. st(l)[k - 1].obj \in Object /\ st(l)[k - 1].radio \in Radio
      BY <1>1, <1>3, <3>1, StepsType
    <3> QED BY <2>1, <2>3, <3>2
  <2> QED BY <2>2, <2>3
<1>5. done(l) \in Object /\ [done(l) EXCEPT !.last = done(l).actual] \in Object
  <2> DEFINE o == st(l)[4].obj  b == o.actual.ptt
             q == [o.requested EXCEPT !.ptt = b]  d == [o EXCEPT !.seq = e.seq, !.requested = q]
  <2>1. o \in Object  BY <1>4
  <2>2. done(l) = d  OBVIOUS
  <2> HIDE DEF o, st, done
  <2>3. b \in BOOLEAN /\ o.requested \in TransceiverState
    BY <2>1 DEF Object, TransceiverState
  <2> HIDE DEF b
  <2>4. q \in TransceiverState  BY <2>3 DEF TransceiverState
  <2> HIDE DEF q, e
  <2>5. d \in Object  BY <1>1, <2>1, <2>4 DEF Object
  <2> HIDE DEF d
  <2>6. [d EXCEPT !.last = d.actual] \in Object  BY <2>5, FieldsType
  <2> QED BY <2>2, <2>5, <2>6
<1> HIDE DEF e, r, s, st, before, done
<1>6. CASE \E k \in 1..4 : \E h \in {before(l, k).radio, st(l)[k].radio} :
             Fails(r, before(l, k).obj, h, TRUE)
  BY <1>0, <1>1, <1>4, <1>6, FailsOK, ThreadStep
<1>7. CASE /\ obj' = [obj EXCEPT ![r] = [done(l) EXCEPT !.last = done(l).actual]]
           /\ radio' = st(l)[4].radio
           /\ toGui' = Emitted(r, <<Update(r, done(l))>>)
           /\ UNCHANGED <<wanted, stuck, moves>>
  <2>1. obj' \in [Rigs -> Object]  BY <1>1, <1>5, <1>7, ObjType
  <2>2. QueueOK(toGui', rig, active, own)  BY <1>1, <1>5, <1>7, Says
  <2>3. radio' \in Radio  BY <1>4, <1>7
  <2>4. ThreadStepOK  BY <1>7, <2>1, <2>2, <2>3, RestType DEF ThreadStepOK
  <2> QED BY <1>0, <1>1, <2>4, ThreadStep
<1> QED BY <1>2, <1>6, <1>7

LEMMA GoesOfflineOK ==
  ASSUME IInv, NEW r \in Rigs, NEW c \in {"ready", "gone"}, GoesOffline(r, c)
  PROVE  ThreadStepOK
<1>1. PICK released \in BOOLEAN :
        LET o == Shutdown(obj[r], released) IN
        /\ moves' \in {moves, moves + 2}
        /\ stuck' = (stuck \/ ~released)
        /\ radio' \in {[radio EXCEPT !.ptt = FALSE], radio}
        /\ toGui' \in {Emitted(r, <<Update(r, o)>>), toGui}
        /\ obj' \in {[obj EXCEPT ![r] = [NoObject EXCEPT !.phase = "gone"]],
                     [obj EXCEPT ![r] = [o EXCEPT !.phase = "ready", !.last = o.actual]],
                     [obj EXCEPT ![r] = [o EXCEPT !.phase = "ready"]]}
        /\ wanted' = wanted
  <2> DEFINE o(b) == Shutdown(obj[r], b)
             tells(b) == (o(b).retries = 0 \/ o(b).actual = o(b).next) /\ o(b).actual # o(b).last
  <2>1. PICK b \in BOOLEAN :
          /\ IF b THEN UNCHANGED moves ELSE Costs(2)
          /\ stuck' = (stuck \/ ~b)
          /\ radio' \in {[radio EXCEPT !.ptt = FALSE], radio}
          /\ toGui' = IF tells(b) THEN Emitted(r, <<Update(r, o(b))>>) ELSE toGui
          /\ obj' = [obj EXCEPT ![r] =
                       IF c = "gone" THEN [NoObject EXCEPT !.phase = "gone"]
                       ELSE [o(b) EXCEPT !.phase = "ready",
                                         !.last = IF tells(b) THEN o(b).actual ELSE @]]
          /\ UNCHANGED wanted
    BY DEF GoesOffline
  <2>2. [o(b) EXCEPT !.phase = "ready", !.last = o(b).last] = [o(b) EXCEPT !.phase = "ready"]
    <3>1. o(b) \in Object  BY RestType, ShutdownType
    <3> HIDE DEF o
    <3> QED BY <3>1 DEF Object
  <2> HIDE DEF o, tells
  <2>3. obj' \in {[obj EXCEPT ![r] = [NoObject EXCEPT !.phase = "gone"]],
                  [obj EXCEPT ![r] = [o(b) EXCEPT !.phase = "ready", !.last = o(b).actual]],
                  [obj EXCEPT ![r] = [o(b) EXCEPT !.phase = "ready"]]}
    BY <2>1, <2>2
  <2>4. moves' \in {moves, moves + 2}  BY <2>1 DEF Costs
  <2>5. toGui' \in {Emitted(r, <<Update(r, o(b))>>), toGui}  BY <2>1
  <2> QED BY <2>1, <2>3, <2>4, <2>5 DEF o
<1> DEFINE o == Shutdown(obj[r], released)
           n == [o EXCEPT !.phase = "ready", !.last = o.actual]
           m == [o EXCEPT !.phase = "ready"]  g == [NoObject EXCEPT !.phase = "gone"]
<1>2. o \in Object  BY RestType, ShutdownType
<1>3. /\ moves' \in {moves, moves + 2} /\ stuck' = (stuck \/ ~released)
      /\ radio' \in {[radio EXCEPT !.ptt = FALSE], radio}
      /\ toGui' \in {Emitted(r, <<Update(r, o)>>), toGui}
      /\ obj' \in {[obj EXCEPT ![r] = g], [obj EXCEPT ![r] = n], [obj EXCEPT ![r] = m]}
      /\ wanted' = wanted
  BY <1>1
<1> HIDE DEF o
<1>4. n \in Object /\ m \in Object /\ g \in Object  BY <1>2, NoObjectType, FieldsType
<1> HIDE DEF n, m, g
<1>5. obj' \in [Rigs -> Object]  BY <1>3, <1>4, ObjType
<1>6. QueueOK(toGui', rig, active, own)  BY <1>2, <1>3, RestType, Says
<1>7. radio' \in Radio
  <2>1. [radio EXCEPT !.ptt = FALSE] \in Radio  BY RestType DEF Radio
  <2> QED BY <1>3, <2>1, RestType
<1>8. moves' \in Nat /\ stuck' \in BOOLEAN /\ wanted' \in Freqs \cup {0}
  BY <1>3, RestType
<1> QED BY <1>5, <1>6, <1>7, <1>8 DEF ThreadStepOK

LEMMA OfflineStep ==
  ASSUME IInv, NEW r \in Rigs, Offline(r)
  PROVE  IInv' /\ active' = active
<1>1. ToRigOK(toRig') /\ UnchangedGui /\ Spoils /\ GoesOffline(r, "ready")
  BY DEF Offline, IInv, RestOK, Spoils
<1> QED BY <1>1, GoesOfflineOK, ThreadStep

LEMMA StopStep ==
  ASSUME IInv, Stop
  PROVE  IInv' /\ active' = active
<1>1. ToRigOK(toRig') /\ Head(toRig).rig \in Rigs  BY ToldOK DEF Stop
<1>2. UnchangedGui /\ Spoils /\ GoesOffline(Head(toRig).rig, "gone")
  BY DEF Stop, IInv, RestOK, Spoils
<1> QED BY <1>1, <1>2, GoesOfflineOK, ThreadStep

LEMMA TurnStep ==
  ASSUME IInv, NEW f \in Freqs, Turn(f)
  PROVE  IInv' /\ active' = active
<1>1. /\ radio' = [radio EXCEPT !.freq = f, !.old = f, !.lag = 0]
      /\ spoilt' = spoilt \cup {"turned", "untold"} /\ moves' = moves + 2
      /\ UNCHANGED <<toGui, toRig, obj, wanted, stuck, number, cached, active, rig, settings, own>>
      /\ UNCHANGED <<known, nominal, waiting, audio, firstError, dialogs>>
  BY DEF Turn, Costs, configVars, windowVars
<1>2. radio' \in Radio  BY <1>1, RestType, RadioType, Counts
<1> QED BY <1>1, <1>2 DEF IInv, ConfigOK, WindowOK, ThreadOK, RestOK, Spoilers

-----------------------------------------------------------------------------
(* The theorems.                                                           *)

LEMMA InitIInv == Init => IInv
<1> SUFFICES ASSUME Init PROVE IInv
  OBVIOUS
<1>1. 1 \in Rigs /\ 1 \in Nat /\ 0 \in 0..1  BY RigControlAssumption DEF Rigs
<1>2. ConfigOK /\ WindowOK  BY <1>1, NoObjectType DEF Init, ConfigOK, WindowOK
<1>3. obj \in [Rigs -> Object]
  <2> DEFINE n == [NoObject EXCEPT !.phase = "ready"]
  <2>1. n \in Object  BY NoObjectType DEF Object
  <2>2. obj = [r \in Rigs |-> IF r = 1 THEN n ELSE NoObject]  BY DEF Init
  <2> HIDE DEF n
  <2> QED BY <2>1, <2>2, NoObjectType
<1>4. radio \in Radio
  <2>1. (CHOOSE f \in Freqs : TRUE) \in Freqs  BY TransceiverAssumption
  <2> DEFINE f0 == CHOOSE f \in Freqs : TRUE
  <2>2. radio = [freq |-> f0, ptt |-> FALSE, old |-> f0, lag |-> 0]  BY DEF Init
  <2>3. f0 \in Freqs  BY <2>1
  <2> HIDE DEF f0
  <2> QED BY <2>2, <2>3, Counts DEF Radio
<1>5. ThreadOK /\ RestOK  BY <1>3, <1>4 DEF Init, ThreadOK, RestOK
<1>6. ToRigOK(toRig)
  <2> DEFINE e == Post("start", 1, 1, NoState)
  <2>1. e \in Events /\ e.rig = 1  BY <1>1, PostType, NoObjectType
  <2>2. toRig = <<e>>  BY DEF Init
  <2> HIDE DEF e
  <2> QED BY <1>1, <2>1, <2>2 DEF ToRigOK
<1>7. QueueOK(toGui, rig, active, own)
  <2>1. toGui = <<>>  BY DEF Init
  <2> QED BY <2>1 DEF QueueOK
<1> QED BY <1>2, <1>5, <1>6, <1>7 DEF IInv

LEMMA NextIInv == IInv /\ [Next]_vars => IInv'
<1> SUFFICES ASSUME IInv, [Next]_vars PROVE IInv'
  OBVIOUS
<1>1. CASE Operator
  BY <1>1, QsyStep, TurnStep, PttOnStep, PttOffStep, SettingsStep, AnswerStep DEF Operator
<1>2. CASE Gui
  BY <1>2, UpdateStep, FailureStep, RigOpenStep, RigOpenFailsStep DEF Gui
<1>3. CASE RigThread
  BY <1>3, StartStep, SetStep, StopStep, OfflineStep, TimeoutStep DEF RigThread
<1>4. CASE UNCHANGED vars
  BY <1>4 DEF vars, IInv, ConfigOK, WindowOK, ThreadOK, RestOK
<1> QED BY <1>1, <1>2, <1>3, <1>4 DEF Next

\* Only an update or a failure closes a rig.
LEMMA ClosesRig ==
  ASSUME IInv, Next, active, ~active'
  PROVE  HandleUpdate \/ HandleFailure
<1>1. CASE Operator
  <2>1. ASSUME NEW f \in Freqs, Qsy(f) PROVE FALSE
    BY <2>1, SetRigOK DEF Qsy
  <2>2. ASSUME NEW f \in Freqs, Turn(f) PROVE FALSE
    BY <2>2, TurnStep
  <2>3. ASSUME PttOn \/ PttOff PROVE FALSE
    BY <2>3, SetRigOK, PttOffStep DEF PttOn, IInv, WindowOK
  <2>4. ASSUME OpenSettings PROVE FALSE
    BY <2>4 DEF OpenSettings
  <2>5. ASSUME NEW b \in BOOLEAN, Answer(b) \/ CloseSettings(b) PROVE FALSE
    BY <2>5 DEF Answer, configVars, CloseSettings, OpenRig
  <2> QED BY <1>1, <2>1, <2>2, <2>3, <2>4, <2>5 DEF Operator
<1>2. CASE Gui
  BY <1>2 DEF Gui, RigOpen, RigOpenFails
<1>3. CASE RigThread
  BY <1>3, StartStep, SetStep, StopStep, OfflineStep, TimeoutStep DEF RigThread
<1> QED BY <1>1, <1>2, <1>3 DEF Next

\* The inductive invariant: the variables have their types, the rigs' thread is
\* told only of rigs that were made, and the queue of the GUI thread holds
\* nothing of a predecessor once rigOpen has opened the next rig.
THEOREM Invariance == Spec => []IInv
BY InitIInv, NextIInv, PTL DEF Spec

\* TypeOK always holds: among it, what is known of the radio is a state of a
\* radio, and no object polls more often than PollsToStabilize before it gives
\* up (Configuration.cpp, PollingTransceiver.cpp).
THEOREM TypeInvariant == Spec => []TypeOK
<1>1. IInv => TypeOK
  <2> SUFFICES ASSUME IInv PROVE TypeOK
    OBVIOUS
  <2>1. rig \in Rigs /\ own \in 0..rig  BY DEF IInv, ConfigOK
  <2>2. own \in Rigs \cup {0}  BY <2>1, RigControlAssumption DEF Rigs
  <2>3. toGui \in Seq(Events) /\ toRig \in Seq(Events)  BY DEF IInv, QueueOK, ToRigOK
  <2> QED BY <2>1, <2>2, <2>3
      DEF TypeOK, IInv, ConfigOK, WindowOK, ThreadOK, RestOK
<1> QED BY <1>1, Invariance, PTL

\* A rig that rigOpen has opened after a failure is closed only by what it says
\* itself: its predecessor was disconnected when it failed, so that everything
\* that one had still posted was there before the attempt to open, and the
\* attempt comes after it (MainWindow::rigFailure, Configuration::close_rig).
THEOREM ReopenStandsAlways == Spec => ReopenStands
<1>1. IInv /\ [Next]_vars
        => [active /\ ~active' /\ rig = own => Head(toGui).rig = rig]_vars
  <2> SUFFICES ASSUME IInv, Next, active, ~active', rig = own
               PROVE  Head(toGui).rig = rig
    OBVIOUS
  <2>1. HandleUpdate \/ HandleFailure  BY ClosesRig
  <2> QED BY <2>1, UpdateStep, FailureStep
<1> QED BY <1>1, Invariance, PTL DEF Spec, ReopenStands
=============================================================================
