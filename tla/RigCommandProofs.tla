--------------------------- MODULE RigCommandProofs ---------------------------
(***************************************************************************)
(* Proofs about the commands of RigControl: the radio stays where the last *)
(* QSY put it, and audio starts on a radio that transmits, for any number  *)
(* of rigs, commands and failures.                                         *)
(***************************************************************************)
EXTENDS RigControlProofs

-----------------------------------------------------------------------------
(* An object and its radio.                                                *)

\* What poll should come to show is what the radio was told, and a frequency
\* the radio does not show yet is looked for longer than it needs.
Tracks(o, h) ==
  /\ o.next.freq \in {0, h.freq}
  /\ Shown(h) # h.freq => o.retries > h.lag

\* The object is on line and polls; what it holds of the radio is not torn.
Follows(o, h) ==
  /\ o.polling /\ o.actual.online /\ o.next.online /\ o.requested.online
  /\ o.actual.ptt = h.ptt
  /\ o.requested.freq = o.actual.freq

\* What every operator leaves alone.
Keeps(o, n) == n.seq = o.seq /\ n.phase = o.phase

LEMMA ExpectIs ==
  ASSUME NEW o \in Object, NEW n \in TransceiverState
  PROVE  /\ Expect(o, n).next = n
         /\ Expect(o, n).retries \in {o.retries, PollsToStabilize}
         /\ o.next # n => Expect(o, n).retries = PollsToStabilize
         /\ Expect(o, n).actual = o.actual /\ Expect(o, n).requested = o.requested
         /\ Expect(o, n).polling = o.polling /\ Keeps(o, Expect(o, n))
BY DEF Expect, Object, Keeps

LEMMA PolledIs ==
  ASSUME NEW o \in Object, NEW h \in Radio
  PROVE  LET p == Polled(o, h) IN
         /\ p \in Object
         /\ p.actual.freq = Shown(h) /\ p.actual.ptt = h.ptt
         /\ p.actual.online = o.actual.online
         /\ p.requested.freq = Shown(h) /\ p.requested.online = o.requested.online
         /\ p.requested.ptt = o.requested.ptt
         /\ p.next = o.next /\ p.retries = o.retries /\ p.polling = o.polling
         /\ p.signalled = o.signalled /\ Keeps(o, p)
<1>1. Polled(o, h) \in Object  BY PolledType
<1>2. o.actual \in TransceiverState /\ o.requested \in TransceiverState  BY DEF Object
<1> QED BY <1>1, <1>2 DEF Polled, Object, TransceiverState, Keeps

LEMMA DoPttIs ==
  ASSUME NEW o \in Object, NEW b \in BOOLEAN
  PROVE  LET p == DoPtt(o, b) IN
         /\ p \in Object
         /\ p.actual.freq = o.actual.freq /\ p.actual.ptt = b
         /\ p.actual.online = o.actual.online
         /\ p.requested = o.requested
         /\ p.next.freq = o.next.freq /\ p.next.online = o.next.online
         /\ p.retries \in {o.retries, PollsToStabilize}
         /\ p.polling = o.polling /\ Keeps(o, p)
<1> DEFINE a == [o.actual EXCEPT !.ptt = b]  n == [o.next EXCEPT !.ptt = b]
           d == [o EXCEPT !.actual = a]
<1>1. o.actual \in TransceiverState /\ o.next \in TransceiverState  BY DEF Object
<1>2. /\ a \in TransceiverState /\ a.freq = o.actual.freq /\ a.ptt = b
      /\ a.online = o.actual.online
      /\ n \in TransceiverState /\ n.freq = o.next.freq /\ n.online = o.next.online
  BY <1>1 DEF TransceiverState
<1>3. DoPtt(o, b) = Expect(d, n)  BY DEF DoPtt
<1> HIDE DEF a, n
<1>4. /\ d \in Object /\ d.actual = a /\ d.requested = o.requested /\ d.retries = o.retries
      /\ d.polling = o.polling /\ Keeps(o, d)
  BY <1>2 DEF Object, Keeps
<1> HIDE DEF d
<1>5. /\ Expect(d, n).next = n /\ Expect(d, n).retries \in {d.retries, PollsToStabilize}
      /\ Expect(d, n).actual = a /\ Expect(d, n).requested = d.requested
      /\ Expect(d, n).polling = d.polling /\ Keeps(d, Expect(d, n))
  BY <1>2, <1>4, ExpectIs
<1> QED BY <1>2, <1>3, <1>4, <1>5, DoPttType DEF Keeps

LEMMA DoFrequencyIs ==
  ASSUME NEW o \in Object, NEW f \in Freqs
  PROVE  LET p == DoFrequency(o, f) IN
         /\ p \in Object
         /\ p.actual.freq = f /\ p.requested.freq = f
         /\ p.actual.ptt = o.actual.ptt /\ p.requested.ptt = o.requested.ptt
         /\ p.actual.online = o.actual.online /\ p.requested.online = o.requested.online
         /\ p.next.freq = f /\ p.next.online = o.next.online
         /\ p.retries \in {o.retries, PollsToStabilize}
         /\ o.next.freq # f => p.retries = PollsToStabilize
         /\ p.polling = o.polling /\ Keeps(o, p)
<1> DEFINE a == [o.actual EXCEPT !.freq = f]  q == [o.requested EXCEPT !.freq = f]
           n == [o.next EXCEPT !.freq = f]
           d == [o EXCEPT !.actual = a, !.requested = q]
<1>1. /\ o.actual \in TransceiverState /\ o.next \in TransceiverState
      /\ o.requested \in TransceiverState
  BY DEF Object
<1>2. /\ a \in TransceiverState /\ a.freq = f /\ a.ptt = o.actual.ptt
      /\ a.online = o.actual.online
      /\ q \in TransceiverState /\ q.freq = f /\ q.ptt = o.requested.ptt
      /\ q.online = o.requested.online
      /\ n \in TransceiverState /\ n.freq = f /\ n.online = o.next.online
  BY <1>1 DEF TransceiverState
<1>3. DoFrequency(o, f) = Expect(d, n)  BY DEF DoFrequency
<1> HIDE DEF a, q, n
<1>4. /\ d \in Object /\ d.actual = a /\ d.requested = q /\ d.retries = o.retries
      /\ d.next = o.next /\ d.polling = o.polling /\ Keeps(o, d)
  BY <1>2 DEF Object, Keeps
<1> HIDE DEF d
<1>5. /\ Expect(d, n).next = n /\ Expect(d, n).retries \in {d.retries, PollsToStabilize}
      /\ d.next # n => Expect(d, n).retries = PollsToStabilize
      /\ Expect(d, n).actual = a /\ Expect(d, n).requested = q
      /\ Expect(d, n).polling = d.polling /\ Keeps(d, Expect(d, n))
  BY <1>2, <1>4, ExpectIs
<1>6. Expect(d, n) \in Object  BY <1>2, <1>4, ExpectType
<1> QED BY <1>2, <1>3, <1>4, <1>5, <1>6 DEF Keeps

LEMMA StartupIs ==
  ASSUME NEW o \in Object, NEW h \in Radio
  PROVE  LET p == Startup(o, h) IN
         /\ p \in Object
         /\ p.actual.freq = Shown(h) /\ p.requested.freq = Shown(h)
         /\ p.actual.ptt = h.ptt /\ p.requested.ptt = o.requested.ptt
         /\ p.polling /\ p.actual.online /\ p.next.online /\ p.requested.online
         /\ p.next.freq = o.next.freq
         /\ p.retries \in {o.retries, PollsToStabilize}
         /\ ~o.next.online => p.retries = PollsToStabilize
         /\ Keeps(o, p)
<1> DEFINE c == Polled(o, h)  n == [o.next EXCEPT !.online = TRUE]  e == Expect(c, n)
           a == [e.actual EXCEPT !.online = TRUE]  q == [e.requested EXCEPT !.online = TRUE]
<1>1. o.next \in TransceiverState  BY DEF Object
<1>2. /\ n \in TransceiverState /\ n.freq = o.next.freq /\ n.online = TRUE
  BY <1>1 DEF TransceiverState
<1>3. /\ c \in Object /\ c.actual.freq = Shown(h) /\ c.actual.ptt = h.ptt
      /\ c.requested.freq = Shown(h) /\ c.requested.ptt = o.requested.ptt
      /\ c.next = o.next /\ c.retries = o.retries /\ Keeps(o, c)
  BY PolledIs
<1>4. ~o.next.online => o.next # n  BY <1>2
<1> HIDE DEF c, n
<1>5. /\ e \in Object /\ e.next = n /\ e.retries \in {c.retries, PollsToStabilize}
      /\ c.next # n => e.retries = PollsToStabilize
      /\ e.actual = c.actual /\ e.requested = c.requested /\ Keeps(c, e)
  BY <1>2, <1>3, ExpectIs, ExpectType
<1>6. Startup(o, h) = [e EXCEPT !.polling = TRUE, !.actual = [@ EXCEPT !.online = TRUE],
                                !.requested = [@ EXCEPT !.online = TRUE]]
  BY DEF Startup, c, n
<1> HIDE DEF e
<1>7. /\ a.freq = e.actual.freq /\ a.ptt = e.actual.ptt /\ a.online = TRUE
      /\ q.freq = e.requested.freq /\ q.ptt = e.requested.ptt /\ q.online = TRUE
  <2>1. e.actual \in TransceiverState /\ e.requested \in TransceiverState
    BY <1>5 DEF Object
  <2> QED BY <2>1 DEF TransceiverState
<1>8. Startup(o, h) = [e EXCEPT !.polling = TRUE, !.actual = a, !.requested = q]
  BY <1>6
<1> HIDE DEF a, q
<1>9. /\ Startup(o, h).actual = a /\ Startup(o, h).requested = q
      /\ Startup(o, h).polling = TRUE /\ Startup(o, h).next = e.next
      /\ Startup(o, h).retries = e.retries /\ Keeps(e, Startup(o, h))
  BY <1>5, <1>8 DEF Object, Keeps
<1> QED BY <1>2, <1>3, <1>4, <1>5, <1>7, <1>9, StartupType DEF Keeps

LEMMA ShutdownIs ==
  ASSUME NEW o \in Object, NEW b \in BOOLEAN, o.requested.freq = o.actual.freq
  PROVE  LET p == Shutdown(o, b) IN
         /\ p \in Object /\ p.requested.freq = p.actual.freq /\ Keeps(o, p)
<1> DEFINE c == IF o.requested.online /\ b THEN DoPtt(o, FALSE) ELSE o
           a == [c.actual EXCEPT !.online = FALSE]  q == [c.requested EXCEPT !.online = FALSE]
<1>1. c \in Object /\ c.requested.freq = c.actual.freq /\ Keeps(o, c)
  BY DoPttIs DEF Keeps
<1>2. Shutdown(o, b) = [c EXCEPT !.polling = FALSE, !.actual = [@ EXCEPT !.online = FALSE],
                                 !.requested = [@ EXCEPT !.online = FALSE]]
  BY DEF Shutdown
<1> HIDE DEF c
<1>3. a.freq = c.actual.freq /\ q.freq = c.requested.freq
  <2>1. c.actual \in TransceiverState /\ c.requested \in TransceiverState
    BY <1>1 DEF Object
  <2> QED BY <2>1 DEF TransceiverState
<1>4. Shutdown(o, b) = [c EXCEPT !.polling = FALSE, !.actual = a, !.requested = q]
  BY <1>2
<1> HIDE DEF a, q
<1>5. /\ Shutdown(o, b).actual = a /\ Shutdown(o, b).requested = q
      /\ Keeps(c, Shutdown(o, b))
  BY <1>1, <1>4 DEF Object, Keeps
<1> QED BY <1>1, <1>3, <1>5, ShutdownType DEF Keeps

LEMMA ReadIs ==
  ASSUME NEW h \in Radio
  PROVE  LET d == Read(h) IN
         /\ d \in Radio /\ d.freq = h.freq /\ d.ptt = h.ptt
         /\ Shown(d) # d.freq => Shown(h) # h.freq /\ d.lag = h.lag - 1
<1>1. h.freq \in Freqs /\ h.old \in Freqs /\ h.lag \in 0..MaxLag /\ h.ptt \in BOOLEAN
  BY DEF Radio
<1>2. Read(h) \in Radio  BY <1>1, RadioType, Counts
<1>3. CASE h.lag = 0  BY <1>2, <1>3 DEF Read, Shown
<1>4. CASE h.lag # 0
  <2> DEFINE a == IF h.lag = 1 THEN h.freq ELSE h.old  l == h.lag - 1
  <2>1. Read(h) = [h EXCEPT !.old = a, !.lag = l]  BY <1>4 DEF Read
  <2>2. Read(h).freq = h.freq /\ Read(h).ptt = h.ptt /\ Read(h).old = a /\ Read(h).lag = l
    BY <2>1 DEF Radio
  <2>3. MaxLag \in Nat  BY Counts
  <2> QED BY <1>1, <1>2, <1>4, <2>2, <2>3 DEF Shown
<1> QED BY <1>3, <1>4

LEMMA TunedIs ==
  ASSUME NEW h \in Radio, NEW f \in Freqs, NEW lag \in {0, MaxLag}
  PROVE  LET d == Tuned(h, f, lag) IN
         d \in Radio /\ d.freq = f /\ d.ptt = h.ptt /\ (h.freq = f => d = h)
<1>1. lag \in 0..MaxLag /\ FALSE \in BOOLEAN  BY Counts
<1>2. Tuned(h, f, lag) \in Radio  BY <1>1, RadioType
<1> QED BY <1>2 DEF Tuned, Radio

\* Releasing and keying the radio leaves its dial alone.
LEMMA KeyedIs ==
  ASSUME NEW h \in Radio, NEW b \in BOOLEAN
  PROVE  LET d == [h EXCEPT !.ptt = b] IN
         d \in Radio /\ d.freq = h.freq /\ d.lag = h.lag /\ Shown(d) = Shown(h) /\ d.ptt = b
BY DEF Radio, Shown

LEMMA TracksPtt ==
  ASSUME NEW o \in Object, NEW h \in Radio, NEW b \in BOOLEAN,
         Tracks(o, h), MaxLag < PollsToStabilize
  PROVE  Tracks(DoPtt(o, b), [h EXCEPT !.ptt = b])
<1> DEFINE p == DoPtt(o, b)  d == [h EXCEPT !.ptt = b]
<1>1. p.next.freq = o.next.freq /\ p.retries \in {o.retries, PollsToStabilize}  BY DoPttIs
<1>2. d.freq = h.freq /\ d.lag = h.lag /\ Shown(d) = Shown(h)  BY KeyedIs
<1>3. h.lag \in 0..MaxLag /\ MaxLag \in Nat /\ PollsToStabilize \in Nat
  BY Counts DEF Radio
<1> HIDE DEF p, d
<1> QED BY <1>1, <1>2, <1>3 DEF Tracks, p, d

LEMMA TracksTuned ==
  ASSUME NEW o \in Object, NEW h \in Radio, NEW f \in Freqs, NEW lag \in {0, MaxLag},
         Tracks(o, h), MaxLag < PollsToStabilize
  PROVE  Tracks(DoFrequency(o, f), Tuned(h, f, lag))
<1> DEFINE p == DoFrequency(o, f)  d == Tuned(h, f, lag)
<1>1. /\ p.next.freq = f /\ p.retries \in {o.retries, PollsToStabilize}
      /\ o.next.freq # f => p.retries = PollsToStabilize
  BY DoFrequencyIs
<1>2. d \in Radio /\ d.freq = f /\ (h.freq = f => d = h)  BY TunedIs
<1>3. d.lag \in 0..MaxLag /\ MaxLag \in Nat /\ PollsToStabilize \in Nat
  BY <1>2, Counts DEF Radio
<1>4. f # 0  BY TransceiverAssumption
<1> HIDE DEF p, d
<1>5. Shown(d) # d.freq => p.retries > d.lag
  <2>1. CASE h.freq = f  BY <1>1, <1>2, <1>3, <2>1 DEF Tracks
  <2>2. CASE h.freq # f
    <3>1. o.next.freq # f  BY <1>4, <2>2 DEF Tracks
    <3> QED BY <1>1, <1>3, <3>1
  <2> QED BY <2>1, <2>2
<1> QED BY <1>1, <1>2, <1>5 DEF Tracks, p, d

\* An object that has not been started, or one that tracks its radio, tracks it
\* once it is started.
LEMMA TracksStartup ==
  ASSUME NEW o \in Object, NEW h \in Radio, MaxLag < PollsToStabilize,
         Tracks(o, h) \/ (o.next.freq = 0 /\ ~o.next.online)
  PROVE  Tracks(Startup(o, h), Read(h))
<1> DEFINE p == Startup(o, h)  d == Read(h)
<1>1. /\ p.next.freq = o.next.freq /\ p.retries \in {o.retries, PollsToStabilize}
      /\ ~o.next.online => p.retries = PollsToStabilize
  BY StartupIs
<1>2. /\ d \in Radio /\ d.freq = h.freq
      /\ Shown(d) # d.freq => Shown(h) # h.freq /\ d.lag = h.lag - 1
  BY ReadIs
<1>3. /\ d.lag \in 0..MaxLag /\ h.lag \in 0..MaxLag
      /\ MaxLag \in Nat /\ PollsToStabilize \in Nat
  BY <1>2, Counts DEF Radio
<1>4. o.retries \in 0..PollsToStabilize  BY DEF Object
<1> HIDE DEF p, d
<1> QED BY <1>1, <1>2, <1>3, <1>4 DEF Tracks, p, d

\* What do_sync signals of a radio it tracks is where the radio is.
LEMMA TracksSync ==
  ASSUME NEW o \in Object, NEW h \in Radio, Tracks(o, h)
  PROVE  LET p == Polled(o, h) IN
         /\ Signals(p) => Shown(h) = h.freq
         /\ Tracks(Synced(p), Read(h))
<1> DEFINE p == Polled(o, h)  d == Read(h)  n == Synced(p)
<1>1. /\ p \in Object /\ p.actual.freq = Shown(h) /\ p.next = o.next /\ p.retries = o.retries
  BY PolledIs
<1>2. /\ d \in Radio /\ d.freq = h.freq
      /\ Shown(d) # d.freq => Shown(h) # h.freq /\ d.lag = h.lag - 1
  BY ReadIs
<1>3. h.lag \in 0..MaxLag /\ o.retries \in 0..PollsToStabilize
      /\ MaxLag \in Nat /\ PollsToStabilize \in Nat /\ Shown(h) \in Freqs /\ Shown(h) # 0
  <2>1. h.lag \in 0..MaxLag /\ Shown(h) \in Freqs  BY DEF Radio, Shown
  <2> QED BY <2>1, Counts, TransceiverAssumption DEF Object
<1>4. Shown(h) # h.freq => h.lag # 0  BY DEF Shown
<1>5. Signals(p) => Shown(h) = h.freq
  <2> SUFFICES ASSUME Signals(p), Shown(h) # h.freq PROVE FALSE
    OBVIOUS
  <2>1. o.retries > 1  BY <1>3, <1>4 DEF Tracks
  <2>2. p.actual = p.next  BY <1>1, <1>3, <2>1 DEF Signals
  <2>3. o.next.freq = Shown(h)  BY <1>1, <2>2
  <2> QED BY <1>3, <2>3 DEF Tracks
<1> HIDE DEF p, d
<1>6. CASE Signals(p)
  <2>1. n.next = p.actual  BY <1>1, <1>6 DEF Synced, Object
  <2> QED BY <1>1, <1>2, <1>5, <1>6, <2>1 DEF Tracks, p, d
<1>7. CASE ~Signals(p)
  <2> DEFINE c == IF p.retries > 0 THEN p.retries - 1 ELSE 0
  <2>1. n = [p EXCEPT !.retries = c]  BY <1>7 DEF Synced
  <2>2. n.next = p.next /\ n.retries = c  BY <1>1, <2>1 DEF Object
  <2>3. Shown(d) # d.freq => n.retries > d.lag
    BY <1>1, <1>2, <1>3, <1>4, <2>2 DEF Tracks
  <2> HIDE DEF c, n
  <2>4. n.next.freq \in {0, d.freq}  BY <1>1, <1>2, <2>2 DEF Tracks
  <2>5. Tracks(n, d)  BY <2>3, <2>4 DEF Tracks
  <2> QED BY <1>5, <2>5 DEF n, p, d
<1> QED BY <1>6, <1>7

\* What it signals tells of a frequency the radio has come to shows it from then on.
LEMMA TracksTold ==
  ASSUME NEW o \in Object, NEW h \in Radio,
         LET p == Polled(o, h) IN Signals(p) /\ p.actual.freq = h.freq
  PROVE  Tracks(Synced(Polled(o, h)), Read(h))
<1> DEFINE p == Polled(o, h)  d == Read(h)  n == Synced(p)
<1>1. p \in Object /\ p.actual.freq = Shown(h) /\ Signals(p) /\ p.actual.freq = h.freq
  BY PolledIs
<1>2. /\ d \in Radio /\ d.freq = h.freq
      /\ Shown(d) # d.freq => Shown(h) # h.freq /\ d.lag = h.lag - 1
  BY ReadIs
<1> HIDE DEF p, d
<1>3. n.next = p.actual  BY <1>1 DEF Synced, Object
<1> HIDE DEF n
<1>4. Tracks(n, d)  BY <1>1, <1>2, <1>3 DEF Tracks
<1> QED BY <1>4 DEF n, p, d

LEMMA SyncedIs ==
  ASSUME NEW o \in Object
  PROVE  /\ Synced(o) \in Object /\ Keeps(o, Synced(o))
         /\ Synced(o).actual = o.actual /\ Synced(o).requested = o.requested
         /\ Synced(o).polling = o.polling
         /\ Synced(o).next \in {o.next, o.actual}
<1>1. Synced(o) \in Object  BY SyncedType
<1> QED BY <1>1 DEF Synced, Object, Keeps

\* After the steps of set the radio is where the command wants it, unless the
\* object takes it to be there already and leaves the third one out.
StepsDone(o, h, s, st) ==
  /\ \A k \in 1..4 : /\ st[k].obj \in Object /\ Keeps(o, st[k].obj)
                     /\ st[k].obj.requested.freq = st[k].obj.actual.freq
  /\ st[4].radio \in Radio
  /\ s.freq # 0 => st[4].obj.actual.freq = s.freq
  /\ st[3].does => st[4].radio.freq = s.freq
  /\ Follows(o, h) => Follows(st[4].obj, st[4].radio)
  /\ Follows(o, h) /\ Tracks(o, h) /\ MaxLag < PollsToStabilize
       => Tracks(st[4].obj, st[4].radio)

\* That is what the steps of set do, however late the radio answers.
LEMMA StepsRun ==
  ASSUME NEW o \in Object, NEW h \in Radio, NEW s \in TransceiverState,
         NEW lag \in {0, MaxLag}, o.requested.freq = o.actual.freq
  PROVE  StepsDone(o, h, s, Steps(o, h, s, lag))
<1> DEFINE up   == ~o.requested.online
           o1   == IF up THEN Startup(o, h) ELSE o
           h1   == IF up THEN Read(h) ELSE h
           turn == s.ptt # o1.requested.ptt
           off  == turn /\ ~s.ptt
           o2   == IF off THEN DoPtt(o1, FALSE) ELSE o1
           h2   == IF off THEN [h1 EXCEPT !.ptt = FALSE] ELSE h1
           tune == s.freq # 0 /\ (s.freq # o2.requested.freq \/ off)
           o3   == IF tune THEN DoFrequency(o2, s.freq) ELSE o2
           h3   == IF tune THEN Tuned(h2, s.freq, lag) ELSE h2
           on   == turn /\ s.ptt
           o4   == IF on THEN DoPtt(o3, TRUE) ELSE o3
           h4   == IF on THEN [h3 EXCEPT !.ptt = TRUE] ELSE h3
           Good(p, d) == /\ p \in Object /\ d \in Radio /\ Keeps(o, p)
                         /\ p.requested.freq = p.actual.freq
                         /\ Follows(o, h) => Follows(p, d)
                         /\ Follows(o, h) /\ Tracks(o, h) /\ MaxLag < PollsToStabilize
                              => Tracks(p, d)
<1>1. Steps(o, h, s, lag) =
        << [does |-> up,   obj |-> o1, radio |-> h1], [does |-> off, obj |-> o2, radio |-> h2],
           [does |-> tune, obj |-> o3, radio |-> h3], [does |-> on,  obj |-> o4, radio |-> h4] >>
  BY DEF Steps
<1>2. Good(o1, h1) /\ h1.freq = h.freq
  <2>1. CASE up
    <3>1. o1 = Startup(o, h) /\ h1 = Read(h)  BY <2>1
    <3>2. ~Follows(o, h)  BY <2>1 DEF Follows
    <3> HIDE DEF o1, h1, up
    <3> QED BY <3>1, <3>2, StartupIs, ReadIs
  <2>2. CASE ~up
    <3>1. o1 = o /\ h1 = h  BY <2>2
    <3> HIDE DEF o1, h1, up
    <3> QED BY <3>1 DEF Keeps
  <2> QED BY <2>1, <2>2
<1> HIDE DEF o1, h1, up
<1>3. ASSUME NEW p \in Object, NEW d \in Radio, NEW b \in BOOLEAN, Good(p, d)
      PROVE  Good(DoPtt(p, b), [d EXCEPT !.ptt = b])
  <2> DEFINE q == DoPtt(p, b)  g == [d EXCEPT !.ptt = b]
  <2>1. /\ q \in Object /\ q.actual.freq = p.actual.freq /\ q.actual.ptt = b
        /\ q.actual.online = p.actual.online /\ q.requested = p.requested
        /\ q.next.online = p.next.online /\ q.polling = p.polling /\ Keeps(p, q)
    BY DoPttIs
  <2>2. g \in Radio /\ g.ptt = b  BY KeyedIs
  <2>3. Tracks(p, d) /\ MaxLag < PollsToStabilize => Tracks(q, g)  BY TracksPtt
  <2> HIDE DEF q, g
  <2> QED BY <1>3, <2>1, <2>2, <2>3 DEF Follows, Keeps, q, g
<1>4. Good(o2, h2) /\ h2.freq = h.freq /\ o2.actual.freq = o1.actual.freq
  <2>1. CASE off
    <3>1. o2 = DoPtt(o1, FALSE) /\ h2 = [h1 EXCEPT !.ptt = FALSE]  BY <2>1
    <3> HIDE DEF o2, h2, off, Good
    <3>2. o1 \in Object /\ h1 \in Radio  BY <1>2 DEF Good
    <3>3. o2.actual.freq = o1.actual.freq /\ h2.freq = h1.freq
      BY <3>1, <3>2, DoPttIs, KeyedIs
    <3>4. Good(o2, h2)  BY <1>2, <1>3, <3>1, <3>2
    <3> QED BY <1>2, <3>3, <3>4
  <2>2. CASE ~off
    <3>1. o2 = o1 /\ h2 = h1  BY <2>2
    <3> HIDE DEF o2, h2, off, Good
    <3> QED BY <1>2, <3>1
  <2> QED BY <2>1, <2>2
<1> HIDE DEF o2, h2, off
<1>5. /\ Good(o3, h3) /\ (s.freq # 0 => o3.actual.freq = s.freq)
      /\ tune => h3.freq = s.freq
  <2>1. s.freq \in Freqs \cup {0}  BY DEF TransceiverState
  <2>2. CASE tune
    <3>1. o3 = DoFrequency(o2, s.freq) /\ h3 = Tuned(h2, s.freq, lag) /\ s.freq \in Freqs
      BY <2>1, <2>2
    <3> HIDE DEF o3, h3, tune
    <3> DEFINE f == s.freq
    <3>2. /\ o3 \in Object /\ o3.actual.freq = f /\ o3.requested.freq = f
          /\ o3.actual.ptt = o2.actual.ptt
          /\ o3.actual.online = o2.actual.online /\ o3.requested.online = o2.requested.online
          /\ o3.next.online = o2.next.online
          /\ o3.polling = o2.polling /\ Keeps(o2, o3)
      BY <1>4, <3>1, DoFrequencyIs
    <3>3. h3 \in Radio /\ h3.freq = f /\ h3.ptt = h2.ptt  BY <1>4, <3>1, TunedIs
    <3>4. Tracks(o2, h2) /\ MaxLag < PollsToStabilize => Tracks(o3, h3)
      BY <1>4, <3>1, TracksTuned
    <3> QED BY <1>4, <3>2, <3>3, <3>4 DEF Follows, Keeps
  <2>3. CASE ~tune
    <3>1. o3 = o2 /\ h3 = h2 /\ (s.freq # 0 => s.freq = o2.requested.freq)  BY <2>3
    <3> HIDE DEF o3, h3, tune
    <3> QED BY <1>4, <2>3, <3>1
  <2> QED BY <2>2, <2>3
<1> HIDE DEF o3, h3, tune
<1>6. Good(o4, h4) /\ h4.freq = h3.freq /\ o4.actual.freq = o3.actual.freq
  <2>1. CASE on
    <3>1. o4 = DoPtt(o3, TRUE) /\ h4 = [h3 EXCEPT !.ptt = TRUE]  BY <2>1
    <3> HIDE DEF o4, h4, on, Good
    <3>2. o3 \in Object /\ h3 \in Radio  BY <1>5 DEF Good
    <3>3. o4.actual.freq = o3.actual.freq /\ h4.freq = h3.freq
      BY <3>1, <3>2, DoPttIs, KeyedIs
    <3>4. Good(o4, h4)  BY <1>3, <1>5, <3>1, <3>2
    <3> QED BY <3>3, <3>4
  <2>2. CASE ~on
    <3>1. o4 = o3 /\ h4 = h3  BY <2>2
    <3> HIDE DEF o4, h4, on, Good
    <3> QED BY <1>5, <3>1
  <2> QED BY <2>1, <2>2
<1> HIDE DEF o4, h4, on
<1> DEFINE st == Steps(o, h, s, lag)
<1>7. /\ st[1].obj = o1 /\ st[2].obj = o2 /\ st[3].obj = o3 /\ st[4].obj = o4
      /\ st[4].radio = h4 /\ st[3].does = tune
  BY <1>1
<1> HIDE DEF st
<1>8. \A k \in 1..4 : k = 1 \/ k = 2 \/ k = 3 \/ k = 4  OBVIOUS
<1>9. ASSUME NEW k \in 1..4
      PROVE  /\ st[k].obj \in Object /\ Keeps(o, st[k].obj)
             /\ st[k].obj.requested.freq = st[k].obj.actual.freq
  BY <1>2, <1>4, <1>5, <1>6, <1>7, <1>8
<1> QED BY <1>5, <1>6, <1>7, <1>9 DEF st, StepsDone

-----------------------------------------------------------------------------
(* The queues.                                                             *)

Items(q) == {q[i] : i \in 1..Len(q)}

FailureIn(q) == \E e \in Items(q) : e.kind = "failure"

\* What will be heard of before a failure closes the rig.
InTime(q) == {q[i] : i \in {k \in 1..Len(q) : \A j \in 1..k : q[j].kind # "failure"}}

\* Commands carry a number.
Numbered(e) == e.kind \in {"start", "set"}

\* e may be posted to the rigs' thread before d: the rigs come one after the
\* other, each is started first and stopped last, and the numbers grow.
Before(e, d) ==
  /\ e.rig <= d.rig
  /\ e.kind = "stop" \/ d.kind = "start" => e.rig < d.rig
  /\ Numbered(e) /\ Numbered(d) => e.seq < d.seq

Ordered(q) == \A i, j \in 1..Len(q) : i < j => Before(q[i], q[j])

LEMMA ItemsTail ==
  ASSUME NEW S, NEW q \in Seq(S), q # <<>>
  PROVE  /\ Items(q) = Items(Tail(q)) \cup {Head(q)}
         /\ Head(q).kind # "failure" => /\ InTime(Tail(q)) \subseteq InTime(q)
                                        /\ Head(q) \in InTime(q)
         /\ Ordered(q) => Ordered(Tail(q)) /\ \A d \in Items(Tail(q)) : Before(Head(q), d)
<1> DEFINE t == Tail(q)
<1>1. t \in Seq(S) /\ Len(t) = Len(q) - 1 /\ \A i \in 1..Len(t) : t[i] = q[i + 1]
  BY HeadTailProperties
<1>2. Len(q) \in Nat \ {0} /\ Head(q) = q[1]  BY EmptySeq
<1> HIDE DEF t
<1>3. /\ 1 \in 1..Len(q) /\ \A i \in 1..Len(t) : i + 1 \in 1..Len(q) /\ 1 < i + 1
      /\ \A i \in 1..Len(q) : i # 1 => i - 1 \in 1..Len(t) /\ i = (i - 1) + 1
  BY <1>1, <1>2
<1>4. Items(q) = Items(t) \cup {Head(q)}
  <2>1. ASSUME NEW i \in 1..Len(q) PROVE q[i] \in Items(t) \cup {Head(q)}
    <3>1. CASE i = 1  BY <1>2, <3>1
    <3>2. CASE i # 1
      <4>1. i - 1 \in 1..Len(t) /\ q[i] = t[i - 1]  BY <1>1, <1>3, <3>2
      <4> QED BY <4>1 DEF Items
    <3> QED BY <3>1, <3>2
  <2>2. ASSUME NEW i \in 1..Len(t) PROVE t[i] \in Items(q)
    BY <1>1, <1>3 DEF Items
  <2>3. Head(q) \in Items(q)
    <3>1. 1 \in 1..Len(q) /\ Head(q) = q[1]  BY <1>2, <1>3
    <3> QED BY <3>1 DEF Items
  <2> QED BY <2>1, <2>2, <2>3 DEF Items
<1>5. ASSUME Head(q).kind # "failure"
      PROVE  InTime(t) \subseteq InTime(q) /\ Head(q) \in InTime(q)
  <2>1. ASSUME NEW k \in 1..Len(t), \A j \in 1..k : t[j].kind # "failure"
        PROVE  t[k] \in InTime(q)
    <3>1. k + 1 \in 1..Len(q) /\ t[k] = q[k + 1]  BY <1>1, <1>3
    <3>2. ASSUME NEW j \in 1..(k + 1) PROVE q[j].kind # "failure"
      <4>1. CASE j = 1  BY <1>2, <1>5, <4>1
      <4>2. CASE j # 1
        <5>1. j - 1 \in 1..k /\ j - 1 \in 1..Len(t) /\ j \in 1..Len(q)
          BY <1>1, <1>2, <4>2
        <5>2. q[j] = t[j - 1]
          <6>1. t[j - 1] = q[(j - 1) + 1] /\ j = (j - 1) + 1  BY <1>1, <1>3, <4>2, <5>1
          <6> QED BY <6>1
        <5> QED BY <2>1, <5>1, <5>2
      <4> QED BY <4>1, <4>2
    <3> QED BY <3>1, <3>2 DEF InTime
  <2>2. Head(q) \in InTime(q)
    <3>1. \A j \in 1..1 : j = 1  OBVIOUS
    <3> QED BY <1>2, <1>3, <1>5, <3>1 DEF InTime
  <2> QED BY <2>1, <2>2 DEF InTime
<1>6. ASSUME Ordered(q)
      PROVE  Ordered(t) /\ \A d \in Items(t) : Before(Head(q), d)
  <2>1. ASSUME NEW i \in 1..Len(t), NEW j \in 1..Len(t), i < j PROVE Before(t[i], t[j])
    <3>1. i + 1 \in 1..Len(q) /\ j + 1 \in 1..Len(q) /\ i + 1 < j + 1  BY <1>3, <2>1
    <3> QED BY <1>1, <1>6, <3>1 DEF Ordered
  <2>2. ASSUME NEW i \in 1..Len(t) PROVE Before(Head(q), t[i])
    BY <1>1, <1>2, <1>3, <1>6 DEF Ordered
  <2> QED BY <2>1, <2>2 DEF Ordered, Items
<1> QED BY <1>4, <1>5, <1>6 DEF t

LEMMA ItemsAppend ==
  ASSUME NEW S, NEW q \in Seq(S), NEW e \in S
  PROVE  /\ Append(q, e) \in Seq(S)
         /\ Items(Append(q, e)) = Items(q) \cup {e}
         /\ InTime(Append(q, e)) \subseteq InTime(q) \cup {e}
         /\ FailureIn(q) \/ e.kind = "failure" => InTime(Append(q, e)) \subseteq InTime(q)
         /\ Ordered(q) /\ (\A d \in Items(q) : Before(d, e)) => Ordered(Append(q, e))
<1> DEFINE a == Append(q, e)
<1>1. /\ a \in Seq(S) /\ Len(a) = Len(q) + 1 /\ \A i \in 1..Len(q) : a[i] = q[i]
      /\ a[Len(q) + 1] = e
  BY AppendProperties
<1>2. Len(q) \in Nat  BY LenProperties
<1> HIDE DEF a
<1>3. /\ \A i \in 1..Len(a) : i \in 1..Len(q) \/ i = Len(q) + 1
      /\ \A i \in 1..Len(q) : i \in 1..Len(a) /\ i < Len(q) + 1
      /\ Len(q) + 1 \in 1..Len(a)
  BY <1>1, <1>2
<1>4. Items(a) = Items(q) \cup {e}  BY <1>1, <1>3 DEF Items
<1>5. ASSUME NEW k \in 1..Len(a), \A j \in 1..k : a[j].kind # "failure"
      PROVE  /\ a[k] \in InTime(q) \cup {e}
             /\ FailureIn(q) \/ e.kind = "failure" => a[k] \in InTime(q)
  <2>1. CASE k \in 1..Len(q)
    <3>1. \A j \in 1..k : j \in 1..Len(q)  BY <1>2, <2>1
    <3> QED BY <1>1, <1>5, <2>1, <3>1 DEF InTime
  <2>2. CASE k = Len(q) + 1
    <3>1. \A j \in 1..Len(q) : j \in 1..k  BY <1>2, <2>2
    <3>2. ~FailureIn(q)  BY <1>1, <1>5, <3>1 DEF FailureIn, Items
    <3>3. k \in 1..k  BY <1>2, <2>2
    <3> QED BY <1>1, <1>5, <2>2, <3>2, <3>3
  <2> QED BY <1>3, <2>1, <2>2
<1>6. /\ InTime(a) \subseteq InTime(q) \cup {e}
      /\ FailureIn(q) \/ e.kind = "failure" => InTime(a) \subseteq InTime(q)
  BY <1>5 DEF InTime
<1>7. ASSUME Ordered(q), \A d \in Items(q) : Before(d, e)
      PROVE  Ordered(a)
  <2> SUFFICES ASSUME NEW i \in 1..Len(a), NEW j \in 1..Len(a), i < j
               PROVE  Before(a[i], a[j])
    BY DEF Ordered
  <2>1. i \in 1..Len(q)  BY <1>1, <1>2
  <2>2. CASE j \in 1..Len(q)  BY <1>1, <1>7, <2>1, <2>2 DEF Ordered
  <2>3. CASE j = Len(q) + 1  BY <1>1, <1>7, <2>1, <2>3 DEF Items
  <2> QED BY <1>3, <2>2, <2>3
<1> QED BY <1>1, <1>4, <1>6, <1>7 DEF a

LEMMA InTimeIs ==
  ASSUME NEW q
  PROVE  /\ InTime(q) \subseteq Items(q)
         /\ Items(<<>>) = {} /\ InTime(<<>>) = {}
BY DEF InTime, Items

\* What object r has said is in the queue behind what was there.
GuiGains(r, U) ==
  /\ ~Connected(r) => toGui' = toGui
  /\ Items(toGui) \subseteq Items(toGui')
  /\ \A u \in Items(toGui') : u \in Items(toGui) \/ u.kind = "failure" \/ u \in U
  /\ \A u \in InTime(toGui') : u \in InTime(toGui) \/ u \in U
  /\ FailureIn(toGui) => InTime(toGui') \subseteq InTime(toGui)

LEMMA SaysIs ==
  ASSUME IInv, NEW r \in Rigs, NEW o \in Object, NEW U, Update(r, o) \in U,
         toGui' \in {Emitted(r, <<Update(r, o)>>), toGui}
  PROVE  GuiGains(r, U)
<1> DEFINE u == Update(r, o)
<1>1. toGui \in Seq(Events) /\ u \in Events  BY UpdateType DEF IInv, QueueOK
<1>2. u \in U /\ toGui' \in {Emitted(r, <<u>>), toGui}  OBVIOUS
<1> HIDE DEF u
<1>3. toGui \o <<u>> = Append(toGui, u)  BY <1>1, AppendIsConcat
<1>4. /\ Items(Append(toGui, u)) = Items(toGui) \cup {u}
      /\ InTime(Append(toGui, u)) \subseteq InTime(toGui) \cup {u}
      /\ FailureIn(toGui) => InTime(Append(toGui, u)) \subseteq InTime(toGui)
  BY <1>1, ItemsAppend
<1>5. CASE toGui' = Append(toGui, u) /\ Connected(r)
  BY <1>2, <1>4, <1>5 DEF GuiGains
<1>6. CASE toGui' = toGui
  BY <1>6 DEF GuiGains
<1> QED BY <1>2, <1>3, <1>5, <1>6 DEF Emitted

\* A failure closes the rig once it is heard of, and nothing behind it is heard
\* in time; the frequency of the last QSY is no longer promised.
LEMMA FailsIs ==
  ASSUME IInv, NEW r \in Rigs, NEW o \in Object, NEW h, NEW forced \in BOOLEAN,
         Fails(r, o, h, forced)
  PROVE  /\ GuiGains(r, {Update(r, o)})
         /\ Connected(r) => FailureIn(toGui')
         /\ wanted' = 0 /\ radio' = h
         /\ \E n \in Object : /\ obj' = [obj EXCEPT ![r] = n] /\ n.phase = "failing"
                              /\ n.seq = o.seq /\ n.requested = o.requested
                              /\ n.actual = o.actual
<1> DEFINE u == Update(r, o)  e == Post("failure", r, 0, NoState)
           l == IF forced THEN o.actual ELSE o.last
           n == [o EXCEPT !.phase = "failing", !.last = l]
<1>1. toGui \in Seq(Events) /\ u \in Events  BY UpdateType DEF IInv, QueueOK
<1>2. e \in Events /\ e.kind = "failure"  BY PostType, NoObjectType
<1>3. toGui' = Emitted(r, (IF forced THEN <<u>> ELSE <<>>) \o <<e>>)  BY DEF Fails
<1>4. obj' = [obj EXCEPT ![r] = n] /\ radio' = h /\ wanted' = 0  BY DEF Fails
<1>5. /\ n \in Object /\ n.phase = "failing" /\ n.seq = o.seq /\ n.requested = o.requested
      /\ n.actual = o.actual
  <2>1. l \in TransceiverState  BY DEF Object
  <2> HIDE DEF l
  <2> QED BY <2>1 DEF Object
<1> HIDE DEF u, e, n
<1> DEFINE g == IF forced THEN Append(toGui, u) ELSE toGui
<1>6. (toGui' = Append(g, e) /\ Connected(r)) \/ (toGui' = toGui /\ ~Connected(r))
  <2>1. CASE forced
    <3>1. <<u>> \o <<e>> = <<u, e>>  BY <1>1, <1>2, Pair
    <3>2. toGui \o <<u>> = Append(toGui, u) /\ Append(toGui, u) \in Seq(Events)
      BY <1>1, AppendIsConcat, AppendProperties
    <3>3. toGui \o (<<u>> \o <<e>>) = (toGui \o <<u>>) \o <<e>>
      BY <1>1, <1>2, ConcatAssociative
    <3>4. (toGui \o <<u>>) \o <<e>> = Append(Append(toGui, u), e)
      BY <1>2, <3>2, AppendIsConcat
    <3>5. toGui' = Emitted(r, <<u>> \o <<e>>) /\ g = Append(toGui, u)  BY <1>3, <2>1
    <3> QED BY <3>3, <3>4, <3>5 DEF Emitted
  <2>2. CASE ~forced
    <3>1. <<e>> \in Seq(Events)  BY <1>2
    <3>2. <<>> \o <<e>> = <<e>>  BY <3>1, ConcatEmptySeq
    <3>3. toGui' = Emitted(r, <<e>>) /\ g = toGui  BY <1>3, <2>2, <3>2
    <3>4. toGui \o <<e>> = Append(toGui, e)  BY <1>1, <1>2, AppendIsConcat
    <3> QED BY <3>3, <3>4 DEF Emitted
  <2> QED BY <2>1, <2>2
<1>7. /\ g \in Seq(Events) /\ Items(toGui) \subseteq Items(g)
      /\ Items(g) \subseteq Items(toGui) \cup {u}
      /\ InTime(g) \subseteq InTime(toGui) \cup {u}
      /\ FailureIn(toGui) => InTime(g) \subseteq InTime(toGui) /\ FailureIn(g)
  BY <1>1, ItemsAppend DEF FailureIn
<1> HIDE DEF g
<1>8. /\ Items(Append(g, e)) = Items(g) \cup {e}
      /\ InTime(Append(g, e)) \subseteq InTime(g)
  BY <1>2, <1>7, ItemsAppend
<1>9. GuiGains(r, {u}) /\ (Connected(r) => FailureIn(toGui'))
  <2>1. CASE toGui' = Append(g, e) /\ Connected(r)
    BY <1>2, <1>7, <1>8, <2>1 DEF GuiGains, FailureIn
  <2>2. CASE toGui' = toGui /\ ~Connected(r)
    BY <2>2 DEF GuiGains
  <2> QED BY <1>6, <2>1, <2>2
<1> QED BY <1>4, <1>5, <1>9 DEF u

-----------------------------------------------------------------------------
(* The commands are carried out in order.                                  *)

\* What waits for the rigs' thread is for rigs that were made and are not gone,
\* numbered as Configuration numbers it and later than whatever the objects have
\* carried out and told; an object that is no longer connected is to stop.
CommandsInOrder ==
  /\ active => obj[rig].phase \in {"ready", "failing"}
  /\ Ordered(toRig)
  /\ \A e \in Items(toRig) :
       /\ e.kind \in {"start", "set", "stop"} /\ e.rig <= rig
       /\ e.kind = "stop" /\ active => e.rig # rig
       /\ Numbered(e) => e.seq <= number /\ obj[e.rig].phase \in {"ready", "failing"}
  /\ \A r \in Rigs :
       /\ r > rig => obj[r] = NoObject
       /\ obj[r].phase \in {"ready", "failing"}
            => Connected(r) \/ \E e \in Items(toRig) : e.kind = "stop" /\ e.rig = r
       /\ obj[r].requested.freq = obj[r].actual.freq
       /\ obj[r].seq <= number
       /\ \A e \in Items(toRig) : Numbered(e) => obj[r].seq < e.seq
  /\ \A u \in Items(toGui) : u.kind = "update" =>
       /\ u.seq <= number
       /\ \A e \in Items(toRig) : Numbered(e) => u.seq < e.seq

\* No radio is slower than PollingTransceiver allows for, and what the dial shows
\* has been told; and nothing at all has come between the last QSY and the radio.
Steady == MaxLag < PollsToStabilize /\ "untold" \notin spoilt

Stable == MaxLag < PollsToStabilize /\ spoilt = {}

\* A step of the rigs' thread makes n of object r; what r has carried out and
\* tells is one of the numbers in S.
Acts(r, n, S) ==
  /\ n \in Object /\ obj' = [obj EXCEPT ![r] = n] /\ n.requested.freq = n.actual.freq
  /\ UnchangedGui /\ wanted' \in {0, wanted} /\ (Stable' => Stable)
  /\ n.seq \in S /\ GuiGains(r, {u \in Events : u.seq \in S})
  /\ \/ /\ Told("start") \/ Told("set")
        /\ r = Head(toRig).rig /\ S = {obj[r].seq, Head(toRig).seq}
        /\ n.phase \in {obj[r].phase, "failing"}
     \/ Told("stop") /\ r = Head(toRig).rig /\ S = {0, obj[r].seq} /\ n.phase = "gone"
     \/ /\ toRig' = toRig /\ S = {obj[r].seq}
        /\ {obj[r].phase, n.phase} \subseteq {"ready", "failing"}

LEMMA FailsActs ==
  ASSUME IInv, NEW r \in Rigs, NEW o \in Object, NEW h, NEW forced \in BOOLEAN,
         Fails(r, o, h, forced), o.requested.freq = o.actual.freq, o.seq = obj[r].seq,
         UnchangedGui, UNCHANGED spoilt, NEW S, o.seq \in S,
         \/ (Told("start") \/ Told("set")) /\ r = Head(toRig).rig
                                           /\ S = {obj[r].seq, Head(toRig).seq}
         \/ toRig' = toRig /\ S = {obj[r].seq} /\ obj[r].phase \in {"ready", "failing"}
  PROVE  \E n : Acts(r, n, S)
<1>1. /\ GuiGains(r, {Update(r, o)}) /\ wanted' = 0
      /\ \E n \in Object : /\ obj' = [obj EXCEPT ![r] = n] /\ n.phase = "failing"
                           /\ n.seq = o.seq /\ n.requested = o.requested
                           /\ n.actual = o.actual
  BY FailsIs
<1>2. Update(r, o) \in {u \in Events : u.seq \in S}
  BY UpdateType DEF Update, Post
<1>3. GuiGains(r, {u \in Events : u.seq \in S})
  BY <1>1, <1>2 DEF GuiGains
<1>4. Stable' => Stable  BY DEF Stable
<1> QED BY <1>1, <1>3, <1>4 DEF Acts

\* What becomes of a step of the rigs' thread that has failed, and what is told
\* after one that has not.
Lost(r) == wanted' = 0 /\ (Connected(r) => FailureIn(toGui'))

Tells(r, n) == GuiGains(r, {u \in Events : u.seq = n.seq /\ u.state = n.actual})

LEMMA StartActs ==
  ASSUME IInv, CommandsInOrder, Start
  PROVE  LET e == Head(toRig) r == e.rig o == obj[r] IN
         \E n : /\ Acts(r, n, {o.seq, e.seq}) /\ spoilt \subseteq spoilt'
                /\ \/ Lost(r)
                   \/ /\ Tells(r, n) /\ n.seq = e.seq /\ n.phase = o.phase
                      /\ radio' = Read(radio) /\ wanted' = wanted
                      /\ Follows(n, radio')
                      /\ /\ MaxLag < PollsToStabilize
                         /\ Tracks(o, radio) \/ (o.next.freq = 0 /\ ~o.next.online)
                         => Tracks(n, radio')
<1> DEFINE e == Head(toRig)  r == e.rig  o == obj[r]  S == {o.seq, e.seq}
           p == Startup(o, radio)  up == [p EXCEPT !.seq = e.seq]
           n == [up EXCEPT !.last = up.actual]
<1>1. r \in Rigs /\ e.seq \in Nat /\ o \in Object /\ radio \in Radio
  BY ToldOK DEF Start
<1>2. Told("start") /\ UnchangedGui /\ spoilt' = spoilt  BY DEF Start
<1>11. spoilt \subseteq spoilt' /\ (Stable' => Stable)  BY <1>2 DEF Stable
<1>3. o.requested.freq = o.actual.freq  BY <1>1 DEF CommandsInOrder
<1>4. \/ /\ obj' = [obj EXCEPT ![r] = n] /\ radio' = Read(radio)
         /\ toGui' = Emitted(r, <<Update(r, up)>>) /\ wanted' = wanted
      \/ Fails(r, o, radio, TRUE)
  BY DEF Start
<1>5. /\ p \in Object /\ p.requested.freq = p.actual.freq /\ Keeps(o, p)
      /\ p.polling /\ p.actual.online /\ p.next.online /\ p.requested.online
      /\ p.actual.ptt = radio.ptt
  BY <1>1, StartupIs
<1>6. /\ MaxLag < PollsToStabilize
      /\ Tracks(o, radio) \/ (o.next.freq = 0 /\ ~o.next.online)
      => Tracks(p, Read(radio))
  BY <1>1, TracksStartup
<1>7. Read(radio).ptt = radio.ptt  BY <1>1, ReadIs
<1> HIDE DEF e, r, o, p
<1>8. /\ up \in Object /\ n \in Object /\ n.seq = e.seq /\ up.seq = e.seq
      /\ n.actual = p.actual /\ up.actual = p.actual /\ n.requested = p.requested
      /\ n.next = p.next /\ n.polling = p.polling /\ n.phase = p.phase
      /\ n.retries = p.retries
  BY <1>1, <1>5 DEF Object
<1> HIDE DEF up, n
<1>9. CASE Fails(r, o, radio, TRUE)
  <2>1. o.seq = obj[r].seq /\ o.seq \in S  BY DEF o
  <2>2. \E m : Acts(r, m, S)
    <3>1. r = Head(toRig).rig /\ S = {obj[r].seq, Head(toRig).seq}  BY DEF o, r, e
    <3> HIDE DEF S
    <3> QED BY <1>1, <1>2, <1>3, <1>9, <2>1, <3>1, FailsActs
  <2>3. Lost(r)  BY <1>1, <1>9, FailsIs DEF Lost
  <2> QED BY <1>11, <2>2, <2>3 DEF e, r, o
<1>10. CASE ~Fails(r, o, radio, TRUE)
  <2>1. Update(r, up) \in {u \in Events : u.seq = n.seq /\ u.state = n.actual}
    BY <1>1, <1>8, UpdateType DEF Update, Post
  <2>2. Tells(r, n)  BY <1>1, <1>4, <1>8, <1>10, <2>1, SaysIs DEF Tells
  <2>3. Acts(r, n, S)
    <3>1. n.phase = obj[r].phase  BY <1>5, <1>8 DEF Keeps, o
    <3>2. GuiGains(r, {u \in Events : u.seq \in S})
      BY <1>8, <2>2 DEF Tells, GuiGains
    <3> QED BY <1>2, <1>4, <1>5, <1>8, <1>10, <1>11, <3>1, <3>2 DEF Acts, r, o, e
  <2>4. n.phase = o.phase  BY <1>5, <1>8 DEF Keeps
  <2>5. Follows(n, radio')  BY <1>4, <1>5, <1>7, <1>8, <1>10 DEF Follows
  <2>6. Tracks(p, Read(radio)) => Tracks(n, radio')  BY <1>4, <1>8, <1>10 DEF Tracks
  <2> QED BY <1>4, <1>6, <1>8, <1>10, <1>11, <2>2, <2>3, <2>4, <2>5, <2>6 DEF e, r, o
<1> QED BY <1>9, <1>10

LEMMA SetActs ==
  ASSUME IInv, CommandsInOrder, Set
  PROVE  LET e == Head(toRig) r == e.rig o == obj[r] f == e.state.freq IN
         \E n : /\ Acts(r, n, {o.seq, e.seq}) /\ spoilt \subseteq spoilt'
                /\ \/ Lost(r)
                   \/ /\ Tells(r, n) /\ n.seq = e.seq /\ n.phase = o.phase
                      /\ f # 0 => n.actual.freq = f
                      /\ f = wanted /\ "ignored" \notin spoilt' => radio'.freq = f
                      /\ Follows(o, radio) => Follows(n, radio')
                      /\ Follows(o, radio) /\ Tracks(o, radio) /\ MaxLag < PollsToStabilize
                           => Tracks(n, radio')
<1> DEFINE e == Head(toRig)  r == e.rig  o == obj[r]  s == e.state  f == s.freq
           S == {o.seq, e.seq}
           st(l) == Steps(o, radio, s, l)
           before(l, k) == IF k = 1 THEN [obj |-> o, radio |-> radio] ELSE st(l)[k - 1]
           done(l) == [st(l)[4].obj EXCEPT
                         !.seq = e.seq,
                         !.requested = [@ EXCEPT !.ptt = st(l)[4].obj.actual.ptt]]
<1>1. /\ r \in Rigs /\ e.seq \in Nat /\ o \in Object /\ radio \in Radio
      /\ s \in TransceiverState
  BY ToldOK DEF Set
<1>2. Told("set") /\ UnchangedGui /\ spoilt' \in {spoilt, spoilt \cup {"ignored"}}
  BY DEF Set
<1>13. spoilt \subseteq spoilt' /\ (Stable' => Stable)  BY <1>2 DEF Stable
<1>3. o.requested.freq = o.actual.freq  BY <1>1 DEF CommandsInOrder
<1>4. PICK l \in {0, MaxLag} :
        \/ /\ obj' = [obj EXCEPT ![r] = [done(l) EXCEPT !.last = done(l).actual]]
           /\ radio' = st(l)[4].radio
           /\ toGui' = Emitted(r, <<Update(r, done(l))>>)
           /\ spoilt' = IF f = wanted /\ ~st(l)[3].does /\ st(l)[4].radio.freq # wanted
                        THEN spoilt \cup {"ignored"} ELSE spoilt
           /\ wanted' = wanted
        \/ \E k \in 1..4 : \E h \in {before(l, k).radio, st(l)[k].radio} :
             Fails(r, before(l, k).obj, h, TRUE) /\ spoilt' = spoilt
  BY DEF Set
<1>5. /\ \A k \in 1..4 : /\ st(l)[k].obj \in Object /\ Keeps(o, st(l)[k].obj)
                         /\ st(l)[k].obj.requested.freq = st(l)[k].obj.actual.freq
      /\ st(l)[4].radio \in Radio
      /\ f # 0 => st(l)[4].obj.actual.freq = f
      /\ st(l)[3].does => st(l)[4].radio.freq = f
      /\ Follows(o, radio) => Follows(st(l)[4].obj, st(l)[4].radio)
      /\ Follows(o, radio) /\ Tracks(o, radio) /\ MaxLag < PollsToStabilize
           => Tracks(st(l)[4].obj, st(l)[4].radio)
  <2>1. StepsDone(o, radio, s, st(l))  BY <1>1, <1>3, StepsRun
  <2> HIDE DEF st
  <2> QED BY <2>1, Zenon DEF StepsDone
<1>6. ASSUME NEW k \in 1..4
      PROVE  /\ before(l, k).obj \in Object /\ Keeps(o, before(l, k).obj)
             /\ before(l, k).obj.requested.freq = before(l, k).obj.actual.freq
  <2>1. CASE k = 1  BY <1>1, <1>3, <2>1 DEF Keeps
  <2>2. CASE k # 1
    <3>1. k - 1 \in 1..4  BY <2>2
    <3> QED BY <1>5, <2>2, <3>1
  <2> QED BY <2>1, <2>2
<1> DEFINE z == st(l)[4].obj  d == done(l)  n == [d EXCEPT !.last = d.actual]
<1>7. /\ d \in Object /\ n \in Object /\ d.seq = e.seq /\ n.seq = e.seq
      /\ d.actual = z.actual /\ n.actual = z.actual /\ n.requested.freq = z.requested.freq
      /\ n.requested.online = z.requested.online
      /\ n.next = z.next /\ n.polling = z.polling /\ n.phase = z.phase
      /\ n.retries = z.retries
  <2> DEFINE b == z.actual.ptt  q == [z.requested EXCEPT !.ptt = b]
             d2 == [z EXCEPT !.seq = e.seq, !.requested = q]
  <2>0. 4 \in 1..4 /\ done(l) = d2 /\ e.seq \in Nat  BY <1>1
  <2>1. z \in Object /\ done(l) = d2 /\ e.seq \in Nat
    <3> HIDE DEF st, done, e, d2
    <3> QED BY <1>5, <2>0
  <2> HIDE DEF z, done, e
  <2>2. z.requested \in TransceiverState /\ b \in BOOLEAN
    BY <2>1 DEF Object, TransceiverState
  <2> HIDE DEF b
  <2>3. /\ q \in TransceiverState /\ q.freq = z.requested.freq
        /\ q.online = z.requested.online
    BY <2>2 DEF TransceiverState
  <2> HIDE DEF q
  <2>4. /\ d2 \in Object /\ d2.seq = e.seq /\ d2.actual = z.actual /\ d2.requested = q
        /\ d2.next = z.next /\ d2.polling = z.polling /\ d2.phase = z.phase
        /\ d2.retries = z.retries
    BY <2>1, <2>3 DEF Object
  <2> HIDE DEF d2
  <2>5. d = d2  BY <2>1
  <2> HIDE DEF d
  <2>6. /\ n \in Object /\ n.seq = d.seq /\ n.actual = d.actual /\ n.requested = d.requested
        /\ n.next = d.next /\ n.polling = d.polling /\ n.phase = d.phase
        /\ n.retries = d.retries
    BY <2>4, <2>5 DEF Object
  <2> QED BY <2>3, <2>4, <2>5, <2>6
<1>8. /\ f # 0 => z.actual.freq = f
      /\ st(l)[3].does => st(l)[4].radio.freq = f
      /\ Follows(o, radio) => Follows(z, st(l)[4].radio)
      /\ Follows(o, radio) /\ Tracks(o, radio) /\ MaxLag < PollsToStabilize
           => Tracks(z, st(l)[4].radio)
      /\ z.requested.freq = z.actual.freq /\ Keeps(o, z)
  <2>1. 4 \in 1..4  OBVIOUS
  <2> HIDE DEF st, o, e, r, s, f
  <2> QED BY <1>5, <2>1
<1>9. \/ /\ obj' = [obj EXCEPT ![r] = n] /\ radio' = st(l)[4].radio
         /\ toGui' = Emitted(r, <<Update(r, d)>>)
         /\ spoilt' = IF f = wanted /\ ~st(l)[3].does /\ st(l)[4].radio.freq # wanted
                      THEN spoilt \cup {"ignored"} ELSE spoilt
         /\ wanted' = wanted
      \/ \E k \in 1..4 : \E h \in {before(l, k).radio, st(l)[k].radio} :
           Fails(r, before(l, k).obj, h, TRUE) /\ spoilt' = spoilt
  BY <1>4
<1>10. r = Head(toRig).rig /\ S = {obj[r].seq, Head(toRig).seq} /\ o = obj[r]
  OBVIOUS
<1> HIDE DEF e, r, o, s, f, S, st, done, before, z, d, n
<1>11. CASE \E k \in 1..4 : \E h \in {before(l, k).radio, st(l)[k].radio} :
              Fails(r, before(l, k).obj, h, TRUE) /\ spoilt' = spoilt
  <2>1. PICK k \in 1..4 : \E h \in {before(l, k).radio, st(l)[k].radio} :
                            Fails(r, before(l, k).obj, h, TRUE) /\ spoilt' = spoilt
    BY <1>11
  <2>2. PICK h : Fails(r, before(l, k).obj, h, TRUE) /\ spoilt' = spoilt  BY <2>1
  <2>3. /\ before(l, k).obj \in Object /\ before(l, k).obj.seq = obj[r].seq
        /\ before(l, k).obj.requested.freq = before(l, k).obj.actual.freq
    BY <1>6, <1>10 DEF Keeps
  <2>4. before(l, k).obj.seq \in S  BY <1>10, <2>3
  <2>5. \E m : Acts(r, m, S)  BY <1>1, <1>2, <1>10, <2>2, <2>3, <2>4, FailsActs
  <2>6. Lost(r)  BY <1>1, <2>2, <2>3, FailsIs DEF Lost
  <2> QED BY <1>13, <2>5, <2>6 DEF e, r, o, S
<1>12. CASE /\ obj' = [obj EXCEPT ![r] = n] /\ radio' = st(l)[4].radio
            /\ toGui' = Emitted(r, <<Update(r, d)>>)
            /\ spoilt' = IF f = wanted /\ ~st(l)[3].does /\ st(l)[4].radio.freq # wanted
                         THEN spoilt \cup {"ignored"} ELSE spoilt
            /\ wanted' = wanted
  <2>1. Update(r, d) \in {u \in Events : u.seq = n.seq /\ u.state = n.actual}
    BY <1>1, <1>7, UpdateType DEF Update, Post
  <2>2. Tells(r, n)  BY <1>1, <1>7, <1>12, <2>1, SaysIs DEF Tells
  <2>3. Acts(r, n, S)
    <3>1. n.phase = obj[r].phase  BY <1>7, <1>8, <1>10 DEF Keeps
    <3>2. e.seq \in S  BY DEF S
    <3>3. GuiGains(r, {u \in Events : u.seq \in S})
      BY <1>7, <2>2, <3>2 DEF Tells, GuiGains
    <3> QED BY <1>2, <1>7, <1>8, <1>10, <1>12, <1>13, <3>1, <3>2, <3>3 DEF Acts
  <2>4. n.phase = o.phase  BY <1>7, <1>8 DEF Keeps
  <2>5. Follows(o, radio) => Follows(n, radio')  BY <1>7, <1>8, <1>12 DEF Follows
  <2>6. Follows(o, radio) /\ Tracks(o, radio) /\ MaxLag < PollsToStabilize
          => Tracks(n, radio')
    BY <1>7, <1>8, <1>12 DEF Tracks
  <2>7. /\ f # 0 => n.actual.freq = f
        /\ f = wanted /\ "ignored" \notin spoilt' => radio'.freq = f
    BY <1>7, <1>8, <1>12
  <2> QED BY <1>7, <1>13, <2>2, <2>3, <2>4, <2>5, <2>6, <2>7 DEF e, r, o, s, f, S
<1> QED BY <1>9, <1>11, <1>12

LEMMA TimeoutActs ==
  ASSUME IInv, CommandsInOrder, NEW r \in Rigs, Timeout(r)
  PROVE  LET o == obj[r] IN
         \E n : /\ Acts(r, n, {o.seq})
                /\ \/ Lost(r)
                   \/ /\ Tells(r, n) /\ n.seq = o.seq /\ n.phase = o.phase
                      /\ radio' = Read(radio) /\ wanted' = wanted
                      /\ n.actual.ptt = radio.ptt
                      /\ Follows(o, radio) => Follows(n, radio')
                      /\ Tracks(o, radio) =>
                           /\ Tracks(n, radio')
                           /\ toGui' = toGui \/ n.actual.freq = radio.freq
                      /\ Steady' /\ ~Steady => Tracks(n, radio')
<1> DEFINE o == obj[r]  p == Polled(o, radio)  n == Synced(p)
<1>1. o \in Object /\ radio \in Radio  BY RestType
<1>2. /\ UnchangedGui /\ toRig' = toRig /\ o.phase = "ready"
  BY DEF Timeout
<1>3. o.requested.freq = o.actual.freq  BY DEF CommandsInOrder
<1>4. \/ /\ obj' = [obj EXCEPT ![r] = n] /\ radio' = Read(radio) /\ wanted' = wanted
         /\ toGui' = IF Signals(p) THEN Emitted(r, <<Update(r, n)>>) ELSE toGui
         /\ spoilt' = IF Connected(r) /\ Signals(p) /\ p.actual.freq = radio.freq
                      THEN spoilt \ {"untold"} ELSE spoilt
      \/ Fails(r, o, radio, FALSE) /\ spoilt' = spoilt
  BY DEF Timeout
<1>11. Stable' => Stable
  <2>1. "untold" \in spoilt => "turned" \in spoilt  BY DEF IInv, RestOK
  <2> HIDE DEF n, p
  <2>2. spoilt' \in {spoilt, spoilt \ {"untold"}}  BY <1>4
  <2>3. spoilt' = {} => spoilt = {}  BY <2>1, <2>2
  <2> QED BY <2>3 DEF Stable
<1>5. /\ p \in Object /\ p.actual.freq = Shown(radio) /\ p.actual.ptt = radio.ptt
      /\ p.actual.online = o.actual.online
      /\ p.requested.freq = Shown(radio) /\ p.requested.online = o.requested.online
      /\ p.next = o.next /\ p.polling = o.polling /\ Keeps(o, p)
  BY <1>1, PolledIs
<1>6. /\ n \in Object /\ Keeps(p, n) /\ n.actual = p.actual /\ n.requested = p.requested
      /\ n.polling = p.polling /\ n.next \in {p.next, p.actual}
  BY <1>5, SyncedIs
<1>7. Tracks(o, radio) =>
        (Signals(p) => Shown(radio) = radio.freq) /\ Tracks(n, Read(radio))
  BY <1>1, TracksSync
<1>8. Read(radio).ptt = radio.ptt  BY <1>1, ReadIs
<1>12. Signals(p) /\ p.actual.freq = radio.freq => Tracks(n, Read(radio))
  BY <1>1, TracksTold
<1> HIDE DEF p, n
<1>9. CASE Fails(r, o, radio, FALSE) /\ spoilt' = spoilt
  <2>1. \E m : Acts(r, m, {o.seq})  BY <1>1, <1>2, <1>3, <1>9, FailsActs
  <2>2. Lost(r)  BY <1>1, <1>9, FailsIs DEF Lost
  <2> QED BY <2>1, <2>2
<1>10. CASE ~(Fails(r, o, radio, FALSE) /\ spoilt' = spoilt)
  <2>1. Update(r, n) \in {u \in Events : u.seq = n.seq /\ u.state = n.actual}
    BY <1>6, UpdateType DEF Update, Post
  <2>2. Tells(r, n)
    <3>1. toGui' \in {Emitted(r, <<Update(r, n)>>), toGui}  BY <1>4, <1>10
    <3> QED BY <1>6, <2>1, <3>1, SaysIs DEF Tells
  <2>3. n.seq = o.seq /\ n.phase = o.phase  BY <1>5, <1>6 DEF Keeps
  <2>4. Acts(r, n, {o.seq})
    <3>1. GuiGains(r, {u \in Events : u.seq \in {o.seq}})
      BY <2>2, <2>3 DEF Tells, GuiGains
    <3> QED BY <1>2, <1>4, <1>5, <1>6, <1>10, <1>11, <2>3, <3>1 DEF Acts
  <2>5. Follows(o, radio) => Follows(n, radio')
    BY <1>4, <1>5, <1>6, <1>8, <1>10 DEF Follows
  <2>6. Tracks(o, radio) => /\ Tracks(n, radio')
                            /\ toGui' = toGui \/ n.actual.freq = radio.freq
    BY <1>4, <1>5, <1>6, <1>7, <1>10
  <2>7. Steady' /\ ~Steady => Tracks(n, radio')
    BY <1>4, <1>10, <1>12 DEF Steady
  <2> QED BY <1>4, <1>5, <1>6, <1>10, <2>2, <2>3, <2>4, <2>5, <2>6, <2>7
<1> QED BY <1>9, <1>10

LEMMA OffActs ==
  ASSUME IInv, CommandsInOrder, UnchangedGui, UNCHANGED spoilt, NEW r \in Rigs,
         \/ toRig' = toRig /\ obj[r].phase = "failing" /\ GoesOffline(r, "ready")
         \/ Told("stop") /\ r = Head(toRig).rig /\ GoesOffline(r, "gone")
  PROVE  /\ \E n : \/ Acts(r, n, {obj[r].seq}) /\ toRig' = toRig
                   \/ Acts(r, n, {0, obj[r].seq}) /\ Told("stop")
         /\ radio'.freq = radio.freq /\ wanted' = wanted
<1>12. Stable' => Stable  BY DEF Stable
<1>1. obj[r] \in Object /\ radio \in Radio  BY RestType
<1>2. obj[r].requested.freq = obj[r].actual.freq  BY DEF CommandsInOrder
<1>3. PICK c \in {"ready", "gone"}, b \in BOOLEAN :
        LET o == Shutdown(obj[r], b)
            tells == (o.retries = 0 \/ o.actual = o.next) /\ o.actual # o.last
        IN  /\ \/ toRig' = toRig /\ obj[r].phase = "failing" /\ c = "ready"
               \/ Told("stop") /\ r = Head(toRig).rig /\ c = "gone"
            /\ radio' \in {[radio EXCEPT !.ptt = FALSE], radio}
            /\ toGui' \in {Emitted(r, <<Update(r, o)>>), toGui}
            /\ obj' = [obj EXCEPT ![r] =
                         IF c = "gone" THEN [NoObject EXCEPT !.phase = "gone"]
                         ELSE [o EXCEPT !.phase = "ready",
                                        !.last = IF tells THEN o.actual ELSE @]]
            /\ wanted' = wanted
  BY DEF GoesOffline
<1> DEFINE o == Shutdown(obj[r], b)
           tells == (o.retries = 0 \/ o.actual = o.next) /\ o.actual # o.last
           l == IF tells THEN o.actual ELSE o.last
           n == IF c = "gone" THEN [NoObject EXCEPT !.phase = "gone"]
                ELSE [o EXCEPT !.phase = "ready", !.last = l]
           S == IF c = "gone" THEN {0, obj[r].seq} ELSE {obj[r].seq}
<1>4. /\ \/ toRig' = toRig /\ obj[r].phase = "failing" /\ c = "ready"
         \/ Told("stop") /\ r = Head(toRig).rig /\ c = "gone"
      /\ toGui' \in {Emitted(r, <<Update(r, o)>>), toGui}
      /\ obj' = [obj EXCEPT ![r] = n] /\ wanted' = wanted
  BY <1>3
<1>5. o \in Object /\ o.requested.freq = o.actual.freq /\ o.seq = obj[r].seq
  BY <1>1, <1>2, ShutdownIs DEF Keeps
<1>6. radio'.freq = radio.freq
  <2>1. [radio EXCEPT !.ptt = FALSE].freq = radio.freq  BY <1>1, KeyedIs
  <2> QED BY <1>3, <2>1
<1> HIDE DEF o
<1>7. l \in TransceiverState  BY <1>5 DEF Object
<1> HIDE DEF l
<1>8. /\ n \in Object /\ n.requested.freq = n.actual.freq /\ n.seq \in S
      /\ n.phase = c
  <2>1. CASE c = "gone"
    BY <2>1, NoObjectType DEF Object, NoObject, NoState
  <2>2. CASE c # "gone"
    BY <1>4, <1>5, <1>7, <2>2 DEF Object
  <2> QED BY <2>1, <2>2
<1> HIDE DEF n
<1>9. GuiGains(r, {u \in Events : u.seq \in S})
  <2>1. Update(r, o) \in {u \in Events : u.seq \in S}
    BY <1>5, UpdateType DEF Update, Post
  <2> HIDE DEF S
  <2> QED BY <1>4, <1>5, <2>1, SaysIs
<1>10. CASE c = "gone"
  <2>1. S = {0, obj[r].seq} /\ Told("stop") /\ r = Head(toRig).rig
    BY <1>4, <1>10
  <2> HIDE DEF S
  <2>2. Acts(r, n, S)  BY <1>4, <1>8, <1>9, <1>10, <1>12, <2>1 DEF Acts
  <2> QED BY <1>4, <1>6, <2>1, <2>2
<1>11. CASE c # "gone"
  <2>1. S = {obj[r].seq} /\ toRig' = toRig /\ obj[r].phase = "failing" /\ n.phase = "ready"
    BY <1>4, <1>8, <1>11
  <2> HIDE DEF S
  <2>2. Acts(r, n, S)  BY <1>4, <1>8, <1>9, <1>12, <2>1 DEF Acts
  <2> QED BY <1>4, <1>6, <2>1, <2>2
<1> QED BY <1>10, <1>11

\* The queue of the rigs' thread, and what is known of its elements.
LEMMA PostedIs ==
  ASSUME IInv
  PROVE  /\ toRig \in Seq(Events) /\ \A e \in Items(toRig) : e \in Events /\ e.rig \in Rigs
         /\ number \in Nat /\ rig \in Rigs /\ active \in BOOLEAN
         /\ obj \in [Rigs -> Object] /\ \A r \in Rigs : obj[r].seq \in Nat
         /\ \A r \in Rigs : r \in Nat \ {0}
<1>1. toRig \in Seq(Events) /\ \A i \in 1..Len(toRig) : toRig[i].rig \in Rigs
  BY DEF IInv, ToRigOK
<1>2. \A i \in 1..Len(toRig) : toRig[i] \in Events  BY <1>1, ElementOfSeq
<1>3. obj \in [Rigs -> Object]  BY DEF IInv, ThreadOK
<1>4. \A r \in Rigs : obj[r].seq \in Nat  BY <1>3 DEF Object
<1>5. \A r \in Rigs : r \in Nat \ {0}  BY RigControlAssumption DEF Rigs
<1> QED BY <1>1, <1>2, <1>3, <1>4, <1>5 DEF Items, IInv, ConfigOK

LEMMA ActsOrder ==
  ASSUME IInv, CommandsInOrder, NEW r \in Rigs, NEW n, NEW S, Acts(r, n, S)
  PROVE  CommandsInOrder'
<1> DEFINE P == Items(toRig)  Q == Items(toRig')  d == Head(toRig)
<1>1. /\ toRig \in Seq(Events) /\ \A e \in P : e \in Events /\ e.rig \in Rigs
      /\ number \in Nat /\ rig \in Rigs /\ active \in BOOLEAN
      /\ obj \in [Rigs -> Object] /\ \A x \in Rigs : obj[x].seq \in Nat /\ x \in Nat
  BY PostedIs
<1>2. UNCHANGED <<number, active, rig>>  BY DEF Acts, UnchangedGui, configVars
<1>3. \A x \in Rigs : obj'[x] = IF x = r THEN n ELSE obj[x]  BY <1>1 DEF Acts
<1>4. /\ Ordered(toRig') /\ Q \subseteq P
      /\ toRig' # toRig \/ Told("start") \/ Told("set") \/ Told("stop") =>
           d \in P /\ P = Q \cup {d} /\ \A e \in Q : Before(d, e)
  <2>1. CASE toRig' = toRig /\ ~(Told("start") \/ Told("set") \/ Told("stop"))
    BY <2>1 DEF CommandsInOrder
  <2>2. CASE Told("start") \/ Told("set") \/ Told("stop")
    <3>1. toRig # <<>> /\ toRig' = Tail(toRig)  BY <2>2 DEF Told
    <3>2. /\ P = Items(Tail(toRig)) \cup {d}
          /\ Ordered(Tail(toRig)) /\ \A e \in Items(Tail(toRig)) : Before(d, e)
      BY <1>1, <3>1, ItemsTail DEF CommandsInOrder
    <3> QED BY <3>1, <3>2
  <2> QED BY <2>1, <2>2 DEF Acts
<1> HIDE DEF Q
<1>5. \/ /\ d \in P /\ Numbered(d) /\ r = d.rig /\ S = {obj[r].seq, d.seq}
         /\ n.phase \in {obj[r].phase, "failing"} /\ P = Q \cup {d}
         /\ \A e \in Q : Before(d, e)
      \/ /\ d \in P /\ d.kind = "stop" /\ r = d.rig /\ S = {0, obj[r].seq}
         /\ n.phase = "gone" /\ P = Q \cup {d} /\ \A e \in Q : Before(d, e)
      \/ /\ toRig' = toRig /\ Q = P /\ S = {obj[r].seq}
         /\ {obj[r].phase, n.phase} \subseteq {"ready", "failing"}
  <2>1. CASE Told("start") \/ Told("set")
    BY <1>4, <2>1 DEF Acts, Told, Numbered
  <2>2. CASE Told("stop")
    BY <1>4, <2>2 DEF Acts, Told, Numbered
  <2>3. CASE ~(Told("start") \/ Told("set") \/ Told("stop"))
    BY <2>3 DEF Acts, Q
  <2> QED BY <2>1, <2>2, <2>3
<1>6. /\ r <= rig
      /\ d \in P /\ Numbered(d) /\ d.rig = r => obj[r].phase \in {"ready", "failing"}
  <2>1. NoObject.phase = "none"  BY DEF NoObject
  <2> QED BY <1>1, <1>5, <2>1 DEF CommandsInOrder
<1>7. \A x \in S : x \in Nat /\ x <= number /\ \A e \in Q : Numbered(e) => x < e.seq
  <2>1. /\ obj[r].seq \in Nat /\ obj[r].seq <= number
        /\ \A e \in P : Numbered(e) => obj[r].seq < e.seq
    BY <1>1 DEF CommandsInOrder
  <2>2. \A e \in P : e.seq \in Nat  BY <1>1 DEF Events
  <2>3. d \in P /\ Numbered(d) => d.seq <= number  BY DEF CommandsInOrder
  <2>4. \A e \in Q : Before(d, e) /\ Numbered(d) /\ Numbered(e) => d.seq < e.seq
    BY DEF Before
  <2> HIDE DEF P, d
  <2> QED BY <1>1, <1>4, <1>5, <2>1, <2>2, <2>3, <2>4
<1>8. ASSUME NEW e \in Q
      PROVE  /\ e.kind \in {"start", "set", "stop"} /\ e.rig <= rig
             /\ e.kind = "stop" /\ active => e.rig # rig
             /\ Numbered(e) => e.seq <= number /\ obj'[e.rig].phase \in {"ready", "failing"}
  <2>1. e \in P  BY <1>4
  <2>2. /\ e.kind \in {"start", "set", "stop"} /\ e.rig <= rig
        /\ e.kind = "stop" /\ active => e.rig # rig
        /\ Numbered(e) => e.seq <= number /\ obj[e.rig].phase \in {"ready", "failing"}
    BY <2>1 DEF CommandsInOrder
  <2>3. ASSUME Numbered(e), e.rig = r PROVE n.phase \in {"ready", "failing"}
    <3>1. d.kind = "stop" /\ d.rig = r => ~Before(d, e)
      BY <1>1, <2>1, <2>3 DEF Before
    <3> QED BY <1>5, <1>6, <3>1
  <2> QED BY <1>1, <1>3, <2>1, <2>2, <2>3
<1>9. ASSUME NEW x \in Rigs
      PROVE  /\ x > rig => obj'[x] = NoObject
             /\ obj'[x].phase \in {"ready", "failing"}
                  => (active /\ x = rig) \/ \E e \in Q : e.kind = "stop" /\ e.rig = x
             /\ obj'[x].requested.freq = obj'[x].actual.freq
             /\ obj'[x].seq <= number
             /\ \A e \in Q : Numbered(e) => obj'[x].seq < e.seq
  <2>1. /\ x > rig => obj[x] = NoObject
        /\ obj[x].phase \in {"ready", "failing"}
             => (active /\ x = rig) \/ \E e \in P : e.kind = "stop" /\ e.rig = x
        /\ obj[x].requested.freq = obj[x].actual.freq
        /\ obj[x].seq <= number
        /\ \A e \in P : Numbered(e) => obj[x].seq < e.seq
    BY DEF CommandsInOrder, Connected
  <2>2. n.requested.freq = n.actual.freq /\ n.seq \in S  BY DEF Acts
  <2>3. x > rig => x # r  BY <1>1, <1>6
  <2>4. ASSUME obj'[x].phase \in {"ready", "failing"}, NEW e \in P, e.kind = "stop", e.rig = x
        PROVE  \E b \in Q : b.kind = "stop" /\ b.rig = x
    <3>1. CASE e \in Q  BY <2>4, <3>1
    <3>2. CASE e \notin Q
      <4>1. e = d /\ d.kind = "stop" /\ x = r /\ n.phase = "gone"
        BY <1>5, <2>4, <3>2 DEF Numbered
      <4> QED BY <1>3, <2>4, <4>1
    <3> QED BY <3>1, <3>2
  <2>5. obj'[x].phase \in {"ready", "failing"} => obj[x].phase \in {"ready", "failing"}
    BY <1>3, <1>5, <1>6
  <2> QED BY <1>3, <1>4, <1>7, <2>1, <2>2, <2>3, <2>4, <2>5
<1>10. ASSUME NEW u \in Items(toGui'), u.kind = "update"
       PROVE  u.seq <= number /\ \A e \in Q : Numbered(e) => u.seq < e.seq
  <2>1. u \in Items(toGui) \/ u.seq \in S  BY <1>10 DEF Acts, GuiGains
  <2> QED BY <1>4, <1>7, <1>10, <2>1 DEF CommandsInOrder
<1>11. active => obj'[rig].phase \in {"ready", "failing"}
  <2>1. active => obj[rig].phase \in {"ready", "failing"}  BY DEF CommandsInOrder
  <2>2. active /\ r = rig => ~(d \in P /\ d.kind = "stop" /\ d.rig = r)
    BY DEF CommandsInOrder
  <2> QED BY <1>1, <1>3, <1>5, <2>1, <2>2
<1> QED BY <1>2, <1>4, <1>8, <1>9, <1>10, <1>11 DEF CommandsInOrder, Connected, Q

-----------------------------------------------------------------------------
(* The GUI thread's steps.                                                 *)

\* The queue of the GUI thread holds nothing new but attempts to open.
GuiKeeps ==
  /\ \A u \in Items(toGui') : u \in Items(toGui) \/ u.kind = "open"
  /\ \A u \in InTime(toGui') : u \in InTime(toGui) \/ u.kind = "open"
  /\ FailureIn(toGui) => FailureIn(toGui')

LEMMA GuiIs ==
  ASSUME IInv, NEW e \in Events, e.kind = "open"
  PROVE  /\ toGui' \in {toGui, Append(toGui, e)} => GuiKeeps
         /\ toGui # <<>> /\ toGui' \in {Tail(toGui), Append(Tail(toGui), e)} =>
              /\ \A u \in Items(toGui') : u \in Items(toGui) \/ u.kind = "open"
              /\ Head(toGui).kind # "failure" => GuiKeeps
<1>1. toGui \in Seq(Events)  BY DEF IInv, QueueOK
<1>2. ASSUME toGui' \in {toGui, Append(toGui, e)}
      PROVE  GuiKeeps
  <2>1. /\ Items(Append(toGui, e)) = Items(toGui) \cup {e}
        /\ InTime(Append(toGui, e)) \subseteq InTime(toGui) \cup {e}
    BY <1>1, ItemsAppend
  <2>2. CASE toGui' = toGui  BY <2>2 DEF GuiKeeps
  <2>3. CASE toGui' = Append(toGui, e)  BY <2>1, <2>3 DEF GuiKeeps, FailureIn
  <2> QED BY <1>2, <2>2, <2>3
<1>3. ASSUME toGui # <<>>, toGui' \in {Tail(toGui), Append(Tail(toGui), e)}
      PROVE  /\ \A u \in Items(toGui') : u \in Items(toGui) \/ u.kind = "open"
             /\ Head(toGui).kind # "failure" => GuiKeeps
  <2> DEFINE t == Tail(toGui)
  <2>1. t \in Seq(Events)  BY <1>1, <1>3, HeadTailProperties
  <2>2. /\ Items(toGui) = Items(t) \cup {Head(toGui)}
        /\ Head(toGui).kind # "failure" => InTime(t) \subseteq InTime(toGui)
    BY <1>1, <1>3, ItemsTail
  <2>3. toGui' \in {t, Append(t, e)}  BY <1>3
  <2> HIDE DEF t
  <2>4. /\ Items(Append(t, e)) = Items(t) \cup {e}
        /\ InTime(Append(t, e)) \subseteq InTime(t) \cup {e}
    BY <2>1, ItemsAppend
  <2> QED BY <2>2, <2>3, <2>4 DEF GuiKeeps, FailureIn
<1> QED BY <1>2, <1>3

\* e is one of the commands numbered from n to k, for rig r; s is the last of them.
NewSet(e, r, n, k, s) ==
  /\ e.kind = "set" /\ e.rig = r /\ e.seq \in Nat /\ n < e.seq /\ e.seq <= k
  /\ e.seq = k => e.state = s

\* Commands put behind a queue that knows no later rig and no later number.
LEMMA CommandsOrder ==
  ASSUME NEW q \in Seq(Events), Ordered(q), NEW r \in Rigs, NEW n \in Nat,
         NEW states \in Seq(TransceiverState),
         \A d \in Items(q) : /\ d.rig \in Nat /\ d.rig <= r
                             /\ d.kind = "stop" => d.rig < r
                             /\ Numbered(d) => d.seq \in Nat /\ d.seq <= n
  PROVE  LET z == q \o Commands(r, n, states) l == Len(states) IN
         /\ Ordered(z) /\ Items(q) \subseteq Items(z)
         /\ \A e \in Items(z) : e \in Items(q) \/ NewSet(e, r, n, n + l, states[l])
         /\ l # 0 => \E e \in Items(z) : e.kind = "set" /\ e.seq = n + l
<1> DEFINE c == Commands(r, n, states)  z == q \o c  l == Len(states)  m == Len(q)
<1>0. /\ ToRigOK(c) /\ Len(c) = l
      /\ \A i \in 1..l : c[i] = Post("set", r, n + i, states[i])
  BY CommandsType
<1>1. /\ c \in Seq(Events) /\ Len(c) = l
      /\ \A i \in 1..l : c[i] = Post("set", r, n + i, states[i])
  <2> HIDE DEF c, l
  <2> QED BY <1>0 DEF ToRigOK
<1>2. \A i \in 1..l : c[i].kind = "set" /\ c[i].rig = r /\ c[i].seq = n + i
                      /\ c[i].state = states[i]
  <2> HIDE DEF c, l
  <2>1. ASSUME NEW i \in 1..l, NEW s, s = Post("set", r, n + i, states[i])
        PROVE  s.kind = "set" /\ s.rig = r /\ s.seq = n + i /\ s.state = states[i]
    BY <2>1 DEF Post
  <2> QED BY <1>1, <2>1
<1>3. l \in Nat /\ m \in Nat /\ r \in Nat  BY LenProperties, RigControlAssumption DEF Rigs
<1> HIDE DEF c, l, m
<1>4. Len(z) = m + l /\ \A i \in 1..Len(z) : z[i] = IF i <= m THEN q[i] ELSE c[i - m]
  BY <1>1, ConcatProperties DEF m
<1> HIDE DEF z
<1>5. /\ \A i \in 1..Len(z) : i \in 1..m \/ (i - m \in 1..l /\ ~(i <= m))
      /\ \A i \in 1..m : i \in 1..Len(z) /\ i <= m
  BY <1>3, <1>4
<1>6. ASSUME NEW i \in 1..l PROVE NewSet(c[i], r, n, n + l, states[l])
  <2>1. n + i \in Nat /\ n < n + i /\ n + i <= n + l /\ (n + i = n + l => i = l)  BY <1>3
  <2> QED BY <1>2, <2>1 DEF NewSet
<1>7. \A i \in 1..m : q[i] \in Items(q)  BY DEF Items, m
<1>8. ASSUME NEW i \in 1..Len(z), NEW j \in 1..Len(z), i < j PROVE Before(z[i], z[j])
  <2>1. CASE j \in 1..m
    <3>1. i \in 1..m  BY <1>3, <1>8, <2>1
    <3> QED BY <1>4, <1>5, <1>8, <2>1, <3>1 DEF Ordered, m
  <2>2. CASE i \in 1..m /\ j - m \in 1..l /\ ~(j <= m)
    <3>1. z[i] = q[i] /\ z[j] = c[j - m] /\ q[i] \in Items(q)  BY <1>4, <1>5, <1>7, <2>2
    <3>2. n < c[j - m].seq /\ c[j - m].seq \in Nat /\ c[j - m].kind = "set" /\ c[j - m].rig = r
      BY <1>6, <2>2 DEF NewSet
    <3>3. /\ q[i].rig \in Nat /\ q[i].rig <= r /\ (q[i].kind = "stop" => q[i].rig < r)
          /\ Numbered(q[i]) => q[i].seq \in Nat /\ q[i].seq <= n
      BY <3>1
    <3> QED BY <3>1, <3>2, <3>3 DEF Before
  <2>3. CASE i - m \in 1..l /\ ~(i <= m)
    <3>1. j - m \in 1..l /\ ~(j <= m)  BY <1>3, <1>4, <1>8, <2>3
    <3>2. z[i] = c[i - m] /\ z[j] = c[j - m]  BY <1>4, <2>3, <3>1
    <3>3. n + (i - m) < n + (j - m) /\ r <= r  BY <1>3, <1>8
    <3> QED BY <1>2, <2>3, <3>1, <3>2, <3>3 DEF Before
  <2> QED BY <1>5, <2>1, <2>2, <2>3
<1>9. Items(q) \subseteq Items(z)  BY <1>4, <1>5 DEF Items, m
<1>10. ASSUME NEW e \in Items(z)
       PROVE  e \in Items(q) \/ NewSet(e, r, n, n + l, states[l])
  <2>1. PICK i \in 1..Len(z) : e = z[i]  BY DEF Items
  <2> QED BY <1>4, <1>5, <1>6, <1>7, <2>1
<1>11. ASSUME l # 0 PROVE \E e \in Items(z) : e.kind = "set" /\ e.seq = n + l
  <2>1. l \in 1..l /\ m + l \in 1..Len(z) /\ ~(m + l <= m) /\ (m + l) - m = l
    BY <1>3, <1>4, <1>11
  <2>2. z[m + l] = c[l] /\ c[l].kind = "set" /\ c[l].seq = n + l  BY <1>2, <1>4, <2>1
  <2> QED BY <2>1, <2>2 DEF Items
<1> QED BY <1>8, <1>9, <1>10, <1>11 DEF Ordered, z, c, l

\* Commands are sent to the open rig, or only numbered.
Sends(states) ==
  /\ states \in Seq(TransceiverState) /\ Len(states) \in {1, 2}
  /\ number' = number + Len(states) /\ cached' = states[Len(states)]
  /\ toRig' = IF active THEN toRig \o Commands(rig, number, states) ELSE toRig
  /\ \/ /\ active /\ wanted' = cached'.freq /\ nominal' = wanted'
        /\ spoilt' = IF "untold" \in spoilt THEN {"turned", "untold"} ELSE {}
     \/ UNCHANGED <<wanted, nominal, spoilt>> /\ cached'.freq \in {cached.freq, nominal}
  /\ UNCHANGED <<active, rig, toGui, obj, radio>>

\* Another rig is opened, perhaps with first commands.
Opens(states) ==
  /\ states \in Seq(TransceiverState)
  /\ rig' = rig + 1 /\ active' = TRUE /\ number' = number + 1 + Len(states)
  /\ toRig' = Append(Closed, Post("start", rig + 1, number + 1, NoState))
                \o Commands(rig + 1, number + 1, states)
  /\ obj' = [obj EXCEPT ![rig + 1].phase = "ready"]
  /\ Len(states) # 0 => cached' = states[Len(states)]
  /\ wanted' # 0 => Len(states) # 0 /\ wanted' = cached'.freq /\ nominal' = wanted'
  /\ GuiKeeps /\ UNCHANGED radio

\* The rig is closed, and perhaps opened later.
Loses ==
  /\ toRig' = Closed /\ active' = FALSE
  /\ \A u \in Items(toGui') : u \in Items(toGui) \/ u.kind = "open"
  /\ UNCHANGED <<number, cached, rig, obj, radio, wanted, spoilt>>

\* Nothing changes that the rigs' thread or a later command depends on.
Mutters ==
  /\ GuiKeeps
  /\ UNCHANGED <<number, cached, active, rig, toRig, obj, radio, wanted, spoilt, nominal>>

LEMMA DialledIs ==
  ASSUME NEW from \in TransceiverState, NEW f \in Freqs \cup {0}, NEW on
  PROVE  LET d == Dialled(from, f, on) IN d[Len(d)].freq = f
<1> DEFINE s == [from EXCEPT !.online = TRUE, !.freq = f]  p == [s EXCEPT !.ptt = TRUE]
<1>1. s \in TransceiverState /\ s.freq = f  BY DEF TransceiverState
<1> HIDE DEF s
<1>2. p.freq = f  BY <1>1 DEF TransceiverState
<1> HIDE DEF p
<1>3. Dialled(from, f, on) = IF on THEN <<s, p>> ELSE <<s>>  BY DEF Dialled, s, p
<1> QED BY <1>1, <1>2, <1>3

\* A rig opened without a command.
LEMMA OpensNone ==
  ASSUME IInv, NEW by, OpenRig(by, <<>>), wanted' = 0, GuiKeeps, UNCHANGED radio
  PROVE  \E states : Opens(states)
<1> DEFINE states == <<>>  c == Commands(rig + 1, number + 1, states)
<1>1. rig \in Rigs /\ number \in Nat /\ states \in Seq(TransceiverState) /\ Len(states) = 0
  BY DEF IInv, ConfigOK
<1>2. rig + 1 \in Rigs  BY <1>1, RigControlAssumption DEF OpenRig, Rigs
<1>3. c \in Seq(Events) /\ Len(c) = 0
  <2>1. number + 1 \in Nat  BY <1>1
  <2>2. ToRigOK(c) /\ Len(c) = Len(states)  BY <1>1, <1>2, <2>1, CommandsType
  <2> HIDE DEF c
  <2> QED BY <1>1, <2>2 DEF ToRigOK
<1>4. c = <<>>  BY <1>3, EmptySeq
<1>5. OpenRig(by, c)  BY <1>4
<1> HIDE DEF c, states
<1>6. Opens(states)  BY <1>1, <1>3, <1>5 DEF OpenRig, Opens, c
<1> QED BY <1>6

\* The dial is set: commands for the open rig, or the first ones of another.
LEMMA SetRigIs ==
  ASSUME IInv, NEW f \in Freqs \cup {0}, NEW on, SetRig(f, on), UNCHANGED <<toGui, radio>>,
         \/ wanted' = f /\ nominal' = f
              /\ spoilt' = IF "untold" \in spoilt THEN {"turned", "untold"} ELSE {}
         \/ UNCHANGED <<nominal, spoilt>> /\ f = nominal
              /\ wanted' = IF active THEN wanted ELSE 0
  PROVE  (\E states : Sends(states)) \/ \E states : Opens(states)
<1>1. cached \in TransceiverState /\ rig \in Rigs /\ number \in Nat
  BY DEF IInv, ConfigOK
<1>2. GuiKeeps  BY DEF GuiKeeps
<1>3. CASE active
  <2> DEFINE d == Dialled(cached, f, on)
  <2>1. Send(d)  BY <1>3 DEF SetRig
  <2>2. d \in Seq(TransceiverState) /\ Len(d) \in {1, 2} /\ d[Len(d)].freq = f
    BY <1>1, DialledType, DialledIs
  <2> HIDE DEF d
  <2>3. cached'.freq = f  BY <2>1, <2>2 DEF Send
  <2>4. \/ /\ active /\ wanted' = cached'.freq /\ nominal' = wanted'
           /\ spoilt' = IF "untold" \in spoilt THEN {"turned", "untold"} ELSE {}
        \/ UNCHANGED <<wanted, nominal, spoilt>> /\ cached'.freq \in {cached.freq, nominal}
    BY <1>3, <2>3
  <2>5. Sends(d)  BY <2>1, <2>2, <2>4 DEF Send, Sends
  <2> QED BY <2>5
<1>4. CASE ~active
  <2> DEFINE d == Dialled(NoState, f, on)  c == Commands(rig + 1, number + 1, d)
  <2>1. OpenRig(0, c) /\ cached' = d[Len(d)]  BY <1>4 DEF SetRig
  <2>2. d \in Seq(TransceiverState) /\ Len(d) \in {1, 2} /\ d[Len(d)].freq = f
    BY DialledType, DialledIs, NoObjectType
  <2>3. rig + 1 \in Rigs /\ number + 1 \in Nat
    BY <1>1, <2>1, RigControlAssumption DEF OpenRig, Rigs
  <2> HIDE DEF d
  <2>4. Len(c) = Len(d)  BY <2>2, <2>3, CommandsType
  <2> HIDE DEF c
  <2>5. wanted' # 0 => Len(d) # 0 /\ wanted' = cached'.freq /\ nominal' = wanted'
    BY <1>4, <2>1, <2>2
  <2>6. Opens(d)  BY <1>2, <2>1, <2>2, <2>4, <2>5 DEF OpenRig, Opens, c
  <2> QED BY <2>6
<1> QED BY <1>3, <1>4

LEMMA OperatorIs ==
  ASSUME IInv, Operator
  PROVE  \/ \E states : Sends(states)
         \/ \E states : Opens(states)
         \/ Mutters
         \/ \E f \in Freqs : Turn(f)
<1>1. /\ cached \in TransceiverState /\ toGui \in Seq(Events)
      /\ rig \in Rigs /\ nominal \in Freqs \cup {0}
  BY DEF IInv, ConfigOK, WindowOK, QueueOK
<1>2. ASSUME NEW e \in Events, e.kind = "open", toGui' \in {toGui, Append(toGui, e)}
      PROVE  GuiKeeps
  BY <1>2, GuiIs
<1>3. ASSUME toGui' = toGui PROVE GuiKeeps
  BY <1>3 DEF GuiKeeps
<1>4. ASSUME NEW f \in Freqs, Qsy(f)
      PROVE  (\E states : Sends(states)) \/ \E states : Opens(states)
  BY <1>4, SetRigIs DEF Qsy
<1>5. ASSUME PttOn PROVE (\E states : Sends(states)) \/ \E states : Opens(states)
  BY <1>1, <1>5, SetRigIs DEF PttOn
<1>6. ASSUME PttOff PROVE \E states : Sends(states)
  <2> DEFINE s == [cached EXCEPT !.online = TRUE, !.ptt = FALSE]  d == <<s>>
  <2>1. Send(d) /\ UNCHANGED <<toGui, wanted, nominal, spoilt, radio>>
    BY <1>6 DEF PttOff
  <2>2. s \in TransceiverState /\ s.freq = cached.freq  BY <1>1 DEF TransceiverState
  <2> HIDE DEF s
  <2>3. d \in Seq(TransceiverState) /\ Len(d) = 1 /\ d[Len(d)].freq = cached.freq  BY <2>2
  <2> HIDE DEF d
  <2>4. Sends(d)  BY <2>1, <2>3 DEF Send, Sends
  <2> QED BY <2>4
<1>7. ASSUME OpenSettings PROVE Mutters
  BY <1>3, <1>7 DEF OpenSettings, threadVars, windowVars, Mutters
<1>8. ASSUME NEW b \in BOOLEAN, Answer(b) PROVE Mutters
  <2> DEFINE n == IF active THEN 0 ELSE rig  e == Post("open", n, 0, NoState)
  <2>1. toGui' \in {toGui, Append(toGui, e)} /\ n \in Rigs \cup {0}
    BY <1>1, <1>8 DEF Answer
  <2> HIDE DEF n
  <2>2. e \in Events /\ e.kind = "open"  BY <2>1, PostType, NoObjectType
  <2> HIDE DEF e
  <2>3. GuiKeeps  BY <1>2, <2>1, <2>2
  <2> QED BY <1>8, <2>3 DEF Answer, configVars, threadVars, Mutters
<1>9. ASSUME NEW b \in BOOLEAN, CloseSettings(b)
      PROVE  Mutters \/ \E states : Opens(states)
  <2>1. UNCHANGED <<toGui, spoilt, radio, nominal>>  BY <1>9 DEF CloseSettings, windowVars
  <2>2. CASE b
    <3>1. OpenRig(0, <<>>) /\ wanted' = 0  BY <1>9, <2>2 DEF CloseSettings
    <3> QED BY <1>3, <2>1, <3>1, OpensNone
  <2>3. CASE ~b
    <3>1. UNCHANGED <<number, cached, active, rig, own, toRig, obj, wanted>>
      BY <1>9, <2>3 DEF CloseSettings
    <3> QED BY <1>3, <2>1, <3>1 DEF Mutters
  <2> QED BY <2>2, <2>3
<1> QED BY <1>4, <1>5, <1>6, <1>7, <1>8, <1>9 DEF Operator

LEMMA GuiThreadIs ==
  ASSUME IInv, Gui
  PROVE  HandleUpdate \/ Loses \/ Mutters \/ \E states : Opens(states)
<1>1. rig \in Rigs /\ toGui \in Seq(Events)  BY DEF IInv, ConfigOK, QueueOK
<1> DEFINE e == Post("open", rig, 0, NoState)
<1>2. e \in Events /\ e.kind = "open"  BY <1>1, PostType, NoObjectType
<1>3. ASSUME NEW q, RigFailure(q) PROVE toGui' \in {q, Append(q, e)} /\ nominal' = nominal
  BY <1>3 DEF RigFailure
<1> HIDE DEF e
<1>4. ASSUME HandleFailure PROVE Loses
  <2>1. toGui # <<>> /\ toGui' \in {Tail(toGui), Append(Tail(toGui), e)}
    BY <1>3, <1>4 DEF HandleFailure, Event
  <2>2. \A u \in Items(toGui') : u \in Items(toGui) \/ u.kind = "open"
    BY <1>2, <2>1, GuiIs
  <2> QED BY <1>4, <2>2 DEF HandleFailure, CloseRig, threadVars, Loses
<1>5. ASSUME RigOpenFails PROVE Mutters
  <2>1. /\ toGui # <<>> /\ Head(toGui).kind # "failure" /\ nominal' = nominal
        /\ toGui' \in {Tail(toGui), Append(Tail(toGui), e)}
    BY <1>3, <1>5 DEF RigOpenFails, Event
  <2>2. GuiKeeps  BY <1>2, <2>1, GuiIs
  <2> QED BY <1>5, <2>1, <2>2 DEF RigOpenFails, configVars, Mutters
<1>6. ASSUME RigOpen PROVE Mutters \/ \E states : Opens(states)
  <2>1. /\ toGui # <<>> /\ Head(toGui).kind # "failure" /\ toGui' = Tail(toGui)
    BY <1>6 DEF RigOpen, Event
  <2>2. GuiKeeps  BY <1>2, <2>1, GuiIs
  <2>3. UNCHANGED <<radio, spoilt, nominal>>  BY <1>6 DEF RigOpen, windowVars
  <2>4. CASE active
    <3>1. UNCHANGED <<number, cached, active, rig, own, toRig, obj, wanted>>
      BY <1>6, <2>4 DEF RigOpen
    <3> QED BY <2>2, <2>3, <3>1 DEF Mutters
  <2>5. CASE ~active
    <3> DEFINE w == IF Head(toGui).rig = rig THEN rig + 1 ELSE 0
    <3>1. OpenRig(w, <<>>) /\ wanted' = 0  BY <1>6, <2>5 DEF RigOpen
    <3> HIDE DEF w
    <3> QED BY <2>2, <2>3, <3>1, OpensNone
  <2> QED BY <2>4, <2>5
<1> QED BY <1>4, <1>5, <1>6 DEF Gui

\* Closing a rig tells it to stop, behind all it has been told.
LEMMA ClosedIs ==
  ASSUME IInv, CommandsInOrder
  PROVE  /\ Closed \in Seq(Events) /\ Ordered(Closed) /\ Items(toRig) \subseteq Items(Closed)
         /\ \A e \in Items(Closed) :
              e \in Items(toRig) \/ (active /\ e.kind = "stop" /\ e.rig = rig)
         /\ \A r \in Rigs : obj[r].phase \in {"ready", "failing"}
              => \E e \in Items(Closed) : e.kind = "stop" /\ e.rig = r
<1> DEFINE s == Post("stop", rig, 0, NoState)
<1>1. /\ toRig \in Seq(Events) /\ \A e \in Items(toRig) : e \in Events /\ e.rig \in Rigs
      /\ rig \in Rigs /\ \A r \in Rigs : r \in Nat \ {0}
  BY PostedIs
<1>2. s \in Events /\ s.kind = "stop" /\ s.rig = rig  BY <1>1, PostType, NoObjectType
<1>3. Closed = IF active THEN Append(toRig, s) ELSE toRig  BY DEF Closed
<1> HIDE DEF s
<1>4. active => \A e \in Items(toRig) : Before(e, s)
  <2> SUFFICES ASSUME active, NEW e \in Items(toRig) PROVE Before(e, s)
    OBVIOUS
  <2>1. e.rig <= rig /\ (e.kind = "stop" => e.rig # rig)  BY DEF CommandsInOrder
  <2>2. e.rig \in Nat /\ rig \in Nat  BY <1>1
  <2>3. e.kind = "stop" \/ s.kind = "start" => e.rig < s.rig  BY <1>2, <2>1, <2>2
  <2>4. ~Numbered(s)  BY <1>2 DEF Numbered
  <2> QED BY <1>2, <2>1, <2>3, <2>4 DEF Before
<1>5. Ordered(toRig)  BY DEF CommandsInOrder
<1>6. \A r \in Rigs : obj[r].phase \in {"ready", "failing"} =>
        (active /\ r = rig) \/ \E e \in Items(toRig) : e.kind = "stop" /\ e.rig = r
  BY DEF CommandsInOrder, Connected
<1>7. CASE active
  <2>1. /\ Closed = Append(toRig, s) /\ Closed \in Seq(Events)
        /\ Items(Closed) = Items(toRig) \cup {s} /\ Ordered(Closed)
    BY <1>1, <1>2, <1>3, <1>4, <1>5, <1>7, ItemsAppend
  <2> QED BY <1>2, <1>6, <1>7, <2>1
<1>8. CASE ~active
  BY <1>1, <1>3, <1>5, <1>6, <1>8
<1> QED BY <1>7, <1>8

\* Opening a rig starts it behind all that, and with it go the first commands.
LEMMA OpensIs ==
  ASSUME IInv, IInv', CommandsInOrder, NEW states, Opens(states)
  PROVE  LET s == Post("start", rig + 1, number + 1, NoState) IN
         /\ Ordered(toRig') /\ Items(Closed) \subseteq Items(toRig') /\ s \in Items(toRig')
         /\ number' \in Nat /\ number + 1 <= number'
         /\ \A e \in Items(toRig') :
              \/ e \in Items(Closed)
              \/ e = s
              \/ NewSet(e, rig + 1, number + 1, number', cached')
         /\ wanted' # 0 => /\ number + 1 < number' /\ wanted' = cached'.freq
                           /\ nominal' = wanted'
                           /\ \E e \in Items(toRig') : e.kind = "set" /\ e.seq = number'
<1> DEFINE s == Post("start", rig + 1, number + 1, NoState)  q == Append(Closed, s)
           l == Len(states)
<1>1. /\ Closed \in Seq(Events) /\ Ordered(Closed)
      /\ \A e \in Items(Closed) :
           e \in Items(toRig) \/ (active /\ e.kind = "stop" /\ e.rig = rig)
  BY ClosedIs
<1>2. /\ rig \in Rigs /\ number \in Nat /\ \A r \in Rigs : r \in Nat \ {0}
      /\ \A e \in Items(toRig) : e \in Events /\ e.rig \in Rigs
  BY PostedIs
<1>3. rig + 1 \in Rigs
  <2>1. rig' \in Rigs  BY DEF IInv, ConfigOK
  <2> QED BY <2>1 DEF Opens
<1>4. /\ s \in Events /\ s.kind = "start" /\ s.rig = rig + 1 /\ s.seq = number + 1
  BY <1>2, <1>3, PostType, NoObjectType DEF Post
<1>5. \A e \in Items(Closed) : e.rig <= rig /\ (Numbered(e) => e.seq <= number)
                               /\ (Numbered(e) => e.seq \in Nat) /\ e.rig \in Nat
  <2> SUFFICES ASSUME NEW e \in Items(Closed)
               PROVE  /\ e.rig <= rig /\ (Numbered(e) => e.seq <= number)
                      /\ (Numbered(e) => e.seq \in Nat) /\ e.rig \in Nat
    OBVIOUS
  <2>1. CASE e \in Items(toRig)
    <3>1. e.seq \in Nat /\ e.rig \in Nat  BY <1>2, <2>1 DEF Events
    <3> QED BY <2>1, <3>1 DEF CommandsInOrder
  <2>2. CASE e.kind = "stop" /\ e.rig = rig
    <3>1. rig \in Nat /\ ~Numbered(e)  BY <1>2, <2>2 DEF Numbered
    <3> QED BY <2>2, <3>1
  <2> QED BY <1>1, <2>1, <2>2
<1>6. /\ toRig' = q \o Commands(rig + 1, number + 1, states) /\ number' = number + 1 + l
      /\ states \in Seq(TransceiverState) /\ (l # 0 => cached' = states[l])
      /\ wanted' # 0 => l # 0 /\ wanted' = cached'.freq /\ nominal' = wanted'
  BY DEF Opens
<1>7. l \in Nat  BY <1>6, LenProperties
<1> HIDE DEF s, l
<1>8. \A e \in Items(Closed) : Before(e, s)
  BY <1>2, <1>4, <1>5 DEF Before
<1>9. q \in Seq(Events) /\ Items(q) = Items(Closed) \cup {s} /\ Ordered(q)
  BY <1>1, <1>4, <1>8, ItemsAppend
<1> HIDE DEF q
<1>10. \A d \in Items(q) : /\ d.rig \in Nat /\ d.rig <= rig + 1
                           /\ d.kind = "stop" => d.rig < rig + 1
                           /\ Numbered(d) => d.seq \in Nat /\ d.seq <= number + 1
  BY <1>2, <1>4, <1>5, <1>9
<1>11. /\ Ordered(toRig') /\ Items(q) \subseteq Items(toRig')
       /\ \A e \in Items(toRig') :
            e \in Items(q) \/ NewSet(e, rig + 1, number + 1, (number + 1) + l, states[l])
       /\ l # 0 => \E e \in Items(toRig') : e.kind = "set" /\ e.seq = (number + 1) + l
  <2>1. number + 1 \in Nat  BY <1>2
  <2> QED BY <1>3, <1>6, <1>9, <1>10, <2>1, CommandsOrder DEF l
<1>12. /\ number' \in Nat /\ number + 1 <= number' /\ number' = (number + 1) + l
       /\ l # 0 => number + 1 < number'
  BY <1>2, <1>6, <1>7
<1>13. \A e : NewSet(e, rig + 1, number + 1, number', states[l]) => l # 0
  BY <1>2, <1>7, <1>12 DEF NewSet
<1>14. \A e \in Items(toRig') :
         e \in Items(Closed) \/ e = s \/ NewSet(e, rig + 1, number + 1, number', cached')
  BY <1>6, <1>9, <1>11, <1>12, <1>13
<1> QED BY <1>6, <1>9, <1>11, <1>12, <1>14 DEF s

LEMMA OpensOrder ==
  ASSUME IInv, IInv', CommandsInOrder, NEW states, Opens(states)
  PROVE  CommandsInOrder'
<1> DEFINE Q == Items(toRig')
<1>1. /\ Ordered(toRig') /\ Items(Closed) \subseteq Q
      /\ number' \in Nat /\ number + 1 <= number'
      /\ \A e \in Q : \/ e \in Items(Closed)
                      \/ e = Post("start", rig + 1, number + 1, NoState)
                      \/ NewSet(e, rig + 1, number + 1, number', cached')
  BY OpensIs
<1>2. /\ \A e \in Items(Closed) :
           e \in Items(toRig) \/ (active /\ e.kind = "stop" /\ e.rig = rig)
      /\ \A r \in Rigs : obj[r].phase \in {"ready", "failing"}
           => \E e \in Items(Closed) : e.kind = "stop" /\ e.rig = r
  BY ClosedIs
<1>3. /\ rig \in Rigs /\ number \in Nat /\ \A r \in Rigs : r \in Nat \ {0}
      /\ \A e \in Items(toRig) : e \in Events /\ e.rig \in Rigs
      /\ obj \in [Rigs -> Object] /\ \A r \in Rigs : obj[r].seq \in Nat
  BY PostedIs
<1>4. rig' = rig + 1 /\ active' = TRUE  BY DEF Opens
<1>5. rig + 1 \in Rigs
  <2>1. rig' \in Rigs  BY DEF IInv, ConfigOK
  <2> QED BY <1>4, <2>1
<1>6. \A e \in Q : \/ e \in Items(toRig)
                   \/ active /\ e.kind = "stop" /\ e.rig = rig
                   \/ /\ e.kind \in {"start", "set"} /\ e.rig = rig + 1
                      /\ e.seq \in Nat /\ number < e.seq /\ e.seq <= number'
  <2>1. LET s == Post("start", rig + 1, number + 1, NoState)
        IN  s.kind = "start" /\ s.rig = rig + 1 /\ s.seq = number + 1
    BY DEF Post
  <2>2. number < number + 1 /\ number + 1 \in Nat /\ \A m \in Nat : number + 1 < m => number < m
    BY <1>3
  <2> HIDE DEF Q
  <2> QED BY <1>1, <1>2, <1>3, <2>1, <2>2 DEF NewSet
<1>7. obj[rig + 1] = NoObject  BY <1>3, <1>5 DEF CommandsInOrder
<1>8. \A r \in Rigs : obj'[r] = IF r = rig + 1 THEN [NoObject EXCEPT !.phase = "ready"]
                                ELSE obj[r]
  BY <1>3, <1>7 DEF Opens
<1>9. LET n == [NoObject EXCEPT !.phase = "ready"]
      IN  n.phase = "ready" /\ n.seq = 0 /\ n.requested.freq = n.actual.freq
  BY DEF NoObject
<1> DEFINE n == [NoObject EXCEPT !.phase = "ready"]
<1> HIDE DEF Q, n
<1>10. ASSUME NEW e \in Q
       PROVE  /\ e.kind \in {"start", "set", "stop"} /\ e.rig <= rig'
              /\ e.kind = "stop" /\ active' => e.rig # rig'
              /\ Numbered(e) => e.seq <= number' /\ obj'[e.rig].phase \in {"ready", "failing"}
  <2>1. CASE e \in Items(toRig)
    <3>1. /\ e.kind \in {"start", "set", "stop"} /\ e.rig <= rig
          /\ Numbered(e) => e.seq <= number /\ obj[e.rig].phase \in {"ready", "failing"}
      BY <2>1 DEF CommandsInOrder
    <3>2. e.rig \in Rigs /\ e.seq \in Nat /\ e.rig \in Nat  BY <1>3, <2>1 DEF Events
    <3>3. number' >= number /\ number' \in Nat  BY <1>1, <1>3
    <3>4. e.rig # rig + 1 /\ e.rig <= rig + 1  BY <1>3, <3>1, <3>2
    <3>5. obj'[e.rig] = obj[e.rig]  BY <1>8, <3>2, <3>4
    <3>6. e.seq <= number => e.seq <= number'  BY <1>3, <3>2, <3>3
    <3> QED BY <1>4, <3>1, <3>4, <3>5, <3>6
  <2>2. CASE active /\ e.kind = "stop" /\ e.rig = rig
    <3>1. rig <= rig + 1 /\ rig # rig + 1  BY <1>3
    <3> QED BY <1>4, <2>2, <3>1 DEF Numbered
  <2>3. CASE /\ e.kind \in {"start", "set"} /\ e.rig = rig + 1
             /\ e.seq \in Nat /\ number < e.seq /\ e.seq <= number'
    <3>1. rig + 1 <= rig + 1  BY <1>3
    <3> QED BY <1>4, <1>5, <1>8, <1>9, <2>3, <3>1 DEF n
  <2> QED BY <1>6, <2>1, <2>2, <2>3
<1>11. number' \in Nat /\ number < number'  BY <1>1, <1>3
<1>12. ASSUME NEW r \in Rigs
       PROVE  /\ r > rig' => obj'[r] = NoObject
              /\ obj'[r].phase \in {"ready", "failing"}
                   => (active' /\ r = rig') \/ \E e \in Q : e.kind = "stop" /\ e.rig = r
              /\ obj'[r].requested.freq = obj'[r].actual.freq
              /\ obj'[r].seq <= number'
              /\ \A e \in Q : Numbered(e) => obj'[r].seq < e.seq
  <2>0. r \in Nat /\ obj[r].seq \in Nat  BY <1>3
  <2>1. CASE r = rig + 1
    <3>1. obj'[r].seq = 0 /\ obj'[r].requested.freq = obj'[r].actual.freq
      BY <1>8, <1>9, <2>1
    <3>2. \A e \in Items(toRig) : Numbered(e) => 0 < e.seq
      <4>1. \A e \in Items(toRig) : Numbered(e) => obj[rig].seq < e.seq
        BY <1>3 DEF CommandsInOrder
      <4>2. \A e \in Items(toRig) : e.seq \in Nat  BY <1>3 DEF Events
      <4> QED BY <1>3, <4>1, <4>2
    <3>3. \A e \in Q : Numbered(e) => 0 < e.seq
      <4>1. \A m \in Nat : number < m => 0 < m  BY <1>3
      <4> QED BY <1>6, <3>2, <4>1 DEF Numbered
    <3>4. 0 <= number'  BY <1>11
    <3>5. ~(r > rig')  BY <1>3, <1>4, <2>1
    <3> QED BY <1>4, <2>1, <3>1, <3>3, <3>4, <3>5
  <2>2. CASE r # rig + 1
    <3>1. obj'[r] = obj[r]  BY <1>8, <2>2
    <3>2. /\ r > rig => obj[r] = NoObject
          /\ obj[r].requested.freq = obj[r].actual.freq /\ obj[r].seq <= number
          /\ \A e \in Items(toRig) : Numbered(e) => obj[r].seq < e.seq
      BY DEF CommandsInOrder
    <3>3. obj[r].phase \in {"ready", "failing"} => \E e \in Q : e.kind = "stop" /\ e.rig = r
      BY <1>1, <1>2 DEF Q
    <3>4. \A m \in Nat : number < m => obj[r].seq < m  BY <1>3, <2>0, <3>2
    <3>5. \A e \in Q : Numbered(e) => obj[r].seq < e.seq
      BY <1>6, <3>2, <3>4 DEF Numbered
    <3>6. r > rig' => r > rig  BY <1>3, <1>4, <2>0
    <3>7. obj[r].seq <= number'  BY <1>3, <1>11, <2>0, <3>2
    <3> QED BY <3>1, <3>2, <3>3, <3>5, <3>6, <3>7
  <2> QED BY <2>1, <2>2
<1>13. ASSUME NEW u \in Items(toGui'), u.kind = "update"
       PROVE  u.seq <= number' /\ \A e \in Q : Numbered(e) => u.seq < e.seq
  <2>1. u \in Items(toGui)  BY <1>13 DEF Opens, GuiKeeps
  <2>2. u.seq \in Nat
    <3>1. toGui \in Seq(Events)  BY DEF IInv, QueueOK
    <3>2. PICK i \in 1..Len(toGui) : u = toGui[i]  BY <2>1 DEF Items
    <3>3. u \in Events  BY <3>1, <3>2, ElementOfSeq
    <3> QED BY <3>3 DEF Events
  <2>3. u.seq <= number /\ \A e \in Items(toRig) : Numbered(e) => u.seq < e.seq
    BY <1>13, <2>1 DEF CommandsInOrder
  <2>4. (\A m \in Nat : number < m => u.seq < m) /\ u.seq <= number'
    BY <1>3, <1>11, <2>2, <2>3
  <2> QED BY <1>6, <2>3, <2>4 DEF Numbered
<1>14. active' => obj'[rig'].phase \in {"ready", "failing"}
  BY <1>4, <1>5, <1>8, <1>9 DEF n
<1> QED BY <1>1, <1>10, <1>12, <1>13, <1>14 DEF CommandsInOrder, Connected, Q

\* What is sent goes behind all that the rigs' thread has still to do.
LEMMA SendsIs ==
  ASSUME IInv, CommandsInOrder, NEW states, Sends(states)
  PROVE  /\ number \in Nat /\ number' \in Nat /\ number < number'
         /\ UNCHANGED <<active, rig, toGui, obj, radio>>
         /\ Ordered(toRig') /\ Items(toRig) \subseteq Items(toRig')
         /\ \A d \in Items(toRig') :
              d \in Items(toRig) \/ (active /\ NewSet(d, rig, number, number', cached'))
         /\ active => \E d \in Items(toRig') : d.kind = "set" /\ d.seq = number'
<1> DEFINE l == Len(states)
<1>1. /\ toRig \in Seq(Events) /\ \A d \in Items(toRig) : d \in Events /\ d.rig \in Rigs
      /\ number \in Nat /\ rig \in Rigs /\ \A r \in Rigs : r \in Nat \ {0}
  BY PostedIs
<1>2. /\ states \in Seq(TransceiverState) /\ l \in {1, 2}
      /\ number' = number + l /\ cached' = states[l]
      /\ toRig' = IF active THEN toRig \o Commands(rig, number, states) ELSE toRig
      /\ UNCHANGED <<active, rig, toGui, obj, radio>>
  BY DEF Sends
<1> HIDE DEF l
<1>3. number' \in Nat /\ number < number' /\ l # 0  BY <1>1, <1>2
<1>4. Ordered(toRig)  BY DEF CommandsInOrder
<1>5. CASE active
  <2>1. \A d \in Items(toRig) : /\ d.rig \in Nat /\ d.rig <= rig
                                /\ d.kind = "stop" => d.rig < rig
                                /\ Numbered(d) => d.seq \in Nat /\ d.seq <= number
    <3> SUFFICES ASSUME NEW d \in Items(toRig)
                 PROVE  /\ d.rig \in Nat /\ d.rig <= rig /\ (d.kind = "stop" => d.rig < rig)
                        /\ Numbered(d) => d.seq \in Nat /\ d.seq <= number
      OBVIOUS
    <3>1. d.rig \in Nat /\ rig \in Nat /\ d.seq \in Nat  BY <1>1 DEF Events
    <3>2. /\ d.rig <= rig /\ (d.kind = "stop" => d.rig # rig)
          /\ Numbered(d) => d.seq <= number
      BY <1>5 DEF CommandsInOrder
    <3> QED BY <3>1, <3>2
  <2>2. toRig' = toRig \o Commands(rig, number, states) /\ states \in Seq(TransceiverState)
    BY <1>2, <1>5
  <2>3. /\ Ordered(toRig') /\ Items(toRig) \subseteq Items(toRig')
        /\ \A e \in Items(toRig') :
             e \in Items(toRig) \/ NewSet(e, rig, number, number + l, states[l])
        /\ l # 0 => \E e \in Items(toRig') : e.kind = "set" /\ e.seq = number + l
    BY <1>1, <1>4, <2>1, <2>2, CommandsOrder DEF l
  <2> QED BY <1>1, <1>2, <1>3, <1>5, <2>3
<1>6. CASE ~active
  BY <1>1, <1>2, <1>3, <1>4, <1>6
<1> QED BY <1>5, <1>6

LEMMA SendsOrder ==
  ASSUME IInv, CommandsInOrder, NEW states, Sends(states)
  PROVE  CommandsInOrder'
<1>1. /\ toRig \in Seq(Events) /\ \A d \in Items(toRig) : d \in Events /\ d.rig \in Rigs
      /\ rig \in Rigs
      /\ obj \in [Rigs -> Object] /\ \A r \in Rigs : obj[r].seq \in Nat
      /\ \A r \in Rigs : r \in Nat \ {0}
  BY PostedIs
<1>2. /\ number \in Nat /\ number' \in Nat /\ number < number'
      /\ UNCHANGED <<active, rig, toGui, obj>>
      /\ Ordered(toRig') /\ Items(toRig) \subseteq Items(toRig')
      /\ \A d \in Items(toRig') :
           d \in Items(toRig) \/ (active /\ NewSet(d, rig, number, number', cached'))
  BY SendsIs
<1>3. \A d \in Items(toRig) : d.seq \in Nat /\ d.rig \in Nat  BY <1>1 DEF Events
<1>4. rig <= rig  BY <1>1
<1>5. ASSUME NEW d \in Items(toRig')
      PROVE  /\ d.kind \in {"start", "set", "stop"} /\ d.rig <= rig'
             /\ d.kind = "stop" /\ active' => d.rig # rig'
             /\ Numbered(d) => d.seq <= number' /\ obj'[d.rig].phase \in {"ready", "failing"}
  <2>1. CASE d \in Items(toRig)
    <3>1. Numbered(d) => d.seq <= number'
      <4>1. Numbered(d) => d.seq <= number  BY <2>1 DEF CommandsInOrder
      <4> QED BY <1>2, <1>3, <2>1, <4>1
    <3> QED BY <1>2, <2>1, <3>1 DEF CommandsInOrder
  <2>2. CASE active /\ NewSet(d, rig, number, number', cached')
    BY <1>2, <1>4, <2>2 DEF CommandsInOrder, Numbered, NewSet
  <2> QED BY <1>2, <2>1, <2>2
<1>6. ASSUME NEW n \in Nat, n <= number, \A d \in Items(toRig) : Numbered(d) => n < d.seq
      PROVE  n <= number' /\ \A d \in Items(toRig') : Numbered(d) => n < d.seq
  <2>1. n <= number'  BY <1>2, <1>6
  <2>2. \A d : NewSet(d, rig, number, number', cached') => n < d.seq
    BY <1>2, <1>6 DEF NewSet
  <2> QED BY <1>2, <1>6, <2>1, <2>2
<1>7. ASSUME NEW r \in Rigs
       PROVE  /\ r > rig' => obj'[r] = NoObject
              /\ obj'[r].phase \in {"ready", "failing"} => (active' /\ r = rig')
                   \/ \E d \in Items(toRig') : d.kind = "stop" /\ d.rig = r
              /\ obj'[r].requested.freq = obj'[r].actual.freq
              /\ obj'[r].seq <= number'
              /\ \A d \in Items(toRig') : Numbered(d) => obj'[r].seq < d.seq
  <2>1. /\ obj[r].seq \in Nat /\ obj[r].seq <= number
        /\ \A d \in Items(toRig) : Numbered(d) => obj[r].seq < d.seq
    BY <1>1 DEF CommandsInOrder
  <2>2. /\ obj[r].seq <= number'
        /\ \A d \in Items(toRig') : Numbered(d) => obj[r].seq < d.seq
    BY <1>6, <2>1
  <2> QED BY <1>2, <2>2 DEF CommandsInOrder, Connected
<1>8. ASSUME NEW u \in Items(toGui'), u.kind = "update"
       PROVE  u.seq <= number' /\ \A d \in Items(toRig') : Numbered(d) => u.seq < d.seq
  <2>1. toGui \in Seq(Events) /\ u \in Items(toGui)  BY <1>2, <1>8 DEF IInv, QueueOK
  <2>2. PICK i \in 1..Len(toGui) : u = toGui[i]  BY <2>1 DEF Items
  <2>3. u \in Events  BY <2>1, <2>2, ElementOfSeq
  <2>4. u.seq \in Nat  BY <2>3 DEF Events
  <2> QED BY <1>6, <1>8, <2>1, <2>4 DEF CommandsInOrder
<1> QED BY <1>2, <1>5, <1>7, <1>8 DEF CommandsInOrder, Connected

\* Closing the rig, by what is heard of it.
LEMMA ClosesOrder ==
  ASSUME IInv, CommandsInOrder, toRig' = Closed, active' = FALSE,
         \A u \in Items(toGui') : u \in Items(toGui) \/ u.kind = "open",
         UNCHANGED <<number, rig, obj>>
  PROVE  CommandsInOrder'
<1>1. /\ Ordered(Closed)
      /\ \A e \in Items(Closed) :
           e \in Items(toRig) \/ (active /\ e.kind = "stop" /\ e.rig = rig)
      /\ \A r \in Rigs : obj[r].phase \in {"ready", "failing"}
           => \E e \in Items(Closed) : e.kind = "stop" /\ e.rig = r
  BY ClosedIs
<1>2. rig <= rig /\ \A e : e.kind = "stop" => ~Numbered(e)
  BY PostedIs DEF Numbered
<1>3. \A e \in Items(Closed) : Numbered(e) => e \in Items(toRig)  BY <1>1, <1>2
<1> QED BY <1>1, <1>2, <1>3 DEF CommandsInOrder

LEMMA SameOrder ==
  ASSUME IInv, CommandsInOrder,
         \A u \in Items(toGui') : u \in Items(toGui) \/ u.kind = "open",
         UNCHANGED <<number, active, rig, obj, toRig>>
  PROVE  CommandsInOrder'
BY DEF CommandsInOrder, Connected

LEMMA UpdateIs ==
  ASSUME IInv, HandleUpdate
  PROVE  LET e == Head(toGui) IN
         /\ GuiKeeps /\ e \in InTime(toGui) /\ e \in Items(toGui)
         /\ e \in Events /\ e.kind = "update"
         /\ \/ toRig' = toRig /\ active' = active
            \/ toRig' = Closed /\ active' = FALSE
<1>1. /\ toGui \in Seq(Events) /\ toGui # <<>> /\ Head(toGui).kind = "update"
      /\ toGui' = Tail(toGui) /\ active \in BOOLEAN
      /\ toRig' = IF Head(toGui).state.online THEN toRig ELSE Closed
      /\ active' = (active /\ Head(toGui).state.online)
  BY DEF HandleUpdate, Event, IInv, QueueOK, ConfigOK
<1> DEFINE o == Post("open", 0, 0, NoState)
<1>2. o \in Events /\ o.kind = "open"  BY PostType, NoObjectType
<1> HIDE DEF o
<1>3. GuiKeeps  BY <1>1, <1>2, GuiIs
<1>4. Head(toGui) \in Events /\ Head(toGui) \in InTime(toGui) /\ Head(toGui) \in Items(toGui)
  BY <1>1, HeadTailProperties, ItemsTail
<1> QED BY <1>1, <1>3, <1>4

LEMMA InitOrder == Init => CommandsInOrder
<1> SUFFICES ASSUME Init PROVE CommandsInOrder
  OBVIOUS
<1> DEFINE e == Post("start", 1, 1, NoState)
<1>1. IInv  BY InitIInv
<1>2. /\ number = 1 /\ active = TRUE /\ rig = 1 /\ toGui = <<>> /\ toRig = <<e>>
      /\ obj = [r \in Rigs |-> IF r = 1 THEN [NoObject EXCEPT !.phase = "ready"] ELSE NoObject]
  BY DEF Init
<1>3. \A r \in Rigs : r \in Nat \ {0}  BY PostedIs, <1>1
<1>4. 1 \in Rigs  BY <1>1, <1>2 DEF IInv, ConfigOK
<1>5. e \in Events /\ e.kind = "start" /\ e.rig = 1 /\ e.seq = 1
  BY <1>4, PostType, NoObjectType DEF Post
<1> HIDE DEF e
<1>6. Items(toRig) = {e} /\ Ordered(toRig) /\ Items(toGui) = {}
  <2>1. Len(toRig) = 1 /\ toRig[1] = e  BY <1>2
  <2>2. Items(toRig) = {e}  BY <2>1 DEF Items
  <2>3. Ordered(toRig)  BY <2>1 DEF Ordered
  <2> QED BY <1>2, <2>2, <2>3, InTimeIs
<1>7. \A r \in Rigs : /\ obj[r].seq = 0 /\ obj[r].requested.freq = obj[r].actual.freq
                      /\ r = 1 => obj[r].phase = "ready"
                      /\ r # 1 => obj[r] = NoObject /\ obj[r].phase = "none"
  <2> DEFINE n == [NoObject EXCEPT !.phase = "ready"]
  <2>1. /\ n.phase = "ready" /\ n.seq = 0 /\ n.requested.freq = n.actual.freq
        /\ NoObject.phase = "none" /\ NoObject.seq = 0
        /\ NoObject.requested.freq = NoObject.actual.freq
    BY DEF NoObject
  <2>2. \A r \in Rigs : obj[r] = IF r = 1 THEN n ELSE NoObject  BY <1>2
  <2> HIDE DEF n
  <2> QED BY <2>1, <2>2
<1>8. \A r \in Rigs : r > rig => r # 1  BY <1>2, <1>3
<1>9. 0 <= number /\ 0 < e.seq /\ e.seq <= number /\ e.rig <= rig  BY <1>2, <1>5
<1>10. obj[e.rig].phase = "ready" /\ obj[rig].phase = "ready"  BY <1>2, <1>4, <1>5, <1>7
<1>11. \A r \in Rigs : obj[r].phase \in {"ready", "failing"} => active /\ r = rig
  BY <1>2, <1>7
<1> QED BY <1>5, <1>6, <1>7, <1>8, <1>9, <1>10, <1>11 DEF CommandsInOrder, Connected

\* Every step of the rigs' thread makes something of one object.
LEMMA RigThreadActs ==
  ASSUME IInv, CommandsInOrder, RigThread
  PROVE  \E r \in Rigs : \E n, S : Acts(r, n, S)
<1>1. CASE Start
  <2>1. Head(toRig).rig \in Rigs  BY <1>1, ToldOK DEF Start
  <2> QED BY <1>1, <2>1, StartActs
<1>2. CASE Set
  <2>1. Head(toRig).rig \in Rigs  BY <1>2, ToldOK DEF Set
  <2> QED BY <1>2, <2>1, SetActs
<1>3. CASE Stop
  <2>1. Head(toRig).rig \in Rigs  BY <1>3, ToldOK DEF Stop
  <2> QED BY <1>3, <2>1, OffActs DEF Stop
<1>4. ASSUME NEW r \in Rigs, Offline(r) PROVE \E n, S : Acts(r, n, S)
  <2>1. toRig' = toRig  BY <1>4 DEF Offline
  <2> QED BY <1>4, <2>1, OffActs DEF Offline
<1>5. ASSUME NEW r \in Rigs, Timeout(r) PROVE \E n, S : Acts(r, n, S)
  BY <1>5, TimeoutActs
<1> QED BY <1>1, <1>2, <1>3, <1>4, <1>5 DEF RigThread

LEMMA NextOrder == IInv /\ IInv' /\ CommandsInOrder /\ [Next]_vars => CommandsInOrder'
<1> SUFFICES ASSUME IInv, IInv', CommandsInOrder, [Next]_vars PROVE CommandsInOrder'
  OBVIOUS
<1>1. CASE RigThread
  BY <1>1, RigThreadActs, ActsOrder
<1>2. ASSUME Mutters PROVE CommandsInOrder'
  BY <1>2, SameOrder DEF Mutters, GuiKeeps
<1>3. ASSUME NEW f \in Freqs, Turn(f) PROVE CommandsInOrder'
  BY <1>3, SameOrder DEF Turn, configVars
<1>4. CASE Operator
  BY <1>2, <1>3, <1>4, OperatorIs, SendsOrder, OpensOrder
<1>5. ASSUME Loses PROVE CommandsInOrder'
  BY <1>5, ClosesOrder DEF Loses
<1>6. ASSUME HandleUpdate PROVE CommandsInOrder'
  <2>1. GuiKeeps /\ UNCHANGED <<number, rig, obj>>
    BY <1>6, UpdateIs DEF HandleUpdate, threadVars
  <2>2. (toRig' = toRig /\ active' = active) \/ (toRig' = Closed /\ active' = FALSE)
    BY <1>6, UpdateIs
  <2> QED BY <2>1, <2>2, SameOrder, ClosesOrder DEF GuiKeeps
<1>7. CASE Gui
  BY <1>2, <1>5, <1>6, <1>7, GuiThreadIs, OpensOrder
<1>8. CASE UNCHANGED vars
  BY <1>8, SameOrder DEF vars
<1> QED BY <1>1, <1>4, <1>7, <1>8 DEF Next

\* Commands reach a rig in the order of their numbers, none is left for a rig
\* that is gone, and what is told carries a number of before every command that
\* is still to be carried out (Configuration::transceiver_frequency and
\* transceiver_ptt, open_rig, close_rig, TransceiverBase::set).
THEOREM CommandsAlwaysInOrder == Spec => []CommandsInOrder
BY InitIInv, NextIInv, InitOrder, NextOrder, PTL DEF Spec

-----------------------------------------------------------------------------
(* What the open rig says and what the radio does.                         *)

\* Is what the open rig says heard before the rig is closed.
Heard == active /\ ~FailureIn(toGui)

Unstarted == [NoObject EXCEPT !.phase = "ready"]

Running ==
  /\ obj[rig].phase = "ready" /\ Follows(obj[rig], radio)
  /\ Steady => Tracks(obj[rig], radio)
  /\ \A e \in Items(toRig) : e.rig = rig

\* The open rig is about to start, or works the radio alone.
RigHeard ==
  Heard => \/ Running
           \/ /\ obj[rig] = Unstarted
              /\ \E e \in Items(toRig) : e.kind = "start" /\ e.rig = rig

\* What the last command has led to is as the rig tells it.
PttHeard ==
  Heard => \A u \in Items(toGui) :
             u.kind = "update" /\ u.seq = number /\ u.state.ptt => radio.ptt

\* The frequency of the last QSY is in what MainWindow and Configuration send next
\* and in what they will take for an answer to the last command.
WantedHeard ==
  wanted # 0 /\ Stable /\ active =>
    /\ cached.freq = wanted /\ nominal = wanted
    /\ \A u \in InTime(toGui) :
         u.kind = "update" /\ u.seq = number => u.state.freq = wanted
    /\ \A e \in Items(toRig) : e.kind = "start" /\ e.rig = rig => e.seq < number

LastSet(e) == e.kind = "set" /\ \A d \in Items(toRig) : d.kind = "set" => d.seq <= e.seq

\* It is in the last command that waits for the rigs' thread, or on the radio.
WantedPosted ==
  wanted # 0 /\ Stable =>
    /\ \A e \in Items(toRig) : LastSet(e) => e.state.freq = wanted
    /\ (\A e \in Items(toRig) : e.kind # "set") => radio.freq = wanted

CommandInv == RigHeard /\ PttHeard /\ WantedHeard /\ WantedPosted

LEMMA SendsCommand ==
  ASSUME IInv, CommandsInOrder, CommandInv, NEW states, Sends(states)
  PROVE  CommandInv'
<1>1. /\ \A d \in Items(toRig) : d \in Events /\ d.rig \in Rigs
      /\ number \in Nat /\ number' \in Nat /\ number < number' /\ rig \in Rigs
      /\ UNCHANGED <<active, rig, toGui, obj, radio>>
      /\ Items(toRig) \subseteq Items(toRig')
      /\ \A d \in Items(toRig') :
           d \in Items(toRig) \/ (active /\ NewSet(d, rig, number, number', cached'))
      /\ active => \E d \in Items(toRig') : d.kind = "set" /\ d.seq = number'
  BY SendsIs, PostedIs
<1>2. \/ /\ active /\ wanted' = cached'.freq /\ nominal' = wanted'
         /\ spoilt' = IF "untold" \in spoilt THEN {"turned", "untold"} ELSE {}
      \/ UNCHANGED <<wanted, nominal, spoilt>> /\ cached'.freq \in {cached.freq, nominal}
  BY DEF Sends
<1>3. Steady' => Steady  BY <1>2 DEF Steady
<1>4. wanted' # 0 /\ Stable' /\ active => cached'.freq = wanted' /\ nominal' = wanted'
  BY <1>2 DEF CommandInv, WantedHeard, Stable
<1>5. \A d \in Items(toRig) : d.seq \in Nat /\ (Numbered(d) => d.seq <= number)
  BY <1>1 DEF Events, CommandsInOrder
<1>6. \A u \in Items(toGui) : u.kind = "update" => u.seq # number'
  <2>1. ~(number' <= number)  BY <1>1
  <2> QED BY <2>1 DEF CommandsInOrder
<1>7. RigHeard'
  <2> SUFFICES ASSUME Heard PROVE (Running \/ (/\ obj[rig] = Unstarted
                  /\ \E d \in Items(toRig) : d.kind = "start" /\ d.rig = rig))'
    BY <1>1 DEF RigHeard, Heard
  <2>1. CASE Running  BY <1>1, <1>3, <2>1 DEF Running, NewSet
  <2>2. CASE obj[rig] = Unstarted /\ \E d \in Items(toRig) : d.kind = "start" /\ d.rig = rig
    BY <1>1, <2>2
  <2> QED BY <2>1, <2>2 DEF CommandInv, RigHeard
<1>8. PttHeard'  BY <1>1, <1>6 DEF PttHeard
<1>9. WantedHeard'
  <2> SUFFICES ASSUME wanted' # 0, Stable', active
               PROVE  /\ cached'.freq = wanted' /\ nominal' = wanted'
                      /\ \A u \in InTime(toGui') :
                           u.kind = "update" /\ u.seq = number' => u.state.freq = wanted'
                      /\ \A d \in Items(toRig') : d.kind = "start" /\ d.rig = rig'
                           => d.seq < number'
    BY <1>1 DEF WantedHeard
  <2>1. \A u \in InTime(toGui') : u.kind = "update" => u.seq # number'
    BY <1>1, <1>6, InTimeIs
  <2>2. \A d \in Items(toRig') : d.kind = "start" => d \in Items(toRig) /\ Numbered(d)
    BY <1>1 DEF NewSet, Numbered
  <2>3. \A d \in Items(toRig) : Numbered(d) => d.seq < number'  BY <1>1, <1>5
  <2> QED BY <1>4, <2>1, <2>2, <2>3
<1>10. WantedPosted'
  <2>1. CASE active
    <3> SUFFICES ASSUME wanted' # 0, Stable'
                 PROVE  /\ \A d \in Items(toRig') : LastSet(d)' => d.state.freq = wanted'
                        /\ ~(\A d \in Items(toRig') : d.kind # "set")
      BY DEF WantedPosted
    <3>1. PICK e \in Items(toRig') : e.kind = "set" /\ e.seq = number'  BY <1>1, <2>1
    <3>2. ASSUME NEW d \in Items(toRig'), LastSet(d)' PROVE d.state.freq = wanted'
      <4>1. number' <= d.seq /\ d.kind = "set"  BY <3>1, <3>2 DEF LastSet
      <4>2. Numbered(d)  BY <4>1 DEF Numbered
      <4>3. d \notin Items(toRig)  BY <1>1, <1>5, <4>1, <4>2
      <4>4. NewSet(d, rig, number, number', cached')  BY <1>1, <4>3
      <4>5. d.seq = number'  BY <1>1, <4>1, <4>4 DEF NewSet
      <4>6. d.state = cached'  BY <4>4, <4>5 DEF NewSet
      <4> QED BY <1>4, <2>1, <4>6
    <3> QED BY <3>1, <3>2
  <2>2. CASE ~active
    <3>1. UNCHANGED <<toRig, wanted, radio, spoilt>>  BY <1>1, <1>2, <2>2 DEF Sends
    <3> QED BY <3>1 DEF CommandInv, WantedPosted, Stable, LastSet
  <2> QED BY <2>1, <2>2
<1> QED BY <1>7, <1>8, <1>9, <1>10 DEF CommandInv

LEMMA OpensCommand ==
  ASSUME IInv, IInv', CommandsInOrder, CommandInv, NEW states, Opens(states)
  PROVE  CommandInv'
<1> DEFINE s == Post("start", rig + 1, number + 1, NoState)
<1>1. /\ number' \in Nat /\ number + 1 <= number' /\ s \in Items(toRig')
      /\ \A e \in Items(toRig') :
           \/ e \in Items(Closed)
           \/ e = s
           \/ NewSet(e, rig + 1, number + 1, number', cached')
      /\ wanted' # 0 => /\ number + 1 < number' /\ wanted' = cached'.freq
                        /\ nominal' = wanted'
                        /\ \E e \in Items(toRig') : e.kind = "set" /\ e.seq = number'
  BY OpensIs
<1>2. /\ number \in Nat /\ rig \in Rigs /\ rig \in Nat
      /\ \A d \in Items(toRig) : d \in Events /\ d.rig \in Rigs
      /\ obj \in [Rigs -> Object]
  BY PostedIs
<1>3. /\ rig' = rig + 1 /\ active' = TRUE /\ GuiKeeps
      /\ obj' = [obj EXCEPT ![rig + 1].phase = "ready"]
  BY DEF Opens
<1>4. rig + 1 \in Rigs
  <2>1. rig' \in Rigs  BY DEF IInv, ConfigOK
  <2> QED BY <1>3, <2>1
<1>5. obj'[rig + 1] = Unstarted
  <2>1. obj[rig + 1] = NoObject  BY <1>2, <1>4 DEF CommandsInOrder
  <2> QED BY <1>2, <1>3, <1>4, <2>1 DEF Unstarted
<1>6. s.kind = "start" /\ s.rig = rig + 1 /\ s.seq = number + 1  BY DEF Post
<1> HIDE DEF s
<1>7. \A u \in Items(toGui') : u.kind = "update" => u.seq # number'
  <2>1. ~(number' <= number)  BY <1>1, <1>2
  <2> QED BY <1>3, <2>1 DEF GuiKeeps, CommandsInOrder
<1>8. \A e \in Items(Closed) : /\ e.kind = "set" => e.seq <= number /\ e.seq \in Nat
                               /\ e.rig # rig + 1
  <2> SUFFICES ASSUME NEW e \in Items(Closed)
               PROVE  (e.kind = "set" => e.seq <= number /\ e.seq \in Nat)
                      /\ e.rig # rig + 1
    OBVIOUS
  <2>1. e \in Items(toRig) \/ (e.kind = "stop" /\ e.rig = rig)  BY ClosedIs
  <2>2. CASE e \in Items(toRig)
    <3>1. e.rig <= rig /\ (Numbered(e) => e.seq <= number)  BY <2>2 DEF CommandsInOrder
    <3>2. ~(rig + 1 <= rig) /\ e.seq \in Nat  BY <1>2, <2>2 DEF Events
    <3> QED BY <3>1, <3>2 DEF Numbered
  <2>3. CASE e.kind = "stop" /\ e.rig = rig  BY <1>2, <2>3
  <2> QED BY <2>1, <2>2, <2>3
<1>9. RigHeard' /\ PttHeard'
  BY <1>1, <1>3, <1>5, <1>6, <1>7 DEF RigHeard, PttHeard
<1>10. WantedHeard'
  <2> SUFFICES ASSUME wanted' # 0
               PROVE  /\ cached'.freq = wanted' /\ nominal' = wanted'
                      /\ \A u \in InTime(toGui') :
                           u.kind = "update" /\ u.seq = number' => u.state.freq = wanted'
                      /\ \A d \in Items(toRig') : d.kind = "start" /\ d.rig = rig'
                           => d.seq < number'
    BY DEF WantedHeard
  <2>1. \A u \in InTime(toGui') : u.kind = "update" => u.seq # number'
    BY <1>7, InTimeIs
  <2>2. \A d \in Items(toRig') : d.kind = "start" /\ d.rig = rig + 1 => d = s
    BY <1>1, <1>8 DEF NewSet
  <2> QED BY <1>1, <1>3, <1>6, <2>1, <2>2
<1>11. WantedPosted'
  <2> SUFFICES ASSUME wanted' # 0
               PROVE  /\ \A d \in Items(toRig') : LastSet(d)' => d.state.freq = wanted'
                      /\ ~(\A d \in Items(toRig') : d.kind # "set")
    BY DEF WantedPosted
  <2>1. PICK e \in Items(toRig') : e.kind = "set" /\ e.seq = number'  BY <1>1
  <2>2. ASSUME NEW d \in Items(toRig'), LastSet(d)' PROVE d.state.freq = wanted'
    <3>1. d.kind = "set" /\ number' <= d.seq  BY <2>1, <2>2 DEF LastSet
    <3>2. d \notin Items(Closed)  BY <1>1, <1>2, <1>8, <3>1
    <3>3. NewSet(d, rig + 1, number + 1, number', cached')  BY <1>1, <1>6, <3>1, <3>2
    <3>4. d.seq = number'  BY <1>1, <3>1, <3>3 DEF NewSet
    <3>5. d.state = cached'  BY <3>3, <3>4 DEF NewSet
    <3> QED BY <1>1, <3>5
  <2> QED BY <2>1, <2>2
<1> QED BY <1>9, <1>10, <1>11 DEF CommandInv

\* The rig is closed: only what still waits for it matters.
LEMMA ClosesCommand ==
  ASSUME IInv, CommandsInOrder, CommandInv, toRig' = Closed, active' = FALSE,
         UNCHANGED <<radio, wanted>>, Stable' => Stable
  PROVE  CommandInv'
<1>1. RigHeard' /\ PttHeard' /\ WantedHeard'
  BY DEF RigHeard, PttHeard, WantedHeard, Heard
<1>2. /\ Items(toRig) \subseteq Items(Closed)
      /\ \A e \in Items(Closed) : e.kind = "set" => e \in Items(toRig)
  BY ClosedIs
<1>3. \A e \in Items(toRig') : LastSet(e)' => e \in Items(toRig) /\ LastSet(e)
  BY <1>2 DEF LastSet
<1>4. WantedPosted'  BY <1>2, <1>3 DEF CommandInv, WantedPosted
<1> QED BY <1>1, <1>4 DEF CommandInv

\* The rig stays, and the queue of the GUI thread shrinks at most.
LEMMA KeepsCommand ==
  ASSUME CommandInv, GuiKeeps, UNCHANGED <<number, active, rig, toRig, obj, radio, wanted>>,
         Stable' => Stable, Steady' => Steady,
         wanted # 0 /\ Stable' /\ active => cached'.freq = wanted /\ nominal' = wanted
  PROVE  CommandInv'
<1>1. Heard' => Heard  BY DEF Heard, GuiKeeps
<1>2. RigHeard'  BY <1>1 DEF CommandInv, RigHeard, Running
<1>3. PttHeard'  BY <1>1 DEF CommandInv, PttHeard, GuiKeeps
<1>4. WantedHeard'  BY DEF CommandInv, WantedHeard, GuiKeeps
<1>5. WantedPosted'  BY DEF CommandInv, WantedPosted, LastSet
<1> QED BY <1>2, <1>3, <1>4, <1>5 DEF CommandInv

LEMMA UpdateCommand ==
  ASSUME IInv, CommandsInOrder, CommandInv, HandleUpdate
  PROVE  CommandInv'
<1> DEFINE e == Head(toGui)
<1>1. /\ GuiKeeps /\ e \in InTime(toGui) /\ e \in Items(toGui)
      /\ e \in Events /\ e.kind = "update"
      /\ \/ toRig' = toRig /\ active' = active
         \/ toRig' = Closed /\ active' = FALSE
  BY UpdateIs
<1>2. /\ cached' = [cached EXCEPT !.online = e.state.online, !.freq = e.state.freq]
      /\ spoilt' = IF e.seq # number /\ e.state.freq # cached.freq
                   THEN spoilt \cup {"crossed"} ELSE spoilt
      /\ nominal' = IF Current(e)
                       /\ (nominal = 0 \/ (e.state.freq # known.freq /\ ~e.state.ptt))
                    THEN e.state.freq ELSE nominal
      /\ UNCHANGED <<number, rig, obj, radio, wanted>>
  BY DEF HandleUpdate, threadVars
<1> HIDE DEF e
<1>3. /\ Stable' => Stable /\ (e.seq = number \/ e.state.freq = cached.freq)
      /\ Steady' => Steady
  BY <1>2 DEF Stable, Steady
<1>4. cached'.freq = e.state.freq
  BY <1>2 DEF IInv, ConfigOK, TransceiverState
<1>5. wanted # 0 /\ Stable' /\ active => cached'.freq = wanted /\ nominal' = wanted
  <2> SUFFICES ASSUME wanted # 0, Stable', active PROVE cached'.freq = wanted /\ nominal' = wanted
    OBVIOUS
  <2>1. cached.freq = wanted /\ nominal = wanted /\ (e.seq = number => e.state.freq = wanted)
    BY <1>1, <1>3 DEF CommandInv, WantedHeard
  <2>2. e.state.freq = wanted  BY <1>3, <2>1
  <2> QED BY <1>2, <1>4, <2>1, <2>2
<1>6. CASE toRig' = toRig /\ active' = active
  BY <1>1, <1>2, <1>3, <1>5, <1>6, KeepsCommand
<1>7. CASE toRig' = Closed /\ active' = FALSE
  BY <1>2, <1>3, <1>7, ClosesCommand
<1> QED BY <1>1, <1>6, <1>7

\* The dial is turned by hand.
LEMMA TurnCommand ==
  ASSUME IInv, CommandInv, NEW f \in Freqs, Turn(f)
  PROVE  CommandInv'
<1>1. /\ radio' = [radio EXCEPT !.freq = f, !.old = f, !.lag = 0]
      /\ spoilt' = spoilt \cup {"turned", "untold"}
      /\ UNCHANGED <<toGui, toRig, obj, number, active, rig>>
  BY DEF Turn, configVars
<1>2. radio'.ptt = radio.ptt
  <2>1. radio \in Radio  BY RestType
  <2> QED BY <1>1, <2>1 DEF Radio
<1>3. ~Stable' /\ ~Steady' /\ (Heard' => Heard)  BY <1>1 DEF Stable, Steady, Heard
<1>4. RigHeard'
  <2>1. Running => Running'  BY <1>1, <1>2, <1>3 DEF Running, Follows
  <2> QED BY <1>1, <1>3, <2>1 DEF CommandInv, RigHeard
<1>5. PttHeard'  BY <1>1, <1>2, <1>3 DEF CommandInv, PttHeard
<1> QED BY <1>1, <1>3, <1>4, <1>5 DEF CommandInv, WantedHeard, WantedPosted

\* What a step of the rigs' thread takes from its queue.
LEMMA ActsTakes ==
  ASSUME IInv, CommandsInOrder, NEW r \in Rigs, NEW n, NEW S, Acts(r, n, S)
  PROVE  LET d == Head(toRig) IN
         /\ Items(toRig') \subseteq Items(toRig)
         /\ \/ toRig' = toRig /\ obj[r].phase \in {"ready", "failing"}
            \/ /\ d \in Items(toRig) /\ d.rig = r /\ d.kind \in {"start", "set", "stop"}
               /\ Items(toRig) = Items(toRig') \cup {d}
               /\ \A e \in Items(toRig') : Before(d, e)
         /\ UNCHANGED <<number, active, rig, nominal, cached>>
         /\ \A x \in Rigs : obj'[x] = IF x = r THEN n ELSE obj[x]
<1>1. toRig \in Seq(Events) /\ obj \in [Rigs -> Object]  BY PostedIs
<1>2. UNCHANGED <<number, active, rig, nominal, cached>>
  BY DEF Acts, UnchangedGui, configVars, windowVars
<1>3. CASE Told("start") \/ Told("set") \/ Told("stop")
  <2>1. toRig # <<>> /\ toRig' = Tail(toRig)  BY <1>3 DEF Told
  <2>2. /\ Items(toRig) = Items(toRig') \cup {Head(toRig)}
        /\ \A e \in Items(toRig') : Before(Head(toRig), e)
    BY <1>1, <2>1, ItemsTail DEF CommandsInOrder
  <2>3. CASE r = Head(toRig).rig
    BY <1>1, <1>2, <1>3, <2>2, <2>3 DEF Acts, Told
  <2>4. CASE r # Head(toRig).rig
    BY <1>1, <1>2, <2>4 DEF Acts
  <2> QED BY <2>3, <2>4
<1>4. CASE ~(Told("start") \/ Told("set") \/ Told("stop"))
  BY <1>1, <1>2, <1>4 DEF Acts
<1> QED BY <1>3, <1>4

\* The frequency the last command asks for reaches the radio.
LEMMA ActsPosted ==
  ASSUME IInv, CommandsInOrder, CommandInv, NEW r \in Rigs, NEW n, NEW S, Acts(r, n, S),
         \/ wanted' = 0
         \/ /\ Told("set")
            /\ LET f == Head(toRig).state.freq
               IN  f = wanted /\ "ignored" \notin spoilt' => radio'.freq = f
         \/ ~Told("set") /\ radio'.freq = radio.freq
  PROVE  WantedPosted'
<1> DEFINE d == Head(toRig)  P == Items(toRig)  Q == Items(toRig')
<1> SUFFICES ASSUME wanted' # 0, Stable'
             PROVE  /\ \A e \in Q : LastSet(e)' => e.state.freq = wanted'
                    /\ (\A e \in Q : e.kind # "set") => radio'.freq = wanted'
  BY DEF WantedPosted
<1>1. /\ Q \subseteq P
      /\ \/ toRig' = toRig
         \/ d \in P /\ P = Q \cup {d} /\ \A e \in Q : Before(d, e)
      /\ UNCHANGED number
  BY ActsTakes
<1>2. wanted' = wanted /\ wanted # 0 /\ Stable /\ spoilt' = {}  BY DEF Acts, Stable
<1>3. \A e \in P : e.seq \in Nat  BY PostedIs DEF Events
<1>4. ASSUME NEW e \in Q, LastSet(e)' PROVE LastSet(e)
  <2>1. e.kind = "set" /\ \A x \in Q : x.kind = "set" => x.seq <= e.seq
    BY <1>4 DEF LastSet
  <2>2. CASE toRig' = toRig  BY <2>1, <2>2 DEF LastSet
  <2>3. CASE d \in P /\ P = Q \cup {d} /\ \A x \in Q : Before(d, x)
    <3>1. d.kind = "set" => d.seq < e.seq  BY <1>4, <2>1, <2>3 DEF Before, Numbered
    <3>2. d.seq \in Nat /\ e.seq \in Nat  BY <1>1, <1>3, <2>3
    <3> QED BY <2>1, <2>3, <3>1, <3>2 DEF LastSet
  <2> QED BY <1>1, <2>2, <2>3
<1>5. \A e \in Q : LastSet(e)' => e.state.freq = wanted'
  BY <1>1, <1>2, <1>4 DEF CommandInv, WantedPosted
<1>6. ASSUME \A e \in Q : e.kind # "set"
      PROVE  radio'.freq = wanted'
  <2>1. CASE Told("set")
    <3>1. d.kind = "set" /\ toRig' # toRig
      <4>1. d.kind = "set" /\ toRig # <<>> /\ toRig' = Tail(toRig) /\ toRig \in Seq(Events)
        BY <2>1, PostedIs DEF Told
      <4>2. Items(toRig) = Items(Tail(toRig)) \cup {d}  BY <4>1, ItemsTail
      <4> QED BY <1>6, <4>1, <4>2
    <3>2. d \in P /\ P = Q \cup {d}  BY <1>1, <3>1
    <3>3. d.seq <= d.seq  BY <1>3, <3>2
    <3>4. LastSet(d)  BY <1>6, <3>1, <3>2, <3>3 DEF LastSet
    <3>5. d.state.freq = wanted  BY <1>2, <3>2, <3>4 DEF CommandInv, WantedPosted
    <3> QED BY <1>2, <2>1, <3>5
  <2>2. CASE ~Told("set")
    <3>1. d \in P /\ P = Q \cup {d} /\ toRig' # toRig => d.kind # "set"
      BY <2>2 DEF Acts, Told
    <3>2. \A e \in P : e.kind # "set"  BY <1>1, <1>6, <3>1
    <3> QED BY <1>2, <2>2, <3>2 DEF CommandInv, WantedPosted
  <2> QED BY <2>1, <2>2
<1> QED BY <1>5, <1>6

\* What another rig does is not heard, nor what the open one says once it has
\* failed; and while the open rig works, no other does anything.
LEMMA ActsUnheard ==
  ASSUME IInv, CommandsInOrder, CommandInv, NEW r \in Rigs, NEW n, NEW S, Acts(r, n, S),
         ~Connected(r) \/ FailureIn(toGui)
  PROVE  RigHeard' /\ PttHeard' /\ WantedHeard'
<1> DEFINE d == Head(toRig)  P == Items(toRig)  Q == Items(toRig')
<1>1. /\ Q \subseteq P
      /\ \/ toRig' = toRig /\ obj[r].phase \in {"ready", "failing"}
         \/ d \in P /\ d.rig = r /\ P = Q \cup {d}
      /\ UNCHANGED <<number, active, rig, nominal, cached>>
      /\ \A x \in Rigs : obj'[x] = IF x = r THEN n ELSE obj[x]
  BY ActsTakes
<1>2. /\ ~Connected(r) => toGui' = toGui
      /\ Items(toGui) \subseteq Items(toGui')
      /\ FailureIn(toGui) => InTime(toGui') \subseteq InTime(toGui)
      /\ wanted' \in {0, wanted} /\ (Stable' => Stable)
  BY DEF Acts, GuiGains
<1>3. rig \in Rigs /\ number \in Nat /\ \A e \in P : e \in Events  BY PostedIs
<1>4. WantedHeard'
  <2>1. InTime(toGui') \subseteq InTime(toGui)  BY <1>2
  <2> QED BY <1>1, <1>2, <2>1 DEF CommandInv, WantedHeard
<1>5. CASE FailureIn(toGui) \/ ~active
  <2>1. ~Heard'  BY <1>1, <1>2, <1>5 DEF Heard, FailureIn
  <2> QED BY <1>4, <2>1 DEF RigHeard, PttHeard
<1>6. CASE ~FailureIn(toGui) /\ active
  <2>1. r # rig /\ toGui' = toGui /\ Heard  BY <1>2, <1>6 DEF Connected, Heard
  <2>2. ~Running
    <3>1. toRig' # toRig => d \in P /\ d.rig # rig  BY <1>1, <2>1
    <3>2. obj[r].phase \in {"ready", "failing"} => \E e \in P : e.rig # rig
      BY <2>1 DEF CommandsInOrder, Connected
    <3> QED BY <1>1, <2>1, <3>1, <3>2 DEF Running
  <2>3. PICK e \in P : obj[rig] = Unstarted /\ e.kind = "start" /\ e.rig = rig
    BY <2>1, <2>2 DEF CommandInv, RigHeard
  <2>4. e \in Q  BY <1>1, <2>1, <2>3
  <2>5. RigHeard'  BY <1>1, <1>3, <2>1, <2>3, <2>4 DEF RigHeard
  <2>6. PttHeard'
    <3>1. ASSUME NEW u \in Items(toGui), u.kind = "update", u.seq = number PROVE FALSE
      <4>1. number < e.seq /\ e.seq <= number
        BY <2>3, <3>1 DEF CommandsInOrder, Numbered
      <4>2. e.seq \in Nat  BY <1>3 DEF Events
      <4> QED BY <1>3, <4>1, <4>2
    <3> QED BY <1>1, <2>1, <3>1 DEF PttHeard
  <2> QED BY <1>4, <2>5, <2>6
<1> QED BY <1>5, <1>6

\* A failure of the open rig is heard before whatever follows it.
LEMMA LostHeard ==
  ASSUME IInv, CommandsInOrder, CommandInv, NEW r \in Rigs, NEW n, NEW S, Acts(r, n, S), Lost(r)
  PROVE  CommandInv'
<1>1. WantedPosted'  BY ActsPosted DEF Lost
<1>2. CASE ~Connected(r)
  BY <1>1, <1>2, ActsUnheard DEF CommandInv
<1>3. CASE Connected(r)
  <2>1. ~Heard' /\ wanted' = 0  BY <1>3 DEF Lost, Heard
  <2> QED BY <1>1, <2>1 DEF CommandInv, RigHeard, PttHeard, WantedHeard
<1> QED BY <1>2, <1>3

\* The open rig has carried out a command: nothing else it has said has the
\* number of that command.
LEMMA ToldHeard ==
  ASSUME IInv, CommandsInOrder, CommandInv, NEW n,
         LET d == Head(toRig) IN
           /\ d.rig = rig /\ Numbered(d)
           /\ Acts(rig, n, {obj[rig].seq, d.seq}) /\ toRig' # toRig
           /\ Tells(rig, n) /\ n.seq = d.seq /\ n.phase = obj[rig].phase
           /\ Heard => Follows(n, radio') /\ (Steady' => Tracks(n, radio'))
           /\ Heard /\ wanted' # 0 /\ Stable /\ d.seq = number => n.actual.freq = wanted,
         Heard
  PROVE  RigHeard' /\ PttHeard' /\ WantedHeard'
<1> DEFINE d == Head(toRig)  P == Items(toRig)  Q == Items(toRig')
<1>1. rig \in Rigs /\ number \in Nat /\ \A e \in P : e \in Events /\ e.rig \in Rigs
  BY PostedIs
<1>2. /\ Q \subseteq P /\ d \in P /\ P = Q \cup {d} /\ \A e \in Q : Before(d, e)
      /\ UNCHANGED <<number, active, rig, nominal, cached>> /\ obj'[rig] = n
  BY <1>1, ActsTakes
<1>3. /\ \A u \in Items(toGui') :
           u \in Items(toGui) \/ u.kind = "failure" \/ (u.seq = n.seq /\ u.state = n.actual)
      /\ \A u \in InTime(toGui') : u \in InTime(toGui) \/ (u.seq = n.seq /\ u.state = n.actual)
      /\ wanted' \in {0, wanted} /\ (Stable' => Stable)
  BY DEF Tells, GuiGains, Acts
<1>4. obj[rig].phase = "ready"
  BY DEF CommandInv, RigHeard, Running, Unstarted, NoObject
<1>5. d.seq <= number /\ d.seq \in Nat /\ number \in Nat
  BY <1>1, <1>2 DEF CommandsInOrder, Events
<1>6. ASSUME NEW u \in Items(toGui), u.kind = "update" PROVE u.seq # number
  <2>1. u.seq < d.seq  BY <1>2, <1>6 DEF CommandsInOrder
  <2> QED BY <1>5, <2>1
<1>7. RigHeard'
  <2>1. \A e \in Q : e.rig = rig
    <3>1. \A e \in Q : rig <= e.rig /\ e.rig <= rig /\ e.rig \in Rigs
      BY <1>1, <1>2 DEF Before, CommandsInOrder
    <3>2. \A x \in Rigs : x \in Nat  BY PostedIs
    <3> QED BY <1>1, <3>1, <3>2
  <2>2. Running'  BY <1>2, <1>4, <2>1 DEF Running
  <2> QED BY <2>2 DEF RigHeard
<1>8. PttHeard'
  <2>1. n.actual.ptt = radio'.ptt  BY DEF Follows
  <2> QED BY <1>2, <1>3, <1>6, <2>1 DEF PttHeard
<1>9. WantedHeard'
  <2> SUFFICES ASSUME wanted' # 0, Stable', active'
               PROVE  /\ cached'.freq = wanted' /\ nominal' = wanted'
                      /\ \A u \in InTime(toGui') :
                           u.kind = "update" /\ u.seq = number' => u.state.freq = wanted'
                      /\ \A e \in Q : e.kind = "start" /\ e.rig = rig' => e.seq < number'
    BY DEF WantedHeard
  <2>1. wanted' = wanted /\ wanted # 0 /\ Stable /\ active  BY <1>2, <1>3
  <2>2. n.seq = number => n.actual.freq = wanted  BY <2>1
  <2> QED BY <1>2, <1>3, <2>1, <2>2 DEF CommandInv, WantedHeard
<1> QED BY <1>7, <1>8, <1>9

LEMMA StartCommand ==
  ASSUME IInv, CommandsInOrder, CommandInv, Start
  PROVE  CommandInv'
<1> DEFINE d == Head(toRig)  r == d.rig  o == obj[r]
<1>1. PICK n : /\ Acts(r, n, {o.seq, d.seq}) /\ spoilt \subseteq spoilt'
               /\ \/ Lost(r)
                  \/ /\ Tells(r, n) /\ n.seq = d.seq /\ n.phase = o.phase
                     /\ radio' = Read(radio) /\ wanted' = wanted
                     /\ Follows(n, radio')
                     /\ /\ MaxLag < PollsToStabilize
                        /\ Tracks(o, radio) \/ (o.next.freq = 0 /\ ~o.next.online)
                        => Tracks(n, radio')
  BY StartActs
<1>2. r \in Rigs  BY ToldOK DEF Start
<1>3. CASE Lost(r)  BY <1>1, <1>2, <1>3, LostHeard
<1>4. CASE ~Lost(r)
  <2>1. d \in Items(toRig) /\ d.kind = "start" /\ ~Told("set") /\ toRig' # toRig
    <3>1. d.kind = "start" /\ toRig # <<>> /\ toRig' = Tail(toRig) /\ toRig \in Seq(Events)
      BY PostedIs DEF Start, Told
    <3>2. Items(toRig) = Items(Tail(toRig)) \cup {d}  BY <3>1, ItemsTail
    <3>3. Len(Tail(toRig)) # Len(toRig)
      <4>1. Len(toRig) \in Nat /\ Len(Tail(toRig)) = Len(toRig) - 1
        BY <3>1, HeadTailProperties, LenProperties
      <4> QED BY <4>1
    <3> QED BY <3>1, <3>2, <3>3 DEF Told
  <2>2. WantedPosted'
    <3>1. radio'.freq = radio.freq  BY <1>1, <1>4, RestType, ReadIs
    <3> QED BY <1>1, <1>2, <2>1, <3>1, ActsPosted
  <2>3. CASE ~Connected(r) \/ FailureIn(toGui)
    BY <1>1, <1>2, <2>2, <2>3, ActsUnheard DEF CommandInv
  <2>4. CASE Connected(r) /\ ~FailureIn(toGui)
    <3>1. r = rig /\ Heard  BY <2>4 DEF Connected, Heard
    <3>2. Steady' => Steady /\ (Tracks(o, radio) \/ (o.next.freq = 0 /\ ~o.next.online))
      <4>1. Unstarted.next.freq = 0 /\ ~Unstarted.next.online
        BY DEF Unstarted, NoObject, NoState
      <4>2. Steady' => Steady  BY <1>1 DEF Steady
      <4> QED BY <3>1, <4>1, <4>2 DEF CommandInv, RigHeard, Running
    <3>3. wanted' # 0 /\ Stable => d.seq # number
      <4>1. d.seq \in Nat  BY <2>1, PostedIs DEF Events
      <4>2. wanted' # 0 /\ Stable => d.seq < number
        BY <1>1, <1>4, <2>1, <3>1 DEF CommandInv, WantedHeard, Heard
      <4> QED BY <4>1, <4>2, PostedIs
    <3>4. RigHeard' /\ PttHeard' /\ WantedHeard'
      BY <1>1, <1>4, <2>1, <3>1, <3>2, <3>3, ToldHeard DEF Steady, Numbered
    <3> QED BY <2>2, <3>4 DEF CommandInv
  <2> QED BY <2>3, <2>4
<1> QED BY <1>3, <1>4

LEMMA SetCommand ==
  ASSUME IInv, CommandsInOrder, CommandInv, Set
  PROVE  CommandInv'
<1> DEFINE d == Head(toRig)  r == d.rig  o == obj[r]  f == d.state.freq
<1>1. PICK n : /\ Acts(r, n, {o.seq, d.seq}) /\ spoilt \subseteq spoilt'
               /\ \/ Lost(r)
                  \/ /\ Tells(r, n) /\ n.seq = d.seq /\ n.phase = o.phase
                     /\ f # 0 => n.actual.freq = f
                     /\ f = wanted /\ "ignored" \notin spoilt' => radio'.freq = f
                     /\ Follows(o, radio) => Follows(n, radio')
                     /\ Follows(o, radio) /\ Tracks(o, radio) /\ MaxLag < PollsToStabilize
                          => Tracks(n, radio')
  BY SetActs
<1>2. r \in Rigs  BY ToldOK DEF Set
<1>3. CASE Lost(r)  BY <1>1, <1>2, <1>3, LostHeard
<1>4. CASE ~Lost(r)
  <2>1. /\ d \in Items(toRig) /\ d.kind = "set" /\ Told("set") /\ toRig' # toRig
    <3>1. /\ d.kind = "set" /\ toRig # <<>> /\ toRig' = Tail(toRig) /\ toRig \in Seq(Events)
          /\ Told("set")
      BY PostedIs DEF Set, Told
    <3>2. Items(toRig) = Items(Tail(toRig)) \cup {d}  BY <3>1, ItemsTail
    <3>3. Len(Tail(toRig)) # Len(toRig)
      <4>1. Len(toRig) \in Nat /\ Len(Tail(toRig)) = Len(toRig) - 1
        BY <3>1, HeadTailProperties, LenProperties
      <4> QED BY <4>1
    <3> QED BY <3>1, <3>2, <3>3
  <2>2. WantedPosted'  BY <1>1, <1>2, <1>4, <2>1, ActsPosted
  <2>3. CASE ~Connected(r) \/ FailureIn(toGui)
    BY <1>1, <1>2, <2>2, <2>3, ActsUnheard DEF CommandInv
  <2>4. CASE Connected(r) /\ ~FailureIn(toGui)
    <3>1. r = rig /\ Heard  BY <2>4 DEF Connected, Heard
    <3>2. Running
      <4> SUFFICES ASSUME NEW e \in Items(toRig), e.kind = "start", e.rig = rig PROVE FALSE
        BY <3>1 DEF CommandInv, RigHeard
      <4>1. e \in Items(toRig') /\ Before(d, e)  BY <1>1, <1>2, <2>1, ActsTakes
      <4>2. d.rig < e.rig  BY <4>1 DEF Before
      <4>3. rig \in Nat  BY PostedIs
      <4> QED BY <3>1, <4>2, <4>3
    <3>3. ASSUME wanted' # 0, Stable, d.seq = number PROVE n.actual.freq = wanted
      <4>1. wanted # 0  BY <1>1, <3>3 DEF Acts
      <4>2. \A e \in Items(toRig) : e.kind = "set" => e.seq <= number
        BY DEF CommandsInOrder, Numbered
      <4>3. LastSet(d)  BY <2>1, <3>3, <4>2 DEF LastSet
      <4>4. f = wanted  BY <2>1, <3>3, <4>1, <4>3 DEF CommandInv, WantedPosted
      <4> QED BY <1>1, <1>4, <4>1, <4>4
    <3>4. Steady' => Steady  BY <1>1 DEF Steady
    <3>5. Follows(n, radio') /\ (Steady' => Tracks(n, radio'))
      BY <1>1, <1>4, <3>1, <3>2, <3>4 DEF Running, Steady
    <3>6. RigHeard' /\ PttHeard' /\ WantedHeard'
      BY <1>1, <1>4, <2>1, <3>1, <3>3, <3>5, ToldHeard DEF Numbered
    <3> QED BY <2>2, <3>6 DEF CommandInv
  <2> QED BY <2>3, <2>4
<1> QED BY <1>3, <1>4

LEMMA ToldShrinks ==
  ASSUME IInv, NEW kind, Told(kind)
  PROVE  toRig' # toRig
<1>1. toRig \in Seq(Events) /\ toRig # <<>> /\ toRig' = Tail(toRig)
  BY PostedIs DEF Told
<1>2. Len(toRig) \in Nat /\ Len(Tail(toRig)) = Len(toRig) - 1
  BY <1>1, HeadTailProperties, LenProperties
<1>3. Len(toRig') = Len(toRig) - 1  BY <1>1, <1>2
<1> QED BY <1>2, <1>3

\* A poll tells the number of the last command only if nothing newer waits.
LEMMA TimeoutCommand ==
  ASSUME IInv, CommandsInOrder, CommandInv, NEW r \in Rigs, Timeout(r)
  PROVE  CommandInv'
<1> DEFINE o == obj[r]
<1>1. PICK n : /\ Acts(r, n, {o.seq})
               /\ \/ Lost(r)
                  \/ /\ Tells(r, n) /\ n.seq = o.seq /\ n.phase = o.phase
                     /\ radio' = Read(radio) /\ wanted' = wanted
                     /\ n.actual.ptt = radio.ptt
                     /\ Follows(o, radio) => Follows(n, radio')
                     /\ Tracks(o, radio) =>
                          /\ Tracks(n, radio')
                          /\ toGui' = toGui \/ n.actual.freq = radio.freq
                     /\ Steady' /\ ~Steady => Tracks(n, radio')
  BY TimeoutActs
<1>2. toRig' = toRig /\ o.polling  BY DEF Timeout
<1>3. CASE Lost(r)  BY <1>1, <1>3, LostHeard
<1>4. CASE ~Lost(r)
  <2>1. radio'.freq = radio.freq /\ radio'.ptt = radio.ptt  BY <1>1, <1>4, RestType, ReadIs
  <2>2. WantedPosted'  BY <1>1, <1>2, <2>1, ToldShrinks, ActsPosted
  <2>3. CASE ~Connected(r) \/ FailureIn(toGui)
    BY <1>1, <2>2, <2>3, ActsUnheard DEF CommandInv
  <2>4. CASE Connected(r) /\ ~FailureIn(toGui)
    <3>1. r = rig /\ Heard  BY <2>4 DEF Connected, Heard
    <3>2. Running
      <4>1. ~Unstarted.polling  BY DEF Unstarted, NoObject
      <4> QED BY <1>2, <3>1, <4>1 DEF CommandInv, RigHeard
    <3>3. /\ UNCHANGED <<number, active, rig, nominal, cached>> /\ obj'[rig] = n
          /\ Stable' => Stable
      <4>1. Acts(rig, n, {obj[rig].seq}) /\ rig \in Rigs  BY <1>1, <3>1
      <4>2. Stable' => Stable  BY <4>1 DEF Acts
      <4>3. rig \in Rigs => obj'[rig] = n  BY <1>1, <3>1, ActsTakes
      <4> QED BY <1>1, <3>1, <4>1, <4>2, <4>3, ActsTakes
    <3>4. /\ \A u \in Items(toGui') :
               u \in Items(toGui) \/ u.kind = "failure" \/ (u.seq = n.seq /\ u.state = n.actual)
          /\ \A u \in InTime(toGui') :
               u \in InTime(toGui) \/ (u.seq = n.seq /\ u.state = n.actual)
      BY <1>1, <1>4 DEF Tells, GuiGains
    <3>5. RigHeard'
      <4>1. Steady => Tracks(o, radio)  BY <3>1, <3>2 DEF Running
      <4>2. Steady' => Tracks(n, radio')  BY <1>1, <1>4, <4>1
      <4>3. Running'  BY <1>1, <1>2, <1>4, <3>1, <3>2, <3>3, <4>2 DEF Running
      <4> QED BY <4>3 DEF RigHeard
    <3>6. PttHeard'
      <4>1. \A u \in Items(toGui) :
              u.kind = "update" /\ u.seq = number /\ u.state.ptt => radio.ptt
        BY <3>1 DEF CommandInv, PttHeard
      <4> QED BY <1>1, <1>4, <2>1, <3>3, <3>4, <4>1 DEF PttHeard
    <3>7. ASSUME wanted # 0, Stable, toGui' # toGui, n.seq = number
          PROVE  n.actual.freq = wanted
      <4>1. n.actual.freq = radio.freq
        <5>1. Steady  BY <3>7 DEF Stable, Steady
        <5> QED BY <1>1, <1>4, <3>1, <3>2, <3>7, <5>1 DEF Running
      <4>2. ASSUME NEW e \in Items(toRig), e.kind = "set" PROVE FALSE
        <5>1. number < e.seq /\ e.seq <= number
          BY <1>1, <1>4, <3>7, <4>2 DEF CommandsInOrder, Numbered
        <5>2. e.seq \in Nat /\ number \in Nat  BY PostedIs DEF Events
        <5> QED BY <5>1, <5>2
      <4> QED BY <3>7, <4>1, <4>2 DEF CommandInv, WantedPosted
    <3>8. WantedHeard'
      <4> SUFFICES ASSUME wanted # 0, Stable, active
                   PROVE  /\ cached.freq = wanted /\ nominal = wanted
                          /\ \A u \in InTime(toGui') :
                               u.kind = "update" /\ u.seq = number => u.state.freq = wanted
                          /\ \A e \in Items(toRig) : e.kind = "start" /\ e.rig = rig
                               => e.seq < number
        BY <1>1, <1>2, <1>4, <3>3 DEF WantedHeard
      <4> QED BY <3>4, <3>7 DEF CommandInv, WantedHeard
    <3> QED BY <2>2, <3>5, <3>6, <3>8 DEF CommandInv
  <2> QED BY <2>3, <2>4
<1> QED BY <1>3, <1>4

\* A rig that goes off line is not heard in time.
LEMMA OffCommand ==
  ASSUME IInv, CommandsInOrder, CommandInv, UnchangedGui, UNCHANGED spoilt, NEW r \in Rigs,
         \/ toRig' = toRig /\ obj[r].phase = "failing" /\ GoesOffline(r, "ready")
         \/ Told("stop") /\ r = Head(toRig).rig /\ GoesOffline(r, "gone")
  PROVE  CommandInv'
<1>1. /\ \E n : \/ Acts(r, n, {obj[r].seq}) /\ toRig' = toRig
                \/ Acts(r, n, {0, obj[r].seq}) /\ Told("stop")
      /\ radio'.freq = radio.freq /\ wanted' = wanted
  BY OffActs
<1>2. ~Told("set")
  <2>1. Told("set") => ~Told("stop")  BY DEF Told
  <2> QED BY <2>1, ToldShrinks
<1>3. PICK n, S : Acts(r, n, S)  BY <1>1
<1>4. WantedPosted'  BY <1>1, <1>2, <1>3, ActsPosted
<1>5. ~Connected(r) \/ FailureIn(toGui)
  <2> SUFFICES ASSUME r = rig, Heard PROVE FALSE
    BY DEF Connected, Heard
  <2>1. obj[rig].phase = "ready"  BY DEF CommandInv, RigHeard, Running, Unstarted, NoObject
  <2>2. Told("stop") => Head(toRig) \in Items(toRig) /\ Head(toRig).kind = "stop"
    <3>1. toRig \in Seq(Events)  BY PostedIs
    <3> QED BY <3>1, ItemsTail DEF Told
  <2> QED BY <2>1, <2>2 DEF CommandsInOrder, Heard
<1> QED BY <1>3, <1>4, <1>5, ActsUnheard DEF CommandInv

LEMMA InitCommand == Init => CommandInv
<1> SUFFICES ASSUME Init PROVE CommandInv
  OBVIOUS
<1> DEFINE e == Post("start", 1, 1, NoState)
<1>1. IInv  BY InitIInv
<1>2. /\ rig = 1 /\ toGui = <<>> /\ toRig = <<e>> /\ wanted = 0
      /\ obj = [r \in Rigs |-> IF r = 1 THEN Unstarted ELSE NoObject]
  BY DEF Init, Unstarted
<1>3. e.kind = "start" /\ e.rig = 1  BY DEF Post
<1> HIDE DEF e
<1>4. e \in Items(toRig)
  <2>1. 1 \in 1..Len(toRig) /\ toRig[1] = e  BY <1>2
  <2> QED BY <2>1 DEF Items
<1>5. obj[rig] = Unstarted  BY <1>1, <1>2 DEF IInv, ConfigOK
<1>6. Items(toGui) = {} /\ InTime(toGui) = {}  BY <1>2, InTimeIs
<1> QED BY <1>2, <1>3, <1>4, <1>5, <1>6
        DEF CommandInv, RigHeard, PttHeard, WantedHeard, WantedPosted

LEMMA NextCommand ==
  IInv /\ IInv' /\ CommandsInOrder /\ CommandInv /\ [Next]_vars => CommandInv'
<1> SUFFICES ASSUME IInv, IInv', CommandsInOrder, CommandInv, [Next]_vars
             PROVE  CommandInv'
  OBVIOUS
<1>1. wanted # 0 /\ Stable /\ active => cached.freq = wanted /\ nominal = wanted
  BY DEF CommandInv, WantedHeard
<1>2. ASSUME Mutters PROVE CommandInv'
  <2>1. UNCHANGED <<radio, wanted, cached, nominal, spoilt>>  BY <1>2 DEF Mutters
  <2>2. (Stable' => Stable) /\ (Steady' => Steady)  BY <2>1 DEF Stable, Steady
  <2> QED BY <1>1, <1>2, <2>1, <2>2, KeepsCommand DEF Mutters
<1>3. CASE Operator
  BY <1>2, <1>3, OperatorIs, SendsCommand, OpensCommand, TurnCommand
<1>4. ASSUME Loses PROVE CommandInv'
  BY <1>4, ClosesCommand DEF Loses, Stable
<1>5. CASE Gui
  BY <1>2, <1>4, <1>5, GuiThreadIs, OpensCommand, UpdateCommand
<1>6. CASE RigThread
  <2>1. ASSUME Stop PROVE CommandInv'
    <3>1. Head(toRig).rig \in Rigs  BY <2>1, ToldOK DEF Stop
    <3> QED BY <2>1, <3>1, OffCommand DEF Stop
  <2>2. ASSUME NEW r \in Rigs, Offline(r) PROVE CommandInv'
    <3>1. toRig' = toRig  BY <2>2 DEF Offline
    <3> QED BY <2>2, <3>1, OffCommand DEF Offline
  <2> QED BY <1>6, <2>1, <2>2, StartCommand, SetCommand, TimeoutCommand DEF RigThread
<1>7. CASE UNCHANGED vars
  <2>1. UNCHANGED <<number, active, rig, toRig, obj, radio, wanted, cached, nominal, toGui>>
    BY <1>7 DEF vars
  <2>2. GuiKeeps  BY <2>1 DEF GuiKeeps
  <2>3. (Stable' => Stable) /\ (Steady' => Steady)  BY <1>7 DEF vars, Stable, Steady
  <2> QED BY <1>1, <2>1, <2>2, <2>3, KeepsCommand
<1> QED BY <1>3, <1>5, <1>6, <1>7 DEF Next

\* What is heard of the open rig was so when the last command was carried out,
\* and still is.  And if the radio shows a change within the polls that are waited
\* for, the frequency of the last QSY is in the last command that waits for the rig,
\* or else on the radio, unless since that QSY an operation has failed or a rig been
\* opened (wanted), or one of Spoilers applies: the dial was turned by hand, an
\* update of before a command overwrote the cache, or set() took the QSY for none
\* (Configuration::handle_transceiver_update, PollingTransceiver::do_sync,
\* TransceiverBase::set).
THEOREM CommandsCarriedOut == Spec => []CommandInv
BY Invariance, CommandsAlwaysInOrder, NextCommand, InitCommand, PTL DEF Spec

-----------------------------------------------------------------------------
(* What the operator and the program rely on.                              *)

\* While no command is on its way the radio is where the last QSY put it if it
\* reports a change after fewer polls than polls_to_stabilize
\* (PollingTransceiver.cpp), and if since then no operation has failed, no rig been
\* opened otherwise, no dial been turned by hand, no update of before a command has
\* overwritten what Configuration sends next, and set() has not taken the QSY for
\* none.  The last two are the program's own, and do happen: NoPingPong, QsyApplied.
THEOREM QsyStandsAlways == MaxLag < PollsToStabilize => (Spec => []QsyStands)
<1> SUFFICES ASSUME MaxLag < PollsToStabilize PROVE Spec => []QsyStands
  OBVIOUS
<1>1. CommandInv => QsyStands
  <2> SUFFICES ASSUME WantedPosted, wanted # 0, spoilt = {},
                      \A i \in 1..Len(toRig) : toRig[i].kind # "set"
               PROVE  radio.freq = wanted
    BY DEF CommandInv, QsyStands, QsyDone
  <2>1. \A e \in Items(toRig) : e.kind # "set"  BY DEF Items
  <2> QED BY <2>1 DEF WantedPosted, Stable
<1> QED BY <1>1, CommandsCarriedOut, PTL

\* While a rig is open audio starts only on a radio that transmits, or on one
\* whose failure is about to be heard of (MainWindow::handle_transceiver_update,
\* m_tx_when_ready).
THEOREM AudioOnKeyedRigAlways == Spec => AudioOnKeyedRig
<1>1. IInv /\ CommandInv /\ [Next]_vars
        => [active /\ audio' /\ ~audio => radio.ptt \/ Unwell]_vars
  <2> SUFFICES ASSUME IInv, CommandInv, Next, active, audio', ~audio, ~Unwell
               PROVE  radio.ptt
    OBVIOUS
  <2>1. HandleUpdate
    <3>1. Operator => audio' = audio \/ ~audio'
      BY DEF Operator, Qsy, Turn, PttOn, PttOff, OpenSettings, Answer, CloseSettings, windowVars
    <3>2. RigThread => audio' = audio
      BY DEF RigThread, Start, Set, Stop, Offline, Timeout, UnchangedGui, windowVars
    <3>3. HandleFailure \/ RigOpen \/ RigOpenFails => audio' = audio \/ ~audio'
      BY DEF HandleFailure, RigOpen, RigOpenFails, RigFailure, windowVars
    <3> QED BY <3>1, <3>2, <3>3 DEF Next, Gui
  <2>2. Head(toGui).seq = number /\ Head(toGui).state.ptt
    BY <2>1 DEF HandleUpdate, Current
  <2>3. Head(toGui) \in Items(toGui) /\ Head(toGui).kind = "update"  BY <2>1, UpdateIs
  <2>4. ~FailureIn(toGui)  BY DEF Unwell, FailureIn, Items
  <2> QED BY <2>2, <2>3, <2>4 DEF CommandInv, PttHeard, Heard
<1>2. Spec => [][Next]_vars  BY DEF Spec
<1> QED BY <1>1, <1>2, Invariance, CommandsCarriedOut, PTL DEF AudioOnKeyedRig

=============================================================================
