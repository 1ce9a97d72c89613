----------------------------- MODULE Transceiver -----------------------------
(***************************************************************************)
(* What one Transceiver object knows of its radio (TransceiverBase,        *)
(* PollingTransceiver) and what its slots do to the two of them, as        *)
(* operators on the object and the radio.  Of the state of a rig the model *)
(* keeps whether it is connected, its dial frequency and PTT; mode and     *)
(* split are never asked for.                                              *)
(***************************************************************************)
EXTENDS Integers

CONSTANTS
  Freqs,             \* dial frequencies; 0 is "not known"
  PollsToStabilize,  \* polls_to_stabilize
  MaxLag             \* polls after which the radio reports a new frequency

ASSUME TransceiverAssumption ==
  /\ Freqs \subseteq Nat \ {0} /\ Freqs # {}
  /\ PollsToStabilize \in Nat \ {0} /\ MaxLag \in Nat

TransceiverState == [online : BOOLEAN, freq : Freqs \cup {0}, ptt : BOOLEAN]

NoState == [online |-> FALSE, freq |-> 0, ptt |-> FALSE]

\* The radio: its dial, its PTT, and the frequency it goes on reporting for
\* some polls after it has been told to change.
Radio == [freq : Freqs, ptt : BOOLEAN, old : Freqs, lag : 0..MaxLag]

Shown(h) == IF h.lag > 0 THEN h.old ELSE h.freq
Read(h)  == IF h.lag = 0 THEN h
            ELSE [h EXCEPT !.old = IF h.lag = 1 THEN h.freq ELSE @, !.lag = @ - 1]

\* The radio goes to frequency f, and reports it after lag polls.
Tuned(h, f, lag) ==
  IF h.freq = f THEN h
  ELSE [h EXCEPT !.freq = f, !.old = IF lag = 0 THEN f ELSE Shown(h), !.lag = lag]

\* requested_, actual_ and last_ of TransceiverBase, next_state_,
\* last_signalled_state_ and retries_ of PollingTransceiver; polling says
\* whether the timer runs.  An object is "failing" between the signal failure
\* and the shutdown that follows it in offline().
Object == [phase : {"none", "ready", "failing", "gone"},
           requested : TransceiverState, actual : TransceiverState,
           last : TransceiverState, next : TransceiverState,
           signalled : TransceiverState,
           retries : 0..PollsToStabilize, seq : Nat, polling : BOOLEAN]

NoObject == [phase |-> "none", requested |-> NoState, actual |-> NoState,
             last |-> NoState, next |-> NoState, signalled |-> NoState,
             retries |-> 0, seq |-> 0, polling |-> FALSE]

\* Variant: what is read before the change shows is signalled.
Expect_NotHeld(o, next) == [o EXCEPT !.next = next]

\* The do_post_ functions: what poll should come to show, and how often to
\* look before giving up.
Expect(o, next) ==
  [o EXCEPT !.next = next,
            !.retries = IF o.next = next THEN @ ELSE PollsToStabilize]

\* HamlibTransceiver::poll: actual_ follows the radio, and requested_ its dial.
Polled(o, h) ==
  [o EXCEPT !.actual = [@ EXCEPT !.freq = Shown(h), !.ptt = h.ptt],
            !.requested = [@ EXCEPT !.freq = Shown(h)]]

\* startup; do_start ends with a poll
Startup(o, h) ==
  LET p == Expect(Polled(o, h), [o.next EXCEPT !.online = TRUE])
  IN  [p EXCEPT !.polling = TRUE, !.actual = [@ EXCEPT !.online = TRUE],
                !.requested = [@ EXCEPT !.online = TRUE]]

DoPtt(o, on) ==
  Expect([o EXCEPT !.actual = [@ EXCEPT !.ptt = on]], [o.next EXCEPT !.ptt = on])

DoFrequency(o, f) ==
  Expect([o EXCEPT !.actual = [@ EXCEPT !.freq = f],
                   !.requested = [@ EXCEPT !.freq = f]],
         [o.next EXCEPT !.freq = f])

\* shutdown up to its may_update; released: do_ptt(false) did not throw
Shutdown(o, released) ==
  LET p == IF o.requested.online /\ released THEN DoPtt(o, FALSE) ELSE o
  IN  [p EXCEPT !.polling = FALSE, !.actual = [@ EXCEPT !.online = FALSE],
                !.requested = [@ EXCEPT !.online = FALSE]]

\* The steps of set(s, number) one after the other.  Each is a triple: does
\* the step touch the radio, the object after it, the radio after it.
Steps(o, h, s, lag) ==
  LET up   == ~o.requested.online
      o1   == IF up THEN Startup(o, h) ELSE o
      h1   == IF up THEN Read(h) ELSE h
      turn == s.ptt # o1.requested.ptt
      off  == turn /\ ~s.ptt
      o2   == IF off THEN DoPtt(o1, FALSE) ELSE o1
      h2   == IF off THEN [h1 EXCEPT !.ptt = FALSE] ELSE h1
      tune == s.freq # 0 /\ (s.freq # o2.requested.freq \/ off)
      o3   == IF tune THEN DoFrequency(o2, s.freq) ELSE o2
      h3   == IF tune THEN Tuned(h2, s.freq, lag) ELSE h2
      on   == turn /\ s.ptt
  IN  << [does |-> up,   obj |-> o1, radio |-> h1],
         [does |-> off,  obj |-> o2, radio |-> h2],
         [does |-> tune, obj |-> o3, radio |-> h3],
         [does |-> on,   obj |-> IF on THEN DoPtt(o3, TRUE) ELSE o3,
                         radio |-> IF on THEN [h3 EXCEPT !.ptt = TRUE] ELSE h3] >>

\* do_sync after the poll: is the state to be signalled
\* Variant: it is signalled only once it is what was expected.
Signals_Stubborn(o) ==
  IF o.retries > 0 THEN o.actual = o.next ELSE o.actual # o.signalled

Signals(o) ==
  IF o.retries > 0 THEN o.actual = o.next \/ o.retries = 1
                   ELSE o.actual # o.signalled

\* do_sync
\* Variant: the count goes down on every poll.
Synced_Below(o) ==
  IF Signals(o)
  THEN [o EXCEPT !.retries = 0, !.next = o.actual, !.signalled = o.actual,
                 !.last = o.actual]
  ELSE [o EXCEPT !.retries = @ - 1]

Synced(o) ==
  IF Signals(o)
  THEN [o EXCEPT !.retries = 0, !.next = o.actual, !.signalled = o.actual,
                 !.last = o.actual]
  ELSE [o EXCEPT !.retries = IF @ > 0 THEN @ - 1 ELSE 0]
=============================================================================
