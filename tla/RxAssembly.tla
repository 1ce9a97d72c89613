----------------------------- MODULE RxAssembly -----------------------------
(***************************************************************************)
(* How MainWindow puts the frames it decodes back together.  A message is  *)
(* sent in frames, one per period (Varicode::buildMessageFrames); each     *)
(* decoded line is handled by processDecodedLine, which opens, moves and   *)
(* fills message buffers by their offset in the band; processActivity,     *)
(* once per second, marks gaps, joins compound calls, closes and expires   *)
(* buffers and hands commands on.  One channel is modelled: messages of    *)
(* any stations one after the other, cut short or not, whose frames may be *)
(* lost, decoded twice, and decoded at one offset or another.              *)
(***************************************************************************)
EXTENDS Integers, Sequences, FiniteSets, SequencesExt, TLC

CONSTANTS
  Messages,      \* what may be sent: records [from, to, cmd, text]
  CompoundCalls, \* stations whose call does not fit in a directed frame
  Places,        \* where in the band a message may be: sets of offsets at which
                 \* its frames may be decoded
  Threshold,     \* rxThreshold
  Period,        \* computePeriodForSubmode, in seconds
  CloseAfter,    \* the 60 seconds after which a buffer is closed
  DropAfter,     \* the 90 seconds after which it is removed
  Day,           \* seconds after which the clock starts again
  MaxMessages,   \* bound: messages sent
  MaxLines,      \* bound: lines printed for one frame
  OtherActivity  \* may other parts of the band be active at any time

Mfi == "mfi"             \* m_config.mfi(), shown for a missing frame
Partial == "<....>"      \* stands for a call that comes in a frame of its own

ASSUME RxAssumption ==
  /\ \A m \in Messages :
       /\ m \in [from : STRING, to : STRING, cmd : STRING, text : Seq(STRING)]
       /\ Partial \notin {m.from, m.to}
       /\ m.cmd = "heartbeat" => m.to = "@HB" /\ m.text = << >>
  /\ Period \in Nat /\ Period > 2 /\ Day \in Nat \ {0} /\ Day % Period = 0
  /\ CloseAfter \in Nat /\ DropAfter \in Nat /\ CloseAfter <= DropAfter
  /\ Threshold \in Nat /\ MaxMessages \in Nat
  /\ UNION Places \subseteq Nat /\ IsFiniteSet(UNION Places)
  /\ \A P \in Places : \A o, p \in P : o - p \in -Threshold..Threshold
  /\ MaxLines \in Nat \ {0} /\ OtherActivity \in BOOLEAN

VARIABLES
  second,    \* m_sec0, the second of the day
  place,     \* where the present message is
  onAir,     \* frames of the present message still to come, one per period
  lines,     \* lines printed for the frame of this period
  decoded,   \* has decodeDone run in this period
  rx,        \* members of MainWindow: a record, see TypeOK
  sent,      \* history: the messages sent
  missed,    \* history: has a frame of the present message been missed
  headless,  \* history: has the first frame of any message been missed
  whole,     \* history: which messages were decoded without a miss
  processed  \* history: commands that processCommandActivity has taken up

vars == <<second, place, onAir, lines, decoded, rx, sent, missed, headless, whole,
          processed>>

DecodeAt == Period - 2   \* second of the period from which its frame is decoded

\* Ages are counted up to a second after every limit has passed.
OldAge == DropAfter + Period + 1
Ages == 0..OldAge

\* Commands: "checked" ones are buffered and end in a checksum, "open" ones
\* are buffered, "plain" ones are not; "none" is the command of text that is
\* directed to nobody and of a CommandDetail that was never set.
IsCommandAllowed(cmd) == cmd # "none"
IsCommandBuffered(cmd) == cmd \in {"checked", "open"}

----------------------------------------------------------------------------
(* Frames of a message                                                     *)

Compound(call)          == [type |-> "compound", from |-> call, to |-> "", cmd |-> "none", text |-> ""]
\* Variant: a heartbeat handed on as a command to everybody.
Heartbeat_Allcall(call) == [type |-> "heartbeat", from |-> call, to |-> "@ALLCALL", cmd |-> "heartbeat", text |-> ""]
Heartbeat(call)         == [type |-> "heartbeat", from |-> call, to |-> "@HB", cmd |-> "heartbeat", text |-> ""]
Directed(from, to, cmd) == [type |-> "directed", from |-> from, to |-> to, cmd |-> cmd, text |-> ""]
Data(text)              == [type |-> "data", from |-> "", to |-> "", cmd |-> "none", text |-> text]

\* A compound call on either side takes a frame of its own, and the directed
\* frame that follows leaves the sender open.
BuildMessageFrames(m) ==
  LET head == CASE m.cmd = "none" -> << >>
                [] m.cmd = "heartbeat" -> <<Heartbeat(m.from)>>
                [] OTHER -> IF {m.from, m.to} \cap CompoundCalls = {}
                            THEN <<Directed(m.from, m.to, m.cmd)>>
                            ELSE <<Compound(m.from), Directed(Partial, m.to, m.cmd)>>
      all == head \o [i \in DOMAIN m.text |-> Data(m.text[i])]
  IN  [i \in DOMAIN all |-> [key |-> all[i], first |-> i = 1, last |-> i = Len(all)]]

Offsets == UNION Places
Frames == UNION {ToSet(BuildMessageFrames(m)) : m \in Messages}
Texts == {Mfi} \cup UNION {ToSet(m.text) : m \in Messages}

\* checksum16Valid of a text that was sent with its checksum.
ChecksumValid(text) == \E m \in Messages : m.cmd = "checked" /\ m.text = text

----------------------------------------------------------------------------
(* Message buffers, by offset                                              *)

NoCmd == [from |-> "", to |-> "", cmd |-> "none", last |-> FALSE, age |-> OldAge]
NoBuffer == [cmd |-> NoCmd, compound |-> << >>, msgs |-> << >>]

\* m_messageBuffer[o], which makes the entry when there is none.
At(buffers, o) == IF o \in DOMAIN buffers THEN buffers[o] ELSE NoBuffer
Put(f, o, b) == [p \in DOMAIN f \cup {o} |-> IF p = o THEN b ELSE f[p]]
Without(f, S) == [o \in DOMAIN f \ S |-> f[o]]

Near(f, o) == {p \in DOMAIN f : p - o \in -Threshold..Threshold}

\* Entry o, or else the lowest one near it, is moved to o.
Moved(f, o) ==
  IF o \in DOMAIN f \/ Near(f, o) = {} THEN f
  ELSE LET prev == CHOOSE p \in Near(f, o) : \A q \in Near(f, o) : p <= q
       IN  Put(Without(f, {prev}), o, f[prev])

HasExistingMessageBuffer(buffers, o) == Near(buffers, o) # {}

----------------------------------------------------------------------------
(* processDecodedLine                                                      *)

\* Variant: frames of this second do not count as seen.
IsDuplicate_Later(cache, f, o) ==
  \E c \in cache : c.key = f.key /\ c.age > 0

\* A frame is known by its payload; the first and last flags are not part of it.
IsDuplicate(cache, f, o) ==
  \E c \in cache : /\ c.key = f.key
                   /\ 2 * c.age < Period \/ c.offset - o \in -Threshold..Threshold

CacheFrame(cache, f, o) ==
  {c \in cache : c.key # f.key} \cup {[key |-> f.key, offset |-> o, age |-> 0]}

\* Variant: a first frame leaves the buffer it finds.
GeneralActivity_Keeps(r, f, o) ==
  LET here == Moved(r.buffers, o)
      datum == [text |-> f.key.text, last |-> f.last, age |-> 0]
  IN  [r EXCEPT
        !.band = Put(Moved(r.band, o), o, [mfi |-> FALSE, last |-> f.last, age |-> 0]),
        !.pending = TRUE,
        !.buffers =
          IF f.key.type = "data" /\ HasExistingMessageBuffer(here, o)
          THEN [here EXCEPT ![o].msgs = Append(@, datum)]
          ELSE here]

\* A first frame clears the buffer it finds; data is added to the one it finds.
GeneralActivity(r, f, o) ==
  LET here == Moved(r.buffers, o)
      kept == IF f.first THEN Without(here, {o}) ELSE here
      drifted == Moved(kept, o)
      datum == [text |-> f.key.text, last |-> f.last, age |-> 0]
  IN  [r EXCEPT
        !.band = Put(Moved(r.band, o), o, [mfi |-> FALSE, last |-> f.last, age |-> 0]),
        !.pending = TRUE,
        !.buffers =
          IF f.key.type = "data" /\ HasExistingMessageBuffer(kept, o)
          THEN [drifted EXCEPT ![o].msgs = Append(@, datum)]
          ELSE drifted]

ToCommand(cmd, text) == [from |-> cmd.from, to |-> cmd.to, cmd |-> cmd.cmd, text |-> text]

Queue(r, c) == [r EXCEPT !.commands = Append(@, c)]

BufferCompound(r, f, o) ==
  LET bs == Moved(r.buffers, o)
      call == [call |-> f.key.from, last |-> f.last, age |-> 0]
  IN  [r EXCEPT !.buffers = Put(bs, o, [At(bs, o) EXCEPT !.compound = Append(@, call)])]

BufferCommand(r, f, o) ==
  LET bs == Moved(r.buffers, o)
      cmd == [from |-> f.key.from, to |-> f.key.to, cmd |-> f.key.cmd, last |-> f.last, age |-> 0]
  IN  [r EXCEPT !.buffers = Put(bs, o, [At(bs, o) EXCEPT !.cmd = cmd, !.msgs = << >>])]

Parse(r, f, o) ==
  CASE f.key.type = "heartbeat" -> Queue(r, ToCommand(f.key, << >>))
    [] f.key.type = "compound" -> BufferCompound(r, f, o)
    [] f.key.type = "directed" ->
         IF \/ IsCommandBuffered(f.key.cmd) /\ ~f.last
            \/ Partial \in {f.key.from, f.key.to}
         THEN BufferCommand(r, f, o)
         ELSE Queue(r, ToCommand(f.key, << >>))
    [] OTHER -> r

ProcessDecodedLine(r, f, o) ==
  IF IsDuplicate(r.cache, f, o) THEN r
  ELSE Parse(GeneralActivity([r EXCEPT !.cache = CacheFrame(@, f, o)], f, o), f, o)

----------------------------------------------------------------------------
(* processActivity                                                         *)

\* The elements of a set of numbers from the lowest up, and those of a sequence
\* that stand at such places.
Ascending(S) ==
  CHOOSE q \in [1..Cardinality(S) -> S] : \A i, j \in DOMAIN q : i < j => q[i] < q[j]
Selected(s, S) == LET q == Ascending(S) IN [i \in DOMAIN q |-> s[q[i]]]

ProcessRxActivity(r) == [r EXCEPT !.pending = FALSE]

\* An offset that has been silent in the middle of a message gets an ellipsis.
\* It is added to the buffer at that very offset, which is made when only one
\* near it exists; offsets are visited from the lowest up, so a buffer made in
\* this way counts for the next one.
ProcessIdleActivity(r) ==
  LET idle == {o \in DOMAIN r.band : /\ ~r.band[o].last /\ ~r.band[o].mfi
                                     /\ 2 * r.band[o].age >= 3 * Period}
      buffered[o \in idle] ==
        \/ HasExistingMessageBuffer(r.buffers, o)
        \/ \E p \in idle : p < o /\ o - p <= Threshold /\ buffered[p]
      marked == {o \in idle : buffered[o]}
      gap(o) == [text |-> Mfi, last |-> FALSE, age |-> r.band[o].age]
  IN  [r EXCEPT
        !.band = [o \in DOMAIN r.band |->
          IF o \in idle THEN [r.band[o] EXCEPT !.mfi = TRUE] ELSE r.band[o]],
        !.pending = @ \/ idle # {},
        !.buffers = [o \in DOMAIN r.buffers \cup marked |->
          IF o \in marked
          THEN [At(r.buffers, o) EXCEPT !.msgs = Append(@, gap(o))]
          ELSE r.buffers[o]]]

\* The call at the head of the queue takes the place that is open in the
\* command; the sender's place first.
Join(b, field) ==
  IF b.cmd[field] # Partial \/ b.compound = << >> THEN b
  ELSE LET d == Head(b.compound)
       IN  [b EXCEPT !.compound = Tail(@),
                     !.cmd[field] = d.call,
                     !.cmd.age = IF d.age > @ THEN d.age ELSE @,
                     !.cmd.last = d.last \/ @]

\* Variant: one call too many is asked for.
CanJoin_OneMore(b) ==
  Len(b.compound) > Cardinality({field \in {"from", "to"} : b.cmd[field] = Partial})

\* Both calls are needed before either is filled in.
CanJoin(b) ==
  Len(b.compound) >= Cardinality({field \in {"from", "to"} : b.cmd[field] = Partial})

Joined(b) == IF b.compound # << >> /\ CanJoin(b) THEN Join(Join(b, "from"), "to") ELSE b
JoinReady(b) == b.compound # << >> /\ CanJoin(b) /\ Joined(b).cmd.last

ProcessCompoundActivity(r) ==
  LET ready == {o \in DOMAIN r.buffers : JoinReady(r.buffers[o])}
      queue == Ascending(ready)
      command(o) == ToCommand(Joined(r.buffers[o]).cmd, << >>)
  IN  [r EXCEPT
        !.buffers = [o \in DOMAIN @ \ ready |-> Joined(@[o])],
        !.commands = @ \o [i \in DOMAIN queue |-> command(queue[i])]]

\* Is the newest part of a buffer at most n seconds old?
Fresh(b, n) ==
  \/ b.cmd.age \in 0..n
  \/ b.compound # << >> /\ Last(b.compound).age \in 0..n
  \/ b.msgs # << >> /\ Last(b.msgs).age \in 0..n

Closed(b) == /\ Fresh(b, DropAfter)
             /\ b.msgs # << >>
             /\ Last(b.msgs).last \/ ~Fresh(b, CloseAfter)

TextOf(b) == [i \in DOMAIN b.msgs |-> b.msgs[i].text]

Valid(b) == b.cmd.cmd = "checked" => ChecksumValid(TextOf(b))

\* Variant: buffers without text are skipped before their age is looked at.
ProcessBufferedActivity_SkipsEmpty(r) ==
  LET gone == {o \in DOMAIN r.buffers :
                 r.buffers[o].msgs # << >> /\ ~Fresh(r.buffers[o], DropAfter)}
      closed == {o \in DOMAIN r.buffers : Closed(r.buffers[o])}
      queue == Ascending({o \in closed : Valid(r.buffers[o])})
      command(o) == ToCommand(r.buffers[o].cmd, TextOf(r.buffers[o]))
  IN  [r EXCEPT
        !.buffers = Without(@, gone \cup closed),
        !.commands = @ \o [i \in DOMAIN queue |-> command(queue[i])]]

ProcessBufferedActivity(r) ==
  LET gone == {o \in DOMAIN r.buffers : ~Fresh(r.buffers[o], DropAfter)}
      closed == {o \in DOMAIN r.buffers : Closed(r.buffers[o])}
      queue == Ascending({o \in closed : Valid(r.buffers[o])})
      command(o) == ToCommand(r.buffers[o].cmd, TextOf(r.buffers[o]))
  IN  [r EXCEPT
        !.buffers = Without(@, gone \cup closed),
        !.commands = @ \o [i \in DOMAIN queue |-> command(queue[i])]]

ProcessActivity(r) ==
  ProcessBufferedActivity(ProcessCompoundActivity(ProcessIdleActivity(ProcessRxActivity(r))))

\* What processCommandActivity does not skip at once.
Taken(commands) ==
  LET taken(c) == Partial \notin {c.from, c.to} /\ IsCommandAllowed(c.cmd)
  IN  Selected(commands, {i \in DOMAIN commands : taken(commands[i])})

----------------------------------------------------------------------------
(* Actions                                                                 *)

Init ==
  /\ second \in 0..Day - 1 /\ second % Period = 0
  /\ place = {} /\ onAir = << >> /\ lines = 0 /\ decoded = FALSE
  /\ rx = [buffers |-> << >>, band |-> << >>, cache |-> {}, pending |-> FALSE, commands |-> << >>]
  /\ sent = << >> /\ missed = FALSE /\ headless = FALSE /\ whole = {} /\ processed = << >>

\* A message begins at the start of a period; the one before may be cut short
\* after one frame or more.  No message is sent twice: frames that come again
\* within two periods are taken for duplicates.
Send(m) ==
  /\ place' \in Places
  /\ second % Period = 0
  /\ Len(sent) < MaxMessages
  /\ m \notin ToSet(sent)
  /\ onAir # << >> => onAir # BuildMessageFrames(Last(sent))
  /\ onAir' = BuildMessageFrames(m)
  /\ sent' = Append(sent, m)
  /\ missed' = FALSE
  /\ UNCHANGED <<second, lines, decoded, rx, headless, whole, processed>>

\* The decoder prints a line for the frame of this period, which is decoded
\* more than once.
Line(o) ==
  /\ o \in place
  /\ second % Period >= DecodeAt /\ ~decoded
  /\ onAir # << >> /\ lines < MaxLines
  /\ rx' = ProcessDecodedLine(rx, Head(onAir), o)
  /\ lines' = lines + 1
  /\ UNCHANGED <<second, place, onAir, decoded, sent, missed, headless, whole,
                 processed>>

\* The decoder is done: frames that were cached more than a period ago are
\* forgotten.  A frame that was not decoded is missed.
DecodeDone ==
  /\ second % Period = Period - 1 /\ ~decoded
  /\ decoded' = TRUE
  /\ rx' = [rx EXCEPT !.cache = {c \in @ : c.age <= Period}]
  /\ missed' = (missed \/ (onAir # << >> /\ lines = 0))
  /\ headless' = (headless \/ (onAir # << >> /\ lines = 0 /\ Head(onAir).first))
  /\ whole' = IF onAir # << >> /\ Head(onAir).last /\ ~missed'
              THEN whole \cup {Len(sent)} ELSE whole
  /\ UNCHANGED <<second, place, onAir, lines, sent, processed>>

\* The decoder is done with a speed whose periods end at another time.
OtherDecodeDone ==
  /\ OtherActivity
  /\ rx' = [rx EXCEPT !.cache = {c \in @ : c.age <= Period}]
  /\ UNCHANGED <<second, place, onAir, lines, decoded, sent, missed, headless, whole,
                 processed>>

Older(a) == IF a < OldAge THEN a + 1 ELSE a
OlderEach(f) == [i \in DOMAIN f |-> [f[i] EXCEPT !.age = Older(@)]]
OlderBuffer(b) ==
  [cmd |-> [b.cmd EXCEPT !.age = Older(@)],
   compound |-> OlderEach(b.compound), msgs |-> OlderEach(b.msgs)]
OlderRx(r) ==
  [r EXCEPT
    !.buffers = [o \in DOMAIN @ |-> OlderBuffer(@[o])],
    !.band = OlderEach(@),
    !.cache = {[c EXCEPT !.age = Older(@)] : c \in @}]

ForceDirty(s) == s % (Period - 2) = 0 \/ s % Period = 0 \/ s % (Period + 2) = 0

\* The part of guiUpdate that runs once per second.
GuiSecond ==
  LET s == (second + 1) % Day
      r == OlderRx(rx)
      done == ProcessActivity(r)
  IN  /\ s % Period = 0 => decoded
      /\ second' = s
      /\ \/ /\ ForceDirty(s) \/ r.pending \/ OtherActivity
            /\ processed' = processed \o Taken(done.commands)
            /\ rx' = [done EXCEPT !.commands = << >>]
         \/ /\ ~(ForceDirty(s) \/ r.pending)
            /\ rx' = r /\ UNCHANGED processed
      /\ IF s % Period = 0
         THEN /\ lines' = 0 /\ decoded' = FALSE
              /\ onAir' = IF onAir = << >> THEN onAir ELSE Tail(onAir)
         ELSE UNCHANGED <<lines, decoded, onAir>>
      /\ UNCHANGED <<place, sent, missed, headless, whole>>

Next ==
  \/ \E m \in Messages : Send(m)
  \/ \E o \in Offsets : Line(o)
  \/ DecodeDone
  \/ OtherDecodeDone
  \/ GuiSecond

Spec == Init /\ [][Next]_vars

----------------------------------------------------------------------------
(* Properties                                                              *)

Calls == {"", "@HB", Partial} \cup UNION {{m.from, m.to} : m \in Messages}
Cmds == {m.cmd : m \in Messages} \cup {"none"}
CmdType == [from : Calls, to : Calls, cmd : Cmds, last : BOOLEAN, age : Ages]
CallType == [call : Calls, last : BOOLEAN, age : Ages]
TextType == [text : Texts, last : BOOLEAN, age : Ages]
BufferType == [cmd : CmdType, compound : Seq(CallType), msgs : Seq(TextType)]
CommandType == [from : Calls, to : Calls, cmd : Cmds, text : Seq(Texts)]

\* The type invariant: every field of processDecodedLine's and
\* processActivity's members holds a value of its type.
TypeOK ==
  /\ second \in 0..Day - 1 /\ lines \in 0..MaxLines /\ decoded \in BOOLEAN
  /\ place \in Places \cup {{}} /\ onAir \in Seq(Frames)
  /\ DOMAIN rx.buffers \subseteq Offsets /\ DOMAIN rx.band \subseteq Offsets
  /\ \A o \in DOMAIN rx.buffers : rx.buffers[o] \in BufferType
  /\ \A o \in DOMAIN rx.band : rx.band[o] \in [mfi : BOOLEAN, last : BOOLEAN, age : Ages]
  /\ \A c \in rx.cache : /\ c.offset \in Offsets /\ c.age \in Ages
                         /\ \E f \in Frames : f.key = c.key
  /\ rx.pending \in BOOLEAN /\ rx.commands \in Seq(CommandType)
  /\ sent \in Seq(Messages) /\ Len(sent) <= MaxMessages
  /\ missed \in BOOLEAN /\ headless \in BOOLEAN /\ whole \subseteq 1..Len(sent)
  /\ processed \in Seq(CommandType)

SameHeader(a, b) == a.from = b.from /\ a.to = b.to /\ a.cmd = b.cmd

\* The text of a command without the marks for missing frames.
Told(c) == Selected(c.text, {i \in DOMAIN c.text : c.text[i] # Mfi})

IsSubsequence(s, t) == \E f \in [DOMAIN s -> DOMAIN t] :
  \A i, j \in DOMAIN s : s[i] = t[f[i]] /\ (i < j => f[i] < f[j])

\* Provided no first frame is missed, every command that is acted upon was sent
\* as one message: its sender, recipient and command belong together and its
\* text is text of that message, in order and without repetition.  A buffer
\* left over by a message that was cut short (processDecodedLine) does not
\* lend its call or its text to the next one.
Faithful == ~headless => \A i \in DOMAIN processed : \E n \in DOMAIN sent :
  SameHeader(processed[i], sent[n]) /\ IsSubsequence(Told(processed[i]), sent[n].text)

\* No message is acted upon twice, whichever of its frames are missed, however
\* often the decoder prints them (m_messageDupeCache) and whether its buffer
\* is closed by a last frame or by the clock.
AtMostOnce ==
  Len(processed) <= Cardinality({n \in DOMAIN sent : IsCommandAllowed(sent[n].cmd)})

\* What the receiver makes of a message it has heard completely.  A command that
\* is not buffered is acted upon at once, before any text, unless a call comes
\* in a frame of its own: what is then buffered takes up the text as well.
Understood(m) ==
  ToCommand(m, IF ~IsCommandBuffered(m.cmd) /\ {m.from, m.to} \cap CompoundCalls = {}
               THEN << >> ELSE m.text)

\* A message all of whose frames were decoded has been acted upon, whole, by
\* the time the next period begins, whatever buffers earlier messages left
\* behind.
WholeIsProcessed == second % Period = 0 =>
  \A n \in whole : IsCommandAllowed(sent[n].cmd) =>
    Cardinality({k \in whole : sent[k] = sent[n]})
      <= Cardinality({i \in DOMAIN processed : processed[i] = Understood(sent[n])})

\* A buffer that gets no more frames is gone at the latest a period after the
\* 90 seconds of processBufferedActivity, so it cannot take up frames of a
\* later message nor keep automatic replies back (hasExistingMessageBufferToMe).
BuffersExpire ==
  \A o \in DOMAIN rx.buffers : Fresh(rx.buffers[o], DropAfter + Period)

\* What the comment over a buffered command says: when its frame has been
\* handled, any buffer that was near it has been merged into the one at its
\* offset, and none is left beside it to take up the frames that follow.
BuffersAreMerged == [][\A o \in Offsets :
  Line(o) /\ Head(onAir).key.type = "directed" /\ o \in DOMAIN rx'.buffers
    => Near(rx'.buffers, o) = {o}]_vars

\* A command whose text has a hole, frames missing between two that were
\* decoded, shows the missing frame indicator (processIdleActivity).
GapIsMarked == \A i \in DOMAIN processed : \A n \in DOMAIN sent :
  LET told == Told(processed[i])
  IN  SameHeader(processed[i], sent[n]) /\ told # << >> /\ ~IsPrefix(told, sent[n].text)
        => Mfi \in ToSet(processed[i].text)
=============================================================================
