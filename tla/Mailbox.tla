------------------------------- MODULE Mailbox -------------------------------
(***************************************************************************)
(* Messages left for others.  A station that is asked to keeps a message   *)
(* for a third one, tells that one of it when it answers a heartbeat or a  *)
(* query, and hands the message out when asked for it by number.  All of   *)
(* it goes through processCommandActivity of each station, and may be      *)
(* relayed by others.  What is sent may not be heard; what is heard whole  *)
(* is what RxAssembly makes of it.  Call signs are plain ones.             *)
(***************************************************************************)
EXTENDS Integers, SequencesExt

CONSTANTS
  Stations,   \* all run js8call
  Authors, Stores, Readers,  \* whose operators leave, keep and ask for messages
  Relays,     \* by way of whom, if not directly
  All,        \* the call sign @ALLCALL
  MaxMoves,   \* bound: what the operators do
  MaxQueue,   \* bound: replies waiting at a station
  MaxTexts    \* bound: messages written

ASSUME MailboxAssumption ==
  /\ Authors \subseteq Stations /\ Stores \subseteq Stations
  /\ Readers \subseteq Stations /\ Relays \subseteq Stations
  /\ All \notin Stations
  /\ MaxMoves \in Nat /\ MaxQueue \in Nat /\ MaxTexts \in Nat

VARIABLES
  inbox,    \* the table inbox_v1 of each station; the index is the id
  out,      \* m_txMessageQueue of each station
  meant,    \* history: for whom each text was written
  offers,   \* history: messages that were offered, and whether they had been handed out
  taken,    \* history: messages that were handed out
  moves     \* history: what the operators have done so far

vars == <<inbox, out, meant, offers, taken, moves>>

Texts == 1..MaxTexts

\* A row: its type, "none" once deleted, and TO, FROM and TEXT of the message;
\* de are the stations named by *DE* in the text.
Row == [type : {"STORE", "DELIVERED", "UNREAD", "READ", "none"},
        from : Stations, to : Stations, text : Texts, de : Seq(Stations)]

\* What is sent.  With a route it is a relay command (>), and the rest of it
\* the text; de are the stations it has come through, the first one first.
Commands == {"MSG", "MSG TO:", "QUERY MSG", "QUERY MSGS", "HB", "SNR?",
             "HEARTBEAT SNR", "SNR", "ACK", "YES", "NO"}
Packet == [src : Stations, dst : Stations \cup {All}, route : Seq(Stations),
           cmd : Commands, id : Nat, text : Texts \cup {0},
           to : Stations \cup {All}, de : Seq(Stations)]

\* the commands in autoreply_cmds
Autoreply == {"MSG", "MSG TO:", "QUERY MSG", "QUERY MSGS", "SNR?"}

Init ==
  /\ inbox = [s \in Stations |-> <<>>] /\ out = [s \in Stations |-> <<>>]
  /\ meant = <<>> /\ offers = {} /\ taken = {} /\ moves = 0

-----------------------------------------------------------------------------
(* What a station does with a command.                                     *)

\* parseRelayPathCallsigns: the way back, the nearest station first
Path(p) == <<p.src>> \o Reverse(p.de)

\* the station that asks, the last of the path
Origin(p) == IF p.de = <<>> THEN p.src ELSE p.de[1]

\* getNextMessageIdForCallsign, -1 being 0
Waiting(s, call) == {n \in 1..Len(inbox[s]) : /\ inbox[s][n].type = "STORE"
                                             /\ inbox[s][n].to = call}
NextMessageId(s, call) ==
  LET w == Waiting(s, call) IN
  IF w = {} THEN 0 ELSE CHOOSE n \in w : \A k \in w : n <= k

\* The message that is handed out: only to the station it is for.
\* Variant: to any station that has the number.
Retrieved_Anyone(s, p) == p.cmd = "QUERY MSG" /\ p.route = <<>> /\ p.id \in 1..Len(inbox[s])
                            /\ inbox[s][p.id].type # "none"

Retrieved(s, p) ==
  /\ p.cmd = "QUERY MSG" /\ p.route = <<>> /\ p.id \in 1..Len(inbox[s])
  /\ inbox[s][p.id].type # "none" /\ inbox[s][p.id].to = Origin(p)

\* addCommandToStorage; the table is AUTOINCREMENT.
\* Variant: the number of a row deleted last is used again.
AddToStorage_Reused(s, row) ==
  IF inbox[s] # <<>> /\ Last(inbox[s]).type = "none"
  THEN Append(Front(inbox[s]), row)
  ELSE Append(inbox[s], row)

AddToStorage(s, row) == Append(inbox[s], row)

\* The row of a message: for this station, or kept for another.
\* Variant: TO is taken from MSG TO: whatever the command.
Stored_To(s, p) ==
  [type |-> IF p.cmd = "MSG" THEN "UNREAD" ELSE "STORE",
   from |-> p.src, to |-> p.to, text |-> p.text, de |-> p.de]

Stored(s, p) ==
  [type |-> IF p.cmd = "MSG" THEN "UNREAD" ELSE "STORE",
   from |-> p.src, to |-> IF p.cmd = "MSG" THEN s ELSE p.to, text |-> p.text, de |-> p.de]

\* The table after command p has been processed.
\* Variant: what is handed out is not marked.
Rows_Unmarked(s, p) ==
  IF p.route = <<>> /\ p.cmd \in {"MSG", "MSG TO:"} THEN AddToStorage(s, Stored(s, p))
  ELSE inbox[s]

Rows(s, p) ==
  IF p.route = <<>> /\ p.cmd \in {"MSG", "MSG TO:"} THEN AddToStorage(s, Stored(s, p))
  ELSE IF Retrieved(s, p) THEN [inbox[s] EXCEPT ![p.id].type = "DELIVERED"]
  ELSE inbox[s]

\* What is sent back along path.
Back(s, path, cmd) ==
  [src |-> s, dst |-> Head(path), route |-> Tail(path), cmd |-> cmd, id |-> 0,
   text |-> 0, to |-> All, de |-> <<>>]

\* The message in row n of s, for the station that asks.
Message(s, p) ==
  LET row == inbox[s][p.id]
  IN  [Back(s, Path(p), "MSG") EXCEPT !.text = row.text, !.de = row.de]

\* the relay command: the next hop
Forward(s, p) ==
  [p EXCEPT !.src = s, !.dst = Head(p.route), !.route = Tail(p.route),
            !.de = Append(p.de, p.src)]

\* The reply to a command, if there is one.  A command that was relayed and is
\* not of those that are answered is acknowledged, unless it is an ACK itself.
\* Variant: any command that was relayed is acknowledged.
Acknowledged_All(p) == p.cmd \in {"MSG", "MSG TO:"} \/ (p.cmd \notin Autoreply /\ p.de # <<>>)

Acknowledged(p) == \/ p.cmd \in {"MSG", "MSG TO:"}
                   \/ p.cmd \notin Autoreply \cup {"ACK", "HB"} /\ p.de # <<>>

Reply(s, p) ==
  IF p.route # <<>> THEN {Forward(s, p)}
  ELSE IF Acknowledged(p) THEN {Back(s, Path(p), "ACK")}
  ELSE IF p.cmd = "SNR?" THEN {Back(s, Path(p), "SNR")}
  ELSE IF Retrieved(s, p) THEN {Message(s, p)}
  ELSE IF p.cmd = "HB"
  THEN {[Back(s, <<p.src>>, "HEARTBEAT SNR") EXCEPT !.id = NextMessageId(s, p.src)]}
  ELSE IF p.cmd = "QUERY MSGS"
  THEN LET n == NextMessageId(s, Origin(p))
       IN  IF n # 0 THEN {[Back(s, Path(p), "YES") EXCEPT !.id = n]}
           ELSE IF p.dst = All THEN {} ELSE {Back(s, Path(p), "NO")}
  ELSE {}

\* The offer in the reply, if there is one.
Offers(s, p) ==
  {[store |-> s, id |-> r.id, text |-> inbox[s][r.id].text, late |-> <<s, r.id>> \in taken] :
     r \in {r \in Reply(s, p) : p.route = <<>> /\ r.cmd \in {"YES", "HEARTBEAT SNR"} /\ r.id # 0}}

\* The first reply in the queue of s goes out.  Those in heard hear it whole;
\* those in answer queue their reply: no text is in their window, no buffer
\* open, autoreply on, and the operator, if asked, says yes.
Transmit(s) ==
  /\ out[s] # <<>>
  /\ LET p == Head(out[s])
         hearers == (IF p.dst = All THEN Stations ELSE {p.dst}) \ {s}
     IN  \E heard \in SUBSET hearers : \E answer \in SUBSET heard :
           /\ \A r \in answer : Reply(r, p) # {} /\ Len(out[r]) < MaxQueue
           /\ inbox' = [r \in Stations |-> IF r \in heard THEN Rows(r, p) ELSE inbox[r]]
           /\ out' = [r \in Stations |->
                        IF r = s THEN Tail(out[s])
                        ELSE IF r \in answer
                        THEN Append(out[r], CHOOSE q \in Reply(r, p) : TRUE)
                        ELSE out[r]]
           /\ offers' = offers \cup UNION {Offers(r, p) : r \in answer}
           /\ taken' = taken \cup {<<r, p.id>> : r \in {q \in heard : Retrieved(q, p)}}
  /\ UNCHANGED <<meant, moves>>

-----------------------------------------------------------------------------
(* The operators.                                                          *)

Routes == {<<>>} \cup {<<r>> : r \in Relays}

\* Operator of s sends cmd to a station, directly or by way of another.
Send(s, to, via, fields) ==
  LET hops == via \o <<to>>
      p == [src |-> s, dst |-> Head(hops), route |-> Tail(hops), cmd |-> fields.cmd,
            id |-> fields.id, text |-> fields.text, to |-> fields.to, de |-> <<>>]
  IN  /\ s # to /\ s # p.dst /\ (via # <<>> => via[1] # to)
      /\ moves < MaxMoves /\ moves' = moves + 1
      /\ Len(out[s]) < MaxQueue /\ out' = [out EXCEPT ![s] = Append(@, p)]

\* MSG TO: and MSG
Leave(s, store, reader, via) ==
  /\ Len(meant) < MaxTexts /\ reader # s /\ reader # store
  /\ meant' = Append(meant, reader)
  /\ Send(s, store, via, [cmd |-> "MSG TO:", id |-> 0, text |-> Len(meant) + 1, to |-> reader])
  /\ UNCHANGED <<inbox, offers, taken>>

Write(s, reader, via) ==
  /\ Len(meant) < MaxTexts
  /\ meant' = Append(meant, reader)
  /\ Send(s, reader, via, [cmd |-> "MSG", id |-> 0, text |-> Len(meant) + 1, to |-> All])
  /\ UNCHANGED <<inbox, offers, taken>>

\* A heartbeat, or QUERY MSGS to all
Call(s, cmd) ==
  /\ Send(s, All, <<>>, [cmd |-> cmd, id |-> 0, text |-> 0, to |-> All])
  /\ UNCHANGED <<inbox, meant, offers, taken>>

\* QUERY MSGS and SNR?, and QUERY MSG with any number
Ask(s, store, via, cmd) ==
  /\ Send(s, store, via, [cmd |-> cmd, id |-> 0, text |-> 0, to |-> All])
  /\ UNCHANGED <<inbox, meant, offers, taken>>

Fetch(s, store, via, n) ==
  /\ Send(s, store, via, [cmd |-> "QUERY MSG", id |-> n, text |-> 0, to |-> All])
  /\ UNCHANGED <<inbox, meant, offers, taken>>

\* deleteMessage of the inbox window
Delete(s, n) ==
  /\ moves < MaxMoves /\ moves' = moves + 1
  /\ inbox[s][n].type # "none"
  /\ inbox' = [inbox EXCEPT ![s][n].type = "none"]
  /\ UNCHANGED <<out, meant, offers, taken>>

\* Show Message Inbox: what was unread is read
ShowInbox(s) ==
  /\ \E n \in 1..Len(inbox[s]) : inbox[s][n].type = "UNREAD"
  /\ inbox' = [inbox EXCEPT ![s] =
                 [n \in 1..Len(inbox[s]) |->
                    IF inbox[s][n].type = "UNREAD" THEN [inbox[s][n] EXCEPT !.type = "READ"]
                    ELSE inbox[s][n]]]
  /\ UNCHANGED <<out, meant, offers, taken, moves>>

-----------------------------------------------------------------------------
Operator ==
  \/ \E s \in Authors, via \in Routes :
       \/ \E reader \in Stations : Write(s, reader, via)
       \/ \E store \in Stores, reader \in Readers : Leave(s, store, reader, via)
  \/ \E s \in Readers :
       \/ \E cmd \in {"HB", "QUERY MSGS"} : Call(s, cmd)
       \/ \E store \in Stores, via \in Routes :
            \/ \E cmd \in {"QUERY MSGS", "SNR?"} : Ask(s, store, via, cmd)
            \/ \E n \in Texts : Fetch(s, store, via, n)
       \/ ShowInbox(s)
  \/ \E s \in Stores : \E n \in 1..Len(inbox[s]) : Delete(s, n)

Next == Operator \/ \E s \in Stations : Transmit(s)

Spec == Init /\ [][Next]_vars

\* Every station sends what waits; nobody has to hear it.
FairSpec == Spec /\ \A s \in Stations : WF_vars(Transmit(s))

-----------------------------------------------------------------------------
(* Properties.                                                             *)

\* The type invariant.
TypeOK ==
  /\ inbox \in [Stations -> Seq(Row)] /\ out \in [Stations -> Seq(Packet)]
  /\ meant \in Seq(Stations) /\ moves \in Nat
  /\ taken \subseteq Stations \X Nat
  /\ \A o \in offers : o.store \in Stations /\ o.text \in Texts /\ o.late \in BOOLEAN

\* A message reaches nobody but the station it was written for: whoever kept it,
\* asked for it under whatever number, or relayed the question or the answer,
\* what is in a station's own inbox was meant for it.
Private ==
  \A s \in Stations : \A n \in 1..Len(inbox[s]) :
    inbox[s][n].type \in {"UNREAD", "READ"} => meant[inbox[s][n].text] = s

\* A number that was offered stands for that message, or for none: deleting
\* messages in the meantime does not make it stand for another.
OfferHonoured ==
  \A o \in offers : \/ inbox[o.store][o.id].type = "none"
                    \/ inbox[o.store][o.id].text = o.text

\* "mark as delivered (so subsequent HBs and QUERY MSGS don't receive this
\* message)": a message that was handed out is not offered again.
NotOfferedAgain == \A o \in offers : ~o.late

\* The stations fall silent when the operators do: no replies to replies go on
\* for ever, relayed or not.
Quiet == <>[](\A s \in Stations : out[s] = <<>>)
=============================================================================
