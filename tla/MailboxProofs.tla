---------------------------- MODULE MailboxProofs ----------------------------
(***************************************************************************)
(* Proofs about Mailbox: messages reach only those they were written for,  *)
(* and what is offered is what is there, for all stations and relays.      *)
(***************************************************************************)
EXTENDS Mailbox, SequenceTheorems, WellFoundedInduction, TLAPS

-----------------------------------------------------------------------------
(* The inductive invariant.                                                *)

\* Where the packet is to arrive.
Final(p) == IF p.route = <<>> THEN p.dst ELSE p.route[Len(p.route)]

\* A text on its way was written for the station it is going to; w is meant.
GoodPacket(p, w) ==
  /\ p.cmd = "MSG" => p.text \in 1..Len(w) /\ w[p.text] = Final(p)
  /\ p.cmd = "MSG TO:" => p.text \in 1..Len(w) /\ w[p.text] = p.to

\* A row of station s is for the station its text was written for.
GoodRow(s, row, w) ==
  /\ row.text \in 1..Len(w) /\ w[row.text] = row.to
  /\ row.type \in {"UNREAD", "READ"} => row.to = s

GoodRows(s, rows, w) == \A n \in 1..Len(rows) : GoodRow(s, rows[n], w)
GoodPackets(q, w)    == \A n \in 1..Len(q) : GoodPacket(q[n], w)

\* What a table may become: rows are added, texts stay, and a row that was
\* handed out or deleted is not offered again.
Later(new, old) ==
  /\ Len(new) >= Len(old)
  /\ \A n \in 1..Len(old) :
       /\ new[n].text = old[n].text
       /\ old[n].type = "none" => new[n].type = "none"
       /\ old[n].type \in {"DELIVERED", "none"} => new[n].type \in {"DELIVERED", "none"}

GoodOffer(o) ==
  /\ o.store \in Stations /\ o.id \in 1..Len(inbox[o.store]) /\ o.text \in Texts
  /\ o.late \in BOOLEAN /\ ~o.late
  /\ inbox[o.store][o.id].type = "none" \/ inbox[o.store][o.id].text = o.text

GoodTaken(x) ==
  /\ x \in Stations \X Nat /\ x[2] \in 1..Len(inbox[x[1]])
  /\ inbox[x[1]][x[2]].type \in {"DELIVERED", "none"}

Shape ==
  /\ inbox \in [Stations -> Seq(Row)] /\ out \in [Stations -> Seq(Packet)]
  /\ meant \in Seq(Stations) /\ Len(meant) <= MaxTexts /\ moves \in Nat

IInv ==
  /\ Shape
  /\ \A s \in Stations : GoodRows(s, inbox[s], meant)
  /\ \A s \in Stations : GoodPackets(out[s], meant)
  /\ \A o \in offers : GoodOffer(o)
  /\ \A x \in taken : GoodTaken(x)

-----------------------------------------------------------------------------
(* Writing another message changes nothing about those before it.          *)

LEMMA Longer ==
  ASSUME NEW w \in Seq(Stations), NEW x \in Stations
  PROVE  /\ Append(w, x) \in Seq(Stations) /\ Len(Append(w, x)) = Len(w) + 1
         /\ Append(w, x)[Len(w) + 1] = x
         /\ \A p : GoodPacket(p, w) => GoodPacket(p, Append(w, x))
         /\ \A s, row : GoodRow(s, row, w) => GoodRow(s, row, Append(w, x))
<1>1. /\ Append(w, x) \in Seq(Stations) /\ Len(Append(w, x)) = Len(w) + 1
      /\ \A i \in 1..Len(w) : Append(w, x)[i] = w[i]
      /\ Append(w, x)[Len(w) + 1] = x
  BY AppendProperties
<1>2. Len(w) \in Nat  BY LenProperties
<1>3. \A t \in 1..Len(w) : t \in 1..Len(Append(w, x))  BY <1>1, <1>2
<1> QED BY <1>1, <1>3 DEF GoodPacket, GoodRow

LEMMA QueueLonger ==
  ASSUME NEW w, NEW q \in Seq(Packet), NEW p \in Packet, GoodPackets(q, w), GoodPacket(p, w)
  PROVE  Append(q, p) \in Seq(Packet) /\ GoodPackets(Append(q, p), w)
<1>1. /\ Append(q, p) \in Seq(Packet) /\ Len(Append(q, p)) = Len(q) + 1
      /\ \A i \in 1..Len(q) : Append(q, p)[i] = q[i]
      /\ Append(q, p)[Len(q) + 1] = p
  BY AppendProperties
<1>2. Len(q) \in Nat  BY LenProperties
<1>3. ASSUME NEW n \in 1..Len(Append(q, p)) PROVE GoodPacket(Append(q, p)[n], w)
  <2>1. CASE n \in 1..Len(q)  BY <2>1, <1>1 DEF GoodPackets
  <2>2. CASE n = Len(q) + 1  BY <2>2, <1>1
  <2> QED BY <2>1, <2>2, <1>1, <1>2
<1> QED BY <1>1, <1>3 DEF GoodPackets

LEMMA QueueShorter ==
  ASSUME NEW w, NEW q \in Seq(Packet), q # <<>>, GoodPackets(q, w)
  PROVE  /\ Tail(q) \in Seq(Packet) /\ GoodPackets(Tail(q), w)
         /\ Head(q) \in Packet /\ GoodPacket(Head(q), w)
<1>1. /\ Tail(q) \in Seq(Packet) /\ Len(Tail(q)) = Len(q) - 1 /\ Head(q) \in Packet
      /\ \A i \in 1..Len(Tail(q)) : Tail(q)[i] = q[i + 1]
  BY HeadTailProperties
<1>2. Len(q) \in Nat \ {0} /\ Head(q) = q[1]  BY EmptySeq
<1>3. ASSUME NEW n \in 1..Len(Tail(q)) PROVE GoodPacket(Tail(q)[n], w)
  <2>1. n + 1 \in 1..Len(q)  BY <1>1, <1>2
  <2> QED BY <2>1, <1>1 DEF GoodPackets
<1>4. 1 \in 1..Len(q)  BY <1>2
<1> QED BY <1>1, <1>2, <1>3, <1>4 DEF GoodPackets

-----------------------------------------------------------------------------
(* Offers, and what was handed out, as the tables change.                  *)

LEMMA OffersStay ==
  ASSUME IInv, inbox' \in [Stations -> Seq(Row)],
         \A s \in Stations : Later(inbox'[s], inbox[s])
  PROVE  /\ \A o \in offers : GoodOffer(o)'
         /\ \A x \in taken : GoodTaken(x)'
<1>1. \A s \in Stations : Len(inbox[s]) \in Nat /\ Len(inbox'[s]) \in Nat
  BY LenProperties DEF IInv, Shape
<1>2. ASSUME NEW s \in Stations, NEW n \in 1..Len(inbox[s]) PROVE n \in 1..Len(inbox'[s])
  BY <1>1 DEF Later
<1>3. ASSUME NEW o \in offers PROVE GoodOffer(o)'
  <2>1. GoodOffer(o)  BY DEF IInv
  <2>2. /\ inbox'[o.store][o.id].text = inbox[o.store][o.id].text
        /\ inbox[o.store][o.id].type = "none" => inbox'[o.store][o.id].type = "none"
    BY <2>1 DEF GoodOffer, Later
  <2> QED BY <2>1, <2>2, <1>2 DEF GoodOffer
<1>4. ASSUME NEW x \in taken PROVE GoodTaken(x)'
  <2>1. GoodTaken(x) /\ x[1] \in Stations  BY DEF IInv, GoodTaken
  <2>2. inbox'[x[1]][x[2]].type \in {"DELIVERED", "none"}
    BY <2>1 DEF GoodTaken, Later
  <2> QED BY <2>1, <2>2, <1>2 DEF GoodTaken
<1> QED BY <1>3, <1>4

-----------------------------------------------------------------------------
(* What a station does with a packet it has heard.                         *)

\* s is one of those the packet p was sent to.
Hears(s, p) == s \in Stations /\ (p.dst = s \/ p.dst = All)

\* The way back leads to the station that asked.
LEMMA PathBack ==
  ASSUME NEW p \in Packet
  PROVE  /\ Path(p) \in Seq(Stations) /\ Path(p) # <<>> /\ Len(Path(p)) \in Nat \ {0}
         /\ Path(p)[Len(Path(p))] = Origin(p) /\ Origin(p) \in Stations
<1>1. p.src \in Stations /\ p.de \in Seq(Stations) /\ Len(p.de) \in Nat
  BY LenProperties DEF Packet
<1> DEFINE r == [i \in 1..Len(p.de) |-> p.de[(Len(p.de) - i) + 1]]
<1>2. \A i \in 1..Len(p.de) : (Len(p.de) - i) + 1 \in 1..Len(p.de)  BY <1>1
<1>3. \A i \in 1..Len(p.de) : p.de[(Len(p.de) - i) + 1] \in Stations
  BY <1>1, <1>2, ElementOfSeq
<1>4. r \in Seq(Stations) /\ Len(r) = Len(p.de)
  BY <1>1, <1>3
<1>5. <<p.src>> \in Seq(Stations) /\ Len(<<p.src>>) = 1 /\ <<p.src>>[1] = p.src
  BY <1>1
<1>6. Path(p) = <<p.src>> \o r  BY DEF Path, Reverse
<1> HIDE DEF r
<1>7. /\ Path(p) \in Seq(Stations) /\ Len(Path(p)) = 1 + Len(r)
      /\ \A i \in 1..1 + Len(r) : Path(p)[i] = IF i <= 1 THEN <<p.src>>[i] ELSE r[i - 1]
  BY <1>4, <1>5, <1>6, ConcatProperties
<1>8. CASE p.de = <<>>
  <2>1. Len(p.de) = 0  BY <1>8
  <2> QED BY <1>1, <1>4, <1>5, <1>7, <1>8, <2>1 DEF Origin
<1>9. CASE p.de # <<>>
  <2>1. Len(p.de) > 0 /\ p.de[1] \in Stations  BY <1>1, <1>9, EmptySeq, ElementOfSeq
  <2>2. r[Len(r)] = p.de[1]  BY <1>1, <1>4, <2>1 DEF r
  <2>3. Path(p)[1 + Len(r)] = r[Len(r)]  BY <1>1, <1>4, <1>7, <2>1
  <2> QED BY <1>1, <1>4, <1>7, <1>9, <2>1, <2>2, <2>3 DEF Origin
<1> QED BY <1>8, <1>9

\* A reply to a station is a packet for the station that asked.
LEMMA BackGoes ==
  ASSUME NEW p \in Packet, NEW s \in Stations, NEW c \in Commands
  PROVE  Back(s, Path(p), c) \in Packet /\ Final(Back(s, Path(p), c)) = Origin(p)
<1> DEFINE q == Path(p)
<1>1. q \in Seq(Stations) /\ q # <<>> /\ Len(q) \in Nat \ {0} /\ q[Len(q)] = Origin(p)
  BY PathBack
<1> HIDE DEF q
<1>2. /\ Head(q) \in Stations /\ Tail(q) \in Seq(Stations) /\ Len(Tail(q)) = Len(q) - 1
      /\ Head(q) = q[1]
      /\ \A i \in 1..Len(Tail(q)) : Tail(q)[i] = q[i + 1]
  BY <1>1, HeadTailProperties
<1>3. <<>> \in Seq(Stations)  OBVIOUS
<1>4. Back(s, q, c) \in Packet  BY <1>2, <1>3 DEF Back, Packet
<1>5. Final(Back(s, q, c)) = IF Tail(q) = <<>> THEN Head(q) ELSE Tail(q)[Len(Tail(q))]
  BY DEF Back, Final
<1>6. CASE Tail(q) = <<>>
  <2>1. Len(Tail(q)) = 0  BY <1>6, EmptySeq
  <2> QED BY <1>1, <1>2, <1>4, <1>5, <1>6, <2>1 DEF q
<1>7. CASE Tail(q) # <<>>
  <2>1. Len(Tail(q)) > 0  BY <1>2, <1>7, EmptySeq
  <2> QED BY <1>1, <1>2, <1>4, <1>5, <1>7, <2>1 DEF q
<1> QED BY <1>6, <1>7

\* What is handed out is for the station that asked.
LEMMA MessageGoes ==
  ASSUME IInv, NEW s \in Stations, NEW p \in Packet, Retrieved(s, p)
  PROVE  Message(s, p) \in Packet /\ GoodPacket(Message(s, p), meant)
<1> DEFINE row == inbox[s][p.id]  b == Back(s, Path(p), "MSG")
           q == [b EXCEPT !.text = row.text, !.de = row.de]
<1>1. inbox[s] \in Seq(Row) /\ p.id \in 1..Len(inbox[s]) /\ row.to = Origin(p)
  BY DEF IInv, Shape, Retrieved
<1>2. row \in Row /\ GoodRow(s, row, meant)
  BY <1>1, ElementOfSeq DEF IInv, GoodRows
<1>3. row.text \in Texts /\ row.de \in Seq(Stations)  BY <1>2 DEF Row
<1>4. b \in Packet /\ Final(b) = Origin(p)  BY BackGoes DEF Commands
<1>5. b.cmd = "MSG"  BY DEF Back
<1>6. Message(s, p) = q  BY DEF Message
<1> HIDE DEF row, b
<1>7. /\ q \in Packet /\ q.cmd = b.cmd /\ q.text = row.text /\ q.route = b.route
      /\ q.dst = b.dst
  BY <1>3, <1>4 DEF Packet
<1>8. Final(q) = Final(b)  BY <1>7 DEF Final
<1> HIDE DEF q
<1>9. GoodPacket(q, meant)
  BY <1>1, <1>2, <1>4, <1>5, <1>7, <1>8 DEF GoodPacket, GoodRow
<1> QED BY <1>6, <1>7, <1>9

\* What is relayed goes where it was going.
LEMMA ForwardGoes ==
  ASSUME NEW s \in Stations, NEW p \in Packet, p.route # <<>>, NEW w, GoodPacket(p, w)
  PROVE  Forward(s, p) \in Packet /\ GoodPacket(Forward(s, p), w)
<1> DEFINE q == Forward(s, p)
<1>1. p.route \in Seq(Stations) /\ Len(p.route) \in Nat \ {0} /\ p.de \in Seq(Stations)
      /\ p.src \in Stations
  BY EmptySeq DEF Packet
<1>2. /\ Head(p.route) \in Stations /\ Tail(p.route) \in Seq(Stations)
      /\ Len(Tail(p.route)) = Len(p.route) - 1 /\ Head(p.route) = p.route[1]
      /\ \A i \in 1..Len(Tail(p.route)) : Tail(p.route)[i] = p.route[i + 1]
  BY <1>1, HeadTailProperties
<1>3. Append(p.de, p.src) \in Seq(Stations)  BY <1>1, AppendProperties
<1>4. /\ q \in Packet /\ q.cmd = p.cmd /\ q.text = p.text /\ q.to = p.to
      /\ q.dst = Head(p.route) /\ q.route = Tail(p.route)
  BY <1>2, <1>3 DEF Forward, Packet
<1> HIDE DEF q
<1>5. Final(q) = Final(p)
  <2>1. CASE Tail(p.route) = <<>>
    <3>1. Len(Tail(p.route)) = 0  BY <2>1, EmptySeq
    <3> QED BY <1>1, <1>2, <1>4, <2>1, <3>1 DEF Final
  <2>2. CASE Tail(p.route) # <<>>
    <3>1. Len(Tail(p.route)) > 0  BY <1>2, <2>2, EmptySeq
    <3> QED BY <1>1, <1>2, <1>4, <2>2, <3>1 DEF Final
  <2> QED BY <2>1, <2>2
<1>6. GoodPacket(q, w)  BY <1>4, <1>5 DEF GoodPacket
<1> QED BY <1>4, <1>6 DEF q

\* The lowest number of a waiting message is one of a waiting message.
LEMMA NextWaiting ==
  ASSUME NEW s, NEW c, Len(inbox[s]) \in Nat
  PROVE  NextMessageId(s, c) \in {0} \cup Waiting(s, c)
<1> DEFINE w == Waiting(s, c)
<1>1. w \subseteq Nat  BY DEF Waiting
<1>2. CASE w = {}  BY <1>2 DEF NextMessageId
<1>3. CASE w # {}
  <2>1. PICK n \in w : \A m \in w : ~(<<m, n>> \in OpToRel(<, Nat))
    BY <1>1, <1>3, WFMin, NatLessThanWellFounded
  <2>2. ASSUME NEW m \in w PROVE n <= m
    <3>1. m \in Nat /\ n \in Nat /\ <<m, n>> \in Nat \X Nat  BY <1>1
    <3>2. m < n => <<m, n>> \in OpToRel(<, Nat)
      BY <3>1, Zenon DEF OpToRel
    <3>3. ~(m < n)  BY <2>1, <3>2, Zenon
    <3> QED BY <3>1, <3>3
  <2>3. \E k \in w : \A m \in w : k <= m  BY <2>2
  <2> HIDE DEF w
  <2>4. (CHOOSE k \in w : \A m \in w : k <= m) \in w  BY <2>3
  <2>5. NextMessageId(s, c) = CHOOSE k \in w : \A m \in w : k <= m
    BY <1>3 DEF NextMessageId, w
  <2> QED BY <2>4, <2>5 DEF w
<1> QED BY <1>2, <1>3

\* A row that waits is a message that has not been handed out.
LEMMA WaitingRow ==
  ASSUME IInv, NEW s \in Stations, NEW c
  PROVE  LET n == NextMessageId(s, c)
         IN  n # 0 => /\ n \in 1..Len(inbox[s]) /\ inbox[s][n] \in Row
                      /\ inbox[s][n].type = "STORE" /\ <<s, n>> \notin taken
<1> DEFINE n == NextMessageId(s, c)
<1>1. inbox[s] \in Seq(Row) /\ Len(inbox[s]) \in Nat  BY LenProperties DEF IInv, Shape
<1>2. n \in {0} \cup Waiting(s, c)  BY <1>1, NextWaiting
<1> HIDE DEF n
<1>3. SUFFICES ASSUME n # 0
               PROVE  /\ n \in 1..Len(inbox[s]) /\ inbox[s][n] \in Row
                      /\ inbox[s][n].type = "STORE" /\ <<s, n>> \notin taken
  BY DEF n
<1>4. n \in 1..Len(inbox[s]) /\ inbox[s][n].type = "STORE"  BY <1>2, <1>3 DEF Waiting
<1>5. <<s, n>> \notin taken
  <2>1. SUFFICES ASSUME <<s, n>> \in taken PROVE FALSE  OBVIOUS
  <2>2. GoodTaken(<<s, n>>)  BY <2>1 DEF IInv
  <2> QED BY <2>2, <1>4 DEF GoodTaken
<1> QED BY <1>1, <1>4, <1>5, ElementOfSeq

\* A row that is added.
LEMMA Added ==
  ASSUME NEW s \in Stations, NEW rows \in Seq(Row), NEW row \in Row, NEW w,
         GoodRows(s, rows, w), GoodRow(s, row, w)
  PROVE  /\ Append(rows, row) \in Seq(Row) /\ GoodRows(s, Append(rows, row), w)
         /\ Later(Append(rows, row), rows)
<1>1. /\ Append(rows, row) \in Seq(Row) /\ Len(Append(rows, row)) = Len(rows) + 1
      /\ \A i \in 1..Len(rows) : Append(rows, row)[i] = rows[i]
      /\ Append(rows, row)[Len(rows) + 1] = row
  BY AppendProperties
<1>2. Len(rows) \in Nat  BY LenProperties
<1>3. ASSUME NEW n \in 1..Len(Append(rows, row)) PROVE GoodRow(s, Append(rows, row)[n], w)
  <2>1. CASE n \in 1..Len(rows)  BY <2>1, <1>1 DEF GoodRows
  <2>2. CASE n = Len(rows) + 1  BY <2>2, <1>1
  <2> QED BY <2>1, <2>2, <1>1, <1>2
<1> QED BY <1>1, <1>2, <1>3 DEF GoodRows, Later

\* A row that gets another type, not one to be offered; and not one to be read
\* if the message is for another.
LEMMA Marked ==
  ASSUME NEW s \in Stations, NEW rows \in Seq(Row), NEW w, GoodRows(s, rows, w),
         NEW k \in 1..Len(rows), NEW e \in Row,
         e.text = rows[k].text, e.to = rows[k].to, e.type \in {"DELIVERED", "none"},
         rows[k].type # "none" \/ e.type = "none"
  PROVE  /\ [rows EXCEPT ![k] = e] \in Seq(Row)
         /\ GoodRows(s, [rows EXCEPT ![k] = e], w) /\ Later([rows EXCEPT ![k] = e], rows)
         /\ [rows EXCEPT ![k] = e][k] = e
<1> DEFINE new == [rows EXCEPT ![k] = e]
<1>1. /\ new \in Seq(Row) /\ Len(new) = Len(rows)
      /\ \A j \in 1..Len(rows) : new[j] = IF j = k THEN e ELSE rows[j]
  BY ExceptSeq
<1> HIDE DEF new
<1>2. Len(rows) \in Nat  BY LenProperties
<1>3. GoodRow(s, e, w)  BY DEF GoodRows, GoodRow
<1>4. GoodRows(s, new, w)  BY <1>1, <1>3 DEF GoodRows
<1>5. Later(new, rows)  BY <1>1, <1>2 DEF Later
<1> QED BY <1>1, <1>4, <1>5 DEF new

\* The table after a packet that was heard.
LEMMA RowsGood ==
  ASSUME IInv, NEW s, NEW p \in Packet, Hears(s, p), GoodPacket(p, meant)
  PROVE  /\ Rows(s, p) \in Seq(Row) /\ GoodRows(s, Rows(s, p), meant)
         /\ Later(Rows(s, p), inbox[s])
         /\ Retrieved(s, p) => Rows(s, p)[p.id].type = "DELIVERED"
<1>1. s \in Stations /\ inbox[s] \in Seq(Row) /\ GoodRows(s, inbox[s], meant)
      /\ meant \in Seq(Stations) /\ Len(meant) \in Nat /\ Len(meant) <= MaxTexts
  BY LenProperties DEF IInv, Shape, Hears
<1>2. CASE p.route = <<>> /\ p.cmd \in {"MSG", "MSG TO:"}
  <2>1. p.text \in 1..Len(meant) /\ meant[p.text] \in Stations
    BY <1>1, <1>2, ElementOfSeq DEF GoodPacket
  <2>2. p.text \in Texts /\ p.src \in Stations /\ p.de \in Seq(Stations)
    BY <1>1, <2>1, MailboxAssumption DEF Texts, Packet
  <2>3. CASE p.cmd = "MSG"
    <3>1. meant[p.text] = p.dst  BY <1>2, <2>3 DEF GoodPacket, Final
    <3>2. p.dst = s  BY <2>1, <3>1, MailboxAssumption DEF Hears
    <3>3. Stored(s, p) \in Row /\ GoodRow(s, Stored(s, p), meant)
      BY <1>1, <2>1, <2>2, <2>3, <3>1, <3>2 DEF Stored, Row, GoodRow
    <3>4. Rows(s, p) = Append(inbox[s], Stored(s, p)) /\ ~Retrieved(s, p)
      BY <1>2, <2>3 DEF Rows, AddToStorage, Retrieved
    <3> QED BY <1>1, <3>3, <3>4, Added
  <2>4. CASE p.cmd = "MSG TO:"
    <3>1. meant[p.text] = p.to  BY <2>4 DEF GoodPacket
    <3>2. Stored(s, p) \in Row /\ GoodRow(s, Stored(s, p), meant)
      BY <1>1, <2>1, <2>2, <2>4, <3>1 DEF Stored, Row, GoodRow
    <3>3. Rows(s, p) = Append(inbox[s], Stored(s, p)) /\ ~Retrieved(s, p)
      BY <1>2, <2>4 DEF Rows, AddToStorage, Retrieved
    <3> QED BY <1>1, <3>2, <3>3, Added
  <2> QED BY <1>2, <2>3, <2>4
<1>3. CASE ~(p.route = <<>> /\ p.cmd \in {"MSG", "MSG TO:"}) /\ Retrieved(s, p)
  <2>1. p.id \in 1..Len(inbox[s]) /\ inbox[s][p.id].type # "none"
    BY <1>3 DEF Retrieved
  <2>2. Rows(s, p) = [inbox[s] EXCEPT ![p.id].type = "DELIVERED"]  BY <1>3 DEF Rows
  <2> DEFINE e == [inbox[s][p.id] EXCEPT !.type = "DELIVERED"]
  <2>3. inbox[s][p.id] \in Row  BY <1>1, <2>1, ElementOfSeq
  <2>4. /\ e \in Row /\ e.text = inbox[s][p.id].text /\ e.to = inbox[s][p.id].to
        /\ e.type = "DELIVERED"
    BY <2>3 DEF Row
  <2>5. Rows(s, p) = [inbox[s] EXCEPT ![p.id] = e]  BY <2>2
  <2> HIDE DEF e
  <2>6. e.type \in {"DELIVERED", "none"}  BY <2>4
  <2> QED BY <1>1, <2>1, <2>4, <2>5, <2>6, Marked
<1>4. CASE ~(p.route = <<>> /\ p.cmd \in {"MSG", "MSG TO:"}) /\ ~Retrieved(s, p)
  <2>1. Rows(s, p) = inbox[s]  BY <1>4 DEF Rows
  <2>2. Len(inbox[s]) \in Nat  BY <1>1, LenProperties
  <2>3. Later(inbox[s], inbox[s])  BY <2>2 DEF Later
  <2> QED BY <1>1, <1>4, <2>1, <2>3, Zenon
<1> QED BY <1>2, <1>3, <1>4

\* The reply to a packet that was heard.
LEMMA ReplyGood ==
  ASSUME IInv, NEW s \in Stations, NEW p \in Packet, GoodPacket(p, meant),
         NEW q \in Reply(s, p)
  PROVE  q \in Packet /\ GoodPacket(q, meant)
<1> DEFINE Plain(c) == Back(s, Path(p), c)
<1>1. ASSUME NEW c \in Commands \ {"MSG", "MSG TO:"}, NEW n \in Nat
      PROVE  /\ Plain(c) \in Packet /\ GoodPacket(Plain(c), meant)
             /\ [Plain(c) EXCEPT !.id = n] \in Packet
             /\ GoodPacket([Plain(c) EXCEPT !.id = n], meant)
  <2>1. Plain(c) \in Packet /\ Plain(c).cmd = c  BY BackGoes DEF Back
  <2> HIDE DEF Plain
  <2>2. /\ [Plain(c) EXCEPT !.id = n] \in Packet
        /\ [Plain(c) EXCEPT !.id = n].cmd = c
    BY <2>1 DEF Packet
  <2> QED BY <2>1, <2>2 DEF GoodPacket
<1>2. \A c : NextMessageId(s, c) \in Nat
  <2>1. Len(inbox[s]) \in Nat  BY LenProperties DEF IInv, Shape
  <2>2. \A c : Waiting(s, c) \subseteq Nat  BY DEF Waiting
  <2> QED BY <2>1, <2>2, NextWaiting
<1>3. {"ACK", "SNR", "HEARTBEAT SNR", "YES", "NO"} \subseteq Commands \ {"MSG", "MSG TO:"}
  BY DEF Commands
<1> HIDE DEF Plain
<1>4. CASE p.route # <<>>
  <2>1. q = Forward(s, p)  BY <1>4 DEF Reply
  <2> QED BY <1>4, <2>1, ForwardGoes
<1>5. CASE p.route = <<>> /\ Acknowledged(p)
  <2>1. q = Plain("ACK")  BY <1>5 DEF Reply, Plain
  <2> QED BY <1>1, <1>3, <2>1
<1>6. CASE p.route = <<>> /\ ~Acknowledged(p)
  <2>1. CASE p.cmd = "SNR?"
    <3>1. q = Plain("SNR")  BY <1>6, <2>1 DEF Reply, Plain
    <3> QED BY <1>1, <1>3, <3>1
  <2>2. CASE p.cmd # "SNR?" /\ Retrieved(s, p)
    <3>1. q = Message(s, p)  BY <1>6, <2>2 DEF Reply
    <3> QED BY <2>2, <3>1, MessageGoes
  <2>3. CASE p.cmd = "HB" /\ ~Retrieved(s, p)
    <3> DEFINE b == Back(s, <<p.src>>, "HEARTBEAT SNR")
    <3>1. q = [b EXCEPT !.id = NextMessageId(s, p.src)]  BY <1>6, <2>3 DEF Reply
    <3>2. p.src \in Stations /\ <<p.src>> \in Seq(Stations) /\ <<>> \in Seq(Stations)
      BY DEF Packet
    <3>3. Head(<<p.src>>) = p.src /\ Tail(<<p.src>>) = <<>>  OBVIOUS
    <3>4. b \in Packet /\ b.cmd = "HEARTBEAT SNR"
      BY <1>3, <3>2, <3>3 DEF Back, Packet
    <3> HIDE DEF b
    <3>5. q \in Packet /\ q.cmd = "HEARTBEAT SNR"  BY <1>2, <3>1, <3>4 DEF Packet
    <3> QED BY <3>5 DEF GoodPacket
  <2>4. CASE p.cmd = "QUERY MSGS" /\ ~Retrieved(s, p)
    <3> DEFINE n == NextMessageId(s, Origin(p))
    <3>1. q \in {[Plain("YES") EXCEPT !.id = n], Plain("NO")}
      BY <1>6, <2>4 DEF Reply, Plain
    <3>2. n \in Nat  BY <1>2
    <3> HIDE DEF n
    <3> QED BY <1>1, <1>3, <3>1, <3>2
  <2>5. CASE p.cmd \notin {"SNR?", "HB", "QUERY MSGS"} /\ ~Retrieved(s, p)
    <3>1. Reply(s, p) = {}  BY <1>6, <2>5 DEF Reply
    <3> QED BY <3>1
  <2> QED BY <2>1, <2>2, <2>3, <2>4, <2>5
<1> QED BY <1>4, <1>5, <1>6

\* A number that is offered is one of a message that waits.
LEMMA OfferedWaits ==
  ASSUME NEW s, NEW p, p.route = <<>>, NEW q \in Reply(s, p),
         q.cmd \in {"YES", "HEARTBEAT SNR"}, q.id # 0
  PROVE  \E c : q.id = NextMessageId(s, c)
<1> DEFINE Plain(c) == Back(s, Path(p), c)
<1>1. \A c : Plain(c).id = 0 /\ Plain(c).cmd = c  BY DEF Back
<1>2. CASE Acknowledged(p)
  <2>1. q = Plain("ACK")  BY <1>2 DEF Reply
  <2> QED BY <1>1, <2>1
<1>3. CASE ~Acknowledged(p) /\ p.cmd = "SNR?"
  <2>1. q = Plain("SNR")  BY <1>3 DEF Reply
  <2> QED BY <1>1, <2>1
<1>4. CASE ~Acknowledged(p) /\ p.cmd # "SNR?" /\ Retrieved(s, p)
  <2>1. q = Message(s, p)  BY <1>4 DEF Reply
  <2>2. q.cmd = "MSG"  BY <2>1 DEF Message, Back
  <2> QED BY <2>2
<1>5. CASE ~Acknowledged(p) /\ p.cmd = "HB" /\ ~Retrieved(s, p)
  <2>1. q = [Back(s, <<p.src>>, "HEARTBEAT SNR") EXCEPT !.id = NextMessageId(s, p.src)]
    BY <1>5 DEF Reply
  <2>2. q.id = NextMessageId(s, p.src)  BY <2>1 DEF Back
  <2> QED BY <2>2
<1>6. CASE ~Acknowledged(p) /\ p.cmd = "QUERY MSGS" /\ ~Retrieved(s, p)
  <2> DEFINE n == NextMessageId(s, Origin(p))
  <2>1. q \in {[Plain("YES") EXCEPT !.id = n], Plain("NO")}  BY <1>6 DEF Reply
  <2>2. [Plain("YES") EXCEPT !.id = n].id = n  BY DEF Back
  <2>3. q.id = n  BY <1>1, <2>1, <2>2
  <2> QED BY <2>3
<1>7. CASE ~Acknowledged(p) /\ p.cmd \notin {"SNR?", "HB", "QUERY MSGS"} /\ ~Retrieved(s, p)
  <2>1. Reply(s, p) = {}  BY <1>7 DEF Reply
  <2> QED BY <2>1
<1> QED BY <1>2, <1>3, <1>4, <1>5, <1>6, <1>7

\* What is offered is in the table, and has not been handed out.
LEMMA OffersGood ==
  ASSUME IInv, NEW s \in Stations, NEW p, NEW o \in Offers(s, p)
  PROVE  /\ o.store = s /\ o.id \in 1..Len(inbox[s]) /\ o.text = inbox[s][o.id].text
         /\ o.text \in Texts /\ o.late \in BOOLEAN /\ ~o.late
<1>1. PICK q \in Reply(s, p) :
        /\ p.route = <<>> /\ q.cmd \in {"YES", "HEARTBEAT SNR"} /\ q.id # 0
        /\ o = [store |-> s, id |-> q.id, text |-> inbox[s][q.id].text,
                late |-> <<s, q.id>> \in taken]
  BY DEF Offers
<1>2. PICK c : q.id = NextMessageId(s, c)  BY <1>1, OfferedWaits
<1>3. /\ q.id \in 1..Len(inbox[s]) /\ inbox[s][q.id] \in Row /\ <<s, q.id>> \notin taken
  BY <1>1, <1>2, WaitingRow
<1>4. inbox[s][q.id].text \in Texts  BY <1>3 DEF Row
<1>5. o.store = s /\ o.id = q.id /\ o.text = inbox[s][q.id].text  BY <1>1
<1>6. o.late = (<<s, q.id>> \in taken)  BY <1>1, Zenon
<1> DEFINE b == <<s, q.id>> \in taken
<1>7. ~b /\ b \in BOOLEAN  BY <1>3
<1>8. o.late = b  BY <1>6
<1> HIDE DEF b
<1>9. o.late \in BOOLEAN /\ ~o.late  BY <1>7, <1>8, Zenon
<1> QED BY <1>3, <1>4, <1>5, <1>9

-----------------------------------------------------------------------------
(* The actions.                                                            *)

\* The hops of what is sent, directly or by way of another.
LEMMA Hops ==
  ASSUME NEW dest, NEW via \in Routes, via # <<>> => dest \in Stations
  PROVE  LET hops == via \o <<dest>>
         IN  /\ Head(hops) \in Stations \cup {dest} /\ Tail(hops) \in Seq(Stations)
             /\ IF Tail(hops) = <<>> THEN Head(hops) = dest
                ELSE Tail(hops)[Len(Tail(hops))] = dest
<1>1. CASE via = <<>>
  <2>1. <<dest>> \in Seq({dest})  OBVIOUS
  <2>2. via \o <<dest>> = <<dest>>  BY <1>1, <2>1, ConcatEmptySeq
  <2>3. Head(<<dest>>) = dest /\ Tail(<<dest>>) = <<>>  OBVIOUS
  <2>4. <<>> \in Seq(Stations)  OBVIOUS
  <2> QED BY <2>2, <2>3, <2>4
<1>2. CASE via # <<>>
  <2>1. PICK r \in Relays : via = <<r>>  BY <1>2 DEF Routes
  <2>2. r \in Stations /\ dest \in Stations  BY <1>2, <2>1, MailboxAssumption
  <2>3. <<r>> \o <<dest>> = <<r, dest>>
    <3>1. <<r>> \in Seq(Stations) /\ <<dest>> \in Seq(Stations)  BY <2>2
    <3>2. <<r>>[1] = r /\ <<dest>>[1] = dest /\ Len(<<r>>) = 1 /\ Len(<<dest>>) = 1
      OBVIOUS
    <3> DEFINE z == <<r>> \o <<dest>>
    <3>3. z \in Seq(Stations) /\ Len(z) = 2 /\ z[1] = r /\ z[2] = dest
      BY <3>1, <3>2, ConcatProperties
    <3>4. <<r, dest>> \in Seq(Stations)  BY <2>2
    <3> HIDE DEF z
    <3>5. z = <<r, dest>>  BY <3>3, <3>4, SeqEqual
    <3> QED BY <3>5 DEF z
  <2>4. Head(<<r, dest>>) = r /\ Tail(<<r, dest>>) = <<dest>>  OBVIOUS
  <2>5. <<dest>> \in Seq(Stations) /\ Len(<<dest>>) = 1 /\ <<dest>>[1] = dest /\ <<dest>> # <<>>
    BY <2>2
  <2> QED BY <2>1, <2>2, <2>3, <2>4, <2>5
<1> QED BY <1>1, <1>2

\* The fields an operator fills in.
Fields == [cmd : Commands, id : Nat, text : Texts \cup {0}, to : Stations \cup {All}]

\* The text in the fields f of what is sent to dest is for whom it was written.
GoodText(f, dest, w) ==
  /\ f.cmd = "MSG" => f.text \in 1..Len(w) /\ w[f.text] = dest
  /\ f.cmd = "MSG TO:" => f.text \in 1..Len(w) /\ w[f.text] = f.to

\* What an operator sends.
LEMMA SendGood ==
  ASSUME NEW s \in Stations, NEW dest \in Stations \cup {All}, NEW via \in Routes,
         via # <<>> => dest \in Stations,
         NEW f \in Fields, Send(s, dest, via, f), out \in [Stations -> Seq(Packet)], moves \in Nat,
         NEW w, \A r \in Stations : GoodPackets(out[r], w), GoodText(f, dest, w)
  PROVE  /\ out' \in [Stations -> Seq(Packet)] /\ moves' \in Nat
         /\ \A r \in Stations : GoodPackets(out'[r], w)
<1> DEFINE hops == via \o <<dest>>
           p == [src |-> s, dst |-> Head(hops), route |-> Tail(hops), cmd |-> f.cmd,
                 id |-> f.id, text |-> f.text, to |-> f.to, de |-> <<>>]
<1>1. out' = [out EXCEPT ![s] = Append(out[s], p)] /\ moves' = moves + 1
  BY DEF Send
<1>2. /\ Head(hops) \in Stations \cup {dest} /\ Tail(hops) \in Seq(Stations)
      /\ IF Tail(hops) = <<>> THEN Head(hops) = dest ELSE Tail(hops)[Len(Tail(hops))] = dest
  BY Hops
<1> HIDE DEF hops
<1>3. <<>> \in Seq(Stations)  OBVIOUS
<1>4. p \in Packet  BY <1>2, <1>3 DEF Fields, Packet
<1>5. p.cmd = f.cmd /\ p.text = f.text /\ p.to = f.to  OBVIOUS
<1>6. Final(p) = dest  BY <1>2 DEF Final
<1> HIDE DEF p
<1>7. GoodPacket(p, w)  BY <1>5, <1>6 DEF GoodPacket, GoodText
<1>8. Append(out[s], p) \in Seq(Packet) /\ GoodPackets(Append(out[s], p), w)
  BY <1>4, <1>7, QueueLonger
<1>9. \A r \in Stations : out'[r] = IF r = s THEN Append(out[s], p) ELSE out[r]
  BY <1>1
<1> QED BY <1>1, <1>8, <1>9

\* An operator sends something that carries no text.
LEMMA SendPlain ==
  ASSUME IInv, NEW s \in Stations, NEW dest \in Stations \cup {All}, NEW via \in Routes,
         via # <<>> => dest \in Stations,
         NEW c \in Commands \ {"MSG", "MSG TO:"}, NEW n \in Nat,
         Send(s, dest, via, [cmd |-> c, id |-> n, text |-> 0, to |-> All]),
         UNCHANGED <<inbox, meant, offers, taken>>
  PROVE  IInv'
<1> DEFINE f == [cmd |-> c, id |-> n, text |-> 0, to |-> All]
<1>1. f \in Fields  BY DEF Fields
<1>2. GoodText(f, dest, meant)  BY DEF GoodText
<1>3. Send(s, dest, via, f)  OBVIOUS
<1> HIDE DEF f
<1>4. /\ out' \in [Stations -> Seq(Packet)] /\ moves' \in Nat
      /\ \A r \in Stations : GoodPackets(out'[r], meant)
  <2>1. /\ out \in [Stations -> Seq(Packet)] /\ moves \in Nat
        /\ \A r \in Stations : GoodPackets(out[r], meant)
    BY DEF IInv, Shape
  <2> QED BY <1>1, <1>2, <1>3, <2>1, SendGood
<1>5. (\A o \in offers : GoodOffer(o)') /\ (\A x \in taken : GoodTaken(x)')
  BY DEF IInv, GoodOffer, GoodTaken
<1>6. Shape'  BY <1>4 DEF IInv, Shape
<1>7. \A r \in Stations : GoodRows(r, inbox'[r], meant')  BY DEF IInv
<1> QED BY <1>4, <1>5, <1>6, <1>7 DEF IInv

\* The number of a message that is written now.
LEMMA NextText ==
  ASSUME NEW w \in Seq(Stations), Len(w) < MaxTexts, NEW reader \in Stations
  PROVE  /\ Len(w) + 1 \in Texts /\ Len(w) + 1 \in 1..Len(Append(w, reader))
         /\ Append(w, reader)[Len(w) + 1] = reader
<1>1. Len(w) \in Nat /\ MaxTexts \in Nat  BY LenProperties, MailboxAssumption
<1>2. Len(w) + 1 \in 1..MaxTexts  BY <1>1
<1> QED BY <1>1, <1>2, Longer DEF Texts

\* The fields of such a message.
LEMMA TextFields ==
  ASSUME NEW w \in Seq(Stations), Len(w) < MaxTexts, NEW reader \in Stations,
         NEW c \in {"MSG", "MSG TO:"}, NEW t \in Stations \cup {All},
         NEW dest, c = "MSG" => dest = reader, c = "MSG TO:" => t = reader
  PROVE  LET f == [cmd |-> c, id |-> 0, text |-> Len(w) + 1, to |-> t]
         IN  f \in Fields /\ GoodText(f, dest, Append(w, reader))
<1> DEFINE n == Len(w) + 1
           f == [cmd |-> c, id |-> 0, text |-> n, to |-> t]
<1>1. n \in Texts /\ n \in 1..Len(Append(w, reader)) /\ Append(w, reader)[n] = reader
  BY NextText
<1> HIDE DEF n
<1>2. f \in Fields  BY <1>1 DEF Fields, Commands
<1>3. f.cmd = c /\ f.to = t /\ f.text = n  OBVIOUS
<1> HIDE DEF f
<1>4. GoodText(f, dest, Append(w, reader))  BY <1>1, <1>3 DEF GoodText
<1> QED BY <1>2, <1>4 DEF f, n

\* An operator writes a message.
LEMMA SendText ==
  ASSUME IInv, NEW s \in Stations, NEW dest \in Stations, NEW via \in Routes,
         NEW reader \in Stations, Len(meant) < MaxTexts, meant' = Append(meant, reader),
         NEW f \in Fields, GoodText(f, dest, Append(meant, reader)), Send(s, dest, via, f),
         UNCHANGED <<inbox, offers, taken>>
  PROVE  IInv'
<1> DEFINE w == Append(meant, reader)
<1>1. meant \in Seq(Stations) /\ Len(meant) \in Nat  BY LenProperties DEF IInv, Shape
<1>2. /\ w \in Seq(Stations) /\ Len(w) = Len(meant) + 1
      /\ \A p : GoodPacket(p, meant) => GoodPacket(p, w)
      /\ \A r, row : GoodRow(r, row, meant) => GoodRow(r, row, w)
  BY <1>1, Longer
<1>3. w \in Seq(Stations) /\ Len(w) <= MaxTexts
  BY <1>1, <1>2, MailboxAssumption
<1>4. meant' = w /\ GoodText(f, dest, w)  OBVIOUS
<1> HIDE DEF w
<1>5. /\ out' \in [Stations -> Seq(Packet)] /\ moves' \in Nat
      /\ \A r \in Stations : GoodPackets(out'[r], w)
  <2>1. /\ out \in [Stations -> Seq(Packet)] /\ moves \in Nat
        /\ \A r \in Stations : GoodPackets(out[r], w)
    BY <1>2 DEF IInv, Shape, GoodPackets
  <2> QED BY <1>4, <2>1, SendGood
<1>6. (\A o \in offers : GoodOffer(o)') /\ (\A x \in taken : GoodTaken(x)')
  BY DEF IInv, GoodOffer, GoodTaken
<1>7. Shape'  BY <1>3, <1>4, <1>5 DEF IInv, Shape
<1>8. \A r \in Stations : GoodRows(r, inbox'[r], w)  BY <1>2 DEF IInv, GoodRows
<1> QED BY <1>4, <1>5, <1>6, <1>7, <1>8 DEF IInv

LEMMA DeleteStep ==
  ASSUME IInv, NEW s \in Stations, NEW n \in 1..Len(inbox[s]), Delete(s, n)
  PROVE  IInv'
<1> DEFINE e == [inbox[s][n] EXCEPT !.type = "none"]
<1>1. inbox \in [Stations -> Seq(Row)] /\ inbox[s] \in Seq(Row) /\ moves \in Nat
      /\ GoodRows(s, inbox[s], meant)
  BY DEF IInv, Shape
<1>2. inbox[s][n] \in Row  BY <1>1, ElementOfSeq
<1>3. e \in Row /\ e.text = inbox[s][n].text /\ e.to = inbox[s][n].to /\ e.type = "none"
  BY <1>2 DEF Row
<1>4. inbox' = [inbox EXCEPT ![s] = [inbox[s] EXCEPT ![n] = e]]  BY <1>1 DEF Delete
<1> HIDE DEF e
<1> DEFINE new == [inbox[s] EXCEPT ![n] = e]
<1>5. new \in Seq(Row) /\ GoodRows(s, new, meant) /\ Later(new, inbox[s])
  BY <1>1, <1>3, Marked
<1>6. \A r \in Stations : Len(inbox[r]) \in Nat /\ Later(inbox[r], inbox[r])
  BY LenProperties DEF IInv, Shape, Later
<1> HIDE DEF new
<1>7. inbox' = [inbox EXCEPT ![s] = new]  BY <1>4 DEF new
<1>8. inbox' \in [Stations -> Seq(Row)] /\ \A r \in Stations : Later(inbox'[r], inbox[r])
  BY <1>1, <1>5, <1>6, <1>7
<1>9. (\A o \in offers : GoodOffer(o)') /\ (\A x \in taken : GoodTaken(x)')
  BY <1>8, OffersStay
<1>10. UNCHANGED <<out, meant, offers, taken>> /\ moves' = moves + 1  BY DEF Delete
<1>11. \A r \in Stations : GoodRows(r, inbox'[r], meant)
  BY <1>1, <1>5, <1>7 DEF IInv
<1> QED BY <1>1, <1>8, <1>9, <1>10, <1>11 DEF IInv, Shape

LEMMA ShowInboxStep ==
  ASSUME IInv, NEW s \in Stations, ShowInbox(s)
  PROVE  IInv'
<1> DEFINE Shown(row) == IF row.type = "UNREAD" THEN [row EXCEPT !.type = "READ"] ELSE row
           new == [n \in 1..Len(inbox[s]) |-> Shown(inbox[s][n])]
<1>1. inbox \in [Stations -> Seq(Row)] /\ inbox[s] \in Seq(Row) /\ moves \in Nat
      /\ GoodRows(s, inbox[s], meant) /\ Len(inbox[s]) \in Nat
  BY LenProperties DEF IInv, Shape
<1>2. inbox' = [inbox EXCEPT ![s] = new]  BY DEF ShowInbox
<1>3. ASSUME NEW row \in Row
      PROVE  /\ Shown(row) \in Row /\ Shown(row).text = row.text /\ Shown(row).to = row.to
             /\ \/ Shown(row).type = row.type
                \/ row.type = "UNREAD" /\ Shown(row).type = "READ"
  BY DEF Row
<1> HIDE DEF Shown
<1>4. \A n \in 1..Len(inbox[s]) : inbox[s][n] \in Row /\ Shown(inbox[s][n]) \in Row
  BY <1>1, <1>3, ElementOfSeq
<1>5. new \in Seq(Row) /\ Len(new) = Len(inbox[s])
      /\ \A n \in 1..Len(inbox[s]) : new[n] = Shown(inbox[s][n])
  BY <1>1, <1>4
<1> HIDE DEF new
<1>6. GoodRows(s, new, meant)  BY <1>1, <1>3, <1>4, <1>5 DEF GoodRows, GoodRow
<1>7. Later(new, inbox[s])  BY <1>1, <1>3, <1>4, <1>5 DEF Later
<1>8. \A r \in Stations : Len(inbox[r]) \in Nat /\ Later(inbox[r], inbox[r])
  BY LenProperties DEF IInv, Shape, Later
<1>9. inbox' \in [Stations -> Seq(Row)] /\ \A r \in Stations : Later(inbox'[r], inbox[r])
  BY <1>1, <1>2, <1>5, <1>7, <1>8
<1>10. (\A o \in offers : GoodOffer(o)') /\ (\A x \in taken : GoodTaken(x)')
  BY <1>9, OffersStay
<1>11. UNCHANGED <<out, meant, offers, taken, moves>>  BY DEF ShowInbox
<1>12. \A r \in Stations : GoodRows(r, inbox'[r], meant)
  BY <1>1, <1>2, <1>6 DEF IInv
<1> QED BY <1>1, <1>9, <1>10, <1>11, <1>12 DEF IInv, Shape

LEMMA TransmitStep ==
  ASSUME IInv, NEW s \in Stations, Transmit(s)
  PROVE  IInv'
<1> DEFINE p == Head(out[s])
           hearers == (IF p.dst = All THEN Stations ELSE {p.dst}) \ {s}
           Done(H, A) ==
             /\ \A r \in A : Reply(r, p) # {}
             /\ inbox' = [r \in Stations |-> IF r \in H THEN Rows(r, p) ELSE inbox[r]]
             /\ out' = [r \in Stations |->
                          IF r = s THEN Tail(out[s])
                          ELSE IF r \in A
                          THEN Append(out[r], CHOOSE q \in Reply(r, p) : TRUE)
                          ELSE out[r]]
             /\ offers' = offers \cup UNION {Offers(r, p) : r \in A}
             /\ taken' = taken \cup {<<r, p.id>> : r \in {q \in H : Retrieved(q, p)}}
<1>1. PICK heard \in SUBSET hearers : \E answer \in SUBSET heard : Done(heard, answer)
  BY DEF Transmit
<1>2. PICK answer \in SUBSET heard : Done(heard, answer)  BY <1>1
<1>3. out[s] # <<>> /\ UNCHANGED <<meant, moves>>  BY DEF Transmit
<1>4. /\ inbox \in [Stations -> Seq(Row)] /\ out \in [Stations -> Seq(Packet)]
      /\ \A r \in Stations : GoodRows(r, inbox[r], meant) /\ GoodPackets(out[r], meant)
  BY DEF IInv, Shape
<1>5. /\ Tail(out[s]) \in Seq(Packet) /\ GoodPackets(Tail(out[s]), meant)
      /\ p \in Packet /\ GoodPacket(p, meant)
  BY <1>3, <1>4, QueueShorter
<1> HIDE DEF p
<1>6. \A r \in heard : r \in Stations /\ Hears(r, p)
  <2>1. p.dst \in Stations \cup {All}  BY <1>5 DEF Packet
  <2> QED BY <2>1 DEF Hears
<1> HIDE DEF hearers
<1>7. ASSUME NEW r \in heard
      PROVE  /\ Rows(r, p) \in Seq(Row) /\ GoodRows(r, Rows(r, p), meant)
             /\ Later(Rows(r, p), inbox[r])
             /\ Retrieved(r, p) => Rows(r, p)[p.id].type = "DELIVERED"
  BY <1>5, <1>6, RowsGood
<1>8. \A r \in Stations : Later(inbox[r], inbox[r])
  BY LenProperties DEF IInv, Shape, Later
<1>9. /\ inbox' \in [Stations -> Seq(Row)]
      /\ \A r \in Stations : GoodRows(r, inbox'[r], meant) /\ Later(inbox'[r], inbox[r])
  <2>1. \A r \in Stations : inbox'[r] = IF r \in heard THEN Rows(r, p) ELSE inbox[r]
    BY <1>2
  <2>2. ASSUME NEW r \in Stations
        PROVE  /\ inbox'[r] \in Seq(Row) /\ GoodRows(r, inbox'[r], meant)
               /\ Later(inbox'[r], inbox[r])
    BY <1>4, <1>7, <1>8, <2>1
  <2>3. DOMAIN inbox' = Stations /\ inbox' = [r \in Stations |-> inbox'[r]]  BY <1>2
  <2> QED BY <2>2, <2>3
<1>10. /\ out' \in [Stations -> Seq(Packet)]
      /\ \A r \in Stations : GoodPackets(out'[r], meant)
  <2> DEFINE q(r) == CHOOSE x \in Reply(r, p) : TRUE
  <2>1. out' = [r \in Stations |-> IF r = s THEN Tail(out[s])
                                   ELSE IF r \in answer THEN Append(out[r], q(r)) ELSE out[r]]
    BY <1>2
  <2>2. ASSUME NEW r \in Stations, r \in answer
        PROVE  Append(out[r], q(r)) \in Seq(Packet) /\ GoodPackets(Append(out[r], q(r)), meant)
    <3>1. q(r) \in Reply(r, p)  BY <1>2, <2>2
    <3> HIDE DEF q
    <3>2. q(r) \in Packet /\ GoodPacket(q(r), meant)  BY <1>5, <3>1, ReplyGood
    <3> QED BY <1>4, <3>2, QueueLonger
  <2> HIDE DEF q
  <2>3. ASSUME NEW r \in Stations
        PROVE  out'[r] \in Seq(Packet) /\ GoodPackets(out'[r], meant)
    BY <1>4, <1>5, <2>1, <2>2
  <2>4. out' = [r \in Stations |-> out'[r]]  BY <2>1
  <2> QED BY <2>3, <2>4
<1>11. Shape'  BY <1>3, <1>9, <1>10 DEF IInv, Shape
<1>12. (\A o \in offers : GoodOffer(o)') /\ (\A x \in taken : GoodTaken(x)')
  BY <1>9, OffersStay
<1>13. \A r \in Stations : Len(inbox[r]) \in Nat /\ Len(inbox'[r]) \in Nat
                            /\ Len(inbox'[r]) >= Len(inbox[r])
  BY <1>9, LenProperties DEF IInv, Shape, Later
<1>14. ASSUME NEW o \in offers' PROVE GoodOffer(o)'
  <2>1. CASE o \in offers  BY <1>12, <2>1
  <2>2. CASE o \notin offers
    <3>1. PICK r \in answer : o \in Offers(r, p)  BY <1>2, <2>2
    <3>2. r \in Stations  BY <1>6
    <3>3. /\ o.store = r /\ o.id \in 1..Len(inbox[r]) /\ o.text = inbox[r][o.id].text
          /\ o.text \in Texts /\ o.late \in BOOLEAN /\ ~o.late
      BY <3>1, <3>2, OffersGood
    <3>4. inbox'[r][o.id].text = o.text /\ o.id \in 1..Len(inbox'[r])
      BY <1>9, <1>13, <3>2, <3>3 DEF Later
    <3> QED BY <3>2, <3>3, <3>4 DEF GoodOffer
  <2> QED BY <2>1, <2>2
<1>15. ASSUME NEW x \in taken' PROVE GoodTaken(x)'
  <2>1. CASE x \in taken  BY <1>12, <2>1
  <2>2. CASE x \notin taken
    <3>1. PICK r \in heard : x = <<r, p.id>> /\ Retrieved(r, p)  BY <1>2, <2>2
    <3>2. r \in Stations /\ p.id \in Nat /\ p.id \in 1..Len(inbox[r])
      BY <1>5, <1>6, <3>1 DEF Packet, Retrieved
    <3>3. inbox'[r] = Rows(r, p)  BY <1>2, <3>2
    <3>4. inbox'[r][p.id].type = "DELIVERED"  BY <1>7, <3>1, <3>3
    <3>5. p.id \in 1..Len(inbox'[r])  BY <1>13, <3>2
    <3>6. x[1] = r /\ x[2] = p.id /\ x \in Stations \X Nat  BY <3>1, <3>2
    <3> QED BY <3>4, <3>5, <3>6 DEF GoodTaken
  <2> QED BY <2>1, <2>2
<1> QED BY <1>3, <1>9, <1>10, <1>11, <1>14, <1>15 DEF IInv

-----------------------------------------------------------------------------
(* The theorems.                                                           *)

LEMMA InitIInv == Init => IInv
<1>1. SUFFICES ASSUME Init PROVE IInv  OBVIOUS
<1>2. \A s \in Stations : inbox[s] = <<>> /\ out[s] = <<>>  BY <1>1 DEF Init
<1>3. Len(<<>>) = 0 /\ <<>> \in Seq(Row) /\ <<>> \in Seq(Packet) /\ <<>> \in Seq(Stations)
  OBVIOUS
<1>4. Shape  BY <1>1, <1>3, MailboxAssumption DEF Init, Shape
<1>5. \A s \in Stations : GoodRows(s, inbox[s], meant) /\ GoodPackets(out[s], meant)
  BY <1>2, <1>3 DEF GoodRows, GoodPackets
<1>6. offers = {} /\ taken = {}  BY <1>1 DEF Init
<1> QED BY <1>4, <1>5, <1>6 DEF IInv

\* An operator's action.
LEMMA OperatorStep ==
  ASSUME IInv, Operator
  PROVE  IInv'
<1>1. meant \in Seq(Stations)  BY DEF IInv, Shape
<1>2. ASSUME NEW s \in Authors, NEW via \in Routes, NEW reader \in Stations,
             Write(s, reader, via)
      PROVE  IInv'
  <2> DEFINE f == [cmd |-> "MSG", id |-> 0, text |-> Len(meant) + 1, to |-> All]
  <2>1. /\ s \in Stations /\ Len(meant) < MaxTexts /\ meant' = Append(meant, reader)
        /\ Send(s, reader, via, f) /\ UNCHANGED <<inbox, offers, taken>>
    BY <1>2, MailboxAssumption DEF Write
  <2>2. f \in Fields /\ GoodText(f, reader, Append(meant, reader))
    BY <1>1, <2>1, TextFields
  <2> HIDE DEF f
  <2> QED BY <2>1, <2>2, SendText
<1>3. ASSUME NEW s \in Authors, NEW via \in Routes, NEW store \in Stores,
             NEW reader \in Readers, Leave(s, store, reader, via)
      PROVE  IInv'
  <2> DEFINE f == [cmd |-> "MSG TO:", id |-> 0, text |-> Len(meant) + 1, to |-> reader]
  <2>1. /\ s \in Stations /\ store \in Stations /\ reader \in Stations
        /\ Len(meant) < MaxTexts /\ meant' = Append(meant, reader)
        /\ Send(s, store, via, f) /\ UNCHANGED <<inbox, offers, taken>>
    BY <1>3, MailboxAssumption DEF Leave
  <2>2. f \in Fields /\ GoodText(f, store, Append(meant, reader))
    BY <1>1, <2>1, TextFields
  <2> HIDE DEF f
  <2> QED BY <2>1, <2>2, SendText
<1>4. ASSUME NEW s \in Readers, NEW cmd \in {"HB", "QUERY MSGS"}, Call(s, cmd)
      PROVE  IInv'
  <2>1. <<>> \in Routes /\ s \in Stations  BY MailboxAssumption DEF Routes
  <2>2. cmd \in Commands \ {"MSG", "MSG TO:"}  BY DEF Commands
  <2> QED BY <1>4, <2>1, <2>2, SendPlain DEF Call
<1>5. ASSUME NEW s \in Readers, NEW store \in Stores, NEW via \in Routes,
             NEW cmd \in {"QUERY MSGS", "SNR?"}, Ask(s, store, via, cmd)
      PROVE  IInv'
  <2>1. store \in Stations /\ s \in Stations  BY MailboxAssumption
  <2>2. cmd \in Commands \ {"MSG", "MSG TO:"}  BY DEF Commands
  <2> QED BY <1>5, <2>1, <2>2, SendPlain DEF Ask
<1>6. ASSUME NEW s \in Readers, NEW store \in Stores, NEW via \in Routes, NEW n \in Texts,
             Fetch(s, store, via, n)
      PROVE  IInv'
  <2>1. store \in Stations /\ s \in Stations /\ n \in Nat  BY MailboxAssumption DEF Texts
  <2>2. "QUERY MSG" \in Commands \ {"MSG", "MSG TO:"}  BY DEF Commands
  <2> QED BY <1>6, <2>1, <2>2, SendPlain DEF Fetch
<1>7. ASSUME NEW s \in Readers, ShowInbox(s) PROVE IInv'
  BY <1>7, ShowInboxStep, MailboxAssumption
<1>8. ASSUME NEW s \in Stores, NEW n \in 1..Len(inbox[s]), Delete(s, n) PROVE IInv'
  BY <1>8, DeleteStep, MailboxAssumption
<1> QED BY <1>2, <1>3, <1>4, <1>5, <1>6, <1>7, <1>8, Zenon DEF Operator

LEMMA NextIInv == IInv /\ [Next]_vars => IInv'
<1>1. CASE UNCHANGED vars
  BY <1>1 DEF vars, IInv, Shape, GoodRows, GoodPackets, GoodOffer, GoodTaken
<1>2. ASSUME IInv, Operator PROVE IInv'  BY <1>2, OperatorStep
<1>3. ASSUME IInv, NEW s \in Stations, Transmit(s) PROVE IInv'  BY <1>3, TransmitStep
<1> QED BY <1>1, <1>2, <1>3 DEF Next

\* The invariant holds in every state.
THEOREM Invariance == Spec => []IInv
<1> QED BY InitIInv, NextIInv, PTL DEF Spec

\* Every variable has its type, however many stations, relays and messages
\* there are: what processCommandActivity sends is a command to a station that
\* exists, and what it stores names stations and a text.
THEOREM TypeInvariant == Spec => []TypeOK
<1>1. IInv => TypeOK
  <2>1. SUFFICES ASSUME IInv PROVE TypeOK  OBVIOUS
  <2>2. \A o \in offers : o.store \in Stations /\ o.text \in Texts /\ o.late \in BOOLEAN
    BY <2>1 DEF IInv, GoodOffer
  <2>3. taken \subseteq Stations \X Nat  BY <2>1 DEF IInv, GoodTaken
  <2> QED BY <2>1, <2>2, <2>3 DEF IInv, Shape, TypeOK
<1> QED BY <1>1, Invariance, PTL

\* A message is in the inbox of nobody but the station it was written for,
\* through any number of relays and any deletions (QUERY MSG checks TO against the
\* end of the path that parseRelayPathCallsigns has the answer take).
THEOREM PrivateAlways == Spec => []Private
<1>1. IInv => Private
  <2>1. SUFFICES ASSUME IInv, NEW s \in Stations, NEW n \in 1..Len(inbox[s]),
                        inbox[s][n].type \in {"UNREAD", "READ"}
                 PROVE  meant[inbox[s][n].text] = s
    BY DEF Private
  <2>2. GoodRow(s, inbox[s][n], meant)  BY <2>1 DEF IInv, GoodRows
  <2> QED BY <2>1, <2>2 DEF GoodRow
<1> QED BY <1>1, Invariance, PTL

\* A number that was offered in a reply to a heartbeat or to QUERY MSGS stands
\* for that message or for none (the id is AUTOINCREMENT).
THEOREM OfferHonouredAlways == Spec => []OfferHonoured
<1>1. IInv => OfferHonoured  BY DEF IInv, GoodOffer, OfferHonoured
<1> QED BY <1>1, Invariance, PTL

\* A message that was handed out is not offered again (QUERY MSG sets DELIVERED,
\* getNextMessageIdForCallsign looks for STORE).
THEOREM NotOfferedAgainAlways == Spec => []NotOfferedAgain
<1>1. IInv => NotOfferedAgain  BY DEF IInv, GoodOffer, NotOfferedAgain
<1> QED BY <1>1, Invariance, PTL
=============================================================================
