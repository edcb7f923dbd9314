------------------------- MODULE ConversationProofs -------------------------
(***************************************************************************)
(* Theorems about what passes in a conversation: the life of a message      *)
(* (module Messages) and of a poll (module Polls).  Both hold for any users, *)
(* connections, requests and options; the two parts are independent.        *)
(***************************************************************************)
EXTENDS Messages, Polls, FiniteSetTheorems, FunctionTheorems, TLAPS

(***************************************************************************)
(* Messages.                                                                *)
(***************************************************************************)

Event  == [type : {"message", "edited", "deleted"}, msg : Msgs]
RowSet == [kind : Kinds \cup {"none"}, to : SUBSET Recipients, status : Status,
           deleted : BOOLEAN, edits : 0 .. MaxEdits]
HSet   == [step : {"idle", "probe", "offer", "ack", "edit", "erase", "event"},
           msg : Msgs \cup {NoMsg}, event : {"none", "message", "edited", "deleted"},
           left : SUBSET Recipients, sent : BOOLEAN]

Typed ==
  /\ row \in [Msgs -> RowSet] /\ h \in [Handlers -> HSet]
  /\ online \subseteq Recipients /\ inbox \in [Recipients -> Seq(Event)]
  /\ seen \in [Recipients -> SUBSET Msgs] /\ ack \in [Recipients -> Msgs \cup {NoMsg}]
  /\ hist \in [Recipients -> SUBSET (Msgs \cup {NoMsg})]
  /\ told \in [Msgs -> Status \cup {"none"}] /\ accepted \subseteq Msgs \X Recipients

\* Nothing has happened to a message that was not created.
Unmade(m) == ~Exists(m) => row[m].status = "sent" /\ ~row[m].deleted /\ told[m] = "none"

\* What reaches a recipient was created; a buffer ends with its connection.
Reached(r) ==
  /\ \A i \in 1 .. Len(inbox[r]) : Exists(inbox[r][i].msg)
  /\ \A m \in seen[r] : Exists(m)
  /\ ack[r] # NoMsg => Exists(ack[r])
  /\ hist[r] # NoPage => \A m \in hist[r] : m \in Msgs /\ Exists(m)
  /\ Len(inbox[r]) <= Cap
  /\ r \notin online => inbox[r] = << >>

\* What a handler has in hand: the event of its step, recipients of its message, and,
\* unless it forwards or writes to the bot, an acceptance by one of them once it holds
\* a send successful.
InHand(p) ==
  LET m == h[p].msg IN
  /\ h[p].step = "idle" <=> m = NoMsg
  /\ h[p].step \in {"probe", "offer", "ack"} => h[p].event = "message"
  /\ h[p].step = "edit" => h[p].event = "edited"
  /\ h[p].step = "erase" => h[p].event = "deleted"
  /\ h[p].step = "event" => h[p].event \in {"edited", "deleted"}
  /\ h[p].step = "probe" => row[m].kind = "forward"
  /\ h[p].step # "idle" => Exists(m) /\ h[p].left \subseteq row[m].to
  /\ h[p].step \in {"offer", "ack"} /\ h[p].sent /\ row[m].kind \in {"dm", "group"}
       => \E r \in row[m].to : <<m, r>> \in accepted

MessageInv ==
  /\ Typed
  /\ \A m \in Msgs : Unmade(m)
  /\ \A r \in Recipients : Reached(r)
  /\ \A p \in Handlers : InHand(p)
  /\ DeliveredWasAccepted

----------------------------------------------------------------------------
(* How handlers and rows change.                                            *)

\* One handler takes a step, the others stay where they are.
HandlerMoves(p, to) ==
  /\ h' \in [Handlers -> HSet] /\ h'[p] = to
  /\ \A q \in Handlers : q # p => h'[q] = h[q]

\* Such is every step of a handler.
LEMMA Moved ==
  ASSUME Typed, NEW p \in Handlers, NEW to \in HSet, h' = [h EXCEPT ![p] = to]
  PROVE  HandlerMoves(p, to)
BY DEF Typed, HandlerMoves

\* No step takes a message out of the table, or changes what it is and for whom.
RowsStay ==
  /\ row' \in [Msgs -> RowSet]
  /\ \A m \in Msgs : Exists(m) => row'[m].kind = row[m].kind /\ row'[m].to = row[m].to

\* What a handler that does not move has in hand stays.
LEMMA HandStays ==
  ASSUME Typed, NEW p \in Handlers, InHand(p), RowsStay, h'[p] = h[p], accepted \subseteq accepted'
  PROVE  InHand(p)'
<1>1. CASE h[p].step = "idle"
  BY <1>1 DEF InHand
<1>2. CASE h[p].step # "idle"
  <2>1. h[p].msg \in Msgs /\ Exists(h[p].msg)
    BY <1>2 DEF Typed, HSet, InHand
  <2>2. row'[h[p].msg].kind = row[h[p].msg].kind /\ row'[h[p].msg].to = row[h[p].msg].to
    BY <2>1 DEF RowsStay
  <2>3. \A r \in row[h[p].msg].to : <<h[p].msg, r>> \in accepted => <<h[p].msg, r>> \in accepted'
    OBVIOUS
  <2> QED
    BY <1>2, <2>1, <2>2, <2>3 DEF InHand, Exists
<1> QED
  BY <1>1, <1>2

\* What reached a recipient of whom nothing changes stays.
LEMMA ReachedStays ==
  ASSUME Typed, NEW r \in Recipients, Reached(r), RowsStay,
         inbox'[r] = inbox[r], seen'[r] = seen[r], ack'[r] = ack[r], hist'[r] = hist[r],
         r \in online <=> r \in online'
  PROVE  Reached(r)'
<1>1. \A m \in Msgs : Exists(m) => Exists(m)'
  BY DEF RowsStay, Exists
<1>2. /\ \A i \in 1 .. Len(inbox[r]) : inbox[r][i].msg \in Msgs
      /\ seen[r] \subseteq Msgs /\ (ack[r] # NoMsg => ack[r] \in Msgs)
  <2>1. inbox[r] \in Seq(Event)
    BY DEF Typed
  <2>2. \A i \in 1 .. Len(inbox[r]) : inbox[r][i] \in Event
    BY <2>1
  <2> QED
    BY <2>2 DEF Typed, Event
<1> QED
  BY <1>1, <1>2 DEF Reached

\* A handler's step that changes nothing of the recipients.
LEMMA HandlerStepKeeps ==
  ASSUME MessageInv, NEW p \in Handlers, NEW to \in HSet, h' = [h EXCEPT ![p] = to], RowsStay,
         told' \in [Msgs -> Status \cup {"none"}],
         UNCHANGED <<online, inbox, seen, ack, hist, accepted>>,
         InHand(p)', \A m \in Msgs : Unmade(m)', DeliveredWasAccepted'
  PROVE  MessageInv'
<1>1. Typed /\ HandlerMoves(p, to)
  BY Moved DEF MessageInv
<1>2. Typed'
  BY <1>1 DEF Typed, HandlerMoves, RowsStay
<1>3. \A q \in Handlers : InHand(q)'
  <2>1. ASSUME NEW q \in Handlers, q # p PROVE InHand(q)'
    <3>1. h'[q] = h[q] /\ InHand(q)
      BY <1>1, <2>1 DEF HandlerMoves, MessageInv
    <3> QED
      BY <1>1, <3>1, HandStays
  <2> QED
    BY <2>1
<1>4. \A r \in Recipients : Reached(r)'
  BY <1>1, ReachedStays DEF MessageInv
<1> QED
  BY <1>2, <1>3, <1>4 DEF MessageInv

\* A message is created by a handler that will offer it.
LEMMA CreateKeeps ==
  ASSUME MessageInv, NEW p \in Handlers, NEW m \in Msgs, NEW k \in Kinds, NEW to \in SUBSET Recipients,
         Create(p, m, k, to)
  PROVE  MessageInv'
<1>0. Typed /\ Unmade(m) /\ DeliveredWasAccepted /\ m # NoMsg
  BY MessagesAssumption DEF MessageInv
<1>1. PICK s : s = [step |-> IF k = "forward" THEN "probe" ELSE "offer", msg |-> m,
                    event |-> "message", left |-> to, sent |-> FALSE]
  OBVIOUS
<1>2. PICK new : new = [NoRow EXCEPT !.kind = k, !.to = to]
  OBVIOUS
<1>3. /\ ~Exists(m) /\ h' = [h EXCEPT ![p] = s] /\ row' = [row EXCEPT ![m] = new]
      /\ UNCHANGED <<online, inbox, seen, ack, hist, told, accepted>>
  BY <1>1, <1>2 DEF Create, Start
<1>4. /\ s \in HSet /\ s.step \in {"probe", "offer"} /\ s.msg = m /\ s.event = "message"
      /\ s.left = to /\ s.sent = FALSE /\ (s.step = "probe" => k = "forward")
  BY <1>1 DEF HSet
<1>5. /\ new \in RowSet /\ new.kind = k /\ new.to = to /\ new.status = "sent"
      /\ new.deleted = FALSE /\ k # "none"
  <2>1. 0 \in 0 .. MaxEdits
    BY MessagesAssumption
  <2> QED
    BY <1>2, <2>1 DEF RowSet, NoRow, Kinds, Status
<1>6. /\ row' \in [Msgs -> RowSet] /\ row'[m] = new
      /\ \A n \in Msgs : n # m => row'[n] = row[n]
  BY <1>0, <1>3, <1>5 DEF Typed
<1>7. RowsStay
  BY <1>3, <1>6 DEF RowsStay
<1>8. h'[p] = s
  BY <1>0, <1>3 DEF Typed
<1>9. InHand(p)'
  BY <1>0, <1>4, <1>5, <1>6, <1>8 DEF InHand, Exists
<1>10. \A n \in Msgs : Unmade(n)'
  BY <1>3, <1>5, <1>6 DEF MessageInv, Unmade, Exists
<1>11. DeliveredWasAccepted'
  <2>1. told[m] = "none"
    BY <1>0, <1>3 DEF Unmade
  <2> QED
    BY <1>0, <1>3, <1>5, <1>6, <2>1 DEF DeliveredWasAccepted
<1>12. told' \in [Msgs -> Status \cup {"none"}]
  BY <1>0, <1>3 DEF Typed
<1> QED
  BY <1>3, <1>4, <1>7, <1>9, <1>10, <1>11, <1>12, HandlerStepKeeps

\* A message to the bot is created with its ack due.
LEMMA CreateForBotKeeps ==
  ASSUME MessageInv, NEW p \in Handlers, NEW m \in Msgs, CreateForBot(p, m)
  PROVE  MessageInv'
<1>0. Typed /\ Unmade(m) /\ DeliveredWasAccepted /\ m # NoMsg
  BY MessagesAssumption DEF MessageInv
<1>1. PICK s : s = [step |-> "ack", msg |-> m, event |-> "message", left |-> {}, sent |-> TRUE]
  OBVIOUS
<1>2. PICK new : new = [NoRow EXCEPT !.kind = "bot"]
  OBVIOUS
<1>3. /\ ~Exists(m) /\ h' = [h EXCEPT ![p] = s] /\ row' = [row EXCEPT ![m] = new]
      /\ UNCHANGED <<online, inbox, seen, ack, hist, told, accepted>>
  BY <1>1, <1>2 DEF CreateForBot
<1>4. /\ s \in HSet /\ s.step = "ack" /\ s.msg = m /\ s.event = "message" /\ s.left = {}
  BY <1>1 DEF HSet
<1>5. new \in RowSet /\ new.kind = "bot" /\ new.status = "sent" /\ new.deleted = FALSE
  <2>1. 0 \in 0 .. MaxEdits
    BY MessagesAssumption
  <2> QED
    BY <1>2, <2>1 DEF RowSet, NoRow, Kinds, Status
<1>6. /\ row' \in [Msgs -> RowSet] /\ row'[m] = new
      /\ \A n \in Msgs : n # m => row'[n] = row[n]
  BY <1>0, <1>3, <1>5 DEF Typed
<1>7. RowsStay
  BY <1>3, <1>6 DEF RowsStay
<1>8. h'[p] = s
  BY <1>0, <1>3 DEF Typed
<1>9. InHand(p)'
  BY <1>0, <1>4, <1>5, <1>6, <1>8 DEF InHand, Exists
<1>10. \A n \in Msgs : Unmade(n)'
  BY <1>3, <1>5, <1>6 DEF MessageInv, Unmade, Exists
<1>11. DeliveredWasAccepted'
  BY <1>0, <1>3, <1>5, <1>6 DEF DeliveredWasAccepted
<1>12. told' \in [Msgs -> Status \cup {"none"}]
  BY <1>0, <1>3 DEF Typed
<1> QED
  BY <1>3, <1>4, <1>7, <1>9, <1>10, <1>11, <1>12, HandlerStepKeeps

\* Nothing is said of the outcome of a send by the other steps of a handler that
\* leave the table alone.
LEMMA QuietHandler ==
  ASSUME MessageInv, NEW p \in Handlers, NEW to \in HSet, h' = [h EXCEPT ![p] = to],
         UNCHANGED <<row, online, inbox, seen, ack, hist, told, accepted>>,
         InHand(p)'
  PROVE  MessageInv'
<1>1. RowsStay /\ told' \in [Msgs -> Status \cup {"none"}]
  BY DEF RowsStay, MessageInv, Typed
<1>2. (\A m \in Msgs : Unmade(m)') /\ DeliveredWasAccepted'
  BY DEF MessageInv, Unmade, Exists, DeliveredWasAccepted
<1> QED
  BY <1>1, <1>2, HandlerStepKeeps

\* A forward looks who is online.
LEMMA ProbeKeeps ==
  ASSUME MessageInv, NEW p \in Handlers, Probe(p)
  PROVE  MessageInv'
<1>0. Typed /\ InHand(p) /\ h[p] \in HSet /\ h[p].step = "probe"
  BY DEF MessageInv, Typed, Probe
<1>1. PICK up : up = h[p].left \cap online
  OBVIOUS
<1>2. PICK s : s = [h[p] EXCEPT !.step = "offer", !.left = up, !.sent = up # {}]
  OBVIOUS
<1>3. /\ h' = [h EXCEPT ![p] = s]
      /\ UNCHANGED <<row, online, inbox, seen, ack, hist, told, accepted>>
  BY <1>1, <1>2 DEF Probe
<1>4. /\ s \in HSet /\ s.step = "offer" /\ s.msg = h[p].msg /\ s.event = h[p].event
      /\ s.left \subseteq h[p].left
  BY <1>0, <1>1, <1>2 DEF HSet
<1>5. h'[p] = s
  BY <1>0, <1>3 DEF Typed
<1>6. InHand(p)'
  BY <1>0, <1>3, <1>4, <1>5 DEF InHand, Exists
<1> QED
  BY <1>3, <1>4, <1>6, QuietHandler

\* A send is offered to one recipient; the buffer that takes it has room.
LEMMA OfferKeeps ==
  ASSUME MessageInv, NEW p \in Handlers, NEW r \in Recipients, Offer(p, r)
  PROVE  MessageInv'
<1>0. /\ Typed /\ InHand(p) /\ Reached(r) /\ h[p] \in HSet /\ h[p].step \in {"offer", "event"}
      /\ r \in h[p].left /\ inbox[r] \in Seq(Event) /\ Cap \in Nat
  BY MessagesAssumption DEF MessageInv, Typed, Offer
<1>1. PICK got : got = Reaches(r)
  OBVIOUS
<1>2. PICK s : s = [h[p] EXCEPT !.left = @ \ {r}, !.sent = @ \/ got]
  OBVIOUS
<1>3. PICK e : e = [type |-> h[p].event, msg |-> h[p].msg]
  OBVIOUS
<1>4. /\ h' = [h EXCEPT ![p] = s]
      /\ inbox' = IF got THEN [inbox EXCEPT ![r] = Append(@, e)] ELSE inbox
      /\ accepted' = IF h[p].event = "message" /\ got
                     THEN accepted \cup {<<h[p].msg, r>>} ELSE accepted
      /\ UNCHANGED <<row, online, seen, ack, hist, told>>
  BY <1>1, <1>2, <1>3 DEF Offer, Queue
<1>5. h[p].msg \in Msgs /\ Exists(h[p].msg) /\ h[p].event \in {"message", "edited", "deleted"}
  BY <1>0 DEF InHand, HSet
<1>6. got \in BOOLEAN /\ (got => r \in online /\ Len(inbox[r]) < Cap)
  BY <1>1 DEF Reaches
<1>7. /\ s \in HSet /\ s.step = h[p].step /\ s.msg = h[p].msg /\ s.event = h[p].event
      /\ s.left \subseteq h[p].left /\ (s.sent <=> h[p].sent \/ got)
  BY <1>0, <1>2, <1>6 DEF HSet
<1>8. e \in Event /\ e.msg = h[p].msg
  BY <1>3, <1>5 DEF Event
<1>9. HandlerMoves(p, s) /\ RowsStay /\ accepted \subseteq accepted'
  BY <1>0, <1>4, <1>7, Moved DEF RowsStay, Typed
<1>10. /\ inbox' \in [Recipients -> Seq(Event)]
       /\ inbox'[r] = IF got THEN Append(inbox[r], e) ELSE inbox[r]
       /\ \A x \in Recipients : x # r => inbox'[x] = inbox[x]
  <2>1. Append(inbox[r], e) \in Seq(Event)
    BY <1>0, <1>8
  <2> QED
    BY <1>0, <1>4, <2>1 DEF Typed
<1>11. Typed'
  <2>1. accepted' \subseteq Msgs \X Recipients
    BY <1>0, <1>4, <1>5 DEF Typed
  <2> QED
    BY <1>0, <1>4, <1>9, <1>10, <2>1 DEF Typed, HandlerMoves, RowsStay
<1>12. InHand(p)'
  <2>1. h'[p] = s
    BY <1>9 DEF HandlerMoves
  <2>2. h[p].step \in {"offer", "ack"} /\ s.sent /\ row[h[p].msg].kind \in {"dm", "group"}
          => \E x \in row[h[p].msg].to : <<h[p].msg, x>> \in accepted'
    <3>1. CASE h[p].sent
      BY <1>0, <1>9, <3>1 DEF InHand
    <3>2. CASE got
      <4>1. h[p].left \subseteq row[h[p].msg].to
        BY <1>0 DEF InHand
      <4>2. h[p].step = "offer" => <<h[p].msg, r>> \in accepted'
        BY <1>0, <1>4, <3>2 DEF InHand
      <4> QED
        BY <1>0, <4>1, <4>2
    <3> QED
      BY <1>7, <3>1, <3>2
  <2> QED
    BY <1>0, <1>4, <1>7, <2>1, <2>2 DEF InHand, Exists
<1>13. \A q \in Handlers : InHand(q)'
  <2>1. ASSUME NEW q \in Handlers, q # p PROVE InHand(q)'
    <3>1. h'[q] = h[q] /\ InHand(q)
      BY <1>9, <2>1 DEF HandlerMoves, MessageInv
    <3> QED
      BY <1>0, <1>9, <3>1, HandStays
  <2> QED
    BY <1>12, <2>1
<1>14. \A x \in Recipients : Reached(x)'
  <2>1. ASSUME NEW x \in Recipients, x # r PROVE Reached(x)'
    <3>1. Reached(x) /\ inbox'[x] = inbox[x]
      BY <1>10, <2>1 DEF MessageInv
    <3> QED
      BY <1>0, <1>4, <1>9, <3>1, ReachedStays
  <2>2. Reached(r)'
    <3>1. CASE ~got
      BY <1>0, <1>4, <1>9, <1>10, <3>1, ReachedStays
    <3>2. CASE got
      <4>1. /\ Len(inbox'[r]) = Len(inbox[r]) + 1 /\ Len(inbox[r]) \in Nat
            /\ \A i \in 1 .. Len(inbox[r]) : inbox'[r][i] = inbox[r][i]
            /\ inbox'[r][Len(inbox[r]) + 1] = e
        BY <1>0, <1>8, <1>10, <3>2
      <4>2. \A i \in 1 .. Len(inbox'[r]) : Exists(inbox'[r][i].msg)
        <5>1. ASSUME NEW i \in 1 .. Len(inbox'[r]) PROVE Exists(inbox'[r][i].msg)
          <6>1. i \in 1 .. Len(inbox[r]) \/ i = Len(inbox[r]) + 1
            BY <4>1
          <6> QED
            BY <1>0, <1>5, <1>8, <4>1, <6>1 DEF Reached
        <5> QED
          BY <5>1
      <4>3. Len(inbox'[r]) <= Cap
        BY <1>0, <1>6, <3>2, <4>1
      <4> QED
        BY <1>0, <1>4, <1>6, <3>2, <4>2, <4>3 DEF Reached, Exists
    <3> QED
      BY <3>1, <3>2
  <2> QED
    BY <2>1, <2>2
<1>15. (\A m \in Msgs : Unmade(m)') /\ DeliveredWasAccepted'
  <2>1. ASSUME NEW m \in Msgs, row[m].kind \in {"dm", "group"},
               row[m].status = "delivered" \/ told[m] = "delivered"
        PROVE  \E x \in row[m].to : <<m, x>> \in accepted'
    <3>1. \E x \in row[m].to : <<m, x>> \in accepted
      BY <2>1 DEF MessageInv, DeliveredWasAccepted
    <3> QED
      BY <1>9, <3>1
  <2> QED
    BY <1>4, <2>1 DEF MessageInv, Unmade, Exists, DeliveredWasAccepted
<1> QED
  BY <1>11, <1>13, <1>14, <1>15 DEF MessageInv

\* The outcome of a send is written,
LEMMA UpdateKeeps ==
  ASSUME MessageInv, NEW p \in Handlers, Update(p)
  PROVE  MessageInv'
<1>0. /\ Typed /\ InHand(p) /\ h[p] \in HSet /\ h[p].step = "offer"
      /\ h[p].msg \in Msgs /\ Exists(h[p].msg)
  BY DEF MessageInv, Typed, Update, InHand, HSet
<1>m. PICK m \in Msgs : m = h[p].msg
  BY <1>0
<1>1. PICK s : s = [h[p] EXCEPT !.step = "ack"]
  OBVIOUS
<1>2. /\ s \in HSet /\ s.step = "ack" /\ s.msg = m /\ s.event = h[p].event
      /\ s.left = h[p].left /\ s.sent = h[p].sent
  BY <1>0, <1>m, <1>1 DEF HSet
<1>3. /\ h' = [h EXCEPT ![p] = s]
      /\ row' = IF h[p].sent THEN [row EXCEPT ![m].status = "delivered"] ELSE row
      /\ UNCHANGED <<online, inbox, seen, ack, hist, told, accepted>>
  BY <1>m, <1>1 DEF Update, SetDelivered
<1>4. /\ row' \in [Msgs -> RowSet]
      /\ row'[m].status = IF h[p].sent THEN "delivered" ELSE row[m].status
      /\ \A n \in Msgs : /\ n # m => row'[n] = row[n]
                         /\ row'[n].kind = row[n].kind /\ row'[n].to = row[n].to
                         /\ row'[n].deleted = row[n].deleted
  <2>1. row \in [Msgs -> RowSet] /\ row[m] \in RowSet
    BY <1>0 DEF Typed
  <2>2. PICK done : done = [row[m] EXCEPT !.status = "delivered"]
    OBVIOUS
  <2>3. /\ done \in RowSet /\ done.status = "delivered" /\ done.kind = row[m].kind
        /\ done.to = row[m].to /\ done.deleted = row[m].deleted
    BY <2>1, <2>2 DEF RowSet, Status
  <2>4. row' = IF h[p].sent THEN [row EXCEPT ![m] = done] ELSE row
    BY <1>3, <2>2
  <2> QED
    BY <2>1, <2>3, <2>4
<1>5. RowsStay /\ told' \in [Msgs -> Status \cup {"none"}]
  BY <1>0, <1>3, <1>4 DEF RowsStay, Typed
<1>6. InHand(p)'
  <2>1. h'[p] = s
    BY <1>0, <1>3 DEF Typed
  <2>2. row'[m].kind = row[m].kind /\ row'[m].to = row[m].to /\ accepted' = accepted
    BY <1>3, <1>4
  <2>3. /\ m # NoMsg /\ h[p].event = "message" /\ Exists(m) /\ s.left \subseteq row[m].to
        /\ (s.sent /\ row[m].kind \in {"dm", "group"} => \E r \in row[m].to : <<m, r>> \in accepted)
    BY <1>0, <1>m, <1>2 DEF InHand
  <2> QED
    BY <1>2, <2>1, <2>2, <2>3 DEF InHand, Exists
<1>7. \A n \in Msgs : Unmade(n)'
  BY <1>0, <1>m, <1>3, <1>4 DEF MessageInv, Unmade, Exists
<1>8. DeliveredWasAccepted'
  <2>1. row[m].kind \in {"dm", "group"} /\ h[p].sent => \E r \in row[m].to : <<m, r>> \in accepted
    BY <1>0, <1>m DEF InHand
  <2> QED
    BY <1>3, <1>4, <2>1 DEF MessageInv, DeliveredWasAccepted
<1> QED
  BY <1>2, <1>3, <1>5, <1>6, <1>7, <1>8, HandlerStepKeeps

\* and the sender is told.
LEMMA AckKeeps ==
  ASSUME MessageInv, NEW p \in Handlers, Ack(p)
  PROVE  MessageInv'
<1>0. /\ Typed /\ InHand(p) /\ h[p] \in HSet /\ h[p].step = "ack"
      /\ h[p].msg \in Msgs /\ Exists(h[p].msg)
  BY DEF MessageInv, Typed, Ack, InHand, HSet
<1>m. PICK m \in Msgs : m = h[p].msg
  BY <1>0
<1>1. PICK s : s = IdleH
  OBVIOUS
<1>2. s \in HSet /\ s.step = "idle" /\ s.msg = NoMsg
  BY <1>1 DEF IdleH, HSet
<1>3. PICK st : st = IF p \in WsPumps /\ h[p].sent THEN "delivered" ELSE "sent"
  OBVIOUS
<1>4. /\ h' = [h EXCEPT ![p] = s] /\ told' = [told EXCEPT ![m] = st]
      /\ UNCHANGED <<row, online, inbox, seen, ack, hist, accepted>>
  BY <1>m, <1>1, <1>3 DEF Ack
<1>5. /\ told' \in [Msgs -> Status \cup {"none"}] /\ told'[m] = st
      /\ \A n \in Msgs : n # m => told'[n] = told[n]
  BY <1>0, <1>3, <1>4 DEF Typed, Status
<1>6. RowsStay /\ \A n \in Msgs : Unmade(n)'
  BY <1>0, <1>m, <1>4, <1>5 DEF RowsStay, Typed, MessageInv, Unmade, Exists
<1>7. InHand(p)'
  <2>1. h'[p] = s
    BY <1>0, <1>4 DEF Typed
  <2> QED
    BY <1>2, <2>1 DEF InHand
<1>8. DeliveredWasAccepted'
  <2>1. row[m].kind \in {"dm", "group"} /\ st = "delivered" => \E r \in row[m].to : <<m, r>> \in accepted
    BY <1>0, <1>m, <1>3 DEF InHand
  <2> QED
    BY <1>4, <1>5, <2>1 DEF MessageInv, DeliveredWasAccepted
<1> QED
  BY <1>2, <1>4, <1>5, <1>6, <1>7, <1>8, HandlerStepKeeps

\* An edit or a deletion starts on a message that is in the table.
LEMMA FindKeeps ==
  ASSUME MessageInv, NEW p \in Handlers, NEW m \in Msgs, EditFind(p, m) \/ DeleteFind(p, m)
  PROVE  MessageInv'
<1>0. Typed /\ Exists(m) /\ m # NoMsg /\ row[m].to \subseteq Recipients
  BY MessagesAssumption DEF MessageInv, EditFind, DeleteFind, Typed, RowSet
<1>1. PICK step \in {"edit", "erase"} : \E event \in {"edited", "deleted"} :
        /\ step = "edit" => event = "edited"
        /\ step = "erase" => event = "deleted"
        /\ Start(p, m, step, event, row[m].to)
        /\ UNCHANGED <<row, online, inbox, seen, ack, hist, told, accepted>>
  BY DEF EditFind, DeleteFind
<1>2. PICK event \in {"edited", "deleted"} :
        /\ step = "edit" => event = "edited"
        /\ step = "erase" => event = "deleted"
        /\ Start(p, m, step, event, row[m].to)
        /\ UNCHANGED <<row, online, inbox, seen, ack, hist, told, accepted>>
  BY <1>1
<1>3. PICK s : s = [step |-> step, msg |-> m, event |-> event, left |-> row[m].to, sent |-> FALSE]
  OBVIOUS
<1>4. /\ s \in HSet /\ s.step = step /\ s.msg = m /\ s.event = event /\ s.left = row[m].to
      /\ s.sent = FALSE
  BY <1>0, <1>3 DEF HSet
<1>5. h' = [h EXCEPT ![p] = s] /\ h'[p] = s
  BY <1>0, <1>2, <1>3 DEF Start, Typed
<1>6. InHand(p)'
  BY <1>0, <1>2, <1>4, <1>5 DEF InHand, Exists
<1> QED
  BY <1>2, <1>4, <1>5, <1>6, QuietHandler

\* Its row is written.
LEMMA WriteKeeps ==
  ASSUME MessageInv, NEW p \in Handlers, EditWrite(p) \/ DeleteWrite(p)
  PROVE  MessageInv'
<1>0. /\ Typed /\ InHand(p) /\ h[p] \in HSet /\ h[p].step \in {"edit", "erase"}
      /\ h[p].msg \in Msgs /\ Exists(h[p].msg)
  BY DEF MessageInv, Typed, EditWrite, DeleteWrite, InHand, HSet
<1>m. PICK m \in Msgs : m = h[p].msg
  BY <1>0
<1>1. PICK s : s = [h[p] EXCEPT !.step = "event"]
  OBVIOUS
<1>2. /\ s \in HSet /\ s.step = "event" /\ s.msg = m /\ s.event = h[p].event
      /\ s.left = h[p].left
  BY <1>0, <1>m, <1>1 DEF HSet
<1>3. /\ h' = [h EXCEPT ![p] = s]
      /\ UNCHANGED <<online, inbox, seen, ack, hist, told, accepted>>
  BY <1>1 DEF EditWrite, DeleteWrite
<1>4. PICK new \in RowSet :
        /\ row' = [row EXCEPT ![m] = new]
        /\ new.kind = row[m].kind /\ new.to = row[m].to /\ new.status = row[m].status
  <2>0. row[m] \in RowSet
    BY <1>0 DEF Typed
  <2>1. CASE EditWrite(p)
    <3>1. PICK new : new = [row[m] EXCEPT !.edits = @ + 1]
      OBVIOUS
    <3>2. row[m].edits + 1 \in 0 .. MaxEdits
      BY <1>m, <2>0, <2>1, MessagesAssumption DEF EditWrite, RowSet
    <3>3. row' = [row EXCEPT ![m] = new]
      BY <1>m, <2>1, <3>1 DEF EditWrite
    <3>4. /\ new \in RowSet /\ new.kind = row[m].kind /\ new.to = row[m].to
          /\ new.status = row[m].status
      BY <2>0, <3>1, <3>2 DEF RowSet
    <3> QED
      BY <3>3, <3>4
  <2>2. CASE DeleteWrite(p)
    <3>1. PICK new : new = [row[m] EXCEPT !.deleted = TRUE]
      OBVIOUS
    <3>2. row' = [row EXCEPT ![m] = new]
      BY <1>m, <2>2, <3>1 DEF DeleteWrite
    <3>3. /\ new \in RowSet /\ new.kind = row[m].kind /\ new.to = row[m].to
          /\ new.status = row[m].status
      BY <2>0, <3>1 DEF RowSet
    <3> QED
      BY <3>2, <3>3
  <2> QED
    BY <2>1, <2>2
<1>5. /\ row' \in [Msgs -> RowSet] /\ row'[m] = new
      /\ \A n \in Msgs : n # m => row'[n] = row[n]
  BY <1>0, <1>4 DEF Typed
<1>6. RowsStay /\ told' \in [Msgs -> Status \cup {"none"}]
  BY <1>0, <1>3, <1>4, <1>5 DEF RowsStay, Typed
<1>7. InHand(p)'
  <2>1. h'[p] = s
    BY <1>0, <1>3 DEF Typed
  <2>2. row'[m].kind = row[m].kind /\ row'[m].to = row[m].to
    BY <1>4, <1>5
  <2>3. /\ m # NoMsg /\ h[p].event \in {"edited", "deleted"} /\ Exists(m)
        /\ s.left \subseteq row[m].to
    BY <1>0, <1>m, <1>2 DEF InHand
  <2> QED
    BY <1>2, <2>1, <2>2, <2>3 DEF InHand, Exists
<1>8. \A n \in Msgs : Unmade(n)'
  BY <1>0, <1>m, <1>3, <1>4, <1>5 DEF MessageInv, Unmade, Exists
<1>9. DeliveredWasAccepted'
  BY <1>3, <1>4, <1>5 DEF MessageInv, DeliveredWasAccepted
<1> QED
  BY <1>2, <1>3, <1>6, <1>7, <1>8, <1>9, HandlerStepKeeps

\* The handler is done when its event has been offered to all.
LEMMA EventDoneKeeps ==
  ASSUME MessageInv, NEW p \in Handlers, EventDone(p)
  PROVE  MessageInv'
<1>1. PICK s : s = IdleH
  OBVIOUS
<1>2. s \in HSet /\ s.step = "idle" /\ s.msg = NoMsg
  BY <1>1 DEF IdleH, HSet
<1>3. /\ h' = [h EXCEPT ![p] = s]
      /\ UNCHANGED <<row, online, inbox, seen, ack, hist, told, accepted>>
  BY <1>1 DEF EventDone
<1>4. h'[p] = s
  BY <1>3 DEF MessageInv, Typed
<1>5. InHand(p)'
  BY <1>2, <1>4 DEF InHand
<1> QED
  BY <1>2, <1>3, <1>5, QuietHandler

----------------------------------------------------------------------------
(* The steps of a recipient.                                                *)

\* A recipient's step changes his own things, and of the rows only statuses, to
\* "read"; the sender is told nothing but "read" either.
LEMMA RecipientStepKeeps ==
  ASSUME MessageInv, NEW r \in Recipients, UNCHANGED <<h, accepted>>, RowsStay,
         \A m \in Msgs : /\ row'[m].deleted = row[m].deleted
                         /\ row'[m].status \in {row[m].status, "read"}
                         /\ ~Exists(m) => row'[m] = row[m] /\ told'[m] = told[m]
                         /\ told'[m] \in {told[m], "read"},
         told' \in [Msgs -> Status \cup {"none"}],
         online' \subseteq Recipients, inbox' \in [Recipients -> Seq(Event)],
         seen' \in [Recipients -> SUBSET Msgs], ack' \in [Recipients -> Msgs \cup {NoMsg}],
         hist' \in [Recipients -> SUBSET (Msgs \cup {NoMsg})],
         \A x \in Recipients : x # r =>
           /\ inbox'[x] = inbox[x] /\ seen'[x] = seen[x] /\ ack'[x] = ack[x]
           /\ hist'[x] = hist[x] /\ (x \in online <=> x \in online'),
         Reached(r)'
  PROVE  MessageInv'
<1>1. Typed /\ Typed'
  BY DEF MessageInv, Typed, RowsStay
<1>2. \A p \in Handlers : InHand(p)'
  BY <1>1, HandStays DEF MessageInv
<1>3. \A x \in Recipients : Reached(x)'
  <2>1. ASSUME NEW x \in Recipients, x # r PROVE Reached(x)'
    <3>1. Reached(x)
      BY DEF MessageInv
    <3> QED
      BY <1>1, <2>1, <3>1, ReachedStays
  <2> QED
    BY <2>1
<1>4. \A m \in Msgs : Unmade(m)'
  <2>1. ASSUME NEW m \in Msgs, ~Exists(m)' PROVE Unmade(m)'
    <3>1. ~Exists(m) /\ Unmade(m)
      BY <2>1 DEF RowsStay, Exists, MessageInv
    <3> QED
      BY <3>1 DEF Unmade
  <2> QED
    BY <2>1 DEF Unmade
<1>5. DeliveredWasAccepted'
  <2>1. ASSUME NEW m \in Msgs, row'[m].kind \in {"dm", "group"},
               row'[m].status = "delivered" \/ told'[m] = "delivered"
        PROVE  \E x \in row'[m].to : <<m, x>> \in accepted'
    <3>1. row[m].status = "delivered" \/ told[m] = "delivered"
      BY <2>1
    <3>2. Exists(m)
      BY <2>1 DEF Exists
    <3>3. row'[m].kind = row[m].kind /\ row'[m].to = row[m].to
      BY <3>2 DEF RowsStay
    <3> QED
      BY <2>1, <3>1, <3>3 DEF MessageInv, DeliveredWasAccepted
  <2> QED
    BY <2>1 DEF DeliveredWasAccepted
<1> QED
  BY <1>1, <1>2, <1>3, <1>4, <1>5 DEF MessageInv

\* A recipient connects, or his connection ends with its buffer.
LEMMA ConnectionKeeps ==
  ASSUME MessageInv, NEW r \in Recipients, Connect(r) \/ Disconnect(r)
  PROVE  MessageInv'
<1>0. Typed /\ Reached(r) /\ Cap \in Nat
  BY MessagesAssumption DEF MessageInv
<1>1. UNCHANGED <<row, h, seen, ack, hist, told, accepted>>
  BY DEF Connect, Disconnect
<1>2. RowsStay /\ told' \in [Msgs -> Status \cup {"none"}]
  BY <1>0, <1>1 DEF RowsStay, Typed
<1>3. /\ online' \subseteq Recipients /\ inbox' \in [Recipients -> Seq(Event)]
      /\ \A x \in Recipients : x # r => inbox'[x] = inbox[x] /\ (x \in online <=> x \in online')
      /\ (inbox'[r] = inbox[r] /\ r \in online') \/ inbox'[r] = << >>
  <2>1. << >> \in Seq(Event)
    OBVIOUS
  <2> QED
    BY <1>0, <2>1 DEF Connect, Disconnect, Typed
<1>4. Reached(r)'
  <2>1. /\ \A i \in 1 .. Len(inbox'[r]) : Exists(inbox'[r][i].msg)
        /\ Len(inbox'[r]) <= Cap
        /\ r \notin online' => inbox'[r] = << >>
    <3>1. CASE inbox'[r] = << >>
      BY <1>0, <3>1
    <3>2. CASE inbox'[r] = inbox[r] /\ r \in online'
      BY <1>0, <3>2 DEF Reached
    <3> QED
      BY <1>3, <3>1, <3>2
  <2> QED
    BY <1>0, <1>1, <2>1 DEF Reached, Exists
<1> QED
  BY <1>0, <1>1, <1>2, <1>3, <1>4, RecipientStepKeeps DEF Typed

\* The next event of his buffer reaches his client.
LEMMA ReceiveKeeps ==
  ASSUME MessageInv, NEW r \in Recipients, Receive(r)
  PROVE  MessageInv'
<1>0. /\ Typed /\ Reached(r) /\ Cap \in Nat /\ inbox[r] \in Seq(Event) /\ inbox[r] # << >>
      /\ UNCHANGED <<row, h, online, ack, hist, told, accepted>>
  BY MessagesAssumption DEF MessageInv, Typed, Receive
<1>1. PICK e : e = Head(inbox[r])
  OBVIOUS
<1>2. e \in Event /\ e.msg \in Msgs /\ e = inbox[r][1]
  <2>1. e = inbox[r][1] /\ 1 \in 1 .. Len(inbox[r])
    BY <1>0, <1>1
  <2>2. e \in Event
    BY <1>0, <2>1
  <2> QED
    BY <2>1, <2>2 DEF Event
<1>3. /\ inbox' = [inbox EXCEPT ![r] = Tail(@)]
      /\ seen' = IF e.type = "message" THEN [seen EXCEPT ![r] = @ \cup {e.msg}] ELSE seen
  BY <1>1 DEF Receive
<1>4. /\ Tail(inbox[r]) \in Seq(Event) /\ Len(Tail(inbox[r])) = Len(inbox[r]) - 1
      /\ Len(inbox[r]) \in Nat \ {0}
      /\ \A i \in 1 .. Len(Tail(inbox[r])) : Tail(inbox[r])[i] = inbox[r][i + 1]
  BY <1>0
<1>5. /\ inbox' \in [Recipients -> Seq(Event)] /\ inbox'[r] = Tail(inbox[r])
      /\ \A x \in Recipients : x # r => inbox'[x] = inbox[x]
  BY <1>0, <1>3, <1>4 DEF Typed
<1>6. /\ seen' \in [Recipients -> SUBSET Msgs] /\ seen'[r] \subseteq seen[r] \cup {e.msg}
      /\ \A x \in Recipients : x # r => seen'[x] = seen[x]
  <2>1. seen[r] \cup {e.msg} \in SUBSET Msgs /\ seen \in [Recipients -> SUBSET Msgs]
    BY <1>0, <1>2 DEF Typed
  <2> QED
    BY <1>3, <2>1
<1>7. RowsStay /\ told' \in [Msgs -> Status \cup {"none"}]
  BY <1>0 DEF RowsStay, Typed
<1>8. Exists(e.msg)
  BY <1>0, <1>2, <1>4 DEF Reached
<1>9. \A i \in 1 .. Len(inbox'[r]) : Exists(inbox'[r][i].msg)
  <2>1. ASSUME NEW i \in 1 .. Len(inbox'[r]) PROVE Exists(inbox'[r][i].msg)
    <3>1. i + 1 \in 1 .. Len(inbox[r]) /\ inbox'[r][i] = inbox[r][i + 1]
      BY <1>4, <1>5
    <3> QED
      BY <1>0, <3>1 DEF Reached
  <2> QED
    BY <2>1
<1>10. /\ Len(inbox'[r]) <= Cap
       /\ r \in online'
  BY <1>0, <1>4, <1>5 DEF Reached
<1>11. Reached(r)'
  BY <1>0, <1>6, <1>8, <1>9, <1>10 DEF Reached, Exists
<1> QED
  BY <1>0, <1>5, <1>6, <1>7, <1>11, RecipientStepKeeps DEF Typed

\* He acknowledges a message he has seen, and its sender may be told.
LEMMA AckReadKeeps ==
  ASSUME MessageInv, NEW r \in Recipients, NEW m \in Msgs, AckRead(r, m)
  PROVE  MessageInv'
<1>0. /\ Typed /\ Reached(r) /\ m \in seen[r] /\ row[m] \in RowSet
      /\ ack' = [ack EXCEPT ![r] = m]
      /\ UNCHANGED <<h, online, inbox, seen, hist, told, accepted>>
  BY DEF MessageInv, Typed, AckRead
<1>1. Exists(m)
  BY <1>0 DEF Reached
<1>2. PICK read : read = [row[m] EXCEPT !.status = "read"]
  OBVIOUS
<1>3. /\ read \in RowSet /\ read.kind = row[m].kind /\ read.to = row[m].to
      /\ read.deleted = row[m].deleted /\ read.status = "read"
  BY <1>0, <1>2 DEF RowSet, Status
<1>4. row' = [row EXCEPT ![m] = read] \/ row' = row
  BY <1>2 DEF AckRead, MarkRead
<1>5. /\ row' \in [Msgs -> RowSet] /\ row'[m] \in {row[m], read}
      /\ \A n \in Msgs : n # m => row'[n] = row[n]
  BY <1>0, <1>3, <1>4 DEF Typed
<1>6. RowsStay /\ told' \in [Msgs -> Status \cup {"none"}]
  BY <1>0, <1>3, <1>5 DEF RowsStay, Typed
<1>7. /\ ack' \in [Recipients -> Msgs \cup {NoMsg}] /\ ack'[r] = m
      /\ \A x \in Recipients : x # r => ack'[x] = ack[x]
  BY <1>0 DEF Typed
<1>8. \A n \in Msgs : /\ row'[n].deleted = row[n].deleted
                      /\ row'[n].status \in {row[n].status, "read"}
                      /\ ~Exists(n) => row'[n] = row[n] /\ told'[n] = told[n]
                      /\ told'[n] \in {told[n], "read"}
  BY <1>0, <1>1, <1>3, <1>5
<1>9. Reached(r)'
  <2>1. \A n \in Msgs : Exists(n) => Exists(n)'
    BY <1>6 DEF RowsStay, Exists
  <2>2. \A i \in 1 .. Len(inbox[r]) : inbox[r][i].msg \in Msgs
    <3>1. inbox[r] \in Seq(Event)
      BY <1>0 DEF Typed
    <3>2. \A i \in 1 .. Len(inbox[r]) : inbox[r][i] \in Event
      BY <3>1
    <3> QED
      BY <3>2 DEF Event
  <2>3. seen[r] \subseteq Msgs
    BY <1>0 DEF Typed
  <2> QED
    BY <1>0, <1>1, <1>7, <2>1, <2>2, <2>3 DEF Reached
<1> QED
  BY <1>0, <1>6, <1>7, <1>8, <1>9, RecipientStepKeeps DEF Typed

\* The sender is told so, if it gets through.
LEMMA NotifySenderKeeps ==
  ASSUME MessageInv, NEW r \in Recipients, NotifySender(r)
  PROVE  MessageInv'
<1>0. /\ Typed /\ Reached(r) /\ ack[r] # NoMsg
      /\ told' \in {told, [told EXCEPT ![ack[r]] = "read"]}
      /\ ack' = [ack EXCEPT ![r] = NoMsg]
      /\ UNCHANGED <<row, h, online, inbox, seen, hist, accepted>>
  BY DEF MessageInv, NotifySender
<1>1. PICK m \in Msgs : m = ack[r] /\ Exists(m)
  BY <1>0 DEF Typed, Reached
<1>2. told' \in {told, [told EXCEPT ![m] = "read"]}
  BY <1>0, <1>1
<1>3. /\ told' \in [Msgs -> Status \cup {"none"}]
      /\ \A n \in Msgs : told'[n] \in {told[n], "read"} /\ (n # m => told'[n] = told[n])
  BY <1>0, <1>2 DEF Typed, Status
<1>4. RowsStay
  BY <1>0 DEF RowsStay, Typed
<1>5. /\ ack' \in [Recipients -> Msgs \cup {NoMsg}] /\ ack'[r] = NoMsg
      /\ \A x \in Recipients : x # r => ack'[x] = ack[x]
  BY <1>0 DEF Typed
<1>6. \A n \in Msgs : /\ row'[n].deleted = row[n].deleted
                      /\ row'[n].status \in {row[n].status, "read"}
                      /\ ~Exists(n) => row'[n] = row[n] /\ told'[n] = told[n]
                      /\ told'[n] \in {told[n], "read"}
  BY <1>0, <1>1, <1>3
<1>7. Reached(r)'
  BY <1>0, <1>5 DEF Reached, Exists
<1> QED
  BY <1>0, <1>3, <1>4, <1>5, <1>6, <1>7, RecipientStepKeeps DEF Typed

\* He fetches a page of the conversation, and then everything in it is read.
LEMMA FetchKeeps ==
  ASSUME MessageInv, NEW r \in Recipients, Fetch(r)
  PROVE  MessageInv'
<1>0. /\ Typed /\ Reached(r) /\ hist' \in {[hist EXCEPT ![r] = p] : p \in Page(r)}
      /\ UNCHANGED <<row, h, online, inbox, seen, ack, told, accepted>>
  BY DEF MessageInv, Fetch
<1>1. PICK p \in Page(r) : hist' = [hist EXCEPT ![r] = p]
  BY <1>0
<1>2. p \subseteq Msgs /\ \A m \in p : Exists(m)
  BY <1>1 DEF Page, IsDM, Exists
<1>3. /\ hist' \in [Recipients -> SUBSET (Msgs \cup {NoMsg})] /\ hist'[r] = p
      /\ \A x \in Recipients : x # r => hist'[x] = hist[x]
  <2>1. p \in SUBSET (Msgs \cup {NoMsg})
    BY <1>2
  <2> QED
    BY <1>0, <1>1, <2>1 DEF Typed
<1>4. RowsStay
  BY <1>0 DEF RowsStay, Typed
<1>5. Reached(r)'
  BY <1>0, <1>2, <1>3 DEF Reached, Exists
<1> QED
  BY <1>0, <1>3, <1>4, <1>5, RecipientStepKeeps DEF Typed

\* All of the conversation is marked read, and he has seen the page.
LEMMA FetchMarkKeeps ==
  ASSUME MessageInv, NEW r \in Recipients, FetchMark(r)
  PROVE  MessageInv'
<1>0. /\ Typed /\ Reached(r) /\ hist[r] # NoPage
      /\ seen' = [seen EXCEPT ![r] = @ \cup hist[r]] /\ hist' = [hist EXCEPT ![r] = NoPage]
      /\ UNCHANGED <<h, online, inbox, ack, told, accepted>>
  BY DEF MessageInv, FetchMark
<1>1. \A m \in Msgs : row'[m] = IF IsDM(m) /\ r \in row[m].to
                                THEN [row[m] EXCEPT !.status = "read"] ELSE row[m]
  BY DEF FetchMark
<1>2. ASSUME NEW m \in Msgs
      PROVE  /\ row'[m] \in RowSet /\ row'[m].kind = row[m].kind /\ row'[m].to = row[m].to
             /\ row'[m].deleted = row[m].deleted /\ row'[m].status \in {row[m].status, "read"}
             /\ ~Exists(m) => row'[m] = row[m]
  <2>1. row[m] \in RowSet
    BY <1>0 DEF Typed
  <2>2. PICK read : read = [row[m] EXCEPT !.status = "read"]
    OBVIOUS
  <2>3. /\ read \in RowSet /\ read.kind = row[m].kind /\ read.to = row[m].to
        /\ read.deleted = row[m].deleted /\ read.status = "read"
    BY <2>1, <2>2 DEF RowSet, Status
  <2>4. row'[m] = row[m] \/ (row'[m] = read /\ Exists(m))
    BY <1>1, <2>2 DEF IsDM, Exists
  <2> QED
    BY <2>1, <2>3, <2>4
<1>3. RowsStay
  <2>1. row' = [m \in Msgs |-> IF IsDM(m) /\ r \in row[m].to
                               THEN [row[m] EXCEPT !.status = "read"] ELSE row[m]]
    BY DEF FetchMark
  <2>2. row' \in [Msgs -> RowSet]
    BY <1>1, <1>2, <2>1
  <2> QED
    BY <1>2, <2>2 DEF RowsStay
<1>4. hist[r] \subseteq Msgs /\ \A m \in hist[r] : Exists(m)
  BY <1>0 DEF Reached
<1>5. /\ seen' \in [Recipients -> SUBSET Msgs] /\ seen'[r] = seen[r] \cup hist[r]
      /\ hist' \in [Recipients -> SUBSET (Msgs \cup {NoMsg})] /\ hist'[r] = NoPage
      /\ \A x \in Recipients : x # r => hist'[x] = hist[x] /\ seen'[x] = seen[x]
  BY <1>0, <1>4 DEF Typed, NoPage
<1>6. Reached(r)'
  <2>1. \A n \in Msgs : Exists(n) => Exists(n)'
    BY <1>2 DEF Exists
  <2>2. \A i \in 1 .. Len(inbox[r]) : inbox[r][i].msg \in Msgs
    <3>1. inbox[r] \in Seq(Event)
      BY <1>0 DEF Typed
    <3>2. \A i \in 1 .. Len(inbox[r]) : inbox[r][i] \in Event
      BY <3>1
    <3> QED
      BY <3>2 DEF Event
  <2>3. seen[r] \subseteq Msgs /\ ack[r] \in Msgs \cup {NoMsg}
    BY <1>0 DEF Typed
  <2> QED
    BY <1>0, <1>4, <1>5, <2>1, <2>2, <2>3 DEF Reached
<1> QED
  BY <1>0, <1>2, <1>3, <1>5, <1>6, RecipientStepKeeps DEF Typed

----------------------------------------------------------------------------
(* The invariant and what follows from it.                                  *)

\* The empty table satisfies the invariant.
LEMMA MessagesStart == Init => MessageInv
<1> SUFFICES ASSUME Init PROVE MessageInv
  OBVIOUS
<1>1. PICK none : none = NoRow
  OBVIOUS
<1>2. /\ none \in RowSet /\ none.kind = "none" /\ none.status = "sent" /\ ~none.deleted
      /\ row = [m \in Msgs |-> none]
  <2>1. 0 \in 0 .. MaxEdits
    BY MessagesAssumption
  <2> QED
    BY <1>1, <2>1 DEF NoRow, RowSet, Status, Kinds, Init
<1>3. PICK s : s = IdleH
  OBVIOUS
<1>4. s \in HSet /\ s.step = "idle" /\ s.msg = NoMsg /\ h = [p \in Handlers |-> s]
  BY <1>3 DEF IdleH, HSet, Init
<1>5. Typed
  <2>1. /\ << >> \in Seq(Event) /\ {} \in SUBSET Msgs /\ NoPage \in SUBSET (Msgs \cup {NoMsg})
        /\ NoMsg \in Msgs \cup {NoMsg} /\ "none" \in Status \cup {"none"}
    BY DEF NoPage
  <2> QED
    BY <1>2, <1>4, <2>1 DEF Typed, Init
<1>6. \A m \in Msgs : Unmade(m)
  BY <1>2 DEF Unmade, Init
<1>7. \A r \in Recipients : Reached(r)
  BY MessagesAssumption DEF Reached, Init
<1>8. \A p \in Handlers : InHand(p)
  BY <1>4 DEF InHand
<1>9. DeliveredWasAccepted
  BY <1>2 DEF DeliveredWasAccepted
<1> QED
  BY <1>5, <1>6, <1>7, <1>8, <1>9 DEF MessageInv

\* Every step keeps it.
LEMMA MessagesStep == MessageInv /\ [Next]_vars => MessageInv'
<1> SUFFICES ASSUME MessageInv, [Next]_vars PROVE MessageInv'
  OBVIOUS
<1>1. ASSUME NEW p \in Handlers, HandlerStep(p) PROVE MessageInv'
  <2>1. CASE \E m \in Msgs, k \in Kinds, to \in SUBSET Recipients : Create(p, m, k, to)
    BY <2>1, CreateKeeps
  <2>5. CASE \E m \in Msgs : CreateForBot(p, m)
    BY <2>5, CreateForBotKeeps
  <2>2. CASE Probe(p) \/ Update(p) \/ Ack(p) \/ EditWrite(p) \/ DeleteWrite(p) \/ EventDone(p)
    BY <2>2, ProbeKeeps, UpdateKeeps, AckKeeps, WriteKeeps, EventDoneKeeps
  <2>3. CASE \E r \in Recipients : Offer(p, r)
    BY <2>3, OfferKeeps
  <2>4. CASE \E m \in Msgs : EditFind(p, m) \/ DeleteFind(p, m)
    BY <2>4, FindKeeps
  <2> QED
    BY <1>1, <2>1, <2>2, <2>3, <2>4, <2>5 DEF HandlerStep
<1>2. ASSUME NEW r \in Recipients, RecipientStep(r) PROVE MessageInv'
  <2>1. CASE Connect(r) \/ Disconnect(r) \/ Receive(r) \/ NotifySender(r) \/ Fetch(r) \/ FetchMark(r)
    BY <2>1, ConnectionKeeps, ReceiveKeeps, NotifySenderKeeps, FetchKeeps, FetchMarkKeeps
  <2>2. CASE \E m \in Msgs : AckRead(r, m)
    BY <2>2, AckReadKeeps
  <2> QED
    BY <1>2, <2>1, <2>2 DEF RecipientStep
<1>3. CASE UNCHANGED vars
  <2>1. UNCHANGED <<row, h, online, inbox, seen, ack, hist, told, accepted>>
    BY <1>3 DEF vars
  <2> QED
    BY <2>1 DEF MessageInv, Typed, Unmade, Reached, InHand, DeliveredWasAccepted, Exists
<1> QED
  BY <1>1, <1>2, <1>3 DEF Next

\* so it always holds.
THEOREM MessageInvariance == Spec => []MessageInv
BY MessagesStart, MessagesStep, PTL DEF Spec

\* Rows, handlers and buffers have their types, and a buffer ends with its
\* connection (client.go, message.go).
THEOREM MessageTyping == Spec => []TypeOK
<1>1. ASSUME MessageInv PROVE TypeOK
  <2>1. ASSUME NEW m \in Msgs
        PROVE  /\ row[m].kind \in Kinds \cup {"none"} /\ row[m].to \subseteq Recipients
               /\ row[m].status \in Status /\ row[m].edits \in 0 .. MaxEdits
    BY <1>1 DEF MessageInv, Typed, RowSet
  <2>2. ASSUME NEW p \in Handlers
        PROVE  /\ h[p].step \in {"idle", "probe", "offer", "ack", "edit", "erase", "event"}
               /\ h[p].step = "idle" <=> h[p].msg = NoMsg
               /\ h[p].left \subseteq Recipients
    BY <1>1 DEF MessageInv, Typed, HSet, InHand
  <2> QED
    BY <1>1, <2>1, <2>2 DEF MessageInv, Typed, Reached, TypeOK
<1> QED
  BY <1>1, MessageInvariance, PTL

\* What the table or the sender's client calls delivered, unless it was forwarded,
\* was taken by the connection of somebody it is for (client.go).
THEOREM Delivered == Spec => []DeliveredWasAccepted
<1>1. MessageInv => DeliveredWasAccepted
  BY DEF MessageInv
<1> QED
  BY <1>1, MessageInvariance, PTL

----------------------------------------------------------------------------
(* Deletions, with one connection of the sender.                            *)

OnePump == \A p, q \in WsPumps : p = q

Acting == {"edit", "erase", "event"}

\* What a handler's step does to deletions and buffers.
HandlerTurn(p) ==
  /\ \A q \in Handlers : q # p => h'[q] = h[q]
  /\ early \subseteq early'
  /\ \A m \in Msgs :
       /\ row[m].deleted => row'[m].deleted
       /\ row'[m].deleted /\ ~row[m].deleted =>
            /\ h[p].step = "erase" /\ h[p].msg = m
            /\ h'[p].event = "deleted"
            /\ m \in early' \/ ~Sending(m)
  /\ h'[p].step \in {"probe", "offer", "ack"} =>
       \/ h[p].step \in {"probe", "offer", "ack"} /\ h'[p].msg = h[p].msg
       \/ ~Exists(h'[p].msg)
  /\ h'[p].step \in Acting =>
       \/ h[p].step \in Acting /\ h'[p].msg = h[p].msg /\ h'[p].event = h[p].event
       \/ /\ p \in WsPumps /\ h'[p].step # "event"
          /\ h'[p].msg \in Msgs /\ Exists(h'[p].msg)
          /\ h'[p].event = "edited" => ~row[h'[p].msg].deleted
  /\ h'[p].step = "event" /\ h'[p].event = "deleted" =>
       \/ h[p].step = "event"
       \/ row'[h'[p].msg].deleted
  /\ \A r \in Recipients :
       \/ inbox'[r] = inbox[r]
       \/ /\ h[p].step \in {"offer", "event"}
          /\ inbox'[r] = Append(inbox[r], [type |-> h[p].event, msg |-> h[p].msg])

\* A recipient's step, or none: deletions stay, a buffer at most loses its head.
RecipientTurn ==
  /\ h' = h /\ early' = early
  /\ \A m \in Msgs : row'[m].deleted = row[m].deleted
  /\ \A r \in Recipients :
       \/ inbox'[r] \in {inbox[r], << >>}
       \/ inbox[r] # << >> /\ inbox'[r] = Tail(inbox[r])

\* The parts of Deletions and NothingAfterDelete that are about one handler, and
\* about one buffer.
DeletingHandler(p) ==
  /\ h[p].step \in Acting => p \in WsPumps
  /\ h[p].step \in {"edit", "event"} /\ h[p].event = "edited" => ~row[h[p].msg].deleted
  /\ h[p].step = "event" /\ h[p].event = "deleted" => row[h[p].msg].deleted

DeletedBuffer(r) ==
  /\ \A i \in 1 .. Len(inbox[r]) : inbox[r][i].type = "deleted" => row[inbox[r][i].msg].deleted
  /\ \A i, j \in 1 .. Len(inbox[r]) :
       i < j /\ inbox[r][i].type = "deleted" /\ inbox[r][i].msg \notin early
         /\ inbox[r][j].msg = inbox[r][i].msg
         => inbox[r][j].type = "deleted"

\* A message that was not deleted too early is being sent to nobody once it is deleted,
\* and is not being edited; the events of its deletion follow the deletion and are the
\* last of it.
Deletions ==
  /\ \A m \in Msgs : row[m].deleted => m \in early \/ ~Sending(m)
  /\ \A p \in Handlers : DeletingHandler(p)
  /\ \A r \in Recipients : DeletedBuffer(r)

\* A handler's step keeps it.
LEMMA HandlerTurnKeeps ==
  ASSUME OnePump, MessageInv, Deletions, NEW p \in Handlers, HandlerTurn(p)
  PROVE  Deletions'
<1>0. Typed /\ \A q \in Handlers : InHand(q) /\ DeletingHandler(q)
  BY DEF MessageInv, Deletions
<1>1. \A q \in Handlers : h[q].step \in {"probe", "offer", "ack"} \cup Acting =>
        h[q].msg \in Msgs /\ Exists(h[q].msg)
  BY <1>0 DEF Typed, HSet, InHand, Acting
<1>2. ASSUME NEW m \in Msgs, Exists(m), ~Sending(m) PROVE ~Sending(m)'
  <2>1. ASSUME NEW q \in Handlers, h'[q].step \in {"probe", "offer", "ack"}, h'[q].msg = m PROVE FALSE
    <3>1. CASE q = p
      BY <1>2, <2>1, <3>1 DEF HandlerTurn, Sending, Busy
    <3>2. CASE q # p
      BY <1>2, <2>1, <3>2 DEF HandlerTurn, Sending, Busy
    <3> QED
      BY <3>1, <3>2
  <2> QED
    BY <2>1 DEF Sending, Busy
<1>3. ASSUME NEW m \in Msgs, row'[m].deleted PROVE m \in early' \/ ~Sending(m)'
  <2>1. CASE row[m].deleted
    <3>1. (m \in early \/ ~Sending(m)) /\ Exists(m)
      BY <2>1 DEF Deletions, MessageInv, Unmade
    <3>2. m \in early => m \in early'
      BY DEF HandlerTurn
    <3> QED
      BY <1>2, <3>1, <3>2
  <2>2. CASE ~row[m].deleted
    <3>1. h[p].step = "erase" /\ h[p].msg = m /\ (m \in early' \/ ~Sending(m))
      BY <1>3, <2>2 DEF HandlerTurn
    <3>2. Exists(m)
      BY <1>1, <3>1 DEF Acting
    <3> QED
      BY <1>2, <3>1, <3>2
  <2> QED
    BY <2>1, <2>2
<1>4. ASSUME NEW q \in Handlers, q # p PROVE DeletingHandler(q)'
  <2>1. h'[q] = h[q] /\ DeletingHandler(q)
    BY <1>0, <1>4 DEF HandlerTurn
  <2>3. h[q].step \in Acting => h[q].msg \in Msgs
    BY <1>1
  <2>4. ASSUME h[q].step \in Acting, ~row[h[q].msg].deleted PROVE ~row'[h[q].msg].deleted
    <3>1. q \in WsPumps /\ (h[p].step = "erase" => p \in WsPumps)
      BY <1>0, <2>1, <2>4 DEF DeletingHandler, Acting
    <3>2. h[p].step # "erase"
      BY <1>4, <3>1 DEF OnePump
    <3> QED
      BY <2>3, <2>4, <3>2 DEF HandlerTurn
  <2>5. ASSUME h[q].step \in Acting, row[h[q].msg].deleted PROVE row'[h[q].msg].deleted
    BY <2>3, <2>5 DEF HandlerTurn
  <2> QED
    BY <2>1, <2>4, <2>5 DEF DeletingHandler, Acting
<1>5. DeletingHandler(p)'
  <2>1. ASSUME h'[p].step \in Acting
        PROVE  h'[p].msg \in Msgs /\ Exists(h'[p].msg) /\ p \in WsPumps
    <3>1. CASE h[p].step \in Acting /\ h'[p].msg = h[p].msg
      BY <1>0, <1>1, <3>1 DEF DeletingHandler
    <3>2. CASE p \in WsPumps /\ h'[p].msg \in Msgs /\ Exists(h'[p].msg)
      BY <3>2
    <3> QED
      BY <2>1, <3>1, <3>2 DEF HandlerTurn
  <2>3. ASSUME h'[p].step \in {"edit", "event"}, h'[p].event = "edited"
        PROVE  ~row'[h'[p].msg].deleted
    <3>1. h'[p].step \in Acting /\ h'[p].msg \in Msgs
      BY <2>1, <2>3 DEF Acting
    <3>2. ~row[h'[p].msg].deleted
      <4>1. CASE h[p].step \in Acting /\ h'[p].msg = h[p].msg /\ h'[p].event = h[p].event
        <5>1. h[p].step # "erase"
          BY <1>0, <2>3, <4>1 DEF InHand
        <5> QED
          BY <1>0, <2>3, <4>1, <5>1 DEF DeletingHandler, Acting
      <4>2. CASE h'[p].event = "edited" => ~row[h'[p].msg].deleted
        BY <2>3, <4>2
      <4> QED
        BY <3>1, <4>1, <4>2 DEF HandlerTurn
    <3> QED
      BY <2>3, <3>1, <3>2 DEF HandlerTurn
  <2>4. ASSUME h'[p].step = "event", h'[p].event = "deleted" PROVE row'[h'[p].msg].deleted
    <3>1. CASE h[p].step = "event"
      <4>1. h'[p].step \in Acting
        BY <2>4 DEF Acting
      <4>2. h[p].step \in Acting /\ h'[p].msg = h[p].msg /\ h'[p].event = h[p].event
        BY <2>4, <4>1 DEF HandlerTurn
      <4> QED
        BY <1>0, <1>1, <2>4, <3>1, <4>2 DEF HandlerTurn, DeletingHandler
    <3>2. CASE row'[h'[p].msg].deleted
      BY <3>2
    <3> QED
      BY <2>4, <3>1, <3>2 DEF HandlerTurn
  <2> QED
    BY <2>1, <2>3, <2>4 DEF DeletingHandler
<1>6. ASSUME NEW r \in Recipients PROVE DeletedBuffer(r)'
  <2>0. inbox[r] \in Seq(Event) /\ DeletedBuffer(r)
    BY <1>0 DEF Typed, Deletions
  <2>1. \A i \in 1 .. Len(inbox[r]) : inbox[r][i].msg \in Msgs
    <3>1. \A i \in 1 .. Len(inbox[r]) : inbox[r][i] \in Event
      BY <2>0
    <3> QED
      BY <3>1 DEF Event
  <2>2. \A i \in 1 .. Len(inbox[r]) : inbox[r][i].type = "deleted" => row'[inbox[r][i].msg].deleted
    BY <2>0, <2>1 DEF DeletedBuffer, HandlerTurn
  <2>6. \A m \in Msgs : m \notin early' => m \notin early
    BY DEF HandlerTurn
  <2>3. CASE inbox'[r] = inbox[r]
    BY <2>0, <2>1, <2>2, <2>3, <2>6 DEF DeletedBuffer
  <2>4. CASE /\ h[p].step \in {"offer", "event"}
             /\ inbox'[r] = Append(inbox[r], [type |-> h[p].event, msg |-> h[p].msg])
    <3>1. PICK e : e = [type |-> h[p].event, msg |-> h[p].msg]
      OBVIOUS
    <3>2. PICK n \in Nat : n = Len(inbox[r])
      BY <2>0
    <3>3. h[p].msg \in Msgs /\ h[p].event \in {"none", "message", "edited", "deleted"}
      BY <1>0, <1>1, <2>4 DEF Typed, HSet, Acting
    <3>4. e.type = h[p].event /\ e.msg = h[p].msg
      BY <3>1
    <3>5. /\ Len(inbox'[r]) = n + 1 /\ inbox'[r][n + 1] = e
          /\ \A i \in 1 .. n : inbox'[r][i] = inbox[r][i]
      <4>1. inbox'[r] = Append(inbox[r], e)
        BY <2>4, <3>1
      <4> QED
        BY <2>0, <3>2, <4>1
    <3>6. e.type = "deleted" => row'[e.msg].deleted
      <4>1. ASSUME h[p].event = "deleted" PROVE row[h[p].msg].deleted
        <5>1. h[p].step = "event"
          BY <1>0, <2>4, <4>1 DEF InHand
        <5> QED
          BY <1>0, <4>1, <5>1 DEF DeletingHandler
      <4> QED
        BY <3>3, <3>4, <4>1 DEF HandlerTurn
    <3>7. row[h[p].msg].deleted /\ h[p].msg \notin early => e.type = "deleted"
      <4>1. ASSUME row[h[p].msg].deleted, h[p].msg \notin early PROVE h[p].event = "deleted"
        <5>1. h[p].step # "offer"
          BY <3>3, <4>1 DEF Deletions, Sending, Busy
        <5>2. h[p].step = "event" /\ h[p].event \in {"edited", "deleted"}
          BY <1>0, <2>4, <5>1 DEF InHand
        <5> QED
          BY <1>0, <4>1, <5>2 DEF DeletingHandler
      <4> QED
        BY <3>4, <4>1
    <3>8. ASSUME NEW i \in 1 .. n + 1, inbox'[r][i].type = "deleted"
          PROVE  row'[inbox'[r][i].msg].deleted
      <4>1. i \in 1 .. n \/ i = n + 1
        BY <3>8
      <4> QED
        BY <2>2, <3>2, <3>5, <3>6, <3>8, <4>1
    <3>9. ASSUME NEW i \in 1 .. n + 1, NEW j \in 1 .. n + 1, i < j,
                 inbox'[r][i].type = "deleted", inbox'[r][i].msg \notin early',
                 inbox'[r][j].msg = inbox'[r][i].msg
          PROVE  inbox'[r][j].type = "deleted"
      <4>1. i \in 1 .. n /\ inbox'[r][i] = inbox[r][i]
        BY <3>5, <3>9
      <4>4. inbox[r][i].msg \notin early
        BY <2>1, <2>6, <3>2, <3>9, <4>1
      <4>2. CASE j \in 1 .. n
        <5>1. inbox'[r][j] = inbox[r][j]
          BY <3>5, <4>2
        <5> QED
          BY <2>0, <3>2, <3>9, <4>1, <4>2, <4>4, <5>1 DEF DeletedBuffer
      <4>3. CASE j = n + 1
        <5>1. row[inbox[r][i].msg].deleted
          BY <2>0, <3>2, <3>9, <4>1 DEF DeletedBuffer
        <5>2. inbox'[r][j] = e /\ inbox[r][i].msg = e.msg
          BY <3>5, <3>9, <4>1, <4>3
        <5> QED
          BY <3>4, <3>7, <4>4, <5>1, <5>2
      <4> QED
        BY <3>9, <4>2, <4>3
    <3> QED
      BY <3>5, <3>8, <3>9 DEF DeletedBuffer
  <2> QED
    BY <2>3, <2>4 DEF HandlerTurn
<1> QED
  BY <1>3, <1>4, <1>5, <1>6 DEF Deletions

\* So does a recipient's.
LEMMA RecipientTurnKeeps ==
  ASSUME MessageInv, Deletions, RecipientTurn
  PROVE  Deletions'
<1>0. Typed /\ \A p \in Handlers : InHand(p) /\ DeletingHandler(p)
  BY DEF MessageInv, Deletions
<1>1. \A m : Sending(m)' <=> Sending(m)
  BY DEF RecipientTurn, Sending, Busy
<1>2. \A m \in Msgs : row'[m].deleted => m \in early' \/ ~Sending(m)'
  BY <1>1 DEF RecipientTurn, Deletions
<1>3. ASSUME NEW p \in Handlers PROVE DeletingHandler(p)'
  <2>1. h'[p] = h[p] /\ DeletingHandler(p)
    BY <1>0 DEF RecipientTurn
  <2>2. h[p].step \in Acting => h[p].msg \in Msgs
    BY <1>0 DEF Typed, HSet, InHand, Acting
  <2>3. h[p].step \in Acting => row'[h[p].msg].deleted = row[h[p].msg].deleted
    BY <2>2 DEF RecipientTurn
  <2> QED
    BY <1>1, <2>1, <2>3 DEF DeletingHandler, Acting
<1>4. ASSUME NEW r \in Recipients PROVE DeletedBuffer(r)'
  <2>0. inbox[r] \in Seq(Event) /\ DeletedBuffer(r)
    BY <1>0 DEF Typed, Deletions
  <2>1. \A i \in 1 .. Len(inbox[r]) : inbox[r][i].msg \in Msgs
    <3>1. \A i \in 1 .. Len(inbox[r]) : inbox[r][i] \in Event
      BY <2>0
    <3> QED
      BY <3>1 DEF Event
  <2>2. \A i \in 1 .. Len(inbox[r]) : inbox[r][i].type = "deleted" => row'[inbox[r][i].msg].deleted
    BY <2>0, <2>1 DEF DeletedBuffer, RecipientTurn
  <2>6. early' = early
    BY DEF RecipientTurn
  <2>3. CASE inbox'[r] = inbox[r]
    BY <2>0, <2>2, <2>3, <2>6 DEF DeletedBuffer
  <2>4. CASE inbox'[r] = << >>
    BY <2>4 DEF DeletedBuffer
  <2>5. CASE inbox[r] # << >> /\ inbox'[r] = Tail(inbox[r])
    <3>1. PICK n \in Nat : n = Len(inbox[r])
      BY <2>0
    <3>2. /\ n > 0 /\ Len(inbox'[r]) = n - 1
          /\ \A i \in 1 .. n - 1 : inbox'[r][i] = inbox[r][i + 1]
      BY <2>0, <2>5, <3>1
    <3>3. ASSUME NEW i \in 1 .. n - 1, inbox'[r][i].type = "deleted"
          PROVE  row'[inbox'[r][i].msg].deleted
      <4>1. i + 1 \in 1 .. n
        OBVIOUS
      <4> QED
        BY <2>2, <3>1, <3>2, <3>3, <4>1
    <3>4. ASSUME NEW i \in 1 .. n - 1, NEW j \in 1 .. n - 1, i < j,
                 inbox'[r][i].type = "deleted", inbox'[r][i].msg \notin early',
                 inbox'[r][j].msg = inbox'[r][i].msg
          PROVE  inbox'[r][j].type = "deleted"
      <4>1. i + 1 \in 1 .. n /\ j + 1 \in 1 .. n /\ i + 1 < j + 1
        BY <3>4
      <4>2. inbox'[r][i] = inbox[r][i + 1] /\ inbox'[r][j] = inbox[r][j + 1]
        BY <3>2
      <4> QED
        BY <2>0, <2>6, <3>1, <3>4, <4>1, <4>2 DEF DeletedBuffer
    <3> QED
      BY <3>2, <3>3, <3>4 DEF DeletedBuffer
  <2> QED
    BY <2>3, <2>4, <2>5 DEF RecipientTurn
<1> QED
  BY <1>2, <1>3, <1>4 DEF Deletions

\* A step of a handler that writes no row and sends nothing.
LEMMA QuietTurn ==
  ASSUME MessageInv, NEW p \in Handlers, NEW to \in HSet, h' = [h EXCEPT ![p] = to],
         UNCHANGED <<row, inbox, early>>,
         to.step \in {"probe", "offer", "ack"} =>
           h[p].step \in {"probe", "offer", "ack"} /\ to.msg = h[p].msg,
         to.step \in Acting =>
           /\ p \in WsPumps /\ to.step # "event" /\ to.msg \in Msgs
           /\ Exists(to.msg)
           /\ to.event = "edited" => ~row[to.msg].deleted
  PROVE  HandlerTurn(p)
<1>1. h'[p] = to /\ \A q \in Handlers : q # p => h'[q] = h[q]
  BY DEF MessageInv, Typed
<1>2. to.step = "event" => to.step \in Acting
  BY DEF Acting
<1> QED
  BY <1>1, <1>2 DEF HandlerTurn

\* Every step of a handler is a turn,
LEMMA HandlerTurns ==
  ASSUME MessageInv, NEW p \in Handlers, HandlerStep(p)
  PROVE  HandlerTurn(p)
<1>0. Typed /\ InHand(p) /\ h[p] \in HSet
  BY DEF MessageInv, Typed
<1>1. ASSUME NEW m \in Msgs, NEW k \in Kinds, NEW to \in SUBSET Recipients, Create(p, m, k, to)
      PROVE  HandlerTurn(p)
  <2>1. PICK s : s = [step |-> IF k = "forward" THEN "probe" ELSE "offer", msg |-> m,
                      event |-> "message", left |-> to, sent |-> FALSE]
    OBVIOUS
  <2>2. PICK new : new = [NoRow EXCEPT !.kind = k, !.to = to]
    OBVIOUS
  <2>3. /\ ~Exists(m) /\ h' = [h EXCEPT ![p] = s] /\ row' = [row EXCEPT ![m] = new]
        /\ inbox' = inbox /\ early' = early
    BY <1>1, <2>1, <2>2 DEF Create, Start
  <2>4. s.step \in {"probe", "offer"} /\ s.msg = m /\ ~new.deleted
    BY <2>1, <2>2 DEF NoRow
  <2>5. row'[m] = new /\ \A n \in Msgs : n # m => row'[n] = row[n]
    BY <1>0, <2>3 DEF Typed
  <2>6. h'[p] = s /\ \A q \in Handlers : q # p => h'[q] = h[q]
    BY <1>0, <2>3 DEF Typed
  <2>7. ~row[m].deleted
    BY <2>3 DEF MessageInv, Unmade
  <2> QED
    BY <2>3, <2>4, <2>5, <2>6, <2>7 DEF HandlerTurn, Acting
<1>8. ASSUME NEW m \in Msgs, CreateForBot(p, m) PROVE HandlerTurn(p)
  <2>1. PICK s : s = [step |-> "ack", msg |-> m, event |-> "message", left |-> {}, sent |-> TRUE]
    OBVIOUS
  <2>2. PICK new : new = [NoRow EXCEPT !.kind = "bot"]
    OBVIOUS
  <2>3. /\ ~Exists(m) /\ h' = [h EXCEPT ![p] = s] /\ row' = [row EXCEPT ![m] = new]
        /\ inbox' = inbox /\ early' = early
    BY <1>8, <2>1, <2>2 DEF CreateForBot
  <2>4. s.step = "ack" /\ s.msg = m /\ ~new.deleted
    BY <2>1, <2>2 DEF NoRow
  <2>5. row'[m] = new /\ \A n \in Msgs : n # m => row'[n] = row[n]
    BY <1>0, <2>3 DEF Typed
  <2>6. h'[p] = s /\ \A q \in Handlers : q # p => h'[q] = h[q]
    BY <1>0, <2>3 DEF Typed
  <2>7. ~row[m].deleted
    BY <2>3 DEF MessageInv, Unmade
  <2> QED
    BY <2>3, <2>4, <2>5, <2>6, <2>7 DEF HandlerTurn, Acting
<1>2. CASE Probe(p)
  <2>1. PICK s : s = [h[p] EXCEPT !.step = "offer", !.left = h[p].left \cap online,
                                  !.sent = h[p].left \cap online # {}]
    OBVIOUS
  <2>2. s \in HSet /\ s.step = "offer" /\ s.msg = h[p].msg
    BY <1>0, <2>1 DEF HSet
  <2>3. h[p].step = "probe" /\ h' = [h EXCEPT ![p] = s] /\ UNCHANGED <<row, inbox, early>>
    BY <1>2, <2>1 DEF Probe
  <2> QED
    BY <2>2, <2>3, QuietTurn DEF Acting
<1>3. ASSUME NEW r \in Recipients, Offer(p, r) PROVE HandlerTurn(p)
  <2>1. PICK got : got = Reaches(r)
    OBVIOUS
  <2>2. PICK s : s = [h[p] EXCEPT !.left = @ \ {r}, !.sent = @ \/ got]
    OBVIOUS
  <2>3. /\ h[p].step \in {"offer", "event"} /\ h' = [h EXCEPT ![p] = s] /\ row' = row /\ early' = early
        /\ inbox' = IF got THEN [inbox EXCEPT ![r] =
                                   Append(@, [type |-> h[p].event, msg |-> h[p].msg])]
                    ELSE inbox
    BY <1>3, <2>1, <2>2 DEF Offer, Queue
  <2>4. s.step = h[p].step /\ s.msg = h[p].msg /\ s.event = h[p].event
    BY <1>0, <2>2 DEF HSet
  <2>5. h'[p] = s /\ \A q \in Handlers : q # p => h'[q] = h[q]
    BY <1>0, <2>3 DEF Typed
  <2>6. \A x \in Recipients :
          \/ inbox'[x] = inbox[x]
          \/ inbox'[x] = Append(inbox[x], [type |-> h[p].event, msg |-> h[p].msg])
    BY <1>0, <2>3 DEF Typed
  <2> QED
    BY <2>3, <2>4, <2>5, <2>6 DEF HandlerTurn
<1>4. CASE Update(p)
  <2>1. PICK s : s = [h[p] EXCEPT !.step = "ack"]
    OBVIOUS
  <2>2. s.step = "ack" /\ s.msg = h[p].msg
    BY <1>0, <2>1 DEF HSet
  <2>3. h[p].step = "offer" /\ h' = [h EXCEPT ![p] = s] /\ inbox' = inbox /\ early' = early
    BY <1>4, <2>1 DEF Update
  <2>4. h'[p] = s /\ \A q \in Handlers : q # p => h'[q] = h[q]
    BY <1>0, <2>3 DEF Typed
  <2>5. \A m \in Msgs : row'[m].deleted = row[m].deleted
    <3>1. PICK x : x = h[p].msg
      OBVIOUS
    <3>2. row' = [row EXCEPT ![x].status = "delivered"] \/ row' = row
      BY <1>4, <3>1 DEF Update, SetDelivered
    <3>3. \A m \in Msgs : row[m] \in RowSet
      BY <1>0 DEF Typed
    <3>4. CASE row' = [row EXCEPT ![x].status = "delivered"]
      BY <1>0, <3>3, <3>4 DEF Typed, RowSet
    <3> QED
      BY <3>2, <3>4
  <2> QED
    BY <2>2, <2>3, <2>4, <2>5 DEF HandlerTurn, Acting
<1>5. CASE Ack(p) \/ EventDone(p)
  <2>1. PICK s : s = IdleH
    OBVIOUS
  <2>2. s \in HSet /\ s.step = "idle"
    BY <2>1 DEF IdleH, HSet
  <2>3. h' = [h EXCEPT ![p] = s] /\ UNCHANGED <<row, inbox, early>>
    BY <1>5, <2>1 DEF Ack, EventDone
  <2> QED
    BY <2>2, <2>3, QuietTurn DEF Acting
<1>6. ASSUME NEW m \in Msgs, EditFind(p, m) \/ DeleteFind(p, m) PROVE HandlerTurn(p)
  <2>1. /\ p \in WsPumps /\ Exists(m) /\ UNCHANGED <<row, inbox, early>>
    BY <1>6 DEF EditFind, DeleteFind
  <2>2. row[m].to \in SUBSET Recipients
    BY <1>0 DEF Typed, RowSet
  <2>3. PICK s : /\ h' = [h EXCEPT ![p] = s] /\ s \in HSet /\ s.msg = m
                 /\ s.step \in {"edit", "erase"}
                 /\ s.event = "edited" => ~row[m].deleted
    <3>1. CASE EditFind(p, m)
      <4>1. PICK s : s = [step |-> "edit", msg |-> m, event |-> "edited", left |-> row[m].to,
                          sent |-> FALSE]
        OBVIOUS
      <4>2. s \in HSet /\ s.msg = m /\ s.step = "edit"
        BY <2>2, <4>1 DEF HSet
      <4>3. h' = [h EXCEPT ![p] = s] /\ ~row[m].deleted
        BY <3>1, <4>1 DEF EditFind, Start
      <4> QED
        BY <4>2, <4>3
    <3>2. CASE DeleteFind(p, m)
      <4>1. PICK s : s = [step |-> "erase", msg |-> m, event |-> "deleted", left |-> row[m].to,
                          sent |-> FALSE]
        OBVIOUS
      <4>2. s \in HSet /\ s.msg = m /\ s.step = "erase" /\ s.event = "deleted"
        BY <2>2, <4>1 DEF HSet
      <4>3. h' = [h EXCEPT ![p] = s]
        BY <3>2, <4>1 DEF DeleteFind, Start
      <4> QED
        BY <4>2, <4>3
    <3> QED
      BY <1>6, <3>1, <3>2
  <2> QED
    BY <2>1, <2>2, <2>3, QuietTurn
<1>7. CASE EditWrite(p) \/ DeleteWrite(p)
  <2>1. PICK s : s = [h[p] EXCEPT !.step = "event"]
    OBVIOUS
  <2>2. s.step = "event" /\ s.msg = h[p].msg /\ s.event = h[p].event
    BY <1>0, <2>1 DEF HSet
  <2>3. h[p].step \in {"edit", "erase"} /\ h' = [h EXCEPT ![p] = s] /\ inbox' = inbox
    BY <1>7, <2>1 DEF EditWrite, DeleteWrite
  <2>4. h'[p] = s /\ \A q \in Handlers : q # p => h'[q] = h[q]
    BY <1>0, <2>3 DEF Typed
  <2>5. PICK x \in Msgs : x = h[p].msg
    BY <1>0, <2>3 DEF InHand, HSet
  <2>6. \A m \in Msgs : row[m] \in RowSet
    BY <1>0 DEF Typed
  <2>7. CASE EditWrite(p)
    <3>1. row' = [row EXCEPT ![x].edits = @ + 1] /\ early' = early
      BY <2>5, <2>7 DEF EditWrite
    <3>2. \A m \in Msgs : row'[m].deleted = row[m].deleted
      BY <1>0, <2>6, <3>1 DEF Typed, RowSet
    <3>3. h[p].event = "edited"
      BY <1>0, <2>7 DEF EditWrite, InHand
    <3> QED
      BY <2>2, <2>3, <2>4, <3>1, <3>2, <3>3 DEF HandlerTurn, Acting
  <2>8. CASE DeleteWrite(p)
    <3>1. /\ row' = [row EXCEPT ![x].deleted = TRUE]
          /\ early' = IF Sending(x) THEN early \cup {x} ELSE early
      BY <2>5, <2>8 DEF DeleteWrite
    <3>2. row'[x].deleted /\ \A m \in Msgs : m # x => row'[m].deleted = row[m].deleted
      BY <1>0, <2>6, <3>1 DEF Typed, RowSet
    <3>3. h[p].step = "erase" /\ h[p].event = "deleted"
      BY <1>0, <2>8 DEF DeleteWrite, InHand
    <3> QED
      BY <2>2, <2>3, <2>4, <2>5, <3>1, <3>2, <3>3 DEF HandlerTurn, Acting
  <2> QED
    BY <1>7, <2>7, <2>8
<1> QED
  BY <1>1, <1>2, <1>3, <1>4, <1>5, <1>6, <1>7, <1>8 DEF HandlerStep

\* and so is every step of a recipient.
LEMMA RecipientTurns ==
  ASSUME MessageInv, NEW r \in Recipients, RecipientStep(r)
  PROVE  RecipientTurn
<1>0. Typed /\ \A m \in Msgs : row[m] \in RowSet
  BY DEF MessageInv, Typed
<1>1. CASE Connect(r) \/ NotifySender(r) \/ Fetch(r)
  BY <1>1 DEF Connect, NotifySender, Fetch, RecipientTurn
<1>2. CASE Disconnect(r)
  <2>1. h' = h /\ early' = early /\ row' = row /\ inbox' = [inbox EXCEPT ![r] = << >>]
    BY <1>2 DEF Disconnect
  <2> QED
    BY <1>0, <2>1 DEF RecipientTurn, Typed
<1>3. CASE Receive(r)
  <2>1. h' = h /\ early' = early /\ row' = row /\ inbox[r] # << >> /\ inbox' = [inbox EXCEPT ![r] = Tail(@)]
    BY <1>3 DEF Receive
  <2>2. inbox'[r] = Tail(inbox[r]) /\ \A x \in Recipients : x # r => inbox'[x] = inbox[x]
    BY <1>0, <2>1 DEF Typed
  <2> QED
    BY <2>1, <2>2 DEF RecipientTurn
<1>4. ASSUME NEW m \in Msgs, AckRead(r, m) PROVE RecipientTurn
  <2>1. h' = h /\ early' = early /\ inbox' = inbox /\ (row' = [row EXCEPT ![m].status = "read"] \/ row' = row)
    BY <1>4 DEF AckRead, MarkRead
  <2>2. \A n \in Msgs : row'[n].deleted = row[n].deleted
    <3>1. CASE row' = [row EXCEPT ![m].status = "read"]
      BY <1>0, <3>1 DEF Typed, RowSet
    <3> QED
      BY <2>1, <3>1
  <2> QED
    BY <2>1, <2>2 DEF RecipientTurn
<1>5. CASE FetchMark(r)
  <2>1. h' = h /\ early' = early /\ inbox' = inbox
    BY <1>5 DEF FetchMark
  <2>2. \A m \in Msgs : row'[m] = IF IsDM(m) /\ r \in row[m].to
                                  THEN [row[m] EXCEPT !.status = "read"] ELSE row[m]
    BY <1>5 DEF FetchMark
  <2>3. \A m \in Msgs : row'[m].deleted = row[m].deleted
    BY <1>0, <2>2 DEF RowSet
  <2> QED
    BY <2>1, <2>3 DEF RecipientTurn
<1> QED
  BY <1>1, <1>2, <1>3, <1>4, <1>5 DEF RecipientStep

\* With one connection of the sender, nothing about a message follows its deletion
\* on the way to a recipient, unless it was deleted while it was still being sent
\* (client.go, handleMessageDelete).
THEOREM DeletionIsLast == OnePump => (Spec => []NothingAfterDelete)
<1> SUFFICES ASSUME OnePump PROVE Spec => []NothingAfterDelete
  OBVIOUS
<1>1. Init => Deletions
  <2> SUFFICES ASSUME Init PROVE Deletions
    OBVIOUS
  <2>1. PICK none : none = NoRow
    OBVIOUS
  <2>2. ~none.deleted /\ row = [m \in Msgs |-> none]
    BY <2>1 DEF NoRow, Init
  <2>3. PICK s : s = IdleH
    OBVIOUS
  <2>4. s.step = "idle" /\ h = [p \in Handlers |-> s]
    BY <2>3 DEF IdleH, Init
  <2>5. \A p \in Handlers : DeletingHandler(p)
    BY <2>4 DEF DeletingHandler, Acting
  <2>6. \A r \in Recipients : DeletedBuffer(r)
    BY DEF DeletedBuffer, Init
  <2> QED
    BY <2>2, <2>5, <2>6 DEF Deletions
<1>2. MessageInv /\ Deletions /\ [Next]_vars => Deletions'
  <2> SUFFICES ASSUME MessageInv, Deletions, [Next]_vars PROVE Deletions'
    OBVIOUS
  <2>1. ASSUME NEW p \in Handlers, HandlerStep(p) PROVE Deletions'
    BY <2>1, HandlerTurns, HandlerTurnKeeps
  <2>2. ASSUME NEW r \in Recipients, RecipientStep(r) PROVE Deletions'
    BY <2>2, RecipientTurns, RecipientTurnKeeps
  <2>3. CASE UNCHANGED vars
    <3>1. RecipientTurn
      BY <2>3 DEF vars, RecipientTurn
    <3> QED
      BY <3>1, RecipientTurnKeeps
  <2> QED
    BY <2>1, <2>2, <2>3 DEF Next
<1>3. Deletions => NothingAfterDelete
  BY DEF Deletions, DeletedBuffer, NothingAfterDelete
<1> QED
  BY <1>1, <1>2, <1>3, MessageInvariance, PTL DEF Spec

----------------------------------------------------------------------------
(* The status of a message.                                                 *)

\* A step takes the status of a message to "read", unless it is the end of its send.
LEMMA StatusMoves ==
  ASSUME MessageInv, [Next]_vars, NEW m \in Msgs,
         \A p \in Handlers : Busy(p, m) => h[p].step \notin {"probe", "offer"}
  PROVE  row'[m].status \in {row[m].status, "read"}
<1>0. Typed /\ \A n \in Msgs : row[n] \in RowSet
  BY DEF MessageInv, Typed
<1>1. ASSUME NEW p \in Handlers, HandlerStep(p) PROVE row'[m].status = row[m].status
  <2>1. ASSUME NEW n \in Msgs, NEW k \in Kinds, NEW to \in SUBSET Recipients, Create(p, n, k, to)
        PROVE  row'[m].status = row[m].status
    <3>1. PICK new : new = [NoRow EXCEPT !.kind = k, !.to = to]
      OBVIOUS
    <3>2. new.status = "sent"
      BY <3>1 DEF NoRow
    <3>3. ~Exists(n) /\ row' = [row EXCEPT ![n] = new]
      BY <2>1, <3>1 DEF Create
    <3>4. row[n].status = "sent"
      BY <3>3 DEF MessageInv, Unmade
    <3> QED
      BY <1>0, <3>2, <3>3, <3>4 DEF Typed
  <2>5. ASSUME NEW n \in Msgs, CreateForBot(p, n) PROVE row'[m].status = row[m].status
    <3>1. PICK new : new = [NoRow EXCEPT !.kind = "bot"]
      OBVIOUS
    <3>2. new.status = "sent"
      BY <3>1 DEF NoRow
    <3>3. ~Exists(n) /\ row' = [row EXCEPT ![n] = new]
      BY <2>5, <3>1 DEF CreateForBot
    <3>4. row[n].status = "sent"
      BY <3>3 DEF MessageInv, Unmade
    <3> QED
      BY <1>0, <3>2, <3>3, <3>4 DEF Typed
  <2>2. CASE Probe(p) \/ Ack(p) \/ EventDone(p) \/ (\E r \in Recipients : Offer(p, r))
             \/ \E n \in Msgs : EditFind(p, n) \/ DeleteFind(p, n)
    BY <2>2 DEF Probe, Ack, EventDone, Offer, EditFind, DeleteFind
  <2>3. CASE Update(p)
    <3>1. PICK x : x = h[p].msg
      OBVIOUS
    <3>2. row' = [row EXCEPT ![x].status = "delivered"] \/ row' = row
      BY <2>3, <3>1 DEF Update, SetDelivered
    <3>3. x # m
      BY <2>3, <3>1 DEF Update, Busy
    <3> QED
      BY <1>0, <3>2, <3>3 DEF Typed
  <2>4. CASE EditWrite(p) \/ DeleteWrite(p)
    <3>1. PICK x : x = h[p].msg
      OBVIOUS
    <3>2. row' = [row EXCEPT ![x].edits = @ + 1] \/ row' = [row EXCEPT ![x].deleted = TRUE]
      BY <2>4, <3>1 DEF EditWrite, DeleteWrite
    <3>3. CASE row' = [row EXCEPT ![x].edits = @ + 1]
      BY <1>0, <3>3 DEF Typed, RowSet
    <3>4. CASE row' = [row EXCEPT ![x].deleted = TRUE]
      BY <1>0, <3>4 DEF Typed, RowSet
    <3> QED
      BY <3>2, <3>3, <3>4
  <2> QED
    BY <1>1, <2>1, <2>2, <2>3, <2>4, <2>5 DEF HandlerStep
<1>2. ASSUME NEW r \in Recipients, RecipientStep(r) PROVE row'[m].status \in {row[m].status, "read"}
  <2>1. CASE Connect(r) \/ Disconnect(r) \/ Receive(r) \/ NotifySender(r) \/ Fetch(r)
    BY <2>1 DEF Connect, Disconnect, Receive, NotifySender, Fetch
  <2>2. ASSUME NEW n \in Msgs, AckRead(r, n) PROVE row'[m].status \in {row[m].status, "read"}
    <3>1. row' = [row EXCEPT ![n].status = "read"] \/ row' = row
      BY <2>2 DEF AckRead, MarkRead
    <3>2. CASE row' = [row EXCEPT ![n].status = "read"]
      BY <1>0, <3>2 DEF Typed, RowSet
    <3> QED
      BY <3>1, <3>2
  <2>3. CASE FetchMark(r)
    <3>1. row'[m] = IF IsDM(m) /\ r \in row[m].to
                    THEN [row[m] EXCEPT !.status = "read"] ELSE row[m]
      BY <2>3 DEF FetchMark
    <3> QED
      BY <1>0, <3>1 DEF RowSet
  <2> QED
    BY <1>2, <2>1, <2>2, <2>3 DEF RecipientStep
<1>3. CASE UNCHANGED vars
  BY <1>3 DEF vars
<1> QED
  BY <1>1, <1>2, <1>3 DEF Next

\* Once the handler that sends a message has written its outcome, the status only
\* moves forward (client.go, handleDirectMessage and handleAckMessage).
THEOREM StatusMovesForward == Spec => SettledStatusIsMonotone
<1>1. MessageInv /\ [Next]_vars =>
        [\A m \in Msgs :
           (\A p \in Handlers : Busy(p, m) => h[p].step \notin {"probe", "offer"})
             => Rank[row'[m].status] >= Rank[row[m].status]]_vars
  <2> SUFFICES ASSUME MessageInv, [Next]_vars, NEW m \in Msgs,
                      \A p \in Handlers : Busy(p, m) => h[p].step \notin {"probe", "offer"}
               PROVE  Rank[row'[m].status] >= Rank[row[m].status]
    OBVIOUS
  <2>1. row'[m].status \in {row[m].status, "read"}
    BY StatusMoves
  <2>2. row[m].status \in Status
    BY DEF MessageInv, Typed, RowSet
  <2>3. Rank["sent"] = 0 /\ Rank["delivered"] = 1 /\ Rank["read"] = 2
    BY DEF Rank, Status
  <2> QED
    BY <2>1, <2>2, <2>3 DEF Status
<1> QED
  BY <1>1, MessageInvariance, PTL DEF Spec, SettledStatusIsMonotone

(***************************************************************************)
(* Polls.                                                                   *)
(***************************************************************************)

\* What is true of the requests however they overlap: one that has not started is
\* nobody's, two that are under way have met, and one made after the poll was
\* closed writes no vote.
Meeting ==
  /\ \A q \in Requests : req[q].step = "new" => req[q].user = NoUser /\ res[q] = Fresh
  /\ \A q, r \in UnderWay : q # r => {q, r} \in met
  /\ \A q \in late : req[q].step \notin {"new", "look", "toggle", "clear", "insert"}

\* A user who waits for his answers has one vote, and none when one is inserted.
OneVote ==
  ~multi => \A u \in Users : ~Hurried(u) =>
    /\ \A v, w \in votes : v.user = u /\ w.user = u => v = w
    /\ \A q \in Requests :
         req[q].step = "insert" /\ req[q].user = u => \A v \in votes : v.user # u

\* The last broadcast shows the poll as it is.
Current == last.seen = votes /\ last.total = Cardinality(votes) /\ last.closed = closed

\* What a request that runs alone has in hand.
Alone(q) ==
  /\ req[q].step \in {"look", "toggle", "clear", "insert", "close"} => res[q] = Fresh
  /\ req[q].step \in {"look", "toggle", "clear", "close"} => Current
  /\ req[q].step \in {"look", "toggle", "clear", "insert"} => ~closed
  /\ req[q].step = "insert" => MyVote(q) \notin votes
  /\ req[q].step \in {"total", "mine", "options"} => res[q].closed = closed
  /\ req[q].step \in {"total", "mine"} => res[q].seen = {}
  /\ req[q].step \in {"mine", "options"} => res[q].total = Cardinality(votes)
  /\ req[q].step = "options" => res[q].seen = {v \in votes : v.option \notin left[q]}

Serial ==
  met = {} => /\ UnderWay = {} => Current
              /\ \A q \in UnderWay : Alone(q)

PollInv == PollTypeOK /\ Meeting /\ OneVote /\ Serial

----------------------------------------------------------------------------
(* How requests move.                                                       *)

\* There are finitely many votes.
LEMMA VotesFinite ==
  /\ IsFiniteSet(Vote) /\ Cardinality(Vote) \in Nat
  /\ \A vs \in SUBSET Vote : IsFiniteSet(vs) /\ Cardinality(vs) \in 0..Cardinality(Vote)
<1>1. IsFiniteSet(Users \X Options)
  BY PollsAssumption, FS_Product
<1>2. PICK f : f = [v \in Vote |-> <<v.user, v.option>>]
  OBVIOUS
<1>3. f \in [Vote -> Users \X Options]
  BY <1>2 DEF Vote
<1>4. \A v, w \in Vote : f[v] = f[w] => v = w
  BY <1>2 DEF Vote
<1>5. IsFiniteSet(Vote)
  BY <1>1, <1>3, <1>4, Fun_IsInj, FS_Injection
<1>6. \A vs \in SUBSET Vote :
        /\ IsFiniteSet(vs) /\ Cardinality(vs) <= Cardinality(Vote) /\ Cardinality(vs) \in Nat
  BY <1>5, FS_Subset, FS_CardinalityType
<1> QED
  BY <1>5, <1>6, FS_CardinalityType

\* A request takes a step: its user and its option stay.
LEMMA GotoMoves ==
  ASSUME PollTypeOK, NEW q \in Requests, NEW to \in Steps, Goto(q, to)
  PROVE  /\ req' \in [Requests -> [step : Steps, user : Users \cup {NoUser},
                                   option : Options \cup {NoOption}]]
         /\ req'[q].step = to /\ req'[q].user = req[q].user /\ req'[q].option = req[q].option
         /\ \A r \in Requests : r # q => req'[r] = req[r]
<1>1. req \in [Requests -> [step : Steps, user : Users \cup {NoUser},
                            option : Options \cup {NoOption}]]
  BY DEF PollTypeOK
<1> QED
  BY <1>1 DEF Goto

\* What every statement of a request that is under way has in common.
Moves(q) ==
  /\ req[q].step \notin {"new", "done"} /\ req'[q].step \notin {"new", "look"}
  /\ req' \in [Requests -> [step : Steps, user : Users \cup {NoUser},
                            option : Options \cup {NoOption}]]
  /\ req'[q].user = req[q].user /\ req'[q].option = req[q].option
  /\ \A r \in Requests : r # q => req'[r] = req[r] /\ res'[r] = res[r] /\ left'[r] = left[r]
  /\ UNCHANGED <<multi, late, met>>

\* Such is every statement after the load,
LEMMA StepMoves ==
  ASSUME PollTypeOK, NEW q \in Requests, Step(q) \/ \E o \in Options : CountOption(q, o)
  PROVE  Moves(q)
<1>0. /\ req \in [Requests -> [step : Steps, user : Users \cup {NoUser},
                               option : Options \cup {NoOption}]]
      /\ res \in [Requests -> Response] /\ left \in [Requests -> SUBSET Options]
  BY DEF PollTypeOK
<1>1. CASE Look(q)
  <2>1. PICK to \in {"toggle", "insert", "clear"} : Goto(q, to)
    BY <1>1 DEF Look
  <2> QED
    BY <1>1, <2>1, GotoMoves DEF Look, Moves, Steps
<1>2. CASE Toggle(q)
  BY <1>2, GotoMoves DEF Toggle, Moves, Steps
<1>3. CASE Clear(q)
  BY <1>3, GotoMoves DEF Clear, Moves, Steps
<1>4. CASE Insert(q)
  <2>1. PICK to \in {"done", "total"} : Goto(q, to)
    BY <1>4 DEF Insert
  <2> QED
    BY <1>4, <2>1, GotoMoves DEF Insert, Moves, Steps
<1>5. CASE Close(q)
  BY <1>0, <1>5, GotoMoves DEF Close, Moves, Steps
<1>6. CASE CountAll(q)
  BY <1>0, <1>6, GotoMoves DEF CountAll, Moves, Steps
<1>7. CASE UserVotes(q)
  BY <1>0, <1>7, GotoMoves DEF UserVotes, Moves, Steps
<1>8. CASE Broadcast(q)
  BY <1>8, GotoMoves DEF Broadcast, Moves, Steps
<1>9. CASE \E o \in Options : CountOption(q, o)
  BY <1>0, <1>9 DEF CountOption, Moves
<1> QED
  BY <1>1, <1>2, <1>3, <1>4, <1>5, <1>6, <1>7, <1>8, <1>9 DEF Step

\* A request starts.
Starts(q) ==
  /\ req[q].step = "new" /\ Started(q) /\ UNCHANGED <<multi, closed, votes, res, left, last>>
  /\ req' \in [Requests -> [step : Steps, user : Users \cup {NoUser},
                            option : Options \cup {NoOption}]]
  /\ req'[q].step \in {"look", "close", "done"} /\ req'[q].user \in Users
  /\ req'[q].step = "look" => ~closed /\ req'[q].user \in Members /\ req'[q].option \in Options
  /\ req'[q].step = "close" => req'[q].user = Creator
  /\ \A r \in Requests : r # q => req'[r] = req[r]

\* and such is the load of a vote or of a close.
LEMMA LoadStarts ==
  ASSUME PollTypeOK, NEW q \in Requests, NEW u \in Users,
         CloseLoad(q, u) \/ \E o \in Options : Load(q, u, o)
  PROVE  Starts(q)
<1>0. req \in [Requests -> [step : Steps, user : Users \cup {NoUser},
                            option : Options \cup {NoOption}]]
  BY DEF PollTypeOK
<1>1. CASE CloseLoad(q, u)
  <2>1. PICK to \in {"close", "done"} :
          /\ req' = [req EXCEPT ![q] = [step |-> to, user |-> u, option |-> NoOption]]
          /\ to = "close" => u = Creator
    BY <1>1 DEF CloseLoad
  <2>2. [step |-> to, user |-> u, option |-> NoOption]
          \in [step : Steps, user : Users \cup {NoUser}, option : Options \cup {NoOption}]
    BY DEF Steps
  <2> QED
    BY <1>0, <1>1, <2>1, <2>2 DEF CloseLoad, Starts
<1>2. ASSUME NEW o \in Options, Load(q, u, o) PROVE Starts(q)
  <2>1. PICK to \in {"look", "done"} :
          /\ req' = [req EXCEPT ![q] = [step |-> to, user |-> u, option |-> o]]
          /\ to = "look" => ~closed /\ u \in Members
    BY <1>2 DEF Load
  <2>2. [step |-> to, user |-> u, option |-> o]
          \in [step : Steps, user : Users \cup {NoUser}, option : Options \cup {NoOption}]
    BY DEF Steps
  <2> QED
    BY <1>0, <1>2, <2>1, <2>2 DEF Load, Starts
<1> QED
  BY <1>1, <1>2

\* A step is a start or a move.
LEMMA StartOrMove ==
  ASSUME PollTypeOK, PollNext
  PROVE  \E q \in Requests : \/ Starts(q)
                             \/ Moves(q) /\ (Step(q) \/ \E o \in Options : CountOption(q, o))
BY StepMoves, LoadStarts DEF PollNext

----------------------------------------------------------------------------
(* Each part of the invariant holds at first and is kept.                   *)

\* What a step has in hand has its type.
LEMMA PollTyped ==
  /\ PollInit => PollTypeOK
  /\ PollTypeOK /\ PollNext => PollTypeOK'
<1>0. /\ Fresh \in Response /\ Fresh.closed = FALSE /\ Fresh.total = 0
      /\ Fresh.mine = {} /\ Fresh.seen = {}
  BY VotesFinite DEF Fresh, Response
<1>1. PollInit => PollTypeOK
  <2> SUFFICES ASSUME PollInit PROVE PollTypeOK
    OBVIOUS
  <2>1. "new" \in Steps
    BY DEF Steps
  <2>2. req \in [Requests -> [step : Steps, user : Users \cup {NoUser},
                              option : Options \cup {NoOption}]]
    BY <2>1 DEF PollInit
  <2>3. \A q \in Requests : req[q].step = "new"
    BY DEF PollInit
  <2> QED
    BY <1>0, <2>2, <2>3 DEF PollInit, PollTypeOK
<1>2. ASSUME PollTypeOK, NEW q \in Requests, Starts(q) PROVE PollTypeOK'
  <2>1. late' \subseteq Requests /\ met' \subseteq SUBSET Requests
    BY <1>2 DEF Starts, Started, PollTypeOK, UnderWay
  <2>2. \A r \in Requests :
          /\ req'[r].step \in {"look", "toggle", "clear", "insert"}
               => req'[r].option \in Options /\ req'[r].user \in Members
          /\ req'[r].step = "close" => req'[r].user = Creator
    BY <1>2 DEF Starts, PollTypeOK
  <2> QED
    BY <1>2, <2>1, <2>2 DEF PollTypeOK, Starts
<1>3. ASSUME PollTypeOK, NEW q \in Requests, Moves(q), Step(q) \/ \E o \in Options : CountOption(q, o)
      PROVE  PollTypeOK'
  <2>0. /\ req' \in [Requests -> [step : Steps, user : Users \cup {NoUser},
                                  option : Options \cup {NoOption}]]
        /\ res \in [Requests -> Response] /\ left \in [Requests -> SUBSET Options]
        /\ UNCHANGED <<multi, late, met>>
    BY <1>3 DEF PollTypeOK, Moves
  <2>1. \A r \in Requests :
          /\ req'[r].step \in {"look", "toggle", "clear", "insert"}
               => req'[r].option \in Options /\ req'[r].user \in Members
          /\ req'[r].step = "close" => req'[r].user = Creator
    <3>1. \A r \in Requests : r # q => req'[r] = req[r]
      BY <1>3 DEF Moves
    <3>2. req'[q].step \in {"toggle", "clear", "insert"}
            => req[q].step \in {"look", "toggle", "clear", "insert"}
      BY <1>3, GotoMoves DEF Step, Look, Toggle, Clear, Insert, Close, CountAll, UserVotes,
                             Broadcast, CountOption, Steps
    <3>3. req'[q].step # "close"
      BY <1>3, GotoMoves DEF Step, Look, Toggle, Clear, Insert, Close, CountAll, UserVotes,
                             Broadcast, CountOption, Steps
    <3>4. /\ req'[q].user = req[q].user /\ req'[q].option = req[q].option
          /\ req'[q].step # "look"
      BY <1>3 DEF Moves
    <3> QED
      BY <1>3, <3>1, <3>2, <3>3, <3>4 DEF PollTypeOK
  <2>2. votes' \subseteq Vote
    <3>1. req[q].step = "insert" => MyVote(q) \in Vote
      BY <1>3, PollsAssumption DEF PollTypeOK, MyVote, Vote
    <3> QED
      BY <1>3, <3>1 DEF PollTypeOK, Step, Look, Toggle, Clear, Insert, Close, CountAll, UserVotes,
                        Broadcast, CountOption
  <2>3. closed' \in BOOLEAN
    BY <1>3 DEF PollTypeOK, Step, Look, Toggle, Clear, Insert, Close, CountAll, UserVotes,
                Broadcast, CountOption
  <2>4. left' \in [Requests -> SUBSET Options]
    BY <1>3, <2>0 DEF Step, Look, Toggle, Clear, Insert, Close, CountAll, UserVotes,
                      Broadcast, CountOption
  <2>5. res' \in [Requests -> Response]
    <3>0. res[q] \in Response /\ votes \subseteq Vote /\ Cardinality(votes) \in 0..Cardinality(Vote)
      BY <1>3, <2>0, VotesFinite DEF PollTypeOK
    <3>1. CASE Close(q)
      <4>1. [res[q] EXCEPT !.closed = TRUE] \in Response
        BY <3>0 DEF Response
      <4> QED
        BY <2>0, <3>1, <4>1 DEF Close
    <3>2. CASE CountAll(q)
      <4>1. [res[q] EXCEPT !.total = Cardinality(votes)] \in Response
        BY <3>0 DEF Response
      <4> QED
        BY <2>0, <3>2, <4>1 DEF CountAll
    <3>3. CASE UserVotes(q)
      <4>1. PICK mine : mine = {v.option : v \in VotesOf(req[q].user)}
        OBVIOUS
      <4>2. mine \subseteq Options
        BY <3>0, <4>1 DEF VotesOf, Vote
      <4>3. [res[q] EXCEPT !.mine = mine] \in Response
        BY <3>0, <4>2 DEF Response
      <4> QED
        BY <2>0, <3>3, <4>1, <4>3 DEF UserVotes
    <3>4. ASSUME NEW o \in Options, CountOption(q, o) PROVE res' \in [Requests -> Response]
      <4>1. PICK of : of = {v \in votes : v.option = o}
        OBVIOUS
      <4>2. [res[q] EXCEPT !.seen = @ \cup of] \in Response
        BY <3>0, <4>1 DEF Response
      <4> QED
        BY <2>0, <3>4, <4>1, <4>2 DEF CountOption
    <3> QED
      BY <1>3, <2>0, <3>1, <3>2, <3>3, <3>4 DEF Step, Look, Toggle, Clear, Insert, Broadcast
  <2>6. last' \in Response
    BY <1>3, <2>0 DEF PollTypeOK, Step, Look, Toggle, Clear, Insert, Close, CountAll, UserVotes,
                      Broadcast, CountOption
  <2> QED
    BY <1>3, <2>0, <2>1, <2>2, <2>3, <2>4, <2>5, <2>6 DEF PollTypeOK
<1> QED
  BY <1>1, <1>2, <1>3, StartOrMove

\* Whoever starts meets those under way; what is late never writes a vote.
LEMMA MeetingHolds ==
  /\ PollInit => Meeting
  /\ PollTypeOK /\ Meeting /\ PollNext => Meeting'
<1>1. PollInit => Meeting
  BY DEF PollInit, Meeting, UnderWay
<1>2. ASSUME PollTypeOK, Meeting, NEW q \in Requests, Starts(q) PROVE Meeting'
  <2>1. \A r \in UnderWay' : r = q \/ r \in UnderWay
    BY <1>2 DEF Starts, UnderWay
  <2>2. q \notin UnderWay /\ \A r \in UnderWay : {q, r} \in met' /\ {r, q} \in met'
    BY <1>2 DEF Starts, Started, UnderWay
  <2>3. met \subseteq met'
    BY <1>2 DEF Starts, Started
  <2>4. \A r, p \in UnderWay' : r # p => {r, p} \in met'
    BY <1>2, <2>1, <2>2, <2>3 DEF Meeting
  <2>5. \A r \in late' : req'[r].step \notin {"new", "look", "toggle", "clear", "insert"}
    BY <1>2 DEF Starts, Started, Meeting, PollTypeOK
  <2>6. \A r \in Requests : req'[r].step = "new" => req'[r].user = NoUser /\ res'[r] = Fresh
    BY <1>2 DEF Starts, Meeting
  <2> QED
    BY <2>4, <2>5, <2>6 DEF Meeting
<1>3. ASSUME PollTypeOK, Meeting, NEW q \in Requests, Moves(q), Step(q) \/ \E o \in Options : CountOption(q, o)
      PROVE  Meeting'
  <2>1. UnderWay' \subseteq UnderWay /\ UNCHANGED <<met, late>>
    BY <1>3 DEF Moves, UnderWay
  <2>2. req[q].step \notin {"look", "toggle", "clear", "insert"}
          => req'[q].step \notin {"toggle", "clear", "insert"}
    BY <1>3, GotoMoves DEF Step, Look, Toggle, Clear, Insert, Close, CountAll, UserVotes,
                           Broadcast, CountOption, Steps
  <2>3. \A r \in late' : req'[r].step \notin {"new", "look", "toggle", "clear", "insert"}
    BY <1>3, <2>1, <2>2 DEF Moves, Meeting, PollTypeOK
  <2>4. \A r \in Requests : req'[r].step = "new" => req'[r].user = NoUser /\ res'[r] = Fresh
    BY <1>3 DEF Moves, Meeting
  <2> QED
    BY <1>3, <2>1, <2>3, <2>4 DEF Meeting
<1> QED
  BY <1>1, <1>2, <1>3, StartOrMove

\* A user who hurried has always hurried; the others have one request under way.
LEMMA HurriedStays ==
  ASSUME PollTypeOK, Meeting, PollNext, NEW u \in Users, Hurried(u)
  PROVE  Hurried(u)'
<1>1. PICK q, r \in Requests : q # r /\ req[q].user = u /\ req[r].user = u /\ {q, r} \in met
  BY DEF Hurried
<1>2. req[q].step # "new" /\ req[r].step # "new"
  BY <1>1, PollsAssumption DEF Meeting
<1>3. met \subseteq met' /\ \A p \in Requests : req[p].step # "new" => req'[p].user = req[p].user
  <2>1. ASSUME NEW p \in Requests, Starts(p)
        PROVE  met \subseteq met' /\ \A s \in Requests : req[s].step # "new" => req'[s].user = req[s].user
    BY <2>1 DEF Starts, Started
  <2>2. ASSUME NEW p \in Requests, Moves(p)
        PROVE  met \subseteq met' /\ \A s \in Requests : req[s].step # "new" => req'[s].user = req[s].user
    BY <2>2 DEF Moves
  <2> QED
    BY <2>1, <2>2, StartOrMove
<1> QED
  BY <1>1, <1>2, <1>3 DEF Hurried

\* A request changes only votes of its own user, and only where it writes them.
LEMMA OwnVotesChange ==
  ASSUME PollTypeOK, NEW q \in Requests, Step(q) \/ \E o \in Options : CountOption(q, o),
         NEW v \in (votes \ votes') \cup (votes' \ votes)
  PROVE  v.user = req[q].user /\ req[q].step \in {"toggle", "clear", "insert"}
<1>1. MyVote(q).user = req[q].user
  BY DEF MyVote
<1>2. Toggle(q) \/ Clear(q) \/ Insert(q)
  BY DEF Step, Look, Close, CountAll, UserVotes, Broadcast, CountOption
<1> QED
  BY <1>1, <1>2 DEF Toggle, Clear, Insert, Dropped, VotesOf

\* The votes of a user change by his only request.
LEMMA OneVoteHolds ==
  /\ PollInit => OneVote
  /\ PollTypeOK /\ Meeting /\ OneVote /\ PollNext => OneVote'
<1>1. PollInit => OneVote
  BY DEF PollInit, OneVote
<1>2. ASSUME PollTypeOK, Meeting, OneVote, PollNext, ~multi, ~multi', NEW u \in Users, ~Hurried(u)'
      PROVE  /\ \A v, w \in votes' : v.user = u /\ w.user = u => v = w
             /\ \A r \in Requests :
                  req'[r].step = "insert" /\ req'[r].user = u => \A v \in votes' : v.user # u
  <2>0. ~Hurried(u)
    BY <1>2, HurriedStays
  <2>1. /\ \A v, w \in votes : v.user = u /\ w.user = u => v = w
        /\ \A r \in Requests :
             req[r].step = "insert" /\ req[r].user = u => \A v \in votes : v.user # u
    BY <1>2, <2>0 DEF OneVote
  <2>2. \A r, p \in UnderWay : req[r].user = u /\ req[p].user = u => r = p
    BY <1>2, <2>0 DEF Meeting, Hurried, UnderWay
  <2>3. ASSUME NEW q \in Requests, Starts(q)
        PROVE  /\ \A v, w \in votes' : v.user = u /\ w.user = u => v = w
               /\ \A r \in Requests :
                    req'[r].step = "insert" /\ req'[r].user = u => \A v \in votes' : v.user # u
    BY <2>1, <2>3 DEF Starts
  <2>4. ASSUME NEW q \in Requests, Moves(q), Step(q) \/ \E o \in Options : CountOption(q, o)
        PROVE  /\ \A v, w \in votes' : v.user = u /\ w.user = u => v = w
               /\ \A r \in Requests :
                    req'[r].step = "insert" /\ req'[r].user = u => \A v \in votes' : v.user # u
    <3>1. CASE req[q].user # u
      <4>1. \A v : v.user = u => (v \in votes' <=> v \in votes)
        BY <1>2, <2>4, <3>1, OwnVotesChange
      <4> QED
        BY <2>1, <2>4, <3>1, <4>1 DEF Moves
    <3>2. CASE req[q].user = u
      <4>1. \A r \in Requests : r # q /\ req'[r].user = u => req'[r].step # "insert"
        BY <2>2, <2>4, <3>2 DEF Moves, UnderWay
      <4>2. req'[q].step = "insert" => \A v \in votes' : v.user # u
        <5>1. req'[q].step = "insert" => Clear(q)
          BY <1>2, <2>4, GotoMoves DEF Step, Look, Toggle, Insert, Close, CountAll, UserVotes,
                                       Broadcast, CountOption, Steps
        <5> QED
          BY <3>2, <5>1 DEF Clear, Dropped, VotesOf
      <4>3. \A v, w \in votes' : v.user = u /\ w.user = u => v = w
        <5>1. CASE Insert(q)
          <6>1. votes' = votes \cup {MyVote(q)} /\ \A v \in votes : v.user # u
            BY <2>1, <3>2, <5>1 DEF Insert
          <6> QED
            BY <6>1
        <5>2. CASE ~Insert(q)
          <6>1. votes' \subseteq votes
            BY <2>4, <5>2 DEF Step, Look, Toggle, Clear, Close, CountAll, UserVotes,
                              Broadcast, CountOption
          <6> QED
            BY <2>1, <6>1
        <5> QED
          BY <5>1, <5>2
      <4> QED
        BY <4>1, <4>2, <4>3
    <3> QED
      BY <3>1, <3>2
  <2> QED
    BY <1>2, <2>3, <2>4, StartOrMove
<1>3. PollTypeOK /\ PollNext => multi' = multi
  BY StartOrMove DEF Starts, Moves
<1> QED
  BY <1>1, <1>2, <1>3 DEF OneVote

\* A request that meets nobody ends with a broadcast of what there is, or has
\* changed nothing.
LEMMA SerialHolds ==
  /\ PollInit => Serial
  /\ PollTypeOK /\ Meeting /\ Serial /\ PollNext => Serial'
<1>1. PollInit => Serial
  <2> SUFFICES ASSUME PollInit PROVE Serial
    OBVIOUS
  <2>1. Cardinality({}) = 0
    BY FS_EmptySet
  <2>2. UnderWay = {}
    BY DEF PollInit, UnderWay
  <2>3. Current
    BY <2>1 DEF PollInit, Current, Fresh
  <2> QED
    BY <2>2, <2>3 DEF Serial
<1>2. ASSUME PollTypeOK, Meeting, Serial, NEW q \in Requests, Starts(q), met' = {} PROVE Serial'
  <2>1. met = {} /\ UnderWay = {}
    <3>1. met' = met \cup {{q, r} : r \in UnderWay}
      BY <1>2 DEF Starts, Started
    <3>2. \A r \in UnderWay : {q, r} \in met'
      BY <3>1
    <3> QED
      BY <1>2, <3>1, <3>2
  <2>2. Current /\ Current' /\ res[q] = Fresh
    BY <1>2, <2>1 DEF Serial, Starts, Current, Meeting
  <2>3. \A r \in UnderWay' : r = q
    BY <1>2, <2>1 DEF Starts, UnderWay
  <2>4. req'[q].step \in {"look", "close", "done"} /\ (req'[q].step = "look" => ~closed')
        /\ res'[q] = res[q]
    BY <1>2 DEF Starts
  <2>5. Alone(q)' \/ req'[q].step = "done"
    BY <2>2, <2>4 DEF Alone
  <2> QED
    BY <2>2, <2>3, <2>5 DEF Serial, UnderWay
<1>3. ASSUME PollTypeOK, Meeting, Serial, NEW q \in Requests, Moves(q),
             Step(q) \/ \E o \in Options : CountOption(q, o), met' = {}
      PROVE  Serial'
  <2>0. /\ req[q].step \notin {"new", "done"} /\ UnderWay = {q} /\ Alone(q)
        /\ res[q] \in Response /\ res \in [Requests -> Response]
        /\ left \in [Requests -> SUBSET Options] /\ votes \subseteq Vote /\ closed \in BOOLEAN
    BY <1>3 DEF Moves, UnderWay, Meeting, Serial, PollTypeOK
  <2>1. \A r \in UnderWay' : r = q
    BY <1>3, <2>0 DEF Moves, UnderWay
  <2>2. IF req'[q].step = "done" THEN Current' ELSE Alone(q)'
    <3>0. Fresh.closed = FALSE /\ Fresh.seen = {}
      BY DEF Fresh
    <3>1. CASE Look(q)
      <4>1. /\ req[q].step = "look" /\ Goto(q, req'[q].step)
            /\ req'[q].step \in {"toggle", "insert", "clear"}
            /\ req'[q].step = "insert" => MyVote(q) \notin votes
            /\ UNCHANGED <<closed, votes, res, left, last>>
        BY <3>1, GotoMoves, <1>3 DEF Look, Steps
      <4>2. MyVote(q)' = MyVote(q)
        BY <1>3 DEF Moves, MyVote
      <4> QED
        BY <2>0, <4>1, <4>2 DEF Alone, Current
    <3>2. CASE Toggle(q)
      <4>1. /\ req'[q].step = "total" /\ req[q].step = "toggle"
            /\ UNCHANGED <<closed, res>>
        BY <1>3, <3>2, GotoMoves DEF Toggle, Steps
      <4>2. res[q] = Fresh /\ closed = FALSE
        BY <2>0, <4>1 DEF Alone
      <4> QED
        BY <3>0, <4>1, <4>2 DEF Alone
    <3>3. CASE Clear(q)
      <4>1. MyVote(q)' = MyVote(q) /\ MyVote(q).user = req[q].user
        BY <1>3 DEF Moves, MyVote
      <4>2. MyVote(q) \notin votes'
        BY <3>3, <4>1 DEF Clear, Dropped, VotesOf
      <4> QED
        BY <1>3, <2>0, <3>3, <4>1, <4>2, GotoMoves DEF Clear, Alone, Steps
    <3>4. CASE Insert(q)
      <4>1. MyVote(q) \notin votes /\ Goto(q, "total") /\ UNCHANGED <<closed, res>>
        BY <2>0, <3>4 DEF Insert, Alone
      <4>2. req'[q].step = "total" /\ req[q].step = "insert"
        BY <1>3, <3>4, <4>1, GotoMoves DEF Steps, Insert
      <4> QED
        <5>1. res[q] = Fresh /\ closed = FALSE
          BY <2>0, <4>2 DEF Alone
        <5> QED
          BY <3>0, <4>1, <4>2, <5>1 DEF Alone
    <3>5. CASE Close(q)
      <4>1. req'[q].step = "total" /\ req[q].step = "close" /\ closed' = TRUE
        BY <1>3, <3>5, GotoMoves DEF Close, Steps
      <4>2. res'[q].closed = TRUE /\ res'[q].seen = res[q].seen
        BY <2>0, <3>5 DEF Close, Response
      <4> QED
        BY <2>0, <3>0, <4>1, <4>2 DEF Alone
    <3>6. CASE CountAll(q)
      <4>1. /\ req'[q].step = "mine" /\ req[q].step = "total"
            /\ UNCHANGED <<votes, closed>>
        BY <1>3, <3>6, GotoMoves DEF CountAll, Steps
      <4>2. /\ res'[q].closed = res[q].closed /\ res'[q].seen = res[q].seen
            /\ res'[q].total = Cardinality(votes)
        BY <2>0, <3>6 DEF CountAll, Response
      <4> QED
        BY <2>0, <4>1, <4>2 DEF Alone
    <3>7. CASE UserVotes(q)
      <4>1. /\ req'[q].step = "options" /\ req[q].step = "mine" /\ left'[q] = Options
            /\ UNCHANGED <<votes, closed>>
        BY <1>3, <2>0, <3>7, GotoMoves DEF UserVotes, Steps
      <4>2. /\ res'[q].closed = res[q].closed /\ res'[q].seen = res[q].seen
            /\ res'[q].total = res[q].total
        BY <2>0, <3>7 DEF UserVotes, Response
      <4>3. {v \in votes : v.option \notin Options} = {}
        BY <2>0 DEF Vote
      <4> QED
        BY <2>0, <4>1, <4>2, <4>3 DEF Alone
    <3>8. ASSUME NEW o \in Options, CountOption(q, o)
          PROVE  IF req'[q].step = "done" THEN Current' ELSE Alone(q)'
      <4>1. /\ req' = req /\ req[q].step = "options" /\ o \in left[q] /\ left'[q] = left[q] \ {o}
            /\ UNCHANGED <<votes, closed>>
        BY <2>0, <3>8 DEF CountOption
      <4>2. /\ res'[q].closed = res[q].closed /\ res'[q].total = res[q].total
            /\ res'[q].seen = res[q].seen \cup {v \in votes : v.option = o}
        BY <2>0, <3>8 DEF CountOption, Response
      <4>3. res[q].seen = {v \in votes : v.option \notin left[q]}
        BY <2>0, <4>1 DEF Alone
      <4>4. res'[q].seen = {v \in votes' : v.option \notin left'[q]}
        BY <4>1, <4>2, <4>3
      <4> QED
        BY <2>0, <4>1, <4>2, <4>4 DEF Alone
    <3>9. CASE Broadcast(q)
      <4>1. /\ req'[q].step = "done" /\ req[q].step = "options" /\ left[q] = {} /\ last' = res[q]
            /\ UNCHANGED <<votes, closed>>
        BY <1>3, <3>9, GotoMoves DEF Broadcast, Steps
      <4>2. {v \in votes : v.option \notin left[q]} = votes
        BY <4>1
      <4> QED
        BY <2>0, <4>1, <4>2 DEF Alone, Current
    <3> QED
      BY <1>3, <3>1, <3>2, <3>3, <3>4, <3>5, <3>6, <3>7, <3>8, <3>9 DEF Step
  <2>3. UnderWay' = {} => req'[q].step = "done"
    BY <1>3 DEF Moves, UnderWay
  <2>4. \A r \in UnderWay' : Alone(r)'
    BY <2>1, <2>2 DEF UnderWay
  <2> QED
    BY <2>2, <2>3, <2>4 DEF Serial
<1>4. PollTypeOK /\ Meeting /\ Serial /\ PollNext => Serial'
  <2> SUFFICES ASSUME PollTypeOK, Meeting, Serial, PollNext PROVE Serial'
    OBVIOUS
  <2>1. CASE met' # {}
    BY <2>1 DEF Serial
  <2>2. CASE met' = {}
    BY <1>2, <1>3, <2>2, StartOrMove
  <2> QED
    BY <2>1, <2>2
<1> QED
  BY <1>1, <1>4

----------------------------------------------------------------------------
(* The invariant and what follows from it.                                  *)

\* The parts are kept together,
THEOREM PollInvariance == PollSpec => []PollInv
<1>1. PollInit => PollInv
  BY PollTyped, MeetingHolds, OneVoteHolds, SerialHolds DEF PollInv
<1>2. PollInv /\ PollNext => PollInv'
  BY PollTyped, MeetingHolds, OneVoteHolds, SerialHolds DEF PollInv
<1>3. ASSUME PollInv, UNCHANGED pollVars PROVE PollInv'
  <2>1. UNCHANGED <<multi, closed, votes, req, res, left, last, late, met>>
    BY <1>3 DEF pollVars
  <2>2. PollTypeOK'
    BY <1>3, <2>1 DEF PollInv, PollTypeOK
  <2>3. Meeting'
    BY <1>3, <2>1 DEF PollInv, Meeting, UnderWay
  <2>4. OneVote'
    BY <1>3, <2>1 DEF PollInv, OneVote, Hurried
  <2>5. Serial'
    <3>1. \A q \in Requests : Alone(q)' <=> Alone(q)
      BY <2>1 DEF Alone, Current, MyVote
    <3>2. UnderWay' = UnderWay /\ (Current' <=> Current)
      BY <2>1 DEF UnderWay, Current
    <3> QED
      BY <1>3, <2>1, <3>1, <3>2 DEF PollInv, Serial, UnderWay
  <2> QED
    BY <2>2, <2>3, <2>4, <2>5 DEF PollInv
<1> QED
  BY <1>1, <1>2, <1>3, PTL DEF PollSpec

\* so rows, requests and responses have their types, and a request that writes a
\* vote is a member's (poll.go).
THEOREM PollTyping == PollSpec => []PollTypeOK
<1>1. PollInv => PollTypeOK
  BY DEF PollInv
<1> QED
  BY <1>1, PollInvariance, PTL

\* In a single-select poll a user who waits for each answer has one vote at most,
\* however the statements of others fall between his (poll.go, Vote).
THEOREM PatientHaveOneVote == PollSpec => []PatientHoldOneVote
<1>1. ASSUME PollInv PROVE PatientHoldOneVote
  <2> SUFFICES ASSUME ~multi, NEW u \in Users, ~Hurried(u) PROVE Cardinality(VotesOf(u)) <= 1
    BY DEF PatientHoldOneVote
  <2>1. \A v, w \in VotesOf(u) : v = w
    BY <1>1 DEF PollInv, OneVote, VotesOf
  <2>2. CASE VotesOf(u) = {}
    BY <2>2, FS_EmptySet
  <2>3. CASE VotesOf(u) # {}
    <3>1. PICK v \in VotesOf(u) : VotesOf(u) = {v}
      BY <2>1, <2>3
    <3>2. Cardinality(VotesOf(u)) = 1
      BY <3>1, FS_Singleton
    <3> QED
      BY <3>2
  <2> QED
    BY <2>2, <2>3
<1> QED
  BY <1>1, PollInvariance, PTL

\* When no two requests of a poll overlap, the last broadcast is the poll as it is
\* (poll.go, broadcastPollUpdate).
THEOREM SerialShown == PollSpec => []SerialResultIsShown
<1>1. PollInv => SerialResultIsShown
  BY DEF PollInv, Serial, Current, SerialResultIsShown
<1> QED
  BY <1>1, PollInvariance, PTL

\* Once the poll is closed only a request made before can change a vote, and only
\* one of its user's (poll.go, Vote and Close).
THEOREM ClosedIsFinal == PollSpec => ClosedStopsNewRequests
<1>1. ASSUME PollInv, [PollNext]_pollVars
      PROVE  [closed => \A v \in (votes \ votes') \cup (votes' \ votes) :
                          \E q \in UnderWay \ late : req[q].user = v.user]_pollVars
  <2> SUFFICES ASSUME NEW v \in (votes \ votes') \cup (votes' \ votes)
               PROVE  \E q \in UnderWay \ late : req[q].user = v.user
    OBVIOUS
  <2>1. PollNext /\ PollTypeOK /\ Meeting
    BY <1>1 DEF PollInv, pollVars
  <2>2. PICK q \in Requests : \/ Starts(q)
                              \/ Moves(q) /\ (Step(q) \/ \E o \in Options : CountOption(q, o))
    BY <2>1, StartOrMove
  <2>3. ~Starts(q)
    BY DEF Starts
  <2>4. v.user = req[q].user /\ req[q].step \in {"toggle", "clear", "insert"}
    BY <2>1, <2>2, <2>3, OwnVotesChange
  <2>5. q \in UnderWay \ late
    BY <2>1, <2>4 DEF UnderWay, Meeting
  <2> QED
    BY <2>4, <2>5
<1> QED
  BY <1>1, PollInvariance, PTL DEF PollSpec, ClosedStopsNewRequests
=============================================================================
