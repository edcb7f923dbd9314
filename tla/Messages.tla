------------------------------ MODULE Messages ------------------------------
(***************************************************************************)
(* The life of a message in the Go backend: created, offered to the         *)
(* recipients' connections, marked delivered and read, edited, deleted.     *)
(* Sources: internal/websocket/client.go (one ReadPump goroutine per        *)
(* connection runs the WebSocket handlers), internal/api/handlers/          *)
(* messages.go (Forward, GetHistory), internal/models/message.go.           *)
(*                                                                          *)
(* One sender writes to the recipients; a DM goes to one of them, a group   *)
(* message to all.  Statements of a handler that touch the database or a    *)
(* connection are separate steps, so handlers interleave as goroutines do.  *)
(* A connection is what module Registry promises: a buffer while it lasts,  *)
(* lost with everything still in it when it ends.                           *)
(***************************************************************************)
EXTENDS Naturals, Sequences

CONSTANTS
  Msgs,        \* message ids (the bound on messages created in a run)
  NoMsg,
  Recipients,  \* users other than the sender
  WsPumps,     \* connections of the sender, a replaced one included
  HttpTasks,   \* concurrent HTTP requests of the sender
  Cap,         \* buffer of a recipient's connection
  MaxEdits     \* bound on the edits of one message

Handlers == WsPumps \cup HttpTasks

ASSUME MessagesAssumption ==
  /\ NoMsg \notin Msgs
  /\ WsPumps \cap HttpTasks = {}
  /\ Cap \in Nat \ {0} /\ MaxEdits \in Nat

VARIABLES
  row,       \* the messages table
  h,         \* the sender's handlers
  online,    \* recipients with a registered connection
  inbox,     \* buffered events of that connection
  seen,      \* messages whose content has reached a recipient's client
  ack,       \* the handler of a recipient's read ack
  hist,      \* a recipient's GetHistory request: the page it has fetched
  told,      \* the last status queued for the sender's client
  accepted,  \* <<m, r>>: r's connection accepted message m (history)
  early      \* messages deleted while they were still being sent (history)

vars == <<row, h, online, inbox, seen, ack, hist, told, accepted, early>>

Kinds  == {"dm", "group", "forward", "bot"}
Status == {"sent", "delivered", "read"}
Rank   == [s \in Status |-> CASE s = "sent" -> 0 [] s = "delivered" -> 1
                                 [] s = "read" -> 2]
NoRow  == [kind |-> "none", to |-> {}, status |-> "sent", deleted |-> FALSE,
           edits |-> 0]
IdleH  == [step |-> "idle", msg |-> NoMsg, event |-> "none", left |-> {},
           sent |-> FALSE]
NoPage == {NoMsg}

Exists(m)  == row[m].kind # "none"
IsDM(m)    == row[m].kind \in {"dm", "forward"}
Busy(p, m) == h[p].step # "idle" /\ h[p].msg = m
Sending(m) == \E p \in Handlers : Busy(p, m) /\ h[p].step \in {"probe", "offer", "ack"}

TypeOK ==
  /\ \A m \in Msgs : /\ row[m].kind \in Kinds \cup {"none"}
                     /\ row[m].to \subseteq Recipients
                     /\ row[m].status \in Status
                     /\ row[m].edits \in 0 .. MaxEdits
  /\ \A p \in Handlers :
       /\ h[p].step \in {"idle", "probe", "offer", "ack", "edit", "erase", "event"}
       /\ h[p].step = "idle" <=> h[p].msg = NoMsg
       /\ h[p].left \subseteq Recipients
  /\ online \subseteq Recipients
  /\ \A r \in Recipients : /\ Len(inbox[r]) <= Cap
                           /\ r \notin online => inbox[r] = << >>
                           /\ ack[r] \in Msgs \cup {NoMsg}

Init ==
  /\ row = [m \in Msgs |-> NoRow]
  /\ h = [p \in Handlers |-> IdleH]
  /\ online = {}
  /\ inbox = [r \in Recipients |-> << >>]
  /\ seen = [r \in Recipients |-> {}]
  /\ ack = [r \in Recipients |-> NoMsg]
  /\ hist = [r \in Recipients |-> NoPage]
  /\ told = [m \in Msgs |-> "none"]
  /\ accepted = {}
  /\ early = {}

----------------------------------------------------------------------------
(* Sending.  handleDirectMessage, handleGroupMessage and Forward save the   *)
(* row with status "sent" and then offer it.  What is forwarded may be any  *)
(* message the sender has access to, somebody else's included; a request is *)
(* modelled for one target, its other targets being messages of their own.  *)

Start(p, m, step, event, left) ==
  h' = [h EXCEPT ![p] = [step |-> step, msg |-> m, event |-> event,
                         left |-> left, sent |-> FALSE]]

Create(p, m, k, to) ==
  /\ h[p].step = "idle" /\ ~Exists(m)
  /\ k \in IF p \in WsPumps THEN {"dm", "group"} ELSE {"forward", "group"}
  /\ IF k = "group" THEN to = Recipients ELSE \E r \in Recipients : to = {r}
  /\ row' = [row EXCEPT ![m] = [NoRow EXCEPT !.kind = k, !.to = to]]
  /\ Start(p, m, IF k = "forward" THEN "probe" ELSE "offer", "message", to)
  /\ UNCHANGED <<online, inbox, seen, ack, hist, told, accepted, early>>

\* handleBotMessage: the row is stored with status "sent" and nothing is offered to
\* anybody, yet the ack says "delivered".  The bot's answer is a row of the bot's.
CreateForBot(p, m) ==
  /\ p \in WsPumps /\ h[p].step = "idle" /\ ~Exists(m)
  /\ row' = [row EXCEPT ![m] = [NoRow EXCEPT !.kind = "bot"]]
  /\ h' = [h EXCEPT ![p] = [step |-> "ack", msg |-> m, event |-> "message",
                            left |-> {}, sent |-> TRUE]]
  /\ UNCHANGED <<online, inbox, seen, ack, hist, told, accepted, early>>

\* Forward asks IsOnline first, and from then on takes the answer for the
\* outcome of the send.
Probe(p) ==
  /\ h[p].step = "probe"
  /\ LET up == h[p].left \cap online IN
     h' = [h EXCEPT ![p].step = "offer", ![p].left = up, ![p].sent = up # {}]
  /\ UNCHANGED <<row, online, inbox, seen, ack, hist, told, accepted, early>>

\* SendToUser: accepted if the user has a connection whose buffer has room.
Reaches(r) == r \in online /\ Len(inbox[r]) < Cap

Queue(r, p) ==
  IF Reaches(r)
  THEN [inbox EXCEPT ![r] = Append(@, [type |-> h[p].event, msg |-> h[p].msg])]
  ELSE inbox

Offer(p, r) ==
  /\ h[p].step \in {"offer", "event"} /\ r \in h[p].left
  /\ inbox' = Queue(r, p)
  /\ h' = [h EXCEPT ![p].left = @ \ {r}, ![p].sent = @ \/ Reaches(r)]
  /\ accepted' = IF h[p].event = "message" /\ Reaches(r)
                 THEN accepted \cup {<<h[p].msg, r>>} ELSE accepted
  /\ UNCHANGED <<row, online, seen, ack, hist, told, early>>

\* Mutant: the row is marked delivered whatever the sends returned.
SetDelivered_Always(p) ==
  row' = [row EXCEPT ![h[p].msg].status = "delivered"]

\* Model(&message).Update("status", delivered): by id, whatever the row says.
SetDelivered(p) ==
  row' = IF h[p].sent THEN [row EXCEPT ![h[p].msg].status = "delivered"] ELSE row

Update(p) ==
  /\ h[p].step = "offer" /\ h[p].left = {}
  /\ SetDelivered(p)
  /\ h' = [h EXCEPT ![p].step = "ack"]
  /\ UNCHANGED <<online, inbox, seen, ack, hist, told, accepted, early>>

\* The ack on the sender's own connection, or the HTTP response of Forward.
Ack(p) ==
  /\ h[p].step = "ack"
  /\ told' = [told EXCEPT ![h[p].msg] =
                IF p \in WsPumps /\ h[p].sent THEN "delivered" ELSE "sent"]
  /\ h' = [h EXCEPT ![p] = IdleH]
  /\ UNCHANGED <<row, online, inbox, seen, ack, hist, accepted, early>>

----------------------------------------------------------------------------
(* handleMessageEdit and handleMessageDelete ("everyone") of the sender:    *)
(* find the row and check it, write it, then send the event.  The row is    *)
(* all they ask for: its send may still be going on in another handler.     *)

\* Mutant: the check for a deleted message is missing.
EditFind_Unchecked(p, m) ==
  /\ p \in WsPumps /\ h[p].step = "idle" /\ Exists(m) /\ row[m].edits < MaxEdits
  /\ Start(p, m, "edit", "edited", row[m].to)
  /\ UNCHANGED <<row, online, inbox, seen, ack, hist, told, accepted, early>>

EditFind(p, m) ==
  /\ p \in WsPumps /\ h[p].step = "idle" /\ Exists(m)
  /\ ~row[m].deleted /\ row[m].edits < MaxEdits
  /\ Start(p, m, "edit", "edited", row[m].to)
  /\ UNCHANGED <<row, online, inbox, seen, ack, hist, told, accepted, early>>

EditWrite(p) ==
  /\ h[p].step = "edit" /\ row[h[p].msg].edits < MaxEdits
  /\ row' = [row EXCEPT ![h[p].msg].edits = @ + 1]
  /\ h' = [h EXCEPT ![p].step = "event"]
  /\ UNCHANGED <<online, inbox, seen, ack, hist, told, accepted, early>>

DeleteFind(p, m) ==
  /\ p \in WsPumps /\ h[p].step = "idle" /\ Exists(m)
  /\ Start(p, m, "erase", "deleted", row[m].to)
  /\ UNCHANGED <<row, online, inbox, seen, ack, hist, told, accepted, early>>

DeleteWrite(p) ==
  /\ h[p].step = "erase"
  /\ row' = [row EXCEPT ![h[p].msg].deleted = TRUE]
  /\ h' = [h EXCEPT ![p].step = "event"]
  /\ early' = IF Sending(h[p].msg) THEN early \cup {h[p].msg} ELSE early
  /\ UNCHANGED <<online, inbox, seen, ack, hist, told, accepted>>

EventDone(p) ==
  /\ h[p].step = "event" /\ h[p].left = {}
  /\ h' = [h EXCEPT ![p] = IdleH]
  /\ UNCHANGED <<row, online, inbox, seen, ack, hist, told, accepted, early>>

----------------------------------------------------------------------------
(* The recipient.                                                           *)

Connect(r) ==
  /\ r \notin online
  /\ online' = online \cup {r}
  /\ UNCHANGED <<row, h, inbox, seen, ack, hist, told, accepted, early>>

Disconnect(r) ==
  /\ r \in online
  /\ online' = online \ {r}
  /\ inbox' = [inbox EXCEPT ![r] = << >>]
  /\ UNCHANGED <<row, h, seen, ack, hist, told, accepted, early>>

Receive(r) ==
  /\ inbox[r] # << >>
  /\ inbox' = [inbox EXCEPT ![r] = Tail(@)]
  /\ LET e == Head(inbox[r]) IN
     seen' = IF e.type = "message"
             THEN [seen EXCEPT ![r] = @ \cup {e.msg}] ELSE seen
  /\ UNCHANGED <<row, h, online, ack, hist, told, accepted, early>>

\* Mutant: an ack for "delivered" is taken as well, and written as it comes.
MarkRead_AnyStatus(r, m) ==
  \E s \in {"delivered", "read"} : row' = [row EXCEPT ![m].status = s]

\* handleAckMessage: UPDATE ... WHERE id = ? AND recipient_id = ?; a group row
\* has no recipient_id.
MarkRead(r, m) ==
  row' = IF IsDM(m) /\ r \in row[m].to
         THEN [row EXCEPT ![m].status = "read"] ELSE row

AckRead(r, m) ==
  /\ r \in online /\ ack[r] = NoMsg /\ m \in seen[r]
  /\ MarkRead(r, m)
  /\ ack' = [ack EXCEPT ![r] = m]
  /\ UNCHANGED <<h, online, inbox, seen, hist, told, accepted, early>>

\* The read ack goes to the sender of any existing message, if it gets through.
NotifySender(r) ==
  /\ ack[r] # NoMsg
  /\ told' \in {told, [told EXCEPT ![ack[r]] = "read"]}
  /\ ack' = [ack EXCEPT ![r] = NoMsg]
  /\ UNCHANGED <<row, h, online, inbox, seen, hist, accepted, early>>

\* GetHistory, first query: a page of the conversation.
Page(r) == SUBSET {m \in Msgs : IsDM(m) /\ r \in row[m].to}

Fetch(r) ==
  /\ hist[r] = NoPage
  /\ hist' \in {[hist EXCEPT ![r] = p] : p \in Page(r)}
  /\ UNCHANGED <<row, h, online, inbox, seen, ack, told, accepted, early>>

\* Second query, then the response: every message of the conversation is
\* marked, and the client shows the page.
FetchMark(r) ==
  /\ hist[r] # NoPage
  /\ row' = [m \in Msgs |-> IF IsDM(m) /\ r \in row[m].to
                            THEN [row[m] EXCEPT !.status = "read"] ELSE row[m]]
  /\ seen' = [seen EXCEPT ![r] = @ \cup hist[r]]
  /\ hist' = [hist EXCEPT ![r] = NoPage]
  /\ UNCHANGED <<h, online, inbox, ack, told, accepted, early>>

----------------------------------------------------------------------------
HandlerStep(p) ==
  \/ \E m \in Msgs, k \in Kinds, to \in SUBSET Recipients : Create(p, m, k, to)
  \/ \E m \in Msgs : CreateForBot(p, m)
  \/ Probe(p) \/ Update(p) \/ Ack(p) \/ EditWrite(p) \/ DeleteWrite(p)
  \/ EventDone(p)
  \/ \E r \in Recipients : Offer(p, r)
  \/ \E m \in Msgs : EditFind(p, m) \/ DeleteFind(p, m)

RecipientStep(r) ==
  \/ Connect(r) \/ Disconnect(r) \/ Receive(r) \/ NotifySender(r)
  \/ Fetch(r) \/ FetchMark(r)
  \/ \E m \in Msgs : AckRead(r, m)

Next == \/ \E p \in Handlers : HandlerStep(p)
        \/ \E r \in Recipients : RecipientStep(r)

Spec == Init /\ [][Next]_vars

----------------------------------------------------------------------------
(* Properties.                                                              *)

\* Once the handler that sends a message has written its outcome, the status
\* only moves forward: sent, delivered, read.
SettledStatusIsMonotone ==
  [][\A m \in Msgs :
       (\A p \in Handlers : Busy(p, m) => h[p].step \notin {"probe", "offer"})
         => Rank[row'[m].status] >= Rank[row[m].status]]_vars

\* For a message sent to users over the WebSocket, "delivered" means a recipient's
\* connection took it; so does the ack that tells the sender.  Not so for what is
\* forwarded, where IsOnline is taken for the outcome, nor for a message to the
\* bot, which is called delivered and goes to no connection.
DeliveredWasAccepted ==
  \A m \in Msgs :
    row[m].kind \in {"dm", "group"}
      /\ (row[m].status = "delivered" \/ told[m] = "delivered")
      => \E r \in row[m].to : <<m, r>> \in accepted

\* With one connection of the sender, nothing about a message follows its
\* deletion on the way to a recipient, unless it was deleted while an HTTP
\* request of his was still sending it: nothing holds the deletion back then, and
\* a member of the group may get the message after the event that deletes it.
NothingAfterDelete ==
  \A r \in Recipients : \A i, j \in 1 .. Len(inbox[r]) :
    i < j /\ inbox[r][i].type = "deleted" /\ inbox[r][i].msg \notin early
      /\ inbox[r][j].msg = inbox[r][i].msg
      => inbox[r][j].type = "deleted"
=============================================================================
