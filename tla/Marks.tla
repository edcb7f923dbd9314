-------------------------------- MODULE Marks --------------------------------
(***************************************************************************)
(* The tables in which users mark messages and conversations: reactions,    *)
(* starred messages, archived conversations, themes, conversation settings, *)
(* read receipts, the pinned message of a conversation, the tokens of       *)
(* devices and the sender keys of groups (internal/models and their         *)
(* handlers).  All are written by a lookup and a write, each a    *)
(* statement of its own, but differ in what they do with a row they found   *)
(* and in what their unique index covers: an index with a column that is    *)
(* NULL refuses nothing.                                                    *)
(*                                                                          *)
(* A behaviour is about one table.  A request inserts at most one row per   *)
(* key: the row has the request's number for its id, and First takes the    *)
(* lowest, so that the numbers are the order of the random ids.             *)
(***************************************************************************)
EXTENDS Integers, Sequences

CONSTANTS Users,
          Keys,        \* messages, conversations or tokens
          MaxRequest,  \* bound: the requests are 1..MaxRequest, in the order of their ids
          KeyLists,    \* by table, the lists of different keys a request may be about:
                       \* of several messages for receipts, of one key otherwise
          NoUser, Everyone, NoRow, Nothing

Requests == 1..MaxRequest
Tables   == {"reaction", "star", "dmArchive", "groupArchive", "theme", "settings",
             "receipt", "pin", "token", "senderKey"}

\* Two columns: the emoji; the two halves of a theme; the timer and the mute; the
\* message that is pinned; the key of the sender.
Value   == [1..2 -> 0..2]
Default == <<0, 0>>
Row     == [id : Requests, key : Keys, user : Users, val : Value]

ASSUME MarksAssumption ==
  /\ MaxRequest \in Nat /\ DOMAIN KeyLists = Tables
  /\ NoUser \notin Users /\ Everyone \notin Users \cup {NoUser} /\ NoRow \notin Row
  /\ Nothing \notin Value \cup Users
  /\ \A t \in Tables : \A list \in KeyLists[t] :
       /\ list \in Seq(Keys) /\ list # <<>> /\ (Len(list) > 1 => t = "receipt")
       /\ \A i, j \in DOMAIN list : list[i] = list[j] => i = j

VARIABLES
  table,    \* the table this behaviour is about
  rows,     \* its rows
  req,      \* what a request is doing and has in hand
  told,     \* by key, the rows of the last reaction or pin event, the readers announced
  wish,     \* what the last successful request of a user asked (history)
  rushed,   \* <<user, key>> of requests of the user at the same time (history)
  crowded   \* keys whose last request began when one about them was running (history)

vars == <<table, rows, req, told, wish, rushed, crowded>>

Idle(step) == [step |-> step, user |-> NoUser, op |-> "put", col |-> 1, val |-> 0,
               todo |-> <<>>, keys |-> {}, row |-> NoRow, seen |-> {}]

Init ==
  /\ table \in Tables /\ rows = {}
  /\ req = [q \in Requests |-> Idle("new")]
  /\ told = [k \in Keys |-> {}] /\ rushed = {} /\ crowded = {}
  /\ wish = [u \in Users |-> [k \in Keys |-> Nothing]]

----------------------------------------------------------------------------
(* What the tables differ in: whose row is looked for and deleted, one of    *)
(* the user's or whoever's it is; the columns of an index that refuses a     *)
(* second row; and what is done with a row that was found.  It is kept as it *)
(* is, or saved whole as it was loaded, or one of its columns is updated.    *)

Table(whose, index, found) == [whose |-> whose, index |-> index, found |-> found]

Reaction             == Table("user", "userAndKey", "save")
StarredMessage       == Table("user", "userAndKey", "keep")
DMArchive            == Table("user", "userAndKey", "keep")
GroupArchive         == Table("user", "key", "keep")
ChatTheme            == Table("user", "none", "save")
ConversationSettings == Table("user", "none", "update")
MessageReadReceipt   == Table("user", "userAndKey", "keep")
PinnedMessage        == Table("all", "none", "replace")
DeviceToken          == Table("all", "key", "save")
SenderKey            == Table("user", "userAndKey", "save")

Kind(t) == CASE t = "reaction" -> Reaction  [] t = "star" -> StarredMessage
             [] t = "dmArchive" -> DMArchive [] t = "groupArchive" -> GroupArchive
             [] t = "theme" -> ChatTheme     [] t = "settings" -> ConversationSettings
             [] t = "receipt" -> MessageReadReceipt [] t = "pin" -> PinnedMessage
             [] t = "token" -> DeviceToken   [] t = "senderKey" -> SenderKey

\* Mutant: no index refuses a row.
Refused_Never(r) == FALSE

Refused(r) ==
  \E x \in rows : /\ x.id # r.id /\ x.key = r.key
                  /\ \/ Kind(table).index = "key"
                     \/ Kind(table).index = "userAndKey" /\ x.user = r.user

----------------------------------------------------------------------------
RowsOf(u, k) == {r \in rows : r.user = u /\ r.key = k}
Looked(q)    == {r \in rows : /\ r.key = Head(req[q].todo)
                              /\ Kind(table).whose = "user" => r.user = req[q].user}
First(rs)    == CHOOSE r \in rs : \A x \in rs : r.id <= x.id
Set(q, v)    == [v EXCEPT ![req[q].col] = req[q].val]
Working      == {q \in Requests : req[q].step \notin {"new", "ok", "failed"}}
At(q, step)  == req[q].step = step
Unmoved      == UNCHANGED <<table, rushed, crowded>>

Asked(q, v) == IF req[q].op = "take" THEN Nothing
               ELSE LET old == IF v = Nothing THEN Default ELSE v
                    IN IF req[q].op = "show" THEN old ELSE Set(q, old)

\* A request begins; its user may see the message or is in the conversation.
Ask(q, u, op, col, val) ==
  \E list \in KeyLists[table] :
    LET ks     == {list[i] : i \in DOMAIN list}
        others == {r \in Working : req[r].user = u}
        step   == IF op = "take" THEN "remove" ELSE IF table = "pin" THEN "clear" ELSE "look"
    IN
    /\ At(q, "new")
    /\ req' = [req EXCEPT ![q] = [Idle(step) EXCEPT
                                    !.user = u, !.op = op, !.col = col, !.val = val,
                                    !.todo = list, !.keys = ks]]
    /\ rushed' = IF others = {} THEN rushed
                 ELSE rushed \cup ({u} \X (ks \cup UNION {req[r].keys : r \in others}))
    /\ crowded' = (crowded \ ks) \cup {k \in ks : \E r \in Working : k \in req[r].keys}
    /\ UNCHANGED <<table, rows, told, wish>>

AddReaction(q, u) == table = "reaction" /\ \E e \in 1..2 : Ask(q, u, "put", 1, e)
Star(q, u)        == table = "star" /\ Ask(q, u, "put", 1, 1)
Archive(q, u)     == table \in {"dmArchive", "groupArchive"} /\ Ask(q, u, "put", 1, 1)
Pin(q, u)         == table = "pin" /\ \E g \in 1..2 : Ask(q, u, "put", 1, g)
MarkRead(q, u)    == table = "receipt" /\ Ask(q, u, "put", 1, 1)

RegisterToken(q, u) == table = "token" /\ Ask(q, u, "put", 1, 1)
SaveSenderKey(q, u) == table = "senderKey" /\ \E k \in 1..2 : Ask(q, u, "put", 1, k)

\* A theme may be set in part.
SetTheme(q, u) == table = "theme" /\ \E c, v \in 1..2 : Ask(q, u, "put", c, v)

SetDisappearingMessages(q, u) == table = "settings" /\ \E s \in 0..1 : Ask(q, u, "put", 1, s)
MuteConversation(q, u)        == table = "settings" /\ \E t \in 0..1 : Ask(q, u, "put", 2, t)

\* The settings are made when they are first looked at.
GetConversationSettings(q, u) == table = "settings" /\ Ask(q, u, "show", 1, 0)

RemoveReaction(q, u) == table = "reaction" /\ Ask(q, u, "take", 1, 0)
Unpin(q, u)          == table = "pin" /\ Ask(q, u, "take", 1, 0)
Unstar(q, u)         == table = "star" /\ Ask(q, u, "take", 1, 0)
Unarchive(q, u)      == table \in {"dmArchive", "groupArchive"} /\ Ask(q, u, "take", 1, 0)
DeleteTheme(q, u)    == table = "theme" /\ Ask(q, u, "take", 1, 0)
RemoveDevice(q, u)   == table = "senderKey" /\ Ask(q, u, "take", 1, 0)

UnregisterToken(q, u) == table = "token" /\ Ask(q, u, "take", 1, 0)

\* A push: the tokens of the user are loaded and those that failed deleted.
SendToUser(q, u) == (\E r \in rows : r.user = u) /\ UnregisterToken(q, u)

----------------------------------------------------------------------------
\* The request is answered.
Answer(q, state) ==
  /\ req' = [req EXCEPT ![q] = Idle(state)]
  /\ wish' = IF state = "failed" THEN wish
             ELSE [wish EXCEPT ![req[q].user] =
                     [k \in Keys |-> IF k \in req[q].keys THEN Asked(q, @[k]) ELSE @[k]]]

\* Mutant: receipts are announced after the first message.
Dealt_First(q) ==
  LET goto(step) ==
        /\ req' = [req EXCEPT ![q].todo = Tail(@), ![q].row = NoRow, ![q].step = step]
        /\ UNCHANGED wish
  IN CASE table = "reaction" -> goto("gather")
       [] table = "receipt" -> goto("announce")
       [] table = "pin" -> goto("tell")
       [] OTHER -> Answer(q, "ok")

\* The key is dealt with: the next one, what others are told, or the answer.
Dealt(q) ==
  LET goto(step) ==
        /\ req' = [req EXCEPT ![q].todo = Tail(@), ![q].row = NoRow, ![q].step = step]
        /\ UNCHANGED wish
  IN IF Len(req[q].todo) > 1 THEN goto("look")
     ELSE CASE table = "reaction" -> goto("gather")
            [] table = "receipt" -> goto("announce")
            [] table = "pin" -> goto("tell")
            [] OTHER -> Answer(q, "ok")

\* Mutant: the settings of a conversation are made without looking for them.
Look_Makes(q) ==
  /\ At(q, "look")
  /\ req' = [req EXCEPT ![q].step = "insert"]
  /\ UNCHANGED <<rows, told, wish>> /\ Unmoved

\* First.
Look(q) ==
  LET hold(step, r) == /\ req' = [req EXCEPT ![q].step = step, ![q].row = r]
                       /\ UNCHANGED wish
  IN
  /\ At(q, "look")
  /\ CASE Looked(q) = {} -> hold("insert", NoRow)
       [] Looked(q) # {} /\ (Kind(table).found = "keep" \/ req[q].op = "show") -> Dealt(q)
       [] OTHER -> hold("write", First(Looked(q)))
  /\ UNCHANGED <<rows, told>> /\ Unmoved

\* Create.  To mute a conversation its settings are made first.
Insert(q) ==
  LET bare == req[q].op = "show" \/ (table = "settings" /\ req[q].col = 2)
      new  == [id |-> q, key |-> Head(req[q].todo), user |-> req[q].user,
               val |-> IF bare THEN Default ELSE Set(q, Default)]
  IN
  /\ At(q, "insert")
  /\ IF Refused(new) THEN rows' = rows /\ Answer(q, "failed")
     ELSE /\ rows' = rows \cup {new}
          /\ CASE bare /\ req[q].op = "put" ->
                   req' = [req EXCEPT ![q].step = "write", ![q].row = new] /\ UNCHANGED wish
             [] table = "pin" ->
                   req' = [req EXCEPT ![q].step = "tell", ![q].seen = {new}] /\ UNCHANGED wish
             [] OTHER -> Dealt(q)
  /\ UNCHANGED told /\ Unmoved

\* Save writes the row as it was loaded, with its column, and inserts it again if
\* it was deleted meanwhile; Update writes the column of the row that is there.
\* A token becomes its new user's.
Write(q) ==
  LET held == req[q].row
      same == {r \in rows : r.id = held.id /\ r.key = held.key}
      new  == {[r EXCEPT !.val = Set(q, @), !.user = req[q].user] :
                 r \in IF Kind(table).found = "save" THEN {held} ELSE same}
  IN
  /\ At(q, "write")
  /\ IF \E r \in new : Refused(r) THEN rows' = rows /\ Answer(q, "failed")
     ELSE rows' = (rows \ same) \cup new /\ Dealt(q)
  /\ UNCHANGED told /\ Unmoved

\* A pin is the conversation's: the ones there are, whoever made them, are deleted.
Clear(q) ==
  /\ At(q, "clear")
  /\ rows' = rows \ Looked(q)
  /\ req' = [req EXCEPT ![q].step = "insert"]
  /\ UNCHANGED <<told, wish>> /\ Unmoved

\* DELETE WHERE.
Remove(q) ==
  /\ At(q, "remove")
  /\ rows' = rows \ Looked(q)
  /\ Dealt(q)
  /\ UNCHANGED told /\ Unmoved

----------------------------------------------------------------------------
(* What others are told.                                                    *)

Reactions(k) == {r \in rows : r.key = k}

\* The reactions to the message are read for the event,
Gather(q) ==
  /\ At(q, "gather")
  /\ req' = [req EXCEPT ![q].step = "tell",
                        ![q].seen = UNION {Reactions(k) : k \in req[q].keys}]
  /\ UNCHANGED <<rows, told, wish>> /\ Unmoved

\* and then it is queued for the participants, as is that of a pin.
Tell(q) ==
  /\ At(q, "tell") /\ Answer(q, "ok")
  /\ told' = [k \in Keys |-> IF k \in req[q].keys THEN req[q].seen ELSE told[k]]
  /\ UNCHANGED rows /\ Unmoved

\* The senders are told of all the messages of the request.
Announce(q) ==
  /\ At(q, "announce") /\ Answer(q, "ok")
  /\ told' = [k \in Keys |-> IF k \in req[q].keys THEN told[k] \cup {req[q].user} ELSE told[k]]
  /\ UNCHANGED rows /\ Unmoved

----------------------------------------------------------------------------
Next ==
  \E q \in Requests :
    \/ Look(q) \/ Insert(q) \/ Write(q) \/ Clear(q) \/ Remove(q)
    \/ Gather(q) \/ Tell(q) \/ Announce(q)
    \/ \E u \in Users :
         \/ AddReaction(q, u) \/ Star(q, u) \/ Archive(q, u) \/ MarkRead(q, u)
         \/ Pin(q, u) \/ Unpin(q, u)
         \/ SetTheme(q, u) \/ SetDisappearingMessages(q, u) \/ MuteConversation(q, u)
         \/ GetConversationSettings(q, u)
         \/ RegisterToken(q, u) \/ UnregisterToken(q, u) \/ SendToUser(q, u)
         \/ SaveSenderKey(q, u) \/ RemoveDevice(q, u)
         \/ RemoveReaction(q, u) \/ Unstar(q, u) \/ Unarchive(q, u) \/ DeleteTheme(q, u)

Spec == Init /\ [][Next]_vars

----------------------------------------------------------------------------
(* What the handlers that read the table show.                              *)

Shown(u, k)   == IF RowsOf(u, k) = {} THEN Nothing ELSE First(RowsOf(u, k)).val
HolderOf(k)   == IF Reactions(k) = {} THEN Nothing ELSE First(Reactions(k)).user
HasRead(u, k) == RowsOf(u, k) # {}

(* Properties.                                                              *)

\* Types.
TypeOK ==
  /\ table \in Tables /\ rows \subseteq Row
  /\ \A q \in Requests :
       /\ req[q].user \in Users \cup {NoUser} /\ req[q].row \in Row \cup {NoRow}
       /\ req[q].keys \subseteq Keys /\ req[q].seen \subseteq rows \cup Row
       /\ At(q, "write") => req[q].row \in Row
  /\ wish \in [Users -> [Keys -> Value \cup {Nothing}]]
  /\ told \in [Keys -> SUBSET (Row \cup Users)]
  /\ rushed \subseteq Users \X Keys /\ crowded \subseteq Keys

\* Where an index covers the user and the key, or the key, a request is as good as
\* one that marks each of its keys at a single moment, although it looks and writes
\* in statements of their own and others write in between: when it succeeds every
\* key has been shown as it asked, a refused insertion has changed nothing, and a
\* reaction saved after it was removed counts as added after.  A token has one
\* user at a time, the last to register it.
Indexed == Kind(table).index # "none"
Common  == Kind(table).whose = "all"

Shows == [u \in Users \cup {Everyone} |-> [k \in Keys |->
            IF ~Indexed \/ (Common <=> u # Everyone) THEN Nothing
            ELSE IF Common THEN HolderOf(k) ELSE Shown(u, k)]]

Closed(state) == [state |-> state, user |-> NoUser, want |-> Nothing, todo |-> {}]

Job(q) ==
  LET r == req[q]
  IN IF ~Indexed THEN Closed("new")
     ELSE IF r.step \in {"new", "ok", "failed"} THEN Closed(r.step)
     ELSE [state |-> "open", user |-> IF Common THEN Everyone ELSE r.user,
           want  |-> IF r.op = "take" THEN Nothing
                     ELSE IF Common THEN r.user ELSE Set(q, Default),
           todo  |-> {r.todo[i] : i \in DOMAIN r.todo}]
Jobs == [q \in Requests |-> Job(q)]

AsOne == INSTANCE Registers WITH
  Users <- Users \cup {Everyone}, Values <- Value \cup Users, value <- Shows, job <- Jobs
AtOneMoment == AsOne!Spec

\* A user none of whose requests for a key ran at the same time is shown for it
\* what his last successful request asked, added to what he had asked before,
\* even in the tables that no index protects.
PatientWish ==
  Kind(table).whose = "user" => \A u \in Users, k \in Keys :
    \/ <<u, k>> \in rushed \/ \E q \in Working : req[q].user = u /\ k \in req[q].keys
    \/ Shown(u, k) = wish[u][k]

\* Whoever was announced as having read a message has a receipt for it; and after
\* a request that ran alone on its key, whatever ran together before, the last event
\* about a message's reactions or a conversation's pin shows what there is (of pins, one).
ToldIsTrue ==
  /\ table = "receipt" => \A k \in Keys : \A u \in told[k] : HasRead(u, k)
  /\ table \in {"reaction", "pin"} => \A k \in Keys \ crowded :
       (\A q \in Working : k \notin req[q].keys) => told[k] = Reactions(k)
=============================================================================
