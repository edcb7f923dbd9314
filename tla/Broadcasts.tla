----------------------------- MODULE Broadcasts -----------------------------
(***************************************************************************)
(* Broadcast lists (internal/api/handlers/broadcast.go,                     *)
(* internal/models/broadcast_list.go): one Send becomes a direct message to *)
(* each recipient of a list that other requests change meanwhile.           *)
(*                                                                          *)
(* A list is named by the request that made it, a recipient row by its list,*)
(* its user and the request that inserted it.  Names of lists, and what the *)
(* hub and the push service do with a message, are left out.                *)
(***************************************************************************)
EXTENDS Contacts

CONSTANTS OldList,         \* a list of Owner that is there at first
          Owner,
          FirstRecipients  \* the sets of users it may have

ListId == Requests \cup {OldList}
List   == [id : ListId, owner : Users]
Row    == [list : ListId, user : Users, by : ListId]

ASSUME BroadcastsAssumption ==
  /\ Owner \in Users /\ OldList \notin Requests /\ NoId \notin ListId
  /\ \A s \in FirstRecipients : s \subseteq Users \ {Owner}

VARIABLES
  lists,       \* broadcast_lists rows
  recipients,  \* broadcast_list_recipients rows
  away         \* <<list, user>> taken off and not added again (history)

listVars == <<lists, recipients, away>>
BroadcastsInit ==
  /\ lists = {[id |-> OldList, owner |-> Owner]}
  /\ \E us \in FirstRecipients :
       recipients = {[list |-> OldList, user |-> u, by |-> OldList] : u \in us}
  /\ away = {}

RowsOf(l)    == {r \in recipients : r.list = l}
Listed(l, v) == \E r \in recipients : r.list = l /\ r.user = v

\* GetBroadcastList finds the list.
Owned(l, u) == [id |-> l, owner |-> u] \in lists

\* A request about a list goes on to its step if it is the user's.
Open(q, u, v, l, step) ==
  /\ At(q, "new")
  /\ IF Owned(l, u) THEN Begin(q, u, v, l, {}, step) ELSE End(q)
  /\ UNCHANGED <<peopleVars, listVars>>

----------------------------------------------------------------------------
(* Create: every user asked for is vetted, then one transaction.            *)

Create(q, u, to) ==
  /\ At(q, "new") /\ Begin(q, u, NoUser, q, to \ {u}, "vet")
  /\ UNCHANGED <<peopleVars, listVars>>

Vet(q, v) ==
  /\ At(q, "vet") /\ v \in req[q].hand
  /\ req' = [req EXCEPT ![q].hand = @ \ {v},
                        ![q].good = IF IsEitherBlocked(req[q].user, v) THEN @ ELSE @ \cup {v}]
  /\ UNCHANGED <<peopleVars, listVars>>

\* Without a valid recipient there is no list.
CreateList(q) ==
  LET good == req[q].good IN
  /\ At(q, "vet") /\ req[q].hand = {}
  /\ IF good = {} THEN End(q) /\ UNCHANGED <<lists, recipients>>
     ELSE /\ req' = [req EXCEPT ![q].step = "reply", ![q].touched = good]
          /\ lists' = lists \cup {[id |-> q, owner |-> req[q].user]}
          /\ recipients' = recipients \cup {[list |-> q, user |-> v, by |-> q] : v \in good}
  /\ UNCHANGED <<peopleVars, away>>

----------------------------------------------------------------------------
(* AddRecipient and RemoveRecipient: both end by loading the list again; if *)
(* it is not there any more the handler panics and its request fails.       *)

AddRecipient(q, u, v, l) == u # v /\ Open(q, u, v, l, "vetOne")

VetOne(q) ==
  /\ At(q, "vetOne")
  /\ IF IsEitherBlocked(req[q].user, req[q].other) THEN End(q) ELSE Goto(q, "addRow")
  /\ UNCHANGED <<peopleVars, listVars>>

NewRow(q) == [list |-> req[q].of, user |-> req[q].other, by |-> q]

\* Mutant: the index over list and user does not refuse the row.
AddRow_Twice(q) ==
  /\ At(q, "addRow")
  /\ req' = [req EXCEPT ![q].step = "reply", ![q].touched = {req[q].other}]
  /\ recipients' = recipients \cup {NewRow(q)}
  /\ away' = away \ {<<req[q].of, req[q].other>>}
  /\ UNCHANGED <<peopleVars, lists>>

\* INSERT; the unique index refuses a user who is on the list.
AddRow(q) ==
  /\ At(q, "addRow")
  /\ IF Listed(req[q].of, req[q].other) THEN End(q) /\ UNCHANGED <<recipients, away>>
     ELSE /\ req' = [req EXCEPT ![q].step = "reply", ![q].touched = {req[q].other}]
          /\ recipients' = recipients \cup {NewRow(q)}
          /\ away' = away \ {<<req[q].of, req[q].other>>}
  /\ UNCHANGED <<peopleVars, lists>>

RemoveRecipient(q, u, v, l) == Open(q, u, v, l, "takeOff")

\* A user whose row an update of the list has loaded may come back; the others
\* are away.
Loaded(l, v) == \E q \in Requests : \E r \in req[q].rows :
                  At(q, "rename") /\ r.list = l /\ r.user = v
TakenOff(l, us) == away' = away \cup {<<l, v>> : v \in {w \in us : ~Loaded(l, w)}}

TakeOff(q) ==
  LET l == req[q].of  v == req[q].other IN
  /\ At(q, "takeOff") /\ End(q)
  /\ recipients' = {r \in recipients : ~(r.list = l /\ r.user = v)}
  /\ TakenOff(l, {v})
  /\ UNCHANGED <<peopleVars, lists>>

----------------------------------------------------------------------------
(* Delete.                                                                  *)

Delete(q, u, l) == Open(q, u, NoUser, l, "drop")

\* Mutant: the recipients are left to the database.
DropList_Only(q) ==
  LET l == req[q].of IN
  /\ At(q, "drop") /\ End(q)
  /\ lists' = {x \in lists : x.id # l}
  /\ TakenOff(l, {r.user : r \in RowsOf(l)})
  /\ UNCHANGED <<peopleVars, recipients>>

\* One transaction, the recipients first.
DropList(q) ==
  LET l == req[q].of IN
  /\ At(q, "drop") /\ End(q)
  /\ recipients' = recipients \ RowsOf(l)
  /\ lists' = {x \in lists : x.id # l}
  /\ TakenOff(l, {r.user : r \in RowsOf(l)})
  /\ UNCHANGED peopleVars

----------------------------------------------------------------------------
(* Update and Send work on the recipients as loaded, by a statement of their *)
(* own after the list's.                                                     *)

Update(q, u, l) == Open(q, u, NoUser, l, "loadToRename")
Send(q, u, l)   == Open(q, u, NoUser, l, "loadToSend")

\* A send ends here without recipients, or if its media is not approved.
LoadRecipients(q) ==
  LET rows == RowsOf(req[q].of)
      with(step) == req' = [req EXCEPT ![q].step = step, ![q].rows = rows]
  IN
  /\ \/ At(q, "loadToRename") /\ with("rename")
     \/ At(q, "loadToSend") /\ rows # {} /\ with("send")
     \/ At(q, "loadToSend") /\ End(q)
  /\ UNCHANGED <<peopleVars, listVars>>

\* The update of a struct whose recipients are loaded writes them too, in the
\* same transaction, by their ids: a row that was deleted meanwhile is inserted
\* again, whoever is blocked by now, and if the index has another row for its user
\* all of it is undone.
WriteBack(q) ==
  LET refused == \E r \in req[q].rows, x \in recipients :
                   r # x /\ r.list = x.list /\ r.user = x.user
  IN
  /\ At(q, "rename")
  /\ IF refused THEN End(q) /\ UNCHANGED recipients
     ELSE /\ req' = [req EXCEPT ![q].step = "renamed",
                               ![q].touched = {r.user : r \in req[q].rows \ recipients}]
          /\ recipients' = recipients \cup req[q].rows
  /\ UNCHANGED <<peopleVars, lists, away>>

\* The next recipient, in any order; a blocked one is skipped.
NextRecipient(q, r) ==
  /\ At(q, "send") /\ r \in req[q].rows
  /\ req' = IF IsEitherBlocked(req[q].user, r.user)
            THEN [req EXCEPT ![q].rows = @ \ {r}]
            ELSE [req EXCEPT ![q].rows = @ \ {r}, ![q].step = "store", ![q].other = r.user]
  /\ UNCHANGED <<peopleVars, listVars>>

\* The message is stored and handed to the hub or the push service; its id goes
\* into the answer.
StoreMessage(q) ==
  /\ At(q, "store")
  /\ req' = [req EXCEPT ![q].step = "send", ![q].good = @ \cup {req[q].other},
                        ![q].touched = @ \cup {req[q].other}]
  /\ UNCHANGED <<peopleVars, listVars>>

SendDone(q) ==
  /\ At(q, "send") /\ req[q].rows = {} /\ End(q)
  /\ UNCHANGED <<peopleVars, listVars>>

----------------------------------------------------------------------------
BroadcastsNext ==
  \E q \in Requests :
    \/ CreateList(q) \/ VetOne(q) \/ AddRow(q) \/ TakeOff(q) \/ DropList(q)
    \/ LoadRecipients(q) \/ WriteBack(q) \/ StoreMessage(q) \/ SendDone(q)
    \/ \E v \in Users : Vet(q, v)
    \/ \E r \in req[q].rows : NextRecipient(q, r)
    \/ \E u \in Users : \/ \E to \in SUBSET Users : Create(q, u, to)
                        \/ \E l \in ListId :
                             \/ Delete(q, u, l) \/ Update(q, u, l) \/ Send(q, u, l)
                             \/ \E v \in Users : \/ AddRecipient(q, u, v, l)
                                                 \/ RemoveRecipient(q, u, v, l)

----------------------------------------------------------------------------
(* Properties.                                                              *)

\* Whoever got the message of a send is not among those it still has to write
\* to: a broadcast reaches nobody twice, although lists are extended, cut and
\* written back by requests that loaded them at different times.
OncePerSend ==
  \A q \in Requests : At(q, "send") => \A r \in req[q].rows : r.user \notin req[q].good

\* A user who was taken off a list, or whose list was deleted, stays off until
\* he is added again; only an update of the list that had loaded him before can
\* bring him back.
AwayStaysAway == \A a \in away : ~Listed(a[1], a[2])
=============================================================================
