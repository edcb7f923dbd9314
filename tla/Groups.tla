------------------------------- MODULE Groups -------------------------------
(***************************************************************************)
(* One group of the Go backend: its row, the membership rows, the handlers  *)
(* that create it, add, remove and leave (internal/api/handlers/groups.go), *)
(* and group messages (handleGroupMessage in internal/websocket/client.go,  *)
(* SendToGroup in hub.go).                                                  *)
(*                                                                          *)
(* Every statement is its own transaction, so every action below is one     *)
(* statement, and requests interleave between them.  A membership row is    *)
(* known by a number (its uuid): a user who leaves and comes back has a new *)
(* row.  No handler of the sources ever makes a member an admin, so roles   *)
(* are owner and member.                                                    *)
(***************************************************************************)
EXTENDS Naturals, FiniteSets

CONSTANTS Users,
          Creator,   \* who creates the group
          Requests,  \* concurrent HTTP requests and WebSocket frames
          MaxRows    \* bound on the membership rows ever inserted

ASSUME GroupsAssumption ==
  Creator \in Users /\ MaxRows \in Nat

VARIABLES
  group,    \* the groups row: "none", "stored", "gone"
  members,  \* group_members rows
  next,     \* number of the next membership row
  req,      \* where each request is
  changed   \* users whose membership changed while a request was under way (history)

vars == <<group, members, next, req, changed>>

Roles == {"owner", "member"}
Row   == [id : 1 .. MaxRows, user : Users, role : Roles]
Idle  == [step |-> "idle"]

\* Where a request is between two statements, and what it has read.
Request == {Idle, [step |-> "drop"]}
           \cup [step : {"owner", "fill", "send"}, left : SUBSET Users]
           \cup [step : {"add", "join", "look", "post", "list"}, user : Users]
           \cup [step : {"remove", "count", "leave"}, row : Row]

MembershipOf(u) == {m \in members : m.user = u}
IsMember(u)     == MembershipOf(u) # {}

TypeOK ==
  /\ group \in {"none", "stored", "gone"}
  /\ members \subseteq Row
  /\ \A m, n \in members : m.user = n.user \/ m.id = n.id => m = n
  /\ next \in 1 .. MaxRows + 1 /\ \A m \in members : m.id < next
  /\ req \in [Requests -> Request]
  /\ changed \in [Requests -> SUBSET Users]

Init ==
  /\ group = "none" /\ members = {} /\ next = 1
  /\ req = [q \in Requests |-> Idle]
  /\ changed = [q \in Requests |-> {}]

Begin(q, r)  == req[q] = Idle /\ req' = [req EXCEPT ![q] = r]
Goto(q, r)   == req' = [req EXCEPT ![q] = r]

\* History: who came or went while a request is under way.
Noted ==
  LET turnover == {m.user : m \in (members \ members') \cup (members' \ members)}
  IN changed' = [q \in Requests |-> IF req'[q] = Idle THEN {}
                                    ELSE changed[q] \cup turnover]

\* INSERT into group_members: refused by the unique index on group and user.
Insert(u, role) ==
  /\ next <= MaxRows
  /\ IF IsMember(u) THEN UNCHANGED <<members, next>>
     ELSE /\ members' = members \cup {[id |-> next, user |-> u, role |-> role]}
          /\ next' = next + 1

----------------------------------------------------------------------------
(* Create: the group, its owner, then the initial members one by one; the   *)
(* results of the inserts are not looked at.                                *)

CreateGroup(q, us) ==
  /\ group = "none" /\ group' = "stored"
  /\ Begin(q, [step |-> "owner", left |-> us \ {Creator}])
  /\ UNCHANGED <<members, next>> /\ Noted

CreateOwner(q) ==
  /\ req[q].step = "owner"
  /\ Insert(Creator, "owner")
  /\ Goto(q, [step |-> "fill", left |-> req[q].left])
  /\ UNCHANGED group /\ Noted

CreateMember(q) ==
  /\ req[q].step = "fill"
  /\ IF req[q].left = {} THEN Goto(q, Idle) /\ UNCHANGED <<members, next>>
     ELSE \E u \in req[q].left :
            /\ Insert(u, "member")
            /\ Goto(q, [step |-> "fill", left |-> req[q].left \ {u}])
  /\ UNCHANGED group /\ Noted

----------------------------------------------------------------------------
(* AddMember.                                                               *)

\* The requester's role is read; only an owner goes on.
AddCheck(q, by, u) ==
  /\ \E m \in MembershipOf(by) : m.role = "owner"
  /\ Begin(q, [step |-> "add", user |-> u])
  /\ UNCHANGED <<group, members, next>> /\ Noted

\* The newcomer must not be a member yet.
AddLook(q) ==
  /\ req[q].step = "add"
  /\ Goto(q, IF IsMember(req[q].user) THEN Idle
             ELSE [step |-> "join", user |-> req[q].user])
  /\ UNCHANGED <<group, members, next>> /\ Noted

AddInsert(q) ==
  /\ req[q].step = "join"
  /\ Insert(req[q].user, "member")
  /\ Goto(q, Idle)
  /\ UNCHANGED group /\ Noted

----------------------------------------------------------------------------
(* RemoveMember.                                                            *)

RemoveCheck(q, by, u) ==
  /\ \E m \in MembershipOf(by) : m.role = "owner"
  /\ Begin(q, [step |-> "look", user |-> u])
  /\ UNCHANGED <<group, members, next>> /\ Noted

\* Mutant: the owner's row may be removed as well.
RemoveLook_AnyRole(q) ==
  /\ req[q].step = "look"
  /\ IF IsMember(req[q].user)
     THEN \E m \in MembershipOf(req[q].user) : Goto(q, [step |-> "remove", row |-> m])
     ELSE Goto(q, Idle)
  /\ UNCHANGED <<group, members, next>> /\ Noted

\* The row to remove is read; an owner's row is refused.
RemoveLook(q) ==
  LET plain == {m \in MembershipOf(req[q].user) : m.role = "member"} IN
  /\ req[q].step = "look"
  /\ IF plain = {} THEN Goto(q, Idle)
     ELSE \E m \in plain : Goto(q, [step |-> "remove", row |-> m])
  /\ UNCHANGED <<group, members, next>> /\ Noted

\* Mutant: DELETE by user instead of by the row that was read.
Without_ByUser(m) == {n \in members : n.user # m.user}

\* DELETE of the row that was read, by its id.
Without(m) == members \ {m}

RemoveDelete(q) ==
  /\ req[q].step = "remove"
  /\ members' = Without(req[q].row)
  /\ Goto(q, Idle)
  /\ UNCHANGED <<group, next>> /\ Noted

----------------------------------------------------------------------------
(* Leave.                                                                   *)

LeaveLook(q, u) ==
  /\ \E m \in MembershipOf(u) :
       Begin(q, [step |-> IF m.role = "owner" THEN "count" ELSE "leave", row |-> m])
  /\ UNCHANGED <<group, members, next>> /\ Noted

\* Mutant: off by one, an owner with one other member may go.
LeaveCount_OffByOne(q) ==
  /\ req[q].step = "count"
  /\ Goto(q, IF Cardinality(members) > 2 THEN Idle
             ELSE [step |-> "leave", row |-> req[q].row])
  /\ UNCHANGED <<group, members, next>> /\ Noted

\* The owner may only go as the last member.
LeaveCount(q) ==
  /\ req[q].step = "count"
  /\ Goto(q, IF Cardinality(members) > 1 THEN Idle
             ELSE [step |-> "leave", row |-> req[q].row])
  /\ UNCHANGED <<group, members, next>> /\ Noted

LeaveDelete(q) ==
  /\ req[q].step = "leave"
  /\ members' = Without(req[q].row)
  /\ Goto(q, IF req[q].row.role = "owner" THEN [step |-> "drop"] ELSE Idle)
  /\ UNCHANGED <<group, next>> /\ Noted

DropGroup(q) ==
  /\ req[q].step = "drop"
  /\ group' = "gone"
  /\ Goto(q, Idle)
  /\ UNCHANGED <<members, next>> /\ Noted

----------------------------------------------------------------------------
(* Group messages.                                                          *)

\* Mutant: whoever knows the group may post.
PostCheck_Anyone(q, u) ==
  /\ Begin(q, [step |-> "post", user |-> u])
  /\ UNCHANGED <<group, members, next>> /\ Noted

\* handleGroupMessage: membership is read, then the row is stored ...
PostCheck(q, u) ==
  /\ IsMember(u)
  /\ Begin(q, [step |-> "post", user |-> u])
  /\ UNCHANGED <<group, members, next>> /\ Noted

PostStore(q) ==
  /\ req[q].step = "post"
  /\ Goto(q, [step |-> "list", user |-> req[q].user])
  /\ UNCHANGED <<group, members, next>> /\ Noted

\* Mutant: everybody is listed.
PostList_Everybody(q) ==
  /\ req[q].step = "list"
  /\ Goto(q, [step |-> "send", left |-> Users \ {req[q].user}])
  /\ UNCHANGED <<group, members, next>> /\ Noted

\* ... SendToGroup reads the members and offers the message to one after the
\* other, without looking again.
PostList(q) ==
  /\ req[q].step = "list"
  /\ Goto(q, [step |-> "send", left |-> {m.user : m \in members} \ {req[q].user}])
  /\ UNCHANGED <<group, members, next>> /\ Noted

PostSend(q) ==
  /\ req[q].step = "send"
  /\ IF req[q].left = {} THEN Goto(q, Idle)
     ELSE \E u \in req[q].left : Goto(q, [step |-> "send", left |-> req[q].left \ {u}])
  /\ UNCHANGED <<group, members, next>> /\ Noted

----------------------------------------------------------------------------
Start(q) ==
  \/ \E us \in SUBSET Users : CreateGroup(q, us)
  \/ \E by, u \in Users : AddCheck(q, by, u) \/ RemoveCheck(q, by, u)
  \/ \E u \in Users : LeaveLook(q, u) \/ PostCheck(q, u)

Continue(q) ==
  \/ CreateOwner(q) \/ CreateMember(q) \/ AddLook(q) \/ AddInsert(q)
  \/ RemoveLook(q) \/ RemoveDelete(q) \/ LeaveCount(q) \/ LeaveDelete(q)
  \/ DropGroup(q) \/ PostStore(q) \/ PostList(q) \/ PostSend(q)

Next == \E q \in Requests : Start(q) \/ Continue(q)

Spec == Init /\ [][Next]_vars

----------------------------------------------------------------------------
(* Properties.                                                              *)

\* A membership that goes is one that a request has read and checked, a plain
\* member's if the request is a removal: a user who was removed and added again
\* in the meantime stays, and nobody removes the owner.
OnlyCheckedRowsGo ==
  [][\A m \in members \ members' : \E q \in Requests :
       \/ req[q] = [step |-> "leave", row |-> m]
       \/ req[q] = [step |-> "remove", row |-> m] /\ m.role = "member"]_vars

\* A group has at most one owner, its creator; and as long as the group's row is
\* there with other members, and nobody is in the middle of creating or leaving
\* it, the owner is there too.
OwnerHolds ==
  /\ \A m \in members : m.role = "owner" => m.user = Creator
  /\ group = "stored" /\ (\A q \in Requests : req[q].step \notin {"owner", "drop"})
       => \E m \in members : m.role = "owner"

\* A group message is stored for, and sent to, members only: somebody who is
\* not a member at that moment was removed while the request was under way.
StrangersAreLeftOut ==
  [][\A q \in Requests, u \in Users :
       \/ req[q].step = "post" /\ req'[q].step = "list" /\ u = req[q].user
       \/ req[q].step = "send" /\ req[q].left # {} /\ u \in req[q].left \ req'[q].left
       => IsMember(u) \/ u \in changed[q]]_vars

\* The group is deleted by its last member: whoever is left in a group about to
\* be deleted was added while the owner's request was under way, or the owner
\* left by another request of his meanwhile.
LastMemberDeletes ==
  [][\A q \in Requests :
       req[q].step = "leave" /\ req'[q].step = "drop"
         => \/ {m.user : m \in members'} \subseteq changed[q]
            \/ Creator \in changed[q]]_vars
=============================================================================
