---------------------------- MODULE GroupsProofs ----------------------------
(***************************************************************************)
(* Proofs about groups, for any users, requests and number of rows: what a  *)
(* handler has read may be out of date when it acts, but never in a way     *)
(* that Noted does not explain.                                             *)
(***************************************************************************)
EXTENDS Groups, FiniteSetTheorems, TLAPS

\* An owner's row is the creator's, and no removal holds one.
Roled ==
  /\ \A m \in members : m.role = "owner" => m.user = Creator
  /\ \A q \in Requests :
       /\ req[q].step = "remove" => req[q].row.role = "member"
       /\ req[q].step \in {"count", "leave"} /\ req[q].row.role = "owner"
            => req[q].row.user = Creator

\* Nobody is at work before the group exists, or while its owner is missing.
Founding ==
  /\ group = "none" => members = {} /\ \A q \in Requests : req[q] = Idle
  /\ \A q \in Requests : req[q].step = "owner" =>
       members = {} /\ \A p \in Requests \ {q} : req[p] = Idle

\* What a request holds is so, or else the user came or went meanwhile.
UpToDate(q) ==
  /\ req[q].step \in {"post", "list"} => IsMember(req[q].user) \/ req[q].user \in changed[q]
  /\ req[q].step = "send" =>
       \A u \in req[q].left : IsMember(u) \/ u \in changed[q]
  /\ req[q].step = "count" => req[q].row \in members \/ req[q].row.user \in changed[q]
  /\ req[q].step = "leave" /\ req[q].row.role = "owner" =>
       \/ Creator \in changed[q]
       \/ \A m \in members : m = req[q].row \/ m.user \in changed[q]

Current == \A q \in Requests : UpToDate(q)

IInv == TypeOK /\ IsFiniteSet(members) /\ Roled /\ Founding /\ OwnerHolds /\ Current

USE GroupsAssumption

\* Before the group exists nothing can be wrong.
LEMMA InitInv == Init => IInv
<1> SUFFICES ASSUME Init PROVE IInv
  OBVIOUS
<1>1. TypeOK
  <2>1. next \in 1 .. MaxRows + 1
    BY DEF Init
  <2>2. req \in [Requests -> Request]
    BY DEF Init, Request
  <2> QED
    BY <2>1, <2>2 DEF Init, TypeOK
<1>2. IsFiniteSet(members)
  BY FS_EmptySet DEF Init
<1>3. Roled /\ Founding /\ OwnerHolds /\ Current
  BY DEF Init, Idle, Roled, Founding, OwnerHolds, Current, UpToDate
<1> QED
  BY <1>1, <1>2, <1>3 DEF IInv

\* An insertion keeps the rows well-formed, and its user is a member after it.
LEMMA Inserted ==
  ASSUME TypeOK, IsFiniteSet(members), NEW u \in Users, NEW role \in Roles, Insert(u, role)
  PROVE  /\ members' \subseteq Row /\ next' \in 1 .. MaxRows + 1
         /\ \A m, n \in members' : m.user = n.user \/ m.id = n.id => m = n
         /\ \A m \in members' : m.id < next'
         /\ IsFiniteSet(members') /\ members \subseteq members'
         /\ \A m \in members' \ members : m.user = u /\ m.role = role
<1>1. CASE IsMember(u)
  BY <1>1 DEF Insert, TypeOK
<1>2. CASE ~IsMember(u)
  <2> DEFINE new == [id |-> next, user |-> u, role |-> role]
  <2>1. members' = members \cup {new} /\ next' = next + 1
    BY <1>2 DEF Insert
  <2>2. next \in 1 .. MaxRows /\ next' \in 1 .. MaxRows + 1
    BY <2>1 DEF Insert, TypeOK
  <2>3. new \in Row
    BY <2>2 DEF Row
  <2>4. new.id = next /\ new.user = u /\ new.role = role
    OBVIOUS
  <2> HIDE DEF new
  <2>5. \A m \in members : m.user # u /\ m.id < next /\ m.id \in Nat
    BY <1>2 DEF IsMember, MembershipOf, TypeOK, Row
  <2>6. \A m, n \in members' : m.user = n.user \/ m.id = n.id => m = n
    BY <2>1, <2>2, <2>4, <2>5 DEF TypeOK
  <2>7. \A m \in members' : m.id < next'
    BY <2>1, <2>2, <2>4, <2>5
  <2>8. IsFiniteSet(members')
    BY <2>1, FS_AddElement
  <2> QED
    BY <2>1, <2>2, <2>3, <2>4, <2>6, <2>7, <2>8 DEF TypeOK
<1> QED
  BY <1>1, <1>2

\* What is recorded of a request that goes on.
LEMMA Turnover ==
  ASSUME Noted, NEW q \in Requests, req'[q] # Idle
  PROVE  /\ changed[q] \subseteq changed'[q]
         /\ \A m \in members \ members' : m.user \in changed'[q]
         /\ \A m \in members' \ members : m.user \in changed'[q]
  BY DEF Noted

\* The record of who came and went stays one of users.
LEMMA NotedTypes ==
  ASSUME TypeOK, members' \subseteq Row, Noted
  PROVE  changed' \in [Requests -> SUBSET Users]
<1> DEFINE turnover == {m.user : m \in (members \ members') \cup (members' \ members)}
<1>1. turnover \subseteq Users
  BY DEF TypeOK, Row
<1>2. changed' = [q \in Requests |-> IF req'[q] = Idle THEN {} ELSE changed[q] \cup turnover]
  BY DEF Noted
<1> HIDE DEF turnover
<1> QED
  BY <1>1, <1>2 DEF TypeOK

\* What a request holds, by where it is.
LEMMA Held ==
  ASSUME TypeOK, NEW q \in Requests
  PROVE  /\ req[q].step \in {"owner", "fill", "send"} => req[q].left \in SUBSET Users
         /\ req[q].step \in {"add", "join", "look", "post", "list"} => req[q].user \in Users
         /\ req[q].step \in {"remove", "count", "leave"} => req[q].row \in Row
<1>1. req[q] \in Request
  BY DEF TypeOK
<1>2. CASE req[q] \in {Idle, [step |-> "drop"]}
  BY <1>2 DEF Idle
<1>3. CASE req[q] \in [step : {"owner", "fill", "send"}, left : SUBSET Users]
  BY <1>3
<1>4. CASE req[q] \in [step : {"add", "join", "look", "post", "list"}, user : Users]
  BY <1>4
<1>5. CASE req[q] \in [step : {"remove", "count", "leave"}, row : Row]
  BY <1>5
<1> QED
  BY <1>1, <1>2, <1>3, <1>4, <1>5 DEF Request

\* The requests there are.
LEMMA Kinds ==
  /\ Idle \in Request /\ [step |-> "drop"] \in Request
  /\ \A s \in {"owner", "fill", "send"}, us \in SUBSET Users :
       [step |-> s, left |-> us] \in Request
  /\ \A s \in {"add", "join", "look", "post", "list"}, u \in Users :
       [step |-> s, user |-> u] \in Request
  /\ \A s \in {"remove", "count", "leave"}, m \in Row :
       [step |-> s, row |-> m] \in Request
  BY DEF Request

\* The steps that leave the rows alone: the request is somewhere it may be.
LEMMA Quiet ==
  ASSUME TypeOK, IsFiniteSet(members), NEW q \in Requests, NEW r \in Request,
         req' = [req EXCEPT ![q] = r], group' \in {"none", "stored", "gone"},
         UNCHANGED <<members, next>>, Noted
  PROVE  TypeOK' /\ IsFiniteSet(members')
<1>1. changed' \in [Requests -> SUBSET Users]
  BY NotedTypes DEF TypeOK
<1> QED
  BY <1>1 DEF TypeOK

\* The steps that insert a row.
LEMMA Inserting ==
  ASSUME TypeOK, IsFiniteSet(members), NEW q \in Requests, NEW r \in Request,
         req' = [req EXCEPT ![q] = r], UNCHANGED group, Noted,
         NEW u \in Users, NEW role \in Roles, Insert(u, role)
  PROVE  TypeOK' /\ IsFiniteSet(members')
<1>1. changed' \in [Requests -> SUBSET Users]
  BY NotedTypes, Inserted
<1> QED
  BY <1>1, Inserted DEF TypeOK

\* The steps that delete the row they hold.
LEMMA Deleting ==
  ASSUME TypeOK, IsFiniteSet(members), NEW q \in Requests, NEW r \in Request,
         req' = [req EXCEPT ![q] = r], UNCHANGED <<group, next>>, Noted,
         NEW m \in Row, members' = Without(m)
  PROVE  TypeOK' /\ IsFiniteSet(members')
<1>1. members' \subseteq members
  BY DEF Without
<1>2. changed' \in [Requests -> SUBSET Users]
  BY <1>1, NotedTypes DEF TypeOK
<1>3. IsFiniteSet(members')
  BY <1>1, FS_Subset
<1> QED
  BY <1>1, <1>2, <1>3 DEF TypeOK

\* Every statement of every handler keeps the rows and the requests well-formed.
LEMMA TypeStep ==
  TypeOK /\ IsFiniteSet(members) /\ [Next]_vars => TypeOK' /\ IsFiniteSet(members')
<1> SUFFICES ASSUME TypeOK, IsFiniteSet(members), [Next]_vars
             PROVE  TypeOK' /\ IsFiniteSet(members')
  OBVIOUS
<1>1. ASSUME NEW q \in Requests, NEW us \in SUBSET Users, CreateGroup(q, us)
      PROVE  TypeOK' /\ IsFiniteSet(members')
  <2>1. [step |-> "owner", left |-> us \ {Creator}] \in Request
    BY DEF Request
  <2> QED
    BY <1>1, <2>1, Quiet DEF CreateGroup, Begin, TypeOK
<1>2. ASSUME NEW q \in Requests, NEW by \in Users, NEW u \in Users, AddCheck(q, by, u)
      PROVE  TypeOK' /\ IsFiniteSet(members')
  <2>1. [step |-> "add", user |-> u] \in Request
    BY DEF Request
  <2> QED
    BY <1>2, <2>1, Quiet DEF AddCheck, Begin, TypeOK
<1>3. ASSUME NEW q \in Requests, NEW by \in Users, NEW u \in Users, RemoveCheck(q, by, u)
      PROVE  TypeOK' /\ IsFiniteSet(members')
  <2>1. [step |-> "look", user |-> u] \in Request
    BY DEF Request
  <2> QED
    BY <1>3, <2>1, Quiet DEF RemoveCheck, Begin, TypeOK
<1>4. ASSUME NEW q \in Requests, NEW u \in Users, LeaveLook(q, u)
      PROVE  TypeOK' /\ IsFiniteSet(members')
  <2>1. PICK m \in MembershipOf(u) :
         Begin(q, [step |-> IF m.role = "owner" THEN "count" ELSE "leave", row |-> m])
    BY <1>4 DEF LeaveLook
  <2>2. [step |-> IF m.role = "owner" THEN "count" ELSE "leave", row |-> m] \in Request
    BY <2>1 DEF Request, MembershipOf, TypeOK
  <2> QED
    BY <1>4, <2>1, <2>2, Quiet DEF LeaveLook, Begin, TypeOK
<1>5. ASSUME NEW q \in Requests, NEW u \in Users, PostCheck(q, u)
      PROVE  TypeOK' /\ IsFiniteSet(members')
  <2>1. [step |-> "post", user |-> u] \in Request
    BY DEF Request
  <2> QED
    BY <1>5, <2>1, Quiet DEF PostCheck, Begin, TypeOK
<1>6. ASSUME NEW q \in Requests, CreateOwner(q)
      PROVE  TypeOK' /\ IsFiniteSet(members')
  <2>1. [step |-> "fill", left |-> req[q].left] \in Request /\ Creator \in Users
    BY <1>6, Held, Kinds DEF CreateOwner
  <2> QED
    BY <1>6, <2>1, Inserting DEF CreateOwner, Goto, Roles
<1>7. ASSUME NEW q \in Requests, CreateMember(q)
      PROVE  TypeOK' /\ IsFiniteSet(members')
  <2>1. CASE req[q].left = {}
    BY <1>7, <2>1, Kinds, Quiet DEF CreateMember, Goto, TypeOK
  <2>2. CASE req[q].left # {}
    <3>1. PICK u \in req[q].left : /\ Insert(u, "member")
                                  /\ Goto(q, [step |-> "fill", left |-> req[q].left \ {u}])
      BY <1>7, <2>2 DEF CreateMember
    <3>2. u \in Users /\ req[q].left \ {u} \in SUBSET Users
      BY <1>7, Held DEF CreateMember
    <3>3. [step |-> "fill", left |-> req[q].left \ {u}] \in Request
      BY <3>2, Kinds
    <3> QED
      BY <1>7, <3>1, <3>2, <3>3, Inserting DEF CreateMember, Goto, Roles
  <2> QED
    BY <2>1, <2>2
<1>8. ASSUME NEW q \in Requests, AddLook(q)
      PROVE  TypeOK' /\ IsFiniteSet(members')
  <2>1. PICK r \in Request : Goto(q, r)
    BY <1>8, Held, Kinds DEF AddLook
  <2> QED
    BY <1>8, <2>1, Quiet DEF AddLook, Goto, TypeOK
<1>9. ASSUME NEW q \in Requests, AddInsert(q)
      PROVE  TypeOK' /\ IsFiniteSet(members')
  <2>1. Idle \in Request /\ req[q].user \in Users
    BY <1>9, Held, Kinds DEF AddInsert
  <2> QED
    BY <1>9, <2>1, Inserting DEF AddInsert, Goto, Roles
<1>10. ASSUME NEW q \in Requests, RemoveLook(q)
       PROVE  TypeOK' /\ IsFiniteSet(members')
  <2>1. PICK r \in Request : Goto(q, r)
    <3>1. \A m \in MembershipOf(req[q].user) : m \in Row
      BY DEF MembershipOf, TypeOK
    <3> QED
      BY <1>10, <3>1, Kinds DEF RemoveLook
  <2> QED
    BY <1>10, <2>1, Quiet DEF RemoveLook, Goto, TypeOK
<1>11. ASSUME NEW q \in Requests, RemoveDelete(q)
       PROVE  TypeOK' /\ IsFiniteSet(members')
  <2>1. req[q].row \in Row
    BY <1>11, Held DEF RemoveDelete
  <2>2. PICK r \in Request : Goto(q, r)
    BY <1>11, Kinds DEF RemoveDelete
  <2> QED
    BY <1>11, <2>1, <2>2, Deleting DEF RemoveDelete, Goto
<1>12. ASSUME NEW q \in Requests, LeaveCount(q)
       PROVE  TypeOK' /\ IsFiniteSet(members')
  <2>1. PICK r \in Request : Goto(q, r)
    BY <1>12, Held, Kinds DEF LeaveCount
  <2> QED
    BY <1>12, <2>1, Quiet DEF LeaveCount, Goto, TypeOK
<1>13. ASSUME NEW q \in Requests, LeaveDelete(q)
       PROVE  TypeOK' /\ IsFiniteSet(members')
  <2>1. req[q].row \in Row
    BY <1>13, Held DEF LeaveDelete
  <2>2. PICK r \in Request : Goto(q, r)
    BY <1>13, Kinds DEF LeaveDelete
  <2> QED
    BY <1>13, <2>1, <2>2, Deleting DEF LeaveDelete, Goto
<1>14. ASSUME NEW q \in Requests, DropGroup(q)
       PROVE  TypeOK' /\ IsFiniteSet(members')
  <2>1. PICK r \in Request : Goto(q, r)
    BY <1>14, Held, Kinds DEF DropGroup
  <2> QED
    BY <1>14, <2>1, Quiet DEF DropGroup, Goto, TypeOK
<1>15. ASSUME NEW q \in Requests, PostStore(q)
       PROVE  TypeOK' /\ IsFiniteSet(members')
  <2>1. PICK r \in Request : Goto(q, r)
    BY <1>15, Held, Kinds DEF PostStore
  <2> QED
    BY <1>15, <2>1, Quiet DEF PostStore, Goto, TypeOK
<1>16. ASSUME NEW q \in Requests, PostList(q)
       PROVE  TypeOK' /\ IsFiniteSet(members')
  <2>1. PICK r \in Request : Goto(q, r)
    <3>1. {m.user : m \in members} \ {req[q].user} \in SUBSET Users
      BY DEF TypeOK, Row
    <3> QED
      BY <1>16, <3>1, Kinds DEF PostList
  <2> QED
    BY <1>16, <2>1, Quiet DEF PostList, Goto, TypeOK
<1>17. ASSUME NEW q \in Requests, PostSend(q)
       PROVE  TypeOK' /\ IsFiniteSet(members')
  <2>1. PICK r \in Request : Goto(q, r)
    <3>1. \A u \in req[q].left : req[q].left \ {u} \in SUBSET Users
      BY <1>17, Held DEF PostSend
    <3> QED
      BY <1>17, <3>1, Kinds DEF PostSend
  <2> QED
    BY <1>17, <2>1, Quiet DEF PostSend, Goto, TypeOK
<1>18. CASE UNCHANGED vars
  BY <1>18 DEF vars, TypeOK
<1> QED
  BY <1>1, <1>2, <1>3, <1>4, <1>5, <1>6, <1>7, <1>8, <1>9,
     <1>10, <1>11, <1>12, <1>13, <1>14, <1>15, <1>16, <1>17, <1>18
     DEF Next, Start, Continue

\* A set with no more than one element has no two.
LEMMA AtMostOne ==
  ASSUME NEW S, IsFiniteSet(S), ~(Cardinality(S) > 1), NEW x \in S, NEW y \in S
  PROVE  x = y
<1>1. Cardinality(S) \in Nat
  BY FS_CardinalityType
<1>2. Cardinality(S \ {x}) = Cardinality(S) - 1 /\ IsFiniteSet(S \ {x})
  BY FS_RemoveElement
<1>3. Cardinality(S \ {x}) \in Nat
  BY <1>2, FS_CardinalityType
<1>4. S \ {x} = {}
  BY <1>1, <1>2, <1>3, FS_EmptySet
<1> QED
  BY <1>4

\* A role never changes, only the creator is inserted as an owner, and a removal
\* takes up no owner's row.
LEMMA RoleStep == TypeOK /\ Roled /\ [Next]_vars => Roled'
<1> SUFFICES ASSUME TypeOK, Roled, [Next]_vars
             PROVE  Roled'
  OBVIOUS
<1> USE DEF TypeOK, Roled, Begin, Goto, Idle
<1>1. ASSUME NEW q \in Requests, NEW us \in SUBSET Users, CreateGroup(q, us)
      PROVE  Roled'
  BY <1>1 DEF CreateGroup
<1>2. ASSUME NEW q \in Requests, NEW by \in Users, NEW u \in Users, AddCheck(q, by, u)
      PROVE  Roled'
  BY <1>2 DEF AddCheck
<1>3. ASSUME NEW q \in Requests, NEW by \in Users, NEW u \in Users, RemoveCheck(q, by, u)
      PROVE  Roled'
  BY <1>3 DEF RemoveCheck
<1>4. ASSUME NEW q \in Requests, NEW u \in Users, LeaveLook(q, u) PROVE Roled'
  BY <1>4 DEF LeaveLook, MembershipOf
<1>5. ASSUME NEW q \in Requests, NEW u \in Users, PostCheck(q, u) PROVE Roled'
  BY <1>5 DEF PostCheck
<1>6. ASSUME NEW q \in Requests, CreateOwner(q) PROVE Roled'
  BY <1>6 DEF CreateOwner, Insert
<1>7. ASSUME NEW q \in Requests, CreateMember(q) PROVE Roled'
  BY <1>7 DEF CreateMember, Insert
<1>8. ASSUME NEW q \in Requests, AddLook(q) PROVE Roled'
  BY <1>8 DEF AddLook
<1>9. ASSUME NEW q \in Requests, AddInsert(q) PROVE Roled'
  BY <1>9 DEF AddInsert, Insert
<1>10. ASSUME NEW q \in Requests, RemoveLook(q) PROVE Roled'
  BY <1>10 DEF RemoveLook, MembershipOf
<1>11. ASSUME NEW q \in Requests, RemoveDelete(q) PROVE Roled'
  BY <1>11 DEF RemoveDelete, Without
<1>12. ASSUME NEW q \in Requests, LeaveCount(q) PROVE Roled'
  BY <1>12 DEF LeaveCount
<1>13. ASSUME NEW q \in Requests, LeaveDelete(q) PROVE Roled'
  BY <1>13 DEF LeaveDelete, Without
<1>14. ASSUME NEW q \in Requests, DropGroup(q) PROVE Roled'
  BY <1>14 DEF DropGroup
<1>15. ASSUME NEW q \in Requests, PostStore(q) PROVE Roled'
  BY <1>15 DEF PostStore
<1>16. ASSUME NEW q \in Requests, PostList(q) PROVE Roled'
  BY <1>16 DEF PostList
<1>17. ASSUME NEW q \in Requests, PostSend(q) PROVE Roled'
  BY <1>17 DEF PostSend
<1>18. CASE UNCHANGED vars
  BY <1>18 DEF vars
<1> QED
  BY <1>1, <1>2, <1>3, <1>4, <1>5, <1>6, <1>7, <1>8, <1>9,
     <1>10, <1>11, <1>12, <1>13, <1>14, <1>15, <1>16, <1>17, <1>18
     DEF Next, Start, Continue

\* The group is founded by one request, and its owner goes with it.
LEMMA FoundingStep ==
  TypeOK /\ Roled /\ Founding /\ OwnerHolds /\ [Next]_vars => Founding' /\ OwnerHolds'
<1> SUFFICES ASSUME TypeOK, Roled, Founding, OwnerHolds, [Next]_vars
             PROVE  Founding' /\ OwnerHolds'
  OBVIOUS
<1> USE DEF TypeOK, Roled, Founding, OwnerHolds, Begin, Goto, Idle
<1>1. ASSUME NEW q \in Requests, NEW us \in SUBSET Users, CreateGroup(q, us)
      PROVE  Founding' /\ OwnerHolds'
  BY <1>1 DEF CreateGroup
<1>2. ASSUME NEW q \in Requests, NEW by \in Users, NEW u \in Users, AddCheck(q, by, u)
      PROVE  Founding' /\ OwnerHolds'
  BY <1>2 DEF AddCheck, MembershipOf
<1>3. ASSUME NEW q \in Requests, NEW by \in Users, NEW u \in Users, RemoveCheck(q, by, u)
      PROVE  Founding' /\ OwnerHolds'
  BY <1>3 DEF RemoveCheck, MembershipOf
<1>4. ASSUME NEW q \in Requests, NEW u \in Users, LeaveLook(q, u)
      PROVE  Founding' /\ OwnerHolds'
  BY <1>4 DEF LeaveLook, MembershipOf
<1>5. ASSUME NEW q \in Requests, NEW u \in Users, PostCheck(q, u)
      PROVE  Founding' /\ OwnerHolds'
  BY <1>5 DEF PostCheck, IsMember, MembershipOf
<1>6. ASSUME NEW q \in Requests, CreateOwner(q) PROVE Founding' /\ OwnerHolds'
  <2>1. members = {} /\ \A p \in Requests \ {q} : req[p] = Idle
    BY <1>6 DEF CreateOwner
  <2>2. members' = {[id |-> next, user |-> Creator, role |-> "owner"]}
    BY <1>6, <2>1 DEF CreateOwner, Insert, IsMember, MembershipOf
  <2>3. \A m \in members' : m.role = "owner" /\ m.user = Creator
    BY <2>2
  <2>4. group # "none" /\ group' = group
    BY <1>6 DEF CreateOwner
  <2>5. \A p \in Requests : req'[p].step # "owner"
    BY <1>6, <2>1 DEF CreateOwner
  <2>6. \E m \in members' : m.role = "owner"
    BY <2>2, <2>3
  <2> QED
    BY <2>3, <2>4, <2>5, <2>6
<1>7. ASSUME NEW q \in Requests, CreateMember(q) PROVE Founding' /\ OwnerHolds'
  BY <1>7 DEF CreateMember, Insert, IsMember, MembershipOf
<1>8. ASSUME NEW q \in Requests, AddLook(q) PROVE Founding' /\ OwnerHolds'
  BY <1>8 DEF AddLook
<1>9. ASSUME NEW q \in Requests, AddInsert(q) PROVE Founding' /\ OwnerHolds'
  BY <1>9 DEF AddInsert, Insert, IsMember, MembershipOf
<1>10. ASSUME NEW q \in Requests, RemoveLook(q) PROVE Founding' /\ OwnerHolds'
  BY <1>10 DEF RemoveLook, MembershipOf
<1>11. ASSUME NEW q \in Requests, RemoveDelete(q) PROVE Founding' /\ OwnerHolds'
  BY <1>11 DEF RemoveDelete, Without
<1>12. ASSUME NEW q \in Requests, LeaveCount(q) PROVE Founding' /\ OwnerHolds'
  BY <1>12 DEF LeaveCount
<1>13. ASSUME NEW q \in Requests, LeaveDelete(q) PROVE Founding' /\ OwnerHolds'
  BY <1>13 DEF LeaveDelete, Without
<1>14. ASSUME NEW q \in Requests, DropGroup(q) PROVE Founding' /\ OwnerHolds'
  BY <1>14 DEF DropGroup
<1>15. ASSUME NEW q \in Requests, PostStore(q) PROVE Founding' /\ OwnerHolds'
  BY <1>15 DEF PostStore
<1>16. ASSUME NEW q \in Requests, PostList(q) PROVE Founding' /\ OwnerHolds'
  BY <1>16 DEF PostList
<1>17. ASSUME NEW q \in Requests, PostSend(q) PROVE Founding' /\ OwnerHolds'
  BY <1>17 DEF PostSend
<1>18. CASE UNCHANGED vars
  BY <1>18 DEF vars
<1> QED
  BY <1>1, <1>2, <1>3, <1>4, <1>5, <1>6, <1>7, <1>8, <1>9,
     <1>10, <1>11, <1>12, <1>13, <1>14, <1>15, <1>16, <1>17, <1>18
     DEF Next, Start, Continue

\* A request that does not move stays up to date: Noted records who came or went.
LEMMA Kept ==
  ASSUME Noted, NEW q \in Requests, UpToDate(q), req'[q] = req[q]
  PROVE  UpToDate(q)'
<1>1. CASE req[q] = Idle
  BY <1>1 DEF UpToDate, Idle
<1>2. CASE req[q] # Idle
  <2>1. /\ changed[q] \subseteq changed'[q]
        /\ \A m \in members \ members' : m.user \in changed'[q]
        /\ \A m \in members' \ members : m.user \in changed'[q]
    BY <1>2, Turnover
  <2>2. ASSUME NEW u, IsMember(u) PROVE IsMember(u)' \/ u \in changed'[q]
    BY <2>1, <2>2 DEF IsMember, MembershipOf
  <2> QED
    BY <2>1, <2>2 DEF UpToDate
<1> QED
  BY <1>1, <1>2

\* Each statement leaves its request with what it has just read.
LEMMA CurrentStep ==
  TypeOK /\ IsFiniteSet(members) /\ Roled /\ Current /\ [Next]_vars => Current'
<1> SUFFICES ASSUME TypeOK, IsFiniteSet(members), Roled, Current, [Next]_vars
             PROVE  Current'
  OBVIOUS
<1> USE DEF TypeOK, Begin, Goto, Idle
<1>1. ASSUME NEW q \in Requests, NEW us \in SUBSET Users, CreateGroup(q, us)
      PROVE  Current'
  <2>1. UpToDate(q)'
    BY <1>1 DEF CreateGroup, UpToDate
  <2> QED
    BY <1>1, <2>1, Kept DEF CreateGroup, Current
<1>2. ASSUME NEW q \in Requests, NEW by \in Users, NEW u \in Users, AddCheck(q, by, u)
      PROVE  Current'
  <2>1. UpToDate(q)'
    BY <1>2 DEF AddCheck, UpToDate
  <2> QED
    BY <1>2, <2>1, Kept DEF AddCheck, Current
<1>3. ASSUME NEW q \in Requests, NEW by \in Users, NEW u \in Users, RemoveCheck(q, by, u)
      PROVE  Current'
  <2>1. UpToDate(q)'
    BY <1>3 DEF RemoveCheck, UpToDate
  <2> QED
    BY <1>3, <2>1, Kept DEF RemoveCheck, Current
<1>4. ASSUME NEW q \in Requests, NEW u \in Users, LeaveLook(q, u) PROVE Current'
  <2>1. UpToDate(q)'
    BY <1>4 DEF LeaveLook, UpToDate, MembershipOf
  <2> QED
    BY <1>4, <2>1, Kept DEF LeaveLook, Current
<1>5. ASSUME NEW q \in Requests, NEW u \in Users, PostCheck(q, u) PROVE Current'
  <2>1. UpToDate(q)'
    BY <1>5 DEF PostCheck, UpToDate, IsMember, MembershipOf
  <2> QED
    BY <1>5, <2>1, Kept DEF PostCheck, Current
<1>6. ASSUME NEW q \in Requests, CreateOwner(q) PROVE Current'
  <2>1. UpToDate(q)'
    BY <1>6 DEF CreateOwner, UpToDate
  <2> QED
    BY <1>6, <2>1, Kept DEF CreateOwner, Current
<1>7. ASSUME NEW q \in Requests, CreateMember(q) PROVE Current'
  <2>1. UpToDate(q)'
    BY <1>7 DEF CreateMember, UpToDate
  <2> QED
    BY <1>7, <2>1, Kept DEF CreateMember, Current
<1>8. ASSUME NEW q \in Requests, AddLook(q) PROVE Current'
  <2>1. UpToDate(q)'
    BY <1>8 DEF AddLook, UpToDate
  <2> QED
    BY <1>8, <2>1, Kept DEF AddLook, Current
<1>9. ASSUME NEW q \in Requests, AddInsert(q) PROVE Current'
  <2>1. UpToDate(q)'
    BY <1>9 DEF AddInsert, UpToDate
  <2> QED
    BY <1>9, <2>1, Kept DEF AddInsert, Current
<1>10. ASSUME NEW q \in Requests, RemoveLook(q) PROVE Current'
  <2>1. UpToDate(q)'
    BY <1>10 DEF RemoveLook, UpToDate
  <2> QED
    BY <1>10, <2>1, Kept DEF RemoveLook, Current
<1>11. ASSUME NEW q \in Requests, RemoveDelete(q) PROVE Current'
  <2>1. UpToDate(q)'
    BY <1>11 DEF RemoveDelete, UpToDate
  <2> QED
    BY <1>11, <2>1, Kept DEF RemoveDelete, Current
<1>12. ASSUME NEW q \in Requests, LeaveCount(q) PROVE Current'
  <2>1. ASSUME Cardinality(members) > 1 PROVE UpToDate(q)'
    BY <1>12, <2>1 DEF LeaveCount, UpToDate
  <2>2. ASSUME ~(Cardinality(members) > 1) PROVE UpToDate(q)'
    <3>1. req' = [req EXCEPT ![q] = [step |-> "leave", row |-> req[q].row]]
      BY <1>12, <2>2 DEF LeaveCount
    <3>2. changed[q] \subseteq changed'[q] /\ members' = members
      BY <1>12, <3>1, Turnover DEF LeaveCount
    <3>3. ASSUME NEW m \in members, NEW n \in members PROVE m = n
      BY <2>2, <3>3, AtMostOne
    <3>4. req[q].row \in members \/ req[q].row.user \in changed[q]
      BY <1>12 DEF LeaveCount, Current, UpToDate
    <3>5. req[q].row.role = "owner" => req[q].row.user = Creator
      BY <1>12 DEF LeaveCount, Roled
    <3> QED
      BY <3>1, <3>2, <3>3, <3>4, <3>5 DEF UpToDate
  <2>3. UpToDate(q)'
    BY <2>1, <2>2
  <2> QED
    BY <1>12, <2>3, Kept DEF LeaveCount, Current
<1>13. ASSUME NEW q \in Requests, LeaveDelete(q) PROVE Current'
  <2>1. UpToDate(q)'
    BY <1>13 DEF LeaveDelete, UpToDate
  <2> QED
    BY <1>13, <2>1, Kept DEF LeaveDelete, Current
<1>14. ASSUME NEW q \in Requests, DropGroup(q) PROVE Current'
  <2>1. UpToDate(q)'
    BY <1>14 DEF DropGroup, UpToDate
  <2> QED
    BY <1>14, <2>1, Kept DEF DropGroup, Current
<1>15. ASSUME NEW q \in Requests, PostStore(q) PROVE Current'
  <2>1. UpToDate(q)'
    BY <1>15, Turnover DEF PostStore, UpToDate, IsMember, MembershipOf, Current
  <2> QED
    BY <1>15, <2>1, Kept DEF PostStore, Current
<1>16. ASSUME NEW q \in Requests, PostList(q) PROVE Current'
  <2>1. UpToDate(q)'
    BY <1>16 DEF PostList, UpToDate, IsMember, MembershipOf
  <2> QED
    BY <1>16, <2>1, Kept DEF PostList, Current
<1>17. ASSUME NEW q \in Requests, PostSend(q) PROVE Current'
  <2>1. UpToDate(q)'
    BY <1>17, Turnover DEF PostSend, UpToDate, IsMember, MembershipOf, Current
  <2> QED
    BY <1>17, <2>1, Kept DEF PostSend, Current
<1>18. CASE UNCHANGED vars
  BY <1>18 DEF vars, Current, UpToDate, IsMember, MembershipOf
<1> QED
  BY <1>1, <1>2, <1>3, <1>4, <1>5, <1>6, <1>7, <1>8, <1>9,
     <1>10, <1>11, <1>12, <1>13, <1>14, <1>15, <1>16, <1>17, <1>18
     DEF Next, Start, Continue

\* The invariant is inductive.
LEMMA InvStep == IInv /\ [Next]_vars => IInv'
  BY TypeStep, RoleStep, FoundingStep, CurrentStep DEF IInv

\* The invariant holds in every state of every behaviour.
THEOREM Invariance == Spec => []IInv
<1>1. Init => IInv
  BY InitInv
<1>2. IInv /\ [Next]_vars => IInv'
  BY InvStep
<1> QED
  BY <1>1, <1>2, PTL DEF Spec

\* The rows of a group keep their types, and a user has at most one of them.
THEOREM GroupTyping == Spec => []TypeOK
<1>1. IInv => TypeOK
  BY DEF IInv
<1> QED
  BY <1>1, Invariance, PTL

\* A group that is there, and that nobody is founding or taking down, has its
\* owner, and only the creator is one.
THEOREM OwnerStays == Spec => []OwnerHolds
<1>1. IInv => OwnerHolds
  BY DEF IInv
<1> QED
  BY <1>1, Invariance, PTL

\* The membership rows a step deletes.
DeletesChecked ==
  \A m \in members \ members' : \E q \in Requests :
    \/ req[q] = [step |-> "leave", row |-> m]
    \/ req[q] = [step |-> "remove", row |-> m] /\ m.role = "member"

\* A request that holds a row is known by the row.
LEMMA Holding ==
  ASSUME TypeOK, NEW q \in Requests, NEW s \in {"remove", "leave"}, req[q].step = s
  PROVE  req[q] = [step |-> s, row |-> req[q].row]
<1>1. req[q] \in Request
  BY DEF TypeOK
<1>2. req[q] \in [step : {"remove", "count", "leave"}, row : Row]
  BY <1>1 DEF Request, Idle
<1> QED
  BY <1>2

\* Rows go by the two DELETE statements only, each of the row it holds.
LEMMA DeletesStep == IInv /\ [Next]_vars => DeletesChecked
<1> SUFFICES ASSUME IInv, [Next]_vars
             PROVE  DeletesChecked
  OBVIOUS
<1>1. ASSUME NEW q \in Requests, NEW us \in SUBSET Users, CreateGroup(q, us)
      PROVE  DeletesChecked
  BY <1>1 DEF CreateGroup, DeletesChecked
<1>2. ASSUME NEW q \in Requests, NEW by \in Users, NEW u \in Users, AddCheck(q, by, u)
      PROVE  DeletesChecked
  BY <1>2 DEF AddCheck, DeletesChecked
<1>3. ASSUME NEW q \in Requests, NEW by \in Users, NEW u \in Users, RemoveCheck(q, by, u)
      PROVE  DeletesChecked
  BY <1>3 DEF RemoveCheck, DeletesChecked
<1>4. ASSUME NEW q \in Requests, NEW u \in Users, LeaveLook(q, u)
      PROVE  DeletesChecked
  BY <1>4 DEF LeaveLook, DeletesChecked
<1>5. ASSUME NEW q \in Requests, NEW u \in Users, PostCheck(q, u)
      PROVE  DeletesChecked
  BY <1>5 DEF PostCheck, DeletesChecked
<1>6. ASSUME NEW q \in Requests, CreateOwner(q) PROVE DeletesChecked
  BY <1>6 DEF CreateOwner, Insert, DeletesChecked
<1>7. ASSUME NEW q \in Requests, CreateMember(q) PROVE DeletesChecked
  BY <1>7 DEF CreateMember, Insert, DeletesChecked
<1>8. ASSUME NEW q \in Requests, AddLook(q) PROVE DeletesChecked
  BY <1>8 DEF AddLook, DeletesChecked
<1>9. ASSUME NEW q \in Requests, AddInsert(q) PROVE DeletesChecked
  BY <1>9 DEF AddInsert, Insert, DeletesChecked
<1>10. ASSUME NEW q \in Requests, RemoveLook(q) PROVE DeletesChecked
  BY <1>10 DEF RemoveLook, DeletesChecked
<1>11. ASSUME NEW q \in Requests, RemoveDelete(q) PROVE DeletesChecked
  <2>1. members \ members' \subseteq {req[q].row}
    BY <1>11 DEF RemoveDelete, Without
  <2>2. req[q] = [step |-> "remove", row |-> req[q].row]
    BY <1>11, Holding DEF RemoveDelete, IInv
  <2>3. req[q].row.role = "member"
    BY <1>11 DEF RemoveDelete, IInv, Roled
  <2> QED
    BY <2>1, <2>2, <2>3 DEF DeletesChecked
<1>12. ASSUME NEW q \in Requests, LeaveCount(q) PROVE DeletesChecked
  BY <1>12 DEF LeaveCount, DeletesChecked
<1>13. ASSUME NEW q \in Requests, LeaveDelete(q) PROVE DeletesChecked
  <2>1. members \ members' \subseteq {req[q].row}
    BY <1>13 DEF LeaveDelete, Without
  <2>2. req[q] = [step |-> "leave", row |-> req[q].row]
    BY <1>13, Holding DEF LeaveDelete, IInv
  <2> QED
    BY <2>1, <2>2 DEF DeletesChecked
<1>14. ASSUME NEW q \in Requests, DropGroup(q) PROVE DeletesChecked
  BY <1>14 DEF DropGroup, DeletesChecked
<1>15. ASSUME NEW q \in Requests, PostStore(q) PROVE DeletesChecked
  BY <1>15 DEF PostStore, DeletesChecked
<1>16. ASSUME NEW q \in Requests, PostList(q) PROVE DeletesChecked
  BY <1>16 DEF PostList, DeletesChecked
<1>17. ASSUME NEW q \in Requests, PostSend(q) PROVE DeletesChecked
  BY <1>17 DEF PostSend, DeletesChecked
<1>18. CASE UNCHANGED vars
  BY <1>18 DEF vars, DeletesChecked
<1> QED
  BY <1>1, <1>2, <1>3, <1>4, <1>5, <1>6, <1>7, <1>8, <1>9,
     <1>10, <1>11, <1>12, <1>13, <1>14, <1>15, <1>16, <1>17, <1>18
     DEF Next, Start, Continue

\* A membership goes only by a request that has read and checked this very row.
THEOREM ChecksHold == Spec => OnlyCheckedRowsGo
<1>1. IInv /\ [Next]_vars => [DeletesChecked]_vars
  BY DeletesStep
<1> QED
  BY <1>1, Invariance, PTL DEF Spec, OnlyCheckedRowsGo, DeletesChecked

\* What the readers of a message are: the two halves of StrangersAreLeftOut.
MembersOnly ==
  \A q \in Requests, u \in Users :
    \/ req[q].step = "post" /\ req'[q].step = "list" /\ u = req[q].user
    \/ req[q].step = "send" /\ req[q].left # {} /\ u \in req[q].left \ req'[q].left
    => IsMember(u) \/ u \in changed[q]

\* A group message is stored for, and sent to, members, or users who were
\* removed while the request was under way.
THEOREM Strangers == Spec => StrangersAreLeftOut
<1>1. IInv => MembersOnly
  BY DEF IInv, Current, UpToDate, MembersOnly
<1> QED
  BY <1>1, Invariance, PTL DEF Spec, StrangersAreLeftOut, MembersOnly

\* Only the DELETE of an owner who leaves goes on to the group.
LEMMA DropsByLeaving ==
  ASSUME TypeOK, [Next]_vars, NEW p \in Requests,
         req[p].step = "leave", req'[p].step = "drop"
  PROVE  LeaveDelete(p)
<1> USE DEF TypeOK, Begin, Goto, Idle
<1>1. ASSUME NEW q \in Requests, NEW us \in SUBSET Users, CreateGroup(q, us)
      PROVE  LeaveDelete(p)
  BY <1>1 DEF CreateGroup
<1>2. ASSUME NEW q \in Requests, NEW by \in Users, NEW u \in Users, AddCheck(q, by, u)
      PROVE  LeaveDelete(p)
  BY <1>2 DEF AddCheck
<1>3. ASSUME NEW q \in Requests, NEW by \in Users, NEW u \in Users, RemoveCheck(q, by, u)
      PROVE  LeaveDelete(p)
  BY <1>3 DEF RemoveCheck
<1>4. ASSUME NEW q \in Requests, NEW u \in Users, LeaveLook(q, u)
      PROVE  LeaveDelete(p)
  BY <1>4 DEF LeaveLook
<1>5. ASSUME NEW q \in Requests, NEW u \in Users, PostCheck(q, u)
      PROVE  LeaveDelete(p)
  BY <1>5 DEF PostCheck
<1>6. ASSUME NEW q \in Requests, CreateOwner(q) PROVE LeaveDelete(p)
  BY <1>6 DEF CreateOwner
<1>7. ASSUME NEW q \in Requests, CreateMember(q) PROVE LeaveDelete(p)
  BY <1>7 DEF CreateMember
<1>8. ASSUME NEW q \in Requests, AddLook(q) PROVE LeaveDelete(p)
  BY <1>8 DEF AddLook
<1>9. ASSUME NEW q \in Requests, AddInsert(q) PROVE LeaveDelete(p)
  BY <1>9 DEF AddInsert
<1>10. ASSUME NEW q \in Requests, RemoveLook(q) PROVE LeaveDelete(p)
  BY <1>10 DEF RemoveLook
<1>11. ASSUME NEW q \in Requests, RemoveDelete(q) PROVE LeaveDelete(p)
  BY <1>11 DEF RemoveDelete
<1>12. ASSUME NEW q \in Requests, LeaveCount(q) PROVE LeaveDelete(p)
  BY <1>12 DEF LeaveCount
<1>13. ASSUME NEW q \in Requests, LeaveDelete(q) PROVE LeaveDelete(p)
  BY <1>13 DEF LeaveDelete
<1>14. ASSUME NEW q \in Requests, DropGroup(q) PROVE LeaveDelete(p)
  BY <1>14 DEF DropGroup
<1>15. ASSUME NEW q \in Requests, PostStore(q) PROVE LeaveDelete(p)
  BY <1>15 DEF PostStore
<1>16. ASSUME NEW q \in Requests, PostList(q) PROVE LeaveDelete(p)
  BY <1>16 DEF PostList
<1>17. ASSUME NEW q \in Requests, PostSend(q) PROVE LeaveDelete(p)
  BY <1>17 DEF PostSend
<1>18. CASE UNCHANGED vars
  BY <1>18 DEF vars
<1> QED
  BY <1>1, <1>2, <1>3, <1>4, <1>5, <1>6, <1>7, <1>8, <1>9,
     <1>10, <1>11, <1>12, <1>13, <1>14, <1>15, <1>16, <1>17, <1>18
     DEF Next, Start, Continue

\* Who is left in a group that is about to be deleted.
LeftAlone ==
  \A q \in Requests :
    req[q].step = "leave" /\ req'[q].step = "drop"
      => \/ {m.user : m \in members'} \subseteq changed[q]
         \/ Creator \in changed[q]

\* The group is deleted by its last member, but for members added, or the
\* creator's own coming and going, while the request was under way.
THEOREM LastMember == Spec => LastMemberDeletes
<1>1. IInv /\ [Next]_vars => [LeftAlone]_vars
  <2> SUFFICES ASSUME IInv, [Next]_vars, NEW q \in Requests,
                      req[q].step = "leave", req'[q].step = "drop"
               PROVE  {m.user : m \in members'} \subseteq changed[q] \/ Creator \in changed[q]
    BY DEF LeftAlone
  <2>1. LeaveDelete(q)
    BY DropsByLeaving DEF IInv
  <2>2. req[q].row.role = "owner" /\ members' = members \ {req[q].row}
    BY <2>1 DEF LeaveDelete, Goto, Idle, Without, IInv, TypeOK
  <2>3. \/ Creator \in changed[q]
        \/ \A m \in members : m = req[q].row \/ m.user \in changed[q]
    BY <2>2 DEF IInv, Current, UpToDate
  <2> QED
    BY <2>2, <2>3
<1> QED
  BY <1>1, Invariance, PTL DEF Spec, LastMemberDeletes, LeftAlone
=============================================================================
