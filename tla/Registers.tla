------------------------------ MODULE Registers ------------------------------
(***************************************************************************)
(* What a table of marks promises its users, without rows or indexes: each  *)
(* user has a value, or none, for each key.  A request wants one value for  *)
(* some keys of its user and gives it to each of them at one moment while   *)
(* it runs; one that succeeds has done so for all of them, one that fails   *)
(* may have left some out.                                                  *)
(***************************************************************************)
CONSTANTS Users, Keys, Requests, Values, Nothing, NoUser

VARIABLES value,  \* what a user is shown for a key
          job     \* what a request has still to do

vars == <<value, job>>

Closed(state) == [state |-> state, user |-> NoUser, want |-> Nothing, todo |-> {}]

Init == /\ value = [u \in Users |-> [k \in Keys |-> Nothing]]
        /\ job = [q \in Requests |-> Closed("new")]

Open == [state : {"open"}, user : Users, want : Values \cup {Nothing}, todo : SUBSET Keys]

Ask(q) ==
  /\ job[q].state = "new" /\ job'[q] \in Open
  /\ job' = [job EXCEPT ![q] = job'[q]]
  /\ UNCHANGED value

Apply(q, k) ==
  /\ job[q].state = "open" /\ k \in job[q].todo
  /\ value' = [value EXCEPT ![job[q].user][k] = job[q].want]
  /\ \/ job' = [job EXCEPT ![q].todo = @ \ {k}]
     \/ job[q].todo = {k} /\ job' = [job EXCEPT ![q] = Closed("ok")]

Succeed(q) ==
  /\ job[q].state = "open" /\ job[q].todo = {}
  /\ job' = [job EXCEPT ![q] = Closed("ok")]
  /\ UNCHANGED value

Fail(q) ==
  /\ job[q].state = "open" /\ job[q].todo # {}
  /\ job' = [job EXCEPT ![q] = Closed("failed")]
  /\ UNCHANGED value

Next ==
  \E q \in Requests :
    \/ Ask(q) \/ Succeed(q) \/ Fail(q)
    \/ \E k \in Keys : Apply(q, k)

Spec == Init /\ [][Next]_vars
=============================================================================
