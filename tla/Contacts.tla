------------------------------ MODULE Contacts ------------------------------
(***************************************************************************)
(* Contacts and blocks (internal/api/handlers/contacts.go and the models    *)
(* contact.go, block.go), and what every request of modules Broadcasts and  *)
(* Stories shares: a request is an HTTP handler goroutine, its statements   *)
(* are transactions of their own, so each is an action.                     *)
(*                                                                          *)
(* Both tables have a unique index over the pair: a row is its pair, and an *)
(* insertion of a pair that is there is an error that changes nothing.      *)
(***************************************************************************)
EXTENDS Naturals, FiniteSets

CONSTANTS Users,
          Requests,        \* each runs once
          NoUser, NoId,
          FirstContacts,   \* what the contacts and
          FirstBlocks      \* the blocks may be at first: sets of sets of pairs

Pair == {p \in Users \X Users : p[1] # p[2]}

ASSUME ContactsAssumption ==
  /\ NoUser \notin Users /\ IsFiniteSet(Users)
  /\ \A s \in FirstContacts \cup FirstBlocks : s \subseteq Pair

VARIABLES
  contacts,  \* contacts rows: <<UserID, ContactID>>
  blocks,    \* blocks rows: <<BlockerID, BlockedID>>
  req,       \* what a request is doing and has in hand
  known      \* contacts there ever were (history)

peopleVars == <<contacts, blocks, known>>

\* A request: its user, the user and the list or story it is about, users it still
\* has to deal with, list rows it loaded, users it vetted or wrote to.  History:
\* the users a block has separated from its user since it began, and those it
\* found, listed or wrote to.
Idle(step) == [step |-> step, user |-> NoUser, other |-> NoUser, of |-> NoId, hand |-> {},
               rows |-> {}, good |-> {}, shield |-> {}, touched |-> {}]

ContactsInit ==
  /\ contacts \in FirstContacts /\ known = contacts
  /\ blocks \in FirstBlocks
  /\ req = [q \in Requests |-> Idle("new")]

At(q, step)   == req[q].step = step
Goto(q, step) == req' = [req EXCEPT ![q].step = step]
End(q)        == req' = [req EXCEPT ![q] = Idle("done")]
Working       == {q \in Requests : req[q].step \notin {"new", "reply", "renamed", "done"}}

Apart(u) == {v \in Users : <<u, v>> \in blocks \/ <<v, u>> \in blocks}

\* Request q of user u begins, about user v and list or story i, with these users
\* in hand.
Begin(q, u, v, i, us, step) ==
  req' = [req EXCEPT ![q] = [Idle(step) EXCEPT !.user = u, !.other = v, !.of = i,
                                               !.hand = us, !.shield = Apart(u)]]

\* The answer of a request that has one to look at.
Reply(q) == req[q].step \in {"reply", "renamed"} /\ End(q) /\ UNCHANGED peopleVars

----------------------------------------------------------------------------
\* Mutant: only the blocks the user made himself are looked at.
IsEitherBlocked_Own(u, v) == <<u, v>> \in blocks

IsEitherBlocked(u, v) == <<u, v>> \in blocks \/ <<v, u>> \in blocks

----------------------------------------------------------------------------
(* Contacts.                                                                *)

\* The user is found by name; he is not oneself and not a contact yet.
Add(q, u, v) ==
  /\ At(q, "new")
  /\ IF u # v /\ <<u, v>> \notin contacts THEN Begin(q, u, v, NoId, {}, "addContact")
     ELSE End(q)
  /\ UNCHANGED peopleVars

AddContact(q) ==
  /\ At(q, "addContact") /\ End(q)
  /\ contacts' = contacts \cup {<<req[q].user, req[q].other>>}
  /\ known' = known \cup contacts'
  /\ UNCHANGED blocks

Remove(q, u, v) ==
  /\ At(q, "new") /\ End(q)
  /\ contacts' = contacts \ {<<u, v>>}
  /\ UNCHANGED <<blocks, known>>

----------------------------------------------------------------------------
(* Blocks.                                                                  *)

Block(q, u, v) ==
  /\ At(q, "new")
  /\ IF u # v /\ <<u, v>> \notin blocks THEN Begin(q, u, v, NoId, {}, "addBlock")
     ELSE End(q)
  /\ UNCHANGED peopleVars

AddBlock(q) ==
  /\ At(q, "addBlock") /\ End(q)
  /\ blocks' = blocks \cup {<<req[q].user, req[q].other>>}
  /\ UNCHANGED <<contacts, known>>

\* History: whoever is no longer blocked, either way, is shielded no more.
Unblock(q, u, v) ==
  LET still(w) == {x \in Users : {<<w, x>>, <<x, w>>} \cap (blocks \ {<<u, v>>}) # {}} IN
  /\ At(q, "new")
  /\ blocks' = blocks \ {<<u, v>>}
  /\ req' = [r \in Requests |->
              IF r = q THEN Idle("done")
              ELSE [req[r] EXCEPT !.shield = @ \cap still(req[r].user)]]
  /\ UNCHANGED <<contacts, known>>

----------------------------------------------------------------------------
(* SearchUsers: the blocks are read, then the users, then the contacts (only *)
(* to flag those found).  The pattern and the page are free.                 *)

BlockedIDs(u) == {v \in Users : <<u, v>> \in blocks} \cup {v \in Users : <<v, u>> \in blocks}

SearchUsers(q, u) ==
  /\ At(q, "new") /\ Begin(q, u, NoUser, NoId, BlockedIDs(u), "find")
  /\ UNCHANGED peopleVars

Find(q) ==
  /\ At(q, "find")
  /\ req' = [req EXCEPT ![q].step = "reply",
                        ![q].touched = Users \ (req[q].hand \cup {req[q].user})]
  /\ UNCHANGED peopleVars

----------------------------------------------------------------------------
ContactsNext ==
  \E q \in Requests :
    \/ AddContact(q)
    \/ \E u, v \in Users : Add(q, u, v) \/ Remove(q, u, v)

BlocksNext ==
  \E q \in Requests :
    \/ Reply(q) \/ AddBlock(q) \/ Find(q)
    \/ \E u \in Users : SearchUsers(q, u)
    \/ \E u, v \in Users : Block(q, u, v) \/ Unblock(q, u, v)

----------------------------------------------------------------------------
(* Properties.                                                              *)

\* A user whom a block, either way, separates from the maker of a request for
\* the whole of that request is not found by its search, not put on a list by
\* it, and not sent anything by it, whatever blocks others make and lift.  One
\* request is excepted: an update of a list asks about no block, and puts back
\* on it whoever it had loaded.
BlockedThroughout ==
  \A q \in Requests :
    req[q].touched \cap req[q].shield \subseteq
      {r.user : r \in {x \in req[q].rows : At(q, "renamed")}}
=============================================================================
