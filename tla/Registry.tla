------------------------------ MODULE Registry ------------------------------
(***************************************************************************)
(* What callers rely on from the hub, without goroutines or channels: each  *)
(* user has at most one session, a session belongs to a connection of that  *)
(* user, and a connection that has lost its session never gets one again.   *)
(***************************************************************************)
CONSTANTS Users, Conns, NoConn, UserOf

VARIABLES session,  \* user -> the connection that serves the user, or NoConn
          ended     \* connections that can serve no more

vars == <<session, ended>>

Init == session = [u \in Users |-> NoConn] /\ ended = {}

\* A new connection takes the slot; the one it displaces has ended.
Connect(c) ==
  /\ c \notin ended /\ session[UserOf[c]] # c
  /\ session' = [session EXCEPT ![UserOf[c]] = c]
  /\ ended' = ended \cup ({session[UserOf[c]]} \ {NoConn})

Disconnect(c) ==
  /\ session[UserOf[c]] = c
  /\ session' = [session EXCEPT ![UserOf[c]] = NoConn]
  /\ ended' = ended \cup {c}

\* The process restarts: every session ends at once, accepted or not.
LoseAll ==
  /\ session' = [u \in Users |-> NoConn]
  /\ ended' \in SUBSET Conns
  /\ ended \cup {c \in Conns : session[UserOf[c]] = c} \subseteq ended'

Next == (\E c \in Conns : Connect(c) \/ Disconnect(c)) \/ LoseAll

Spec == Init /\ [][Next]_vars
=============================================================================
