------------------------------- MODULE MCHub -------------------------------
(* Two users; the first one dials twice, the second has the first as a      *)
(* contact.                                                                 *)
EXTENDS Hub, TLC

CONSTANTS ann, bob, a1, a2, b1, http, bot

MCUserOf == [c \in Conns |-> IF c = b1 THEN bob ELSE ann]
MCWatchers == [u \in Users |-> IF u = ann THEN {bob} ELSE {}]

Typing(u) == [to |-> {u}, own |-> 0]   \* sends to u and nothing back
Refused   == [to |-> {}, own |-> 1]    \* an error frame back
Message   == [to |-> {bob}, own |-> 1] \* sends and acknowledges

MCTyping  == {Typing(ann), Refused}
MCMessage == {Message, Refused}

\* The connections of one user are interchangeable.
Symmetry == Permutations({a1, a2})
=============================================================================
