------------------------------ MODULE MCGroups ------------------------------
(* A group of three users and three requests at a time; the requests are    *)
(* interchangeable, and so are the two users who are not the creator.       *)
EXTENDS Groups, TLC

CONSTANTS ann, bob, cat, q1, q2, q3

Symmetry == Permutations({q1, q2, q3}) \cup Permutations({bob, cat})
=============================================================================
