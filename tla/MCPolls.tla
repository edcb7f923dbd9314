------------------------------ MODULE MCPolls ------------------------------
(* The creator, another member and a user without access make three         *)
(* interchangeable requests on a poll of two interchangeable options.       *)
EXTENDS Polls, TLC

CONSTANTS ann, bob, cat, q1, q2, q3, o1, o2

Symmetry == Permutations({q1, q2, q3}) \cup Permutations({o1, o2})
=============================================================================
