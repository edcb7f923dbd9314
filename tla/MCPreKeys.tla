----------------------------- MODULE MCPreKeys -----------------------------
(* Two devices, two key ids, one or two requests of each kind.              *)
EXTENDS PreKeys

CONSTANTS phone, web, o1, o2, q1, q2
=============================================================================
