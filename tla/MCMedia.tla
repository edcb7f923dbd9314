------------------------------ MODULE MCMedia ------------------------------
(* One upload and up to two reviewers.                                      *)
EXTENDS Media
CONSTANTS r1, r2
=============================================================================
