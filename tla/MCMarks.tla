------------------------------- MODULE MCMarks -------------------------------
(* Two users and one key; receipts are for one or two messages.               *)
EXTENDS Marks

CONSTANTS k1, k2

MCKeyLists == [t \in Tables |-> IF t = "receipt" THEN {<<k1>>, <<k1, k2>>, <<k2, k1>>}
                                ELSE {<<k1>>}]
=============================================================================
