------------------------------ MODULE MCSocial ------------------------------
(* Three users and three interchangeable requests; ann owns a list and a story. *)
EXTENDS Social, TLC

CONSTANTS ann, bob, cat, q1, q2, q3

MCContacts   == {{<<ann, bob>>, <<cat, ann>>}}
MCBlocks     == {{}, {<<bob, ann>>}}
MCRecipients == {{bob, cat}}

Symmetry == Permutations(Requests)
=============================================================================
