----------------------------- MODULE MCMessages -----------------------------
(* One sender, one or two recipients; model values for everything.          *)
EXTENDS Messages

CONSTANTS m1, m2, bob, cat, old, ws, http
=============================================================================
