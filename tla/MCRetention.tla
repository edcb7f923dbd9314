----------------------------- MODULE MCRetention -----------------------------
(* A user, two messages, timers of one and two units, one stop.               *)
EXTENDS Retention
=============================================================================
