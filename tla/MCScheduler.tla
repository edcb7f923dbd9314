----------------------------- MODULE MCScheduler -----------------------------
(* Two scheduled messages.                                                   *)
EXTENDS Scheduler

CONSTANTS m1, m2
=============================================================================
