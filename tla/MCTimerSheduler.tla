-------------------------- MODULE MCTimerSheduler --------------------------
(* Instances of TimerSheduler for TLC. *)
EXTENDS TimerSheduler

CONSTANTS x1, x2
=============================================================================
