---------------------------- MODULE MCTimerList ----------------------------
(***************************************************************************)
(* Instances of TimerList for TLC: the tick count rolls over after a few    *)
(* milliseconds instead of 49 days.                                        *)
(***************************************************************************)
EXTENDS TimerList

CONSTANTS t1, t2
=============================================================================
