---------------------------- MODULE MCTimerQueue ----------------------------
(* One timer of each kind, and a thread beside the one that is ending.       *)
EXTENDS TimerQueue
=============================================================================
