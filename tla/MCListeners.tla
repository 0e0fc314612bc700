----------------------------- MODULE MCListeners -----------------------------
(* Listeners for TLC: the timers in the order of their lengths, 10, 15, 15,  *)
(* 16 and 25 seconds, few ticks each.                                        *)
EXTENDS Listeners
===============================================================================
