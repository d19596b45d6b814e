------------------------------- MODULE MCSched -------------------------------
(* Instances of Sched for TLC; the constants are given in the cfg files.     *)
EXTENDS Sched
==============================================================================
