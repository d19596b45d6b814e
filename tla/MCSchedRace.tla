----------------------------- MODULE MCSchedRace -----------------------------
(* Instances of SchedRace for TLC; the constants are given in the cfg files. *)
EXTENDS SchedRace
==============================================================================
