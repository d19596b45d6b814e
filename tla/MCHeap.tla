------------------------------- MODULE MCHeap --------------------------------
(***************************************************************************)
(* Heap with two or three chunks of a few units: blocks that fit exactly,  *)
(* blocks with a remainder too small to split, and growth.                 *)
(***************************************************************************)
EXTENDS Heap
==============================================================================
