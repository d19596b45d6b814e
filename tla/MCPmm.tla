-------------------------------- MODULE MCPmm --------------------------------
(* The page allocator for TLC: six page frames, a hole in the memory map.         *)
EXTENDS Pmm

MCUsable == {1, 2, 4, 5}
==============================================================================
