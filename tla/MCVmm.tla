-------------------------------- MODULE MCVmm --------------------------------
(* Instances of Vmm for TLC: a small memory of which every page but page 0    *)
(* is usable, and one or two stack pages.                                     *)
EXTENDS Vmm

AllUsable == 1 .. TotalPages - 1
OneStackPage == <<"stk1">>
TwoStackPages == <<"stk1", "stk2">>
==============================================================================
