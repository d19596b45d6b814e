------------------------------- MODULE Limine --------------------------------
(***************************************************************************)
(* The host tool limine: main dispatches to one of its commands, and only  *)
(* bios-install and enroll-config change anything.  The command that does  *)
(* not run stays at its end.                                               *)
(***************************************************************************)
EXTENDS Install, Enroll

VARIABLE cmd

limineVars == <<cmd, installVars, enrollVars>>

NoInstall ==
    /\ ph = "end" /\ exit = "none" /\ undone = FALSE
    /\ arg = <<>> /\ gpt = NoGpt /\ stage2_loc = 0
    /\ conv = [on |-> FALSE, es |-> <<>>]
    /\ file = [ok |-> FALSE, data |-> <<>>]
    /\ orig = [c \in 0 .. Cells - 1 |-> <<"zero">>]
    /\ dev = NewDevice(orig, Sound)

NoEnroll ==
    /\ step = "done" /\ ret = "none" /\ opt = <<>>
    /\ bin = <<>> /\ was = <<>>
    /\ i = 0 /\ checked_count = 0 /\ checksum_loc = -1

LimineInit ==
    \/ cmd = "bios-install" /\ InstallInit /\ NoEnroll
    \/ cmd = "enroll-config" /\ EnrollInit /\ NoInstall

LimineNext ==
    \/ InstallNext /\ UNCHANGED <<cmd, enrollVars>>
    \/ EnrollNext /\ UNCHANGED <<cmd, installVars>>

LimineSpec == LimineInit /\ [][LimineNext]_limineVars
==============================================================================
