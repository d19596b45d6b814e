--------------------------------- MODULE Proc ---------------------------------
(***************************************************************************)
(* What processes are promised by fork, exit and wait4(-1) (cases SYS_fork,*)
(* SYS_exit and SYS_wait4 of core/cpu/syscall.c), with no scheduler in     *)
(* sight: a process is live, waiting for a child, exited or reaped.        *)
(***************************************************************************)
EXTENDS Naturals

CONSTANTS Process, First

VARIABLES status, parent

procVars == <<status, parent>>

NoParent == 0

Init ==
    /\ status = [p \in Process |-> IF p = First THEN "live" ELSE "none"]
    /\ parent = [p \in Process |-> NoParent]

Exited(p) == {c \in Process : status[c] = "exited" /\ parent[c] = p}

\* Only a live process forks, and the child is a new process.
Fork(p, c) ==
    /\ status[p] = "live" /\ status[c] = "none"
    /\ status' = [status EXCEPT ![c] = "live"]
    /\ parent' = [parent EXCEPT ![c] = p]

Exit(p) ==
    /\ status[p] = "live"
    /\ status' = [status EXCEPT ![p] = "exited"]
    /\ UNCHANGED parent

\* wait4 sleeps only when no child has exited.
Sleep(p) ==
    /\ status[p] = "live" /\ Exited(p) = {}
    /\ status' = [status EXCEPT ![p] = "waiting"]
    /\ UNCHANGED parent

\* wait4 returns by reaping exactly one exited child of the caller.
Reap(p) ==
    /\ status[p] \in {"live", "waiting"}
    /\ \E c \in Exited(p) : status' = [status EXCEPT ![p] = "live", ![c] = "reaped"]
    /\ UNCHANGED parent

Next == \E p \in Process : \/ \E c \in Process : Fork(p, c)
                           \/ Exit(p)
                           \/ Sleep(p)
                           \/ Reap(p)

Spec == Init /\ [][Next]_procVars
==============================================================================
