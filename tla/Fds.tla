--------------------------------- MODULE Fds ---------------------------------
(***************************************************************************)
(* File descriptors: the table in each process (task.c), the stdio set up  *)
(* for the first process (user.c), its copy at fork (fork.c) and the       *)
(* system calls open and close (syscall.c).  Each call runs with           *)
(* interrupts off.                                                         *)
(***************************************************************************)
EXTENDS Integers

CONSTANTS Proc,            \* processes, by pid
          FirstProc,       \* the process made by user_create
          PROC_MAX_FDS,    \* slots of a table
          Path             \* paths open is called with; "console" is /dev/console

ASSUME FdsAssumption ==
    Proc \subseteq Nat /\ FirstProc \in Proc /\ PROC_MAX_FDS \in Nat \ {0, 1, 2}

EBADF == -9
ENOENT == -2
EMFILE == -24

FdSlot == 0 .. PROC_MAX_FDS - 1
FdArg == -1 .. PROC_MAX_FDS           \* what a program may pass
FdType == {"none", "in", "out"}

VARIABLES fds,     \* the tables
          alive,   \* the processes made so far
          ret      \* what the last open, close or fork returned

fdVars == <<fds, alive, ret>>

\* Types; an open slot has a type, so that proc_fd_type tells it from a free one.
FdsTypeOK ==
    /\ fds \in [Proc -> [FdSlot -> [type : FdType, in_use : BOOLEAN]]]
    /\ \A p \in Proc, k \in FdSlot : fds[p][k].in_use => fds[p][k].type # "none"
    /\ alive \subseteq Proc
    /\ ret \in Int

Closed == [type |-> "none", in_use |-> FALSE]
InUse(type) == [type |-> type, in_use |-> TRUE]

\* Tables are zeroed memory; user_create opens 0, 1 and 2.
FdsInit ==
    /\ fds = [p \in Proc |-> [k \in FdSlot |->
                IF p # FirstProc \/ k > 2 THEN Closed
                ELSE InUse(IF k = 0 THEN "in" ELSE "out")]]
    /\ alive = {FirstProc}
    /\ ret = 0

-----------------------------------------------------------------------------
\* proc_fd_type: the type of a descriptor, "none" when it is not open.
TypeOf(p, fd) == IF fd \in FdSlot /\ fds[p][fd].in_use THEN fds[p][fd].type ELSE "none"

\* The free slots, of which proc_fd_alloc takes the lowest.
\* A bug: the last slot is never looked at.
FreeSlotsButLast(p) == {k \in FdSlot \ {PROC_MAX_FDS - 1} : ~fds[p][k].in_use}

FreeSlots(p) == {k \in FdSlot : ~fds[p][k].in_use}

\* SYS_open.
Open(p, path) ==
    /\ \/ /\ path # "console"
          /\ ret' = ENOENT
          /\ UNCHANGED fds
       \/ /\ path = "console" /\ FreeSlots(p) = {}
          /\ ret' = EMFILE
          /\ UNCHANGED fds
       \/ /\ path = "console"
          /\ \E k \in FreeSlots(p) :
                /\ \A o \in FreeSlots(p) : k <= o
                /\ fds' = [fds EXCEPT ![p][k] = InUse("in")]
                /\ ret' = k
    /\ UNCHANGED alive

\* SYS_close.
Close(p, fd) ==
    /\ \/ /\ TypeOf(p, fd) = "none"
          /\ ret' = EBADF
          /\ UNCHANGED fds
       \/ /\ TypeOf(p, fd) # "none"
          /\ fds' = [fds EXCEPT ![p][fd].in_use = FALSE]
          /\ ret' = 0
    /\ UNCHANGED alive

\* The table that do_fork makes.
\* A bug: the child gets a table of free slots.
ForkTableEmpty(p, c) == [fds EXCEPT ![c] = [k \in FdSlot |-> Closed]]

ForkTable(p, c) == [fds EXCEPT ![c] = fds[p]]

\* SYS_fork.
Fork(p, c) ==
    /\ c \in Proc \ alive
    /\ alive' = alive \cup {c}
    /\ fds' = ForkTable(p, c)
    /\ ret' = c

-----------------------------------------------------------------------------
Opened(p) == {k \in FdSlot : fds[p][k].in_use}

\* A descriptor keeps its meaning until its own process closes it, whatever the
\* others do and however full the tables are; open says EMFILE only when every
\* slot is taken; a child starts with what a live process had open
\* (proc_fd_alloc, proc_fd_free, do_fork).
DescriptorsAreStable ==
    [][/\ \A p \in alive : \A k \in Opened(p) : fds'[p][k] = fds[p][k] \/ Close(p, k)
       /\ ret' = EMFILE /\ ret # EMFILE => \E p \in alive : Opened(p) = FdSlot
       /\ \A c \in alive' \ alive : \E p \in alive : \A fd \in FdArg :
             TypeOf(c, fd)' = TypeOf(p, fd)]_fdVars
==============================================================================
