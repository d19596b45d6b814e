------------------------------ MODULE Storage -------------------------------
(***************************************************************************)
(* The way of a program from the disk into memory: module Uixfs, and the   *)
(* pure functions of modules Elf and Lib that execve and kprintf call.     *)
(* Those share no state with the disk, so one call of them, with any       *)
(* arguments, is made before the mount, on a disk that was never written.  *)
(***************************************************************************)
EXTENDS Uixfs, Elf, Lib

VARIABLE args      \* the arguments of the call, <<"none">> when there is none

storageVars == <<uixfsVars, args>>

NoCall == <<"none">>

Calls == {<<"elf_load", s, pages>> : s \in Programs, pages \in 0 .. MaxPages}
         \cup {<<"build_user_stack", pathlen>> : pathlen \in 1 .. MaxPath}
         \cup {<<"kprintf", v>> : v \in U64}

StorageInit ==
    /\ UixfsInit
    /\ \/ args = NoCall
       \/ args \in Calls /\ disk = [s \in Sector |-> Zero]

\* The call comes back; the functions have loops with a bound and wait for nothing.
PureReturns == args # NoCall /\ args' = NoCall /\ UNCHANGED uixfsVars

Otherwise(A) == args = NoCall /\ A /\ UNCHANGED args

StorageNext == PureReturns \/ Otherwise(UixfsNext)

\* The fairness of UixfsSpec, and that a pure function returns.
StorageSpec ==
    /\ StorageInit /\ [][StorageNext]_storageVars
    /\ WF_storageVars(PureReturns)
    /\ WF_storageVars(Otherwise(Caller))
    /\ WF_storageVars(Otherwise(InDriver /\ UNCHANGED <<op, sector, fs>>))
    /\ WF_storageVars(Otherwise(Device /\ UNCHANGED <<op, sector, fs>>))

-----------------------------------------------------------------------------
\* A program starts in the memory its file describes, for segments that begin on
\* a page and share none, with bss, and with a file cut off inside the last page
\* that is copied or right before it; and on a stack with an aligned pointer whose
\* parts do not overlap, however long its path is (elf_load, build_user_stack: "so
\* rsp % 16 == 0 at entry").  A file cut off earlier is not covered: elf_load then
\* computes the size of the copy below zero (len - file_off).
ProgramIsLaidOut ==
    /\ args[1] = "elf_load" /\ Aligned(args[2]) /\ InImage(args[2]) => Loads(args[2], args[3])
    /\ args[1] = "build_user_stack" => StackIsBuilt(args[2])

\* A printed number reads back as the number, the least one included, in every base
\* in which its digits fit tmp; it has no superfluous zero, and %u, %x and %d fill
\* their field and hold nothing else, a negative %d filling one column less
\* ("sign occupies a pad slot"; uix_utoa, uix_itoa, kvprintf).
NumbersReadBack == args[1] = "kprintf" => ReadsBack(args[2])

\* "clear, then copy the file part covering this page" (elf.c:45), also when the
\* segment begins within the page.
FilePartIsCopied == args[1] = "elf_load" /\ InImage(args[2]) => Loads(args[2], args[3])
=============================================================================
