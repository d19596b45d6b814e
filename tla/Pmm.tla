--------------------------------- MODULE Pmm ---------------------------------
(***************************************************************************)
(* The page allocator by itself: any sequence of calls of the functions of *)
(* core/memory/pmm.c (module PmmOps), on any page but 0, which no          *)
(* successful call returns, and on TotalPages, which is out of range.      *)
(***************************************************************************)
EXTENDS PmmOps

VARIABLES pmm,  \* the allocator's state
          ret   \* the pages the last call gave to its caller

pmmVars == <<pmm, ret>>

PmmTypeOK == pmm \in PmmType /\ ret \in SUBSET Page

PmmInit == pmm = PmmBoot /\ ret = {}

Alloc ==
    /\ pmm' = AfterAlloc(pmm)
    /\ ret' = {PmmAllocated(pmm)} \ {NoPage}

AllocPages(n) ==
    LET first == PmmAllocatedPages(pmm, n)
    IN /\ pmm' = AfterAllocPages(pmm, n)
       /\ ret' = IF first = NoPage THEN {} ELSE first .. first + n - 1

Free(i) == pmm' = AfterFree(pmm, i) /\ ret' = {}
Ref(i) == pmm' = AfterRef(pmm, i) /\ ret' = {}
Unref(i) == pmm' = AfterUnref(pmm, i) /\ ret' = {}

PmmNext ==
    /\ ~pmm.panic
    /\ \/ Alloc
       \/ \E n \in 0 .. TotalPages : AllocPages(n)
       \/ \E i \in 1 .. TotalPages : Free(i) \/ Ref(i) \/ Unref(i)

PmmSpec == PmmInit /\ [][PmmNext]_pmmVars

-----------------------------------------------------------------------------
\* free_count is the number of free bits after any sequence of calls, the
\* refused frees and failed allocations included.
CountIsExact == pmm.count = Cardinality(pmm.free)

\* pmm_alloc fails only when no page is free: the scan from the cursor goes all
\* the way round.
AllocFindsFree == PmmAllocated(pmm) = NoPage => pmm.free = {}

\* The run counting of pmm_alloc_pages finds a run of n free pages exactly when
\* there is one, and the lowest one.
RunStarts(n) == {f \in Page : f + n <= TotalPages /\ f .. f + n - 1 \subseteq pmm.free}

AllocPagesFirstFit ==
    \A n \in 1 .. TotalPages :
        PmmAllocatedPages(pmm, n) = IF RunStarts(n) = {} THEN NoPage ELSE Min(RunStarts(n))

PmmAbs == INSTANCE PageAlloc WITH Pages <- Page, used <- Page \ pmm.free, got <- ret,
                                  Reserved <- Page \ Usable

\* What a caller gets from pmm_alloc and pmm_alloc_pages is exactly what the
\* bitmap then says is in use, and nobody had it; a page comes back only by a
\* pmm_free or the last pmm_unref of one that was in use.
ImplementsPageAlloc == PmmAbs!Spec
==============================================================================
