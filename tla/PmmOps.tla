--------------------------------- MODULE PmmOps --------------------------------
(***************************************************************************)
(* The physical page allocator, core/memory/pmm.c: a bitmap of free pages, *)
(* an allocation cursor, a count of free pages, and the array of page      *)
(* reference counts that the first pmm_ref allocates.                      *)
(*                                                                         *)
(* The allocator's state is one record, and every function is an operator  *)
(* from that record to the next, so that the handlers of module Vmm can    *)
(* call several of them in a row; module Pmm is the allocator by itself.   *)
(* Physical address 0 is the failure value and page 0 is never usable.     *)
(***************************************************************************)
EXTENDS Integers, FiniteSetsExt

CONSTANTS TotalPages,   \* total_pages, which is also bitmap_len
          Usable,       \* pages the boot memory map reports free, bitmap taken off
          RefPages,     \* pages of the reference count array
          RefMax        \* 0xFFFF: a reference count does not go above it

ASSUME PmmAssumption ==
    /\ TotalPages \in Nat \ {0}
    /\ Usable \subseteq 1 .. TotalPages - 1
    /\ RefPages \in Nat \ {0}
    /\ RefMax \in Nat \ {0}

Page == 0 .. TotalPages - 1
NoPage == 0

\* The allocator's state.
PmmType ==
    [free : SUBSET Page,            \* the set bits of bitmap
     scan : Page,                   \* next_free_scan
     count : Int,                   \* free_count
     refs : [Page -> 0 .. RefMax],  \* refcounts
     grown : BOOLEAN,               \* refcounts # NULL
     panic : BOOLEAN]               \* pmm_free stopped the machine

\* What pmm_init leaves.
PmmBoot ==
    [free |-> Usable, scan |-> 0, count |-> Cardinality(Usable),
     refs |-> [i \in Page |-> 0], grown |-> FALSE, panic |-> FALSE]

-----------------------------------------------------------------------------
\* A bug: the scan stops at the end of the bitmap.
OffsetsNoWrap(p) == {n \in Page : p.scan + n \in p.free}

\* pmm_alloc: the first free page from the cursor on, around the bitmap.
Offsets(p) == {n \in Page : (p.scan + n) % TotalPages \in p.free}

PmmAllocated(p) == IF Offsets(p) = {} THEN NoPage
                   ELSE (p.scan + Min(Offsets(p))) % TotalPages

\* A bug: the bit is not cleared.
AfterAllocKeepsBit(p) ==
    IF Offsets(p) = {} THEN p ELSE [p EXCEPT !.scan = (PmmAllocated(p) + 1) % TotalPages]

AfterAlloc(p) ==
    LET i == PmmAllocated(p)
    IN IF Offsets(p) = {} THEN p
       ELSE [p EXCEPT !.free = @ \ {i}, !.scan = (i + 1) % TotalPages, !.count = @ - 1]

\* A bug: a used page does not restart the run.
RunNoReset(p) ==
    LET run[i \in Page] == IF i = 0 THEN 0
                           ELSE run[i - 1] + IF i \in p.free THEN 1 ELSE 0
    IN run

\* pmm_alloc_pages: "run" of the scan after it has looked at page i, and the
\* page at which it stops.
Run(p) ==
    LET run[i \in Page] == IF i \notin p.free THEN 0
                           ELSE IF i = 0 THEN 1 ELSE run[i - 1] + 1
    IN run

Stops(p, n) == {i \in p.free : Run(p)[i] = n}

PmmAllocatedPages(p, n) == IF Stops(p, n) = {} THEN NoPage ELSE Min(Stops(p, n)) - n + 1

\* A bug: the count goes down by one, whatever n is.
AfterAllocPagesByOne(p, n) ==
    LET i == Min(Stops(p, n))
    IN IF Stops(p, n) = {} THEN p
       ELSE [p EXCEPT !.free = @ \ (i - n + 1 .. i), !.scan = (i + 1) % TotalPages,
                      !.count = @ - 1]

AfterAllocPages(p, n) ==
    LET i == Min(Stops(p, n))
    IN IF Stops(p, n) = {} THEN p
       ELSE [p EXCEPT !.free = @ \ (i - n + 1 .. i), !.scan = (i + 1) % TotalPages,
                      !.count = @ - n]

\* pmm_free, which panics on a page that is free or out of range.
AfterFree(p, i) ==
    IF i \notin Page \ p.free THEN [p EXCEPT !.panic = TRUE]
    ELSE [p EXCEPT !.free = @ \cup {i}, !.count = @ + 1]

\* refcounts_grow: the result of pmm_alloc_pages is not looked at.
AfterGrow(p) == IF p.grown THEN p ELSE [AfterAllocPages(p, RefPages) EXCEPT !.grown = TRUE]

\* pmm_ref: a page starts at 0; the count stays at RefMax.
AfterRef(p, i) ==
    IF i \notin Page THEN p
    ELSE [AfterGrow(p) EXCEPT !.refs[i] = IF @ < RefMax THEN @ + 1 ELSE @]

\* A bug: off by one, a page with two more references is freed.
AfterUnrefEarly(p, i) ==
    IF i \notin Page \/ ~p.grown THEN p
    ELSE IF p.refs[i] > 2 THEN [p EXCEPT !.refs[i] = @ - 1]
    ELSE AfterFree([p EXCEPT !.refs[i] = 0], i)

\* pmm_unref: nothing happens before the array exists.
AfterUnref(p, i) ==
    IF i \notin Page \/ ~p.grown THEN p
    ELSE IF p.refs[i] > 1 THEN [p EXCEPT !.refs[i] = @ - 1]
    ELSE AfterFree([p EXCEPT !.refs[i] = 0], i)

PmmGetref(p, i) == IF i \notin Page \/ ~p.grown THEN 1 ELSE p.refs[i]
==============================================================================
