-------------------------------- MODULE Heap ---------------------------------
(***************************************************************************)
(* The kernel heap, core/memory/heap.c: a first-fit allocator over an      *)
(* arena that grows by chunks, with a singly linked free list that kfree   *)
(* sorts and coalesces.  Calls run one at a time: at boot, or in a system  *)
(* call or an interrupt handler with interrupts off.                       *)
(*                                                                         *)
(* Addresses and sizes are in units of 16 bytes from HEAP_VA_BASE.         *)
(***************************************************************************)
EXTENDS Integers, FiniteSets, Sequences

CONSTANTS HDR_SIZE,    \* size of struct block
          MIN_REST,    \* the least payload worth splitting off
          SUPER,       \* the chunk the heap grows by
          HEAP_MAX,    \* the largest block
          ARR_MAX,     \* slots of kfree's array of free blocks
          Sizes,       \* arguments of kmalloc
          MaxChunks    \* bound: chunks for which there is physical memory

ASSUME HeapAssumption ==
    /\ HDR_SIZE \in Nat \ {0} /\ MIN_REST \in Nat \ {0} /\ SUPER \in Nat \ {0}
    /\ HEAP_MAX \in Nat /\ HEAP_MAX <= SUPER /\ ARR_MAX \in Nat
    /\ Sizes \subseteq Nat /\ MaxChunks \in Nat \ {0}

VARIABLES
    freelist,   \* the free blocks [at, size], in list order
    used,       \* the blocks handed out, [at, size, n] with n the size asked for
    heap_brk,   \* end of the arena
    panicked    \* the kernel halted

heapVars == <<freelist, used, heap_brk, panicked>>

HeapInit ==
    /\ freelist = <<[at |-> 0, size |-> SUPER]>>
    /\ used = {}
    /\ heap_brk = SUPER
    /\ panicked = FALSE

-----------------------------------------------------------------------------
\* The positions of a list at which a block holds need, and the first of them.
Fits(list, need) == {i \in DOMAIN list : list[i].size >= need}
FirstFit(list, need) == CHOOSE i \in Fits(list, need) : \A j \in Fits(list, need) : i <= j

\* A bug: a remainder is split off only when it holds two headers more.
WorthSplittingLate(rest) == rest >= 3 * HDR_SIZE + MIN_REST

WorthSplitting(rest) == rest >= HDR_SIZE + MIN_REST

\* The list once need was cut from the block at position i.
Unlinked(list, i) == [j \in 1 .. Len(list) - 1 |-> IF j < i THEN list[j] ELSE list[j + 1]]

Cut(list, i, need) ==
    IF WorthSplitting(list[i].size - need)
    THEN [list EXCEPT ![i] = [at |-> @.at + need, size |-> @.size - need]]
    ELSE Unlinked(list, i)

Taken(b, need) == IF WorthSplitting(b.size - need) THEN need ELSE b.size

\* kmalloc(n): reject, take from the list, or grow by a chunk and take from it.
Kmalloc(n) ==
    LET need == n + HDR_SIZE
        TakeFrom(list) ==
            LET i == FirstFit(list, need)
            IN /\ freelist' = Cut(list, i, need)
               /\ used' = used \cup
                    {[at |-> list[i].at, size |-> Taken(list[i], need), n |-> n]}
    IN /\ ~panicked
       /\ \/ /\ n = 0 \/ need > HEAP_MAX
             /\ UNCHANGED heapVars
          \/ /\ n # 0 /\ need <= HEAP_MAX
             /\ Fits(freelist, need) # {}
             /\ TakeFrom(freelist)
             /\ UNCHANGED <<heap_brk, panicked>>
          \/ /\ n # 0 /\ need <= HEAP_MAX
             /\ Fits(freelist, need) = {}
             /\ heap_brk < MaxChunks * SUPER
             /\ TakeFrom(<<[at |-> heap_brk, size |-> SUPER]>> \o freelist)
             /\ heap_brk' = heap_brk + SUPER
             /\ UNCHANGED panicked
          \/ /\ n # 0 /\ need <= HEAP_MAX
             /\ Fits(freelist, need) = {}
             /\ heap_brk = MaxChunks * SUPER
             /\ panicked' = TRUE
             /\ UNCHANGED <<freelist, used, heap_brk>>

\* A loop over the blocks of s that starts with the list first.
ForEach(Step(_, _), first, s) ==
    LET after[n \in 0 .. Len(s)] == IF n = 0 THEN first ELSE Step(after[n - 1], s[n])
    IN after[Len(s)]

\* One turn of kfree's insertion sort: b goes behind the last block that does
\* not come after it.
Insert(list, b) ==
    LET n == CHOOSE n \in 0 .. Len(list) :
                 /\ n > 0 => list[n].at <= b.at
                 /\ \A j \in n + 1 .. Len(list) : list[j].at > b.at
    IN [j \in 1 .. Len(list) + 1 |->
           IF j <= n THEN list[j] ELSE IF j = n + 1 THEN b ELSE list[j - 1]]

\* One turn of kfree's merge loop: list is what was rebuilt, b the next block.
EndsAt(list, at) == list # <<>> /\ list[Len(list)].at + list[Len(list)].size = at

\* A bug: the merged block keeps the size of its first part.
MergeLoses(list, b) == IF EndsAt(list, b.at) THEN list ELSE Append(list, b)

\* A bug: blocks of two chunks are kept apart.
MergeWithinChunk(list, b) ==
    IF EndsAt(list, b.at) /\ b.at % SUPER # 0
    THEN [list EXCEPT ![Len(list)].size = @ + b.size]
    ELSE Append(list, b)

Merge(list, b) ==
    IF EndsAt(list, b.at)
    THEN [list EXCEPT ![Len(list)].size = @ + b.size]
    ELSE Append(list, b)

\* kfree of a block that kmalloc handed out.  It collects at most ARR_MAX blocks
\* of the list; with ARR_MAX or more it would also write past its array, so the
\* model is meaningful only where the list stays shorter.
Kfree(b) ==
    LET listed == SubSeq(freelist, 1, IF Len(freelist) < ARR_MAX THEN Len(freelist) ELSE ARR_MAX)
        blocks == Append(listed, [at |-> b.at, size |-> b.size])
        sorted == ForEach(Insert, <<>>, blocks)
    IN /\ ~panicked
       /\ freelist' = ForEach(Merge, <<>>, sorted)
       /\ used' = used \ {b}
       /\ UNCHANGED <<heap_brk, panicked>>

HeapNext == (\E n \in Sizes : Kmalloc(n)) \/ (\E b \in used : Kfree(b))

HeapSpec == HeapInit /\ [][HeapNext]_heapVars

-----------------------------------------------------------------------------
Free == {freelist[i] : i \in DOMAIN freelist}
Span(b) == b.at .. b.at + b.size - 1

\* Types, and what kmalloc panics over otherwise: no block is listed twice
\* (and the list stays within the bound of the model).
HeapTypeOK ==
    /\ \A b \in Free : b.at \in Nat /\ b.size \in Nat \ {0}
    /\ \A b \in used : b.at \in Nat /\ b.size \in Nat \ {0} /\ b.n \in Sizes
    /\ \A i, j \in DOMAIN freelist : freelist[i] = freelist[j] => i = j
    /\ Len(freelist) < ARR_MAX
    /\ heap_brk \in 0 .. MaxChunks * SUPER
    /\ panicked \in BOOLEAN

\* No memory is handed out twice and none is lost: however blocks are split,
\* freed and merged, each unit of the arena is in exactly one block.
BlocksTileArena ==
    \A u \in 0 .. heap_brk - 1 :
        Cardinality({b \in Free : u \in Span(b)}) + Cardinality({b \in used : u \in Span(b)}) = 1

\* A caller has the room it asked for behind the header, and no block is larger
\* by as much as kmalloc would have split off (kmalloc's fit and split tests).
BlocksAreSized ==
    \A b \in used : b.size - b.n - HDR_SIZE \in 0 .. HDR_SIZE + MIN_REST - 1

\* kfree coalesces: when it returns no two free blocks touch, those that kmalloc
\* left side by side by adding a chunk included.
Touching == {p \in Free \X Free : p[1].at + p[1].size = p[2].at}
KfreeCoalesces ==
    [][Cardinality(used') < Cardinality(used) => Touching' = {}]_heapVars
==============================================================================
