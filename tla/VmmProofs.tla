------------------------------- MODULE VmmProofs -------------------------------
(***************************************************************************)
(* The page allocator, for any size of memory, any boot memory map and any *)
(* size of the reference count array: what its functions return and        *)
(* preserve; and so its count is exact, a free page is found, runs are     *)
(* found first fit, and it implements module PageAlloc.                    *)
(*                                                                         *)
(* Then address spaces, for every number of pages and stack pages.         *)
(* free_user_tables gives a page that two processes share back too early,  *)
(* so nothing holds of processes that both fork and call execve.  Here one *)
(* process calls execve (Process = {1}), as in the run vmm_exec; module    *)
(* ForkProofs has processes that fork.  Nothing is ever counted here, so   *)
(* pmm_unref never frees: ExecInv says that the page tables, the file      *)
(* buffer and the leaves are pages of their own, off the free list, and    *)
(* that every entry is writable.                                           *)
(*                                                                         *)
(* A handler is a chain of operators on the record k: a lemma per operator *)
(* says what it makes of k, a lemma per loop goes over its turns.          *)
(***************************************************************************)
EXTENDS Pmm, Vmm, FiniteSetTheorems, WellFoundedInduction, TLAPS

-----------------------------------------------------------------------------
(* The page allocator.                                                      *)

\* What every state of the allocator satisfies: the fields have their types,
\* page 0 is never free, and free_count is the number of free pages.
PmmSound(p) ==
    /\ p \in PmmType
    /\ NoPage \notin p.free
    /\ p.count = Cardinality(p.free)

-----------------------------------------------------------------------------
(* Arithmetic.                                                              *)

\* A nonempty set of page numbers has a least one, so Min is what its name says.
LEMMA MinFacts ==
    ASSUME NEW n \in Nat, NEW S \in SUBSET (0 .. n), S # {}
    PROVE  Min(S) \in S /\ \A y \in S : Min(S) <= y
<1> DEFINE R == StrictSubsetOrdering(0 .. n)
           F == FiniteSubsetsOf(0 .. n)
           T == {0 .. z : z \in S}
<1>1. IsWellFoundedOn(R, F)
  <2>1. IsFiniteSet(0 .. n)
    BY FS_Interval
  <2> QED BY ZenonT(30), <2>1, FS_StrictSubsetOrderingWellFounded
<1>2. T \subseteq F /\ T # {}
  <2>1. \A z \in S : 0 .. z \in SUBSET (0 .. n) /\ IsFiniteSet(0 .. z)
    BY FS_Interval
  <2> QED BY Zenon, <2>1 DEF FiniteSubsetsOf
<1>3. PICK x \in T : \A y \in T : ~(<<y, x>> \in R)
  <2> HIDE DEF R, F, T
  <2> QED BY ZenonT(30), <1>1, <1>2, WFMin
<1>4. PICK z \in S : x = 0 .. z
  BY <1>3
<1>5. ASSUME NEW y \in S, ~(z <= y) PROVE FALSE
  <2>1. 0 .. y \subseteq 0 .. z /\ z \in 0 .. z /\ z \notin 0 .. y /\ 0 .. z \subseteq 0 .. n
    BY <1>5
  <2>2. <<0 .. y, 0 .. z>> \in R
    BY ZenonT(30), <2>1 DEF StrictSubsetOrdering
  <2> QED BY Zenon, <1>3, <1>4, <2>2
<1> QED BY Zenon, <1>5 DEF Min

\* Stepping round the bitmap.
LEMMA ModFacts ==
    ASSUME NEW a \in Page, NEW b \in 0 .. TotalPages
    PROVE  /\ (a + b) % TotalPages \in Page
           /\ (a + b) % TotalPages = IF a + b < TotalPages THEN a + b ELSE a + b - TotalPages
<1> DEFINE T == TotalPages
<1>1. T \in Nat \ {0} /\ a \in 0 .. T - 1 /\ b \in 0 .. T
  BY ZenonT(30), PmmAssumption DEF Page
<1> HIDE DEF T
<1>2. (a + b) % T \in 0 .. T - 1
  BY <1>1
<1>3. a + b < T => (a + b) % T = a + b
  BY <1>1
<1>4. a + b >= T => (a + b) % T = a + b - T
  BY <1>1
<1> QED BY <1>1, <1>2, <1>3, <1>4 DEF T, Page

-----------------------------------------------------------------------------
(* pmm_alloc.                                                               *)

\* The scan from the cursor comes to every free page, so it fails only when
\* there is none, and what it returns is free.
LEMMA AllocFacts ==
    ASSUME NEW p, PmmSound(p)
    PROVE  /\ Offsets(p) = {} <=> p.free = {}
           /\ Offsets(p) = {} => PmmAllocated(p) = NoPage
           /\ Offsets(p) # {} => PmmAllocated(p) \in p.free
<1>1. p.scan \in Page /\ p.free \subseteq Page
  BY DEF PmmSound, PmmType
<1>2. Offsets(p) \in SUBSET (0 .. TotalPages - 1) /\ TotalPages - 1 \in Nat
  BY PmmAssumption DEF Offsets, Page
<1>3. ASSUME NEW f \in p.free PROVE Offsets(p) # {}
  <2> DEFINE n == IF f >= p.scan THEN f - p.scan ELSE f - p.scan + TotalPages
  <2>1. n \in Page /\ f \in Page
    BY <1>1, PmmAssumption DEF Page
  <2>2. n \in 0 .. TotalPages
    BY <2>1, PmmAssumption DEF Page
  <2>3. (p.scan + n) % TotalPages = IF p.scan + n < TotalPages THEN p.scan + n
                                    ELSE p.scan + n - TotalPages
    BY <1>1, <2>2, ModFacts, Zenon
  <2>4. (p.scan + n) % TotalPages = f
    BY <1>1, <2>1, <2>3, PmmAssumption DEF Page
  <2> QED BY ZenonT(30), <2>1, <2>4 DEF Offsets
<1>4. Offsets(p) # {} => PmmAllocated(p) \in p.free
  <2> SUFFICES ASSUME Offsets(p) # {} PROVE PmmAllocated(p) \in p.free
    OBVIOUS
  <2>1. Min(Offsets(p)) \in Offsets(p)
    BY Zenon, <1>2, MinFacts
  <2> QED BY Zenon, <2>1 DEF PmmAllocated, Offsets
<1>5. Offsets(p) # {} => p.free # {}
  BY DEF Offsets
<1> QED BY ZenonT(30), <1>3, <1>4, <1>5 DEF PmmAllocated

\* Taking a page away from the free ones, or putting one back, keeps the count.
LEMMA CountFacts ==
    ASSUME NEW S \in SUBSET Page
    PROVE  /\ IsFiniteSet(S) /\ Cardinality(S) \in Nat
           /\ \A i \in S : Cardinality(S \ {i}) = Cardinality(S) - 1
           /\ \A i : i \notin S => Cardinality(S \cup {i}) = Cardinality(S) + 1
           /\ \A a, b \in Int : a <= b + 1 /\ a .. b \subseteq S
                 => Cardinality(S \ (a .. b)) = Cardinality(S) - (b - a + 1)
<1>1. IsFiniteSet(S) /\ Cardinality(S) \in Nat
  <2>1. IsFiniteSet(Page)
    BY FS_Interval, PmmAssumption DEF Page
  <2> QED BY ZenonT(30), <2>1, FS_Subset, FS_CardinalityType
<1>2. \A i \in S : Cardinality(S \ {i}) = Cardinality(S) - 1
  BY Zenon, <1>1, FS_RemoveElement
<1>3. \A i : i \notin S => Cardinality(S \cup {i}) = Cardinality(S) + 1
  BY ZenonT(30), <1>1, FS_AddElement
<1>4. ASSUME NEW a \in Int, NEW b \in Int, a <= b + 1, a .. b \subseteq S
      PROVE  Cardinality(S \ (a .. b)) = Cardinality(S) - (b - a + 1)
  <2>1. Cardinality(a .. b) = b - a + 1
    BY <1>4, FS_Interval
  <2>2. Cardinality(S \ (a .. b)) = Cardinality(S) - Cardinality(S \cap (a .. b))
    BY Zenon, <1>1, FS_Difference
  <2>3. S \cap (a .. b) = a .. b
    BY ZenonT(30), <1>4
  <2> QED BY Zenon, <2>1, <2>2, <2>3
<1> QED BY Zenon, <1>1, <1>2, <1>3, <1>4

\* pmm_alloc keeps the allocator sound, and takes just the page it returns.
LEMMA AfterAllocFacts ==
    ASSUME NEW p, PmmSound(p)
    PROVE  /\ PmmSound(AfterAlloc(p))
           /\ AfterAlloc(p).free = p.free \ {PmmAllocated(p)}
           /\ AfterAlloc(p).refs = p.refs
           /\ AfterAlloc(p).grown = p.grown
           /\ AfterAlloc(p).panic = p.panic
<1>1. CASE Offsets(p) = {}
  BY ZenonT(30), <1>1, AllocFacts DEF AfterAlloc
<1>2. CASE Offsets(p) # {}
  <2> DEFINE i == PmmAllocated(p)
             F == p.free \ {i}
             s == (i + 1) % TotalPages
             c == p.count - 1
             q == [p EXCEPT !.free = F, !.scan = s, !.count = c]
  <2>1. i \in p.free /\ i \in Page
    BY ZenonT(30), <1>2, AllocFacts DEF PmmSound, PmmType
  <2>2. s \in Page
    <3>1. 1 \in 0 .. TotalPages
      BY PmmAssumption
    <3> QED BY <2>1, <3>1, ModFacts, Zenon
  <2>3. AfterAlloc(p) = q
    BY ZenonT(30), <1>2 DEF AfterAlloc
  <2>4. p \in PmmType /\ NoPage \notin p.free /\ F \in SUBSET Page /\ c \in Int
    BY DEF PmmSound, PmmType
  <2>5. c = Cardinality(F)
    BY <2>1, CountFacts DEF PmmSound, PmmType
  <2>6. F = p.free \ {i} /\ NoPage \notin F
    BY <2>4
  <2> HIDE DEF i, F, s, c
  <2>7. /\ q \in PmmType /\ q.free = F /\ q.count = c
        /\ q.refs = p.refs /\ q.grown = p.grown /\ q.panic = p.panic
    BY Zenon, <2>2, <2>4 DEF PmmType
  <2> QED BY ZenonT(30), <2>3, <2>5, <2>6, <2>7 DEF PmmSound, i
<1> QED BY ZenonT(30), <1>1, <1>2

-----------------------------------------------------------------------------
(* pmm_alloc_pages.                                                         *)

\* The used page nearest below page i, or i itself: page 0 is always used.
LastUsed(p, i) == CHOOSE l \in 0 .. i : l \notin p.free /\ l + 1 .. i \subseteq p.free

\* There is exactly one such page.
LEMMA LastUsedFacts ==
    ASSUME NEW p, PmmSound(p), NEW i \in Page
    PROVE  /\ LastUsed(p, i) \in 0 .. i
           /\ LastUsed(p, i) \notin p.free
           /\ LastUsed(p, i) + 1 .. i \subseteq p.free
           /\ \A l \in 0 .. i : l \notin p.free /\ l + 1 .. i \subseteq p.free
                 => l = LastUsed(p, i)
<1> DEFINE S == {d \in 0 .. i : i - d \notin p.free}
           m == i - Min(S)
<1>1. i \in Nat
  BY PmmAssumption DEF Page
<1>2. i \in S
  BY <1>1 DEF PmmSound, NoPage
<1>3. Min(S) \in S /\ \A d \in S : Min(S) <= d
  <2>1. S \in SUBSET (0 .. i) /\ S # {}
    BY ZenonT(30), <1>2
  <2> HIDE DEF S
  <2> QED BY <1>1, <2>1, MinFacts, Zenon
<1>4. m \in 0 .. i /\ m \notin p.free
  BY <1>1, <1>3
<1>5. ASSUME NEW j \in m + 1 .. i PROVE j \in p.free
  <2>1. i - j \in 0 .. i /\ i - (i - j) = j /\ i - j < Min(S) /\ Min(S) \in Int
    BY <1>1, <1>3, <1>4
  <2> QED BY <1>3, <2>1
<1> HIDE DEF m
<1>6. LastUsed(p, i) \in 0 .. i /\ LastUsed(p, i) \notin p.free
      /\ LastUsed(p, i) + 1 .. i \subseteq p.free
  BY ZenonT(30), <1>4, <1>5 DEF LastUsed
<1>7. ASSUME NEW l \in 0 .. i, l \notin p.free, l + 1 .. i \subseteq p.free
      PROVE  l = LastUsed(p, i)
  <2> DEFINE k == LastUsed(p, i)
  <2> HIDE DEF k
  <2>1. k \in 0 .. i /\ k \notin p.free /\ k + 1 .. i \subseteq p.free
    BY ZenonT(30), <1>6 DEF k
  <2>2. l < k => k \in p.free
    BY <1>1, <1>7, <2>1
  <2>3. k < l => l \in p.free
    BY <1>1, <1>7, <2>1
  <2> QED BY <1>1, <1>7, <2>1, <2>2, <2>3 DEF k
<1> QED BY ZenonT(30), <1>6, <1>7

\* The counter of the scan is the distance to the nearest used page below.
LEMMA RunFacts ==
    ASSUME NEW p, PmmSound(p)
    PROVE  \A i \in Page : Run(p)[i] = i - LastUsed(p, i)
<1> DEFINE L(i) == LastUsed(p, i)
           W == [i \in Page |-> i - L(i)]
           Step(r) == [i \in Page |-> IF i \notin p.free THEN 0
                                      ELSE IF i = 0 THEN 1 ELSE r[i - 1] + 1]
<1>1. ASSUME NEW i \in Page
      PROVE  /\ L(i) \in 0 .. i
             /\ i \notin p.free => L(i) = i
             /\ i \in p.free => i - 1 \in Page /\ i # 0 /\ L(i) = L(i - 1)
  <2>1. L(i) \in 0 .. i /\ i \in Nat
    BY LastUsedFacts DEF Page
  <2>2. i \notin p.free => L(i) = i
    <3>1. i + 1 .. i = {} /\ i \in 0 .. i
      BY <2>1
    <3> QED BY ZenonT(30), <3>1, LastUsedFacts
  <2>3. ASSUME i \in p.free PROVE i - 1 \in Page /\ i # 0 /\ L(i) = L(i - 1)
    <3>1. i # 0 /\ i - 1 \in Page
      BY <2>1, <2>3, PmmAssumption DEF PmmSound, NoPage, Page
    <3>2. L(i - 1) \in 0 .. i - 1 /\ L(i - 1) \notin p.free /\ L(i - 1) + 1 .. i - 1 \subseteq p.free
      BY ZenonT(30), <3>1, LastUsedFacts
    <3>3. L(i - 1) \in 0 .. i /\ L(i - 1) + 1 .. i \subseteq p.free
      BY <2>1, <2>3, <3>2
    <3> QED BY ZenonT(30), <3>1, <3>2, <3>3, LastUsedFacts
  <2> QED BY ZenonT(30), <2>1, <2>2, <2>3
<1> HIDE DEF L
<1>2. W = Step(W)
  <2>1. ASSUME NEW i \in Page PROVE W[i] = Step(W)[i]
    BY <1>1 DEF Page
  <2> QED BY ZenonT(30), <2>1
<1>3. Run(p) = CHOOSE r : r = Step(r)
  BY ZenonT(30) DEF Run
<1>4. Run(p) = Step(Run(p))
  <2> HIDE DEF W, Step
  <2> QED BY ZenonT(30), <1>2, <1>3
<1>5. ASSUME NEW i \in Page, Run(p)[i] # W[i] PROVE FALSE
  <2> DEFINE S == {j \in Page : Run(p)[j] # W[j]}
  <2>1. S \in SUBSET (0 .. TotalPages - 1) /\ S # {} /\ TotalPages - 1 \in Nat
    BY <1>5, PmmAssumption DEF Page
  <2> HIDE DEF S
  <2> DEFINE m == Min(S)
  <2>2. m \in S /\ \A j \in S : m <= j
    BY <2>1, MinFacts, Zenon
  <2> HIDE DEF m
  <2>3. m \in Page /\ Run(p)[m] # W[m]
    BY ZenonT(30), <2>2 DEF S
  <2>4. m \in p.free => m - 1 \notin S
    BY <2>2, <2>3 DEF Page
  <2>5. m \in p.free => m - 1 \in Page /\ m # 0 /\ Run(p)[m - 1] = W[m - 1]
    BY ZenonT(30), <1>1, <2>3, <2>4 DEF S
  <2>6. Run(p)[m] = Step(Run(p))[m] /\ W[m] = Step(W)[m]
    BY Zenon, <1>2, <1>4
  <2> HIDE DEF W
  <2> QED BY ZenonT(30), <2>3, <2>5, <2>6
<1> QED BY ZenonT(30), <1>5 DEF L

\* Where a run of n free pages starts.
RunsOf(p, n) == {f \in Page : f + n <= TotalPages /\ f .. f + n - 1 \subseteq p.free}

\* The scan stops at the end of a run of n free pages, with the nearest used
\* page just before it.
LEMMA StopsFacts ==
    ASSUME NEW p, PmmSound(p), NEW n \in Nat
    PROVE  \A i : i \in Stops(p, n) <=> i \in p.free /\ LastUsed(p, i) = i - n
<1> SUFFICES ASSUME NEW i PROVE i \in Stops(p, n) <=> i \in p.free /\ LastUsed(p, i) = i - n
  BY Zenon
<1>1. CASE i \in p.free
  <2>1. i \in Page /\ i \in Int
    BY <1>1 DEF PmmSound, PmmType, Page
  <2>2. Run(p)[i] = i - LastUsed(p, i) /\ LastUsed(p, i) \in Int
    BY <2>1, RunFacts, LastUsedFacts
  <2> QED BY <1>1, <2>1, <2>2 DEF Stops
<1>2. CASE i \notin p.free
  BY ZenonT(30), <1>2 DEF Stops
<1> QED BY ZenonT(30), <1>1, <1>2

\* It stops at the end of some run, and no later than at the end of any run.
LEMMA FirstFit ==
    ASSUME NEW p, PmmSound(p), NEW n \in Nat \ {0}
    PROVE  /\ \A i \in Stops(p, n) : i - n + 1 \in RunsOf(p, n)
           /\ \A f \in RunsOf(p, n) : \E i \in Stops(p, n) : i <= f + n - 1
<1>1. ASSUME NEW i \in Stops(p, n) PROVE i - n + 1 \in RunsOf(p, n)
  <2>1. i \in p.free /\ LastUsed(p, i) = i - n
    BY ZenonT(30), StopsFacts
  <2>2. i \in Page
    BY ZenonT(30), <2>1 DEF PmmSound, PmmType
  <2>3. i - n \in 0 .. i /\ i - n + 1 .. i \subseteq p.free
    BY ZenonT(30), <2>1, <2>2, LastUsedFacts
  <2>4. i - n + 1 \in Page /\ i - n + 1 + n <= TotalPages /\ i - n + 1 + n - 1 = i
    BY <2>2, <2>3, PmmAssumption DEF Page
  <2> QED BY ZenonT(30), <2>3, <2>4 DEF RunsOf
<1>2. ASSUME NEW f \in RunsOf(p, n) PROVE \E i \in Stops(p, n) : i <= f + n - 1
  <2>1. f \in Page /\ f + n <= TotalPages /\ f .. f + n - 1 \subseteq p.free /\ f \in Int
    BY PmmAssumption DEF RunsOf, Page
  <2>2. f \in p.free
    BY <2>1
  <2> DEFINE l == LastUsed(p, f)
  <2>3. l \in 0 .. f /\ l \notin p.free /\ l + 1 .. f \subseteq p.free
    BY ZenonT(30), <2>1, LastUsedFacts
  <2> HIDE DEF l
  <2>4. l < f
    BY <2>1, <2>2, <2>3
  <2>5. l + n \in Page /\ l \in 0 .. l + n /\ l + n <= f + n - 1
    BY <2>1, <2>3, <2>4, PmmAssumption DEF Page
  <2>6. l + 1 .. l + n \subseteq p.free
    BY <2>1, <2>3, <2>4
  <2>7. LastUsed(p, l + n) = l
    BY ZenonT(30), <2>3, <2>5, <2>6, LastUsedFacts
  <2>8. l + n \in p.free /\ l + n - n = l
    BY <2>3, <2>6
  <2>9. l + n \in Stops(p, n)
    <3> DEFINE i == l + n
    <3>1. i \in p.free /\ LastUsed(p, i) = i - n
      BY <2>3, <2>7, <2>8
    <3> HIDE DEF i
    <3>2. i \in Stops(p, n)
      BY ZenonT(30), <3>1, StopsFacts
    <3> QED BY ZenonT(30), <3>2 DEF i
  <2> QED BY ZenonT(30), <2>5, <2>9
<1> QED BY ZenonT(30), <1>1, <1>2

\* So pmm_alloc_pages finds the lowest run, if there is one.
LEMMA AllocPagesFacts ==
    ASSUME NEW p, PmmSound(p), NEW n \in Nat \ {0}
    PROVE  /\ Stops(p, n) = {} <=> RunsOf(p, n) = {}
           /\ PmmAllocatedPages(p, n) = IF RunsOf(p, n) = {} THEN NoPage ELSE Min(RunsOf(p, n))
           /\ Stops(p, n) # {} =>
                 /\ PmmAllocatedPages(p, n) \in Page \ {NoPage}
                 /\ PmmAllocatedPages(p, n) = Min(Stops(p, n)) - n + 1
                 /\ Min(Stops(p, n)) \in p.free
                 /\ Min(Stops(p, n)) - n + 1 .. Min(Stops(p, n)) \subseteq p.free
<1>1. Stops(p, n) = {} <=> RunsOf(p, n) = {}
  BY ZenonT(30), FirstFit
<1>2. CASE Stops(p, n) = {}
  BY ZenonT(30), <1>1, <1>2 DEF PmmAllocatedPages
<1>3. CASE Stops(p, n) # {}
  <2> DEFINE i == Min(Stops(p, n))
             f == Min(RunsOf(p, n))
  <2>0. TotalPages - 1 \in Nat
    BY PmmAssumption
  <2>1. Stops(p, n) \in SUBSET (0 .. TotalPages - 1) /\ RunsOf(p, n) \in SUBSET (0 .. TotalPages - 1)
    BY DEF Stops, RunsOf, PmmSound, PmmType, Page
  <2>2. i \in Stops(p, n) /\ \A j \in Stops(p, n) : i <= j
    BY <1>3, <2>0, <2>1, MinFacts, Zenon
  <2>3. f \in RunsOf(p, n) /\ \A g \in RunsOf(p, n) : f <= g
    BY <1>1, <1>3, <2>0, <2>1, MinFacts, Zenon
  <2> HIDE DEF i, f
  <2>4. i \in Int /\ f \in Int /\ i \in p.free
    BY <2>1, <2>2, <2>3 DEF Stops
  <2>5. i - n + 1 \in RunsOf(p, n)
    BY ZenonT(30), <2>2, FirstFit
  <2>6. PICK j \in Stops(p, n) : j <= f + n - 1
    BY ZenonT(30), <2>3, FirstFit
  <2>7. j \in Int
    BY <2>1
  <2>8. i <= j /\ f <= i - n + 1
    BY ZenonT(30), <2>2, <2>3, <2>5, <2>6
  <2>9. f = i - n + 1
    BY <2>4, <2>6, <2>7, <2>8
  <2>10. i - n + 1 \in Page /\ i - n + 1 .. i \subseteq p.free
    <3>1. i - n + 1 + n - 1 = i
      BY <2>4
    <3> QED BY ZenonT(30), <2>5, <3>1 DEF RunsOf
  <2>11. i - n + 1 # NoPage
    BY <2>4, <2>10 DEF PmmSound, NoPage
  <2>12. PmmAllocatedPages(p, n) = i - n + 1
    BY ZenonT(30), <1>3 DEF PmmAllocatedPages, i
  <2> QED BY ZenonT(30), <1>1, <1>3, <2>4, <2>9, <2>10, <2>11, <2>12 DEF i, f
<1> QED BY ZenonT(30), <1>2, <1>3

\* pmm_alloc_pages keeps the allocator sound, and takes just the run it returns;
\* asked for no page, it finds none.
LEMMA AfterAllocPagesFacts ==
    ASSUME NEW p, PmmSound(p), NEW n \in Nat
    PROVE  LET first == PmmAllocatedPages(p, n)
           IN /\ PmmSound(AfterAllocPages(p, n))
              /\ AfterAllocPages(p, n).grown = p.grown
              /\ AfterAllocPages(p, n).refs = p.refs
              /\ AfterAllocPages(p, n).panic = p.panic
              /\ first = NoPage => AfterAllocPages(p, n).free = p.free
              /\ first # NoPage => /\ first .. first + n - 1 \subseteq p.free
                                   /\ AfterAllocPages(p, n).free = p.free \ (first .. first + n - 1)
<1>1. CASE Stops(p, n) = {}
  BY ZenonT(30), <1>1 DEF AfterAllocPages, PmmAllocatedPages
<1>2. CASE Stops(p, n) # {}
  <2> DEFINE i == Min(Stops(p, n))
             F == p.free \ (i - n + 1 .. i)
             s == (i + 1) % TotalPages
             c == p.count - n
             q == [p EXCEPT !.free = F, !.scan = s, !.count = c]
  <2>1. n # 0
    <3>1. PICK j : j \in Stops(p, n)
      BY ZenonT(30), <1>2
    <3>2. j \in p.free /\ LastUsed(p, j) = j - n /\ j \in Page
      BY ZenonT(30), <3>1, StopsFacts DEF PmmSound, PmmType
    <3> QED BY <3>2, LastUsedFacts DEF Page
  <2>2. /\ i \in p.free /\ i - n + 1 .. i \subseteq p.free
        /\ PmmAllocatedPages(p, n) = i - n + 1 /\ i - n + 1 # NoPage
    BY ZenonT(30), <1>2, <2>1, AllocPagesFacts
  <2>3. AfterAllocPages(p, n) = q
    BY ZenonT(30), <1>2 DEF AfterAllocPages
  <2> HIDE DEF i
  <2>4. i \in Page /\ i \in Int
    BY <2>2 DEF PmmSound, PmmType, Page
  <2>5. s \in Page
    <3>1. 1 \in 0 .. TotalPages
      BY PmmAssumption
    <3> QED BY <2>4, <3>1, ModFacts, Zenon
  <2>6. p \in PmmType /\ NoPage \notin F /\ F \in SUBSET Page /\ c \in Int
    BY DEF PmmSound, PmmType
  <2>7. c = Cardinality(F)
    <3>1. i - n + 1 \in Int /\ i - n + 1 <= i + 1 /\ i - (i - n + 1) + 1 = n
      BY <2>4
    <3>2. Cardinality(F) = Cardinality(p.free) - (i - (i - n + 1) + 1)
      BY ZenonT(30), <2>2, <2>4, <3>1, CountFacts DEF PmmSound, PmmType
    <3> QED BY ZenonT(30), <3>1, <3>2 DEF PmmSound
  <2>8. F = p.free \ (i - n + 1 .. i) /\ i - n + 1 + n - 1 = i
    BY <2>4
  <2> HIDE DEF F, s, c
  <2>9. /\ q \in PmmType /\ q.free = F /\ q.count = c
        /\ q.refs = p.refs /\ q.grown = p.grown /\ q.panic = p.panic
    BY Zenon, <2>5, <2>6 DEF PmmType
  <2> HIDE DEF q
  <2>10. PmmSound(q)
    BY <2>6, <2>7, <2>9 DEF PmmSound
  <2> QED BY ZenonT(30), <2>2, <2>3, <2>8, <2>9, <2>10
<1> QED BY ZenonT(30), <1>1, <1>2

\* The first pmm_ref allocates the array; nothing else changes.
LEMMA AfterGrowFacts ==
    ASSUME NEW p, PmmSound(p)
    PROVE  /\ PmmSound(AfterGrow(p))
           /\ AfterGrow(p).grown = TRUE
           /\ AfterGrow(p).refs = p.refs
           /\ AfterGrow(p).panic = p.panic
           /\ AfterGrow(p).free \subseteq p.free
<1>1. CASE p.grown
  <2>1. p.grown = TRUE
    BY ZenonT(30), <1>1 DEF PmmSound, PmmType
  <2> QED BY ZenonT(30), <1>1, <2>1 DEF AfterGrow
<1>2. CASE ~p.grown
  <2> DEFINE q == AfterAllocPages(p, RefPages)
  <2>1. AfterGrow(p) = [q EXCEPT !.grown = TRUE]
    BY ZenonT(30), <1>2 DEF AfterGrow
  <2>2. PmmSound(q) /\ q.refs = p.refs /\ q.panic = p.panic /\ q.free \subseteq p.free
    BY ZenonT(30), AfterAllocPagesFacts, PmmAssumption
  <2> HIDE DEF q
  <2> DEFINE r == [q EXCEPT !.grown = TRUE]
  <2>3. /\ r \in PmmType /\ r.grown = TRUE /\ r.refs = q.refs /\ r.free = q.free
        /\ r.count = q.count /\ r.panic = q.panic
    BY Zenon, <2>2 DEF PmmSound, PmmType
  <2> HIDE DEF r
  <2> QED BY ZenonT(30), <2>1, <2>2, <2>3 DEF PmmSound, r
<1> QED BY Zenon, <1>1, <1>2

-----------------------------------------------------------------------------
(* pmm_free, pmm_ref and pmm_unref.                                         *)

\* pmm_free puts back a page that is in use, and no other.
LEMMA AfterFreeFacts ==
    ASSUME NEW p, PmmSound(p), NEW i, i # NoPage
    PROVE  /\ PmmSound(AfterFree(p, i))
           /\ AfterFree(p, i).refs = p.refs
           /\ AfterFree(p, i).grown = p.grown
           /\ i \in Page \ p.free => AfterFree(p, i).free = p.free \cup {i}
           /\ i \notin Page \ p.free => AfterFree(p, i).free = p.free
           /\ i \in Page \ p.free => AfterFree(p, i).panic = p.panic
<1>1. CASE i \notin Page \ p.free
  <2> DEFINE q == [p EXCEPT !.panic = TRUE]
  <2>1. AfterFree(p, i) = q
    BY ZenonT(30), <1>1 DEF AfterFree
  <2>2. q \in PmmType /\ q.free = p.free /\ q.refs = p.refs /\ q.grown = p.grown /\ q.count = p.count
    BY Zenon DEF PmmSound, PmmType
  <2> HIDE DEF q
  <2> QED BY ZenonT(30), <1>1, <2>1, <2>2 DEF PmmSound
<1>2. CASE i \in Page \ p.free
  <2> DEFINE F == p.free \cup {i}
             c == p.count + 1
             q == [p EXCEPT !.free = F, !.count = c]
  <2>1. AfterFree(p, i) = q
    BY ZenonT(30), <1>2 DEF AfterFree
  <2>2. p \in PmmType /\ F \in SUBSET Page /\ c \in Int /\ NoPage \notin F /\ F = p.free \cup {i}
    BY <1>2 DEF PmmSound, PmmType
  <2>3. c = Cardinality(F)
    BY <1>2, CountFacts DEF PmmSound, PmmType
  <2> HIDE DEF F, c
  <2>4. /\ q \in PmmType /\ q.free = F /\ q.refs = p.refs /\ q.grown = p.grown /\ q.count = c
        /\ q.panic = p.panic
    BY Zenon, <2>2 DEF PmmType
  <2> HIDE DEF q
  <2> QED BY ZenonT(30), <1>2, <2>1, <2>2, <2>3, <2>4 DEF PmmSound
<1> QED BY ZenonT(30), <1>1, <1>2

\* pmm_ref counts one page up, unless its count is at the limit.
LEMMA AfterRefFacts ==
    ASSUME NEW p, PmmSound(p), NEW i
    PROVE  /\ PmmSound(AfterRef(p, i))
           /\ AfterRef(p, i).panic = p.panic
           /\ i \in Page => /\ AfterRef(p, i).grown = TRUE
                            /\ AfterRef(p, i).free = AfterGrow(p).free
                            /\ AfterRef(p, i).refs = [p.refs EXCEPT ![i] = IF @ < RefMax THEN @ + 1 ELSE @]
           /\ i \notin Page => AfterRef(p, i) = p
<1>1. CASE i \notin Page
  BY ZenonT(30), <1>1 DEF AfterRef
<1>2. CASE i \in Page
  <2> DEFINE g == AfterGrow(p)
             n == IF p.refs[i] < RefMax THEN p.refs[i] + 1 ELSE p.refs[i]
             q == [g EXCEPT !.refs[i] = n]
  <2>1. PmmSound(g) /\ g.grown = TRUE /\ g.refs = p.refs /\ g.panic = p.panic
    BY Zenon, AfterGrowFacts
  <2>2. AfterRef(p, i) = q
    BY ZenonT(30), <1>2, <2>1 DEF AfterRef
  <2>3. p.refs \in [Page -> 0 .. RefMax]
    BY ZenonT(30) DEF PmmSound, PmmType
  <2>4. n \in 0 .. RefMax
    BY <1>2, <2>3, PmmAssumption
  <2>5. [p.refs EXCEPT ![i] = IF @ < RefMax THEN @ + 1 ELSE @] = [p.refs EXCEPT ![i] = n]
    BY Zenon
  <2> HIDE DEF g, n
  <2>6. /\ q \in PmmType /\ q.free = g.free /\ q.grown = g.grown /\ q.count = g.count
        /\ q.panic = g.panic
        /\ q.refs = [g.refs EXCEPT ![i] = n]
    BY ZenonT(30), <1>2, <2>1, <2>4 DEF PmmSound, PmmType
  <2> HIDE DEF q
  <2>7. PmmSound(q)
    BY ZenonT(30), <2>1, <2>6 DEF PmmSound
  <2> QED BY ZenonT(30), <1>2, <2>1, <2>2, <2>5, <2>6, <2>7 DEF g
<1> QED BY Zenon, <1>1, <1>2

\* pmm_unref of a page with a count above 1 only counts down.
LEMMA UnrefSharedFacts ==
    ASSUME NEW p, PmmSound(p), NEW i \in Page, p.grown, p.refs[i] > 1
    PROVE  /\ PmmSound(AfterUnref(p, i))
           /\ AfterUnref(p, i).grown = p.grown
           /\ AfterUnref(p, i).free = p.free
           /\ AfterUnref(p, i).panic = p.panic
           /\ AfterUnref(p, i).refs = [p.refs EXCEPT ![i] = @ - 1]
<1> DEFINE n == p.refs[i] - 1
           q == [p EXCEPT !.refs[i] = n]
<1>1. AfterUnref(p, i) = q
  BY ZenonT(30) DEF AfterUnref
<1>2. p.refs \in [Page -> 0 .. RefMax]
  BY ZenonT(30) DEF PmmSound, PmmType
<1>3. n \in 0 .. RefMax
  BY <1>2, PmmAssumption
<1>4. [p.refs EXCEPT ![i] = @ - 1] = [p.refs EXCEPT ![i] = n]
  OBVIOUS
<1> HIDE DEF n
<1>5. /\ q \in PmmType /\ q.free = p.free /\ q.grown = p.grown /\ q.count = p.count
      /\ q.refs = [p.refs EXCEPT ![i] = n] /\ q.panic = p.panic
  BY Zenon, <1>3 DEF PmmSound, PmmType
<1> HIDE DEF q
<1> QED BY ZenonT(30), <1>1, <1>4, <1>5 DEF PmmSound

\* pmm_unref counts down; it frees at most its page, and only when the count was
\* 0 or 1.
LEMMA AfterUnrefFacts ==
    ASSUME NEW p, PmmSound(p), NEW i, i # NoPage
    PROVE  /\ PmmSound(AfterUnref(p, i))
           /\ AfterUnref(p, i).grown = p.grown
           /\ i \notin Page \/ ~p.grown => AfterUnref(p, i) = p
           /\ i \in Page /\ p.grown /\ p.refs[i] > 1 =>
                 /\ AfterUnref(p, i).free = p.free
                 /\ AfterUnref(p, i).panic = p.panic
                 /\ AfterUnref(p, i).refs = [p.refs EXCEPT ![i] = @ - 1]
           /\ i \in Page /\ p.grown /\ ~(p.refs[i] > 1) =>
                 /\ AfterUnref(p, i).refs = [p.refs EXCEPT ![i] = 0]
                 /\ AfterUnref(p, i).free = p.free \cup {i}
                 /\ i \notin p.free => AfterUnref(p, i).panic = p.panic
<1>1. CASE i \notin Page \/ ~p.grown
  BY ZenonT(30), <1>1 DEF AfterUnref
<1>2. CASE i \in Page /\ p.grown /\ p.refs[i] > 1
  BY ZenonT(30), <1>2, UnrefSharedFacts
<1>3. CASE i \in Page /\ p.grown /\ ~(p.refs[i] > 1)
  <2> DEFINE q == [p EXCEPT !.refs[i] = 0]
  <2>1. AfterUnref(p, i) = AfterFree(q, i)
    BY ZenonT(30), <1>3 DEF AfterUnref
  <2>2. 0 \in 0 .. RefMax
    BY PmmAssumption
  <2>3. /\ q \in PmmType /\ q.free = p.free /\ q.grown = p.grown /\ q.count = p.count
        /\ q.refs = [p.refs EXCEPT ![i] = 0] /\ q.panic = p.panic
    BY Zenon, <1>3, <2>2 DEF PmmSound, PmmType
  <2> HIDE DEF q
  <2>4. PmmSound(q)
    BY ZenonT(30), <2>3 DEF PmmSound
  <2>5. i \notin Page \ q.free => q.free = q.free \cup {i}
    BY ZenonT(30), <1>3
  <2> DEFINE r == AfterFree(q, i)
  <2>6. /\ PmmSound(r) /\ r.refs = q.refs /\ r.grown = q.grown
        /\ i \in Page \ q.free => r.free = q.free \cup {i}
        /\ i \notin Page \ q.free => r.free = q.free
        /\ i \in Page \ q.free => r.panic = q.panic
    BY ZenonT(30), <2>4, AfterFreeFacts
  <2> HIDE DEF r
  <2>7. /\ PmmSound(r) /\ r.grown = p.grown /\ r.refs = [p.refs EXCEPT ![i] = 0]
        /\ r.free = p.free \cup {i}
        /\ i \notin p.free => r.panic = p.panic
    BY ZenonT(30), <1>3, <2>3, <2>5, <2>6
  <2>8. AfterUnref(p, i) = r
    BY ZenonT(30), <2>1 DEF r
  <2> QED BY Zenon, <1>3, <2>7, <2>8
<1> QED BY ZenonT(30), <1>1, <1>2, <1>3

-----------------------------------------------------------------------------
(* The state machine.                                                       *)

\* The inductive invariant: the allocator is sound, and its user holds pages.
PmmInv == PmmSound(pmm) /\ ret \in SUBSET Page

\* pmm_init leaves a sound allocator.
LEMMA BootIsSound == PmmSound(PmmBoot)
<1>1. Usable \in SUBSET Page /\ NoPage \notin Usable
  BY PmmAssumption DEF Page, NoPage
<1>2. Cardinality(Usable) \in Int
  BY <1>1, CountFacts
<1>3. 0 \in Page /\ 0 \in 0 .. RefMax
  BY PmmAssumption DEF Page
<1> QED BY ZenonT(30), <1>1, <1>2, <1>3 DEF PmmSound, PmmBoot, PmmType

\* Every call keeps the invariant.
LEMMA PmmNextKeepsInv == PmmInv /\ [PmmNext]_pmmVars => PmmInv'
<1> SUFFICES ASSUME PmmInv, [PmmNext]_pmmVars PROVE PmmInv'
  BY Zenon
<1>0. PmmSound(pmm) /\ pmm.free \subseteq Page
  BY ZenonT(30) DEF PmmInv, PmmSound, PmmType
<1>1. CASE Alloc
  <2>1. {PmmAllocated(pmm)} \ {NoPage} \in SUBSET Page
    BY ZenonT(30), <1>0, AllocFacts
  <2> QED BY ZenonT(30), <1>0, <1>1, <2>1, AfterAllocFacts DEF Alloc, PmmInv
<1>2. ASSUME NEW n \in 0 .. TotalPages, AllocPages(n) PROVE PmmInv'
  <2>1. n \in Nat
    BY PmmAssumption
  <2>2. PmmAllocatedPages(pmm, n) # NoPage =>
           PmmAllocatedPages(pmm, n) .. PmmAllocatedPages(pmm, n) + n - 1 \subseteq Page
    BY ZenonT(30), <1>0, <2>1, AfterAllocPagesFacts
  <2> QED BY ZenonT(30), <1>0, <1>2, <2>1, <2>2, AfterAllocPagesFacts DEF AllocPages, PmmInv
<1>3. ASSUME NEW i \in 1 .. TotalPages, Free(i) \/ Ref(i) \/ Unref(i) PROVE PmmInv'
  <2>1. i # NoPage
    BY DEF NoPage
  <2>2. CASE Free(i)
    BY ZenonT(30), <1>0, <2>1, <2>2, AfterFreeFacts DEF Free, PmmInv
  <2>3. CASE Ref(i)
    BY Zenon, <1>0, <2>3, AfterRefFacts DEF Ref, PmmInv
  <2>4. CASE Unref(i)
    BY Zenon, <1>0, <2>1, <2>4, AfterUnrefFacts DEF Unref, PmmInv
  <2> QED BY ZenonT(30), <1>3, <2>2, <2>3, <2>4
<1>4. CASE UNCHANGED pmmVars
  BY ZenonT(30), <1>4 DEF PmmInv, pmmVars
<1> QED BY ZenonT(30), <1>1, <1>2, <1>3, <1>4 DEF PmmNext

\* The allocator is sound after any sequence of calls.
THEOREM PmmInvariant == PmmSpec => []PmmInv
<1>1. PmmInit => PmmInv
  BY ZenonT(30), BootIsSound DEF PmmInit, PmmInv
<1> QED BY <1>1, PmmNextKeepsInv, PTL DEF PmmSpec

\* free_count never drifts from the bitmap, whatever calls are made.
THEOREM CountExact == PmmSpec => []CountIsExact
<1>1. PmmInv => CountIsExact
  BY ZenonT(30) DEF PmmInv, PmmSound, CountIsExact
<1> QED BY <1>1, PmmInvariant, PTL

\* pmm_alloc fails only when no page is free.
THEOREM AllocComplete == PmmSpec => []AllocFindsFree
<1>1. PmmInv => AllocFindsFree
  BY ZenonT(30), AllocFacts DEF PmmInv, AllocFindsFree, PmmSound
<1> QED BY <1>1, PmmInvariant, PTL

\* pmm_alloc_pages finds a run exactly when there is one, and the lowest.
THEOREM AllocPagesIsFirstFit == PmmSpec => []AllocPagesFirstFit
<1>1. PmmInv => AllocPagesFirstFit
  <2> SUFFICES ASSUME PmmInv, NEW n \in 1 .. TotalPages
               PROVE  PmmAllocatedPages(pmm, n) = IF RunStarts(n) = {} THEN NoPage
                                                 ELSE Min(RunStarts(n))
    BY DEF AllocPagesFirstFit
  <2>1. n \in Nat \ {0}
    BY PmmAssumption
  <2>2. RunStarts(n) = RunsOf(pmm, n)
    BY ZenonT(30) DEF RunStarts, RunsOf
  <2> QED BY ZenonT(30), <2>1, <2>2, AllocPagesFacts DEF PmmInv
<1> QED BY <1>1, PmmInvariant, PTL

-----------------------------------------------------------------------------
(* Refinement.                                                              *)

\* A call that clears bits and returns their pages, or returns nothing, is a
\* step of the abstract allocator; so is one that sets one bit.
LEMMA AbstractStep ==
    ASSUME PmmInv, PmmInv',
           \/ pmm'.free = pmm.free \ ret' /\ ret' \subseteq pmm.free
           \/ pmm'.free \subseteq pmm.free /\ ret' = {}
           \/ \E i \in Page \ pmm.free : pmm'.free = pmm.free \cup {i} /\ ret' = {}
    PROVE  PmmAbs!Next
<1>0. pmm.free \subseteq Page /\ pmm'.free \subseteq Page /\ ret' \subseteq Page
  BY ZenonT(30) DEF PmmInv, PmmSound, PmmType
<1>1. CASE pmm'.free = pmm.free \ ret' /\ ret' \subseteq pmm.free
  <2>1. PICK S \in SUBSET Page : S = ret'
    BY ZenonT(30), <1>0
  <2>2. PmmAbs!Take(S)
    BY ZenonT(30), <1>0, <1>1, <2>1 DEF PmmAbs!Take
  <2> QED BY ZenonT(30), <2>2 DEF PmmAbs!Next
<1>2. CASE pmm'.free \subseteq pmm.free /\ ret' = {}
  <2>1. PICK S \in SUBSET Page : S = pmm.free \ pmm'.free
    BY Zenon, <1>0
  <2>2. PmmAbs!Keep(S)
    BY ZenonT(30), <1>0, <1>2, <2>1 DEF PmmAbs!Keep
  <2> QED BY <2>2 DEF PmmAbs!Next
<1>3. CASE \E i \in Page \ pmm.free : pmm'.free = pmm.free \cup {i} /\ ret' = {}
  <2>1. PICK i \in Page \ pmm.free : pmm'.free = pmm.free \cup {i} /\ ret' = {}
    BY ZenonT(30), <1>3
  <2>2. PmmAbs!Give(i)
    BY ZenonT(30), <1>0, <2>1 DEF PmmAbs!Give
  <2> QED BY ZenonT(30), <2>2 DEF PmmAbs!Next
<1> QED BY ZenonT(30), <1>1, <1>2, <1>3

\* Every call is a step of the abstract allocator.
LEMMA PmmStepRefines ==
    ASSUME PmmInv, PmmInv', [PmmNext]_pmmVars
    PROVE  [PmmAbs!Next]_<<Page \ pmm.free, ret>>
<1>0. PmmSound(pmm) /\ NoPage \notin pmm.free
  BY ZenonT(30) DEF PmmInv, PmmSound
<1>1. CASE Alloc
  <2>1. PmmAllocated(pmm) = NoPage \/ PmmAllocated(pmm) \in pmm.free
    BY ZenonT(30), <1>0, AllocFacts
  <2>2. pmm'.free = pmm.free \ {PmmAllocated(pmm)} /\ ret' = {PmmAllocated(pmm)} \ {NoPage}
    BY ZenonT(30), <1>0, <1>1, AfterAllocFacts DEF Alloc
  <2>3. pmm'.free = pmm.free \ ret' /\ ret' \subseteq pmm.free
    BY ZenonT(30), <1>0, <2>1, <2>2
  <2> QED BY ZenonT(30), <2>3, AbstractStep
<1>2. ASSUME NEW n \in 0 .. TotalPages, AllocPages(n) PROVE PmmAbs!Next
  <2>1. n \in Nat
    BY PmmAssumption
  <2>2. pmm'.free = pmm.free \ ret' /\ ret' \subseteq pmm.free
    BY ZenonT(30), <1>0, <1>2, <2>1, AfterAllocPagesFacts DEF AllocPages
  <2> QED BY ZenonT(30), <2>2, AbstractStep
<1>3. ASSUME NEW i \in 1 .. TotalPages, Free(i) PROVE PmmAbs!Next
  <2>1. i # NoPage
    BY DEF NoPage
  <2>2. /\ i \in Page \ pmm.free => pmm'.free = pmm.free \cup {i}
        /\ i \notin Page \ pmm.free => pmm'.free = pmm.free
        /\ ret' = {}
    BY ZenonT(30), <1>0, <1>3, <2>1, AfterFreeFacts DEF Free
  <2> QED BY ZenonT(30), <2>2, AbstractStep
<1>4. ASSUME NEW i \in 1 .. TotalPages, Ref(i) PROVE PmmAbs!Next
  <2>1. pmm'.free \subseteq pmm.free /\ ret' = {}
    BY ZenonT(30), <1>0, <1>4, AfterRefFacts, AfterGrowFacts DEF Ref
  <2> QED BY ZenonT(30), <2>1, AbstractStep
<1>5. ASSUME NEW i \in 1 .. TotalPages, Unref(i) PROVE PmmAbs!Next
  <2>1. i # NoPage
    BY DEF NoPage
  <2>2. ret' = {} /\ (pmm'.free = pmm.free \/ (i \in Page /\ pmm'.free = pmm.free \cup {i}))
    BY Zenon, <1>0, <1>5, <2>1, AfterUnrefFacts DEF Unref
  <2> QED BY <2>2, AbstractStep
<1>6. CASE UNCHANGED pmmVars
  BY <1>6 DEF pmmVars
<1> QED BY ZenonT(30), <1>1, <1>2, <1>3, <1>4, <1>5, <1>6 DEF PmmNext

\* What a caller gets from pmm_alloc and pmm_alloc_pages is exactly what the
\* bitmap then says is in use, and nobody had it; a page comes back only by a
\* pmm_free or the last pmm_unref of one that was in use.
THEOREM PmmImplementsPageAlloc == PmmSpec => ImplementsPageAlloc
<1>1. PmmInit => PmmAbs!Init
  <2>1. Usable \subseteq Page
    BY PmmAssumption DEF Page
  <2> QED BY <2>1 DEF PmmInit, PmmBoot, PmmAbs!Init
<1>2. PmmInv /\ PmmInv' /\ [PmmNext]_pmmVars => [PmmAbs!Next]_<<Page \ pmm.free, ret>>
  BY PmmStepRefines
<1> QED BY <1>1, <1>2, PmmInvariant, PTL DEF PmmSpec, ImplementsPageAlloc, PmmAbs!Spec

-----------------------------------------------------------------------------
(* Induction and loops over a sequence.                                     *)

\* Induction up to N, for the set G of the numbers that have the property.
LEMMA UpTo ==
    ASSUME NEW N \in Nat, NEW G, 0 \in G,
           \A n \in 1 .. N : n - 1 \in G => n \in G
    PROVE  \A n \in 0 .. N : n \in G
<1> SUFFICES ASSUME NEW c \in 0 .. N, c \notin G PROVE FALSE
  OBVIOUS
<1> DEFINE R == OpToRel(<, Nat)
           Bad == {n \in 0 .. N : n \notin G}
<1>1. IsWellFoundedOn(R, Nat)
  BY Zenon, NatLessThanWellFounded
<1>2. \A x, y \in Nat : x < y => <<x, y>> \in R
  BY ZenonT(30) DEF OpToRel
<1>3. Bad \subseteq Nat /\ c \in Bad
  OBVIOUS
<1> HIDE DEF R, Bad
<1>4. PICK m \in Bad : \A y \in Bad : ~(<<y, m>> \in R)
  BY Zenon, <1>1, <1>3, WFMin
<1>5. m \in 0 .. N /\ m \notin G
  BY ZenonT(30) DEF Bad
<1>6. m - 1 \in Bad /\ m - 1 \in Nat /\ m - 1 < m
  BY <1>5 DEF Bad
<1>7. m \in Nat
  BY <1>5
<1>8. <<m - 1, m>> \in R
  BY Zenon, <1>2, <1>6, <1>7
<1> QED BY Zenon, <1>4, <1>6, <1>8

\* The loop that goes from state s0 by F, turn by turn, exists.
IsLoop(g, N, S, s0, F) ==
    g \in [0 .. N -> S] /\ g[0] = s0 /\ \A n \in 1 .. N : g[n] = F[n][g[n - 1]]

\* A loop of N turns from s0 runs: the recursive function is there.
LEMMA LoopExists ==
    ASSUME NEW N \in Nat, NEW S, NEW s0 \in S, NEW F \in [1 .. N -> [S -> S]]
    PROVE  \E g : IsLoop(g, N, S, s0, F)
<1> DEFINE Good(m, g) == g[0] = s0 /\ \A n \in 1 .. m : g[n] = F[n][g[n - 1]]
           G == {m \in 0 .. N : \E g \in [0 .. m -> S] : Good(m, g)}
<1>1. 0 \in G
  <2> DEFINE g == [n \in 0 .. 0 |-> s0]
  <2>1. g \in [0 .. 0 -> S] /\ Good(0, g)
    OBVIOUS
  <2> HIDE DEF g
  <2> QED BY <2>1
<1>2. ASSUME NEW m \in 1 .. N, m - 1 \in G PROVE m \in G
  <2>1. PICK g \in [0 .. m - 1 -> S] : Good(m - 1, g)
    BY ZenonT(30), <1>2
  <2> DEFINE h == [n \in 0 .. m |-> IF n = m THEN F[m][g[m - 1]] ELSE g[n]]
  <2>2. g[m - 1] \in S /\ F[m] \in [S -> S]
    OBVIOUS
  <2>3. h \in [0 .. m -> S]
    BY <2>2
  <2>4. h[0] = s0
    <3>1. 0 \in 0 .. m /\ 0 # m
      OBVIOUS
    <3> QED BY Zenon, <2>1, <3>1
  <2>5. ASSUME NEW n \in 1 .. m PROVE h[n] = F[n][h[n - 1]]
    <3>0. n - 1 \in 0 .. m - 1 /\ h[n - 1] = g[n - 1]
      OBVIOUS
    <3>1. CASE n = m
      <4>1. h[m] = F[m][g[m - 1]]
        OBVIOUS
      <4> QED BY <3>0, <3>1, <4>1, Zenon
    <3>2. CASE n # m
      BY <2>1, <3>0, <3>2
    <3> QED BY ZenonT(30), <3>1, <3>2
  <2> HIDE DEF h
  <2> QED BY <2>3, <2>4, <2>5
<1> HIDE DEF G
<1>3. \A m \in 0 .. N : m \in G
  BY Zenon, <1>1, <1>2, UpTo
<1>4. N \in G
  BY <1>3
<1> QED BY ZenonT(30), <1>4 DEF G, IsLoop

-----------------------------------------------------------------------------
(* The allocator before the first pmm_ref: no page is counted.              *)

\* The allocator before the first pmm_ref: sound, and no page is counted.
Quiet(p) ==
    /\ PmmSound(p)
    /\ ~p.panic
    /\ ~p.grown
    /\ \A i \in Page : p.refs[i] = 0

\* pmm_alloc takes one free page, or returns 0, and counts nothing.
LEMMA QuietAlloc ==
    ASSUME NEW p, Quiet(p)
    PROVE  /\ Quiet(AfterAlloc(p))
           /\ AfterAlloc(p).free = p.free \ {PmmAllocated(p)}
           /\ PmmAllocated(p) \in Page
           /\ PmmAllocated(p) # NoPage => PmmAllocated(p) \in p.free
<1>1. PmmSound(p)
  BY DEF Quiet
<1>2. PmmAllocated(p) \in Page
  <2>1. PmmAllocated(p) = NoPage \/ PmmAllocated(p) \in p.free
    BY Zenon, <1>1, AllocFacts
  <2>2. p.free \subseteq Page
    BY ZenonT(30), <1>1 DEF PmmSound, PmmType
  <2>3. NoPage \in Page
    BY PmmAssumption DEF Page, NoPage
  <2> QED BY Zenon, <2>1, <2>2, <2>3
<1> QED BY ZenonT(30), <1>1, <1>2, AfterAllocFacts, AllocFacts DEF Quiet

\* pmm_free of a page that is in use puts it back and does not panic.
LEMMA QuietFree ==
    ASSUME NEW p, Quiet(p), NEW i \in Page, i # NoPage, i \notin p.free
    PROVE  /\ Quiet(AfterFree(p, i))
           /\ AfterFree(p, i).free = p.free \cup {i}
<1>1. PmmSound(p) /\ i \in Page \ p.free
  BY ZenonT(30) DEF Quiet
<1> DEFINE q == AfterFree(p, i)
<1>2. /\ PmmSound(q) /\ q.refs = p.refs /\ q.grown = p.grown /\ q.panic = p.panic
      /\ q.free = p.free \cup {i}
  BY ZenonT(30), <1>1, AfterFreeFacts
<1> HIDE DEF q
<1> QED BY Zenon, <1>2 DEF Quiet, q

\* pmm_alloc_pages(1), as uixfs.c calls it, takes one free page or returns 0.
LEMMA QuietAllocPage ==
    ASSUME NEW p, Quiet(p)
    PROVE  /\ Quiet(AfterAllocPages(p, 1))
           /\ AfterAllocPages(p, 1).free = p.free \ {PmmAllocatedPages(p, 1)}
           /\ PmmAllocatedPages(p, 1) \in Page
           /\ PmmAllocatedPages(p, 1) # NoPage => PmmAllocatedPages(p, 1) \in p.free
<1> DEFINE i == PmmAllocatedPages(p, 1)
           q == AfterAllocPages(p, 1)
<1>1. PmmSound(p) /\ 1 \in Nat \ {0} /\ 1 \in Nat
  BY DEF Quiet
<1>2. /\ PmmSound(q) /\ q.grown = p.grown /\ q.refs = p.refs /\ q.panic = p.panic
      /\ i = NoPage => q.free = p.free
      /\ i # NoPage => i .. i + 1 - 1 \subseteq p.free /\ q.free = p.free \ (i .. i + 1 - 1)
  BY ZenonT(30), <1>1, AfterAllocPagesFacts
<1>3. i \in Page
  BY <1>1, AllocPagesFacts, PmmAssumption DEF Page, NoPage, PmmAllocatedPages
<1> HIDE DEF i, q
<1>4. i .. i + 1 - 1 = {i}
  BY <1>3 DEF Page
<1>5. NoPage \notin p.free
  BY ZenonT(30), <1>1 DEF PmmSound
<1>6. q.free = p.free \ {i} /\ (i # NoPage => i \in p.free)
  BY ZenonT(30), <1>2, <1>4, <1>5
<1>7. Quiet(q)
  BY Zenon, <1>2 DEF Quiet
<1> QED BY ZenonT(30), <1>3, <1>6, <1>7 DEF i, q

-----------------------------------------------------------------------------
(* The kernel's record and the pages it holds.                              *)

\* The types of the record that a handler works on.
KernelType ==
    [pm : PmmType, mem : [Page -> Content], khalf : SUBSET Page, buf : Page,
     oom : BOOLEAN, sp : SpaceType]

\* The allocator is quiet and the file buffer is not free.
Sound(k) == k \in KernelType /\ Quiet(k.pm) /\ k.buf \notin k.pm.free

\* Nothing has been written yet.
Clean(k) == \A i \in Page : k.mem[i] = 0

\* The space of k is put together well: its PML4, its tables, its leaves and the
\* file buffer are pages of their own, off the free list; entries are writable
\* and none is marked COW.
Built(k) ==
    /\ Sound(k)
    /\ k.sp.root \notin k.pm.free /\ k.sp.pt \notin k.pm.free
    /\ Apart(k.sp.root, k.sp.pt) /\ Apart(k.sp.root, k.buf) /\ Apart(k.sp.pt, k.buf)
    /\ \A a \in Addr : LET e == k.sp.map[a]
                       IN /\ e.page \notin k.pm.free
                          /\ Apart(e.page, k.buf)
                          /\ ~e.cow
                          /\ e.present => e.w
                          /\ ~e.present => e.page = NoPage
    /\ \A a \in Addr : Apart(k.sp.map[a].page, k.sp.root) /\ Apart(k.sp.map[a].page, k.sp.pt)
    /\ \A a, b \in Addr : a # b => Apart(k.sp.map[a].page, k.sp.map[b].page)

\* A page for a table comes off the free list and changes no count, whatever is
\* counted before (pt_for, vmm_create_space).
LEMMA AllocTableSound ==
    ASSUME NEW k \in KernelType, PmmSound(k.pm)
    PROVE  /\ AllocTable(k) \in KernelType /\ PmmSound(AllocTable(k).pm)
           /\ AllocTable(k).pm.free = k.pm.free \ {PmmAllocated(k.pm)}
           /\ AllocTable(k).pm.refs = k.pm.refs
           /\ AllocTable(k).pm.grown = k.pm.grown
           /\ AllocTable(k).pm.panic = k.pm.panic
           /\ AllocTable(k).sp = k.sp
           /\ AllocTable(k).buf = k.buf
           /\ Clean(k) => Clean(AllocTable(k))
<1> DEFINE t == PmmAllocated(k.pm)
           q == AfterAlloc(k.pm)
<1>1. /\ PmmSound(q) /\ q.free = k.pm.free \ {t} /\ q.refs = k.pm.refs
      /\ q.grown = k.pm.grown /\ q.panic = k.pm.panic
  BY Zenon, AfterAllocFacts
<1>2. q \in PmmType /\ t \in Page
  <2>1. q \in PmmType
    BY Zenon, <1>1 DEF PmmSound
  <2>2. t \in k.pm.free \/ t = NoPage
    BY Zenon, AllocFacts
  <2>3. k.pm.free \subseteq Page /\ NoPage \in Page
    BY PmmAssumption DEF PmmSound, PmmType, Page, NoPage
  <2> QED BY Zenon, <2>1, <2>2, <2>3
<1>3. NoPage \notin k.pm.free
  BY Zenon DEF PmmSound
<1>4. CASE t = NoPage
  <2> DEFINE c == [k EXCEPT !.oom = TRUE]
  <2>1. AllocTable(k) = c
    BY ZenonT(30), <1>4 DEF AllocTable
  <2>2. c \in KernelType /\ c.pm = k.pm /\ c.sp = k.sp /\ c.buf = k.buf /\ c.mem = k.mem
    BY ZenonT(30) DEF KernelType
  <2>3. k.pm.free = k.pm.free \ {t}
    BY ZenonT(30), <1>3, <1>4
  <2> HIDE DEF t, q, c
  <2> QED BY ZenonT(30), <2>1, <2>2, <2>3 DEF Clean, t
<1>5. CASE t # NoPage
  <2> DEFINE m == [k.mem EXCEPT ![t] = 0]
             h == k.khalf \ {t}
             c == [k EXCEPT !.pm = q, !.mem = m, !.khalf = h]
  <2>1. AllocTable(k) = c
    BY ZenonT(30), <1>5 DEF AllocTable, KernelType
  <2>2. m \in [Page -> Content] /\ h \in SUBSET Page /\ (Clean(k) => \A i \in Page : m[i] = 0)
    BY ZenonT(30), <1>2 DEF KernelType, Content, Clean
  <2> HIDE DEF t, q, m, h
  <2>3. c \in KernelType /\ c.pm = q /\ c.sp = k.sp /\ c.buf = k.buf /\ c.mem = m
    BY ZenonT(30), <1>2, <2>2 DEF KernelType
  <2> HIDE DEF c
  <2> QED BY ZenonT(30), <1>1, <2>1, <2>2, <2>3 DEF Clean, t
<1> QED BY Zenon, <1>4, <1>5

\* The same while nothing is counted.
LEMMA AllocTableFacts ==
    ASSUME NEW k, Sound(k)
    PROVE  /\ Sound(AllocTable(k))
           /\ AllocTable(k).pm.free = k.pm.free \ {PmmAllocated(k.pm)}
           /\ AllocTable(k).sp = k.sp
           /\ AllocTable(k).buf = k.buf
           /\ Clean(k) => Clean(AllocTable(k))
<1> DEFINE c == AllocTable(k)
<1>1. k \in KernelType /\ Quiet(k.pm) /\ PmmSound(k.pm) /\ k.buf \notin k.pm.free
  BY ZenonT(30) DEF Sound, Quiet
<1>2. /\ c \in KernelType /\ PmmSound(c.pm) /\ c.pm.free = k.pm.free \ {PmmAllocated(k.pm)}
      /\ c.pm.refs = k.pm.refs /\ c.pm.grown = k.pm.grown /\ c.pm.panic = k.pm.panic
      /\ c.sp = k.sp /\ c.buf = k.buf /\ (Clean(k) => Clean(c))
  BY Zenon, <1>1, AllocTableSound
<1> HIDE DEF c
<1>3. Quiet(c.pm)
  BY Zenon, <1>1, <1>2 DEF Quiet
<1>4. c.buf \notin c.pm.free
  BY ZenonT(30), <1>1, <1>2
<1> QED BY Zenon, <1>2, <1>3, <1>4 DEF Sound, c

\* A new PML4 begins a well-built space without leaves (vmm_create_space).
LEMMA AllocRootFacts ==
    ASSUME NEW k, Sound(k)
    PROVE  /\ Built(AllocRoot(k))
           /\ AllocRoot(k).sp.root = PmmAllocated(k.pm)
           /\ AllocRoot(k).buf = k.buf
           /\ Clean(k) => Clean(AllocRoot(k))
<1> DEFINE r == PmmAllocated(k.pm)
           t == AllocTable(k)
           s == [NoSpace EXCEPT !.root = r]
           c == [t EXCEPT !.sp = s]
<1>1. /\ Sound(t) /\ t.pm.free = k.pm.free \ {r} /\ t.buf = k.buf /\ (Clean(k) => Clean(t))
  BY Zenon, AllocTableFacts
<1>2. r \in Page /\ (r # NoPage => r \in k.pm.free)
  BY Zenon, QuietAlloc DEF Sound
<1>3. k.buf \notin k.pm.free /\ NoPage \in Page /\ NoPage \notin k.pm.free
  BY PmmAssumption DEF Sound, Quiet, PmmSound, Page, NoPage
<1>4. AllocRoot(k) = c
  BY ZenonT(30) DEF AllocRoot
<1>5. s \in SpaceType /\ s.root = r /\ s.pt = NoPage /\ \A a \in Addr : s.map[a] = NoPte
  BY ZenonT(30), <1>2, <1>3 DEF SpaceType, NoSpace, PteType, NoPte
<1> HIDE DEF t, s
<1>6. c \in KernelType /\ c.pm = t.pm /\ c.buf = t.buf /\ c.sp = s /\ c.mem = t.mem
  BY ZenonT(30), <1>1, <1>5 DEF Sound, KernelType
<1> HIDE DEF r, c
<1>7. Sound(c)
  BY ZenonT(30), <1>1, <1>6 DEF Sound
<1>8. NoPage \notin c.pm.free /\ r \notin c.pm.free
  BY ZenonT(30), <1>1, <1>3, <1>6
<1>9. Apart(r, NoPage) /\ Apart(r, c.buf) /\ Apart(NoPage, c.buf)
  BY ZenonT(30), <1>1, <1>2, <1>3, <1>6 DEF Apart
<1>10. \A a \in Addr : /\ c.sp.map[a].page = NoPage /\ c.sp.map[a].cow = FALSE
                       /\ c.sp.map[a].present = FALSE
  BY SMTT(30), <1>5, <1>6 DEF NoPte
<1>11. Built(c)
  BY ZenonT(30), <1>5, <1>6, <1>7, <1>8, <1>9, <1>10 DEF Built, Apart
<1>12. Clean(k) => Clean(c)
  BY Zenon, <1>1, <1>6 DEF Clean
<1> QED BY ZenonT(30), <1>1, <1>4, <1>5, <1>6, <1>11, <1>12 DEF r

\* vmm_create_space builds a space, whichever PML4 it copies the kernel half from.
LEMMA CreateSpaceFacts ==
    ASSUME NEW k, Sound(k), NEW from
    PROVE  /\ Built(CreateSpace(k, from))
           /\ CreateSpace(k, from).buf = k.buf
           /\ Clean(k) => Clean(CreateSpace(k, from))
<1> DEFINE c == AllocRoot(k)
           h == c.khalf \cup {c.sp.root}
           d == [c EXCEPT !.khalf = h]
<1>1. Built(c) /\ c.buf = k.buf /\ (Clean(k) => Clean(c))
  BY Zenon, AllocRootFacts
<1>2. CreateSpace(k, from) \in {c, d}
  BY ZenonT(30) DEF CreateSpace
<1> HIDE DEF c
<1>3. c \in KernelType
  BY ZenonT(30), <1>1 DEF Built, Sound
<1>4. h \in SUBSET Page
  BY ZenonT(30), <1>3 DEF KernelType, SpaceType
<1> HIDE DEF h
<1>5. d \in KernelType /\ d.pm = c.pm /\ d.buf = c.buf /\ d.sp = c.sp /\ d.mem = c.mem
  BY ZenonT(30), <1>3, <1>4 DEF KernelType
<1> HIDE DEF d
<1>6. Built(d)
  BY Zenon, <1>1, <1>5 DEF Built, Sound
<1>7. Clean(k) => Clean(d)
  BY Zenon, <1>1, <1>5 DEF Clean
<1> QED BY Zenon, <1>1, <1>2, <1>5, <1>6, <1>7

\* pt_for gives a space that has no tables a page for them.
LEMMA AllocPtFacts ==
    ASSUME NEW k, Built(k), k.sp.pt = NoPage
    PROVE  /\ Built(AllocPt(k))
           /\ AllocPt(k).pm.free \subseteq k.pm.free
           /\ AllocPt(k).buf = k.buf
           /\ Clean(k) => Clean(AllocPt(k))
           /\ AllocPt(k).sp.map = k.sp.map
           /\ AllocPt(k).sp.root = k.sp.root
           /\ AllocPt(k).sp.pt \in k.pm.free \cup {NoPage}
<1> DEFINE r == PmmAllocated(k.pm)
           t == AllocTable(k)
           s == [k.sp EXCEPT !.pt = r]
           c == [t EXCEPT !.sp = s]
<1>0. Sound(k)
  BY DEF Built
<1>1. /\ Sound(t) /\ t.pm.free = k.pm.free \ {r} /\ t.buf = k.buf /\ t.sp = k.sp
      /\ Clean(k) => Clean(t)
  BY Zenon, <1>0, AllocTableFacts
<1>2. r \in Page /\ (r # NoPage => r \in k.pm.free)
  BY Zenon, <1>0, QuietAlloc DEF Sound
<1>3. /\ k \in KernelType /\ k.buf \notin k.pm.free
      /\ NoPage \in Page /\ NoPage \notin k.pm.free
  BY <1>0, PmmAssumption DEF Sound, Quiet, PmmSound, Page, NoPage
<1>4. AllocPt(k) = c
  BY ZenonT(30), <1>1 DEF AllocPt, Sound, KernelType
<1>5. s \in SpaceType /\ s.root = k.sp.root /\ s.pt = r /\ s.map = k.sp.map
  BY ZenonT(30), <1>2, <1>3 DEF SpaceType, KernelType
<1> HIDE DEF t, s
<1>6. c \in KernelType /\ c.pm = t.pm /\ c.buf = t.buf /\ c.sp = s /\ c.mem = t.mem
  BY ZenonT(30), <1>1, <1>5 DEF Sound, KernelType
<1> HIDE DEF r, c
<1>7. Sound(c)
  BY ZenonT(30), <1>1, <1>6 DEF Sound
<1>8. r \notin c.pm.free /\ c.pm.free \subseteq k.pm.free
  BY ZenonT(30), <1>1, <1>2, <1>3, <1>6
<1>9. Apart(c.sp.root, r) /\ Apart(r, c.buf)
  BY ZenonT(30), <1>1, <1>2, <1>3, <1>5, <1>6 DEF Apart, Built
<1>10. c.sp.map = k.sp.map /\ c.sp.root = k.sp.root /\ c.sp.pt = r /\ c.buf = k.buf
  BY Zenon, <1>1, <1>5, <1>6
<1>11. Built(c)
  <2>1. /\ k.sp.root \notin c.pm.free
        /\ Apart(k.sp.root, k.buf)
        /\ \A a \in Addr : Apart(k.sp.map[a].page, k.sp.root)
        /\ \A a, b \in Addr : a # b => Apart(k.sp.map[a].page, k.sp.map[b].page)
    BY Zenon, <1>8 DEF Built
  <2>2. \A a \in Addr : LET e == k.sp.map[a]
                       IN /\ e.page \notin c.pm.free
                          /\ Apart(e.page, k.buf)
                          /\ ~e.cow
                          /\ e.present => e.w
                          /\ ~e.present => e.page = NoPage
    BY Zenon, <1>8 DEF Built
  <2>3. r \notin c.pm.free /\ Apart(k.sp.root, r) /\ Apart(r, k.buf)
    BY Zenon, <1>8, <1>9, <1>10
  <2>4. \A a \in Addr : Apart(k.sp.map[a].page, r)
    <3>1. \A a \in Addr : k.sp.map[a].page \notin k.pm.free
      BY Zenon DEF Built
    <3> QED BY Zenon, <1>2, <3>1 DEF Apart
  <2> QED BY Zenon, <1>7, <1>10, <2>1, <2>2, <2>3, <2>4 DEF Built
<1>12. Clean(k) => Clean(c)
  BY Zenon, <1>1, <1>6 DEF Clean
<1> QED BY ZenonT(30), <1>1, <1>2, <1>4, <1>5, <1>6, <1>8, <1>11, <1>12

\* A page that was just taken from the allocator, or none.
Fresh(k, page) ==
    /\ page \in Page \ k.pm.free
    /\ Apart(page, k.buf) /\ Apart(page, k.sp.root) /\ Apart(page, k.sp.pt)
    /\ \A a \in Addr : Apart(page, k.sp.map[a].page)

\* The last statement of vmm_map: the entry is written.
SetLeaf(k, a, page) ==
    [k EXCEPT !.sp.map[a] = [present |-> TRUE, page |-> page, w |-> TRUE, cow |-> FALSE]]

\* An entry for a fresh page leaves the space well built.
LEMMA SetLeafFacts ==
    ASSUME NEW k, Built(k), NEW a \in Addr, NEW page, Fresh(k, page)
    PROVE  /\ Built(SetLeaf(k, a, page))
           /\ SetLeaf(k, a, page).sp.map[a].present
           /\ SetLeaf(k, a, page).pm = k.pm
           /\ SetLeaf(k, a, page).buf = k.buf
           /\ SetLeaf(k, a, page).mem = k.mem
<1> DEFINE e == [present |-> TRUE, page |-> page, w |-> TRUE, cow |-> FALSE]
           m == [k.sp.map EXCEPT ![a] = e]
           s == [k.sp EXCEPT !.map = m]
           c == [k EXCEPT !.sp = s]
<1>1. k \in KernelType /\ k.sp \in SpaceType /\ k.sp.map \in [Addr -> PteType] /\ Sound(k)
  <2>1. k \in KernelType /\ Sound(k)
    BY Zenon DEF Built, Sound
  <2>2. k.sp \in SpaceType
    BY ZenonT(30), <2>1 DEF KernelType
  <2>3. k.sp.map \in [Addr -> PteType]
    BY ZenonT(30), <2>2 DEF SpaceType
  <2> QED BY Zenon, <2>1, <2>2, <2>3
<1>2. /\ e \in PteType /\ e.present = TRUE /\ e.page = page /\ e.w = TRUE /\ e.cow = FALSE
  BY ZenonT(30) DEF PteType, Fresh
<1>3. SetLeaf(k, a, page) = c
  BY ZenonT(30), <1>1 DEF SetLeaf
<1> HIDE DEF e
<1>4. m \in [Addr -> PteType] /\ m[a] = e /\ \A b \in Addr : b # a => m[b] = k.sp.map[b]
  BY ZenonT(30), <1>1, <1>2
<1> HIDE DEF m
<1>5. s \in SpaceType /\ s.map = m /\ s.root = k.sp.root /\ s.pt = k.sp.pt
  BY ZenonT(30), <1>1, <1>4 DEF SpaceType
<1> HIDE DEF s
<1>6. c \in KernelType /\ c.pm = k.pm /\ c.buf = k.buf /\ c.sp = s /\ c.mem = k.mem
  BY ZenonT(30), <1>1, <1>5 DEF KernelType
<1> HIDE DEF c
<1>7. Sound(c)
  BY ZenonT(30), <1>1, <1>6 DEF Sound
<1>8. \A b \in Addr : LET f == c.sp.map[b]
                      IN /\ f.page \notin c.pm.free
                         /\ Apart(f.page, c.buf)
                         /\ ~f.cow
                         /\ f.present => f.w
                         /\ ~f.present => f.page = NoPage
  BY ZenonT(30), <1>2, <1>4, <1>5, <1>6 DEF Built, Fresh
<1>9. \A b, d \in Addr : b # d => Apart(c.sp.map[b].page, c.sp.map[d].page)
  <2>1. \A b \in Addr : c.sp.map[b] = IF b = a THEN e ELSE k.sp.map[b]
    BY ZenonT(30), <1>4, <1>5, <1>6
  <2>2. \A b \in Addr : c.sp.map[b].page = IF b = a THEN page ELSE k.sp.map[b].page
    BY Zenon, <1>2, <2>1
  <2>3. \A b, d \in Addr : b # d => Apart(k.sp.map[b].page, k.sp.map[d].page)
    BY Zenon DEF Built
  <2>4. \A b \in Addr : Apart(page, k.sp.map[b].page) /\ Apart(k.sp.map[b].page, page)
    BY Zenon DEF Fresh, Apart
  <2> QED BY ZenonT(30), <2>2, <2>3, <2>4
<1>10. \A b \in Addr : Apart(c.sp.map[b].page, k.sp.root) /\ Apart(c.sp.map[b].page, k.sp.pt)
  BY ZenonT(30), <1>2, <1>4, <1>5, <1>6 DEF Built, Fresh
<1>11. Built(c)
  BY Zenon, <1>5, <1>6, <1>7, <1>8, <1>9, <1>10 DEF Built
<1> QED BY ZenonT(30), <1>2, <1>3, <1>4, <1>5, <1>6, <1>11

\* vmm_map of a fresh page leaves the space well built, tables made or not.
LEMMA VmmMapFacts ==
    ASSUME NEW k, Built(k), NEW a \in Addr, NEW page, Fresh(k, page)
    PROVE  /\ Built(VmmMap(k, a, page))
           /\ VmmMap(k, a, page).buf = k.buf
           /\ Clean(k) => Clean(VmmMap(k, a, page))
<1> DEFINE t == IF k.sp.pt = NoPage THEN AllocPt(k) ELSE k
<1>1. /\ Built(t) /\ t.pm.free \subseteq k.pm.free /\ t.buf = k.buf /\ t.sp.map = k.sp.map
      /\ t.sp.root = k.sp.root /\ t.sp.pt \in k.pm.free \cup {NoPage, k.sp.pt}
      /\ Clean(k) => Clean(t)
  <2>1. CASE k.sp.pt = NoPage
    BY ZenonT(30), <2>1, AllocPtFacts
  <2>2. CASE k.sp.pt # NoPage
    BY ZenonT(30), <2>2
  <2> QED BY ZenonT(30), <2>1, <2>2
<1>2. VmmMap(k, a, page) = SetLeaf(t, a, page)
  BY DEF VmmMap, SetLeaf
<1> HIDE DEF t
<1>3. Fresh(t, page)
  BY ZenonT(30), <1>1 DEF Fresh, Apart
<1>4. Built(SetLeaf(t, a, page)) /\ SetLeaf(t, a, page).buf = t.buf /\ SetLeaf(t, a, page).mem = t.mem
  BY ZenonT(30), <1>1, <1>3, SetLeafFacts
<1> QED BY ZenonT(30), <1>1, <1>2, <1>4 DEF Clean

\* A page of the stack that was just allocated, or physical page 0 when the
\* allocator had none, leaves the space well built (exec.c, user.c).
LEMMA MapStackPageFacts ==
    ASSUME NEW k, Built(k), NEW a \in Addr
    PROVE  /\ Built(MapStackPage(k, a))
           /\ MapStackPage(k, a).buf = k.buf
           /\ Clean(k) => Clean(MapStackPage(k, a))
<1> DEFINE r == PmmAllocated(k.pm)
           q == AfterAlloc(k.pm)
           t == [k EXCEPT !.pm = q]
<1>1. MapStackPage(k, a) = VmmMap(t, a, r)
  BY ZenonT(30) DEF MapStackPage
<1>2. Sound(k) /\ k \in KernelType /\ Quiet(k.pm) /\ k.buf \notin k.pm.free
  BY ZenonT(30) DEF Built, Sound
<1>3. Quiet(q) /\ q.free = k.pm.free \ {r} /\ r \in Page /\ (r # NoPage => r \in k.pm.free)
  BY Zenon, <1>2, QuietAlloc
<1>4. q \in PmmType
  BY ZenonT(30), <1>3 DEF Quiet, PmmSound
<1> HIDE DEF q, r
<1>5. t \in KernelType /\ t.pm = q /\ t.buf = k.buf /\ t.sp = k.sp /\ t.mem = k.mem
  BY ZenonT(30), <1>2, <1>4 DEF KernelType
<1> HIDE DEF t
<1>6. Built(t)
  <2>1. Sound(t)
    BY ZenonT(30), <1>2, <1>3, <1>5 DEF Sound
  <2>2. q.free \subseteq k.pm.free
    BY ZenonT(30), <1>3
  <2> QED BY Zenon, <1>5, <2>1, <2>2 DEF Built
<1>7. Fresh(t, r)
  BY ZenonT(30), <1>2, <1>3, <1>5 DEF Fresh, Built, Apart, NoPage
<1>8. /\ Built(VmmMap(t, a, r)) /\ VmmMap(t, a, r).buf = t.buf
      /\ Clean(t) => Clean(VmmMap(t, a, r))
  BY ZenonT(30), <1>6, <1>7, VmmMapFacts
<1>9. Clean(k) => Clean(t)
  BY Zenon, <1>5 DEF Clean
<1> QED BY Zenon, <1>1, <1>5, <1>8, <1>9

\* The contents of pages do not matter to the space.
LEMMA SetMemFacts ==
    ASSUME NEW k, Built(k), NEW i \in Page
    PROVE  LET c == [k EXCEPT !.mem[i] = 0]
           IN Built(c) /\ c.buf = k.buf /\ c.sp = k.sp /\ (Clean(k) => Clean(c))
<1> DEFINE m == [k.mem EXCEPT ![i] = 0]
           c == [k EXCEPT !.mem = m]
<1>1. k \in KernelType /\ Sound(k)
  BY ZenonT(30) DEF Built, Sound
<1>2. m \in [Page -> Content] /\ (Clean(k) => \A j \in Page : m[j] = 0)
  BY ZenonT(30), <1>1 DEF KernelType, Content, Clean
<1>3. [k EXCEPT !.mem[i] = 0] = c
  BY ZenonT(30), <1>1 DEF KernelType
<1> HIDE DEF m
<1>4. c \in KernelType /\ c.pm = k.pm /\ c.buf = k.buf /\ c.sp = k.sp /\ c.mem = m
  BY ZenonT(30), <1>1, <1>2 DEF KernelType
<1> HIDE DEF c
<1>5. Sound(c)
  BY ZenonT(30), <1>1, <1>4 DEF Sound
<1>6. Built(c)
  BY Zenon, <1>4, <1>5 DEF Built
<1>7. Clean(k) => Clean(c)
  BY Zenon, <1>2, <1>4 DEF Clean
<1> QED BY ZenonT(30), <1>3, <1>4, <1>6, <1>7

\* VA lists every address once, the code page first.
LEMMA AddrFacts ==
    /\ "code" \in Addr
    /\ Len(Stack) \in Nat
    /\ \A n \in 1 .. Len(Stack) : Stack[n] \in Addr
    /\ Len(VA) = Len(Stack) + 1
    /\ \A n \in 1 .. Len(VA) : VA[n] \in Addr
    /\ \A a \in Addr : \E n \in 1 .. Len(VA) : VA[n] = a
    /\ \A m, n \in 1 .. Len(VA) : VA[m] = VA[n] => m = n
<1>1. /\ Stack \in Seq(STRING \ {"code"}) /\ Len(Stack) \in Nat
      /\ \A i, j \in 1 .. Len(Stack) : Stack[i] = Stack[j] => i = j
      /\ DOMAIN Stack = 1 .. Len(Stack)
  BY VmmAssumption
<1>2. \A n \in 1 .. Len(Stack) : Stack[n] # "code"
  BY <1>1
<1>3. /\ Len(VA) = Len(Stack) + 1 /\ DOMAIN VA = 1 .. Len(VA)
      /\ VA[1] = "code"
      /\ \A n \in 1 .. Len(Stack) : VA[n + 1] = Stack[n]
      /\ \A n \in 2 .. Len(VA) : VA[n] = Stack[n - 1]
  BY <1>1 DEF VA
<1>4. \A n \in 1 .. Len(VA) : VA[n] \in Addr
  BY Zenon, <1>3 DEF Addr
<1>5. \A a \in Addr : \E n \in 1 .. Len(VA) : VA[n] = a
  BY Zenon, <1>3 DEF Addr
<1>6. ASSUME NEW m \in 1 .. Len(VA), NEW n \in 1 .. Len(VA), VA[m] = VA[n] PROVE m = n
  <2>1. CASE m = 1 \/ n = 1
    BY <1>1, <1>2, <1>3, <1>6, <2>1
  <2>2. CASE m # 1 /\ n # 1
    <3>1. /\ m \in 2 .. Len(VA) /\ n \in 2 .. Len(VA)
          /\ m - 1 \in 1 .. Len(Stack) /\ n - 1 \in 1 .. Len(Stack)
      BY <1>1, <1>3, <2>2
    <3>2. m - 1 = n - 1
      BY ZenonT(30), <1>1, <1>3, <1>6, <3>1
    <3> QED BY <3>1, <3>2
  <2> QED BY ZenonT(30), <2>1, <2>2
<1>7. "code" \in Addr /\ \A n \in 1 .. Len(Stack) : Stack[n] \in Addr
  <2>1. 1 \in 1 .. Len(VA) /\ \A n \in 1 .. Len(Stack) : n + 1 \in 1 .. Len(VA)
    BY <1>1, <1>3
  <2> QED BY Zenon, <1>3, <1>4, <2>1
<1> QED BY ZenonT(30), <1>1, <1>3, <1>4, <1>5, <1>6, <1>7

\* The code page is mapped into a well-built space.
LEMMA MapCodeFacts ==
    ASSUME NEW k, Built(k)
    PROVE  Built(MapCode(k)) /\ MapCode(k).buf = k.buf /\ (Clean(k) => Clean(MapCode(k)))
<1> DEFINE c == MapStackPage(k, "code")
           i == c.sp.map["code"].page
<1>1. Built(c) /\ c.buf = k.buf /\ (Clean(k) => Clean(c))
  BY Zenon, AddrFacts, MapStackPageFacts
<1>2. MapCode(k) = [c EXCEPT !.mem[i] = 0]
  BY DEF MapCode
<1> HIDE DEF c
<1>3. i \in Page
  BY ZenonT(30), <1>1, AddrFacts DEF Built, Sound, KernelType, SpaceType, PteType
<1> HIDE DEF i
<1> QED BY ZenonT(30), <1>1, <1>2, <1>3, SetMemFacts

\* build_user_stack writes to a page and leaves the space well built.
LEMMA BuildUserStackFacts ==
    ASSUME NEW k, Built(k)
    PROVE  Built(BuildUserStack(k)) /\ BuildUserStack(k).buf = k.buf
<1> DEFINE i == k.sp.map[Stack[1]].page
<1>1. Stack[1] \in Addr
  <2>1. \A m \in Nat : m > 0 => 1 \in 1 .. m
    OBVIOUS
  <2> QED BY Zenon, <2>1, AddrFacts, VmmAssumption
<1>2. i \in Page
  BY ZenonT(30), <1>1 DEF Built, Sound, KernelType, SpaceType, PteType
<1>3. BuildUserStack(k) = [k EXCEPT !.mem[i] = 0]
  BY ZenonT(30) DEF BuildUserStack
<1> HIDE DEF i
<1> QED BY Zenon, <1>2, <1>3, SetMemFacts

\* The loop over the stack pages, by induction over its turns.
LEMMA MapStackFacts ==
    ASSUME NEW k, Built(k)
    PROVE  Built(MapStack(k)) /\ MapStack(k).buf = k.buf /\ (Clean(k) => Clean(MapStack(k)))
<1> DEFINE N == Len(Stack)
           S == {c \in KernelType : Built(c) /\ c.buf = k.buf /\ (Clean(k) => Clean(c))}
           F == [n \in 1 .. N |-> [c \in S |-> MapStackPage(c, Stack[n])]]
           after == CHOOSE f : f = [n \in 0 .. N |-> IF n = 0 THEN k ELSE MapStackPage(f[n - 1], Stack[n])]
<1>1. N \in Nat /\ \A n \in 1 .. N : Stack[n] \in Addr
  BY Zenon, AddrFacts
<1>2. MapStack(k) = after[N]
  BY ZenonT(30) DEF MapStack, ForEach
<1>3. ASSUME NEW c \in S, NEW n \in 1 .. N PROVE MapStackPage(c, Stack[n]) \in S
  <2>1. /\ Built(MapStackPage(c, Stack[n])) /\ MapStackPage(c, Stack[n]).buf = k.buf
        /\ Clean(k) => Clean(MapStackPage(c, Stack[n]))
    BY ZenonT(30), <1>1, MapStackPageFacts
  <2> QED BY Zenon, <2>1 DEF Built, Sound
<1>4. k \in S
  BY ZenonT(30) DEF Built, Sound
<1> HIDE DEF N, S
<1>5. F \in [1 .. N -> [S -> S]]
  BY Zenon, <1>3
<1>6. after = [n \in 0 .. N |-> IF n = 0 THEN k ELSE MapStackPage(after[n - 1], Stack[n])]
  <2> HIDE DEF F
  <2>1. PICK g : IsLoop(g, N, S, k, F)
    BY Zenon, <1>1, <1>4, <1>5, LoopExists
  <2>2. g \in [0 .. N -> S] /\ g[0] = k /\ \A n \in 1 .. N : g[n] = F[n][g[n - 1]]
    BY Zenon, <2>1 DEF IsLoop
  <2>3. ASSUME NEW n \in 0 .. N PROVE g[n] = IF n = 0 THEN k ELSE MapStackPage(g[n - 1], Stack[n])
    <3>1. CASE n = 0
      BY Zenon, <2>2, <3>1
    <3>2. CASE n # 0
      <4>1. n \in 1 .. N /\ n - 1 \in 0 .. N
        BY <1>1, <3>2
      <4>2. g[n - 1] \in S /\ g[n] = F[n][g[n - 1]]
        BY Zenon, <2>2, <4>1
      <4> QED BY Zenon, <3>2, <4>1, <4>2 DEF F
    <3> QED BY Zenon, <3>1, <3>2
  <2>4. g = [n \in 0 .. N |-> g[n]]
    BY Zenon, <2>2
  <2>5. g = [n \in 0 .. N |-> IF n = 0 THEN k ELSE MapStackPage(g[n - 1], Stack[n])]
    BY <2>3, <2>4, Zenon
  <2> QED BY <2>5, Zenon
<1> HIDE DEF after, F
<1> DEFINE G == {n \in 0 .. N : after[n] \in S}
<1>7. 0 \in G
  <2>1. 0 \in 0 .. N
    BY <1>1
  <2> QED BY Zenon, <1>4, <1>6, <2>1
<1>8. ASSUME NEW n \in 1 .. N, n - 1 \in G PROVE n \in G
  <2>1. n \in 0 .. N /\ n # 0
    BY <1>1
  <2>2. after[n] = MapStackPage(after[n - 1], Stack[n])
    BY <1>6, <2>1, Zenon
  <2> QED BY Zenon, <1>3, <1>8, <2>1, <2>2
<1>9. N \in 0 .. N /\ \A n \in 0 .. N : n \in G
  <2>1. N \in 0 .. N
    BY <1>1
  <2> HIDE DEF G
  <2> QED BY Zenon, <1>1, <1>7, <1>8, <2>1, UpTo
<1> QED BY Zenon, <1>2, <1>9 DEF S

\* Built looks at the allocator, the buffer and the space only.
LEMMA SameSpace ==
    ASSUME NEW k, Built(k), NEW c \in KernelType, c.pm = k.pm, c.buf = k.buf, c.sp = k.sp
    PROVE  Built(c)
<1>1. Sound(c)
  BY ZenonT(30) DEF Built, Sound
<1> QED BY Zenon, <1>1 DEF Built

\* pmm_free of a table page that is in use, or of none.
LEMMA FreeTableFacts ==
    ASSUME NEW k, k \in KernelType, Quiet(k.pm), NEW t \in Page \ k.pm.free
    PROVE  /\ FreeTable(k, t) \in KernelType /\ Quiet(FreeTable(k, t).pm)
           /\ FreeTable(k, t).pm.free = k.pm.free \cup ({t} \ {NoPage})
           /\ FreeTable(k, t).sp = k.sp
           /\ FreeTable(k, t).buf = k.buf
           /\ FreeTable(k, t).mem = k.mem
<1>1. CASE t = NoPage
  BY ZenonT(30), <1>1 DEF FreeTable
<1>2. CASE t # NoPage
  <2> DEFINE q == AfterFree(k.pm, t)
             c == [k EXCEPT !.pm = q]
  <2>1. Quiet(q) /\ q.free = k.pm.free \cup {t}
    BY ZenonT(30), <1>2, QuietFree
  <2>2. FreeTable(k, t) = c
    BY ZenonT(30), <1>2 DEF FreeTable
  <2>3. q \in PmmType
    BY ZenonT(30), <2>1 DEF Quiet, PmmSound
  <2> HIDE DEF q
  <2>4. c \in KernelType /\ c.pm = q /\ c.buf = k.buf /\ c.sp = k.sp /\ c.mem = k.mem
    BY ZenonT(30), <2>3 DEF KernelType
  <2> HIDE DEF c
  <2>5. {t} = {t} \ {NoPage}
    BY ZenonT(30), <1>2
  <2> QED BY Zenon, <2>1, <2>2, <2>4, <2>5
<1> QED BY ZenonT(30), <1>1, <1>2

\* file_buf_free leaves the loaded space well built and forgets the buffer.
LEMMA FreeBufFacts ==
    ASSUME NEW k, Built(k)
    PROVE  /\ Built(FreeBuf(k)) /\ FreeBuf(k).buf = NoPage
           /\ FreeBuf(k).sp = k.sp /\ FreeBuf(k).mem = k.mem
<1> DEFINE t == FreeTable(k, k.buf)
           c == [t EXCEPT !.buf = NoPage]
<1>1. k \in KernelType /\ Quiet(k.pm) /\ k.buf \in Page \ k.pm.free /\ NoPage \in Page
  BY PmmAssumption DEF Built, Sound, KernelType, Page, NoPage
<1>2. /\ t \in KernelType /\ Quiet(t.pm) /\ t.pm.free = k.pm.free \cup ({k.buf} \ {NoPage})
      /\ t.sp = k.sp /\ t.mem = k.mem
  BY Zenon, <1>1, FreeTableFacts
<1>3. FreeBuf(k) = c
  BY DEF FreeBuf
<1> HIDE DEF t
<1>4. /\ c \in KernelType /\ c.pm = t.pm /\ c.sp = t.sp /\ c.mem = t.mem /\ c.buf = NoPage
  BY <1>1, <1>2 DEF KernelType
<1> HIDE DEF c
<1>5. NoPage \notin c.pm.free
  BY ZenonT(30), <1>2, <1>4 DEF Quiet, PmmSound
<1>6. Sound(c)
  BY ZenonT(30), <1>2, <1>4, <1>5 DEF Sound
<1>7. \A i : i \notin k.pm.free /\ Apart(i, k.buf) => i \notin c.pm.free /\ Apart(i, c.buf)
  BY <1>2, <1>4 DEF Apart
<1>8. Built(c)
  BY ZenonT(30), <1>2, <1>4, <1>6, <1>7 DEF Built
<1> QED BY ZenonT(30), <1>2, <1>3, <1>4, <1>8

\* uixfs_read exchanges the file buffer and leaves the loaded space alone.
LEMMA ReadFileFacts ==
    ASSUME NEW k, Built(k)
    PROVE  Built(ReadFile(k)) /\ ReadFile(k).sp = k.sp /\ ReadFile(k).mem = k.mem
<1> DEFINE f == FreeBuf(k)
           i == PmmAllocatedPages(f.pm, 1)
           q == AfterAllocPages(f.pm, 1)
           c == [f EXCEPT !.buf = i, !.pm = q]
<1>1. Built(f) /\ f.sp = k.sp /\ f.mem = k.mem
  BY Zenon, FreeBufFacts
<1>2. ReadFile(k) = c
  BY DEF ReadFile
<1> HIDE DEF f
<1>3. f \in KernelType /\ Quiet(f.pm)
  BY ZenonT(30), <1>1 DEF Built, Sound
<1>4. Quiet(q) /\ q.free = f.pm.free \ {i} /\ i \in Page /\ (i # NoPage => i \in f.pm.free)
  BY Zenon, <1>3, QuietAllocPage
<1>5. q \in PmmType
  BY ZenonT(30), <1>4 DEF Quiet, PmmSound
<1> HIDE DEF i, q
<1>6. c \in KernelType /\ c.pm = q /\ c.buf = i /\ c.sp = f.sp /\ c.mem = f.mem
  BY ZenonT(30), <1>3, <1>4, <1>5 DEF KernelType
<1> HIDE DEF c
<1>7. Sound(c)
  BY ZenonT(30), <1>4, <1>6 DEF Sound
<1>8. \A j : j \notin f.pm.free => j \notin c.pm.free /\ Apart(j, c.buf)
  BY ZenonT(30), <1>4, <1>6 DEF Apart
<1>9. Built(c)
  BY Zenon, <1>1, <1>6, <1>7, <1>8 DEF Built
<1> QED BY Zenon, <1>1, <1>2, <1>6, <1>9

\* Nothing happens to the leaf pages: they are lost to the allocator.
LEMMA UnrefLeafFacts ==
    ASSUME NEW k, Built(k), NEW a \in Addr
    PROVE  UnrefLeaf(k, a) = k
<1> DEFINE i == k.sp.map[a].page
<1>1. k \in KernelType /\ ~k.pm.grown
  BY ZenonT(30) DEF Built, Sound, Quiet
<1>2. AfterUnref(k.pm, i) = k.pm
  BY ZenonT(30), <1>1 DEF AfterUnref
<1>3. [k EXCEPT !.pm = AfterUnref(k.pm, i)] = k
  <2> HIDE DEF i
  <2>1. [k EXCEPT !.pm = k.pm] = k
    BY ZenonT(30), <1>1 DEF KernelType
  <2> QED BY ZenonT(30), <1>2, <2>1
<1> QED BY ZenonT(30), <1>3 DEF UnrefLeaf

\* free_user_tables and the pmm_free of the PML4 free two pages that are not free
\* yet: the allocator stays sound.
LEMMA FreeSpaceFacts ==
    ASSUME NEW k, Built(k)
    PROVE  Sound(FreeSpace(k)) /\ FreeSpace(k).buf = k.buf
<1> DEFINE N == Len(VA)
           after == CHOOSE f : f = [n \in 0 .. N |-> IF n = 0 THEN k ELSE UnrefLeaf(f[n - 1], VA[n])]
           p == FreeTable(k, k.sp.pt)
           r == FreeTable(p, k.sp.root)
<1>1. N \in Nat /\ \A n \in 1 .. N : VA[n] \in Addr
  BY AddrFacts
<1>2. ForEach(UnrefLeaf, k, VA) = after[N]
  BY DEF ForEach
<1> HIDE DEF N
<1>3. \A n \in 1 .. N : UnrefLeaf(k, VA[n]) = k
  BY Zenon, <1>1, UnrefLeafFacts
<1>4. after = [n \in 0 .. N |-> IF n = 0 THEN k ELSE UnrefLeaf(after[n - 1], VA[n])]
  <2> DEFINE g == [n \in 0 .. N |-> k]
  <2>1. ASSUME NEW n \in 0 .. N PROVE g[n] = IF n = 0 THEN k ELSE UnrefLeaf(g[n - 1], VA[n])
    <3>1. n # 0 => n \in 1 .. N /\ n - 1 \in 0 .. N
      BY <1>1
    <3> QED BY Zenon, <1>3, <3>1
  <2>2. g = [n \in 0 .. N |-> g[n]]
    BY Zenon
  <2> HIDE DEF g
  <2>3. g = [n \in 0 .. N |-> IF n = 0 THEN k ELSE UnrefLeaf(g[n - 1], VA[n])]
    BY Zenon, <2>1, <2>2
  <2> QED BY Zenon, <2>3
<1> HIDE DEF after
<1> DEFINE G == {n \in 0 .. N : after[n] = k}
<1>5. 0 \in G
  <2>1. 0 \in 0 .. N
    BY <1>1
  <2> QED BY Zenon, <1>4, <2>1
<1>6. ASSUME NEW n \in 1 .. N, n - 1 \in G PROVE n \in G
  <2>1. n \in 0 .. N /\ n # 0
    BY <1>1
  <2>2. after[n] = UnrefLeaf(after[n - 1], VA[n])
    BY <1>4, <2>1, Zenon
  <2> QED BY Zenon, <1>3, <1>6, <2>1, <2>2
<1>7. after[N] = k
  <2>1. N \in 0 .. N
    BY <1>1
  <2> HIDE DEF G
  <2>2. N \in G
    BY Zenon, <1>1, <1>5, <1>6, <2>1, UpTo
  <2> QED BY ZenonT(30), <2>2 DEF G
<1>8. FreeSpace(k) = r
  BY ZenonT(30), <1>2, <1>7 DEF FreeSpace
<1>9. /\ k \in KernelType /\ Quiet(k.pm) /\ k.buf \notin k.pm.free
      /\ k.sp.pt \in Page \ k.pm.free /\ k.sp.root \in Page \ k.pm.free
  BY ZenonT(30) DEF Built, Sound, KernelType, SpaceType
<1>10. /\ p \in KernelType /\ Quiet(p.pm) /\ p.pm.free = k.pm.free \cup ({k.sp.pt} \ {NoPage})
       /\ p.buf = k.buf
  BY ZenonT(30), <1>9, FreeTableFacts
<1> HIDE DEF p
<1>11. k.sp.root \in Page \ p.pm.free
  BY ZenonT(30), <1>9, <1>10 DEF Built, Apart
<1>12. /\ r \in KernelType /\ Quiet(r.pm) /\ r.pm.free = p.pm.free \cup ({k.sp.root} \ {NoPage})
       /\ r.buf = p.buf
  BY ZenonT(30), <1>10, <1>11, FreeTableFacts
<1> HIDE DEF r
<1>13. k.buf \notin r.pm.free
  <2>1. k.buf \notin {k.sp.pt} \ {NoPage} /\ k.buf \notin {k.sp.root} \ {NoPage}
    BY ZenonT(30) DEF Built, Apart
  <2> QED BY ZenonT(30), <1>9, <1>10, <1>12, <2>1
<1> QED BY ZenonT(30), <1>8, <1>10, <1>12, <1>13 DEF Sound

-----------------------------------------------------------------------------
(* One process, any number of execve calls.                                 *)

\* The machine before user_task_create.
BootState == [pm |-> PmmBoot, mem |-> [i \in Page |-> 0], khalf |-> {},
              buf |-> NoPage, oom |-> FALSE, sp |-> NoSpace]

\* What user_task_create makes.
BootSpace == MapStack(MapCode(CreateSpace(BootState, NoPage)))

\* The first process starts in a well-built space of zeroed pages.
LEMMA BootFacts == Built(BootSpace) /\ BootSpace.buf = NoPage /\ Clean(BootSpace)
<1>1. PmmSound(PmmBoot) /\ PmmBoot.panic = FALSE /\ PmmBoot.grown = FALSE
      /\ \A i \in Page : PmmBoot.refs[i] = 0
  BY ZenonT(30), BootIsSound DEF PmmBoot
<1>2. Quiet(PmmBoot) /\ PmmBoot \in PmmType /\ NoPage \notin PmmBoot.free
  BY ZenonT(30), <1>1 DEF Quiet, PmmSound
<1>3. NoPage \in Page /\ 0 \in Content
  BY PmmAssumption DEF Page, NoPage, Content
<1>4. NoSpace \in SpaceType
  BY ZenonT(30), <1>3 DEF NoSpace, SpaceType, NoPte, PteType
<1>5. BootState \in KernelType /\ BootState.pm = PmmBoot /\ BootState.buf = NoPage /\ Clean(BootState)
  <2> HIDE DEF PmmBoot, NoSpace
  <2> QED BY ZenonT(30), <1>2, <1>3, <1>4 DEF BootState, KernelType, Clean
<1>6. Sound(BootState)
  BY Zenon, <1>2, <1>5 DEF Sound
<1> DEFINE c == CreateSpace(BootState, NoPage)
<1>7. Built(c) /\ c.buf = NoPage /\ Clean(c)
  BY Zenon, <1>5, <1>6, CreateSpaceFacts
<1> HIDE DEF c
<1>8. Built(MapCode(c)) /\ MapCode(c).buf = NoPage /\ Clean(MapCode(c))
  BY Zenon, <1>7, MapCodeFacts
<1> QED BY Zenon, <1>8, MapStackFacts DEF BootSpace, c

\* The inductive invariant of a process that calls execve: its space is well
\* built, and the TLB caches what the loaded page table says.
ExecInv ==
    /\ space \in [Process -> SpaceType]
    /\ Built(Kernel(space[1]))
    /\ alive \in SUBSET {1} /\ cur \in alive \cup {Idle}
    /\ tlb \in [Addr -> Page]
    /\ TlbAgrees

\* What execve's record k is made of, and what it is when the file is found.
Found(image) == IF image \in OnDisk THEN ReadFile(Kernel(space[cur])) ELSE Kernel(space[cur])

\* execve returns before it touches the space: no such file, or no buffer for it.
Enoent(image) == \/ image \in {"none", "unread"}
                 \/ image \in OnDisk /\ Found(image).buf = NoPage

\* The old space is freed and a new one made.
NewSpace(image) == CreateSpace(FreeSpace(Found(image)), space[cur].root)

\* The image and the stack are mapped into it.
Loaded(image) ==
    LET mapped == MapStack(MapCode(NewSpace(image)))
        stacked == IF image = "elf" THEN BuildUserStack(mapped) ELSE mapped
    IN IF image \in OnDisk THEN FreeBuf(stacked) ELSE stacked

\* The record that execve ends with.
ExecResult(image) ==
    IF Enoent(image) THEN Found(image)
    ELSE IF image = "bad" \/ CodeFails(NewSpace(image), image) THEN NewSpace(image)
    ELSE Loaded(image)

\* DoExecve in these names.
LEMMA ExecveSteps ==
    ASSUME NEW image, DoExecve(image)
    PROVE  /\ Running
           /\ Leave(ExecResult(image))
           /\ space' = [space EXCEPT ![cur] = ExecResult(image).sp]
           /\ tlb' = IF Enoent(image) THEN tlb ELSE Flushed
           /\ view' = IF Enoent(image) THEN view
                      ELSE [view EXCEPT ![cur] = Contents(ExecResult(image).sp, ExecResult(image).mem)]
           /\ alive' = alive /\ cur' = cur
BY Zenon DEF DoExecve, ExecResult, Loaded, NewSpace, Enoent, Found, LoadCr3

\* Every way out of execve leaves a well-built space, and an early one the old
\* space.
LEMMA ExecveBuilds ==
    ASSUME NEW image, Built(Kernel(space[cur]))
    PROVE  /\ Built(ExecResult(image))
           /\ Enoent(image) => ExecResult(image).sp = space[cur] /\ ExecResult(image).mem = mem
<1> DEFINE k == Kernel(space[cur])
<1>0. k.sp = space[cur] /\ k.mem = mem
  BY ZenonT(30) DEF Kernel
<1>1. Built(Found(image)) /\ Found(image).sp = k.sp /\ Found(image).mem = k.mem
  <2>1. CASE image \in OnDisk
    BY Zenon, <2>1, ReadFileFacts DEF Found
  <2>2. CASE image \notin OnDisk
    BY Zenon, <2>2 DEF Found
  <2> QED BY Zenon, <2>1, <2>2
<1> HIDE DEF k
<1>2. Built(NewSpace(image))
  BY Zenon, <1>1, FreeSpaceFacts, CreateSpaceFacts DEF NewSpace
<1>3. Built(MapStack(MapCode(NewSpace(image))))
  BY Zenon, <1>2, MapCodeFacts, MapStackFacts
<1>4. Built(Loaded(image))
  BY Zenon, <1>3, BuildUserStackFacts, FreeBufFacts DEF Loaded
<1> QED BY Zenon, <1>0, <1>1, <1>2, <1>4 DEF ExecResult

\* A handler leaves the machine as it has built it.
LEMMA LeaveFacts ==
    ASSUME NEW k, Built(k), Leave(k), NEW s, s = k.sp
    PROVE  Built([pm |-> pm', mem |-> mem', khalf |-> khalf', buf |-> buf', oom |-> FALSE, sp |-> s])
<1> DEFINE c == [pm |-> pm', mem |-> mem', khalf |-> khalf', buf |-> buf', oom |-> FALSE, sp |-> s]
<1>1. k \in KernelType
  BY ZenonT(30) DEF Built, Sound
<1>2. pm' = k.pm /\ mem' = k.mem /\ khalf' = k.khalf /\ buf' = k.buf
  BY DEF Leave
<1>3. c \in KernelType /\ c.pm = k.pm /\ c.buf = k.buf /\ c.sp = k.sp
  BY ZenonT(30), <1>1, <1>2 DEF KernelType
<1> HIDE DEF c
<1> QED BY ZenonT(30), <1>3, SameSpace DEF c

\* user_task_create establishes ExecInv.
LEMMA ExecInit ==
    ASSUME Process = {1}, VmmInit
    PROVE  ExecInv
<1> DEFINE k == BootSpace
           c == Kernel(space[1])
<1>1. /\ pm = k.pm /\ mem = k.mem /\ khalf = k.khalf /\ buf = NoPage
      /\ space = [p \in Process |-> IF p = 1 THEN k.sp ELSE NoSpace]
      /\ alive = {1} /\ cur = 1 /\ tlb = Flushed
  BY Zenon DEF VmmInit, BootSpace, BootState
<1>2. Built(k) /\ k.buf = NoPage
  BY ZenonT(30), BootFacts
<1> HIDE DEF k
<1>3. k \in KernelType
  BY ZenonT(30), <1>2 DEF Built, Sound
<1>4. k.sp \in SpaceType
  BY ZenonT(30), <1>3 DEF KernelType
<1>5. space[1] = k.sp /\ space \in [Process -> SpaceType]
  BY ZenonT(30), <1>1, <1>4
<1>6. c \in KernelType /\ c.pm = k.pm /\ c.buf = k.buf /\ c.sp = k.sp
  BY ZenonT(30), <1>1, <1>2, <1>3, <1>5 DEF Kernel, KernelType
<1>7. Built(c)
  <2> HIDE DEF c
  <2> QED BY Zenon, <1>2, <1>6, SameSpace
<1>8. tlb \in [Addr -> Page] /\ \A a \in Addr : tlb[a] = NoPage
  BY SMTT(30), <1>1, PmmAssumption DEF Flushed, Page, NoPage
<1> QED BY ZenonT(30), <1>1, <1>5, <1>7, <1>8 DEF ExecInv, TlbAgrees

\* A step that leaves the page tables and the allocator alone.
LEMMA StillBuilt ==
    ASSUME Built(Kernel(space[1])), UNCHANGED <<pm, khalf, buf, space>>,
           mem' \in [Page -> Content]
    PROVE  Built(Kernel(space[1]))'
<1> DEFINE k == Kernel(space[1])
           c == k'
<1>1. k \in KernelType
  BY ZenonT(30) DEF Built, Sound
<1>2. c \in KernelType /\ c.pm = k.pm /\ c.buf = k.buf /\ c.sp = k.sp
  BY ZenonT(30), <1>1 DEF Kernel, KernelType
<1>3. Built(c)
  <2> HIDE DEF k, c
  <2> QED BY Zenon, <1>2, SameSpace DEF k
<1> QED BY ZenonT(30), <1>3 DEF Built

\* Every handler keeps ExecInv when there is one process.
LEMMA ExecNext ==
    ASSUME Process = {1}, ExecInv, [VmmNext]_vmmVars
    PROVE  ExecInv'
<1>0. /\ space \in [Process -> SpaceType] /\ Built(Kernel(space[1]))
      /\ alive \in SUBSET {1} /\ cur \in alive \cup {Idle}
      /\ tlb \in [Addr -> Page] /\ TlbAgrees
      /\ cur # Idle => cur = 1 /\ alive = {1}
  BY ZenonT(30) DEF ExecInv
<1>1. mem \in [Page -> Content] /\ NoPage \in Page
  <2>1. Kernel(space[1]) \in KernelType /\ Kernel(space[1]).mem = mem
    BY Zenon, <1>0 DEF Built, Sound, Kernel
  <2>2. mem \in [Page -> Content]
    BY ZenonT(30), <2>1 DEF KernelType
  <2>3. NoPage \in Page
    BY PmmAssumption DEF Page, NoPage
  <2> QED BY Zenon, <2>2, <2>3
<1>2. Flushed \in [Addr -> Page] /\ \A a \in Addr : Flushed[a] = NoPage
  BY ZenonT(30), <1>1 DEF Flushed
<1>3. ASSUME NEW q \in {Idle} \cup Process, Switch(q) PROVE ExecInv'
  <2>1. /\ q \in (alive \cup {Idle}) \ {cur} /\ cur' = q
        /\ tlb' = IF q = Idle THEN tlb ELSE Flushed
        /\ UNCHANGED <<pm, mem, khalf, buf, space, alive>>
    BY ZenonT(30), <1>3 DEF Switch, LoadCr3
  <2>2. Built(Kernel(space[1]))'
    BY Zenon, <1>0, <1>1, <2>1, StillBuilt
  <2>3. TlbAgrees' /\ tlb' \in [Addr -> Page]
    BY ZenonT(30), <1>0, <1>2, <2>1 DEF TlbAgrees
  <2> QED BY ZenonT(30), <1>0, <2>1, <2>2, <2>3 DEF ExecInv
<1>4. ASSUME NEW q \in {Idle} \cup Process, Exit(q) PROVE ExecInv'
  <2>1. /\ q \in (alive \cup {Idle}) \ {cur} /\ cur' = q /\ alive' = alive \ {cur}
        /\ tlb' = IF q = Idle THEN tlb ELSE Flushed
        /\ UNCHANGED <<pm, mem, khalf, buf, space>>
    BY ZenonT(30), <1>4 DEF Exit, LoadCr3
  <2>2. Built(Kernel(space[1]))'
    BY Zenon, <1>0, <1>1, <2>1, StillBuilt
  <2>3. TlbAgrees' /\ tlb' \in [Addr -> Page]
    BY ZenonT(30), <1>0, <1>2, <2>1 DEF TlbAgrees
  <2> QED BY ZenonT(30), <1>0, <2>1, <2>2, <2>3 DEF ExecInv
<1>5. ASSUME NEW q \in {Idle} \cup Process, Fork(q) PROVE ExecInv'
  <2>1. cur # Idle /\ q \in Process \ alive
    BY ZenonT(30), <1>5 DEF Fork, Running
  <2> QED BY ZenonT(30), <1>0, <2>1
<1>6. ASSUME NEW a \in Addr, Write(a) PROVE ExecInv'
  <2> DEFINE page == IF tlb[a] # NoPage THEN tlb[a] ELSE space[cur].map[a].page
  <2>1. /\ cur # Idle
        /\ tlb[a] # NoPage \/ (space[cur].map[a].present /\ space[cur].map[a].w)
        /\ mem' = IF a \in Tracked THEN [mem EXCEPT ![page] = cur] ELSE mem
        /\ tlb' = [tlb EXCEPT ![a] = page]
        /\ UNCHANGED <<pm, khalf, buf, space, alive, cur>>
    BY ZenonT(30), <1>6 DEF Write, Running
  <2>2. page \in Page
    BY ZenonT(30), <1>0, <2>1 DEF SpaceType, PteType
  <2>3. mem' \in [Page -> Content]
    BY ZenonT(30), <1>0, <1>1, <2>1, <2>2 DEF Content
  <2>4. Built(Kernel(space[1]))'
    BY ZenonT(30), <1>0, <2>1, <2>3, StillBuilt
  <2>5. space[cur].map[a].w /\ space[cur].map[a].page = page
    BY ZenonT(30), <1>0, <2>1 DEF TlbAgrees
  <2> HIDE DEF page
  <2>6. TlbAgrees' /\ tlb' \in [Addr -> Page]
    BY ZenonT(30), <1>0, <2>1, <2>2, <2>5 DEF TlbAgrees
  <2> QED BY ZenonT(30), <1>0, <2>1, <2>4, <2>6 DEF ExecInv
<1>7. ASSUME NEW a \in Addr, Evict(a) PROVE ExecInv'
  <2>1. /\ tlb' = [tlb EXCEPT ![a] = NoPage]
        /\ UNCHANGED <<pm, mem, khalf, buf, space, alive, cur>>
    BY ZenonT(30), <1>7 DEF Evict
  <2>2. Built(Kernel(space[1]))'
    BY Zenon, <1>0, <1>1, <2>1, StillBuilt
  <2>3. TlbAgrees' /\ tlb' \in [Addr -> Page]
    BY ZenonT(30), <1>0, <1>1, <2>1 DEF TlbAgrees
  <2> QED BY ZenonT(30), <1>0, <2>1, <2>2, <2>3 DEF ExecInv
<1>8. ASSUME NEW a \in Addr, PageFault(a) PROVE ExecInv'
  <2>1. cur # Idle
    BY ZenonT(30), <1>8 DEF PageFault, Running
  <2>2. ~space[cur].map[a].cow
    BY ZenonT(30), <1>0, <2>1 DEF Built, Kernel
  <2>3. UNCHANGED <<pm, mem, space, khalf, buf, alive, cur, tlb>>
    BY ZenonT(30), <1>8, <2>2 DEF PageFault
  <2>4. Built(Kernel(space[1]))'
    BY ZenonT(30), <1>0, <1>1, <2>3, StillBuilt
  <2> QED BY ZenonT(30), <1>0, <2>3, <2>4 DEF ExecInv, TlbAgrees
<1>9. ASSUME NEW image \in Images, DoExecve(image) PROVE ExecInv'
  <2> DEFINE k == ExecResult(image)
  <2>1. /\ Running /\ Leave(k) /\ space' = [space EXCEPT ![cur] = k.sp]
        /\ tlb' = IF Enoent(image) THEN tlb ELSE Flushed
        /\ alive' = alive /\ cur' = cur
    BY Zenon, <1>9, ExecveSteps
  <2>2. cur = 1
    BY ZenonT(30), <1>0, <2>1 DEF Running
  <2>3. Built(k) /\ (Enoent(image) => k.sp = space[cur])
    BY ZenonT(30), <1>0, <2>2, ExecveBuilds
  <2> HIDE DEF k
  <2>4. k.sp \in SpaceType
    BY ZenonT(30), <2>3 DEF Built, Sound, KernelType
  <2>5. space' \in [Process -> SpaceType] /\ space'[1] = k.sp
    BY ZenonT(30), <1>0, <2>1, <2>2, <2>4
  <2>6. Built(Kernel(space[1]))'
    <3>1. Built([pm |-> pm', mem |-> mem', khalf |-> khalf', buf |-> buf', oom |-> FALSE, sp |-> k.sp])
      BY Zenon, <2>1, <2>3, LeaveFacts
    <3>2. Kernel(space[1])' = [pm |-> pm', mem |-> mem', khalf |-> khalf', buf |-> buf', oom |-> FALSE, sp |-> k.sp]
      BY ZenonT(30), <2>5 DEF Kernel
    <3>3. Built(Kernel(space[1])')
      BY Zenon, <3>1, <3>2
    <3> QED BY ZenonT(30), <3>3 DEF Built
  <2>7. TlbAgrees' /\ tlb' \in [Addr -> Page]
    <3>1. CASE Enoent(image)
      BY ZenonT(30), <1>0, <2>1, <2>2, <2>3, <2>5, <3>1 DEF TlbAgrees
    <3>2. CASE ~Enoent(image)
      BY ZenonT(30), <1>2, <2>1, <3>2 DEF TlbAgrees
    <3> QED BY ZenonT(30), <3>1, <3>2
  <2> QED BY ZenonT(30), <1>0, <2>1, <2>5, <2>6, <2>7 DEF ExecInv
<1>10. ASSUME UNCHANGED vmmVars PROVE ExecInv'
  <2>1. UNCHANGED <<pm, mem, khalf, buf, space, alive, cur, tlb>>
    BY ZenonT(30), <1>10 DEF vmmVars
  <2>2. Built(Kernel(space[1]))'
    BY Zenon, <1>0, <1>1, <2>1, StillBuilt
  <2> QED BY ZenonT(30), <1>0, <2>1, <2>2 DEF ExecInv, TlbAgrees
<1> QED BY Zenon, <1>3, <1>4, <1>5, <1>6, <1>7, <1>8, <1>9, <1>10 DEF VmmNext

\* A process that calls execve, however often and with whatever image, keeps its
\* page tables, its leaves and the file buffer apart and off the free list
\* (exec.c, vmm_create_space, vmm_map, free_user_tables, uixfs_read).
THEOREM ExecInvariant ==
    ASSUME Process = {1}
    PROVE  VmmSpec => []ExecInv
<1>1. VmmInit => ExecInv
  BY ZenonT(30), ExecInit
<1>2. ExecInv /\ [VmmNext]_vmmVars => ExecInv'
  BY ZenonT(30), ExecNext
<1> QED BY <1>1, <1>2, PTL DEF VmmSpec

\* Each page is in one use, free, PML4, page table, file buffer or one address, also
\* when the allocator runs dry in the middle of execve (exec.c, vmm_map, uixfs_read).
THEOREM ExecPagesHaveOneUse ==
    ASSUME Process = {1}
    PROVE  VmmSpec => []OneUse
<1>1. ExecInv => OneUse
  <2> SUFFICES ASSUME ExecInv PROVE OneUse
    OBVIOUS
  <2> DEFINE s == space[1]
  <2>1. /\ alive \in SUBSET {1} /\ s.root \notin pm.free /\ s.pt \notin pm.free
        /\ buf \notin pm.free
        /\ Apart(s.root, s.pt) /\ Apart(s.root, buf) /\ Apart(s.pt, buf)
    BY ZenonT(30) DEF ExecInv, Built, Sound, Kernel
  <2>2. /\ \A a \in Addr : /\ s.map[a].page \notin pm.free /\ Apart(s.map[a].page, buf)
                           /\ Apart(s.map[a].page, s.root) /\ Apart(s.map[a].page, s.pt)
        /\ \A a, b \in Addr : a # b => Apart(s.map[a].page, s.map[b].page)
    BY ZenonT(30) DEF ExecInv, Built, Kernel
  <2>3. MappedIsNotFree
    <3> SUFFICES ASSUME NEW i \in InUse, i \in pm.free PROVE FALSE
      BY ZenonT(30) DEF MappedIsNotFree
    <3>1. \E p \in alive : \/ i = space[p].root \/ i = space[p].pt
                           \/ \E a \in Addr : i = space[p].map[a].page
      BY ZenonT(30) DEF InUse
    <3> QED BY ZenonT(30), <2>1, <2>2, <3>1
  <2>4. \A p \in alive : p = 1
    BY ZenonT(30), <2>1
  <2> QED BY ZenonT(30), <2>1, <2>2, <2>3, <2>4 DEF OneUse
<1> QED BY <1>1, ExecInvariant, PTL

\* execve and uixfs_read never run into pmm_free's "double free" panic: each
\* frees only what it still holds (free_user_tables, file_buf_free).
THEOREM ExecFreesOnce ==
    ASSUME Process = {1}
    PROVE  VmmSpec => []NoDoubleFree
<1>1. ExecInv => NoDoubleFree
  BY ZenonT(30) DEF ExecInv, Built, Sound, Quiet, Kernel, NoDoubleFree
<1> QED BY <1>1, ExecInvariant, PTL

\* The TLB holds no translation that the loaded page table does not have: execve
\* loads CR3 after it has replaced the space, and no later vmm_map changes an
\* entry that may be cached (exec.c, schedule).
THEOREM ExecTlbAgrees ==
    ASSUME Process = {1}
    PROVE  VmmSpec => []TlbAgrees
<1>1. ExecInv => TlbAgrees
  BY ZenonT(30) DEF ExecInv
<1> QED BY <1>1, ExecInvariant, PTL

\* No address of process p leads to page 0.
NoneFailed(p) == \A a \in Addr : space[p].map[a].present => space[p].map[a].page # NoPage

\* What a process finds at its addresses is what it put there.
IsolationInv ==
    /\ view \in [Process -> [Addr -> Content]]
    /\ \A p \in alive : NoneFailed(p) => Contents(space[p], mem) = view[p]

\* The first image is what user_task_create put into zeroed pages.
LEMMA IsolationInit ==
    ASSUME Process = {1}, VmmInit
    PROVE  IsolationInv
<1> DEFINE k == BootSpace
<1>1. /\ mem = k.mem /\ space = [p \in Process |-> IF p = 1 THEN k.sp ELSE NoSpace]
      /\ alive = {1} /\ view = [p \in Process |-> [a \in Addr |-> 0]]
  BY ZenonT(30) DEF VmmInit, BootSpace, BootState
<1>2. k \in KernelType /\ Clean(k)
  BY ZenonT(30), BootFacts DEF Built, Sound
<1> HIDE DEF k
<1>3. space[1] = k.sp /\ \A a \in Addr : mem[space[1].map[a].page] = 0
  BY ZenonT(30), <1>1, <1>2 DEF KernelType, SpaceType, PteType, Clean
<1>4. view \in [Process -> [Addr -> Content]]
  BY ZenonT(30), <1>1 DEF Content
<1>5. Contents(space[1], mem) = view[1]
  BY ZenonT(30), <1>1, <1>3 DEF Contents
<1> QED BY ZenonT(30), <1>1, <1>4, <1>5 DEF IsolationInv

\* A store reaches the page of its own address and no other.
LEMMA IsolationNext ==
    ASSUME Process = {1}, ExecInv, IsolationInv, [VmmNext]_vmmVars
    PROVE  IsolationInv'
<1>0. /\ space \in [Process -> SpaceType] /\ Built(Kernel(space[1]))
      /\ alive \in SUBSET {1} /\ cur \in alive \cup {Idle}
      /\ tlb \in [Addr -> Page] /\ TlbAgrees
      /\ cur # Idle => cur = 1 /\ alive = {1}
      /\ view \in [Process -> [Addr -> Content]]
      /\ \A p \in alive : NoneFailed(p) => Contents(space[p], mem) = view[p]
  BY ZenonT(30) DEF ExecInv, IsolationInv
<1>1. mem \in [Page -> Content]
  BY ZenonT(30), <1>0 DEF Built, Sound, KernelType, Kernel
<1>2. ASSUME UNCHANGED <<mem, space, view>>, alive' \subseteq alive PROVE IsolationInv'
  BY ZenonT(30), <1>0, <1>2 DEF IsolationInv, NoneFailed, Contents
<1>3. ASSUME NEW q \in {Idle} \cup Process, Switch(q) \/ Exit(q) PROVE IsolationInv'
  <2>1. UNCHANGED <<mem, space, view>> /\ alive' \subseteq alive
    BY ZenonT(30), <1>3 DEF Switch, Exit
  <2> QED BY Zenon, <1>2, <2>1
<1>4. ASSUME NEW q \in {Idle} \cup Process, Fork(q) PROVE IsolationInv'
  <2>1. cur # Idle /\ q \in Process \ alive
    BY ZenonT(30), <1>4 DEF Fork, Running
  <2> QED BY ZenonT(30), <1>0, <2>1
<1>5. ASSUME NEW a \in Addr, Write(a) PROVE IsolationInv'
  <2> DEFINE page == IF tlb[a] # NoPage THEN tlb[a] ELSE space[cur].map[a].page
             map == space[1].map
  <2>1. /\ cur # Idle
        /\ tlb[a] # NoPage \/ (space[cur].map[a].present /\ space[cur].map[a].w)
        /\ mem' = IF a \in Tracked THEN [mem EXCEPT ![page] = cur] ELSE mem
        /\ view' = IF a \in Tracked THEN [view EXCEPT ![cur][a] = cur] ELSE view
        /\ UNCHANGED <<space, alive>>
    BY ZenonT(30), <1>5 DEF Write, Running
  <2>2. cur = 1 /\ alive = {1}
    BY ZenonT(30), <1>0, <2>1
  <2>3. CASE a \notin Tracked
    BY ZenonT(30), <1>2, <2>1, <2>3
  <2>4. CASE a \in Tracked
    <3>1. page = map[a].page
      BY ZenonT(30), <1>0, <2>1, <2>2 DEF TlbAgrees
    <3> SUFFICES ASSUME NoneFailed(1) PROVE IsolationInv'
      <4>1. (NoneFailed(1) <=> NoneFailed(1)') /\ view' \in [Process -> [Addr -> Content]]
        BY ZenonT(30), <1>0, <2>1, <2>2, <2>4 DEF NoneFailed, Content
      <4> QED BY ZenonT(30), <2>1, <2>2, <4>1 DEF IsolationInv
    <3>2. page # NoPage
      BY ZenonT(30), <2>1, <2>2, <3>1 DEF NoneFailed
    <3>3. \A b \in Addr : b # a => map[b].page # page
      BY ZenonT(30), <1>0, <3>1, <3>2 DEF Built, Kernel, Apart
    <3>4. \A b \in Addr : map[b].page \in Page
      BY <1>0 DEF SpaceType, PteType
    <3> HIDE DEF page, map
    <3>5. /\ \A b \in Addr : mem'[map[b].page] = IF b = a THEN 1 ELSE mem[map[b].page]
      <4>1. mem \in [Page -> Content] /\ mem' = [mem EXCEPT ![page] = 1] /\ page \in Page
        BY ZenonT(30), <1>1, <2>1, <2>2, <2>4, <3>1, <3>4
      <4> QED BY ZenonT(30), <3>1, <3>3, <3>4, <4>1
    <3>6. view' \in [Process -> [Addr -> Content]] /\ view'[1] \in [Addr -> Content]
      BY ZenonT(30), <1>0, <2>1, <2>2, <2>4 DEF Content
    <3>7. \A b \in Addr : view'[1][b] = IF b = a THEN 1 ELSE view[1][b]
      BY ZenonT(30), <1>0, <2>1, <2>2, <2>4
    <3>8. \A b \in Addr : mem[map[b].page] = view[1][b]
      BY ZenonT(30), <1>0, <2>2 DEF Contents, map
    <3>9. Contents(space'[1], mem') = view'[1]
      <4>1. \A b \in Addr : mem'[map[b].page] = view'[1][b]
        BY ZenonT(30), <3>5, <3>7, <3>8
      <4>2. Contents(space'[1], mem') = [b \in Addr |-> mem'[map[b].page]]
        BY <2>1 DEF Contents, map
      <4> QED BY ZenonT(30), <3>6, <4>1, <4>2
    <3> QED BY ZenonT(30), <2>1, <2>2, <3>6, <3>9 DEF IsolationInv
  <2> QED BY ZenonT(30), <2>3, <2>4
<1>6. ASSUME NEW a \in Addr, Evict(a) PROVE IsolationInv'
  <2>1. UNCHANGED <<mem, space, view, alive>>
    BY ZenonT(30), <1>6 DEF Evict
  <2> QED BY Zenon, <1>2, <2>1
<1>7. ASSUME NEW a \in Addr, PageFault(a) PROVE IsolationInv'
  <2>1. cur # Idle
    BY ZenonT(30), <1>7 DEF PageFault, Running
  <2>2. ~space[cur].map[a].cow
    BY ZenonT(30), <1>0, <2>1 DEF Built, Kernel
  <2>3. UNCHANGED <<mem, space, view, alive>>
    BY ZenonT(30), <1>7, <2>2 DEF PageFault
  <2> QED BY Zenon, <1>2, <2>3
<1>8. ASSUME NEW image \in Images, DoExecve(image) PROVE IsolationInv'
  <2> DEFINE k == ExecResult(image)
  <2>1. /\ Running /\ Leave(k) /\ space' = [space EXCEPT ![cur] = k.sp]
        /\ view' = IF Enoent(image) THEN view
                   ELSE [view EXCEPT ![cur] = Contents(k.sp, k.mem)]
        /\ alive' = alive
    BY Zenon, <1>8, ExecveSteps
  <2>2. cur = 1 /\ alive = {1}
    BY ZenonT(30), <1>0, <2>1 DEF Running
  <2>3. Built(k) /\ (Enoent(image) => k.sp = space[cur] /\ k.mem = mem)
    BY ZenonT(30), <1>0, <2>2, ExecveBuilds
  <2> HIDE DEF k
  <2>4. mem' = k.mem /\ space'[1] = k.sp
    BY ZenonT(30), <1>0, <2>1, <2>2 DEF Leave
  <2>5. CASE Enoent(image)
    <3>1. space' = space
      BY ZenonT(30), <1>0, <2>1, <2>2, <2>3, <2>5
    <3> QED BY ZenonT(30), <1>2, <2>1, <2>3, <2>4, <2>5, <3>1
  <2>6. CASE ~Enoent(image)
    <3>1. Contents(k.sp, k.mem) \in [Addr -> Content]
      BY ZenonT(30), <2>3 DEF Built, Sound, KernelType, SpaceType, PteType, Contents
    <3> QED BY ZenonT(30), <1>0, <2>1, <2>2, <2>4, <2>6, <3>1 DEF IsolationInv
  <2> QED BY ZenonT(30), <2>5, <2>6
<1>9. ASSUME UNCHANGED vmmVars PROVE IsolationInv'
  <2>1. UNCHANGED <<mem, space, view, alive>>
    BY ZenonT(30), <1>9 DEF vmmVars
  <2> QED BY Zenon, <1>2, <2>1
<1> QED BY ZenonT(30), <1>3, <1>4, <1>5, <1>6, <1>7, <1>8, <1>9 DEF VmmNext

\* As long as pmm_alloc's 0 is not mapped as a page, the process finds at every
\* address what it wrote there last or what its image had there: pages that
\* execve maps are shared neither with each other nor with the file buffer or the
\* tables (exec.c, vmm_map, pmm_alloc).
THEOREM ExecIsolation ==
    ASSUME Process = {1}
    PROVE  VmmSpec => []ImageIsPrivate
<1>1. VmmInit => IsolationInv
  BY IsolationInit
<1>2. ExecInv /\ IsolationInv /\ [VmmNext]_vmmVars => IsolationInv'
  BY ZenonT(30), IsolationNext
<1>3. IsolationInv => ImageIsPrivate
  BY ZenonT(30) DEF IsolationInv, ImageIsPrivate, FailureIsNotMapped, NoneFailed, Isolation
<1> QED BY <1>1, <1>2, <1>3, ExecInvariant, PTL DEF VmmSpec

================================================================================
