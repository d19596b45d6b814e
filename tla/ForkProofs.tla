------------------------------ MODULE ForkProofs -------------------------------
(***************************************************************************)
(* Any number of processes that fork, write, fault and exit (Images = {}): *)
(* what the run vmm_fork checks on a small instance.  HeldInv says that no *)
(* page table, those of dead processes included, leads to a free page;     *)
(* CountInv adds that a page is counted once for every mapping but the     *)
(* first.                                                                  *)
(***************************************************************************)
EXTENDS VmmProofs

\* A space that was not made yet maps nothing (the entry is not present).
LEMMA NoSpaceFacts == \A b \in Addr : ~NoSpace.map[b].present
  BY ZenonT(30) DEF NoSpace, NoPte

\* A mapping is a process and an address.
LEMMA PairIs ==
    \A m \in Process \X Addr : \A p, b : m = <<p, b>> <=> m[1] = p /\ m[2] = b
  OBVIOUS

\* What it is a pair of.
LEMMA PairOf ==
    \A m \in Process \X Addr : m[1] \in Process /\ m[2] \in Addr
  BY Zenon

-----------------------------------------------------------------------------
\* The new space of vmm_fork_user_space before its leaves are filled in.
LEMMA ForkMakes ==
    ASSUME NEW k \in KernelType, PmmSound(k.pm), NEW from
    PROVE  LET c == AllocPt(CreateSpace([k EXCEPT !.sp = NoSpace], from))
           IN /\ c \in KernelType /\ PmmSound(c.pm)
              /\ c.pm.free \subseteq k.pm.free
              /\ c.pm.refs = k.pm.refs /\ c.pm.panic = k.pm.panic
              /\ c.sp.root \notin c.pm.free /\ c.sp.pt \notin c.pm.free
<1> DEFINE b == [k EXCEPT !.sp = NoSpace]
           r == PmmAllocated(b.pm)
           t == AllocTable(b)
           s == [NoSpace EXCEPT !.root = r]
           d == [t EXCEPT !.sp = s]
           e == CreateSpace(b, from)
           i == PmmAllocated(e.pm)
           u == AllocTable(e)
           c == [u EXCEPT !.sp.pt = i]
<1>0. NoPage \in Page
  BY PmmAssumption DEF Page, NoPage
<1>1. NoSpace \in SpaceType /\ s \in SpaceType /\ s.root = r
  <2>1. NoSpace \in SpaceType
    BY ZenonT(30), <1>0 DEF NoSpace, SpaceType, NoPte, PteType
  <2>2. r \in Page
    <3>1. b.pm = k.pm
      BY ZenonT(30) DEF KernelType
    <3> QED BY ZenonT(30), <1>0, <3>1, AllocFacts DEF PmmSound, PmmType
  <2> HIDE DEF NoSpace, r
  <2> QED BY ZenonT(30), <2>1, <2>2 DEF SpaceType
<1>2. b \in KernelType /\ b.pm = k.pm
  BY ZenonT(30), <1>1 DEF KernelType
<1> HIDE DEF b
<1>3. /\ t \in KernelType /\ PmmSound(t.pm) /\ t.pm.free = b.pm.free \ {r}
      /\ t.pm.refs = b.pm.refs /\ t.pm.panic = b.pm.panic
  BY Zenon, <1>2, AllocTableSound
<1>4. AllocRoot(b) = d
  BY ZenonT(30) DEF AllocRoot
<1> HIDE DEF t, s, r
<1>5. d \in KernelType /\ d.pm = t.pm /\ d.sp = s
  BY ZenonT(30), <1>1, <1>3 DEF KernelType
<1> HIDE DEF d
<1>6. e \in KernelType /\ e.pm = t.pm /\ e.sp = s
  <2> DEFINE h == d.khalf \cup {d.sp.root}
             f == [d EXCEPT !.khalf = h]
  <2>1. e \in {d, f}
    BY ZenonT(30), <1>4 DEF CreateSpace
  <2>2. h \in SUBSET Page
    BY ZenonT(30), <1>5 DEF KernelType, SpaceType
  <2> HIDE DEF h, e
  <2>3. f \in KernelType /\ f.pm = t.pm /\ f.sp = s
    BY ZenonT(30), <1>5, <2>2 DEF KernelType
  <2> HIDE DEF f
  <2> QED BY ZenonT(30), <1>5, <2>1, <2>3
<1> HIDE DEF e
<1>7. PmmSound(e.pm)
  BY ZenonT(30), <1>3, <1>6
<1>8. i \in Page
  BY ZenonT(30), <1>0, <1>7, AllocFacts DEF PmmSound, PmmType
<1>9. /\ u \in KernelType /\ PmmSound(u.pm) /\ u.pm.free = e.pm.free \ {i}
      /\ u.pm.refs = e.pm.refs /\ u.pm.panic = e.pm.panic /\ u.sp = e.sp
  BY Zenon, <1>6, <1>7, AllocTableSound
<1>10. AllocPt(e) = c
  BY ZenonT(30) DEF AllocPt
<1> HIDE DEF u, i
<1>11. c \in KernelType /\ c.pm = u.pm /\ c.sp.root = u.sp.root /\ c.sp.pt = i
  <2> DEFINE v == [u.sp EXCEPT !.pt = i]
             w == [u EXCEPT !.sp = v]
  <2>1. v \in SpaceType /\ v.root = u.sp.root /\ v.pt = i
    BY ZenonT(30), <1>8, <1>9 DEF KernelType, SpaceType
  <2>2. c = w
    BY ZenonT(30), <1>9 DEF KernelType
  <2> HIDE DEF v, c
  <2> QED BY ZenonT(30), <1>9, <2>1, <2>2 DEF KernelType
<1> HIDE DEF c
<1>12. c.sp.root \notin c.pm.free /\ c.sp.pt \notin c.pm.free
  BY ZenonT(30), <1>1, <1>3, <1>6, <1>9, <1>11
<1> QED BY ZenonT(30), <1>2, <1>3, <1>6, <1>9, <1>10, <1>11, <1>12 DEF e, b

\* No two entries of a space lead to one page.
OneAddress(map) ==
    \A a, b \in Addr : map[a].present /\ map[b].present /\ map[a].page = map[b].page => a = b

\* Every page of the space can be counted up.
Room(k) ==
    /\ OneAddress(k.sp.map)
    /\ \A a \in Addr : k.sp.map[a].present => k.pm.refs[k.sp.map[a].page] < RefMax

\* The pages that the first n addresses lead to.
Led(map, n) == {i \in Page : \E j \in 1 .. n : map[VA[j]].present /\ map[VA[j]].page = i}

\* c is what the loop of fork_table has made of k after n leaves.
Forked(k, n, c) ==
    /\ c \in KernelType /\ PmmSound(c.pm)
    /\ c.pm.free \subseteq k.pm.free /\ c.pm.panic = k.pm.panic
    /\ c.sp.root = k.sp.root /\ c.sp.pt = k.sp.pt
    /\ \A a \in Addr : /\ c.sp.map[a].page = k.sp.map[a].page
                       /\ c.sp.map[a].present = k.sp.map[a].present
                       /\ c.sp.map[a].cow => k.sp.map[a].cow \/ k.sp.map[a].present
    /\ Room(k) => \A i \in Page :
          /\ i \in Led(k.sp.map, n) => c.pm.refs[i] = k.pm.refs[i] + 1
          /\ i \notin Led(k.sp.map, n) => c.pm.refs[i] = k.pm.refs[i]

\* fork_table on one leaf keeps its page and counts the page up, if the count is
\* not at its limit.
LEMMA ForkLeafFacts ==
    ASSUME NEW k \in KernelType, PmmSound(k.pm), NEW a \in Addr
    PROVE  LET c == ForkLeaf(k, a)
               e == k.sp.map[a]
           IN /\ c \in KernelType /\ PmmSound(c.pm)
              /\ c.pm.free \subseteq k.pm.free /\ c.pm.panic = k.pm.panic
              /\ c.sp.root = k.sp.root /\ c.sp.pt = k.sp.pt
              /\ \A b \in Addr : /\ c.sp.map[b].page = k.sp.map[b].page
                                 /\ c.sp.map[b].present = k.sp.map[b].present
                                 /\ c.sp.map[b].cow => k.sp.map[b].cow \/ k.sp.map[b].present
              /\ ~e.present => c.pm.refs = k.pm.refs
              /\ e.present => c.pm.refs = [k.pm.refs EXCEPT ![e.page] = IF @ < RefMax THEN @ + 1 ELSE @]
<1> DEFINE e == k.sp.map[a]
           q == AfterRef(k.pm, e.page)
           f == [e EXCEPT !.w = FALSE, !.cow = TRUE]
           m == [k.sp.map EXCEPT ![a] = f]
           s == [k.sp EXCEPT !.map = m]
           c == [k EXCEPT !.sp = s, !.pm = q]
<1>1. k.sp \in SpaceType /\ k.sp.map \in [Addr -> PteType] /\ e \in PteType /\ e.page \in Page
  BY ZenonT(30) DEF KernelType, SpaceType, PteType
<1>2. CASE ~e.present
  BY ZenonT(30), <1>2 DEF ForkLeaf
<1>3. CASE e.present
  <2>1. /\ PmmSound(q) /\ q.panic = k.pm.panic /\ q.free \subseteq k.pm.free
        /\ q.refs = [k.pm.refs EXCEPT ![e.page] = IF @ < RefMax THEN @ + 1 ELSE @]
    <3>1. AfterGrow(k.pm).free \subseteq k.pm.free
      BY Zenon, AfterGrowFacts
    <3>2. \A i \in Page :
             /\ PmmSound(AfterRef(k.pm, i)) /\ AfterRef(k.pm, i).panic = k.pm.panic
             /\ AfterRef(k.pm, i).free = AfterGrow(k.pm).free
             /\ AfterRef(k.pm, i).refs = [k.pm.refs EXCEPT ![i] = IF @ < RefMax THEN @ + 1 ELSE @]
      BY ZenonT(30), AfterRefFacts
    <3> QED BY ZenonT(30), <1>1, <3>1, <3>2
  <2>2. q \in PmmType
    BY Zenon, <2>1 DEF PmmSound
  <2>3. f \in PteType /\ f.page = e.page /\ f.present = e.present
    BY ZenonT(30), <1>1 DEF PteType
  <2>4. ForkLeaf(k, a) = c
    <3> HIDE DEF q
    <3>1. [k EXCEPT !.sp.map[a] = [@ EXCEPT !.w = FALSE, !.cow = TRUE], !.pm = q] = c
      BY ZenonT(30), <1>1 DEF KernelType, SpaceType
    <3> QED BY ZenonT(30), <1>3, <3>1 DEF ForkLeaf, q
  <2> HIDE DEF q, f
  <2>5. m \in [Addr -> PteType] /\ m[a] = f /\ \A b \in Addr : b # a => m[b] = k.sp.map[b]
    BY ZenonT(30), <1>1, <2>3
  <2> HIDE DEF m
  <2>6. s \in SpaceType /\ s.map = m /\ s.root = k.sp.root /\ s.pt = k.sp.pt
    BY ZenonT(30), <1>1, <2>5 DEF SpaceType
  <2> HIDE DEF s
  <2>7. c \in KernelType /\ c.pm = q /\ c.sp = s
    BY ZenonT(30), <2>2, <2>6 DEF KernelType
  <2> HIDE DEF c
  <2>8. \A b \in Addr : /\ m[b].page = k.sp.map[b].page
                        /\ m[b].present = k.sp.map[b].present
                        /\ m[b].cow => k.sp.map[b].cow \/ k.sp.map[b].present
    BY ZenonT(30), <1>3, <2>3, <2>5
  <2> QED BY ZenonT(30), <1>3, <2>1, <2>4, <2>6, <2>7, <2>8
<1> QED BY Zenon, <1>2, <1>3

\* One more address leads to one more page, a new one if no page has two addresses.
LEMMA LedFacts ==
    ASSUME NEW map \in [Addr -> PteType], NEW n \in 1 .. Len(VA)
    PROVE  /\ ~map[VA[n]].present => Led(map, n) = Led(map, n - 1)
           /\ map[VA[n]].present => /\ Led(map, n) = Led(map, n - 1) \cup {map[VA[n]].page}
                                    /\ OneAddress(map) => map[VA[n]].page \notin Led(map, n - 1)
<1>1. Len(VA) \in Nat /\ \A j \in 1 .. Len(VA) : VA[j] \in Addr
  BY AddrFacts
<1>2. 1 .. n = (1 .. n - 1) \cup {n} /\ n - 1 \in Nat /\ \A j \in 1 .. n - 1 : j \in 1 .. Len(VA) /\ j # n
  BY <1>1
<1>3. map[VA[n]].page \in Page
  BY ZenonT(30), <1>1 DEF PteType
<1>4. ~map[VA[n]].present => Led(map, n) = Led(map, n - 1)
  BY ZenonT(30), <1>2 DEF Led
<1>5. map[VA[n]].present => Led(map, n) = Led(map, n - 1) \cup {map[VA[n]].page}
  BY ZenonT(30), <1>2, <1>3 DEF Led
<1>6. ASSUME map[VA[n]].present, OneAddress(map), map[VA[n]].page \in Led(map, n - 1) PROVE FALSE
  <2>1. PICK j \in 1 .. n - 1 : map[VA[j]].present /\ map[VA[j]].page = map[VA[n]].page
    BY Zenon, <1>6 DEF Led
  <2>2. j \in 1 .. Len(VA) /\ j # n /\ VA[j] \in Addr /\ VA[n] \in Addr
    BY Zenon, <1>1, <1>2, <2>1
  <2>3. VA[j] = VA[n]
    BY Zenon, <1>6, <2>1, <2>2 DEF OneAddress
  <2> QED BY Zenon, <2>2, <2>3, AddrFacts
<1> QED BY Zenon, <1>4, <1>5, <1>6

\* One turn of the loop of fork_table.
LEMMA ForkTurn ==
    ASSUME NEW k \in KernelType, NEW n \in 1 .. Len(VA), NEW c, Forked(k, n - 1, c)
    PROVE  Forked(k, n, ForkLeaf(c, VA[n]))
<1> DEFINE a == VA[n]
           d == ForkLeaf(c, a)
           e == c.sp.map[a]
           map == k.sp.map
<1>1. a \in Addr
  BY Zenon, AddrFacts
<1>2. c \in KernelType /\ PmmSound(c.pm)
  BY ZenonT(30) DEF Forked
<1>3. /\ d \in KernelType /\ PmmSound(d.pm)
      /\ d.pm.free \subseteq c.pm.free /\ d.pm.panic = c.pm.panic
      /\ d.sp.root = c.sp.root /\ d.sp.pt = c.sp.pt
      /\ \A b \in Addr : /\ d.sp.map[b].page = c.sp.map[b].page
                         /\ d.sp.map[b].present = c.sp.map[b].present
                         /\ d.sp.map[b].cow => c.sp.map[b].cow \/ c.sp.map[b].present
      /\ ~e.present => d.pm.refs = c.pm.refs
      /\ e.present => d.pm.refs = [c.pm.refs EXCEPT ![e.page] = IF @ < RefMax THEN @ + 1 ELSE @]
  BY Zenon, <1>1, <1>2, ForkLeafFacts
<1>4. map \in [Addr -> PteType] /\ k.pm.refs \in [Page -> 0 .. RefMax] /\ c.pm.refs \in [Page -> 0 .. RefMax]
  BY ZenonT(30), <1>2 DEF KernelType, SpaceType, PmmType
<1>5. e.page = map[a].page /\ e.present = map[a].present /\ e.page \in Page
  BY ZenonT(30), <1>1, <1>4 DEF Forked, PteType
<1> HIDE DEF d, e, map, a
<1>6. /\ ~map[a].present => Led(map, n) = Led(map, n - 1)
      /\ map[a].present => /\ Led(map, n) = Led(map, n - 1) \cup {map[a].page}
                           /\ OneAddress(map) => map[a].page \notin Led(map, n - 1)
  BY Zenon, <1>4, LedFacts DEF a
<1>7. ASSUME Room(k), NEW i \in Page
      PROVE  /\ i \in Led(map, n) => d.pm.refs[i] = k.pm.refs[i] + 1
             /\ i \notin Led(map, n) => d.pm.refs[i] = k.pm.refs[i]
  <2>1. /\ i \in Led(map, n - 1) => c.pm.refs[i] = k.pm.refs[i] + 1
        /\ i \notin Led(map, n - 1) => c.pm.refs[i] = k.pm.refs[i]
    BY Zenon, <1>7 DEF Forked, map
  <2>2. OneAddress(map) /\ (map[a].present => k.pm.refs[map[a].page] < RefMax)
    BY Zenon, <1>1, <1>7 DEF Room, map
  <2>3. CASE ~e.present
    BY Zenon, <1>3, <1>5, <1>6, <2>1, <2>3
  <2>4. CASE e.present
    <3>1. CASE i = e.page
      <4>1. i \in Led(map, n) /\ i \notin Led(map, n - 1) /\ k.pm.refs[i] < RefMax
        BY ZenonT(30), <1>5, <1>6, <2>2, <2>4, <3>1
      <4>2. c.pm.refs[i] = k.pm.refs[i]
        BY Zenon, <2>1, <4>1
      <4>3. d.pm.refs[i] = IF c.pm.refs[i] < RefMax THEN c.pm.refs[i] + 1 ELSE c.pm.refs[i]
        BY ZenonT(30), <1>3, <1>4, <2>4, <3>1
      <4> QED BY ZenonT(30), <4>1, <4>2, <4>3
    <3>2. CASE i # e.page
      <4>1. d.pm.refs[i] = c.pm.refs[i]
        BY ZenonT(30), <1>3, <1>4, <2>4, <3>2
      <4>2. i \in Led(map, n) <=> i \in Led(map, n - 1)
        BY ZenonT(30), <1>5, <1>6, <2>4, <3>2
      <4> QED BY Zenon, <2>1, <4>1, <4>2
    <3> QED BY Zenon, <3>1, <3>2
  <2> QED BY Zenon, <2>3, <2>4
<1>8. \A b \in Addr : /\ d.sp.map[b].page = map[b].page
                      /\ d.sp.map[b].present = map[b].present
                      /\ d.sp.map[b].cow => map[b].cow \/ map[b].present
  BY SMTT(30), <1>3 DEF Forked, map
<1>9. d.pm.free \subseteq k.pm.free /\ d.pm.panic = k.pm.panic
      /\ d.sp.root = k.sp.root /\ d.sp.pt = k.sp.pt
  BY ZenonT(30), <1>3 DEF Forked
<1>10. Forked(k, n, d)
  BY ZenonT(30), <1>3, <1>7, <1>8, <1>9 DEF Forked, map
<1> QED BY ZenonT(30), <1>10 DEF d, a

\* The loop of fork_table counts every page of the parent up once.
LEMMA ForkLoop ==
    ASSUME NEW k \in KernelType, PmmSound(k.pm)
    PROVE  Forked(k, Len(VA), ForEach(ForkLeaf, k, VA))
<1> DEFINE N == Len(VA)
           S == {c \in KernelType : PmmSound(c.pm)}
           F == [n \in 1 .. N |-> [c \in S |-> ForkLeaf(c, VA[n])]]
           after == CHOOSE f : f = [n \in 0 .. N |-> IF n = 0 THEN k ELSE ForkLeaf(f[n - 1], VA[n])]
<1>1. N \in Nat /\ \A n \in 1 .. N : VA[n] \in Addr
  BY AddrFacts
<1>2. ForEach(ForkLeaf, k, VA) = after[N]
  BY ZenonT(30) DEF ForEach
<1>3. ASSUME NEW c \in S, NEW n \in 1 .. N PROVE ForkLeaf(c, VA[n]) \in S
  BY Zenon, <1>1, ForkLeafFacts
<1>4. k \in S
  BY Zenon
<1>5. \A n \in 1 .. N : \A c : Forked(k, n - 1, c) => Forked(k, n, ForkLeaf(c, VA[n]))
  BY Zenon, ForkTurn
<1> HIDE DEF N, S
<1>6. F \in [1 .. N -> [S -> S]]
  BY Zenon, <1>3
<1>7. after = [n \in 0 .. N |-> IF n = 0 THEN k ELSE ForkLeaf(after[n - 1], VA[n])]
  <2> HIDE DEF F
  <2>1. PICK g : IsLoop(g, N, S, k, F)
    BY Zenon, <1>1, <1>4, <1>6, LoopExists
  <2>2. g \in [0 .. N -> S] /\ g[0] = k /\ \A n \in 1 .. N : g[n] = F[n][g[n - 1]]
    BY Zenon, <2>1 DEF IsLoop
  <2>3. ASSUME NEW n \in 0 .. N PROVE g[n] = IF n = 0 THEN k ELSE ForkLeaf(g[n - 1], VA[n])
    <3>1. CASE n = 0
      BY Zenon, <2>2, <3>1
    <3>2. CASE n # 0
      <4>1. n \in 1 .. N /\ n - 1 \in 0 .. N
        BY <1>1, <3>2
      <4>2. g[n - 1] \in S /\ g[n] = F[n][g[n - 1]]
        BY Zenon, <2>2, <4>1
      <4> QED BY Zenon, <3>2, <4>1, <4>2 DEF F
    <3> QED BY Zenon, <3>1, <3>2
  <2>4. g = [n \in 0 .. N |-> g[n]]
    BY Zenon, <2>2
  <2>5. g = [n \in 0 .. N |-> IF n = 0 THEN k ELSE ForkLeaf(g[n - 1], VA[n])]
    BY <2>3, <2>4, Zenon
  <2> QED BY <2>5, Zenon
<1> HIDE DEF after, F
<1> DEFINE G == {n \in 0 .. N : Forked(k, n, after[n])}
<1>8. 0 \in G
  <2>1. 0 \in 0 .. N /\ Led(k.sp.map, 0) = {}
    BY <1>1 DEF Led
  <2>2. after[0] = k
    BY Zenon, <1>7, <2>1
  <2>3. Forked(k, 0, k)
    BY ZenonT(30), <2>1 DEF Forked
  <2> QED BY Zenon, <2>1, <2>2, <2>3
<1>9. ASSUME NEW n \in 1 .. N, n - 1 \in G PROVE n \in G
  <2>1. n \in 0 .. N /\ n # 0
    BY <1>1
  <2>2. after[n] = ForkLeaf(after[n - 1], VA[n])
    BY <1>7, <2>1, Zenon
  <2> QED BY Zenon, <1>5, <1>9, <2>1, <2>2
<1>10. N \in 0 .. N /\ \A n \in 0 .. N : n \in G
  <2>1. N \in 0 .. N
    BY <1>1
  <2> HIDE DEF G
  <2> QED BY Zenon, <1>1, <1>8, <1>9, <2>1, UpTo
<1> QED BY Zenon, <1>2, <1>10 DEF N

\* The page tables of every process, also of one that has exited, lead to no
\* free page.
HeldInv ==
    /\ Kernel(NoSpace) \in KernelType /\ PmmSound(pm) /\ ~pm.panic
    /\ space \in [Process -> SpaceType]
    /\ alive \in SUBSET Process /\ cur \in alive \cup {Idle}
    /\ tlb \in [Addr -> Page]
    /\ \A p \in Process : /\ space[p].root \notin pm.free /\ space[p].pt \notin pm.free
                          /\ \A a \in Addr : space[p].map[a].page \notin pm.free

\* The space of the child, and with it the parent's entries, after SYS_fork.
ForkStart == [AllocPt(CreateSpace(Kernel(NoSpace), space[cur].root)) EXCEPT !.sp.map = space[cur].map]
\* The record that SYS_fork ends with.
ForkEnd == ForEach(ForkLeaf, ForkStart, VA)

\* Fork in these names.
LEMMA ForkSteps ==
    ASSUME NEW c, Fork(c)
    PROVE  /\ Running /\ c \in Process \ alive /\ space[c] = NoSpace
           /\ pm' = ForkEnd.pm /\ mem' = ForkEnd.mem /\ khalf' = ForkEnd.khalf /\ buf' = ForkEnd.buf
           /\ space' = [space EXCEPT ![c] = ForkEnd.sp, ![cur].map = ForkEnd.sp.map]
           /\ alive' = alive \cup {c} /\ cur' = cur /\ tlb' = tlb
BY Zenon DEF Fork, Leave, ForkStart, ForkEnd

\* The pages for the PML4 and the tables of the child come off the free list.
LEMMA ForkStartFacts ==
    ASSUME HeldInv, cur \in Process
    PROVE  /\ ForkStart \in KernelType /\ PmmSound(ForkStart.pm)
           /\ ForkStart.pm.free \subseteq pm.free
           /\ ForkStart.pm.refs = pm.refs /\ ForkStart.pm.panic = pm.panic
           /\ ForkStart.sp.root \notin ForkStart.pm.free /\ ForkStart.sp.pt \notin ForkStart.pm.free
           /\ ForkStart.sp.map = space[cur].map
<1> DEFINE k == Kernel(NoSpace)
           c == AllocPt(CreateSpace(k, space[cur].root))
           m == space[cur].map
           s == [c.sp EXCEPT !.map = m]
           d == [c EXCEPT !.sp = s]
<1>1. /\ k \in KernelType /\ k.pm = pm /\ k.sp = NoSpace /\ PmmSound(pm)
      /\ m \in [Addr -> PteType]
  BY ZenonT(30) DEF HeldInv, Kernel, SpaceType
<1> HIDE DEF k
<1>2. [k EXCEPT !.sp = NoSpace] = k
  <2>1. [k EXCEPT !.sp = k.sp] = k
    BY ZenonT(30), <1>1 DEF KernelType
  <2> QED BY ZenonT(30), <1>1, <2>1
<1>3. /\ c \in KernelType /\ PmmSound(c.pm) /\ c.pm.free \subseteq pm.free
      /\ c.pm.refs = pm.refs /\ c.pm.panic = pm.panic
      /\ c.sp.root \notin c.pm.free /\ c.sp.pt \notin c.pm.free
  BY <1>1, <1>2, ForkMakes
<1>4. ForkStart = [c EXCEPT !.sp.map = m]
  BY ZenonT(30) DEF ForkStart, k
<1> HIDE DEF c, m
<1>5. [c EXCEPT !.sp.map = m] = d
  BY ZenonT(30), <1>3 DEF KernelType
<1>6. s \in SpaceType /\ s.map = m /\ s.root = c.sp.root /\ s.pt = c.sp.pt
  BY ZenonT(30), <1>1, <1>3 DEF KernelType, SpaceType
<1> HIDE DEF s
<1>7. d \in KernelType /\ d.pm = c.pm /\ d.sp = s
  BY ZenonT(30), <1>3, <1>6 DEF KernelType
<1> HIDE DEF d
<1> QED BY Zenon, <1>3, <1>4, <1>5, <1>6, <1>7 DEF m

\* user_task_create establishes HeldInv.
LEMMA HeldInit == VmmInit => HeldInv
<1> SUFFICES ASSUME VmmInit PROVE HeldInv
  BY Zenon
<1> DEFINE k == BootSpace
<1>1. /\ pm = k.pm /\ mem = k.mem /\ khalf = k.khalf /\ buf = NoPage
      /\ space = [p \in Process |-> IF p = 1 THEN k.sp ELSE NoSpace]
      /\ alive = {1} /\ cur = 1 /\ tlb = Flushed
  BY Zenon DEF VmmInit, BootSpace, BootState
<1>2. Built(k) /\ k.buf = NoPage
  BY Zenon, BootFacts
<1> HIDE DEF k
<1>3. k \in KernelType /\ PmmSound(k.pm) /\ ~k.pm.panic
  BY ZenonT(30), <1>2 DEF Built, Sound, Quiet
<1>4. NoPage \in Page /\ NoPage \notin k.pm.free
  BY <1>3, PmmAssumption DEF PmmSound, Page, NoPage
<1>5. NoSpace \in SpaceType /\ NoSpace.root = NoPage /\ NoSpace.pt = NoPage
      /\ \A a \in Addr : NoSpace.map[a].page = NoPage
  BY ZenonT(30), <1>4 DEF NoSpace, SpaceType, NoPte, PteType
<1>6. k.sp \in SpaceType
  BY ZenonT(30), <1>3 DEF KernelType
<1>7. space \in [Process -> SpaceType]
  BY ZenonT(30), <1>1, <1>5, <1>6
<1>8. Kernel(NoSpace) \in KernelType
  BY ZenonT(30), <1>1, <1>2, <1>3, <1>4, <1>5 DEF Kernel, KernelType
<1>9. ASSUME NEW p \in Process
      PROVE  /\ space[p].root \notin pm.free /\ space[p].pt \notin pm.free
             /\ \A a \in Addr : space[p].map[a].page \notin pm.free
  <2>1. CASE p = 1
    <3>1. space[p] = k.sp
      BY ZenonT(30), <1>1, <2>1
    <3> QED BY ZenonT(30), <1>1, <1>2, <3>1 DEF Built
  <2>2. CASE p # 1
    <3>1. space[p] = NoSpace
      BY ZenonT(30), <1>1, <2>2
    <3> QED BY ZenonT(30), <1>1, <1>4, <1>5, <3>1
  <2> QED BY ZenonT(30), <2>1, <2>2
<1>10. tlb \in [Addr -> Page]
  BY ZenonT(30), <1>1, <1>4 DEF Flushed
<1>11. alive \in SUBSET Process /\ cur \in alive \cup {Idle}
  BY ZenonT(30), <1>1, VmmAssumption
<1> QED BY ZenonT(30), <1>1, <1>3, <1>7, <1>8, <1>9, <1>10, <1>11 DEF HeldInv

\* The copy of a page with a count above 1: a page is allocated, and the count of
\* the old one goes down.
LEMMA CopyFacts ==
    ASSUME NEW p, PmmSound(p), NEW i \in Page, PmmGetref(p, i) > 1, PmmAllocated(p) # NoPage
    PROVE  LET q == AfterUnref(AfterAlloc(p), i)
           IN /\ PmmAllocated(p) \in p.free /\ PmmAllocated(p) \in Page
              /\ PmmSound(q) /\ q.panic = p.panic
              /\ q.free = p.free \ {PmmAllocated(p)}
              /\ q.refs = [p.refs EXCEPT ![i] = @ - 1]
              /\ p.refs[i] > 1
<1> DEFINE r == AfterAlloc(p)
<1>1. p.grown /\ p.refs[i] > 1
  BY DEF PmmGetref
<1>2. /\ PmmSound(r) /\ r.free = p.free \ {PmmAllocated(p)} /\ r.refs = p.refs
      /\ r.grown = p.grown /\ r.panic = p.panic
  BY Zenon, AfterAllocFacts
<1>3. PmmAllocated(p) \in p.free /\ p.free \subseteq Page
  BY ZenonT(30), AllocFacts DEF PmmSound, PmmType
<1> HIDE DEF r
<1>4. r.grown /\ r.refs[i] > 1
  BY ZenonT(30), <1>1, <1>2
<1>5. /\ PmmSound(AfterUnref(r, i)) /\ AfterUnref(r, i).free = r.free
      /\ AfterUnref(r, i).panic = r.panic /\ AfterUnref(r, i).refs = [r.refs EXCEPT ![i] = @ - 1]
  BY <1>2, <1>4, UnrefSharedFacts
<1> QED BY ZenonT(30), <1>1, <1>2, <1>3, <1>5 DEF r

\* What a page fault does to the page tables and the allocator.
FaultCopies(a) ==
    LET pte == space[cur].map[a]
        new == PmmAllocated(pm)
    IN /\ pte.cow /\ PmmGetref(pm, pte.page) > 1 /\ new # NoPage
       /\ pm' = AfterUnref(AfterAlloc(pm), pte.page)
       /\ mem' = [mem EXCEPT ![new] = mem[pte.page]]
       /\ space' = [space EXCEPT ![cur].map[a] = [pte EXCEPT !.page = new, !.w = TRUE, !.cow = FALSE]]

\* The sole owner of a COW page gets it back writable.
FaultReuses(a) ==
    LET pte == space[cur].map[a]
    IN /\ pte.cow
       /\ space' = [space EXCEPT ![cur].map[a] = [pte EXCEPT !.w = TRUE, !.cow = FALSE]]
       /\ UNCHANGED <<pm, mem>>

\* PageFault copies, reuses, or panics and leaves the tables alone.
LEMMA FaultSteps ==
    ASSUME NEW a, PageFault(a)
    PROVE  /\ cur # Idle
           /\ FaultCopies(a) \/ FaultReuses(a) \/ UNCHANGED <<pm, mem, space>>
           /\ UNCHANGED <<khalf, buf, alive, cur, tlb>>
BY Zenon DEF PageFault, Running, FaultCopies, FaultReuses

\* One entry of one page table is replaced.
LEMMA SetEntry ==
    ASSUME space \in [Process -> SpaceType], cur \in Process, NEW a \in Addr, NEW e \in PteType,
           space' = [space EXCEPT ![cur].map[a] = e]
    PROVE  /\ space' \in [Process -> SpaceType]
           /\ \A p \in Process : space'[p].root = space[p].root /\ space'[p].pt = space[p].pt
           /\ space'[cur].map[a] = e
           /\ \A p \in Process, b \in Addr : p # cur \/ b # a => space'[p].map[b] = space[p].map[b]
<1> DEFINE m == [space[cur].map EXCEPT ![a] = e]
           s == [space[cur] EXCEPT !.map = m]
<1>1. space[cur] \in SpaceType /\ space[cur].map \in [Addr -> PteType]
  BY ZenonT(30) DEF SpaceType
<1>2. space' = [space EXCEPT ![cur] = s]
  BY ZenonT(30), <1>1
<1>3. m \in [Addr -> PteType] /\ m[a] = e /\ \A b \in Addr : b # a => m[b] = space[cur].map[b]
  BY ZenonT(30), <1>1
<1> HIDE DEF m
<1>4. s \in SpaceType /\ s.map = m /\ s.root = space[cur].root /\ s.pt = space[cur].pt
  BY ZenonT(30), <1>1, <1>3 DEF SpaceType
<1> HIDE DEF s
<1>5. space' \in [Process -> SpaceType] /\ space'[cur] = s /\ \A p \in Process : p # cur => space'[p] = space[p]
  BY ZenonT(30), <1>2, <1>4
<1> QED BY Zenon, <1>3, <1>4, <1>5

\* A step that leaves the page tables and the allocator alone keeps HeldInv.
LEMMA StillHeld ==
    ASSUME HeldInv, UNCHANGED <<pm, khalf, buf, space>>, mem' \in [Page -> Content],
           tlb' \in [Addr -> Page], alive' \in SUBSET Process, cur' \in alive' \cup {Idle}
    PROVE  HeldInv'
<1>1. Kernel(NoSpace)' \in KernelType
  BY ZenonT(30) DEF HeldInv, Kernel, KernelType, NoSpace, NoPte
<1> QED BY ZenonT(30), <1>1 DEF HeldInv, KernelType

\* The types that HeldInv gives.
LEMMA TypesHeld ==
    ASSUME HeldInv
    PROVE  /\ mem \in [Page -> Content] /\ NoPage \in Page /\ Flushed \in [Addr -> Page]
           /\ cur # Idle => cur \in alive /\ cur \in Process
           /\ \A p \in Process, a \in Addr : space[p].map[a] \in PteType /\ space[p].map[a].page \in Page
<1>1. mem \in [Page -> Content]
  BY ZenonT(30) DEF HeldInv, KernelType, Kernel
<1>2. NoPage \in Page
  BY PmmAssumption DEF Page, NoPage
<1>3. Flushed \in [Addr -> Page]
  BY ZenonT(30), <1>2 DEF Flushed
<1>4. cur # Idle => cur \in alive /\ cur \in Process
  BY ZenonT(30) DEF HeldInv
<1>5. \A p \in Process, a \in Addr : space[p].map[a] \in PteType /\ space[p].map[a].page \in Page
  BY DEF HeldInv, SpaceType, PteType
<1> QED BY ZenonT(30), <1>1, <1>2, <1>3, <1>4, <1>5

\* What fork does to the page tables.
LEMMA ForkTables ==
    ASSUME space \in [Process -> SpaceType], cur \in Process, NEW c \in Process, c # cur,
           NEW s \in SpaceType,
           space' = [space EXCEPT ![c] = s, ![cur].map = s.map]
    PROVE  /\ space' \in [Process -> SpaceType] /\ space'[c] = s
           /\ space'[cur].map = s.map /\ space'[cur].root = space[cur].root
           /\ space'[cur].pt = space[cur].pt
           /\ \A p \in Process : p # c /\ p # cur => space'[p] = space[p]
<1> DEFINE t == [space[cur] EXCEPT !.map = s.map]
           z == [space EXCEPT ![c] = s]
<1>1. t \in SpaceType /\ t.map = s.map /\ t.root = space[cur].root /\ t.pt = space[cur].pt
  BY ZenonT(30) DEF SpaceType
<1>2. /\ z \in [Process -> SpaceType] /\ z[cur] = space[cur] /\ z[c] = s
      /\ \A p \in Process : p # c => z[p] = space[p]
  BY Zenon
<1>3. space' = [z EXCEPT ![cur] = t]
  BY ZenonT(30), <1>2
<1> HIDE DEF z, t
<1>4. /\ space' \in [Process -> SpaceType] /\ space'[cur] = t
      /\ \A p \in Process : p # cur => space'[p] = z[p]
  BY <1>1, <1>2, <1>3
<1> QED BY Zenon, <1>1, <1>2, <1>4

\* Every handler but execve keeps HeldInv.
LEMMA HeldNext ==
    ASSUME Images = {}, HeldInv, [VmmNext]_vmmVars
    PROVE  HeldInv'
<1>0. /\ Kernel(NoSpace) \in KernelType /\ PmmSound(pm) /\ ~pm.panic
      /\ space \in [Process -> SpaceType]
      /\ alive \in SUBSET Process /\ cur \in alive \cup {Idle}
      /\ tlb \in [Addr -> Page]
      /\ \A p \in Process : /\ space[p].root \notin pm.free /\ space[p].pt \notin pm.free
                            /\ \A a \in Addr : space[p].map[a].page \notin pm.free
  BY ZenonT(30) DEF HeldInv
<1>1. /\ mem \in [Page -> Content] /\ NoPage \in Page /\ Flushed \in [Addr -> Page]
      /\ cur # Idle => cur \in alive /\ cur \in Process
      /\ \A p \in Process, a \in Addr : space[p].map[a] \in PteType /\ space[p].map[a].page \in Page
  BY Zenon, TypesHeld
<1>2. ASSUME NEW q \in {Idle} \cup Process, Switch(q) \/ Exit(q) PROVE HeldInv'
  <2>1. /\ q \in (alive \cup {Idle}) \ {cur} /\ cur' = q /\ alive' \in {alive, alive \ {cur}}
        /\ tlb' \in {tlb, Flushed}
        /\ UNCHANGED <<pm, mem, khalf, buf, space>>
    BY ZenonT(30), <1>2 DEF Switch, Exit, LoadCr3
  <2>2. alive' \in SUBSET Process /\ cur' \in alive' \cup {Idle} /\ tlb' \in [Addr -> Page]
    BY ZenonT(30), <1>0, <1>1, <2>1
  <2> QED BY ZenonT(30), <1>1, <2>1, <2>2, StillHeld
<1>3. ASSUME NEW a \in Addr, Write(a) PROVE HeldInv'
  <2> DEFINE page == IF tlb[a] # NoPage THEN tlb[a] ELSE space[cur].map[a].page
  <2>1. /\ cur # Idle
        /\ mem' = IF a \in Tracked THEN [mem EXCEPT ![page] = cur] ELSE mem
        /\ tlb' = [tlb EXCEPT ![a] = page]
        /\ UNCHANGED <<pm, khalf, buf, space, alive, cur>>
    BY ZenonT(30), <1>3 DEF Write, Running
  <2>2. page \in Page
    BY ZenonT(30), <1>0, <1>1, <2>1
  <2> HIDE DEF page
  <2>3. mem' \in [Page -> Content] /\ tlb' \in [Addr -> Page]
    BY ZenonT(30), <1>0, <1>1, <2>1, <2>2 DEF Content
  <2>4. alive' \in SUBSET Process /\ cur' \in alive' \cup {Idle}
    BY ZenonT(30), <1>0, <2>1
  <2> QED BY ZenonT(30), <2>1, <2>3, <2>4, StillHeld
<1>4. ASSUME NEW a \in Addr, Evict(a) PROVE HeldInv'
  <2>1. /\ tlb' = [tlb EXCEPT ![a] = NoPage]
        /\ UNCHANGED <<pm, mem, khalf, buf, space, alive, cur>>
    BY ZenonT(30), <1>4 DEF Evict
  <2>2. mem' \in [Page -> Content] /\ tlb' \in [Addr -> Page]
        /\ alive' \in SUBSET Process /\ cur' \in alive' \cup {Idle}
    BY ZenonT(30), <1>0, <1>1, <2>1
  <2> QED BY Zenon, <2>1, <2>2, StillHeld
<1>5. ASSUME NEW a \in Addr, PageFault(a) PROVE HeldInv'
  <2>1. /\ cur # Idle /\ (FaultCopies(a) \/ FaultReuses(a) \/ UNCHANGED <<pm, mem, space>>)
        /\ UNCHANGED <<khalf, buf, alive, cur, tlb>>
    BY ZenonT(30), <1>5, FaultSteps
  <2> DEFINE pte == space[cur].map[a]
             new == PmmAllocated(pm)
  <2>2. cur \in Process /\ pte \in PteType /\ pte.page \in Page /\ pte.page \notin pm.free
    BY ZenonT(30), <1>0, <1>1, <2>1
  <2>3. CASE FaultCopies(a)
    <3> DEFINE e == [pte EXCEPT !.page = new, !.w = TRUE, !.cow = FALSE]
    <3>1. /\ PmmGetref(pm, pte.page) > 1 /\ new # NoPage
          /\ pm' = AfterUnref(AfterAlloc(pm), pte.page)
          /\ mem' = [mem EXCEPT ![new] = mem[pte.page]]
          /\ space' = [space EXCEPT ![cur].map[a] = e]
      BY ZenonT(30), <2>3 DEF FaultCopies
    <3>2. new \in pm.free /\ new \in Page /\ PmmSound(pm') /\ pm'.panic = pm.panic /\ pm'.free = pm.free \ {new}
      BY ZenonT(30), <1>0, <2>2, <3>1, CopyFacts
    <3> HIDE DEF pte, new
    <3>3. e \in PteType /\ e.page = new
      BY ZenonT(30), <2>2, <3>2 DEF PteType
    <3> HIDE DEF e
    <3>4. /\ space' \in [Process -> SpaceType]
          /\ \A p \in Process : space'[p].root = space[p].root /\ space'[p].pt = space[p].pt
          /\ space'[cur].map[a] = e
          /\ \A p \in Process, b \in Addr : p # cur \/ b # a => space'[p].map[b] = space[p].map[b]
      BY ZenonT(30), <1>0, <2>2, <3>1, <3>3, SetEntry
    <3>5. \A p \in Process : /\ space'[p].root \notin pm'.free /\ space'[p].pt \notin pm'.free
                             /\ \A b \in Addr : space'[p].map[b].page \notin pm'.free
      <4>1. \A p \in Process : space'[p].root \notin pm'.free /\ space'[p].pt \notin pm'.free
        BY ZenonT(30), <1>0, <3>2, <3>4
      <4>2. ASSUME NEW p \in Process, NEW b \in Addr PROVE space'[p].map[b].page \notin pm'.free
        <5>1. CASE p = cur /\ b = a
          BY ZenonT(30), <3>2, <3>3, <3>4, <5>1
        <5>2. CASE p # cur \/ b # a
          BY ZenonT(30), <1>0, <3>2, <3>4, <5>2
        <5> QED BY Zenon, <5>1, <5>2
      <4> QED BY Zenon, <4>1, <4>2
    <3>6. mem' \in [Page -> Content]
      BY ZenonT(30), <1>1, <2>2, <3>1, <3>2
    <3>7. Kernel(NoSpace)' \in KernelType
      <4>1. pm' \in PmmType
        BY ZenonT(30), <3>2 DEF PmmSound
      <4> QED BY ZenonT(30), <1>0, <2>1, <3>6, <4>1 DEF Kernel, KernelType, NoSpace, NoPte
    <3>8. (Kernel(NoSpace) \in KernelType)'
      BY ZenonT(30), <3>7 DEF KernelType
    <3> QED BY ZenonT(30), <1>0, <2>1, <3>2, <3>4, <3>5, <3>8 DEF HeldInv, PmmSound
  <2>4. CASE FaultReuses(a)
    <3> DEFINE e == [pte EXCEPT !.w = TRUE, !.cow = FALSE]
    <3>1. space' = [space EXCEPT ![cur].map[a] = e] /\ UNCHANGED <<pm, mem>>
      BY ZenonT(30), <2>4 DEF FaultReuses
    <3> HIDE DEF pte
    <3>3. e \in PteType /\ e.page = pte.page
      BY ZenonT(30), <2>2 DEF PteType
    <3> HIDE DEF e
    <3>4. /\ space' \in [Process -> SpaceType]
          /\ \A p \in Process : space'[p].root = space[p].root /\ space'[p].pt = space[p].pt
          /\ space'[cur].map[a] = e
          /\ \A p \in Process, b \in Addr : p # cur \/ b # a => space'[p].map[b] = space[p].map[b]
      BY ZenonT(30), <1>0, <2>2, <3>1, <3>3, SetEntry
    <3>5. \A p \in Process : /\ space'[p].root \notin pm'.free /\ space'[p].pt \notin pm'.free
                             /\ \A b \in Addr : space'[p].map[b].page \notin pm'.free
      <4>1. \A p \in Process : space'[p].root \notin pm'.free /\ space'[p].pt \notin pm'.free
        BY ZenonT(30), <1>0, <3>1, <3>4
      <4>2. ASSUME NEW p \in Process, NEW b \in Addr PROVE space'[p].map[b].page \notin pm'.free
        <5>1. CASE p = cur /\ b = a
          BY ZenonT(30), <2>2, <3>1, <3>3, <3>4, <5>1
        <5>2. CASE p # cur \/ b # a
          BY ZenonT(30), <1>0, <3>1, <3>4, <5>2
        <5> QED BY Zenon, <5>1, <5>2
      <4> QED BY Zenon, <4>1, <4>2
    <3>7. Kernel(NoSpace)' \in KernelType
      BY ZenonT(30), <1>0, <2>1, <3>1 DEF Kernel, KernelType, NoSpace, NoPte
    <3>8. (Kernel(NoSpace) \in KernelType)'
      BY <3>7 DEF KernelType
    <3> QED BY ZenonT(30), <1>0, <2>1, <3>1, <3>4, <3>5, <3>8 DEF HeldInv, PmmSound
  <2>5. CASE UNCHANGED <<pm, mem, space>>
    BY ZenonT(30), <1>0, <1>1, <2>1, <2>5, StillHeld
  <2> QED BY ZenonT(30), <2>1, <2>3, <2>4, <2>5
<1>6. ASSUME NEW c \in {Idle} \cup Process, Fork(c) PROVE HeldInv'
  <2> DEFINE k == ForkStart
             d == ForkEnd
  <2>1. /\ cur # Idle /\ c \in Process \ alive
        /\ pm' = d.pm /\ mem' = d.mem /\ khalf' = d.khalf /\ buf' = d.buf
        /\ space' = [space EXCEPT ![c] = d.sp, ![cur].map = d.sp.map]
        /\ alive' = alive \cup {c} /\ cur' = cur /\ tlb' = tlb
    BY ZenonT(30), <1>6, ForkSteps DEF Running
  <2>2. cur \in Process /\ cur \in alive
    BY ZenonT(30), <1>1, <2>1
  <2>3. /\ k \in KernelType /\ PmmSound(k.pm) /\ k.pm.free \subseteq pm.free
        /\ k.pm.panic = pm.panic
        /\ k.sp.root \notin k.pm.free /\ k.sp.pt \notin k.pm.free
        /\ k.sp.map = space[cur].map
    BY Zenon, <2>2, ForkStartFacts
  <2>4. Forked(k, Len(VA), d)
    BY ZenonT(30), <2>3, ForkLoop DEF ForkEnd
  <2> HIDE DEF k, d
  <2>5. /\ d \in KernelType /\ PmmSound(d.pm) /\ ~d.pm.panic /\ d.pm.free \subseteq pm.free
        /\ d.sp.root \notin d.pm.free /\ d.sp.pt \notin d.pm.free
        /\ \A a \in Addr : d.sp.map[a].page = space[cur].map[a].page
    BY ZenonT(30), <1>0, <2>3, <2>4 DEF Forked
  <2>6. d.sp \in SpaceType /\ d.sp.map \in [Addr -> PteType]
    BY ZenonT(30), <2>5 DEF KernelType, SpaceType
  <2>7. /\ space' \in [Process -> SpaceType] /\ space'[c] = d.sp
        /\ space'[cur].map = d.sp.map /\ space'[cur].root = space[cur].root /\ space'[cur].pt = space[cur].pt
        /\ \A p \in Process : p # c /\ p # cur => space'[p] = space[p]
    BY ZenonT(30), <1>0, <2>1, <2>2, <2>6, ForkTables
  <2>8. \A p \in Process : /\ space'[p].root \notin pm'.free /\ space'[p].pt \notin pm'.free
                           /\ \A b \in Addr : space'[p].map[b].page \notin pm'.free
    BY <1>0, <2>1, <2>2, <2>5, <2>7
  <2>9. Kernel(NoSpace)' \in KernelType
    BY ZenonT(30), <1>0, <2>1, <2>5 DEF Kernel, KernelType, NoSpace, NoPte
  <2>10. (Kernel(NoSpace) \in KernelType)'
    BY ZenonT(30), <2>9 DEF KernelType
  <2>11. alive' \in SUBSET Process /\ cur' \in alive' \cup {Idle}
    BY ZenonT(30), <1>0, <2>1
  <2> QED BY ZenonT(30), <1>0, <2>1, <2>5, <2>7, <2>8, <2>10, <2>11 DEF HeldInv, PmmSound
<1>7. ASSUME UNCHANGED vmmVars PROVE HeldInv'
  <2>1. UNCHANGED <<pm, mem, khalf, buf, space, alive, cur, tlb>>
    BY ZenonT(30), <1>7 DEF vmmVars
  <2> QED BY ZenonT(30), <1>0, <1>1, <2>1, StillHeld
<1> QED BY ZenonT(30), <1>2, <1>3, <1>4, <1>5, <1>6, <1>7 DEF VmmNext

\* While processes fork, store, fault and exit, no page table leads to a free page
\* (vmm_fork_user_space, fork_table, vmm_page_fault).
THEOREM HeldInvariant ==
    ASSUME Images = {}
    PROVE  VmmSpec => []HeldInv
<1>1. HeldInv /\ [VmmNext]_vmmVars => HeldInv'
  BY ZenonT(30), HeldNext
<1> QED BY <1>1, HeldInit, PTL DEF VmmSpec

\* No frame is given away while a process can still reach it, for any number of
\* processes that fork, fault and exit, also when memory runs out
\* (vmm_fork_user_space, vmm_page_fault).
THEOREM ForkMapsNoFreePage ==
    ASSUME Images = {}
    PROVE  VmmSpec => []MappedIsNotFree
<1>1. HeldInv => MappedIsNotFree
  <2> SUFFICES ASSUME HeldInv, NEW i \in InUse, i \in pm.free PROVE FALSE
    BY ZenonT(30) DEF MappedIsNotFree
  <2>1. \E p \in alive : \/ i = space[p].root \/ i = space[p].pt
                         \/ \E a \in Addr : i = space[p].map[a].page
    BY ZenonT(30) DEF InUse
  <2> QED BY ZenonT(30), <2>1 DEF HeldInv
<1> QED BY <1>1, HeldInvariant, PTL

-----------------------------------------------------------------------------
(* The counts.                                                              *)

\* The counts: free pages have none, a process leads to a page from one address,
\* only present entries are marked COW, and a count is one below the sharers.
CountInv ==
    /\ \A i \in pm.free : pm.refs[i] = 0
    /\ \A p \in Process : /\ OneAddress(space[p].map)
                          /\ \A a \in Addr : space[p].map[a].cow => space[p].map[a].present
    /\ RefsCountSharers

\* A page has finitely many mappings.
LEMMA MappingsFinite == \A i : IsFiniteSet(Mappings(i)) /\ Cardinality(Mappings(i)) \in Nat
<1>1. IsFiniteSet(Addr)
  <2> DEFINE N == Len(VA)
             f == [n \in 1 .. N |-> VA[n]]
  <2>1. N \in Nat /\ \A n \in 1 .. N : VA[n] \in Addr
    BY AddrFacts
  <2>2. IsFiniteSet(1 .. N)
    BY <2>1, FS_Interval
  <2>3. \A a \in Addr : \E n \in 1 .. N : VA[n] = a
    BY Zenon, AddrFacts
  <2> HIDE DEF N
  <2>4. f \in Surjection(1 .. N, Addr)
    BY ZenonT(30), <2>1, <2>3 DEF Surjection
  <2> QED BY ZenonT(30), <2>2, <2>4, FS_Surjection
<1>2. IsFiniteSet(Process \X Addr)
  BY ZenonT(30), <1>1, VmmAssumption, FS_Product
<1>3. \A i : Mappings(i) \in SUBSET (Process \X Addr)
  BY ZenonT(30) DEF Mappings
<1> QED BY ZenonT(30), <1>2, <1>3, FS_Subset, FS_CardinalityType

\* When an entry is a mapping of a page.
LEMMA InMappings ==
    \A i, p, a : <<p, a>> \in Mappings(i) <=>
        p \in Process /\ a \in Addr /\ space[p].map[a].present /\ space[p].map[a].page = i
BY ZenonT(30) DEF Mappings

\* A mapping is a process and an address.
LEMMA MappingsArePairs ==
    \A i : \A m \in Mappings(i) : m[1] \in Process /\ m[2] \in Addr /\ m = <<m[1], m[2]>>
BY SMTT(30) DEF Mappings

\* Entries that change their rights only leave every page its mappings.
LEMMA SameMappings ==
    ASSUME \A p \in Process, a \in Addr : /\ space'[p].map[a].page = space[p].map[a].page
                                          /\ space'[p].map[a].present = space[p].map[a].present
    PROVE  \A i : Mappings(i)' = Mappings(i)
<1> SUFFICES ASSUME NEW i, NEW m \in Process \X Addr
             PROVE  m \in Mappings(i)' <=> m \in Mappings(i)
  BY ZenonT(30) DEF Mappings
<1>1. m[1] \in Process /\ m[2] \in Addr
  OBVIOUS
<1> QED BY <1>1 DEF Mappings

\* A process leads to a page from at most one address.
LEMMA SharersBound ==
    ASSUME HeldInv, CountInv, NEW c \in Process, space[c] = NoSpace, NEW i
    PROVE  Cardinality(Mappings(i)) <= Cardinality(Process) - 1
<1> DEFINE S == Mappings(i)
           T == Process \ {c}
           f == [m \in S |-> m[1]]
<1>1. IsFiniteSet(Process) /\ Cardinality(Process) \in Nat
  BY VmmAssumption, FS_CardinalityType
<1>2. IsFiniteSet(T) /\ Cardinality(T) = Cardinality(Process) - 1
  BY ZenonT(30), <1>1, FS_RemoveElement
<1>3. \A m \in S : m[1] \in T
  <2> SUFFICES ASSUME NEW m \in S PROVE m[1] \in T
    BY Zenon
  <2>1. m[1] \in Process /\ m[2] \in Addr /\ space[m[1]].map[m[2]].present
    BY ZenonT(30) DEF Mappings
  <2>2. m[1] # c
    BY <2>1 DEF NoSpace, NoPte
  <2> QED BY ZenonT(30), <2>1, <2>2
<1>4. \A m, n \in S : m[1] = n[1] => m = n
  <2> SUFFICES ASSUME NEW m \in S, NEW n \in S, m[1] = n[1] PROVE m = n
    BY Zenon
  <2>1. /\ m[1] \in Process /\ m[2] \in Addr /\ m = <<m[1], m[2]>>
        /\ n[2] \in Addr /\ n = <<n[1], n[2]>>
    BY Zenon, MappingsArePairs
  <2>2. /\ space[m[1]].map[m[2]].present /\ space[m[1]].map[m[2]].page = i
        /\ space[m[1]].map[n[2]].present /\ space[m[1]].map[n[2]].page = i
    BY Zenon DEF Mappings
  <2>3. OneAddress(space[m[1]].map)
    BY Zenon, <2>1 DEF CountInv
  <2>4. m[2] = n[2]
    BY ZenonT(30), <2>1, <2>2, <2>3 DEF OneAddress
  <2> QED BY Zenon, <2>1, <2>4
<1> HIDE DEF S, T
<1>5. f \in Injection(S, T)
  BY ZenonT(30), <1>3, <1>4 DEF Injection, IsInjective
<1>6. Cardinality(S) <= Cardinality(T)
  BY ZenonT(30), <1>2, <1>5, FS_Injection
<1> QED BY <1>2, <1>6 DEF S

\* The first process maps every page once, if the boot found memory for it.
LEMMA CountInit ==
    ASSUME VmmInit, FailureIsNotMapped
    PROVE  CountInv
<1> DEFINE k == BootSpace
<1>1. /\ pm = k.pm /\ alive = {1}
      /\ space = [p \in Process |-> IF p = 1 THEN k.sp ELSE NoSpace]
  BY Zenon DEF VmmInit, BootSpace, BootState
<1>2. Built(k)
  BY ZenonT(30), BootFacts
<1> HIDE DEF k
<1>3. k \in KernelType /\ \A i \in Page : k.pm.refs[i] = 0
  BY ZenonT(30), <1>2 DEF Built, Sound, Quiet
<1>4. k.pm.free \subseteq Page
  BY ZenonT(30), <1>3 DEF KernelType, PmmType
<1>5. space[1] = k.sp /\ 1 \in Process /\ \A p \in Process : p # 1 => space[p] = NoSpace
  BY ZenonT(30), <1>1, VmmAssumption
<1>6. \A a \in Addr : /\ NoSpace.map[a].present = FALSE /\ NoSpace.map[a].cow = FALSE
  BY ZenonT(30) DEF NoSpace, NoPte
<1>7. \A a \in Addr : k.sp.map[a].present => k.sp.map[a].page # NoPage
  BY Zenon, <1>1, <1>5 DEF FailureIsNotMapped
<1>8. OneAddress(k.sp.map) /\ \A a \in Addr : ~k.sp.map[a].cow
  BY ZenonT(30), <1>2, <1>7 DEF Built, Apart, OneAddress
<1>9. ASSUME NEW p \in Process
      PROVE  /\ OneAddress(space[p].map)
             /\ \A a \in Addr : space[p].map[a].cow => space[p].map[a].present
  <2>1. CASE p = 1
    BY ZenonT(30), <1>5, <1>8, <2>1
  <2>2. CASE p # 1
    BY ZenonT(30), <1>5, <1>6, <2>2 DEF OneAddress
  <2> QED BY ZenonT(30), <2>1, <2>2
<1>10. ASSUME NEW i \in Page, Mappings(i) # {} PROVE pm.refs[i] = Cardinality(Mappings(i)) - 1
  <2>1. PICK m \in Mappings(i) : TRUE
    BY ZenonT(30), <1>10
  <2>2. ASSUME NEW n \in Mappings(i) PROVE n = m
    <3>1. /\ m[1] \in Process /\ m[2] \in Addr /\ m = <<m[1], m[2]>>
          /\ n[1] \in Process /\ n[2] \in Addr /\ n = <<n[1], n[2]>>
      BY Zenon, MappingsArePairs
    <3>2. /\ space[m[1]].map[m[2]].present /\ space[m[1]].map[m[2]].page = i
          /\ space[n[1]].map[n[2]].present /\ space[n[1]].map[n[2]].page = i
      BY ZenonT(30) DEF Mappings
    <3>3. m[1] = 1 /\ n[1] = 1
      BY ZenonT(30), <1>5, <1>6, <3>1, <3>2
    <3>4. m[2] = n[2]
      <4>1. OneAddress(space[1].map)
        BY Zenon, <1>5, <1>8
      <4> QED BY ZenonT(30), <3>1, <3>2, <3>3, <4>1 DEF OneAddress
    <3> QED BY ZenonT(30), <3>1, <3>3, <3>4
  <2>3. Mappings(i) = {m}
    BY Zenon, <2>2
  <2>4. Cardinality(Mappings(i)) = 1
    BY ZenonT(30), <2>3, FS_Singleton
  <2>5. pm.refs[i] = 0
    BY Zenon, <1>1, <1>3
  <2> QED BY SMTT(30), <2>4, <2>5
<1>11. \A i \in pm.free : pm.refs[i] = 0
  BY ZenonT(30), <1>1, <1>3, <1>4
<1> QED BY ZenonT(30), <1>9, <1>10, <1>11 DEF CountInv, RefsCountSharers

\* The copy takes one mapping from the shared page to the new one.
LEMMA CopyKeepsCounts ==
    ASSUME HeldInv, CountInv, cur \in Process, NEW a \in Addr, FaultCopies(a)
    PROVE  CountInv'
<1> DEFINE pte == space[cur].map[a]
           new == PmmAllocated(pm)
           old == pte.page
           e == [pte EXCEPT !.page = new, !.w = TRUE, !.cow = FALSE]
           x == <<cur, a>>
<1>1. /\ pte.cow /\ PmmGetref(pm, old) > 1 /\ new # NoPage
      /\ pm' = AfterUnref(AfterAlloc(pm), old)
      /\ space' = [space EXCEPT ![cur].map[a] = e]
  BY ZenonT(30) DEF FaultCopies
<1>2. /\ PmmSound(pm) /\ space \in [Process -> SpaceType]
      /\ \A p \in Process, b \in Addr : space[p].map[b].page \notin pm.free
  BY ZenonT(30) DEF HeldInv
<1>3. pte \in PteType /\ old \in Page /\ pte.present /\ old \notin pm.free
  <2>1. pte \in PteType /\ old \in Page
    BY ZenonT(30), TypesHeld
  <2> QED BY ZenonT(30), <1>1, <1>2, <2>1 DEF CountInv
<1>4. /\ new \in pm.free /\ new \in Page /\ pm'.free = pm.free \ {new}
      /\ pm'.refs = [pm.refs EXCEPT ![old] = @ - 1] /\ pm.refs[old] > 1
  BY ZenonT(30), <1>1, <1>2, <1>3, CopyFacts
<1>5. pm.refs \in [Page -> 0 .. RefMax]
  BY ZenonT(30), <1>2 DEF PmmSound, PmmType
<1> HIDE DEF new
<1>6. e \in PteType /\ e.page = new /\ e.present /\ ~e.cow
  BY ZenonT(30), <1>3, <1>4 DEF PteType
<1> HIDE DEF e
<1>7. /\ space'[cur].map[a] = e
      /\ \A p \in Process, b \in Addr : p # cur \/ b # a => space'[p].map[b] = space[p].map[b]
  BY Zenon, <1>1, <1>2, <1>6, SetEntry
<1>8. new # old
  BY ZenonT(30), <1>3, <1>4
<1>9. \A p \in Process, b \in Addr : space[p].map[b].page # new
  <2> TAKE p \in Process, b \in Addr
  <2>1. space[p].map[b].page \notin pm.free
    BY Zenon, <1>2
  <2> QED BY Zenon, <1>4, <2>1
<1> HIDE DEF old
<1>10. pte.page = old /\ space[cur].map[a] = pte
  BY ZenonT(30) DEF old
<1> HIDE DEF pte
<1>11. ASSUME NEW p \in Process
       PROVE  /\ OneAddress(space'[p].map)
              /\ \A b \in Addr : space'[p].map[b].cow => space'[p].map[b].present
  <2>1. OneAddress(space[p].map) /\ \A b \in Addr : space[p].map[b].cow => space[p].map[b].present
    BY ZenonT(30) DEF CountInv
  <2>2. CASE p = cur
    <3>1. \A b \in Addr : b # a => space'[p].map[b] = space[p].map[b] /\ space[p].map[b].page # new
      BY Zenon, <1>7, <1>9
    <3>2. space'[p].map[a].page = new /\ space'[p].map[a].present /\ ~space'[p].map[a].cow
      BY Zenon, <1>6, <1>7, <2>2
    <3>3. OneAddress(space'[p].map)
      BY ZenonT(30), <2>1, <3>1, <3>2 DEF OneAddress
    <3>4. \A b \in Addr : space'[p].map[b].cow => space'[p].map[b].present
      BY ZenonT(30), <2>1, <3>1, <3>2
    <3> QED BY Zenon, <3>3, <3>4
  <2>3. CASE p # cur
    <3>1. \A b \in Addr : space'[p].map[b] = space[p].map[b]
      BY Zenon, <1>7, <2>3
    <3> QED BY ZenonT(30), <2>1, <3>1 DEF OneAddress
  <2> QED BY Zenon, <2>2, <2>3
<1>12. \A i \in pm'.free : pm'.refs[i] = 0
  <2>1. \A i \in pm.free : pm.refs[i] = 0 /\ i # old
    BY ZenonT(30), <1>3 DEF CountInv
  <2>2. pm.free \subseteq Page
    BY ZenonT(30), <1>2 DEF PmmSound, PmmType
  <2> QED BY ZenonT(30), <1>4, <1>5, <2>1, <2>2
<1>13. ASSUME NEW i \in Page, Mappings(i)' # {} PROVE pm'.refs[i] = Cardinality(Mappings(i)') - 1
  <2>1. Mappings(i) # {} => pm.refs[i] = Cardinality(Mappings(i)) - 1
    BY Zenon DEF CountInv, RefsCountSharers
  <2>2. IsFiniteSet(Mappings(i)) /\ Cardinality(Mappings(i)) \in Nat
    BY ZenonT(30), MappingsFinite
  <2>3. CASE i = old
    <3>1. Mappings(i)' = Mappings(i) \ {x}
      <4>1. ASSUME NEW m \in Process \X Addr
            PROVE  space'[m[1]].map[m[2]].present /\ space'[m[1]].map[m[2]].page = i
                     <=> /\ space[m[1]].map[m[2]].present /\ space[m[1]].map[m[2]].page = i
                         /\ ~(m[1] = cur /\ m[2] = a)
        <5>1. CASE m[1] = cur /\ m[2] = a
          BY ZenonT(30), <1>6, <1>7, <1>8, <2>3, <5>1
        <5>2. CASE m[1] # cur \/ m[2] # a
          BY ZenonT(30), <1>7, <5>2, PairOf
        <5> QED BY Zenon, <5>1, <5>2
      <4>2. \A m \in Process \X Addr : m = x <=> m[1] = cur /\ m[2] = a
        BY PairIs
      <4> HIDE DEF x
      <4> QED BY ZenonT(30), <4>1, <4>2 DEF Mappings
    <3>2. x \in Mappings(i)
      BY ZenonT(30), <1>3, <1>10, <2>3 DEF Mappings
    <3>3. Cardinality(Mappings(i) \ {x}) = Cardinality(Mappings(i)) - 1
      BY ZenonT(30), <2>2, <3>2, FS_RemoveElement
    <3>4. pm'.refs[i] = pm.refs[i] - 1
      BY ZenonT(30), <1>4, <1>5, <2>3
    <3>5. pm.refs[i] = Cardinality(Mappings(i)) - 1
      BY ZenonT(30), <2>1, <3>2
    <3> HIDE DEF x
    <3> QED BY ZenonT(30), <2>2, <3>1, <3>3, <3>4, <3>5
  <2>4. CASE i = new
    <3>1. Mappings(i)' = {x}
      <4>1. ASSUME NEW m \in Process \X Addr
            PROVE  space'[m[1]].map[m[2]].present /\ space'[m[1]].map[m[2]].page = i
                     <=> m[1] = cur /\ m[2] = a
        <5>1. CASE m[1] = cur /\ m[2] = a
          BY ZenonT(30), <1>6, <1>7, <2>4, <5>1
        <5>2. CASE m[1] # cur \/ m[2] # a
          <6>1. m[1] \in Process /\ m[2] \in Addr
            BY Zenon, PairOf
          <6>2. space'[m[1]].map[m[2]] = space[m[1]].map[m[2]] /\ space[m[1]].map[m[2]].page # new
            BY Zenon, <1>7, <1>9, <5>2, <6>1
          <6> QED BY Zenon, <2>4, <5>2, <6>2
        <5> QED BY Zenon, <5>1, <5>2
      <4>2. x \in Process \X Addr
        BY Zenon
      <4>3. \A m \in Process \X Addr : m = x <=> m[1] = cur /\ m[2] = a
        BY PairIs
      <4> HIDE DEF x
      <4> QED BY ZenonT(30), <4>1, <4>2, <4>3 DEF Mappings
    <3>2. Cardinality({x}) = 1
      BY ZenonT(30), FS_Singleton
    <3>3. pm'.refs[i] = pm.refs[i]
      BY ZenonT(30), <1>4, <1>5, <1>8, <2>4
    <3>4. pm.refs[i] = 0
      BY ZenonT(30), <1>4, <2>4 DEF CountInv
    <3> HIDE DEF x
    <3>5. 0 = 1 - 1
      OBVIOUS
    <3> QED BY ZenonT(30), <3>1, <3>2, <3>3, <3>4, <3>5
  <2>5. CASE i # old /\ i # new
    <3>1. Mappings(i)' = Mappings(i)
      BY ZenonT(30), <1>6, <1>7, <1>10, <2>5 DEF Mappings
    <3>2. pm'.refs[i] = pm.refs[i]
      BY ZenonT(30), <1>4, <1>5, <2>5
    <3> QED BY ZenonT(30), <1>13, <2>1, <3>1, <3>2
  <2> QED BY ZenonT(30), <2>3, <2>4, <2>5
<1> QED BY ZenonT(30), <1>11, <1>12, <1>13 DEF CountInv, RefsCountSharers

\* fork gives every page of the parent one more mapping.
LEMMA ForkKeepsCounts ==
    ASSUME HeldInv, CountInv, Cardinality(Process) <= RefMax + 1, NEW c, Fork(c)
    PROVE  CountInv'
<1> DEFINE k == ForkStart
           d == ForkEnd
           map == space[cur].map
           N == Len(VA)
<1>1. /\ cur # Idle /\ c \in Process \ alive /\ space[c] = NoSpace
      /\ pm' = d.pm
      /\ space' = [space EXCEPT ![c] = d.sp, ![cur].map = d.sp.map]
  BY Zenon, ForkSteps DEF Running
<1>2. /\ cur \in Process /\ cur \in alive /\ PmmSound(pm) /\ space \in [Process -> SpaceType]
      /\ map \in [Addr -> PteType]
      /\ \A b \in Addr : map[b].page \notin pm.free /\ map[b].page \in Page
  BY ZenonT(30), <1>1 DEF HeldInv, SpaceType, PteType
<1>3. /\ k \in KernelType /\ PmmSound(k.pm) /\ k.pm.free \subseteq pm.free /\ k.pm.refs = pm.refs
      /\ k.sp.map = map
  BY Zenon, <1>2, ForkStartFacts
<1>4. Forked(k, N, d)
  BY ZenonT(30), <1>3, ForkLoop DEF ForkEnd
<1> HIDE DEF k, d, map
<1>5. pm.refs \in [Page -> 0 .. RefMax] /\ pm.free \subseteq Page
  BY ZenonT(30), <1>2 DEF PmmSound, PmmType
<1>6. /\ OneAddress(map)
      /\ \A b \in Addr : map[b].cow => map[b].present
  BY Zenon, <1>2 DEF CountInv, map
<1>7. ASSUME NEW i \in Page PROVE /\ Mappings(i) # {} => pm.refs[i] = Cardinality(Mappings(i)) - 1
                                  /\ IsFiniteSet(Mappings(i)) /\ Cardinality(Mappings(i)) \in Nat
                                  /\ Cardinality(Mappings(i)) <= Cardinality(Process) - 1
  <2>1. Cardinality(Mappings(i)) <= Cardinality(Process) - 1
    BY ZenonT(30), <1>1, SharersBound
  <2> QED BY Zenon, <2>1, MappingsFinite DEF CountInv, RefsCountSharers
<1>8. ASSUME NEW b \in Addr, map[b].present PROVE pm.refs[map[b].page] < RefMax
  <2> DEFINE i == map[b].page
  <2>1. <<cur, b>> \in Mappings(i)
    BY ZenonT(30), <1>2, <1>8, InMappings DEF map
  <2>2. i \in Page /\ Mappings(i) # {}
    BY ZenonT(30), <1>2, <2>1
  <2> HIDE DEF i
  <2>3. /\ pm.refs[i] = Cardinality(Mappings(i)) - 1 /\ Cardinality(Mappings(i)) \in Nat
        /\ Cardinality(Mappings(i)) <= Cardinality(Process) - 1
    BY Zenon, <1>7, <2>2
  <2>4. Cardinality(Process) \in Nat
    BY ZenonT(30), VmmAssumption, FS_CardinalityType
  <2>5. pm.refs[i] < RefMax
    BY <2>3, <2>4, PmmAssumption
  <2> QED BY ZenonT(30), <2>5 DEF i
<1>9. Room(k)
  BY ZenonT(30), <1>3, <1>6, <1>8 DEF Room
<1>10. /\ pm'.free \subseteq pm.free
       /\ \A b \in Addr : /\ d.sp.map[b].page = map[b].page
                          /\ d.sp.map[b].present = map[b].present
                          /\ d.sp.map[b].cow => map[b].cow \/ map[b].present
       /\ \A i \in Page : /\ i \in Led(map, N) => pm'.refs[i] = pm.refs[i] + 1
                          /\ i \notin Led(map, N) => pm'.refs[i] = pm.refs[i]
  BY ZenonT(30), <1>1, <1>3, <1>4, <1>9 DEF Forked
<1>11. d.sp \in SpaceType
  BY ZenonT(30), <1>4 DEF Forked, KernelType
<1>12. /\ space'[c] = d.sp /\ space'[cur].map = d.sp.map
       /\ \A p \in Process : p # c /\ p # cur => space'[p] = space[p]
  BY ZenonT(30), <1>1, <1>2, <1>11, ForkTables
<1>13. \A i : i \in Led(map, N) <=> \E b \in Addr : map[b].present /\ map[b].page = i
  BY Zenon, <1>2, AddrFacts DEF Led
<1>14. ASSUME NEW p \in Process
       PROVE  /\ OneAddress(space'[p].map)
              /\ \A b \in Addr : space'[p].map[b].cow => space'[p].map[b].present
  <2>1. CASE p = c \/ p = cur
    <3>1. space'[p].map = d.sp.map
      BY ZenonT(30), <1>12, <2>1
    <3>2. OneAddress(d.sp.map)
      BY ZenonT(30), <1>6, <1>10 DEF OneAddress
    <3>3. \A b \in Addr : d.sp.map[b].cow => d.sp.map[b].present
      BY ZenonT(30), <1>6, <1>10
    <3> QED BY ZenonT(30), <3>1, <3>2, <3>3
  <2>2. CASE p # c /\ p # cur
    BY Zenon, <1>12, <2>2 DEF CountInv
  <2> QED BY Zenon, <2>1, <2>2
<1>15. \A i \in pm'.free : pm'.refs[i] = 0
  <2> SUFFICES ASSUME NEW i \in pm'.free PROVE pm'.refs[i] = 0
    BY ZenonT(30)
  <2>1. i \in pm.free /\ i \in Page
    BY ZenonT(30), <1>5, <1>10
  <2>2. i \notin Led(map, N)
    <3>1. \A b \in Addr : map[b].page # i
      BY ZenonT(30), <1>2, <2>1
    <3> QED BY ZenonT(30), <1>13, <3>1
  <2>3. pm'.refs[i] = pm.refs[i] /\ pm.refs[i] = 0
    BY ZenonT(30), <1>10, <2>1, <2>2 DEF CountInv
  <2> QED BY Zenon, <2>3
<1>16. ASSUME NEW i \in Page, Mappings(i)' # {} PROVE pm'.refs[i] = Cardinality(Mappings(i)') - 1
  <2>1. ASSUME NEW p \in Process, NEW b \in Addr
        PROVE  /\ p # c => (space'[p].map[b].present <=> space[p].map[b].present)
               /\ p # c => space'[p].map[b].page = space[p].map[b].page
               /\ p = c => (space'[p].map[b].present <=> map[b].present)
               /\ p = c => space'[p].map[b].page = map[b].page
               /\ ~space[c].map[b].present
    <3>0. ~space[c].map[b].present
      BY Zenon, <1>1, NoSpaceFacts
    <3>1. CASE p = c
      BY ZenonT(30), <1>10, <1>12, <3>0, <3>1
    <3>2. CASE p = cur /\ p # c
      BY ZenonT(30), <1>10, <1>12, <3>0, <3>2 DEF map
    <3>3. CASE p # cur /\ p # c
      BY ZenonT(30), <1>12, <3>0, <3>3
    <3> QED BY ZenonT(30), <3>1, <3>2, <3>3
  <2>2. CASE i \notin Led(map, N)
    <3>1. \A b \in Addr : ~(map[b].present /\ map[b].page = i)
      BY ZenonT(30), <1>13, <2>2
    <3>2. Mappings(i)' = Mappings(i)
      <4>1. ASSUME NEW m \in Process \X Addr
            PROVE  space'[m[1]].map[m[2]].present /\ space'[m[1]].map[m[2]].page = i
                     <=> space[m[1]].map[m[2]].present /\ space[m[1]].map[m[2]].page = i
        <5>1. m[1] \in Process /\ m[2] \in Addr
          BY Zenon, PairOf
        <5>2. CASE m[1] = c
          <6>1. /\ space'[m[1]].map[m[2]].present <=> map[m[2]].present
                /\ space'[m[1]].map[m[2]].page = map[m[2]].page
                /\ ~space[m[1]].map[m[2]].present
            BY ZenonT(30), <2>1, <5>1, <5>2
          <6> QED BY Zenon, <3>1, <5>1, <6>1
        <5>3. CASE m[1] # c
          BY ZenonT(30), <2>1, <5>1, <5>3
        <5> QED BY Zenon, <5>2, <5>3
      <4> QED BY ZenonT(30), <4>1 DEF Mappings
    <3>3. pm'.refs[i] = pm.refs[i]
      BY ZenonT(30), <1>10, <2>2
    <3> QED BY ZenonT(30), <1>7, <1>16, <3>2, <3>3
  <2>3. CASE i \in Led(map, N)
    <3>1. PICK b \in Addr : map[b].present /\ map[b].page = i
      BY ZenonT(30), <1>13, <2>3
    <3>2. \A z \in Addr : map[z].present /\ map[z].page = i => z = b
      BY ZenonT(30), <1>6, <3>1 DEF OneAddress
    <3> DEFINE x == <<c, b>>
    <3>3. Mappings(i)' = Mappings(i) \cup {x}
      <4>1. ASSUME NEW m \in Process \X Addr PROVE m \in Mappings(i)' <=> m \in Mappings(i) \/ m = x
        <5>1. m[1] \in Process /\ m[2] \in Addr /\ m = <<m[1], m[2]>>
          OBVIOUS
        <5>2. CASE m[1] = c
          <6>1. m \in Mappings(i)' <=> m[2] = b
            <7>1. /\ space'[m[1]].map[m[2]].present <=> map[m[2]].present
                  /\ space'[m[1]].map[m[2]].page = map[m[2]].page
              BY ZenonT(30), <2>1, <5>1, <5>2
            <7>2. map[m[2]].present /\ map[m[2]].page = i <=> m[2] = b
              BY ZenonT(30), <3>1, <3>2, <5>1
            <7> QED BY ZenonT(30), <7>1, <7>2 DEF Mappings
          <6>2. m \notin Mappings(i)
            BY ZenonT(30), <2>1, <5>1, <5>2 DEF Mappings
          <6>3. m = x <=> m[2] = b
            BY <5>1, <5>2
          <6> HIDE DEF x
          <6> QED BY ZenonT(30), <6>1, <6>2, <6>3
        <5>3. CASE m[1] # c
          <6>1. m \in Mappings(i)' <=> m \in Mappings(i)
            BY ZenonT(60), <2>1, <5>1, <5>3 DEF Mappings
          <6> QED BY ZenonT(30), <5>3, <6>1, PairIs
        <5> QED BY ZenonT(30), <5>2, <5>3
      <4>2. Mappings(i) \subseteq Process \X Addr /\ Mappings(i)' \subseteq Process \X Addr
        BY DEF Mappings
      <4>3. x \in Process \X Addr
        BY <1>1
      <4> HIDE DEF x
      <4> QED BY ZenonT(30), <4>1, <4>2, <4>3
    <3>4. x \notin Mappings(i)
      BY Zenon, <2>1, InMappings
    <3>5. <<cur, b>> \in Mappings(i)
      BY ZenonT(30), <1>2, <3>1, InMappings DEF map
    <3> HIDE DEF x
    <3>6. Cardinality(Mappings(i) \cup {x}) = Cardinality(Mappings(i)) + 1
      BY ZenonT(30), <1>7, <3>4, FS_AddElement
    <3>7. pm.refs[i] = Cardinality(Mappings(i)) - 1 /\ Cardinality(Mappings(i)) \in Nat
      BY Zenon, <1>7, <3>5
    <3>8. pm'.refs[i] = pm.refs[i] + 1
      BY Zenon, <1>10, <2>3
    <3>9. \A u, v, w \in Int : u = v - 1 /\ w = v + 1 => u + 1 = w - 1
      OBVIOUS
    <3>10. pm.refs[i] \in Int /\ Cardinality(Mappings(i)) \in Int /\ Cardinality(Mappings(i)') \in Int
      <4>1. \A v \in Nat : v \in Int /\ v - 1 \in Int /\ v + 1 \in Int
        OBVIOUS
      <4> QED BY Zenon, <3>3, <3>6, <3>7, <4>1
    <3> QED BY ZenonT(30), <3>3, <3>6, <3>7, <3>8, <3>9, <3>10
  <2> QED BY Zenon, <2>2, <2>3
<1> QED BY ZenonT(30), <1>14, <1>15, <1>16 DEF CountInv, RefsCountSharers

\* Every handler but execve keeps the counts.
LEMMA CountNext ==
    ASSUME Images = {}, Cardinality(Process) <= RefMax + 1, HeldInv, CountInv, [VmmNext]_vmmVars
    PROVE  CountInv'
<1>1. ASSUME UNCHANGED <<pm, space>> PROVE CountInv'
  <2>1. \A i : Mappings(i)' = Mappings(i)
    BY Zenon, <1>1, SameMappings
  <2> QED BY ZenonT(30), <1>1, <2>1 DEF CountInv, RefsCountSharers
<1>2. ASSUME NEW q \in {Idle} \cup Process, Switch(q) \/ Exit(q) PROVE CountInv'
  <2>1. UNCHANGED <<pm, space>>
    BY ZenonT(30), <1>2 DEF Switch, Exit
  <2> QED BY ZenonT(30), <1>1, <2>1
<1>3. ASSUME NEW a \in Addr, Write(a) \/ Evict(a) PROVE CountInv'
  <2>1. UNCHANGED <<pm, space>>
    BY ZenonT(30), <1>3 DEF Write, Evict
  <2> QED BY ZenonT(30), <1>1, <2>1
<1>4. ASSUME NEW a \in Addr, PageFault(a) PROVE CountInv'
  <2>1. cur # Idle /\ (FaultCopies(a) \/ FaultReuses(a) \/ UNCHANGED <<pm, mem, space>>)
    BY Zenon, <1>4, FaultSteps
  <2> DEFINE pte == space[cur].map[a]
             e == [pte EXCEPT !.w = TRUE, !.cow = FALSE]
  <2>2. cur \in Process /\ pte \in PteType /\ space \in [Process -> SpaceType]
    BY Zenon, <2>1, TypesHeld DEF HeldInv
  <2>3. CASE FaultCopies(a)
    BY ZenonT(30), <2>2, <2>3, CopyKeepsCounts
  <2>4. CASE FaultReuses(a)
    <3>1. space' = [space EXCEPT ![cur].map[a] = e] /\ pm' = pm
      BY ZenonT(30), <2>4 DEF FaultReuses
    <3> HIDE DEF pte
    <3>2. e \in PteType /\ e.page = pte.page /\ e.present = pte.present /\ ~e.cow
      BY ZenonT(30), <2>2 DEF PteType
    <3> HIDE DEF e
    <3>3. /\ space'[cur].map[a] = e
          /\ \A p \in Process, b \in Addr : p # cur \/ b # a => space'[p].map[b] = space[p].map[b]
      BY ZenonT(30), <2>2, <3>1, <3>2, SetEntry
    <3>4. \A p \in Process, b \in Addr : /\ space'[p].map[b].page = space[p].map[b].page
                                         /\ space'[p].map[b].present = space[p].map[b].present
                                         /\ space'[p].map[b].cow => space[p].map[b].cow
      BY ZenonT(30), <3>2, <3>3 DEF pte
    <3>5. \A i : Mappings(i)' = Mappings(i)
      BY ZenonT(30), <3>4, SameMappings
    <3>6. \A p \in Process : /\ OneAddress(space'[p].map)
                             /\ \A b \in Addr : space'[p].map[b].cow => space'[p].map[b].present
      BY <3>4 DEF CountInv, OneAddress
    <3> QED BY ZenonT(30), <3>1, <3>5, <3>6 DEF CountInv, RefsCountSharers
  <2>5. CASE UNCHANGED <<pm, mem, space>>
    BY Zenon, <1>1, <2>5
  <2> QED BY ZenonT(30), <2>1, <2>3, <2>4, <2>5
<1>5. ASSUME NEW c \in {Idle} \cup Process, Fork(c) PROVE CountInv'
  BY Zenon, <1>5, ForkKeepsCounts
<1>6. ASSUME UNCHANGED vmmVars PROVE CountInv'
  <2>1. UNCHANGED <<pm, space>>
    BY ZenonT(30), <1>6 DEF vmmVars
  <2> QED BY Zenon, <1>1, <2>1
<1> QED BY ZenonT(30), <1>2, <1>3, <1>4, <1>5, <1>6 DEF VmmNext

\* The count of a page is exactly one below the number of entries that lead to it,
\* over every interleaving of fork, store, fault and exit.  It needs that pmm_alloc's
\* 0 was not mapped, and that the 16-bit count does not saturate: there are at most
\* RefMax + 1 processes (fork_table, pmm_ref, vmm_page_fault, pmm_unref).
THEOREM ForkCountsSharers ==
    ASSUME Images = {}, Cardinality(Process) <= RefMax + 1
    PROVE  VmmSpec /\ []FailureIsNotMapped => []RefsCountSharers
<1>1. VmmInit /\ FailureIsNotMapped => CountInv
  BY ZenonT(30), CountInit
<1>2. HeldInv /\ CountInv /\ [VmmNext]_vmmVars => CountInv'
  BY ZenonT(30), CountNext
<1>3. CountInv => RefsCountSharers
  BY DEF CountInv
<1> QED BY <1>1, <1>2, <1>3, HeldInvariant, PTL DEF VmmSpec
================================================================================
