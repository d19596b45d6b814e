------------------------------ MODULE HeapProofs ------------------------------
(***************************************************************************)
(* The kernel heap for every arena, header, chunk and sequence of calls:   *)
(* what the run heap checks on two chunks.                                 *)
(*                                                                         *)
(* kfree has room for ARR_MAX free blocks, so the theorems are about heaps *)
(* whose list stays shorter.                                               *)
(***************************************************************************)
EXTENDS Heap, FiniteSetTheorems, WellFoundedInduction, TLAPS

-----------------------------------------------------------------------------
(* Induction and loops over a sequence.                                     *)

\* Induction up to N, for the set G of the numbers that have the property.
LEMMA UpTo ==
    ASSUME NEW N \in Nat, NEW G, 0 \in G,
           \A n \in 1 .. N : n - 1 \in G => n \in G
    PROVE  \A n \in 0 .. N : n \in G
<1> SUFFICES ASSUME NEW c \in 0 .. N, c \notin G PROVE FALSE
  OBVIOUS
<1> DEFINE R == OpToRel(<, Nat)
           Bad == {n \in 0 .. N : n \notin G}
<1>1. IsWellFoundedOn(R, Nat)
  BY Zenon, NatLessThanWellFounded
<1>2. \A x, y \in Nat : x < y => <<x, y>> \in R
  BY DEF OpToRel
<1>3. Bad \subseteq Nat /\ c \in Bad
  OBVIOUS
<1> HIDE DEF R, Bad
<1>4. PICK m \in Bad : \A y \in Bad : ~(<<y, m>> \in R)
  BY Zenon, <1>1, <1>3, WFMin
<1>5. m \in 0 .. N /\ m \notin G
  BY DEF Bad
<1>6. m - 1 \in Bad /\ m - 1 \in Nat /\ m - 1 < m
  BY <1>5 DEF Bad
<1>7. m \in Nat
  BY <1>5
<1>8. <<m - 1, m>> \in R
  BY Zenon, <1>2, <1>6, <1>7
<1> QED BY Zenon, <1>4, <1>6, <1>8

\* The loop that goes from state s0 by F, turn by turn, exists.
IsLoop(g, N, S, s0, F) ==
    g \in [0 .. N -> S] /\ g[0] = s0 /\ \A n \in 1 .. N : g[n] = F[n][g[n - 1]]

\* A loop of N turns from s0 runs: the recursive function is there.
LEMMA LoopExists ==
    ASSUME NEW N \in Nat, NEW S, NEW s0 \in S, NEW F \in [1 .. N -> [S -> S]]
    PROVE  \E g : IsLoop(g, N, S, s0, F)
<1> DEFINE Good(m, g) == g[0] = s0 /\ \A n \in 1 .. m : g[n] = F[n][g[n - 1]]
           G == {m \in 0 .. N : \E g \in [0 .. m -> S] : Good(m, g)}
<1>1. 0 \in G
  <2> DEFINE g == [n \in 0 .. 0 |-> s0]
  <2>1. g \in [0 .. 0 -> S] /\ Good(0, g)
    OBVIOUS
  <2> HIDE DEF g
  <2> QED BY <2>1
<1>2. ASSUME NEW m \in 1 .. N, m - 1 \in G PROVE m \in G
  <2>1. PICK g \in [0 .. m - 1 -> S] : Good(m - 1, g)
    BY <1>2
  <2> DEFINE h == [n \in 0 .. m |-> IF n = m THEN F[m][g[m - 1]] ELSE g[n]]
  <2>2. g[m - 1] \in S /\ F[m] \in [S -> S]
    OBVIOUS
  <2>3. h \in [0 .. m -> S]
    BY <2>2
  <2>4. h[0] = s0
    BY <2>1
  <2>5. ASSUME NEW n \in 1 .. m PROVE h[n] = F[n][h[n - 1]]
    <3>0. n - 1 \in 0 .. m - 1 /\ h[n - 1] = g[n - 1]
      OBVIOUS
    <3>1. CASE n = m
      <4>1. h[m] = F[m][g[m - 1]]
        OBVIOUS
      <4> QED BY <3>0, <3>1, <4>1, Zenon
    <3>2. CASE n # m
      BY <2>1, <3>0, <3>2
    <3> QED BY ZenonT(30), <3>1, <3>2
  <2> HIDE DEF h
  <2> QED BY <2>3, <2>4, <2>5
<1> HIDE DEF G
<1>3. \A m \in 0 .. N : m \in G
  BY Zenon, <1>1, <1>2, UpTo
<1>4. N \in G
  BY <1>3
<1> QED BY <1>4 DEF G, IsLoop

-----------------------------------------------------------------------------

\* A set of numbers has a least one.
LEMMA LeastExists ==
    ASSUME NEW S, S \subseteq Nat, S # {}
    PROVE  \E n \in S : \A m \in S : n <= m
<1> DEFINE R == OpToRel(<, Nat)
<1>1. IsWellFoundedOn(R, Nat)
  BY Zenon, NatLessThanWellFounded
<1>2. \A x, y \in Nat : x < y => <<x, y>> \in R
  BY DEF OpToRel
<1> HIDE DEF R
<1>3. PICK n \in S : \A y \in S : ~(<<y, n>> \in R)
  BY Zenon, <1>1, WFMin
<1>4. ASSUME NEW m \in S PROVE n <= m
  <2>1. m \in Nat /\ n \in Nat /\ ~(m < n)
    BY Zenon, <1>2, <1>3
  <2> QED BY <2>1
<1> QED BY Zenon, <1>4

-----------------------------------------------------------------------------
(* Blocks and lists of blocks.                                              *)

Block == [at : Nat, size : Nat \ {0}]
End(b) == b.at + b.size

\* Two blocks have no unit in common.
Apart(b, c) == End(b) <= c.at \/ End(c) <= b.at
AllApart(s) == \A i, j \in DOMAIN s : i # j => Apart(s[i], s[j])

\* Some block of the list holds the unit u.
Covers(s, u) == \E i \in DOMAIN s : u \in Span(s[i])

Listed(s) == {s[i] : i \in DOMAIN s}

\* The list is in the order of addresses; in the second case no two blocks touch.
Ascending(s) == \A i, j \in DOMAIN s : i < j => End(s[i]) <= s[j].at
Gapped(s) == \A i, j \in DOMAIN s : i < j => End(s[i]) < s[j].at

\* The units of a block.
LEMMA SpanFacts ==
    ASSUME NEW b, b.at \in Nat, b.size \in Nat \ {0}
    PROVE  \A u \in Nat : u \in Span(b) <=> b.at <= u /\ u < End(b)
BY DEF Span, End

\* Blocks overlap exactly when they share a unit.
LEMMA ApartUnits ==
    ASSUME NEW b, b.at \in Nat, b.size \in Nat \ {0}, NEW c, c.at \in Nat, c.size \in Nat \ {0}
    PROVE  /\ Apart(b, c) => \A u \in Nat : ~(u \in Span(b) /\ u \in Span(c))
           /\ ~Apart(b, c) => \E u \in Nat : u \in Span(b) /\ u \in Span(c)
<1>1. Apart(b, c) => \A u \in Nat : ~(u \in Span(b) /\ u \in Span(c))
  BY DEF Apart, Span, End
<1>2. ASSUME ~Apart(b, c) PROVE \E u \in Nat : u \in Span(b) /\ u \in Span(c)
  <2>1. CASE b.at <= c.at
    <3>1. c.at \in Span(b) /\ c.at \in Span(c)
      BY <1>2, <2>1 DEF Apart, Span, End
    <3> QED BY <3>1
  <2>2. CASE c.at < b.at
    <3>1. b.at \in Span(b) /\ b.at \in Span(c)
      BY <1>2, <2>2 DEF Apart, Span, End
    <3> QED BY ZenonT(30), <3>1
  <2> QED BY <2>1, <2>2
<1> QED BY <1>1, <1>2

\* The place that the inner loop of kfree's sort finds exists.
LEMMA PlaceExists ==
    ASSUME NEW s \in Seq(Block), NEW b \in Block
    PROVE  \E n \in 0 .. Len(s) : /\ n > 0 => s[n].at <= b.at
                                  /\ \A j \in n + 1 .. Len(s) : s[j].at > b.at
<1> DEFINE N == Len(s)
           P(m, n) == (n > 0 => s[n].at <= b.at) /\ \A j \in n + 1 .. m : s[j].at > b.at
           G == {m \in 0 .. N : \E n \in 0 .. m : P(m, n)}
<1>1. N \in Nat /\ b.at \in Nat /\ \A j \in 1 .. N : s[j].at \in Nat
  <2>1. N \in Nat /\ \A j \in 1 .. N : s[j] \in Block
    OBVIOUS
  <2> HIDE DEF N
  <2> QED BY ZenonT(30), <2>1 DEF Block
<1>2. 0 \in G
  <2>1. P(0, 0) /\ 0 \in 0 .. 0 /\ 0 \in 0 .. N
    BY <1>1
  <2> QED BY <2>1
<1>3. ASSUME NEW m \in 1 .. N, m - 1 \in G PROVE m \in G
  <2>1. CASE s[m].at <= b.at
    <3>1. P(m, m) /\ m \in 0 .. m /\ m \in 0 .. N
      BY <1>1, <2>1
    <3> QED BY <3>1
  <2>2. CASE ~(s[m].at <= b.at)
    <3>1. PICK n \in 0 .. m - 1 : P(m - 1, n)
      BY <1>3
    <3>2. s[m].at > b.at
      BY <1>1, <2>2
    <3>3. P(m, n)
      BY <1>1, <3>1, <3>2
    <3>4. n \in 0 .. m /\ m \in 0 .. N
      BY <1>1
    <3> QED BY <3>3, <3>4
  <2> QED BY <2>1, <2>2
<1> HIDE DEF G
<1>4. \A m \in 0 .. N : m \in G
  BY Zenon, <1>1, <1>2, <1>3, UpTo
<1>5. N \in G
  BY <1>1, <1>4
<1> QED BY ZenonT(30), <1>5 DEF G

\* Of two blocks that lie apart, the one that begins first ends before the other.
LEMMA InOrder ==
    ASSUME NEW b \in Block, NEW c \in Block, Apart(b, c), b.at <= c.at
    PROVE  End(b) <= c.at
<1>1. b.at \in Nat /\ b.size \in Nat \ {0} /\ c.at \in Nat /\ c.size \in Nat \ {0}
  BY DEF Block
<1> QED BY <1>1 DEF Apart, End

\* One turn of the insertion sort.
LEMMA InsertFacts ==
    ASSUME NEW s \in Seq(Block), NEW b \in Block
    PROVE  /\ Insert(s, b) \in Seq(Block)
           /\ Listed(Insert(s, b)) = Listed(s) \cup {b}
           /\ Ascending(s) /\ (\A i \in DOMAIN s : Apart(s[i], b)) => Ascending(Insert(s, b))
<1> DEFINE Place(n) == /\ n > 0 => s[n].at <= b.at
                       /\ \A j \in n + 1 .. Len(s) : s[j].at > b.at
           n == CHOOSE n \in 0 .. Len(s) : Place(n)
           t == [j \in 1 .. Len(s) + 1 |-> IF j <= n THEN s[j] ELSE IF j = n + 1 THEN b ELSE s[j - 1]]
<1>1. Insert(s, b) = t
  BY Zenon DEF Insert
<1>2. n \in 0 .. Len(s) /\ Place(n)
  <2>1. \E m \in 0 .. Len(s) : Place(m)
    BY PlaceExists
  <2> HIDE DEF Place
  <2> QED BY Zenon, <2>1
<1> HIDE DEF n
<1>3. Len(s) \in Nat /\ DOMAIN s = 1 .. Len(s) /\ \A j \in 1 .. Len(s) : s[j] \in Block
  OBVIOUS
<1>4. t \in Seq(Block) /\ Len(t) = Len(s) + 1 /\ DOMAIN t = 1 .. Len(s) + 1
  <2>1. \A j \in 1 .. Len(s) + 1 : t[j] \in Block
    BY <1>2, <1>3
  <2> QED BY <1>3, <2>1
<1>5. /\ \A j \in 1 .. Len(s) : j <= n => t[j] = s[j]
      /\ t[n + 1] = b
      /\ \A j \in 1 .. Len(s) : j > n => t[j + 1] = s[j]
      /\ \A j \in 1 .. Len(s) + 1 : j > n + 1 => t[j] = s[j - 1]
  BY <1>2, <1>3
<1> HIDE DEF t
<1>6. Listed(t) = Listed(s) \cup {b}
  <2>1. ASSUME NEW j \in 1 .. Len(s) + 1 PROVE t[j] = b \/ \E i \in 1 .. Len(s) : t[j] = s[i]
    BY <1>2, <1>3, <1>5
  <2>2. ASSUME NEW i \in 1 .. Len(s) PROVE \E j \in 1 .. Len(s) + 1 : t[j] = s[i]
    <3>1. i \in 1 .. Len(s) + 1 /\ i + 1 \in 1 .. Len(s) + 1
      BY <1>3
    <3> QED BY <1>2, <1>3, <1>5, <3>1
  <2>3. n + 1 \in 1 .. Len(s) + 1
    BY <1>2, <1>3
  <2>4. Listed(t) = {t[j] : j \in 1 .. Len(s) + 1} /\ Listed(s) = {s[i] : i \in 1 .. Len(s)}
    BY ZenonT(30), <1>3, <1>4 DEF Listed
  <2>5. Listed(t) \subseteq Listed(s) \cup {b}
    BY Zenon, <2>1, <2>4
  <2>6. Listed(s) \cup {b} \subseteq Listed(t)
    BY ZenonT(30), <1>5, <2>2, <2>3, <2>4
  <2> QED BY Zenon, <2>5, <2>6
<1>7. ASSUME Ascending(s), \A i \in DOMAIN s : Apart(s[i], b) PROVE Ascending(t)
  <2>1. SUFFICES ASSUME NEW i \in 1 .. Len(s) + 1, NEW j \in 1 .. Len(s) + 1, i < j
                 PROVE  End(t[i]) <= t[j].at
    BY ZenonT(30), <1>4 DEF Ascending
  <2>2. \A k, l \in 1 .. Len(s) : k < l => End(s[k]) <= s[l].at
    BY ZenonT(30), <1>3, <1>7 DEF Ascending
  <2>3. b.at \in Nat /\ b.size \in Nat \ {0}
        /\ \A k \in 1 .. Len(s) : s[k].at \in Nat /\ s[k].size \in Nat \ {0}
    BY ZenonT(30), <1>3 DEF Block
  <2>4. ASSUME NEW k \in 1 .. Len(s), k <= n PROVE End(s[k]) <= b.at
    <3>1. s[n].at <= b.at /\ n \in 1 .. Len(s)
      BY <1>2, <1>3, <2>4
    <3>2. s[k].at <= s[n].at
      <4>1. s[k].at \in Nat /\ s[k].size \in Nat /\ s[n].at \in Nat
        BY Zenon, <2>3, <3>1
      <4>2. CASE k = n
        BY <4>1, <4>2
      <4>3. CASE k # n
        <5>1. k < n
          BY <2>4, <3>1, <4>3
        <5>2. s[k].at + s[k].size <= s[n].at
          BY Zenon, <2>2, <3>1, <5>1 DEF End
        <5>3. \A u, v, w \in Nat : u + v <= w => u <= w
          OBVIOUS
        <5> QED BY Zenon, <4>1, <5>2, <5>3
      <4> QED BY Zenon, <4>2, <4>3
    <3>3. Apart(s[k], b)
      BY Zenon, <1>3, <1>7
    <3>4. s[k].at \in Nat /\ s[n].at \in Nat /\ b.at \in Nat
      BY Zenon, <2>3, <3>1
    <3>5. s[k].at <= b.at
      <4>1. \A u, v, w \in Nat : u <= v /\ v <= w => u <= w
        OBVIOUS
      <4> QED BY Zenon, <3>1, <3>2, <3>4, <4>1
    <3> QED BY Zenon, <1>3, <3>3, <3>5, InOrder
  <2>5. ASSUME NEW k \in 1 .. Len(s), k > n PROVE End(b) <= s[k].at
    <3>1. s[k].at > b.at
      BY <1>2, <1>3, <2>5
    <3>2. Apart(b, s[k])
      BY Zenon, <1>3, <1>7 DEF Apart
    <3>3. s[k].at \in Nat /\ b.at \in Nat
      BY Zenon, <2>3
    <3>4. b.at <= s[k].at
      BY <3>1, <3>3
    <3> QED BY Zenon, <1>3, <3>2, <3>4, InOrder
  <2>6. CASE j <= n
    BY <1>2, <1>3, <1>5, <2>1, <2>2, <2>6
  <2>7. CASE j = n + 1
    BY <1>2, <1>3, <1>5, <2>1, <2>4, <2>7
  <2>8. CASE j > n + 1
    <3>1. t[j] = s[j - 1] /\ j - 1 \in 1 .. Len(s) /\ j - 1 > n
      BY <1>2, <1>3, <1>5, <2>8
    <3>2. CASE i <= n
      BY <1>2, <1>3, <1>5, <2>2, <3>1, <3>2
    <3>3. CASE i = n + 1
      BY ZenonT(30), <1>5, <2>5, <3>1, <3>3
    <3>4. CASE i > n + 1
      <4>1. t[i] = s[i - 1] /\ i - 1 \in 1 .. Len(s) /\ i - 1 < j - 1
        BY <1>2, <1>3, <1>5, <2>1, <3>4
      <4> QED BY ZenonT(30), <2>2, <3>1, <4>1
    <3> QED BY <1>2, <3>2, <3>3, <3>4
  <2> QED BY <1>2, <2>6, <2>7, <2>8
<1> QED BY Zenon, <1>1, <1>4, <1>6, <1>7

\* kfree's sort: the same blocks in the order of addresses.
LEMMA SortFacts ==
    ASSUME NEW s \in Seq(Block), AllApart(s)
    PROVE  LET t == ForEach(Insert, <<>>, s)
           IN t \in Seq(Block) /\ Ascending(t) /\ Listed(t) = Listed(s)
<1> DEFINE N == Len(s)
           S == Seq(Block)
           F == [n \in 1 .. N |-> [c \in S |-> Insert(c, s[n])]]
           after == CHOOSE f : f = [n \in 0 .. N |-> IF n = 0 THEN <<>> ELSE Insert(f[n - 1], s[n])]
           First(n) == {s[j] : j \in 1 .. n}
<1>1. N \in Nat /\ \A n \in 1 .. N : s[n] \in Block
  OBVIOUS
<1>2. ForEach(Insert, <<>>, s) = after[N]
  BY DEF ForEach
<1>3. ASSUME NEW c \in S, NEW n \in 1 .. N PROVE Insert(c, s[n]) \in S
  BY Zenon, <1>1, InsertFacts
<1>4. <<>> \in S
  OBVIOUS
<1>5. \A i, j \in 1 .. N : i # j => Apart(s[i], s[j])
  BY DEF AllApart
<1>6. First(N) = Listed(s)
  BY DEF Listed
<1> HIDE DEF N, S
<1>7. F \in [1 .. N -> [S -> S]]
  BY Zenon, <1>3
<1>8. after = [n \in 0 .. N |-> IF n = 0 THEN <<>> ELSE Insert(after[n - 1], s[n])]
  <2> HIDE DEF F
  <2>1. PICK g : IsLoop(g, N, S, <<>>, F)
    BY Zenon, <1>1, <1>4, <1>7, LoopExists
  <2>2. g \in [0 .. N -> S] /\ g[0] = <<>> /\ \A n \in 1 .. N : g[n] = F[n][g[n - 1]]
    BY Zenon, <2>1 DEF IsLoop
  <2>3. ASSUME NEW n \in 0 .. N PROVE g[n] = IF n = 0 THEN <<>> ELSE Insert(g[n - 1], s[n])
    <3>1. CASE n = 0
      BY Zenon, <2>2, <3>1
    <3>2. CASE n # 0
      <4>1. n \in 1 .. N /\ n - 1 \in 0 .. N
        BY <1>1, <3>2
      <4>2. g[n - 1] \in S /\ g[n] = F[n][g[n - 1]]
        BY Zenon, <2>2, <4>1
      <4> QED BY Zenon, <3>2, <4>1, <4>2 DEF F
    <3> QED BY Zenon, <3>1, <3>2
  <2>4. g = [n \in 0 .. N |-> g[n]]
    BY Zenon, <2>2
  <2>5. g = [n \in 0 .. N |-> IF n = 0 THEN <<>> ELSE Insert(g[n - 1], s[n])]
    BY <2>3, <2>4, Zenon
  <2> QED BY <2>5, Zenon
<1> HIDE DEF after, F
<1> DEFINE G == {n \in 0 .. N : after[n] \in S /\ Ascending(after[n]) /\ Listed(after[n]) = First(n)}
<1>9. 0 \in G
  <2>1. 0 \in 0 .. N
    BY <1>1
  <2>2. after[0] = <<>>
    BY Zenon, <1>8, <2>1
  <2>3. Ascending(<<>>) /\ Listed(<<>>) = {} /\ First(0) = {}
    BY DEF Ascending, Listed
  <2> QED BY Zenon, <1>4, <2>1, <2>2, <2>3
<1>10. ASSUME NEW n \in 1 .. N, n - 1 \in G PROVE n \in G
  <2> DEFINE c == after[n - 1]
  <2>1. n \in 0 .. N /\ n # 0
    BY <1>1
  <2>2. after[n] = Insert(c, s[n])
    BY <1>8, <2>1, Zenon
  <2>3. c \in S /\ Ascending(c) /\ Listed(c) = First(n - 1)
    BY Zenon, <1>10
  <2> HIDE DEF c
  <2>4. First(n) = First(n - 1) \cup {s[n]}
    <3>1. 1 .. n = (1 .. n - 1) \cup {n}
      BY <1>1
    <3> QED BY Zenon, <3>1
  <2>5. ASSUME NEW i \in DOMAIN c PROVE Apart(c[i], s[n])
    <3>1. c[i] \in First(n - 1)
      BY Zenon, <2>3 DEF Listed
    <3>2. PICK j \in 1 .. n - 1 : c[i] = s[j]
      BY Zenon, <3>1
    <3>3. j \in 1 .. N /\ j # n
      BY <1>1
    <3> QED BY Zenon, <1>5, <3>2, <3>3
  <2>6. /\ Insert(c, s[n]) \in S /\ Ascending(Insert(c, s[n]))
        /\ Listed(Insert(c, s[n])) = Listed(c) \cup {s[n]}
    BY Zenon, <1>1, <2>3, <2>5, InsertFacts DEF S
  <2> QED BY Zenon, <2>1, <2>2, <2>3, <2>4, <2>6
<1>11. N \in 0 .. N /\ \A n \in 0 .. N : n \in G
  <2>1. N \in 0 .. N
    BY <1>1
  <2> HIDE DEF G
  <2> QED BY Zenon, <1>1, <1>9, <1>10, <2>1, UpTo
<1>12. after[N] \in S /\ Ascending(after[N]) /\ Listed(after[N]) = Listed(s)
  BY Zenon, <1>6, <1>11
<1> QED BY Zenon, <1>2, <1>12 DEF S

\* One turn of kfree's merge loop, on a list that ends at or before the block.
LEMMA MergeFacts ==
    ASSUME NEW s \in Seq(Block), NEW b \in Block
    PROVE  /\ Merge(s, b) \in Seq(Block)
           /\ Gapped(s) /\ (s # <<>> => End(s[Len(s)]) <= b.at) =>
                 LET t == Merge(s, b)
                 IN /\ Gapped(t) /\ t # <<>> /\ End(t[Len(t)]) = End(b)
                    /\ \A u \in Nat : Covers(t, u) <=> Covers(s, u) \/ u \in Span(b)
<1> DEFINE n == Len(s)
           t == Merge(s, b)
           Ends == Gapped(s) /\ (s # <<>> => End(s[n]) <= b.at)
           Good == /\ Gapped(t) /\ t # <<>> /\ End(t[Len(t)]) = End(b)
                   /\ \A u \in Nat : Covers(t, u) <=> Covers(s, u) \/ u \in Span(b)
<1>1. n \in Nat /\ DOMAIN s = 1 .. n /\ (s # <<>> => n > 0) /\ \A j \in 1 .. n : s[j] \in Block
  OBVIOUS
<1>0. b.at \in Nat /\ b.size \in Nat \ {0}
  BY DEF Block
<1>2. \A j \in 1 .. n : s[j].at \in Nat /\ s[j].size \in Nat \ {0}
  BY ZenonT(30), <1>1 DEF Block
<1> HIDE DEF n
<1>3. CASE EndsAt(s, b.at)
  <2> DEFINE x == s[n]
             y == [x EXCEPT !.size = @ + b.size]
  <2>1. s # <<>> /\ n \in 1 .. n /\ n > 0 /\ End(x) = b.at
    BY <1>1, <1>3 DEF EndsAt, End, n
  <2>3. t = [s EXCEPT ![n] = y]
    BY <1>3 DEF Merge, n
  <2>10. x \in Block /\ x.at \in Nat /\ x.size \in Nat \ {0}
    BY ZenonT(30), <1>1, <1>2, <2>1
  <2> HIDE DEF x, t
  <2>2. y \in Block /\ y.at = x.at /\ y.size = x.size + b.size
    BY <1>0, <2>10 DEF Block
  <2> HIDE DEF y
  <2>4. t \in Seq(Block) /\ Len(t) = n /\ DOMAIN t = 1 .. n /\ t[n] = y
        /\ \A j \in 1 .. n : j # n => t[j] = s[j]
    <3>1. /\ DOMAIN t = 1 .. n /\ t[n] = y
          /\ \A j \in 1 .. n : j # n => t[j] = s[j]
      BY ZenonT(30), <1>1, <2>1, <2>3
    <3>2. \A j \in 1 .. n : t[j] \in Block
      BY ZenonT(30), <1>1, <2>2, <3>1
    <3>3. t = [j \in 1 .. n |-> t[j]]
      BY ZenonT(30), <2>3, <3>1
    <3>4. t \in Seq(Block) /\ Len(t) = n
      BY <1>1, <3>2, <3>3
    <3> QED BY Zenon, <3>1, <3>4
  <2>5. End(y) = End(b) /\ End(x) = b.at
    BY <1>0, <2>1, <2>2, <2>10 DEF End
  <2>6. ASSUME Ends PROVE Good
    <3>1. \A i, j \in 1 .. n : i < j => End(s[i]) < s[j].at
      BY ZenonT(30), <1>1, <2>6 DEF Gapped
    <3>2. \A i, j \in 1 .. n : i < j => End(t[i]) < t[j].at
      <4> TAKE i \in 1 .. n, j \in 1 .. n
      <4> HAVE i < j
      <4>1. t[i] = s[i] /\ t[j].at = s[j].at
        <5>1. i # n /\ (j = n \/ j # n)
          BY <1>1
        <5> QED BY ZenonT(30), <2>2, <2>4, <5>1 DEF x
      <4> QED BY <3>1, <4>1
    <3>3. \A u \in Nat : u \in Span(y) <=> u \in Span(x) \/ u \in Span(b)
      <4> TAKE u \in Nat
      <4>1. y.at \in Nat /\ y.size \in Nat \ {0}
        BY ZenonT(30), <2>2 DEF Block
      <4>2. /\ u \in Span(y) <=> y.at <= u /\ u < End(y)
            /\ u \in Span(x) <=> x.at <= u /\ u < End(x)
            /\ u \in Span(b) <=> b.at <= u /\ u < End(b)
        BY Zenon, <1>0, <2>10, <4>1, SpanFacts
      <4>3. x.at <= b.at /\ b.at < End(b) /\ End(b) \in Nat
        BY <1>0, <2>5, <2>10 DEF End
      <4> QED BY <1>0, <2>2, <2>5, <2>10, <4>2, <4>3
    <3>4. ASSUME NEW u \in Nat PROVE Covers(t, u) <=> Covers(s, u) \/ u \in Span(b)
      <4>1. Covers(t, u) <=> \E i \in 1 .. n : u \in Span(t[i])
        BY Zenon, <2>4 DEF Covers
      <4>2. Covers(s, u) <=> \E i \in 1 .. n : u \in Span(s[i])
        BY Zenon, <1>1 DEF Covers
      <4> QED BY Zenon, <2>1, <2>4, <3>3, <4>1, <4>2 DEF x
    <3>5. Gapped(t)
      BY Zenon, <2>4, <3>2 DEF Gapped
    <3>6. t # <<>> /\ End(t[Len(t)]) = End(b)
      <4>1. t # <<>>
        BY <2>1, <2>4
      <4> QED BY Zenon, <2>4, <2>5, <4>1
    <3> QED BY Zenon, <3>4, <3>5, <3>6
  <2> QED BY Zenon, <2>4, <2>6 DEF t, n
<1>4. CASE ~EndsAt(s, b.at)
  <2>1. t = Append(s, b)
    BY Zenon, <1>4 DEF Merge
  <2> HIDE DEF t
  <2>2. t \in Seq(Block) /\ Len(t) = n + 1 /\ DOMAIN t = 1 .. n + 1 /\ t[n + 1] = b
        /\ \A j \in 1 .. n : t[j] = s[j]
    BY <1>1, <2>1 DEF n
  <2>3. ASSUME Ends PROVE Good
    <3>1. \A i, j \in 1 .. n : i < j => End(s[i]) < s[j].at
      BY <1>1, <2>3 DEF Gapped
    <3>2. \A i \in 1 .. n : End(s[i]) < b.at
      <4> TAKE i \in 1 .. n
      <4>1. s # <<>> /\ n \in 1 .. n /\ n > 0
        BY <1>1
      <4>2. End(s[n]) # b.at /\ End(s[n]) <= b.at
        BY ZenonT(30), <1>4, <2>3, <4>1 DEF EndsAt, End, n
      <4>3. End(s[n]) < b.at /\ s[n].at < End(s[n]) /\ s[n].at \in Nat /\ End(s[n]) \in Nat
        <5>1. s[n].at \in Nat /\ s[n].size \in Nat \ {0}
          BY Zenon, <1>2, <4>1
        <5>2. End(s[n]) \in Nat /\ s[n].at < End(s[n])
          <6>1. \A u \in Nat, v \in Nat \ {0} : u + v \in Nat /\ u < u + v
            OBVIOUS
          <6> QED BY Zenon, <5>1, <6>1 DEF End
        <5>3. \A u, v \in Nat : u # v /\ u <= v => u < v
          OBVIOUS
        <5> QED BY Zenon, <1>0, <4>2, <5>1, <5>2, <5>3
      <4>4. CASE i = n
        BY ZenonT(30), <4>3, <4>4
      <4>5. CASE i # n
        <5>1. End(s[i]) < s[n].at
          BY <1>1, <3>1, <4>1, <4>5
        <5>2. End(s[i]) \in Nat
          BY <1>2 DEF End
        <5> QED BY <1>0, <4>3, <5>1, <5>2
      <4> QED BY Zenon, <4>4, <4>5
    <3>3. \A i, j \in 1 .. n + 1 : i < j => End(t[i]) < t[j].at
      <4> TAKE i \in 1 .. n + 1, j \in 1 .. n + 1
      <4> HAVE i < j
      <4>1. CASE j = n + 1
        BY <1>1, <2>2, <3>2, <4>1
      <4>2. CASE j # n + 1
        BY <1>1, <2>2, <3>1, <4>2
      <4> QED BY Zenon, <4>1, <4>2
    <3>4. ASSUME NEW u \in Nat PROVE Covers(t, u) <=> Covers(s, u) \/ u \in Span(b)
      <4>1. Covers(t, u) <=> \E i \in 1 .. n + 1 : u \in Span(t[i])
        BY Zenon, <2>2 DEF Covers
      <4>2. Covers(s, u) <=> \E i \in 1 .. n : u \in Span(s[i])
        BY Zenon, <1>1 DEF Covers
      <4>3. 1 .. n + 1 = (1 .. n) \cup {n + 1}
        BY <1>1
      <4> QED BY Zenon, <2>2, <4>1, <4>2, <4>3
    <3>5. Gapped(t)
      BY Zenon, <2>2, <3>3 DEF Gapped
    <3>6. t # <<>> /\ End(t[Len(t)]) = End(b)
      BY <1>1, <2>2
    <3> QED BY Zenon, <3>4, <3>5, <3>6
  <2> QED BY Zenon, <2>2, <2>3 DEF t, n
<1> QED BY Zenon, <1>3, <1>4

\* kfree's merge loop on a sorted list: the same units, and no two blocks touch.
LEMMA MergeLoop ==
    ASSUME NEW s \in Seq(Block), Ascending(s)
    PROVE  LET t == ForEach(Merge, <<>>, s)
           IN /\ t \in Seq(Block) /\ Gapped(t)
              /\ \A u \in Nat : Covers(t, u) <=> Covers(s, u)
<1> DEFINE N == Len(s)
           S == Seq(Block)
           F == [n \in 1 .. N |-> [c \in S |-> Merge(c, s[n])]]
           after == CHOOSE f : f = [n \in 0 .. N |-> IF n = 0 THEN <<>> ELSE Merge(f[n - 1], s[n])]
           Seen(n, u) == \E j \in 1 .. n : u \in Span(s[j])
<1>1. N \in Nat /\ \A n \in 1 .. N : s[n] \in Block
  OBVIOUS
<1>2. ForEach(Merge, <<>>, s) = after[N]
  BY DEF ForEach
<1>3. ASSUME NEW c \in S, NEW n \in 1 .. N PROVE Merge(c, s[n]) \in S
  BY Zenon, <1>1, MergeFacts
<1>4. <<>> \in S
  OBVIOUS
<1>5. \A i, j \in 1 .. N : i < j => End(s[i]) <= s[j].at
  BY DEF Ascending
<1>6. \A u : Seen(N, u) <=> Covers(s, u)
  BY SMTT(30) DEF Covers
<1> HIDE DEF N, S
<1>7. F \in [1 .. N -> [S -> S]]
  BY Zenon, <1>3
<1>8. after = [n \in 0 .. N |-> IF n = 0 THEN <<>> ELSE Merge(after[n - 1], s[n])]
  <2> HIDE DEF F
  <2>1. PICK g : IsLoop(g, N, S, <<>>, F)
    BY Zenon, <1>1, <1>4, <1>7, LoopExists
  <2>2. g \in [0 .. N -> S] /\ g[0] = <<>> /\ \A n \in 1 .. N : g[n] = F[n][g[n - 1]]
    BY Zenon, <2>1 DEF IsLoop
  <2>3. ASSUME NEW n \in 0 .. N PROVE g[n] = IF n = 0 THEN <<>> ELSE Merge(g[n - 1], s[n])
    <3>1. CASE n = 0
      BY Zenon, <2>2, <3>1
    <3>2. CASE n # 0
      <4>1. n \in 1 .. N /\ n - 1 \in 0 .. N
        BY <1>1, <3>2
      <4>2. g[n - 1] \in S /\ g[n] = F[n][g[n - 1]]
        BY Zenon, <2>2, <4>1
      <4> QED BY Zenon, <3>2, <4>1, <4>2 DEF F
    <3> QED BY Zenon, <3>1, <3>2
  <2>4. g = [n \in 0 .. N |-> g[n]]
    BY Zenon, <2>2
  <2>5. g = [n \in 0 .. N |-> IF n = 0 THEN <<>> ELSE Merge(g[n - 1], s[n])]
    BY <2>3, <2>4, Zenon
  <2> QED BY <2>5, Zenon
<1> HIDE DEF after, F
<1> DEFINE Done(n, c) == /\ c \in S /\ Gapped(c)
                         /\ c # <<>> => n > 0 /\ End(c[Len(c)]) = End(s[n])
                         /\ \A u \in Nat : Covers(c, u) <=> Seen(n, u)
           G == {n \in 0 .. N : Done(n, after[n])}
<1>9. 0 \in G
  <2>1. 0 \in 0 .. N
    BY <1>1
  <2>2. after[0] = <<>>
    BY Zenon, <1>8, <2>1
  <2>3. Gapped(<<>>) /\ \A u \in Nat : ~Covers(<<>>, u) /\ ~Seen(0, u)
    BY DEF Gapped, Covers
  <2> QED BY Zenon, <1>4, <2>1, <2>2, <2>3
<1>10. ASSUME NEW n \in 1 .. N, n - 1 \in G PROVE n \in G
  <2> DEFINE c == after[n - 1]
             d == Merge(c, s[n])
  <2>1. n \in 0 .. N /\ n # 0 /\ n > 0
    BY <1>1
  <2>2. after[n] = d
    BY <1>8, <2>1, Zenon
  <2>3. Done(n - 1, c)
    BY Zenon, <1>10
  <2> HIDE DEF c
  <2>4. \A u : Seen(n, u) <=> Seen(n - 1, u) \/ u \in Span(s[n])
    <3>1. 1 .. n = (1 .. n - 1) \cup {n}
      BY <1>1
    <3> QED BY Zenon, <3>1
  <2>5. c # <<>> => End(c[Len(c)]) <= s[n].at
    <3>1. n - 1 > 0 => n - 1 \in 1 .. N /\ n - 1 < n
      BY <1>1
    <3> QED BY Zenon, <1>5, <2>3, <3>1
  <2>6. /\ d \in S /\ Gapped(d) /\ d # <<>> /\ End(d[Len(d)]) = End(s[n])
        /\ \A u \in Nat : Covers(d, u) <=> Covers(c, u) \/ u \in Span(s[n])
    BY Zenon, <1>1, <2>3, <2>5, MergeFacts DEF S
  <2> HIDE DEF d
  <2>7. \A u \in Nat : Covers(d, u) <=> Seen(n, u)
    BY Zenon, <2>3, <2>4, <2>6
  <2> QED BY Zenon, <2>1, <2>2, <2>6, <2>7
<1>11. N \in 0 .. N /\ \A n \in 0 .. N : n \in G
  <2>1. N \in 0 .. N
    BY <1>1
  <2> HIDE DEF G
  <2> QED BY Zenon, <1>1, <1>9, <1>10, <2>1, UpTo
<1>12. after[N] \in S /\ Gapped(after[N]) /\ \A u \in Nat : Covers(after[N], u) <=> Covers(s, u)
  BY Zenon, <1>6, <1>11
<1> QED BY Zenon, <1>2, <1>12 DEF S

\* A list in which no two blocks touch has no overlaps either.
LEMMA GappedFacts ==
    ASSUME NEW s \in Seq(Block), Gapped(s)
    PROVE  /\ AllApart(s)
           /\ \A i, j \in DOMAIN s : End(s[i]) # s[j].at
<1>1. \A i \in DOMAIN s : s[i].at \in Nat /\ s[i].size \in Nat \ {0}
  <2>1. \A i \in DOMAIN s : s[i] \in Block
    OBVIOUS
  <2> QED BY ZenonT(30), <2>1 DEF Block
<1>2. DOMAIN s \subseteq Nat
  OBVIOUS
<1>3. ASSUME NEW i \in DOMAIN s, NEW j \in DOMAIN s PROVE (i # j => Apart(s[i], s[j])) /\ End(s[i]) # s[j].at
  <2>1. i < j => End(s[i]) < s[j].at
    BY Zenon DEF Gapped
  <2>2. j < i => End(s[j]) < s[i].at
    BY Zenon DEF Gapped
  <2>3. s[i].at \in Nat /\ s[i].size \in Nat \ {0} /\ s[j].at \in Nat /\ s[j].size \in Nat \ {0}
    BY Zenon, <1>1
  <2>4. CASE i < j
    BY SMTT(30), <2>1, <2>3, <2>4 DEF Apart, End
  <2>5. CASE j < i
    BY SMTT(30), <2>2, <2>3, <2>5 DEF Apart, End
  <2>6. CASE i = j
    BY <2>3, <2>6 DEF End
  <2> QED BY <1>2, <2>4, <2>5, <2>6
<1> QED BY Zenon, <1>3 DEF AllApart

\* kmalloc's cut: what is taken goes, everything else stays.
LEMMA CutFacts ==
    ASSUME NEW s \in Seq(Block), AllApart(s), NEW i \in DOMAIN s, NEW need \in Nat \ {0},
           s[i].size >= need
    PROVE  LET t == Cut(s, i, need)
               b == [at |-> s[i].at, size |-> Taken(s[i], need)]
           IN /\ t \in Seq(Block) /\ AllApart(t) /\ b \in Block
              /\ b.size >= need /\ b.size - need \in 0 .. HDR_SIZE + MIN_REST - 1
              /\ \A u \in Nat : Covers(t, u) <=> Covers(s, u) /\ u \notin Span(b)
              /\ \A u \in Nat : u \in Span(b) => Covers(s, u)
<1> DEFINE n == Len(s)
           x == s[i]
           t == Cut(s, i, need)
           b == [at |-> x.at, size |-> Taken(x, need)]
<1>1. n \in Nat /\ DOMAIN s = 1 .. n /\ i \in 1 .. n /\ \A j \in 1 .. n : s[j] \in Block
  OBVIOUS
<1>2. \A j \in 1 .. n : s[j].at \in Nat /\ s[j].size \in Nat \ {0}
  BY ZenonT(30), <1>1 DEF Block
<1>3. x.at \in Nat /\ x.size \in Nat \ {0} /\ x.size >= need
  BY Zenon, <1>1, <1>2
<1>4. \A j \in 1 .. n : j # i => \A u \in Nat : ~(u \in Span(x) /\ u \in Span(s[j]))
  <2> TAKE j \in 1 .. n
  <2> HAVE j # i
  <2>1. Apart(x, s[j])
    BY Zenon, <1>1 DEF AllApart
  <2>2. s[j].at \in Nat /\ s[j].size \in Nat \ {0}
    BY Zenon, <1>2
  <2> QED BY Zenon, <1>3, <2>1, <2>2, ApartUnits
<1>5. \A j, k \in 1 .. n : j # k => Apart(s[j], s[k])
  BY Zenon, <1>1 DEF AllApart
<1>6. \A u : Covers(s, u) <=> \E j \in 1 .. n : u \in Span(s[j])
  BY Zenon, <1>1 DEF Covers
<1> HIDE DEF x, n
<1>7. HDR_SIZE \in Nat \ {0} /\ MIN_REST \in Nat \ {0}
  BY ZenonT(30), HeapAssumption
<1>8. CASE WorthSplitting(x.size - need)
  <2> DEFINE y == [at |-> x.at + need, size |-> x.size - need]
  <2>1. b = [at |-> x.at, size |-> need]
    BY Zenon, <1>8 DEF Taken
  <2>2. b \in Block /\ b.at = x.at /\ b.size = need
    BY ZenonT(30), <1>3, <2>1 DEF Block
  <2>3. y \in Block /\ y.at = x.at + need /\ y.size = x.size - need
    <3>1. x.size - need \in Nat \ {0} /\ x.at + need \in Nat
      BY <1>3, <1>7, <1>8 DEF WorthSplitting
    <3> QED BY ZenonT(30), <3>1 DEF Block
  <2>13. x.at + need = y.at /\ (x.at + need) + (x.size - need) = End(y) /\ x.at + need = End(b)
    BY Zenon, <2>2, <2>3 DEF End
  <2>14. End(y) = End(x) /\ End(b) = y.at /\ x.at <= y.at /\ y.at <= End(x)
    <3>1. (x.at + need) + (x.size - need) = x.at + x.size /\ x.at <= x.at + need
          /\ x.at + need <= x.at + x.size
      BY <1>3
    <3> QED BY Zenon, <2>13, <3>1 DEF End
  <2>4. t = [s EXCEPT ![i] = y]
    BY <1>8 DEF Cut, x
  <2> HIDE DEF y, b, t
  <2>5. DOMAIN t = 1 .. n /\ t[i] = y /\ \A j \in 1 .. n : j # i => t[j] = s[j]
    BY ZenonT(30), <1>1, <2>4
  <2>6. t \in Seq(Block)
    <3>1. \A j \in 1 .. n : t[j] \in Block
      BY Zenon, <1>1, <2>3, <2>5
    <3>2. t = [j \in 1 .. n |-> t[j]]
      BY ZenonT(30), <2>4, <2>5
    <3> QED BY <1>1, <3>1, <3>2
  <2>7. y.at \in Nat /\ y.size \in Nat \ {0} /\ b.at \in Nat /\ b.size \in Nat \ {0}
    <3>1. \A c \in Block : c.at \in Nat /\ c.size \in Nat \ {0}
      BY ZenonT(30) DEF Block
    <3> QED BY Zenon, <2>2, <2>3, <3>1
  <2>8. \A u \in Nat : /\ u \in Span(x) <=> u \in Span(y) \/ u \in Span(b)
                       /\ ~(u \in Span(y) /\ u \in Span(b))
    <3> TAKE u \in Nat
    <3>1. /\ u \in Span(y) <=> y.at <= u /\ u < End(y)
          /\ u \in Span(x) <=> x.at <= u /\ u < End(x)
          /\ u \in Span(b) <=> b.at <= u /\ u < End(b)
      BY Zenon, <1>3, <2>7, SpanFacts
    <3> QED BY SMTT(30), <1>3, <2>2, <2>7, <2>14, <3>1 DEF End
  <2>9. AllApart(t)
    <3>1. ASSUME NEW j \in 1 .. n, j # i PROVE Apart(y, s[j])
      <4>1. Apart(x, s[j]) /\ s[j].at \in Nat /\ s[j].size \in Nat \ {0}
        BY Zenon, <1>1, <1>2, <1>5, <3>1 DEF x
      <4>2. End(x) <= s[j].at \/ End(s[j]) <= x.at
        BY Zenon, <4>1 DEF Apart
      <4>3. End(s[j]) \in Nat
        <5>1. \A u, v \in Nat : u + v \in Nat
          OBVIOUS
        <5> QED BY Zenon, <4>1, <5>1 DEF End
      <4>4. End(x) <= s[j].at \/ End(s[j]) <= y.at
        BY <1>3, <2>7, <2>14, <4>2, <4>3
      <4> QED BY Zenon, <2>14, <4>4 DEF Apart
    <3>2. \A j \in 1 .. n : j # i => Apart(s[j], y)
      BY Zenon, <3>1 DEF Apart
    <3>3. ASSUME NEW j \in 1 .. n, NEW k \in 1 .. n, j # k PROVE Apart(t[j], t[k])
      <4>1. CASE j = i
        BY Zenon, <2>5, <3>1, <3>3, <4>1
      <4>2. CASE k = i
        BY Zenon, <2>5, <3>2, <3>3, <4>2
      <4>3. CASE j # i /\ k # i
        BY Zenon, <1>5, <2>5, <3>3, <4>3
      <4> QED BY Zenon, <4>1, <4>2, <4>3
    <3> QED BY Zenon, <2>5, <3>3 DEF AllApart
  <2>10. \A u : Covers(t, u) <=> \E j \in 1 .. n : u \in Span(t[j])
    BY Zenon, <2>5 DEF Covers
  <2>11. \A u \in Nat : /\ Covers(t, u) <=> Covers(s, u) /\ u \notin Span(b)
                        /\ u \in Span(b) => Covers(s, u)
    <3> TAKE u \in Nat
    <3>1. u \in Span(b) => Covers(s, u)
      BY Zenon, <1>1, <1>6, <2>8 DEF x
    <3>2. ASSUME Covers(t, u) PROVE Covers(s, u) /\ u \notin Span(b)
      <4>1. PICK j \in 1 .. n : u \in Span(t[j])
        BY Zenon, <2>10, <3>2
      <4>2. CASE j = i
        BY Zenon, <1>1, <1>6, <2>5, <2>8, <4>1, <4>2 DEF x
      <4>3. CASE j # i
        BY Zenon, <1>4, <1>6, <2>5, <2>8, <4>1, <4>3
      <4> QED BY Zenon, <4>2, <4>3
    <3>3. ASSUME Covers(s, u), u \notin Span(b) PROVE Covers(t, u)
      <4>1. PICK j \in 1 .. n : u \in Span(s[j])
        BY Zenon, <1>6, <3>3
      <4>2. CASE j = i
        BY Zenon, <1>1, <2>5, <2>8, <2>10, <3>3, <4>1, <4>2 DEF x
      <4>3. CASE j # i
        BY Zenon, <2>5, <2>10, <4>1, <4>3
      <4> QED BY Zenon, <4>2, <4>3
    <3> QED BY Zenon, <3>1, <3>2, <3>3
  <2>12. b.size >= need /\ b.size - need \in 0 .. HDR_SIZE + MIN_REST - 1
    BY <1>7, <2>2
  <2> QED BY Zenon, <2>2, <2>6, <2>9, <2>11, <2>12 DEF t, b, x
<1>9. CASE ~WorthSplitting(x.size - need)
  <2>1. b = [at |-> x.at, size |-> x.size]
    BY Zenon, <1>9 DEF Taken
  <2>2. b \in Block /\ b.at = x.at /\ b.size = x.size
    BY ZenonT(30), <1>3, <2>1 DEF Block
  <2>3. Span(b) = Span(x)
    BY Zenon, <2>2 DEF Span
  <2>4. t = [j \in 1 .. n - 1 |-> IF j < i THEN s[j] ELSE s[j + 1]]
    BY Zenon, <1>9 DEF Cut, Unlinked, x, n
  <2> HIDE DEF b, t
  <2> DEFINE from(j) == IF j < i THEN j ELSE j + 1
  <2>5. DOMAIN t = 1 .. n - 1 /\ \A j \in 1 .. n - 1 : t[j] = s[from(j)]
    BY ZenonT(30), <1>1, <2>4
  <2>6. /\ \A j \in 1 .. n - 1 : from(j) \in 1 .. n /\ from(j) # i
        /\ \A j, k \in 1 .. n - 1 : j # k => from(j) # from(k)
        /\ \A k \in 1 .. n : k # i => \E j \in 1 .. n - 1 : from(j) = k
    <3>1. \A j \in 1 .. n - 1 : from(j) \in 1 .. n /\ from(j) # i
      BY <1>1
    <3>2. \A j, k \in 1 .. n - 1 : j # k => from(j) # from(k)
      BY <1>1
    <3>3. ASSUME NEW k \in 1 .. n, k # i PROVE \E j \in 1 .. n - 1 : from(j) = k
      <4>1. CASE k < i
        <5>1. k \in 1 .. n - 1 /\ from(k) = k
          BY <1>1, <4>1
        <5> QED BY Zenon, <5>1
      <4>2. CASE k > i
        <5>1. k - 1 \in 1 .. n - 1 /\ from(k - 1) = k
          BY <1>1, <4>2
        <5> QED BY Zenon, <5>1
      <4> QED BY <1>1, <3>3, <4>1, <4>2
    <3> QED BY Zenon, <3>1, <3>2, <3>3
  <2> HIDE DEF from
  <2>7. t \in Seq(Block)
    <3>1. \A j \in 1 .. n - 1 : t[j] \in Block
      BY Zenon, <1>1, <2>5, <2>6
    <3>2. t = [j \in 1 .. n - 1 |-> t[j]] /\ n - 1 \in Nat
      BY <1>1, <2>4, <2>5
    <3> QED BY <3>1, <3>2
  <2>8. AllApart(t)
    <3>1. ASSUME NEW j \in 1 .. n - 1, NEW k \in 1 .. n - 1, j # k PROVE Apart(t[j], t[k])
      <4>1. from(j) \in 1 .. n /\ from(k) \in 1 .. n /\ from(j) # from(k)
        BY Zenon, <2>6, <3>1
      <4>2. t[j] = s[from(j)] /\ t[k] = s[from(k)]
        BY Zenon, <2>5
      <4> QED BY Zenon, <1>5, <4>1, <4>2
    <3> QED BY Zenon, <2>5, <3>1 DEF AllApart
  <2>9. \A u : Covers(t, u) <=> \E j \in 1 .. n - 1 : u \in Span(t[j])
    BY Zenon, <2>5 DEF Covers
  <2>10. \A u \in Nat : /\ Covers(t, u) <=> Covers(s, u) /\ u \notin Span(b)
                        /\ u \in Span(b) => Covers(s, u)
    <3> TAKE u \in Nat
    <3>1. u \in Span(b) => Covers(s, u)
      BY Zenon, <1>1, <1>6, <2>3 DEF x
    <3>2. ASSUME Covers(t, u) PROVE Covers(s, u) /\ u \notin Span(b)
      <4>1. PICK j \in 1 .. n - 1 : u \in Span(t[j])
        BY Zenon, <2>9, <3>2
      <4> QED BY Zenon, <1>4, <1>6, <2>3, <2>5, <2>6, <4>1
    <3>3. ASSUME Covers(s, u), u \notin Span(b) PROVE Covers(t, u)
      <4>1. PICK k \in 1 .. n : u \in Span(s[k])
        BY Zenon, <1>6, <3>3
      <4>2. k # i
        BY Zenon, <2>3, <3>3, <4>1 DEF x
      <4> QED BY Zenon, <2>5, <2>6, <2>9, <4>1, <4>2
    <3> QED BY Zenon, <3>1, <3>2, <3>3
  <2>11. b.size >= need /\ b.size - need \in 0 .. HDR_SIZE + MIN_REST - 1
    BY <1>3, <1>7, <1>9, <2>2 DEF WorthSplitting
  <2> QED BY Zenon, <2>2, <2>7, <2>8, <2>10, <2>11 DEF t, b, x
<1> QED BY Zenon, <1>8, <1>9

-----------------------------------------------------------------------------
(* The heap.                                                                *)

\* kfree's array has room for the free list.
ListIsShort == Len(freelist) < ARR_MAX

Owned(u) == \E b \in used : u \in Span(b)

\* The inductive invariant: free and used blocks do not overlap, each unit of the
\* arena is in one of them and none beyond it is, and used blocks are as large as
\* kmalloc makes them.
HeapInv ==
    /\ freelist \in Seq(Block) /\ AllApart(freelist)
    /\ IsFiniteSet(used) /\ used \subseteq [at : Nat, size : Nat \ {0}, n : Nat]
    /\ \A b, c \in used : b # c => Apart(b, c)
    /\ heap_brk \in Nat
    /\ \A u \in Nat : /\ ~(Covers(freelist, u) /\ Owned(u))
                      /\ u < heap_brk <=> Covers(freelist, u) \/ Owned(u)
    /\ BlocksAreSized

\* A list of one block in front of a list.
LEMMA ConsFacts ==
    ASSUME NEW b \in Block, NEW s \in Seq(Block), AllApart(s),
           \A u \in Nat : ~(u \in Span(b) /\ Covers(s, u))
    PROVE  LET t == <<b>> \o s
           IN /\ t \in Seq(Block) /\ AllApart(t)
              /\ \A u \in Nat : Covers(t, u) <=> Covers(s, u) \/ u \in Span(b)
<1> DEFINE n == Len(s)
           t == <<b>> \o s
<1>1. n \in Nat /\ DOMAIN s = 1 .. n /\ \A j \in 1 .. n : s[j] \in Block
  OBVIOUS
<1>2. t \in Seq(Block) /\ DOMAIN t = 1 .. n + 1 /\ t[1] = b
      /\ \A j \in 1 .. n + 1 : j # 1 => t[j] = s[j - 1] /\ j - 1 \in 1 .. n
  OBVIOUS
<1> HIDE DEF t, n
<1>3. \A u : Covers(s, u) <=> \E j \in 1 .. n : u \in Span(s[j])
  BY Zenon, <1>1 DEF Covers
<1>4. \A u : Covers(t, u) <=> \E j \in 1 .. n + 1 : u \in Span(t[j])
  BY Zenon, <1>2 DEF Covers
<1>5. b.at \in Nat /\ b.size \in Nat \ {0}
      /\ \A j \in 1 .. n : s[j].at \in Nat /\ s[j].size \in Nat \ {0}
  BY ZenonT(30), <1>1 DEF Block
<1>6. ASSUME NEW j \in 1 .. n PROVE Apart(b, s[j]) /\ Apart(s[j], b)
  <2>1. \A u \in Nat : ~(u \in Span(b) /\ u \in Span(s[j]))
    BY Zenon, <1>3
  <2>2. Apart(b, s[j])
    BY Zenon, <1>5, <2>1, ApartUnits
  <2> QED BY Zenon, <2>2 DEF Apart
<1>7. ASSUME NEW j \in 1 .. n + 1, NEW k \in 1 .. n + 1, j # k PROVE Apart(t[j], t[k])
  <2>1. CASE j = 1
    BY Zenon, <1>2, <1>6, <1>7, <2>1
  <2>2. CASE k = 1
    BY Zenon, <1>2, <1>6, <1>7, <2>2
  <2>3. CASE j # 1 /\ k # 1
    <3>1. j - 1 # k - 1
      BY <1>1, <1>7
    <3> QED BY Zenon, <1>1, <1>2, <2>3, <3>1 DEF AllApart
  <2> QED BY Zenon, <2>1, <2>2, <2>3
<1>8. ASSUME NEW u \in Nat PROVE Covers(t, u) <=> Covers(s, u) \/ u \in Span(b)
  <2>1. \A j \in 1 .. n : j + 1 \in 1 .. n + 1 /\ t[j + 1] = s[j]
    <3> TAKE j \in 1 .. n
    <3>1. j + 1 \in 1 .. n + 1 /\ j + 1 # 1 /\ (j + 1) - 1 = j
      BY <1>1
    <3> QED BY ZenonT(30), <1>2, <3>1
  <2>2. 1 \in 1 .. n + 1
    BY <1>1
  <2>3. ASSUME NEW j \in 1 .. n + 1, u \in Span(t[j]) PROVE Covers(s, u) \/ u \in Span(b)
    <3>1. CASE j = 1
      BY Zenon, <1>2, <2>3, <3>1
    <3>2. CASE j # 1
      BY Zenon, <1>2, <1>3, <2>3, <3>2
    <3> QED BY Zenon, <3>1, <3>2
  <2>4. ASSUME NEW j \in 1 .. n, u \in Span(s[j]) PROVE Covers(t, u)
    BY Zenon, <1>4, <2>1, <2>4
  <2>5. u \in Span(b) => Covers(t, u)
    BY Zenon, <1>2, <1>4, <2>2
  <2> QED BY Zenon, <1>3, <1>4, <2>3, <2>4, <2>5
<1>9. AllApart(t)
  BY Zenon, <1>2, <1>7 DEF AllApart
<1> QED BY Zenon, <1>2, <1>8, <1>9 DEF t

\* kmalloc takes a block from a list, the grown one or the old one.
LEMMA TakeKeepsInv ==
    ASSUME HeapInv, NEW m \in Nat, m # 0, NEW list \in Seq(Block), AllApart(list),
           Fits(list, m + HDR_SIZE) # {},
           NEW i, i = FirstFit(list, m + HDR_SIZE),
           freelist' = Cut(list, i, m + HDR_SIZE),
           used' = used \cup {[at |-> list[i].at, size |-> Taken(list[i], m + HDR_SIZE), n |-> m]},
           heap_brk' \in Nat,
           \A u \in Nat : /\ ~(Covers(list, u) /\ Owned(u))
                          /\ u < heap_brk' <=> Covers(list, u) \/ Owned(u)
    PROVE  HeapInv' /\ IsFiniteSet(used) /\ used \subseteq used'
<1> DEFINE need == m + HDR_SIZE
           F == Fits(list, need)
           x == list[i]
           b == [at |-> x.at, size |-> Taken(x, need)]
           d == [at |-> x.at, size |-> Taken(x, need), n |-> m]
<1>1. HDR_SIZE \in Nat \ {0} /\ need \in Nat \ {0} /\ MIN_REST \in Nat \ {0}
  BY HeapAssumption
<1>2. F \subseteq Nat /\ F # {}
  BY DEF Fits
<1>3. i \in F
  <2>1. \E k \in F : \A j \in F : k <= j
    <3> HIDE DEF F
    <3> QED BY ZenonT(30), <1>2, LeastExists
  <2> HIDE DEF F
  <2> QED BY Zenon, <2>1 DEF FirstFit, F
<1>4. i \in DOMAIN list /\ x.size >= need
  BY <1>3 DEF Fits
<1> HIDE DEF F, need
<1>5. /\ freelist' \in Seq(Block) /\ AllApart(freelist') /\ b \in Block
      /\ b.size >= need /\ b.size - need \in 0 .. HDR_SIZE + MIN_REST - 1
      /\ \A u \in Nat : Covers(freelist', u) <=> Covers(list, u) /\ u \notin Span(b)
      /\ \A u \in Nat : u \in Span(b) => Covers(list, u)
  BY Zenon, <1>1, <1>4, CutFacts DEF need
<1>6. d.at = b.at /\ d.size = b.size /\ d.n = m /\ used' = used \cup {d}
  BY Zenon DEF need
<1>7. Span(d) = Span(b) /\ d \in [at : Nat, size : Nat \ {0}, n : Nat]
  <2>1. Span(d) = Span(b)
    BY Zenon, <1>6 DEF Span
  <2>2. b.at \in Nat /\ b.size \in Nat \ {0}
    BY <1>5 DEF Block
  <2> QED BY Zenon, <2>1, <2>2
<1> HIDE DEF b, d, x
<1>8. \A u : Owned(u)' <=> Owned(u) \/ u \in Span(d)
  BY Zenon, <1>6 DEF Owned
<1>9. \A c, e \in used' : c # e => Apart(c, e)
  <2>1. ASSUME NEW c \in used PROVE Apart(c, d) /\ Apart(d, c)
    <3>1. c.at \in Nat /\ c.size \in Nat \ {0} /\ d.at \in Nat /\ d.size \in Nat \ {0}
      BY ZenonT(30), <1>7 DEF HeapInv
    <3>2. \A u \in Nat : ~(u \in Span(c) /\ u \in Span(d))
      BY Zenon, <1>5, <1>7 DEF Owned
    <3>3. Apart(c, d)
      BY Zenon, <3>1, <3>2, ApartUnits
    <3> QED BY Zenon, <3>3 DEF Apart
  <2> QED BY Zenon, <1>6, <2>1 DEF HeapInv
<1>10. IsFiniteSet(used) /\ IsFiniteSet(used')
  <2>1. IsFiniteSet(used)
    BY Zenon DEF HeapInv
  <2>2. IsFiniteSet(used \cup {d})
    BY Zenon, <2>1, FS_AddElement
  <2> QED BY Zenon, <1>6, <2>1, <2>2
<1>11. used' \subseteq [at : Nat, size : Nat \ {0}, n : Nat]
  BY Zenon, <1>6, <1>7 DEF HeapInv
<1>12. \A u \in Nat : /\ ~(Covers(freelist', u) /\ Owned(u)')
                      /\ u < heap_brk' <=> Covers(freelist', u) \/ Owned(u)'
  BY Zenon, <1>5, <1>7, <1>8
<1>13. BlocksAreSized'
  <2>1. d.size - d.n - HDR_SIZE \in 0 .. HDR_SIZE + MIN_REST - 1
    <3>1. d.size \in Nat /\ d.size = b.size /\ d.n = m
      BY Zenon, <1>6, <1>7
    <3>2. d.size - d.n - HDR_SIZE = b.size - need
      BY <1>1, <3>1 DEF need
    <3> QED BY Zenon, <1>5, <3>2
  <2>2. \A c \in used : c.size - c.n - HDR_SIZE \in 0 .. HDR_SIZE + MIN_REST - 1
    BY Zenon DEF HeapInv, BlocksAreSized
  <2> QED BY Zenon, <1>6, <2>1, <2>2 DEF BlocksAreSized
<1>14. used \subseteq used'
  BY Zenon, <1>6
<1> QED BY Zenon, <1>5, <1>9, <1>10, <1>11, <1>12, <1>13, <1>14 DEF HeapInv

\* heap_init makes one free block of the first chunk.
LEMMA HeapStarts == HeapInit => HeapInv
<1> SUFFICES ASSUME HeapInit PROVE HeapInv
  OBVIOUS
<1> DEFINE b == [at |-> 0, size |-> SUPER]
<1>1. SUPER \in Nat \ {0}
  BY HeapAssumption
<1>2. b \in Block /\ b.at = 0 /\ b.size = SUPER
  BY <1>1 DEF Block
<1>3. freelist = <<b>> /\ used = {} /\ heap_brk = SUPER
  BY DEF HeapInit
<1> HIDE DEF b
<1>4. freelist \in Seq(Block) /\ DOMAIN freelist = {1} /\ freelist[1] = b
  BY <1>2, <1>3
<1>5. AllApart(freelist)
  BY Zenon, <1>4 DEF AllApart
<1>6. \A u \in Nat : u \in Span(b) <=> u < heap_brk
  BY <1>1, <1>2, <1>3 DEF Span
<1>7. \A u \in Nat : Covers(freelist, u) <=> u < heap_brk
  BY Zenon, <1>4, <1>6 DEF Covers
<1>8. IsFiniteSet(used)
  BY ZenonT(30), <1>3, FS_EmptySet
<1>9. \A u : ~Owned(u)
  BY Zenon, <1>3 DEF Owned
<1>10. heap_brk \in Nat
  BY ZenonT(30), <1>1, <1>3
<1>11. BlocksAreSized /\ used \subseteq [at : Nat, size : Nat \ {0}, n : Nat]
       /\ \A c, d \in used : c # d => Apart(c, d)
  BY Zenon, <1>3 DEF BlocksAreSized
<1> QED BY Zenon, <1>4, <1>5, <1>7, <1>8, <1>9, <1>10, <1>11 DEF HeapInv

\* Every way through kmalloc.
LEMMA KmallocKeepsInv ==
    ASSUME HeapInv, NEW m \in Sizes, Kmalloc(m)
    PROVE  HeapInv' /\ IsFiniteSet(used) /\ used \subseteq used' /\ IsFiniteSet(used')
<1> DEFINE need == m + HDR_SIZE
           Takes(list) == LET i == FirstFit(list, need)
                          IN /\ freelist' = Cut(list, i, need)
                             /\ used' = used \cup {[at |-> list[i].at, size |-> Taken(list[i], need), n |-> m]}
           chunk == [at |-> heap_brk, size |-> SUPER]
<1>1. m \in Nat /\ SUPER \in Nat \ {0} /\ need \in Nat /\ HEAP_MAX \in Nat /\ HEAP_MAX <= SUPER
  BY HeapAssumption
<1>2. \/ UNCHANGED heapVars
      \/ m # 0 /\ Fits(freelist, need) # {} /\ Takes(freelist) /\ heap_brk' = heap_brk
      \/ m # 0 /\ need <= HEAP_MAX /\ Takes(<<chunk>> \o freelist) /\ heap_brk' = heap_brk + SUPER
      \/ UNCHANGED <<freelist, used, heap_brk>>
  BY Zenon DEF Kmalloc
<1>3. HeapInv' => IsFiniteSet(used')
  BY Zenon DEF HeapInv
<1>4. CASE UNCHANGED <<freelist, used, heap_brk>>
  BY ZenonT(30), <1>4 DEF HeapInv, Owned, BlocksAreSized
<1>5. CASE m # 0 /\ Fits(freelist, need) # {} /\ Takes(freelist) /\ heap_brk' = heap_brk
  <2> DEFINE i == FirstFit(freelist, need)
  <2>1. /\ freelist \in Seq(Block) /\ AllApart(freelist) /\ heap_brk' \in Nat
        /\ \A u \in Nat : /\ ~(Covers(freelist, u) /\ Owned(u))
                          /\ u < heap_brk' <=> Covers(freelist, u) \/ Owned(u)
    BY Zenon, <1>5 DEF HeapInv
  <2>2. /\ freelist' = Cut(freelist, i, need)
        /\ used' = used \cup {[at |-> freelist[i].at, size |-> Taken(freelist[i], need), n |-> m]}
    BY ZenonT(30), <1>5
  <2> HIDE DEF i
  <2> QED BY ZenonT(30), <1>1, <1>3, <1>5, <2>1, <2>2, TakeKeepsInv DEF i
<1>6. CASE m # 0 /\ need <= HEAP_MAX /\ Takes(<<chunk>> \o freelist) /\ heap_brk' = heap_brk + SUPER
  <2> DEFINE list == <<chunk>> \o freelist
             i == FirstFit(list, need)
  <2>1. heap_brk \in Nat /\ freelist \in Seq(Block) /\ AllApart(freelist)
    BY Zenon DEF HeapInv
  <2>2. chunk \in Block /\ chunk.at = heap_brk /\ chunk.size = SUPER
    BY ZenonT(30), <1>1, <2>1 DEF Block
  <2>3. \A u \in Nat : /\ ~(Covers(freelist, u) /\ Owned(u))
                       /\ u < heap_brk <=> Covers(freelist, u) \/ Owned(u)
    BY Zenon DEF HeapInv
  <2> HIDE DEF chunk
  <2>4. \A u \in Nat : u \in Span(chunk) <=> heap_brk <= u /\ u < heap_brk'
    BY <1>1, <1>6, <2>1, <2>2 DEF Span
  <2>5. \A u \in Nat : ~(u \in Span(chunk) /\ u < heap_brk) /\ (u < heap_brk \/ heap_brk <= u)
                       /\ (u < heap_brk => u < heap_brk')
    BY <1>1, <1>6, <2>1, <2>4
  <2>6. \A u \in Nat : ~(u \in Span(chunk) /\ Covers(freelist, u))
    BY Zenon, <2>3, <2>5
  <2>7. /\ list \in Seq(Block) /\ AllApart(list)
        /\ \A u \in Nat : Covers(list, u) <=> Covers(freelist, u) \/ u \in Span(chunk)
    BY Zenon, <2>1, <2>2, <2>6, ConsFacts
  <2>8. Fits(list, need) # {} /\ heap_brk' \in Nat
    <3>1. 1 \in DOMAIN list /\ list[1] = chunk
      BY <2>1
    <3>2. chunk.size >= need
      BY <1>1, <1>6, <2>2
    <3>3. 1 \in Fits(list, need)
      BY Zenon, <3>1, <3>2 DEF Fits
    <3>4. heap_brk' \in Nat
      BY <1>1, <1>6, <2>1
    <3> QED BY Zenon, <3>3, <3>4
  <2>9. \A u \in Nat : /\ ~(Covers(list, u) /\ Owned(u))
                       /\ u < heap_brk' <=> Covers(list, u) \/ Owned(u)
    BY Zenon, <2>3, <2>4, <2>5, <2>7
  <2>10. /\ freelist' = Cut(list, i, need)
         /\ used' = used \cup {[at |-> list[i].at, size |-> Taken(list[i], need), n |-> m]}
    BY Zenon, <1>6
  <2> HIDE DEF i, list
  <2> QED BY ZenonT(30), <1>1, <1>3, <1>6, <2>7, <2>8, <2>9, <2>10, TakeKeepsInv DEF i
<1>7. CASE UNCHANGED heapVars
  BY ZenonT(30), <1>4, <1>7 DEF heapVars
<1> QED BY Zenon, <1>2, <1>4, <1>5, <1>6, <1>7

\* kfree: the block joins the free ones, and no two of them touch.
LEMMA KfreeKeepsInv ==
    ASSUME HeapInv, ListIsShort, NEW b \in used, Kfree(b)
    PROVE  HeapInv' /\ Gapped(freelist')
<1> DEFINE n == Len(freelist)
           c == [at |-> b.at, size |-> b.size]
           blocks == Append(freelist, c)
           sorted == ForEach(Insert, <<>>, blocks)
<1>1. freelist \in Seq(Block) /\ AllApart(freelist) /\ heap_brk \in Nat /\ IsFiniteSet(used)
      /\ used \subseteq [at : Nat, size : Nat \ {0}, n : Nat]
      /\ \A d, e \in used : d # e => Apart(d, e)
  BY Zenon DEF HeapInv
<1>2. \A u \in Nat : /\ ~(Covers(freelist, u) /\ Owned(u))
                     /\ u < heap_brk <=> Covers(freelist, u) \/ Owned(u)
  BY Zenon DEF HeapInv
<1>3. freelist' = ForEach(Merge, <<>>, sorted) /\ used' = used \ {b} /\ heap_brk' = heap_brk
  <2>1. SubSeq(freelist, 1, IF n < ARR_MAX THEN n ELSE ARR_MAX) = freelist
    <3>1. n < ARR_MAX
      BY Zenon DEF ListIsShort
    <3>2. SubSeq(freelist, 1, n) = freelist
      BY <1>1
    <3> QED BY Zenon, <3>1, <3>2
  <2> QED BY Zenon, <2>1 DEF Kfree
<1>4. b.at \in Nat /\ b.size \in Nat \ {0} /\ \A d \in used : d.at \in Nat /\ d.size \in Nat \ {0}
  BY ZenonT(30), <1>1
<1>5. c \in Block /\ c.at = b.at /\ c.size = b.size
  BY <1>4 DEF Block
<1> HIDE DEF c
<1>6. Span(c) = Span(b)
  BY Zenon, <1>5 DEF Span
<1>7. n \in Nat /\ DOMAIN freelist = 1 .. n /\ \A j \in 1 .. n : freelist[j] \in Block
  BY <1>1
<1>8. blocks \in Seq(Block) /\ DOMAIN blocks = 1 .. n + 1 /\ blocks[n + 1] = c
      /\ \A j \in 1 .. n : blocks[j] = freelist[j]
  BY <1>1, <1>5
<1> HIDE DEF n, blocks
<1>9. 1 .. n + 1 = (1 .. n) \cup {n + 1} /\ n + 1 \notin 1 .. n
  BY <1>7
<1>10. \A u : Covers(freelist, u) <=> \E j \in 1 .. n : u \in Span(freelist[j])
  BY Zenon, <1>7 DEF Covers
<1>11. AllApart(blocks)
  <2>1. ASSUME NEW j \in 1 .. n PROVE Apart(c, freelist[j]) /\ Apart(freelist[j], c)
    <3>1. freelist[j].at \in Nat /\ freelist[j].size \in Nat \ {0} /\ c.at \in Nat /\ c.size \in Nat \ {0}
      <4>1. freelist[j] \in Block
        BY Zenon, <1>7
      <4> QED BY ZenonT(30), <1>4, <1>5, <4>1 DEF Block
    <3>2. \A u \in Nat : ~(u \in Span(c) /\ u \in Span(freelist[j]))
      BY Zenon, <1>2, <1>6, <1>10 DEF Owned
    <3>3. Apart(c, freelist[j])
      BY Zenon, <3>1, <3>2, ApartUnits
    <3> QED BY Zenon, <3>3 DEF Apart
  <2>2. ASSUME NEW j \in 1 .. n + 1, NEW k \in 1 .. n + 1, j # k PROVE Apart(blocks[j], blocks[k])
    <3>1. CASE j = n + 1
      BY Zenon, <1>8, <1>9, <2>1, <2>2, <3>1
    <3>2. CASE k = n + 1
      BY Zenon, <1>8, <1>9, <2>1, <2>2, <3>2
    <3>3. CASE j # n + 1 /\ k # n + 1
      <4>1. j \in 1 .. n /\ k \in 1 .. n
        BY Zenon, <1>9, <3>3
      <4>2. Apart(freelist[j], freelist[k])
        BY Zenon, <1>1, <1>7, <2>2, <4>1 DEF AllApart
      <4> QED BY Zenon, <1>8, <4>1, <4>2
    <3> QED BY Zenon, <3>1, <3>2, <3>3
  <2> QED BY Zenon, <1>8, <2>2 DEF AllApart
<1>12. sorted \in Seq(Block) /\ Ascending(sorted) /\ Listed(sorted) = Listed(blocks)
  BY Zenon, <1>8, <1>11, SortFacts
<1> HIDE DEF sorted
<1>13. /\ freelist' \in Seq(Block) /\ Gapped(freelist')
       /\ \A u \in Nat : Covers(freelist', u) <=> Covers(sorted, u)
  BY Zenon, <1>3, <1>12, MergeLoop
<1>14. \A s, u : Covers(s, u) <=> \E d \in Listed(s) : u \in Span(d)
  BY Zenon DEF Covers, Listed
<1>15. \A u : Covers(blocks, u) <=> Covers(freelist, u) \/ u \in Span(b)
  <2>1. \A u : Covers(blocks, u) <=> \E j \in 1 .. n + 1 : u \in Span(blocks[j])
    BY Zenon, <1>8 DEF Covers
  <2> QED BY Zenon, <1>6, <1>8, <1>9, <1>10, <2>1
<1>16. \A u \in Nat : Covers(freelist', u) <=> Covers(freelist, u) \/ u \in Span(b)
  BY Zenon, <1>12, <1>13, <1>14, <1>15
<1>17. \A u \in Nat : Owned(u) <=> Owned(u)' \/ u \in Span(b)
  BY Zenon, <1>3 DEF Owned
<1>18. \A u \in Nat : ~(Owned(u)' /\ u \in Span(b))
  <2>1. ASSUME NEW u \in Nat, NEW d \in used, d # b, u \in Span(d), u \in Span(b) PROVE FALSE
    BY Zenon, <1>1, <1>4, <2>1, ApartUnits
  <2> QED BY Zenon, <1>3, <2>1 DEF Owned
<1>19. \A u \in Nat : /\ ~(Covers(freelist', u) /\ Owned(u)')
                      /\ u < heap_brk' <=> Covers(freelist', u) \/ Owned(u)'
  BY Zenon, <1>2, <1>3, <1>16, <1>17, <1>18
<1>20. AllApart(freelist')
  BY Zenon, <1>13, GappedFacts
<1>21. IsFiniteSet(used') /\ used' \subseteq used
  BY ZenonT(30), <1>1, <1>3, FS_Subset
<1>22. BlocksAreSized'
  BY Zenon, <1>21 DEF HeapInv, BlocksAreSized
<1>23. heap_brk' \in Nat /\ used' \subseteq [at : Nat, size : Nat \ {0}, n : Nat]
       /\ \A d, e \in used' : d # e => Apart(d, e)
  BY Zenon, <1>1, <1>3, <1>21
<1> QED BY Zenon, <1>13, <1>19, <1>20, <1>21, <1>22, <1>23 DEF HeapInv

\* Every call keeps HeapInv while the list fits kfree's array.
LEMMA HeapKeepsInv ==
    ASSUME HeapInv, ListIsShort, [HeapNext]_heapVars
    PROVE  HeapInv'
<1>1. ASSUME NEW m \in Sizes, Kmalloc(m) PROVE HeapInv'
  BY Zenon, <1>1, KmallocKeepsInv
<1>2. ASSUME NEW b \in used, Kfree(b) PROVE HeapInv'
  BY Zenon, <1>2, KfreeKeepsInv
<1>3. CASE UNCHANGED heapVars
  BY <1>3 DEF HeapInv, heapVars, Owned, BlocksAreSized
<1> QED BY Zenon, <1>1, <1>2, <1>3 DEF HeapNext

\* The inductive invariant, for every arena, header, chunk and sequence of calls
\* (heap_init, kmalloc, grow, kfree).
THEOREM HeapInvariant == HeapSpec /\ []ListIsShort => []HeapInv
<1>1. HeapInv /\ ListIsShort /\ [HeapNext]_heapVars => HeapInv'
  BY HeapKeepsInv
<1> QED BY <1>1, HeapStarts, PTL DEF HeapSpec

\* The free list and the blocks handed out tile the arena: no unit is in two
\* blocks and none is lost, however kmalloc splits and kfree sorts and merges.
THEOREM ArenaIsTiled == HeapSpec /\ []ListIsShort => []BlocksTileArena
<1>1. HeapInv => BlocksTileArena
  <2> SUFFICES ASSUME HeapInv, NEW u \in 0 .. heap_brk - 1
               PROVE  Cardinality({b \in Free : u \in Span(b)})
                        + Cardinality({b \in used : u \in Span(b)}) = 1
    BY DEF BlocksTileArena
  <2> DEFINE A == {b \in Free : u \in Span(b)}
             B == {b \in used : u \in Span(b)}
  <2>1. u \in Nat /\ u < heap_brk
    BY DEF HeapInv
  <2>2. freelist \in Seq(Block) /\ AllApart(freelist)
        /\ (\A b, c \in used : b # c => Apart(b, c))
        /\ used \subseteq [at : Nat, size : Nat \ {0}, n : Nat]
        /\ ~(Covers(freelist, u) /\ Owned(u)) /\ (Covers(freelist, u) \/ Owned(u))
    BY Zenon, <2>1 DEF HeapInv
  <2>3. \A i \in DOMAIN freelist : freelist[i].at \in Nat /\ freelist[i].size \in Nat \ {0}
    <3>1. \A i \in DOMAIN freelist : freelist[i] \in Block
      BY <2>2
    <3> QED BY ZenonT(30), <3>1 DEF Block
  <2>4. \A b \in used : b.at \in Nat /\ b.size \in Nat \ {0}
    BY ZenonT(30), <2>2
  <2>5. CASE Covers(freelist, u)
    <3>1. PICK i \in DOMAIN freelist : u \in Span(freelist[i])
      BY Zenon, <2>5 DEF Covers
    <3>2. \A j \in DOMAIN freelist : u \in Span(freelist[j]) => j = i
      BY Zenon, <2>1, <2>2, <2>3, <3>1, ApartUnits DEF AllApart
    <3>3. A = {freelist[i]}
      BY Zenon, <3>1, <3>2 DEF Free
    <3>4. B = {}
      BY Zenon, <2>2, <2>5 DEF Owned
    <3> HIDE DEF A, B
    <3>5. Cardinality(A) = 1 /\ Cardinality(B) = 0
      BY ZenonT(30), <3>3, <3>4, FS_Singleton, FS_EmptySet
    <3> QED BY <3>5 DEF A, B
  <2>6. CASE Owned(u)
    <3>1. PICK b \in used : u \in Span(b)
      BY Zenon, <2>6 DEF Owned
    <3>2. \A c \in used : u \in Span(c) => c = b
      BY Zenon, <2>1, <2>2, <2>4, <3>1, ApartUnits
    <3>3. B = {b}
      BY Zenon, <3>1, <3>2
    <3>4. A = {}
      BY Zenon, <2>2, <2>6 DEF Covers, Free
    <3> HIDE DEF A, B
    <3>5. Cardinality(B) = 1 /\ Cardinality(A) = 0
      BY ZenonT(30), <3>3, <3>4, FS_Singleton, FS_EmptySet
    <3> QED BY <3>5 DEF A, B
  <2> QED BY Zenon, <2>2, <2>5, <2>6
<1> QED BY <1>1, HeapInvariant, PTL

\* A caller gets the room it asked for, and less than a header and MIN_REST more
\* (the fit and split tests of kmalloc).
THEOREM RoomIsGiven == HeapSpec /\ []ListIsShort => []BlocksAreSized
<1>1. HeapInv => BlocksAreSized
  BY Zenon DEF HeapInv
<1> QED BY <1>1, HeapInvariant, PTL

\* When kfree returns no two free blocks touch, whatever order the list was in
\* and however many chunks kmalloc has put in front of it.
THEOREM FreeBlocksMerge == HeapSpec /\ []ListIsShort => KfreeCoalesces
<1>1. ASSUME HeapInv, ListIsShort, [HeapNext]_heapVars
      PROVE  [Cardinality(used') < Cardinality(used) => Touching' = {}]_heapVars
  <2>1. ASSUME NEW m \in Sizes, Kmalloc(m) PROVE ~(Cardinality(used') < Cardinality(used))
    <3>1. IsFiniteSet(used') /\ used \subseteq used'
      BY Zenon, <1>1, <2>1, KmallocKeepsInv
    <3>2. Cardinality(used) <= Cardinality(used') /\ Cardinality(used) \in Nat /\ Cardinality(used') \in Nat
      BY ZenonT(30), <3>1, FS_Subset, FS_CardinalityType
    <3> QED BY <3>2
  <2>2. ASSUME NEW b \in used, Kfree(b) PROVE Touching' = {}
    <3>1. freelist' \in Seq(Block) /\ Gapped(freelist')
      BY Zenon, <1>1, <2>2, KfreeKeepsInv DEF HeapInv
    <3>2. \A i, j \in DOMAIN freelist' : End(freelist'[i]) # freelist'[j].at
      BY Zenon, <3>1, GappedFacts
    <3>3. \A p \in Free' \X Free' : p[1].at + p[1].size # p[2].at
      <4> TAKE p \in Free' \X Free'
      <4>1. PICK i \in DOMAIN freelist', j \in DOMAIN freelist' : p[1] = freelist'[i] /\ p[2] = freelist'[j]
        BY DEF Free
      <4> QED BY Zenon, <3>2, <4>1 DEF End
    <3> QED BY Zenon, <3>3 DEF Touching
  <2> QED BY Zenon, <1>1, <2>1, <2>2 DEF HeapNext
<1> QED BY <1>1, HeapInvariant, PTL DEF HeapSpec, KfreeCoalesces
================================================================================
