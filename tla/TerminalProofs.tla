--------------------------- MODULE TerminalProofs ----------------------------
(***************************************************************************)
(* Proofs about module Terminal, for every size of ring, line buffer,      *)
(* screen and descriptor table and every set of characters and texts: the  *)
(* keyboard ring is a bounded queue, the screen shows the end of all       *)
(* output and the line being typed, and descriptors are stable.            *)
(***************************************************************************)
EXTENDS Terminal, WellFoundedInduction, TLAPS

-----------------------------------------------------------------------------
(* Induction and loops over a sequence.                                     *)

\* Induction up to N, for the set G of the numbers that have the property.
LEMMA UpTo ==
    ASSUME NEW N \in Nat, NEW G, 0 \in G,
           \A n \in 1 .. N : n - 1 \in G => n \in G
    PROVE  \A n \in 0 .. N : n \in G
<1> SUFFICES ASSUME NEW c \in 0 .. N, c \notin G PROVE FALSE
  OBVIOUS
<1> DEFINE R == OpToRel(<, Nat)
           Bad == {n \in 0 .. N : n \notin G}
<1>1. IsWellFoundedOn(R, Nat)
  BY Zenon, NatLessThanWellFounded
<1>2. \A x, y \in Nat : x < y => <<x, y>> \in R
  BY DEF OpToRel
<1>3. Bad \subseteq Nat /\ c \in Bad
  OBVIOUS
<1> HIDE DEF R, Bad
<1>4. PICK m \in Bad : \A y \in Bad : ~(<<y, m>> \in R)
  BY Zenon, <1>1, <1>3, WFMin
<1>5. m \in 0 .. N /\ m \notin G
  BY DEF Bad
<1>6. m - 1 \in Bad /\ m - 1 \in Nat /\ m - 1 < m
  BY <1>5 DEF Bad
<1>7. m \in Nat
  BY <1>5
<1>8. <<m - 1, m>> \in R
  BY Zenon, <1>2, <1>6, <1>7
<1> QED BY Zenon, <1>4, <1>6, <1>8

\* The loop that goes from state s0 by F, turn by turn, exists.
IsLoop(g, N, S, s0, F) ==
    g \in [0 .. N -> S] /\ g[0] = s0 /\ \A n \in 1 .. N : g[n] = F[n][g[n - 1]]

LEMMA LoopExists ==
    ASSUME NEW N \in Nat, NEW S, NEW s0 \in S, NEW F \in [1 .. N -> [S -> S]]
    PROVE  \E g : IsLoop(g, N, S, s0, F)
<1> DEFINE Good(m, g) == g[0] = s0 /\ \A n \in 1 .. m : g[n] = F[n][g[n - 1]]
           G == {m \in 0 .. N : \E g \in [0 .. m -> S] : Good(m, g)}
<1>1. 0 \in G
  <2> DEFINE g == [n \in 0 .. 0 |-> s0]
  <2>1. g \in [0 .. 0 -> S] /\ Good(0, g)
    OBVIOUS
  <2> HIDE DEF g
  <2> QED BY <2>1
<1>2. ASSUME NEW m \in 1 .. N, m - 1 \in G PROVE m \in G
  <2>1. PICK g \in [0 .. m - 1 -> S] : Good(m - 1, g)
    BY <1>2
  <2> DEFINE h == [n \in 0 .. m |-> IF n = m THEN F[m][g[m - 1]] ELSE g[n]]
  <2>2. g[m - 1] \in S /\ F[m] \in [S -> S]
    OBVIOUS
  <2>3. h \in [0 .. m -> S]
    BY <2>2
  <2>4. h[0] = s0
    BY <2>1
  <2>5. ASSUME NEW n \in 1 .. m PROVE h[n] = F[n][h[n - 1]]
    <3>0. n - 1 \in 0 .. m - 1 /\ h[n - 1] = g[n - 1]
      OBVIOUS
    <3>1. CASE n = m
      <4>1. h[m] = F[m][g[m - 1]]
        OBVIOUS
      <4> QED BY <3>0, <3>1, <4>1, Zenon
    <3>2. CASE n # m
      BY <2>1, <3>0, <3>2
    <3> QED BY ZenonT(30), <3>1, <3>2
  <2> HIDE DEF h
  <2> QED BY <2>3, <2>4, <2>5
<1> HIDE DEF G
<1>3. \A m \in 0 .. N : m \in G
  BY Zenon, <1>1, <1>2, UpTo
<1>4. N \in G
  BY <1>3
<1> QED BY ZenonT(30), <1>4 DEF G, IsLoop

-----------------------------------------------------------------------------
(* The console.                                                             *)

Cell == {"blank", "?"} \cup Glyphs
Grid == [Row -> [Col -> Cell]]
Screen == [cell : Grid, x : Col, y : Row]
Paper == [rows : Seq([Col -> Cell]), x : Col]

\* ShowsEnd without the column of the cursor.
RowsShown(cell, y, rows) ==
    LET n == Len(rows)
        top == IF n > ROWS THEN n - ROWS ELSE 0
    IN /\ y = n - top - 1
       /\ \A k \in Row : cell[k] = IF top + k + 1 <= n THEN rows[top + k + 1] ELSE BlankRow

Shown(s, p) == s \in Screen /\ p \in Paper /\ ShowsEnd(s, p)

LEMMA ShownFacts ==
    ASSUME NEW s, NEW p
    PROVE  Shown(s, p) <=> /\ s \in Screen /\ p \in Paper
                           /\ s.x = p.x /\ RowsShown(s.cell, s.y, p.rows)
BY ZenonT(30) DEF Shown, ShowsEnd, RowsShown

\* A new row: the cursor moves down, or the rows move up (fb_scroll).
LEMMA FeedFacts ==
    ASSUME NEW cell \in Grid, NEW y \in Row, NEW r \in Seq([Col -> Cell]), RowsShown(cell, y, r)
    PROVE  /\ BlankRow \in [Col -> Cell] /\ Append(r, BlankRow) \in Seq([Col -> Cell])
           /\ y + 1 < ROWS => RowsShown(cell, y + 1, Append(r, BlankRow))
           /\ ~(y + 1 < ROWS) => /\ Scroll(cell) \in Grid
                                 /\ RowsShown(Scroll(cell), ROWS - 1, Append(r, BlankRow))
<1> DEFINE n == Len(r)
           q == Append(r, BlankRow)
           top == IF n > ROWS THEN n - ROWS ELSE 0
<1>1. BlankRow \in [Col -> Cell]
  BY ZenonT(30) DEF BlankRow, Cell
<1>2. /\ q \in Seq([Col -> Cell]) /\ Len(q) = n + 1 /\ q[n + 1] = BlankRow
      /\ \A k \in 1 .. n : q[k] = r[k]
  BY <1>1
<1>3. ROWS \in Nat \ {0} /\ Row = 0 .. ROWS - 1 /\ y \in 0 .. ROWS - 1 /\ n \in Nat
  BY ConsoleAssumption DEF Row
<1>4. top \in Nat /\ (n > ROWS => top = n - ROWS) /\ (n <= ROWS => top = 0)
  BY <1>3
<1>5. /\ y = n - top - 1
      /\ \A k \in Row : cell[k] = IF top + k + 1 <= n THEN r[top + k + 1] ELSE BlankRow
  BY ZenonT(30) DEF RowsShown
<1> HIDE DEF q, n, top
<1>6. ASSUME y + 1 < ROWS PROVE RowsShown(cell, y + 1, q)
  <2>1. n < ROWS /\ top = 0 /\ y + 1 = n
    BY SMTT(30), <1>3, <1>4, <1>5, <1>6
  <2>2. ASSUME NEW k \in Row PROVE cell[k] = IF k + 1 <= n + 1 THEN q[k + 1] ELSE BlankRow
    <3>1. k \in Nat
      BY <1>3
    <3>2. CASE k + 1 <= n
      BY <1>2, <1>3, <1>5, <2>1, <3>1, <3>2
    <3>3. CASE k + 1 > n
      <4>1. cell[k] = BlankRow
        BY <1>3, <1>5, <2>1, <3>1, <3>3
      <4>2. k + 1 <= n + 1 => k + 1 = n + 1
        BY <1>3, <3>1, <3>3
      <4> QED BY ZenonT(30), <1>2, <4>1, <4>2
    <3> QED BY <1>3, <3>1, <3>2, <3>3
  <2>3. ~(n + 1 > ROWS) /\ y + 1 = (n + 1) - 0 - 1
    BY <1>3, <2>1
  <2>4. \A k \in Row : 0 + k + 1 = k + 1
    BY <1>3
  <2> QED BY ZenonT(30), <1>2, <2>2, <2>3, <2>4 DEF RowsShown
<1>7. ASSUME ~(y + 1 < ROWS) PROVE Scroll(cell) \in Grid /\ RowsShown(Scroll(cell), ROWS - 1, q)
  <2>0. y = ROWS - 1 /\ y = n - top - 1
    BY <1>3, <1>5, <1>7
  <2>1. n >= ROWS /\ top = n - ROWS
    BY <1>3, <1>4, <2>0
  <2>2. Scroll(cell) \in Grid
    BY <1>1, <1>3 DEF Scroll, Grid
  <2>3. ASSUME NEW k \in Row PROVE Scroll(cell)[k] = q[(n + 1 - ROWS) + k + 1]
    <3>1. CASE k = ROWS - 1
      <4>1. (n + 1 - ROWS) + k + 1 = n + 1
        BY <1>3, <3>1
      <4> QED BY ZenonT(30), <1>2, <3>1, <4>1 DEF Scroll
    <3>2. CASE k # ROWS - 1
      <4>1. k + 1 \in Row /\ top + (k + 1) + 1 \in 1 .. n
        BY <1>3, <2>1, <3>2
      <4>2. Scroll(cell)[k] = cell[k + 1]
        BY ZenonT(30), <3>2 DEF Scroll
      <4>3. cell[k + 1] = r[top + (k + 1) + 1]
        BY <1>5, <4>1
      <4>4. top + (k + 1) + 1 = (n + 1 - ROWS) + k + 1
        BY <1>3, <2>1
      <4> QED BY ZenonT(30), <1>2, <4>1, <4>2, <4>3, <4>4
    <3> QED BY ZenonT(30), <3>1, <3>2
  <2> DEFINE t == (n + 1) - ROWS
  <2>4. n + 1 > ROWS /\ ROWS - 1 = (n + 1) - t - 1
    BY <1>3, <2>1
  <2>5. \A k \in Row : t + k + 1 <= n + 1 /\ t + k + 1 = (n + 1 - ROWS) + k + 1
    BY <1>3
  <2> HIDE DEF t
  <2>6. \A k \in Row : Scroll(cell)[k] = IF t + k + 1 <= n + 1 THEN q[t + k + 1] ELSE BlankRow
    BY ZenonT(30), <2>3, <2>5
  <2>7. (IF n + 1 > ROWS THEN (n + 1) - ROWS ELSE 0) = t
    BY <2>4 DEF t
  <2>8. RowsShown(Scroll(cell), ROWS - 1, q)
    BY <1>2, <2>4, <2>6, <2>7, Zenon DEF RowsShown
  <2> QED BY ZenonT(30), <2>2, <2>8
<1> QED BY ZenonT(30), <1>1, <1>2, <1>6, <1>7 DEF q

\* A character drawn in the last row (fb_draw_char).
LEMMA DrawFacts ==
    ASSUME NEW cell \in Grid, NEW y \in Row, NEW r \in Seq([Col -> Cell]), RowsShown(cell, y, r),
           NEW x \in Col, NEW v \in Cell
    PROVE  /\ [cell EXCEPT ![y][x] = v] \in Grid
           /\ [r EXCEPT ![Len(r)][x] = v] \in Seq([Col -> Cell])
           /\ RowsShown([cell EXCEPT ![y][x] = v], y, [r EXCEPT ![Len(r)][x] = v])
<1> DEFINE n == Len(r)
           top == IF n > ROWS THEN n - ROWS ELSE 0
           c2 == [cell EXCEPT ![y][x] = v]
           r2 == [r EXCEPT ![Len(r)][x] = v]
           w == [cell[y] EXCEPT ![x] = v]
<1>1. ROWS \in Nat \ {0} /\ Row = 0 .. ROWS - 1 /\ y \in 0 .. ROWS - 1 /\ n \in Nat
  BY ConsoleAssumption DEF Row
<1>2. /\ y = n - top - 1
      /\ \A k \in Row : cell[k] = IF top + k + 1 <= n THEN r[top + k + 1] ELSE BlankRow
  BY ZenonT(30) DEF RowsShown
<1>3. top \in Nat
  BY <1>1
<1>4. w \in [Col -> Cell]
  BY ZenonT(30) DEF Grid
<1>5. c2 \in Grid /\ \A k \in Row : c2[k] = IF k = y THEN w ELSE cell[k]
  BY ZenonT(30), <1>4 DEF Grid
<1>6. r2 = [k \in 1 .. n |-> IF k = n THEN [r[n] EXCEPT ![x] = v] ELSE r[k]]
  <2>1. DOMAIN r = 1 .. n
    OBVIOUS
  <2> QED BY <2>1, Zenon
<1> HIDE DEF top
<1>7. n >= 1 /\ top + y + 1 = n
  BY <1>1, <1>2, <1>3
<1>8. cell[y] = r[n]
  BY <1>1, <1>2, <1>7
<1> HIDE DEF w, c2, r2, n
<1>9. /\ r2 \in Seq([Col -> Cell]) /\ Len(r2) = n
      /\ \A k \in 1 .. n : r2[k] = IF k = n THEN w ELSE r[k]
  <2>1. r2 = [k \in 1 .. n |-> IF k = n THEN w ELSE r[k]]
    BY ZenonT(30), <1>6, <1>8 DEF w
  <2>2. \A k \in 1 .. n : r[k] \in [Col -> Cell]
    BY DEF n
  <2>3. r2 \in [1 .. n -> [Col -> Cell]]
    BY ZenonT(30), <1>4, <2>1, <2>2
  <2> QED BY <1>1, <2>1, <2>3
<1>10. ASSUME NEW k \in Row
       PROVE  c2[k] = IF top + k + 1 <= n THEN r2[top + k + 1] ELSE BlankRow
  <2>1. k = y <=> top + k + 1 = n
    BY <1>1, <1>3, <1>7
  <2>2. top + k + 1 <= n => top + k + 1 \in 1 .. n
    BY <1>1, <1>3
  <2> QED BY SMTT(30), <1>1, <1>2, <1>3, <1>5, <1>7, <1>9, <2>1, <2>2
<1>11. RowsShown(c2, y, r2)
  BY ZenonT(30), <1>2, <1>9, <1>10 DEF RowsShown, top
<1> QED BY ZenonT(30), <1>5, <1>9, <1>11 DEF c2, r2

\* fb_putc case by case, for a cursor on the screen.
LEMMA PutcCases ==
    ASSUME NEW s \in Screen, NEW c
    PROVE  /\ c = "nl" => Putc(s, c) = IF s.y + 1 < ROWS THEN [cell |-> s.cell, x |-> 0, y |-> s.y + 1]
                                       ELSE [cell |-> Scroll(s.cell), x |-> 0, y |-> ROWS - 1]
           /\ c = "cr" => Putc(s, c) = [cell |-> s.cell, x |-> 0, y |-> s.y]
           /\ c = "bs" => Putc(s, c) = [cell |-> s.cell, x |-> IF s.x > 0 THEN s.x - 1 ELSE 0, y |-> s.y]
           /\ c \notin {"nl", "cr", "bs"} =>
                LET d == [s.cell EXCEPT ![s.y][s.x] = DrawnAs(c)]
                IN Putc(s, c) = IF s.x + 1 < COLS THEN [cell |-> d, x |-> s.x + 1, y |-> s.y]
                                ELSE IF s.y + 1 < ROWS THEN [cell |-> d, x |-> 0, y |-> s.y + 1]
                                ELSE [cell |-> Scroll(d), x |-> 0, y |-> ROWS - 1]
<1>1. /\ COLS \in Nat \ {0} /\ ROWS \in Nat \ {0}
      /\ s.x \in 0 .. COLS - 1 /\ s.y \in 0 .. ROWS - 1 /\ s.y < ROWS
  BY ConsoleAssumption DEF Screen, Row, Col
<1>2. s = [cell |-> s.cell, x |-> s.x, y |-> s.y]
  BY DEF Screen
<1>3. CASE c = "nl"
  <2> DEFINE m == [s EXCEPT !.x = 0, !.y = @ + 1]
  <2>1. m = [cell |-> s.cell, x |-> 0, y |-> s.y + 1]
    <3> DEFINE k == [s EXCEPT !.x = 0]
    <3>1. k = [cell |-> s.cell, x |-> 0, y |-> s.y]
      BY DEF Screen
    <3>2. m = [k EXCEPT !.y = s.y + 1]
      BY DEF Screen
    <3> HIDE DEF k, m
    <3> QED BY ZenonT(30), <3>1, <3>2
  <2>2. Putc(s, c) = IF m.y < ROWS THEN m ELSE [m EXCEPT !.cell = Scroll(@), !.y = ROWS - 1]
    BY Zenon, <1>3 DEF Putc
  <2> HIDE DEF m
  <2> QED BY Zenon, <1>3, <2>1, <2>2
<1>4. CASE c = "cr"
  <2> DEFINE m == [s EXCEPT !.x = 0]
  <2>1. m = [cell |-> s.cell, x |-> 0, y |-> s.y]
    BY <1>2
  <2>2. Putc(s, c) = IF m.y < ROWS THEN m ELSE [m EXCEPT !.cell = Scroll(@), !.y = ROWS - 1]
    BY Zenon, <1>4 DEF Putc
  <2> HIDE DEF m
  <2> QED BY ZenonT(30), <1>1, <1>4, <2>1, <2>2
<1>5. CASE c = "bs"
  <2> DEFINE m == [s EXCEPT !.x = IF @ > 0 THEN @ - 1 ELSE 0]
  <2>1. m = [cell |-> s.cell, x |-> IF s.x > 0 THEN s.x - 1 ELSE 0, y |-> s.y]
    BY <1>2
  <2>2. Putc(s, c) = IF m.y < ROWS THEN m ELSE [m EXCEPT !.cell = Scroll(@), !.y = ROWS - 1]
    BY Zenon, <1>5 DEF Putc
  <2> HIDE DEF m
  <2> QED BY ZenonT(30), <1>1, <1>5, <2>1, <2>2
<1>6. CASE c \notin {"nl", "cr", "bs"}
  <2> DEFINE d == [s.cell EXCEPT ![s.y][s.x] = DrawnAs(c)]
             m == [cell |-> d, x |-> (s.x + 1) % COLS, y |-> IF s.x + 1 >= COLS THEN s.y + 1 ELSE s.y]
  <2>1. Putc(s, c) = IF m.y < ROWS THEN m ELSE [m EXCEPT !.cell = Scroll(@), !.y = ROWS - 1]
    BY Zenon, <1>6 DEF Putc
  <2>2. (s.x + 1) % COLS = IF s.x + 1 < COLS THEN s.x + 1 ELSE 0
    <3>1. s.x + 1 < COLS \/ s.x + 1 = COLS
      BY <1>1
    <3>2. \A a \in 0 .. COLS - 1 : a % COLS = a
      BY <1>1
    <3>3. COLS % COLS = 0
      BY <1>1
    <3> QED BY <1>1, <3>1, <3>2, <3>3
  <2> HIDE DEF d
  <2>3. CASE s.x + 1 < COLS
    BY <1>1, <1>6, <2>1, <2>2, <2>3 DEF d
  <2>4. CASE ~(s.x + 1 < COLS)
    <3>1. m = [cell |-> d, x |-> 0, y |-> s.y + 1]
      BY <1>1, <2>2, <2>4
    <3> HIDE DEF m
    <3> QED BY Zenon, <1>1, <1>6, <2>1, <2>4, <3>1 DEF d
  <2> QED BY ZenonT(30), <2>3, <2>4
<1> QED BY ZenonT(30), <1>3, <1>4, <1>5, <1>6

LEMMA DrawnIsCell ==
    ASSUME NEW c
    PROVE  DrawnAs(c) \in Cell
BY Zenon DEF DrawnAs, Cell

\* One character: the screen goes on showing the end of the paper.
LEMMA PutcShows ==
    ASSUME NEW s, NEW p, NEW c, Shown(s, p)
    PROVE  Shown(Putc(s, c), Type(p, c))
<1>1. /\ s \in Screen /\ p \in Paper /\ s.x = p.x /\ RowsShown(s.cell, s.y, p.rows)
      /\ s.cell \in Grid /\ s.x \in Col /\ s.y \in Row /\ p.rows \in Seq([Col -> Cell])
  BY ZenonT(30), ShownFacts DEF Screen, Paper
<1>2. /\ COLS \in Nat \ {0} /\ ROWS \in Nat \ {0} /\ Col = 0 .. COLS - 1 /\ Row = 0 .. ROWS - 1
  BY ZenonT(30), ConsoleAssumption DEF Row, Col
<1>3. p = [rows |-> p.rows, x |-> p.x]
  BY ZenonT(30), <1>1 DEF Paper
<1> DEFINE t == Putc(s, c)
           q == Type(p, c)
<1>4. CASE c = "nl"
  <2>1. q = [rows |-> Append(p.rows, BlankRow), x |-> 0]
    BY <1>4 DEF Type
  <2>2. t = IF s.y + 1 < ROWS THEN [cell |-> s.cell, x |-> 0, y |-> s.y + 1]
            ELSE [cell |-> Scroll(s.cell), x |-> 0, y |-> ROWS - 1]
    BY Zenon, <1>1, <1>4, PutcCases
  <2>3. /\ Append(p.rows, BlankRow) \in Seq([Col -> Cell])
        /\ s.y + 1 < ROWS => RowsShown(s.cell, s.y + 1, Append(p.rows, BlankRow))
        /\ ~(s.y + 1 < ROWS) => /\ Scroll(s.cell) \in Grid
                                /\ RowsShown(Scroll(s.cell), ROWS - 1, Append(p.rows, BlankRow))
    BY Zenon, <1>1, <1>2, FeedFacts
  <2>4. t \in Screen /\ q \in Paper
    BY SMTT(30), <1>1, <1>2, <2>1, <2>2, <2>3 DEF Screen, Paper
  <2> HIDE DEF t, q
  <2>5. t.x = q.x /\ RowsShown(t.cell, t.y, q.rows)
    BY ZenonT(30), <2>1, <2>2, <2>3
  <2> QED BY ZenonT(30), <2>4, <2>5, ShownFacts DEF t, q
<1>5. CASE c = "cr"
  <2>1. q = [rows |-> p.rows, x |-> 0]
    BY ZenonT(30), <1>3, <1>5 DEF Type
  <2>2. t = [cell |-> s.cell, x |-> 0, y |-> s.y]
    BY Zenon, <1>1, <1>5, PutcCases
  <2>3. t \in Screen /\ q \in Paper
    BY <1>1, <1>2, <2>1, <2>2 DEF Screen, Paper
  <2> HIDE DEF t, q
  <2> QED BY <1>1, <2>1, <2>2, <2>3, ShownFacts DEF t, q
<1>6. CASE c = "bs"
  <2> DEFINE b == IF s.x > 0 THEN s.x - 1 ELSE 0
  <2>1. q = [rows |-> p.rows, x |-> b]
    BY ZenonT(30), <1>1, <1>3, <1>6 DEF Type
  <2>2. t = [cell |-> s.cell, x |-> b, y |-> s.y]
    BY Zenon, <1>1, <1>6, PutcCases
  <2>3. b \in Col
    BY SMTT(30), <1>1, <1>2
  <2> HIDE DEF b
  <2>4. t \in Screen /\ q \in Paper
    BY <1>1, <2>1, <2>2, <2>3 DEF Screen, Paper
  <2> HIDE DEF t, q
  <2> QED BY <1>1, <2>1, <2>2, <2>4, ShownFacts DEF t, q
<1>7. CASE c \notin {"nl", "cr", "bs"}
  <2> DEFINE v == DrawnAs(c)
             d == [s.cell EXCEPT ![s.y][s.x] = v]
             r == [p.rows EXCEPT ![Len(p.rows)][p.x] = v]
  <2>1. d \in Grid /\ r \in Seq([Col -> Cell]) /\ RowsShown(d, s.y, r)
    <3>1. v \in Cell
      BY ZenonT(30), DrawnIsCell
    <3> HIDE DEF v
    <3> QED BY Zenon, <1>1, <3>1, DrawFacts
  <2>2. q = IF p.x + 1 < COLS THEN [rows |-> r, x |-> p.x + 1]
            ELSE [rows |-> Append(r, BlankRow), x |-> 0]
    <3> DEFINE m == [p EXCEPT !.rows[Len(p.rows)][p.x] = v, !.x = @ + 1]
    <3>1. q = IF m.x < COLS THEN m ELSE [rows |-> Append(m.rows, BlankRow), x |-> 0]
      BY <1>7 DEF Type
    <3>2. m = [rows |-> r, x |-> p.x + 1]
      <4> DEFINE k == [p EXCEPT !.rows = r]
      <4>1. p \in [rows : Seq([Col -> Cell]), x : Col]
        BY ZenonT(30), <1>1 DEF Paper
      <4>2. m = [k EXCEPT !.x = p.x + 1]
        BY ZenonT(30), <4>1
      <4> HIDE DEF m, r
      <4>3. k = [rows |-> r, x |-> p.x]
        BY <4>1
      <4> HIDE DEF k
      <4> QED BY ZenonT(30), <4>2, <4>3
    <3> HIDE DEF m, r, q
    <3> QED BY ZenonT(30), <3>1, <3>2
  <2>3. t = IF s.x + 1 < COLS THEN [cell |-> d, x |-> s.x + 1, y |-> s.y]
            ELSE IF s.y + 1 < ROWS THEN [cell |-> d, x |-> 0, y |-> s.y + 1]
            ELSE [cell |-> Scroll(d), x |-> 0, y |-> ROWS - 1]
    BY Zenon, <1>1, <1>7, PutcCases
  <2> HIDE DEF d, r
  <2>4. /\ Append(r, BlankRow) \in Seq([Col -> Cell])
        /\ s.y + 1 < ROWS => RowsShown(d, s.y + 1, Append(r, BlankRow))
        /\ ~(s.y + 1 < ROWS) => Scroll(d) \in Grid /\ RowsShown(Scroll(d), ROWS - 1, Append(r, BlankRow))
    BY Zenon, <1>1, <1>2, <2>1, FeedFacts
  <2> HIDE DEF t, q
  <2>5. CASE s.x + 1 < COLS
    <3>1. t = [cell |-> d, x |-> s.x + 1, y |-> s.y] /\ q = [rows |-> r, x |-> s.x + 1] /\ s.x + 1 \in Col
      BY SMTT(30), <1>1, <1>2, <2>2, <2>3, <2>5
    <3>2. t \in Screen /\ q \in Paper
      BY ZenonT(30), <1>1, <2>1, <3>1 DEF Screen, Paper
    <3> QED BY SMTT(30), <2>1, <3>1, <3>2, ShownFacts DEF t, q
  <2>6. CASE ~(s.x + 1 < COLS)
    <3>1. q = [rows |-> Append(r, BlankRow), x |-> 0] /\ 0 \in Col
      BY SMTT(30), <1>1, <1>2, <2>2, <2>6
    <3>2. t = IF s.y + 1 < ROWS THEN [cell |-> d, x |-> 0, y |-> s.y + 1]
              ELSE [cell |-> Scroll(d), x |-> 0, y |-> ROWS - 1]
      BY ZenonT(30), <2>3, <2>6
    <3>3. t \in Screen /\ q \in Paper
      BY SMTT(30), <1>1, <1>2, <2>1, <2>4, <3>1, <3>2 DEF Screen, Paper
    <3>4. t.x = q.x /\ RowsShown(t.cell, t.y, q.rows)
      BY <2>4, <3>1, <3>2
    <3> QED BY <3>3, <3>4, ShownFacts DEF t, q
  <2> QED BY ZenonT(30), <2>5, <2>6
<1> QED BY ZenonT(30), <1>4, <1>5, <1>6, <1>7

\* console_write: the screen and the paper after each character of a text.
LEMMA PutsSteps ==
    ASSUME NEW s, NEW p, Shown(s, p), NEW T, NEW text \in Seq(T)
    PROVE  \E put, typed :
              /\ put[0] = s /\ typed[0] = p
              /\ \A n \in 1 .. Len(text) : /\ put[n] = Putc(put[n - 1], text[n])
                                           /\ typed[n] = Type(typed[n - 1], text[n])
              /\ \A n \in 0 .. Len(text) : Shown(put[n], typed[n])
              /\ Puts(s, text) = put[Len(text)] /\ TypeAll(p, text) = typed[Len(text)]
<1> DEFINE N == Len(text)
           Pairs == {a \in Screen \X Paper : Shown(a[1], a[2])}
           F == [n \in 1 .. N |-> [a \in Pairs |-> <<Putc(a[1], text[n]), Type(a[2], text[n])>>]]
<1>1. N \in Nat
  OBVIOUS
<1> HIDE DEF N
<1>2. F \in [1 .. N -> [Pairs -> Pairs]] /\ <<s, p>> \in Pairs
  <2>1. ASSUME NEW a \in Pairs, NEW n \in 1 .. N
        PROVE  <<Putc(a[1], text[n]), Type(a[2], text[n])>> \in Pairs
    <3>1. Shown(a[1], a[2])
      BY Zenon
    <3>2. Shown(Putc(a[1], text[n]), Type(a[2], text[n]))
      BY ZenonT(30), <3>1, PutcShows
    <3> QED BY ZenonT(30), <3>2 DEF Shown
  <2>2. <<s, p>> \in Pairs
    BY DEF Shown
  <2> HIDE DEF Pairs
  <2> QED BY ZenonT(30), <2>1, <2>2
<1>3. PICK g \in [0 .. N -> Pairs] : /\ g[0] = <<s, p>>
                                     /\ \A n \in 1 .. N : g[n] = F[n][g[n - 1]]
  <2> DEFINE s0 == <<s, p>>
  <2>1. s0 \in Pairs /\ F \in [1 .. N -> [Pairs -> Pairs]]
    BY ZenonT(30), <1>2
  <2> HIDE DEF F, Pairs, s0
  <2>2. \E g : IsLoop(g, N, Pairs, s0, F)
    BY ZenonT(30), <1>1, <2>1, LoopExists
  <2> QED BY Zenon, <2>2 DEF s0, IsLoop
<1>4. ASSUME NEW n \in 1 .. N
      PROVE  /\ n - 1 \in 0 .. N
             /\ g[n] = <<Putc(g[n - 1][1], text[n]), Type(g[n - 1][2], text[n])>>
  <2>1. n - 1 \in 0 .. N /\ g[n - 1] \in Pairs
    BY <1>1
  <2>2. g[n] = F[n][g[n - 1]]
    BY ZenonT(30), <1>3
  <2> HIDE DEF Pairs
  <2> QED BY ZenonT(30), <2>1, <2>2
<1> DEFINE put == CHOOSE f : f = [n \in 0 .. N |-> IF n = 0 THEN s ELSE Putc(f[n - 1], text[n])]
           typed == CHOOSE f : f = [n \in 0 .. N |-> IF n = 0 THEN p ELSE Type(f[n - 1], text[n])]
<1>5. Puts(s, text) = put[N] /\ TypeAll(p, text) = typed[N]
  BY DEF Puts, TypeAll, N
<1>6. put = [n \in 0 .. N |-> IF n = 0 THEN s ELSE Putc(put[n - 1], text[n])]
  <2> DEFINE f == [n \in 0 .. N |-> g[n][1]]
  <2>1. ASSUME NEW n \in 0 .. N PROVE g[n][1] = IF n = 0 THEN s ELSE Putc(f[n - 1], text[n])
    <3>1. CASE n = 0
      BY <1>3, <3>1
    <3>2. CASE n # 0
      <4>1. n \in 1 .. N
        BY <1>1, <3>2
      <4> QED BY <1>4, <3>2, <4>1
    <3> QED BY ZenonT(30), <3>1, <3>2
  <2>2. f = [n \in 0 .. N |-> IF n = 0 THEN s ELSE Putc(f[n - 1], text[n])]
    BY <2>1, Zenon
  <2> HIDE DEF f
  <2> QED BY <2>2, Zenon
<1>7. typed = [n \in 0 .. N |-> IF n = 0 THEN p ELSE Type(typed[n - 1], text[n])]
  <2> DEFINE f == [n \in 0 .. N |-> g[n][2]]
  <2>1. ASSUME NEW n \in 0 .. N PROVE g[n][2] = IF n = 0 THEN p ELSE Type(f[n - 1], text[n])
    <3>1. CASE n = 0
      BY <1>3, <3>1
    <3>2. CASE n # 0
      <4>1. n \in 1 .. N
        BY <1>1, <3>2
      <4> QED BY <1>4, <3>2, <4>1
    <3> QED BY ZenonT(30), <3>1, <3>2
  <2>2. f = [n \in 0 .. N |-> IF n = 0 THEN p ELSE Type(f[n - 1], text[n])]
    BY <2>1, Zenon
  <2> HIDE DEF f
  <2> QED BY <2>2, Zenon
<1> HIDE DEF put, typed
<1>8. /\ put[0] = s /\ typed[0] = p
      /\ \A n \in 1 .. N : put[n] = Putc(put[n - 1], text[n]) /\ typed[n] = Type(typed[n - 1], text[n])
  <2>1. 0 \in 0 .. N /\ \A n \in 1 .. N : n \in 0 .. N /\ n # 0
    BY <1>1
  <2> QED BY <1>6, <1>7, <2>1, Zenon
<1>9. \A n \in 0 .. N : Shown(put[n], typed[n])
  <2> DEFINE G == {n \in 0 .. N : Shown(put[n], typed[n])}
  <2>1. 0 \in G
    BY SMTT(30), <1>1, <1>8
  <2>2. ASSUME NEW n \in 1 .. N, n - 1 \in G PROVE n \in G
    <3>1. Shown(put[n - 1], typed[n - 1]) /\ n \in 0 .. N
      BY <1>1, <2>2
    <3> QED BY SMTT(30), <1>8, <3>1, PutcShows
  <2> HIDE DEF G
  <2>3. \A n \in 0 .. N : n \in G
    BY Zenon, <1>1, <2>1, <2>2, UpTo
  <2> QED BY ZenonT(30), <2>3 DEF G
<1> QED BY <1>5, <1>8, <1>9, Zenon DEF N

LEMMA PutsShows ==
    ASSUME NEW s, NEW p, Shown(s, p), NEW T, NEW text \in Seq(T)
    PROVE  Shown(Puts(s, text), TypeAll(p, text))
<1>1. PICK put, typed :
         /\ \A n \in 0 .. Len(text) : Shown(put[n], typed[n])
         /\ Puts(s, text) = put[Len(text)] /\ TypeAll(p, text) = typed[Len(text)]
  BY PutsSteps
<1>2. Len(text) \in 0 .. Len(text)
  OBVIOUS
<1> QED BY <1>1, <1>2, Zenon

\* The three characters with which tty_poll erases one on the screen.
LEMMA PutsThree ==
    ASSUME NEW s, NEW p, Shown(s, p)
    PROVE  Puts(s, <<"bs", " ", "bs">>) = Putc(Putc(Putc(s, "bs"), " "), "bs")
<1> DEFINE text == <<"bs", " ", "bs">>
           T == {"bs", " "}
<1>1. text \in Seq(T) /\ Len(text) = 3 /\ text[1] = "bs" /\ text[2] = " " /\ text[3] = "bs"
  OBVIOUS
<1> HIDE DEF text, T
<1>2. PICK put, typed :
         /\ put[0] = s
         /\ \A n \in 1 .. Len(text) : put[n] = Putc(put[n - 1], text[n])
         /\ Puts(s, text) = put[Len(text)]
  <2>1. text \in Seq(T)
    BY Zenon, <1>1
  <2> QED BY <2>1, PutsSteps
<1>3. put[1] = Putc(put[0], text[1]) /\ put[2] = Putc(put[1], text[2]) /\ put[3] = Putc(put[2], text[3])
  <2>1. 1 \in 1 .. 3 /\ 2 \in 1 .. 3 /\ 3 \in 1 .. 3 /\ 1 - 1 = 0 /\ 2 - 1 = 1 /\ 3 - 1 = 2
    OBVIOUS
  <2> QED BY <1>1, <1>2, <2>1, Zenon
<1> QED BY Zenon, <1>1, <1>2, <1>3 DEF text

LEMMA PutsOne ==
    ASSUME NEW s, NEW p, Shown(s, p), NEW c
    PROVE  Puts(s, <<c>>) = Putc(s, c)
<1> DEFINE text == <<c>>
<1>1. text \in Seq({c}) /\ Len(text) = 1 /\ text[1] = c
  OBVIOUS
<1> HIDE DEF text
<1>2. PICK put, typed :
         /\ put[0] = s
         /\ \A n \in 1 .. Len(text) : put[n] = Putc(put[n - 1], text[n])
         /\ Puts(s, text) = put[Len(text)]
  BY <1>1, PutsSteps
<1>3. put[1] = Putc(put[0], text[1])
  <2>1. 1 \in 1 .. 1 /\ 1 - 1 = 0
    OBVIOUS
  <2> QED BY <1>1, <1>2, <2>1, Zenon
<1> QED BY ZenonT(30), <1>1, <1>2, <1>3 DEF text

-----------------------------------------------------------------------------
(* The line discipline.                                                     *)

\* The states that tty_poll goes through, and what holds in all of them.
Polls == [line : Seq(Char), ready : BOOLEAN, scr : Screen, paper : Paper, base : Col, mixed : BOOLEAN]

Echoed(ln, s, b) ==
    /\ s.x = b + Len(ln)
    /\ \A n \in 1 .. Len(ln) : s.cell[s.y][b + n - 1] = DrawnAs(ln[n])

PollInv(l) ==
    /\ l \in Polls /\ Len(l.line) <= LINE_MAX - 1
    /\ Shown(l.scr, l.paper)
    /\ ~l.ready /\ ~l.mixed => Echoed(l.line, l.scr, l.base)

LEMMA OutFacts ==
    ASSUME NEW l \in Polls, Shown(l.scr, l.paper), NEW T, NEW text \in Seq(T)
    PROVE  LET o == Out(l, text)
           IN /\ o \in Polls /\ Shown(o.scr, o.paper) /\ o.scr = Puts(l.scr, text)
              /\ o.line = l.line /\ o.ready = l.ready /\ o.base = l.base /\ o.mixed = l.mixed
<1> DEFINE a == Puts(l.scr, text)
           b == TypeAll(l.paper, text)
<1>1. Shown(a, b) /\ a \in Screen /\ b \in Paper
  BY ZenonT(30), PutsShows DEF Shown
<1>2. Out(l, text) = [l EXCEPT !.scr = a, !.paper = b]
  BY DEF Out
<1> HIDE DEF a, b
<1> QED BY Zenon, <1>1, <1>2 DEF Polls, a

LEMMA NonEmpty ==
    ASSUME NEW T, NEW q \in Seq(T), q # <<>>
    PROVE  Len(q) \in Nat \ {0}
OBVIOUS

\* SubSeq, by elements.
LEMMA SubSeqFacts ==
    ASSUME NEW T, NEW q \in Seq(T), NEW a \in 1 .. Len(q) + 1, NEW b \in a - 1 .. Len(q)
    PROVE  /\ SubSeq(q, a, b) \in Seq(T) /\ Len(SubSeq(q, a, b)) = b + 1 - a
           /\ \A k \in 1 .. b + 1 - a : SubSeq(q, a, b)[k] = q[a + k - 1]
<1>1. SubSeq(q, a, b) \in Seq(T)
  OBVIOUS
<1>2. Len(SubSeq(q, a, b)) = b + 1 - a
  OBVIOUS
<1>3. \A k \in 1 .. b + 1 - a : SubSeq(q, a, b)[k] = q[a + k - 1]
  OBVIOUS
<1> QED BY ZenonT(30), <1>1, <1>2, <1>3

LEMMA FrontFacts ==
    ASSUME NEW T, NEW q \in Seq(T), q # <<>>
    PROVE  LET f == SubSeq(q, 1, Len(q) - 1)
           IN f \in Seq(T) /\ Len(f) = Len(q) - 1 /\ \A k \in 1 .. Len(q) - 1 : f[k] = q[k]
<1> DEFINE n == Len(q)
           f == SubSeq(q, 1, n - 1)
<1>1. n \in Nat \ {0} /\ 1 \in 1 .. n + 1 /\ n - 1 \in 1 - 1 .. n
  BY NonEmpty
<1>2. /\ f \in Seq(T) /\ Len(f) = n - 1 + 1 - 1
      /\ \A k \in 1 .. n - 1 + 1 - 1 : f[k] = q[1 + k - 1]
  BY ZenonT(30), <1>1, SubSeqFacts
<1> HIDE DEF n
<1>3. n - 1 + 1 - 1 = n - 1 /\ \A k \in 1 .. n - 1 : 1 + k - 1 = k
  BY <1>1
<1> HIDE DEF f
<1>4. f \in Seq(T) /\ Len(f) = n - 1 /\ \A k \in 1 .. n - 1 : f[k] = q[k]
  BY <1>2, <1>3
<1> QED BY ZenonT(30), <1>4 DEF f, n

\* A letter echoed before the last column comes after the line on its row.
LEMMA EchoShown ==
    ASSUME NEW s \in Screen, NEW ln \in Seq(Char), NEW b \in Col, NEW c \in Letter,
           Echoed(ln, s, b), s.x # COLS - 1
    PROVE  Echoed(Append(ln, c), Putc(s, c), b)
<1> DEFINE q == Append(ln, c)
           n == Len(ln)
           d == [s.cell EXCEPT ![s.y][s.x] = DrawnAs(c)]
           t == Putc(s, c)
<1>0. s.y \in Row /\ s.x \in Col /\ s.cell \in [Row -> [Col -> Cell]] /\ n \in Nat
  BY DEF Screen, Grid
<1>1. /\ COLS \in Nat \ {0} /\ s.x \in 0 .. COLS - 1 /\ s.x + 1 < COLS /\ b \in Nat
      /\ s.y \in Row /\ s.x \in Col /\ s.cell \in [Row -> [Col -> Cell]] /\ n \in Nat
  BY <1>0, ConsoleAssumption DEF Col
<1>2. c \notin {"nl", "cr", "bs"}
  BY ZenonT(30), TtyAssumption
<1>3. t = [cell |-> d, x |-> s.x + 1, y |-> s.y]
  BY Zenon, <1>1, <1>2, PutcCases
<1>4. d[s.y][s.x] = DrawnAs(c) /\ \A x \in Col \ {s.x} : d[s.y][x] = s.cell[s.y][x]
  BY ZenonT(30), <1>1
<1>5. q \in Seq(Char) /\ Len(q) = n + 1 /\ q[n + 1] = c /\ \A k \in 1 .. n : q[k] = ln[k]
  BY DEF Char
<1> HIDE DEF d, t, q
<1>6. s.x = b + n /\ \A k \in 1 .. n : s.cell[s.y][b + k - 1] = DrawnAs(ln[k])
  BY ZenonT(30) DEF Echoed
<1> HIDE DEF n
<1>7. t.x = b + (n + 1)
  BY SMTT(30), <1>1, <1>3, <1>6
<1>8. ASSUME NEW k \in 1 .. n + 1 PROVE t.cell[t.y][b + k - 1] = DrawnAs(q[k])
  <2>1. CASE k = n + 1
    <3>1. b + k - 1 = s.x
      BY SMTT(30), <1>1, <1>6, <2>1
    <3> QED BY ZenonT(30), <1>3, <1>4, <1>5, <2>1, <3>1
  <2>2. CASE k # n + 1
    <3>1. k \in 1 .. n /\ b + k - 1 \in Col \ {s.x}
      BY SMTT(30), <1>1, <1>6, <2>2 DEF Col
    <3> QED BY ZenonT(30), <1>3, <1>4, <1>5, <1>6, <3>1
  <2> QED BY ZenonT(30), <2>1, <2>2
<1> QED BY <1>5, <1>7, <1>8 DEF Echoed, t, q

\* Backspace, blank, backspace: the last character of the line leaves the row.
LEMMA EraseShown ==
    ASSUME NEW s, NEW p, Shown(s, p), NEW ln \in Seq(Char), ln # <<>>, NEW b \in Col, Echoed(ln, s, b)
    PROVE  Echoed(SubSeq(ln, 1, Len(ln) - 1), Putc(Putc(Putc(s, "bs"), " "), "bs"), b)
<1> DEFINE q == SubSeq(ln, 1, Len(ln) - 1)
           n == Len(ln)
           t == Putc(s, "bs")
           u == Putc(t, " ")
           v == Putc(u, "bs")
           d == [s.cell EXCEPT ![s.y][s.x - 1] = DrawnAs(" ")]
<1>0. s \in Screen /\ t \in Screen /\ u \in Screen
  <2>1. Shown(t, Type(p, "bs"))
    BY ZenonT(30), PutcShows
  <2> HIDE DEF t
  <2>2. Shown(u, Type(Type(p, "bs"), " "))
    BY Zenon, <2>1, PutcShows
  <2> HIDE DEF u
  <2> QED BY Zenon, <2>1, <2>2 DEF Shown
<1>1. /\ COLS \in Nat \ {0} /\ s.x \in 0 .. COLS - 1 /\ b \in Nat /\ s.y \in Row
      /\ s.cell \in [Row -> [Col -> Cell]] /\ n \in Nat \ {0}
  <2>1. s.y \in Row /\ s.x \in Col /\ s.cell \in [Row -> [Col -> Cell]]
    BY Zenon, <1>0 DEF Screen, Grid
  <2>2. n \in Nat \ {0}
    BY ZenonT(30), NonEmpty
  <2> QED BY <2>1, <2>2, ConsoleAssumption DEF Col
<1>2. s.x = b + n /\ \A k \in 1 .. n : s.cell[s.y][b + k - 1] = DrawnAs(ln[k])
  BY DEF Echoed
<1>3. q \in Seq(Char) /\ Len(q) = n - 1 /\ \A k \in 1 .. n - 1 : q[k] = ln[k]
  BY ZenonT(30), FrontFacts
<1> HIDE DEF n, q
<1>4. s.x > 0 /\ s.x - 1 \in Col /\ s.x - 1 \in Nat
  BY <1>1, <1>2 DEF Col
<1>5. t = [cell |-> s.cell, x |-> s.x - 1, y |-> s.y]
  BY Zenon, <1>0, <1>4, PutcCases
<1> HIDE DEF t
<1>6. u = [cell |-> d, x |-> s.x, y |-> s.y]
  <2>1. t.cell = s.cell /\ t.x = s.x - 1 /\ t.y = s.y
    BY ZenonT(30), <1>5
  <2>2. t.x + 1 < COLS /\ t.x + 1 = s.x
    BY <1>1, <1>4, <2>1
  <2>3. u = [cell |-> [t.cell EXCEPT ![t.y][t.x] = DrawnAs(" ")], x |-> t.x + 1, y |-> t.y]
    BY Zenon, <1>0, <2>2, PutcCases
  <2> QED BY Zenon, <2>1, <2>2, <2>3
<1> HIDE DEF d, u
<1>7. v = [cell |-> d, x |-> s.x - 1, y |-> s.y]
  <2>1. u.cell = d /\ u.x = s.x /\ u.y = s.y
    BY ZenonT(30), <1>6
  <2>2. v = [cell |-> u.cell, x |-> IF u.x > 0 THEN u.x - 1 ELSE 0, y |-> u.y]
    BY Zenon, <1>0, PutcCases
  <2> QED BY ZenonT(30), <1>4, <2>1, <2>2
<1> HIDE DEF v
<1>8. v.x = b + (n - 1)
  BY SMTT(30), <1>1, <1>2, <1>7
<1>9. ASSUME NEW k \in 1 .. n - 1 PROVE v.cell[v.y][b + k - 1] = DrawnAs(q[k])
  <2>1. k \in 1 .. n /\ b + k - 1 \in Col /\ b + k - 1 # s.x - 1
    BY SMTT(30), <1>1, <1>2 DEF Col
  <2>2. d[s.y][b + k - 1] = s.cell[s.y][b + k - 1]
    BY ZenonT(30), <1>1, <1>4, <2>1 DEF d
  <2> QED BY ZenonT(30), <1>2, <1>3, <1>7, <2>1, <2>2
<1> QED BY Zenon, <1>3, <1>8, <1>9 DEF Echoed, t, u, v, q

LEMMA EraseKeepsInv ==
    ASSUME NEW l, PollInv(l), l.line # <<>>
    PROVE  PollInv(Erase(l))
<1> DEFINE q == SubSeq(l.line, 1, Len(l.line) - 1)
           m == [l EXCEPT !.line = q]
           text == <<"bs", " ", "bs">>
           T == {"bs", " "}
           o == Out(m, text)
<1>1. /\ l \in Polls /\ Len(l.line) <= LINE_MAX - 1 /\ Shown(l.scr, l.paper)
      /\ l.line \in Seq(Char) /\ l.scr \in Screen /\ l.base \in Col
      /\ ~l.ready /\ ~l.mixed => Echoed(l.line, l.scr, l.base)
  BY DEF PollInv, Polls
<1>2. q \in Seq(Char) /\ Len(q) = Len(l.line) - 1
  BY ZenonT(30), <1>1, FrontFacts
<1>3. Len(q) <= LINE_MAX - 1
  BY <1>1, <1>2, TtyAssumption
<1>4. /\ m \in Polls /\ m.line = q /\ m.scr = l.scr /\ m.paper = l.paper
      /\ m.ready = l.ready /\ m.base = l.base /\ m.mixed = l.mixed
  <2> HIDE DEF q
  <2> QED BY ZenonT(30), <1>1, <1>2 DEF Polls
<1>5. text \in Seq(T)
  OBVIOUS
<1>6. Erase(l) = o
  BY ZenonT(30) DEF Erase
<1>7. Puts(l.scr, text) = Putc(Putc(Putc(l.scr, "bs"), " "), "bs")
  BY Zenon, <1>1, PutsThree
<1>8. ~l.ready /\ ~l.mixed => Echoed(q, Puts(l.scr, text), l.base)
  BY ZenonT(30), <1>1, <1>7, EraseShown
<1> HIDE DEF q, m, text, T
<1>9. /\ o \in Polls /\ Shown(o.scr, o.paper) /\ o.scr = Puts(m.scr, text)
      /\ o.line = m.line /\ o.ready = m.ready /\ o.base = m.base /\ o.mixed = m.mixed
  <2>1. Shown(m.scr, m.paper)
    BY ZenonT(30), <1>1, <1>4
  <2> QED BY ZenonT(30), <1>4, <1>5, <2>1, OutFacts
<1> HIDE DEF o
<1> QED BY ZenonT(30), <1>3, <1>4, <1>6, <1>8, <1>9 DEF PollInv

LEMMA EchoKeepsInv ==
    ASSUME NEW l, PollInv(l), NEW c \in Letter, Fits(l.line)
    PROVE  PollInv(Echo(l, c))
<1> DEFINE q == Append(l.line, c)
           w == l.mixed \/ l.scr.x = COLS - 1
           m == [l EXCEPT !.line = q, !.mixed = w]
           text == <<c>>
           T == {c}
           o == Out(m, text)
<1>1. /\ l \in Polls /\ Len(l.line) <= LINE_MAX - 1 /\ Shown(l.scr, l.paper)
      /\ l.line \in Seq(Char) /\ l.scr \in Screen /\ l.base \in Col /\ l.mixed \in BOOLEAN
      /\ ~l.ready /\ ~l.mixed => Echoed(l.line, l.scr, l.base)
  BY ZenonT(30) DEF PollInv, Polls
<1>2. q \in Seq(Char) /\ Len(q) = Len(l.line) + 1
  BY <1>1 DEF Char
<1>3. Len(q) <= LINE_MAX - 1
  <2>1. Len(l.line) < LINE_MAX - 1 /\ Len(l.line) \in Nat
    BY <1>1 DEF Fits
  <2> QED BY <1>2, <2>1, TtyAssumption
<1>4. /\ m \in Polls /\ m.line = q /\ m.scr = l.scr /\ m.paper = l.paper
      /\ m.ready = l.ready /\ m.base = l.base /\ m.mixed = w
  <2>1. w \in BOOLEAN
    BY ZenonT(30), <1>1
  <2> HIDE DEF q, w
  <2> QED BY ZenonT(30), <1>1, <1>2, <2>1 DEF Polls
<1>5. text \in Seq(T)
  OBVIOUS
<1>6. Echo(l, c) = o
  BY DEF Echo
<1>7. Puts(l.scr, text) = Putc(l.scr, c)
  BY ZenonT(30), <1>1, PutsOne
<1>8. ~l.ready /\ ~w => Echoed(q, Puts(l.scr, text), l.base)
  BY ZenonT(30), <1>1, <1>7, EchoShown
<1> HIDE DEF q, w, m, text, T
<1>9. /\ o \in Polls /\ Shown(o.scr, o.paper) /\ o.scr = Puts(m.scr, text)
      /\ o.line = m.line /\ o.ready = m.ready /\ o.base = m.base /\ o.mixed = m.mixed
  <2>1. Shown(m.scr, m.paper)
    BY ZenonT(30), <1>1, <1>4
  <2> QED BY Zenon, <1>4, <1>5, <2>1, OutFacts
<1> HIDE DEF o
<1> QED BY ZenonT(30), <1>3, <1>4, <1>6, <1>8, <1>9 DEF PollInv

LEMMA EndLineKeepsInv ==
    ASSUME NEW l, PollInv(l)
    PROVE  PollInv(EndLine(l))
<1> DEFINE q == IF Fits(l.line) THEN Append(l.line, "nl") ELSE l.line
           m == [l EXCEPT !.line = q, !.ready = TRUE]
           text == <<"nl">>
           T == {"nl"}
           o == Out(m, text)
<1>1. /\ l \in Polls /\ Len(l.line) <= LINE_MAX - 1 /\ Shown(l.scr, l.paper) /\ l.line \in Seq(Char)
  BY ZenonT(30) DEF PollInv, Polls
<1>2. q \in Seq(Char) /\ Len(q) <= LINE_MAX - 1
  <2>1. CASE Fits(l.line)
    <3>1. Append(l.line, "nl") \in Seq(Char) /\ Len(Append(l.line, "nl")) = Len(l.line) + 1
      BY <1>1 DEF Char
    <3>2. Len(l.line) < LINE_MAX - 1 /\ Len(l.line) \in Nat
      BY <1>1, <2>1 DEF Fits
    <3> QED BY <2>1, <3>1, <3>2, TtyAssumption
  <2>2. CASE ~Fits(l.line)
    BY ZenonT(30), <1>1, <2>2
  <2> QED BY ZenonT(30), <2>1, <2>2
<1>3. m \in Polls /\ m.line = q /\ m.scr = l.scr /\ m.paper = l.paper /\ m.ready = TRUE
  <2> HIDE DEF q
  <2> QED BY Zenon, <1>1, <1>2 DEF Polls
<1>4. text \in Seq(T)
  OBVIOUS
<1>5. EndLine(l) = o
  BY ZenonT(30) DEF EndLine
<1> HIDE DEF q, m, text, T
<1>6. o \in Polls /\ Shown(o.scr, o.paper) /\ o.line = m.line /\ o.ready = m.ready
  <2>1. Shown(m.scr, m.paper)
    BY ZenonT(30), <1>1, <1>3
  <2> QED BY ZenonT(30), <1>3, <1>4, <2>1, OutFacts
<1> HIDE DEF o
<1> QED BY ZenonT(30), <1>2, <1>3, <1>5, <1>6 DEF PollInv

\* One turn of the loop of tty_poll.
LEMMA TakeKeepsInv ==
    ASSUME NEW l, PollInv(l), NEW c \in Char
    PROVE  PollInv(Take(l, c))
<1> DEFINE next == CASE c = "bs" -> Erase(l)
                     [] c # "bs" /\ l.ready -> l
                     [] c = "nl" /\ ~l.ready -> EndLine(l)
                     [] c \in Letter /\ ~l.ready -> IF Fits(l.line) THEN Echo(l, c) ELSE l
<1>1. PollInv(next)
  <2>0. "bs" \notin Letter /\ "nl" \notin Letter
    BY ZenonT(30), TtyAssumption
  <2>1. CASE c = "bs"
    <3>1. next = Erase(l)
      BY ZenonT(30), <2>0, <2>1
    <3>2. l.line = <<>> => Erase(l) = l
      BY ZenonT(30) DEF Erase
    <3> QED BY Zenon, <3>1, <3>2, EraseKeepsInv
  <2>2. CASE c # "bs" /\ l.ready
    <3>1. next = l
      BY ZenonT(30), <2>2
    <3> QED BY Zenon, <3>1
  <2>3. CASE c = "nl" /\ ~l.ready
    <3>1. next = EndLine(l)
      BY ZenonT(30), <2>0, <2>3
    <3> QED BY ZenonT(30), <3>1, EndLineKeepsInv
  <2>4. CASE c \in Letter /\ ~l.ready
    <3>1. next = IF Fits(l.line) THEN Echo(l, c) ELSE l
      BY ZenonT(30), <2>0, <2>4
    <3> QED BY ZenonT(30), <2>4, <3>1, EchoKeepsInv
  <2> QED BY ZenonT(30), <2>1, <2>2, <2>3, <2>4 DEF Char
<1>2. Take(l, c) = IF next.line = <<>> THEN [next EXCEPT !.base = next.scr.x, !.mixed = FALSE] ELSE next
  BY DEF Take
<1> HIDE DEF next
<1>3. CASE next.line = <<>>
  <2> DEFINE t == [next EXCEPT !.base = next.scr.x, !.mixed = FALSE]
  <2>1. next \in Polls /\ next.scr.x \in Col /\ Len(next.line) <= LINE_MAX - 1 /\ Shown(next.scr, next.paper)
    BY ZenonT(30), <1>1 DEF PollInv, Polls, Screen
  <2>2. /\ t \in Polls /\ t.line = <<>> /\ t.scr = next.scr /\ t.paper = next.paper
        /\ t.base = next.scr.x
    BY Zenon, <1>3, <2>1 DEF Polls
  <2> HIDE DEF t
  <2>3. Echoed(<<>>, next.scr, next.scr.x)
    BY <2>1, ConsoleAssumption DEF Echoed, Col
  <2>4. Len(t.line) <= LINE_MAX - 1
    BY ZenonT(30), <1>3, <2>1, <2>2
  <2>5. PollInv(t)
    BY ZenonT(30), <2>1, <2>2, <2>3, <2>4 DEF PollInv
  <2> QED BY ZenonT(30), <1>2, <1>3, <2>5 DEF t
<1>4. CASE next.line # <<>>
  BY ZenonT(30), <1>1, <1>2, <1>4
<1> QED BY ZenonT(30), <1>3, <1>4

-----------------------------------------------------------------------------
(* The text of a pid in the message of fork (kprintf, uix_utoa).            *)

\* The digits of the numbers up to N exist as a table.
LEMMA DigitTable ==
    ASSUME NEW N \in Nat
    PROVE  \E f \in [0 .. N -> Seq(0 .. 9)] :
              \A n \in 0 .. N : f[n] = IF n = 0 THEN <<>> ELSE Append(f[n \div 10], n % 10)
<1> DEFINE Good(m, f) == \A n \in 0 .. m : f[n] = IF n = 0 THEN <<>> ELSE Append(f[n \div 10], n % 10)
           G == {m \in 0 .. N : \E f \in [0 .. m -> Seq(0 .. 9)] : Good(m, f)}
<1>0. \A n \in Nat \ {0} : n \div 10 \in 0 .. n - 1 /\ n % 10 \in 0 .. 9
  OBVIOUS
<1>1. 0 \in G
  <2> DEFINE f == [n \in 0 .. 0 |-> <<>>]
  <2>1. f \in [0 .. 0 -> Seq(0 .. 9)] /\ Good(0, f)
    OBVIOUS
  <2> HIDE DEF f
  <2> QED BY <2>1
<1>2. ASSUME NEW m \in 1 .. N, m - 1 \in G PROVE m \in G
  <2>1. PICK f \in [0 .. m - 1 -> Seq(0 .. 9)] : Good(m - 1, f)
    BY Zenon, <1>2
  <2> DEFINE w == Append(f[m \div 10], m % 10)
             h == [n \in 0 .. m |-> IF n = m THEN w ELSE f[n]]
  <2>2. m \div 10 \in 0 .. m - 1 /\ m % 10 \in 0 .. 9
    BY <1>0
  <2>3. w \in Seq(0 .. 9)
    BY <2>2
  <2>4. h \in [0 .. m -> Seq(0 .. 9)]
    <3> HIDE DEF w
    <3> QED BY SMTT(30), <2>3
  <2>5. ASSUME NEW n \in 0 .. m PROVE h[n] = IF n = 0 THEN <<>> ELSE Append(h[n \div 10], n % 10)
    <3>1. CASE n = m
      <4>1. h[m] = w /\ m # 0
        OBVIOUS
      <4>2. h[m \div 10] = f[m \div 10]
        BY <2>2
      <4> QED BY <3>1, <4>1, <4>2, Zenon
    <3>2. CASE n = 0
      <4>1. h[0] = f[0] /\ f[0] = <<>>
        BY <2>1
      <4> QED BY ZenonT(30), <3>2, <4>1
    <3>3. CASE n \in 1 .. m - 1
      <4>1. h[n] = f[n] /\ n # 0
        BY <3>3
      <4>2. n \div 10 \in 0 .. n - 1
        BY <1>0, <3>3
      <4>3. h[n \div 10] = f[n \div 10]
        BY <3>3, <4>2
      <4>4. f[n] = Append(f[n \div 10], n % 10)
        <5>1. n \in 0 .. m - 1 /\ n # 0
          BY <3>3
        <5> QED BY <2>1, <5>1, Zenon
      <4> QED BY <4>1, <4>3, <4>4, Zenon
    <3> QED BY <3>1, <3>2, <3>3
  <2>6. m \in 0 .. N
    OBVIOUS
  <2> HIDE DEF h
  <2> QED BY <2>4, <2>5, <2>6, Zenon
<1> HIDE DEF G
<1>3. \A m \in 0 .. N : m \in G
  BY ZenonT(30), <1>1, <1>2, UpTo
<1>4. N \in G
  BY <1>3
<1> QED BY Zenon, <1>4 DEF G

LEMMA DigitsAreDigits ==
    ASSUME NEW v \in U64
    PROVE  Digits(v, 10) \in Seq(0 .. 9)
<1> DEFINE N == 2^BITS - 1
           tmp == CHOOSE f : f = [n \in U64 |-> IF n = 0 THEN <<>> ELSE Append(f[n \div 10], n % 10)]
<1>1. U64 = 0 .. N
  BY ZenonT(30) DEF U64
<1>2. N \in Nat
  <2>1. 2^BITS \in Int
    BY LibAssumption
  <2> QED BY <2>1 DEF U64
<1>3. Digits(v, 10) = IF v = 0 THEN <<0>> ELSE tmp[v]
  BY DEF Digits
<1> HIDE DEF N
<1>4. tmp = [n \in U64 |-> IF n = 0 THEN <<>> ELSE Append(tmp[n \div 10], n % 10)]
  <2>1. PICK f \in [0 .. N -> Seq(0 .. 9)] :
            \A n \in 0 .. N : f[n] = IF n = 0 THEN <<>> ELSE Append(f[n \div 10], n % 10)
    BY Zenon, <1>2, DigitTable
  <2>2. f = [n \in U64 |-> IF n = 0 THEN <<>> ELSE Append(f[n \div 10], n % 10)]
    BY <1>1, <2>1, Zenon
  <2> QED BY <2>2, Zenon
<1> HIDE DEF tmp
<1> DEFINE G == {m \in 0 .. N : \A k \in 0 .. m : tmp[k] \in Seq(0 .. 9)}
<1>5. 0 \in G
  <2>1. 0 \in U64 /\ 0 \in 0 .. N /\ (\A k \in 0 .. 0 : k = 0) /\ <<>> \in Seq(0 .. 9)
    BY <1>1, <1>2
  <2>2. tmp[0] = <<>>
    BY <1>4, <2>1, Zenon
  <2> QED BY <2>1, <2>2, Zenon
<1>6. ASSUME NEW m \in 1 .. N, m - 1 \in G PROVE m \in G
  <2>1. m \div 10 \in 0 .. m - 1 /\ m % 10 \in 0 .. 9
    OBVIOUS
  <2>2. tmp[m \div 10] \in Seq(0 .. 9)
    BY ZenonT(30), <1>6, <2>1
  <2>3. tmp[m] = Append(tmp[m \div 10], m % 10)
    <3>1. m \in U64 /\ m # 0
      BY <1>1, <1>2
    <3> QED BY <1>4, <3>1, Zenon
  <2>4. tmp[m] \in Seq(0 .. 9)
    BY <2>1, <2>2, <2>3
  <2>5. \A k \in 0 .. m : k = m \/ k \in 0 .. m - 1
    OBVIOUS
  <2> QED BY <1>2, <1>6, <2>4, <2>5
<1> HIDE DEF G
<1>7. \A m \in 0 .. N : m \in G
  BY ZenonT(30), <1>2, <1>5, <1>6, UpTo
<1>8. v \in G
  BY ZenonT(30), <1>1, <1>7
<1>9. v \in 0 .. N /\ tmp[v] \in Seq(0 .. 9)
  BY <1>1, <1>2, <1>8 DEF G
<1>10. <<0>> \in Seq(0 .. 9)
  OBVIOUS
<1> QED BY Zenon, <1>3, <1>9, <1>10

LEMMA DecimalIsText ==
    \E T : \A p \in Proc : Decimal[p] \in Seq(T)
<1> DEFINE lut == <<"0", "1", "2", "3", "4", "5", "6", "7",
                    "8", "9", "a", "b", "c", "d", "e", "f">>
           T == {" "} \cup {lut[n + 1] : n \in 0 .. 9}
<1>1. ASSUME NEW p \in Proc PROVE Decimal[p] \in Seq(T)
  <2> DEFINE d == Digits(p, 10)
             u == [k \in DOMAIN d |-> lut[d[k] + 1]]
             t == IF Len(d) > TMP THEN <<>> ELSE u
             pad == Pad(" ", 0 - Len(t))
  <2>1. d \in Seq(0 .. 9)
    BY ZenonT(30), DigitsAreDigits, TerminalAssumption
  <2>2. Utoa(p, 10) = t
    <3>1. 10 \in 2 .. 16
      OBVIOUS
    <3> QED BY ZenonT(30), <3>1 DEF Utoa
  <2>3. Format("u", 0, p) = pad \o t
    BY Zenon, <2>2 DEF Format
  <2> HIDE DEF d, lut
  <2>4. u \in Seq(T)
    <3>1. DOMAIN d = 1 .. Len(d) /\ Len(d) \in Nat /\ \A k \in DOMAIN d : d[k] \in 0 .. 9
      BY <2>1
    <3>2. u \in [1 .. Len(d) -> T]
      BY Zenon, <3>1
    <3> HIDE DEF u, T
    <3> QED BY <3>1, <3>2
  <2>5. " " \in T
    OBVIOUS
  <2> HIDE DEF u, T
  <2>6. t \in Seq(T)
    <3>1. <<>> \in Seq(T)
      OBVIOUS
    <3> QED BY <2>4, <3>1, Zenon
  <2> HIDE DEF t
  <2>7. pad \in Seq(T)
    <3> DEFINE n == 0 - Len(t)
               m == IF n > 0 THEN n ELSE 0
    <3>1. m \in Nat
      BY <2>6
    <3>2. pad = [k \in 1 .. m |-> " "]
      BY DEF Pad
    <3> HIDE DEF m, pad
    <3>3. pad \in [1 .. m -> T]
      BY Zenon, <2>5, <3>2
    <3> QED BY <3>1, <3>3
  <2>8. Decimal[p] = Format("u", 0, p)
    BY DEF Decimal
  <2> HIDE DEF pad
  <2>9. pad \o t \in Seq(T)
    BY <2>6, <2>7
  <2> QED BY <2>3, <2>8, <2>9, Zenon
<1> HIDE DEF T
<1> QED BY ZenonT(30), <1>1

-----------------------------------------------------------------------------
(* The ring of the keyboard.                                                *)

\* Indices go round once at most.
LEMMA RingMod ==
    ASSUME NEW a \in Nat, a < 2 * KBUF_SIZE
    PROVE  /\ a % KBUF_SIZE \in Slot
           /\ a % KBUF_SIZE = IF a < KBUF_SIZE THEN a ELSE a - KBUF_SIZE
<1> DEFINE K == KBUF_SIZE
<1>1. K \in Nat \ {0} /\ Slot = 0 .. K - 1 /\ a < 2 * K
  BY ZenonT(30), TtyAssumption DEF Slot
<1> HIDE DEF K
<1>2. a % K \in 0 .. K - 1
  BY <1>1
<1>3. a < K => a % K = a
  BY <1>1
<1>4. a >= K => a % K = a - K
  <2>1. a % K = a - K * (a \div K) /\ a \div K \in Nat
    BY <1>1
  <2>2. ASSUME a >= K PROVE a \div K = 1
    BY <1>1, <1>2, <2>1, <2>2
  <2> QED BY <1>1, <2>1, <2>2
<1>5. a % K = IF a < K THEN a ELSE a - K
  BY SMTT(30), <1>1, <1>3, <1>4
<1> QED BY ZenonT(30), <1>1, <1>2, <1>5 DEF K

\* The characters in a ring b with head h and tail t.
RingLen(h, t) == IF h >= t THEN h - t ELSE h + KBUF_SIZE - t
Ring(b, h, t) == [i \in 1 .. (h + KBUF_SIZE - t) % KBUF_SIZE |-> b[(t + i - 1) % KBUF_SIZE]]

LEMMA RingFacts ==
    ASSUME NEW b \in [Slot -> Char], NEW h \in Slot, NEW t \in Slot
    PROVE  /\ RingLen(h, t) \in Slot /\ Ring(b, h, t) \in Seq(Char) /\ Len(Ring(b, h, t)) = RingLen(h, t)
           /\ Ring(b, h, t) = [i \in 1 .. RingLen(h, t) |-> b[(t + i - 1) % KBUF_SIZE]]
           /\ \A i \in 1 .. RingLen(h, t) : (t + i - 1) % KBUF_SIZE \in Slot
<1> DEFINE n == RingLen(h, t)
<1>1. KBUF_SIZE \in Nat \ {0, 1} /\ Slot = 0 .. KBUF_SIZE - 1 /\ h \in Nat /\ t \in Nat
  BY TtyAssumption DEF Slot
<1>2. n \in Slot /\ n \in Nat
  BY <1>1 DEF RingLen
<1>3. (h + KBUF_SIZE - t) % KBUF_SIZE = n
  <2>1. h + KBUF_SIZE - t \in Nat /\ h + KBUF_SIZE - t < 2 * KBUF_SIZE
    BY <1>1
  <2>2. (h + KBUF_SIZE - t) % KBUF_SIZE = IF h + KBUF_SIZE - t < KBUF_SIZE THEN h + KBUF_SIZE - t
                                          ELSE (h + KBUF_SIZE - t) - KBUF_SIZE
    BY ZenonT(30), <2>1, RingMod
  <2> QED BY <1>1, <2>2 DEF RingLen
<1> HIDE DEF n
<1>4. ASSUME NEW i \in 1 .. n PROVE (t + i - 1) % KBUF_SIZE \in Slot
  <2>1. t + i - 1 \in Nat /\ t + i - 1 < 2 * KBUF_SIZE
    BY <1>1, <1>2
  <2> QED BY ZenonT(30), <2>1, RingMod
<1> DEFINE r == Ring(b, h, t)
<1>5. r = [i \in 1 .. n |-> b[(t + i - 1) % KBUF_SIZE]]
  BY ZenonT(30), <1>3 DEF Ring
<1>6. r \in [1 .. n -> Char]
  BY ZenonT(30), <1>4, <1>5
<1> HIDE DEF r
<1>7. r \in Seq(Char) /\ Len(r) = n
  BY SMTT(30), <1>2, <1>5, <1>6
<1> QED BY ZenonT(30), <1>2, <1>4, <1>5, <1>7 DEF r, n

\* keyboard_irq is a put.
LEMMA RingPut ==
    ASSUME NEW b \in [Slot -> Char], NEW h \in Slot, NEW t \in Slot, NEW c \in Char
    PROVE  LET next == (h + 1) % KBUF_SIZE
           IN /\ next \in Slot
              /\ next = t => ~(Len(Ring(b, h, t)) < KBUF_SIZE - 1)
              /\ next # t => /\ Len(Ring(b, h, t)) < KBUF_SIZE - 1
                             /\ Ring([b EXCEPT ![h] = c], next, t) = Append(Ring(b, h, t), c)
<1> DEFINE next == (h + 1) % KBUF_SIZE
           K == KBUF_SIZE
           b2 == [b EXCEPT ![h] = c]
           n == RingLen(h, t)
           n2 == RingLen(next, t)
           r == Ring(b, h, t)
           r2 == Ring(b2, next, t)
<1>1. K \in Nat \ {0, 1} /\ Slot = 0 .. K - 1 /\ h \in Nat /\ t \in Nat /\ h < K /\ t < K
  BY TtyAssumption DEF Slot
<1>2. next \in Slot /\ next = IF h + 1 < K THEN h + 1 ELSE h + 1 - K
  <2>1. h + 1 \in Nat /\ h + 1 < 2 * KBUF_SIZE
    BY <1>1
  <2>2. next = IF h + 1 < KBUF_SIZE THEN h + 1 ELSE (h + 1) - KBUF_SIZE
    BY ZenonT(30), <2>1, RingMod
  <2> QED BY <1>1, <2>1, <2>2, RingMod
<1>3. /\ n \in Slot /\ r \in Seq(Char) /\ Len(r) = n
      /\ r = [i \in 1 .. n |-> b[(t + i - 1) % K]] /\ \A i \in 1 .. n : (t + i - 1) % K \in Slot
  BY ZenonT(30), RingFacts
<1>4. b2 \in [Slot -> Char]
  BY Zenon
<1>5. /\ n2 \in Slot /\ r2 \in Seq(Char) /\ Len(r2) = n2
      /\ r2 = [i \in 1 .. n2 |-> b2[(t + i - 1) % K]] /\ \A i \in 1 .. n2 : (t + i - 1) % K \in Slot
  <2>1. next \in Slot
    BY ZenonT(30), <1>2
  <2> HIDE DEF b2, next
  <2> QED BY ZenonT(30), <1>4, <2>1, RingFacts
<1> HIDE DEF r, r2, b2, next
<1>6. ASSUME next = t PROVE ~(n < K - 1)
  BY <1>1, <1>2, <1>6 DEF RingLen
<1>7. ASSUME next # t PROVE n < K - 1 /\ r2 = Append(r, c)
  <2>1. n2 = n + 1 /\ n < K - 1 /\ n \in Nat
    BY SMTT(30), <1>1, <1>2, <1>7 DEF RingLen
  <2>2. (t + (n + 1) - 1) % K = h
    <3>1. t + (n + 1) - 1 \in Nat /\ t + (n + 1) - 1 < 2 * KBUF_SIZE
      BY SMTT(30), <1>1, <2>1
    <3>2. (t + (n + 1) - 1) % K = IF t + (n + 1) - 1 < K THEN t + (n + 1) - 1 ELSE (t + (n + 1) - 1) - K
      BY ZenonT(30), <3>1, RingMod
    <3> QED BY SMTT(30), <1>1, <3>2 DEF RingLen
  <2>3. ASSUME NEW i \in 1 .. n PROVE (t + i - 1) % K # h /\ (t + i - 1) % K \in Slot
    <3>1. t + i - 1 \in Nat /\ t + i - 1 < 2 * KBUF_SIZE
      BY SMTT(30), <1>1, <2>1
    <3>2. (t + i - 1) % K = IF t + i - 1 < K THEN t + i - 1 ELSE (t + i - 1) - K
      BY ZenonT(30), <3>1, RingMod
    <3>3. (t + i - 1) % K # h
      BY SMTT(30), <1>1, <2>1, <3>2 DEF RingLen
    <3> QED BY ZenonT(30), <1>3, <3>3
  <2> DEFINE a == Append(r, c)
  <2>4. a \in Seq(Char) /\ Len(a) = n + 1 /\ a[n + 1] = c /\ \A i \in 1 .. n : a[i] = r[i]
    <3>1. r \in Seq(Char) /\ Len(r) = n
      BY ZenonT(30), <1>3
    <3> HIDE DEF n
    <3> QED BY <3>1
  <2> HIDE DEF a, n, n2
  <2>5. ASSUME NEW i \in 1 .. n + 1 PROVE a[i] = r2[i]
    <3>1. r2[i] = b2[(t + i - 1) % K]
      BY ZenonT(30), <1>5, <2>1
    <3>2. CASE i = n + 1
      <4>1. b2[h] = c
        BY ZenonT(30) DEF b2
      <4> QED BY ZenonT(30), <2>2, <2>4, <3>1, <3>2, <4>1
    <3>3. CASE i # n + 1
      <4>1. i \in 1 .. n
        BY SMTT(30), <2>1, <3>3
      <4>2. a[i] = b[(t + i - 1) % K]
        BY ZenonT(30), <1>3, <2>4, <4>1
      <4> QED BY ZenonT(30), <2>3, <3>1, <4>1, <4>2 DEF b2
    <3> QED BY ZenonT(30), <3>2, <3>3
  <2>6. a = r2
    <3>1. DOMAIN a = 1 .. n + 1 /\ DOMAIN r2 = 1 .. n + 1
      BY SMTT(30), <1>5, <2>1, <2>4
    <3>2. a = [i \in 1 .. n + 1 |-> a[i]] /\ r2 = [i \in 1 .. n + 1 |-> r2[i]]
      BY <1>5, <2>1, <2>4
    <3> QED BY <2>5, <3>2, Zenon
  <2> QED BY ZenonT(30), <2>1, <2>6 DEF a
<1> QED BY Zenon, <1>2, <1>3, <1>6, <1>7 DEF r, r2, b2, next

\* keyboard_read is a get.
LEMMA RingGet ==
    ASSUME NEW b \in [Slot -> Char], NEW h \in Slot, NEW t \in Slot, NEW m \in 0 .. Len(Ring(b, h, t))
    PROVE  /\ (t + m) % KBUF_SIZE \in Slot
           /\ Ring(b, h, (t + m) % KBUF_SIZE) = SubSeq(Ring(b, h, t), m + 1, Len(Ring(b, h, t)))
<1> DEFINE K == KBUF_SIZE
           u == (t + m) % KBUF_SIZE
           n == RingLen(h, t)
           n2 == RingLen(h, u)
           r == Ring(b, h, t)
           r2 == Ring(b, h, u)
           q == SubSeq(r, m + 1, n)
<1>1. K \in Nat \ {0, 1} /\ Slot = 0 .. K - 1 /\ h \in Nat /\ t \in Nat /\ h < K /\ t < K
  BY SMTT(30), TtyAssumption DEF Slot
<1>2. /\ n \in Slot /\ r \in Seq(Char) /\ Len(r) = n
      /\ r = [i \in 1 .. n |-> b[(t + i - 1) % K]] /\ \A i \in 1 .. n : (t + i - 1) % K \in Slot
  BY ZenonT(30), RingFacts
<1>3. m \in 0 .. n /\ n \in Nat /\ n < K /\ m \in Nat
  BY SMTT(30), <1>1, <1>2
<1>4. u \in Slot /\ u = IF t + m < K THEN t + m ELSE t + m - K
  <2>1. t + m \in Nat /\ t + m < 2 * KBUF_SIZE
    BY <1>1, <1>3
  <2>2. u = IF t + m < KBUF_SIZE THEN t + m ELSE (t + m) - KBUF_SIZE
    BY ZenonT(30), <2>1, RingMod
  <2> QED BY SMTT(30), <1>1, <1>3, <2>1, <2>2, RingMod
<1>5. /\ n2 \in Slot /\ r2 \in Seq(Char) /\ Len(r2) = n2
      /\ r2 = [i \in 1 .. n2 |-> b[(u + i - 1) % K]]
  <2>1. u \in Slot
    BY ZenonT(30), <1>4
  <2> HIDE DEF u
  <2> QED BY ZenonT(30), <2>1, RingFacts
<1> HIDE DEF r, r2, u
<1>6. n2 = n - m
  BY SMTT(30), <1>1, <1>3, <1>4 DEF RingLen
<1>7. /\ q \in Seq(Char) /\ Len(q) = n + 1 - (m + 1)
      /\ \A i \in 1 .. n + 1 - (m + 1) : q[i] = r[(m + 1) + i - 1]
  <2> DEFINE a == m + 1
  <2>1. r \in Seq(Char) /\ a \in 1 .. Len(r) + 1 /\ n \in a - 1 .. Len(r)
    BY <1>2, <1>3
  <2> HIDE DEF n, a
  <2>2. /\ SubSeq(r, a, n) \in Seq(Char) /\ Len(SubSeq(r, a, n)) = n + 1 - a
        /\ \A k \in 1 .. n + 1 - a : SubSeq(r, a, n)[k] = r[a + k - 1]
    BY ZenonT(30), <2>1, SubSeqFacts
  <2> QED BY ZenonT(30), <2>2 DEF a
<1> HIDE DEF q, n, n2
<1>8. n + 1 - (m + 1) = n - m
  BY <1>3
<1>9. ASSUME NEW i \in 1 .. n - m PROVE q[i] = r2[i]
  <2>1. (m + 1) + i - 1 \in 1 .. n /\ (m + 1) + i - 1 = m + i
    BY SMTT(30), <1>3
  <2>2. q[i] = b[(t + (m + i) - 1) % K]
    BY ZenonT(30), <1>2, <1>7, <1>8, <2>1
  <2>3. r2[i] = b[(u + i - 1) % K]
    BY ZenonT(30), <1>5, <1>6
  <2>4. /\ t + (m + i) - 1 \in Nat /\ t + (m + i) - 1 < 2 * KBUF_SIZE
        /\ u + i - 1 \in Nat /\ u + i - 1 < 2 * KBUF_SIZE
    BY SMTT(30), <1>1, <1>3, <1>4, <2>1
  <2>5. (t + (m + i) - 1) % K = IF t + (m + i) - 1 < K THEN t + (m + i) - 1 ELSE (t + (m + i) - 1) - K
    BY ZenonT(30), <2>4, RingMod
  <2>6. (u + i - 1) % K = IF u + i - 1 < K THEN u + i - 1 ELSE (u + i - 1) - K
    BY ZenonT(30), <2>4, RingMod
  <2>7. (t + (m + i) - 1) % K = (u + i - 1) % K
    BY SMTT(30), <1>1, <1>3, <1>4, <2>1, <2>5, <2>6
  <2> QED BY SMTT(30), <2>2, <2>3, <2>7
<1>10. q = r2
  <2>1. q = [i \in 1 .. n - m |-> q[i]] /\ r2 = [i \in 1 .. n - m |-> r2[i]]
    BY <1>5, <1>6, <1>7, <1>8
  <2> QED BY <1>9, <2>1, Zenon
<1> QED BY Zenon, <1>2, <1>4, <1>10 DEF q, r, r2, u

-----------------------------------------------------------------------------
(* The steps of the terminal.                                               *)

\* The inductive invariant: the types, with those of the screen and the paper,
\* and the two properties of the screen.
TerminalInv ==
    /\ TtyTypeOK /\ FdsTypeOK
    /\ Shown(scr, paper)
    /\ ~mixed => Echoed(line, scr, base)

\* The state l of SysRead: what tty_poll leaves.
PollStart == [line |-> line, ready |-> FALSE, scr |-> scr, paper |-> paper,
              base |-> base, mixed |-> mixed]

Polled ==
    LET raw == KeyboardRead(RAW_MAX)
        polled[n \in 0 .. Len(raw)] ==
          IF n = 0 THEN [line |-> line, ready |-> FALSE, scr |-> scr, paper |-> paper,
                         base |-> base, mixed |-> mixed]
          ELSE Take(polled[n - 1], raw[n])
    IN polled[Len(raw)]

LEMMA TerminalInitInv ==
    TerminalInit => TerminalInv
<1> SUFFICES ASSUME TerminalInit PROVE TerminalInv
  BY Zenon
<1> USE DEF TerminalInit
<1>1. /\ KBUF_SIZE \in Nat \ {0, 1} /\ LINE_MAX \in Nat \ {0, 1} /\ MaxKeys \in Nat
      /\ COLS \in Nat \ {0} /\ ROWS \in Nat \ {0} /\ PROC_MAX_FDS \in Nat \ {0, 1, 2} /\ FirstProc \in Proc
  BY ZenonT(30), TtyAssumption, ConsoleAssumption, FdsAssumption
<1>2. 0 \in Slot /\ 0 \in Col /\ 0 \in Row /\ 0 \in 0 .. MaxKeys /\ 0 <= LINE_MAX - 1
  BY <1>1 DEF Slot, Col, Row
<1>3. /\ kbuf = [i \in Slot |-> "nl"] /\ kbuf_head = 0 /\ kbuf_tail = 0 /\ line = <<>>
      /\ scr = NewScreen /\ paper = NewPaper /\ base = 0 /\ mixed = FALSE /\ got = <<>>
      /\ keys = 0 /\ taken = <<>> /\ from = 0 /\ done = 0
  BY ZenonT(30) DEF TtyInit
<1>4. scr.x = 0 /\ scr.y = 0 /\ <<>> \in Seq(Char) /\ Len(<<>>) = 0
  BY <1>3 DEF NewScreen
<1>5. TtyTypeOK
  BY SMTT(30), <1>2, <1>3, <1>4 DEF TtyTypeOK, Char
<1>6. FdsTypeOK
  <2>1. fds = [p \in Proc |-> [k \in FdSlot |-> IF p # FirstProc \/ k > 2 THEN Closed
                                ELSE InUse(IF k = 0 THEN "in" ELSE "out")]]
        /\ alive = {FirstProc} /\ ret = 0
    BY ZenonT(30) DEF FdsInit
  <2>2. /\ Closed \in [type : FdType, in_use : BOOLEAN]
        /\ Closed.in_use = FALSE
        /\ \A k \in FdSlot : /\ InUse(IF k = 0 THEN "in" ELSE "out") \in [type : FdType, in_use : BOOLEAN]
                             /\ InUse(IF k = 0 THEN "in" ELSE "out").type # "none"
    BY ZenonT(30) DEF Closed, InUse, FdType
  <2> QED BY <1>1, <2>1, <2>2 DEF FdsTypeOK
<1>7. Shown(scr, paper)
  <2>1. BlankRow \in [Col -> Cell]
    BY DEF BlankRow, Cell
  <2>2. NewScreen \in Screen
    BY ZenonT(30), <1>2, <2>1 DEF NewScreen, Screen, Grid
  <2>3. NewPaper \in Paper
    BY <1>2, <2>1 DEF NewPaper, Paper
  <2>4. RowsShown(NewScreen.cell, NewScreen.y, NewPaper.rows)
    <3>1. /\ NewScreen.y = 0 /\ NewPaper.rows = <<BlankRow>> /\ Len(NewPaper.rows) = 1
          /\ NewPaper.rows[1] = BlankRow /\ \A k \in Row : NewScreen.cell[k] = BlankRow
      BY ZenonT(30) DEF NewScreen, NewPaper
    <3>2. ~(1 > ROWS) /\ 0 = 1 - 0 - 1 /\ \A k \in Row : 0 + k + 1 <= 1 => 0 + k + 1 = 1
      BY <1>1 DEF Row
    <3> QED BY <3>1, <3>2, Zenon DEF RowsShown
  <2>5. NewScreen.x = NewPaper.x
    BY ZenonT(30) DEF NewScreen, NewPaper
  <2> QED BY ZenonT(30), <1>3, <2>2, <2>3, <2>4, <2>5, ShownFacts
<1>8. Echoed(line, scr, base)
  BY <1>3, <1>4 DEF Echoed
<1> QED BY ZenonT(30), <1>5, <1>6, <1>7, <1>8 DEF TerminalInv

\* Output of a text anywhere: the invariants of the screen, whoever prints.
LEMMA OutputKeepsInv ==
    ASSUME TerminalInv, NEW T, NEW text \in Seq(T), Output(text)
    PROVE  TtyTypeOK' /\ Shown(scr, paper)' /\ (~mixed => Echoed(line, scr, base))'
<1>1. Shown(scr, paper) /\ TtyTypeOK
  BY ZenonT(30) DEF TerminalInv
<1>2. scr' = Puts(scr, text) /\ paper' = TypeAll(paper, text)
  BY ZenonT(30) DEF Output
<1>3. Shown(scr', paper')
  BY ZenonT(30), <1>1, <1>2, PutsShows
<1>4. scr'.x \in Col /\ scr'.y \in Row
  BY ZenonT(30), <1>3 DEF Shown, Screen
<1>5. UNCHANGED <<kbuf, kbuf_head, kbuf_tail, line, got, keys, taken, from, done>>
  BY ZenonT(30) DEF Output
<1>6. CASE line = <<>>
  <2>1. base' = scr'.x /\ mixed' = FALSE
    BY ZenonT(30), <1>6 DEF Output, FreshLine
  <2>2. Echoed(line', scr', base')
    BY SMTT(30), <1>4, <1>5, <1>6, <2>1, ConsoleAssumption DEF Echoed, Col
  <2> QED BY ZenonT(30), <1>1, <1>3, <1>4, <1>5, <2>1, <2>2 DEF TtyTypeOK
<1>7. CASE line # <<>>
  <2>1. base' = base /\ mixed' = TRUE
    BY ZenonT(30), <1>7 DEF Output
  <2> QED BY ZenonT(30), <1>1, <1>3, <1>4, <1>5, <2>1 DEF TtyTypeOK
<1> QED BY ZenonT(30), <1>6, <1>7

LEMMA KeyKeepsInv ==
    ASSUME TerminalInv, NEW c \in Char, Key(c)
    PROVE  TerminalInv'
<1>1. TtyTypeOK
  BY DEF TerminalInv
<1>2. (kbuf_head + 1) % KBUF_SIZE \in Slot
  <2>1. kbuf_head + 1 \in Nat /\ kbuf_head + 1 < 2 * KBUF_SIZE
    BY SMTT(30), <1>1, TtyAssumption DEF TtyTypeOK, Slot
  <2> QED BY ZenonT(30), <2>1, RingMod
<1>3. kbuf' \in [Slot -> Char] /\ kbuf_head' \in Slot /\ keys' \in 0 .. MaxKeys
  BY SMTT(30), <1>1, <1>2, TtyAssumption DEF Key, KeyboardIrq, TtyTypeOK
<1>4. UNCHANGED <<kbuf_tail, line, got, taken, from, done, scr, paper, base, mixed, fds, alive, ret>>
  BY DEF Key, KeyboardIrq, console, fdVars
<1>5. TtyTypeOK'
  BY ZenonT(30), <1>1, <1>3, <1>4 DEF TtyTypeOK
<1>6. FdsTypeOK'
  BY ZenonT(30), <1>4 DEF TerminalInv, FdsTypeOK
<1>7. Shown(scr', paper') /\ (~mixed' => Echoed(line', scr', base'))
  BY ZenonT(30), <1>4 DEF TerminalInv
<1> QED BY ZenonT(30), <1>5, <1>6, <1>7 DEF TerminalInv

\* What a read takes from the ring, and the state tty_poll leaves.
LEMMA PollFacts ==
    ASSUME TerminalInv
    PROVE  LET raw == KeyboardRead(RAW_MAX)
           IN /\ Pending \in Seq(Char) /\ raw \in Seq(Char)
              /\ Len(raw) \in 0 .. Len(Pending) /\ raw = SubSeq(Pending, 1, Len(raw))
              /\ PollInv(Polled)
<1> DEFINE raw == KeyboardRead(RAW_MAX)
           N == Len(raw)
           n0 == IF RAW_MAX < Len(Pending) THEN RAW_MAX ELSE Len(Pending)
<1>1. TtyTypeOK /\ Shown(scr, paper) /\ (~mixed => Echoed(line, scr, base))
  BY ZenonT(30) DEF TerminalInv
<1>2. Pending \in Seq(Char) /\ Len(Pending) \in Nat
  <2>1. Pending = Ring(kbuf, kbuf_head, kbuf_tail)
    BY ZenonT(30) DEF Pending, Ring
  <2>2. Ring(kbuf, kbuf_head, kbuf_tail) \in Seq(Char)
    BY ZenonT(30), <1>1, RingFacts DEF TtyTypeOK
  <2> QED BY <2>1, <2>2
<1>3. n0 \in 0 .. Len(Pending)
  BY <1>2, TtyAssumption
<1>4. raw = SubSeq(Pending, 1, n0)
  BY ZenonT(30) DEF KeyboardRead, First
<1> HIDE DEF n0, raw
<1>5. raw \in Seq(Char) /\ Len(raw) = n0
  <2>1. 1 \in 1 .. Len(Pending) + 1 /\ n0 \in 1 - 1 .. Len(Pending) /\ n0 + 1 - 1 = n0
    BY <1>2, <1>3
  <2> QED BY ZenonT(30), <1>2, <1>4, <2>1, SubSeqFacts
<1>6. N \in Nat /\ \A n \in 1 .. N : raw[n] \in Char
  BY SMTT(30), <1>5
<1> HIDE DEF N
<1> DEFINE S == {l \in Polls : PollInv(l)}
           F == [n \in 1 .. N |-> [l \in S |-> Take(l, raw[n])]]
<1>7. PollStart \in S
  <2>1. /\ PollStart.line = line /\ PollStart.ready = FALSE /\ PollStart.scr = scr
        /\ PollStart.paper = paper /\ PollStart.base = base /\ PollStart.mixed = mixed
    BY ZenonT(30) DEF PollStart
  <2>2. PollStart \in Polls
    BY ZenonT(30), <1>1 DEF PollStart, Polls, Shown, TtyTypeOK
  <2> QED BY ZenonT(30), <1>1, <2>1, <2>2 DEF PollInv, TtyTypeOK
<1>8. F \in [1 .. N -> [S -> S]]
  <2>1. ASSUME NEW n \in 1 .. N, NEW l \in S PROVE Take(l, raw[n]) \in S
    <3>1. PollInv(Take(l, raw[n]))
      BY ZenonT(30), <1>6, TakeKeepsInv
    <3> QED BY ZenonT(30), <3>1 DEF PollInv
  <2> HIDE DEF S
  <2> QED BY ZenonT(30), <2>1
<1> DEFINE polled == CHOOSE f : f = [n \in 0 .. N |-> IF n = 0 THEN PollStart ELSE Take(f[n - 1], raw[n])]
<1>9. Polled = polled[N]
  BY ZenonT(30) DEF Polled, PollStart, N, raw
<1>10. polled = [n \in 0 .. N |-> IF n = 0 THEN PollStart ELSE Take(polled[n - 1], raw[n])]
  <2> HIDE DEF F, S
  <2>1. PICK g : IsLoop(g, N, S, PollStart, F)
    BY ZenonT(30), <1>6, <1>7, <1>8, LoopExists
  <2>2. g \in [0 .. N -> S] /\ g[0] = PollStart /\ \A n \in 1 .. N : g[n] = F[n][g[n - 1]]
    BY ZenonT(30), <2>1 DEF IsLoop
  <2>3. ASSUME NEW n \in 0 .. N PROVE g[n] = IF n = 0 THEN PollStart ELSE Take(g[n - 1], raw[n])
    <3>1. CASE n = 0
      BY ZenonT(30), <2>2, <3>1
    <3>2. CASE n # 0
      <4>1. n \in 1 .. N /\ n - 1 \in 0 .. N
        BY SMTT(30), <1>6, <3>2
      <4>2. g[n - 1] \in S /\ g[n] = F[n][g[n - 1]]
        BY ZenonT(30), <2>2, <4>1
      <4> QED BY ZenonT(30), <3>2, <4>1, <4>2 DEF F
    <3> QED BY ZenonT(30), <3>1, <3>2
  <2>4. g = [n \in 0 .. N |-> g[n]]
    BY ZenonT(30), <2>2
  <2>5. g = [n \in 0 .. N |-> IF n = 0 THEN PollStart ELSE Take(g[n - 1], raw[n])]
    BY <2>3, <2>4, Zenon
  <2> QED BY <2>5, Zenon
<1> HIDE DEF polled
<1> DEFINE G == {n \in 0 .. N : PollInv(polled[n])}
<1>11. 0 \in G
  <2>1. 0 \in 0 .. N
    BY <1>6
  <2>2. polled[0] = PollStart
    BY <1>10, <2>1, Zenon
  <2> QED BY ZenonT(30), <1>7, <2>1, <2>2
<1>12. ASSUME NEW n \in 1 .. N, n - 1 \in G PROVE n \in G
  <2>1. n \in 0 .. N /\ n # 0 /\ PollInv(polled[n - 1])
    BY <1>6, <1>12
  <2>2. polled[n] = Take(polled[n - 1], raw[n])
    BY <1>10, <2>1, Zenon
  <2>3. PollInv(polled[n])
    BY ZenonT(30), <1>6, <2>1, <2>2, TakeKeepsInv
  <2> QED BY ZenonT(30), <2>1, <2>3
<1> HIDE DEF G
<1>13. \A n \in 0 .. N : n \in G
  BY ZenonT(30), <1>6, <1>11, <1>12, UpTo
<1>14. PollInv(polled[N])
  BY SMTT(30), <1>6, <1>13 DEF G
<1> QED BY ZenonT(30), <1>2, <1>3, <1>4, <1>5, <1>9, <1>14 DEF raw

\* SysRead in terms of Polled.
LEMMA SysReadSteps ==
    ASSUME NEW len, SysRead(len)
    PROVE  LET raw == KeyboardRead(RAW_MAX)
               l == Polled
           IN /\ \/ UNCHANGED <<kbuf_tail, line, got, taken, from, done, console>>
                 \/ /\ len >= 1
                    /\ kbuf_tail' = (kbuf_tail + Len(raw)) % KBUF_SIZE
                    /\ scr' = l.scr /\ paper' = l.paper
                    /\ got' = IF l.ready THEN First(l.line, len - 1) ELSE <<>>
                    /\ line' = IF l.ready THEN <<>> ELSE l.line
                    /\ taken' = taken \o raw
                    /\ from' = IF done > 0 THEN Len(taken) ELSE from
                    /\ done' = IF l.ready THEN len ELSE 0
                    /\ IF l.ready THEN FreshLine ELSE base' = l.base /\ mixed' = l.mixed
              /\ UNCHANGED <<kbuf, kbuf_head, keys>>
BY ZenonT(30) DEF SysRead, Polled

LEMMA SysReadKeepsInv ==
    ASSUME TerminalInv, NEW len \in Lens, SysRead(len), UNCHANGED fdVars
    PROVE  TerminalInv'
<1> DEFINE raw == KeyboardRead(RAW_MAX)
<1>1. TtyTypeOK /\ FdsTypeOK /\ Shown(scr, paper) /\ (~mixed => Echoed(line, scr, base))
  BY DEF TerminalInv
<1>2. FdsTypeOK'
  BY ZenonT(30), <1>1 DEF FdsTypeOK, fdVars
<1>3. UNCHANGED <<kbuf, kbuf_head, keys>>
  BY ZenonT(30), SysReadSteps
<1>4. CASE UNCHANGED <<kbuf_tail, line, got, taken, from, done, console>>
  <2>1. UNCHANGED <<kbuf_tail, line, got, taken, from, done, scr, paper, base, mixed>>
    BY ZenonT(30), <1>4 DEF console
  <2>2. TtyTypeOK'
    BY ZenonT(30), <1>1, <1>3, <2>1 DEF TtyTypeOK
  <2>3. Shown(scr', paper') /\ (~mixed' => Echoed(line', scr', base'))
    BY ZenonT(30), <1>1, <2>1
  <2> QED BY ZenonT(30), <1>2, <2>2, <2>3 DEF TerminalInv
<1>5. CASE /\ len >= 1
           /\ kbuf_tail' = (kbuf_tail + Len(raw)) % KBUF_SIZE
           /\ scr' = Polled.scr /\ paper' = Polled.paper
           /\ got' = IF Polled.ready THEN First(Polled.line, len - 1) ELSE <<>>
           /\ line' = IF Polled.ready THEN <<>> ELSE Polled.line
           /\ taken' = taken \o raw
           /\ from' = IF done > 0 THEN Len(taken) ELSE from
           /\ done' = IF Polled.ready THEN len ELSE 0
           /\ IF Polled.ready THEN FreshLine ELSE base' = Polled.base /\ mixed' = Polled.mixed
  <2>1. /\ raw \in Seq(Char) /\ Len(raw) \in Nat /\ PollInv(Polled)
        /\ Len(raw) \in 0 .. Len(Pending) /\ Pending \in Seq(Char)
    BY SMTT(30), PollFacts
  <2>2. /\ Polled \in Polls /\ Len(Polled.line) <= LINE_MAX - 1 /\ Shown(Polled.scr, Polled.paper)
        /\ Polled.line \in Seq(Char) /\ Polled.scr \in Screen /\ Polled.base \in Col
        /\ Polled.mixed \in BOOLEAN /\ Polled.ready \in BOOLEAN
        /\ ~Polled.ready /\ ~Polled.mixed => Echoed(Polled.line, Polled.scr, Polled.base)
    BY ZenonT(30), <2>1 DEF PollInv, Polls
  <2>3. Shown(scr', paper') /\ scr'.x \in Col /\ scr'.y \in Row
    BY ZenonT(30), <1>5, <2>2 DEF Screen
  <2>4. kbuf_tail' \in Slot
    <3>1. Pending = Ring(kbuf, kbuf_head, kbuf_tail)
      BY DEF Pending, Ring
    <3> HIDE DEF raw
    <3>2. (kbuf_tail + Len(raw)) % KBUF_SIZE \in Slot
      BY Zenon, <1>1, <2>1, <3>1, RingGet DEF TtyTypeOK
    <3> QED BY ZenonT(30), <1>5, <3>2
  <2> HIDE DEF raw
  <2>5. got' \in Seq(Char)
    <3> DEFINE g == Polled.line
               m == IF len - 1 < Len(g) THEN len - 1 ELSE Len(g)
    <3>1. len \in Nat /\ len >= 1 /\ g \in Seq(Char) /\ Len(g) \in Nat
      BY SMTT(30), <1>5, <2>2, TtyAssumption
    <3> HIDE DEF g
    <3>2. m \in 1 - 1 .. Len(g) /\ 1 \in 1 .. Len(g) + 1
      BY <3>1
    <3>3. First(g, len - 1) = SubSeq(g, 1, m)
      BY ZenonT(30) DEF First
    <3> HIDE DEF m
    <3>4. SubSeq(g, 1, m) \in Seq(Char)
      BY ZenonT(30), <3>1, <3>2, SubSeqFacts
    <3>5. <<>> \in Seq(Char)
      OBVIOUS
    <3> QED BY Zenon, <1>5, <3>3, <3>4, <3>5 DEF g
  <2>6. taken' \in Seq(Char) /\ Len(taken') = Len(taken) + Len(raw) /\ from' \in 0 .. Len(taken')
    <3>1. taken \in Seq(Char) /\ Len(taken) \in Nat /\ from \in 0 .. Len(taken)
      BY SMTT(30), <1>1 DEF TtyTypeOK
    <3>2. taken' \in Seq(Char) /\ Len(taken') = Len(taken) + Len(raw)
      BY SMTT(30), <1>5, <2>1, <3>1
    <3>3. from' = Len(taken) \/ from' = from
      BY ZenonT(30), <1>5
    <3> QED BY SMTT(30), <2>1, <3>1, <3>2, <3>3
  <2>7. done' \in {0} \cup Lens
    BY ZenonT(30), <1>5
  <2>8. CASE Polled.ready
    <3>1. line' = <<>> /\ base' = scr'.x /\ mixed' = FALSE /\ <<>> \in Seq(Char) /\ Len(line') = 0
      BY SMTT(30), <1>5, <2>8 DEF FreshLine
    <3>2. Len(line') <= LINE_MAX - 1
      BY SMTT(30), <3>1, TtyAssumption
    <3>3. Echoed(line', scr', base')
      BY SMTT(30), <2>3, <3>1, ConsoleAssumption DEF Echoed, Col
    <3>4. TtyTypeOK'
      BY ZenonT(30), <1>1, <1>3, <2>3, <2>4, <2>5, <2>6, <2>7, <3>1, <3>2 DEF TtyTypeOK
    <3> QED BY ZenonT(30), <1>2, <2>3, <3>3, <3>4 DEF TerminalInv
  <2>9. CASE ~Polled.ready
    <3>1. line' = Polled.line /\ base' = Polled.base /\ mixed' = Polled.mixed /\ scr' = Polled.scr
      BY ZenonT(30), <1>5, <2>9
    <3>2. TtyTypeOK'
      BY ZenonT(30), <1>1, <1>3, <2>2, <2>3, <2>4, <2>5, <2>6, <2>7, <3>1 DEF TtyTypeOK
    <3>3. ~mixed' => Echoed(line', scr', base')
      BY ZenonT(30), <2>2, <2>9, <3>1
    <3> QED BY ZenonT(30), <1>2, <2>3, <3>2, <3>3 DEF TerminalInv
  <2> QED BY ZenonT(30), <2>8, <2>9
<1> QED BY Zenon, <1>4, <1>5, SysReadSteps

LEMMA OpenKeepsFds ==
    ASSUME FdsTypeOK, NEW p \in alive, NEW path, Open(p, path)
    PROVE  FdsTypeOK'
<1>0. /\ fds \in [Proc -> [FdSlot -> [type : FdType, in_use : BOOLEAN]]] /\ p \in Proc
      /\ \A q \in Proc, k \in FdSlot : fds[q][k].in_use => fds[q][k].type # "none"
      /\ alive' \subseteq Proc /\ alive' = alive
  BY ZenonT(30) DEF FdsTypeOK, Open
<1>1. CASE UNCHANGED fds /\ ret' \in Int
  BY ZenonT(30), <1>0, <1>1 DEF FdsTypeOK
<1>2. ASSUME NEW k \in FreeSlots(p), fds' = [fds EXCEPT ![p][k] = InUse("in")], ret' = k
      PROVE  FdsTypeOK'
  <2> DEFINE v == InUse("in")
  <2>1. v \in [type : FdType, in_use : BOOLEAN] /\ v.type # "none"
    BY ZenonT(30) DEF InUse, FdType
  <2> HIDE DEF v
  <2>2. k \in FdSlot /\ k \in Int
    BY SMTT(30), FdsAssumption DEF FreeSlots, FdSlot
  <2>3. fds' \in [Proc -> [FdSlot -> [type : FdType, in_use : BOOLEAN]]]
    BY ZenonT(30), <1>0, <1>2, <2>1, <2>2 DEF v
  <2>4. \A q \in Proc, j \in FdSlot : fds'[q][j] = IF q = p /\ j = k THEN v ELSE fds[q][j]
    BY ZenonT(30), <1>0, <1>2, <2>2 DEF v
  <2> QED BY SMTT(30), <1>0, <1>2, <2>1, <2>2, <2>3, <2>4 DEF FdsTypeOK
<1> QED BY SMTT(30), <1>1, <1>2 DEF Open, ENOENT, EMFILE

LEMMA CloseKeepsFds ==
    ASSUME FdsTypeOK, NEW p \in alive, NEW fd \in FdArg, Close(p, fd)
    PROVE  FdsTypeOK'
<1>0. /\ fds \in [Proc -> [FdSlot -> [type : FdType, in_use : BOOLEAN]]] /\ p \in Proc
      /\ \A q \in Proc, k \in FdSlot : fds[q][k].in_use => fds[q][k].type # "none"
      /\ alive' \subseteq Proc /\ alive' = alive
  BY ZenonT(30) DEF FdsTypeOK, Close
<1>1. CASE UNCHANGED fds /\ ret' \in Int
  BY ZenonT(30), <1>0, <1>1 DEF FdsTypeOK
<1>2. CASE TypeOf(p, fd) # "none" /\ fds' = [fds EXCEPT ![p][fd].in_use = FALSE] /\ ret' = 0
  <2>1. fd \in FdSlot /\ fds[p][fd].in_use
    BY <1>2 DEF TypeOf
  <2> DEFINE v == [fds[p][fd] EXCEPT !.in_use = FALSE]
  <2>2. v \in [type : FdType, in_use : BOOLEAN] /\ ~v.in_use
    BY ZenonT(30), <1>0, <2>1
  <2>3. fds' = [fds EXCEPT ![p][fd] = v]
    BY <1>0, <1>2, <2>1
  <2> HIDE DEF v
  <2>4. fds' \in [Proc -> [FdSlot -> [type : FdType, in_use : BOOLEAN]]]
    BY <1>0, <2>1, <2>2, <2>3
  <2>5. \A q \in Proc, j \in FdSlot : fds'[q][j] = IF q = p /\ j = fd THEN v ELSE fds[q][j]
    BY ZenonT(30), <1>0, <2>1, <2>3
  <2> QED BY SMTT(30), <1>0, <1>2, <2>2, <2>4, <2>5 DEF FdsTypeOK
<1> QED BY <1>1, <1>2 DEF Close, EBADF

LEMMA ForkKeepsFds ==
    ASSUME FdsTypeOK, NEW p \in alive, NEW c \in Proc, Fork(p, c)
    PROVE  FdsTypeOK'
<1>1. p \in Proc /\ alive' \subseteq Proc /\ ret' = c /\ ret' \in Int
  BY FdsAssumption DEF FdsTypeOK, Fork
<1>2. fds' = [fds EXCEPT ![c] = fds[p]]
  BY ZenonT(30) DEF Fork, ForkTable
<1> QED BY ZenonT(30), <1>1, <1>2 DEF FdsTypeOK

\* One step.
LEMMA TerminalNextKeepsInv ==
    TerminalInv /\ [TerminalNext]_terminalVars => TerminalInv'
<1> SUFFICES ASSUME TerminalInv, [TerminalNext]_terminalVars PROVE TerminalInv'
  BY ZenonT(30)
<1>0. /\ TtyTypeOK /\ FdsTypeOK /\ Shown(scr, paper) /\ (~mixed => Echoed(line, scr, base))
      /\ alive \subseteq Proc
  BY ZenonT(30) DEF TerminalInv, FdsTypeOK
<1>1. ASSUME UNCHANGED ttyVars PROVE TtyTypeOK' /\ Shown(scr', paper') /\ (~mixed' => Echoed(line', scr', base'))
  <2>1. UNCHANGED <<kbuf, kbuf_head, kbuf_tail, line, got, keys, taken, from, done, scr, paper, base, mixed>>
    BY ZenonT(30), <1>1 DEF ttyVars, console
  <2>2. TtyTypeOK'
    BY ZenonT(30), <1>0, <2>1 DEF TtyTypeOK
  <2> QED BY ZenonT(30), <1>0, <2>1, <2>2
<1>2. ASSUME UNCHANGED fdVars PROVE FdsTypeOK'
  BY ZenonT(30), <1>0, <1>2 DEF fdVars, FdsTypeOK
<1>3. ASSUME NEW T, NEW text \in Seq(T), Output(text), FdsTypeOK' PROVE TerminalInv'
  BY ZenonT(30), <1>3, OutputKeepsInv DEF TerminalInv
<1>4. ASSUME NEW c \in Char, Key(c) PROVE TerminalInv'
  BY ZenonT(30), <1>4, KeyKeepsInv
<1>5. ASSUME NEW p \in alive, NEW fd \in FdArg, NEW len \in Lens, Read(p, fd, len) PROVE TerminalInv'
  <2>1. UNCHANGED fdVars /\ (UNCHANGED ttyVars \/ SysRead(len))
    BY ZenonT(30), <1>5 DEF Read
  <2>2. CASE UNCHANGED ttyVars
    BY ZenonT(30), <1>1, <1>2, <2>1, <2>2 DEF TerminalInv
  <2>3. CASE SysRead(len)
    BY ZenonT(30), <2>1, <2>3, SysReadKeepsInv
  <2> QED BY ZenonT(30), <2>1, <2>2, <2>3
<1>6. ASSUME NEW p \in alive, NEW fd \in FdArg, NEW text \in Texts, Write(p, fd, text) PROVE TerminalInv'
  <2>1. UNCHANGED fdVars /\ (UNCHANGED ttyVars \/ Output(text))
    BY ZenonT(30), <1>6 DEF Write
  <2>2. CASE UNCHANGED ttyVars
    BY ZenonT(30), <1>1, <1>2, <2>1, <2>2 DEF TerminalInv
  <2>3. CASE Output(text)
    <3>1. PICK T : text \in Seq(T)
      BY TerminalAssumption, Zenon
    <3> QED BY ZenonT(30), <1>2, <1>3, <2>1, <2>3, <3>1
  <2> QED BY ZenonT(30), <2>1, <2>2, <2>3
<1>7. ASSUME NEW p \in alive, NEW path \in Path, SysOpen(p, path) PROVE TerminalInv'
  BY ZenonT(30), <1>0, <1>1, <1>7, OpenKeepsFds DEF SysOpen, TerminalInv
<1>8. ASSUME NEW p \in alive, NEW fd \in FdArg, SysClose(p, fd) PROVE TerminalInv'
  BY ZenonT(30), <1>0, <1>1, <1>8, CloseKeepsFds DEF SysClose, TerminalInv
<1>9. ASSUME NEW p \in alive, NEW c \in Proc, SysFork(p, c) PROVE TerminalInv'
  <2> DEFINE text == Decimal[p] \o Decimal[c] \o <<"nl">>
  <2>1. Output(text) /\ Fork(p, c)
    BY ZenonT(30), <1>9 DEF SysFork
  <2>2. FdsTypeOK'
    BY ZenonT(30), <1>0, <2>1, ForkKeepsFds
  <2>3. PICK T : text \in Seq(T)
    <3>1. PICK D : \A q \in Proc : Decimal[q] \in Seq(D)
      BY ZenonT(30), DecimalIsText
    <3> DEFINE T == D \cup {"nl"}
               d1 == Decimal[p]
               d2 == Decimal[c]
    <3>2. d1 \in Seq(D) /\ d2 \in Seq(D)
      BY ZenonT(30), <1>0, <3>1
    <3> HIDE DEF d1, d2
    <3>3. d1 \in Seq(T) /\ d2 \in Seq(T) /\ <<"nl">> \in Seq(T)
      BY <3>2
    <3> HIDE DEF T
    <3>4. d1 \o d2 \in Seq(T)
      BY <3>3
    <3>5. (d1 \o d2) \o <<"nl">> \in Seq(T)
      BY SMTT(30), <3>3, <3>4
    <3> QED BY ZenonT(30), <3>5 DEF d1, d2
  <2> HIDE DEF text
  <2> QED BY ZenonT(30), <1>3, <2>1, <2>2, <2>3
<1>10. CASE UNCHANGED terminalVars
  BY ZenonT(30), <1>1, <1>2, <1>10 DEF terminalVars, TerminalInv
<1> QED BY ZenonT(30), <1>4, <1>5, <1>6, <1>7, <1>8, <1>9, <1>10 DEF TerminalNext

LEMMA TerminalInvariant == TerminalSpec => []TerminalInv
<1> QED BY TerminalInitInv, TerminalNextKeepsInv, PTL DEF TerminalSpec

\* The screen is a window on the end of all the output ever printed, through any
\* number of scrolls, wraps and erasures, on a screen of any size, for whatever
\* texts are written and keys are typed (fb_putc, fb_scroll).
THEOREM ScreenIsWindow == TerminalSpec => []ScreenShowsEnd
<1>1. TerminalInv => ScreenShowsEnd
  BY ZenonT(30) DEF TerminalInv, Shown, ScreenShowsEnd
<1> QED BY <1>1, TerminalInvariant, PTL

\* The line on the screen is the line in the kernel's buffer, character by
\* character up to the cursor (tty_poll, fb_putc).
THEOREM EchoIsLine == TerminalSpec => []EchoMatchesLine
<1>1. TerminalInv => EchoMatchesLine
  <2> SUFFICES ASSUME TerminalInv PROVE EchoMatchesLine
    BY Zenon
  <2>1. DOMAIN line = 1 .. Len(line)
    BY DEF TerminalInv, TtyTypeOK
  <2> QED BY <2>1 DEF TerminalInv, Echoed, EchoMatchesLine
<1> QED BY <1>1, TerminalInvariant, PTL

-----------------------------------------------------------------------------
(* The ring is a queue.                                                     *)

LEMMA QueueInit ==
    TerminalInit => Queue!Init
<1> SUFFICES ASSUME TerminalInit PROVE Pending = <<>> /\ taken = <<>>
  BY ZenonT(30) DEF Queue!Init
<1>1. kbuf_head = 0 /\ kbuf_tail = 0 /\ taken = <<>>
  BY ZenonT(30) DEF TerminalInit, TtyInit
<1>2. 0 + KBUF_SIZE - 0 \in Nat /\ (0 + KBUF_SIZE - 0) % KBUF_SIZE = 0
  <2>1. KBUF_SIZE \in Nat \ {0, 1}
    BY ZenonT(30), TtyAssumption
  <2>2. 0 + KBUF_SIZE - 0 = KBUF_SIZE /\ KBUF_SIZE < 2 * KBUF_SIZE /\ KBUF_SIZE - KBUF_SIZE = 0
    BY <2>1
  <2> QED BY <2>1, <2>2, RingMod
<1>3. Pending = [i \in 1 .. 0 |-> kbuf[(kbuf_tail + i - 1) % KBUF_SIZE]]
  BY ZenonT(30), <1>1, <1>2 DEF Pending
<1> QED BY <1>1, <1>3

LEMMA KeyIsPut ==
    ASSUME TerminalInv, NEW c \in Char, Key(c)
    PROVE  Queue!Put(c)
<1> DEFINE next == (kbuf_head + 1) % KBUF_SIZE
           r == Ring(kbuf, kbuf_head, kbuf_tail)
<1>1. Pending = r /\ Pending' = Ring(kbuf', kbuf_head', kbuf_tail')
  BY ZenonT(30) DEF Pending, Ring
<1>2. kbuf \in [Slot -> Char] /\ kbuf_head \in Slot /\ kbuf_tail \in Slot
  BY DEF TerminalInv, TtyTypeOK
<1>3. /\ next = kbuf_tail => ~(Len(r) < KBUF_SIZE - 1)
      /\ next # kbuf_tail => /\ Len(r) < KBUF_SIZE - 1
                             /\ Ring([kbuf EXCEPT ![kbuf_head] = c], next, kbuf_tail) = Append(r, c)
  BY Zenon, <1>2, RingPut
<1>4. UNCHANGED <<kbuf_tail, taken>>
  BY DEF Key, KeyboardIrq
<1> HIDE DEF r
<1>5. CASE next # kbuf_tail /\ kbuf' = [kbuf EXCEPT ![kbuf_head] = c] /\ kbuf_head' = next
  BY <1>1, <1>3, <1>4, <1>5, Zenon DEF Queue!Put
<1>6. CASE next = kbuf_tail /\ UNCHANGED <<kbuf, kbuf_head>>
  <2>1. Pending' = r
    BY ZenonT(30), <1>1, <1>4, <1>6 DEF r
  <2> QED BY <1>1, <1>3, <1>4, <1>6, <2>1, Zenon DEF Queue!Put
<1> QED BY ZenonT(30), <1>5, <1>6 DEF Key, KeyboardIrq

LEMMA ReadIsGet ==
    ASSUME TerminalInv, NEW len \in Lens, SysRead(len)
    PROVE  (\E n \in 0 .. Len(Pending) : Queue!Get(n)) \/ UNCHANGED <<Pending, taken>>
<1> DEFINE raw == KeyboardRead(RAW_MAX)
           r == Ring(kbuf, kbuf_head, kbuf_tail)
           n == Len(raw)
<1>1. Pending = r /\ Pending' = Ring(kbuf', kbuf_head', kbuf_tail')
  BY ZenonT(30) DEF Pending, Ring
<1>2. kbuf \in [Slot -> Char] /\ kbuf_head \in Slot /\ kbuf_tail \in Slot
  BY DEF TerminalInv, TtyTypeOK
<1>3. n \in 0 .. Len(Pending) /\ raw = SubSeq(Pending, 1, n)
  BY ZenonT(30), PollFacts
<1>4. UNCHANGED <<kbuf, kbuf_head>>
  BY ZenonT(30), SysReadSteps
<1> HIDE DEF raw
<1>5. CASE UNCHANGED <<kbuf_tail, taken>>
  <2>1. Pending' = r
    BY ZenonT(30), <1>1, <1>4, <1>5
  <2> QED BY ZenonT(30), <1>1, <1>5, <2>1
<1>6. CASE kbuf_tail' = (kbuf_tail + n) % KBUF_SIZE /\ taken' = taken \o raw
  <2> HIDE DEF n
  <2>1. n \in 0 .. Len(r)
    BY ZenonT(30), <1>1, <1>3
  <2>2. Ring(kbuf, kbuf_head, (kbuf_tail + n) % KBUF_SIZE) = SubSeq(r, n + 1, Len(r))
    BY ZenonT(30), <1>2, <2>1, RingGet
  <2> HIDE DEF r
  <2>3. Pending' = SubSeq(Pending, n + 1, Len(Pending))
    BY ZenonT(30), <1>1, <1>4, <1>6, <2>2
  <2>4. taken' = taken \o SubSeq(Pending, 1, n)
    BY ZenonT(30), <1>3, <1>6
  <2>5. Queue!Get(n)
    BY ZenonT(30), <2>3, <2>4 DEF Queue!Get
  <2> QED BY ZenonT(30), <1>3, <2>5
<1> QED BY ZenonT(30), <1>5, <1>6, SysReadSteps DEF raw

\* The keyboard ring, which the interrupt handler fills and the reader empties
\* without a lock, is a bounded first-in first-out queue that drops what does not
\* fit and loses, repeats and reorders nothing, for every size of ring and however
\* often its indices have gone round (keyboard_irq, keyboard_read).
THEOREM RingIsQueue == TerminalSpec => ImplementsKeyQueue
<1>1. TerminalInv /\ [TerminalNext]_terminalVars => [Queue!Next]_<<Pending, taken>>
  <2> SUFFICES ASSUME TerminalInv, [TerminalNext]_terminalVars
               PROVE  Queue!Next \/ UNCHANGED <<Pending, taken>>
    BY Zenon
  <2>1. ASSUME UNCHANGED <<kbuf, kbuf_head, kbuf_tail, taken>> PROVE UNCHANGED <<Pending, taken>>
    BY ZenonT(30), <2>1 DEF Pending
  <2>2. ASSUME UNCHANGED ttyVars PROVE UNCHANGED <<Pending, taken>>
    BY ZenonT(30), <2>1, <2>2 DEF ttyVars
  <2>3. ASSUME NEW text, Output(text) PROVE UNCHANGED <<Pending, taken>>
    BY ZenonT(30), <2>1, <2>3 DEF Output
  <2>4. ASSUME NEW c \in Char, Key(c) PROVE Queue!Next
    BY ZenonT(30), <2>4, KeyIsPut DEF Queue!Next
  <2>5. ASSUME NEW p \in alive, NEW fd \in FdArg, NEW len \in Lens, Read(p, fd, len)
        PROVE  Queue!Next \/ UNCHANGED <<Pending, taken>>
    <3>1. UNCHANGED ttyVars \/ SysRead(len)
      BY ZenonT(30), <2>5 DEF Read
    <3> QED BY ZenonT(30), <2>2, <3>1, ReadIsGet DEF Queue!Next
  <2>6. ASSUME NEW p \in alive, NEW fd \in FdArg, NEW text \in Texts, Write(p, fd, text)
        PROVE  UNCHANGED <<Pending, taken>>
    BY ZenonT(30), <2>2, <2>3, <2>6 DEF Write
  <2>7. ASSUME NEW p \in alive, NEW path \in Path, SysOpen(p, path) PROVE UNCHANGED <<Pending, taken>>
    BY ZenonT(30), <2>2, <2>7 DEF SysOpen
  <2>8. ASSUME NEW p \in alive, NEW fd \in FdArg, SysClose(p, fd) PROVE UNCHANGED <<Pending, taken>>
    BY ZenonT(30), <2>2, <2>8 DEF SysClose
  <2>9. ASSUME NEW p \in alive, NEW c \in Proc, SysFork(p, c) PROVE UNCHANGED <<Pending, taken>>
    BY ZenonT(30), <2>3, <2>9 DEF SysFork
  <2>10. CASE UNCHANGED terminalVars
    BY ZenonT(30), <2>2, <2>10 DEF terminalVars
  <2> QED BY ZenonT(30), <2>4, <2>5, <2>6, <2>7, <2>8, <2>9, <2>10 DEF TerminalNext
<1> QED BY <1>1, QueueInit, TerminalInvariant, PTL DEF TerminalSpec, ImplementsKeyQueue, Queue!Spec

-----------------------------------------------------------------------------
(* Descriptors.                                                             *)

\* What DescriptorsAreStable says of a step.
StableStep ==
    /\ \A p \in alive : \A k \in Opened(p) : fds'[p][k] = fds[p][k] \/ Close(p, k)
    /\ ret' = EMFILE /\ ret # EMFILE => \E p \in alive : Opened(p) = FdSlot
    /\ \A c \in alive' \ alive : \E p \in alive : \A fd \in FdArg : TypeOf(c, fd)' = TypeOf(p, fd)

LEMMA OpenIsStable ==
    ASSUME FdsTypeOK, NEW p \in alive, NEW path, Open(p, path)
    PROVE  StableStep
<1>1. alive' = alive /\ p \in Proc /\ fds \in [Proc -> [FdSlot -> [type : FdType, in_use : BOOLEAN]]]
      /\ alive \subseteq Proc
  BY DEF Open, FdsTypeOK
<1>2. \A c \in alive' \ alive : \E q \in alive : \A fd \in FdArg : TypeOf(c, fd)' = TypeOf(q, fd)
  BY ZenonT(30), <1>1
<1>3. CASE UNCHANGED fds /\ ret' = ENOENT
  BY SMTT(30), <1>2, <1>3 DEF StableStep, ENOENT, EMFILE
<1>4. CASE UNCHANGED fds /\ FreeSlots(p) = {}
  <2>1. Opened(p) = FdSlot
    BY ZenonT(30), <1>4 DEF Opened, FreeSlots
  <2> QED BY ZenonT(30), <1>2, <1>4, <2>1 DEF StableStep
<1>5. ASSUME NEW j \in FreeSlots(p), fds' = [fds EXCEPT ![p][j] = InUse("in")], ret' = j
      PROVE  StableStep
  <2>1. j \in FdSlot /\ ~fds[p][j].in_use /\ j # EMFILE
    BY SMTT(30), FdsAssumption DEF FreeSlots, FdSlot, EMFILE
  <2>2. ASSUME NEW q \in alive, NEW k \in Opened(q) PROVE fds'[q][k] = fds[q][k]
    <3>1. k \in FdSlot /\ fds[q][k].in_use /\ q \in Proc
      BY ZenonT(30), <1>1 DEF Opened
    <3>2. ~(q = p /\ k = j)
      BY ZenonT(30), <2>1, <3>1
    <3> QED BY ZenonT(30), <1>1, <1>5, <2>1, <3>1, <3>2
  <2> QED BY ZenonT(30), <1>2, <1>5, <2>1, <2>2 DEF StableStep
<1> QED BY ZenonT(30), <1>3, <1>4, <1>5 DEF Open

LEMMA CloseIsStable ==
    ASSUME FdsTypeOK, NEW p \in alive, NEW fd \in FdArg, Close(p, fd)
    PROVE  StableStep
<1>1. alive' = alive /\ p \in Proc /\ fds \in [Proc -> [FdSlot -> [type : FdType, in_use : BOOLEAN]]]
      /\ alive \subseteq Proc
  BY DEF Close, FdsTypeOK
<1>2. /\ \A c \in alive' \ alive : \E q \in alive : \A f \in FdArg : TypeOf(c, f)' = TypeOf(q, f)
      /\ ret' # EMFILE
  BY SMTT(30), <1>1 DEF Close, EBADF, EMFILE
<1>3. CASE UNCHANGED fds
  BY ZenonT(30), <1>2, <1>3 DEF StableStep
<1>4. CASE TypeOf(p, fd) # "none" /\ fds' = [fds EXCEPT ![p][fd].in_use = FALSE]
  <2>1. ASSUME NEW q \in alive, NEW k \in Opened(q) PROVE fds'[q][k] = fds[q][k] \/ Close(q, k)
    <3>1. k \in FdSlot /\ q \in Proc
      BY ZenonT(30), <1>1 DEF Opened
    <3>2. CASE q = p /\ k = fd
      BY ZenonT(30), <3>2
    <3>3. CASE ~(q = p /\ k = fd)
      <4>1. fd \in FdSlot
        BY ZenonT(30), <1>4 DEF TypeOf
      <4> QED BY ZenonT(30), <1>1, <1>4, <3>1, <3>3, <4>1
    <3> QED BY Zenon, <3>2, <3>3
  <2> QED BY ZenonT(30), <1>2, <2>1 DEF StableStep
<1> QED BY ZenonT(30), <1>3, <1>4 DEF Close

LEMMA ForkIsStable ==
    ASSUME FdsTypeOK, NEW p \in alive, NEW c \in Proc, Fork(p, c)
    PROVE  StableStep
<1>1. /\ alive' = alive \cup {c} /\ c \notin alive /\ fds' = [fds EXCEPT ![c] = fds[p]] /\ ret' = c
      /\ p \in Proc /\ alive \subseteq Proc /\ DOMAIN fds = Proc
  BY ZenonT(30) DEF Fork, ForkTable, FdsTypeOK
<1>2. ret' # EMFILE
  BY SMTT(30), <1>1, FdsAssumption DEF EMFILE
<1>3. \A q \in alive : fds'[q] = fds[q]
  BY ZenonT(30), <1>1
<1>4. fds'[c] = fds[p]
  BY ZenonT(30), <1>1
<1>5. \A fd \in FdArg : TypeOf(c, fd)' = TypeOf(p, fd)
  BY ZenonT(30), <1>4 DEF TypeOf
<1> QED BY ZenonT(30), <1>1, <1>2, <1>3, <1>5 DEF StableStep

\* A descriptor keeps its meaning until its own process closes it, open fails
\* with EMFILE only on a full table, and a child starts with its parent's
\* descriptors, for any number of processes and slots (proc_fd_alloc,
\* proc_fd_free, do_fork).
THEOREM DescriptorsStable == TerminalSpec => DescriptorsAreStable
<1>1. TerminalInv /\ [TerminalNext]_terminalVars => [StableStep]_fdVars
  <2> SUFFICES ASSUME TerminalInv, [TerminalNext]_terminalVars PROVE StableStep \/ UNCHANGED fdVars
    BY Zenon
  <2>0. FdsTypeOK
    BY ZenonT(30) DEF TerminalInv
  <2>1. ASSUME NEW p \in alive, NEW path \in Path, SysOpen(p, path) PROVE StableStep
    BY ZenonT(30), <2>0, <2>1, OpenIsStable DEF SysOpen
  <2>2. ASSUME NEW p \in alive, NEW fd \in FdArg, SysClose(p, fd) PROVE StableStep
    BY ZenonT(30), <2>0, <2>2, CloseIsStable DEF SysClose
  <2>3. ASSUME NEW p \in alive, NEW c \in Proc, SysFork(p, c) PROVE StableStep
    BY ZenonT(30), <2>0, <2>3, ForkIsStable DEF SysFork
  <2>4. CASE UNCHANGED terminalVars
    BY <2>4 DEF terminalVars
  <2>5. ASSUME NEW c \in Char, Key(c) PROVE UNCHANGED fdVars
    BY ZenonT(30), <2>5 DEF Key
  <2>6. ASSUME NEW p \in alive, NEW fd \in FdArg, NEW len \in Lens, Read(p, fd, len) PROVE UNCHANGED fdVars
    BY ZenonT(30), <2>6 DEF Read
  <2>7. ASSUME NEW p \in alive, NEW fd \in FdArg, NEW text \in Texts, Write(p, fd, text)
        PROVE  UNCHANGED fdVars
    BY <2>7 DEF Write
  <2> QED BY ZenonT(30), <2>1, <2>2, <2>3, <2>4, <2>5, <2>6, <2>7 DEF TerminalNext
<1> QED BY <1>1, TerminalInvariant, PTL DEF TerminalSpec, DescriptorsAreStable, StableStep
==============================================================================
