------------------------------- MODULE Console -------------------------------
(***************************************************************************)
(* The framebuffer console, core/console.c: a grid of cells and a cursor.  *)
(* A cell holds the character drawn in it (fb_draw_char fills all pixels   *)
(* of the cell) and "blank" stands for the background colour; drawing a    *)
(* space leaves just that.  "nl", "cr" and "bs" are '\n', '\r' and '\b'.   *)
(* The serial line, which gets the same characters, is not modelled.       *)
(***************************************************************************)
EXTENDS Naturals, Sequences

CONSTANTS COLS, ROWS,   \* the size of the grid
          Glyphs        \* the characters the font has, without the space

ASSUME ConsoleAssumption == COLS \in Nat \ {0} /\ ROWS \in Nat \ {0}

Col == 0 .. COLS - 1
Row == 0 .. ROWS - 1
BlankRow == [x \in Col |-> "blank"]

\* console_init with a framebuffer.
NewScreen == [cell |-> [y \in Row |-> BlankRow], x |-> 0, y |-> 0]

\* fb_draw_char: what has no glyph is drawn as a question mark.
DrawnAs(c) == IF c = " " THEN "blank" ELSE IF c \in Glyphs THEN c ELSE "?"

\* fb_scroll.
\* A bug: the last row is copied up and kept.
ScrollKeepsLast(cell) == [y \in Row |-> cell[IF y = ROWS - 1 THEN y ELSE y + 1]]

Scroll(cell) == [y \in Row |-> IF y = ROWS - 1 THEN BlankRow ELSE cell[y + 1]]

\* fb_putc: the cursor and the cell, then the end of the line, then the scroll.
Putc(s, c) ==
    LET moved ==
          CASE c = "nl" -> [s EXCEPT !.x = 0, !.y = @ + 1]
            [] c = "cr" -> [s EXCEPT !.x = 0]
            [] c = "bs" -> [s EXCEPT !.x = IF @ > 0 THEN @ - 1 ELSE 0]
            [] OTHER -> [cell |-> [s.cell EXCEPT ![s.y][s.x] = DrawnAs(c)],
                         x |-> (s.x + 1) % COLS,
                         y |-> IF s.x + 1 >= COLS THEN s.y + 1 ELSE s.y]
    IN IF moved.y < ROWS THEN moved
       ELSE [moved EXCEPT !.cell = Scroll(@), !.y = ROWS - 1]

\* console_write.
Puts(s, text) ==
    LET put[n \in 0 .. Len(text)] == IF n = 0 THEN s ELSE Putc(put[n - 1], text[n])
    IN put[Len(text)]

-----------------------------------------------------------------------------
\* What the console promises: a roll of paper, a sequence of rows that only grows,
\* written at the end.
NewPaper == [rows |-> <<BlankRow>>, x |-> 0]

Type(p, c) ==
    LET n == Len(p.rows)
        fed == [rows |-> Append(p.rows, BlankRow), x |-> 0]
        drawn == [p EXCEPT !.rows[n][p.x] = DrawnAs(c), !.x = @ + 1]
    IN CASE c = "nl" -> fed
         [] c = "cr" -> [p EXCEPT !.x = 0]
         [] c = "bs" -> [p EXCEPT !.x = IF @ > 0 THEN @ - 1 ELSE 0]
         [] OTHER -> IF drawn.x < COLS THEN drawn
                     ELSE [rows |-> Append(drawn.rows, BlankRow), x |-> 0]

TypeAll(p, text) ==
    LET typed[n \in 0 .. Len(text)] == IF n = 0 THEN p ELSE Type(typed[n - 1], text[n])
    IN typed[Len(text)]

\* The screen s shows the end of the paper p: its last rows, or all of them from
\* the top, with the cursor where the next character goes.
ShowsEnd(s, p) ==
    LET n == Len(p.rows)
        top == IF n > ROWS THEN n - ROWS ELSE 0
    IN /\ s.x = p.x /\ s.y = n - top - 1
       /\ \A y \in Row : s.cell[y] = IF top + y + 1 <= n THEN p.rows[top + y + 1]
                                     ELSE BlankRow
==============================================================================
