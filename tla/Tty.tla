--------------------------------- MODULE Tty ---------------------------------
(***************************************************************************)
(* Keyboard input: the ring buffer that the keyboard interrupt fills       *)
(* (drivers/keyboard.c), the line discipline that a read system call runs  *)
(* over it (personality/tty.c), and the echo it writes to the console      *)
(* (module Console).  A read and a keyboard interrupt each run with        *)
(* interrupts off.                                                         *)
(*                                                                         *)
(* "bs" is '\b' and "nl" is '\n'; the key map has no '\r'.  The array      *)
(* line[0 .. line_len - 1] is the sequence line.  line_ready is the field  *)
(* ready of the state that tty_poll folds over: tty_readline clears it     *)
(* before the system call returns.                                         *)
(***************************************************************************)
EXTENDS Console, FiniteSets

CONSTANTS Letter,      \* characters that are neither "bs" nor "nl"
          KBUF_SIZE,   \* slots of the ring
          LINE_MAX,    \* size of the line array
          RAW_MAX,     \* characters one tty_poll takes
          Lens,        \* buffer lengths read is called with
          MaxKeys      \* bound on the number of key presses

ASSUME TtyAssumption ==
    /\ KBUF_SIZE \in Nat \ {0, 1} /\ LINE_MAX \in Nat \ {0, 1}
    /\ RAW_MAX \in Nat \ {0} /\ Lens \subseteq Nat /\ MaxKeys \in Nat
    /\ {"bs", "nl", "cr"} \cap Letter = {}

Char == Letter \cup {"bs", "nl"}
Slot == 0 .. KBUF_SIZE - 1

VARIABLES
    kbuf, kbuf_head, kbuf_tail,   \* the ring: head is the interrupt's, tail read's
    line,                         \* the line being assembled
    scr,                          \* the screen
    got,                          \* what the last read with a buffer returned
    keys,                         \* key presses so far
    taken,                        \* history: what the tty took from the ring
    from,                         \* history: how much of it went to earlier lines
    done,                         \* history: the size of its buffer if it handed out a line
    paper,                        \* history: all the output, on paper
    base,                         \* history: the column the line being typed began at
    mixed                         \* history: it left its row or got other output in it

console == <<scr, paper, base, mixed>>
ttyVars == <<kbuf, kbuf_head, kbuf_tail, line, got, keys, taken, from, done, console>>

TtyTypeOK ==
    /\ kbuf \in [Slot -> Char]
    /\ kbuf_head \in Slot /\ kbuf_tail \in Slot
    /\ line \in Seq(Char) /\ Len(line) <= LINE_MAX - 1
    /\ scr.x \in Col /\ scr.y \in Row /\ base \in Col /\ mixed \in BOOLEAN
    /\ got \in Seq(Char)
    /\ keys \in 0 .. MaxKeys
    /\ taken \in Seq(Char) /\ from \in 0 .. Len(taken)
    /\ done \in {0} \cup Lens

TtyInit ==
    /\ kbuf = [i \in Slot |-> "nl"]
    /\ kbuf_head = 0 /\ kbuf_tail = 0
    /\ line = <<>>
    /\ scr = NewScreen /\ paper = NewPaper /\ base = 0 /\ mixed = FALSE
    /\ got = <<>>
    /\ keys = 0
    /\ taken = <<>> /\ from = 0 /\ done = 0

-----------------------------------------------------------------------------
\* keyboard_irq for a key that maps to c, and for a release or an unmapped key,
\* which it ignores.
\* A bug: a full ring is not told from an empty one.
KeyboardIrqOverruns(c) ==
    /\ keys < MaxKeys
    /\ keys' = keys + 1
    /\ kbuf' = [kbuf EXCEPT ![kbuf_head] = c]
    /\ kbuf_head' = (kbuf_head + 1) % KBUF_SIZE
    /\ UNCHANGED <<kbuf_tail, line, got, taken, from, done, console>>

KeyboardIrq(c) ==
    LET next == (kbuf_head + 1) % KBUF_SIZE
    IN /\ keys < MaxKeys
       /\ keys' = keys + 1
       /\ \/ /\ next # kbuf_tail
             /\ kbuf' = [kbuf EXCEPT ![kbuf_head] = c]
             /\ kbuf_head' = next
          \/ /\ next = kbuf_tail
             /\ UNCHANGED <<kbuf, kbuf_head>>
       /\ UNCHANGED <<kbuf_tail, line, got, taken, from, done, console>>

\* The characters of the ring, oldest first, and what keyboard_read takes.
Pending == [i \in 1 .. (kbuf_head + KBUF_SIZE - kbuf_tail) % KBUF_SIZE |->
               kbuf[(kbuf_tail + i - 1) % KBUF_SIZE]]

First(s, n) == SubSeq(s, 1, IF n < Len(s) THEN n ELSE Len(s))

KeyboardRead(n) == First(Pending, n)

\* The line array has room for one more character.
Fits(s) == Len(s) < LINE_MAX - 1

\* console_putc of the characters of a text, in the state l of tty_poll.
Out(l, text) == [l EXCEPT !.scr = Puts(@, text), !.paper = TypeAll(@, text)]

\* A bug: the first character of a line cannot be erased.
EraseFromSecond(l) ==
    IF Len(l.line) <= 1 THEN l
    ELSE Out([l EXCEPT !.line = SubSeq(@, 1, Len(@) - 1)], <<"bs", " ", "bs">>)

\* A bug: the cursor is not moved back over the blank.
EraseWithSpace(l) ==
    IF l.line = <<>> THEN l ELSE Out([l EXCEPT !.line = SubSeq(@, 1, Len(@) - 1)], <<"bs", " ">>)

\* A backspace.
Erase(l) ==
    IF l.line = <<>> THEN l
    ELSE Out([l EXCEPT !.line = SubSeq(@, 1, Len(@) - 1)], <<"bs", " ", "bs">>)

\* A character of the line; in the last column it takes the cursor off the row.
Echo(l, c) ==
    Out([l EXCEPT !.line = Append(@, c), !.mixed = @ \/ l.scr.x = COLS - 1], <<c>>)

\* The end of the line.
EndLine(l) ==
    Out([l EXCEPT !.line = IF Fits(@) THEN Append(@, "nl") ELSE @, !.ready = TRUE], <<"nl">>)

\* One turn of the loop of tty_poll on the state l; a line emptied begins anew.
Take(l, c) ==
    LET next == CASE c = "bs" -> Erase(l)
                  [] c # "bs" /\ l.ready -> l
                  [] c = "nl" /\ ~l.ready -> EndLine(l)
                  [] c \in Letter /\ ~l.ready -> IF Fits(l.line) THEN Echo(l, c) ELSE l
    IN IF next.line = <<>> THEN [next EXCEPT !.base = next.scr.x, !.mixed = FALSE] ELSE next

\* The history of a line that begins where the cursor is.
FreshLine == base' = scr'.x /\ mixed' = FALSE

\* SYS_read of len characters from the console: tty_poll, then tty_readline.
SysRead(len) ==
    LET raw == KeyboardRead(RAW_MAX)
        polled[n \in 0 .. Len(raw)] ==
          IF n = 0 THEN [line |-> line, ready |-> FALSE, scr |-> scr, paper |-> paper,
                         base |-> base, mixed |-> mixed]
          ELSE Take(polled[n - 1], raw[n])
        l == polled[Len(raw)]
    IN /\ \/ /\ len < 1
             /\ UNCHANGED <<kbuf_tail, line, got, taken, from, done, console>>
          \/ /\ len >= 1
             /\ kbuf_tail' = (kbuf_tail + Len(raw)) % KBUF_SIZE
             /\ scr' = l.scr /\ paper' = l.paper
             /\ got' = IF l.ready THEN First(l.line, len - 1) ELSE <<>>
             /\ line' = IF l.ready THEN <<>> ELSE l.line
             /\ taken' = taken \o raw
             /\ from' = IF done > 0 THEN Len(taken) ELSE from
             /\ done' = IF l.ready THEN len ELSE 0
             /\ IF l.ready THEN FreshLine ELSE base' = l.base /\ mixed' = l.mixed
       /\ UNCHANGED <<kbuf, kbuf_head, keys>>

\* console_putc of the characters that the kernel or a program prints.
Output(text) ==
    /\ scr' = Puts(scr, text) /\ paper' = TypeAll(paper, text)
    /\ IF line = <<>> THEN FreshLine ELSE mixed' = TRUE /\ UNCHANGED base
    /\ UNCHANGED <<kbuf, kbuf_head, kbuf_tail, line, got, keys, taken, from, done>>

-----------------------------------------------------------------------------
\* The characters of s that no backspace erases: c at i is erased when, from i
\* on, backspaces come to outnumber the other characters.
Survivors(s) ==
    LET in(i, j, bs) == {k \in i + 1 .. j : (s[k] = "bs") = bs}
        erased(i) == \E j \in i + 1 .. Len(s) :
                        Cardinality(in(i, j, TRUE)) > Cardinality(in(i, j, FALSE))
        kept == {i \in 1 .. Len(s) : s[i] # "bs" /\ ~erased(i)}
    IN [n \in 1 .. Cardinality(kept) |->
           s[CHOOSE i \in kept : Cardinality({k \in kept : k <= i}) = n]]

\* Backspaces edit: the line being assembled is what was typed and not erased,
\* and a finished line that fitted and was not edited past its LF reaches the
\* reader as typed, cut to the reader's buffer (tty_poll, tty_readline).
LineIsWhatWasTyped ==
    LET typed == SubSeq(taken, from + 1, Len(taken))
        text == SelectSeq(typed, LAMBDA c : c \in Letter)
        nls == {i \in DOMAIN typed : typed[i] = "nl"}
        end == CHOOSE i \in nls : \A k \in nls : i <= k
        edited == Survivors(SubSeq(typed, 1, end - 1)) \o <<"nl">>
    IN Len(text) < LINE_MAX - 1 =>
         IF done > 0
         THEN (\A k \in end .. Len(typed) : typed[k] # "bs") =>
                 got = First(edited, done - 1)
         ELSE line = Survivors(typed)

\* The user sees what the kernel holds: the input line on the screen is the line
\* buffer up to the cursor, whatever is typed, erased and printed before it, as
\* long as it stays on its row and nobody prints into it (tty_poll, fb_putc).
EchoMatchesLine ==
    ~mixed => /\ scr.x = base + Len(line)
              /\ \A n \in DOMAIN line : scr.cell[scr.y][base + n - 1] = DrawnAs(line[n])

\* The screen is a window on the end of all the output ever printed, through any
\* number of scrolls, wraps and erasures (fb_putc, fb_scroll).
ScreenShowsEnd == ShowsEnd(scr, paper)

\* The interrupt and the reader share the ring without a lock; the ring is a
\* bounded queue of KBUF_SIZE - 1 characters (keyboard_irq, keyboard_read).
Queue == INSTANCE KeyQueue WITH queue <- Pending, Capacity <- KBUF_SIZE - 1
ImplementsKeyQueue == Queue!Spec

\* tty.h says of tty_readline: "LF-terminated" and "returns length including
\* LF".  With a buffer as long as the line array, a line handed out ends in LF.
LineIsTerminated == done > 0 => got # <<>> /\ got[Len(got)] = "nl"
==============================================================================
