------------------------------ MODULE KeyQueue -------------------------------
(***************************************************************************)
(* What the keyboard driver promises the tty: a first-in first-out queue   *)
(* of at most Capacity characters that drops what does not fit.            *)
(***************************************************************************)
EXTENDS Naturals, Sequences

CONSTANTS Char, Capacity

VARIABLES queue,   \* the characters waiting, oldest first
          taken    \* those handed out so far

Init == queue = <<>> /\ taken = <<>>

Put(c) ==
    /\ queue' = IF Len(queue) < Capacity THEN Append(queue, c) ELSE queue
    /\ UNCHANGED taken

Get(n) ==
    /\ queue' = SubSeq(queue, n + 1, Len(queue))
    /\ taken' = taken \o SubSeq(queue, 1, n)

Next == (\E c \in Char : Put(c)) \/ (\E n \in 0 .. Len(queue) : Get(n))

Spec == Init /\ [][Next]_<<queue, taken>>
==============================================================================
