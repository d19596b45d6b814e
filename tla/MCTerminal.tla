----------------------------- MODULE MCTerminal ------------------------------
(***************************************************************************)
(* Terminal with a ring of four slots, a line of at most three characters, *)
(* a screen of two rows of four columns, and two processes.  "e" is a key  *)
(* without a glyph (escape).  A poll takes at most two characters, so a    *)
(* line may need several reads.                                            *)
(***************************************************************************)
EXTENDS Terminal

MCTexts == {<<"p", "nl", "p">>}
==============================================================================
