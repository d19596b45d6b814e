------------------------------ MODULE PageAlloc ------------------------------
(***************************************************************************)
(* What the users of the page allocator rely on: a call hands out pages    *)
(* nobody holds, keeps some for the allocator's own tables, or takes back  *)
(* one page that somebody holds.                                           *)
(***************************************************************************)
CONSTANTS Pages, Reserved

VARIABLES used,   \* pages in somebody's hands
          got     \* pages the last call handed to its caller

Init == used = Reserved /\ got = {}

Take(S) == S \cap used = {} /\ used' = used \cup S /\ got' = S

Keep(S) == S \cap used = {} /\ used' = used \cup S /\ got' = {}

Give(p) == p \in used /\ used' = used \ {p} /\ got' = {}

Next == \/ \E S \in SUBSET Pages : Take(S) \/ Keep(S)
        \/ \E p \in Pages : Give(p)

Spec == Init /\ [][Next]_<<used, got>>
==============================================================================
