------------------------------- MODULE Enroll --------------------------------
(***************************************************************************)
(* The enroll-config command of limine-install.c: it searches a boot       *)
(* loader for a signature and puts the checksum of a configuration file,   *)
(* or zeros, behind it.  The signature starts with a repeated character,   *)
(* so that a failed match may hold the start of the right one.  Each turn  *)
(* of the search is a step.  Indices are the code's, from 0.               *)
(***************************************************************************)
EXTENDS Integers, SequencesExt

CONSTANTS Byte,        \* the bytes of a boot loader
          Sign,        \* CONFIG_B2SUM_SIGNATURE
          SumLen,      \* characters of a checksum (128)
          MaxBin       \* bound on the size of a boot loader

ASSUME EnrollAssumption ==
    Sign \in Seq(Byte) /\ Sign # <<>> /\ SumLen \in Nat /\ MaxBin \in Nat

min_size == Len(Sign) + SumLen

VARIABLES step,      \* where enroll_config is
          opt,       \* its options: reset, and whether the checksum given is SumLen long
          bin,       \* the file
          i, checked_count, checksum_loc,   \* the search; no location is -1
          ret,       \* what it returned
          was        \* history: the file before

enrollVars == <<step, opt, bin, i, checked_count, checksum_loc, ret, was>>

EnrollInit ==
    /\ step = "open"
    /\ opt \in [reset : BOOLEAN, sum_ok : BOOLEAN]
    /\ bin \in BoundedSeq(Byte, MaxBin)
    /\ i = 0 /\ checked_count = 0 /\ checksum_loc = -1
    /\ ret = "none"
    /\ was = bin

EnrollTypeOK ==
    /\ step \in {"open", "search", "write", "done"}
    /\ i \in 0 .. MaxBin /\ checked_count \in 0 .. Len(Sign)
    /\ checksum_loc \in -1 .. MaxBin
    /\ ret \in {"none", "ok", "failed"}
    /\ Len(bin) = Len(was)

Fails == step' = "done" /\ ret' = "failed"

\* The checks of the arguments and of the size; any of the calls may fail.
OpenFile ==
    /\ step = "open"
    /\ \/ Fails
       \/ /\ opt.reset \/ opt.sum_ok
          /\ Len(bin) >= min_size
          /\ step' = "search"
          /\ UNCHANGED ret
    /\ UNCHANGED <<opt, bin, i, checked_count, checksum_loc, was>>

\* A turn of the search.  After a failed match it goes on behind the first byte of
\* the match.
\* A bug: it goes on behind the byte that did not match.
RestartAfter == i + 1

Restart == i - checked_count + 1

Search ==
    /\ step = "search"
    /\ \/ /\ i >= Len(bin) - min_size + 1
          /\ Fails
          /\ UNCHANGED <<i, checked_count, checksum_loc>>
       \/ /\ i < Len(bin) - min_size + 1
          /\ bin[i + 1] # Sign[checked_count + 1]
          /\ i' = Restart /\ checked_count' = 0
          /\ UNCHANGED <<step, ret, checksum_loc>>
       \/ /\ i < Len(bin) - min_size + 1
          /\ bin[i + 1] = Sign[checked_count + 1]
          /\ checked_count' = checked_count + 1
          /\ IF checked_count + 1 = Len(Sign)
             THEN step' = "write" /\ checksum_loc' = i + 1 /\ UNCHANGED i
             ELSE i' = i + 1 /\ UNCHANGED <<step, checksum_loc>>
          /\ UNCHANGED ret
    /\ UNCHANGED <<opt, bin, was>>

\* The file with the checksum ("#") or zeros in its place.
Enrolled == [k \in DOMAIN bin |->
                IF k \in checksum_loc + 1 .. checksum_loc + SumLen
                THEN IF opt.reset THEN "0" ELSE "#" ELSE bin[k]]

\* A write that fails may have written a part.
WriteFile ==
    /\ step = "write"
    /\ \/ /\ Fails
          /\ \E n \in 0 .. Len(bin) :
                bin' = [k \in DOMAIN bin |-> IF k <= n THEN Enrolled[k] ELSE bin[k]]
       \/ /\ bin' = Enrolled
          /\ step' = "done" /\ ret' = "ok"
    /\ UNCHANGED <<opt, i, checked_count, checksum_loc, was>>

EnrollNext == OpenFile \/ Search \/ WriteFile

-----------------------------------------------------------------------------
\* The places of the signature, by the index of its first byte.
Places(s) ==
    {k \in 0 .. Len(s) - Len(Sign) : SubSeq(s, k + 1, k + Len(Sign)) = Sign}

\* Partial matches hide nothing: a checksum goes behind the first signature of
\* the file and the search gives up only when the part it looks at has none; all
\* other bytes of the file stay, also when the write fails half way (the search
\* loop of enroll_config).
EnrollFindsFirst ==
    LET last == Len(was) - min_size - Len(Sign) + 1
    IN /\ ret = "ok" =>
             \E k \in Places(was) :
                /\ \A o \in Places(was) : k <= o
                /\ \A x \in 1 .. Len(was) :
                      x \notin k + Len(Sign) + 1 .. k + min_size => bin[x] = was[x]
                /\ \A x \in k + Len(Sign) + 1 .. k + min_size :
                      bin[x] = IF opt.reset THEN "0" ELSE "#"
       /\ \A x \in 1 .. Len(was) : bin[x] # was[x] =>
             checksum_loc # -1 /\ x \in checksum_loc + 1 .. checksum_loc + SumLen
       /\ step = "done" /\ i > 0 /\ checksum_loc = -1 =>
             \A k \in Places(was) : k > last

\* "Bootloader file too small (need at least %zu bytes)": a file of that many
\* bytes or more whose signature leaves room for the checksum is accepted.
EnrollUsesRoom ==
    step = "done" /\ i > 0 /\ checksum_loc = -1 =>
        \A k \in Places(was) : k + min_size > Len(was)
==============================================================================
