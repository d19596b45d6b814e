---------------------------- MODULE LimineProofs -----------------------------
(***************************************************************************)
(* Proofs about module Limine.  enroll-config: for every signature, length *)
(* of checksum and boot loader, the search with restarts finds the first   *)
(* signature and nothing but the checksum is written.                      *)
(***************************************************************************)
EXTENDS Limine, TLAPS

\* s holds the first n characters of the signature from index k on.
HoldsPrefix(s, k, n) == \A m \in 1 .. n : s[k + m] = Sign[m]

\* The search has seen i bytes, the last checked_count of which match, and the
\* signature starts nowhere before them; the write is about to fill the room
\* behind the first place of the signature.
EnrollInv ==
    /\ was \in Seq(Byte)
    /\ bin \in Seq(Byte \cup {"0", "#"}) /\ Len(bin) = Len(was)
    /\ i \in Nat /\ checked_count \in Nat /\ checksum_loc \in Int
    /\ step \in {"open", "search", "write"} => bin = was /\ ret = "none"
    /\ step = "open" => i = 0 /\ checked_count = 0 /\ checksum_loc = -1
    /\ step = "search" =>
          /\ Len(was) >= min_size
          /\ checksum_loc = -1
          /\ checked_count < Len(Sign) /\ checked_count <= i
          /\ HoldsPrefix(was, i - checked_count, checked_count)
          /\ \A k \in Places(was) : k >= i - checked_count
    /\ step = "write" =>
          /\ checksum_loc = i + 1
          /\ checksum_loc + SumLen <= Len(was)
          /\ checksum_loc - Len(Sign) \in Places(was)
          /\ \A k \in Places(was) : checksum_loc - Len(Sign) <= k
    /\ EnrollFindsFirst

\* SubSeq, by elements.
LEMMA PlaceFacts ==
    ASSUME NEW s \in Seq(Byte), NEW k \in 0 .. Len(s) - Len(Sign)
    PROVE  k \in Places(s) <=> HoldsPrefix(s, k, Len(Sign))
<1> USE EnrollAssumption
<1>1. Len(Sign) \in Nat /\ Len(Sign) > 0 /\ Len(s) \in Nat /\ k \in Nat /\ k + Len(Sign) <= Len(s)
  OBVIOUS
<1> DEFINE q == SubSeq(s, k + 1, k + Len(Sign))
<1>2. /\ q \in Seq(Byte) /\ Len(q) = Len(Sign)
      /\ \A m \in 1 .. Len(Sign) : q[m] = s[k + m]
  BY <1>1
<1>3. q = Sign <=> \A m \in 1 .. Len(Sign) : q[m] = Sign[m]
  BY SMTT(30), <1>1, <1>2
<1> QED BY Zenon, <1>2, <1>3 DEF Places, HoldsPrefix

LEMMA EnrollInitInv == EnrollInit \/ NoEnroll => EnrollInv
<1> USE EnrollAssumption
<1>0. SumLen \in Nat /\ Len(Sign) \in Nat
  OBVIOUS
<1>1. ASSUME EnrollInit PROVE EnrollInv
  <2>1. bin \in Seq(Byte)
    BY <1>1 DEF EnrollInit, BoundedSeq, SeqOf
  <2>2. bin \in Seq(Byte \cup {"0", "#"})
    BY <2>1
  <2> QED BY SMTT(30), <1>1, <2>1, <2>2 DEF EnrollInit, EnrollInv, EnrollFindsFirst
<1>2. ASSUME NoEnroll PROVE EnrollInv
  BY SMTT(30), <1>2 DEF NoEnroll, EnrollInv, EnrollFindsFirst
<1> QED BY ZenonT(30), <1>1, <1>2

LEMMA OpenFileKeepsInv == ASSUME EnrollInv, OpenFile PROVE EnrollInv'
<1> USE EnrollAssumption
<1>1. step = "open" /\ i = 0 /\ checked_count = 0 /\ checksum_loc = -1 /\ bin = was
  BY ZenonT(30) DEF OpenFile, EnrollInv
<1>2. UNCHANGED <<opt, bin, i, checked_count, checksum_loc, was>>
  BY ZenonT(30) DEF OpenFile
<1>3. CASE Fails
  BY SMTT(30), <1>1, <1>2, <1>3 DEF Fails, EnrollInv, EnrollFindsFirst
<1>4. CASE Len(bin) >= min_size /\ step' = "search" /\ UNCHANGED ret
  <2>1. \A k \in Places(was) : k >= 0
    BY DEF Places, EnrollInv
  <2>2. Len(Sign) > 0
    OBVIOUS
  <2> QED BY SMTT(30), <1>1, <1>2, <1>4, <2>1, <2>2 DEF EnrollInv, EnrollFindsFirst, HoldsPrefix, Places
<1> QED BY ZenonT(30), <1>3, <1>4 DEF OpenFile

LEMMA SearchKeepsInv == ASSUME EnrollInv, Search PROVE EnrollInv'
<1> USE EnrollAssumption
<1>1. /\ step = "search" /\ bin = was /\ ret = "none" /\ checksum_loc = -1
      /\ Len(was) >= min_size /\ checked_count < Len(Sign) /\ checked_count <= i
      /\ HoldsPrefix(was, i - checked_count, checked_count)
      /\ \A k \in Places(was) : k >= i - checked_count
      /\ was \in Seq(Byte) /\ Len(was) \in Nat /\ i \in Nat /\ checked_count \in Nat
      /\ Len(Sign) \in Nat /\ SumLen \in Nat /\ min_size = Len(Sign) + SumLen
  BY DEF Search, EnrollInv, min_size
<1>2. UNCHANGED <<opt, bin, was>> /\ Places(was') = Places(was)
  BY ZenonT(30) DEF Search
<1>3. Places(was) \subseteq Nat
  BY SMTT(30), <1>1 DEF Places
<1>4. CASE /\ i >= Len(bin) - min_size + 1
           /\ Fails
           /\ UNCHANGED <<i, checked_count, checksum_loc>>
  <2>1. \A k \in Places(was) : k > Len(was) - min_size - Len(Sign) + 1
    BY SMTT(30), <1>1, <1>3, <1>4
  <2>2. EnrollFindsFirst'
    BY ZenonT(30), <1>1, <1>2, <1>4, <2>1 DEF Fails, EnrollFindsFirst, min_size
  <2> QED BY ZenonT(30), <1>1, <1>2, <1>4, <2>2 DEF Fails, EnrollInv
<1>5. CASE /\ i < Len(bin) - min_size + 1
           /\ bin[i + 1] # Sign[checked_count + 1]
           /\ i' = Restart /\ checked_count' = 0
           /\ UNCHANGED <<step, ret, checksum_loc>>
  <2> DEFINE s == i - checked_count
  <2>1. s \in Nat /\ i' = s + 1 /\ i' \in Nat
    BY SMTT(30), <1>1, <1>5 DEF Restart
  <2>2. s \notin Places(was)
    <3> SUFFICES ASSUME s \in Places(was) PROVE FALSE
      BY Zenon
    <3>1. HoldsPrefix(was, s, Len(Sign))
      BY Zenon, <1>1, PlaceFacts DEF Places
    <3>2. was[s + (checked_count + 1)] = Sign[checked_count + 1]
      BY <1>1, <3>1 DEF HoldsPrefix
    <3> QED BY SMTT(30), <1>1, <1>5, <3>2
  <2>3. \A k \in Places(was) : k >= i' - 0
    BY SMTT(30), <1>1, <1>3, <2>1, <2>2
  <2>4. EnrollFindsFirst'
    BY ZenonT(30), <1>1, <1>2, <1>5 DEF EnrollFindsFirst
  <2>5. HoldsPrefix(was, i' - 0, 0)
    BY DEF HoldsPrefix
  <2> QED BY SMTT(30), <1>1, <1>2, <1>5, <2>1, <2>3, <2>4, <2>5 DEF EnrollInv, HoldsPrefix, min_size
<1>6. CASE /\ i < Len(bin) - min_size + 1
           /\ bin[i + 1] = Sign[checked_count + 1]
           /\ checked_count' = checked_count + 1
           /\ IF checked_count + 1 = Len(Sign)
              THEN step' = "write" /\ checksum_loc' = i + 1 /\ UNCHANGED i
              ELSE i' = i + 1 /\ UNCHANGED <<step, checksum_loc>>
           /\ UNCHANGED ret
  <2> DEFINE s == i - checked_count
  <2>1. s \in Nat /\ s + (checked_count + 1) = i + 1
    BY SMTT(30), <1>1
  <2>2. HoldsPrefix(was, s, checked_count + 1)
    BY SMTT(30), <1>1, <1>6, <2>1 DEF HoldsPrefix
  <2>3. EnrollFindsFirst'
    BY ZenonT(30), <1>1, <1>2, <1>6 DEF EnrollFindsFirst
  <2>4. CASE checked_count + 1 = Len(Sign)
    <3>1. s = i + 1 - Len(Sign) /\ s \in 0 .. Len(was) - Len(Sign)
      BY SMTT(30), <1>1, <1>6, <2>1, <2>4
    <3>2. s \in Places(was)
      BY ZenonT(30), <1>1, <2>2, <2>4, <3>1, PlaceFacts
    <3>3. /\ step' = "write" /\ checksum_loc' = i + 1 /\ i' = i
          /\ checksum_loc' + SumLen <= Len(was)
      BY SMTT(30), <1>1, <1>6, <2>4
    <3> QED BY SMTT(30), <1>1, <1>2, <1>6, <2>3, <3>1, <3>2, <3>3 DEF EnrollInv
  <2>5. CASE checked_count + 1 # Len(Sign)
    <3>1. step' = step /\ checksum_loc' = checksum_loc /\ i' = i + 1
      BY ZenonT(30), <1>6, <2>5
    <3>2. i' - checked_count' = s /\ checked_count' < Len(Sign) /\ checked_count' <= i'
      BY SMTT(30), <1>1, <1>6, <2>5, <3>1
    <3> QED BY SMTT(30), <1>1, <1>2, <1>6, <2>2, <2>3, <3>1, <3>2 DEF EnrollInv, HoldsPrefix, min_size
  <2> QED BY ZenonT(30), <2>4, <2>5
<1> QED BY <1>4, <1>5, <1>6, Zenon DEF Search

LEMMA WriteFileKeepsInv == ASSUME EnrollInv, WriteFile PROVE EnrollInv'
<1> USE EnrollAssumption
<1>1. /\ step = "write" /\ bin = was /\ ret = "none" /\ checksum_loc = i + 1
      /\ checksum_loc + SumLen <= Len(was)
      /\ checksum_loc - Len(Sign) \in Places(was)
      /\ \A k \in Places(was) : checksum_loc - Len(Sign) <= k
      /\ was \in Seq(Byte) /\ Len(was) \in Nat /\ i \in Nat
      /\ Len(Sign) \in Nat /\ SumLen \in Nat /\ min_size = Len(Sign) + SumLen
      /\ DOMAIN was = 1 .. Len(was) /\ checked_count \in Nat
  BY DEF WriteFile, EnrollInv, min_size
<1>2. UNCHANGED <<opt, i, checked_count, checksum_loc, was>> /\ step' = "done"
  BY ZenonT(30) DEF WriteFile, Fails
<1>3. /\ \A x \in 1 .. Len(was) : Enrolled[x] =
            IF x \in checksum_loc + 1 .. checksum_loc + SumLen
            THEN IF opt.reset THEN "0" ELSE "#" ELSE was[x]
      /\ Enrolled \in [1 .. Len(was) -> Byte \cup {"0", "#"}]
  BY SMTT(30), <1>1 DEF Enrolled
<1>4. CASE ret' = "failed" /\ \E n \in 0 .. Len(bin) :
              bin' = [k \in DOMAIN bin |-> IF k <= n THEN Enrolled[k] ELSE bin[k]]
  <2> PICK n \in 0 .. Len(bin) :
              bin' = [k \in DOMAIN bin |-> IF k <= n THEN Enrolled[k] ELSE bin[k]]
    BY ZenonT(30), <1>4
  <2>1. /\ bin' \in [1 .. Len(was) -> Byte \cup {"0", "#"}]
        /\ \A x \in 1 .. Len(was) : bin'[x] # was[x] =>
              x \in checksum_loc + 1 .. checksum_loc + SumLen
    BY SMTT(30), <1>1, <1>3
  <2>2. bin' \in Seq(Byte \cup {"0", "#"}) /\ Len(bin') = Len(was)
    BY SMTT(30), <1>1, <2>1
  <2>3. EnrollFindsFirst'
    BY SMTT(30), <1>1, <1>2, <1>4, <2>1 DEF EnrollFindsFirst
  <2> QED BY ZenonT(30), <1>1, <1>2, <2>2, <2>3 DEF EnrollInv
<1>5. CASE bin' = Enrolled /\ ret' = "ok"
  <2>1. bin' \in Seq(Byte \cup {"0", "#"}) /\ Len(bin') = Len(was)
    BY SMTT(30), <1>1, <1>3, <1>5
  <2> DEFINE k == checksum_loc - Len(Sign)
  <2>2. k + Len(Sign) = checksum_loc /\ k + min_size = checksum_loc + SumLen
    BY SMTT(30), <1>1
  <2>3. /\ \A x \in 1 .. Len(was) :
              x \notin k + Len(Sign) + 1 .. k + min_size => bin'[x] = was[x]
        /\ \A x \in k + Len(Sign) + 1 .. k + min_size :
              bin'[x] = IF opt.reset THEN "0" ELSE "#"
    BY SMTT(30), <1>1, <1>3, <1>5, <2>2
  <2>4. \A x \in 1 .. Len(was) : bin'[x] # was[x] =>
              checksum_loc # -1 /\ x \in checksum_loc + 1 .. checksum_loc + SumLen
    BY SMTT(30), <1>1, <1>3, <1>5
  <2> HIDE DEF k
  <2>5. k \in Places(was) /\ \A o \in Places(was) : k <= o
    BY ZenonT(30), <1>1 DEF k
  <2>6. EnrollFindsFirst'
    <3>1. was' = was /\ opt' = opt /\ checksum_loc' = checksum_loc
      BY ZenonT(30), <1>2
    <3>2. checksum_loc # -1
      BY SMTT(30), <1>1
    <3> QED BY <2>3, <2>4, <2>5, <3>1, <3>2, Zenon DEF EnrollFindsFirst, Places, min_size
  <2> QED BY ZenonT(30), <1>1, <1>2, <2>1, <2>6 DEF EnrollInv
<1> QED BY ZenonT(30), <1>4, <1>5 DEF WriteFile, Fails

LEMMA EnrollNextKeepsInv == EnrollInv /\ [EnrollNext]_enrollVars => EnrollInv'
<1> SUFFICES ASSUME EnrollInv, [EnrollNext]_enrollVars PROVE EnrollInv'
  BY ZenonT(30)
<1>1. CASE UNCHANGED enrollVars
  BY Zenon, <1>1 DEF enrollVars, EnrollInv, EnrollFindsFirst, Places, HoldsPrefix, min_size
<1> QED BY ZenonT(30), <1>1, OpenFileKeepsInv, SearchKeepsInv, WriteFileKeepsInv DEF EnrollNext

\* enroll-config puts the checksum behind the first signature of the boot loader
\* and changes nothing else, whatever partial matches come before it, for every
\* signature, length of a checksum and boot loader (enroll_config).
THEOREM SearchFindsFirst == LimineSpec => []EnrollFindsFirst
<1>1. LimineInit => EnrollInv
  BY ZenonT(30), EnrollInitInv DEF LimineInit
<1>2. EnrollInv /\ [LimineNext]_limineVars => EnrollInv'
  BY ZenonT(30), EnrollNextKeepsInv DEF LimineNext, limineVars
<1>3. EnrollInv => EnrollFindsFirst
  BY DEF EnrollInv
<1> QED BY <1>1, <1>2, <1>3, PTL DEF LimineSpec
==============================================================================
