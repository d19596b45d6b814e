---------------------------- MODULE StorageProofs ----------------------------
(***************************************************************************)
(* Theorems about the disk driver (module VirtioBlk) under the callers of  *)
(* module Uixfs, for any disk, any file system on it, any requests of the  *)
(* other callers, and any width of the ring indices.                       *)
(***************************************************************************)
EXTENDS Uixfs, WellFoundedInduction, TLAPS

\* The device answers before the driver gives up.
Prompt == Slow = FALSE

\* What the driver may conclude once the device is done with the request.
Moved == st = 0 => disk[req.sector] = IF req.type = "read" THEN buf ELSE req.data

ReqJob(moved) == [type |-> req.type, sector |-> req.sector, moved |-> moved]

\* Where the request is: published and not fetched, fetched, moved, or done with.
Stage ==
    \/ pc \in {"sample", "poll"} /\ avail_idx = Incr(fetched) /\ jobs = {}
    \/ pc \in {"sample", "poll"} /\ avail_idx = fetched /\ jobs = {ReqJob(FALSE)}
    \/ pc \in {"sample", "poll"} /\ avail_idx = fetched /\ jobs = {ReqJob(TRUE)} /\ Moved
    \/ avail_idx = fetched /\ jobs = {} /\ (pc \in {"sample", "poll"} => Moved)

\* A request a caller may make: it writes to sectors of the disk only.
Legal(r) == r.type \in Op /\ (r.type = "write" => r.sector \in Sector)

\* The inductive invariant: the header is that of the call, the data page keeps
\* what a write is to write, the request is at one stage, and the used index
\* moves only when it is done with.
DriverInv ==
    /\ pc \in {"idle", "publish", "sample", "poll"}
    /\ avail_idx \in Idx /\ fetched \in Idx
    /\ disk = [s \in Sector |-> disk[s]]
    /\ hdr = [type |-> req.type, sector |-> req.sector]
    /\ Legal(req)
    /\ req.type = "write" /\ pc # "idle" => buf = req.data
    /\ Stage
    /\ pc = "poll" => used_idx = last \/ (jobs = {} /\ fetched = avail_idx)

-----------------------------------------------------------------------------
\* The next index is another one, at the end of the range too (the 16-bit wrap of
\* the avail index in do_request).
LEMMA IncrFacts == \A i \in Idx : Incr(i) \in Idx /\ Incr(i) # i
  <1> SUFFICES ASSUME NEW i \in Idx
               PROVE  Incr(i) \in Idx /\ Incr(i) # i
    OBVIOUS
  <1>1. IdxMod \in Nat /\ IdxMod > 2 /\ i \in Int /\ 0 <= i /\ i < IdxMod
    BY VirtioAssumption DEF Idx
  <1>2. CASE i + 1 < IdxMod
    <2>1. (i + 1) % IdxMod = i + 1
      BY <1>1, <1>2
    <2> QED
      BY <1>1, <1>2, <2>1 DEF Incr, Idx
  <1>3. CASE i + 1 = IdxMod
    <2>1. (i + 1) % IdxMod = 0
      BY <1>1, <1>3
    <2> QED
      BY <1>1, <1>3, <2>1 DEF Incr, Idx
  <1> QED
    BY <1>1, <1>2, <1>3

\* The callers reach the driver only through the first step of a call, and only
\* the other callers write (uixfs_mount and uixfs_read read).
LEMMA StepIsDriverStep ==
    ASSUME [UixfsNext]_uixfsVars
    PROVE  \/ UNCHANGED virtioVars \/ InDriver \/ Device
           \/ \E r : Fill(r) /\ Legal(r)
  <1>1. ASSUME NEW o, NEW lba, NEW s, Call(o, lba, s)
        PROVE  \E r : Fill(r) /\ Legal(r)
    <2> DEFINE r == [type |-> "read", sector |-> lba, data |-> s]
    <2>1. Fill(r)
      BY <1>1 DEF Call
    <2>2. Legal(r)
      BY DEF Legal, Op
    <2> QED
      BY <2>1, <2>2
  <1>2. ASSUME Return
        PROVE  UNCHANGED virtioVars
    BY <1>2 DEF Return
  <1>3. CASE UNCHANGED uixfsVars
    BY <1>3 DEF uixfsVars
  <1>4. CASE Mount
    BY ZenonT(30), <1>1, <1>4 DEF Mount
  <1>5. CASE SuperRead
    BY ZenonT(30), <1>1, <1>2, <1>5 DEF SuperRead
  <1>6. CASE DirRead
    BY ZenonT(30), <1>1, <1>2, <1>6 DEF DirRead
  <1>7. CASE FileRead
    BY <1>1, <1>2, <1>7 DEF FileRead
  <1>8. CASE RawBack
    BY ZenonT(30), <1>2, <1>8 DEF RawBack
  <1>9. ASSUME NEW name \in Names, UixfsRead(name)
        PROVE  \/ UNCHANGED virtioVars
               \/ \E r : Fill(r) /\ Legal(r)
    BY ZenonT(30), <1>1, <1>2, <1>9 DEF UixfsRead
  <1>10. ASSUME NEW r \in Raw, RawCall(r)
         PROVE  Fill(r) /\ Legal(r)
    BY ZenonT(30), <1>10, UixfsAssumption DEF RawCall, Raw, Legal, Op
  <1> QED
    BY ZenonT(30), <1>3, <1>4, <1>5, <1>6, <1>7, <1>8, <1>9, <1>10 DEF UixfsNext, Caller

-----------------------------------------------------------------------------
\* The driver starts with empty rings and no request.
LEMMA InitDriverInv == UixfsInit => DriverInv
  <1> SUFFICES ASSUME UixfsInit
               PROVE  DriverInv
    OBVIOUS
  <1>1. VirtioInit
    BY Zenon DEF UixfsInit
  <1>2. disk = [s \in Sector |-> disk[s]]
    BY Zenon DEF UixfsInit, Image
  <1>3. 0 \in Idx
    BY VirtioAssumption DEF Idx
  <1> QED
    BY ZenonT(30), <1>1, <1>2, <1>3 DEF VirtioInit, DriverInv, Stage, Legal, Op

\* do_request writes the descriptors of a new request.
LEMMA FillKeepsInv ==
    ASSUME DriverInv, NEW r, Fill(r), Legal(r)
    PROVE  DriverInv'
  BY DEF DriverInv, Stage, Moved, Fill, Legal, device, Idx, Incr

\* do_request makes the chain available and rings the doorbell.
LEMMA PublishKeepsInv ==
    ASSUME DriverInv, Publish
    PROVE  DriverInv'
  <1>1. avail_idx' \in Idx
    BY IncrFacts DEF DriverInv, Publish
  <1>2. pc = "publish" /\ avail_idx = fetched /\ jobs = {}
    BY DEF DriverInv, Stage, Publish
  <1>3. Stage'
    BY ZenonT(30), <1>2 DEF Stage, Publish, device, Incr
  <1> QED
    BY ZenonT(30), <1>1, <1>2, <1>3 DEF DriverInv, Publish, device, Idx

\* do_request looks at the used index.
LEMMA SampleKeepsInv ==
    ASSUME DriverInv, Sample
    PROVE  DriverInv'
  <1>1. Moved' = Moved /\ ReqJob(FALSE)' = ReqJob(FALSE) /\ ReqJob(TRUE)' = ReqJob(TRUE)
    BY DEF Sample, Moved, ReqJob, device
  <1>2. Incr(fetched)' = Incr(fetched)
    BY DEF Sample, Incr, device
  <1>3. Stage'
    BY Zenon, <1>1, <1>2 DEF DriverInv, Stage, Sample, device
  <1> QED
    BY ZenonT(30), <1>3 DEF DriverInv, Sample, device, Idx

\* When the loop ends, the device is done with the request.
LEMMA LoopEndsDone ==
    ASSUME Prompt, DriverInv, Complete \/ Timeout
    PROVE  avail_idx = fetched /\ jobs = {} /\ Moved
  <1>1. avail_idx = fetched /\ jobs = {}
    BY DEF Prompt, DriverInv, Complete, Timeout, Progress
  <1>2. fetched # Incr(fetched)
    BY IncrFacts DEF DriverInv
  <1>3. pc = "poll"
    BY ZenonT(30) DEF Complete, Timeout
  <1> QED
    BY Zenon, <1>1, <1>2, <1>3 DEF DriverInv, Stage

\* do_request returns with the status of the request it waited for.
LEMMA ReturnKeepsInv ==
    ASSUME Prompt, DriverInv, Complete \/ Timeout
    PROVE  DriverInv'
  <1>1. avail_idx = fetched /\ jobs = {}
    BY ZenonT(30), LoopEndsDone
  <1>2. /\ pc' = "idle"
        /\ UNCHANGED <<req, last, hdr, st, buf, avail_idx, used_idx, device>>
    BY DEF Complete, Timeout
  <1>3. Stage'
    BY ZenonT(30), <1>1, <1>2 DEF Stage, device
  <1> QED
    BY ZenonT(30), <1>1, <1>2, <1>3 DEF DriverInv, device, Idx

\* The device takes a chain off the available ring.
LEMMA DevFetchKeepsInv ==
    ASSUME DriverInv, DevFetch
    PROVE  DriverInv'
  <1>1. /\ pc \in {"sample", "poll"} /\ avail_idx = Incr(fetched) /\ jobs = {}
        /\ (pc = "poll" => used_idx = last)
    BY Zenon DEF DriverInv, Stage, DevFetch
  <1>2. fetched' = avail_idx /\ jobs' = {ReqJob(FALSE)}
    BY ZenonT(30), <1>1 DEF DriverInv, DevFetch, ReqJob
  <1>3. Stage'
    BY ZenonT(30), <1>1, <1>2 DEF Stage, DevFetch, ReqJob, driver
  <1> QED
    BY ZenonT(30), <1>1, <1>2, <1>3 DEF DriverInv, DevFetch, driver, Idx

\* The device moves the data and writes the status.
LEMMA DevMoveKeepsInv ==
    ASSUME DriverInv, NEW j \in jobs, DevMove(j)
    PROVE  DriverInv'
  <1>1. /\ pc \in {"sample", "poll"} /\ avail_idx = fetched
        /\ jobs = {ReqJob(FALSE)} /\ j = ReqJob(FALSE)
    BY DEF DriverInv, Stage, DevMove, ReqJob
  <1>2. jobs' = {ReqJob(TRUE)}
    BY <1>1 DEF DevMove, ReqJob
  <1>3. UNCHANGED <<pc, req, last, hdr, avail_idx, used_idx, fetched>>
    BY ZenonT(30) DEF DevMove, driver
  <1>4. Moved' /\ disk' = [s \in Sector |-> disk'[s]] /\ (req.type = "write" => buf' = buf)
    <2>1. CASE req.type = "read"
      <3>1. disk' = disk /\ (st' = 0 => buf' = disk[req.sector])
        BY <1>1, <2>1 DEF DevMove, ReqJob
      <3> QED
        BY <1>3, <2>1, <3>1 DEF DriverInv, Moved
    <2>2. CASE req.type = "write"
      <3>1. /\ buf = req.data /\ req.sector \in Sector
            /\ disk = [s \in Sector |-> disk[s]]
        BY <1>1, <2>2 DEF DriverInv, Legal
      <3>2. /\ buf' = buf
            /\ \/ st' = 0 /\ disk' = [disk EXCEPT ![req.sector] = buf]
               \/ st' = 1 /\ disk' = disk
        BY ZenonT(30), <1>1, <2>2 DEF DevMove, ReqJob
      <3> QED
        BY SMTT(30), <1>3, <2>2, <3>1, <3>2 DEF Moved
    <2> QED
      BY ZenonT(30), <2>1, <2>2 DEF DriverInv, Legal, Op
  <1>5. Stage'
    BY ZenonT(30), <1>1, <1>2, <1>4, <1>3 DEF Stage, ReqJob
  <1>6. pc = "poll" => used_idx = last
    BY Zenon, <1>1 DEF DriverInv
  <1> QED
    BY ZenonT(30), <1>4, <1>3, <1>5, <1>6 DEF DriverInv, Idx

\* The device puts the chain on the used ring.
LEMMA DevUsedKeepsInv ==
    ASSUME DriverInv, NEW j \in jobs, DevUsed(j)
    PROVE  DriverInv'
  <1>1. /\ pc \in {"sample", "poll"} /\ avail_idx = fetched
        /\ jobs = {ReqJob(TRUE)} /\ j = ReqJob(TRUE) /\ Moved
    BY DEF DriverInv, Stage, DevUsed, ReqJob
  <1>2. jobs' = {}
    BY Zenon, <1>1 DEF DevUsed
  <1>3. UNCHANGED <<pc, req, last, hdr, st, buf, avail_idx, fetched, disk>>
    BY DEF DevUsed, driver
  <1>4. Stage'
    BY Zenon, <1>1, <1>2, <1>3 DEF Stage, Moved
  <1> QED
    BY ZenonT(30), <1>1, <1>2, <1>3, <1>4 DEF DriverInv, Idx

\* A step that leaves the driver alone.
LEMMA StutterKeepsInv ==
    ASSUME DriverInv, UNCHANGED virtioVars
    PROVE  DriverInv'
  BY ZenonT(30) DEF DriverInv, Stage, Moved, ReqJob, Incr, Idx, virtioVars, driver, device

\* Every step of a caller, the driver or the device.
LEMMA StepKeepsInv ==
    ASSUME Prompt, DriverInv, [UixfsNext]_uixfsVars
    PROVE  DriverInv'
  BY ZenonT(30), StepIsDriverStep, FillKeepsInv, PublishKeepsInv, SampleKeepsInv, ReturnKeepsInv,
     DevFetchKeepsInv, DevMoveKeepsInv, DevUsedKeepsInv, StutterKeepsInv
     DEF InDriver, Device

-----------------------------------------------------------------------------
\* The inductive invariant holds always.
THEOREM DriverInvariance ==
    ASSUME Prompt
    PROVE  UixfsSpec => []DriverInv
  <1>1. UixfsInit => DriverInv
    BY InitDriverInv
  <1>2. DriverInv /\ [UixfsNext]_uixfsVars => DriverInv'
    BY StepKeepsInv
  <1> QED
    BY <1>1, <1>2, PTL DEF UixfsSpec

\* "single request at a time" (virtio_blk.h), for any callers, disk and width of the
\* indices: with a device that answers in time, it has nothing to do whenever no
\* caller is in the driver, so that header and buffer may be used again.
THEOREM OneRequestAtATime ==
    ASSUME Prompt
    PROVE  UixfsSpec => []SingleRequest
  <1>1. DriverInv => SingleRequest
    BY Zenon DEF DriverInv, Stage, SingleRequest
  <1> QED
    BY <1>1, DriverInvariance, PTL

\* What do_request reports is true of the disk, for any callers, disk and width of
\* the indices: a call that returns 0 has the data of the sector it named, or put
\* its own there.
THEOREM DriverTellsTruth ==
    ASSUME Prompt
    PROVE  UixfsSpec => SuccessIsReal
  <1>1. DriverInv /\ [UixfsNext]_uixfsVars =>
            [out' # out /\ out'.ret = 0 => disk[out'.req.sector] = out'.data]_virtioVars
    <2> SUFFICES ASSUME DriverInv, [UixfsNext]_uixfsVars, out' # out, out'.ret = 0
                 PROVE  disk[out'.req.sector] = out'.data
      BY Zenon
    <2>1. Complete \/ Timeout
      BY ZenonT(30), StepIsDriverStep
         DEF InDriver, Device, Fill, Publish, Sample, DevFetch, DevMove, DevUsed, virtioVars
    <2>2. Complete /\ st = 0
      BY <2>1 DEF Complete, Timeout
    <2>3. Moved
      BY ZenonT(30), <2>1, LoopEndsDone
    <2> QED
      BY <2>2, <2>3 DEF Complete, Moved
  <1> QED
    BY <1>1, DriverInvariance, PTL DEF UixfsSpec, SuccessIsReal

-----------------------------------------------------------------------------
(* Numbers.                                                                 *)

\* Of the numbers in a set one is the least.
LEMMA LeastExists ==
    ASSUME NEW S \in SUBSET Nat, S # {}
    PROVE  \E m \in S : \A k \in S : m <= k
  <1> DEFINE R == OpToRel(<, Nat)
  <1>1. IsWellFoundedOn(R, Nat)
    BY Zenon, NatLessThanWellFounded
  <1>2. \A x, y \in Nat : x < y => <<x, y>> \in R
    BY DEF OpToRel
  <1> HIDE DEF R
  <1>3. PICK m \in S : \A y \in S : ~(<<y, m>> \in R)
    BY Zenon, <1>1, WFMin
  <1>4. \A k \in S : ~(k < m)
    BY Zenon, <1>2, <1>3
  <1> QED
    BY <1>4

\* Induction up to N, for the set G of the numbers that have the property.
LEMMA InductionUpTo ==
    ASSUME NEW N \in Nat, NEW G, 1 \in G,
           \A n \in 2 .. N : n - 1 \in G => n \in G
    PROVE  \A n \in 1 .. N : n \in G
  <1> SUFFICES ASSUME NEW c \in 1 .. N, c \notin G
               PROVE  FALSE
    OBVIOUS
  <1> DEFINE Bad == {n \in 1 .. N : n \notin G}
  <1>1. Bad \in SUBSET Nat /\ c \in Bad
    OBVIOUS
  <1>2. PICK m \in Bad : \A k \in Bad : m <= k
    BY Zenon, <1>1, LeastExists
  <1>3. m \in 2 .. N /\ m - 1 \in 1 .. N /\ m - 1 < m
    BY <1>2
  <1>4. m - 1 \in Bad
    BY ZenonT(30), <1>2, <1>3
  <1> HIDE DEF Bad
  <1> QED
    BY <1>2, <1>3, <1>4

\* Blocks of P units: q of them that start before unit n are fewer than it takes to
\* hold n units.
LEMMA BlockFacts ==
    ASSUME NEW P \in Nat \ {0}, NEW n \in Nat, NEW q \in Nat
    PROVE  /\ (n + P - 1) \div P \in Nat
           /\ q * P \in Nat /\ (q * P) \div P = q /\ (q + 1) * P = q * P + P
           /\ q * P < n => q < (n + P - 1) \div P
  <1> DEFINE r == (n + P - 1) \div P
  <1>1. r \in Nat /\ r * P + P > n + P - 1
    OBVIOUS
  <1>2. q * P \in Nat /\ (q * P) \div P = q /\ (q + 1) * P = q * P + P
    OBVIOUS
  <1>3. ASSUME q * P < n, ~(q < r)
        PROVE  FALSE
    <2> HIDE DEF r
    <2>1. r * P <= q * P
      BY <1>1, <1>3
    <2> QED
      BY <1>1, <1>2, <1>3, <2>1
  <1> QED
    BY ZenonT(30), <1>1, <1>2, <1>3

-----------------------------------------------------------------------------
(* What mkuixfs.py packs.                                                   *)

\* Sums of a row of numbers exist as a table.
LEMMA SumExists ==
    ASSUME NEW N \in Nat, NEW d \in Nat, NEW w \in [1 .. N -> Nat]
    PROVE  \E f \in [1 .. N -> Nat] :
              \A n \in 1 .. N : /\ n = 1 => f[n] = d
                                /\ n # 1 => f[n] = f[n - 1] + w[n - 1]
  <1> DEFINE Good(m, f) == \A n \in 1 .. m : /\ n = 1 => f[n] = d
                                             /\ n # 1 => f[n] = f[n - 1] + w[n - 1]
             G == {m \in Nat : \E f \in [1 .. m -> Nat] : Good(m, f)}
  <1>0. CASE N = 0
    <2> DEFINE f == [n \in 1 .. 0 |-> d]
    <2>1. f \in [1 .. 0 -> Nat] /\ Good(0, f)
      OBVIOUS
    <2> QED
      BY Zenon, <1>0, <2>1
  <1>1. 1 \in G
    <2> DEFINE f == [n \in 1 .. 1 |-> d]
    <2>1. f \in [1 .. 1 -> Nat] /\ Good(1, f)
      OBVIOUS
    <2> HIDE DEF f
    <2> QED
      BY <2>1
  <1>2. ASSUME NEW m \in 2 .. N, m - 1 \in G
        PROVE  m \in G
    <2>1. PICK f \in [1 .. m - 1 -> Nat] : Good(m - 1, f)
      BY Zenon, <1>2
    <2> DEFINE v == f[m - 1] + w[m - 1]
               h == [n \in 1 .. m |-> IF n = m THEN v ELSE f[n]]
    <2>2. v \in Nat
      OBVIOUS
    <2>3. h \in [1 .. m -> Nat]
      BY <2>2
    <2>4. ASSUME NEW n \in 1 .. m
          PROVE  (n = 1 => h[n] = d) /\ (n # 1 => h[n] = h[n - 1] + w[n - 1])
      <3>1. CASE n = m
        BY <3>1
      <3>2. CASE n # m
        <4>1. n \in 1 .. m - 1 /\ h[n] = f[n] /\ (n # 1 => h[n - 1] = f[n - 1])
          BY <3>2
        <4> HIDE DEF h
        <4> QED
          BY ZenonT(30), <2>1, <4>1
      <3> QED
        BY Zenon, <3>1, <3>2
    <2> HIDE DEF h
    <2>5. m \in Nat
      OBVIOUS
    <2> QED
      BY <2>3, <2>4, <2>5, Zenon
  <1> HIDE DEF G
  <1>3. CASE N # 0
    <2>1. \A n \in 1 .. N : n \in G
      BY Zenon, <1>1, <1>2, InductionUpTo
    <2>2. N \in G
      BY <1>3, <2>1
    <2> QED
      BY Zenon, <2>2 DEF G
  <1> QED
    BY Zenon, <1>0, <1>3

SectorsOf(files, i) == Sectors(Len(files[i].blob))

\* uixfs_mount's clamp leaves a number of files that fits the directory alone.
LEMMA AllEntriesFit == \A n \in Nat : n <= NFILES_MAX => Least(n, NFILES_MAX) = n
  BY UixfsAssumption DEF Least

\* What ArchiveAssumption says of one archive.
LEMMA FilesFacts ==
    ASSUME NEW files \in Archives
    PROVE  /\ DOMAIN files = 1 .. Len(files) /\ Len(files) \in Nat /\ Len(files) <= NFILES_MAX
           /\ \A i \in DOMAIN files : /\ files[i].blob \in Seq(Nat) /\ Len(files[i].blob) \in Nat
                                      /\ SectorsOf(files, i) \in Nat
           /\ DATA_LBA \in Nat \ {0}
  <1>1. /\ files \in Seq({files[i] : i \in DOMAIN files}) /\ Len(files) <= NFILES_MAX
        /\ \A i \in DOMAIN files : files[i].blob \in Seq(Nat)
    BY Zenon, ArchiveAssumption
  <1>2. DOMAIN files = 1 .. Len(files) /\ Len(files) \in Nat
    BY <1>1
  <1>3. \A i \in DOMAIN files : files[i].blob \in Seq(Nat) /\ Len(files[i].blob) \in Nat
    BY <1>1
  <1>4. \A i \in DOMAIN files : SectorsOf(files, i) \in Nat
    BY Zenon, <1>3, BlockFacts, UixfsAssumption DEF SectorsOf, Sectors
  <1>5. (NFILES_MAX + PerSector - 1) \div PerSector \in Nat
    BY BlockFacts, UixfsAssumption
  <1> QED
    BY <1>1, <1>2, <1>3, <1>4, <1>5 DEF DATA_LBA

\* Each file starts behind the one before it.
LEMMA StartFacts ==
    ASSUME NEW files \in Archives
    PROVE  \A i \in DOMAIN files :
              /\ StartOf(files, i) \in Nat
              /\ StartOf(files, i) =
                    IF i = 1 THEN DATA_LBA ELSE StartOf(files, i - 1) + SectorsOf(files, i - 1)
  <1> DEFINE N == Len(files)
             w == [i \in 1 .. N |-> SectorsOf(files, i)]
             Is(lba) == lba = [n \in DOMAIN files |->
                            IF n = 1 THEN DATA_LBA
                            ELSE lba[n - 1] + Sectors(Len(files[n - 1].blob))]
             t == CHOOSE lba : Is(lba)
  <1>1. /\ DOMAIN files = 1 .. N /\ N \in Nat /\ DATA_LBA \in Nat
        /\ \A i \in 1 .. N : SectorsOf(files, i) \in Nat
    BY FilesFacts
  <1>2. w \in [1 .. N -> Nat]
    BY <1>1
  <1>3. PICK f \in [1 .. N -> Nat] :
            \A n \in 1 .. N : /\ n = 1 => f[n] = DATA_LBA
                              /\ n # 1 => f[n] = f[n - 1] + w[n - 1]
    <2> HIDE DEF N, w
    <2> QED
      BY <1>1, <1>2, SumExists, Zenon
  <1>4. \A n \in 1 .. N : n # 1 => w[n - 1] = Sectors(Len(files[n - 1].blob))
    BY <1>1 DEF SectorsOf
  <1> HIDE DEF w
  <1>5. Is(f)
    <2>1. \A n \in 1 .. N : f[n] = IF n = 1 THEN DATA_LBA
                                   ELSE f[n - 1] + Sectors(Len(files[n - 1].blob))
      BY Zenon, <1>3, <1>4
    <2> QED
      BY <1>1, <2>1, Zenon
  <1>6. Is(t)
    BY <1>5, Zenon
  <1>7. \A i : StartOf(files, i) = t[i]
    BY DEF StartOf
  <1> HIDE DEF t
  <1>8. \A n \in 1 .. N : t[n] = IF n = 1 THEN DATA_LBA ELSE t[n - 1] + SectorsOf(files, n - 1)
    BY Zenon, <1>1, <1>6 DEF SectorsOf
  <1>9. \A n \in 1 .. N : t[n] \in Nat
    <2> DEFINE G == {n \in Nat : n > N \/ t[n] \in Nat}
    <2>1. 1 \in G
      BY <1>1, <1>8
    <2>2. ASSUME NEW n \in 2 .. N, n - 1 \in G
          PROVE  n \in G
      <3>1. n - 1 \in 1 .. N /\ t[n - 1] \in Nat
        BY <1>1, <2>2
      <3>2. t[n] = t[n - 1] + SectorsOf(files, n - 1)
        BY <1>1, <1>8
      <3> QED
        BY <1>1, <3>1, <3>2
    <2> HIDE DEF G
    <2>3. \A n \in 1 .. N : n \in G
      BY Zenon, <1>1, <2>1, <2>2, InductionUpTo
    <2> QED
      BY <1>1, <2>3 DEF G
  <1> QED
    BY Zenon, <1>1, <1>7, <1>8, <1>9

\* The sectors of two files are apart.
LEMMA FilesApart ==
    ASSUME NEW files \in Archives, NEW i \in DOMAIN files
    PROVE  /\ StartOf(files, i) >= DATA_LBA
           /\ \A j \in DOMAIN files :
                 i < j => StartOf(files, i) + SectorsOf(files, i) <= StartOf(files, j)
  <1> DEFINE N == Len(files)
             S(k) == StartOf(files, k)
             W(k) == SectorsOf(files, k)
  <1>1. /\ DOMAIN files = 1 .. N /\ N \in Nat /\ DATA_LBA \in Nat
        /\ \A k \in 1 .. N : W(k) \in Nat
    BY ZenonT(30), FilesFacts
  <1>2. \A k \in 1 .. N : S(k) \in Nat /\ S(k) = IF k = 1 THEN DATA_LBA ELSE S(k - 1) + W(k - 1)
    BY ZenonT(30), <1>1, StartFacts
  <1> HIDE DEF S, W
  <1> DEFINE G == {k \in Nat : k > N \/ (S(k) >= DATA_LBA /\ (i < k => S(i) + W(i) <= S(k)))}
  <1>3. 1 \in G
    BY <1>1, <1>2
  <1>4. ASSUME NEW k \in 2 .. N, k - 1 \in G
        PROVE  k \in G
    <2>1. k - 1 \in 1 .. N /\ i \in 1 .. N
      BY <1>1
    <2>2. S(k) = S(k - 1) + W(k - 1) /\ S(k - 1) \in Nat /\ W(k - 1) \in Nat /\ S(k) \in Nat
      BY <1>1, <1>2, <2>1
    <2>3. CASE i = k - 1
      BY <1>1, <1>2, <1>4, <2>1, <2>2, <2>3
    <2>4. CASE i # k - 1
      BY SMTT(30), <1>1, <1>2, <1>4, <2>1, <2>2, <2>4
    <2> QED
      BY ZenonT(30), <2>3, <2>4
  <1> HIDE DEF G
  <1>5. \A k \in 1 .. N : k \in G
    BY Zenon, <1>1, <1>3, <1>4, InductionUpTo
  <1>6. \A k \in 1 .. N : S(k) >= DATA_LBA /\ (i < k => S(i) + W(i) <= S(k))
    BY <1>1, <1>5 DEF G
  <1> QED
    BY ZenonT(30), <1>1, <1>6 DEF S, W

\* Sector n of file i, counted from its start.
LEMMA DataAt ==
    ASSUME NEW files \in Archives, NEW i \in DOMAIN files, NEW n \in Nat,
           n < SectorsOf(files, i)
    PROVE  LET s == StartOf(files, i) + n
               b == files[i].blob
           IN /\ s \in Sector \ Scratch
              /\ Image(files)[s] = <<"data", [k \in 1 .. SECT |->
                     IF n * SECT + k <= Len(b) THEN b[n * SECT + k] ELSE 0]>>
  <1> DEFINE s == StartOf(files, i) + n
             b == files[i].blob
             here == {j \in DOMAIN files :
                        s \in StartOf(files, j) .. StartOf(files, j) + Sectors(Len(files[j].blob)) - 1}
             unit(j, k) == LET m == (s - StartOf(files, j)) * SECT + k
                           IN IF m <= Len(files[j].blob) THEN files[j].blob[m] ELSE 0
  <1>1. /\ DOMAIN files = 1 .. Len(files) /\ Len(files) \in Nat
        /\ \A j \in DOMAIN files : SectorsOf(files, j) \in Nat /\ StartOf(files, j) \in Nat
        /\ DATA_LBA \in Nat \ {0}
    BY FilesFacts, StartFacts
  <1>2. s \in StartOf(files, i) .. StartOf(files, i) + SectorsOf(files, i) - 1
    BY <1>1
  <1>3. s \in Sector \ Scratch
    BY Zenon, <1>2, ArchiveAssumption DEF SectorsOf
  <1>4. s >= DATA_LBA /\ s \in Nat
    BY <1>1, FilesApart
  <1>5. here = {i}
    <2>1. i \in here
      BY ZenonT(30), <1>2 DEF SectorsOf
    <2>2. ASSUME NEW j \in DOMAIN files, j \in here
          PROVE  j = i
      <3>1. s \in StartOf(files, j) .. StartOf(files, j) + SectorsOf(files, j) - 1
        BY <2>2 DEF SectorsOf
      <3>2. /\ i < j => StartOf(files, i) + SectorsOf(files, i) <= StartOf(files, j)
            /\ j < i => StartOf(files, j) + SectorsOf(files, j) <= StartOf(files, i)
        BY Zenon, <2>2, FilesApart
      <3>3. ~(i < j) /\ ~(j < i)
        BY SMTT(30), <1>1, <1>2, <3>1, <3>2
      <3> QED
        BY <1>1, <3>2, <3>3
    <2> HIDE DEF s
    <2>3. here \subseteq DOMAIN files
      OBVIOUS
    <2> QED
      BY Zenon, <2>1, <2>2, <2>3
  <1>6. s - StartOf(files, i) = n
    BY <1>1
  <1> DEFINE f == [k \in 1 .. SECT |-> IF n * SECT + k <= Len(b) THEN b[n * SECT + k] ELSE 0]
             c == CHOOSE j \in here : TRUE
  <1>7. DataSector(files, s) = <<"data", [k \in 1 .. SECT |-> unit(c, k)]>>
    <2> HIDE DEF s
    <2> QED
      BY Zenon, <1>5 DEF DataSector
  <1>8. c = i
    <2> HIDE DEF here
    <2> QED
      BY <1>5
  <1>9. Image(files)[s] = DataSector(files, s)
    <2> HIDE DEF s
    <2> QED
      BY <1>1, <1>3, <1>4 DEF Image
  <1> HIDE DEF here, s, c
  <1>10. \A k \in 1 .. SECT : unit(c, k) = f[k]
    BY <1>6, <1>8
  <1>11. [k \in 1 .. SECT |-> unit(c, k)] = f
    <2> HIDE DEF unit
    <2> QED
      BY <1>10
  <1>12. Image(files)[s] = <<"data", f>>
    <2> HIDE DEF f, unit
    <2> QED
      BY Zenon, <1>7, <1>9, <1>11
  <1> HIDE DEF f
  <1>13. s = StartOf(files, i) + n
    BY DEF s
  <1> QED
    BY Zenon, <1>3, <1>12, <1>13 DEF f

\* The directory in full, and sector m of it, counted from its start.
Directory(files) == [i \in DOMAIN files |-> Entry(files, i)]

\* The directory of mkuixfs.py has an entry for each file.
LEMMA DirectoryFacts ==
    ASSUME NEW files \in Archives
    PROVE  /\ Directory(files) \in Seq({Entry(files, i) : i \in DOMAIN files})
           /\ Len(Directory(files)) = Len(files)
  <1> DEFINE S == {Entry(files, i) : i \in DOMAIN files}
  <1>1. DOMAIN files = 1 .. Len(files) /\ Len(files) \in Nat
    BY FilesFacts
  <1>2. Directory(files) \in [1 .. Len(files) -> S]
    <2>1. Directory(files) \in [DOMAIN files -> S]
      BY Zenon DEF Directory
    <2> QED
      BY Zenon, <1>1, <2>1
  <1> HIDE DEF S
  <1>3. Directory(files) \in Seq(S) /\ Len(Directory(files)) = Len(files)
    BY <1>1, <1>2
  <1> QED
    BY Zenon, <1>3 DEF S

\* The entries of a directory sector are those of its files.
LEMMA DirAt ==
    ASSUME NEW files \in Archives, NEW m \in Nat, m * PerSector < Len(files)
    PROVE  LET n == Least(PerSector, Len(files) - m * PerSector)
           IN /\ 1 + m \in Sector \ Scratch
              /\ Image(files)[1 + m] = <<"dir", [k \in 1 .. n |-> Entry(files, m * PerSector + k)]>>
  <1> DEFINE s == 1 + m
             first == m * PerSector
             n == Least(PerSector, Len(files) - m * PerSector)
  <1>1. /\ Len(files) \in Nat /\ Len(files) <= NFILES_MAX /\ DATA_LBA \in Nat
        /\ NFILES_MAX \in Nat /\ PerSector \in Nat \ {0}
    BY FilesFacts, UixfsAssumption
  <1>2. first \in Nat /\ first < NFILES_MAX
    BY <1>1, BlockFacts
  <1>3. m < (NFILES_MAX + PerSector - 1) \div PerSector
    BY ZenonT(30), <1>1, <1>2, BlockFacts
  <1>4. (NFILES_MAX + PerSector - 1) \div PerSector \in Nat
    BY ZenonT(30), <1>1, BlockFacts
  <1>5. s \in 0 .. DATA_LBA - 1 /\ s < DATA_LBA /\ s # 0
    BY <1>3, <1>4 DEF DATA_LBA
  <1>6. s \in Sector \ Scratch
    BY Zenon, <1>5, ArchiveAssumption
  <1>7. Image(files)[s] = DirSector(files, s)
    <2> HIDE DEF s
    <2> QED
      BY Zenon, <1>5, <1>6 DEF Image
  <1>8. (s - 1) * PerSector = first /\ Len(files) > first
    OBVIOUS
  <1>9. DirSector(files, s) = <<"dir", [k \in 1 .. n |-> Entry(files, first + k)]>>
    <2>1. DirSector(files, s) =
             <<"dir", [k \in 1 .. Least(PerSector, IF Len(files) > (s - 1) * PerSector
                                                   THEN Len(files) - (s - 1) * PerSector ELSE 0)
                          |-> Entry(files, (s - 1) * PerSector + k)]>>
      BY Zenon DEF DirSector
    <2> HIDE DEF s, first
    <2>2. n = Least(PerSector, Len(files) - first)
      BY DEF first
    <2> HIDE DEF n
    <2> QED
      BY ZenonT(30), <1>8, <2>1, <2>2
  <1> QED
    BY Zenon, <1>6, <1>7, <1>9

-----------------------------------------------------------------------------
(* The file system.                                                         *)

\* The disk holds what was packed, outside of the other callers' sectors.
OnDisk == archive \in Archives /\ \A s \in Sector \ Scratch : disk[s] = Image(archive)[s]

\* The sector the file system waits for.
FsOp == {"super", "dir", "file"}
Lba == CASE op = "super" -> 0
         [] op = "dir" -> 1 + Len(entries) \div PerSector
         [] op = "file" -> file.start_lba + Len(file_buf) \div SECT

\* part is what the first sectors, of size units each, hold of all, and not the whole.
PartOf(part, all, size) ==
    /\ Len(part) < Len(all)
    /\ \A k \in 1 .. Len(part) : part[k] = all[k]
    /\ \E q \in 0 .. Len(part) : Len(part) = q * size

Named(name) == {i \in DOMAIN archive : archive[i].name = name}
FirstNamed(name) == CHOOSE i \in Named(name) : \A k \in Named(name) : i <= k

MountInv ==
    /\ op \in {"boot", "super", "dir"} => ~mounted /\ got.ret = -1
    /\ op \in {"boot", "super"} => entries = <<>>
    /\ op = "dir" => /\ OnDisk /\ nfiles = Len(archive)
                     /\ entries \in Seq({Entry(archive, i) : i \in DOMAIN archive})
                     /\ PartOf(entries, Directory(archive), PerSector)
    /\ mounted => OnDisk /\ nfiles = Len(archive) /\ entries = Directory(archive)

\* What ReadIsFile says of the last call.
Result ==
    /\ got.ret >= 0 => file_buf = Packed(got.name) /\ got.ret = Len(file_buf)
    /\ got.ret = -2 => \A i \in DOMAIN archive : archive[i].name # got.name

ReadInv ==
    op = "file" =>
       /\ mounted
       /\ Named(file.name) # {} /\ file = Entry(archive, FirstNamed(file.name))
       /\ file_buf \in Seq(Nat)
       /\ PartOf(file_buf, Packed(file.name), SECT)

\* The inductive invariant: the directory is copied as far as it was read, and so is
\* the file; the driver is at the sector that comes next, or has its data.
FsInv ==
    /\ op \in {"boot", "super", "dir", "file", "raw", "idle"}
    /\ OnDisk \/ (archive = <<>> /\ disk[0] = Zero)
    /\ req.type = "write" => req.sector \in Scratch
    /\ op \in FsOp => /\ req.type = "read" /\ req.sector = Lba
                      /\ pc = "idle" /\ out.ret = 0 => out.data = disk[req.sector]
    /\ MountInv
    /\ ReadInv
    /\ op \in {"raw", "idle"} => Result

-----------------------------------------------------------------------------
(* What a sector adds.                                                      *)

\* The first c units of chunk, a sector or what is left, are what part lacks next.
Follows(chunk, c, part, all, size, S) ==
    /\ part \in Seq(S) /\ all \in Seq(S) /\ chunk \in Seq(S)
    /\ size \in Nat \ {0} /\ PartOf(part, all, size)
    /\ c \in Nat /\ c <= Len(chunk) /\ Len(part) + c <= Len(all)
    /\ c = size \/ Len(part) + c = Len(all)
    /\ \A k \in 1 .. c : chunk[k] = all[Len(part) + k]

\* What was read is all, or a part that ends with a sector.
SoFar(part, all, size, S) ==
    /\ part \in Seq(S) /\ Len(part) <= Len(all)
    /\ Len(part) = Len(all) => part = all
    /\ Len(part) # Len(all) => PartOf(part, all, size)

\* Two sequences of one length that agree everywhere are equal.
LEMMA SameSequence ==
    ASSUME NEW S, NEW a \in Seq(S), NEW b \in Seq(S), Len(a) = Len(b),
           \A k \in 1 .. Len(a) : a[k] = b[k]
    PROVE  a = b
  OBVIOUS

\* The next sector of all takes part one sector further, or to the end.
LEMMA SectorAdds ==
    ASSUME NEW S, NEW part, NEW all, NEW chunk, NEW size, NEW c,
           Follows(chunk, c, part, all, size, S)
    PROVE  SoFar(part \o SubSeq(chunk, 1, c), all, size, S)
  <1> DEFINE r == part \o SubSeq(chunk, 1, c)
  <1>r. r = part \o SubSeq(chunk, 1, c)
    OBVIOUS
  <1> HIDE DEF r
  <1>0. /\ part \in Seq(S) /\ all \in Seq(S) /\ chunk \in Seq(S)
        /\ size \in Nat \ {0} /\ PartOf(part, all, size)
        /\ c \in Nat /\ c <= Len(chunk) /\ Len(part) + c <= Len(all)
        /\ c = size \/ Len(part) + c = Len(all)
        /\ \A k \in 1 .. c : chunk[k] = all[Len(part) + k]
    BY Zenon DEF Follows
  <1>1. /\ Len(part) < Len(all) /\ Len(part) \in Nat /\ Len(all) \in Nat
        /\ Len(part) + c <= Len(all)
        /\ \A k \in 1 .. Len(part) : part[k] = all[k]
    BY <1>0 DEF PartOf
  <1>2. PICK q \in 0 .. Len(part) : Len(part) = q * size
    BY Zenon, <1>0 DEF PartOf
  <1>3. c > 0
    BY <1>0, <1>1
  <1>4. /\ r \in Seq(S) /\ Len(r) = Len(part) + c
        /\ \A k \in 1 .. Len(r) : r[k] = all[k]
        /\ Len(r) = Len(all) => r = all
    <2> DEFINE t == SubSeq(chunk, 1, c)
    <2>1. t \in Seq(S) /\ Len(t) = c /\ \A k \in 1 .. c : t[k] = chunk[k]
      BY <1>0
    <2> HIDE DEF t
    <2>2. /\ r \in Seq(S) /\ Len(r) = Len(part) + c
          /\ \A k \in 1 .. Len(part) : r[k] = part[k]
          /\ \A k \in Len(part) + 1 .. Len(part) + c : r[k] = t[k - Len(part)]
      BY <1>0, <1>r, <2>1 DEF t
    <2>3. ASSUME NEW k \in 1 .. Len(r)
          PROVE  r[k] = all[k]
      <3>1. CASE k <= Len(part)
        BY <1>0, <1>1, <2>2, <3>1
      <3>2. CASE k > Len(part)
        <4>1. k - Len(part) \in 1 .. c /\ k \in Len(part) + 1 .. Len(part) + c
          BY <1>0, <1>1, <2>2, <3>2
        <4>2. r[k] = chunk[k - Len(part)]
          BY ZenonT(30), <2>1, <2>2, <4>1
        <4>3. chunk[k - Len(part)] = all[Len(part) + (k - Len(part))]
          BY Zenon, <1>0, <4>1
        <4>4. Len(part) + (k - Len(part)) = k
          BY <1>1, <4>1
        <4> QED
          BY ZenonT(30), <4>2, <4>3, <4>4
      <3> QED
        BY <1>0, <1>1, <2>2, <3>1, <3>2
    <2>4. Len(r) = Len(all) => r = all
      BY Zenon, <1>0, <2>2, <2>3, SameSequence
    <2> QED
      BY Zenon, <2>2, <2>3, <2>4
  <1>5. ASSUME Len(r) # Len(all)
        PROVE  PartOf(r, all, size)
    <2>1. c = size /\ Len(r) < Len(all)
      BY <1>0, <1>1, <1>3, <1>4, <1>5
    <2>2. q \in Nat /\ (q + 1) * size = q * size + size
      BY <1>0, <1>2, BlockFacts
    <2>3. Len(r) = (q + 1) * size
      BY ZenonT(30), <1>2, <1>4, <2>1, <2>2
    <2>4. q + 1 \in 0 .. Len(r)
      BY <1>0, <1>1, <1>3, <1>4
    <2> QED
      BY Zenon, <1>4, <2>1, <2>3, <2>4 DEF PartOf
  <1>6. Len(r) <= Len(all)
    BY ZenonT(30), <1>1, <1>3, <1>4
  <1>7. SoFar(r, all, size, S)
    BY Zenon, <1>4, <1>5, <1>6 DEF SoFar
  <1> QED
    BY Zenon, <1>7, <1>r

\* No units of a file were read yet.
LEMMA EmptyPart ==
    ASSUME NEW all, Len(all) \in Nat, Len(all) > 0, NEW size \in Nat
    PROVE  PartOf(<<>>, all, size)
  <1>1. Len(<<>>) = 0 /\ 0 * size = 0 /\ 0 \in 0 .. 0
    OBVIOUS
  <1> QED
    BY <1>1 DEF PartOf

-----------------------------------------------------------------------------
(* The steps of the file system.                                            *)

\* The superblock and the directory are on the disk, out of reach of other callers.
LEMMA FirstSectors == 0 \in Sector \ Scratch /\ \A s \in 0 .. DATA_LBA - 1 : s \in Sector \ Scratch
  <1>1. (NFILES_MAX + PerSector - 1) \div PerSector \in Nat
    BY ZenonT(30), BlockFacts, UixfsAssumption
  <1>2. 0 \in 0 .. DATA_LBA - 1
    BY <1>1 DEF DATA_LBA
  <1> QED
    BY Zenon, <1>2, ArchiveAssumption

\* The first entry with a name is that of the file packed under it.
LEMMA NamedFacts ==
    ASSUME OnDisk, NEW name, Named(name) # {}
    PROVE  /\ FirstNamed(name) \in DOMAIN archive
           /\ archive[FirstNamed(name)].name = name
           /\ Packed(name) = archive[FirstNamed(name)].blob
           /\ Packed(name) \in Seq(Nat)
  <1>1. archive \in Archives /\ DOMAIN archive \subseteq Nat
    BY FilesFacts DEF OnDisk
  <1>2. Named(name) \in SUBSET Nat
    BY <1>1 DEF Named
  <1>3. \E m \in Named(name) : \A k \in Named(name) : m <= k
    BY Zenon, <1>2, LeastExists
  <1>4. FirstNamed(name) \in Named(name)
    BY Zenon, <1>3 DEF FirstNamed
  <1>5. Packed(name) = archive[FirstNamed(name)].blob
    BY Zenon DEF Packed, FirstNamed, Named
  <1> QED
    BY Zenon, <1>1, <1>4, <1>5, FilesFacts DEF Named

\* A step that does not touch the names leaves what was packed under them.
LEMMA SamePacked ==
    ASSUME UNCHANGED archive
    PROVE  \A name : /\ Named(name)' = Named(name) /\ FirstNamed(name)' = FirstNamed(name)
                     /\ Packed(name)' = Packed(name)
  BY Zenon DEF Named, FirstNamed, Packed

\* The invariant holds of a packed disk and of an empty one.
LEMMA InitFsInv == UixfsInit => FsInv
  <1> SUFFICES ASSUME UixfsInit
               PROVE  FsInv
    OBVIOUS
  <1>1. OnDisk \/ (archive = <<>> /\ disk[0] = Zero)
    <2>1. CASE archive \in Archives /\ disk = Image(archive)
      BY Zenon, <2>1 DEF OnDisk
    <2>2. CASE archive = <<>> /\ disk = [s \in Sector |-> Zero]
      BY ZenonT(30), <2>2, VirtioAssumption
    <2> QED
      BY Zenon, <2>1, <2>2 DEF UixfsInit
  <1>2. req.type = "read" /\ op = "boot" /\ mounted = FALSE /\ entries = <<>> /\ got.ret = -1
    BY Zenon DEF UixfsInit, VirtioInit
  <1> QED
    BY ZenonT(30), <1>1, <1>2 DEF FsInv, FsOp, MountInv, ReadInv

\* What the driver and the device do leaves the files alone, and brings the data of
\* the sector asked for.
LEMMA DriverKeepsFs ==
    ASSUME Prompt, DriverInv, FsInv, InDriver \/ Device, UNCHANGED <<op, sector, fs>>
    PROVE  FsInv'
  <1>1. UNCHANGED <<op, sector, mounted, nfiles, entries, file, file_buf, got, archive>>
    BY Zenon DEF fs
  <1>2. ASSUME NEW j \in jobs, DevMove(j)
        PROVE  /\ pc \in {"sample", "poll"} /\ j = ReqJob(FALSE)
    BY <1>2 DEF DriverInv, Stage, DevMove, ReqJob
  <1>3. /\ req' = req
        /\ \A s \in Sector \ Scratch : disk'[s] = disk[s]
    <2>1. CASE Publish \/ Sample \/ Complete \/ Timeout
      BY Zenon, <2>1 DEF Publish, Sample, Complete, Timeout, device
    <2>2. CASE DevFetch
      BY Zenon, <2>2 DEF DevFetch, driver
    <2>3. ASSUME NEW j \in jobs, DevUsed(j)
          PROVE  req' = req /\ disk' = disk
      BY Zenon, <2>3 DEF DevUsed, driver
    <2>4. ASSUME NEW j \in jobs, DevMove(j)
          PROVE  req' = req /\ \A s \in Sector \ Scratch : disk'[s] = disk[s]
      <3>1. j.type = req.type /\ j.sector = req.sector
        BY <1>2, <2>4 DEF ReqJob
      <3>2. req' = req
        BY Zenon, <2>4 DEF DevMove, driver
      <3>3. CASE req.type = "write"
        <4>1. req.sector \in Scratch /\ disk = [s \in Sector |-> disk[s]]
          BY Zenon, <3>3 DEF FsInv, DriverInv
        <4>2. disk' = disk \/ disk' = [disk EXCEPT ![req.sector] = buf]
          BY Zenon, <2>4, <3>1 DEF DevMove
        <4> QED
          BY ZenonT(30), <3>2, <4>1, <4>2
      <3>4. CASE req.type # "write"
        BY Zenon, <2>4, <3>1, <3>2, <3>4 DEF DevMove
      <3> QED
        BY Zenon, <3>3, <3>4
    <2> QED
      BY Zenon, <2>1, <2>2, <2>3, <2>4 DEF InDriver, Device
  <1>4. ASSUME op \in FsOp, pc' = "idle", out'.ret = 0
        PROVE  out'.data = disk'[req.sector]
    <2>1. req.type = "read"
      BY Zenon, <1>4 DEF FsInv
    <2>2. CASE Publish \/ Sample
      BY ZenonT(30), <1>4, <2>2 DEF Publish, Sample
    <2>3. CASE Timeout
      BY <1>4, <2>3 DEF Timeout
    <2>4. CASE Complete
      <3>1. Moved
        BY Zenon, <2>4, LoopEndsDone
      <3>2. out' = [req |-> req, ret |-> IF st = 0 THEN 0 ELSE -5, data |-> buf] /\ disk' = disk
        BY ZenonT(30), <2>1, <2>4 DEF Complete, device
      <3>3. st = 0
        BY <1>4, <3>2
      <3> QED
        BY ZenonT(30), <2>1, <3>1, <3>2, <3>3 DEF Moved
    <2>5. CASE Device
      <3>1. pc = "idle"
        BY Zenon, <1>4, <2>5 DEF Device, DevFetch, DevMove, DevUsed, driver
      <3>2. avail_idx = fetched /\ jobs = {}
        BY <3>1 DEF DriverInv, Stage
      <3> QED
        BY Zenon, <2>5, <3>2 DEF Device, DevFetch
    <2> QED
      BY Zenon, <2>2, <2>3, <2>4, <2>5 DEF InDriver
  <1>5. OnDisk => OnDisk'
    BY Zenon, <1>1, <1>3 DEF OnDisk
  <1>6. disk'[0] = disk[0]
    BY Zenon, <1>3, FirstSectors
  <1>7. MountInv'
    BY ZenonT(30), <1>1, <1>5 DEF FsInv, MountInv
  <1>8. ReadInv' /\ (op \in {"raw", "idle"} => Result')
    <2>1. \A name : /\ Named(name)' = Named(name) /\ FirstNamed(name)' = FirstNamed(name)
                    /\ Packed(name)' = Packed(name)
      BY Zenon, <1>1, SamePacked
    <2> QED
      BY ZenonT(30), <1>1, <2>1 DEF FsInv, ReadInv, Result
  <1>9. Lba' = Lba
    BY ZenonT(30), <1>1 DEF Lba
  <1> QED
    BY Zenon, <1>1, <1>3, <1>4, <1>5, <1>6, <1>7, <1>8, <1>9 DEF FsInv

\* uixfs_mount asks for the superblock.
LEMMA MountKeepsFs ==
    ASSUME FsInv, Mount
    PROVE  FsInv'
  <1>1. /\ op = "boot" /\ op' = "super"
        /\ req'.type = "read" /\ req'.sector = 0 /\ pc' = "publish" /\ disk' = disk
        /\ UNCHANGED <<mounted, nfiles, entries, file, file_buf, got, archive>>
    BY DEF Mount, Call, Fill, fs, device
  <1>2. Lba' = 0
    BY Zenon, <1>1 DEF Lba
  <1>3. OnDisk' = OnDisk
    BY Zenon, <1>1 DEF OnDisk
  <1>4. MountInv' /\ ReadInv'
    BY ZenonT(30), <1>1, <1>3 DEF FsInv, MountInv, ReadInv
  <1> QED
    BY ZenonT(30), <1>1, <1>2, <1>3, <1>4 DEF FsInv, FsOp

\* The buffer after a successful read holds the sector asked for.
LEMMA BackFacts ==
    ASSUME FsInv, NEW o \in FsOp, Back(o), out.ret = 0
    PROVE  op = o /\ out.data = disk[Lba]
  BY ZenonT(30) DEF FsInv, Back

\* A call of the file system that returns leaves the driver alone.
LEMMA ReturnFacts ==
    ASSUME Return
    PROVE  op' = "idle" /\ UNCHANGED <<pc, req, out, disk>>
  BY ZenonT(30) DEF Return, virtioVars, driver, device

\* A call of virtio_blk_read starts a request and leaves the disk alone.
LEMMA CallFacts ==
    ASSUME NEW o, NEW lba, NEW s, Call(o, lba, s)
    PROVE  /\ op' = o /\ pc' = "publish" /\ disk' = disk
           /\ req'.type = "read" /\ req'.sector = lba
  BY DEF Call, Fill, device

\* A mount that gives up leaves the file system unmounted.
LEMMA GiveUpKeepsFs ==
    ASSUME FsInv, ~mounted, got.ret = -1, Return, UNCHANGED fs
    PROVE  FsInv'
  <1>1. UNCHANGED <<mounted, nfiles, entries, file, file_buf, got, archive>>
    BY Zenon DEF fs
  <1>2. OnDisk' = OnDisk /\ disk' = disk /\ req' = req /\ op' = "idle"
    BY Zenon, <1>1, ReturnFacts DEF OnDisk
  <1>3. MountInv' /\ ReadInv'
    BY Zenon, <1>1, <1>2 DEF MountInv, ReadInv
  <1>4. Result'
    <2>1. got'.ret = -1
      BY Zenon, <1>1
    <2> QED
      BY <2>1 DEF Result
  <1> QED
    BY Zenon, <1>1, <1>2, <1>3, <1>4 DEF FsInv, FsOp

\* uixfs_mount takes the number of files from the superblock.
LEMMA SuperReadKeepsFs ==
    ASSUME FsInv, SuperRead
    PROVE  FsInv'
  <1>1. op = "super" /\ ~mounted /\ got.ret = -1 /\ entries = <<>>
    BY ZenonT(30) DEF SuperRead, Back, FsInv, MountInv
  <1>2. CASE Return /\ UNCHANGED fs
    BY Zenon, <1>1, <1>2, GiveUpKeepsFs
  <1>3. CASE /\ out.ret = 0 /\ out.data[1] = "super"
             /\ nfiles' = Least(out.data[2], NFILES_MAX)
             /\ mounted' = (nfiles' = 0)
             /\ IF mounted' THEN Return ELSE Call("dir", 1, sector')
             /\ UNCHANGED <<entries, file, file_buf, got, archive>>
    <2>1. out.data = disk[0]
      <3>1. "super" \in FsOp /\ Back("super")
        BY Zenon DEF SuperRead, FsOp
      <3>2. out.data = disk[Lba]
        BY Zenon, <1>3, <3>1, BackFacts
      <3>3. Lba = 0
        BY Zenon, <1>1 DEF Lba
      <3> QED
        BY Zenon, <3>2, <3>3
    <2>2. OnDisk
      <3>1. disk[0] # Zero
        BY ZenonT(30), <1>3, <2>1, UixfsAssumption
      <3> QED
        BY Zenon, <3>1 DEF FsInv
    <2>3. /\ archive \in Archives /\ Len(archive) \in Nat /\ Len(archive) <= NFILES_MAX
          /\ DOMAIN archive = 1 .. Len(archive)
      BY ZenonT(30), <2>2, FilesFacts DEF OnDisk
    <2>4. out.data[2] = Len(archive)
      <3>1. Image(archive)[0] = <<"super", Len(archive)>>
        BY FirstSectors DEF Image
      <3>2. disk[0] = <<"super", Len(archive)>>
        BY Zenon, <2>2, <3>1, FirstSectors DEF OnDisk
      <3> QED
        BY <2>1, <3>2
    <2>5. nfiles' = Len(archive)
      <3>1. nfiles' = Least(Len(archive), NFILES_MAX)
        BY Zenon, <1>3, <2>4
      <3>2. Least(Len(archive), NFILES_MAX) = Len(archive)
        BY Zenon, <2>3, AllEntriesFit
      <3> QED
        BY Zenon, <3>1, <3>2
    <2>6. /\ Directory(archive) \in Seq({Entry(archive, i) : i \in DOMAIN archive})
          /\ Len(Directory(archive)) = Len(archive)
      BY ZenonT(30), <2>3, DirectoryFacts
    <2>7. CASE nfiles' = 0
      <3>1. Directory(archive) = <<>>
        BY <2>5, <2>6, <2>7
      <3>2. op' = "idle" /\ UNCHANGED <<disk, req>> /\ mounted' = TRUE
        BY Zenon, <1>3, <2>7, ReturnFacts
      <3>3. OnDisk'
        BY ZenonT(30), <1>3, <2>2, <3>2 DEF OnDisk
      <3>4. Result'
        <4>1. got'.ret = -1
          BY Zenon, <1>1, <1>3
        <4> QED
          BY <4>1 DEF Result
      <3>5. MountInv'
        <4>1. nfiles' = Len(archive') /\ entries' = Directory(archive')
          BY Zenon, <1>1, <1>3, <2>5, <3>1
        <4> QED
          BY ZenonT(30), <3>2, <3>3, <4>1 DEF MountInv
      <3>6. ReadInv' /\ op' \notin FsOp
        BY ZenonT(30), <3>2 DEF ReadInv, FsOp
      <3>7. (req.type = "write" => req.sector \in Scratch)'
        BY Zenon, <3>2 DEF FsInv
      <3> QED
        BY ZenonT(30), <3>2, <3>3, <3>4, <3>5, <3>6, <3>7 DEF FsInv
    <2>8. CASE nfiles' # 0
      <3>1. mounted' = FALSE /\ Call("dir", 1, sector')
        BY Zenon, <1>3, <2>8
      <3>2. /\ op' = "dir" /\ pc' = "publish" /\ disk' = disk
            /\ req'.type = "read" /\ req'.sector = 1
        BY Zenon, <3>1, CallFacts
      <3>3. OnDisk'
        BY Zenon, <1>3, <2>2, <3>2 DEF OnDisk
      <3>4. Lba' = 1
        <4>1. Lba' = 1 + Len(entries') \div PerSector
          BY Zenon, <3>2 DEF Lba
        <4>2. Len(entries') = 0 /\ 0 \div PerSector = 0
          BY <1>1, <1>3, UixfsAssumption
        <4> QED
          BY <4>1, <4>2
      <3>5. /\ PartOf(entries', Directory(archive'), PerSector)
            /\ entries' \in Seq({Entry(archive', i) : i \in DOMAIN archive'})
        <4>1. entries' = <<>> /\ archive' = archive
          BY Zenon, <1>1, <1>3
        <4>2. PartOf(<<>>, Directory(archive), PerSector)
          <5>1. Len(Directory(archive)) \in Nat /\ Len(Directory(archive)) # 0
            BY ZenonT(30), <2>3, <2>5, <2>6, <2>8
          <5>2. \A m \in Nat : m # 0 => m > 0
            OBVIOUS
          <5>3. Len(Directory(archive)) > 0 /\ PerSector \in Nat
            BY Zenon, <5>1, <5>2, UixfsAssumption
          <5> QED
            BY Zenon, <5>1, <5>3, EmptyPart
        <4> QED
          BY <4>1, <4>2
      <3>6. MountInv'
        BY ZenonT(30), <1>1, <1>3, <2>5, <3>1, <3>2, <3>3, <3>5 DEF MountInv
      <3> QED
        BY ZenonT(30), <3>2, <3>3, <3>4, <3>6 DEF FsInv, FsOp, ReadInv
    <2> QED
      BY Zenon, <2>7, <2>8
  <1> QED
    BY Zenon, <1>2, <1>3 DEF SuperRead

\* uixfs_mount copies the entries of one directory sector.
LEMMA DirReadKeepsFs ==
    ASSUME FsInv, DirRead
    PROVE  FsInv'
  <1> DEFINE S == {Entry(archive, i) : i \in DOMAIN archive}
             all == Directory(archive)
  <1>1. /\ op = "dir" /\ ~mounted /\ got.ret = -1 /\ OnDisk /\ nfiles = Len(archive)
        /\ entries \in Seq(S) /\ PartOf(entries, all, PerSector)
    BY ZenonT(30) DEF DirRead, Back, FsInv, MountInv
  <1>2. CASE Return /\ UNCHANGED fs
    BY Zenon, <1>1, <1>2, GiveUpKeepsFs
  <1>3. CASE /\ out.ret = 0
             /\ entries' = entries \o UpTo(out.data[2], nfiles - Len(entries))
             /\ mounted' = (Len(entries') = nfiles)
             /\ IF mounted' THEN Return
                ELSE Call("dir", 1 + Len(entries') \div PerSector, sector')
             /\ UNCHANGED <<nfiles, file, file_buf, got, archive>>
    <2>1. /\ archive \in Archives /\ Len(archive) \in Nat /\ DOMAIN archive = 1 .. Len(archive)
          /\ all \in Seq(S) /\ Len(all) = Len(archive)
          /\ \A i \in DOMAIN archive : all[i] = Entry(archive, i)
      <3>1. archive \in Archives
        BY Zenon, <1>1 DEF OnDisk
      <3> QED
        BY Zenon, <3>1, FilesFacts, DirectoryFacts DEF Directory
    <2> HIDE DEF S, all
    <2>2. PICK m \in 0 .. Len(entries) : Len(entries) = m * PerSector
      BY Zenon, <1>1 DEF PartOf
    <2>3. /\ Len(entries) \in Nat /\ Len(entries) < Len(archive) /\ PerSector \in Nat \ {0}
          /\ m \in Nat /\ (m * PerSector) \div PerSector = m
      BY <1>1, <2>1, BlockFacts, UixfsAssumption DEF PartOf
    <2> DEFINE c == Least(PerSector, Len(archive) - Len(entries))
               chunk == [k \in 1 .. c |-> Entry(archive, Len(entries) + k)]
    <2>4. out.data[2] = chunk
      <3>1. "dir" \in FsOp /\ Back("dir")
        BY Zenon DEF DirRead, FsOp
      <3>2. out.data = disk[Lba]
        BY Zenon, <1>3, <3>1, BackFacts
      <3>3. Lba = 1 + m
        BY ZenonT(30), <1>1, <2>2, <2>3 DEF Lba
      <3>4. /\ 1 + m \in Sector \ Scratch
            /\ Image(archive)[1 + m] = <<"dir", chunk>>
        BY Zenon, <2>1, <2>2, <2>3, DirAt
      <3>5. out.data = <<"dir", chunk>>
        BY Zenon, <1>1, <3>2, <3>3, <3>4 DEF OnDisk
      <3> HIDE DEF chunk
      <3> QED
        BY <3>5
    <2>5. /\ c \in Nat /\ c > 0 /\ Len(entries) + c <= Len(all)
          /\ c = PerSector \/ Len(entries) + c = Len(all)
      BY <2>1, <2>3 DEF Least
    <2>6. /\ chunk \in Seq(S) /\ Len(chunk) = c
          /\ \A k \in 1 .. c : chunk[k] = all[Len(entries) + k]
      <3> HIDE DEF c
      <3>0. /\ Len(entries) + c <= Len(archive) /\ Len(entries) \in Nat
            /\ c \in Nat /\ Len(archive) \in Nat
        BY Zenon, <2>1, <2>3, <2>5
      <3>1. ASSUME NEW k \in 1 .. c
            PROVE  Len(entries) + k \in 1 .. Len(archive)
        BY <3>0
      <3>2. chunk \in [1 .. c -> S]
        <4>1. \A k \in 1 .. c : Entry(archive, Len(entries) + k) \in S
          BY Zenon, <2>1, <3>1 DEF S
        <4> QED
          BY Zenon, <4>1
      <3>3. \A k \in 1 .. c : chunk[k] = all[Len(entries) + k]
        BY Zenon, <2>1, <3>1
      <3> HIDE DEF chunk
      <3> QED
        BY <2>5, <3>2, <3>3
    <2>7. entries' = entries \o SubSeq(chunk, 1, c)
      <3>1. Least(nfiles - Len(entries), Len(chunk)) = c
        BY <1>1, <2>1, <2>3, <2>6 DEF Least
      <3> HIDE DEF c, chunk
      <3> QED
        BY Zenon, <1>3, <2>4, <3>1 DEF UpTo
    <2> HIDE DEF c, chunk
    <2>8. Follows(chunk, c, entries, all, PerSector, S)
      <3>1. c <= Len(chunk)
        BY <2>5, <2>6
      <3> QED
        BY Zenon, <1>1, <2>1, <2>3, <2>5, <2>6, <3>1 DEF Follows
    <2>9. /\ entries' \in Seq(S) /\ Len(entries') <= Len(all)
          /\ Len(entries') = Len(all) => entries' = all
          /\ Len(entries') # Len(all) => PartOf(entries', all, PerSector)
      <3>1. SoFar(entries \o SubSeq(chunk, 1, c), all, PerSector, S)
        BY Zenon, <2>8, SectorAdds
      <3>2. SoFar(entries', all, PerSector, S)
        BY ZenonT(30), <2>7, <3>1
      <3> QED
        BY Zenon, <3>2 DEF SoFar
    <2>10. CASE mounted'
      <3>1. Return /\ Len(entries') = Len(all) /\ mounted' = TRUE
        BY Zenon, <1>1, <1>3, <2>1, <2>10
      <3>2. op' = "idle" /\ UNCHANGED <<disk, req>>
        BY Zenon, <3>1, ReturnFacts
      <3>3. OnDisk'
        BY Zenon, <1>1, <1>3, <3>2 DEF OnDisk
      <3>4. entries' = Directory(archive')
        BY Zenon, <1>3, <2>9, <3>1 DEF all
      <3>5. Result'
        <4>1. got'.ret = -1
          BY Zenon, <1>1, <1>3
        <4> QED
          BY <4>1 DEF Result
      <3>6. MountInv'
        BY ZenonT(30), <1>1, <1>3, <3>2, <3>3, <3>4 DEF MountInv
      <3>7. ReadInv' /\ op' \notin FsOp
        BY ZenonT(30), <3>2 DEF ReadInv, FsOp
      <3>8. (req.type = "write" => req.sector \in Scratch)'
        BY Zenon, <3>2 DEF FsInv
      <3> QED
        BY ZenonT(30), <3>2, <3>3, <3>5, <3>6, <3>7, <3>8 DEF FsInv
    <2>11. CASE ~mounted'
      <3>1. /\ Call("dir", 1 + Len(entries') \div PerSector, sector') /\ mounted' = FALSE
            /\ Len(entries') # Len(all)
        BY Zenon, <1>1, <1>3, <2>1, <2>11
      <3>2. /\ op' = "dir" /\ pc' = "publish" /\ disk' = disk
            /\ req'.type = "read" /\ req'.sector = 1 + Len(entries') \div PerSector
        BY Zenon, <3>1, CallFacts
      <3>3. OnDisk'
        BY Zenon, <1>1, <1>3, <3>2 DEF OnDisk
      <3>4. Lba' = 1 + Len(entries') \div PerSector
        BY Zenon, <3>2 DEF Lba
      <3>5. /\ PartOf(entries', Directory(archive'), PerSector)
            /\ entries' \in Seq({Entry(archive', i) : i \in DOMAIN archive'})
        BY Zenon, <1>3, <2>9, <3>1 DEF all, S
      <3>6. MountInv'
        BY ZenonT(30), <1>1, <1>3, <3>1, <3>2, <3>3, <3>5 DEF MountInv
      <3> QED
        BY Zenon, <3>2, <3>3, <3>4, <3>6 DEF FsInv, FsOp, ReadInv
    <2> QED
      BY Zenon, <2>10, <2>11
  <1> QED
    BY Zenon, <1>2, <1>3 DEF DirRead

\* Once the directory is copied, the search finds the files as they were packed.
LEMMA SearchFacts ==
    ASSUME FsInv, mounted
    PROVE  /\ OnDisk /\ archive \in Archives /\ DOMAIN archive = 1 .. Len(archive)
           /\ \A i \in DOMAIN archive : entries[i] = Entry(archive, i)
           /\ \A name : Matches(name) = Named(name)
  <1>1. OnDisk /\ nfiles = Len(archive) /\ entries = Directory(archive)
    BY Zenon DEF FsInv, MountInv
  <1>2. archive \in Archives /\ DOMAIN archive = 1 .. Len(archive)
    BY Zenon, <1>1, FilesFacts DEF OnDisk
  <1>3. \A i \in DOMAIN archive : entries[i] = Entry(archive, i)
    BY Zenon, <1>1 DEF Directory
  <1>4. \A i \in DOMAIN archive : entries[i].name = archive[i].name
    <2>1. \A i : Entry(archive, i).name = archive[i].name
      BY DEF Entry
    <2> QED
      BY Zenon, <1>3, <2>1
  <1>5. \A name : Matches(name) = Named(name)
    BY Zenon, <1>1, <1>2, <1>4 DEF Matches, Named
  <1> QED
    BY Zenon, <1>1, <1>2, <1>3, <1>5

\* The entry of a name gives its file: where it starts and how long it is.
LEMMA EntryFacts ==
    ASSUME OnDisk, NEW name, Named(name) # {}
    PROVE  LET i == FirstNamed(name)
               e == Entry(archive, i)
           IN /\ i \in DOMAIN archive /\ archive \in Archives
              /\ e.name = name /\ e.size = Len(Packed(name)) /\ e.size \in Nat
              /\ e.start_lba = StartOf(archive, i) /\ e.start_lba \in Nat
              /\ Packed(name) \in Seq(Nat) /\ Packed(name) = archive[i].blob
  <1> DEFINE i == FirstNamed(name)
  <1>1. /\ i \in DOMAIN archive /\ archive[i].name = name
        /\ Packed(name) = archive[i].blob /\ Packed(name) \in Seq(Nat)
    BY Zenon, NamedFacts
  <1>2. archive \in Archives
    BY Zenon DEF OnDisk
  <1> HIDE DEF i
  <1>3. StartOf(archive, i) \in Nat
    BY Zenon, <1>1, <1>2, StartFacts
  <1>4. Len(Packed(name)) \in Nat
    BY <1>1
  <1>5. /\ Entry(archive, i).name = name /\ Entry(archive, i).size = Len(Packed(name))
        /\ Entry(archive, i).start_lba = StartOf(archive, i)
    BY <1>1 DEF Entry
  <1> QED
    BY Zenon, <1>1, <1>2, <1>3, <1>4, <1>5 DEF i

\* uixfs_read looks the name up and asks for the first sector.
LEMMA UixfsReadKeepsFs ==
    ASSUME FsInv, NEW name, UixfsRead(name)
    PROVE  FsInv'
  <1> DEFINE e == entries[CHOOSE i \in Matches(name) : \A k \in Matches(name) : i <= k]
             fails(ret) == got' = [name |-> name, ret |-> ret] /\ Return /\ UNCHANGED file
  <1>1. op = "idle" /\ UNCHANGED <<mounted, nfiles, entries, archive>>
    BY ZenonT(30) DEF UixfsRead
  <1>2. ASSUME op' = "idle", disk' = disk, req' = req, Result'
        PROVE  FsInv'
    <2>1. OnDisk' = OnDisk
      BY Zenon, <1>1, <1>2 DEF OnDisk
    <2>2. MountInv'
      BY ZenonT(30), <1>1, <1>2, <2>1 DEF FsInv, MountInv
    <2> QED
      BY ZenonT(30), <1>1, <1>2, <2>1, <2>2 DEF FsInv, FsOp, ReadInv
  <1>3. ASSUME NEW ret, fails(ret)
        PROVE  op' = "idle" /\ disk' = disk /\ req' = req /\ got'.ret = ret /\ got'.name = name
    BY <1>3, ReturnFacts
  <1>4. CASE ~mounted /\ fails(-1)
    <2>1. got'.ret = -1
      BY Zenon, <1>3, <1>4
    <2>2. Result'
      BY <2>1 DEF Result
    <2> QED
      BY Zenon, <1>2, <1>3, <1>4, <2>2
  <1>5. CASE mounted /\ Matches(name) = {} /\ fails(-2)
    <2>1. Named(name) = {}
      BY Zenon, <1>5, SearchFacts
    <2>2. \A i \in DOMAIN archive : archive[i].name # name
      BY Zenon, <2>1 DEF Named
    <2> QED
      BY <1>1, <1>2, <1>3, <1>5, <2>2 DEF Result
  <1>6. CASE mounted /\ Matches(name) # {} /\ fails(-12)
    <2>1. got'.ret = -12
      BY Zenon, <1>3, <1>6
    <2>2. Result'
      BY <2>1 DEF Result
    <2> QED
      BY Zenon, <1>2, <1>3, <1>6, <2>2
  <1>7. CASE /\ mounted /\ Matches(name) # {} /\ e.size > 0
             /\ file' = e /\ file_buf' = <<>>
             /\ Call("file", e.start_lba, sector)
             /\ UNCHANGED got
    <2>1. Named(name) # {} /\ OnDisk /\ e = Entry(archive, FirstNamed(name))
      <3>1. Matches(name) = Named(name) /\ OnDisk
        BY Zenon, <1>7, SearchFacts
      <3>2. e = entries[FirstNamed(name)]
        BY Zenon, <3>1 DEF FirstNamed
      <3>3. FirstNamed(name) \in DOMAIN archive
        BY Zenon, <1>7, <3>1, NamedFacts
      <3> QED
        BY Zenon, <1>7, <3>1, <3>2, <3>3, SearchFacts
    <2> HIDE DEF e
    <2>2. /\ e.name = name /\ e.size = Len(Packed(name)) /\ e.size \in Nat
          /\ e.start_lba \in Nat
      BY Zenon, <2>1, EntryFacts
    <2>3. /\ op' = "file" /\ pc' = "publish" /\ disk' = disk
          /\ req'.type = "read" /\ req'.sector = e.start_lba
      BY Zenon, <1>7, CallFacts
    <2>4. OnDisk'
      BY Zenon, <1>1, <2>1, <2>3 DEF OnDisk
    <2>5. Lba' = e.start_lba
      <3>1. Lba' = file'.start_lba + Len(file_buf') \div SECT
        BY Zenon, <2>3 DEF Lba
      <3>2. Len(<<>>) = 0 /\ 0 \div SECT = 0
        BY UixfsAssumption
      <3> QED
        BY <1>7, <2>2, <3>1, <3>2
    <2>6. PartOf(file_buf', Packed(name), SECT)
      <3>1. PartOf(<<>>, Packed(name), SECT)
        BY ZenonT(30), <1>7, <2>2, EmptyPart, UixfsAssumption
      <3> QED
        BY Zenon, <1>7, <3>1
    <2>7. /\ Named(name)' = Named(name) /\ FirstNamed(name)' = FirstNamed(name)
          /\ Packed(name)' = Packed(name)
      BY Zenon, <1>1, SamePacked
    <2>8. ReadInv'
      <3>1. file' = e /\ file'.name = name /\ mounted' /\ file_buf' \in Seq(Nat)
        BY <1>1, <1>7, <2>2
      <3>2. /\ Named(file.name)' = Named(name) /\ Packed(file.name)' = Packed(name)
            /\ FirstNamed(file.name)' = FirstNamed(name)
        BY Zenon, <1>1, <3>1 DEF Named, FirstNamed, Packed
      <3> QED
        BY Zenon, <1>1, <2>1, <2>6, <3>1, <3>2 DEF ReadInv
    <2>9. MountInv'
      BY ZenonT(30), <1>1, <1>7, <2>3, <2>4 DEF FsInv, MountInv
    <2> QED
      BY ZenonT(30), <2>3, <2>4, <2>5, <2>8, <2>9 DEF FsInv, FsOp
  <1> QED
    BY Zenon, <1>4, <1>5, <1>6, <1>7 DEF UixfsRead

\* uixfs_read copies what one sector holds of the file.
LEMMA FileReadKeepsFs ==
    ASSUME FsInv, FileRead
    PROVE  FsInv'
  <1> DEFINE first == FirstNamed(file.name)
             all == Packed(file.name)
  <1>1. /\ op = "file" /\ mounted /\ OnDisk /\ Named(file.name) # {}
        /\ file = Entry(archive, first)
        /\ file_buf \in Seq(Nat) /\ PartOf(file_buf, all, SECT)
    BY Zenon DEF FileRead, Back, FsInv, MountInv, ReadInv
  <1>2. UNCHANGED <<mounted, nfiles, entries, file, archive>>
    BY Zenon DEF FileRead
  <1>3. /\ Named(file.name)' = Named(file.name) /\ FirstNamed(file.name)' = first
        /\ Packed(file.name)' = all
    BY Zenon, <1>2 DEF Named, FirstNamed, Packed
  <1>4. /\ first \in DOMAIN archive /\ archive \in Archives
        /\ file.size = Len(all) /\ file.size \in Nat
        /\ file.start_lba = StartOf(archive, first) /\ file.start_lba \in Nat
        /\ all \in Seq(Nat) /\ all = archive[first].blob
    BY Zenon, <1>1, EntryFacts
  <1> HIDE DEF first, all
  <1>5. disk' = disk => OnDisk'
    BY ZenonT(30), <1>1, <1>2 DEF OnDisk
  <1>6. ASSUME op' = "idle", disk' = disk, req' = req, Result'
        PROVE  FsInv'
    <2>1. MountInv'
      BY ZenonT(30), <1>1, <1>2, <1>5, <1>6 DEF FsInv, MountInv
    <2> QED
      BY ZenonT(30), <1>1, <1>2, <1>5, <1>6, <2>1 DEF FsInv, FsOp, ReadInv
  <1>7. CASE got' = [name |-> file.name, ret |-> -5] /\ Return
    BY <1>6, <1>7, ReturnFacts DEF Result
  <1>8. CASE /\ out.ret = 0
             /\ file_buf' = file_buf \o UpTo(out.data[2], Chunk(file.size - Len(file_buf)))
             /\ IF Len(file_buf') >= file.size
                THEN Return /\ got' = [name |-> file.name, ret |-> file.size]
                ELSE /\ Call("file", file.start_lba + Len(file_buf') \div SECT, sector')
                     /\ UNCHANGED got
    <2> DEFINE d == Len(file_buf)
    <2>1. PICK n \in 0 .. d : d = n * SECT
      BY Zenon, <1>1 DEF PartOf
    <2>2. /\ d \in Nat /\ Len(all) \in Nat /\ d < Len(all) /\ SECT \in Nat \ {0}
          /\ n \in Nat /\ d \div SECT = n /\ n * SECT = d
      <3>1. d \in Nat /\ Len(all) \in Nat /\ d < Len(all) /\ SECT \in Nat \ {0}
        <4>1. Len(all) \in Nat /\ SECT \in Nat \ {0}
          BY Zenon, <1>4, UixfsAssumption
        <4>2. d \in Nat
          BY <1>1
        <4> QED
          BY Zenon, <1>1, <4>1, <4>2 DEF PartOf
      <3>2. n \in Nat
        BY <3>1
      <3> QED
        BY ZenonT(30), <2>1, <3>1, <3>2, BlockFacts
    <2> DEFINE c == Least(Len(all) - d, SECT)
               chunk == [k \in 1 .. SECT |-> IF d + k <= Len(all) THEN all[d + k] ELSE 0]
    <2>3. out.data[2] = chunk
      <3>1. n < SectorsOf(archive, first)
        <4>1. n < (Len(all) + SECT - 1) \div SECT
          BY ZenonT(30), <2>2, BlockFacts
        <4> QED
          BY Zenon, <1>4, <4>1 DEF SectorsOf, Sectors
      <3>2. /\ StartOf(archive, first) + n \in Sector \ Scratch
            /\ Image(archive)[StartOf(archive, first) + n] = <<"data", [k \in 1 .. SECT |->
                  IF n * SECT + k <= Len(all) THEN all[n * SECT + k] ELSE 0]>>
        <4>1. archive \in Archives /\ first \in DOMAIN archive /\ n \in Nat
          BY Zenon, <1>4, <2>2
        <4> DEFINE b == archive[first].blob
        <4>2. /\ StartOf(archive, first) + n \in Sector \ Scratch
              /\ Image(archive)[StartOf(archive, first) + n] = <<"data", [k \in 1 .. SECT |->
                    IF n * SECT + k <= Len(b) THEN b[n * SECT + k] ELSE 0]>>
          BY Zenon, <3>1, <4>1, DataAt
        <4>3. b = all
          BY Zenon, <1>4
        <4> HIDE DEF b
        <4> QED
          BY Zenon, <4>2, <4>3
      <3>3. Lba = StartOf(archive, first) + n
        BY Zenon, <1>1, <1>4, <2>2 DEF Lba
      <3>4. out.data = disk[Lba]
        BY Zenon, <1>8, BackFacts DEF FileRead, FsOp
      <3>5. out.data = <<"data", chunk>>
        <4>1. out.data = Image(archive)[StartOf(archive, first) + n]
          BY Zenon, <1>1, <3>2, <3>3, <3>4 DEF OnDisk
        <4>2. n * SECT = d
          BY Zenon, <2>2
        <4> QED
          BY Zenon, <3>2, <4>1, <4>2
      <3> HIDE DEF chunk
      <3> QED
        BY <3>5
    <2>4. /\ c \in Nat /\ c > 0 /\ d + c <= Len(all) /\ c <= SECT
          /\ c = SECT \/ d + c = Len(all)
      BY <2>2 DEF Least
    <2> HIDE DEF d
    <2>5. chunk \in Seq(Nat) /\ Len(chunk) = SECT /\ \A k \in 1 .. c : chunk[k] = all[d + k]
      <3> HIDE DEF c
      <3>1. \A k \in 1 .. SECT : d + k <= Len(all) => all[d + k] \in Nat
        <4>1. \A j \in 1 .. Len(all) : all[j] \in Nat
          BY <1>4
        <4>2. d \in Nat /\ Len(all) \in Nat /\ SECT \in Nat
          BY Zenon, <2>2
        <4>3. \A k \in 1 .. SECT : d + k <= Len(all) => d + k \in 1 .. Len(all)
          BY <4>2
        <4> QED
          BY Zenon, <4>1, <4>3
      <3>2. chunk \in [1 .. SECT -> Nat]
        <4>1. 0 \in Nat
          BY Zenon
        <4> QED
          BY Zenon, <3>1, <4>1
      <3>3. \A k \in 1 .. c : k \in 1 .. SECT /\ d + k <= Len(all)
        BY <2>2, <2>4
      <3>4. \A k \in 1 .. c : chunk[k] = all[d + k]
        BY Zenon, <3>3
      <3> HIDE DEF chunk
      <3> QED
        BY <2>2, <3>2, <3>4
    <2>6. file_buf' = file_buf \o SubSeq(chunk, 1, c)
      <3>1. Chunk(file.size - Len(file_buf)) = c
        BY ZenonT(30), <1>4 DEF Chunk, d
      <3>2. Least(c, Len(chunk)) = c
        <4> HIDE DEF c, chunk
        <4> QED
          BY <2>2, <2>4, <2>5 DEF Least
      <3> HIDE DEF c, chunk
      <3> QED
        BY Zenon, <1>8, <2>3, <3>1, <3>2 DEF UpTo
    <2> HIDE DEF c, chunk
    <2>7. SoFar(file_buf', all, SECT, Nat)
      <3>1. c <= Len(chunk)
        BY Zenon, <2>4, <2>5
      <3>2. Follows(chunk, c, file_buf, all, SECT, Nat)
        BY Zenon, <1>1, <1>4, <2>2, <2>4, <2>5, <3>1 DEF Follows, d
      <3>3. SoFar(file_buf \o SubSeq(chunk, 1, c), all, SECT, Nat)
        BY Zenon, <3>2, SectorAdds
      <3> QED
        BY Zenon, <2>6, <3>3
    <2>8. file_buf' \in Seq(Nat) /\ Len(file_buf') \in Nat /\ Len(file_buf') <= Len(all)
      BY <2>7 DEF SoFar
    <2>9. CASE Len(file_buf') >= file.size
      <3>1. Return /\ got' = [name |-> file.name, ret |-> file.size]
        BY Zenon, <1>8, <2>9
      <3>2. Len(file_buf') = Len(all)
        BY <1>4, <2>2, <2>8, <2>9
      <3>3. file_buf' = all
        BY Zenon, <2>7, <3>2 DEF SoFar
      <3>4. got'.ret = file.size /\ got'.name = file.name
        BY <3>1
      <3>5. Packed(got.name)' = all
        BY Zenon, <1>2, <3>4 DEF Packed, all
      <3>6. Result'
        BY <1>4, <3>2, <3>3, <3>4, <3>5 DEF Result
      <3> QED
        BY ZenonT(30), <1>6, <3>1, <3>6, ReturnFacts
    <2>10. CASE ~(Len(file_buf') >= file.size)
      <3>1. Call("file", file.start_lba + Len(file_buf') \div SECT, sector') /\ UNCHANGED got
        BY Zenon, <1>8, <2>10
      <3>2. /\ op' = "file" /\ pc' = "publish" /\ disk' = disk
            /\ req'.type = "read" /\ req'.sector = file.start_lba + Len(file_buf') \div SECT
        BY Zenon, <3>1, CallFacts
      <3>3. PartOf(file_buf', all, SECT)
        <4>1. Len(file_buf') # Len(all)
          BY ZenonT(30), <1>4, <2>2, <2>8, <2>10
        <4> QED
          BY Zenon, <2>7, <4>1 DEF SoFar
      <3>4. ReadInv'
        BY Zenon, <1>1, <1>2, <1>3, <2>8, <3>3 DEF ReadInv
      <3>5. Lba' = req'.sector
        BY ZenonT(30), <1>2, <3>2 DEF Lba
      <3>6. MountInv'
        BY ZenonT(30), <1>1, <1>2, <1>5, <3>2 DEF FsInv, MountInv
      <3> QED
        BY ZenonT(30), <1>5, <3>2, <3>4, <3>5, <3>6 DEF FsInv, FsOp
    <2> QED
      BY Zenon, <2>9, <2>10
  <1> QED
    BY Zenon, <1>7, <1>8 DEF FileRead

\* The other callers leave the files alone.
LEMMA RawKeepsFs ==
    ASSUME FsInv, RawBack \/ \E r \in Raw : RawCall(r)
    PROVE  FsInv'
  <1>1. /\ op \in {"raw", "idle"} /\ op' \in {"raw", "idle"} /\ disk' = disk
        /\ UNCHANGED <<mounted, nfiles, entries, file, file_buf, got, archive>>
        /\ req'.type = "write" => req'.sector \in Scratch
    <2>1. CASE RawBack
      BY Zenon, <2>1, ReturnFacts DEF RawBack, fs, FsInv
    <2>2. ASSUME NEW r \in Raw, RawCall(r)
          PROVE  /\ op = "idle" /\ op' = "raw" /\ disk' = disk
                 /\ UNCHANGED <<mounted, nfiles, entries, file, file_buf, got, archive>>
                 /\ req' = r
      BY ZenonT(30), <2>2 DEF RawCall, Fill, device, fs
    <2>3. \A r \in Raw : r.sector \in Scratch
      BY DEF Raw
    <2> QED
      BY Zenon, <2>1, <2>2, <2>3
  <1>2. OnDisk' = OnDisk
    BY ZenonT(30), <1>1 DEF OnDisk
  <1>3. MountInv'
    BY ZenonT(30), <1>1, <1>2 DEF FsInv, MountInv
  <1>4. Result'
    <2>1. Packed(got.name)' = Packed(got.name)
      BY Zenon, <1>1 DEF Packed
    <2> QED
      BY ZenonT(30), <1>1, <2>1 DEF FsInv, Result
  <1> QED
    BY Zenon, <1>1, <1>2, <1>3, <1>4 DEF FsInv, FsOp, ReadInv

\* A step that changes nothing.
LEMMA StutterKeepsFs ==
    ASSUME FsInv, UNCHANGED uixfsVars
    PROVE  FsInv'
  <1>1. /\ UNCHANGED <<op, mounted, nfiles, entries, file, file_buf, got, archive>>
        /\ UNCHANGED <<disk, req, pc, out>>
    BY Zenon DEF uixfsVars, virtioVars, driver, device, fs
  <1>2. /\ OnDisk' = OnDisk /\ Lba' = Lba
        /\ Packed(got.name)' = Packed(got.name) /\ Packed(file.name)' = Packed(file.name)
        /\ Named(file.name)' = Named(file.name) /\ FirstNamed(file.name)' = FirstNamed(file.name)
    BY Zenon, <1>1 DEF OnDisk, Lba, Packed, Named, FirstNamed
  <1>3. MountInv' /\ ReadInv' /\ (Result => Result')
    BY Zenon, <1>1, <1>2 DEF FsInv, MountInv, ReadInv, Result
  <1> QED
    BY Zenon, <1>1, <1>2, <1>3 DEF FsInv

\* A file reads back as it was packed, whatever was packed, however the sizes fall
\* on the sectors, after any failed requests and among any other callers; -ENOENT
\* is returned only for a name nothing was packed under (uixfs_mount, uixfs_read).
\* The driver must not give up on a request the device still works on.
THEOREM ReadsBackAsPacked ==
    ASSUME Prompt
    PROVE  UixfsSpec => []ReadIsFile
  <1>1. UixfsInit => FsInv
    BY InitFsInv
  <1>2. DriverInv /\ FsInv /\ [UixfsNext]_uixfsVars => FsInv'
    <2> SUFFICES ASSUME DriverInv, FsInv, [UixfsNext]_uixfsVars
                 PROVE  FsInv'
      OBVIOUS
    <2>1. CASE Mount \/ SuperRead \/ DirRead \/ FileRead
      BY Zenon, <2>1, MountKeepsFs, SuperReadKeepsFs, DirReadKeepsFs, FileReadKeepsFs
    <2>2. CASE \E name \in Names : UixfsRead(name)
      BY Zenon, <2>2, UixfsReadKeepsFs
    <2>3. CASE RawBack \/ \E r \in Raw : RawCall(r)
      BY Zenon, <2>3, RawKeepsFs
    <2>4. CASE (InDriver \/ Device) /\ UNCHANGED <<op, sector, fs>>
      BY Zenon, <2>4, DriverKeepsFs
    <2>5. CASE UNCHANGED uixfsVars
      BY Zenon, <2>5, StutterKeepsFs
    <2> QED
      BY Zenon, <2>1, <2>2, <2>3, <2>4, <2>5 DEF UixfsNext, Caller
  <1>3. FsInv => ReadIsFile
    BY DEF FsInv, Result, ReadIsFile
  <1> QED
    BY <1>1, <1>2, <1>3, DriverInvariance, PTL DEF UixfsSpec
==============================================================================
