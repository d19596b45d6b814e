----------------------------- MODULE VirtioBlk -------------------------------
(***************************************************************************)
(* The virtio-blk driver, drivers/virtio_blk.c, and the device it polls.   *)
(* The two share memory (the request header, the status byte, the data     *)
(* page, the avail and the used index) and run concurrently.  A request    *)
(* goes through Fill, Publish, Sample and then Complete or Timeout; one    *)
(* caller at a time is in the driver, since system calls run with          *)
(* interrupts off.                                                         *)
(*                                                                         *)
(* The device (external) fetches a request that was published, moves the   *)
(* data and the status byte, and then advances the used index.  Slow says  *)
(* whether it may take longer than the driver's 200 million polls.         *)
(* The callers of the driver are in module Uixfs.                          *)
(***************************************************************************)
EXTENDS Integers

CONSTANTS Sector, Data, IdxMod, Slow,
          Zero    \* a sector of zeros

ASSUME VirtioAssumption ==
    IdxMod \in Nat \ {0, 1, 2} /\ Slow \in BOOLEAN /\ Zero \in Data /\ 0 \in Sector

Op == {"read", "write"}
Request == [type : Op, sector : Sector, data : Data]
Job == [type : Op, sector : Sector, moved : BOOLEAN]

VARIABLES
    pc, req, last,          \* the driver: where it is, its arguments, used index sampled
    hdr, st, buf,           \* shared: request header, status byte, data page
    avail_idx, used_idx,    \* shared: the 16-bit indices, modulo IdxMod
    fetched, jobs,          \* the device: avail index seen, requests it works on
    disk,                   \* contents
    out                     \* what the last call returned

driver == <<pc, req, last>>
device == <<fetched, jobs, disk>>
virtioVars == <<driver, hdr, st, buf, avail_idx, used_idx, device, out>>

Idx == 0 .. IdxMod - 1

Incr(i) == (i + 1) % IdxMod

VirtioTypeOK ==
    /\ pc \in {"idle", "publish", "sample", "poll"}
    /\ req \in Request
    /\ last \in Idx /\ avail_idx \in Idx /\ used_idx \in Idx /\ fetched \in Idx
    /\ hdr \in [type : Op, sector : Sector]
    /\ st \in {0, 1, 255}
    /\ buf \in Data
    /\ jobs \subseteq Job
    /\ disk \in [Sector -> Data]
    /\ out \in [req : Request, ret : {0, -5}, data : Data]

\* virtio_blk_init clears the rings and the data page, so the header is that of a
\* read of sector 0.  No call has returned yet: out is the failure of that read.
VirtioInit ==
    /\ pc = "idle"
    /\ req = [type |-> "read", sector |-> 0, data |-> Zero]
    /\ hdr = [type |-> "read", sector |-> 0]
    /\ buf = Zero
    /\ out = [req |-> req, ret |-> -5, data |-> Zero]
    /\ last = 0 /\ avail_idx = 0 /\ used_idx = 0 /\ fetched = 0
    /\ st = 0
    /\ jobs = {}

-----------------------------------------------------------------------------
\* do_request up to the descriptors: header, status byte, data of a write.
\* A bug: a write does not copy its data.
FillNoCopy(r) ==
    /\ pc = "idle"
    /\ pc' = "publish" /\ req' = r
    /\ hdr' = [type |-> r.type, sector |-> r.sector]
    /\ st' = 255
    /\ UNCHANGED <<last, buf, avail_idx, used_idx, device, out>>

Fill(r) ==
    /\ pc = "idle"
    /\ pc' = "publish" /\ req' = r
    /\ hdr' = [type |-> r.type, sector |-> r.sector]
    /\ st' = 255
    /\ buf' = IF r.type = "write" THEN r.data ELSE buf
    /\ UNCHANGED <<last, avail_idx, used_idx, device, out>>

\* Advance the avail index and notify the device.
Publish ==
    /\ pc = "publish"
    /\ pc' = "sample"
    /\ avail_idx' = Incr(avail_idx)
    /\ UNCHANGED <<req, last, hdr, st, buf, used_idx, device, out>>

\* last = *used_idx_p
Sample ==
    /\ pc = "sample"
    /\ pc' = "poll"
    /\ last' = used_idx
    /\ UNCHANGED <<req, hdr, st, buf, avail_idx, used_idx, device, out>>

\* The end of the polling loop.
\* A bug: the loop watches the index that the driver itself advances.
ProgressOwn == avail_idx # last

Progress == used_idx # last

Complete ==
    /\ pc = "poll"
    /\ Progress
    /\ pc' = "idle"
    /\ out' = [req |-> req, ret |-> IF st = 0 THEN 0 ELSE -5,
               data |-> IF req.type = "read" THEN buf ELSE req.data]
    /\ UNCHANGED <<req, last, hdr, st, buf, avail_idx, used_idx, device>>

\* The loop gives up.  Unless the device is Slow, it has then nothing left to do.
\* A bug: the loop has no limit.
TimeoutNever == pc = "poll" /\ ~Progress /\ UNCHANGED virtioVars

Timeout ==
    /\ pc = "poll"
    /\ ~Progress
    /\ Slow \/ (jobs = {} /\ fetched = avail_idx)
    /\ pc' = "idle"
    /\ out' = [req |-> req, ret |-> -5, data |-> req.data]
    /\ UNCHANGED <<req, last, hdr, st, buf, avail_idx, used_idx, device>>

\* The steps of a call after its first.
InDriver == Publish \/ Sample \/ Complete \/ Timeout

-----------------------------------------------------------------------------
\* The device reads the header of the next request.
DevFetch ==
    /\ fetched # avail_idx
    /\ fetched' = Incr(fetched)
    /\ jobs' = jobs \cup {[type |-> hdr.type, sector |-> hdr.sector, moved |-> FALSE]}
    /\ UNCHANGED <<driver, hdr, st, buf, avail_idx, used_idx, disk, out>>

\* It moves the data and writes the status, 1 for an I/O error.
DevMove(j) ==
    /\ j \in jobs /\ ~j.moved
    /\ jobs' = (jobs \ {j}) \cup {[j EXCEPT !.moved = TRUE]}
    /\ \/ /\ st' = 0
          /\ buf' = IF j.type = "read" THEN disk[j.sector] ELSE buf
          /\ disk' = IF j.type = "write" THEN [disk EXCEPT ![j.sector] = buf] ELSE disk
       \/ /\ st' = 1
          /\ UNCHANGED <<buf, disk>>
    /\ UNCHANGED <<driver, hdr, avail_idx, used_idx, fetched, out>>

\* It advances the used index.
DevUsed(j) ==
    /\ j \in jobs /\ j.moved
    /\ jobs' = jobs \ {j}
    /\ used_idx' = Incr(used_idx)
    /\ UNCHANGED <<driver, hdr, st, buf, avail_idx, fetched, disk, out>>

Device == DevFetch \/ (\E j \in jobs : DevMove(j) \/ DevUsed(j))

-----------------------------------------------------------------------------
\* What the driver reports is true of the disk: when do_request returns 0, the
\* caller's buffer and the sector it named hold the same data.
SuccessIsReal ==
    [][out' # out /\ out'.ret = 0 => disk[out'.req.sector] = out'.data]_virtioVars

\* "single request at a time" (virtio_blk.h): the device has nothing to do when
\* no caller is in the driver, so the next request may reuse header and buffer.
SingleRequest == pc \in {"idle", "publish"} => jobs = {} /\ fetched = avail_idx

\* "request timeout": the driver reports a timeout only of a request that the
\* device has not completed.
TimeoutIsReal ==
    [][Timeout => jobs # {} \/ fetched # avail_idx]_virtioVars
==============================================================================
