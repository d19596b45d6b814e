-------------------------------- MODULE Uixfs --------------------------------
(***************************************************************************)
(* The read-only file system, personality/fs/uixfs.c, over the driver of   *)
(* module VirtioBlk, on a disk that tools/mkuixfs.py packed.  Each sector  *)
(* it reads is a call into the driver; op says on whose behalf, and the    *)
(* caller goes on when the driver is idle again.                           *)
(*                                                                         *)
(* The contents of a sector are a tagged tuple: the superblock, a sector   *)
(* of the directory, or SECT units of data.  Sizes count units.  Whether   *)
(* pmm_alloc_pages finds room for a file is left open (module Pmm).        *)
(***************************************************************************)
EXTENDS VirtioBlk, Sequences, Functions

CONSTANTS NFILES_MAX,    \* directory entries
          PerSector,     \* of them in a sector
          SECT,          \* units of data in a sector
          Archives,      \* what mkuixfs.py may pack: sequences of [name, blob]
          Names,         \* what uixfs_read is asked for
          Scratch,       \* sectors behind the file system, used by other callers
          RawData        \* what they write

ASSUME UixfsAssumption ==
    /\ NFILES_MAX \in Nat /\ PerSector \in Nat \ {0} /\ SECT \in Nat \ {0}
    /\ Scratch \subseteq Sector
    /\ Zero[1] # "super"

VARIABLES
    op,                  \* "boot", "super", "dir", "file", "raw", or "idle"
    mounted, nfiles,
    entries,             \* those copied so far
    sector,              \* the static buffer
    file,                \* the entry being read
    file_buf,            \* the result buffer as far as it is filled
    got,                 \* what the last uixfs_read returned
    archive              \* history: what was packed

fs == <<mounted, nfiles, entries, file, file_buf, got, archive>>
uixfsVars == <<virtioVars, op, sector, fs>>

Least(a, b) == IF a < b THEN a ELSE b
UpTo(s, n) == SubSeq(s, 1, Least(n, Len(s)))
Sectors(size) == (size + SECT - 1) \div SECT

-----------------------------------------------------------------------------
\* mkuixfs.py: superblock, directory, then each file from a sector of its own.
DATA_LBA == 1 + (NFILES_MAX + PerSector - 1) \div PerSector

StartOf(files, i) ==
    LET lba[n \in DOMAIN files] ==
            IF n = 1 THEN DATA_LBA ELSE lba[n - 1] + Sectors(Len(files[n - 1].blob))
    IN lba[i]

Entry(files, i) ==
    [name |-> files[i].name, size |-> Len(files[i].blob), start_lba |-> StartOf(files, i)]

DirSector(files, s) ==
    LET first == (s - 1) * PerSector
    IN <<"dir", [k \in 1 .. Least(PerSector, IF Len(files) > first THEN Len(files) - first ELSE 0)
                    |-> Entry(files, first + k)]>>

DataSector(files, s) ==
    LET here == {i \in DOMAIN files :
                    s \in StartOf(files, i) .. StartOf(files, i) + Sectors(Len(files[i].blob)) - 1}
        unit(i, k) == LET n == (s - StartOf(files, i)) * SECT + k
                      IN IF n <= Len(files[i].blob) THEN files[i].blob[n] ELSE 0
    IN IF here = {} THEN Zero
       ELSE <<"data", [k \in 1 .. SECT |-> unit(CHOOSE i \in here : TRUE, k)]>>

Image(files) ==
    [s \in Sector |-> IF s = 0 THEN <<"super", Len(files)>>
                      ELSE IF s < DATA_LBA THEN DirSector(files, s) ELSE DataSector(files, s)]

\* mkuixfs.py does not check it: the entries fit the directory and the files the
\* disk, in front of what the other callers use.
ASSUME ArchiveAssumption ==
    /\ 0 .. DATA_LBA - 1 \subseteq Sector \ Scratch
    /\ \A files \in Archives :
          /\ files \in Seq({files[i] : i \in DOMAIN files}) /\ Len(files) <= NFILES_MAX
          /\ \A i \in DOMAIN files :
                /\ files[i].blob \in Seq(Nat)
                /\ StartOf(files, i) .. StartOf(files, i) + Sectors(Len(files[i].blob)) - 1
                      \subseteq Sector \ Scratch

\* A disk is packed, or was never written.
UixfsInit ==
    /\ VirtioInit
    /\ archive \in Archives \cup {<<>>}
    /\ \/ archive \in Archives /\ disk = Image(archive)
       \/ archive = <<>> /\ disk = [s \in Sector |-> Zero]
    /\ op = "boot" /\ mounted = FALSE /\ nfiles = 0 /\ entries = <<>>
    /\ sector = Zero
    /\ file = [name |-> "", size |-> 0, start_lba |-> 0]
    /\ file_buf = <<>> /\ got = [name |-> "", ret |-> -1]

-----------------------------------------------------------------------------
\* virtio_blk_read(lba, sector) for o; s is what the buffer holds before.
Call(o, lba, s) == op' = o /\ Fill([type |-> "read", sector |-> lba, data |-> s])

Return == op' = "idle" /\ UNCHANGED virtioVars

\* The driver has returned to o, with the data in the buffer.
Back(o) == op = o /\ pc = "idle" /\ sector' = out.data

\* kmain calls uixfs_mount once.
Mount == op = "boot" /\ Call("super", 0, sector) /\ UNCHANGED <<sector, fs>>

SuperRead ==
    /\ Back("super")
    /\ \/ /\ out.ret # 0 \/ out.data[1] # "super"
          /\ Return
          /\ UNCHANGED fs
       \/ /\ out.ret = 0 /\ out.data[1] = "super"
          /\ nfiles' = Least(out.data[2], NFILES_MAX)
          /\ mounted' = (nfiles' = 0)
          /\ IF mounted' THEN Return ELSE Call("dir", 1, sector')
          /\ UNCHANGED <<entries, file, file_buf, got, archive>>

\* The loop over the entries, as far as one sector of the directory goes.
DirRead ==
    /\ Back("dir")
    /\ \/ /\ out.ret # 0
          /\ Return
          /\ UNCHANGED fs
       \/ /\ out.ret = 0
          /\ entries' = entries \o UpTo(out.data[2], nfiles - Len(entries))
          /\ mounted' = (Len(entries') = nfiles)
          /\ IF mounted' THEN Return
             ELSE Call("dir", 1 + Len(entries') \div PerSector, sector')
          /\ UNCHANGED <<nfiles, file, file_buf, got, archive>>

\* uixfs_read up to the first sector; Matches are the entries with the name.
\* pmm_alloc_pages never finds a run of no pages, so an empty file fails.
Matches(name) == {i \in 1 .. nfiles : entries[i].name = name}

UixfsRead(name) ==
    LET e == entries[CHOOSE i \in Matches(name) : \A k \in Matches(name) : i <= k]
        fails(ret) == got' = [name |-> name, ret |-> ret] /\ Return /\ UNCHANGED file
    IN /\ op = "idle"
       /\ \/ ~mounted /\ fails(-1) /\ UNCHANGED file_buf
          \/ mounted /\ Matches(name) = {} /\ fails(-2) /\ UNCHANGED file_buf
          \/ mounted /\ Matches(name) # {} /\ fails(-12) /\ file_buf' = <<>>
          \/ /\ mounted /\ Matches(name) # {} /\ e.size > 0
             /\ file' = e /\ file_buf' = <<>>
             /\ Call("file", e.start_lba, sector)
             /\ UNCHANGED got
       /\ UNCHANGED <<sector, mounted, nfiles, entries, archive>>

\* The bytes of a sector that belong to the file, when left are missing.
\* A bug: the last sector is copied as a whole.
ChunkWhole(left) == SECT

Chunk(left) == Least(left, SECT)

FileRead ==
    /\ Back("file")
    /\ \/ /\ out.ret # 0
          /\ got' = [name |-> file.name, ret |-> -5]
          /\ Return
          /\ UNCHANGED file_buf
       \/ /\ out.ret = 0
          /\ file_buf' = file_buf \o UpTo(out.data[2], Chunk(file.size - Len(file_buf)))
          /\ IF Len(file_buf') >= file.size
             THEN Return /\ got' = [name |-> file.name, ret |-> file.size]
             ELSE /\ Call("file", file.start_lba + Len(file_buf') \div SECT, sector')
                  /\ UNCHANGED got
    /\ UNCHANGED <<mounted, nfiles, entries, file, archive>>

\* virtio_blk_read and virtio_blk_write by others, in buffers of their own.
RawCall(r) == op = "idle" /\ op' = "raw" /\ Fill(r) /\ UNCHANGED <<sector, fs>>

RawBack == op = "raw" /\ pc = "idle" /\ Return /\ UNCHANGED <<sector, fs>>

Raw == [type : {"read"}, sector : Scratch, data : {Zero}]
       \cup [type : {"write"}, sector : Scratch, data : RawData]

Caller == Mount \/ SuperRead \/ DirRead \/ FileRead \/ RawBack

UixfsNext ==
    \/ Caller
    \/ \E name \in Names : UixfsRead(name)
    \/ \E r \in Raw : RawCall(r)
    \/ (InDriver \/ Device) /\ UNCHANGED <<op, sector, fs>>

\* A caller keeps running, in the driver and out of it, and the device works on
\* what it was given.  New calls need not come.
UixfsSpec ==
    /\ UixfsInit /\ [][UixfsNext]_uixfsVars
    /\ WF_uixfsVars(Caller)
    /\ WF_uixfsVars(InDriver /\ UNCHANGED <<op, sector, fs>>)
    /\ WF_uixfsVars(Device /\ UNCHANGED <<op, sector, fs>>)

-----------------------------------------------------------------------------
\* The file that was packed under a name: the first one.
Packed(name) ==
    LET named == {i \in DOMAIN archive : archive[i].name = name}
    IN archive[CHOOSE i \in named : \A k \in named : i <= k].blob

\* A file reads back as it was packed, however its size falls on the sectors and
\* its entry on the directory, after any failed requests before; a name is
\* reported missing only if nothing was packed under it (uixfs_mount, uixfs_read).
ReadIsFile ==
    op = "idle" =>
       /\ got.ret >= 0 => file_buf = Packed(got.name) /\ got.ret = Len(file_buf)
       /\ got.ret = -2 => \A i \in DOMAIN archive : archive[i].name # got.name

\* Every call on the file system or the driver returns, whether the device
\* answers before the driver samples the used index, after it, or with an error
\* (do_request, uixfs_mount, uixfs_read).
CallsReturn == op # "idle" ~> op = "idle"
==============================================================================
