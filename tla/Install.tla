------------------------------- MODULE Install -------------------------------
(***************************************************************************)
(* The boot loader's installer: bios_install of limine-install.c, which    *)
(* the Makefile runs on the image it builds.  It finds the partition table *)
(* (and turns the GPT of a hybrid ISO into an MBR table), looks for room   *)
(* for stage 2, writes boot sector and stage 2, and, when anything fails,  *)
(* undoes what it did.  A second invocation, --uninstall, undoes a         *)
(* successful one from the file the first one stored.                      *)
(*                                                                         *)
(* Each phase of the function is an action; its transfers to the device    *)
(* are those of module Device, and any of them may fail.  A value on the   *)
(* medium is a tuple tagged with what it is.  A sector has W cells:        *)
(*    0  boot code with the signature of a file system at byte 3           *)
(*    1  the signatures at bytes 54 and 82                                 *)
(*    2  time stamp   3  address of stage 2   4  disk id                   *)
(*    5 ..  the entries of the partition table                             *)
(* and the sizes in sectors (34 and 33 blocks for a GPT, a gap of 63       *)
(* sectors, 32 KiB for stage 2) are constants.                             *)
(***************************************************************************)
EXTENDS Device

CONSTANTS W,             \* cells of a 512-byte sector
          MAX_PARTS,     \* entries of an MBR table (4)
          GAP,           \* first sector a partition may start at (63)
          PRIMARY,       \* blocks of the primary GPT with the boot sector (34)
          SECONDARY,     \* blocks of the secondary GPT (33)
          MIN_PART,      \* cells a partition for stage 2 must have (32 KiB)
          STAGE2,        \* cells of stage 2
          ISO,           \* cell of the signature of an ISO 9660 image (32769)
          UINT32_MAX,
          BlockGuesses,  \* sizes of a physical block, in cells (512, 2048, 4096)
          LbGuesses,     \* sizes of a logical block, in cells (512, 4096)
          Setups         \* contents, arguments and possible media to start with

ASSUME InstallAssumption ==
    /\ W = 5 + MAX_PARTS /\ STAGE2 <= MIN_PART /\ MIN_PART \in Nat
    /\ W + STAGE2 <= GAP * W
    /\ \A s \in Setups : DOMAIN s.disk = 0 .. Cells - 1

AUTO == -1
STAMP == 2
LOC == 3
ID == 4
TABLE == 5

VARIABLES ph,          \* the phase
          arg,         \* force, convert, part (an index or AUTO), store
          dev,         \* the device
          gpt,         \* the GPT found: on, lb, alt, base, n
          stage2_loc,
          conv,        \* whether a GPT was converted (on), and its entries in order (es)
          exit,        \* "none" while it runs, then "ok" or "failed"
          undone,      \* whether uninstall reported success
          file,        \* the uninstall data stored, or <<>> with ok FALSE
          orig         \* history: the contents before the installation

progress == <<gpt, stage2_loc, conv>>
installVars == <<ph, arg, dev, progress, exit, undone, file, orig>>

NoGpt == [on |-> FALSE, lb |-> W, alt |-> 0, base |-> 0, n |-> 0]

InstallInit ==
    \E s \in Setups : \E m \in s.media :
        /\ ph = "init"
        /\ arg = s.arg
        /\ dev = NewDevice(s.disk, m)
        /\ gpt = NoGpt /\ stage2_loc = W
        /\ conv = [on |-> FALSE, es |-> <<>>]
        /\ exit = "none" /\ undone = FALSE
        /\ file = [ok |-> FALSE, data |-> <<>>]
        /\ orig = s.disk

\* A phase ends with the device d: on to the next phase, or to cleanup.
Goto(d, next) == dev' = d /\ ph' = IF d.ok THEN next ELSE "cleanup"
Abort(d) == dev' = d /\ ph' = "cleanup"

-----------------------------------------------------------------------------
\* The device is opened and its block size found.
Start ==
    LET d == DeviceInit(dev, BlockGuesses)
    IN /\ ph = "init"
       /\ dev' = d
       /\ ph' = IF d.at = 0 THEN "probe" ELSE "exit"
       /\ exit' = IF d.at = 0 THEN exit ELSE "failed"
       /\ UNCHANGED <<arg, progress, undone, file, orig>>

IsGpt(v) == v[1] = "gpt"

\* Look for a GPT header behind the first logical block of either size.
ProbeGpt ==
    LET try(a, lb) ==
          LET r == ReadCell(a.dev, lb)
          IN IF a.gpt.on \/ ~a.dev.ok THEN a
             ELSE [dev |-> r.dev,
                   gpt |-> IF r.dev.ok /\ IsGpt(r.v)
                           THEN [on |-> TRUE, lb |-> lb, alt |-> r.v[2],
                                 base |-> r.v[3] * lb, n |-> r.v[4]]
                           ELSE a.gpt]
    IN /\ ph = "probe"
       /\ \E p \in {FoldLeft(try, [dev |-> dev, gpt |-> NoGpt], LbGuesses)} :
             /\ Goto(p.dev, IF p.gpt.on THEN "second" ELSE "mbr")
             /\ gpt' = p.gpt
       /\ UNCHANGED <<arg, stage2_loc, conv, exit, undone, file, orig>>

\* The secondary header must be one.
CheckSecondary ==
    /\ ph = "second"
    /\ \E r \in {ReadCell(dev, gpt.lb * gpt.alt)} :
          \/ /\ r.dev.ok /\ IsGpt(r.v)
             /\ Goto(r.dev, IF arg.convert THEN "convert" ELSE "part")
          \/ /\ ~(r.dev.ok /\ IsGpt(r.v))
             /\ Abort(r.dev)
    /\ UNCHANGED <<arg, progress, exit, undone, file, orig>>

-----------------------------------------------------------------------------
\* lba2chs: head, sector with the high bits of the cylinder, its low bits.
\* A bug: the last cylinder counts as out of range.
Lba2chsEarly(lba) ==
    LET cylinder == lba \div (255 * 63)
    IN IF cylinder >= 1023 THEN <<254, 255, 255>>
       ELSE <<(lba \div 63) % 255,
              ((cylinder \div 256) % 4) * 64 + (lba % 63) + 1,
              cylinder % 256>>

Lba2chs(lba) ==
    LET cylinder == lba \div (255 * 63)
    IN IF lba > 63 * 255 * 1024 \/ cylinder >= 1024 THEN <<254, 255, 255>>
       ELSE <<(lba \div 63) % 255,
              ((cylinder \div 256) % 4) * 64 + (lba % 63) + 1,
              cylinder % 256>>

\* gpt2mbr_type: the types that have an MBR equivalent.
Gpt2mbr == [efi |-> 239, data |-> 7, hfs |-> 175]

\* A GPT entry is <<"entry", type, first, last>>, an unused one zeros.
Used(v) == v[1] = "entry"

\* It has an MBR equivalent.  The sectors are counted in 64 bits without a sign, so
\* an entry may end right before it starts, with none, but no earlier.
Convertible(e) ==
    /\ e[3] <= UINT32_MAX /\ e[4] <= UINT32_MAX
    /\ e[4] - e[3] + 1 \in 0 .. UINT32_MAX
    /\ e[2] \in DOMAIN Gpt2mbr

\* The loop over the GPT entries: those in use, until one cannot be converted.
Gather(d) ==
    LET try(a, i) ==
          LET r == ReadCell(a.dev, gpt.base + i - 1)
          IN IF ~a.dev.ok \/ ~a.all THEN a
             ELSE IF ~(r.dev.ok /\ Used(r.v)) THEN [a EXCEPT !.dev = r.dev]
             ELSE [dev |-> r.dev, es |-> Append(a.es, r.v),
                   all |-> Len(a.es) < MAX_PARTS /\ Convertible(r.v)]
    IN FoldLeft(try, [dev |-> d, es |-> <<>>, all |-> TRUE], [i \in 1 .. gpt.n |-> i])

\* An MBR entry: flag, type, first sector, sectors, first and last as CHS.
MbrEntry(e) ==
    <<"part", 0, Gpt2mbr[e[2]], e[3], e[4] - e[3] + 1, Lba2chs(e[3]), Lba2chs(e[4])>>

Zeros(n) == [i \in 1 .. n |-> <<"zero">>]
BlockWrite(lba) == [loc |-> lba * gpt.lb, data |-> Zeros(gpt.lb)]

\* The writes of the conversion: both GPTs are cleared, a disk id is made up and
\* the entries are written.  The fields of an entry are in one sector, so that no
\* transfer comes between the writes of one and the next.
Conversion(es) ==
    [i \in 1 .. PRIMARY |-> BlockWrite(i - 1)]
    \o (IF gpt.alt >= SECONDARY - 1
        THEN [i \in 1 .. SECONDARY |-> BlockWrite(gpt.alt - SECONDARY + i)] ELSE <<>>)
    \o <<[loc |-> ID, data |-> <<<<"id">>>>]>>
    \o [i \in DOMAIN es |-> [loc |-> TABLE + i - 1, data |-> <<MbrEntry(es[i])>>]]

\* The GPT of an ISO image becomes an MBR table, if it can be expressed as one.
Convert ==
    /\ ph = "convert"
    /\ \E s \in {ReadCell(dev, ISO)} :
          \/ /\ ~s.dev.ok
             /\ Abort(s.dev) /\ UNCHANGED progress
          \/ /\ s.dev.ok /\ s.v # <<"iso">>
             /\ Goto(s.dev, "part") /\ UNCHANGED progress
          \/ /\ s.dev.ok /\ s.v = <<"iso">>
             /\ \E g \in {Gather(s.dev)} :
                   \/ /\ ~(g.dev.ok /\ g.all)
                      /\ Goto(g.dev, "part") /\ UNCHANGED progress
                   \/ /\ g.dev.ok /\ g.all
                      /\ Goto(WriteAll(g.dev, Conversion(g.es)), "mbr")
                      /\ gpt' = [gpt EXCEPT !.on = FALSE]
                      /\ conv' = [on |-> TRUE, es |-> g.es]
                      /\ UNCHANGED stage2_loc
    /\ UNCHANGED <<arg, exit, undone, file, orig>>

-----------------------------------------------------------------------------
\* The file system signatures validate_or_force looks for behind offset, in its
\* order: NTFS, FAT (at two places of one cell), FAT32, ext.
Signatures == <<[at |-> 0, fs |-> "NTFS"], [at |-> 1, fs |-> "FAT"],
                [at |-> 0, fs |-> "FAT32"], [at |-> 2 * W + 1, fs |-> "ext"]>>

\* validate_or_force: valid unless a file system is found; --force erases it.
ValidateOrForce(d, offset) ==
    LET try(a, sig) ==
          LET r == ReadCell(a.dev, offset + sig.at)
              found == r.dev.ok /\ r.v = <<"fs", sig.fs>>
              w == DeviceWrite(r.dev, offset + sig.at, Buffer(offset + sig.at, Zeros(1)))
          IN IF ~a.valid \/ ~a.dev.ok THEN a
             ELSE IF found /\ ~arg.force THEN [dev |-> r.dev, valid |-> FALSE]
             ELSE [a EXCEPT !.dev = IF found THEN w ELSE r.dev]
    IN FoldLeft(try, [dev |-> d, valid |-> TRUE], Signatures)

\* A cell of the table as an entry: cleared cells are unused entries.
AsPart(v) == IF v[1] = "part" THEN v ELSE <<"part", 0, 0, 0, 0, <<0, 0, 0>>, <<0, 0, 0>>>>
SetFlag(v, flag) == [AsPart(v) EXCEPT ![2] = flag]

\* The checks of entry i: it does not start in the gap, and its flag is 0 or 0x80,
\* or is forced to be.
TooLow(p) == p[3] # 0 /\ p[4] < GAP

CheckEntry(a, i) ==
    LET r == ReadCell(a.dev, TABLE + i - 1)
        p == AsPart(r.v)
        odd == p[2] \notin {0, 128}
        flag == IF odd /\ arg.force THEN (p[2] \div 128) * 128 ELSE p[2]
        w == DeviceWrite(r.dev, TABLE + i - 1, Buffer(TABLE + i - 1, <<SetFlag(p, flag)>>))
    IN IF ~a.dev.ok \/ a.low THEN a
       ELSE IF ~r.dev.ok THEN [a EXCEPT !.dev = r.dev]
       ELSE [dev |-> IF odd /\ arg.force THEN w ELSE r.dev,
             mbr |-> a.mbr /\ (odd => arg.force),
             active |-> a.active \/ flag >= 128,
             low |-> TooLow(p)]

\* The sanity checks of an MBR, and an active partition if there is none.
CheckMbr ==
    LET active(r) == IF ~r.dev.ok THEN r.dev
                     ELSE DeviceWrite(r.dev, TABLE, Buffer(TABLE, <<SetFlag(r.v, 128)>>))
    IN /\ ph = "mbr"
       /\ \E c \in {FoldLeft(CheckEntry,
                            [dev |-> dev, mbr |-> TRUE, active |-> FALSE, low |-> FALSE],
                            [i \in 1 .. MAX_PARTS |-> i])} :
             \/ /\ ~c.dev.ok \/ c.low \/ ~c.mbr
                /\ Abort(c.dev)
             \/ /\ c.dev.ok /\ ~c.low /\ c.mbr
                /\ \E v \in {ValidateOrForce(c.dev, 0)} :
                      \/ /\ ~(v.dev.ok /\ v.valid)
                         /\ Abort(v.dev)
                      \/ /\ v.dev.ok /\ v.valid /\ c.active
                         /\ Goto(v.dev, "write")
                      \/ /\ v.dev.ok /\ v.valid /\ ~c.active
                         /\ Goto(active(ReadCell(v.dev, TABLE)), "write")
       /\ UNCHANGED <<arg, progress, exit, undone, file, orig>>

-----------------------------------------------------------------------------
\* The partition for stage 2: the entry named, or the first of type BIOS boot; e is
\* zeros when there is none.  Only the entries up to it are read.
IsBios(v) == Used(v) /\ v[2] = "bios"

FindPart(d) ==
    LET none == [dev |-> d, e |-> <<"zero">>]
        named == ReadCell(d, gpt.base + arg.part - 1)
        try(a, i) ==
          LET r == ReadCell(a.dev, gpt.base + i - 1)
          IN IF ~a.dev.ok \/ IsBios(a.e) THEN a
             ELSE [dev |-> r.dev, e |-> IF r.dev.ok /\ IsBios(r.v) THEN r.v ELSE a.e]
    IN IF arg.part = AUTO THEN FoldLeft(try, none, [i \in 1 .. gpt.n |-> i])
       ELSE IF arg.part \notin 1 .. gpt.n THEN none
       ELSE [dev |-> named.dev,
             e |-> IF Used(named.v) /\ (arg.force \/ IsBios(named.v)) THEN named.v ELSE none.e]

FitsStage2(e) == e[3] <= e[4] /\ (e[4] - e[3] + 1) * gpt.lb >= MIN_PART

ChoosePartition ==
    /\ ph = "part"
    /\ \E p \in {FindPart(dev)} :
          LET found == p.dev.ok /\ Used(p.e) /\ FitsStage2(p.e)
          IN \/ /\ ~found
                /\ Abort(p.dev) /\ UNCHANGED stage2_loc
             \/ /\ found
                /\ \E v \in {ValidateOrForce(p.dev, p.e[3] * gpt.lb)} :
                      \/ /\ ~v.valid
                         /\ Abort(v.dev) /\ UNCHANGED stage2_loc
                      \/ /\ v.valid
                         /\ Goto(v.dev, "write")
                         /\ stage2_loc' = p.e[3] * gpt.lb
    /\ UNCHANGED <<arg, gpt, conv, exit, undone, file, orig>>

\* The image written: boot sector and stage 2.
BootSector == [i \in 1 .. W |-> <<"boot", i - 1>>]
Stage2 == [i \in 1 .. STAGE2 |-> <<"stage2", i - 1>>]

\* Boot sector, stage 2, the address of stage 2, and what the boot sector must
\* keep: time stamp, disk id and partition table.
\* A bug: the time stamp is written back to the wrong place of the order, before
\* the boot sector.
StagesStampFirst(stamp, table) ==
    <<[loc |-> STAMP, data |-> stamp],
      [loc |-> 0, data |-> BootSector],
      [loc |-> stage2_loc, data |-> Stage2],
      [loc |-> LOC, data |-> <<<<"loc", stage2_loc>>>>],
      [loc |-> ID, data |-> table]>>

Stages(stamp, table) ==
    <<[loc |-> 0, data |-> BootSector],
      [loc |-> stage2_loc, data |-> Stage2],
      [loc |-> LOC, data |-> <<<<"loc", stage2_loc>>>>],
      [loc |-> STAMP, data |-> stamp],
      [loc |-> ID, data |-> table]>>

WriteStages ==
    LET flushed(w) == IF w.ok THEN Flush(w) ELSE w
        written(t, stamp) ==
          IF ~t.dev.ok THEN t.dev
          ELSE flushed(WriteAll(t.dev, Stages(stamp, [i \in 1 .. 1 + MAX_PARTS |->
                                                        t.data[ID + i - 1]])))
        kept(s) == IF ~s.dev.ok THEN s.dev
                   ELSE written(DeviceRead(s.dev, ID, 1 + MAX_PARTS), <<s.v>>)
    IN /\ ph = "write"
       /\ \E end \in {kept(ReadCell(dev, STAMP))} :
             /\ Abort(end)
             /\ exit' = IF end.ok THEN "ok" ELSE exit
       /\ UNCHANGED <<arg, progress, undone, file, orig>>

-----------------------------------------------------------------------------
\* store_uninstall_data, called when a file was named.  That it fails is ignored, so
\* store also says whether the file can be written.
StoreUninstallData(undo) == [ok |-> arg.store, data |-> IF arg.store THEN undo ELSE <<>>]

\* load_uninstall_data, of a file that was stored in full.
LoadUninstallData(d) == [d EXCEPT !.undo = file.data]

\* cleanup: the log is reversed, and undone or stored.
\* A bug: the log is undone in the order it was written.
CleanupForward ==
    /\ ph = "cleanup"
    /\ ph' = "exit"
    /\ \/ /\ exit = "none"
          /\ exit' = "failed"
          /\ dev' = Uninstall(dev) /\ undone' = dev'.ok
          /\ UNCHANGED file
       \/ /\ exit = "ok"
          /\ file' = StoreUninstallData(dev.undo)
          /\ UNCHANGED <<exit, dev, undone>>
    /\ UNCHANGED <<arg, progress, orig>>

Cleanup ==
    LET d == [dev EXCEPT !.undo = Reverse(@)]
    IN /\ ph = "cleanup"
       /\ ph' = "exit"
       /\ \/ /\ exit = "none"
             /\ exit' = "failed"
             /\ dev' = Uninstall(d) /\ undone' = dev'.ok
             /\ UNCHANGED file
          \/ /\ exit = "ok"
             /\ dev' = d
             /\ file' = StoreUninstallData(d.undo)
             /\ UNCHANGED <<exit, undone>>
       /\ UNCHANGED <<arg, progress, orig>>

\* A second invocation, with --uninstall and the file of the first: the device is
\* opened anew, the file loaded and undone.
UninstallMode ==
    /\ ph = "exit" /\ exit = "ok"
    /\ ph' = "end"
    /\ \E d \in {DeviceInit([NewDevice(dev.disk, dev.medium) EXCEPT !.io = dev.io], BlockGuesses)} :
          \/ /\ d.at # 0 \/ ~file.ok
             /\ exit' = "failed"
             /\ dev' = d
             /\ UNCHANGED undone
          \/ /\ d.at = 0 /\ file.ok
             /\ dev' = Uninstall(LoadUninstallData(d))
             /\ undone' = dev'.ok
             /\ exit' = IF dev'.ok THEN "ok" ELSE "failed"
    /\ UNCHANGED <<arg, progress, file, orig>>

InstallNext ==
    \/ Start \/ ProbeGpt \/ CheckSecondary \/ Convert \/ CheckMbr \/ ChoosePartition
    \/ WriteStages \/ Cleanup \/ UninstallMode

InstallSpec == InstallInit /\ [][InstallNext]_installVars

-----------------------------------------------------------------------------
InstallTypeOK ==
    /\ ph \in {"init", "probe", "second", "convert", "mbr", "part", "write",
               "cleanup", "exit", "end"}
    /\ exit \in {"none", "ok", "failed"}
    /\ DOMAIN dev.disk = 0 .. Cells - 1
    /\ dev.at \in -1 .. Cells /\ dev.dirty \in BOOLEAN
    /\ Len(dev.undo) <= UNINSTALL_DATA_MAX

\* "If we failed, attempt to reverse install process": when the installer fails,
\* at whatever transfer, and the undo is reported complete, each cell of the
\* medium is what it was before, except in the one write that was cut short
\* between two blocks (bios_install's cleanup, _device_write, uninstall).
FailureIsUndone ==
    ph = "exit" /\ exit = "failed" /\ undone =>
        \A c \in 0 .. Cells - 1 : c \in dev.torn \/ dev.disk[c] = orig[c]

\* --uninstall after an installation restores the medium, the conversion of a
\* GPT and forced changes included (store_uninstall_data, uninstall).
UninstallRestores == ph = "end" /\ exit = "ok" => dev.disk = orig

\* What a failed read left in the cache never reaches the medium unnoticed: an
\* installation that reports success, and an undo that does, have written none of
\* it, whatever failed before.  A second failure of an entry leaves the cache as it
\* is for the next one (device_cache_block, uninstall), and what it held can get
\* written; but the undo is then reported to have failed.
JunkIsReported ==
    (\E c \in 0 .. Cells - 1 : dev.disk[c] = Junk) => exit = "failed" /\ ~undone

Stage2Cells == stage2_loc .. stage2_loc + STAGE2 - 1

Cleared ==
    IF ~conv.on THEN {}
    ELSE 0 .. PRIMARY * gpt.lb - 1
         \cup (IF gpt.alt >= SECONDARY - 1
               THEN (gpt.alt - SECONDARY + 1) * gpt.lb .. (gpt.alt + 1) * gpt.lb - 1 ELSE {})

\* Stage 2 lies in a partition of the GPT, or before all those of an MBR table.
Stage2HasRoom ==
    IF gpt.on
    THEN \E c \in gpt.base .. gpt.base + gpt.n - 1 :
            Used(orig[c]) /\ Stage2Cells \subseteq
                orig[c][3] * gpt.lb .. (orig[c][4] + 1) * gpt.lb - 1
    ELSE \A i \in 1 .. MAX_PARTS :
            LET p == AsPart(dev.disk[TABLE + i - 1])
            IN p[3] # 0 => p[4] * W > stage2_loc + STAGE2 - 1

\* An installation that reports success is complete on the medium: the boot
\* sector leads to the whole of stage 2, which has room where it is; it keeps time
\* stamp, disk id and table but for the flags; and nothing else changed but a GPT
\* that was converted.
SuccessIsComplete ==
    ph = "exit" /\ exit = "ok" =>
        LET d == dev.disk
            was == [c \in 0 .. Cells - 1 |-> IF c \in Cleared THEN <<"zero">> ELSE orig[c]]
        IN /\ Stage2HasRoom
           /\ d[0] = <<"boot", 0>> /\ d[1] = <<"boot", 1>>
           /\ d[LOC] = <<"loc", stage2_loc>>
           /\ \A c \in Stage2Cells : d[c] = <<"stage2", c - stage2_loc>>
           /\ d[STAMP] = was[STAMP]
           /\ ~conv.on => d[ID] = was[ID]
           /\ ~conv.on =>
                 \A i \in 1 .. MAX_PARTS :
                    SetFlag(d[TABLE + i - 1], 0) = SetFlag(was[TABLE + i - 1], 0)
           /\ \A c \in W .. Cells - 1 : c \notin Stage2Cells => d[c] = was[c]

\* The address a CHS value stands for.
ChsToLba(chs) ==
    (((chs[2] \div 64) * 256 + chs[3]) * 255 + chs[1]) * 63 + (chs[2] % 64) - 1

\* A converted table describes the partitions of the GPT: same place, size and
\* type, with a CHS address that is the same sector up to the last one of 1024
\* cylinders and the conventional maximum from there on (lba2chs, the conversion
\* in bios_install).
ConversionKeepsPartitions ==
    ph = "exit" /\ exit = "ok" =>
        \A i \in DOMAIN conv.es :
            LET p == dev.disk[TABLE + i - 1]
                chsOf(chs, lba) == IF lba < 1024 * 255 * 63 THEN ChsToLba(chs) = lba
                                   ELSE chs = <<254, 255, 255>>
            IN /\ p[3] = Gpt2mbr[conv.es[i][2]]
               /\ p[4] = conv.es[i][3] /\ p[5] = conv.es[i][4] - conv.es[i][3] + 1
               /\ chsOf(p[6], conv.es[i][3]) /\ chsOf(p[7], conv.es[i][4])

\* The comment "If we failed, attempt to reverse install process" without the
\* exception of FailureIsUndone.
FailureIsFullyUndone == ph = "exit" /\ exit = "failed" /\ undone => dev.disk = orig
==============================================================================
