------------------------------- MODULE MCLimine ------------------------------
(***************************************************************************)
(* Limine on a medium of twelve sectors of seven cells.  The layouts:      *)
(*   "mbr"   two table entries, the first starting inside or after the     *)
(*           gap, flags right or wrong, with or without a file system      *)
(*   "gpt"   header in sector 1, entries in sector 2, partitions in 4-5    *)
(*           and 6-7, secondary in 10-11; one or two sectors to a logical  *)
(*           block; the ISO signature in sector 8 of a hybrid image        *)
(* On each of them no transfer, or up to Burst in a row from any one on,   *)
(* fail.  On one of each kind a sector may also go bad for good at any     *)
(* transfer, with physical blocks of one, two or four sectors.  The boot   *)
(* loaders for enroll-config are over two byte values, the signature "++C". *)
(***************************************************************************)
EXTENDS Limine

CONSTANTS MaxIo, Burst

MCBlockGuesses == <<W, 2 * W, 4 * W>>
MCLbGuesses == <<W, 2 * W>>

MCSign == <<"+", "+", "C">>

Sec(n) == n * W

Arg(force, convert, part, store) ==
    [force |-> force, convert |-> convert, part |-> part, store |-> store]

Entry(type, first, last) == <<"entry", type, first, last>>
Part(flag, type, start) ==
    <<"part", flag, type, start, 2, Lba2chs(start), Lba2chs(start + 1)>>

\* Contents given by their interesting cells, the others being the user's data.
Contents(special) ==
    [c \in 0 .. Cells - 1 |-> IF c \in DOMAIN special THEN special[c]
                              ELSE IF c \in TABLE .. W - 1 THEN Part(0, 0, 0)
                              ELSE <<"data", c>>]

MbrDisk(flag, start, fs) ==
    Contents((TABLE :> Part(flag, 7, start)) @@ fs)

\* A GPT with the given entries, logical blocks of k sectors.
GptDisk(k, es, alt, iso) ==
    Contents((Sec(k) :> <<"gpt", alt, 2, Len(es)>>)
             @@ (Sec(k * 5) :> <<"gpt", 1, 2, 0>>) @@ (Sec(11) :> <<"gpt", 1, 2, 0>>)
             @@ [c \in Sec(2 * k) .. Sec(2 * k) + Len(es) - 1 |-> es[c - Sec(2 * k) + 1]]
             @@ (IF iso THEN ISO :> <<"iso">> ELSE <<>>))

Fs(loc, name) == loc :> <<"fs", name>>

Layouts ==
    {[disk |-> MbrDisk(flag, start, fs), arg |-> Arg(force, TRUE, AUTO, TRUE)] :
        flag \in {0, 128, 129}, start \in {GAP - 1, GAP}, force \in BOOLEAN,
        fs \in {<<>>, Fs(0, "NTFS"), Fs(0, "FAT32"), Fs(1, "FAT"), Fs(2 * W + 1, "ext")}}
    \cup
    {[disk |-> GptDisk(1, es, 11, iso), arg |-> Arg(force, convert, part, store)] :
        es \in {<<Entry("efi", 4, 5), Entry("bios", 6, 7)>>,
                <<<<"zero">>, Entry("bios", 4, 4)>>},
        iso \in BOOLEAN, force \in BOOLEAN, convert \in BOOLEAN,
        part \in {AUTO, 0, 1, 2, 3}, store \in {TRUE}}
    \cup
    {[disk |-> GptDisk(1, es, 11, TRUE), arg |-> Arg(FALSE, TRUE, AUTO, store)] :
        es \in {<<Entry("efi", 4, last), <<"zero">>, Entry("hfs", 7, 7)>> :
                   last \in {3, 5, 16434494, 16434495, 16450559, 16450560, 16450561,
                             UINT32_MAX, UINT32_MAX + 1}}
               \cup {<<>>, <<Entry("efi", 3, 5)>>,
                     <<Entry("efi", 4, 4), Entry("data", 5, 5), Entry("hfs", 6, 6)>>},
        store \in BOOLEAN}
    \cup
    {[disk |-> GptDisk(2, <<Entry("bios", 3, 3)>>, alt, FALSE), arg |-> Arg(force, TRUE, AUTO, TRUE)] :
        alt \in {4, 5, 6}, force \in BOOLEAN}

FaultSets == {{}} \cup {a .. b : a \in 1 .. MaxIo, b \in 1 .. MaxIo}
Bursts == {f \in FaultSets : Cardinality(f) <= Burst}

\* One layout of each kind, on which a sector may go bad for good.
Plain ==
    {[disk |-> MbrDisk(0, GAP, <<>>), arg |-> Arg(FALSE, TRUE, AUTO, TRUE)],
     [disk |-> GptDisk(1, <<Entry("efi", 4, 5), Entry("bios", 6, 7)>>, 11, FALSE),
      arg |-> Arg(FALSE, TRUE, AUTO, TRUE)],
     [disk |-> GptDisk(1, <<Entry("efi", 4, 5), <<"zero">>, Entry("hfs", 7, 7)>>, 11, TRUE),
      arg |-> Arg(FALSE, TRUE, AUTO, TRUE)]}

Worn ==
    {[Sound EXCEPT !.phys = phys, !.bad = {Sec(n)}, !.since = since] :
        phys \in {W, 2 * W, 4 * W}, n \in 0 .. Cells \div W - 1, since \in 1 .. MaxIo}

MCSetups ==
    LET glitchy == {[Sound EXCEPT !.glitches = f] : f \in Bursts}
    IN {[disk |-> l.disk, arg |-> l.arg,
         media |-> IF l \in Plain THEN glitchy \cup Worn ELSE glitchy] : l \in Layouts}
==============================================================================
