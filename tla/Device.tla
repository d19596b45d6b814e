------------------------------- MODULE Device --------------------------------
(***************************************************************************)
(* The block cache and the undo log under the boot loader's installer,     *)
(* boot/limine/limine-install.c.  All accesses to the device go through    *)
(* one cached block, written back when another block is wanted; each write *)
(* first saves what it replaces as uninstall data.                         *)
(*                                                                         *)
(* A device is a record: the contents of the medium (disk, by cell; a cell *)
(* is a field of a sector), the cache (cached_block is at, -1 for none),   *)
(* the undo log, whether the last call succeeded (ok), and the number of   *)
(* transfers so far (io).  The medium says which transfers fail: those of  *)
(* less than a physical block (phys), those whose number is in glitches,   *)
(* and from number since on those of a block with a cell of bad.           *)
(* A read that fails leaves unknown contents, Junk, in the cache; a write  *)
(* that fails leaves the block as it was.  A write is taken to reach the   *)
(* medium in the call of fwrite; what stdio holds back until fclose, whose *)
(* result the installer does not look at, is left out.                     *)
(***************************************************************************)
EXTENDS Integers, FiniteSets, SequencesExt

CONSTANTS UNINSTALL_DATA_MAX,   \* entries of the undo log
          Cells                 \* size of the medium

ASSUME DeviceAssumption == UNINSTALL_DATA_MAX \in Nat /\ Cells \in Nat \ {0}

Junk == <<"junk">>

Sound == [phys |-> 1, glitches |-> {}, bad |-> {}, since |-> 0]

NewDevice(contents, medium) ==
    [disk |-> contents, medium |-> medium, io |-> 0, ok |-> TRUE,
     block_size |-> 1, at |-> -1, cache |-> <<>>, dirty |-> FALSE,
     undo |-> <<>>, uninstalling |-> FALSE, torn |-> {}]

\* The cells of block b.
BlockCells(d, b) == b * d.block_size .. (b + 1) * d.block_size - 1

\* A transfer fails when the medium makes it, or runs past its end.
Transfer(d, b) ==
    LET n == d.io + 1
        fails == \/ d.block_size < d.medium.phys
                 \/ n \in d.medium.glitches
                 \/ n >= d.medium.since /\ BlockCells(d, b) \cap d.medium.bad # {}
    IN [d EXCEPT !.io = n, !.ok = ~fails /\ (b + 1) * d.block_size <= Cells]

\* fread of block b into the cache.  The caller says which block that is.
Fread(d, b) ==
    LET t == Transfer(d, b)
    IN [t EXCEPT !.cache = [i \in 0 .. d.block_size - 1 |->
                   IF t.ok THEN d.disk[b * d.block_size + i] ELSE Junk]]

-----------------------------------------------------------------------------
\* device_init: the first of the guesses whose block 0 can be read.
DeviceInit(d, guesses) ==
    LET try(e, size) == IF e.at = 0 THEN e
                        ELSE LET r == Fread([e EXCEPT !.block_size = size], 0)
                             IN IF r.ok THEN [r EXCEPT !.at = 0, !.dirty = FALSE] ELSE r
    IN FoldLeft(try, [d EXCEPT !.at = -1], guesses)

\* device_flush_cache.
Flush(d) ==
    IF ~d.dirty THEN [d EXCEPT !.ok = TRUE]
    ELSE LET t == Transfer(d, d.at)
         IN IF ~t.ok THEN t
            ELSE [t EXCEPT !.dirty = FALSE,
                           !.disk = [c \in DOMAIN @ |->
                               IF c \div d.block_size = d.at THEN d.cache[c % d.block_size]
                               ELSE @[c]]]

\* device_cache_block: the old block is written back, the new one read and,
\* when that worked, recorded.
Recorded(r, b) == IF r.ok THEN [r EXCEPT !.at = b] ELSE r
Replaced(f, b) == IF f.ok THEN Recorded(Fread(f, b), b) ELSE f

CacheBlock(d, b) ==
    IF d.at = b THEN [d EXCEPT !.ok = TRUE] ELSE Replaced(Flush(d), b)

\* The parts of loc .. loc + count - 1, each in one block: the loops of
\* _device_read and _device_write.
Chunks(d, loc, count) ==
    LET first == loc \div d.block_size
        last == (loc + count - 1) \div d.block_size
    IN [i \in 1 .. IF count = 0 THEN 0 ELSE last - first + 1 |->
           [block |-> first + i - 1,
            cells |-> BlockCells(d, first + i - 1) \cap loc .. loc + count - 1]]

\* _device_read: the device after it, and the data by cell.
DeviceRead(d, loc, count) ==
    LET copied(c, data, cells) ==
          [dev |-> c, data |-> [x \in DOMAIN data |->
              IF c.ok /\ x \in cells THEN c.cache[x % d.block_size] ELSE data[x]]]
        step(a, ch) == IF ~a.dev.ok THEN a
                       ELSE copied(CacheBlock(a.dev, ch.block), a.data, ch.cells)
    IN FoldLeft(step, [dev |-> [d EXCEPT !.ok = TRUE],
                       data |-> [x \in loc .. loc + count - 1 |-> Junk]],
                Chunks(d, loc, count))

\* The cell at loc, when the read succeeds.
ReadCell(d, loc) == LET r == DeviceRead(d, loc, 1) IN [dev |-> r.dev, v |-> r.data[loc]]

\* The loop of _device_write, data being a function on the cells to write.
Store(d, loc, data) ==
    LET changed(c, ch) ==
          IF ~c.ok THEN c
          ELSE [c EXCEPT !.dirty = TRUE,
                         !.cache = [i \in DOMAIN @ |->
                             LET x == ch.block * d.block_size + i
                             IN IF x \in ch.cells THEN data[x] ELSE @[i]]]
        step(e, ch) == IF ~e.ok THEN e ELSE changed(CacheBlock(e, ch.block), ch)
    IN FoldLeft(step, [d EXCEPT !.ok = TRUE], Chunks(d, loc, Cardinality(DOMAIN data)))

\* _device_write.  The entry of the undo log counts only once all of it is in
\* the cache; torn is a history: the cells of a write that was left half done.
\* A bug: what a write replaces is saved after it.
DeviceWriteSavesLate(d, loc, data) ==
    LET logged(saved) == [saved.dev EXCEPT !.undo = Append(@, saved.data)]
        stored(w) == IF d.uninstalling \/ ~w.ok THEN w
                     ELSE logged(DeviceRead(w, loc, Cardinality(DOMAIN data)))
    IN stored(Store(d, loc, data))

DeviceWrite(d, loc, data) ==
    LET logged(w, old) == IF w.ok THEN [w EXCEPT !.undo = Append(@, old)]
                          ELSE [w EXCEPT !.torn = DOMAIN data]
        stored(saved) == IF ~saved.dev.ok THEN saved.dev
                         ELSE logged(Store(saved.dev, loc, data), saved.data)
    IN IF d.uninstalling THEN Store(d, loc, data)
       ELSE IF Len(d.undo) >= UNINSTALL_DATA_MAX THEN [d EXCEPT !.ok = FALSE]
       ELSE stored(DeviceRead(d, loc, Cardinality(DOMAIN data)))

\* A write of a sequence of values at loc, and several of them in a row, the
\* first that fails ending the series (the macro device_write).
Buffer(loc, s) == [x \in loc .. loc + Len(s) - 1 |-> s[x - loc + 1]]

WriteAll(d, writes) ==
    FoldLeft(LAMBDA e, w : IF e.ok THEN DeviceWrite(e, w.loc, Buffer(w.loc, w.data)) ELSE e,
             d, writes)

-----------------------------------------------------------------------------
\* Forget the cached block, as uninstall does before it starts and between the
\* attempts at an entry.
\* A bug: the block last asked for still counts as cached.
ForgetOnlyState(d) == [d EXCEPT !.dirty = FALSE]

Forget(d) == [d EXCEPT !.dirty = FALSE, !.at = -1]

\* uninstall over the entries of the log, in the order of the log; ok says
\* whether all of it was written, in one attempt or in two, and flushed.
Uninstall(d) ==
    LET at(data) == CHOOSE x \in DOMAIN data : \A y \in DOMAIN data : x <= y
        second(again, clean) == [dev |-> again, clean |-> clean /\ again.ok]
        retry(f, data, clean) ==
          second(DeviceWrite(Forget(f), at(data), data), clean /\ f.ok)
        first(w, data, clean) == IF w.ok THEN [dev |-> w, clean |-> clean]
                                 ELSE retry(Flush(w), data, clean)
        step(a, data) == first(DeviceWrite(a.dev, at(data), data), data, a.clean)
        end(all) == [Flush(all.dev) EXCEPT !.ok = @ /\ all.clean]
    IN end(FoldLeft(step, [dev |-> [Forget(d) EXCEPT !.uninstalling = TRUE], clean |-> TRUE],
                    d.undo))
==============================================================================
