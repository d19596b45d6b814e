--------------------------------- MODULE Elf ---------------------------------
(***************************************************************************)
(* How execve lays out a program: the pages that elf_load (core/cpu/elf.c) *)
(* fills from an image, and the stack that build_user_stack (exec.c) puts  *)
(* in front of it.  Pure functions of their input, checked against what    *)
(* the ELF format and the ABI ask for.                                     *)
(*                                                                         *)
(* Memory maps an address to -1 (not mapped), 0 or 1 + the offset of the   *)
(* byte of the image it holds.  Program headers have the offset congruent  *)
(* to the address modulo the page size, as linkers make them, but may lead *)
(* past the end of the image.                                              *)
(***************************************************************************)
EXTENDS Integers, Sequences

CONSTANTS PAGE,          \* UIX_PAGE_SIZE
          Vaddrs, FileOffsets, MemSizes, ImageLen,   \* bounds on program headers
          MaxPages,      \* bound on the free pages
          STACK_TOP, STACK_SIZE, MaxPath

ASSUME ElfAssumption == PAGE \in Nat \ {0} /\ STACK_TOP % 16 = 0

Down(a) == (a \div PAGE) * PAGE
Up(a) == Down(a + PAGE - 1)
Align16(a) == (a \div 16) * 16

Phdr == {ph \in [type : {"load", "note"}, vaddr : Vaddrs, memsz : MemSizes,
                 filesz : MemSizes, offset : FileOffsets] :
            /\ ph.filesz <= ph.memsz
            /\ ph.offset % PAGE = ph.vaddr % PAGE}

MaxSize == CHOOSE n \in MemSizes : \A k \in MemSizes : k <= n

\* The addresses of the pages of a segment, in order.
PagesOf(ph) ==
    LET start == Down(ph.vaddr)
    IN [k \in 1 .. (Up(ph.vaddr + ph.memsz) - start) \div PAGE |-> start + (k - 1) * PAGE]

\* How much of the file a page gets; less than 0 when it would come from behind the
\* end of the image, which is a huge number in the code.
\* A bug: the page is filled from the file past the segment's file part.
CopySizeOfMemory(ph, va) ==
    LET off == ph.offset + va - ph.vaddr
        rest == ph.vaddr + ph.memsz - va
        copy == IF rest > PAGE THEN PAGE ELSE rest
    IN IF off < ph.offset \/ va >= ph.vaddr + ph.filesz THEN 0
       ELSE IF off + copy > ImageLen THEN ImageLen - off ELSE copy

CopySize(ph, va) ==
    LET off == ph.offset + va - ph.vaddr
        rest == ph.vaddr + ph.filesz - va
        copy == IF rest > PAGE THEN PAGE ELSE rest
    IN IF off < ph.offset \/ va >= ph.vaddr + ph.filesz THEN 0
       ELSE IF off + copy > ImageLen THEN ImageLen - off ELSE copy

\* A page: allocated, cleared, mapped, copied to.  l = [ret, left, mem]; ret is
\* "entry" until something fails.  vmm_map panics when the page is mapped already;
\* what a copy of a huge size does is left out.
LoadPage(l, ph, va) ==
    IF l.ret # "entry" THEN l
    ELSE IF l.left = 0 THEN [l EXCEPT !.ret = "0"]
    ELSE IF l.mem[va] # -1 THEN [l EXCEPT !.ret = "panic"]
    ELSE IF CopySize(ph, va) < 0 THEN [l EXCEPT !.ret = "overrun"]
    ELSE [l EXCEPT !.left = @ - 1,
                   !.mem = [a \in DOMAIN l.mem |->
                       IF a \notin va .. va + PAGE - 1 THEN l.mem[a]
                       ELSE IF a < va + CopySize(ph, va) THEN 1 + ph.offset + a - ph.vaddr
                       ELSE 0]]

LoadSegment(l, ph) ==
    IF ph.type # "load" THEN l
    ELSE LET va == PagesOf(ph)
             after[k \in 0 .. Len(va)] == IF k = 0 THEN l ELSE LoadPage(after[k - 1], ph, va[k])
         IN after[Len(va)]

\* elf_load of an image whose headers are well formed or not, with so many pages free.
ElfLoad(valid, phs, pages) ==
    LET top == CHOOSE v \in Vaddrs : \A w \in Vaddrs : w <= v
        refused == ~valid \/ phs = <<>>
        empty == [ret |-> IF refused THEN "0" ELSE "entry", left |-> pages,
                  mem |-> [a \in 0 .. Up(top + MaxSize) |-> -1]]
        after[k \in 0 .. Len(phs)] == IF k = 0 THEN empty ELSE LoadSegment(after[k - 1], phs[k])
    IN after[Len(phs)]

\* build_user_stack for a path of so many characters, the final one included: the
\* words argc, argv, envp and auxv from rsp on, the random bytes, the string.
BuildUserStack(pathlen) ==
    LET argv0 == STACK_TOP - 64 - pathlen
        random == Align16(argv0 - 16)
        aux_words == 6
        frame_bytes == (1 + 2 + 1 + aux_words + 1) * 8
        rsp == Align16(random - frame_bytes)
    IN [rsp |-> rsp, end |-> rsp + (4 + aux_words) * 8, random |-> random, argv0 |-> argv0]

-----------------------------------------------------------------------------
\* No page with a part of the file starts behind the end of the image.
InImage(s) ==
    \A i \in {j \in DOMAIN s : s[j].type = "load"} : \A k \in DOMAIN PagesOf(s[i]) :
        LET va == PagesOf(s[i])[k]
        IN va < s[i].vaddr + s[i].filesz => s[i].offset + va - s[i].vaddr <= ImageLen

\* Two segments that share no page.
Apart(p, q) == Up(p.vaddr + p.memsz) <= Down(q.vaddr) \/ Up(q.vaddr + q.memsz) <= Down(p.vaddr)

\* What an address of a segment is to hold.
Wanted(ph, a) ==
    LET off == ph.offset + a - ph.vaddr
    IN IF a < ph.vaddr + ph.filesz /\ off < ImageLen THEN 1 + off ELSE 0

\* The pages of segments s are loaded with so many pages free: each segment holds
\* its part of the file and zeros behind, and nothing else is mapped; it fails
\* only for want of pages.
Loads(s, pages) ==
    LET l == ElfLoad(TRUE, s, pages)
        loaded == {i \in DOMAIN s : s[i].type = "load"}
        need[k \in 0 .. Len(s)] ==
            IF k = 0 THEN 0
            ELSE need[k - 1] + IF s[k].type = "load" THEN Len(PagesOf(s[k])) ELSE 0
        covered(a) == \E i \in loaded : a \in Down(s[i].vaddr) .. Up(s[i].vaddr + s[i].memsz) - 1
    IN /\ l.ret = IF need[Len(s)] <= pages THEN "entry" ELSE "0"
       /\ l.ret = "entry" =>
                  /\ \A i \in loaded : \A a \in s[i].vaddr .. s[i].vaddr + s[i].memsz - 1 :
                        l.mem[a] = Wanted(s[i], a)
                  /\ \A a \in DOMAIN l.mem : (l.mem[a] # -1) = covered(a)

\* The programs considered: one segment, or two that begin on a page and share none.
Aligned(s) == \A k \in DOMAIN s : s[k].vaddr % PAGE = 0

Programs == {<<p>> : p \in Phdr}
            \cup {s \in Phdr \X Phdr : Aligned(s) /\ Apart(s[1], s[2])}

\* The parts of the stack for a path lie in it, apart, and its pointer is aligned.
StackIsBuilt(pathlen) ==
    LET s == BuildUserStack(pathlen)
    IN /\ s.rsp % 16 = 0 /\ s.rsp >= STACK_TOP - STACK_SIZE
       /\ s.end <= s.random /\ s.random + 16 <= s.argv0
       /\ s.argv0 + pathlen <= STACK_TOP
==============================================================================
