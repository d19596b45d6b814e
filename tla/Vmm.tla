--------------------------------- MODULE Vmm ---------------------------------
(***************************************************************************)
(* User address spaces: fork with copy-on-write, the page fault that makes *)
(* the copy, execve's replacement of the image, and the TLB                *)
(* (core/memory/vmm.c, core/cpu/exec.c, fork.c, elf.c, user.c), on top of  *)
(* the page allocator of module PmmOps.                                    *)
(*                                                                         *)
(* A space is its PML4 page (root), one page that stands for the tables    *)
(* below it (pt) and the leaf entries.  An image is one code page and the  *)
(* stack pages.  The contents of a page are the last process that wrote    *)
(* it, 0 for anything else.  A handler runs with interrupts off: it is one *)
(* step, written as a chain of operators on the record                     *)
(*    k = [pm, mem, khalf, buf, oom, sp]                                   *)
(* of which sp is the space the handler works on.                          *)
(***************************************************************************)
EXTENDS PmmOps, Sequences

CONSTANTS Process,   \* 1 .. n; process 1 is made by user_task_create
          Images,    \* what execve is called with, a subset of ImageKinds
          Stack,     \* addresses of the stack pages, from USER_STACK_TOP down
          Tracked,   \* addresses at which the contents of pages are followed
          MaxExecs   \* bound on the number of execve calls

\* flat is in the program table; elf, raw and bad are files: raw is no ELF file and
\* loaded like a flat program, bad is one that elf_load refuses; the disk fails
\* while unread is read; none is nowhere.
ImageKinds == {"flat", "elf", "raw", "bad", "unread", "none"}
OnDisk == {"elf", "raw", "bad", "unread"}

ASSUME VmmAssumption ==
    /\ Process \subseteq Nat \ {0} /\ IsFiniteSet(Process)
    /\ 1 \in Process
    /\ Images \subseteq ImageKinds
    /\ Stack \in Seq(STRING \ {"code"}) /\ Len(Stack) > 0
    /\ \A i, j \in DOMAIN Stack : Stack[i] = Stack[j] => i = j
    /\ MaxExecs \in Nat

VA == <<"code">> \o Stack
Addr == {VA[i] : i \in DOMAIN VA}
Idle == 0                            \* the idle task: it has no space (cr3 = 0)

VARIABLES
    pm,      \* the page allocator (PmmOps)
    mem,     \* contents of the physical pages
    khalf,   \* pages whose entries 256..511 are the kernel's
    buf,     \* file_buf of the file system, one page, or NoPage
    space,   \* task->cr3 and what it leads to
    alive,   \* processes that have been created and have not exited
    cur,     \* the current process, whose CR3 is loaded, or Idle
    tlb,     \* page of a cached writable translation, or NoPage
    panic,   \* "no", "oom" or "fault"; pmm_free's own is pm.panic
    execs,   \* execve calls made
    view     \* what each process last put at each address (history)

vmmVars == <<pm, mem, khalf, buf, space, alive, cur, tlb, panic, execs, view>>

NoPte == [present |-> FALSE, page |-> NoPage, w |-> FALSE, cow |-> FALSE]
NoSpace == [root |-> NoPage, pt |-> NoPage, map |-> [a \in Addr |-> NoPte]]
Content == {0} \cup Process

PteType == [present : BOOLEAN, page : Page, w : BOOLEAN, cow : BOOLEAN]
SpaceType == [root : Page, pt : Page, map : [Addr -> PteType]]

VmmTypeOK ==
    /\ pm \in PmmType
    /\ mem \in [Page -> Content]
    /\ khalf \in SUBSET Page
    /\ buf \in Page
    /\ space \in [Process -> SpaceType]
    /\ alive \in SUBSET Process
    /\ cur \in {Idle} \cup Process
    /\ tlb \in [Addr -> Page]
    /\ panic \in {"no", "oom", "fault"}
    /\ execs \in 0 .. MaxExecs
    /\ view \in [Process -> [Addr -> Content]]

-----------------------------------------------------------------------------
\* A loop over the addresses s that starts with k.
ForEach(Step(_, _), k, s) ==
    LET after[n \in 0 .. Len(s)] == IF n = 0 THEN k ELSE Step(after[n - 1], s[n])
    IN after[Len(s)]

\* pmm_alloc followed by "if (!t) panic" and memset: a page for a table.
AllocTable(k) ==
    LET t == PmmAllocated(k.pm)
    IN IF t = NoPage THEN [k EXCEPT !.oom = TRUE]
       ELSE [k EXCEPT !.pm = AfterAlloc(@), !.mem[t] = 0, !.khalf = @ \ {t}]

AllocRoot(k) == [AllocTable(k) EXCEPT !.sp = [NoSpace EXCEPT !.root = PmmAllocated(k.pm)]]
AllocPt(k) == [AllocTable(k) EXCEPT !.sp.pt = PmmAllocated(k.pm)]

\* vmm_create_space, and the start of vmm_fork_user_space: a PML4 whose kernel
\* half is copied from the loaded one, "from" (NoPage: the kernel's own).
CreateSpace(k, from) ==
    LET c == AllocRoot(k)
    IN IF c.oom \/ from \notin {NoPage} \cup c.khalf THEN c
       ELSE [c EXCEPT !.khalf = @ \cup {c.sp.root}]

\* vmm_map of a page just allocated; pt_for makes the tables at the first one.
VmmMap(k, a, page) ==
    LET t == IF k.sp.pt = NoPage THEN AllocPt(k) ELSE k
    IN [t EXCEPT !.sp.map[a] = [present |-> TRUE, page |-> page, w |-> TRUE, cow |-> FALSE]]

\* One page of the user stack: pmm_alloc's result is not looked at.
MapStackPage(k, a) == VmmMap([k EXCEPT !.pm = AfterAlloc(@)], a, PmmAllocated(k.pm))

\* The code page: a flat image maps what pmm_alloc returns; elf_load gives up
\* when it returns 0.  Then it holds the image.
CodeFails(k, image) == image = "elf" /\ PmmAllocated(k.pm) = NoPage

MapCode(k) == LET c == MapStackPage(k, "code")
              IN [c EXCEPT !.mem[c.sp.map["code"].page] = 0]

\* A bug: the page is allocated once, outside the loop.
MapStackShared(k) ==
    LET page == PmmAllocated(k.pm)
    IN ForEach(LAMBDA c, a : VmmMap(c, a, page), [k EXCEPT !.pm = AfterAlloc(@)], Stack)

MapStack(k) == ForEach(MapStackPage, k, Stack)

\* build_user_stack writes argc and argv at the top of the stack.
BuildUserStack(k) == [k EXCEPT !.mem[k.sp.map[Stack[1]].page] = 0]

\* free_user_tables: drop a reference on every leaf page; then the tables and
\* the PML4 go back to the allocator.
UnrefLeaf(k, a) ==
    IF k.sp.map[a].present THEN [k EXCEPT !.pm = AfterUnref(@, k.sp.map[a].page)] ELSE k

FreeTable(k, t) == IF t = NoPage THEN k ELSE [k EXCEPT !.pm = AfterFree(@, t)]

FreeSpace(k) == LET leaves == ForEach(UnrefLeaf, k, VA)
                IN FreeTable(FreeTable(leaves, k.sp.pt), k.sp.root)

\* A bug: file_buf still points at the released pages.
FreeBufKeeps(k) == FreeTable(k, k.buf)

\* uixfs_read of a file: file_buf_free, then file_buf_alloc.
FreeBuf(k) == [FreeTable(k, k.buf) EXCEPT !.buf = NoPage]

ReadFile(k) == LET f == FreeBuf(k)
               IN [f EXCEPT !.buf = PmmAllocatedPages(f.pm, 1), !.pm = AfterAllocPages(@, 1)]

\* A bug: the page is shared and not counted.
ForkLeafUncounted(k, a) ==
    IF ~k.sp.map[a].present THEN k
    ELSE [k EXCEPT !.sp.map[a] = [@ EXCEPT !.w = FALSE, !.cow = TRUE]]

\* fork_table on one leaf: the entry loses W and gets the COW mark.
ForkLeaf(k, a) ==
    IF ~k.sp.map[a].present THEN k
    ELSE [k EXCEPT !.sp.map[a] = [@ EXCEPT !.w = FALSE, !.cow = TRUE],
                   !.pm = AfterRef(@, k.sp.map[a].page)]

-----------------------------------------------------------------------------
Kernel(sp) == [pm |-> pm, mem |-> mem, khalf |-> khalf, buf |-> buf,
                oom |-> FALSE, sp |-> sp]

\* A handler leaves the machine as k.
Leave(k) ==
    /\ pm' = k.pm
    /\ mem' = k.mem
    /\ khalf' = k.khalf
    /\ buf' = k.buf
    /\ panic' = IF k.oom THEN "oom"
                \* the kernel is gone from the space whose CR3 is loaded
                ELSE IF k.sp.root \notin k.khalf THEN "fault" ELSE panic

Flushed == [a \in Addr |-> NoPage]

\* A bug: the new page tables are built and CR3 is not loaded.
LoadCr3Skipped(t) == t

\* The TLB t after CR3 is loaded: user translations are not global.
LoadCr3(t) == Flushed

\* What a process finds at its addresses in the space sp.
Contents(sp, m) == [a \in Addr |-> m[sp.map[a].page]]

\* user_task_create made process 1 and the scheduler switched to it.
VmmInit ==
    LET boot == [pm |-> PmmBoot, mem |-> [i \in Page |-> 0], khalf |-> {},
                 buf |-> NoPage, oom |-> FALSE, sp |-> NoSpace]
        k == MapStack(MapCode(CreateSpace(boot, NoPage)))
    IN /\ pm = k.pm
       /\ mem = k.mem
       /\ khalf = k.khalf
       /\ buf = NoPage
       /\ space = [p \in Process |-> IF p = 1 THEN k.sp ELSE NoSpace]
       /\ alive = {1}
       /\ cur = 1
       /\ tlb = Flushed
       /\ panic = "no"
       /\ execs = 0
       /\ view = [p \in Process |-> [a \in Addr |-> 0]]

Running == cur # Idle /\ panic = "no" /\ ~pm.panic

\* The scheduler switches tasks: schedule() loads CR3, which empties the TLB,
\* unless the next task is the idle task.
Switch(q) ==
    /\ panic = "no" /\ ~pm.panic
    /\ q \in (alive \cup {Idle}) \ {cur}
    /\ cur' = q
    /\ tlb' = IF q = Idle THEN tlb ELSE LoadCr3(tlb)
    /\ UNCHANGED <<pm, mem, khalf, buf, space, alive, panic, execs, view>>

\* SYS_exit: the process is left for another task; its space is not touched.
Exit(q) ==
    /\ Running
    /\ q \in (alive \cup {Idle}) \ {cur}
    /\ alive' = alive \ {cur}
    /\ cur' = q
    /\ tlb' = IF q = Idle THEN tlb ELSE LoadCr3(tlb)
    /\ UNCHANGED <<pm, mem, khalf, buf, space, panic, execs, view>>

\* A store of the current process that the TLB or the page table lets through.
\* The TLB keeps the translation until the page table walk's result is dropped.
Write(a) ==
    LET pte == space[cur].map[a]
        page == IF tlb[a] # NoPage THEN tlb[a] ELSE pte.page
    IN /\ Running
       /\ tlb[a] # NoPage \/ (pte.present /\ pte.w)
       /\ mem' = IF a \in Tracked THEN [mem EXCEPT ![page] = cur] ELSE mem
       /\ tlb' = [tlb EXCEPT ![a] = page]
       /\ view' = IF a \in Tracked THEN [view EXCEPT ![cur][a] = cur] ELSE view
       /\ UNCHANGED <<pm, khalf, buf, space, alive, cur, panic, execs>>

\* The processor may drop a cached translation at any time.
Evict(a) ==
    /\ Running
    /\ tlb[a] # NoPage
    /\ tlb' = [tlb EXCEPT ![a] = NoPage]
    /\ UNCHANGED <<pm, mem, khalf, buf, space, alive, cur, panic, execs, view>>

\* vmm_page_fault for a store that neither the TLB nor the page table lets
\* through.  A COW page is copied while its count is above 1, otherwise made
\* writable; invlpg follows.  Any other fault ends in a panic.
PageFault(a) ==
    LET pte == space[cur].map[a]
        new == PmmAllocated(pm)
        copied == [pte EXCEPT !.page = new, !.w = TRUE, !.cow = FALSE]
        reused == [pte EXCEPT !.w = TRUE, !.cow = FALSE]
    IN /\ Running
       /\ tlb[a] = NoPage /\ ~(pte.present /\ pte.w)
       /\ \/ /\ pte.cow /\ PmmGetref(pm, pte.page) > 1
             /\ IF new = NoPage
                THEN panic' = "oom" /\ UNCHANGED <<pm, mem, space>>
                ELSE /\ pm' = AfterUnref(AfterAlloc(pm), pte.page)
                     /\ mem' = [mem EXCEPT ![new] = mem[pte.page]]
                     /\ space' = [space EXCEPT ![cur].map[a] = copied]
                     /\ UNCHANGED panic
          \/ /\ pte.cow /\ PmmGetref(pm, pte.page) <= 1
             /\ space' = [space EXCEPT ![cur].map[a] = reused]
             /\ UNCHANGED <<pm, mem, panic>>
          \/ /\ ~pte.cow
             /\ panic' = "fault"
             /\ UNCHANGED <<pm, mem, space>>
       /\ UNCHANGED <<khalf, buf, alive, cur, tlb, execs, view>>

\* SYS_fork: vmm_fork_user_space.  The entries of both spaces become the same
\* read-only COW entries; nothing touches the TLB.
Fork(c) ==
    LET made == AllocPt(CreateSpace(Kernel(NoSpace), space[cur].root))
        k == ForEach(ForkLeaf, [made EXCEPT !.sp.map = space[cur].map], VA)
    IN /\ Running
       /\ c \in Process \ alive
       /\ space[c] = NoSpace
       /\ Leave(k)
       /\ space' = [space EXCEPT ![c] = k.sp, ![cur].map = k.sp.map]
       /\ alive' = alive \cup {c}
       /\ view' = [view EXCEPT ![c] = view[cur]]
       /\ UNCHANGED <<cur, tlb, execs>>

\* SYS_execve: find the image; free the old space while it is loaded; build and
\* load a new one; map code and stack.  A refused image returns -ENOEXEC into
\* the new, empty space.
DoExecve(image) ==
    LET found == IF image \in OnDisk THEN ReadFile(Kernel(space[cur]))
                 ELSE Kernel(space[cur])
        enoent == \/ image \in {"none", "unread"}
                  \/ image \in OnDisk /\ found.buf = NoPage
        fresh == CreateSpace(FreeSpace(found), space[cur].root)
        noexec == image = "bad" \/ CodeFails(fresh, image)
        mapped == MapStack(MapCode(fresh))
        stacked == IF image = "elf" THEN BuildUserStack(mapped) ELSE mapped
        loaded == IF image \in OnDisk THEN FreeBuf(stacked) ELSE stacked
        k == IF enoent THEN found ELSE IF noexec THEN fresh ELSE loaded
    IN /\ Running
       /\ execs < MaxExecs
       /\ execs' = execs + 1
       /\ Leave(k)
       /\ space' = [space EXCEPT ![cur] = k.sp]
       /\ tlb' = IF enoent THEN tlb ELSE LoadCr3(tlb)
       /\ view' = IF enoent THEN view ELSE [view EXCEPT ![cur] = Contents(k.sp, k.mem)]
       /\ UNCHANGED <<alive, cur>>

VmmNext ==
    \/ \E q \in {Idle} \cup Process : Switch(q) \/ Exit(q) \/ Fork(q)
    \/ \E a \in Addr : Write(a) \/ Evict(a) \/ PageFault(a)
    \/ \E image \in Images : DoExecve(image)

VmmSpec == VmmInit /\ [][VmmNext]_vmmVars

-----------------------------------------------------------------------------
Mappings(page) == {m \in Process \X Addr :
                      space[m[1]].map[m[2]].present /\ space[m[1]].map[m[2]].page = page}

\* A page that a page table of some process leads to, and the pages of the
\* tables themselves, are not on the allocator's free list: no frame is given
\* away while a process can still reach it.
InUse == {space[p].root : p \in alive} \cup {space[p].pt : p \in alive}
         \cup UNION {{space[p].map[a].page : a \in Addr} : p \in alive}
MappedIsNotFree == (InUse \ {NoPage}) \cap pm.free = {}

\* a and b are different pages, or no pages.
Apart(a, b) == a = b => a = NoPage

\* Over any series of execve calls, failed ones and ones that memory does not last
\* for included, each page is in one use: free, PML4, page table, file buffer, or
\* behind one address.  execve frees the old tables while they are loaded, and reads
\* into a buffer that the next one frees, so pages go round between these uses
\* (do_execve, free_user_tables, vmm_create_space, vmm_map, uixfs_read).
OneUse ==
    /\ MappedIsNotFree
    /\ buf \notin pm.free
    /\ \A p \in alive :
          LET s == space[p]
          IN /\ Apart(s.root, s.pt) /\ Apart(s.root, buf) /\ Apart(s.pt, buf)
             /\ \A a \in Addr : \A page \in {s.root, s.pt, buf} : Apart(s.map[a].page, page)
             /\ \A a, b \in Addr : a # b => Apart(s.map[a].page, s.map[b].page)

\* The count of a mapped page is one less than the number of entries that lead
\* to it: fork, the COW fault and exit keep it so.
RefsCountSharers ==
    \A i \in Page : Mappings(i) # {} => pm.refs[i] = Cardinality(Mappings(i)) - 1

\* Copy-on-write is invisible: a process finds at every address what it wrote
\* there last, or what its image or its parent had there.
Isolation == \A p \in alive : Contents(space[p], mem) = view[p]

\* No writable translation is cached that the loaded page table does not have.
\* execve takes the old space apart while it is loaded: its load of CR3 comes before
\* the process runs again, and no translation of the old image survives.  (fork's
\* "parent loses write too" is not kept: it changes the loaded table and flushes
\* nothing.)
TlbAgrees == cur # Idle => \A a \in Addr : tlb[a] # NoPage =>
                 space[cur].map[a].w /\ space[cur].map[a].page = tlb[a]

\* Every address space shares the kernel half.
KernelHalfShared == \A p \in alive : space[p].root \in khalf

\* A process in user mode has its code mapped, also after execve returned an
\* error to it.
RunningHasImage == Running => space[cur].map["code"].present

\* pmm_alloc "returns 0 when out of memory": that 0 is not taken for a page, no
\* user address leads to physical page 0.
FailureIsNotMapped ==
    \A p \in alive, a \in Addr : space[p].map[a].present => space[p].map[a].page # NoPage

\* After any series of execve calls the process finds at every address what it wrote
\* there since the last one, or what its image had there: no two addresses, and no
\* address and table or buffer, share a page; unless memory ran out, when do_execve
\* maps pmm_alloc's 0 as a page, the same for every address.
ImageIsPrivate == FailureIsNotMapped => Isolation

\* The allocator's "double free" panic is not reached.
NoDoubleFree == ~pm.panic
==============================================================================
