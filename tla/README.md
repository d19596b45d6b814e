# UIX in TLA+

A TLA+ model of the UIX kernel and of the host tool that installs its boot
loader: specifications of the components, TLC configurations that check them on
small instances, and TLAPS proofs about the scheduler, the page allocator,
address spaces, the heap, the terminal, the disk driver, the file system and the
boot loader's enroll-config. Paths below are relative to the repository's `src/`
(`core/cpu/sched.c` is `src/core/cpu/sched.c`).

## The system

UIX is a preemptive kernel for one x86-64 CPU.

| Part | Source | What it keeps, and who changes it |
|---|---|---|
| Scheduler | `core/cpu/sched.c`, `arch/x86_64/switch.S` | run queue, `blocked_list`, `ticks_since_switch`, `need_resched`, the static slot `zombie`; the timer interrupt and the system calls exit, wait4, yield |
| Tasks, processes | `core/cpu/task.c`, `fork.c`, `user.c`, `syscall.c` | `struct task`, the registry `all_tasks`, pids |
| Page allocator | `core/memory/pmm.c` | bitmap, cursor, free count, 16-bit reference counts in a table made on first use |
| Virtual memory | `core/memory/vmm.c` | the loaded PML4, page tables; fork (copy-on-write) and the page fault |
| execve | `core/cpu/exec.c`, `elf.c` | replaces an address space, reading the image from a table or from the disk; lays out segments and stack |
| Heap | `core/memory/heap.c` | free list over an arena that grows by chunks |
| Keyboard, tty | `drivers/keyboard.c`, `personality/tty.c` | ring buffer (interrupt to reader), line buffer, echo |
| Console | `core/console.c`, `kprintf.c`, `lib.c` | cells and cursor of the framebuffer; number conversions |
| Descriptors | `core/cpu/task.c`, `syscall.c` | 16 slots per process |
| virtio-blk | `drivers/virtio_blk.c` | one descriptor chain, one buffer, indices shared with the device |
| UIXFS | `personality/fs/uixfs.c`, `tools/mkuixfs.py` | directory read at mount, one file buffer; the packer that makes the disk |
| Limine tool | `boot/limine/limine-install.c` | runs on the host: a block cache, an undo log, the partition table and boot sectors of a medium |
| Boot, PCI, APIC, serial | `boot/`, `core/`, `drivers/` | set-up and output |

**What runs concurrently.** Every IDT gate is an interrupt gate, so an interrupt
handler or a system call runs with interrupts off from entry to `iretq`. There
are two exceptions. `schedule()` executes `sti` when a task comes back from
`switch_to`, so the rest of a wait4 call runs with interrupts on. And `kmain`
executes `sti` before it calls `sched_start`. The virtio device runs
concurrently with the CPU, and the TLB caches what the tables said earlier.

This gives the step of the models: a handler is one action, except where those
two cases apply (module `SchedRace`) and where the device is involved
(`VirtioBlk`, `Uixfs`). The Limine tool is sequential; what makes it hard is that
any of its transfers may fail.

## Modules

| Module | Models | State and actions |
|---|---|---|
| `Sched` | scheduler and process life cycle | variables named after the C ones; `SchedTick`, `TaskYield`, `DoFork`, `SysExit`, `TaskExit`, `Wait4`, `Rewait` (the loop of wait4 after a wake-up), all built on `Schedule`, the body of `schedule()` |
| `Proc` | abstract: what fork, exit and wait4 promise | `Fork`, `Exit`, `Sleep`, `Reap` |
| `SchedRace` | `schedule()` and `task_block_any` statement by statement, with ticks in between | extends `Sched` with the local `next` of each call and the stack the CPU is on; `BlockState`, `BlockLink`, `Relink` (`task_block_any`), `ReadHead`, `Dequeue`, `Requeue`, `EnqueueLink`, `EnqueueTail`, `SetRunning`, `SetCurrent`, `SwitchTo` (`schedule()` with its calls), `FragileTick` |
| `PmmOps` | the page allocator as operators on a record, so that `Pmm` and `Vmm` use the same definitions | `PmmAllocated`/`AfterAlloc`, `AfterAllocPages`, `AfterFree`, `AfterRef`, `AfterUnref` |
| `Pmm` | the allocator as a state machine | `Alloc`, `AllocPages`, `Free`, `Ref`, `Unref` |
| `PageAlloc` | abstract: pages go to one holder at a time | `Take`, `Keep`, `Give` |
| `Vmm` | address spaces, copy-on-write, execve, TLB, on `PmmOps` | `Switch`, `Write`, `Evict`, `PageFault`, `Fork`, `DoExecve`, `Exit` |
| `Elf` | `elf_load` and `build_user_stack` as functions | `ElfLoad`, `BuildUserStack`, against `Loads` and `StackIsBuilt` |
| `Heap` | kmalloc, kfree | `Kmalloc`, `Kfree` |
| `Console` | the framebuffer: cursor, wrap, scroll, erase | `Putc`, `Puts` on a screen record; `Type` on the reference, an endless sheet of paper |
| `Tty` | keyboard ring, line discipline with its echo, read | `KeyboardIrq`, `SysRead`, `Output` |
| `KeyQueue` | abstract: a bounded queue that drops | `Put`, `Get` |
| `Fds` | descriptor tables | `Open`, `Close`, `Fork`, and the type a call looks up |
| `Lib` | `uix_utoa`, `uix_itoa`, the conversions of `kvprintf` | functions, on integers of `BITS` bits |
| `Terminal` | composes `Tty`, `Fds` and `Lib` as the system calls do | `Key`, `Read`, `Write`, `SysOpen`, `SysClose`, `SysFork` |
| `VirtioBlk` | the driver and its device | `Fill`, `Publish`, `Sample`, `Complete`, `Timeout`; `DevFetch`, `DevMove`, `DevUsed` |
| `Uixfs` | the file system on `VirtioBlk`, on a disk as `mkuixfs.py` packs it | `Mount`, `SuperRead`, `DirRead`, `UixfsRead`, `FileRead`; `RawCall`, `RawBack` for the driver's other callers |
| `Storage` | composes `Uixfs` with one call of a function of `Elf` or `Lib` | `PureReturns`, and the actions of `Uixfs` |
| `Device` | block cache and undo log of the Limine tool, as operators on a record | cached reads and writes, flush, `uninstall` |
| `Install` | bios-install | `Start`, `ProbeGpt`, `CheckSecondary`, `Convert`, `CheckMbr`, `ChoosePartition`, `WriteStages`, `Cleanup`, `UninstallMode` |
| `Enroll` | enroll-config | `OpenFile`, `Search`, `WriteFile` |
| `Limine` | the tool: one of the two commands per invocation | |
| `SchedProofs`, `RaceProofs` | lemmas about the run queue as a sequence; theorems about `Sched` and its refinement of `Proc`, and about `SchedRace` | |
| `VmmProofs` | what the operators of `PmmOps` return and preserve; theorems about `Pmm`, and about `Vmm` with one process that calls execve | |
| `ForkProofs` | theorems about `Vmm` with any number of processes that fork | |
| `HeapProofs` | theorems about `Heap` | |
| `TerminalProofs` | theorems about `Terminal` and the modules it composes | |
| `StorageProofs`, `LimineProofs` | theorems about `VirtioBlk` and `Uixfs`, about `Enroll` under `Limine` | |

`MC*` modules instantiate them for TLC. Definitions whose comment begins with
"A bug:" are variants of the definition that follows; no specification uses
them. They are the mutants that show each property can fail.

Abstractions worth knowing:

- `Sched`: a task is its pid. `blocked_list` is a set, since a wake-up moves
  every entry that matches and at most one does. `cpu` records the two ways the
  scheduler can go wrong: the endless `hlt` with interrupts off, and a switch
  from a task to itself, which loads a stack pointer saved earlier. A kernel thread
  is entered with interrupts as its predecessor's `schedule()` had them (`Entry`),
  so most never see a tick ("masked"). No code of the repository creates kernel
  threads yet; `task_create` is modelled for the day one does. A fork that runs out
  of memory returns -ENOMEM before it changes anything, and is no step.
- `SchedRace`: the statements of `dequeue` and `sched_enqueue` are steps as far as
  a tick can tell them apart. Where a tick's own `schedule()` leaves what
  sequences of pids cannot express, the model stops and says nothing about what
  the code does next. `FragileTick` is such a tick, at one of three points: between
  the two reads of `dequeue` (both calls take the same task), between the two
  writes of `sched_enqueue` (the tail is not the last task) and between
  `task_set_current` and `switch_to` (a stack pointer is saved in another task's
  struct). `Relink` is a second link of the same task: `schedule()` returns to a
  BLOCKED caller when the run queue is empty, the caller goes on with its link still
  on `blocked_list`, and when it comes to block again the list becomes a cycle.
  `cpu` is then "torn" or "lost", and `PreemptionIsSafe` says that this does not
  happen; it does (`race_boot`).
- `Vmm`: one page stands for all the tables below the PML4 and an image has one
  code page; the contents of a page are the process that wrote it last. An exit
  frees nothing, as in the code.
- `Heap`: sizes in units of 16 bytes. `kfree`'s array of 256 is `ARR_MAX`.
- `Tty`: letters, backspace and newline; the key map has no `'\r'`. The history
  variables `taken`, `from`, `done`, `paper`, `base` and `mixed` are read by the
  properties only.
- `Console`: a cell holds the character drawn in it; pixels and font are left
  out.
- `VirtioBlk`: the indices are modulo `IdxMod` in place of 2^16. The device is
  outside the repository and modelled from what the driver relies on: it fetches
  what was published, moves the data or fails the request, and then advances the
  used index. With `Slow = FALSE` the polling loop gives up only when the device has
  nothing left to do (its answer came before the sample of the used index); with
  `Slow = TRUE` it may give up at any time.
- `Uixfs`: the contents of a sector are a tagged tuple (superblock, part of the
  directory, data). Whether `pmm_alloc_pages` finds room for a file is left open.
- `Elf`: memory maps an address to the byte of the image it holds. Offsets are
  congruent to addresses modulo the page size, as linkers make them. A program
  header may lead past the end of the image. When a page starts there, the size of
  the copy, `len - file_off`, underflows (`elf.c:54-55`): the call ends with
  "overrun" and `ProgramIsLaidOut` leaves such files out (`InImage`).
- `Lib`: the array `tmp` of `uix_utoa` holds half as many digits as a number has
  bits (`TMP`). Base 2 can need more, and `lib.c:99` is overrun then; no caller
  asks for base 2, and `NumbersReadBack` is stated for numbers that fit.
- `Device`: a medium is a function from cells (fields of a sector) to tagged
  values. A transfer fails because its number is among the `glitches`, because its
  block holds a cell that went bad for good, or because it is smaller than a
  physical block. A failed write leaves the block as it was, a failed read leaves
  `Junk` in the cache. The buffering of stdio is ignored: an error that shows only
  in the unchecked `fclose` (`limine-install.c:1221`) is not modelled.
- `Install`: the sizes in sectors (34 and 33 blocks of a GPT, the gap of 63
  sectors, 32 KiB for stage 2) are constants.

## Runs

All of these pass.

| Run | Instance | Shows |
|---|---|---|
| `sched` | 6 pids: idle, 2 kernel threads, 3 processes; slice 2 | every task on the list its state names and once (`OnePlace`); the CPU never halts or switches to itself (`CpuKeepsRunning`); no lost wake-up (`NoSleepOverZombie`, `WokenFindsZombie`); no free of a task that `schedule()` could still switch to (`FreedIsNotScheduled`); an exited task stays so (`ExitIsFinal`); refinement of `Proc`; a queued task runs (`ReadyRuns`), and a waiting parent of an exited child returns (`WaiterReturns`) |
| `race` | 4 pids: idle and 3 processes, wait4 of one pid, from `sched_start` on | although `schedule()` is interrupted, the run queue holds READY tasks only and each once, `blocked_list` none that is queued or running, and a dequeued task is on neither and in one hand, until a tick hits one of the three fragile points (`ListsAreSound`) |
| `pmm` | 6 pages with holes, counts up to 2 | exact count (`CountIsExact`), next-fit finds free pages (`AllocFindsFree`), first-fit runs (`AllocPagesFirstFit`), refinement of `PageAlloc` |
| `vmm_fork` | 3 processes, 16 pages, counts up to 2 | no reachable page is free (`MappedIsNotFree`; without execve the code frees no page that was mapped); counts equal sharers minus one, up to the limit of the count (`RefsCountSharers`) |
| `vmm_exec` | 1 process, 4 execve calls of 6 kinds, 14 pages | each page is in one use: free, table, file buffer or one address (`OneUse`); contents as loaded and written unless an allocation failed (`ImageIsPrivate`); no translation of an old image (`TlbAgrees`); no double free (`NoDoubleFree`). Every execve loses the leaves of the old image, so memory runs out on the third call |
| `heap` | 2 chunks of 8 units | blocks tile the arena (`BlocksTileArena`), have the sizes asked for (`BlocksAreSized`) and coalesce (`KfreeCoalesces`) |
| `terminal` | ring of 4, line of 3, screen of 4x2, 2 processes with 3 slots, 4 keys, 2 calls besides reads | the line is what was typed less what was erased (`LineIsWhatWasTyped`); the screen shows it (`EchoMatchesLine`) and is the end of all output (`ScreenShowsEnd`); the ring refines `KeyQueue`; a descriptor keeps its meaning until its process closes it (`DescriptorsAreStable`) |
| `storage` | 7 sectors, 3 archives of up to 3 files, indices modulo 3 | one request at a time (`SingleRequest`), success means the right sector (`SuccessIsReal`), a file reads back as packed (`ReadIsFile`), every call returns (`CallsReturn`). Besides: segments and stack are laid out as format and ABI ask, over all small headers (`ProgramIsLaidOut`), and every number of 8 bits reads back as printed and fills its field, one column less for a negative `%d` (`NumbersReadBack`); these two look at the arguments of a call (`args`), any of which may be made before the mount |
| `limine` | 12 sectors of 7 cells; MBR, GPT and hybrid layouts; up to 3 transfers in a row failing, anywhere in the first 48, or one sector bad from any of them on, with physical blocks of 1, 2 or 4 sectors; boot loaders of up to 9 bytes | a failed installation is undone (`FailureIsUndone`), `--uninstall` restores the medium (`UninstallRestores`), what a failed read left is never written without a report of failure (`JunkIsReported`), success is complete (`SuccessIsComplete`), a converted table describes the same partitions (`ConversionKeepsPartitions`), enroll-config finds the first signature behind any partial match (`EnrollFindsFirst`) |

These runs are expected to find a violation; each is a disagreement between the
code and a comment or header of the repository (details under `findings` in
`PROJECT.json`).

| Run | What happens |
|---|---|
| `sched_reaped_freed` | wait4 says "schedule() frees it later"; nothing ever does |
| `race_lost_wakeup` | wait4(pid), second round, interrupts on: the wanted child exits between the search and the block |
| `vmm_cow_isolation` | two sharers have count 1, so the first writer writes the shared page |

Further configurations reproduce related disagreements with the same modules.
They are kept for reference; TLC stops in each with a counterexample to the one
property it names:

| Configuration | Module | Property | What happens |
|---|---|---|---|
| `race_boot` | `MCSchedRace` | `PreemptionIsSafe` | a tick inside `sched_start`'s `schedule()`, in `dequeue`, tears the run queue |
| `vmm_bad_elf` | `MCVmm` | `RunningHasImage` | execve destroys the image before it refuses the new one |
| `vmm_exec_frees_shared` | `MCVmm` | `MappedIsNotFree` | execve in a forked child frees its parent's pages, again because two sharers have count 1 |
| `vmm_fork_tlb` | `MCVmm` | `TlbAgrees` | fork makes entries read-only without a TLB flush |
| `vmm_exec_pml4` | `MCVmm` | `KernelHalfShared` | execve copies the kernel half from a page it has freed |
| `vmm_out_of_memory` | `MCVmm` | `FailureIsNotMapped` | execve maps page 0 when `pmm_alloc` fails |
| `tty_terminated` | `MCTerminal` | `LineIsTerminated` | a backspace after the newline removes the newline |
| `virtio_late` | `MCStorage` | `ReadIsFile` | the late answer to a timed-out request is taken for the next one's, and a file reads back wrong |

These fail as well when put in place of the properties of a run, with its
constants:

| Constants of | Property | What happens |
|---|---|---|
| `race_lost_wakeup` | `ListedSleeps` | a tick between `prev->state = TASK_READY` and `sched_enqueue(prev)` loses the idle task, which is on no list from then on, and the task it had dequeued; another process's wait4 finds the run queue empty and goes on, BLOCKED and on `blocked_list` |
| `terminal` | `ConsoleIsRdwr` | open of the console returns a descriptor that write refuses |
| `storage` | `TimeoutIsReal` | a completion before the used index is sampled is reported as a timeout |
| `storage` | `FilePartIsCopied` | the first page of a segment that begins within a page stays zero |
| `limine` | `FailureIsFullyUndone` | a write over two blocks whose second transfer fails has no undo entry yet |
| `limine` | `EnrollUsesRoom` | the loop bound counts the signature twice, so the last places are not searched |

Met while reading, and not turned into runs: nothing calls
`task_reap_children`, so `all_tasks` would keep a kernel thread that `schedule()`
has freed, and `task_find_zombie` would go on reading it; `uixfs.h` names the magic "UIXFS1" and a "kmalloc'd buffer" where
the code uses "UIXF" and pages of the page allocator; a file of length zero is
reported as -12; `do_execve` does not terminate its copy of a short path
(`exec.c:98-101`); `mkuixfs.py` does not limit the number of files to the 32 the
directory has room for; `pci.c:62-64` takes class and subclass from other bits
than the ones PCI defines.

**Why the bounds are enough.** Three processes give a parent with two children or
a grandchild, so orphans, two zombies of one parent and a wake-up by another child
all occur; two kernel threads give one that is entered with interrupts on and one
with them off. Pids are never reused, so more processes repeat these (and the
proofs cover any number; `race` was also run with four processes, 4.4 million
states, without error). A slice of two ticks is the code's own `TIME_SLICE`. Six pages allow every alignment of a run against a hole and the
wrap of the cursor. Three processes are the least for which "one less than the
number of sharers" and "more than one" differ, and with `RefMax = 2` they take the
count to its limit; beyond it the count is wrong, which takes 65537 sharers in the
code. Two heap chunks suffice for a
merge across a chunk boundary, and the sizes include an exact fit, a remainder
too small to split and one that is split. Four keys fill the ring and the line, which has room on one row of the
screen, so that the echo is looked at when a key is dropped at `LINE_MAX - 1`;
and one text of a program with a newline in the middle scrolls the two rows; two
calls are enough to open, close and reopen a slot or to fork and print in the
middle of a line. The archives have a partial last sector, an empty file, an
entry in the second sector of the directory and a name that occurs twice. With
one request in flight, indices modulo 3 wrap within three requests. In `limine`
the longest path makes fewer than 48 transfers. Three failures in a row cover a
failed operation, the failed undo of it and the failed retry of that where each is
one transfer. An entry that spans two blocks reads the first of them again before it
fails at the second, which no burst expresses: for that, one sector goes bad for
good, at any transfer, on one layout of each kind.

`CHECK_DEADLOCK FALSE` is used where the system really stops: after a panic,
after the exit of the last process in `Vmm` (which has no idle task to run), in
`SchedRace`, where the model stops at a torn list or a wrong stack, and when the Limine tool has
exited.

**Fairness.** `FairSpec` of `Sched` assumes weak fairness of `SchedTick` (the
APIC timer is periodic, or rearmed in each tick before `sched_tick`; the comment at
`sched.c:189-192` reports that on QEMU a switch out of a software interrupt's frame
stops the delivery of ticks, which is why yield does not switch, but exit and wait4
do, and the model takes it that ticks come after them), weak fairness of `TaskExit`
(a kernel thread's function returns), and strong fairness of `Rewait`: a time slice of
10 to 20 ms is far longer than the few instructions between resuming in wait4
and its return. Processes owe nothing: they may never exit, wait or yield.
`UixfsSpec`, and with it `StorageSpec`, assumes that a caller in the driver and between two of its calls
goes on (interrupts are off) and that the device works on what it was given; new
calls need not come. No other specification has a liveness property.

**Failures modelled.** A request to the disk may fail at any time, and the
device may be slow. Memory may run out in `Vmm` and `Pmm`, and for a file buffer
in `Uixfs`. Any transfer of the Limine tool may fail, in bursts, also during the
undo, or all those of one block from some moment on; its file operations may fail too, and `--uninstall` is a later invocation
that knows only the medium and the stored file.

## Proofs

The theorems hold for every value of the constants that satisfies the named
assumptions: any number of pids and kernel threads and any time slice
(`SchedAssumption`: `MaxPid >= NKThreads + 2`, `TIME_SLICE > 0`; in `SchedRace`
no kernel threads, `NoKernelThreads`, as in the repository); any size of
memory, boot memory map and size of the reference counts (`PmmAssumption`); any
ring, line buffer, screen and descriptor table, any letters, glyphs and texts
(`TtyAssumption`, `ConsoleAssumption`, `FdsAssumption`, `LibAssumption`,
`TerminalAssumption`: a ring and a line of at least two places, three
descriptors, pids that fit the integers printed); any callers, archives, disk and
width of the indices (`VirtioAssumption`, `UixfsAssumption`: at least three index
values, and the driver's other callers write to sectors of the disk;
`ArchiveAssumption`: superblock, directory and files fit in front of those
sectors, which `mkuixfs.py` does not check); any number of pages, stack pages and
processes (`VmmAssumption`: finitely many processes, a stack of at least one page
whose addresses differ from each other and from the code's); any sizes of
header, chunk, block and requests (`HeapAssumption`: the largest block fits a
chunk); any signature, checksum length and boot loader (`EnrollAssumption`: the
signature is not empty).

| Theorem | Module | Statement |
|---|---|---|
| `TypeCorrect` | `SchedProofs` | `Spec => []TypeOK` |
| `TasksHaveOnePlace` | `SchedProofs` | `Spec => []OnePlace` |
| `CpuNeverStops` | `SchedProofs` | `Spec => []CpuKeepsRunning` |
| `NoLostWakeup` | `SchedProofs` | `Spec => []NoSleepOverZombie` |
| `WakeupIsNotSpurious` | `SchedProofs` | `Spec => []WokenFindsZombie` |
| `FreeIsSafe` | `SchedProofs` | `Spec => []FreedIsNotScheduled` |
| `Invariance` | `SchedProofs` | `Spec => []IInv` |
| `SchedImplementsProc` | `SchedProofs` | `Spec => ImplementsProc` |
| `ExitedStaysExited` | `SchedProofs` | `Spec => ExitIsFinal` |
| `PreemptedListsSound` | `RaceProofs` | `RaceSpec => []ListsAreSound` |
| `PmmInvariant` | `VmmProofs` | `PmmSpec => []PmmInv` |
| `CountExact` | `VmmProofs` | `PmmSpec => []CountIsExact` |
| `AllocComplete` | `VmmProofs` | `PmmSpec => []AllocFindsFree` |
| `AllocPagesIsFirstFit` | `VmmProofs` | `PmmSpec => []AllocPagesFirstFit` |
| `PmmImplementsPageAlloc` | `VmmProofs` | `PmmSpec => ImplementsPageAlloc` |
| `ExecInvariant` | `VmmProofs` | `Process = {1}` implies `VmmSpec => []ExecInv` |
| `ExecPagesHaveOneUse` | `VmmProofs` | `Process = {1}` implies `VmmSpec => []OneUse` |
| `ExecFreesOnce` | `VmmProofs` | `Process = {1}` implies `VmmSpec => []NoDoubleFree` |
| `ExecTlbAgrees` | `VmmProofs` | `Process = {1}` implies `VmmSpec => []TlbAgrees` |
| `ExecIsolation` | `VmmProofs` | `Process = {1}` implies `VmmSpec => []ImageIsPrivate` |
| `HeldInvariant` | `ForkProofs` | `Images = {}` implies `VmmSpec => []HeldInv` |
| `ForkMapsNoFreePage` | `ForkProofs` | `Images = {}` implies `VmmSpec => []MappedIsNotFree` |
| `ForkCountsSharers` | `ForkProofs` | `Images = {}` and `Cardinality(Process) <= RefMax + 1` imply `VmmSpec /\ []FailureIsNotMapped => []RefsCountSharers` |
| `HeapInvariant` | `HeapProofs` | `HeapSpec /\ []ListIsShort => []HeapInv` |
| `ArenaIsTiled` | `HeapProofs` | `HeapSpec /\ []ListIsShort => []BlocksTileArena` |
| `RoomIsGiven` | `HeapProofs` | `HeapSpec /\ []ListIsShort => []BlocksAreSized` |
| `FreeBlocksMerge` | `HeapProofs` | `HeapSpec /\ []ListIsShort => KfreeCoalesces` |
| `ScreenIsWindow` | `TerminalProofs` | `TerminalSpec => []ScreenShowsEnd` |
| `EchoIsLine` | `TerminalProofs` | `TerminalSpec => []EchoMatchesLine` |
| `RingIsQueue` | `TerminalProofs` | `TerminalSpec => ImplementsKeyQueue` |
| `DescriptorsStable` | `TerminalProofs` | `TerminalSpec => DescriptorsAreStable` |
| `OneRequestAtATime` | `StorageProofs` | `Slow = FALSE` implies `UixfsSpec => []SingleRequest` |
| `DriverTellsTruth` | `StorageProofs` | `Slow = FALSE` implies `UixfsSpec => SuccessIsReal` |
| `DriverInvariance` | `StorageProofs` | `Slow = FALSE` implies `UixfsSpec => []DriverInv` |
| `ReadsBackAsPacked` | `StorageProofs` | `Slow = FALSE` implies `UixfsSpec => []ReadIsFile` |
| `SearchFindsFirst` | `LimineProofs` | `LimineSpec => []EnrollFindsFirst` |

**Scheduler.** None of the properties is inductive alone. `CpuKeepsRunning`
needs a task on the run queue whenever the current one exits: the idle task,
which is always READY or RUNNING, and by `OnePlace` READY means queued. It also
needs that the head of the queue is not the current task, again `OnePlace`.
`NoSleepOverZombie` needs that exit wakes the parent, hence that `block_on` is 0
for every sleeper, that the parent is in `blocked_list` exactly when BLOCKED, and
that a task in wait4 has not itself exited. `FreedIsNotScheduled` follows from
`OnePlace` once every freed task, and the one in the slot, is DEAD. `IInv` is the
conjunction, with the facts about `pc`, `want` and `zombie` that link them.

The proof has one lemma per action (`TickKeepsIInv`, `ForkKeepsIInv`, ...).
Those that end in `schedule()` rest on `ScheduleFacts` and `SwitchKeepsIInv`,
which say what `Schedule` does to states, queue and slot for any arguments that
agree with each other. `AppendFacts` and `TailFacts` describe the queue
operations, `WakeFacts` the wake-up loop as a set of tasks moved to the queue,
and `LargestExists` that the search of `task_find_zombie`, newest first, has a
result.

**Processes.** The refinement maps a process to live, waiting, exited or reaped
by its state and by whether it is in wait4 (`ProcStatus`). `SwitchIsInvisible`
says that `schedule()` only moves tasks between READY and RUNNING, which the map
does not tell apart; so a tick or the end of a kernel thread is a stuttering
step, and exit and a sleep in wait4 change the caller's status alone, although
exit also moves the parent it wakes. That wait4 reaps a process and not a kernel
thread needs one more invariant, `ParentInv`. The safety part of `Spec` is all
the abstract specification has, so the theorem is the whole refinement.

**Preemption.** `OnePlace` is false in `SchedRace`: a task that an interrupted
`schedule()` has dequeued is on no list, and one that `task_block_any` has marked
is BLOCKED before it is linked. `RaceInv` says what is true instead, as long as
the model has not stopped. `Picks`: the local `next` of an interrupted call is on no
list and no other call's, and READY or, once set, RUNNING. `Fragiles`: a
task at a fragile point has the CPU, since a tick that switches there stops the
model. `Between`: one between the READY of its state and its `sched_enqueue` is
not queued and no other call's `next`, so the append links it once. `Linking`: who
is about to link itself is BLOCKED. `Owns`: the current task owns the stack but for
the window between `task_set_current` and `switch_to`. `Stuck`: a task that runs although it is linked
does so with an empty run queue, so it can be neither queued nor switched away from
before it is unlinked. The theorem is about the time before the first fragile tick
and says nothing about later.

**Page allocator.** The first lemmas of `VmmProofs` say of each operator what it
returns and that it keeps `PmmSound`: types, page 0 never free, `count` the cardinality of
`free`. `AllocFacts` is about the wrap: adding the offsets 0 to
`TotalPages - 1` to the cursor, modulo, meets every page. `FirstFit` relates the
counter of `pmm_alloc_pages` to a set: the count at a page is its distance to
the last used one before it (`RunFacts`), so the first place where it reaches n
ends the lowest run of n free pages. The theorems have one step per call on top of
these; in the refinement a failed call, a reference and a refused free keep the
abstract state or give a page to the allocator itself.

**Address spaces.** With fork and execve together the properties are false:
`free_user_tables` drops a reference on a page that two processes share, the count
of which is 1, and frees it while the other still maps it (`vmm_exec_frees_shared`).
The two halves are proved, as the runs `vmm_exec` and `vmm_fork` check them.

One process that calls execve (`Process = {1}`) never has a page counted, so
`pmm_unref` never frees and a leaf given up is lost, not reused. `ExecInv` says of the
loaded space (`Built`) that the PML4, its tables, the file buffer and each leaf
are different pages, none on the free list, and that every present entry is
writable; and that no count was ever made (`Quiet`). Different pages are what
`NoDoubleFree` needs: execve frees buffer, tables and PML4 one after the other. A
lemma per operator carries `Built` through read, free, create, load and map, so
that each way out of `do_execve` has it. `ImageIsPrivate`
leaves out the states in which page 0 is mapped (`FailureIsNotMapped`, which the
code does not guarantee, see `vmm_out_of_memory`): two addresses with page 0 share
their contents.

Any number of processes that fork (`Images = {}`): nobody frees a page that is
mapped, since only the copy after a fault drops a reference, and it does so where
the count is above 1. `HeldInv` says this of the page tables of all
processes, exited ones too, because exit frees nothing. `CountInv` adds that a
free page has count 0, that a process reaches a page from one address only and
that a COW entry is present. These make the counts right: fork adds one mapping
and one reference to each page of the parent (`ForkKeepsCounts`, by `ForkTurn` over the
leaves), a copy takes one of each away and gives the new page its first mapping
(`CopyKeepsCounts`). The 16-bit count must not saturate: a page has at most one
mapping per process, hence `Cardinality(Process) <= RefMax + 1`.

**Heap.** `HeapInv` says that the blocks of the list and those handed out lie
apart, that a unit is in one of them exactly when it is below `heap_brk`, and
that used blocks have the size kmalloc gives. kfree takes the list apart and puts it
together again, so the proof follows its two loops. `InsertFacts`: a turn of the
insertion sort keeps the list ascending and adds the block; `MergeFacts`: a turn
of the merge keeps what the list covers, keeps it ascending, and leaves no two
blocks that touch. `ListIsShort` (`Len(freelist) < ARR_MAX`) is a hypothesis
because the array in kfree has 256 slots and nothing bounds the list; beyond it the
code drops blocks and writes behind the array. The run checks it as part of
`HeapTypeOK`, for its arena.

**Terminal.** `ScreenShowsEnd` compares the framebuffer, of fixed size, with an
endless sheet of paper. `PutcShows` takes one character through both: drawn,
wrapped, fed, scrolled or erased, and `PutsShows` a text. `TerminalInv` adds
that, unless somebody has printed into the line (`mixed`), the cells before the
cursor are the characters of the line buffer (`Echoed`). This has to hold after
each key that one `tty_poll` takes, so it is an invariant of the loop (`PollInv`,
`TakeKeepsInv`) before it is one of the steps; the erase needs that backspace,
blank, backspace brings the cursor back to the cell of the erased character
(`EraseShown`). That the message of fork is a text at all rests
on the digits of a pid being digits (`DigitsAreDigits`). `RingPut` and `RingGet`
are the arithmetic of the ring: the queue is read off head and tail modulo
`KBUF_SIZE`, and a full ring keeps one place empty.

The loops of `Puts`, `tty_poll` and `uix_utoa`, and those over leaves, blocks and
files, are recursive functions. The
library's induction theorems cannot be used for them here, since they take an
operator as a parameter. `UpTo` states induction up to a bound with a set in
place of the predicate and is proved from the
well-foundedness of `<` on the naturals; `LoopExists` derives from it that the function a loop
defines exists. What a loop computes then follows by `UpTo`, one element at a
time.

**Driver.** `SuccessIsReal` needs to know what the device has done by the time
the used index moves. `DriverInv` says at which of four stages the one request
is (published, fetched, moved, done with), that the header is the caller's and
the buffer still holds what a write is to write, and that while the driver polls
an unchanged index the device may still have the request, but a changed one
means it has not. The assumption `Slow = FALSE` is used in `LoopEndsDone` alone:
without it a timeout leaves the request with the device, and `virtio_late` shows
what follows.

**File system.** `ReadIsFile` rests on the driver's result: what a successful
read returns is the sector on the disk (`BackFacts`). `FsInv` says that the disk
is the packed image but for the sectors other callers write, that the entries
copied so far are the first ones of the directory and end at a sector boundary or
at the last (`PartOf`), and the same of the file buffer and the file; so the next sector
that is asked for continues them, and each file lies in sectors of its own
(`StartOf` as a loop). That a disk never written is not taken for a packed one needs
that a sector of zeros is no superblock.

**enroll-config.** `EnrollInv` says that the last `checked_count` bytes read are
a prefix of the signature and that the signature starts nowhere before them. A
mismatch moves the start by one place and no further, which is why no signature
is skipped whatever its borders.

**Only model-checked.** The liveness properties `ReadyRuns`, `WaiterReturns` and
`CallsReturn`: reasoning under fairness is out of the prover's reach. The
properties of `Install`, whose undo log and cache on a medium of cells have no
invariant worked out yet. `LineIsWhatWasTyped`, whose reference counts, for each
key, the backspaces behind it, and `NumbersReadBack` and `ProgramIsLaidOut`, which
say what recursive functions of `Lib` and `Elf` compute. Address spaces of
processes that both fork and call execve, where the properties fail; and, for
processes that fork, `Isolation` and `TlbAgrees`, which fail too
(`vmm_cow_isolation`, `vmm_fork_tlb`).

## Not modelled

- Boot (`boot/boot.c`, `cpu.S`, `vmm_init`, APIC calibration, the IDT, PCI):
  sequential set-up that runs once; only the hand-over to the scheduler is
  modelled. `virtio_blk_init` is modelled by the state it leaves, and
  `virtio_blk_selftest` is never called.
- The serial line, the font and the pixels, the scan of the format string in
  `kvprintf`, panic messages.
- `lib.c` but for the number conversions: its byte loops are part of the actions
  that call them, and `memmove` and `strncpy` have no caller.
- User programs (`user/`, `userprog*.S`): in the models any process may make any
  call at any time, so the shell's loop is one of the behaviours.
- Exceptions other than the COW fault: all of them panic.
- The slot `zombie` emptied with interrupts on: no kernel thread exits in this
  system after boot, so there is nothing to interrupt (`Sched` empties it in the
  step of the switch).
- `limine.h`, `stdint.h` (declarations), `limine-bios-hdd.h` (the machine code of
  the boot loader as bytes), the version and usage texts of the Limine tool, and
  its tests for overflow of 64-bit addresses, which small media cannot reach.
