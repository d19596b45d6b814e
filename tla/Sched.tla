-------------------------------- MODULE Sched --------------------------------
(***************************************************************************)
(* The scheduler and the process life cycle of UIX: the run queue, the     *)
(* list of tasks blocked in wait4, the timer tick, and the system calls    *)
(* fork, exit, wait4 and yield (core/cpu/sched.c, task.c, syscall.c).      *)
(*                                                                         *)
(* There is one CPU and every IDT gate is an interrupt gate, so a system   *)
(* call or a tick runs with interrupts off and is one step here, up to the *)
(* switch_to in schedule().  A task switched back in executes "sti" and    *)
(* goes on with interrupts ON: a preempted task has only the slot "zombie" *)
(* left to empty, which is part of the step here; for a task that slept in *)
(* wait4 the rest of the loop is a step of its own (Rewait) and ticks may  *)
(* come before it.                                                         *)
(*                                                                         *)
(* A task is its pid: pids are handed out in order and never reused, and   *)
(* the registry all_tasks (newest first, never shortened) is the pids      *)
(* below next_pid in decreasing order.  Exit statuses are left out.        *)
(***************************************************************************)
EXTENDS Naturals, Sequences, FiniteSets, Functions

CONSTANTS MaxPid,      \* bound: fork is only tried while a pid up to MaxPid is left
          NKThreads,   \* kernel threads made with task_create before sched_start
          TIME_SLICE   \* ticks per task switch

ASSUME SchedAssumption ==
    /\ NKThreads \in Nat
    /\ MaxPid \in Nat
    /\ MaxPid >= NKThreads + 2
    /\ TIME_SLICE \in Nat \ {0}

Pid == 1 .. MaxPid
Idle == 1                            \* the bootstrap task of task_init
KThread == 2 .. NKThreads + 1
User == NKThreads + 2 .. MaxPid      \* the first one is made by user_task_create
NoTask == 0                          \* NULL, and a ppid that is no task
AnyPid == 0                          \* want_pid == (u64)-1

VARIABLES
    state,         \* t->state; "NONE" while the pid is not allocated
    ppid,          \* t->ppid
    block_on,      \* t->block_on
    pc,            \* where t goes on when it has the CPU (see TypeOK)
    want,          \* the pid argument of the wait4 call t is in
    runqueue,      \* runqueue_head .. runqueue_tail
    blocked_list,  \* as a set: at most one entry ever matches a wake-up
    current,       \* task_current()
    next_pid,
    ticks,         \* ticks_since_switch
    need_resched,
    zombie,        \* the static slot of schedule()
    freed,         \* tasks whose kernel stack and struct went to kfree
    cpu            \* "run", "halt" (hlt with IF=0), "lost" (bad saved rsp) or
                   \* "torn" (module SchedRace)

vars == <<state, ppid, block_on, pc, want, runqueue, blocked_list, current,
          next_pid, ticks, need_resched, zombie, freed, cpu>>

States == {"NONE", "READY", "RUNNING", "DEAD", "ZOMBIE", "BLOCKED"}

\* fresh: never run.  run: its own code (user mode, a kernel thread's function,
\* the idle loop).  masked: a kernel thread's function with interrupts off.
\* find: in the loop of wait4, about to call task_find_zombie.
\* The others are the points of task_block_any and schedule when they are
\* executed with interrupts on (module SchedRace).
Pcs == {"fresh", "run", "masked", "find", "blk_state", "blk_link",
        "sched_entry", "sched_head", "sched_picked", "sched_ready", "sched_link",
        "sched_requeued", "sched_running", "sched_current"}

TypeOK ==
    /\ state \in [Pid -> States]
    /\ ppid \in [Pid -> {NoTask} \cup Pid]
    /\ block_on \in [Pid -> {NoTask} \cup Pid]
    /\ pc \in [Pid -> Pcs]
    /\ want \in [Pid -> {AnyPid} \cup Pid]
    /\ runqueue \in Seq(Pid)
    /\ blocked_list \in SUBSET Pid
    /\ current \in Pid
    /\ next_pid \in 1 .. MaxPid + 1
    /\ ticks \in 0 .. TIME_SLICE - 1
    /\ need_resched \in BOOLEAN
    /\ zombie \in {NoTask} \cup Pid
    /\ freed \in SUBSET Pid
    /\ cpu \in {"run", "halt", "lost", "torn"}

-----------------------------------------------------------------------------
\* sched_start has just left the bootstrap task for the head of the run queue.
Init ==
    /\ state = [t \in Pid |-> IF t = 2 THEN "RUNNING"
                              ELSE IF t <= NKThreads + 2 THEN "READY" ELSE "NONE"]
    /\ ppid = [t \in Pid |-> NoTask]
    /\ block_on = [t \in Pid |-> NoTask]
    /\ pc = [t \in Pid |-> IF t <= 2 THEN "run" ELSE "fresh"]
    /\ want = [t \in Pid |-> AnyPid]
    /\ runqueue = [i \in 1 .. NKThreads + 1 |-> IF i <= NKThreads THEN i + 2 ELSE Idle]
    /\ blocked_list = {}
    /\ current = 2
    /\ next_pid = NKThreads + 3
    /\ ticks = 0
    /\ need_resched = FALSE
    /\ zombie = NoTask
    /\ freed = {}
    /\ cpu = "run"

(***************************************************************************)
(* schedule(), called with interrupts off by the current task.  st, rq and *)
(* p are the states, the run queue and the program counters its caller     *)
(* leaves.  The slot "zombie" is emptied on entry, and again by the task   *)
(* that comes back from its own switch_to (not by one that starts).        *)
(***************************************************************************)
Collects(z, me) == z \notin {NoTask, me}

\* A bug: a dead task goes back to the run queue like a preempted one.
RequeuesExited(s) == s \notin {"BLOCKED", "ZOMBIE"}
\* A bug: the state is compared after it should have been set.
RequeuesReady(s) == s = "READY"

\* prev goes to the tail of the run queue.
Requeues(s) == s = "RUNNING"

\* Where a task that has never run begins.  A process is entered by iretq, with
\* interrupts on.  A kernel thread's function is entered by the ret of switch_to
\* and finds them as the caller of schedule() had them: off behind every
\* interrupt gate, on when a thread that had them on returned into task_exit.
Entry(next, prev, st, p) ==
    IF next \in KThread /\ ~(st[prev] = "DEAD" /\ p[prev] = "run") THEN "masked" ELSE "run"

Schedule(st, rq, p) ==
    LET prev == current
        next == Head(rq)
        z0 == IF Collects(zombie, prev) THEN NoTask ELSE zombie
        f0 == IF Collects(zombie, prev) THEN freed \cup {zombie} ELSE freed
        z1 == IF st[prev] = "DEAD" THEN prev ELSE z0
        requeue == Requeues(st[prev])
        resumes == p[next] # "fresh" /\ Collects(z1, next)
    IN IF rq = <<>>
       THEN /\ cpu' = IF st[prev] \in {"DEAD", "ZOMBIE"} THEN "halt" ELSE cpu
            /\ state' = st
            /\ runqueue' = rq
            /\ pc' = p
            /\ zombie' = z0
            /\ freed' = f0
            /\ UNCHANGED current
       ELSE /\ state' = [t \in Pid |-> IF t = next THEN "RUNNING"
                                       ELSE IF t = prev /\ requeue THEN "READY" ELSE st[t]]
            /\ runqueue' = IF requeue THEN Append(Tail(rq), prev) ELSE Tail(rq)
            /\ current' = next
            /\ pc' = IF p[next] = "fresh" THEN [p EXCEPT ![next] = Entry(next, prev, st, p)] ELSE p
            /\ zombie' = IF resumes THEN NoTask ELSE z1
            /\ freed' = IF resumes THEN f0 \cup {z1} ELSE f0
            \* next->rsp is read before prev->rsp is written
            /\ cpu' = IF next = prev THEN "lost" ELSE cpu

-----------------------------------------------------------------------------
\* Every task runs with interrupts on, but for a kernel thread entered with them
\* off, which never enables them.  (sched_start calls schedule() after the sti of
\* kmain, so the first task it enters has them on.)
InterruptsOn == cpu = "run" /\ pc[current] # "masked"

\* The timer interrupt: isr_dispatch calls sched_tick.
SchedTick ==
    /\ InterruptsOn
    /\ UNCHANGED <<ppid, block_on, want, blocked_list, next_pid>>
    /\ \/ /\ ~need_resched
          /\ ticks + 1 < TIME_SLICE
          /\ ticks' = ticks + 1
          /\ UNCHANGED <<state, pc, runqueue, current, need_resched, zombie, freed, cpu>>
       \/ /\ need_resched \/ ticks + 1 >= TIME_SLICE
          /\ need_resched' = FALSE
          /\ ticks' = 0
          /\ Schedule(state, runqueue, pc)

InUserMode(t) == cpu = "run" /\ current = t /\ t \in User /\ pc[t] = "run"

\* A bug: the slice is restarted and need_resched forgotten.
TaskYieldNoFlag(t) ==
    /\ InUserMode(t)
    /\ ticks' = 0
    /\ UNCHANGED <<state, ppid, block_on, pc, want, runqueue, blocked_list, current,
                   next_pid, need_resched, zombie, freed, cpu>>

\* SYS_yield: only asks the next tick to switch.
TaskYield(t) ==
    /\ InUserMode(t)
    /\ ticks' = 0
    /\ need_resched' = TRUE
    /\ UNCHANGED <<state, ppid, block_on, pc, want, runqueue, blocked_list, current,
                   next_pid, zombie, freed, cpu>>

\* SYS_fork: do_fork registers the child and enqueues it with the next pid.  When
\* memory runs out it returns before it does either: no step of this module.
DoFork(t) ==
    /\ InUserMode(t)
    /\ next_pid <= MaxPid
    /\ state' = [state EXCEPT ![next_pid] = "READY"]
    /\ ppid' = [ppid EXCEPT ![next_pid] = t]
    /\ runqueue' = Append(runqueue, next_pid)
    /\ next_pid' = next_pid + 1
    /\ UNCHANGED <<block_on, pc, want, blocked_list, current, ticks, need_resched,
                   zombie, freed, cpu>>

\* A bug: "0 = any child" of block_on is forgotten.
WokenByPid(e) == {t \in blocked_list : block_on[t] = e}
\* A bug: the parent test is forgotten.
WokenByAnyone(e) == {t \in blocked_list : block_on[t] \in {0, e}}

\* task_wakeup_children(e, e's ppid): the tasks it takes off blocked_list.
WokenBy(e) == {t \in blocked_list : \/ block_on[t] = 0 /\ t = ppid[e]
                                    \/ block_on[t] = e}

\* The tasks of a set in some order.
AsSeq(S) == CHOOSE s \in [1 .. Cardinality(S) -> S] : IsInjective(s)

\* A bug: the woken parent stays on blocked_list.
SysExitKeepsList(t) ==
    LET woken == WokenBy(t)
    IN /\ InUserMode(t)
       /\ Schedule([u \in Pid |-> IF u = t THEN "ZOMBIE"
                                  ELSE IF u \in woken THEN "READY" ELSE state[u]],
                   runqueue \o AsSeq(woken), pc)
       /\ UNCHANGED <<ppid, block_on, want, blocked_list, next_pid, ticks, need_resched>>

\* SYS_exit: zombie, wake the waiting parent, schedule.
SysExit(t) ==
    LET woken == WokenBy(t)
    IN /\ InUserMode(t)
       /\ blocked_list' = blocked_list \ woken
       /\ Schedule([u \in Pid |-> IF u = t THEN "ZOMBIE"
                                  ELSE IF u \in woken THEN "READY" ELSE state[u]],
                   runqueue \o AsSeq(woken), pc)
       /\ UNCHANGED <<ppid, block_on, want, next_pid, ticks, need_resched>>

\* A kernel thread's function returned: task_exit.  It is one step whether the
\* thread had interrupts on or off: what a tick inside a schedule() called with
\* interrupts on may do is module SchedRace.
TaskExit(t) ==
    /\ cpu = "run" /\ current = t /\ t \in KThread
    /\ Schedule([state EXCEPT ![t] = "DEAD"], runqueue, pc)
    /\ UNCHANGED <<ppid, block_on, want, blocked_list, next_pid, ticks, need_resched>>

-----------------------------------------------------------------------------
\* task_find_zombie walks the registry newest first.
ZombiesOf(t, w) == {z \in Pid : /\ state[z] = "ZOMBIE"
                                /\ ppid[z] = t
                                /\ w = AnyPid \/ z = w}

\* A bug: whose child the zombie is is not looked at.
TaskFindZombieAny(t, w) ==
    LET zs == {z \in Pid : state[z] = "ZOMBIE" /\ (w = AnyPid \/ z = w)}
    IN CHOOSE z \in zs : \A y \in zs : y <= z

TaskFindZombie(t, w) == CHOOSE z \in ZombiesOf(t, w) : \A y \in ZombiesOf(t, w) : y <= z

\* A bug: the zombie stays one and would be returned again.
ReapTwice(t, w) ==
    /\ pc' = [pc EXCEPT ![t] = "run"]
    /\ UNCHANGED <<state, ppid, block_on, runqueue, blocked_list, current, next_pid, ticks,
                   need_resched, zombie, freed, cpu>>

\* wait4 found a zombie: it becomes DEAD and the call returns its pid.
Reap(t, w) ==
    /\ state' = [state EXCEPT ![TaskFindZombie(t, w)] = "DEAD"]
    /\ pc' = [pc EXCEPT ![t] = "run"]
    /\ UNCHANGED <<ppid, block_on, runqueue, blocked_list, current, next_pid, ticks,
                   need_resched, zombie, freed, cpu>>

\* SYS_wait4 up to its return or its first sleep: interrupts are off.
Wait4(t, w) ==
    /\ InUserMode(t)
    /\ want' = [want EXCEPT ![t] = w]
    /\ \/ /\ ZombiesOf(t, w) # {}
          /\ Reap(t, w)
       \/ /\ ZombiesOf(t, w) = {}
          /\ block_on' = [block_on EXCEPT ![t] = 0]
          /\ blocked_list' = blocked_list \cup {t}
          /\ Schedule([state EXCEPT ![t] = "BLOCKED"], runqueue, [pc EXCEPT ![t] = "find"])
          /\ UNCHANGED <<ppid, next_pid, ticks, need_resched>>

\* The loop of wait4 after a sleep: interrupts are on.
Rewait(t) ==
    /\ cpu = "run" /\ current = t /\ pc[t] = "find"
    /\ UNCHANGED want
    /\ \/ /\ ZombiesOf(t, want[t]) # {}
          /\ Reap(t, want[t])
       \/ /\ ZombiesOf(t, want[t]) = {}
          /\ pc' = [pc EXCEPT ![t] = "blk_state"]
          /\ UNCHANGED <<state, ppid, block_on, runqueue, blocked_list, current,
                         next_pid, ticks, need_resched, zombie, freed, cpu>>

\* Processes call wait4 with -1, as every program of the repository does.
\* Module SchedRace adds wait4 of one pid.
Next ==
    \/ SchedTick
    \/ \E t \in Pid : \/ TaskYield(t)
                      \/ DoFork(t)
                      \/ SysExit(t)
                      \/ TaskExit(t)
                      \/ Wait4(t, AnyPid)
                      \/ Rewait(t)

Spec == Init /\ [][Next]_vars

\* The LAPIC timer is periodic, so a tick comes as long as interrupts are on.
\* A time slice is longer than the few instructions of one loop of wait4, so a
\* task that keeps getting the CPU there completes it.  A kernel thread's
\* function is assumed to return.
FairSpec ==
    /\ Spec
    /\ WF_vars(SchedTick)
    /\ \A t \in Pid : SF_vars(Rewait(t)) /\ WF_vars(TaskExit(t))

-----------------------------------------------------------------------------
Queued == Range(runqueue)

NoDuplicates(s) == \A i, j \in 1 .. Len(s) : s[i] = s[j] => i = j

\* Every allocated task is in exactly the place its state says, and once: the
\* current task is the only RUNNING one, the READY ones are on the run queue,
\* the BLOCKED ones on blocked_list.  So sched_enqueue, dequeue and the wake-up
\* in exit neither lose a task nor link one twice through t->next.
OnePlace ==
    /\ \A t \in Pid : /\ state[t] = "RUNNING" <=> t = current
                      /\ state[t] = "READY" <=> t \in Queued
                      /\ state[t] = "BLOCKED" <=> t \in blocked_list
                      /\ state[t] = "NONE" <=> t >= next_pid
    /\ NoDuplicates(runqueue)

\* schedule() always has somewhere to go: it is never left in the "nothing else
\* to run: halt forever" loop by an exit, nor switches a task to itself through
\* a stale saved stack pointer.
CpuKeepsRunning == cpu = "run"

\* No lost wake-up: a task asleep in wait4 has no exited child waiting for it,
\* whichever of exit and wait4 came first.
NoSleepOverZombie == \A t \in blocked_list : ZombiesOf(t, AnyPid) = {}

\* A task that exit woke finds a zombie when it looks again, however late it
\* gets the CPU: wait4 sleeps at most once per call, so task_block_any is never
\* executed with interrupts on.
WokenFindsZombie ==
    \A t \in Pid : pc[t] = "find" /\ t \notin blocked_list => ZombiesOf(t, AnyPid) # {}

\* schedule() frees a dead kernel thread's stack and struct only once the CPU is
\* off that stack, and never one that it could still switch to: the freed task is
\* neither current nor on one of the two lists nor in the slot for a second kfree.
\* The registry is not meant: all_tasks keeps the freed struct, and
\* task_find_zombie still reads it.
FreedIsNotScheduled == freed \cap ({current, zombie} \cup Queued \cup blocked_list) = {}

\* A task that exited never gets the CPU again and only ever moves from ZOMBIE
\* to DEAD, which only its parent's wait4 does.
ExitIsFinal ==
    [][\A t \in Pid : state[t] \in {"ZOMBIE", "DEAD"} =>
          /\ current' # t
          /\ \/ state'[t] = state[t]
             \/ state'[t] = "DEAD" /\ current = ppid[t]]_vars

\* Round robin: a task on the run queue gets the CPU, whatever the others do.
ReadyRuns == \A t \in Pid : state[t] = "READY" ~> current = t

\* A process in wait4 one of whose children exits comes back to user mode.
WaiterReturns ==
    \A t, c \in Pid : pc[t] = "find" /\ ppid[c] = t /\ state[c] = "ZOMBIE" ~> pc[t] = "run"

\* What the comment in wait4 says of the task it reaps: "schedule() frees it
\* later".
ReapedIsFreed == \A t \in Pid : state[t] = "DEAD" ~> t \in freed

\* The abstract process table (module Proc) this scheduler implements.
ProcStatus ==
    [t \in User |-> CASE state[t] = "NONE" -> "none"
                      [] state[t] = "ZOMBIE" -> "exited"
                      [] state[t] = "DEAD" -> "reaped"
                      [] pc[t] = "find" /\ state[t] \in {"READY", "RUNNING", "BLOCKED"} -> "waiting"
                      [] OTHER -> "live"]

Abs == INSTANCE Proc WITH Process <- User, First <- NKThreads + 2, status <- ProcStatus,
                          parent <- [t \in User |-> ppid[t]]

\* Ticks, queues and context switches are invisible to processes: what they see
\* of fork, exit and wait4 is what the process table of module Proc allows.
ImplementsProc == Abs!Spec
==============================================================================
