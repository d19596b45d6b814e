------------------------------ MODULE SchedRace ------------------------------
(***************************************************************************)
(* The scheduler where schedule() itself runs with interrupts on.  That    *)
(* happens twice: kmain executes "sti" before sched_start, and a task that *)
(* was switched back in inside wait4 has executed the "sti" of schedule()  *)
(* and, when it finds no zombie, calls task_block_any once more.  The      *)
(* second case needs wait4 of one pid: another child's exit wakes it.      *)
(*                                                                         *)
(* The statements of task_block_any and schedule are then steps of their   *)
(* own, dequeue and sched_enqueue included as far as a tick can tell their *)
(* statements apart, and a tick may run a whole schedule() between any two *)
(* of them.  Three ticks leave state that the sequences and pids of this   *)
(* model cannot express, and so does a second link of the same task.  The  *)
(* model stops there, with cpu = "torn" or "lost", and says nothing about  *)
(* what the code does next.  Everything else is module Sched.              *)
(***************************************************************************)
EXTENDS Sched

\* No code of the repository calls task_create.  A kernel thread that runs with
\* interrupts on would be a third caller of an interruptible schedule().
ASSUME NoKernelThreads == NKThreads = 0

VARIABLES nxt,      \* the local "next" of the schedule() call a task is in
          onstack   \* the task whose kernel stack the CPU is on

raceVars == <<state, ppid, block_on, pc, want, runqueue, blocked_list, current,
              next_pid, ticks, need_resched, zombie, freed, cpu, nxt, onstack>>

RaceTypeOK ==
    /\ TypeOK
    /\ nxt \in [Pid -> {NoTask} \cup Pid]
    /\ onstack \in Pid

\* kmain calls sched_start: the bootstrap task is at the entry of schedule(),
\* the first process on the run queue.
RaceInit ==
    /\ state = [t \in Pid |-> IF t = Idle THEN "RUNNING"
                              ELSE IF t = 2 THEN "READY" ELSE "NONE"]
    /\ ppid = [t \in Pid |-> NoTask]
    /\ block_on = [t \in Pid |-> NoTask]
    /\ pc = [t \in Pid |-> IF t = Idle THEN "sched_entry" ELSE "fresh"]
    /\ want = [t \in Pid |-> AnyPid]
    /\ runqueue = <<2>>
    /\ blocked_list = {}
    /\ current = Idle
    /\ next_pid = 3
    /\ ticks = 0
    /\ need_resched = FALSE
    /\ zombie = NoTask
    /\ freed = {}
    /\ cpu = "run"
    /\ nxt = [t \in Pid |-> NoTask]
    /\ onstack = Idle

-----------------------------------------------------------------------------
Wanted == {AnyPid} \cup Pid

At(t, l) == cpu = "run" /\ onstack = t /\ pc[t] = l

\* Where schedule() returns to: the loop of wait4, or the idle loop.
Caller(t) == IF t = Idle THEN "run" ELSE "find"

Goto(t, l) == pc' = [pc EXCEPT ![t] = l]

\* A bug: t is linked before its state is set.
BlockStateLater(t) ==
    /\ At(t, "blk_state")
    /\ blocked_list' = blocked_list \cup {t}
    /\ block_on' = [block_on EXCEPT ![t] = 0]
    /\ Goto(t, "blk_link")
    /\ UNCHANGED <<state, ppid, want, runqueue, current, next_pid, ticks,
                   need_resched, zombie, freed, cpu, nxt, onstack>>

\* task_block_any: t->state = TASK_BLOCKED; t->block_on = 0.
BlockState(t) ==
    /\ At(t, "blk_state")
    /\ state' = [state EXCEPT ![t] = "BLOCKED"]
    /\ block_on' = [block_on EXCEPT ![t] = 0]
    /\ Goto(t, "blk_link")
    /\ UNCHANGED <<ppid, want, runqueue, blocked_list, current, next_pid, ticks,
                   need_resched, zombie, freed, cpu, nxt, onstack>>

\* task_block_any: t goes to the front of blocked_list.
BlockLink(t) ==
    /\ At(t, "blk_link")
    /\ t \notin blocked_list
    /\ blocked_list' = blocked_list \cup {t}
    /\ Goto(t, "sched_entry")
    /\ UNCHANGED <<state, ppid, block_on, want, runqueue, current, next_pid, ticks,
                   need_resched, zombie, freed, cpu, nxt, onstack>>

\* schedule() returns to a BLOCKED caller when the run queue is empty, and the
\* caller may come here again with its link still on blocked_list.
Links(t) ==
    \/ At(t, "blk_link")
    \/ InUserMode(t) /\ onstack = current /\ \E w \in Wanted : ZombiesOf(t, w) = {}

\* Its next then leads back to itself: blocked_list is a cycle, and a wake-up may
\* find t on it more than once or never come to its end.
Relink(t) ==
    /\ Links(t)
    /\ t \in blocked_list
    /\ cpu' = "torn"
    /\ UNCHANGED <<state, ppid, block_on, pc, want, runqueue, blocked_list, current,
                   next_pid, ticks, need_resched, zombie, freed, nxt, onstack>>

\* schedule: collect the zombie slot; dequeue: t = runqueue_head.  schedule
\* returns when it is NULL (the caller is RUNNING or BLOCKED, so it does not halt).
ReadHead(t) ==
    /\ At(t, "sched_entry")
    /\ zombie' = IF Collects(zombie, t) THEN NoTask ELSE zombie
    /\ freed' = IF Collects(zombie, t) THEN freed \cup {zombie} ELSE freed
    /\ \/ /\ runqueue = <<>>
          /\ Goto(t, Caller(t))
          /\ UNCHANGED nxt
       \/ /\ runqueue # <<>>
          /\ nxt' = [nxt EXCEPT ![t] = Head(runqueue)]
          /\ Goto(t, "sched_head")
    /\ UNCHANGED <<state, ppid, block_on, want, runqueue, blocked_list, current, next_pid,
                   ticks, need_resched, cpu, onstack>>

\* dequeue: runqueue_head = t->next.  From here on t is in no list, and a tick
\* before the rest of dequeue meets a queue that is complete from its head on.
Dequeue(t) ==
    /\ At(t, "sched_head")
    /\ runqueue' = Tail(runqueue)
    /\ Goto(t, "sched_picked")
    /\ UNCHANGED <<state, ppid, block_on, want, blocked_list, current, next_pid, ticks,
                   need_resched, zombie, freed, cpu, nxt, onstack>>

\* schedule: a RUNNING prev becomes READY.
Requeue(t) ==
    /\ At(t, "sched_picked")
    /\ \/ /\ state[t] = "RUNNING"
          /\ state' = [state EXCEPT ![t] = "READY"]
          /\ Goto(t, "sched_ready")
       \/ /\ state[t] # "RUNNING"
          /\ Goto(t, "sched_requeued")
          /\ UNCHANGED state
    /\ UNCHANGED <<ppid, block_on, want, runqueue, blocked_list, current, next_pid, ticks,
                   need_resched, zombie, freed, cpu, nxt, onstack>>

\* sched_enqueue: the last task's next, or runqueue_head, is prev.  runqueue_tail
\* is not: until the next step the queue can be neither extended nor emptied.
EnqueueLink(t) ==
    /\ At(t, "sched_ready")
    /\ Goto(t, "sched_link")
    /\ UNCHANGED <<state, ppid, block_on, want, runqueue, blocked_list, current, next_pid,
                   ticks, need_resched, zombie, freed, cpu, nxt, onstack>>

\* sched_enqueue: runqueue_tail = prev.
EnqueueTail(t) ==
    /\ At(t, "sched_link")
    /\ runqueue' = Append(runqueue, t)
    /\ Goto(t, "sched_requeued")
    /\ UNCHANGED <<state, ppid, block_on, want, blocked_list, current, next_pid, ticks,
                   need_resched, zombie, freed, cpu, nxt, onstack>>

\* schedule: next->state = TASK_RUNNING.
SetRunning(t) ==
    /\ At(t, "sched_requeued")
    /\ state' = [state EXCEPT ![nxt[t]] = "RUNNING"]
    /\ Goto(t, "sched_running")
    /\ UNCHANGED <<ppid, block_on, want, runqueue, blocked_list, current, next_pid, ticks,
                   need_resched, zombie, freed, cpu, nxt, onstack>>

\* schedule: task_set_current(next).
SetCurrent(t) ==
    /\ At(t, "sched_running")
    /\ current' = nxt[t]
    /\ Goto(t, "sched_current")
    /\ UNCHANGED <<state, ppid, block_on, want, runqueue, blocked_list, next_pid, ticks,
                   need_resched, zombie, freed, cpu, nxt, onstack>>

\* switch_to: the rest of schedule() waits on t's stack, next goes on.
SwitchTo(t) ==
    LET n == nxt[t]
        collects == pc[n] # "fresh" /\ Collects(zombie, n)
    IN /\ At(t, "sched_current")
       /\ onstack' = n
       /\ pc' = [pc EXCEPT ![t] = Caller(t), ![n] = IF @ = "fresh" THEN "run" ELSE @]
       /\ nxt' = [nxt EXCEPT ![t] = NoTask]
       /\ zombie' = IF collects THEN NoTask ELSE zombie
       /\ freed' = IF collects THEN freed \cup {zombie} ELSE freed
       /\ cpu' = IF n = t THEN "lost" ELSE cpu
       /\ UNCHANGED <<state, ppid, block_on, want, runqueue, blocked_list, current,
                      next_pid, ticks, need_resched>>

\* Where a tick's schedule() does damage.  sched_head: it takes the task that the
\* interrupted dequeue has read and will take again.  sched_link: it works on a
\* queue whose tail is not its last task.  sched_current: it saves the stack
\* pointer of one task in the struct of another.
Fragile(t) == pc[t] \in {"sched_head", "sched_link", "sched_current"}

\* A tick there: sched_tick counts, or calls schedule(), which returns at once
\* when the run queue is empty.
FragileTick ==
    /\ InterruptsOn
    /\ Fragile(onstack)
    /\ \/ /\ ~need_resched
          /\ ticks + 1 < TIME_SLICE
          /\ ticks' = ticks + 1
          /\ UNCHANGED <<need_resched, cpu>>
       \/ /\ need_resched \/ ticks + 1 >= TIME_SLICE
          /\ need_resched' = FALSE
          /\ ticks' = 0
          /\ cpu' = IF pc[onstack] # "sched_current" THEN "torn"
                    ELSE IF runqueue # <<>> THEN "lost" ELSE cpu
    /\ UNCHANGED <<state, ppid, block_on, pc, want, runqueue, blocked_list, current,
                   next_pid, zombie, freed, nxt, onstack>>

\* wait4, unless it would link t a second time.
Wait4Once(t, w) ==
    /\ t \notin blocked_list \/ ZombiesOf(t, w) # {}
    /\ Wait4(t, w)

\* A step of module Sched.
SchedStep ==
    /\ ~Fragile(onstack)
    /\ \/ SchedTick
       \/ \E t \in Pid : \/ TaskYield(t)
                         \/ DoFork(t)
                         \/ SysExit(t)
                         \/ \E w \in Wanted : Wait4Once(t, w)
                         \/ Rewait(t)
    /\ onstack' = current'
    /\ UNCHANGED nxt

RaceNext ==
    \/ SchedStep
    \/ FragileTick
    \/ \E t \in Pid : \/ BlockState(t)
                      \/ BlockLink(t)
                      \/ Relink(t)
                      \/ ReadHead(t)
                      \/ Dequeue(t)
                      \/ Requeue(t)
                      \/ EnqueueLink(t)
                      \/ EnqueueTail(t)
                      \/ SetRunning(t)
                      \/ SetCurrent(t)
                      \/ SwitchTo(t)

RaceSpec == RaceInit /\ [][RaceNext]_raceVars

-----------------------------------------------------------------------------
\* The comment in wait4: "no zombie yet: block until a child exits".  A task
\* that gave up the CPU in wait4 is not asleep while the child it asked for is
\* a zombie.
NoSleepOverWanted ==
    \A t \in Pid : state[t] = "BLOCKED" /\ current # t => ZombiesOf(t, want[t]) = {}

\* The comment in schedule() on its "sti": the task "can be preempted again".
\* A preemption leaves both lists linked and every saved stack pointer on its own
\* task's stack.
PreemptionIsSafe == cpu \notin {"torn", "lost"}

\* t is in a schedule() that has dequeued the next task and not made it current.
Holds(t) == pc[t] \in {"sched_picked", "sched_ready", "sched_link", "sched_requeued",
                       "sched_running"}

\* A tick inside schedule() breaks the lists at the fragile points only: until a
\* tick's own schedule() runs at one of them, or a task links itself twice, the run
\* queue holds READY tasks only and each once, blocked_list none that is READY or
\* RUNNING, and the task a schedule() has dequeued is on neither and is no other
\* schedule()'s.  So no t->next is overwritten while it links the other list, and
\* no task is run from two places, wherever else the tick comes.  It does not say
\* that no task is lost: one that a tick stops between the READY of its state and
\* its sched_enqueue is on no list, and nobody runs it again.
ListsAreSound ==
    cpu \notin {"torn", "lost"} =>
        /\ \A t \in Queued : state[t] = "READY"
        /\ NoDuplicates(runqueue)
        /\ \A t \in blocked_list : state[t] \notin {"NONE", "READY", "RUNNING"}
        /\ \A t \in Pid : Holds(t) => nxt[t] \notin Queued \cup blocked_list
        /\ \A t, u \in Pid : Holds(t) /\ Holds(u) /\ nxt[t] = nxt[u] => t = u

\* The comment on blocked_list: "tasks blocked in wait4".  A task that is on it
\* is asleep, unless it is still on its way into schedule().
ListedSleeps ==
    \A t \in blocked_list : onstack = t => pc[t] \notin {"run", "find"}
==============================================================================
