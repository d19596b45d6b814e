------------------------------ MODULE RaceProofs ------------------------------
(***************************************************************************)
(* Proofs about module SchedRace, for every number of processes: wherever  *)
(* else in schedule() a tick comes, only one at a fragile point breaks the *)
(* two lists of the scheduler.                                             *)
(***************************************************************************)
EXTENDS SchedRace, SchedProofs

Holding == {"sched_picked", "sched_ready", "sched_link", "sched_requeued", "sched_running"}
Readied == {"sched_ready", "sched_link"}
FragilePcs == {"sched_head", "sched_link", "sched_current"}

\* The parts of the inductive invariant, as predicates of the states st, the
\* run queue rq, the program counters p, the blocked list b, the current task c,
\* the task o whose stack is in use, and the locals n, so that what schedule()
\* is called with can be said as well.
Lists(st, rq, b) ==
    /\ \A t \in Range(rq) : st[t] = "READY"
    /\ NoDuplicates(rq)
    /\ \A t \in b : st[t] \notin {"NONE", "READY", "RUNNING"}

\* A task that schedule() has dequeued and not yet made current is READY, or
\* RUNNING already, and in no list, and in no other interrupted schedule().
Picks(st, rq, p, c, n) ==
    /\ \A t \in Pid : p[t] \in Holding =>
          /\ n[t] \in Pid /\ n[t] # t /\ n[t] # c
          /\ st[n[t]] \in {"READY", "RUNNING"} /\ n[t] \notin Range(rq)
          /\ p[t] = "sched_running" => st[n[t]] = "RUNNING"
    /\ \A t, u \in Pid : p[t] \in Holding /\ p[u] \in Holding /\ n[t] = n[u] => t = u

\* At a fragile point a task keeps the CPU: dequeue still finds the head it read.
Fragiles(rq, p, o, n) ==
    \A t \in Pid : p[t] \in FragilePcs =>
        /\ o = t
        /\ p[t] = "sched_head" => rq # <<>> /\ n[t] = Head(rq)

\* A task that schedule() has made READY and not yet queued is in nobody's hands.
Between(st, rq, p, n) ==
    \A t \in Pid : p[t] \in Readied =>
        /\ st[t] = "READY" /\ t \notin Range(rq)
        /\ \A u \in Pid : p[u] \in Holding => n[u] # t

\* A task about to link itself is BLOCKED; when it is linked already, nothing
\* else can run.
Linking(st, rq, p, b, o) ==
    \A t \in Pid : p[t] = "blk_link" => /\ st[t] = "BLOCKED"
                                        /\ t \in b => o = t /\ rq = <<>>

\* The current task owns the stack in use, but between task_set_current and
\* switch_to.  It is READY only on its way into the queue or while it waits there
\* to be picked again.
Owns(st, rq, p, c, o, n) ==
    /\ \A t \in Pid : p[t] = "sched_current" => o = t /\ c = n[t] /\ t # c
    /\ o # c => p[o] = "sched_current" /\ st[c] = "RUNNING"
    /\ st[c] = "READY" => \/ p[c] \in Readied
                          \/ c \in Range(rq) /\ p[c] \in {"sched_requeued", "sched_running"}
    /\ st[c] # "NONE"

\* schedule() returns to a linked caller only when nothing else can run.
Stuck(rq, p, b, c) == c \in b /\ p[c] \in {"find", "blk_state", "blk_link"} => rq = <<>>

\* Pids are handed out in order.
Pids(st, p, np) ==
    \A t \in Pid : /\ st[t] = "NONE" <=> t >= np
                   /\ st[t] = "NONE" => p[t] = "fresh"

RaceTypes ==
    /\ state \in [Pid -> States]
    /\ ppid \in [Pid -> {NoTask} \cup Pid]
    /\ block_on \in [Pid -> {0}]
    /\ pc \in [Pid -> Pcs]
    /\ runqueue \in Seq(Pid)
    /\ blocked_list \in SUBSET Pid
    /\ current \in Pid
    /\ onstack \in Pid
    /\ next_pid \in Nat
    /\ nxt \in [Pid -> {NoTask} \cup Pid]
    /\ \A t \in Pid : ppid[t] # t

RaceInv ==
    /\ RaceTypes
    /\ Lists(state, runqueue, blocked_list)
    /\ Picks(state, runqueue, pc, current, nxt)
    /\ Fragiles(runqueue, pc, onstack, nxt)
    /\ Between(state, runqueue, pc, nxt)
    /\ Linking(state, runqueue, pc, blocked_list, onstack)
    /\ Owns(state, runqueue, pc, current, onstack, nxt)
    /\ Stuck(runqueue, pc, blocked_list, current)
    /\ Pids(state, pc, next_pid)

-----------------------------------------------------------------------------
\* The invariant in the next state, part by part.
LEMMA Primed ==
    ASSUME RaceTypes',
           Lists(state', runqueue', blocked_list'),
           Picks(state', runqueue', pc', current', nxt'),
           Fragiles(runqueue', pc', onstack', nxt'),
           Between(state', runqueue', pc', nxt'),
           Linking(state', runqueue', pc', blocked_list', onstack'),
           Owns(state', runqueue', pc', current', onstack', nxt'),
           Stuck(runqueue', pc', blocked_list', current'),
           Pids(state', pc', next_pid')
    PROVE  RaceInv'
BY ZenonT(30) DEF RaceInv, Lists, Picks, Fragiles, Between, Linking, Owns, Stuck, Pids

-----------------------------------------------------------------------------
\* The state in which kmain calls sched_start.
LEMMA RaceInitInv == RaceInit => RaceInv
<1> SUFFICES ASSUME RaceInit PROVE RaceInv
  BY Zenon
<1>1. /\ Idle \in Pid /\ 2 \in Pid /\ Idle # 2 /\ NoTask \notin Pid
  BY SchedAssumption DEF Pid, Idle, NoTask
<1>2. <<2>> \in Seq(Pid) /\ Range(<<2>>) = {2} /\ NoDuplicates(<<2>>)
  BY <1>1 DEF Range, NoDuplicates
<1>3. RaceTypes
  BY ZenonT(30), <1>1, <1>2 DEF RaceInit, RaceTypes, NoTask, States, Pcs
<1>4. Lists(state, runqueue, blocked_list)
  BY ZenonT(30), <1>1, <1>2 DEF RaceInit, Lists
<1>5. \A t \in Pid : pc[t] \in {"sched_entry", "fresh"}
  BY ZenonT(30) DEF RaceInit
<1>6. /\ Picks(state, runqueue, pc, current, nxt)
      /\ Fragiles(runqueue, pc, onstack, nxt)
      /\ Between(state, runqueue, pc, nxt)
  BY ZenonT(30), <1>5 DEF Picks, Fragiles, Between, Holding, FragilePcs, Readied
<1>7. /\ Linking(state, runqueue, pc, blocked_list, onstack)
      /\ Stuck(runqueue, pc, blocked_list, current)
  BY ZenonT(30), <1>5 DEF RaceInit, Linking, Stuck
<1>8. Owns(state, runqueue, pc, current, onstack, nxt)
  BY ZenonT(30), <1>1, <1>5 DEF RaceInit, Owns
<1>9. Pids(state, pc, next_pid)
  BY <1>1 DEF RaceInit, Pids, Pid, Idle
<1> QED BY <1>3, <1>4, <1>6, <1>7, <1>8, <1>9 DEF RaceInv

-----------------------------------------------------------------------------
(* schedule() with interrupts off, entered by the current task on its own   *)
(* stack: it keeps every part, and establishes Stuck, which wait4 does not  *)
(* when it calls it.                                                        *)
LEMMA ScheduleKeepsParts ==
    ASSUME NEW st \in [Pid -> States], NEW rq \in Seq(Pid), NEW p \in [Pid -> Pcs],
           NEW b \in SUBSET Pid, NEW np,
           current \in Pid,
           Lists(st, rq, b),
           Picks(st, rq, p, current, nxt),
           \A t \in Pid : p[t] \notin FragilePcs,
           Between(st, rq, p, nxt),
           Linking(st, rq, p, b, current),
           Owns(st, rq, p, current, current, nxt),
           Pids(st, p, np),
           Schedule(st, rq, p)
    PROVE  /\ state' \in [Pid -> States]
           /\ runqueue' \in Seq(Pid)
           /\ pc' \in [Pid -> Pcs]
           /\ current' \in Pid
           /\ Lists(state', runqueue', b)
           /\ Picks(state', runqueue', pc', current', nxt)
           /\ \A t \in Pid : pc'[t] \notin FragilePcs
           /\ Between(state', runqueue', pc', nxt)
           /\ Linking(state', runqueue', pc', b, current')
           /\ Owns(state', runqueue', pc', current', current', nxt)
           /\ Stuck(runqueue', pc', b, current')
           /\ Pids(state', pc', np)
<1>1. CASE rq = <<>>
  <2>1. state' = st /\ runqueue' = rq /\ pc' = p /\ current' = current
    BY ZenonT(30), <1>1 DEF Schedule
  <2> QED BY <1>1, <2>1, Zenon DEF Stuck
<1>2. CASE rq # <<>>
  <2> DEFINE next == Head(rq)
             requeue == st[current] = "RUNNING"
  <2>1. /\ state' = [t \in Pid |-> IF t = next THEN "RUNNING"
                                   ELSE IF t = current /\ requeue THEN "READY" ELSE st[t]]
        /\ runqueue' = IF requeue THEN Append(Tail(rq), current) ELSE Tail(rq)
        /\ current' = next
        /\ pc' = IF p[next] = "fresh" THEN [p EXCEPT ![next] = Entry(next, current, st, p)] ELSE p
    BY ZenonT(30), <1>2 DEF Schedule, Requeues
  <2>2. NoDuplicates(rq)
    BY ZenonT(30) DEF Lists
  <2>3. /\ next \in Pid /\ next \in Range(rq) /\ st[next] = "READY"
        /\ Tail(rq) \in Seq(Pid) /\ NoDuplicates(Tail(rq))
        /\ Range(Tail(rq)) = Range(rq) \ {next}
    BY ZenonT(30), <1>2, <2>2, TailFacts DEF Lists
  <2>4. requeue => current \notin Range(rq)
    BY ZenonT(30) DEF Lists
  <2>5. /\ runqueue' \in Seq(Pid) /\ NoDuplicates(runqueue')
        /\ requeue => Range(runqueue') = (Range(rq) \ {next}) \cup {current}
        /\ ~requeue => Range(runqueue') = Range(rq) \ {next}
    <3>1. CASE requeue
      <4> DEFINE tl == Tail(rq)
      <4>1. /\ tl \in Seq(Pid) /\ NoDuplicates(tl) /\ Range(tl) = Range(rq) \ {next}
            /\ current \notin Range(tl) /\ runqueue' = Append(tl, current)
        BY ZenonT(30), <2>1, <2>3, <2>4, <3>1
      <4> HIDE DEF tl
      <4>2. /\ Append(tl, current) \in Seq(Pid)
            /\ Range(Append(tl, current)) = Range(tl) \cup {current}
            /\ NoDuplicates(Append(tl, current))
        BY <4>1, AppendFacts
      <4> QED BY <3>1, <4>1, <4>2, Zenon
    <3>2. CASE ~requeue
      BY ZenonT(30), <2>1, <2>3, <3>2
    <3> QED BY ZenonT(30), <3>1, <3>2
  <2> DEFINE e == Entry(next, current, st, p)
  <2>e. e \in {"run", "masked"}
    BY Zenon DEF Entry
  <2> HIDE DEF e
  <2>6. /\ state' \in [Pid -> States] /\ pc' \in [Pid -> Pcs] /\ current' \in Pid
    <3>1. pc' = IF p[next] = "fresh" THEN [p EXCEPT ![next] = e] ELSE p
      BY Zenon, <2>1 DEF e
    <3> QED BY ZenonT(30), <2>1, <2>3, <2>e, <3>1 DEF States, Pcs
  <2>7. \A t \in Pid : state'[t] = IF t = next THEN "RUNNING"
                                    ELSE IF t = current /\ requeue THEN "READY" ELSE st[t]
    BY ZenonT(30), <2>1
  <2>8. \A t \in Pid : pc'[t] = IF t = next /\ p[t] = "fresh" THEN e ELSE p[t]
    BY ZenonT(30), <2>1, <2>3 DEF e
  <2>9. Range(rq) \subseteq Pid
    BY ZenonT(30), RangeIsIn
  <2> HIDE DEF next, requeue
  <2>10. Lists(state', runqueue', b)
    <3>1. \A t \in Range(runqueue') : state'[t] = "READY"
      BY ZenonT(60), <2>3, <2>5, <2>7, <2>9 DEF Lists
    <3>2. \A t \in b : state'[t] \notin {"NONE", "READY", "RUNNING"}
      BY <2>3, <2>7 DEF Lists, requeue
    <3> QED BY ZenonT(30), <2>5, <3>1, <3>2 DEF Lists
  <2>11. Picks(state', runqueue', pc', current', nxt)
    <3>1. \A t \in Pid : pc'[t] \in Holding => p[t] \in Holding /\ pc'[t] = p[t]
      BY Zenon, <2>8, <2>e DEF Holding
    <3>2. \A t \in Pid : p[t] \in Holding =>
              /\ nxt[t] \in Pid /\ nxt[t] # t /\ nxt[t] # next /\ nxt[t] # current
              /\ st[nxt[t]] \in {"READY", "RUNNING"} /\ nxt[t] \notin Range(rq)
      BY ZenonT(30), <2>3 DEF Picks
    <3>3. \A t \in Pid : p[t] \in Holding =>
              state'[nxt[t]] = st[nxt[t]] /\ nxt[t] \notin Range(runqueue')
      BY ZenonT(30), <2>5, <2>7, <3>2
    <3> QED BY ZenonT(30), <2>1, <3>1, <3>2, <3>3 DEF Picks
  <2>f. \A t \in Pid : pc'[t] \notin FragilePcs
    BY Zenon, <2>8, <2>e DEF FragilePcs
  <2>b. Between(state', runqueue', pc', nxt)
    <3>1. \A t \in Pid : pc'[t] \in Readied => p[t] \in Readied
      BY Zenon, <2>8, <2>e DEF Readied
    <3>2. \A t \in Pid : pc'[t] \in Holding => p[t] \in Holding
      BY Zenon, <2>8, <2>e DEF Holding
    <3>3. \A t \in Pid : p[t] \in Readied => t # next /\ ~(t = current /\ requeue)
      BY ZenonT(30), <2>3 DEF Between, requeue
    <3>4. \A t \in Pid : p[t] \in Readied => state'[t] = "READY" /\ t \notin Range(runqueue')
      BY ZenonT(30), <2>5, <2>7, <3>3 DEF Between
    <3> QED BY ZenonT(30), <3>1, <3>2, <3>4 DEF Between
  <2>12. Linking(state', runqueue', pc', b, current')
    BY ZenonT(30), <1>2, <2>3, <2>7, <2>8, <2>e DEF Linking, requeue
  <2>13. Owns(state', runqueue', pc', current', current', nxt)
    <3>1. \A t \in Pid : pc'[t] # "sched_current"
      BY Zenon, <2>f DEF FragilePcs
    <3> QED BY ZenonT(30), <2>1, <2>3, <2>7, <3>1 DEF Owns
  <2>14. Stuck(runqueue', pc', b, current')
    BY ZenonT(30), <2>1, <2>3 DEF Stuck, Lists
  <2>15. Pids(state', pc', np)
    BY ZenonT(30), <2>3, <2>7, <2>8, <2>e DEF Pids, requeue
  <2> QED BY ZenonT(30), <2>5, <2>6, <2>10, <2>11, <2>b, <2>f, <2>12, <2>13, <2>14, <2>15
<1> QED BY ZenonT(30), <1>1, <1>2

\* A step that ends in schedule() and leaves the caller's parts in place.
LEMMA SwitchKeepsInv ==
    ASSUME RaceInv, onstack = current,
           NEW st \in [Pid -> States], NEW rq \in Seq(Pid), NEW p \in [Pid -> Pcs],
           NEW b \in SUBSET Pid,
           Lists(st, rq, b),
           Picks(st, rq, p, current, nxt),
           \A t \in Pid : p[t] \notin FragilePcs,
           Between(st, rq, p, nxt),
           Linking(st, rq, p, b, current),
           Owns(st, rq, p, current, current, nxt),
           Pids(st, p, next_pid),
           Schedule(st, rq, p),
           blocked_list' = b, onstack' = current', block_on' \in [Pid -> {0}],
           UNCHANGED <<ppid, next_pid, nxt>>
    PROVE  RaceInv'
<1>1. current \in Pid
  BY ZenonT(30) DEF RaceInv, RaceTypes
<1>2. /\ state' \in [Pid -> States]
      /\ runqueue' \in Seq(Pid)
      /\ pc' \in [Pid -> Pcs]
      /\ current' \in Pid
      /\ Lists(state', runqueue', b)
      /\ Picks(state', runqueue', pc', current', nxt)
      /\ \A t \in Pid : pc'[t] \notin FragilePcs
      /\ Between(state', runqueue', pc', nxt)
      /\ Linking(state', runqueue', pc', b, current')
      /\ Owns(state', runqueue', pc', current', current', nxt)
      /\ Stuck(runqueue', pc', b, current')
      /\ Pids(state', pc', next_pid)
  BY ZenonT(30), <1>1, ScheduleKeepsParts
<1>3. RaceTypes'
  BY ZenonT(30), <1>2 DEF RaceInv, RaceTypes
<1>4. nxt' = nxt /\ next_pid' = next_pid
  BY Zenon
<1>5. Fragiles(runqueue', pc', onstack', nxt')
  BY Zenon, <1>2 DEF Fragiles
<1> QED BY <1>2, <1>3, <1>4, <1>5, Primed, Zenon

\* A step that touches neither a list nor a task.
LEMMA UnchangedKeepsInv ==
    ASSUME RaceInv,
           UNCHANGED <<state, ppid, block_on, pc, runqueue, blocked_list, current,
                       next_pid, nxt, onstack>>
    PROVE  RaceInv'
BY ZenonT(30) DEF RaceInv, RaceTypes, Lists, Picks, Fragiles, Between, Linking, Owns, Stuck, Pids

\* The task on its own stack, at no fragile point, is current; no other task is at
\* a fragile point, and none holds it.
LEMMA OnOwnStack ==
    ASSUME RaceInv, NEW t \in Pid, onstack = t, pc[t] \notin FragilePcs
    PROVE  /\ current = t
           /\ \A u \in Pid : pc[u] \notin FragilePcs
           /\ pc[t] \notin {"sched_requeued", "sched_running", "sched_ready"} =>
                 state[t] # "READY" /\ t \notin Range(runqueue)
           /\ state[t] # "NONE"
           /\ \A u \in blocked_list : pc[u] = "blk_link" => u = t
           /\ \A u \in Pid : pc[u] \in Holding => nxt[u] # t
           /\ \A u \in Pid : pc[u] \in Readied => state[u] = "READY"
<1>1. \A u \in Pid : pc[u] \notin FragilePcs
  BY Zenon DEF RaceInv, Fragiles
<1>2. current = t
  BY Zenon DEF RaceInv, Owns, FragilePcs
<1>3. pc[t] \notin {"sched_requeued", "sched_running", "sched_ready"} => state[t] # "READY"
  BY Zenon, <1>2 DEF RaceInv, Owns, Readied, FragilePcs
<1>4. state[t] # "READY" => t \notin Range(runqueue)
  BY Zenon DEF RaceInv, Lists
<1>5. \A u \in Pid : pc[u] \in Holding => nxt[u] # t
  BY Zenon, <1>2 DEF RaceInv, Picks
<1>6. /\ state[t] # "NONE"
      /\ \A u \in blocked_list : pc[u] = "blk_link" => u = t
      /\ \A u \in Pid : pc[u] \in Readied => state[u] = "READY"
  BY ZenonT(30), <1>2 DEF RaceInv, RaceTypes, Owns, Linking, Between
<1> QED BY Zenon, <1>1, <1>2, <1>3, <1>4, <1>5, <1>6

\* A step of the task on its own stack, at no fragile point, that keeps the run
\* queue and what is held, and whose own pc is not among those meant, keeps
\* Fragiles and Between.
LEMMA OthersKeepBetween ==
    ASSUME RaceInv, NEW t \in Pid, onstack = t, pc[t] \notin FragilePcs,
           pc'[t] \notin FragilePcs \cup Holding,
           \A u \in Pid \ {t} : pc'[u] = pc[u],
           \A u \in Pid \ {t} : state[u] = "READY" => state'[u] = "READY",
           UNCHANGED <<runqueue, nxt>>
    PROVE  Fragiles(runqueue', pc', onstack', nxt') /\ Between(state', runqueue', pc', nxt')
<1>1. \A u \in Pid : pc'[u] \notin FragilePcs
  BY Zenon, OnOwnStack
<1>2. Readied \subseteq Holding
  BY Zenon DEF Readied, Holding
<1>3. \A u \in Pid : pc'[u] \in Holding => u # t /\ pc[u] \in Holding
  BY Zenon
<1>4. \A u \in Pid : pc'[u] \in Readied => u # t /\ pc[u] \in Readied
  BY Zenon, <1>2
<1>5. Between(state', runqueue', pc', nxt')
  BY ZenonT(30), <1>3, <1>4 DEF RaceInv, Between
<1> QED BY Zenon, <1>1, <1>5 DEF Fragiles

\* A step that leaves the tasks being held, and who holds them, alone.
LEMMA HeldKeepsPicks ==
    ASSUME RaceInv,
           \A u \in Pid : pc'[u] \in Holding =>
               /\ pc[u] \in Holding /\ nxt'[u] = nxt[u]
               /\ pc'[u] = "sched_running" => pc[u] = "sched_running",
           \A u \in Pid : pc[u] \in Holding =>
               /\ state'[nxt[u]] = state[nxt[u]]
               /\ nxt[u] \notin Range(runqueue') /\ nxt[u] # current'
    PROVE  Picks(state', runqueue', pc', current', nxt')
<1>1. Picks(state, runqueue, pc, current, nxt)
  BY Zenon DEF RaceInv
<1>2. ASSUME NEW u \in Pid, pc'[u] \in Holding
      PROVE  /\ nxt'[u] \in Pid /\ nxt'[u] # u /\ nxt'[u] # current'
             /\ state'[nxt'[u]] \in {"READY", "RUNNING"} /\ nxt'[u] \notin Range(runqueue')
             /\ pc'[u] = "sched_running" => state'[nxt'[u]] = "RUNNING"
  <2>1. /\ pc[u] \in Holding /\ nxt'[u] = nxt[u]
        /\ pc'[u] = "sched_running" => pc[u] = "sched_running"
    BY Zenon, <1>2
  <2>2. /\ nxt[u] \in Pid /\ nxt[u] # u /\ state[nxt[u]] \in {"READY", "RUNNING"}
        /\ pc[u] = "sched_running" => state[nxt[u]] = "RUNNING"
    BY Zenon, <1>1, <2>1 DEF Picks
  <2>3. /\ state'[nxt[u]] = state[nxt[u]]
        /\ nxt[u] \notin Range(runqueue') /\ nxt[u] # current'
    BY Zenon, <2>1
  <2> QED BY Zenon, <2>1, <2>2, <2>3
<1>3. ASSUME NEW u \in Pid, NEW v \in Pid, pc'[u] \in Holding, pc'[v] \in Holding,
             nxt'[u] = nxt'[v]
      PROVE  u = v
  BY Zenon, <1>1, <1>3 DEF Picks
<1> QED BY Zenon, <1>2, <1>3 DEF Picks

\* The timer tick, sched_tick.
LEMMA TickKeepsRace ==
    ASSUME RaceInv, onstack = current, ~Fragile(onstack), SchedTick, onstack' = current', UNCHANGED nxt
    PROVE  RaceInv'
<1>1. CASE UNCHANGED <<state, pc, runqueue, current>>
  BY ZenonT(30), <1>1, UnchangedKeepsInv DEF SchedTick
<1>2. CASE Schedule(state, runqueue, pc)
  <2>1. \A u \in Pid : pc[u] \notin FragilePcs
    BY ZenonT(30), OnOwnStack DEF RaceInv, RaceTypes, Fragile, FragilePcs
  <2> QED BY ZenonT(30), <1>2, <2>1, SwitchKeepsInv DEF RaceInv, RaceTypes, SchedTick
<1> QED BY ZenonT(30), <1>1, <1>2 DEF SchedTick

\* fork puts the child on the run queue.
LEMMA ForkKeepsRace ==
    ASSUME RaceInv, onstack = current, ~Fragile(onstack), NEW t \in Pid, DoFork(t), onstack' = current',
           UNCHANGED nxt
    PROVE  RaceInv'
<1> DEFINE c == next_pid
<1>1. /\ current = t /\ pc[t] = "run" /\ c \in Pid
      /\ state' = [state EXCEPT ![c] = "READY"] /\ ppid' = [ppid EXCEPT ![c] = t]
      /\ runqueue' = Append(runqueue, c) /\ next_pid' = c + 1
      /\ UNCHANGED <<block_on, pc, blocked_list, current>> /\ onstack' = onstack
  <2>1. next_pid \in Nat /\ next_pid <= MaxPid /\ state[t] # "NONE" /\ current = t /\ t < next_pid
    BY DEF DoFork, InUserMode, RaceInv, RaceTypes, Owns, Pids, Pid
  <2>2. c \in Pid
    BY SMTT(30), <2>1, SchedAssumption DEF Pid
  <2> QED BY ZenonT(30), <2>1, <2>2 DEF DoFork, InUserMode
<1>2. state[c] = "NONE" /\ c # t /\ pc[c] = "fresh" /\ c \notin blocked_list
  <2>1. state[c] = "NONE"
    BY SMTT(30), <1>1, SchedAssumption DEF RaceInv, Pids, Pid
  <2> QED BY ZenonT(30), <1>1, <2>1 DEF RaceInv, Owns, Pids, Lists
<1>3. c \notin Range(runqueue)
  BY ZenonT(30), <1>2 DEF RaceInv, Lists
<1>4. /\ runqueue' \in Seq(Pid) /\ NoDuplicates(runqueue')
      /\ Range(runqueue') = Range(runqueue) \cup {c}
  BY SMTT(30), <1>1, <1>3, AppendFacts DEF RaceInv, RaceTypes, Lists
<1>5. state'[c] = "READY" /\ \A u \in Pid \ {c} : state'[u] = state[u]
  BY ZenonT(30), <1>1 DEF RaceInv, RaceTypes
<1>6. RaceTypes'
  BY SMTT(30), <1>1, <1>2, <1>4 DEF RaceInv, RaceTypes, States
<1>7. Lists(state', runqueue', blocked_list')
  <2>1. Range(runqueue) \subseteq Pid /\ blocked_list \subseteq Pid
    BY ZenonT(30), RangeIsIn DEF RaceInv, RaceTypes
  <2> QED BY ZenonT(30), <1>1, <1>2, <1>4, <1>5, <2>1 DEF RaceInv, Lists
<1>8. Picks(state', runqueue', pc', current', nxt')
  <2>1. \A u \in Pid : pc[u] \in Holding =>
            /\ nxt[u] \in Pid /\ nxt[u] # c /\ nxt[u] \notin Range(runqueue) /\ nxt[u] # current
    BY ZenonT(30), <1>2 DEF RaceInv, Picks
  <2>2. \A u \in Pid : pc[u] \in Holding =>
            /\ state'[nxt[u]] = state[nxt[u]]
            /\ nxt[u] \notin Range(runqueue') /\ nxt[u] # current'
    BY Zenon, <1>1, <1>4, <1>5, <2>1
  <2>3. pc' = pc /\ nxt' = nxt
    BY Zenon, <1>1
  <2> QED BY Zenon, <2>2, <2>3, HeldKeepsPicks
<1>f. Fragiles(runqueue', pc', onstack', nxt')
  BY ZenonT(30), <1>1, OnOwnStack DEF Fragiles, FragilePcs
<1>b. Between(state', runqueue', pc', nxt')
  <2>1. c \notin Range(runqueue) /\ pc[c] \notin Readied
    BY Zenon, <1>2, <1>3 DEF Readied
  <2> QED BY ZenonT(30), <1>1, <1>4, <1>5, <2>1 DEF RaceInv, Between
<1>9. Linking(state', runqueue', pc', blocked_list', onstack')
  BY ZenonT(30), <1>1, <1>2, <1>5 DEF RaceInv, Linking
<1>10. Owns(state', runqueue', pc', current', onstack', nxt')
  BY ZenonT(30), <1>1, <1>2, <1>4, <1>5 DEF RaceInv, Owns
<1>11. Stuck(runqueue', pc', blocked_list', current')
  BY ZenonT(30), <1>1 DEF Stuck
<1>12. Pids(state', pc', next_pid')
  BY SMTT(30), <1>1, <1>2, <1>5 DEF RaceInv, RaceTypes, Pids, Pid
<1> QED BY ZenonT(30), <1>6, <1>7, <1>8, <1>f, <1>b, <1>9, <1>10, <1>11, <1>12, Primed

\* exit makes the process a zombie.
LEMMA ExitKeepsRace ==
    ASSUME RaceInv, onstack = current, ~Fragile(onstack), NEW t \in Pid, SysExit(t), onstack' = current',
           UNCHANGED nxt
    PROVE  RaceInv'
<1> DEFINE woken == WokenBy(t)
           st == [u \in Pid |-> IF u = t THEN "ZOMBIE"
                                ELSE IF u \in woken THEN "READY" ELSE state[u]]
           rq == runqueue \o AsSeq(woken)
           b == blocked_list \ woken
<1>1. /\ current = t /\ onstack = t /\ pc[t] = "run" /\ blocked_list' = b
      /\ Schedule(st, rq, pc) /\ UNCHANGED <<ppid, block_on, next_pid, nxt>>
  BY ZenonT(30) DEF SysExit, InUserMode
<1>2. /\ state \in [Pid -> States] /\ pc \in [Pid -> Pcs] /\ runqueue \in Seq(Pid)
      /\ blocked_list \subseteq Pid /\ block_on' \in [Pid -> {0}]
      /\ Range(runqueue) \subseteq Pid
  BY ZenonT(30), <1>1, RangeIsIn DEF RaceInv, RaceTypes
<1>3. /\ woken \subseteq blocked_list /\ t \notin woken
      /\ \A x, y \in woken : x = y
      /\ \A x \in woken : state[x] \notin {"NONE", "READY", "RUNNING"}
  <2>1. /\ block_on \in [Pid -> {0}] /\ ppid[t] # t /\ blocked_list \subseteq Pid
        /\ \A x \in blocked_list : state[x] \notin {"NONE", "READY", "RUNNING"}
    BY Zenon DEF RaceInv, RaceTypes, Lists
  <2>2. t # 0
    BY DEF Pid
  <2>3. \A x \in woken : x \in blocked_list /\ x = ppid[t]
    BY ZenonT(30), <2>1, <2>2 DEF WokenBy
  <2> HIDE DEF woken
  <2> QED BY Zenon, <2>1, <2>3
<1>4. /\ \A u \in Pid : pc[u] \notin FragilePcs
      /\ state[t] # "READY" /\ t \notin Range(runqueue) /\ state[t] # "NONE"
      /\ \A u \in blocked_list : pc[u] # "blk_link"
      /\ \A u \in Pid : pc[u] \in Holding => nxt[u] # t
      /\ \A u \in Pid : pc[u] \in Readied => state[u] = "READY" /\ u # t
  BY <1>1, OnOwnStack, Zenon DEF FragilePcs, Readied
<1> HIDE DEF woken
<1>5. woken \cap Range(runqueue) = {}
  BY ZenonT(30), <1>3 DEF RaceInv, Lists
<1>6. rq \in Seq(Pid) /\ NoDuplicates(rq) /\ Range(rq) = Range(runqueue) \cup woken
  <2>1. NoDuplicates(runqueue) /\ woken \in SUBSET Pid
    BY ZenonT(30), <1>2, <1>3 DEF RaceInv, Lists
  <2>2. /\ runqueue \o AsSeq(woken) \in Seq(Pid)
        /\ Range(runqueue \o AsSeq(woken)) = Range(runqueue) \cup woken
        /\ NoDuplicates(runqueue) /\ woken \cap Range(runqueue) = {}
              => NoDuplicates(runqueue \o AsSeq(woken))
    BY <1>2, <1>3, <2>1, WakeFacts, Zenon
  <2> QED BY <1>5, <2>1, <2>2, Zenon
<1>7. /\ st \in [Pid -> States]
      /\ \A u \in Pid : st[u] = IF u = t THEN "ZOMBIE"
                                 ELSE IF u \in woken THEN "READY" ELSE state[u]
  BY ZenonT(30), <1>2 DEF States
<1> HIDE DEF st, rq
<1>8. Lists(st, rq, b)
  BY ZenonT(30), <1>2, <1>3, <1>4, <1>6, <1>7 DEF RaceInv, Lists
<1>9. Picks(st, rq, pc, current, nxt)
  <2>1. \A u \in Pid : pc[u] \in Holding => /\ nxt[u] \in Pid /\ nxt[u] # t
                                             /\ nxt[u] \notin woken /\ nxt[u] \notin Range(rq)
    BY ZenonT(30), <1>3, <1>4, <1>6 DEF RaceInv, Picks
  <2> QED BY ZenonT(30), <1>7, <2>1 DEF RaceInv, Picks
<1>b. Between(st, rq, pc, nxt)
  <2>1. \A u \in Pid : pc[u] \in Readied => u # t /\ u \notin woken
    BY ZenonT(30), <1>3, <1>4
  <2> QED BY ZenonT(30), <1>6, <1>7, <2>1 DEF RaceInv, Between
<1>10. Linking(st, rq, pc, b, current)
  BY ZenonT(30), <1>1, <1>3, <1>4, <1>7 DEF RaceInv, Linking
<1>11. Owns(st, rq, pc, current, current, nxt)
  <2>1. \A u \in Pid : pc[u] # "sched_current"
    BY Zenon, <1>4 DEF FragilePcs
  <2> QED BY ZenonT(30), <1>1, <1>7, <2>1 DEF Owns
<1>12. Pids(st, pc, next_pid)
  BY ZenonT(30), <1>3, <1>4, <1>7 DEF RaceInv, Pids
<1>13. b \in SUBSET Pid
  BY ZenonT(30), <1>2
<1> HIDE DEF b
<1> QED BY ZenonT(30), <1>1, <1>2, <1>4, <1>b, <1>6, <1>7, <1>8, <1>9, <1>10, <1>11, <1>12, <1>13, SwitchKeepsInv

\* wait4 unlinks a zombie.
LEMMA ReapKeepsRace ==
    ASSUME RaceInv, onstack = current, ~Fragile(onstack), NEW t \in Pid, current = t, pc[t] \in {"run", "find"},
           NEW w, ZombiesOf(t, w) # {}, Reap(t, w), onstack' = current', UNCHANGED nxt
    PROVE  RaceInv'
<1> DEFINE z == TaskFindZombie(t, w)
<1>1. z \in Pid /\ state[z] = "ZOMBIE" /\ z # t
  <2>1. ZombiesOf(t, w) \in SUBSET Pid
    BY ZenonT(30) DEF ZombiesOf
  <2>2. \E y \in ZombiesOf(t, w) : \A x \in ZombiesOf(t, w) : x <= y
    BY Zenon, <2>1, LargestExists, SchedAssumption DEF Pid
  <2>3. z \in ZombiesOf(t, w)
    BY ZenonT(30), <2>2 DEF TaskFindZombie
  <2> QED BY ZenonT(30), <2>3 DEF ZombiesOf, RaceInv, RaceTypes
<1>2. /\ state' = [state EXCEPT ![z] = "DEAD"] /\ pc' = [pc EXCEPT ![t] = "run"]
      /\ UNCHANGED <<ppid, block_on, runqueue, blocked_list, current, next_pid, nxt, onstack>>
  BY ZenonT(30) DEF Reap
<1> HIDE DEF z
<1>3. /\ state'[z] = "DEAD" /\ \A u \in Pid \ {z} : state'[u] = state[u]
      /\ pc'[t] = "run" /\ \A u \in Pid \ {t} : pc'[u] = pc[u]
  BY ZenonT(30), <1>1, <1>2 DEF RaceInv, RaceTypes
<1>4. Range(runqueue) \subseteq Pid /\ blocked_list \subseteq Pid
  BY ZenonT(30), RangeIsIn DEF RaceInv, RaceTypes
<1>5. RaceTypes'
  BY ZenonT(30), <1>1, <1>2 DEF RaceInv, RaceTypes, States, Pcs
<1>6. Lists(state', runqueue', blocked_list')
  BY ZenonT(30), <1>1, <1>2, <1>3, <1>4 DEF RaceInv, Lists
<1>7. Picks(state', runqueue', pc', current', nxt')
  <2>1. \A u \in Pid : pc'[u] \in Holding => u # t /\ pc[u] \in Holding /\ pc'[u] = pc[u]
    BY Zenon, <1>3 DEF Holding
  <2>2. \A u \in Pid : pc[u] \in Holding =>
            /\ nxt[u] \in Pid /\ nxt[u] # z /\ nxt[u] \notin Range(runqueue) /\ nxt[u] # current
    BY ZenonT(30), <1>1 DEF RaceInv, Picks
  <2>3. \A u \in Pid : pc[u] \in Holding =>
            /\ state'[nxt[u]] = state[nxt[u]]
            /\ nxt[u] \notin Range(runqueue') /\ nxt[u] # current'
    BY Zenon, <1>2, <1>3, <2>2
  <2> QED BY Zenon, <1>2, <2>1, <2>3, HeldKeepsPicks
<1>b. Fragiles(runqueue', pc', onstack', nxt') /\ Between(state', runqueue', pc', nxt')
  <2>1. onstack = t /\ pc[t] \notin FragilePcs /\ pc'[t] \notin FragilePcs \cup Holding
    BY Zenon, <1>3 DEF FragilePcs, Holding
  <2>2. \A u \in Pid \ {t} : state[u] = "READY" => state'[u] = "READY"
    BY Zenon, <1>1, <1>3
  <2> QED BY ZenonT(30), <1>2, <1>3, <2>1, <2>2, OthersKeepBetween
<1>8. Linking(state', runqueue', pc', blocked_list', onstack')
  BY ZenonT(30), <1>1, <1>2, <1>3 DEF RaceInv, Linking
<1>9. Owns(state', runqueue', pc', current', onstack', nxt')
  <2>1. state[t] # "READY" /\ \A u \in Pid : pc[u] # "sched_current"
    BY ZenonT(30), OnOwnStack DEF FragilePcs
  <2>2. \A u \in Pid : pc'[u] # "sched_current"
    BY Zenon, <1>3, <2>1
  <2> QED BY ZenonT(30), <1>1, <1>2, <1>3, <2>1, <2>2 DEF RaceInv, Owns
<1>10. Stuck(runqueue', pc', blocked_list', current')
  BY ZenonT(30), <1>2, <1>3 DEF Stuck
<1>11. Pids(state', pc', next_pid')
  BY ZenonT(30), <1>1, <1>2, <1>3 DEF RaceInv, Pids
<1> QED BY ZenonT(30), <1>5, <1>6, <1>7, <1>b, <1>8, <1>9, <1>10, <1>11, Primed

\* wait4 unlinks a zombie or goes to sleep.
LEMMA Wait4KeepsRace ==
    ASSUME RaceInv, onstack = current, ~Fragile(onstack), NEW t \in Pid, NEW w, Wait4Once(t, w),
           onstack' = current', UNCHANGED nxt
    PROVE  RaceInv'
<1>1. current = t /\ onstack = t /\ t \in User /\ pc[t] = "run"
  BY ZenonT(30) DEF Wait4Once, Wait4, InUserMode
<1>2. CASE ZombiesOf(t, w) # {} /\ Reap(t, w)
  BY ZenonT(30), <1>1, <1>2, ReapKeepsRace
<1>3. CASE /\ ZombiesOf(t, w) = {}
           /\ block_on' = [block_on EXCEPT ![t] = 0]
           /\ blocked_list' = blocked_list \cup {t}
           /\ Schedule([state EXCEPT ![t] = "BLOCKED"], runqueue, [pc EXCEPT ![t] = "find"])
           /\ UNCHANGED <<ppid, next_pid, ticks, need_resched>>
  <2> DEFINE st == [state EXCEPT ![t] = "BLOCKED"]
             p == [pc EXCEPT ![t] = "find"]
             b == blocked_list \cup {t}
  <2>1. /\ state \in [Pid -> States] /\ pc \in [Pid -> Pcs] /\ runqueue \in Seq(Pid)
        /\ blocked_list \subseteq Pid /\ block_on' \in [Pid -> {0}]
        /\ Range(runqueue) \subseteq Pid
    BY SMTT(30), <1>1, <1>3, RangeIsIn DEF RaceInv, RaceTypes
  <2>2. /\ \A u \in Pid : pc[u] \notin FragilePcs
        /\ state[t] # "READY" /\ t \notin Range(runqueue) /\ state[t] # "NONE"
        /\ \A u \in blocked_list : pc[u] # "blk_link"
        /\ \A u \in Pid : pc[u] \in Holding => nxt[u] # t
    BY <1>1, OnOwnStack, Zenon DEF FragilePcs
  <2>3. /\ st \in [Pid -> States] /\ p \in [Pid -> Pcs] /\ b \in SUBSET Pid
        /\ st[t] = "BLOCKED" /\ \A u \in Pid \ {t} : st[u] = state[u]
        /\ p[t] = "find" /\ \A u \in Pid \ {t} : p[u] = pc[u]
    BY ZenonT(30), <2>1 DEF States, Pcs
  <2>4. Schedule(st, runqueue, p) /\ blocked_list' = b /\ UNCHANGED <<ppid, next_pid, nxt>>
    BY ZenonT(30), <1>3
  <2> HIDE DEF st, p
  <2>5. Lists(st, runqueue, b)
    BY ZenonT(30), <2>1, <2>2, <2>3 DEF RaceInv, Lists
  <2>6. Picks(st, runqueue, p, current, nxt)
    <3>1. \A u \in Pid : p[u] \in Holding => u # t /\ pc[u] \in Holding /\ p[u] = pc[u]
      BY Zenon, <2>3 DEF Holding
    <3> QED BY ZenonT(30), <2>2, <2>3, <3>1 DEF RaceInv, Picks
  <2>f. \A u \in Pid : p[u] \notin FragilePcs
    BY Zenon, <2>2, <2>3 DEF FragilePcs
  <2>b. Between(st, runqueue, p, nxt)
    <3>1. \A u \in Pid : p[u] \in Holding => u # t /\ pc[u] \in Holding /\ p[u] = pc[u]
      BY Zenon, <2>3 DEF Holding
    <3>2. \A u \in Pid : p[u] \in Readied => u # t /\ pc[u] \in Readied
      BY Zenon, <2>3 DEF Readied
    <3> QED BY ZenonT(30), <2>3, <3>1, <3>2 DEF RaceInv, Between
  <2>7. Linking(st, runqueue, p, b, current)
    BY ZenonT(30), <2>2, <2>3 DEF RaceInv, Linking
  <2>8. Owns(st, runqueue, p, current, current, nxt)
    <3>1. \A u \in Pid : p[u] # "sched_current"
      BY Zenon, <2>f DEF FragilePcs
    <3> QED BY ZenonT(30), <1>1, <2>3, <3>1 DEF Owns
  <2>9. Pids(st, p, next_pid)
    BY ZenonT(30), <2>1, <2>2, <2>3 DEF RaceInv, Pids
  <2> HIDE DEF b
  <2> QED BY ZenonT(30), <2>1, <2>3, <2>4, <2>5, <2>6, <2>f, <2>b, <2>7, <2>8, <2>9, SwitchKeepsInv
<1> QED BY <1>2, <1>3, Zenon DEF Wait4Once, Wait4

\* A sleeper that was woken looks again.
LEMMA RewaitKeepsRace ==
    ASSUME RaceInv, onstack = current, ~Fragile(onstack), NEW t \in Pid, Rewait(t), onstack' = current',
           UNCHANGED nxt
    PROVE  RaceInv'
<1>1. current = t /\ onstack = t /\ pc[t] = "find"
  BY ZenonT(30) DEF Rewait
<1>2. CASE ZombiesOf(t, want[t]) # {} /\ Reap(t, want[t])
  BY ZenonT(30), <1>1, <1>2, ReapKeepsRace
<1>3. CASE /\ pc' = [pc EXCEPT ![t] = "blk_state"]
           /\ UNCHANGED <<state, ppid, block_on, runqueue, blocked_list, current, next_pid>>
  <2>1. pc'[t] = "blk_state" /\ \A u \in Pid \ {t} : pc'[u] = pc[u]
    BY ZenonT(30), <1>3 DEF RaceInv, RaceTypes
  <2>2. onstack' = onstack
    BY ZenonT(30), <1>1, <1>3
  <2>3. RaceTypes'
    BY ZenonT(30), <1>3, <2>2 DEF RaceInv, RaceTypes, Pcs
  <2>4. Lists(state', runqueue', blocked_list')
    BY ZenonT(30), <1>3 DEF RaceInv, Lists
  <2>5. Picks(state', runqueue', pc', current', nxt')
    BY ZenonT(30), <1>3, <2>1 DEF RaceInv, Picks, Holding
  <2>b. Fragiles(runqueue', pc', onstack', nxt') /\ Between(state', runqueue', pc', nxt')
    <3>1. pc[t] \notin FragilePcs /\ pc'[t] \notin FragilePcs \cup Holding
      BY Zenon, <1>1, <2>1 DEF FragilePcs, Holding
    <3> QED BY ZenonT(30), <1>1, <1>3, <2>1, <3>1, OthersKeepBetween
  <2>6. Linking(state', runqueue', pc', blocked_list', onstack')
    BY ZenonT(30), <1>3, <2>1, <2>2 DEF RaceInv, Linking
  <2>7. Owns(state', runqueue', pc', current', onstack', nxt')
    <3>1. state[t] # "READY" /\ \A u \in Pid : pc[u] # "sched_current"
      BY ZenonT(30), <1>1, OnOwnStack DEF FragilePcs
    <3>2. \A u \in Pid : pc'[u] # "sched_current"
      BY Zenon, <2>1, <3>1
    <3> QED BY ZenonT(30), <1>1, <1>3, <2>2, <3>1, <3>2 DEF RaceInv, Owns
  <2>8. Stuck(runqueue', pc', blocked_list', current')
    BY ZenonT(30), <1>1, <1>3 DEF RaceInv, Stuck
  <2>9. Pids(state', pc', next_pid')
    BY ZenonT(30), <1>1, <1>3, <2>1 DEF RaceInv, Pids
  <2> QED BY ZenonT(30), <2>3, <2>4, <2>5, <2>b, <2>6, <2>7, <2>8, <2>9, Primed
<1> QED BY <1>2, <1>3, Zenon DEF Rewait

-----------------------------------------------------------------------------
(* The statements of task_block_any and schedule with interrupts on.        *)
LEMMA BlockStateKeepsRace == ASSUME RaceInv, NEW t \in Pid, BlockState(t) PROVE RaceInv'
<1>1. /\ onstack = t /\ pc[t] = "blk_state"
      /\ state' = [state EXCEPT ![t] = "BLOCKED"] /\ pc' = [pc EXCEPT ![t] = "blk_link"]
      /\ block_on' = [block_on EXCEPT ![t] = 0]
      /\ UNCHANGED <<ppid, runqueue, blocked_list, current, next_pid, nxt, onstack>>
  BY ZenonT(30) DEF BlockState, At, Goto
<1>2. /\ current = t /\ state[t] # "READY" /\ t \notin Range(runqueue) /\ state[t] # "NONE"
      /\ \A u \in Pid : pc[u] \in Holding => nxt[u] # t
  BY ZenonT(30), <1>1, OnOwnStack DEF FragilePcs
<1>3. /\ state'[t] = "BLOCKED" /\ \A u \in Pid \ {t} : state'[u] = state[u]
      /\ pc'[t] = "blk_link" /\ \A u \in Pid \ {t} : pc'[u] = pc[u]
      /\ Range(runqueue) \subseteq Pid /\ blocked_list \subseteq Pid
  BY ZenonT(30), <1>1, RangeIsIn DEF RaceInv, RaceTypes
<1>4. RaceTypes'
  BY ZenonT(30), <1>1 DEF RaceInv, RaceTypes, States, Pcs
<1>5. Lists(state', runqueue', blocked_list')
  BY ZenonT(30), <1>1, <1>2, <1>3 DEF RaceInv, Lists
<1>6. Picks(state', runqueue', pc', current', nxt')
  <2>1. \A u \in Pid : pc'[u] \in Holding => u # t /\ pc[u] \in Holding /\ pc'[u] = pc[u]
    BY Zenon, <1>3 DEF Holding
  <2>2. \A u \in Pid : pc[u] \in Holding =>
            nxt[u] \in Pid /\ nxt[u] # t /\ nxt[u] \notin Range(runqueue) /\ nxt[u] # current
    BY ZenonT(30), <1>2 DEF RaceInv, Picks
  <2>3. \A u \in Pid : pc[u] \in Holding =>
            /\ state'[nxt[u]] = state[nxt[u]]
            /\ nxt[u] \notin Range(runqueue') /\ nxt[u] # current'
    BY Zenon, <1>1, <1>3, <2>2
  <2> QED BY Zenon, <1>1, <2>1, <2>3, HeldKeepsPicks
<1>b. Fragiles(runqueue', pc', onstack', nxt') /\ Between(state', runqueue', pc', nxt')
  <2>1. pc[t] \notin FragilePcs /\ pc'[t] \notin FragilePcs \cup Holding
    BY Zenon, <1>1, <1>3 DEF FragilePcs, Holding
  <2> QED BY ZenonT(30), <1>1, <1>3, <2>1, OthersKeepBetween
<1>7. Linking(state', runqueue', pc', blocked_list', onstack')
  BY ZenonT(30), <1>1, <1>2, <1>3 DEF RaceInv, Linking, Stuck
<1>8. Owns(state', runqueue', pc', current', onstack', nxt')
  BY ZenonT(30), <1>1, <1>2, <1>3 DEF RaceInv, Owns
<1>9. Stuck(runqueue', pc', blocked_list', current')
  BY ZenonT(30), <1>1, <1>2 DEF RaceInv, Stuck
<1>10. Pids(state', pc', next_pid')
  BY ZenonT(30), <1>1, <1>2, <1>3 DEF RaceInv, Pids
<1> QED BY ZenonT(30), <1>4, <1>5, <1>6, <1>b, <1>7, <1>8, <1>9, <1>10, Primed

\* task_block_any links the task into blocked_list.
LEMMA BlockLinkKeepsRace == ASSUME RaceInv, NEW t \in Pid, BlockLink(t) PROVE RaceInv'
<1>1. /\ onstack = t /\ pc[t] = "blk_link" /\ blocked_list' = blocked_list \cup {t}
      /\ pc' = [pc EXCEPT ![t] = "sched_entry"]
      /\ UNCHANGED <<state, ppid, block_on, runqueue, current, next_pid, nxt, onstack>>
  BY ZenonT(30) DEF BlockLink, At, Goto
<1>2. current = t /\ state[t] = "BLOCKED"
  BY ZenonT(30), <1>1, OnOwnStack DEF RaceInv, Linking, FragilePcs
<1>3. pc'[t] = "sched_entry" /\ \A u \in Pid \ {t} : pc'[u] = pc[u]
  BY ZenonT(30), <1>1 DEF RaceInv, RaceTypes
<1>4. RaceTypes'
  BY ZenonT(30), <1>1 DEF RaceInv, RaceTypes, Pcs
<1>5. Lists(state', runqueue', blocked_list')
  BY Zenon, <1>1, <1>2 DEF RaceInv, Lists
<1>6. Picks(state', runqueue', pc', current', nxt')
  <2>1. \A u \in Pid : pc'[u] \in Holding => pc[u] \in Holding /\ pc'[u] = pc[u]
    BY Zenon, <1>3 DEF Holding
  <2> QED BY ZenonT(30), <1>1, <2>1 DEF RaceInv, Picks
<1>b. Fragiles(runqueue', pc', onstack', nxt') /\ Between(state', runqueue', pc', nxt')
  <2>1. pc[t] \notin FragilePcs /\ pc'[t] \notin FragilePcs \cup Holding
    BY Zenon, <1>1, <1>3 DEF FragilePcs, Holding
  <2> QED BY ZenonT(30), <1>1, <1>3, <2>1, OthersKeepBetween
<1>7. Linking(state', runqueue', pc', blocked_list', onstack')
  BY ZenonT(30), <1>1, <1>3 DEF RaceInv, Linking
<1>8. Owns(state', runqueue', pc', current', onstack', nxt')
  BY ZenonT(30), <1>1, <1>2, <1>3 DEF RaceInv, Owns
<1>9. Stuck(runqueue', pc', blocked_list', current')
  BY ZenonT(30), <1>1, <1>2, <1>3 DEF RaceInv, Stuck
<1>10. Pids(state', pc', next_pid')
  BY ZenonT(30), <1>1, <1>3 DEF RaceInv, Pids
<1> QED BY <1>4, <1>5, <1>6, <1>b, <1>7, <1>8, <1>9, <1>10, Primed

\* dequeue reads the head of the run queue, or schedule returns.
LEMMA ReadHeadKeepsRace == ASSUME RaceInv, NEW t \in Pid, ReadHead(t) PROVE RaceInv'
<1>1. /\ onstack = t /\ pc[t] = "sched_entry"
      /\ UNCHANGED <<state, ppid, block_on, runqueue, blocked_list, current, next_pid, onstack>>
  BY ZenonT(30) DEF ReadHead, At
<1>2. /\ current = t /\ state[t] # "READY" /\ t \notin Range(runqueue)
      /\ \A u \in Pid : pc[u] \notin FragilePcs
      /\ \A u \in blocked_list : pc[u] # "blk_link"
  BY ZenonT(30), <1>1, OnOwnStack DEF FragilePcs
<1>3. Lists(state', runqueue', blocked_list')
  BY ZenonT(30), <1>1 DEF RaceInv, Lists
<1>4. CASE runqueue = <<>> /\ Goto(t, Caller(t)) /\ UNCHANGED nxt
  <2>1. /\ pc' \in [Pid -> Pcs]
        /\ pc'[t] = Caller(t) /\ \A u \in Pid \ {t} : pc'[u] = pc[u]
        /\ Caller(t) \in {"run", "find"}
    BY ZenonT(30), <1>4 DEF RaceInv, RaceTypes, Goto, Caller, Pcs
  <2>2. RaceTypes'
    BY ZenonT(30), <1>1, <1>4, <2>1 DEF RaceInv, RaceTypes
  <2>3. Picks(state', runqueue', pc', current', nxt')
    <3>1. \A u \in Pid : pc'[u] \in Holding => pc[u] \in Holding /\ pc'[u] = pc[u]
      BY Zenon, <2>1 DEF Holding
    <3> QED BY ZenonT(30), <1>1, <1>4, <3>1 DEF RaceInv, Picks
  <2>b. Fragiles(runqueue', pc', onstack', nxt') /\ Between(state', runqueue', pc', nxt')
    <3>1. pc[t] \notin FragilePcs /\ pc'[t] \notin FragilePcs \cup Holding
      BY Zenon, <1>1, <2>1 DEF FragilePcs, Holding
    <3> QED BY ZenonT(30), <1>1, <1>4, <2>1, <3>1, OthersKeepBetween
  <2>4. Linking(state', runqueue', pc', blocked_list', onstack')
    BY ZenonT(30), <1>1, <2>1 DEF RaceInv, Linking
  <2>5. Owns(state', runqueue', pc', current', onstack', nxt')
    <3>1. \A u \in Pid : pc'[u] # "sched_current"
      BY Zenon, <1>2, <2>1 DEF FragilePcs
    <3> QED BY ZenonT(30), <1>1, <1>2, <3>1 DEF RaceInv, Owns
  <2>6. Stuck(runqueue', pc', blocked_list', current')
    BY ZenonT(30), <1>1, <1>4 DEF Stuck
  <2>7. Pids(state', pc', next_pid')
    BY ZenonT(30), <1>1, <2>1 DEF RaceInv, Pids
  <2> QED BY <1>3, <2>2, <2>3, <2>b, <2>4, <2>5, <2>6, <2>7, Primed
<1>5. CASE /\ runqueue # <<>>
           /\ nxt' = [nxt EXCEPT ![t] = Head(runqueue)]
           /\ Goto(t, "sched_head")
  <2>1. Head(runqueue) \in Pid
    BY <1>5 DEF RaceInv, RaceTypes
  <2>2. /\ pc' \in [Pid -> Pcs] /\ nxt' \in [Pid -> {NoTask} \cup Pid]
        /\ pc'[t] = "sched_head" /\ \A u \in Pid \ {t} : pc'[u] = pc[u]
        /\ nxt'[t] = Head(runqueue) /\ \A u \in Pid \ {t} : nxt'[u] = nxt[u]
    BY ZenonT(30), <1>5, <2>1 DEF RaceInv, RaceTypes, Goto, Pcs
  <2>3. /\ \A u \in Pid : pc'[u] \in Holding => u # t /\ pc[u] \in Holding /\ pc'[u] = pc[u] /\ nxt'[u] = nxt[u]
        /\ \A u \in Pid : pc'[u] \in Readied => pc[u] \in Readied
        /\ \A u \in Pid : pc'[u] \in FragilePcs => u = t
        /\ \A u \in Pid : pc'[u] # "sched_current"
    BY ZenonT(30), <1>2, <2>2 DEF Holding, Readied, FragilePcs
  <2>4. RaceTypes'
    BY ZenonT(30), <1>1, <2>2 DEF RaceInv, RaceTypes
  <2>5. Picks(state', runqueue', pc', current', nxt')
    BY ZenonT(30), <1>1, <2>3 DEF RaceInv, Picks
  <2>6. Fragiles(runqueue', pc', onstack', nxt')
    BY ZenonT(30), <1>1, <1>5, <2>2, <2>3 DEF Fragiles
  <2>7. Between(state', runqueue', pc', nxt')
    BY ZenonT(30), <1>1, <2>3 DEF RaceInv, Between
  <2>8. Linking(state', runqueue', pc', blocked_list', onstack')
    BY ZenonT(30), <1>1, <1>2, <2>2 DEF RaceInv, Linking
  <2>9. Owns(state', runqueue', pc', current', onstack', nxt')
    BY ZenonT(30), <1>1, <1>2, <2>3 DEF RaceInv, Owns
  <2>10. Stuck(runqueue', pc', blocked_list', current')
    BY ZenonT(30), <1>1, <1>2, <2>2 DEF Stuck
  <2>11. Pids(state', pc', next_pid')
    BY ZenonT(30), <1>1, <2>2 DEF RaceInv, Pids
  <2> QED BY <1>3, <2>4, <2>5, <2>6, <2>7, <2>8, <2>9, <2>10, <2>11, Primed
<1> QED BY <1>4, <1>5, Zenon DEF ReadHead

\* dequeue takes the head it read off the run queue.
LEMMA DequeueKeepsRace == ASSUME RaceInv, NEW t \in Pid, Dequeue(t) PROVE RaceInv'
<1> DEFINE n == nxt[t]
<1>1. /\ onstack = t /\ pc[t] = "sched_head" /\ runqueue' = Tail(runqueue)
      /\ pc' = [pc EXCEPT ![t] = "sched_picked"]
      /\ UNCHANGED <<state, ppid, block_on, blocked_list, current, next_pid, nxt, onstack>>
  BY ZenonT(30) DEF Dequeue, At, Goto
<1>2. runqueue # <<>> /\ n = Head(runqueue)
  BY Zenon, <1>1 DEF RaceInv, Fragiles, FragilePcs
<1>3. /\ current = t /\ state[t] # "READY"
      /\ \A u \in Pid \ {t} : pc[u] \notin FragilePcs
  <2>1. current = t
    BY Zenon, <1>1 DEF RaceInv, Owns
  <2>2. state[t] # "READY"
    BY Zenon, <1>1, <2>1 DEF RaceInv, Owns, Readied
  <2> QED BY Zenon, <1>1, <2>1, <2>2 DEF RaceInv, Fragiles
<1>4. /\ Head(runqueue) \in Pid /\ Head(runqueue) \in Range(runqueue) /\ runqueue' \in Seq(Pid)
      /\ NoDuplicates(runqueue') /\ Range(runqueue') = Range(runqueue) \ {Head(runqueue)}
  BY ZenonT(30), <1>1, <1>2, TailFacts DEF RaceInv, RaceTypes, Lists
<1>5. /\ pc' \in [Pid -> Pcs]
      /\ pc'[t] = "sched_picked" /\ \A u \in Pid \ {t} : pc'[u] = pc[u]
  BY ZenonT(30), <1>1 DEF RaceInv, RaceTypes, Pcs
<1>6. n \in Range(runqueue) /\ n \in Pid /\ n \notin Range(runqueue') /\ Range(runqueue') \subseteq Range(runqueue)
  BY Zenon, <1>2, <1>4
<1> HIDE DEF n
<1>7. n # t /\ state[n] = "READY"
  BY ZenonT(30), <1>3, <1>6 DEF RaceInv, Lists
<1>8. /\ \A u \in Pid : pc'[u] \in Holding => u = t \/ (pc[u] \in Holding /\ pc'[u] = pc[u])
      /\ \A u \in Pid : pc'[u] \in Readied => u # t /\ pc[u] \in Readied
      /\ \A u \in Pid : pc'[u] \notin FragilePcs
  BY ZenonT(30), <1>3, <1>5 DEF Holding, Readied, FragilePcs
<1>9. RaceTypes'
  BY ZenonT(30), <1>1, <1>4, <1>5 DEF RaceInv, RaceTypes
<1>10. Lists(state', runqueue', blocked_list')
  BY ZenonT(30), <1>1, <1>4, <1>6 DEF RaceInv, Lists
<1>11. Picks(state', runqueue', pc', current', nxt')
  <2>1. /\ Picks(state, runqueue, pc, current, nxt)
        /\ state' = state /\ nxt' = nxt /\ current' = t /\ nxt[t] = n
    BY <1>1, <1>3 DEF RaceInv, n
  <2>2. \A u \in Pid : u # t /\ pc'[u] \in Holding =>
            /\ nxt[u] # n /\ nxt[u] \in Pid /\ nxt[u] # u /\ nxt[u] # t
            /\ state[nxt[u]] \in {"READY", "RUNNING"} /\ nxt[u] \notin Range(runqueue')
            /\ pc'[u] = "sched_running" => state[nxt[u]] = "RUNNING"
    BY ZenonT(30), <1>3, <1>6, <1>8, <2>1 DEF Picks
  <2>3. \A u, v \in Pid : (/\ u # t /\ v # t /\ pc'[u] \in Holding /\ pc'[v] \in Holding
                           /\ nxt[u] = nxt[v]) => u = v
    BY ZenonT(30), <1>8, <2>1 DEF Picks
  <2> QED BY ZenonT(30), <1>5, <1>6, <1>7, <2>1, <2>2, <2>3 DEF Picks
<1>12. Fragiles(runqueue', pc', onstack', nxt')
  BY Zenon, <1>8 DEF Fragiles
<1>13. Between(state', runqueue', pc', nxt')
  <2>1. Between(state, runqueue, pc, nxt) /\ state' = state /\ nxt' = nxt /\ nxt[t] = n
    BY <1>1 DEF RaceInv, n
  <2>2. \A u \in Pid : pc[u] \in Readied => u # n
    BY Zenon, <1>6, <2>1 DEF Between
  <2> QED BY ZenonT(30), <1>6, <1>8, <2>1, <2>2 DEF Between
<1>14. Linking(state', runqueue', pc', blocked_list', onstack')
  <2>1. \A u \in Pid : pc[u] = "blk_link" => u \notin blocked_list
    BY Zenon, <1>1 DEF RaceInv, Linking
  <2> QED BY ZenonT(30), <1>1, <1>5, <2>1 DEF RaceInv, Linking
<1>15. Owns(state', runqueue', pc', current', onstack', nxt')
  <2>1. \A u \in Pid : pc'[u] # "sched_current"
    BY Zenon, <1>8 DEF FragilePcs
  <2> QED BY ZenonT(30), <1>1, <1>3, <2>1 DEF RaceInv, Owns
<1>16. Stuck(runqueue', pc', blocked_list', current')
  BY ZenonT(30), <1>1, <1>3, <1>5 DEF Stuck
<1>17. Pids(state', pc', next_pid')
  BY ZenonT(30), <1>1, <1>5 DEF RaceInv, Pids
<1> QED BY <1>9, <1>10, <1>11, <1>12, <1>13, <1>14, <1>15, <1>16, <1>17, Primed

\* schedule makes the task that was running READY.
LEMMA RequeueKeepsRace == ASSUME RaceInv, NEW t \in Pid, Requeue(t) PROVE RaceInv'
<1> DEFINE l == pc'[t]
<1>1. /\ onstack = t /\ pc[t] = "sched_picked"
      /\ UNCHANGED <<ppid, block_on, runqueue, blocked_list, current, next_pid, nxt, onstack>>
  BY ZenonT(30) DEF Requeue, At, Goto
<1>2. /\ current = t /\ state[t] # "READY" /\ t \notin Range(runqueue) /\ state[t] # "NONE"
      /\ \A u \in Pid : pc[u] \notin FragilePcs
      /\ \A u \in blocked_list : pc[u] # "blk_link"
      /\ \A u \in Pid : pc[u] \in Holding => nxt[u] # t
  BY ZenonT(30), <1>1, OnOwnStack DEF FragilePcs
<1>3. \/ /\ state[t] = "RUNNING" /\ state' = [state EXCEPT ![t] = "READY"]
         /\ pc' = [pc EXCEPT ![t] = "sched_ready"]
      \/ /\ state[t] # "RUNNING" /\ state' = state /\ pc' = [pc EXCEPT ![t] = "sched_requeued"]
  BY ZenonT(30) DEF Requeue, Goto
<1>4. /\ state' \in [Pid -> States] /\ pc' \in [Pid -> Pcs]
      /\ \A u \in Pid \ {t} : pc'[u] = pc[u] /\ state'[u] = state[u]
      /\ \/ l = "sched_ready" /\ state[t] = "RUNNING" /\ state'[t] = "READY"
         \/ l = "sched_requeued" /\ state'[t] = state[t]
      /\ Range(runqueue) \subseteq Pid /\ blocked_list \subseteq Pid
  <2>1. /\ state \in [Pid -> States] /\ pc \in [Pid -> Pcs]
        /\ Range(runqueue) \subseteq Pid /\ blocked_list \subseteq Pid
    BY ZenonT(30), RangeIsIn DEF RaceInv, RaceTypes
  <2>2. "READY" \in States /\ "sched_ready" \in Pcs /\ "sched_requeued" \in Pcs
    BY Zenon DEF States, Pcs
  <2> QED BY ZenonT(30), <1>3, <2>1, <2>2
<1> HIDE DEF l
<1>5. pc'[t] = l
  BY Zenon DEF l
<1>6. /\ \A u \in Pid : pc'[u] \in Holding => pc[u] \in Holding
      /\ \A u \in Pid : pc'[u] = "sched_running" => pc[u] = "sched_running"
      /\ \A u \in Pid : pc'[u] \in Readied => pc[u] \in Readied \/ (u = t /\ l = "sched_ready")
      /\ \A u \in Pid : pc'[u] \notin FragilePcs
  BY ZenonT(30), <1>1, <1>2, <1>4, <1>5 DEF Holding, Readied, FragilePcs
<1>7. RaceTypes'
  BY ZenonT(30), <1>1, <1>4 DEF RaceInv, RaceTypes
<1>8. Lists(state', runqueue', blocked_list')
  BY ZenonT(30), <1>1, <1>2, <1>4 DEF RaceInv, Lists
<1>9. Picks(state', runqueue', pc', current', nxt')
  BY ZenonT(30), <1>1, <1>2, <1>4, <1>6 DEF RaceInv, Picks
<1>10. Fragiles(runqueue', pc', onstack', nxt')
  BY Zenon, <1>6 DEF Fragiles
<1>11. Between(state', runqueue', pc', nxt')
  <2>1. \A u \in Pid : pc[u] \in Readied => u # t
    BY Zenon, <1>1 DEF Readied
  <2> QED BY ZenonT(30), <1>1, <1>2, <1>4, <1>6, <2>1 DEF RaceInv, Between
<1>12. Linking(state', runqueue', pc', blocked_list', onstack')
  BY ZenonT(30), <1>1, <1>2, <1>4, <1>5 DEF RaceInv, Linking
<1>13. Owns(state', runqueue', pc', current', onstack', nxt')
  <2>1. \A u \in Pid : pc'[u] # "sched_current"
    BY Zenon, <1>6 DEF FragilePcs
  <2>2. state'[t] = "READY" => pc'[t] \in Readied
    BY Zenon, <1>2, <1>4, <1>5 DEF Readied
  <2> QED BY ZenonT(30), <1>1, <1>2, <1>4, <2>1, <2>2 DEF Owns
<1>14. Stuck(runqueue', pc', blocked_list', current')
  BY ZenonT(30), <1>1, <1>2, <1>4, <1>5 DEF Stuck
<1>15. Pids(state', pc', next_pid')
  BY ZenonT(30), <1>1, <1>2, <1>4 DEF RaceInv, Pids
<1> QED BY <1>7, <1>8, <1>9, <1>10, <1>11, <1>12, <1>13, <1>14, <1>15, Primed

\* sched_enqueue links it behind the last task.
LEMMA EnqueueLinkKeepsRace == ASSUME RaceInv, NEW t \in Pid, EnqueueLink(t) PROVE RaceInv'
<1>1. /\ onstack = t /\ pc[t] = "sched_ready" /\ pc' = [pc EXCEPT ![t] = "sched_link"]
      /\ UNCHANGED <<state, ppid, block_on, runqueue, blocked_list, current, next_pid, nxt, onstack>>
  BY ZenonT(30) DEF EnqueueLink, At, Goto
<1>2. /\ current = t
      /\ \A u \in Pid : pc[u] \notin FragilePcs
      /\ \A u \in blocked_list : pc[u] # "blk_link"
  BY ZenonT(30), <1>1, OnOwnStack DEF FragilePcs
<1>3. /\ pc' \in [Pid -> Pcs] /\ pc'[t] = "sched_link"
      /\ \A u \in Pid \ {t} : pc'[u] = pc[u]
  BY ZenonT(30), <1>1 DEF RaceInv, RaceTypes, Pcs
<1>4. /\ \A u \in Pid : pc'[u] \in Holding <=> pc[u] \in Holding
      /\ \A u \in Pid : pc'[u] = "sched_running" => pc[u] = "sched_running"
      /\ \A u \in Pid : pc'[u] \in Readied <=> pc[u] \in Readied
      /\ \A u \in Pid : pc'[u] \in FragilePcs => u = t
      /\ \A u \in Pid : pc'[u] \notin {"sched_head", "sched_current"}
  BY ZenonT(30), <1>1, <1>2, <1>3 DEF Holding, Readied, FragilePcs
<1>5. RaceTypes'
  BY ZenonT(30), <1>1, <1>3 DEF RaceInv, RaceTypes
<1>6. Lists(state', runqueue', blocked_list')
  BY ZenonT(30), <1>1 DEF RaceInv, Lists
<1>7. Picks(state', runqueue', pc', current', nxt')
  BY ZenonT(30), <1>1, <1>4 DEF RaceInv, Picks
<1>8. Fragiles(runqueue', pc', onstack', nxt')
  BY Zenon, <1>1, <1>4 DEF Fragiles
<1>9. Between(state', runqueue', pc', nxt')
  BY ZenonT(30), <1>1, <1>4 DEF RaceInv, Between
<1>10. Linking(state', runqueue', pc', blocked_list', onstack')
  BY ZenonT(30), <1>1, <1>2, <1>3 DEF RaceInv, Linking
<1>11. Owns(state', runqueue', pc', current', onstack', nxt')
  <2>1. pc'[t] \in Readied
    BY Zenon, <1>3 DEF Readied
  <2> QED BY ZenonT(30), <1>1, <1>2, <1>4, <2>1 DEF RaceInv, Owns
<1>12. Stuck(runqueue', pc', blocked_list', current')
  BY ZenonT(30), <1>1, <1>2, <1>3 DEF Stuck
<1>13. Pids(state', pc', next_pid')
  BY ZenonT(30), <1>1, <1>3 DEF RaceInv, Pids
<1> QED BY <1>5, <1>6, <1>7, <1>8, <1>9, <1>10, <1>11, <1>12, <1>13, Primed

\* sched_enqueue moves the tail to it.
LEMMA EnqueueTailKeepsRace == ASSUME RaceInv, NEW t \in Pid, EnqueueTail(t) PROVE RaceInv'
<1>1. /\ onstack = t /\ pc[t] = "sched_link" /\ pc' = [pc EXCEPT ![t] = "sched_requeued"]
      /\ runqueue' = Append(runqueue, t)
      /\ UNCHANGED <<state, ppid, block_on, blocked_list, current, next_pid, nxt, onstack>>
  BY ZenonT(30) DEF EnqueueTail, At, Goto
<1>2. /\ current = t /\ state[t] = "READY" /\ t \notin Range(runqueue)
      /\ \A u \in Pid : pc[u] \in Holding => nxt[u] # t
      /\ \A u \in Pid \ {t} : pc[u] \notin FragilePcs
      /\ \A u \in blocked_list : pc[u] # "blk_link"
  <2>1. current = t
    BY Zenon, <1>1 DEF RaceInv, Owns
  <2>2. pc[t] \in Readied /\ pc[t] \in FragilePcs
    BY Zenon, <1>1 DEF Readied, FragilePcs
  <2>3. state[t] = "READY" /\ t \notin Range(runqueue) /\ \A u \in Pid : pc[u] \in Holding => nxt[u] # t
    BY Zenon, <2>2 DEF RaceInv, Between
  <2>4. \A u \in Pid \ {t} : pc[u] \notin FragilePcs
    BY Zenon, <1>1 DEF RaceInv, Fragiles
  <2>5. \A u \in blocked_list : pc[u] # "blk_link"
    BY Zenon, <1>1 DEF RaceInv, RaceTypes, Linking
  <2> QED BY Zenon, <2>1, <2>3, <2>4, <2>5
<1>3. /\ runqueue' \in Seq(Pid) /\ NoDuplicates(runqueue')
      /\ Range(runqueue') = Range(runqueue) \cup {t}
  BY SMTT(30), <1>1, <1>2, AppendFacts DEF RaceInv, RaceTypes, Lists
<1>4. /\ pc' \in [Pid -> Pcs] /\ pc'[t] = "sched_requeued"
      /\ \A u \in Pid \ {t} : pc'[u] = pc[u]
  BY ZenonT(30), <1>1 DEF RaceInv, RaceTypes, Pcs
<1>5. /\ \A u \in Pid : pc'[u] \in Holding => pc[u] \in Holding
      /\ \A u \in Pid : pc'[u] = "sched_running" => pc[u] = "sched_running"
      /\ \A u \in Pid : pc'[u] \in Readied => u # t /\ pc[u] \in Readied
      /\ \A u \in Pid : pc'[u] \notin FragilePcs
  BY ZenonT(30), <1>1, <1>2, <1>4 DEF Holding, Readied, FragilePcs
<1>6. RaceTypes'
  BY ZenonT(30), <1>1, <1>3, <1>4 DEF RaceInv, RaceTypes
<1>7. Lists(state', runqueue', blocked_list')
  BY ZenonT(30), <1>1, <1>2, <1>3 DEF RaceInv, Lists
<1>8. Picks(state', runqueue', pc', current', nxt')
  BY ZenonT(30), <1>1, <1>2, <1>3, <1>5 DEF RaceInv, Picks
<1>9. Fragiles(runqueue', pc', onstack', nxt')
  BY Zenon, <1>5 DEF Fragiles
<1>10. Between(state', runqueue', pc', nxt')
  BY ZenonT(30), <1>1, <1>3, <1>5 DEF RaceInv, Between
<1>11. Linking(state', runqueue', pc', blocked_list', onstack')
  BY ZenonT(30), <1>1, <1>2, <1>4 DEF RaceInv, Linking
<1>12. Owns(state', runqueue', pc', current', onstack', nxt')
  <2>1. \A u \in Pid : pc'[u] # "sched_current"
    BY Zenon, <1>5 DEF FragilePcs
  <2> QED BY ZenonT(30), <1>1, <1>2, <1>3, <1>4, <2>1 DEF Owns
<1>13. Stuck(runqueue', pc', blocked_list', current')
  BY ZenonT(30), <1>1, <1>2, <1>4 DEF Stuck
<1>14. Pids(state', pc', next_pid')
  BY ZenonT(30), <1>1, <1>4 DEF RaceInv, Pids
<1> QED BY <1>6, <1>7, <1>8, <1>9, <1>10, <1>11, <1>12, <1>13, <1>14, Primed

\* schedule makes the next task RUNNING.
LEMMA SetRunningKeepsRace == ASSUME RaceInv, NEW t \in Pid, SetRunning(t) PROVE RaceInv'
<1> DEFINE n == nxt[t]
<1>1. /\ onstack = t /\ pc[t] = "sched_requeued" /\ pc' = [pc EXCEPT ![t] = "sched_running"]
      /\ state' = [state EXCEPT ![n] = "RUNNING"]
      /\ UNCHANGED <<ppid, block_on, runqueue, blocked_list, current, next_pid, nxt, onstack>>
  BY ZenonT(30) DEF SetRunning, At, Goto
<1>2. /\ current = t /\ \A u \in Pid : pc[u] \notin FragilePcs
      /\ \A u \in blocked_list : pc[u] = "blk_link" => u = t
  BY ZenonT(30), <1>1, OnOwnStack DEF FragilePcs
<1>3. /\ n \in Pid /\ n # t /\ state[n] \in {"READY", "RUNNING"} /\ n \notin Range(runqueue)
      /\ n \notin blocked_list /\ \A u \in Pid : pc[u] \in Readied => u # n
  <2>1. pc[t] \in Holding
    BY Zenon, <1>1 DEF Holding
  <2> QED BY ZenonT(30), <2>1 DEF RaceInv, Picks, Lists, Between
<1>4. /\ state'[n] = "RUNNING" /\ \A u \in Pid \ {n} : state'[u] = state[u]
      /\ pc'[t] = "sched_running" /\ \A u \in Pid \ {t} : pc'[u] = pc[u]
      /\ Range(runqueue) \subseteq Pid /\ blocked_list \subseteq Pid
  BY ZenonT(30), <1>1, <1>3, RangeIsIn DEF RaceInv, RaceTypes
<1>5. RaceTypes'
  BY ZenonT(30), <1>1, <1>3 DEF RaceInv, RaceTypes, States, Pcs
<1> HIDE DEF n
<1>6. /\ \A u \in Pid : pc'[u] \in Holding => pc[u] \in Holding
      /\ \A u \in Pid : pc'[u] = "sched_running" => u = t \/ pc[u] = "sched_running"
      /\ \A u \in Pid : pc'[u] \in Readied => pc[u] \in Readied
      /\ \A u \in Pid : pc'[u] \notin FragilePcs
  BY ZenonT(30), <1>1, <1>2, <1>4 DEF Holding, Readied, FragilePcs
<1>7. Lists(state', runqueue', blocked_list')
  BY ZenonT(30), <1>1, <1>3, <1>4 DEF RaceInv, Lists
<1>8. Picks(state', runqueue', pc', current', nxt')
  <2>1. \A u \in Pid : pc[u] \in Holding =>
            state'[nxt[u]] = "RUNNING" \/ state'[nxt[u]] = state[nxt[u]]
    BY ZenonT(30), <1>4 DEF RaceInv, Picks
  <2>2. nxt[t] = n
    BY Zenon DEF n
  <2>3. Picks(state, runqueue, pc, current, nxt)
    BY Zenon DEF RaceInv
  <2>4. ASSUME NEW u \in Pid, pc'[u] \in Holding
        PROVE  /\ nxt[u] \in Pid /\ nxt[u] # u /\ nxt[u] # current
               /\ state'[nxt[u]] \in {"READY", "RUNNING"} /\ nxt[u] \notin Range(runqueue)
               /\ pc'[u] = "sched_running" => state'[nxt[u]] = "RUNNING"
    <3>1. pc[u] \in Holding
      BY Zenon, <1>6, <2>4
    <3>2. pc'[u] = "sched_running" => state'[nxt[u]] = "RUNNING"
      <4>1. CASE u = t
        BY ZenonT(30), <1>4, <2>2, <4>1
      <4>2. CASE pc[u] = "sched_running"
        <5>1. state[nxt[u]] = "RUNNING"
          BY ZenonT(30), <2>3, <3>1, <4>2 DEF Picks
        <5> QED BY ZenonT(30), <2>1, <3>1, <5>1
      <4> QED BY ZenonT(30), <1>6, <4>1, <4>2
    <3> QED BY Zenon, <2>1, <2>3, <3>1, <3>2 DEF Picks
  <2> QED BY Zenon, <1>1, <1>6, <2>3, <2>4 DEF Picks
<1>9. Fragiles(runqueue', pc', onstack', nxt')
  BY Zenon, <1>6 DEF Fragiles
<1>10. Between(state', runqueue', pc', nxt')
  <2>1. Between(state, runqueue, pc, nxt)
    BY Zenon DEF RaceInv
  <2> SUFFICES ASSUME NEW u \in Pid, pc'[u] \in Readied
               PROVE  /\ state'[u] = "READY" /\ u \notin Range(runqueue)
                      /\ \A v \in Pid : pc'[v] \in Holding => nxt[v] # u
    BY ZenonT(30), <1>1 DEF Between
  <2>2. pc[u] \in Readied /\ u # n
    BY ZenonT(30), <1>3, <1>6
  <2>3. /\ state[u] = "READY" /\ u \notin Range(runqueue)
        /\ \A v \in Pid : pc[v] \in Holding => nxt[v] # u
    BY ZenonT(30), <2>1, <2>2 DEF Between
  <2> QED BY ZenonT(30), <1>4, <1>6, <2>2, <2>3
<1>11. Linking(state', runqueue', pc', blocked_list', onstack')
  BY ZenonT(30), <1>1, <1>3, <1>4 DEF RaceInv, Linking
<1>12. Owns(state', runqueue', pc', current', onstack', nxt')
  <2>1. \A u \in Pid : pc'[u] # "sched_current"
    BY Zenon, <1>6 DEF FragilePcs
  <2>2. pc[t] \notin Readied /\ state'[t] = state[t]
    BY Zenon, <1>1, <1>3, <1>4 DEF Readied
  <2> QED BY ZenonT(30), <1>1, <1>2, <1>4, <2>1, <2>2 DEF RaceInv, Owns
<1>13. Stuck(runqueue', pc', blocked_list', current')
  BY ZenonT(30), <1>1, <1>2, <1>4 DEF Stuck
<1>14. Pids(state', pc', next_pid')
  BY ZenonT(30), <1>1, <1>3, <1>4 DEF RaceInv, Pids
<1> QED BY <1>5, <1>7, <1>8, <1>9, <1>10, <1>11, <1>12, <1>13, <1>14, Primed

\* schedule makes the next task current.
LEMMA SetCurrentKeepsRace == ASSUME RaceInv, NEW t \in Pid, SetCurrent(t) PROVE RaceInv'
<1> DEFINE n == nxt[t]
<1>1. /\ onstack = t /\ pc[t] = "sched_running" /\ pc' = [pc EXCEPT ![t] = "sched_current"]
      /\ current' = n
      /\ UNCHANGED <<state, ppid, block_on, runqueue, blocked_list, next_pid, nxt, onstack>>
  BY ZenonT(30) DEF SetCurrent, At, Goto
<1>2. /\ current = t /\ \A u \in Pid : pc[u] \notin FragilePcs
      /\ \A u \in blocked_list : pc[u] = "blk_link" => u = t
  BY ZenonT(30), <1>1, OnOwnStack DEF FragilePcs
<1>3. /\ n \in Pid /\ n # t /\ state[n] = "RUNNING" /\ n \notin blocked_list
      /\ \A u \in Pid : pc[u] \in Holding /\ nxt[u] = n => u = t
  <2>1. pc[t] \in Holding
    BY Zenon, <1>1 DEF Holding
  <2> QED BY ZenonT(30), <1>1, <2>1 DEF RaceInv, Picks, Lists
<1>4. pc'[t] = "sched_current" /\ \A u \in Pid \ {t} : pc'[u] = pc[u]
  BY ZenonT(30), <1>1 DEF RaceInv, RaceTypes
<1>5. RaceTypes'
  BY ZenonT(30), <1>1, <1>3 DEF RaceInv, RaceTypes, Pcs
<1>6. nxt'[t] = n
  BY Zenon, <1>1
<1> HIDE DEF n
<1>7. /\ \A u \in Pid : pc'[u] \in Holding => u # t /\ pc[u] \in Holding /\ pc'[u] = pc[u]
      /\ \A u \in Pid : pc'[u] \in Readied => pc[u] \in Readied
      /\ \A u \in Pid : pc'[u] \in FragilePcs => u = t
  BY ZenonT(30), <1>2, <1>4 DEF Holding, Readied, FragilePcs
<1>8. Lists(state', runqueue', blocked_list')
  BY ZenonT(30), <1>1 DEF RaceInv, Lists
<1>9. Picks(state', runqueue', pc', current', nxt')
  BY ZenonT(30), <1>1, <1>3, <1>7 DEF RaceInv, Picks
<1>10. Fragiles(runqueue', pc', onstack', nxt')
  BY ZenonT(30), <1>1, <1>4, <1>7 DEF Fragiles
<1>11. Between(state', runqueue', pc', nxt')
  BY ZenonT(30), <1>1, <1>7 DEF RaceInv, Between
<1>12. Linking(state', runqueue', pc', blocked_list', onstack')
  BY ZenonT(30), <1>1, <1>4 DEF RaceInv, Linking
<1>13. Owns(state', runqueue', pc', current', onstack', nxt')
  <2>1. \A u \in Pid : pc'[u] = "sched_current" => u = t
    BY Zenon, <1>7 DEF FragilePcs
  <2>2. onstack' = t /\ current' = n /\ state'[n] = "RUNNING"
    BY Zenon, <1>1, <1>3
  <2> QED BY ZenonT(30), <1>3, <1>4, <1>6, <2>1, <2>2 DEF Owns
<1>14. Stuck(runqueue', pc', blocked_list', current')
  BY ZenonT(30), <1>1, <1>3 DEF Stuck
<1>15. Pids(state', pc', next_pid')
  BY ZenonT(30), <1>1, <1>4 DEF RaceInv, Pids
<1> QED BY <1>5, <1>8, <1>9, <1>10, <1>11, <1>12, <1>13, <1>14, <1>15, Primed

\* switch_to goes on with the next task.
LEMMA SwitchToKeepsRace == ASSUME RaceInv, NEW t \in Pid, SwitchTo(t) PROVE RaceInv'
<1> DEFINE n == nxt[t]
<1>1. /\ onstack = t /\ pc[t] = "sched_current" /\ onstack' = n
      /\ pc' = [pc EXCEPT ![t] = Caller(t), ![n] = IF @ = "fresh" THEN "run" ELSE @]
      /\ nxt' = [nxt EXCEPT ![t] = NoTask]
      /\ UNCHANGED <<state, ppid, block_on, runqueue, blocked_list, current, next_pid>>
  BY Zenon DEF SwitchTo, At
<1>2. /\ current = n /\ n \in Pid /\ n # t /\ state[n] = "RUNNING"
      /\ n \notin blocked_list /\ \A u \in Pid : pc[u] = "sched_current" => u = t
      /\ \A u \in blocked_list : pc[u] # "blk_link"
  BY ZenonT(30), <1>1 DEF RaceInv, RaceTypes, Owns, Lists, Linking, Pids
<1>3. Caller(t) \in {"run", "find"}
  BY ZenonT(30) DEF Caller
<1>4. /\ pc' \in [Pid -> Pcs] /\ nxt' \in [Pid -> {NoTask} \cup Pid]
      /\ pc'[t] = Caller(t)
      /\ pc'[n] = IF pc[n] = "fresh" THEN "run" ELSE pc[n]
      /\ \A u \in Pid \ {t, n} : pc'[u] = pc[u]
      /\ nxt'[t] = NoTask /\ \A u \in Pid \ {t} : nxt'[u] = nxt[u]
  BY SMTT(30), <1>1, <1>2, <1>3 DEF RaceInv, RaceTypes, Pcs
<1>5. RaceTypes'
  BY ZenonT(30), <1>1, <1>2, <1>4 DEF RaceInv, RaceTypes
<1> HIDE DEF n
<1>6. Lists(state', runqueue', blocked_list')
  BY ZenonT(30), <1>1 DEF RaceInv, Lists
<1>a. /\ \A u \in Pid : pc'[u] \in Holding =>
             u # t /\ pc[u] \in Holding /\ pc'[u] = pc[u] /\ nxt'[u] = nxt[u]
      /\ \A u \in Pid : pc'[u] \in Readied => u # t /\ pc[u] \in Readied
      /\ \A u \in Pid : pc'[u] \notin FragilePcs
  <2>1. \A u \in Pid : pc[u] \in FragilePcs => u = t
    BY Zenon, <1>1 DEF RaceInv, Fragiles
  <2>2. \A u \in Pid : u # t => pc'[u] = pc[u] \/ pc'[u] = "run"
    BY ZenonT(30), <1>4
  <2>3. {Caller(t), "run"} \cap (Holding \cup Readied \cup FragilePcs) = {}
    BY Zenon, <1>3 DEF Holding, Readied, FragilePcs
  <2> QED BY ZenonT(30), <1>4, <2>1, <2>2, <2>3
<1>7. Picks(state', runqueue', pc', current', nxt')
  <2>1. \A u \in Pid : pc[u] \in Holding =>
            /\ state'[nxt[u]] = state[nxt[u]]
            /\ nxt[u] \notin Range(runqueue') /\ nxt[u] # current'
    BY ZenonT(30), <1>1 DEF RaceInv, Picks
  <2> QED BY Zenon, <1>a, <2>1, HeldKeepsPicks
<1>f. Fragiles(runqueue', pc', onstack', nxt')
  BY Zenon, <1>a DEF Fragiles
<1>b. Between(state', runqueue', pc', nxt')
  <2>1. Between(state, runqueue, pc, nxt) /\ state' = state /\ runqueue' = runqueue
    BY Zenon, <1>1 DEF RaceInv
  <2> QED BY ZenonT(30), <1>a, <2>1 DEF Between
<1>8. Linking(state', runqueue', pc', blocked_list', onstack')
  BY ZenonT(30), <1>1, <1>2, <1>3, <1>4 DEF RaceInv, Linking
<1>9. Owns(state', runqueue', pc', current', onstack', nxt')
  BY ZenonT(30), <1>1, <1>2, <1>3, <1>4 DEF Owns
<1>10. Stuck(runqueue', pc', blocked_list', current')
  BY ZenonT(30), <1>1, <1>2 DEF Stuck
<1>11. Pids(state', pc', next_pid')
  BY SMTT(30), <1>1, <1>2, <1>3, <1>4 DEF RaceInv, Pids
<1> QED BY <1>5, <1>6, <1>7, <1>f, <1>b, <1>8, <1>9, <1>10, <1>11, Primed

-----------------------------------------------------------------------------
\* A step that module Sched describes, at no fragile point.
LEMMA SchedStepKeepsRace == ASSUME RaceInv, SchedStep PROVE RaceInv'
<1>1. /\ ~Fragile(onstack) /\ onstack = current /\ onstack' = current' /\ UNCHANGED nxt
  <2>1. ~Fragile(onstack) /\ onstack' = current' /\ UNCHANGED nxt
    BY ZenonT(30) DEF SchedStep
  <2> QED BY ZenonT(30), <2>1 DEF RaceInv, Owns, Fragile
<1>2. CASE SchedTick
  BY ZenonT(30), <1>1, <1>2, TickKeepsRace
<1>3. ASSUME NEW t \in Pid, TaskYield(t) PROVE RaceInv'
  BY ZenonT(30), <1>1, <1>3, UnchangedKeepsInv DEF TaskYield
<1>4. ASSUME NEW t \in Pid, DoFork(t) PROVE RaceInv'
  BY ZenonT(30), <1>1, <1>4, ForkKeepsRace
<1>5. ASSUME NEW t \in Pid, SysExit(t) PROVE RaceInv'
  BY ZenonT(30), <1>1, <1>5, ExitKeepsRace
<1>6. ASSUME NEW t \in Pid, NEW w \in Wanted, Wait4Once(t, w) PROVE RaceInv'
  BY ZenonT(30), <1>1, <1>6, Wait4KeepsRace
<1>7. ASSUME NEW t \in Pid, Rewait(t) PROVE RaceInv'
  BY <1>1, <1>7, RewaitKeepsRace
<1> QED BY <1>2, <1>3, <1>4, <1>5, <1>6, <1>7, Zenon DEF SchedStep

\* Any step at all.
LEMMA RaceNextKeepsInv == RaceInv /\ [RaceNext]_raceVars => RaceInv'
<1> SUFFICES ASSUME RaceInv, [RaceNext]_raceVars PROVE RaceInv'
  BY Zenon
<1>1. CASE SchedStep
  BY ZenonT(30), <1>1, SchedStepKeepsRace
<1>2. CASE FragileTick
  BY ZenonT(30), <1>2, UnchangedKeepsInv DEF FragileTick
<1>3. ASSUME NEW t \in Pid, BlockState(t) PROVE RaceInv'
  BY ZenonT(30), <1>3, BlockStateKeepsRace
<1>4. ASSUME NEW t \in Pid, BlockLink(t) PROVE RaceInv'
  BY ZenonT(30), <1>4, BlockLinkKeepsRace
<1>5. ASSUME NEW t \in Pid, Relink(t) PROVE RaceInv'
  BY ZenonT(30), <1>5, UnchangedKeepsInv DEF Relink
<1>6. ASSUME NEW t \in Pid, ReadHead(t) PROVE RaceInv'
  BY ZenonT(30), <1>6, ReadHeadKeepsRace
<1>7. ASSUME NEW t \in Pid, Dequeue(t) PROVE RaceInv'
  BY ZenonT(30), <1>7, DequeueKeepsRace
<1>8. ASSUME NEW t \in Pid, Requeue(t) PROVE RaceInv'
  BY ZenonT(30), <1>8, RequeueKeepsRace
<1>9. ASSUME NEW t \in Pid, EnqueueLink(t) PROVE RaceInv'
  BY ZenonT(30), <1>9, EnqueueLinkKeepsRace
<1>10. ASSUME NEW t \in Pid, EnqueueTail(t) PROVE RaceInv'
  BY ZenonT(30), <1>10, EnqueueTailKeepsRace
<1>11. ASSUME NEW t \in Pid, SetRunning(t) PROVE RaceInv'
  BY ZenonT(30), <1>11, SetRunningKeepsRace
<1>12. ASSUME NEW t \in Pid, SetCurrent(t) PROVE RaceInv'
  BY ZenonT(30), <1>12, SetCurrentKeepsRace
<1>13. ASSUME NEW t \in Pid, SwitchTo(t) PROVE RaceInv'
  BY ZenonT(30), <1>13, SwitchToKeepsRace
<1>14. CASE UNCHANGED raceVars
  BY ZenonT(30), <1>14, UnchangedKeepsInv DEF raceVars
<1> QED
  BY <1>1, <1>2, <1>3, <1>4, <1>5, <1>6, <1>7, <1>8, <1>9, <1>10, <1>11, <1>12, <1>13,
     <1>14, Zenon DEF RaceNext

\* The invariant says that the lists are sound.
LEMMA RaceInvImplies == RaceInv => ListsAreSound
<1> SUFFICES ASSUME RaceInv PROVE ListsAreSound
  BY Zenon
<1>1. /\ \A t \in Queued : state[t] = "READY"
      /\ NoDuplicates(runqueue)
      /\ \A t \in blocked_list : state[t] \notin {"NONE", "READY", "RUNNING"}
  BY ZenonT(30) DEF RaceInv, Lists, Queued
<1>2. \A t \in Pid : Holds(t) =>
          nxt[t] \notin Queued /\ state[nxt[t]] \in {"READY", "RUNNING"}
  BY ZenonT(30) DEF RaceInv, Picks, Holds, Holding, Queued
<1>3. \A t \in Pid : Holds(t) => nxt[t] \notin Queued \cup blocked_list
  BY ZenonT(30), <1>1, <1>2
<1>4. \A t, u \in Pid : Holds(t) /\ Holds(u) /\ nxt[t] = nxt[u] => t = u
  BY ZenonT(30) DEF RaceInv, Picks, Holds, Holding
<1> QED BY ZenonT(30), <1>1, <1>3, <1>4 DEF ListsAreSound

\* The run queue and blocked_list stay sound however often a tick comes while
\* sched_start or wait4 is in a schedule() called with interrupts on, until one
\* switches tasks inside dequeue, inside sched_enqueue or between
\* task_set_current and switch_to, for every number of processes and every time
\* slice.  The theorem says nothing of what happens after such a tick.
THEOREM PreemptedListsSound == RaceSpec => []ListsAreSound
<1>1. RaceSpec => []RaceInv
  BY RaceInitInv, RaceNextKeepsInv, PTL DEF RaceSpec
<1> QED BY <1>1, RaceInvImplies, PTL
=============================================================================
