----------------------------- MODULE SchedProofs -----------------------------
(***************************************************************************)
(* Proofs about module Sched, for every number of processes and kernel     *)
(* threads and every time slice: type correctness and the safety           *)
(* properties of the run queue, the blocked list, the deferred kfree of    *)
(* schedule() and wait4; and that it implements module Proc.               *)
(***************************************************************************)
EXTENDS Sched, WellFoundedInduction, TLAPS

-----------------------------------------------------------------------------
(* The list operations: sched_enqueue, dequeue, task_wakeup_children and    *)
(* the scan of task_find_zombie.                                            *)

\* A queue holds only what was put into it.
LEMMA RangeIsIn == ASSUME NEW S, NEW s \in Seq(S) PROVE Range(s) \subseteq S
BY DEF Range

\* What sched_enqueue does to the set of queued tasks.
LEMMA AppendFacts ==
    ASSUME NEW S, NEW s \in Seq(S), NEW x \in S
    PROVE  /\ Append(s, x) \in Seq(S)
           /\ Range(Append(s, x)) = Range(s) \cup {x}
           /\ NoDuplicates(s) /\ x \notin Range(s) => NoDuplicates(Append(s, x))
<1>1. Append(s, x) \in Seq(S) /\ Len(Append(s, x)) = Len(s) + 1
  OBVIOUS
<1>2. \A i \in 1 .. Len(s) : Append(s, x)[i] = s[i]
  OBVIOUS
<1>3. Append(s, x)[Len(s) + 1] = x
  OBVIOUS
<1>4. Range(Append(s, x)) = Range(s) \cup {x}
  <2>1. DOMAIN s = 1 .. Len(s) /\ DOMAIN Append(s, x) = 1 .. Len(s) + 1
    BY <1>1
  <2>2. 1 .. Len(s) + 1 = 1 .. Len(s) \cup {Len(s) + 1}
    OBVIOUS
  <2> QED BY <1>2, <1>3, <2>1, <2>2 DEF Range
<1>5. ASSUME NoDuplicates(s), x \notin Range(s) PROVE NoDuplicates(Append(s, x))
  <2>1. \A i \in 1 .. Len(s) : s[i] # x
    BY <1>5 DEF Range
  <2> QED BY <1>1, <1>2, <1>3, <1>5, <2>1 DEF NoDuplicates
<1> QED BY <1>1, <1>4, <1>5

\* What dequeue does to the set of queued tasks.
LEMMA TailFacts ==
    ASSUME NEW S, NEW s \in Seq(S), s # <<>>, NoDuplicates(s)
    PROVE  /\ Head(s) \in S
           /\ Tail(s) \in Seq(S)
           /\ Range(Tail(s)) = Range(s) \ {Head(s)}
           /\ Head(s) \in Range(s)
           /\ NoDuplicates(Tail(s))
<1>1. Len(s) \in Nat /\ Len(s) > 0 /\ DOMAIN s = 1 .. Len(s)
  OBVIOUS
<1>2. Head(s) = s[1] /\ Head(s) \in S
  BY <1>1
<1>3. /\ Tail(s) \in Seq(S) /\ Len(Tail(s)) = Len(s) - 1
      /\ \A i \in 1 .. Len(s) - 1 : Tail(s)[i] = s[i + 1]
  BY <1>1
<1>4. DOMAIN Tail(s) = 1 .. Len(s) - 1
  BY <1>1, <1>3
<1>5. Range(Tail(s)) \subseteq Range(s) \ {Head(s)}
  BY <1>1, <1>2, <1>3, <1>4 DEF Range, NoDuplicates
<1>6. Range(s) \ {Head(s)} \subseteq Range(Tail(s))
  <2> SUFFICES ASSUME NEW i \in 1 .. Len(s), s[i] # Head(s)
               PROVE  s[i] \in Range(Tail(s))
    BY <1>1 DEF Range
  <2>1. i - 1 \in 1 .. Len(s) - 1 /\ Tail(s)[i - 1] = s[i]
    BY <1>1, <1>2, <1>3
  <2> QED BY Zenon, <1>4, <2>1 DEF Range
<1>7. Head(s) \in Range(s)
  BY <1>1, <1>2 DEF Range
<1>8. NoDuplicates(Tail(s))
  BY <1>1, <1>3 DEF NoDuplicates
<1> QED BY ZenonT(30), <1>2, <1>3, <1>5, <1>6, <1>7, <1>8

\* The sizes of the sets of at most one task, from the definition of Cardinality.
LEMMA SmallCardinality ==
    ASSUME NEW x
    PROVE  Cardinality({}) = 0 /\ Cardinality({x}) = 1
<1> DEFINE fn(f, T) == IF T = {} THEN 0 ELSE 1 + f[T \ {CHOOSE y : y \in T}]
           IsCS(S, f) == f = [T \in SUBSET S |-> fn(f, T)]
           CS(S) == CHOOSE f : IsCS(S, f)
           zero == [T \in SUBSET {} |-> 0]
           one == [T \in SUBSET {x} |-> IF T = {} THEN 0 ELSE 1]
<1>1. IsCS({}, CS({}))
  <2>1. IsCS({}, zero)
    OBVIOUS
  <2> QED BY ZenonT(30), <2>1
<1>2. IsCS({x}, CS({x}))
  <2>1. \A T \in SUBSET {x} : T # {} => T \ {CHOOSE y : y \in T} = {}
    OBVIOUS
  <2>2. \A T \in SUBSET {x} : one[T] = fn(one, T)
    BY <2>1
  <2>3. IsCS({x}, one)
    BY <2>2
  <2> HIDE DEF one, IsCS
  <2> QED BY <2>3
<1>3. Cardinality({}) = CS({})[{}] /\ Cardinality({x}) = CS({x})[{x}]
  BY DEF Cardinality
<1>4. CS({})[{}] = 0
  <2> HIDE DEF CS
  <2> QED BY <1>1
<1>5. CS({x})[{}] = 0 /\ CS({x})[{x}] = 1 + CS({x})[{x} \ {CHOOSE y : y \in {x}}]
  <2> HIDE DEF CS
  <2> QED BY Zenon, <1>2
<1>6. {x} \ {CHOOSE y : y \in {x}} = {}
  OBVIOUS
<1> HIDE DEF CS
<1>7. CS({x})[{x}] = 1
  BY <1>5, <1>6
<1> QED BY Zenon, <1>3, <1>4, <1>7

\* A set of at most one task as a sequence.
LEMMA AsSeqFacts ==
    ASSUME NEW x
    PROVE  AsSeq({}) = <<>> /\ AsSeq({x}) = <<x>>
<1>1. Cardinality({}) = 0 /\ Cardinality({x}) = 1
  BY Zenon, SmallCardinality
<1>2. AsSeq({}) = <<>>
  <2>1. <<>> \in [1 .. 0 -> {}] /\ \A f \in [1 .. 0 -> {}] : f = <<>>
    OBVIOUS
  <2>2. IsInjective(<<>>)
    BY DEF IsInjective
  <2> QED BY <1>1, <2>1, <2>2 DEF AsSeq
<1>3. AsSeq({x}) = <<x>>
  <2>1. <<x>> \in [1 .. 1 -> {x}] /\ \A f \in [1 .. 1 -> {x}] : f = <<x>>
    OBVIOUS
  <2>2. IsInjective(<<x>>)
    BY DEF IsInjective
  <2> QED BY <1>1, <2>1, <2>2 DEF AsSeq
<1> QED BY <1>2, <1>3

\* What task_wakeup_children does to the run queue when it wakes at most one
\* task.
LEMMA WakeFacts ==
    ASSUME NEW S, NEW s \in Seq(S), NEW W \in SUBSET S, \A a, b \in W : a = b
    PROVE  /\ s \o AsSeq(W) \in Seq(S)
           /\ Range(s \o AsSeq(W)) = Range(s) \cup W
           /\ NoDuplicates(s) /\ W \cap Range(s) = {} => NoDuplicates(s \o AsSeq(W))
<1>1. CASE W = {}
  <2>1. AsSeq(W) = <<>>
    BY <1>1, AsSeqFacts, Zenon
  <2>2. s \o <<>> = s
    OBVIOUS
  <2>3. s \o AsSeq(W) = s
    BY <2>1, <2>2, Zenon
  <2>4. Range(s) = Range(s) \cup W
    BY <1>1
  <2> QED BY <2>3, <2>4, Zenon
<1>2. CASE W # {}
  <2> PICK x : x \in W
    BY ZenonT(30), <1>2
  <2>0. W = {x}
    OBVIOUS
  <2>1. AsSeq(W) = <<x>>
    BY <2>0, AsSeqFacts, Zenon
  <2>2. x \in S /\ s \o <<x>> = Append(s, x)
    OBVIOUS
  <2>3. s \o AsSeq(W) = Append(s, x)
    BY <2>1, <2>2, Zenon
  <2>4. W \cap Range(s) = {} => x \notin Range(s)
    BY <2>0
  <2>5. /\ Append(s, x) \in Seq(S)
        /\ Range(Append(s, x)) = Range(s) \cup {x}
        /\ NoDuplicates(s) /\ x \notin Range(s) => NoDuplicates(Append(s, x))
    BY <2>2, AppendFacts
  <2> QED BY <2>0, <2>3, <2>4, <2>5, Zenon
<1> QED BY <1>1, <1>2

\* The run queue that sched_start leaves: the kernel threads, then the idle task.
LEMMA InitQueue ==
    ASSUME Init
    PROVE  /\ runqueue \in Seq(Pid)
           /\ Range(runqueue) = (3 .. NKThreads + 2) \cup {Idle}
           /\ NoDuplicates(runqueue)
<1> USE SchedAssumption
<1>1. /\ runqueue \in Seq(Pid)
      /\ Len(runqueue) = NKThreads + 1
      /\ \A i \in 1 .. NKThreads + 1 :
            runqueue[i] = IF i <= NKThreads THEN i + 2 ELSE Idle
  <2>1. \A i \in 1 .. NKThreads + 1 : (IF i <= NKThreads THEN i + 2 ELSE Idle) \in Pid
    BY DEF Pid, Idle
  <2>2. runqueue \in [1 .. NKThreads + 1 -> Pid]
    BY ZenonT(30), <2>1 DEF Init
  <2> QED BY <2>2 DEF Init
<1>2. Range(runqueue) = (3 .. NKThreads + 2) \cup {Idle}
  <2>1. Range(runqueue) = {runqueue[i] : i \in 1 .. NKThreads + 1}
    BY <1>1 DEF Range
  <2>2. \A t \in 3 .. NKThreads + 2 :
            t - 2 \in 1 .. NKThreads + 1 /\ runqueue[t - 2] = t
    BY <1>1
  <2>3. runqueue[NKThreads + 1] = Idle
    BY <1>1
  <2>4. \A i \in 1 .. NKThreads + 1 : runqueue[i] \in (3 .. NKThreads + 2) \cup {Idle}
    BY <1>1
  <2> QED BY SMTT(30), <2>1, <2>2, <2>3, <2>4
<1>3. NoDuplicates(runqueue)
  BY SMTT(30), <1>1 DEF NoDuplicates, Idle
<1> QED BY ZenonT(30), <1>1, <1>2, <1>3

\* A nonempty set of pids has a largest one, so task_find_zombie returns a
\* zombie whenever there is one.
LEMMA LargestExists ==
    ASSUME NEW n \in Nat, NEW Z \in SUBSET (1 .. n), Z # {}
    PROVE  \E z \in Z : \A y \in Z : y <= z
<1> DEFINE R == OpToRel(<, Nat)
           Gap == {n - z : z \in Z}
<1>1. IsWellFoundedOn(R, Nat)
  BY Zenon, NatLessThanWellFounded
<1>2. \A x, y \in Nat : x < y => <<x, y>> \in R
  BY DEF OpToRel
<1> HIDE DEF R
<1>3. Gap \subseteq Nat /\ Gap # {}
  <2>1. \A z \in Z : n - z \in Nat
    OBVIOUS
  <2> QED BY Zenon, <2>1
<1>4. PICK m \in Gap : \A y \in Gap : ~(<<y, m>> \in R)
  <2> HIDE DEF Gap
  <2> QED BY Zenon, <1>1, <1>3, WFMin
<1>5. PICK z \in Z : m = n - z
  BY ZenonT(30), <1>4
<1>6. \A y \in Z : n - y \in Gap /\ n - y \in Nat /\ m \in Nat
  BY <1>5
<1>7. \A y \in Z : ~(n - y < m)
  BY Zenon, <1>2, <1>4, <1>6
<1> QED BY <1>5, <1>7

-----------------------------------------------------------------------------

\* Only what the proofs need beyond the properties themselves: the idle task is
\* never asleep or gone, a pc is one of the four that interrupts cannot split,
\* a task in wait4 has not exited, wait4 asks for any child, and a task in the
\* slot "zombie" or freed is DEAD.
IInv ==
    /\ TypeOK
    /\ OnePlace
    /\ CpuKeepsRunning
    /\ NoSleepOverZombie
    /\ WokenFindsZombie
    /\ state[Idle] \in {"READY", "RUNNING"}
    /\ \A t \in Pid : /\ pc[t] \in {"fresh", "run", "masked", "find"}
                      /\ pc[t] = "find" => t \in User
                      /\ pc[t] = "find" => state[t] \in {"READY", "RUNNING", "BLOCKED"}
                      /\ state[t] = "BLOCKED" => pc[t] = "find"
                      /\ block_on[t] = 0
                      /\ want[t] = AnyPid
                      /\ t \in freed \cup {zombie} => state[t] = "DEAD"
    /\ zombie \notin freed

-----------------------------------------------------------------------------
(* schedule().                                                              *)

\* What its callers establish: st and rq agree on who is READY, nobody but the
\* caller is RUNNING, and what was collected is DEAD.
Before(st, rq, p) ==
    /\ st \in [Pid -> States]
    /\ rq \in Seq(Pid)
    /\ p \in [Pid -> Pcs]
    /\ NoDuplicates(rq)
    /\ \A t \in Pid : /\ st[t] = "READY" <=> t \in Range(rq)
                      /\ st[t] = "RUNNING" => t = current
                      /\ t \in freed \cup {zombie} => st[t] = "DEAD" /\ t # current
    /\ st[current] \in {"RUNNING", "ZOMBIE", "DEAD", "BLOCKED"}
    /\ current \notin freed
    /\ current \in Pid
    /\ zombie \in {NoTask} \cup Pid
    /\ freed \subseteq Pid
    /\ zombie \notin freed

\* What it leaves: the head of the queue runs, nobody else changed sides.
After(st, p) ==
    /\ state' \in [Pid -> States]
    /\ runqueue' \in Seq(Pid)
    /\ NoDuplicates(runqueue')
    /\ current' \in Pid
    /\ current' # current
    /\ pc' \in [Pid -> Pcs]
    /\ zombie' \in {NoTask} \cup Pid
    /\ freed' \subseteq Pid
    /\ cpu' = cpu
    /\ \A t \in Pid : /\ state'[t] = "READY" <=> t \in Range(runqueue')
                      /\ state'[t] = "RUNNING" <=> t = current'
                      /\ st[t] \notin {"READY", "RUNNING"} => state'[t] = st[t]
                      /\ st[t] \in {"READY", "RUNNING"} => state'[t] \in {"READY", "RUNNING"}
                      /\ pc'[t] = p[t] \/ (pc'[t] \in {"run", "masked"} /\ p[t] = "fresh")
                      /\ t \in freed' \cup {zombie'} => state'[t] = "DEAD"
    /\ zombie' \notin freed'

\* schedule() with a non-empty run queue.
LEMMA ScheduleFacts ==
    ASSUME NEW st, NEW rq, NEW p, Before(st, rq, p), rq # <<>>, Schedule(st, rq, p)
    PROVE  After(st, p)
<1> DEFINE next == Head(rq)
           requeue == st[current] = "RUNNING"
           z0 == IF Collects(zombie, current) THEN NoTask ELSE zombie
           f0 == IF Collects(zombie, current) THEN freed \cup {zombie} ELSE freed
           z1 == IF st[current] = "DEAD" THEN current ELSE z0
           resumes == p[next] # "fresh" /\ Collects(z1, next)
<1>1. /\ next \in Pid
      /\ Tail(rq) \in Seq(Pid)
      /\ Range(Tail(rq)) = Range(rq) \ {next}
      /\ next \in Range(rq)
      /\ NoDuplicates(Tail(rq))
  BY ZenonT(30), TailFacts DEF Before
<1>2. st[next] = "READY" /\ next # current /\ current \notin Range(rq)
  BY ZenonT(30), <1>1 DEF Before
<1>3. /\ state' = [t \in Pid |-> IF t = next THEN "RUNNING"
                                 ELSE IF t = current /\ requeue THEN "READY" ELSE st[t]]
      /\ runqueue' = IF requeue THEN Append(Tail(rq), current) ELSE Tail(rq)
      /\ current' = next
      /\ pc' = IF p[next] = "fresh" THEN [p EXCEPT ![next] = Entry(next, current, st, p)] ELSE p
      /\ zombie' = IF resumes THEN NoTask ELSE z1
      /\ freed' = IF resumes THEN f0 \cup {z1} ELSE f0
      /\ cpu' = IF next = current THEN "lost" ELSE cpu
  BY ZenonT(30) DEF Schedule, Requeues
<1> HIDE DEF next
<1>4. cpu' = cpu /\ current' \in Pid /\ current' # current
  BY ZenonT(30), <1>1, <1>2, <1>3
<1>5. /\ runqueue' \in Seq(Pid)
      /\ NoDuplicates(runqueue')
      /\ Range(runqueue') = (Range(rq) \ {next}) \cup (IF requeue THEN {current} ELSE {})
  <2>1. CASE requeue
    BY ZenonT(40), <1>1, <1>2, <1>3, <2>1, AppendFacts DEF Before
  <2>2. CASE ~requeue
    BY <1>1, <1>3, <2>2
  <2> QED BY ZenonT(30), <2>1, <2>2
<1>6. state' \in [Pid -> States]
  BY <1>3 DEF Before, States
<1>7. \A t \in Pid : /\ state'[t] = "READY" <=> t \in Range(runqueue')
                     /\ state'[t] = "RUNNING" <=> t = current'
  BY SMTT(30), <1>1, <1>2, <1>3, <1>5 DEF Before
<1>8. \A t \in Pid :
          /\ st[t] \notin {"READY", "RUNNING"} => state'[t] = st[t]
          /\ st[t] \in {"READY", "RUNNING"} => state'[t] \in {"READY", "RUNNING"}
  BY <1>2, <1>3 DEF Before
<1>9. /\ pc' \in [Pid -> Pcs]
      /\ \A t \in Pid : pc'[t] = p[t] \/ (pc'[t] \in {"run", "masked"} /\ p[t] = "fresh")
  <2>1. Entry(next, current, st, p) \in {"run", "masked"}
    BY Zenon DEF Entry
  <2> QED BY <1>1, <1>3, <2>1 DEF Before, Pcs
<1>10. /\ z1 \in {NoTask} \cup Pid
       /\ f0 \subseteq Pid
       /\ z1 \notin f0
       /\ \A t \in Pid : t \in f0 \cup {z1} => st[t] = "DEAD"
  BY DEF Before, Collects, NoTask, Pid
<1> HIDE DEF z1, f0
<1>11. /\ zombie' \in {NoTask} \cup Pid
       /\ freed' \subseteq Pid
       /\ zombie' \notin freed'
       /\ \A t \in Pid : t \in freed' \cup {zombie'} => st[t] = "DEAD"
  BY <1>3, <1>10 DEF Collects, NoTask, Pid
<1>12. \A t \in Pid : t \in freed' \cup {zombie'} => state'[t] = "DEAD"
  BY ZenonT(30), <1>8, <1>11
<1> QED BY ZenonT(30), <1>4, <1>5, <1>6, <1>7, <1>8, <1>9, <1>11, <1>12 DEF After

-----------------------------------------------------------------------------
(* The inductive invariant.                                                 *)

\* The state sched_start leaves satisfies the invariant.
LEMMA InitIInv == Init => IInv
<1> SUFFICES ASSUME Init PROVE IInv
  BY Zenon
<1> USE SchedAssumption
<1>1. /\ Pid = 1 .. MaxPid /\ 2 \in Pid /\ Idle \in Pid /\ NKThreads + 2 \in Pid
      /\ next_pid \in 1 .. MaxPid + 1
  BY DEF Init, Pid, Idle
<1>2. /\ runqueue \in Seq(Pid)
      /\ Range(runqueue) = (3 .. NKThreads + 2) \cup {Idle}
      /\ NoDuplicates(runqueue)
  BY Zenon, InitQueue
<1>3. TypeOK
  <2>1. /\ state \in [Pid -> States]
        /\ ppid \in [Pid -> {NoTask} \cup Pid]
        /\ block_on \in [Pid -> {NoTask} \cup Pid]
        /\ pc \in [Pid -> Pcs]
        /\ want \in [Pid -> {AnyPid} \cup Pid]
    BY DEF Init, States, Pcs
  <2>2. need_resched \in BOOLEAN
    BY Zenon DEF Init
  <2>3. /\ ticks \in 0 .. TIME_SLICE - 1
        /\ current \in Pid
        /\ blocked_list \in SUBSET Pid
        /\ freed \in SUBSET Pid
        /\ zombie \in {NoTask} \cup Pid
        /\ cpu \in {"run", "halt", "lost", "torn"}
    BY <1>1 DEF Init
  <2> QED BY ZenonT(30), <1>1, <1>2, <2>1, <2>2, <2>3 DEF TypeOK
<1>4. OnePlace
  <2>1. Queued = (3 .. NKThreads + 2) \cup {Idle}
    BY <1>2 DEF Queued
  <2>2. NoDuplicates(runqueue)
    BY ZenonT(30), <1>2
  <2>3. \A t \in Pid : /\ state[t] = "RUNNING" <=> t = current
                       /\ state[t] = "READY" <=> t \in Queued
                       /\ state[t] = "BLOCKED" <=> t \in blocked_list
                       /\ state[t] = "NONE" <=> t >= next_pid
    BY <2>1 DEF Init, Idle, Pid
  <2> QED BY <2>2, <2>3 DEF OnePlace
<1>5. CpuKeepsRunning /\ NoSleepOverZombie /\ WokenFindsZombie
  BY ZenonT(30) DEF Init, CpuKeepsRunning, NoSleepOverZombie, WokenFindsZombie
<1>6. state[Idle] \in {"READY", "RUNNING"}
  BY <1>1 DEF Init, Idle
<1> QED BY <1>3, <1>4, <1>5, <1>6 DEF IInv, Init, NoTask, AnyPid, Pid

\* The part of the invariant that speaks of wait4, of states st, program counters
\* p and a blocked list b.
WaitInv(st, p, b) ==
    /\ st[Idle] \in {"READY", "RUNNING"}
    /\ \A t \in Pid : /\ p[t] \in {"fresh", "run", "masked", "find"}
                      /\ p[t] = "find" => t \in User
                      /\ p[t] = "find" => st[t] \in {"READY", "RUNNING", "BLOCKED"}
                      /\ st[t] = "BLOCKED" => p[t] = "find"
                      /\ st[t] = "BLOCKED" <=> t \in b
    /\ \A t \in b : \A z \in Pid : ~(st[z] = "ZOMBIE" /\ ppid[z] = t)
    /\ \A t \in Pid : p[t] = "find" /\ t \notin b =>
          \E z \in Pid : st[z] = "ZOMBIE" /\ ppid[z] = t

\* The invariant gives its part about wait4.
LEMMA WaitInvFacts == IInv => WaitInv(state, pc, blocked_list)
<1> SUFFICES ASSUME IInv PROVE WaitInv(state, pc, blocked_list)
  BY Zenon
<1>1. \A t \in blocked_list : \A z \in Pid : ~(state[z] = "ZOMBIE" /\ ppid[z] = t)
  BY DEF IInv, NoSleepOverZombie, ZombiesOf
<1>2. \A t \in Pid : pc[t] = "find" /\ t \notin blocked_list =>
          \E z \in Pid : state[z] = "ZOMBIE" /\ ppid[z] = t
  BY ZenonT(30) DEF IInv, WokenFindsZombie, ZombiesOf
<1> QED BY <1>1, <1>2 DEF IInv, WaitInv, OnePlace

\* A handler that ends in schedule() and a switch keeps the invariant when what
\* it hands over does.
LEMMA SwitchKeepsIInv ==
    ASSUME IInv, NEW st, NEW p, After(st, p),
           WaitInv(st, p, blocked_list'),
           \A t \in Pid : st[t] = "NONE" <=> t >= next_pid,
           UNCHANGED <<ppid, next_pid>>,
           block_on' \in [Pid -> {0}],
           want' \in [Pid -> {AnyPid}],
           blocked_list' \in SUBSET Pid,
           ticks' \in 0 .. TIME_SLICE - 1,
           need_resched' \in BOOLEAN
    PROVE  IInv'
<1>1. TypeOK'
  <2>1. /\ ppid' \in [Pid -> {NoTask} \cup Pid]
        /\ block_on' \in [Pid -> {NoTask} \cup Pid]
        /\ want' \in [Pid -> {AnyPid} \cup Pid]
        /\ next_pid' \in 1 .. MaxPid + 1
    BY DEF IInv, TypeOK, NoTask
  <2>2. cpu' \in {"run", "halt", "lost", "torn"}
    BY ZenonT(30) DEF IInv, TypeOK, After
  <2> QED BY SMTT(30), <2>1, <2>2 DEF TypeOK, After
<1>2. \A t \in Pid : /\ state'[t] = "BLOCKED" <=> st[t] = "BLOCKED"
                     /\ state'[t] = "NONE" <=> st[t] = "NONE"
                     /\ state'[t] = "ZOMBIE" <=> st[t] = "ZOMBIE"
                     /\ st[t] \in {"READY", "RUNNING", "BLOCKED"} =>
                           state'[t] \in {"READY", "RUNNING", "BLOCKED"}
  BY ZenonT(30) DEF After
<1>3. OnePlace'
  BY ZenonT(30), <1>2 DEF OnePlace, After, WaitInv, Queued
<1>4. CpuKeepsRunning'
  BY ZenonT(30) DEF IInv, CpuKeepsRunning, After
<1>5. \A t \in Pid : pc'[t] = "find" <=> p[t] = "find"
  BY ZenonT(30) DEF After
<1>6. NoSleepOverZombie'
  BY <1>2 DEF NoSleepOverZombie, ZombiesOf, WaitInv
<1>7. WokenFindsZombie'
  BY SMTT(30), <1>2, <1>5 DEF WokenFindsZombie, ZombiesOf, WaitInv
<1>8. state'[Idle] \in {"READY", "RUNNING"}
  BY SMTT(30), SchedAssumption DEF After, WaitInv, Idle, Pid
<1>9. \A t \in Pid : /\ pc'[t] \in {"fresh", "run", "masked", "find"}
                     /\ pc'[t] = "find" => t \in User
                     /\ pc'[t] = "find" => state'[t] \in {"READY", "RUNNING", "BLOCKED"}
                     /\ state'[t] = "BLOCKED" => pc'[t] = "find"
                     /\ block_on'[t] = 0
                     /\ want'[t] = AnyPid
                     /\ t \in freed' \cup {zombie'} => state'[t] = "DEAD"
  BY <1>2, <1>5 DEF After, WaitInv
<1> QED BY SMTT(30), <1>1, <1>3, <1>4, <1>6, <1>7, <1>8, <1>9 DEF IInv, After

\* The timer tick: counts, or switches round robin.
LEMMA TickKeepsIInv == ASSUME IInv, SchedTick PROVE IInv'
<1>1. CASE UNCHANGED <<state, pc, runqueue, current, need_resched, zombie, freed, cpu>>
           /\ ticks + 1 < TIME_SLICE /\ ticks' = ticks + 1
  <2>1. TypeOK'
    BY <1>1, SchedAssumption DEF IInv, TypeOK, SchedTick
  <2>2. /\ OnePlace' = OnePlace
        /\ CpuKeepsRunning' = CpuKeepsRunning
        /\ NoSleepOverZombie' = NoSleepOverZombie
        /\ WokenFindsZombie' = WokenFindsZombie
    BY ZenonT(30), <1>1 DEF SchedTick, OnePlace, Queued, CpuKeepsRunning, NoSleepOverZombie,
                WokenFindsZombie, ZombiesOf
  <2> QED BY ZenonT(30), <1>1, <2>1, <2>2 DEF IInv, SchedTick
<1>2. CASE Schedule(state, runqueue, pc) /\ ticks' = 0 /\ need_resched' = FALSE
  <2>1. Before(state, runqueue, pc)
    BY ZenonT(30) DEF IInv, TypeOK, OnePlace, Queued, Before
  <2>2. CASE runqueue # <<>>
    <3>1. After(state, pc)
      BY ZenonT(30), <1>2, <2>1, <2>2, ScheduleFacts
    <3>2. WaitInv(state, pc, blocked_list')
      BY ZenonT(30), WaitInvFacts DEF SchedTick
    <3>3. /\ block_on' \in [Pid -> {0}]
          /\ want' \in [Pid -> {AnyPid}]
          /\ blocked_list' \in SUBSET Pid
          /\ ticks' \in 0 .. TIME_SLICE - 1
      BY <1>2, SchedAssumption DEF IInv, TypeOK, SchedTick
    <3>4. need_resched' \in BOOLEAN
      BY <1>2, Zenon
    <3>5. \A t \in Pid : state[t] = "NONE" <=> t >= next_pid
      BY ZenonT(30) DEF IInv, OnePlace
    <3>6. UNCHANGED <<ppid, next_pid>>
      BY ZenonT(30) DEF SchedTick
    <3> QED BY ZenonT(30), <3>1, <3>2, <3>3, <3>4, <3>5, <3>6, SwitchKeepsIInv
  <2>3. CASE runqueue = <<>>
    <3>1. state[current] = "RUNNING"
      BY ZenonT(30) DEF IInv, TypeOK, OnePlace
    <3>2. /\ UNCHANGED <<state, runqueue, pc, current, cpu>>
          /\ zombie' = IF Collects(zombie, current) THEN NoTask ELSE zombie
          /\ freed' = IF Collects(zombie, current) THEN freed \cup {zombie} ELSE freed
      BY ZenonT(30), <1>2, <2>3, <3>1 DEF Schedule
    <3>3. /\ zombie' \in {NoTask} \cup Pid
          /\ freed' \in SUBSET Pid
          /\ zombie' \notin freed'
          /\ \A t \in Pid : t \in freed' \cup {zombie'} => state[t] = "DEAD"
      BY <3>2 DEF IInv, TypeOK, Collects, NoTask, Pid
    <3>4. ticks' \in 0 .. TIME_SLICE - 1
      BY SMTT(30), <1>2, SchedAssumption
    <3>5. need_resched' \in BOOLEAN
      BY <1>2, Zenon
    <3>6. TypeOK'
      BY ZenonT(30), <3>2, <3>3, <3>4, <3>5 DEF IInv, TypeOK, SchedTick
    <3>7. /\ OnePlace' = OnePlace
          /\ CpuKeepsRunning' = CpuKeepsRunning
          /\ NoSleepOverZombie' = NoSleepOverZombie
          /\ WokenFindsZombie' = WokenFindsZombie
      BY ZenonT(30), <3>2 DEF SchedTick, OnePlace, Queued, CpuKeepsRunning, NoSleepOverZombie,
                  WokenFindsZombie, ZombiesOf
    <3> QED BY ZenonT(30), <3>2, <3>3, <3>6, <3>7 DEF IInv, SchedTick
  <2> QED BY ZenonT(30), <2>2, <2>3
<1> QED BY Zenon, <1>1, <1>2 DEF SchedTick

\* SYS_yield touches only need_resched and ticks_since_switch.
LEMMA YieldKeepsIInv == ASSUME IInv, NEW t \in Pid, TaskYield(t) PROVE IInv'
<1>1. ticks' \in 0 .. TIME_SLICE - 1
  BY SchedAssumption DEF TaskYield
<1>2. need_resched' \in BOOLEAN
  BY Zenon DEF TaskYield
<1>3. TypeOK'
  BY ZenonT(30), <1>1, <1>2 DEF IInv, TypeOK, TaskYield
<1>4. /\ OnePlace' = OnePlace
      /\ CpuKeepsRunning' = CpuKeepsRunning
      /\ NoSleepOverZombie' = NoSleepOverZombie
      /\ WokenFindsZombie' = WokenFindsZombie
  BY SMTT(30) DEF TaskYield, OnePlace, Queued, CpuKeepsRunning, NoSleepOverZombie,
         WokenFindsZombie, ZombiesOf
<1> QED BY ZenonT(30), <1>3, <1>4 DEF IInv, TaskYield

\* do_fork enqueues a task that was in no list.
LEMMA ForkKeepsIInv == ASSUME IInv, NEW t \in Pid, DoFork(t) PROVE IInv'
<1> DEFINE c == next_pid
<1>1. c \in Pid /\ state[c] = "NONE" /\ c \notin Queued /\ c \notin blocked_list /\ c # current
  BY DEF IInv, TypeOK, OnePlace, DoFork, Pid
<1>2. /\ runqueue' \in Seq(Pid)
      /\ Queued' = Queued \cup {c}
      /\ NoDuplicates(runqueue')
  <2>1. runqueue \in Seq(Pid) /\ NoDuplicates(runqueue) /\ runqueue' = Append(runqueue, c)
    BY ZenonT(30) DEF IInv, TypeOK, OnePlace, DoFork
  <2> HIDE DEF c
  <2>2. /\ Append(runqueue, c) \in Seq(Pid)
        /\ Range(Append(runqueue, c)) = Range(runqueue) \cup {c}
        /\ NoDuplicates(Append(runqueue, c))
    BY SMTT(30), <1>1, <2>1, AppendFacts DEF Queued
  <2> QED BY ZenonT(30), <2>1, <2>2 DEF Queued
<1>3. TypeOK'
  <2>1. next_pid' \in 1 .. MaxPid + 1
    BY SMTT(30), <1>1, SchedAssumption DEF DoFork, Pid
  <2>2. state' \in [Pid -> States] /\ ppid' \in [Pid -> {NoTask} \cup Pid]
    BY ZenonT(30), <1>1 DEF IInv, TypeOK, DoFork, States
  <2> QED BY ZenonT(30), <1>2, <2>1, <2>2 DEF IInv, TypeOK, DoFork
<1>4. OnePlace'
  <2>1. \A u \in Pid : u >= c + 1 <=> u >= c /\ u # c
    BY SMTT(30), <1>1 DEF Pid
  <2> QED BY SMTT(30), <1>1, <1>2, <2>1 DEF IInv, TypeOK, OnePlace, DoFork
<1>5. NoSleepOverZombie'
  BY ZenonT(30), <1>1 DEF IInv, TypeOK, NoSleepOverZombie, ZombiesOf, DoFork
<1>6. WokenFindsZombie'
  <2> SUFFICES ASSUME NEW u \in Pid, pc[u] = "find", u \notin blocked_list
               PROVE  \E z \in Pid : state'[z] = "ZOMBIE" /\ ppid'[z] = u
    BY ZenonT(30) DEF WokenFindsZombie, ZombiesOf, DoFork
  <2>1. PICK z \in Pid : state[z] = "ZOMBIE" /\ ppid[z] = u
    BY ZenonT(30) DEF IInv, WokenFindsZombie, ZombiesOf
  <2> QED BY ZenonT(30), <1>1, <2>1 DEF IInv, TypeOK, DoFork
<1>7. Idle \in Pid
  BY SchedAssumption DEF Idle, Pid
<1>8. /\ state' = [state EXCEPT ![c] = "READY"] /\ state \in [Pid -> States]
      /\ UNCHANGED <<block_on, pc, want, zombie, freed, cpu>>
  BY Zenon DEF IInv, TypeOK, DoFork
<1> HIDE DEF c
<1>9. state'[c] = "READY" /\ \A u \in Pid : u # c => state'[u] = state[u]
  BY Zenon, <1>1, <1>8
<1>10. /\ state'[Idle] \in {"READY", "RUNNING"}
       /\ CpuKeepsRunning' /\ zombie' \notin freed'
  BY ZenonT(30), <1>7, <1>8, <1>9 DEF IInv, CpuKeepsRunning
<1>11. ASSUME NEW u \in Pid
       PROVE  /\ pc'[u] \in {"fresh", "run", "masked", "find"}
              /\ pc'[u] = "find" => u \in User
              /\ pc'[u] = "find" => state'[u] \in {"READY", "RUNNING", "BLOCKED"}
              /\ state'[u] = "BLOCKED" => pc'[u] = "find"
              /\ block_on'[u] = 0
              /\ want'[u] = AnyPid
              /\ u \in freed' \cup {zombie'} => state'[u] = "DEAD"
  <2>1. CASE u = c
    BY ZenonT(30), <1>1, <1>8, <1>9, <2>1 DEF IInv
  <2>2. CASE u # c
    BY ZenonT(30), <1>8, <1>9, <2>2 DEF IInv
  <2> QED BY ZenonT(30), <2>1, <2>2
<1> QED BY ZenonT(30), <1>3, <1>4, <1>5, <1>6, <1>10, <1>11 DEF IInv

\* exit wakes at most the exiting task's parent.
LEMMA WokenFacts ==
    ASSUME IInv, NEW t \in Pid
    PROVE  /\ WokenBy(t) = blocked_list \cap {ppid[t]}
           /\ \A u \in WokenBy(t) : u \in Pid /\ state[u] = "BLOCKED"
<1>1. \A u \in blocked_list : u \in Pid /\ block_on[u] = 0 /\ state[u] = "BLOCKED"
  BY DEF IInv, TypeOK, OnePlace
<1>2. t # 0
  BY DEF Pid
<1> QED BY SMTT(30), <1>1, <1>2 DEF WokenBy

\* SYS_exit: the zombie wakes its parent exactly when the parent sleeps.
LEMMA ExitKeepsIInv == ASSUME IInv, NEW t \in Pid, SysExit(t) PROVE IInv'
<1> DEFINE W == WokenBy(t)
           st == [u \in Pid |-> IF u = t THEN "ZOMBIE" ELSE IF u \in W THEN "READY" ELSE state[u]]
           rq == runqueue \o AsSeq(W)
<1>1. /\ current = t /\ t \in User /\ pc[t] = "run" /\ state[t] = "RUNNING" /\ t # Idle
      /\ blocked_list' = blocked_list \ W
      /\ Schedule(st, rq, pc)
      /\ UNCHANGED <<ppid, block_on, want, next_pid, ticks, need_resched>>
  BY SchedAssumption DEF SysExit, InUserMode, IInv, TypeOK, OnePlace, User, Idle
<1>2. W = blocked_list \cap {ppid[t]} /\ \A u \in W : u \in Pid /\ state[u] = "BLOCKED"
  BY ZenonT(30), WokenFacts
<1> HIDE DEF W
<1>3. rq \in Seq(Pid) /\ NoDuplicates(rq) /\ Range(rq) = Queued \cup W
  <2>1. W \in SUBSET Pid /\ (\A a, b \in W : a = b) /\ W \cap Range(runqueue) = {}
    BY ZenonT(30), <1>2 DEF IInv, OnePlace, Queued
  <2>2. runqueue \in Seq(Pid) /\ NoDuplicates(runqueue)
    BY DEF IInv, TypeOK, OnePlace
  <2>3. /\ runqueue \o AsSeq(W) \in Seq(Pid)
        /\ Range(runqueue \o AsSeq(W)) = Range(runqueue) \cup W
        /\ NoDuplicates(runqueue \o AsSeq(W))
    <3> DEFINE Q == runqueue
    <3> HIDE DEF Q
    <3>1. Q \in Seq(Pid) /\ NoDuplicates(Q) /\ W \cap Range(Q) = {}
      BY ZenonT(30), <2>1, <2>2 DEF Q
    <3>2. /\ Q \o AsSeq(W) \in Seq(Pid)
          /\ Range(Q \o AsSeq(W)) = Range(Q) \cup W
          /\ NoDuplicates(Q) /\ W \cap Range(Q) = {} => NoDuplicates(Q \o AsSeq(W))
      BY ZenonT(30), <2>1, <3>1, WakeFacts
    <3> QED BY ZenonT(30), <3>1, <3>2 DEF Q
  <2> QED BY <2>3, Zenon DEF Queued
<1> HIDE DEF rq
<1>4. Idle \in Pid /\ state[Idle] = "READY" /\ Idle \in Queued
  BY <1>1, SchedAssumption DEF IInv, OnePlace, Idle, Pid
<1>5. rq # <<>>
  BY SMTT(30), <1>3, <1>4 DEF Range
<1>6. /\ st \in [Pid -> States]
      /\ \A u \in Pid : st[u] = IF u = t THEN "ZOMBIE" ELSE IF u \in W THEN "READY" ELSE state[u]
  BY ZenonT(30) DEF IInv, TypeOK, States
<1> HIDE DEF st
<1>7. Before(st, rq, pc)
  BY SMTT(30), <1>1, <1>2, <1>3, <1>6 DEF Before, IInv, TypeOK, OnePlace
<1>8. After(st, pc)
  BY ZenonT(30), <1>1, <1>5, <1>7, ScheduleFacts
<1>9. WaitInv(st, pc, blocked_list')
  <2>1. WaitInv(state, pc, blocked_list)
    BY ZenonT(30), WaitInvFacts
  <2>2. \A u \in blocked_list' : \A z \in Pid : ~(st[z] = "ZOMBIE" /\ ppid[z] = u)
    BY SMTT(30), <1>1, <1>2, <1>6, <2>1 DEF WaitInv
  <2>3. \A u \in Pid : pc[u] = "find" /\ u \notin blocked_list' =>
            \E z \in Pid : st[z] = "ZOMBIE" /\ ppid[z] = u
    <3> SUFFICES ASSUME NEW u \in Pid, pc[u] = "find", u \notin blocked_list'
                 PROVE  \E z \in Pid : st[z] = "ZOMBIE" /\ ppid[z] = u
      BY Zenon
    <3>1. CASE u \in W
      BY ZenonT(30), <1>2, <1>6, <3>1
    <3>2. CASE u \notin W
      <4>1. PICK z \in Pid : state[z] = "ZOMBIE" /\ ppid[z] = u
        BY ZenonT(30), <1>1, <2>1, <3>2 DEF WaitInv
      <4> QED BY ZenonT(30), <1>2, <1>6, <4>1
    <3> QED BY ZenonT(30), <3>1, <3>2
  <2>4. \A u \in Pid : /\ pc[u] \in {"fresh", "run", "masked", "find"}
                       /\ pc[u] = "find" => u \in User
                       /\ pc[u] = "find" => st[u] \in {"READY", "RUNNING", "BLOCKED"}
                       /\ st[u] = "BLOCKED" => pc[u] = "find"
                       /\ st[u] = "BLOCKED" <=> u \in blocked_list'
    BY SMTT(30), <1>1, <1>2, <1>6, <2>1 DEF WaitInv
  <2>5. st[Idle] \in {"READY", "RUNNING"}
    BY ZenonT(30), <1>1, <1>4, <1>6
  <2> QED BY ZenonT(30), <2>2, <2>3, <2>4, <2>5 DEF WaitInv
<1>10. \A u \in Pid : st[u] = "NONE" <=> u >= next_pid
  BY ZenonT(30), <1>1, <1>2, <1>6 DEF IInv, OnePlace
<1>11. /\ block_on' \in [Pid -> {0}]
       /\ want' \in [Pid -> {AnyPid}]
       /\ blocked_list' \in SUBSET Pid
       /\ ticks' \in 0 .. TIME_SLICE - 1
  BY ZenonT(30), <1>1 DEF IInv, TypeOK
<1>12. need_resched' \in BOOLEAN
  BY ZenonT(30), <1>1 DEF IInv, TypeOK
<1> QED BY ZenonT(30), <1>1, <1>8, <1>9, <1>10, <1>11, <1>12, SwitchKeepsIInv

\* task_exit: the dead kernel thread is in no list when it switches away.
LEMMA TaskExitKeepsIInv == ASSUME IInv, NEW t \in Pid, TaskExit(t) PROVE IInv'
<1> DEFINE st == [state EXCEPT ![t] = "DEAD"]
<1>1. /\ current = t /\ state[t] = "RUNNING" /\ t # Idle
      /\ Schedule(st, runqueue, pc)
      /\ UNCHANGED <<ppid, block_on, want, blocked_list, next_pid, ticks, need_resched>>
  BY DEF TaskExit, IInv, TypeOK, OnePlace, KThread, Idle
<1>2. /\ st \in [Pid -> States]
      /\ \A u \in Pid : st[u] = IF u = t THEN "DEAD" ELSE state[u]
  BY ZenonT(30) DEF IInv, TypeOK, States
<1> HIDE DEF st
<1>3. Idle \in Pid /\ state[Idle] = "READY" /\ Idle \in Queued
  BY <1>1, SchedAssumption DEF IInv, OnePlace, Idle, Pid
<1>4. runqueue # <<>>
  BY SMTT(30), <1>3 DEF Queued, Range
<1>5. pc[t] # "find"
  BY SMTT(30), SchedAssumption DEF IInv, TaskExit, KThread, User
<1>6. Before(st, runqueue, pc)
  BY ZenonT(30), <1>1, <1>2 DEF Before, IInv, TypeOK, OnePlace, Queued
<1>7. After(st, pc)
  BY ZenonT(30), <1>1, <1>4, <1>6, ScheduleFacts
<1>8. WaitInv(st, pc, blocked_list')
  <2>1. WaitInv(state, pc, blocked_list)
    BY WaitInvFacts
  <2>2. \A z \in Pid : st[z] = "ZOMBIE" <=> state[z] = "ZOMBIE"
    BY ZenonT(30), <1>1, <1>2
  <2> QED BY SMTT(30), <1>1, <1>2, <1>3, <1>5, <2>1, <2>2 DEF WaitInv
<1>9. \A u \in Pid : st[u] = "NONE" <=> u >= next_pid
  BY ZenonT(30), <1>1, <1>2 DEF IInv, OnePlace
<1>10. /\ block_on' \in [Pid -> {0}]
       /\ want' \in [Pid -> {AnyPid}]
       /\ blocked_list' \in SUBSET Pid
       /\ ticks' \in 0 .. TIME_SLICE - 1
       /\ need_resched' \in BOOLEAN
  BY ZenonT(30), <1>1 DEF IInv, TypeOK
<1> QED BY ZenonT(30), <1>1, <1>7, <1>8, <1>9, <1>10, SwitchKeepsIInv

-----------------------------------------------------------------------------
(* wait4.                                                                   *)

\* wait4 reaps: a zombie child becomes DEAD, and only its parent, which is
\* running, was waiting for it.
LEMMA ReapKeepsIInv ==
    ASSUME IInv, NEW t \in Pid, current = t, pc[t] \in {"run", "find"}, t \in User,
           ZombiesOf(t, AnyPid) # {}, Reap(t, AnyPid), want' = want
    PROVE  IInv'
<1> DEFINE z == TaskFindZombie(t, AnyPid)
<1>1. z \in Pid /\ state[z] = "ZOMBIE" /\ ppid[z] = t
  <2>1. ZombiesOf(t, AnyPid) \in SUBSET (1 .. MaxPid)
    BY DEF ZombiesOf, Pid
  <2>2. \E x \in ZombiesOf(t, AnyPid) : \A y \in ZombiesOf(t, AnyPid) : y <= x
    BY Zenon, <2>1, LargestExists, SchedAssumption
  <2>3. z \in ZombiesOf(t, AnyPid)
    BY <2>2 DEF TaskFindZombie
  <2> QED BY <2>3 DEF ZombiesOf
<1>2. /\ state' = [state EXCEPT ![z] = "DEAD"]
      /\ pc' = [pc EXCEPT ![t] = "run"]
      /\ UNCHANGED <<ppid, block_on, runqueue, blocked_list, current, next_pid, ticks,
                     need_resched, zombie, freed, cpu>>
  BY ZenonT(30) DEF Reap
<1> HIDE DEF z
<1>3. /\ state' \in [Pid -> States] /\ pc' \in [Pid -> Pcs]
      /\ \A u \in Pid : /\ state'[u] = IF u = z THEN "DEAD" ELSE state[u]
                        /\ pc'[u] = IF u = t THEN "run" ELSE pc[u]
  BY ZenonT(30), <1>1, <1>2 DEF IInv, TypeOK, States, Pcs
<1>4. TypeOK'
  BY ZenonT(30), <1>2, <1>3 DEF IInv, TypeOK
<1>5. OnePlace'
  BY ZenonT(30), <1>1, <1>2, <1>3 DEF IInv, OnePlace, Queued
<1>6. CpuKeepsRunning'
  BY ZenonT(30), <1>2 DEF IInv, CpuKeepsRunning
<1>7. NoSleepOverZombie'
  BY SMTT(30), <1>2, <1>3 DEF IInv, TypeOK, NoSleepOverZombie, ZombiesOf
<1>8. WokenFindsZombie'
  <2> SUFFICES ASSUME NEW u \in Pid, pc'[u] = "find", u \notin blocked_list
               PROVE  \E y \in Pid : state'[y] = "ZOMBIE" /\ ppid[y] = u
    BY ZenonT(30), <1>2 DEF WokenFindsZombie, ZombiesOf
  <2>1. u # t /\ pc[u] = "find"
    BY ZenonT(30), <1>3
  <2>2. PICK y \in Pid : state[y] = "ZOMBIE" /\ ppid[y] = u
    BY <2>1 DEF IInv, WokenFindsZombie, ZombiesOf
  <2> QED BY ZenonT(30), <1>1, <1>3, <2>1, <2>2
<1>9. Idle \in Pid
  BY SMTT(30), SchedAssumption DEF Idle, Pid
<1>10. \A u \in Pid : /\ pc'[u] \in {"fresh", "run", "masked", "find"}
                      /\ pc'[u] = "find" => u \in User
                      /\ pc'[u] = "find" => state'[u] \in {"READY", "RUNNING", "BLOCKED"}
                      /\ state'[u] = "BLOCKED" => pc'[u] = "find"
                      /\ block_on'[u] = 0
                      /\ want'[u] = AnyPid
                      /\ u \in freed' \cup {zombie'} => state'[u] = "DEAD"
  <2>1. state[t] = "RUNNING"
    BY ZenonT(30) DEF IInv, OnePlace
  <2> QED BY ZenonT(30), <1>1, <1>2, <1>3, <2>1 DEF IInv
<1>11. state'[Idle] \in {"READY", "RUNNING"}
  BY ZenonT(30), <1>1, <1>3, <1>9 DEF IInv
<1> QED BY ZenonT(30), <1>2, <1>4, <1>5, <1>6, <1>7, <1>8, <1>10, <1>11 DEF IInv

\* wait4 with interrupts off: it reaps, or it goes to sleep having seen that no
\* child is a zombie.
LEMMA Wait4KeepsIInv == ASSUME IInv, NEW t \in Pid, Wait4(t, AnyPid) PROVE IInv'
<1>1. /\ current = t /\ t \in User /\ pc[t] = "run" /\ state[t] = "RUNNING" /\ t # Idle
      /\ want' = want
  <2>1. /\ current = t /\ t \in User /\ pc[t] = "run" /\ state[t] = "RUNNING" /\ t # Idle
    <3>1. current = t /\ t \in User /\ pc[t] = "run"
      BY Zenon DEF Wait4, InUserMode
    <3>2. state[t] = "RUNNING"
      BY Zenon, <3>1 DEF IInv, OnePlace
    <3>3. t # Idle
      BY <3>1, SchedAssumption DEF User, Idle
    <3> QED BY Zenon, <3>1, <3>2, <3>3
  <2>2. want' = [want EXCEPT ![t] = AnyPid] /\ want[t] = AnyPid
    BY ZenonT(30) DEF Wait4, IInv
  <2>3. want' = want
    BY ZenonT(30), <2>2 DEF IInv, TypeOK
  <2> QED BY ZenonT(30), <2>1, <2>3
<1>2. CASE ZombiesOf(t, AnyPid) # {} /\ Reap(t, AnyPid)
  BY ZenonT(30), <1>1, <1>2, ReapKeepsIInv
<1>3. CASE /\ ZombiesOf(t, AnyPid) = {}
           /\ block_on' = [block_on EXCEPT ![t] = 0]
           /\ blocked_list' = blocked_list \cup {t}
           /\ Schedule([state EXCEPT ![t] = "BLOCKED"], runqueue, [pc EXCEPT ![t] = "find"])
           /\ UNCHANGED <<ppid, next_pid, ticks, need_resched>>
  <2> DEFINE st == [state EXCEPT ![t] = "BLOCKED"]
             p == [pc EXCEPT ![t] = "find"]
  <2>1. Schedule(st, runqueue, p)
    BY ZenonT(30), <1>3
  <2>2. /\ st \in [Pid -> States] /\ p \in [Pid -> Pcs]
        /\ \A u \in Pid : /\ st[u] = IF u = t THEN "BLOCKED" ELSE state[u]
                          /\ p[u] = IF u = t THEN "find" ELSE pc[u]
    BY ZenonT(30) DEF IInv, TypeOK, States, Pcs
  <2> HIDE DEF st, p
  <2>3. Idle \in Pid /\ state[Idle] = "READY" /\ Idle \in Queued
    BY SMTT(30), <1>1, SchedAssumption DEF IInv, OnePlace, Idle, Pid
  <2>4. runqueue # <<>>
    BY SMTT(30), <2>3 DEF Queued, Range
  <2>5. Before(st, runqueue, p)
    BY SMTT(30), <1>1, <2>2 DEF Before, IInv, TypeOK, OnePlace, Queued
  <2>6. After(st, p)
    BY ZenonT(30), <2>1, <2>4, <2>5, ScheduleFacts
  <2>7. WaitInv(st, p, blocked_list')
    <3>1. WaitInv(state, pc, blocked_list)
      BY ZenonT(30), WaitInvFacts
    <3>2. \A z \in Pid : st[z] = "ZOMBIE" <=> state[z] = "ZOMBIE"
      BY ZenonT(30), <1>1, <2>2
    <3>3. \A z \in Pid : ~(state[z] = "ZOMBIE" /\ ppid[z] = t)
      BY ZenonT(30), <1>3 DEF ZombiesOf
    <3>4. st[Idle] \in {"READY", "RUNNING"}
      BY ZenonT(30), <1>1, <2>2, <2>3
    <3>5. \A u \in Pid : u \in blocked_list' <=> u = t \/ u \in blocked_list
      BY ZenonT(30), <1>3
    <3>6. \A u \in Pid : /\ p[u] \in {"fresh", "run", "masked", "find"}
                         /\ p[u] = "find" => u \in User
                         /\ p[u] = "find" => st[u] \in {"READY", "RUNNING", "BLOCKED"}
                         /\ st[u] = "BLOCKED" => p[u] = "find"
                         /\ st[u] = "BLOCKED" <=> u \in blocked_list'
      <4> SUFFICES ASSUME NEW u \in Pid
                   PROVE  /\ p[u] \in {"fresh", "run", "masked", "find"}
                          /\ p[u] = "find" => u \in User
                          /\ p[u] = "find" => st[u] \in {"READY", "RUNNING", "BLOCKED"}
                          /\ st[u] = "BLOCKED" => p[u] = "find"
                          /\ st[u] = "BLOCKED" <=> u \in blocked_list'
        BY ZenonT(30)
      <4>1. CASE u = t
        BY ZenonT(30), <1>1, <2>2, <3>5, <4>1
      <4>2. CASE u # t
        BY SMTT(30), <2>2, <3>1, <3>5, <4>2 DEF WaitInv
      <4> QED BY ZenonT(30), <4>1, <4>2
    <3>7. \A u \in blocked_list' : \A z \in Pid : ~(st[z] = "ZOMBIE" /\ ppid[z] = u)
      <4>1. \A u \in blocked_list : \A z \in Pid : ~(state[z] = "ZOMBIE" /\ ppid[z] = u)
        BY Zenon, <3>1 DEF WaitInv
      <4>2. \A u \in blocked_list' : u = t \/ u \in blocked_list
        BY ZenonT(30), <1>3
      <4> QED BY Zenon, <3>2, <3>3, <4>1, <4>2
    <3>8. \A u \in Pid : p[u] = "find" /\ u \notin blocked_list'
                         => \E z \in Pid : st[z] = "ZOMBIE" /\ ppid[z] = u
      <4> SUFFICES ASSUME NEW u \in Pid, p[u] = "find", u \notin blocked_list'
                   PROVE  \E z \in Pid : st[z] = "ZOMBIE" /\ ppid[z] = u
        BY Zenon
      <4>1. pc[u] = "find" /\ u \notin blocked_list
        BY ZenonT(30), <2>2, <3>5
      <4>2. PICK z \in Pid : state[z] = "ZOMBIE" /\ ppid[z] = u
        BY ZenonT(30), <3>1, <4>1 DEF WaitInv
      <4> QED BY ZenonT(30), <3>2, <4>2
    <3> QED BY Zenon, <3>4, <3>6, <3>7, <3>8 DEF WaitInv
  <2>8. \A u \in Pid : st[u] = "NONE" <=> u >= next_pid
    BY ZenonT(30), <1>1, <2>2 DEF IInv, OnePlace
  <2>9. /\ block_on' \in [Pid -> {0}]
        /\ want' \in [Pid -> {AnyPid}]
        /\ blocked_list' \in SUBSET Pid
        /\ ticks' \in 0 .. TIME_SLICE - 1
        /\ need_resched' \in BOOLEAN
    BY ZenonT(30), <1>1, <1>3 DEF IInv, TypeOK
  <2> QED BY Zenon, <1>3, <2>6, <2>7, <2>8, <2>9, SwitchKeepsIInv
<1> QED BY SMTT(30), <1>2, <1>3 DEF Wait4

\* wait4 after its sleep, with interrupts on: there is a zombie to reap.
LEMMA RewaitKeepsIInv == ASSUME IInv, NEW t \in Pid, Rewait(t) PROVE IInv'
<1>1. /\ current = t /\ pc[t] = "find" /\ t \in User /\ want[t] = AnyPid /\ want' = want
      /\ t \notin blocked_list
  BY ZenonT(30) DEF Rewait, IInv, OnePlace
<1>2. ZombiesOf(t, AnyPid) # {}
  BY ZenonT(30), <1>1 DEF IInv, WokenFindsZombie
<1>3. Reap(t, AnyPid)
  BY ZenonT(30), <1>1, <1>2 DEF Rewait
<1> QED BY ZenonT(30), <1>1, <1>2, <1>3, ReapKeepsIInv

\* Every step of the scheduler keeps the inductive invariant.
LEMMA NextKeepsIInv == IInv /\ [Next]_vars => IInv'
<1> SUFFICES ASSUME IInv, [Next]_vars PROVE IInv'
  BY Zenon
<1>1. CASE SchedTick
  BY ZenonT(30), <1>1, TickKeepsIInv
<1>2. CASE \E t \in Pid : \/ TaskYield(t) \/ DoFork(t) \/ SysExit(t) \/ TaskExit(t)
                          \/ Wait4(t, AnyPid) \/ Rewait(t)
  BY ZenonT(30), <1>2, YieldKeepsIInv, ForkKeepsIInv, ExitKeepsIInv, TaskExitKeepsIInv,
     Wait4KeepsIInv, RewaitKeepsIInv
<1>3. CASE UNCHANGED vars
  <2>1. TypeOK'
    BY ZenonT(30), <1>3 DEF IInv, TypeOK, vars
  <2>2. /\ OnePlace' = OnePlace
        /\ CpuKeepsRunning' = CpuKeepsRunning
        /\ NoSleepOverZombie' = NoSleepOverZombie
        /\ WokenFindsZombie' = WokenFindsZombie
    BY <1>3 DEF vars, OnePlace, Queued, CpuKeepsRunning, NoSleepOverZombie,
                WokenFindsZombie, ZombiesOf
  <2> QED BY ZenonT(30), <1>3, <2>1, <2>2 DEF IInv, vars
<1> QED BY ZenonT(30), <1>1, <1>2, <1>3 DEF Next

\* IInv holds in every reachable state.
THEOREM Invariance == Spec => []IInv
BY InitIInv, NextKeepsIInv, PTL DEF Spec

\* Type correctness of the scheduler's variables.
THEOREM TypeCorrect == Spec => []TypeOK
<1>1. IInv => TypeOK
  BY DEF IInv
<1> QED BY <1>1, Invariance, PTL

\* No task is lost from, or linked twice into, the run queue and the blocked
\* list, for any number of processes and kernel threads.
THEOREM TasksHaveOnePlace == Spec => []OnePlace
<1>1. IInv => OnePlace
  BY ZenonT(30) DEF IInv
<1> QED BY <1>1, Invariance, PTL

\* schedule() never halts the machine and never switches a task to itself.
THEOREM CpuNeverStops == Spec => []CpuKeepsRunning
<1>1. IInv => CpuKeepsRunning
  BY ZenonT(30) DEF IInv
<1> QED BY <1>1, Invariance, PTL

\* No wake-up of exit is lost on a parent in wait4 with interrupts off: none
\* sleeps while a child it waits for is a zombie.
THEOREM NoLostWakeup == Spec => []NoSleepOverZombie
<1>1. IInv => NoSleepOverZombie
  BY ZenonT(30) DEF IInv
<1> QED BY <1>1, Invariance, PTL

\* A parent in wait4(-1) that task_wakeup_children has put on the run queue finds
\* a zombie when it comes to run, so it sleeps at most once in a call.
THEOREM WakeupIsNotSpurious == Spec => []WokenFindsZombie
<1>1. IInv => WokenFindsZombie
  BY ZenonT(30) DEF IInv
<1> QED BY <1>1, Invariance, PTL

\* The kfree deferred by schedule() never hits a stack in use or in a queue.
THEOREM FreeIsSafe == Spec => []FreedIsNotScheduled
<1>1. IInv => FreedIsNotScheduled
  BY ZenonT(30) DEF IInv, TypeOK, OnePlace, FreedIsNotScheduled
<1> QED BY <1>1, Invariance, PTL

-----------------------------------------------------------------------------
(* The scheduler implements the process table of module Proc: ticks, queues  *)
(* and context switches change nothing a process can see, and fork, exit and *)
(* wait4 do what the table allows.                                           *)

Alive == {"READY", "RUNNING", "BLOCKED"}

\* Only user processes have a parent (task_create sets none).
ParentInv == \A t \in Pid : ppid[t] # NoTask => t \in User

\* What the status of a process says of the scheduler's variables.
StatusInv ==
    /\ ProcStatus = [t \in User |-> ProcStatus[t]]
    /\ \A t \in User : ProcStatus[t] = IF state[t] = "NONE" THEN "none"
                                       ELSE IF state[t] = "ZOMBIE" THEN "exited"
                                       ELSE IF state[t] = "DEAD" THEN "reaped"
                                       ELSE IF pc[t] = "find" THEN "waiting" ELSE "live"

-----------------------------------------------------------------------------
\* User processes are tasks, and none of them is the idle task or a kernel thread.
LEMMA UserFacts ==
    /\ User \subseteq Pid
    /\ User \cap KThread = {}
    /\ NKThreads + 2 \in User
    /\ NoTask \notin Pid
  BY SchedAssumption DEF User, Pid, KThread, NoTask

\* What the process table shows of a process follows from its state.
LEMMA StatusFacts == IInv => StatusInv
  <1> SUFFICES ASSUME IInv
               PROVE  StatusInv
    OBVIOUS
  <1>1. ProcStatus = [t \in User |-> ProcStatus[t]]
    BY ZenonT(30) DEF ProcStatus
  <1>2. ASSUME NEW t \in User
        PROVE  ProcStatus[t] = IF state[t] = "NONE" THEN "none"
                               ELSE IF state[t] = "ZOMBIE" THEN "exited"
                               ELSE IF state[t] = "DEAD" THEN "reaped"
                               ELSE IF pc[t] = "find" THEN "waiting" ELSE "live"
    <2>1. t \in Pid /\ state[t] \in States
      BY ZenonT(30), UserFacts DEF IInv, TypeOK
    <2> QED
      BY ZenonT(30), <2>1 DEF ProcStatus, States
  <1> QED
    BY ZenonT(30), <1>1, <1>2 DEF StatusInv

\* What schedule() leaves of the states and program counters its caller hands
\* over: it only moves tasks between READY and RUNNING.
LEMMA SwitchIsInvisible ==
    ASSUME NEW st \in [Pid -> States], NEW rq \in Seq(Pid), NEW p \in [Pid -> Pcs],
           \A u \in Range(rq) : st[u] = "READY",
           Schedule(st, rq, p), NEW u \in Pid
    PROVE  /\ st[u] \notin {"READY", "RUNNING"} => state'[u] = st[u]
           /\ st[u] \in {"READY", "RUNNING"} => state'[u] \in {"READY", "RUNNING"}
           /\ pc'[u] = "find" <=> p[u] = "find"
  <1>1. CASE rq = <<>>
    BY ZenonT(30), <1>1 DEF Schedule
  <1>2. CASE rq # <<>>
    <2>1. Head(rq) \in Pid /\ Head(rq) \in Range(rq)
      BY <1>2 DEF Range
    <2>2. /\ state' = [t \in Pid |-> IF t = Head(rq) THEN "RUNNING"
                                     ELSE IF t = current /\ Requeues(st[current]) THEN "READY"
                                     ELSE st[t]]
          /\ pc' = IF p[Head(rq)] = "fresh"
                   THEN [p EXCEPT ![Head(rq)] = Entry(Head(rq), current, st, p)] ELSE p
      BY ZenonT(30), <1>2 DEF Schedule
    <2>3. Entry(Head(rq), current, st, p) # "find"
      BY Zenon DEF Entry
    <2> QED
      BY ZenonT(30), <2>1, <2>2, <2>3 DEF Requeues
  <1> QED
    BY ZenonT(30), <1>1, <1>2

\* The queued tasks are READY.
LEMMA QueueIsReady == IInv => runqueue \in Seq(Pid) /\ \A u \in Range(runqueue) : state[u] = "READY"
  <1> SUFFICES ASSUME IInv
               PROVE  runqueue \in Seq(Pid) /\ \A u \in Range(runqueue) : state[u] = "READY"
    BY Zenon
  <1>1. runqueue \in Seq(Pid)
    BY ZenonT(30) DEF IInv, TypeOK
  <1>2. Range(runqueue) \subseteq Pid
    BY <1>1 DEF Range
  <1> QED
    BY ZenonT(30), <1>1, <1>2 DEF IInv, OnePlace, Queued

-----------------------------------------------------------------------------
(* What each handler does to the processes.                                 *)

\* A step that a process does not notice.
Unseen(u) ==
    /\ state'[u] = state[u] \/ (state[u] \in Alive /\ state'[u] \in Alive)
    /\ pc'[u] = "find" <=> pc[u] = "find"

\* A process that a step does not touch looks the same in the process table.
LEMMA UnseenKeepsStatus ==
    ASSUME StatusInv, StatusInv', NEW u \in User, Unseen(u)
    PROVE  ProcStatus'[u] = ProcStatus[u]
  BY DEF StatusInv, Unseen, Alive

\* A step that no process notices is a stuttering step of the table.
LEMMA UnseenStutters ==
    ASSUME StatusInv, StatusInv', \A u \in User : Unseen(u), ppid' = ppid
    PROVE  UNCHANGED Abs!procVars
  <1>1. \A u \in User : ProcStatus'[u] = ProcStatus[u]
    BY ZenonT(30), UnseenKeepsStatus
  <1>2. ProcStatus' = ProcStatus
    BY ZenonT(30), <1>1 DEF StatusInv
  <1> QED
    BY ZenonT(30), <1>2 DEF Abs!procVars

\* The tick.
LEMMA TickIsUnseen ==
    ASSUME IInv, SchedTick, NEW u \in Pid
    PROVE  Unseen(u)
  <1>1. CASE UNCHANGED <<state, pc>>
    BY ZenonT(30), <1>1 DEF Unseen
  <1>2. CASE Schedule(state, runqueue, pc)
    <2>1. state \in [Pid -> States] /\ pc \in [Pid -> Pcs]
      BY DEF IInv, TypeOK
    <2>2. /\ state[u] \notin {"READY", "RUNNING"} => state'[u] = state[u]
          /\ state[u] \in {"READY", "RUNNING"} => state'[u] \in {"READY", "RUNNING"}
          /\ pc'[u] = "find" <=> pc[u] = "find"
      BY ZenonT(30), <1>2, <2>1, QueueIsReady, SwitchIsInvisible
    <2> QED
      BY ZenonT(30), <2>2 DEF Unseen, Alive
  <1> QED
    BY ZenonT(30), <1>1, <1>2 DEF SchedTick

\* The end of a kernel thread.
LEMMA TaskExitIsUnseen ==
    ASSUME IInv, NEW t \in Pid, TaskExit(t), NEW u \in Pid \ {t}
    PROVE  Unseen(u)
  <1> DEFINE st == [state EXCEPT ![t] = "DEAD"]
  <1>1. /\ current = t /\ t \in KThread /\ Schedule(st, runqueue, pc)
        /\ u # t /\ state[t] = "RUNNING"
    BY ZenonT(30) DEF TaskExit, IInv, OnePlace
  <1>2. /\ st \in [Pid -> States] /\ pc \in [Pid -> Pcs]
        /\ \A v \in Pid \ {t} : st[v] = state[v]
    BY ZenonT(30) DEF IInv, TypeOK, States
  <1> HIDE DEF st
  <1>3. runqueue \in Seq(Pid) /\ \A v \in Range(runqueue) : v \in Pid /\ st[v] = "READY"
    <2>1. runqueue \in Seq(Pid) /\ \A v \in Range(runqueue) : state[v] = "READY"
      BY ZenonT(30), QueueIsReady
    <2>2. Range(runqueue) \subseteq Pid
      BY <2>1 DEF Range
    <2> QED
      BY ZenonT(30), <1>1, <1>2, <2>1, <2>2
  <1>4. /\ st[u] \notin {"READY", "RUNNING"} => state'[u] = st[u]
        /\ st[u] \in {"READY", "RUNNING"} => state'[u] \in {"READY", "RUNNING"}
        /\ pc'[u] = "find" <=> pc[u] = "find"
    BY ZenonT(30), <1>1, <1>2, <1>3, SwitchIsInvisible
  <1> QED
    BY ZenonT(30), <1>1, <1>2, <1>4 DEF Unseen, Alive

\* exit: the caller becomes a zombie, and that a waiting parent is woken is not
\* seen before its wait4 returns.
LEMMA ExitEffect ==
    ASSUME IInv, NEW t \in Pid, SysExit(t)
    PROVE  /\ t \in User /\ state[t] = "RUNNING" /\ pc[t] = "run"
           /\ state'[t] = "ZOMBIE"
           /\ \A u \in Pid \ {t} : Unseen(u)
  <1> DEFINE W == WokenBy(t)
             st == [u \in Pid |-> IF u = t THEN "ZOMBIE" ELSE IF u \in W THEN "READY" ELSE state[u]]
             rq == runqueue \o AsSeq(W)
  <1>1. t \in User /\ pc[t] = "run" /\ state[t] = "RUNNING" /\ Schedule(st, rq, pc)
    BY ZenonT(30) DEF SysExit, InUserMode, IInv, OnePlace
  <1>2. W = blocked_list \cap {ppid[t]} /\ \A u \in W : u \in Pid /\ state[u] = "BLOCKED"
    BY WokenFacts
  <1> HIDE DEF W
  <1>3. /\ st \in [Pid -> States] /\ pc \in [Pid -> Pcs]
        /\ \A u \in Pid : st[u] = IF u = t THEN "ZOMBIE" ELSE IF u \in W THEN "READY" ELSE state[u]
    BY ZenonT(30) DEF IInv, TypeOK, States
  <1>4. /\ runqueue \in Seq(Pid) /\ Range(runqueue) \subseteq Pid
        /\ \A u \in Range(runqueue) : state[u] = "READY"
    BY QueueIsReady DEF Range
  <1>5. rq \in Seq(Pid) /\ Range(rq) = Range(runqueue) \cup W
    <2>1. W \in SUBSET Pid /\ \A a, b \in W : a = b
      BY ZenonT(30), <1>2
    <2> QED
      BY SMTT(30), <1>4, <2>1, WakeFacts
  <1> HIDE DEF st, rq
  <1>6. \A u \in Range(rq) : st[u] = "READY"
    BY ZenonT(30), <1>1, <1>2, <1>3, <1>4, <1>5
  <1>7. \A u \in Pid : /\ st[u] \notin {"READY", "RUNNING"} => state'[u] = st[u]
                       /\ st[u] \in {"READY", "RUNNING"} => state'[u] \in {"READY", "RUNNING"}
                       /\ pc'[u] = "find" <=> pc[u] = "find"
    BY ZenonT(30), <1>1, <1>3, <1>5, <1>6, SwitchIsInvisible
  <1>8. state'[t] = "ZOMBIE"
    BY ZenonT(30), <1>3, <1>7
  <1>9. ASSUME NEW u \in Pid \ {t}
        PROVE  Unseen(u)
    BY ZenonT(30), <1>2, <1>3, <1>7 DEF Unseen, Alive
  <1> QED
    BY ZenonT(30), <1>1, <1>8, <1>9

\* wait4 goes to sleep.
LEMMA SleepEffect ==
    ASSUME IInv, NEW t \in User, current = t,
           Schedule([state EXCEPT ![t] = "BLOCKED"], runqueue, [pc EXCEPT ![t] = "find"])
    PROVE  /\ state'[t] = "BLOCKED" /\ pc'[t] = "find"
           /\ \A u \in Pid \ {t} : Unseen(u)
  <1> DEFINE st == [state EXCEPT ![t] = "BLOCKED"]
             p == [pc EXCEPT ![t] = "find"]
  <1>1. t \in Pid /\ state[t] = "RUNNING" /\ Schedule(st, runqueue, p)
    BY ZenonT(30), UserFacts DEF IInv, OnePlace
  <1>2. /\ st \in [Pid -> States] /\ p \in [Pid -> Pcs]
        /\ \A u \in Pid : /\ st[u] = IF u = t THEN "BLOCKED" ELSE state[u]
                          /\ p[u] = IF u = t THEN "find" ELSE pc[u]
    <2>1. state \in [Pid -> States] /\ pc \in [Pid -> Pcs]
      BY ZenonT(30) DEF IInv, TypeOK
    <2>2. "BLOCKED" \in States /\ "find" \in Pcs
      BY Zenon DEF States, Pcs
    <2> QED
      BY ZenonT(30), <1>1, <2>1, <2>2
  <1> HIDE DEF st, p
  <1>3. runqueue \in Seq(Pid) /\ \A u \in Range(runqueue) : st[u] = "READY"
    <2>1. runqueue \in Seq(Pid) /\ \A u \in Range(runqueue) : state[u] = "READY"
      BY ZenonT(30), QueueIsReady
    <2>2. Range(runqueue) \subseteq Pid
      BY <2>1 DEF Range
    <2> QED
      BY ZenonT(30), <1>1, <1>2, <2>1, <2>2
  <1>4. \A u \in Pid : /\ st[u] \notin {"READY", "RUNNING"} => state'[u] = st[u]
                       /\ st[u] \in {"READY", "RUNNING"} => state'[u] \in {"READY", "RUNNING"}
                       /\ pc'[u] = "find" <=> p[u] = "find"
    BY ZenonT(30), <1>1, <1>2, <1>3, SwitchIsInvisible
  <1>5. ASSUME NEW u \in Pid \ {t}
        PROVE  Unseen(u)
    BY ZenonT(30), <1>2, <1>4 DEF Unseen, Alive
  <1> QED
    BY ZenonT(30), <1>1, <1>2, <1>4, <1>5

\* wait4 returns a zombie.
LEMMA ReapEffect ==
    ASSUME IInv, ParentInv, NEW t \in User, current = t,
           ZombiesOf(t, AnyPid) # {}, Reap(t, AnyPid)
    PROVE  \E z \in User : /\ z # t /\ state[z] = "ZOMBIE" /\ ppid[z] = t
                           /\ state'[z] = "DEAD"
                           /\ state'[t] = "RUNNING" /\ pc'[t] = "run"
                           /\ \A u \in Pid \ {t, z} : Unseen(u)
                           /\ ppid' = ppid
  <1> DEFINE z == TaskFindZombie(t, AnyPid)
  <1>1. z \in Pid /\ state[z] = "ZOMBIE" /\ ppid[z] = t
    <2>1. ZombiesOf(t, AnyPid) \in SUBSET (1 .. MaxPid)
      BY DEF ZombiesOf, Pid
    <2>2. \E x \in ZombiesOf(t, AnyPid) : \A y \in ZombiesOf(t, AnyPid) : y <= x
      BY Zenon, <2>1, LargestExists, SchedAssumption
    <2>3. z \in ZombiesOf(t, AnyPid)
      BY ZenonT(30), <2>2 DEF TaskFindZombie
    <2> QED
      BY ZenonT(30), <2>3 DEF ZombiesOf
  <1>2. state' = [state EXCEPT ![z] = "DEAD"] /\ pc' = [pc EXCEPT ![t] = "run"] /\ ppid' = ppid
    BY ZenonT(30) DEF Reap
  <1> HIDE DEF z
  <1>3. t \in Pid /\ t # NoTask /\ state[t] = "RUNNING"
    BY ZenonT(30), UserFacts DEF IInv, OnePlace
  <1>4. z \in User /\ z # t
    BY ZenonT(30), <1>1, <1>3 DEF ParentInv
  <1>5. \A u \in Pid : /\ state'[u] = IF u = z THEN "DEAD" ELSE state[u]
                       /\ pc'[u] = IF u = t THEN "run" ELSE pc[u]
    BY ZenonT(30), <1>1, <1>2, <1>3 DEF IInv, TypeOK
  <1>6. \A u \in Pid \ {t, z} : Unseen(u)
    BY ZenonT(30), <1>5 DEF Unseen
  <1> QED
    BY ZenonT(30), <1>1, <1>2, <1>3, <1>4, <1>5, <1>6

-----------------------------------------------------------------------------
(* The refinement.                                                          *)

\* The boot state is an initial state of the abstract specification.
LEMMA InitRefines == Init => Abs!Init /\ ParentInv
  <1> SUFFICES ASSUME Init
               PROVE  Abs!Init /\ ParentInv
    OBVIOUS
  <1>1. StatusInv
    BY ZenonT(30), InitIInv, StatusFacts
  <1>2. \A t \in User : ProcStatus[t] = IF t = NKThreads + 2 THEN "live" ELSE "none"
    <2> SUFFICES ASSUME NEW t \in User
                 PROVE  ProcStatus[t] = IF t = NKThreads + 2 THEN "live" ELSE "none"
      BY Zenon
    <2>1. /\ t \in Pid /\ t \in Nat /\ t >= NKThreads + 2
          /\ pc[t] # "find"
          /\ state[t] = IF t = NKThreads + 2 THEN (IF t = 2 THEN "RUNNING" ELSE "READY") ELSE "NONE"
      BY SMTT(30), UserFacts, SchedAssumption DEF Init, User
    <2> QED
      BY ZenonT(30), <1>1, <2>1 DEF StatusInv
  <1>3. \A t \in Pid : ppid[t] = NoTask
    BY ZenonT(30) DEF Init
  <1>4. ProcStatus = [t \in User |-> IF t = NKThreads + 2 THEN "live" ELSE "none"]
    BY ZenonT(30), <1>1, <1>2 DEF StatusInv
  <1>5. [t \in User |-> ppid[t]] = [t \in User |-> Abs!NoParent]
    BY ZenonT(30), <1>3, UserFacts DEF Abs!NoParent, NoTask
  <1> QED
    BY ZenonT(30), <1>3, <1>4, <1>5 DEF Abs!Init, ParentInv

\* fork is an abstract fork.
LEMMA ForkRefines ==
    ASSUME IInv, StatusInv, StatusInv', ParentInv, NEW t \in Pid, DoFork(t)
    PROVE  Abs!Next /\ ParentInv'
  <1>0. PICK c \in Nat : c = next_pid
    BY SMTT(30) DEF IInv, TypeOK
  <1>1. /\ t \in User /\ current = t /\ pc[t] = "run" /\ state[t] = "RUNNING"
        /\ c <= MaxPid
        /\ state' = [state EXCEPT ![c] = "READY"]
        /\ ppid' = [ppid EXCEPT ![c] = t]
        /\ pc' = pc
    BY <1>0 DEF DoFork, InUserMode, IInv, OnePlace, TypeOK
  <1>2. c \in User /\ c \in Pid /\ state[c] = "NONE" /\ c # t
    <2>1. t < c /\ NKThreads + 2 <= t /\ t \in Nat
      BY SMTT(30), <1>0, <1>1, SchedAssumption DEF IInv, OnePlace, User, Pid
    <2>2. c \in User /\ c \in Pid
      BY SMTT(30), <1>1, <2>1, SchedAssumption DEF User, Pid
    <2>3. state[c] = "NONE"
      BY SMTT(30), <1>0, <1>1, <2>2 DEF IInv, OnePlace
    <2>4. c # t
      <3>1. \A m, n \in Nat : m < n => m # n
        OBVIOUS
      <3> QED
        BY Zenon, <2>1, <3>1
    <2> QED
      BY Zenon, <2>2, <2>3, <2>4
  <1>3. pc[c] # "find"
    BY ZenonT(30), <1>2 DEF IInv
  <1>4. ParentInv'
    BY ZenonT(30), <1>1, <1>2 DEF ParentInv, IInv, TypeOK
  <1>5. \A u \in Pid : state'[u] = IF u = c THEN "READY" ELSE state[u]
    BY ZenonT(30), <1>1, <1>2 DEF IInv, TypeOK
  <1>6. \A u \in User \ {c} : ProcStatus'[u] = ProcStatus[u]
    BY ZenonT(30), <1>1, <1>5, UserFacts, UnseenKeepsStatus DEF Unseen
  <1>7. ProcStatus[t] = "live" /\ ProcStatus[c] = "none" /\ ProcStatus'[c] = "live"
    BY SMTT(30), <1>1, <1>2, <1>3, <1>5 DEF StatusInv
  <1>8. ProcStatus' = [ProcStatus EXCEPT ![c] = "live"]
    BY ZenonT(30), <1>2, <1>6, <1>7 DEF StatusInv
  <1>9. [u \in User |-> ppid'[u]] = [[u \in User |-> ppid[u]] EXCEPT ![c] = t]
    BY Zenon, <1>1, <1>2, UserFacts DEF IInv, TypeOK
  <1>10. Abs!Fork(t, c)
    BY ZenonT(30), <1>7, <1>8, <1>9 DEF Abs!Fork
  <1> QED
    BY ZenonT(30), <1>1, <1>2, <1>4, <1>10 DEF Abs!Next

\* exit is an abstract exit.
LEMMA ExitRefines ==
    ASSUME IInv, StatusInv, StatusInv', NEW t \in Pid, SysExit(t)
    PROVE  Abs!Next
  <1>1. /\ t \in User /\ state[t] = "RUNNING" /\ pc[t] = "run"
        /\ state'[t] = "ZOMBIE"
        /\ \A u \in Pid \ {t} : Unseen(u)
    BY ZenonT(30), ExitEffect
  <1>2. ppid' = ppid
    BY ZenonT(30) DEF SysExit
  <1>3. \A u \in User \ {t} : ProcStatus'[u] = ProcStatus[u]
    BY ZenonT(30), <1>1, UserFacts, UnseenKeepsStatus
  <1>4. ProcStatus[t] = "live" /\ ProcStatus'[t] = "exited"
    BY ZenonT(30), <1>1 DEF StatusInv
  <1>5. ProcStatus' = [ProcStatus EXCEPT ![t] = "exited"]
    BY ZenonT(30), <1>1, <1>3, <1>4 DEF StatusInv
  <1>6. Abs!Exit(t)
    BY ZenonT(30), <1>2, <1>4, <1>5 DEF Abs!Exit
  <1> QED
    BY ZenonT(30), <1>1, <1>6 DEF Abs!Next

\* wait4 that finds a zombie is an abstract reap.
LEMMA ReapRefines ==
    ASSUME IInv, StatusInv, StatusInv', ParentInv, NEW t \in User, current = t,
           ZombiesOf(t, AnyPid) # {}, Reap(t, AnyPid)
    PROVE  Abs!Next
  <1>1. PICK z \in User : /\ z # t /\ state[z] = "ZOMBIE" /\ ppid[z] = t
                          /\ state'[z] = "DEAD"
                          /\ state'[t] = "RUNNING" /\ pc'[t] = "run"
                          /\ \A u \in Pid \ {t, z} : Unseen(u)
                          /\ ppid' = ppid
    BY ZenonT(30), ReapEffect
  <1>2. \A u \in User \ {t, z} : ProcStatus'[u] = ProcStatus[u]
    BY ZenonT(30), <1>1, UserFacts, UnseenKeepsStatus
  <1>3. state[t] = "RUNNING"
    BY ZenonT(30), UserFacts DEF IInv, OnePlace
  <1>4. /\ ProcStatus[t] \in {"live", "waiting"} /\ ProcStatus'[t] = "live"
        /\ ProcStatus[z] = "exited" /\ ProcStatus'[z] = "reaped"
    BY ZenonT(30), <1>1, <1>3 DEF StatusInv
  <1>5. ProcStatus' = [ProcStatus EXCEPT ![t] = "live", ![z] = "reaped"]
    BY ZenonT(30), <1>1, <1>2, <1>4 DEF StatusInv
  <1>6. z \in Abs!Exited(t)
    BY ZenonT(30), <1>1, <1>4 DEF Abs!Exited
  <1>7. Abs!Reap(t)
    BY Zenon, <1>1, <1>4, <1>5, <1>6 DEF Abs!Reap
  <1> QED
    BY ZenonT(30), <1>7 DEF Abs!Next

\* wait4 that goes to sleep is an abstract wait.
LEMMA SleepRefines ==
    ASSUME IInv, StatusInv, StatusInv', NEW t \in User, current = t, pc[t] = "run",
           ZombiesOf(t, AnyPid) = {}, ppid' = ppid,
           Schedule([state EXCEPT ![t] = "BLOCKED"], runqueue, [pc EXCEPT ![t] = "find"])
    PROVE  Abs!Next
  <1>1. /\ state'[t] = "BLOCKED" /\ pc'[t] = "find"
        /\ \A u \in Pid \ {t} : Unseen(u)
    BY ZenonT(30), SleepEffect
  <1>2. \A u \in User \ {t} : ProcStatus'[u] = ProcStatus[u]
    BY ZenonT(30), <1>1, UserFacts, UnseenKeepsStatus
  <1>3. state[t] = "RUNNING"
    BY ZenonT(30), UserFacts DEF IInv, OnePlace
  <1>4. ProcStatus[t] = "live" /\ ProcStatus'[t] = "waiting"
    BY ZenonT(30), <1>1, <1>3 DEF StatusInv
  <1>5. ProcStatus' = [ProcStatus EXCEPT ![t] = "waiting"]
    BY ZenonT(30), <1>2, <1>4 DEF StatusInv
  <1>6. Abs!Exited(t) = {}
    <2>1. \A c \in User : ProcStatus[c] = "exited" => state[c] = "ZOMBIE"
      BY ZenonT(30) DEF StatusInv
    <2> QED
      BY ZenonT(30), <2>1, UserFacts DEF Abs!Exited, ZombiesOf
  <1>7. Abs!Sleep(t)
    BY ZenonT(30), <1>4, <1>5, <1>6 DEF Abs!Sleep
  <1> QED
    BY ZenonT(30), <1>7 DEF Abs!Next

\* Every step is an abstract step or a stutter.
LEMMA StepRefines ==
    ASSUME IInv, StatusInv, StatusInv', ParentInv, [Next]_vars
    PROVE  [Abs!Next]_(Abs!procVars) /\ ParentInv'
  <1>1. ASSUME ppid' = ppid
        PROVE  ParentInv'
    BY ZenonT(30), <1>1 DEF ParentInv
  <1>2. CASE SchedTick
    <2>1. ppid' = ppid
      BY ZenonT(30), <1>2 DEF SchedTick
    <2> QED
      BY ZenonT(30), <1>1, <1>2, <2>1, UserFacts, TickIsUnseen, UnseenStutters
  <1>3. ASSUME NEW t \in Pid, TaskYield(t)
        PROVE  [Abs!Next]_(Abs!procVars) /\ ParentInv'
    <2>1. UNCHANGED <<ppid, state, pc>>
      BY ZenonT(30), <1>3 DEF TaskYield
    <2>2. \A u \in User : Unseen(u)
      BY ZenonT(30), <2>1 DEF Unseen
    <2> QED
      BY ZenonT(30), <1>1, <2>1, <2>2, UnseenStutters
  <1>4. ASSUME NEW t \in Pid, DoFork(t)
        PROVE  [Abs!Next]_(Abs!procVars) /\ ParentInv'
    BY ZenonT(30), <1>4, ForkRefines
  <1>5. ASSUME NEW t \in Pid, SysExit(t)
        PROVE  [Abs!Next]_(Abs!procVars) /\ ParentInv'
    <2>1. ppid' = ppid
      BY <1>5 DEF SysExit
    <2> QED
      BY ZenonT(30), <1>1, <1>5, <2>1, ExitRefines
  <1>6. ASSUME NEW t \in Pid, TaskExit(t)
        PROVE  [Abs!Next]_(Abs!procVars) /\ ParentInv'
    <2>1. ppid' = ppid
      BY ZenonT(30), <1>6 DEF TaskExit
    <2>2. User \subseteq Pid \ {t}
      BY ZenonT(30), <1>6, UserFacts DEF TaskExit
    <2> QED
      BY ZenonT(30), <1>1, <1>6, <2>1, <2>2, TaskExitIsUnseen, UnseenStutters
  <1>7. ASSUME NEW t \in Pid, Wait4(t, AnyPid)
        PROVE  [Abs!Next]_(Abs!procVars) /\ ParentInv'
    <2>1. t \in User /\ current = t /\ pc[t] = "run" /\ ppid' = ppid
      BY ZenonT(30), <1>7 DEF Wait4, InUserMode, Reap
    <2>2. CASE ZombiesOf(t, AnyPid) # {}
      BY ZenonT(30), <1>1, <1>7, <2>1, <2>2, ReapRefines DEF Wait4
    <2>3. CASE ZombiesOf(t, AnyPid) = {}
      BY ZenonT(30), <1>1, <1>7, <2>1, <2>3, SleepRefines DEF Wait4
    <2> QED
      BY ZenonT(30), <2>2, <2>3
  <1>8. ASSUME NEW t \in Pid, Rewait(t)
        PROVE  [Abs!Next]_(Abs!procVars) /\ ParentInv'
    <2>1. current = t /\ t \in User /\ want[t] = AnyPid /\ t \notin blocked_list /\ pc[t] = "find"
      BY ZenonT(30), <1>8 DEF Rewait, IInv, OnePlace
    <2>2. ZombiesOf(t, AnyPid) # {}
      BY ZenonT(30), <2>1 DEF IInv, WokenFindsZombie
    <2>3. Reap(t, AnyPid) /\ ppid' = ppid
      BY ZenonT(30), <1>8, <2>1, <2>2 DEF Rewait, Reap
    <2> QED
      BY ZenonT(30), <1>1, <2>1, <2>2, <2>3, ReapRefines
  <1>9. CASE UNCHANGED vars
    <2>1. UNCHANGED <<ppid, state, pc>>
      BY ZenonT(30), <1>9 DEF vars
    <2>2. \A u \in User : Unseen(u)
      BY ZenonT(30), <2>1 DEF Unseen
    <2> QED
      BY ZenonT(30), <1>1, <2>1, <2>2, UnseenStutters
  <1> QED
    BY ZenonT(30), <1>2, <1>3, <1>4, <1>5, <1>6, <1>7, <1>8, <1>9 DEF Next

\* The parent field of a kernel thread is never set.
THEOREM ParentsAreUsers == Spec => [](StatusInv /\ ParentInv)
  <1>1. Init => ParentInv
    BY ZenonT(30), InitRefines
  <1>2. IInv /\ StatusInv /\ StatusInv' /\ ParentInv /\ [Next]_vars => ParentInv'
    BY ZenonT(30), StepRefines
  <1>3. Spec => [](IInv /\ StatusInv)
    BY Invariance, StatusFacts, PTL
  <1> QED
    BY <1>1, <1>2, <1>3, PTL DEF Spec

\* What processes see of fork, exit and wait4 is what the process table allows,
\* whatever the scheduler does in between.
THEOREM SchedImplementsProc == Spec => ImplementsProc
  <1>1. Init => Abs!Init
    BY ZenonT(30), InitRefines
  <1>2. IInv /\ StatusInv /\ StatusInv' /\ ParentInv /\ [Next]_vars
            => [Abs!Next]_(Abs!procVars)
    BY ZenonT(30), StepRefines
  <1> QED
    BY <1>1, <1>2, Invariance, ParentsAreUsers, PTL DEF Spec, ImplementsProc, Abs!Spec

-----------------------------------------------------------------------------
\* Whatever the step, an exited task that is not reaped by its parent stays as it is.
LEMMA StepKeepsExited ==
    ASSUME IInv, ParentInv, [Next]_vars, NEW u \in Pid, state[u] \in {"ZOMBIE", "DEAD"}
    PROVE  state'[u] = state[u] \/ (state'[u] = "DEAD" /\ current = ppid[u])
  <1>1. ASSUME Unseen(u)
        PROVE  state'[u] = state[u]
    BY ZenonT(30), <1>1 DEF Unseen, Alive
  <1>2. u # current
    BY ZenonT(30) DEF IInv, OnePlace
  <1>3. CASE SchedTick
    BY ZenonT(30), <1>1, <1>3, TickIsUnseen
  <1>4. ASSUME NEW t \in Pid, TaskYield(t)
        PROVE  state'[u] = state[u]
    BY ZenonT(30), <1>4 DEF TaskYield
  <1>5. ASSUME NEW t \in Pid, DoFork(t)
        PROVE  state'[u] = state[u]
    <2>1. state' = [state EXCEPT ![next_pid] = "READY"] /\ u # next_pid
      BY SMTT(30), <1>5 DEF DoFork, IInv, OnePlace, TypeOK, Pid
    <2> QED
      BY ZenonT(30), <2>1 DEF IInv, TypeOK
  <1>6. ASSUME NEW t \in Pid, SysExit(t)
        PROVE  state'[u] = state[u]
    BY ZenonT(30), <1>1, <1>2, <1>6, ExitEffect DEF SysExit, InUserMode
  <1>7. ASSUME NEW t \in Pid, TaskExit(t)
        PROVE  state'[u] = state[u]
    BY ZenonT(30), <1>1, <1>2, <1>7, TaskExitIsUnseen DEF TaskExit
  <1>8. ASSUME NEW t \in User, current = t, ZombiesOf(t, AnyPid) # {}, Reap(t, AnyPid)
        PROVE  state'[u] = state[u] \/ (state'[u] = "DEAD" /\ current = ppid[u])
    <2>1. PICK z \in User : /\ ppid[z] = t /\ state'[z] = "DEAD"
                            /\ \A v \in Pid \ {t, z} : Unseen(v)
      BY ZenonT(30), <1>8, ReapEffect
    <2>2. CASE u = z
      BY Zenon, <1>8, <2>1, <2>2
    <2>3. CASE u # z
      BY Zenon, <1>1, <1>2, <1>8, <2>1, <2>3
    <2> QED
      BY Zenon, <2>2, <2>3
  <1>9. ASSUME NEW t \in Pid, Wait4(t, AnyPid)
        PROVE  state'[u] = state[u] \/ (state'[u] = "DEAD" /\ current = ppid[u])
    <2>1. t \in User /\ current = t
      BY ZenonT(30), <1>9 DEF Wait4, InUserMode
    <2>2. CASE ZombiesOf(t, AnyPid) # {}
      BY ZenonT(30), <1>8, <1>9, <2>1, <2>2 DEF Wait4
    <2>3. CASE ZombiesOf(t, AnyPid) = {}
      BY ZenonT(30), <1>1, <1>2, <1>9, <2>1, <2>3, SleepEffect DEF Wait4
    <2> QED
      BY ZenonT(30), <2>2, <2>3
  <1>10. ASSUME NEW t \in Pid, Rewait(t)
         PROVE  state'[u] = state[u] \/ (state'[u] = "DEAD" /\ current = ppid[u])
    <2>1. current = t /\ t \in User /\ want[t] = AnyPid
      BY ZenonT(30), <1>10 DEF Rewait, IInv
    <2>2. CASE ZombiesOf(t, AnyPid) # {}
      BY ZenonT(30), <1>8, <1>10, <2>1, <2>2 DEF Rewait
    <2>3. CASE ZombiesOf(t, AnyPid) = {}
      BY ZenonT(30), <1>10, <2>1, <2>3 DEF Rewait
    <2> QED
      BY <2>2, <2>3
  <1>11. CASE UNCHANGED vars
    BY ZenonT(30), <1>11 DEF vars
  <1> QED
    BY ZenonT(30), <1>3, <1>4, <1>5, <1>6, <1>7, <1>9, <1>10, <1>11 DEF Next

\* exit is final, for user processes and kernel threads alike: a task that has
\* exited never gets the CPU again, and only its parent's wait4 takes it from
\* ZOMBIE to DEAD.
THEOREM ExitedStaysExited == Spec => ExitIsFinal
  <1> DEFINE Final == \A t \in Pid : state[t] \in {"ZOMBIE", "DEAD"} =>
                        /\ current' # t
                        /\ \/ state'[t] = state[t]
                           \/ state'[t] = "DEAD" /\ current = ppid[t]
  <1>1. IInv /\ IInv' /\ ParentInv /\ [Next]_vars => Final
    <2> SUFFICES ASSUME IInv, IInv', ParentInv, [Next]_vars,
                        NEW t \in Pid, state[t] \in {"ZOMBIE", "DEAD"}
                 PROVE  /\ current' # t
                        /\ \/ state'[t] = state[t]
                           \/ state'[t] = "DEAD" /\ current = ppid[t]
      BY Zenon
    <2>1. state'[t] = state[t] \/ (state'[t] = "DEAD" /\ current = ppid[t])
      BY ZenonT(30), StepKeepsExited
    <2>2. current' # t
      BY ZenonT(30), <2>1 DEF IInv, OnePlace
    <2> QED
      BY Zenon, <2>1, <2>2
  <1> HIDE DEF Final
  <1>2. Final => [Final]_vars
    OBVIOUS
  <1>3. Spec => [][Final]_vars
    BY <1>1, <1>2, Invariance, ParentsAreUsers, PTL DEF Spec
  <1> QED
    BY ZenonT(30), <1>3 DEF Final, ExitIsFinal
==============================================================================
