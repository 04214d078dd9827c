------------------------------- MODULE PTable -------------------------------
(***************************************************************************)
(* The process table of src/src/proc.c as compiled with CS333_P4: the      *)
(* slots, their state lists (ptable.list[] and the priority ready lists    *)
(* ptable.ready[]), the lifecycle calls fork/exit/wait/kill, sleep and     *)
(* wakeup, yield, setpriority, and the per-CPU scheduler loop with its     *)
(* promotion sweep.                                                        *)
(*                                                                         *)
(* Every critical section of ptable.lock is one atomic action.  The lock   *)
(* is represented explicitly only where it is held across a context        *)
(* switch into a process: wait() sleeps with &ptable.lock and resumes      *)
(* still holding it (lockHolder).  fork() spans several critical sections  *)
(* and keeps its progress in pc; a process between two of them may be      *)
(* preempted by the timer (Yield) or run concurrently with other CPUs.     *)
(*                                                                         *)
(* Time is abstracted: the ticks a process ran since dispatch,             *)
(* ticks - p->cpu_ticks_in, is an input chosen from 0..MaxSlice, and the   *)
(* test ticks >= PromoteAtTime is a free choice of the scheduler loop.     *)
(***************************************************************************)
EXTENDS Integers, FiniteSets, SequencesExt

CONSTANTS
  NPROC,        \* number of slots in ptable.proc
  CPUS,         \* set of CPUs, each running scheduler()
  MAXPRIO,      \* highest priority level (pdx.h)
  DEFAULTPRIO,  \* priority given by allocproc (pdx.h)
  BUDGET,       \* budget given on allocation, demotion and promotion
  MaxSlice,     \* bound on ticks - cpu_ticks_in at a settlement
  MaxPid,       \* bound on nextpid: no allocation once it is exceeded
  PidBits,      \* width of the uint nextpid (32 in the build)
  TicksChan     \* the channel &ticks slept on by sys_sleep

ASSUME NPROC \in Nat \ {0}
ASSUME MAXPRIO \in Nat /\ DEFAULTPRIO \in 0..MAXPRIO
ASSUME BUDGET \in Nat \ {0} /\ MaxSlice \in Nat /\ MaxPid \in Nat
ASSUME PidBits \in Nat \ {0} /\ MaxPid < 2^PidBits

Slots == 1..NPROC
NULL == 0                   \* a null struct proc pointer
initproc == 1               \* userinit takes the head of the free list
Prios == 0..MAXPRIO
Chans == Slots \cup {TicksChan}   \* wait() sleeps on curproc itself

\* uint nextpid (l.58) wraps modulo 2^PidBits; fork() returns its uint pid
\* as an int (l.296, l.355), so the value read back is two's complement.
PidValues == 0..2^PidBits - 1
AsInt(x) == IF x >= 2^(PidBits - 1) THEN x - 2^PidBits ELSE x

\* enum procstate
UNUSED == "unused"
EMBRYO == "embryo"
SLEEPING == "sleep"
RUNNABLE == "runble"
RUNNING == "run"
ZOMBIE == "zombie"
States == {UNUSED, EMBRYO, SLEEPING, RUNNABLE, RUNNING, ZOMBIE}
\* ptable.list[] is used for every state except RUNNABLE, kept in ready[]
ListNames == States \ {RUNNABLE}

\* Where a process's kernel thread is: in user space or an ordinary call
\* ("user"), inside fork() after allocproc's first critical section
\* ("fork_kstack") or after the EMBRYO list removal ("fork_copy"), asleep
\* in wait() ("wait") or in the sys_sleep loop ("sleep").
PCs == {"user", "fork_kstack", "fork_copy", "wait", "sleep"}

VARIABLES
  state, priority, budget, pid, parent, killed, chan,  \* struct proc fields
  list,        \* ptable.list[s]: head..tail as a sequence of slots
  ready,       \* ptable.ready[i]
  nextpid,
  cpu,         \* c->proc per CPU, NULL while in scheduler()
  pc,          \* control point of each process's kernel thread
  child,       \* np, fork()'s local, while pc is a fork stage
  lockHolder,  \* process holding ptable.lock inside wait(), else NULL
  killReqs     \* history: pids passed to kill()

procVars == <<state, priority, budget, pid, parent, killed, chan>>
vars == <<procVars, list, ready, nextpid, cpu, pc, child, lockHolder, killReqs>>

-----------------------------------------------------------------------------
(* List helpers: stateListAdd appends at the tail, stateListRemove         *)
(* unlinks the element wherever it is.                                     *)
stateListAdd(s, p) == Append(s, p)
stateListRemove(s, p) == Remove(s, p)

\* The walk of kill(), exit() and wait(): ptable.list[i] for i = 1 ..
\* statecount-1 except RUNNABLE, then ready[MAXPRIO] down to ready[0].
\* A slot on no list is never found by any of them.
ReadyScan == FlattenSeq([j \in 1..MAXPRIO + 1 |-> ready[MAXPRIO + 1 - j]])
ScanOrder == list[EMBRYO] \o list[SLEEPING] \o list[RUNNING] \o list[ZOMBIE] \o ReadyScan
Scanned == ToSet(ScanOrder)
ChildrenOf(q) == {p \in Scanned : parent[p] = q}

\* Mutant: exit() passing on only the children found on the non-ready lists.
ExitOrphansNoReady(q) ==
  {p \in ToSet(list[EMBRYO] \o list[SLEEPING] \o list[RUNNING] \o list[ZOMBIE]) : parent[p] = q}

\* The abandoned children exit() passes to initproc: its walk of the
\* non-ready lists and then of every ready list.
ExitOrphans(q) == ChildrenOf(q)

(* Budget settlement applied by yield(), sleep() and exit():              *)
(*   budget -= ticks - cpu_ticks_in; on budget <= 0 demote by one, floored *)
(*   at 0, and reset the budget.  Skipped when MAXPRIO = 0.                *)
SettledBudget(p, e) ==
  CASE MAXPRIO = 0          -> budget[p]
    [] budget[p] - e > 0    -> budget[p] - e
    [] OTHER                -> BUDGET
\* Mutant: demotion without the priority > 0 floor.
SettledPrioNoFloor(p, e) ==
  IF MAXPRIO # 0 /\ budget[p] - e <= 0 THEN priority[p] - 1 ELSE priority[p]
SettledPrio(p, e) ==
  IF MAXPRIO # 0 /\ budget[p] - e <= 0 /\ priority[p] > 0 THEN priority[p] - 1
  ELSE priority[p]

(* wakeup1(chan): walks the SLEEPING list; the first sleeper on chan is    *)
(* moved to the tail of its ready list.  stateListAdd then sets            *)
(* p->next = NULL, so the walk's p = p->next ends the loop: at most one    *)
(* process is woken per call.  Returned as the new state/list/ready.       *)
\* Mutant: a wakeup that only looks at the head of the SLEEPING list.
WakeIdxHeadOnly(st, ls, c) ==
  IF ls[SLEEPING] # <<>> /\ st[Head(ls[SLEEPING])] = SLEEPING /\ chan[Head(ls[SLEEPING])] = c
  THEN 1 ELSE 0
WakeIdx(st, ls, c) == SelectInSeq(ls[SLEEPING], LAMBDA q : st[q] = SLEEPING /\ chan[q] = c)
wakeup1(c, st, ls, rd) ==
  LET i == WakeIdx(st, ls, c)
      q == ls[SLEEPING][i]
  IN IF i = 0 THEN [state |-> st, list |-> ls, ready |-> rd]
     ELSE [state |-> [st EXCEPT ![q] = RUNNABLE],
           list  |-> [ls EXCEPT ![SLEEPING] = RemoveAt(@, i)],
           ready |-> [rd EXCEPT ![priority[q]] = stateListAdd(@, q)]]

\* The CPU a running process is on.
CpuOf(p) == CHOOSE c \in CPUS : cpu[c] = p
Running(p) == state[p] = RUNNING /\ \E c \in CPUS : cpu[c] = p
LockFree == lockHolder = NULL

-----------------------------------------------------------------------------
(* userinit() after initProcessLists() and initFreeList(): slot 1 taken   *)
(* from the free list with pid 1 and made RUNNABLE at DEFAULTPRIO.         *)
Init ==
  /\ state = [p \in Slots |-> IF p = initproc THEN RUNNABLE ELSE UNUSED]
  /\ priority = [p \in Slots |-> IF p = initproc THEN DEFAULTPRIO ELSE 0]
  /\ budget = [p \in Slots |-> IF p = initproc THEN BUDGET ELSE 0]
  /\ pid = [p \in Slots |-> IF p = initproc THEN 1 ELSE 0]
  /\ parent = [p \in Slots |-> NULL]
  /\ killed = [p \in Slots |-> FALSE]
  /\ chan = [p \in Slots |-> NULL]
  /\ list = [s \in ListNames |-> IF s = UNUSED THEN [i \in 1..NPROC-1 |-> i + 1] ELSE <<>>]
  /\ ready = [i \in Prios |-> IF i = DEFAULTPRIO THEN <<initproc>> ELSE <<>>]
  /\ nextpid = 2
  /\ cpu = [c \in CPUS |-> NULL]
  /\ pc = [p \in Slots |-> "user"]
  /\ child = [p \in Slots |-> NULL]
  /\ lockHolder = NULL
  /\ killReqs = {}
-----------------------------------------------------------------------------
(* The running process p gives its CPU back to scheduler() (sched()).     *)
Deschedule(p) == cpu' = [cpu EXCEPT ![CpuOf(p)] = NULL]

(* allocproc(), first critical section, called by fork(): pop the head of *)
(* the UNUSED list, make it EMBRYO and give it nextpid++ (a uint, so it   *)
(* wraps to 0 after 2^PidBits - 1).  An empty free                         *)
(* list makes fork() return -1 with nothing changed.                       *)
ForkAlloc(p) ==
  /\ Running(p) /\ pc[p] = "user" /\ LockFree
  /\ list[UNUSED] # <<>>
  /\ nextpid <= MaxPid
  /\ LET np == Head(list[UNUSED]) IN
       /\ state' = [state EXCEPT ![np] = EMBRYO]
       /\ list' = [list EXCEPT ![UNUSED] = Tail(@), ![EMBRYO] = stateListAdd(@, np)]
       /\ pid' = [pid EXCEPT ![np] = nextpid]
       /\ nextpid' = (nextpid + 1) % 2^PidBits
       /\ pc' = [pc EXCEPT ![p] = "fork_kstack"]
       /\ child' = [child EXCEPT ![p] = np]
  /\ UNCHANGED <<priority, budget, parent, killed, chan, ready, cpu, lockHolder, killReqs>>

(* The rest of allocproc() and fork()'s first critical section.  If       *)
(* kalloc() fails, np goes back from the EMBRYO list to the UNUSED list   *)
(* and fork() returns -1; pid and killed are left as they are.  Otherwise *)
(* allocproc sets priority and budget (np is private to this thread) and  *)
(* fork() takes np off the EMBRYO list, leaving it EMBRYO on no list.     *)
ForkKstack(p) ==
  /\ Running(p) /\ pc[p] = "fork_kstack" /\ LockFree
  /\ LET np == child[p] IN
       \/ /\ state' = [state EXCEPT ![np] = UNUSED]
          /\ list' = [list EXCEPT ![EMBRYO] = stateListRemove(@, np),
                                  ![UNUSED] = stateListAdd(@, np)]
          /\ pc' = [pc EXCEPT ![p] = "user"]
          /\ child' = [child EXCEPT ![p] = NULL]
          /\ UNCHANGED <<priority, budget>>
       \/ /\ priority' = [priority EXCEPT ![np] = DEFAULTPRIO]
          /\ budget' = [budget EXCEPT ![np] = BUDGET]
          /\ list' = [list EXCEPT ![EMBRYO] = stateListRemove(@, np)]
          /\ pc' = [pc EXCEPT ![p] = "fork_copy"]
          /\ UNCHANGED <<state, child>>
  /\ UNCHANGED <<pid, parent, killed, chan, ready, nextpid, cpu, lockHolder, killReqs>>

\* Mutant: the copyuvm() failure path without the stateListAdd (as in the
\* list-less version of fork()).
ForkCopyFailNoListAdd(np) ==
  /\ state' = [state EXCEPT ![np] = UNUSED]
  /\ UNCHANGED list

\* fork()'s copyuvm() failure path: np set UNUSED and put on the UNUSED list.
ForkCopyFail(np) ==
  /\ state' = [state EXCEPT ![np] = UNUSED]
  /\ list' = [list EXCEPT ![UNUSED] = stateListAdd(@, np)]

(* fork() after copyuvm().  On failure np is set UNUSED and put on the    *)
(* UNUSED list and fork() returns -1; on success np->parent = curproc and *)
(* np becomes RUNNABLE at the tail of ready[np->priority].                *)
ForkCopy(p) ==
  /\ Running(p) /\ pc[p] = "fork_copy" /\ LockFree
  /\ LET np == child[p] IN
       \/ /\ ForkCopyFail(np)
          /\ UNCHANGED <<parent, ready>>
       \/ /\ parent' = [parent EXCEPT ![np] = p]
          /\ state' = [state EXCEPT ![np] = RUNNABLE]
          /\ ready' = [ready EXCEPT ![priority[np]] = stateListAdd(@, np)]
          /\ UNCHANGED list
  /\ pc' = [pc EXCEPT ![p] = "user"]
  /\ child' = [child EXCEPT ![p] = NULL]
  /\ UNCHANGED <<priority, budget, pid, killed, chan, nextpid, cpu, lockHolder, killReqs>>

\* Mutant: exit() without its wakeup1(curproc->parent).
ExitWakeupsNoParent(p, kids) ==
  IF \E k \in kids : state[k] = ZOMBIE
  THEN wakeup1(initproc, state, list, ready)
  ELSE [state |-> state, list |-> list, ready |-> ready]

\* exit()'s wakeups: wakeup1(curproc->parent), then wakeup1(initproc) when
\* one of the children passed on is already a ZOMBIE.
ExitWakeups(p, kids) ==
  LET w1 == wakeup1(parent[p], state, list, ready)
  IN IF \E k \in kids : state[k] = ZOMBIE
     THEN wakeup1(initproc, w1.state, w1.list, w1.ready) ELSE w1

(* exit(), from acquire(&ptable.lock) on: wake the parent, pass every     *)
(* child found on the lists to initproc (waking initproc if one of them   *)
(* is a ZOMBIE), take curproc off RUNNING, settle its budget, make it a   *)
(* ZOMBIE and enter sched() for good.  initproc never exits (it panics).  *)
Exit(p) ==
  /\ Running(p) /\ pc[p] = "user" /\ LockFree
  /\ p # initproc
  /\ \E e \in 0..MaxSlice :
       LET kids == ExitOrphans(p)
           w2 == ExitWakeups(p, kids)
       IN /\ parent' = [q \in Slots |-> IF q \in kids THEN initproc ELSE parent[q]]
          /\ state' = [w2.state EXCEPT ![p] = ZOMBIE]
          /\ list' = [w2.list EXCEPT ![RUNNING] = stateListRemove(@, p),
                                     ![ZOMBIE] = stateListAdd(@, p)]
          /\ ready' = w2.ready
          /\ priority' = [priority EXCEPT ![p] = SettledPrio(p, e)]
          /\ budget' = [budget EXCEPT ![p] = SettledBudget(p, e)]
  /\ Deschedule(p)
  /\ UNCHANGED <<pid, killed, chan, nextpid, pc, child, lockHolder, killReqs>>

\* Mutant: wait() reaping any ZOMBIE it finds, without the parent test.
ReapableByAny(p, q) == state[q] = ZOMBIE

\* wait()'s test on each slot of its walk: p->parent == curproc and
\* p->state == ZOMBIE.
ReapableBy(p, q) == parent[q] = p /\ state[q] = ZOMBIE

(* wait(): one pass of its loop, entered from a system call with the lock *)
(* free or on resumption from its own sleep still holding ptable.lock.    *)
(* The first ZOMBIE child on the ZOMBIE list is reaped: identity cleared, *)
(* back to UNUSED.  With no child, or when killed, it returns -1.         *)
(* Otherwise it sleeps on curproc keeping ptable.lock, which sched()'s    *)
(* return into scheduler() releases.                                      *)
WaitScan(p) ==
  /\ Running(p)
  /\ \/ pc[p] = "user" /\ LockFree
     \/ pc[p] = "wait" /\ lockHolder = p
  /\ LET zi == SelectInSeq(list[ZOMBIE], LAMBDA q : ReapableBy(p, q))
         z == list[ZOMBIE][zi]
     IN \/ /\ zi # 0
           /\ pid' = [pid EXCEPT ![z] = 0]
           /\ parent' = [parent EXCEPT ![z] = NULL]
           /\ killed' = [killed EXCEPT ![z] = FALSE]
           /\ state' = [state EXCEPT ![z] = UNUSED]
           /\ list' = [list EXCEPT ![ZOMBIE] = RemoveAt(@, zi), ![UNUSED] = stateListAdd(@, z)]
           /\ pc' = [pc EXCEPT ![p] = "user"]
           /\ lockHolder' = NULL
           /\ UNCHANGED <<priority, budget, chan, cpu>>
        \/ /\ zi = 0
           /\ ChildrenOf(p) = {} \/ killed[p]
           /\ pc' = [pc EXCEPT ![p] = "user"]
           /\ lockHolder' = NULL
           /\ UNCHANGED <<state, priority, budget, pid, parent, killed, chan, list, cpu>>
        \/ /\ zi = 0
           /\ ChildrenOf(p) # {} /\ ~killed[p]
           /\ \E e \in 0..MaxSlice :
                /\ priority' = [priority EXCEPT ![p] = SettledPrio(p, e)]
                /\ budget' = [budget EXCEPT ![p] = SettledBudget(p, e)]
           /\ chan' = [chan EXCEPT ![p] = p]
           /\ state' = [state EXCEPT ![p] = SLEEPING]
           /\ list' = [list EXCEPT ![RUNNING] = stateListRemove(@, p),
                                   ![SLEEPING] = stateListAdd(@, p)]
           /\ pc' = [pc EXCEPT ![p] = "wait"]
           /\ lockHolder' = NULL
           /\ Deschedule(p)
           /\ UNCHANGED <<pid, parent, killed>>
  /\ UNCHANGED <<ready, nextpid, child, killReqs>>

(* sleep(chan, lk) for a running process: chan set, off RUNNING, budget   *)
(* settled, onto the SLEEPING list, sched().                               *)
GoToSleep(p, c) ==
  /\ \E e \in 0..MaxSlice :
       /\ priority' = [priority EXCEPT ![p] = SettledPrio(p, e)]
       /\ budget' = [budget EXCEPT ![p] = SettledBudget(p, e)]
  /\ chan' = [chan EXCEPT ![p] = c]
  /\ state' = [state EXCEPT ![p] = SLEEPING]
  /\ list' = [list EXCEPT ![RUNNING] = stateListRemove(@, p),
                          ![SLEEPING] = stateListAdd(@, p)]
  /\ Deschedule(p)

(* sys_sleep(n): while ticks - ticks0 < n, return -1 if killed, else      *)
(* sleep(&ticks, 0).  Whether n ticks have passed is an input.  From a    *)
(* system call (pc "user") only the sleeping outcome changes any state.   *)
SysSleep(p) ==
  /\ Running(p) /\ LockFree
  /\ \/ /\ pc[p] = "user"
        /\ ~killed[p]
        /\ GoToSleep(p, TicksChan)
        /\ pc' = [pc EXCEPT ![p] = "sleep"]
     \/ /\ pc[p] = "sleep"
        /\ \/ /\ ~killed[p]
              /\ GoToSleep(p, TicksChan)
              /\ UNCHANGED pc
           \/ /\ pc' = [pc EXCEPT ![p] = "user"]       \* elapsed, or killed
              /\ UNCHANGED <<state, priority, budget, chan, list, cpu>>
  /\ UNCHANGED <<pid, parent, killed, ready, nextpid, child, lockHolder, killReqs>>

\* Mutant: yield() queueing on the ready list of the priority it had
\* before the settlement.
YieldEnqueueStale(p, pr) == [ready EXCEPT ![priority[p]] = stateListAdd(@, p)]

\* Mutant: yield() putting curproc at the head of its ready list.
YieldEnqueueFront(p, pr) == [ready EXCEPT ![pr] = <<p>> \o @]

\* yield()'s stateListAdd(&ptable.ready[curproc->priority], curproc) after
\* the settlement has set the priority to pr.
YieldEnqueue(p, pr) == [ready EXCEPT ![pr] = stateListAdd(@, p)]

(* yield(), called from the timer trap: off RUNNING, RUNNABLE, budget     *)
(* settled, onto the tail of ready[priority], sched().  Allowed wherever  *)
(* the process holds no spinlock, including between fork()'s steps.      *)
Yield(p) ==
  /\ Running(p) /\ LockFree
  /\ \E e \in 0..MaxSlice :
       LET pr == SettledPrio(p, e) IN
       /\ priority' = [priority EXCEPT ![p] = pr]
       /\ budget' = [budget EXCEPT ![p] = SettledBudget(p, e)]
       /\ ready' = YieldEnqueue(p, pr)
  /\ state' = [state EXCEPT ![p] = RUNNABLE]
  /\ list' = [list EXCEPT ![RUNNING] = stateListRemove(@, p)]
  /\ Deschedule(p)
  /\ UNCHANGED <<pid, parent, killed, chan, nextpid, pc, child, lockHolder, killReqs>>

\* Mutant: kill() waking whatever it finds that is not running.
KillWakesAny(q) == state[q] # RUNNING

\* kill()'s test for moving its target to a ready list.
KillWakes(q) == state[q] = SLEEPING

(* kill(pid): the first process with that pid in the walk gets killed     *)
(* set, and is moved from SLEEPING to the tail of its ready list.         *)
Kill(p, k) ==
  /\ Running(p) /\ pc[p] = "user" /\ LockFree
  /\ killReqs' = killReqs \cup {k}
  /\ LET i == SelectInSeq(ScanOrder, LAMBDA q : pid[q] = k)
         q == ScanOrder[i]
     IN IF i = 0 THEN UNCHANGED <<state, killed, list, ready>>
        ELSE /\ killed' = [killed EXCEPT ![q] = TRUE]
             /\ IF KillWakes(q)
                THEN /\ state' = [state EXCEPT ![q] = RUNNABLE]
                     /\ list' = [list EXCEPT ![SLEEPING] = stateListRemove(@, q)]
                     /\ ready' = [ready EXCEPT ![priority[q]] = stateListAdd(@, q)]
                ELSE UNCHANGED <<state, list, ready>>
  /\ UNCHANGED <<priority, budget, pid, parent, chan, nextpid, cpu, pc, child, lockHolder>>

(* setpriority(pid, prio), prio already checked to be in 0..MAXPRIO by    *)
(* sys_setpriority (SysSetPriority): search the ready lists, then          *)
(* SLEEPING, then RUNNING; a different priority resets the budget, and a   *)
(* RUNNABLE process moves to the tail of the new ready list.               *)
SetPriority(p, k, pr) ==
  /\ Running(p) /\ pc[p] = "user" /\ LockFree
  /\ LET order == ReadyScan \o list[SLEEPING] \o list[RUNNING]
         i == SelectInSeq(order, LAMBDA q : pid[q] = k)
         q == order[i]
     IN /\ i # 0 /\ priority[q] # pr
        /\ priority' = [priority EXCEPT ![q] = pr]
        /\ budget' = [budget EXCEPT ![q] = BUDGET]
        /\ ready' = IF state[q] = RUNNABLE
                    THEN [ready EXCEPT ![priority[q]] = stateListRemove(@, q),
                                       ![pr] = stateListAdd(@, q)]
                    ELSE ready
  /\ UNCHANGED <<state, pid, parent, killed, chan, list, nextpid, cpu, pc, child, lockHolder, killReqs>>

(* sys_setpriority(): prio outside 0..MAXPRIO returns -1 before          *)
(* setpriority() is called, changing nothing.                              *)
SysSetPriority(p, k, pr) ==
  /\ pr >= 0 /\ pr <= MAXPRIO
  /\ SetPriority(p, k, pr)

(* wakeup(&ticks) from the timer interrupt: wakeup1 under ptable.lock.    *)
(* Only taken when something sleeps on the channel; otherwise a no-op.    *)
Wakeup(c) ==
  /\ LockFree
  /\ WakeIdx(state, list, c) # 0
  /\ LET w == wakeup1(c, state, list, ready) IN
       state' = w.state /\ list' = w.list /\ ready' = w.ready
  /\ UNCHANGED <<priority, budget, pid, parent, killed, chan, nextpid, cpu, pc, child, lockHolder, killReqs>>

-----------------------------------------------------------------------------
(* The promotion sweep's walk of one ready list: save = p->next; a        *)
(* process below MAXPRIO is removed from ready[p->priority], raised one    *)
(* level with a fresh budget and added at the tail of the next list up;    *)
(* then p = save.  r holds the ready lists, priorities and budgets.        *)
PromoteOne(r, q) ==
  IF r.prio[q] < MAXPRIO
  THEN [rd   |-> [r.rd EXCEPT ![r.prio[q]] = stateListRemove(@, q),
                          ![r.prio[q] + 1] = stateListAdd(@, q)],
        prio |-> [r.prio EXCEPT ![q] = @ + 1],
        bud  |-> [r.bud EXCEPT ![q] = BUDGET]]
  ELSE r

\* Mutant: the walk going on with p = p->next after the move, which
\* stateListAdd has reset to NULL (wakeup1's pattern).
RECURSIVE PromoteWalkNoSave(_, _)
PromoteWalkNoSave(r, w) ==
  IF w = <<>> THEN r
  ELSE IF r.prio[Head(w)] < MAXPRIO THEN PromoteOne(r, Head(w))
  ELSE PromoteWalkNoSave(r, Tail(w))

\* while(p) over ready[i] with p = save: every element the list held when
\* its walk began is visited, since moves only go to ready[i+1].
RECURSIVE PromoteWalk(_, _)
PromoteWalk(r, w) ==
  IF w = <<>> THEN r ELSE PromoteWalk(PromoteOne(r, Head(w)), Tail(w))

\* for(i = MAXPRIO; i > -1; --i): the walks of ready[i], highest first.
RECURSIVE PromoteLists(_, _)
PromoteLists(r, i) ==
  IF i < 0 THEN r ELSE PromoteLists(PromoteWalk(r, r.rd[i]), i - 1)

(* scheduler(), promotion critical section, taken when the CPU is in its  *)
(* loop and ticks >= PromoteAtTime: the walks of the SLEEPING and RUNNING *)
(* lists raise every process on them below MAXPRIO by one with a fresh    *)
(* budget, then the ready lists are swept by PromoteLists.                *)
Promote(c) ==
  /\ cpu[c] = NULL /\ LockFree
  /\ MAXPRIO # 0
  /\ LET up(q) == q \in ToSet(list[SLEEPING] \o list[RUNNING]) /\ priority[q] < MAXPRIO
         r == PromoteLists([rd   |-> ready,
                            prio |-> [q \in Slots |-> IF up(q) THEN priority[q] + 1 ELSE priority[q]],
                            bud  |-> [q \in Slots |-> IF up(q) THEN BUDGET ELSE budget[q]]],
                           MAXPRIO)
     IN /\ priority' = r.prio
        /\ budget' = r.bud
        /\ ready' = r.rd
  /\ UNCHANGED <<state, pid, parent, killed, chan, list, nextpid, cpu, pc, child, lockHolder, killReqs>>

(* scheduler(), dispatch critical section: the head of the highest       *)
(* non-empty ready list is taken off ready[p->priority], made RUNNING and *)
(* switched to.  The process resumes where it gave up the CPU: sleep()    *)
(* clears chan; inside wait() it keeps ptable.lock, everywhere else       *)
(* (forkret, yield, sleep with another lock) it releases it.              *)
Dispatch(c) ==
  /\ cpu[c] = NULL /\ LockFree
  /\ \E i \in Prios :
       /\ ready[i] # <<>>
       /\ \A j \in i + 1..MAXPRIO : ready[j] = <<>>
       /\ LET p == Head(ready[i]) IN
            /\ ready' = [ready EXCEPT ![priority[p]] = stateListRemove(@, p)]
            /\ state' = [state EXCEPT ![p] = RUNNING]
            /\ list' = [list EXCEPT ![RUNNING] = stateListAdd(@, p)]
            /\ cpu' = [cpu EXCEPT ![c] = p]
            /\ chan' = [chan EXCEPT ![p] = NULL]
            /\ lockHolder' = IF pc[p] = "wait" THEN p ELSE NULL
  /\ UNCHANGED <<priority, budget, pid, parent, killed, nextpid, pc, child, killReqs>>

-----------------------------------------------------------------------------
Next ==
  \/ \E c \in CPUS : Promote(c) \/ Dispatch(c)
  \/ \E p \in Slots :
       \/ ForkAlloc(p) \/ ForkKstack(p) \/ ForkCopy(p)
       \/ Exit(p) \/ WaitScan(p) \/ SysSleep(p) \/ Yield(p)
       \/ \E k \in 1..MaxPid : Kill(p, k)
       \/ \E k \in 1..MaxPid, pr \in -1..MAXPRIO + 1 : SysSetPriority(p, k, pr)
  \/ Wakeup(TicksChan)

Spec == Init /\ [][Next]_vars

\* wait() resumed from its sleep, holding ptable.lock: kernel code that
\* runs on once the process is on a CPU.
WaitResume(p) == pc[p] = "wait" /\ WaitScan(p)

(* Fairness the code justifies: each CPU's scheduler() loops forever      *)
(* (Dispatch); the timer interrupt preempts a running process that holds  *)
(* no spinlock (Yield); wait(), resumed holding ptable.lock, cannot be     *)
(* preempted and runs on.  What a process does in user space (fork, exit, *)
(* wait, kill, sleep, setpriority) gets no fairness.  Other kernel steps   *)
(* (the rest of fork(), the timer's wakeup) would be fair too, but         *)
(* ReapProgress does not depend on them.                                   *)
FairSpec ==
  /\ Spec
  /\ \A c \in CPUS : WF_vars(Dispatch(c))
  /\ \A p \in Slots : WF_vars(Yield(p)) /\ WF_vars(WaitResume(p))

-----------------------------------------------------------------------------
TypeOK ==
  /\ state \in [Slots -> States]
  /\ priority \in [Slots -> Prios]
  /\ budget \in [Slots -> 0..BUDGET]
  /\ pid \in [Slots -> PidValues]
  /\ parent \in [Slots -> Slots \cup {NULL}]
  /\ killed \in [Slots -> BOOLEAN]
  /\ chan \in [Slots -> Chans \cup {NULL}]
  /\ \A s \in ListNames : list[s] \in Seq(Slots)
  /\ \A i \in Prios : ready[i] \in Seq(Slots)
  /\ nextpid \in PidValues
  /\ cpu \in [CPUS -> Slots \cup {NULL}]
  /\ pc \in [Slots -> PCs]
  /\ child \in [Slots -> Slots \cup {NULL}]
  /\ lockHolder \in Slots \cup {NULL}
  /\ killReqs \subseteq 1..MaxPid

\* The child fork() holds between its EMBRYO-list removal and making it
\* RUNNABLE: an EMBRYO on no list.
InForkWindow == {child[q] : q \in {r \in Slots : pc[r] = "fork_copy"}}

\* Positions at which slot p occurs across all state and ready lists.
Occurrences(p) ==
  UNION {{<<s, i>> : i \in {k \in 1..Len(list[s]) : list[s][k] = p}} : s \in ListNames}
  \cup UNION {{<<j, i>> : i \in {k \in 1..Len(ready[j]) : ready[j][k] = p}} : j \in Prios}

(* Membership invariant (spec invariant 1, enforced by the stateListRemove *)
(* panics and assertState calls throughout proc.c): every slot is on       *)
(* exactly one list, the list of its state (for RUNNABLE, the ready list   *)
(* of its priority), except fork()'s child between its two critical        *)
(* sections, which is on none; and the RUNNING list holds exactly the      *)
(* processes the CPUs are running.                                         *)
ListsMatchState ==
  /\ \A s \in ListNames : \A i \in 1..Len(list[s]) : state[list[s][i]] = s
  /\ \A j \in Prios : \A i \in 1..Len(ready[j]) :
       state[ready[j][i]] = RUNNABLE /\ priority[ready[j][i]] = j
  /\ \A p \in Slots : Cardinality(Occurrences(p)) = IF p \in InForkWindow THEN 0 ELSE 1
  /\ \A p \in InForkWindow : state[p] = EMBRYO
  /\ ToSet(list[RUNNING]) = {cpu[c] : c \in CPUS} \ {NULL}

(* Orphan reparenting (exit()'s two walks): every live process other than  *)
(* initproc has a parent that is itself live and not a ZOMBIE, so no child *)
(* is left pointing at an exited or reaped slot, and every ZOMBIE has a    *)
(* parent that can still wait() for it.                                    *)
ParentsLive ==
  \A p \in Slots :
    (p # initproc /\ state[p] \in {SLEEPING, RUNNABLE, RUNNING, ZOMBIE})
      => /\ parent[p] # NULL
         /\ state[parent[p]] \in {SLEEPING, RUNNABLE, RUNNING}

(* No lost wakeup in wait(): a parent asleep in wait() never has a ZOMBIE  *)
(* child, because exit() wakes the parent (and initproc, for reparented    *)
(* ZOMBIEs) under the same ptable.lock that wait() holds from its scan to  *)
(* its sleep.                                                              *)
WaitNotAsleepOnZombie ==
  \A p \in Slots :
    (state[p] = SLEEPING /\ pc[p] = "wait")
      => ~\E k \in Slots : parent[k] = p /\ state[k] = ZOMBIE

(* Every state change of a slot follows the lifecycle of spec section 3:   *)
(* UNUSED -> EMBRYO -> RUNNABLE <-> RUNNING -> SLEEPING -> RUNNABLE,       *)
(* RUNNING -> ZOMBIE -> UNUSED, and EMBRYO -> UNUSED on a failed fork;     *)
(* in particular kill() never revives a ZOMBIE and nothing skips a state.  *)
Lifecycle ==
  {<<UNUSED, EMBRYO>>, <<EMBRYO, UNUSED>>, <<EMBRYO, RUNNABLE>>,
   <<RUNNABLE, RUNNING>>, <<RUNNING, RUNNABLE>>, <<RUNNING, SLEEPING>>,
   <<RUNNING, ZOMBIE>>, <<SLEEPING, RUNNABLE>>, <<ZOMBIE, UNUSED>>}
LegalTransitions ==
  [][\A p \in Slots : state'[p] # state[p] => <<state[p], state'[p]>> \in Lifecycle]_vars

(* kill() is the only way to set killed (spec 4.3, 7d): a process that is *)
(* killed carries a pid someone passed to kill().                          *)
KilledOnlyIfRequested ==
  \A p \in Slots : (state[p] # UNUSED /\ killed[p]) => pid[p] \in killReqs

(* wakeup(chan) makes every process sleeping on chan RUNNABLE (spec 4.6    *)
(* and the two-sleepers scenario of section 8): after a wakeup(&ticks)     *)
(* step nothing is left asleep on &ticks.                                  *)
WakeupWakesAll ==
  [][Wakeup(TicksChan) => \A p \in Slots : ~(state'[p] = SLEEPING /\ chan'[p] = TicksChan)]_vars

(* PTable implements the abstract lifecycle of ProcLifecycle.tla with the  *)
(* slots' state and parent fields as they are: every step of the code is   *)
(* one lifecycle step or leaves both unchanged.  In particular wait()      *)
(* reaps only a child of the caller, exit() hands every child to initproc  *)
(* and wakes nobody but the parent and initproc, and only a running        *)
(* process forks, exits or reaps.                                          *)
Life == INSTANCE ProcLifecycle WITH Procs <- Slots, Root <- initproc, NoProc <- NULL

RefinesLifecycle == Life!Spec

(* A parent blocked in wait() with a ZOMBIE child gets out of wait():    *)
(* exit() wakes the parent under the lock wait() held from its scan to its *)
(* sleep, the scheduler dispatches it, and its next scan reaps a child     *)
(* (one per call of wait(), so only the return is promised).  This needs  *)
(* the wakeup to reach the parent and the ready list to be FIFO.           *)
ReapProgress ==
  \A p \in Slots :
    (pc[p] = "wait" /\ \E z \in Slots : parent[z] = p /\ state[z] = ZOMBIE) ~> pc[p] = "user"

(* fork() returns the child's pid to the parent on success, and spec      *)
(* section 3 makes a pid a positive integer (0 meaning no process, and a   *)
(* negative result meaning a failed fork).  fork() returns its uint pid as  *)
(* an int; once nextpid has passed INT_MAX the parent reads a negative     *)
(* value, and after 2^32 allocations 0, while the child is RUNNABLE.       *)
ForkReturnsPositivePid ==
  [][\A p \in Slots :
       (pc[p] = "fork_copy" /\ pc'[p] = "user" /\ state'[child[p]] = RUNNABLE)
         => AsInt(pid[child[p]]) > 0]_vars

(* The promotion sweep does what spec 4.5 says: every Sleeping, Running or *)
(* Ready process below MAXPRIO gains exactly one level with a fresh budget, *)
(* the others are untouched, and each ready list below MAXPRIO moves, in   *)
(* its FIFO order, to the tail of the list one up.  The code's while loop  *)
(* over ready[i] must keep going from the next pointer it saved before     *)
(* stateListAdd resets it.                                                 *)
PromoteRaisesAll ==
  [][\A c \in CPUS : Promote(c) =>
       /\ \A q \in Slots :
            priority'[q] = IF state[q] \in {SLEEPING, RUNNABLE, RUNNING} /\ priority[q] < MAXPRIO
                           THEN priority[q] + 1 ELSE priority[q]
       /\ ready' = [i \in Prios |-> (IF i = MAXPRIO THEN ready[i] ELSE <<>>)
                                    \o (IF i > 0 THEN ready[i - 1] ELSE <<>>)]]_vars
=============================================================================
