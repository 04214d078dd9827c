# TLA+ models of the XV6PDX process core (CS333 project 4)

This directory holds TLA+ models of the process table, the state lists, the
MLFQ scheduler and the process life cycle in `src/src/proc.c` and
`src/src/sysproc.c`. The model is of the build with `CS333_P3` and `CS333_P4`
defined. TLC checks the models.

## The system

| Part | Code | State | Operations |
|---|---|---|---|
| State lists | `stateListAdd`, `stateListRemove`, `initProcessLists`, `initFreeList` | `ptable.list[UNUSED..ZOMBIE]`, `ptable.ready[0..MAXPRIO]`: singly linked FIFO lists with head and tail | add at tail (this clears `p->next`); remove anywhere |
| Process table | `allocproc`, `userinit` | `ptable.proc[NPROC]`, `nextpid`, one spinlock `ptable.lock` | allocate a slot from `UNUSED` into `EMBRYO`; roll back when `kalloc` fails |
| Life cycle | `fork`, `exit`, `wait`, `kill` | `state`, `parent`, `pid`, `killed` of each slot | fork in three steps; exit reparents its children to initproc; wait reaps a child or sleeps on itself; kill by pid |
| Sleep/wakeup | `sleep`, `wakeup`, `wakeup1`, `sys_sleep` | `chan`, the SLEEPING list | sleep releases the caller's lock; wakeup1 moves sleepers on `chan` to `ready[priority]` |
| Scheduler | `scheduler`, `sched`, `yield` | `ready[]`, `budget`, `priority`, `PromoteAtTime`, the CPU that runs each process | the promotion sweep; dispatch of the head of the highest non-empty ready list; yield settles the budget and demotes |
| Priority API | `setpriority`, `getpriority` | `priority`, `budget` | move a process to another ready list; read its priority |
| Snapshot | `getprocs`, `sys_getprocs`, `ps.c` | the user table of `struct uproc` | copy one row per live slot, in slot order, up to `max` rows |

These parts interact as follows:
* Every operation runs under `ptable.lock`, and the lock is never held
  across a return to user space.
* `fork` is the exception. `allocproc` releases the lock with the child
  `EMBRYO` on the EMBRYO list. `fork` then takes the child off every list
  (`fork` l.305-311) and copies the address space without the lock. It
  takes the lock again to make the child RUNNABLE.
* `wait` sleeps with `&ptable.lock` as its lock, so it wakes up holding
  the lock and goes on scanning.
* `exit` reparents children and wakes the parent before it calls `sched`.
* The timer trap calls `yield` in a process that holds no spinlock. It calls
  `wakeup(&ticks)` as well.

## Modules

### `PTable.tla`: the process core

`PTable.tla` models the whole process core. Each critical section of the
code is one atomic action, because every one runs under `ptable.lock`.
The state is as follows:

* `state`, `priority`, `budget`, `pid`, `parent`, `killed` and `chan` are
  the fields of `struct proc`, one entry per slot.
* `list[s]` and `ready[i]` are the state lists, held as sequences of slots.
  `stateListAdd` is `Append` and `stateListRemove` is `Remove`.
* `nextpid` is the pid counter, a `uint` (proc.c:58) of `PidBits` bits that
  wraps modulo 2^PidBits. `fork` keeps the child's pid in a `uint` and
  returns it as an `int` (proc.c:296/355). `AsInt` is that conversion, and
  `ForkReturnsPositivePid` reads the returned value through it.
* `cpu[c]` is the process that CPU `c` runs, or `NULL` if the CPU is in its
  scheduler loop.
* `pc[p]` records where a process is inside a kernel call:
  * `"user"`;
  * `"fork_alloc"` and `"fork_copy"`, the two lock-free points of `fork`;
  * `"sleep"`, for `sys_sleep`'s loop;
  * `"wait"`, for `wait`'s loop.
* `child[p]` is the child slot of an unfinished fork.
* `lockHolder` is the process that holds `ptable.lock` across a dispatch:
  a sleeper in `wait` resumes holding it.
* `killReqs` is a history variable. It records the pids that `kill()` was
  called on.

Time is abstracted. The ticks that a process ran before it yields are an
input `e \in 0..MaxSlice`. The condition of the promotion sweep
(`ticks >= PromoteAtTime`) is a free choice of the scheduler, because the
sweep can fall between any two dispatches.

| Action | Code |
|---|---|
| `Init` | `userinit` after `initProcessLists`/`initFreeList`: initproc RUNNABLE at `MAXPRIO`, every other slot UNUSED |
| `ForkAlloc(p)` | `fork` l.297-299 and `allocproc` l.115-153: take the head of the free list, make it EMBRYO, assign a pid |
| `ForkKstack(p)` | `allocproc` l.155-203 and `fork` l.305-311: either `kalloc` fails (roll back to UNUSED, and fork returns -1), or the priority and budget are set and the child leaves the EMBRYO list |
| `ForkCopy(p)` | `fork` l.313-356: either `copyuvm` fails (back to UNUSED) or the child becomes RUNNABLE on `ready[MAXPRIO]` |
| `Exit(p)` | `exit` l.362-447: wake the parent, reparent the children and wake initproc for a ZOMBIE child, become ZOMBIE, `sched` |
| `WaitScan(p)` | one pass of `wait`'s loop l.559-628: reap a ZOMBIE child, return -1 (no children or killed), or sleep on itself |
| `SysSleep(p)` | `sys_sleep` l.65-81 and `sleep` l.1096-1149: go to sleep on `&ticks`, or return when killed |
| `Yield(p, e)` | the timer trap's `yield` l.1011-1039 after `e` ticks: settle the budget, demote, enqueue, `sched` |
| `Kill(p, k)` | `sys_kill` and `kill` l.1252-1300: scan the lists in the code's order; set killed and wake a SLEEPING target |
| `SysSetPriority(p, k, pr)`, `SetPriority(p, k, pr)` | `sys_setpriority` (sysproc.c l.183-196) rejects `pr` outside 0..MAXPRIO; `setpriority` l.1942-2011 |
| `Wakeup(TicksChan)` | `wakeup(&ticks)` l.1240-1246 from the timer interrupt; `wakeup1` l.1190-1206, modelled with the early stop of its loop (see below) |
| `Promote(c)` | the promotion sweep of `scheduler` l.758-811: the SLEEPING and RUNNING walks, then `PromoteLists` |
| `PromoteLists`, `PromoteWalk`, `PromoteOne` | the `for(i = MAXPRIO; i > -1; --i)` loop l.785-807 and its `while(p)` walk with `save = p->next` (RECURSIVE operators) |
| `Dispatch(c)` | the dispatch part of `scheduler` l.813-855, together with the resumption of the dispatched process (`forkret`, or the return from `sched` inside `sleep`/`wait`) |

The ready-list part of the promotion sweep is translated from its loop,
not written as its result. `PromoteWalk` continues from the `next` pointer
saved before the move, so every process that was on `ready[i]` when its walk
began is raised. `PromoteRaisesAll` compares one sweep with the result that
spec 4.5 describes.

`FairSpec` adds fairness to `Spec` for the liveness property
`ReapProgress`:
* Weak fairness of `Dispatch(c)`: each CPU's `scheduler()` loops forever.
* Weak fairness of `Yield(p)`: the timer preempts a running process that
  holds no spinlock.
* Weak fairness of `WaitResume(p)`: `wait()`, resumed holding
  `ptable.lock`, cannot be preempted and runs its next scan.
* No fairness on user-space choices: fork, exit, wait, kill, sleep and
  setpriority are calls a program may never make.

`wakeup1` is translated from its loop. After `stateListAdd` has set
`p->next = 0`, `p = p->next` ends the walk. For that reason
`wakeup1(c, ...)` moves only the first matching sleeper in the SLEEPING
list to its ready list.

### `StateListSeq.tla` and `StateList.tla`: the state lists

`StateListSeq` is the abstract view of the state lists. Each list is a
sequence, and a slot is on at most one list. The module has three actions:
* `AddA` appends to a list;
* `RemoveA` removes from a list;
* `MoveA` moves a slot from one list to another, as `wakeup1` does.

`PTable` uses this view of the lists.

`StateList` is the pointer level: `mem = [head, tail, next]`.
* `stateListAdd` (l.1733-1745) and `stateListRemove` (l.1749-1795) are
  operators on `mem`. `stateListRemove` is split into its head case and
  its inner case.
* The callers are `CallAdd` (of a detached slot) and `CallRemove` (of any
  slot).
* The walk of `wakeup1` is modelled one loop iteration at a time, with its
  cursor `p` in `wcur`: `WakeStart`, `WakeStep` and `WakeEnd`.
* The lists are read from `mem` by `ChainN`, a RECURSIVE walk from the head
  with fuel one more than the number of slots, so that a cycle shows as an
  over-long chain.
* `RefinesSeq` is `StateListSeq!Spec` under the mapping
  `lists <- [l |-> ListOf(mem, l)]`.

### `MLFQ.tla`: the scheduler with real time

`MLFQ` models the CS333_P4 scheduler on one CPU, with time kept exactly.
`ticks`, `PromoteAtTime` and `cpu_ticks_in` are uint counters of `W` bits;
xv6 has W = 32. The processes are a fixed set. Each one computes in user
mode and may call `sys_sleep(n)`. `PTable` covers fork, exit, wait and kill.

The state:
* `state`, `priority`, `budget`, `cpu_ticks_in` of each process;
* `ready[i]` and `sleeping`, the ready lists and the SLEEPING list, as sequences;
* `ticks0` and `nArg`, the locals of `sys_sleep`;
* `pc` of each process: `"user"`, `"test"` (at the loop test of `sys_sleep`)
  or `"sleep"` (the test passed; about to call `sleep`);
* `cur` (`c->proc`), and `spc`, the point of the scheduler loop: `"promote"`,
  `"dispatch"`, `"idle"` (in `hlt`) or `"swtch"`;
* `stepped`: the CPU has taken a step since the last tick.
* `sincePromote`: a history variable, with no counterpart in the code, that
  counts the ticks since the last promotion sweep.

| Action | Code |
|---|---|
| `Init` | `userinit` l.208-216 (`PromoteAtTime = ticks + TICKS_TO_PROMOTE` at ticks 0) with every process RUNNABLE on `ready[DEFAULTPRIO]` |
| `Tick` | the timer trap (trap.c, not under src/): `ticks++`, `wakeup(&ticks)` (`wakeup1` l.1191-1207: the head of the SLEEPING list), then `yield` l.1012-1039 of the running process: settle the budget with `ticks - cpu_ticks_in` as a uint, demote (floored at 0), append to `ready[priority]` |
| `SysSleep(p, n)` | `sys_sleep` l.66-73: `ticks0 = ticks` |
| `SleepTest(p)` | `sys_sleep` l.74: `while(ticks - ticks0 < n)`, read without a lock; `n` is converted to uint for the comparison |
| `SleepCall(p)` | `sleep(&ticks, 0)` l.1097-1150: settle, SLEEPING, append to the SLEEPING list, `sched` |
| `SchedPromote` | `scheduler` l.758-811: if `ticks >= PromoteAtTime && MAXPRIO`, raise every sleeping or ready process below MAXPRIO, reset its budget, move the ready ones up a list, and set `PromoteAtTime = ticks + TICKS_TO_PROMOTE` (uint) |
| `SchedDispatch` | `scheduler` l.813-855: the head of the highest non-empty ready list becomes RUNNING with `cpu_ticks_in = ticks`; or `hlt` when all lists are empty |

The timing assumptions come from the hardware. A tick is 1 ms (TPS = 1000), while a
scheduler pass or a step of `sys_sleep` takes a few hundred instructions.
* A tick needs the CPU to have taken a step since the last one (`stepped`),
  or a process in user mode on the CPU.
* A process resumed inside the kernel takes its next kernel step before the
  next tick.
* A tick can still fall between the two critical sections of the scheduler
  loop, since `sti()` at the top of the loop and `release` re-enable
  interrupts. It can also fall between `SleepTest` and `SleepCall`.

Fairness:
* Weak fairness of `Tick`: the timer keeps interrupting.
* Weak fairness of `SchedPromote` and `SchedDispatch`: the scheduler loop
  never stops.
* Weak fairness of `SleepTest(p)` and `SleepCall(p)`: a dispatched process
  executes its kernel code.
* No fairness on `SysSleep`: whether a process calls `sys_sleep` is its own
  choice.

### `ProcLifecycle.tla`: the lifecycle the core promises

`ProcLifecycle` is the abstract specification of process lifetimes, after
spec sections 3, 4.3 and 8. Each slot has only a `state` and a `parent`.
There are no lists, CPUs, locks or priorities. It has these actions:
* `Alloc`: UNUSED to EMBRYO, while some process is running.
* `Free`: a failed fork gives the slot back.
* `Spawn(p, q)`: a RUNNING `p` makes its EMBRYO `q` RUNNABLE, with parent
  `p`.
* `Move`: dispatch, preemption, sleep and a single wakeup.
* `Die(p)`: `p` becomes a ZOMBIE, every child of `p` gets the root as its
  parent, and only the parent and the root may be woken.
* `Reap(p, z)`: a RUNNING `p` frees its own ZOMBIE child `z`.

`PTable` refines it. Its instance is
`Life == INSTANCE ProcLifecycle WITH Procs <- Slots, Root <- initproc, NoProc <- NULL`,
so `state` and `parent` are mapped as they are. The property
`RefinesLifecycle == Life!Spec` is checked in the `ptable_lifecycle` run.

### `GetProcs.tla`: the process snapshot

`GetProcs` models how the process table is listed:
1. `ps` (`PsMain`, ps.c l.11-20) mallocs a table of `max` entries.
2. `sys_getprocs` (`SysGetprocs`, sysproc.c l.169-178) passes it to
   `getprocs`.
3. `getprocs` walks `ptable.proc[]` under the lock.
4. `PsExit` stands for printing the rows, freeing the table and exiting.

The walk is one step, because it holds the lock throughout. It is the
RECURSIVE operator `GetprocsFrom`, a translation of the loop at
l.1906-1935. A live slot is copied to `table[num]`, then `num++`, and only
then is `num == max` tested.

A row is abstracted to the slot it came from. The table is counted in
bytes, at `UPROC_SIZE` bytes per `struct uproc`.

`Init` may be any slot-state vector that `ps` can observe. Slot 1 holds
initproc, which never exits, and `ps` runs in some other slot.

`MCPTable.tla` makes the CPUs model values and defines a symmetry over them.
There is no symmetry over slots, because slot 1 is initproc and the order of
the free list matters.

## Runs

| Run | Config | Expect | Checks |
|---|---|---|---|
| `ptable_lifecycle` | `MCPTable_life.cfg` | pass | `ListsMatchState`, `ParentsLive`, `WaitNotAsleepOnZombie`, `LegalTransitions`, `RefinesLifecycle`, `ReapProgress` (under `FairSpec`) |
| `ptable_sched` | `MCPTable_sched.cfg` | pass | `TypeOK`, `ListsMatchState`, `PromoteRaisesAll` with two priority levels |
| `killed_leak` | `MCPTable_killed.cfg` | violation | `KilledOnlyIfRequested` |
| `wakeup_all` | `MCPTable_wakeup.cfg` | violation | `WakeupWakesAll` |
| `pid_wrap` | `MCPTable_pidwrap.cfg` | violation | `ForkReturnsPositivePid` with a 3-bit `nextpid` |
| `statelist_refinement` | `MCStateList.cfg` | pass | `WellFormed`, `RefinesSeq` |
| `mlfq_rr_liveness` | `MCMLFQ_rr.cfg` | pass | `SleepReturns`, `StarvationFree` with MAXPRIO=0 |
| `mlfq_budget` | `MCMLFQ_budget.cfg` | pass | `TypeOK`, `PromotionWithinInterval` with two priority levels, `ticks` up to its last value |
| `promotion_wrap` | `MCMLFQ_promowrap.cfg` | violation | `PromotionWithinInterval` across the wrap of `ticks` |
| `sleep_lost_tick` | `MCMLFQ_losttick.cfg` | violation | `SleepOnlyBeforeDeadline` |
| `getprocs_snapshot` | `MCGetProcs.cfg` | pass | `TypeOK`, `GetprocsIsSnapshot` |
| `getprocs_empty_table` | `MCGetProcs_buffer.cfg` | violation | `TableWithinBuffer` |

The properties of the `PTable` runs:
* **`ListsMatchState`**: every slot is on exactly one list, the one of its
  state. For a RUNNABLE process that is `ready[priority]`. The one
  exception is the child inside fork's window, which is on no list.
* **`ParentsLive`**: the parent of every live non-init process is a live
  process, not a free slot or a slot that was reused.
* **`WaitNotAsleepOnZombie`**: a parent is never asleep in `wait` while it
  has a ZOMBIE child, which would be a lost wakeup.
* **`LegalTransitions`**: every state change follows the life-cycle graph
  of the spec.
* **`RefinesLifecycle`**: every step of `PTable` is a step of
  `ProcLifecycle`, or leaves `state` and `parent` unchanged. In
  particular, `wait` reaps only the caller's own child, `exit` hands all
  children to initproc and wakes only the parent and initproc, and only a
  running process forks, exits or reaps.
* **`ReapProgress`**: a parent blocked in `wait` with a ZOMBIE child gets
  out of `wait`. It needs `exit`'s wakeup to reach the parent and the
  ready list to be FIFO. It promises only the return, because `wait` reaps
  one child per call: a second ZOMBIE waits for the next call. An earlier
  form ("every such ZOMBIE is reaped") was refuted by TLC for exactly that
  reason.
* **`PromoteRaisesAll`**: a promotion sweep raises every Sleeping, Running
  or Ready process below MAXPRIO by exactly one level and moves each ready
  list up in FIFO order (spec 4.5). A walk that followed `p->next` after
  the move, as `wakeup1` does, would stop at the first promoted process.
* **`KilledOnlyIfRequested`**: a process has `killed` set only if `kill()`
  was called with its pid.
* **`WakeupWakesAll`**: after `wakeup(chan)` no process is still asleep on
  `chan`.
* **`ForkReturnsPositivePid`**: a successful `fork` returns a positive pid
  to its parent (spec section 3: a pid is a positive integer, 0 means no
  process, and a negative result means that fork failed).

The properties of the `StateList` runs:
* **`WellFormed`**: every list is a finite chain. Head and tail are NULL
  together, tail is the last slot and `tail->next` is NULL, and no slot
  appears twice.
* **`RefinesSeq`**: the pointer lists implement the FIFO sequences.

The properties of the `MLFQ` runs:
* **`PromotionWithinInterval`**: no more than `TICKS_TO_PROMOTE + 1` ticks
  pass between two promotion sweeps (spec 4.5 and the starvation bound of
  section 8). `scheduler` tests `ticks >= PromoteAtTime` only between
  dispatches, so a sweep may come one tick late, but never later. The
  history variable `sincePromote` counts the ticks since the last sweep,
  up to `SinceCap`.
* **`SleepReturns`**: every `sys_sleep` call returns. This depends on
  `wakeup1` waking one sleeper per tick in FIFO order.
* **`StarvationFree`**: every RUNNABLE process is eventually dispatched.
* **`SleepOnlyBeforeDeadline`**: `sleep(&ticks)` is called only while the
  deadline has not passed, as it would be if the check and the sleep were
  done under the table lock (spec section 5).

The properties of the `GetProcs` runs:
* **`GetprocsIsSnapshot`**: for every table of at least one entry,
  `getprocs` returns the first min(max, #live) live slots in slot order.
  This is the snapshot of spec section 6, stated by `SnapshotRef` with
  `SelectSeq`/`SubSeq` independently of the loop.
* **`TableWithinBuffer`**: `getprocs` writes no more bytes than `ps`
  allocated.

### Bounds

* **`ptable_lifecycle`**: NPROC=3, 2 CPUs, MAXPRIO=0, pids up to 4, and
  `MaxSlice = 0` (with MAXPRIO=0 the settlement ignores the ticks run).
  This is 262k states and takes about 2.5 minutes with the liveness check.
  There is no symmetry, because the run checks liveness. With three slots, initproc can have two children, a child
  can have a grandchild to reparent, and two CPUs run a fork window against
  a kill, exit or wait on the other CPU.
* **`ptable_sched`**: 1 CPU, NPROC=3, MAXPRIO=1, BUDGET=1, `e \in 0..1`,
  pids up to 3. This is 127k states. A slice of one tick uses up the
  budget, so demotion is reachable in one step; the budget arithmetic
  across values is `MLFQ`'s subject. Two processes can be on `ready[0]`
  together when a sweep runs, which is what a walk that stops early would
  get wrong. A process can be demoted, promoted
  back, and moved by setpriority while RUNNABLE, RUNNING or SLEEPING.
* **`killed_leak`**: the violation needs a fork (pid 2), a kill of the
  child (pid 3) inside the window, a failed kstack, and a fork into the
  same slot (pid 4). That takes at least three slots and four pids.

* **`pid_wrap`**: 1 CPU, NPROC=2, `PidBits = 3` and `MaxPid = 7`, so the
  counter can reach the values 4..7 that read back as negative. TLC needs
  three forks: two fail in `kalloc`, which uses up pids 2 and 3, and the
  third gets pid 4 and returns -4. The other PTable runs use
  `PidBits = 4` with `MaxPid` at most 4, so their pids stay positive.

* **`statelist_refinement`**: 3 slots (symmetric), 3 lists, 2 channels,
  1,620 states. A list can hold every slot, so removal reaches the head,
  inner and tail cases. Two sleepers can share a channel while a third
  sleeps on the other one.

* **`MLFQ` runs**: two processes, BUDGET=2, TICKS_TO_PROMOTE=2, and
  `sys_sleep(1)`. With these values a budget runs out within one slice of
  two ticks, and promotion falls due every other tick.
  * `mlfq_rr_liveness` uses W=4 and has 155k states. With W=3 a process
    that sleeps through 2^W ticks reads the elapsed time as 0. The same
    happens in xv6 after 2^32 ticks, but it would hide every other cycle.
    The run uses MAXPRIO=0, the round-robin build that pdx.h allows. With
    two levels, TLC's lasso for `StarvationFree` puts every tick between a
    sleeper's `sleep` and the next dispatch, while the CPU runs nobody.
    `stepped` allows this, but a 1 ms tick against a scheduler pass of a
    few hundred instructions does not. The bound that two levels do rely
    on is `PromotionWithinInterval`.
  * `mlfq_budget` uses W=4 and BUDGET=1, so one tick uses up a slice and
    a process at priority 0 can exhaust its budget between two sweeps. The
    CONSTRAINT `TicksBeforeWrap` keeps `ticks` below 15, its last value.
    This leaves seven promotion intervals, and the wrap is the subject of
    `promotion_wrap`. 121k states.
  * `promotion_wrap` uses W=3, so `PromoteAtTime` can land on the last
    value, 7. TLC reaches it in 19 states.
  * `sleep_lost_tick` uses W=2 and MAXPRIO=0; it is violated within
    500 states.

* **`GetProcs` runs**: NPROC=5 slots (4 in `getprocs_empty_table`), every state vector with initproc
  live and a RUNNING caller, and `max` from 0 to NPROC+1. The snapshot run has 56,364
  states. The slots cover fewer, as many and more live processes than
  `max`, and non-live slots before, between and after live ones.

Liveness is checked on `MLFQ` and on `PTable` (`ReapProgress`), each under
the fairness described with its module. No liveness run uses symmetry,
because TLC does not combine symmetry with liveness soundly.

`kill`'s own promise, that a killed process ends up exiting, is not
checked. It needs strong fairness on four kernel steps per slot: the rest
of fork, sys_sleep's killed return, and trap()'s exit, because a timer tick
may preempt each of them any number of times. With those conjuncts the
liveness check of `ptable_lifecycle` ran for more than 30 minutes.

## Findings

* **`wakeup1` wakes one sleeper per call** (proc.c:1204). The spec (4.6)
  says every process sleeping on the channel becomes RUNNABLE. Two
  processes in `sys_sleep` share `&ticks`, and they are woken one per tick.
* **A killed flag leaks through slot reuse** (proc.c:153/165/318).
  1. `kill()` finds an EMBRYO on the EMBRYO list and sets `killed`.
  2. The allocation fails and the slot returns to UNUSED.
  3. `killed` is never cleared: neither the rollback nor `allocproc`
     resets it.
  4. The next process allocated in that slot starts out killed.

* **`fork` can return a non-positive pid on success** (proc.c:152/355).
  1. `nextpid` is a `uint` that nothing bounds, and failed allocations use
     up pids too.
  2. After 2^31 allocations, `fork` returns its `uint pid` as a negative
     `int`. The parent takes this as a failure (as `time.c` does) while the
     child runs.
  3. After 2^32 allocations, `fork` returns 0, so the parent takes the
     child's branch. After that, pids repeat.

  Spec invariant 2 assumes that the counter never wraps. The code does not
  enforce this. `pid_wrap` shows the first step with the counter scaled
  down to 3 bits.

* **Promotion can stop for a whole wrap of `ticks`** (proc.c:761/809).
  1. `PromoteAtTime = ticks + TICKS_TO_PROMOTE` is a uint.
  2. When the sum is the last value before UINT_MAX, the test
     `ticks >= PromoteAtTime` is true for that single value only.
  3. A tick between the two sections of the scheduler loop can skip the
     check at that value.
  4. `ticks` then wraps below `PromoteAtTime`, and nobody is promoted for
     2^32 ticks, about 49.7 days at TPS = 1000.

  In TLC's counterexample (W=3), one tick lands between the promotion
  check and the dispatch while `ticks` = `PromoteAtTime` = 7. After that,
  `sincePromote` grows past one interval. This is against the starvation
  bound of spec sections 4.5 and 8. For that whole period, a process
  demoted to priority 0 waits behind every process that keeps a higher
  priority.
* **`sys_sleep` can lose a tick** (sysproc.c:74). The test
  `ticks - ticks0 < n` runs without `ptable.lock`. A tick between the test
  and `sleep(&ticks, 0)` is missed, so the process goes to sleep after its
  deadline and oversleeps by at least one tick. Spec section 5 says the
  check and the sleep are done under the table lock.

* **`getprocs` overruns an empty table** (proc.c:1930). `ps 0` mallocs
  0 bytes (ps.c:20). `getprocs` copies initproc's row before it first
  tests `num == max`, and at that point `num` is already 1, so the test
  never succeeds. Every live process is written past the table.

## Not modelled

* Reporting (`procdump*` and the `*dump` helpers): read-only console
  output.
* The byte count of `sys_getprocs`' `argptr(1, &t, n)` (sysproc.c:173).
  It checks n bytes, but `getprocs` writes n `struct uproc` entries.
  `argptr` is in syscall.c, outside src/, so `GetProcs` takes the call as
  succeeding. The mismatch is listed as a hazard.
* Credentials (`getuid`, `getgid`, `getppid`, `setuid`, `setgid`). `sys_setuid`
  and `sys_setgid` accept 0..32767. `fork` copies both fields, and
  `getprocs` and `procdump` report them. They decide nothing in scheduling or
  the lifecycle, and the spec states no property about them.
  `getppid` reads `parent->pid`, which `ParentsLive` keeps meaningful.
* `kill(1)`: initproc's exit panics, so `kill(1)` brings the system down.
  The exit happens in trap() (not in this repository), and a halt is outside
  the model. This is listed as a hazard.
* The detached `next` of a removed head. The head case of
  `stateListRemove` (proc.c:1766) returns before `p->next = NULL`, against
  the comment at l.1791. This is latent: every caller re-adds the slot,
  which resets `next`, or never follows it. Only `WellFormed` is checked
  for it.
* `growproc`/`sbrk`, `cpuid`/`mycpu`, and `uptime`/`date`/`halt`.
* The P3 and pre-P3 `#else` variants.
* The user programs other than `ps` (`time.c`, `proctest.c`, `schedTest.c`): they are the callers the models take as given.
* The timer trap itself (trap.c, not under src/). `MLFQ`'s `Tick` follows
  the xv6 timer: `ticks++`, `wakeup(&ticks)`, `yield`.
* Sleepers on other subsystems' channels (pipes, disk, log). Their
  sleep/wakeup protocol is the one modelled on `&ticks`.

## Plan

1. `PTable`. Done.
2. `MLFQ`. Done: the scheduler with a W-bit tick counter, the sys_sleep
   loop and liveness under the fairness of the timer. The loop test
   converts `n` to uint as C does. With `n = -1` TLC finds a fair behaviour
   in which `sys_sleep` never returns. No document says what a negative `n`
   should do, so this is a hazard, not a run. Still open: several CPUs.
3. `ProcLifecycle`. Done: `PTable` refines it in `ptable_lifecycle`.
4. `StateList`. Done: the list functions at pointer level, with head, tail and
   `next` in an arena and a RECURSIVE walk. They are checked against the
   sequence operators used in `PTable`.
5. Liveness on `PTable`. Done: `ReapProgress` under `FairSpec`. Still
   open: `kill` taking effect, which needs strong fairness that is too
   expensive at this size.
6. The promotion sweep as its loop. Done (`PromoteRaisesAll`).
7. The width of `nextpid`. Done (`pid_wrap`).
