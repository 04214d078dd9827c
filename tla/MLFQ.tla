-------------------------------- MODULE MLFQ --------------------------------
(***************************************************************************)
(* The multi-level feedback queue of src/src/proc.c (CS333_P4) on one CPU,  *)
(* with time kept exactly: ticks, PromoteAtTime and p->cpu_ticks_in are    *)
(* uint counters of width W (xv6 has W = 32), so their wrap-around is part *)
(* of the model.  The processes are a fixed set that compute in user mode  *)
(* and call sys_sleep(n); fork, exit, wait and kill are in PTable.tla.     *)
(*                                                                         *)
(* The scheduler loop is two critical sections, the promotion check and    *)
(* the dispatch, with interrupts enabled between and after them (spc).     *)
(* sys_sleep reads ticks without a lock and then calls sleep(&ticks, 0)    *)
(* (pc).  The timer interrupt, outside src/, increments ticks, calls       *)
(* wakeup(&ticks) and then yield() if a process is RUNNING; between two    *)
(* interrupts the CPU takes at least one step (stepped), a process in user *)
(* mode taking steps all the time, and a process resumed inside the kernel *)
(* takes its next kernel step before the next tick: a tick is 1 ms, a      *)
(* scheduler pass or a step of sys_sleep a few hundred instructions.       *)
(***************************************************************************)
EXTENDS Integers, SequencesExt

CONSTANTS
  Procs,             \* the processes, RUNNABLE at boot
  MAXPRIO,           \* highest priority level (pdx.h)
  DEFAULTPRIO,       \* priority given by allocproc
  BUDGET,            \* budget given on allocation, demotion and promotion
  TICKS_TO_PROMOTE,  \* promotion interval (pdx.h)
  W,                 \* width in bits of ticks and the counters derived from it
  SleepArgs,         \* arguments n of sys_sleep(n)
  NULL

ASSUME MAXPRIO >= 0 /\ DEFAULTPRIO \in 0..MAXPRIO /\ BUDGET >= 1
ASSUME TICKS_TO_PROMOTE >= 1 /\ SleepArgs \subseteq Int

Prios == 0..MAXPRIO

\* A uint of W bits.
Uint(x) == x % (2 ^ W)

VARIABLES
  ticks,          \* the global tick counter (trap.c)
  PromoteAtTime,  \* ptable.PromoteAtTime
  state,          \* p->state: "runble", "run" or "sleep"
  priority,       \* p->priority
  budget,         \* p->budget (int)
  cpu_ticks_in,   \* p->cpu_ticks_in (uint)
  ticks0,         \* sys_sleep's local ticks0
  nArg,           \* sys_sleep's argument n
  pc,             \* "user", "test" (loop test of sys_sleep), "sleep" (about to call sleep)
  ready,          \* ptable.ready[i] as a sequence
  sleeping,       \* ptable.list[SLEEPING] as a sequence
  cur,            \* c->proc, the RUNNING process or NULL
  spc,            \* scheduler(): "promote", "dispatch", "idle" (hlt) or "swtch"
  stepped,        \* the CPU has taken a step since the last tick
  sincePromote    \* history: ticks since the last promotion, capped at SinceCap

vars == <<ticks, PromoteAtTime, state, priority, budget, cpu_ticks_in, ticks0,
          nArg, pc, ready, sleeping, cur, spc, stepped, sincePromote>>

\* The history variable sincePromote counts at most this far: enough to
\* tell a promotion one interval late from one on time.
SinceCap == 2 * TICKS_TO_PROMOTE + 1

-----------------------------------------------------------------------------

\* ticks - p->cpu_ticks_in, a uint subtraction.

Elapsed(p, now) == Uint(now - cpu_ticks_in[p])

\* A settlement that demotes without the priority > 0 test.
SettleNoFloor(p, now) ==
  LET b == budget[p] - Elapsed(p, now)
  IN  IF MAXPRIO = 0 THEN [prio |-> priority[p], budget |-> budget[p]]
      ELSE IF b <= 0 THEN [prio |-> priority[p] - 1, budget |-> BUDGET]
      ELSE [prio |-> priority[p], budget |-> b]

\* The budget/priority settlement of yield, sleep and exit at time now,
\* skipped when MAXPRIO = 0.
Settle(p, now) ==
  LET b == budget[p] - Elapsed(p, now)
  IN  IF MAXPRIO = 0 THEN [prio |-> priority[p], budget |-> budget[p]]
      ELSE IF b <= 0
      THEN [prio |-> IF priority[p] > 0 THEN priority[p] - 1 ELSE 0, budget |-> BUDGET]
      ELSE [prio |-> priority[p], budget |-> b]

\* wakeup1(&ticks): every sleeper here sleeps on &ticks, and the walk stops
\* after the first move (see StateList.tla), so the head is woken.
WakeTicks(rd) ==
  IF sleeping = <<>> THEN [ready |-> rd, sleeping |-> sleeping, woken |-> NULL]
  ELSE LET q == Head(sleeping)
       IN  [ready |-> [rd EXCEPT ![priority[q]] = Append(@, q)],
            sleeping |-> Tail(sleeping), woken |-> q]

Init ==
  /\ ticks = 0
  /\ PromoteAtTime = Uint(0 + TICKS_TO_PROMOTE)
  /\ state = [p \in Procs |-> "runble"]
  /\ priority = [p \in Procs |-> DEFAULTPRIO]
  /\ budget = [p \in Procs |-> BUDGET]
  /\ cpu_ticks_in = [p \in Procs |-> 0]
  /\ ticks0 = [p \in Procs |-> 0]
  /\ nArg = [p \in Procs |-> 0]
  /\ pc = [p \in Procs |-> "user"]
  /\ ready = [i \in Prios |-> IF i = DEFAULTPRIO THEN SetToSeq(Procs) ELSE <<>>]
  /\ sleeping = <<>>
  /\ cur = NULL
  /\ spc = "promote"
  /\ stepped = TRUE
  /\ sincePromote = 0

-----------------------------------------------------------------------------
(* The timer interrupt: ticks++, wakeup(&ticks), then yield() of the       *)
(* process it interrupted, which settles its budget against the new ticks  *)
(* and enqueues it on the ready list of its (possibly lowered) priority.   *)

\* yield's stateListAdd(&ptable.ready[curproc->priority], curproc).
YieldEnqueueFront(s, p) == <<p>> \o s

YieldEnqueue(s, p) == Append(s, p)

Tick ==
  LET now == Uint(ticks + 1)
      w   == WakeTicks(ready)
  IN
  /\ stepped \/ (cur # NULL /\ pc[cur] = "user")
  /\ ticks' = now
  /\ stepped' = FALSE
  /\ sincePromote' = IF sincePromote < SinceCap THEN sincePromote + 1 ELSE SinceCap
  /\ sleeping' = w.sleeping
  /\ IF cur = NULL
     THEN /\ ready' = w.ready
          /\ state' = IF w.woken = NULL THEN state ELSE [state EXCEPT ![w.woken] = "runble"]
          /\ spc' = IF spc = "idle" THEN "promote" ELSE spc
          /\ UNCHANGED <<cur, priority, budget>>
     ELSE LET s == Settle(cur, now)
          IN  /\ priority' = [priority EXCEPT ![cur] = s.prio]
              /\ budget' = [budget EXCEPT ![cur] = s.budget]
              /\ ready' = [w.ready EXCEPT ![s.prio] = YieldEnqueue(@, cur)]
              /\ state' = [q \in Procs |-> IF q = cur \/ q = w.woken THEN "runble" ELSE state[q]]
              /\ cur' = NULL
              /\ spc' = "promote"
  /\ UNCHANGED <<PromoteAtTime, cpu_ticks_in, ticks0, nArg, pc>>

-----------------------------------------------------------------------------
(* sys_sleep(n) of the running process.                                    *)

\* ticks0 = ticks; the loop is entered.
SysSleep(p, n) ==
  /\ cur = p /\ pc[p] = "user"
  /\ ticks0' = [ticks0 EXCEPT ![p] = ticks]
  /\ nArg' = [nArg EXCEPT ![p] = n]
  /\ pc' = [pc EXCEPT ![p] = "test"]
  /\ stepped' = TRUE
  /\ UNCHANGED <<ticks, PromoteAtTime, state, priority, budget, cpu_ticks_in,
                 ready, sleeping, cur, spc, sincePromote>>

\* while(ticks - ticks0 < n), read without any lock; killed is never set
\* here.  The int n is converted to uint for the comparison, so a negative
\* n is a deadline of 2^W + n ticks.
SleepTest(p) ==
  /\ cur = p /\ pc[p] = "test"
  /\ pc' = [pc EXCEPT ![p] = IF Uint(ticks - ticks0[p]) < Uint(nArg[p]) THEN "sleep" ELSE "user"]
  /\ stepped' = TRUE
  /\ UNCHANGED <<ticks, PromoteAtTime, state, priority, budget, cpu_ticks_in,
                 ticks0, nArg, ready, sleeping, cur, spc, sincePromote>>

\* sleep(&ticks, 0): under ptable.lock, settle, go SLEEPING, sched().  The
\* process resumes at the loop test.
SleepEnqueueFront(s, p) == <<p>> \o s

SleepEnqueue(s, p) == Append(s, p)

SleepCall(p) ==
  LET s == Settle(p, ticks)
  IN
  /\ cur = p /\ pc[p] = "sleep"
  /\ priority' = [priority EXCEPT ![p] = s.prio]
  /\ budget' = [budget EXCEPT ![p] = s.budget]
  /\ state' = [state EXCEPT ![p] = "sleep"]
  /\ sleeping' = SleepEnqueue(sleeping, p)
  /\ pc' = [pc EXCEPT ![p] = "test"]
  /\ cur' = NULL
  /\ spc' = "promote"
  /\ stepped' = TRUE
  /\ UNCHANGED <<ticks, PromoteAtTime, cpu_ticks_in, ticks0, nArg, ready, sincePromote>>

-----------------------------------------------------------------------------
(* scheduler()                                                              *)

Raise(p) == IF priority[p] < MAXPRIO THEN priority[p] + 1 ELSE priority[p]

\* The ready sweep from MAXPRIO down: every process below MAXPRIO moves to
\* the tail of the list one level up, after that list has been walked.
PromotedReady ==
  [i \in Prios |-> IF i = MAXPRIO THEN ready[MAXPRIO] \o ready[MAXPRIO - 1]
                   ELSE IF i = 0 THEN <<>> ELSE ready[i - 1]]

\* A promotion check that waits one tick too long.
PromoteDueStrict == ticks > PromoteAtTime /\ MAXPRIO # 0

\* The promotion check: the test ticks >= PromoteAtTime of uints, and
\* MAXPRIO # 0.
PromoteDue == ticks >= PromoteAtTime /\ MAXPRIO # 0

SchedPromote ==
  /\ cur = NULL /\ spc = "promote"
  /\ IF PromoteDue
     THEN LET up == {q \in Procs : state[q] \in {"sleep", "runble"} /\ priority[q] < MAXPRIO}
          IN  /\ priority' = [q \in Procs |-> IF q \in up THEN Raise(q) ELSE priority[q]]
              /\ budget' = [q \in Procs |-> IF q \in up THEN BUDGET ELSE budget[q]]
              /\ ready' = PromotedReady
              /\ PromoteAtTime' = Uint(ticks + TICKS_TO_PROMOTE)
              /\ sincePromote' = 0
     ELSE UNCHANGED <<priority, budget, ready, PromoteAtTime, sincePromote>>
  /\ spc' = "dispatch"
  /\ stepped' = TRUE
  /\ UNCHANGED <<ticks, state, cpu_ticks_in, ticks0, nArg, pc, sleeping, cur>>

\* The dispatch: the head of the highest non-empty ready list, or hlt().
SchedDispatch ==
  /\ cur = NULL /\ spc = "dispatch"
  /\ IF \E i \in Prios : ready[i] # <<>>
     THEN LET i == CHOOSE j \in Prios : ready[j] # <<>> /\ \A k \in j + 1..MAXPRIO : ready[k] = <<>>
              p == Head(ready[i])
          IN  /\ ready' = [ready EXCEPT ![i] = Tail(@)]
              /\ stepped' = (pc[p] = "user")
              /\ state' = [state EXCEPT ![p] = "run"]
              /\ cpu_ticks_in' = [cpu_ticks_in EXCEPT ![p] = ticks]
              /\ cur' = p
              /\ spc' = "swtch"
     ELSE /\ spc' = "idle"
          /\ stepped' = TRUE
          /\ UNCHANGED <<ready, state, cpu_ticks_in, cur>>
  /\ UNCHANGED <<ticks, PromoteAtTime, priority, budget, ticks0, nArg, pc, sleeping,
                 sincePromote>>

Next ==
  \/ Tick
  \/ SchedPromote
  \/ SchedDispatch
  \/ \E p \in Procs : \/ \E n \in SleepArgs : SysSleep(p, n)
                      \/ SleepTest(p)
                      \/ SleepCall(p)

\* The timer keeps interrupting and the scheduler loop keeps running: weak
\* fairness.  A dispatched process executes its kernel code: weak fairness
\* (a tick may still fall between two of its steps).  Whether a process
\* calls sys_sleep is its own choice.
Fairness ==
  /\ WF_vars(Tick)
  /\ WF_vars(SchedPromote)
  /\ WF_vars(SchedDispatch)
  /\ \A p \in Procs : WF_vars(SleepTest(p)) /\ WF_vars(SleepCall(p))

Spec == Init /\ [][Next]_vars /\ Fairness

-----------------------------------------------------------------------------

TypeOK ==
  /\ ticks \in 0..2^W - 1 /\ PromoteAtTime \in 0..2^W - 1
  /\ state \in [Procs -> {"runble", "run", "sleep"}]
  /\ priority \in [Procs -> Prios]
  /\ budget \in [Procs -> Int]
  /\ cpu_ticks_in \in [Procs -> 0..2^W - 1]
  /\ pc \in [Procs -> {"user", "test", "sleep"}]
  /\ cur \in Procs \cup {NULL}
  /\ spc \in {"promote", "dispatch", "idle", "swtch"}
  /\ ticks0 \in [Procs -> 0..2^W - 1] /\ nArg \in [Procs -> SleepArgs \cup {0}]
  /\ ready \in [Prios -> Seq(Procs)] /\ sleeping \in Seq(Procs)
  /\ stepped \in BOOLEAN /\ sincePromote \in 0..SinceCap

\* Spec section 4.5 and the starvation bound of section 8: the promotion
\* sweep runs once per promotion interval, so a demoted process is back
\* at MAXPRIO within one interval.  scheduler() tests ticks >= PromoteAtTime
\* only between dispatches, so a sweep may come one tick after it falls
\* due, but never a whole interval late.
PromotionWithinInterval == MAXPRIO # 0 => sincePromote <= TICKS_TO_PROMOTE + 1

\* Spec section 5: the elapsed-ticks check and the sleep are one step
\* under the table lock, so sys_sleep never goes to sleep once its n ticks
\* have passed.  sys_sleep tests ticks - ticks0 < n without a lock.
SleepOnlyBeforeDeadline ==
  [][\A p \in Procs : SleepCall(p) => Uint(ticks - ticks0[p]) < Uint(nArg[p])]_vars

\* Every sys_sleep call returns: wakeup(&ticks) wakes one sleeper per tick
\* and the SLEEPING list is FIFO, so every sleeper is woken in turn, runs
\* again and re-tests its deadline.
SleepReturns == \A p \in Procs : pc[p] # "user" ~> pc[p] = "user"

\* Every RUNNABLE process is eventually dispatched: ready lists are FIFO,
\* every tick preempts the running process, and budget exhaustion and
\* promotion move processes between the levels.
StarvationFree == \A p \in Procs : state[p] = "runble" ~> state[p] = "run"
=============================================================================
