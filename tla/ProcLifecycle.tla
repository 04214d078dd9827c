---------------------------- MODULE ProcLifecycle ----------------------------
(***************************************************************************)
(* What the process core promises about process lifetimes, after spec     *)
(* sections 3, 4.3 and 8, without lists, CPUs, locks or priorities: each   *)
(* slot has a state and a parent, and one step moves one process along the *)
(* lifecycle.  Only a running process forks, exits or reaps; a process is  *)
(* reaped only by its parent; exit passes every child to the root process  *)
(* and wakes nobody but the parent and the root.  PTable.tla refines this  *)
(* module.                                                                 *)
(***************************************************************************)
CONSTANTS
  Procs,   \* the process slots
  Root,    \* initproc
  NoProc   \* no parent

VARIABLES state, parent

vars == <<state, parent>>

UNUSED == "unused"
EMBRYO == "embryo"
SLEEPING == "sleep"
RUNNABLE == "runble"
RUNNING == "run"
ZOMBIE == "zombie"

Init ==
  /\ state = [p \in Procs |-> IF p = Root THEN RUNNABLE ELSE UNUSED]
  /\ parent = [p \in Procs |-> NoProc]

\* allocproc on behalf of a running process.
Alloc(q) ==
  /\ \E p \in Procs : state[p] = RUNNING
  /\ state[q] = UNUSED
  /\ state' = [state EXCEPT ![q] = EMBRYO]
  /\ UNCHANGED parent

\* A failed fork gives the slot back.
Free(q) ==
  /\ state[q] = EMBRYO
  /\ state' = [state EXCEPT ![q] = UNUSED]
  /\ UNCHANGED parent

\* A successful fork by p: q becomes RUNNABLE with parent p.
Spawn(p, q) ==
  /\ state[p] = RUNNING /\ state[q] = EMBRYO
  /\ state' = [state EXCEPT ![q] = RUNNABLE]
  /\ parent' = [parent EXCEPT ![q] = p]

\* Dispatch, preemption, sleep and a single wakeup.
Move(q, from, to) ==
  /\ state[q] = from
  /\ state' = [state EXCEPT ![q] = to]
  /\ UNCHANGED parent

\* exit of p: ZOMBIE, its children passed to Root, and the sleepers among
\* its parent and Root possibly woken.
Die(p) ==
  /\ p # Root /\ state[p] = RUNNING
  /\ \E woken \in SUBSET {q \in {parent[p], Root} : state[q] = SLEEPING} :
       state' = [q \in Procs |-> IF q = p THEN ZOMBIE
                                 ELSE IF q \in woken THEN RUNNABLE ELSE state[q]]
  /\ parent' = [q \in Procs |-> IF parent[q] = p THEN Root ELSE parent[q]]

\* wait by p reaps its ZOMBIE child z.
Reap(p, z) ==
  /\ state[p] = RUNNING /\ state[z] = ZOMBIE /\ parent[z] = p
  /\ state' = [state EXCEPT ![z] = UNUSED]
  /\ parent' = [parent EXCEPT ![z] = NoProc]

Next ==
  \E p, q \in Procs :
    \/ Alloc(q) \/ Free(q) \/ Spawn(p, q) \/ Die(p) \/ Reap(p, q)
    \/ Move(q, RUNNABLE, RUNNING) \/ Move(q, RUNNING, RUNNABLE)
    \/ Move(q, RUNNING, SLEEPING) \/ Move(q, SLEEPING, RUNNABLE)

Spec == Init /\ [][Next]_vars
=============================================================================
