------------------------------ MODULE GetProcs ------------------------------
(***************************************************************************)
(* The process snapshot of CS333 P2-P4: the user program ps (src/src/ps.c) *)
(* allocates a table of max struct uproc entries and calls                 *)
(* getprocs(max, table); sys_getprocs (src/src/sysproc.c) validates the    *)
(* user buffer with argptr(1, &t, n) and calls getprocs (src/src/proc.c),  *)
(* which fills the table under ptable.lock while it walks ptable.proc[]    *)
(* in slot order.                                                          *)
(*                                                                         *)
(* getprocs holds the lock for the whole walk, so it is one step here; its *)
(* loop is the RECURSIVE operator GetprocsFrom.  A row of the table is     *)
(* abstracted to the slot it was copied from; the sizes of the buffer are  *)
(* counted in bytes, a struct uproc being UPROC_SIZE bytes.                *)
(***************************************************************************)
EXTENDS Integers, Sequences

CONSTANTS
  NPROC,       \* number of slots of ptable.proc
  UPROC_SIZE,  \* sizeof(struct uproc) in bytes
  Args         \* values of max that ps may be given (argv[1], or NPROC)

ASSUME NPROC >= 2 /\ UPROC_SIZE >= 2 /\ Args \subseteq Nat

Slots == 1..NPROC

\* The labels of states[] (proc.c l.16-23).
States == {"unused", "embryo", "sleep", "runble", "run", "zombie"}

\* The states getprocs reports.
LiveStates == {"runble", "sleep", "run", "zombie"}

VARIABLES
  st,         \* p->state of each slot
  pc,         \* ps: "idle" (not started), "call" (table allocated), "print" (getprocs returned)
  max,        \* ps's max, the argument n of sys_getprocs
  allocated,  \* bytes of the table malloc'd by ps
  rows        \* the slots copied into table[0..num-1], in order

vars == <<st, pc, max, allocated, rows>>

-----------------------------------------------------------------------------

\* A loop that stops only once num exceeds max.
RECURSIVE GetprocsFromPastMax(_, _, _, _)
GetprocsFromPastMax(s, m, i, num) ==
  IF i > NPROC THEN <<>>
  ELSE LET row == IF s[i] \in LiveStates THEN <<i>> ELSE <<>>
       IN  row \o (IF num + Len(row) > m THEN <<>>
                   ELSE GetprocsFromPastMax(s, m, i + 1, num + Len(row)))

\* The loop with p <= &ptable.proc[NPROC]: it reads one slot past the
\* array, whose bytes may well look like a live process.
RECURSIVE GetprocsFromOverrun(_, _, _, _)
GetprocsFromOverrun(s, m, i, num) ==
  IF i > NPROC + 1 THEN <<>>
  ELSE LET row == IF i > NPROC \/ s[i] \in LiveStates THEN <<i>> ELSE <<>>
       IN  row \o (IF num + Len(row) = m THEN <<>>
                   ELSE GetprocsFromOverrun(s, m, i + 1, num + Len(row)))

\* The for loop over ptable.proc from slot i, with num rows already filled:
\* a live slot is copied to table[num] and num++, and only then is
\* num == max tested.
RECURSIVE GetprocsFrom(_, _, _, _)
GetprocsFrom(s, m, i, num) ==
  IF i > NPROC THEN <<>>
  ELSE LET row == IF s[i] \in LiveStates THEN <<i>> ELSE <<>>
       IN  row \o (IF num + Len(row) = m THEN <<>>
                   ELSE GetprocsFrom(s, m, i + 1, num + Len(row)))

\* getprocs(max, table): the rows written; it returns their number.
getprocs(s, m) == GetprocsFrom(s, m, 1, 0)

\* Any table ps can see: initproc (slot 1, from userinit) never exits and
\* ps itself is RUNNING in some other slot.
Init ==
  /\ st \in {s \in [Slots -> States] :
               s[1] \in LiveStates /\ \E i \in Slots \ {1} : s[i] = "run"}
  /\ pc = "idle"
  /\ max = 0
  /\ allocated = 0
  /\ rows = <<>>

\* ps main: max = NPROC or atoi(argv[1]) (never negative: atoi stops at
\* '-'), table = malloc(max * sizeof(struct uproc)).
PsMain(m) ==
  /\ pc = "idle"
  /\ max' = m
  /\ allocated' = m * UPROC_SIZE
  /\ pc' = "call"
  /\ UNCHANGED <<st, rows>>

\* sys_getprocs: argint(0, &n), argptr(1, &t, n), which succeeds since
\* the table lies in ps's heap, then getprocs(n, t).
SysGetprocs ==
  /\ pc = "call"
  /\ rows' = getprocs(st, max)
  /\ pc' = "print"
  /\ UNCHANGED <<st, max, allocated>>

\* ps prints table[0..size-1], frees the table and exits; the shell may
\* run it again.
PsExit ==
  /\ pc = "print"
  /\ pc' = "idle"
  /\ rows' = <<>>
  /\ UNCHANGED <<st, max, allocated>>

Next ==
  \/ \E m \in Args : PsMain(m)
  \/ SysGetprocs
  \/ PsExit

Spec == Init /\ [][Next]_vars

-----------------------------------------------------------------------------

TypeOK ==
  /\ st \in [Slots -> States]
  /\ pc \in {"idle", "call", "print"}
  /\ max \in Nat /\ allocated \in Nat
  /\ rows \in Seq(Slots)

\* Spec section 6: the snapshot query returns one row per live process,
\* here in slot order, and as many as the caller's table holds: the first
\* min(max, #live) live slots.  Live is every state but Unused and Embryo.
SnapshotRef(s, m) ==
  LET live == SelectSeq([i \in Slots |-> i], LAMBDA i : s[i] \notin {"unused", "embryo"})
  IN  SubSeq(live, 1, IF m < Len(live) THEN m ELSE Len(live))

\* getprocs' loop, which tests num == max after each slot, returns exactly
\* the snapshot for every table of at least one entry.
GetprocsIsSnapshot ==
  (pc = "print" /\ max >= 1) => rows = SnapshotRef(st, max)

\* getprocs writes no more rows than ps allocated (ps.c l.20): ps 0
\* mallocs an empty table, and the num == max test after the write of
\* initproc's row never succeeds.
TableWithinBuffer == pc = "print" => Len(rows) * UPROC_SIZE <= allocated
=============================================================================
