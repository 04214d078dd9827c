---------------------------- MODULE StateListSeq ----------------------------
(***************************************************************************)
(* What the state lists of src/src/proc.c promise to their callers: each   *)
(* list is a FIFO sequence of process slots, a slot is on at most one      *)
(* list, stateListAdd appends a detached slot at the tail, and             *)
(* stateListRemove takes a slot out of the list it is on, keeping the      *)
(* order of the others.  wakeup1 moves a slot from the SLEEPING list to a  *)
(* ready list in one step.  This is the view PTable.tla uses.              *)
(***************************************************************************)
EXTENDS Integers, SequencesExt

CONSTANTS Procs, Lists

VARIABLE lists

OnSomeList == UNION {ToSet(lists[l]) : l \in Lists}

Init == lists = [l \in Lists |-> <<>>]

\* stateListAdd of a slot that is on no list.
AddA(l, p) ==
  /\ p \notin OnSomeList
  /\ lists' = [lists EXCEPT ![l] = Append(@, p)]

\* stateListRemove: a slot not on l leaves every list as it is.
RemoveA(l, p) ==
  lists' = [lists EXCEPT ![l] = Remove(@, p)]

\* Remove from one list and append to another, as wakeup1 does.
MoveA(from, to, p) ==
  /\ p \in ToSet(lists[from])
  /\ from # to
  /\ lists' = [lists EXCEPT ![from] = Remove(@, p), ![to] = Append(@, p)]

Next ==
  \E l, m \in Lists, p \in Procs : AddA(l, p) \/ RemoveA(l, p) \/ MoveA(l, m, p)

Spec == Init /\ [][Next]_lists
=============================================================================
