------------------------------ MODULE StateList ------------------------------
(***************************************************************************)
(* The state lists of src/src/proc.c at pointer level: each list is a      *)
(* struct ptrs {head, tail} and the slots are chained through p->next.     *)
(* stateListAdd and stateListRemove are operators on the memory record     *)
(* mem = [head, tail, next]; the calls from the rest of proc.c are         *)
(* actions with any list and slot as arguments.  wakeup1's walk of the     *)
(* SLEEPING list is modelled loop iteration by loop iteration, with its    *)
(* cursor p in wcur, since it changes the list it walks.  Everything       *)
(* happens under ptable.lock, so no call interleaves with the walk.        *)
(*                                                                         *)
(* StateListSeq is the sequence view PTable.tla uses; this module refines  *)
(* it under the mapping that reads every list by following next from its   *)
(* head.                                                                   *)
(***************************************************************************)
EXTENDS Integers, FiniteSets, SequencesExt

CONSTANTS
  Procs,      \* the slots of ptable.proc
  Lists,      \* the lists ptable.list[] and ptable.ready[]
  Sleeping,   \* ptable.list[SLEEPING]
  Chans,      \* the channels slots may sleep on
  NIL         \* NULL

ASSUME Sleeping \in Lists /\ NIL \notin Procs

Ptr == Procs \cup {NIL}

VARIABLES
  mem,      \* [head |-> .., tail |-> .., next |-> ..]
  chan,     \* p->chan of each slot
  wchan,    \* argument of a wakeup1 call in progress, NIL when none is
  wcur      \* wakeup1's cursor p

vars == <<mem, chan, wchan, wcur>>

\* The slots reached from x by following next, at most one more than
\* there are slots, so that a cycle shows as an over-long chain.
RECURSIVE ChainN(_, _, _)
ChainN(m, x, n) ==
  IF x = NIL \/ n = 0 THEN <<>> ELSE <<x>> \o ChainN(m, m.next[x], n - 1)

Chain(m, x) == ChainN(m, x, Cardinality(Procs) + 1)

ListOf(m, l) == Chain(m, m.head[l])

OnSomeList(m) == UNION {ToSet(ListOf(m, l)) : l \in Lists}

\* An add that pushes at the head instead of the tail.
stateListAddAtHead(m, l, p) ==
  [m EXCEPT !.head[l] = p, !.next[p] = m.head[l],
            !.tail[l] = IF @ = NIL THEN p ELSE @]

\* stateListAdd(list, p)
stateListAdd(m, l, p) ==
  IF m.head[l] = NIL
  THEN [m EXCEPT !.head[l] = p, !.tail[l] = p, !.next[p] = NIL]
  ELSE [m EXCEPT !.next = [@ EXCEPT ![m.tail[l]] = p, ![p] = NIL],
                 !.tail[l] = p]

\* The removal of the head, which returns before p->next = NULL.
RemoveHeadKeepTail(m, l, p) == [m EXCEPT !.head[l] = m.next[p]]

RemoveHead(m, l, p) ==
  [m EXCEPT !.head[l] = m.next[p],
            !.tail[l] = IF @ = p THEN NIL ELSE @]

\* The removal of a slot after the head: previous is its predecessor.
RemoveInner(m, l, p) ==
  LET w == ListOf(m, l)
      previous == w[SelectInSeq(w, LAMBDA q : q = p) - 1]
  IN  IF p = m.tail[l]
      THEN [m EXCEPT !.tail[l] = previous,
                     !.next = [@ EXCEPT ![previous] = NIL, ![p] = NIL]]
      ELSE [m EXCEPT !.next = [@ EXCEPT ![previous] = m.next[p], ![p] = NIL]]

\* stateListRemove(list, p): the memory after the call and its result.
stateListRemove(m, l, p) ==
  CASE m.head[l] = NIL \/ m.tail[l] = NIL -> [mem |-> m, ret |-> -1]
    [] m.head[l] = p                      -> [mem |-> RemoveHead(m, l, p), ret |-> 0]
    [] p \notin ToSet(ListOf(m, l))       -> [mem |-> m, ret |-> -1]
    [] OTHER                              -> [mem |-> RemoveInner(m, l, p), ret |-> 0]

Init ==
  /\ mem = [head |-> [l \in Lists |-> NIL], tail |-> [l \in Lists |-> NIL],
            next |-> [p \in Procs |-> NIL]]
  /\ chan \in [Procs -> Chans]
  /\ wchan = NIL
  /\ wcur = NIL

\* A caller adds a slot that is on no list (the callers' discipline).
CallAdd(l, p) ==
  /\ wchan = NIL
  /\ p \notin OnSomeList(mem)
  /\ mem' = stateListAdd(mem, l, p)
  /\ UNCHANGED <<chan, wchan, wcur>>

\* A caller removes a slot from a list, whether or not it is on it.
CallRemove(l, p) ==
  /\ wchan = NIL
  /\ mem' = stateListRemove(mem, l, p).mem
  /\ UNCHANGED <<chan, wchan, wcur>>

\* wakeup1(chan): p = ptable.list[SLEEPING].head
WakeStart(c) ==
  /\ wchan = NIL
  /\ wchan' = c
  /\ wcur' = mem.head[Sleeping]
  /\ UNCHANGED <<mem, chan>>

\* One pass of the while(p) body: a sleeper on chan goes to its ready
\* list (its priority is the choice of t), then p = p->next.
WakeMove(p, t) ==
  LET m1 == stateListAdd(stateListRemove(mem, Sleeping, p).mem, t, p)
  IN  /\ mem' = m1
      /\ wcur' = m1.next[p]

WakeStep ==
  /\ wchan # NIL
  /\ wcur # NIL
  /\ \/ /\ chan[wcur] = wchan
        /\ \E t \in Lists \ {Sleeping} : WakeMove(wcur, t)
     \/ /\ chan[wcur] # wchan
        /\ wcur' = mem.next[wcur]
        /\ UNCHANGED mem
  /\ UNCHANGED <<chan, wchan>>

WakeEnd ==
  /\ wchan # NIL
  /\ wcur = NIL
  /\ wchan' = NIL
  /\ UNCHANGED <<mem, chan, wcur>>

Next ==
  \/ \E l \in Lists, p \in Procs : CallAdd(l, p) \/ CallRemove(l, p)
  \/ \E c \in Chans : WakeStart(c)
  \/ WakeStep
  \/ WakeEnd

Spec == Init /\ [][Next]_vars

-----------------------------------------------------------------------------

TypeOK ==
  /\ mem \in [head : [Lists -> Ptr], tail : [Lists -> Ptr], next : [Procs -> Ptr]]
  /\ chan \in [Procs -> Chans]
  /\ wchan \in Chans \cup {NIL}
  /\ wcur \in Ptr

\* Every list is a finite chain from head to tail: head and tail are NULL
\* together, the chain ends at tail with tail->next = NULL, and no slot is
\* on two lists or twice on one.  A head or tail left dangling by a removal
\* breaks this several calls later, when an add links through it.
WellFormed ==
  \A l \in Lists :
    LET w == ListOf(mem, l) IN
    /\ Len(w) <= Cardinality(Procs)
    /\ (mem.head[l] = NIL) <=> (mem.tail[l] = NIL)
    /\ w # <<>> => /\ Last(w) = mem.tail[l]
                   /\ mem.next[mem.tail[l]] = NIL
    /\ \A q \in Procs :
         Cardinality({<<k, i>> \in Lists \X (1..Cardinality(Procs)) :
                        i <= Len(ListOf(mem, k)) /\ ListOf(mem, k)[i] = q}) <= 1

\* The lists read through the pointers behave as the FIFO sequences of
\* StateListSeq: stateListAdd appends, stateListRemove removes exactly the
\* slot it is given, wakeup1 moves a sleeper without losing or repeating
\* another.
Abs == INSTANCE StateListSeq WITH lists <- [l \in Lists |-> ListOf(mem, l)]

RefinesSeq == Abs!Spec
=============================================================================
