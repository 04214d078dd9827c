------------------------------ MODULE MCPTable ------------------------------
(* Model-checking instance of PTable: three slots (initproc and two more, *)
(* enough for a grandchild or two siblings), two CPUs, two priority       *)
(* levels.                                                                 *)
EXTENDS PTable

CONSTANTS c1, c2

MCCPUS == {c1, c2}

\* The CPUs are interchangeable: scheduler() is the same loop on each.
CpuSymmetry == Permutations(MCCPUS)
=============================================================================
