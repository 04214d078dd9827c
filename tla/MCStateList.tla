---------------------------- MODULE MCStateList ----------------------------
EXTENDS StateList, TLC

CONSTANTS p1, p2, p3, sleeping, ready0, ready1, ch1, ch2

MCProcs == {p1, p2, p3}
MCLists == {sleeping, ready0, ready1}
MCChans == {ch1, ch2}

\* chan is chosen over all functions in Init, so slots are interchangeable.
ProcSymmetry == Permutations(MCProcs)
=============================================================================
