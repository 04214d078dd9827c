CONSTANTS
  p1 = p1
  p2 = p2
  p3 = p3
  sleeping = sleeping
  ready0 = ready0
  ready1 = ready1
  ch1 = ch1
  ch2 = ch2
  NIL = NIL
  Procs <- MCProcs
  Lists <- MCLists
  Sleeping <- sleeping
  Chans <- MCChans
SYMMETRY ProcSymmetry
SPECIFICATION Spec
INVARIANTS
  WellFormed
PROPERTIES
  RefinesSeq
