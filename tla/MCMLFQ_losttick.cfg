CONSTANTS
  a = a
  b = b
  NULL = NULL
  Procs <- MCProcs
  MAXPRIO = 0
  DEFAULTPRIO = 0
  BUDGET = 2
  TICKS_TO_PROMOTE = 2
  W = 2
  SleepArgs = {1}
SPECIFICATION Spec
PROPERTY
  SleepOnlyBeforeDeadline
