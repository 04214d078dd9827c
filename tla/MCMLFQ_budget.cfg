CONSTANTS
  a = a
  b = b
  NULL = NULL
  Procs <- MCProcs
  MAXPRIO = 1
  DEFAULTPRIO = 1
  BUDGET = 1
  TICKS_TO_PROMOTE = 2
  W = 4
  SleepArgs = {1}
SPECIFICATION Spec
CONSTRAINT
  TicksBeforeWrap
INVARIANTS
  TypeOK
  PromotionWithinInterval
