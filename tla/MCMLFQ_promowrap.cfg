\* Does the promotion sweep still come once per interval when ticks wraps?
CONSTANTS
  a = a
  b = b
  NULL = NULL
  Procs <- MCProcs
  MAXPRIO = 1
  DEFAULTPRIO = 1
  BUDGET = 2
  TICKS_TO_PROMOTE = 2
  W = 3
  SleepArgs = {1}
SPECIFICATION Spec
INVARIANT
  PromotionWithinInterval
