\* Priorities: two ready lists, budget settlement, promotion, setpriority.
CONSTANTS
  c1 = c1
  c2 = c2
  CPUS = {c1}
  NPROC = 3
  MAXPRIO = 1
  DEFAULTPRIO = 1
  BUDGET = 1
  MaxSlice = 1
  MaxPid = 3
  PidBits = 4
  TicksChan = TicksChan
SPECIFICATION Spec
INVARIANTS TypeOK ListsMatchState
PROPERTY PromoteRaisesAll
