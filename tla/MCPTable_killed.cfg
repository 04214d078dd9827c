\* Does killed ever mark a process nobody passed to kill()?
CONSTANTS
  c1 = c1
  c2 = c2
  CPUS = {c1}
  NPROC = 3
  MAXPRIO = 0
  DEFAULTPRIO = 0
  BUDGET = 2
  MaxSlice = 0
  MaxPid = 4
  PidBits = 4
  TicksChan = TicksChan
SPECIFICATION Spec
INVARIANT KilledOnlyIfRequested
