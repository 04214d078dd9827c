\* Does one wakeup(&ticks) wake every process asleep on &ticks?
CONSTANTS
  c1 = c1
  c2 = c2
  CPUS = {c1}
  NPROC = 3
  MAXPRIO = 0
  DEFAULTPRIO = 0
  BUDGET = 2
  MaxSlice = 0
  MaxPid = 3
  PidBits = 4
  TicksChan = TicksChan
SPECIFICATION Spec
PROPERTY WakeupWakesAll
