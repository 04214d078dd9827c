\* Lifecycle: fork/exit/wait/kill/sleep/wakeup on two CPUs, one ready list.
CONSTANTS
  c1 = c1
  c2 = c2
  CPUS <- MCCPUS
  NPROC = 3
  MAXPRIO = 0
  DEFAULTPRIO = 0
  BUDGET = 2
  MaxSlice = 0
  MaxPid = 4
  PidBits = 4
  TicksChan = TicksChan
SPECIFICATION FairSpec
INVARIANTS ListsMatchState ParentsLive WaitNotAsleepOnZombie
PROPERTIES LegalTransitions RefinesLifecycle ReapProgress
