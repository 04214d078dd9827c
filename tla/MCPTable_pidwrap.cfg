\* Does a successful fork() always hand its parent a positive pid once the
\* uint nextpid has run past INT_MAX?  PidBits = 3 scales 2^32 down to 8.
CONSTANTS
  c1 = c1
  c2 = c2
  CPUS = {c1}
  NPROC = 2
  MAXPRIO = 0
  DEFAULTPRIO = 0
  BUDGET = 2
  MaxSlice = 0
  MaxPid = 7
  PidBits = 3
  TicksChan = TicksChan
SPECIFICATION Spec
PROPERTY ForkReturnsPositivePid
