SPECIFICATION KernelSpec
CONSTANTS
  MAX_PROCS = 2
  LEVELS = 2
  TIMESLICE = 1
  MAX_BOOST = 1
  BASE_WEIGHT = 1
  Weights = {}
  DeadlineArgs = {}
  SleepArgs = {1}
  MaxTicks = 3
  MaxVruntime = 4
INVARIANT ShellReachable
