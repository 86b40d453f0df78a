SPECIFICATION Spec
CONSTANTS
  MAX_PROCS = 3
  LEVELS = 2
  TIMESLICE = 1
  MAX_BOOST = 1
  BASE_WEIGHT = 1
  Weights = {0}
  DeadlineArgs = {2}
  SleepArgs = {2}
  MaxTicks = 2
  MaxVruntime = 2
INVARIANTS
  TypeOK
  
  PlacedByState
  SleepListOK
  
  CpuConsistent
  IdleCanBeWoken
  SliceAccounting
PROPERTY ImplementsLifecycle RuntimeCharged 
