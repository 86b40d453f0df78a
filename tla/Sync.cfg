SPECIFICATION SyncSpec
CONSTANTS
  Procs = {p, q, r, s}
  NoProc = none
  MAX_MUTEXES = 1
  MAX_SEMAPHORES = 1
  MAX_WAITERS = 2
  InitialCounts = {0, 2}
  MaxSupply = 3
INVARIANTS MutualExclusion WaitersAreBlocked BlockedIsRegistered PostsAccounted
PROPERTY DroppedForever
