SPECIFICATION FairChannelSpec
CONSTANTS
  Procs = {j, k, p, q}
  KernelThreads = {j, k}
  MAX_CHANNELS = 1
  SERVICES = 1
  QUEUE_LEN = 3
  MAX_SUBSCRIBERS = 1
  MAX_WAITERS = 2
  CHANNEL_SLOTS = 1
  Messages = {m}
  Event = event
  NoProc = none
  NoMessage = empty
INVARIANTS NoLostWakeup ReceiversAreBlocked
 
