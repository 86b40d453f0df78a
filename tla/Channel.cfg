SPECIFICATION ChannelSpec
CONSTANTS
  Procs = {k, p, q}
  KernelThreads = {k}
  MAX_CHANNELS = 2
  SERVICES = 1
  QUEUE_LEN = 2
  MAX_SUBSCRIBERS = 1
  MAX_WAITERS = 1
  CHANNEL_SLOTS = 1
  Messages = {m}
  Event = event
  NoProc = none
  NoMessage = empty
SYMMETRY UserSymmetry
INVARIANTS MembershipAgrees CheckedOnce
PROPERTY ImplementsFifo
