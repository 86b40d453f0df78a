SPECIFICATION EchoSpec
CONSTANTS
  Procs = {init, echo_service}
  KernelThreads = {}
  InitProc = init
  EchoProc = echo_service
  MaxEchoes = 3
  MAX_CHANNELS = 2
  SERVICES = 1
  QUEUE_LEN = 2
  MAX_SUBSCRIBERS = 2
  MAX_WAITERS = 2
  CHANNEL_SLOTS = 1
  Messages = {0, 1, 2, 3}
  Event = event
  NoProc = none
  NoMessage = empty
INVARIANT EchoedOnce
