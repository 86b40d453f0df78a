CONSTANTS
  MAX_PROCS = 3
  MSG_QUEUE_LEN = 2
  CAPACITY_PER_PROC = 1
  SHARED_REGIONS = 2
  SHARED_PER_PROC = 1
  ADDRESS_PAGES = 8
  LIMIT_PAGES = 4
  MaxPid = 4
  ServiceIds = {fsd, logd}
  Logd = logd
  MaxMail = 2
SPECIFICATION Spec
INVARIANTS
  ShareLinksAgree
  AsleepOnEmptyBox
  HalfGrantOnlyWhenFull
