SPECIFICATION Spec
CONSTANTS
  KB_BUFFER_SIZE = 2
  IRQ_MAILBOX_CAPACITY = 1
  KEY_FIFO_CAPACITY = 2
  Keys = {"a", "enter", "up", "shift"}
  MaxTyped = 2
  INPUT_MAX = 3
  SHELL_HISTORY_CAPACITY = 3
  Letters = {"x", "y"}
  E1000_NUM_RX_DESC = 2
  E1000_NUM_TX_DESC = 2
  ARP_CACHE_CAPACITY = 1
  ICMP_REPLY_CAPACITY = 2
  SEQUENCES = 4
  Hosts = {"h1", "h2"}
  Macs = {"m1"}
  Counts = {1, 2}
  MaxRequests = 2
  MaxFrames = 4
INVARIANTS
  
  RecallsEntered
  
  CountsOwnReplies
CHECK_DEADLOCK FALSE
