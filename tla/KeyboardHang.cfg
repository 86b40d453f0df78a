CONSTANTS
  KB_BUFFER_SIZE = 2
  IRQ_MAILBOX_CAPACITY = 1
  KEY_FIFO_CAPACITY = 2
  Keys = {"a", "enter", "up", "shift"}
  MaxTyped = 2
INIT KeyboardInit
NEXT KeyboardNext
CHECK_DEADLOCK FALSE
INVARIANT InterruptsReturn
