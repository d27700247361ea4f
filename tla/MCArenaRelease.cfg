\* A build without the assertions.
SPECIFICATION Spec
CONSTANTS
  Arenas = {a}
  a = a
  MaxSize = 2
  MaxReq = 2
  MaxPos = 3
  DEBUG_SLOW = FALSE
PROPERTY PushIsChecked
CHECK_DEADLOCK FALSE
