\* Calls on a list that is NULL.
SPECIFICATION Spec
CONSTANTS
  Lists = {x}
  x = x
  MaxItem = 1
  MaxNodes = 1
  CallerChecks = FALSE
INVARIANT NullListEndsLoop
CHECK_DEADLOCK FALSE
