\* A profiled function that calls itself: the inner begin overwrites the outer one.
SPECIFICATION Spec
CONSTANTS
  Threads = {main, worker}
  main = main
  worker = worker
  Boot = 1
  MaxClock = 5
  W64 = 6
  Ms = 2
  ClockWorks = TRUE
  Ids = {1}
  None = none
  none = none
  MaxDepth = 2
  MaxCalls = 3
  W32 = 3
INVARIANT EveryTraceIsTrue
CHECK_DEADLOCK FALSE
