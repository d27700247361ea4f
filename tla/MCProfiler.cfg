\* Two functions that are traced, and two threads that ask for the time.
SPECIFICATION Spec
CONSTANTS
  Threads = {main, worker}
  main = main
  worker = worker
  Boot = 1
  MaxClock = 4
  W64 = 5
  Ms = 2
  ClockWorks = FALSE
  Ids = {1, 2}
  None = none
  none = none
  MaxDepth = 2
  MaxCalls = 3
  W32 = 3
INVARIANTS NowWithinUptime TracesAreTrue
PROPERTY NowNeverGoesBack
CONSTRAINT Apart
CHECK_DEADLOCK FALSE
