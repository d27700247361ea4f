\* Two threads may both find start_ns zero: the second one sets it again while the
\* first is about to subtract it.
SPECIFICATION Spec
CONSTANTS
  Threads = {main, worker}
  main = main
  worker = worker
  Boot = 1
  MaxClock = 5
  W64 = 6
  Ms = 2
  ClockWorks = TRUE
  Ids = {1, 2}
  None = none
  none = none
  MaxDepth = 1
  MaxCalls = 3
  W32 = 3
INVARIANT EveryAnswerIsElapsed
CHECK_DEADLOCK FALSE
