\* The error case of Time__perf_now: its zero is subtracted like a reading.
SPECIFICATION Spec
CONSTANTS
  Threads = {main, worker}
  main = main
  worker = worker
  Boot = 1
  MaxClock = 5
  W64 = 6
  Ms = 2
  ClockWorks = FALSE
  Ids = {1, 2}
  None = none
  none = none
  MaxDepth = 1
  MaxCalls = 3
  W32 = 3
INVARIANT EveryAnswerIsElapsed
CHECK_DEADLOCK FALSE
