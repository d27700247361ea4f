\* main takes TRUE to mean that the mutex was made, as it does on Windows and as
\* Thread__create answers: it runs on only when there is none.
SPECIFICATION Spec
CONSTANTS
  MAX_THREADS = 3
  MaxLen = 4
  NumItems = 2
  MaxSize = 6
  DEBUG_SLOW = TRUE
  TrueMeansMade = TRUE
INVARIANT NeverUndefined
CHECK_DEADLOCK FALSE
