\* Up to four workers asked for over an array of three, two items each, in arenas that
\* have room for all of the items or for some.
SPECIFICATION Spec
CONSTANTS
  MAX_THREADS = 3
  MaxLen = 4
  NumItems = 2
  MaxSize = 6
  DEBUG_SLOW = TRUE
  TrueMeansMade = FALSE
INVARIANTS BlocksDisjoint JoinedMeansDone NeverUndefined
PROPERTY MainEnds
CHECK_DEADLOCK FALSE
