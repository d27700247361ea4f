\* The DEBUG_SLOW build, one arena of up to three bytes: arenas share nothing but
\* the trap, so a second one would only multiply the states.
SPECIFICATION Spec
CONSTANTS
  Arenas = {a}
  a = a
  MaxSize = 3
  MaxReq = 2
  MaxPos = 4
  DEBUG_SLOW = TRUE
INVARIANTS TypeOK BlocksDisjoint UnusedIsZero
PROPERTY PushIsChecked
CHECK_DEADLOCK FALSE
