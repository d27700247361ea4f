\* Three lists over three nodes: every call in every order, up to the one
\* that reads through NULL: the process may stop there.
SPECIFICATION Spec
CONSTANTS
  Lists = {x, y, z}
  x = x
  y = y
  z = z
  MaxItem = 2
  MaxNodes = 3
  CallerChecks = FALSE
SYMMETRY ListSymmetry
INVARIANTS TypeOK WellFormed LoopSeesContents
PROPERTY IsSequence
CHECK_DEADLOCK FALSE
