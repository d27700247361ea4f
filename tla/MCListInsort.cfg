\* Sorted insertion.
SPECIFICATION Spec
CONSTANTS
  Lists = {x}
  x = x
  MaxItem = 2
  MaxNodes = 3
  CallerChecks = TRUE
PROPERTY InsortKeepsOrder
