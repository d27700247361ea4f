\* Comparing a buffer with a string.
SPECIFICATION Spec
CONSTANTS
  Bufs = {x}
  Bytes = {z, a}
  Zero = z
  x = x
  z = z
  a = a
  MaxSize = 2
  W32 = 8
  CallerChecks = TRUE
INVARIANT EqualMeansContents
