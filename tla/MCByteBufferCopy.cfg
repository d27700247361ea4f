\* A copy into a buffer that may lack the room.
SPECIFICATION Spec
CONSTANTS
  Bufs = {x, y}
  Bytes = {z, a}
  Zero = z
  x = x
  y = y
  z = z
  a = a
  MaxSize = 2
  W32 = 8
  CallerChecks = TRUE
SYMMETRY BufSymmetry
PROPERTY CopiedMeansCopied
