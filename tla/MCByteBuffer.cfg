\* Two buffers of up to two bytes, whose callers check what the unsafe forms do not.
SPECIFICATION Spec
CONSTANTS
  Bufs = {x, y}
  Bytes = {z, a}
  Zero = z
  x = x
  y = y
  z = z
  a = a
  MaxSize = 2
  W32 = 8
  CallerChecks = TRUE
SYMMETRY BufSymmetry
INVARIANTS TypeOK CursorsInOrder SliceIsStable
PROPERTY IsByteQueue
