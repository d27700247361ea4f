\* The DEBUG_SLOW build, structs zeroed before they are used again: three
\* descriptors for a listener, a client and the connections it accepts.
SPECIFICATION Spec
CONSTANTS
  Servers = {l}
  Clients = {c}
  Pool = {p, q, r}
  l = l
  c = c
  p = p
  q = q
  r = r
  MaxFd = 5
  RcvBuf = 1
  SndBuf = 1
  MaxLen = 1
  Backlog = 1
  DEBUG_SLOW = TRUE
  ZeroedOnReuse = TRUE
SYMMETRY PoolSymmetry
INVARIANTS TypeOK OneOwner OnlyAcceptLeaks StdioUntouched AnnouncedIsBacked NeverBlocks
PROPERTIES ClosedForCause DescriptorsAreOwned
CHECK_DEADLOCK FALSE
