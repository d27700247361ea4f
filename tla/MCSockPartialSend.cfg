\* A send that takes fewer bytes than it was given.
SPECIFICATION Spec
CONSTANTS
  Servers = {l}
  Clients = {c}
  Pool = {p, q}
  l = l
  c = c
  p = p
  q = q
  MaxFd = 4
  RcvBuf = 1
  SndBuf = 2
  MaxLen = 2
  Backlog = 1
  DEBUG_SLOW = TRUE
  ZeroedOnReuse = TRUE
INVARIANT WroteWhatItReported
CHECK_DEADLOCK FALSE
