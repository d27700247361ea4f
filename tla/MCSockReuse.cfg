\* A closed struct passed to Sock__init again as it is.
SPECIFICATION Spec
CONSTANTS
  Servers = {l}
  Clients = {c}
  Pool = {p, q}
  l = l
  c = c
  p = p
  q = q
  MaxFd = 4
  RcvBuf = 1
  SndBuf = 2
  MaxLen = 2
  Backlog = 1
  DEBUG_SLOW = TRUE
  ZeroedOnReuse = FALSE
INVARIANT CloseCloses
CHECK_DEADLOCK FALSE
