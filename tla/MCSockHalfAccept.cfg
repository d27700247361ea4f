\* A queued connection that is reset before it is accepted.
SPECIFICATION Spec
CONSTANTS
  Servers = {l}
  Clients = {c}
  Pool = {p, q}
  l = l
  c = c
  p = p
  q = q
  MaxFd = 4
  RcvBuf = 1
  SndBuf = 2
  MaxLen = 2
  Backlog = 1
  DEBUG_SLOW = TRUE
  ZeroedOnReuse = TRUE
INVARIANT AcceptIsWhole
CHECK_DEADLOCK FALSE
