\* A write after the peer's FIN and RST.
SPECIFICATION Spec
CONSTANTS
  Servers = {l}
  Clients = {c}
  Pool = {p, q}
  l = l
  c = c
  p = p
  q = q
  MaxFd = 4
  RcvBuf = 1
  SndBuf = 2
  MaxLen = 2
  Backlog = 1
  DEBUG_SLOW = TRUE
  ZeroedOnReuse = TRUE
INVARIANT PeerCannotKill
CHECK_DEADLOCK FALSE
