\* What the build without DEBUG_SLOW does, on three structs.
SPECIFICATION Spec
CONSTANTS
  Servers = {l}
  Clients = {c, d}
  Pool = {p, q}
  l = l
  c = c
  d = d
  p = p
  q = q
  MaxFd = 4
  RcvBuf = 1
  SndBuf = 2
  MaxLen = 2
  Backlog = 1
  DEBUG_SLOW = FALSE
  ZeroedOnReuse = TRUE
INVARIANT ReleaseIsSilent
CHECK_DEADLOCK FALSE
