\* A polling application: what must happen in the end.  No symmetry here.
SPECIFICATION PollSpec
CONSTANTS
  Servers = {l}
  Clients = {c}
  Pool = {p, q}
  l = l
  c = c
  p = p
  q = q
  MaxFd = 4
  RcvBuf = 2
  SndBuf = 1
  MaxLen = 1
  Backlog = 2
  DEBUG_SLOW = TRUE
  ZeroedOnReuse = TRUE
PROPERTIES EndIsNoticed BacklogDrains
CHECK_DEADLOCK FALSE
