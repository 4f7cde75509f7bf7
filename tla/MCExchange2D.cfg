\* Two by two ranks, periodic in x: a particle may go to any of the eight neighbours,
\* or out of the domain.  MPI holds every message until it is received.
SPECIFICATION Spec
CONSTANTS
  Dim = 2
  Extent <- Grid2
  Periodic <- OnlyX2
  Mode = "host"
  Rendezvous = TRUE
  p1 = p1
  p2 = p2
  Tag = {p1, p2}
  Start <- Opposite
  BufSize = 2
  Rounds = 1
  Junk = Junk
  Null = Null
  Outside = Outside
INVARIANTS OneCopy OnlyOwn NoDeadlock
CHECK_DEADLOCK FALSE
