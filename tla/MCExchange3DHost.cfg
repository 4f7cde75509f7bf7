\* The CPU build in three dimensions, with one rank that is its own neighbour everywhere:
\* two particles cross its boundaries.
SPECIFICATION FairSpec
CONSTANTS
  Dim = 3
  Extent <- Single3
  Periodic <- AllPeriodic3
  Mode = "host"
  Rendezvous = TRUE
  p1 = p1
  p2 = p2
  Tag = {p1, p2}
  Start <- OneCorner
  BufSize = 2
  Rounds = 1
  Junk = Junk
  Null = Null
  Outside = Outside
INVARIANTS Delivered
CHECK_DEADLOCK FALSE
