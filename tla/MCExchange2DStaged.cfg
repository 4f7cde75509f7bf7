\* Buffers on the device, and MPI that is given copies on the host.
SPECIFICATION FairSpec
CONSTANTS
  Dim = 2
  Extent <- Pair2
  Periodic <- AllPeriodic2
  Mode = "staged"
  Rendezvous = TRUE
  p1 = p1
  p2 = p2
  Tag = {p1}
  Start <- Opposite
  BufSize = 1
  Rounds = 1
  Junk = Junk
  Null = Null
  Outside = Outside
INVARIANTS Delivered
CHECK_DEADLOCK FALSE
