\* Two ranks along z, buffers on the device and MPI that reads them there.  Along x
\* and y a rank is its own neighbour.  They call send_particles twice, and MPI lets a
\* sender go on, so that one can be a call ahead of the other.
SPECIFICATION FairSpec
CONSTANTS
  Dim = 3
  Extent <- Line3
  Periodic <- AllPeriodic3
  Mode = "cuda_mpi"
  Rendezvous = FALSE
  p1 = p1
  p2 = p2
  Tag = {p1}
  Start <- Opposite
  BufSize = 1
  Rounds = 2
  Junk = Junk
  Null = Null
  Outside = Outside
INVARIANTS TypeOK OneCopy Matched Delivered
PROPERTIES ExchangesEnd
CHECK_DEADLOCK FALSE
