\* Two ranks along x (periodic), one along y (its own neighbour) and two along z (with
\* boundaries).  MPI holds every message until it is received.
SPECIFICATION FairSpec
CONSTANTS
  Dim = 3
  Extent <- Grid
  Periodic <- NotZ
  Rendezvous = TRUE
  Null = Null
  Inner <- MCInner
  GuardOf <- MCGuardOf
  Vector = FALSE
INVARIANTS TypeOK SumComplete Agree
PROPERTIES SweepsEnd
CHECK_DEADLOCK FALSE
