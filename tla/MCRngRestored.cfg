\* As MCSharedSnapshot.cfg: the random number generators after a restart.
SPECIFICATION Spec
CONSTANTS
  Dim = 2
  Extent <- Grid
  Periodic <- OnlyY
  Rendezvous = TRUE
  Null = Null
  Inner <- MCInner
  GuardOf <- MCGuardOf
  PtcSize = 3
  Numbers <- MCNumbers
  Down = 2
  Unset = Unset
  Empty = Empty
INVARIANTS RngRestored
CHECK_DEADLOCK FALSE
