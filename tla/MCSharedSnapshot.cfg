\* Three ranks along x (with boundaries) and two along y (periodic).  They have
\* no particles, or numbers that differ from rank to rank, when the snapshot is written,
\* and an empty or a full array when it is loaded.
SPECIFICATION Spec
CONSTANTS
  Dim = 2
  Extent <- Grid
  Periodic <- OnlyY
  Rendezvous = TRUE
  Null = Null
  Inner <- MCInner
  GuardOf <- MCGuardOf
  PtcSize = 3
  Numbers <- MCNumbers
  Down = 2
  Unset = Unset
  Empty = Empty
INVARIANTS TypeOK SnapshotComplete FieldRestored ParticlesRestored OutputComplete
CHECK_DEADLOCK FALSE
