\* An array of four slots, which particles enter and leave, which fills up and is
\* sorted every second step.  No symmetry, because of the liveness property.
SPECIFICATION FairSpec
CONSTANTS
  Size = 4
  Cell <- MCCell
  Guard <- MCGuard
  inner = inner
  guard = guard
  Tag = {t1, t2, t3, t4}
  Empty = Empty
  SortInterval = 2
  MaxPairs = 2
  MaxArrivals = 2
INVARIANTS TypeOK TailEmpty HoldsExactlyAlive NoneInGuard
PROPERTIES HolesReclaimed
