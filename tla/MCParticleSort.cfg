\* Every array of up to five slots, in segments of two, and every count an earlier sort
\* can have left: the number of particles is and is not a multiple of the segment size,
\* segments are full, partly full, empty.
SPECIFICATION FairSpec
CONSTANTS
  Size = 5
  NumCells = 2
  Cell <- MCCell
  Guard = {}
  Tag <- MCTag
  Empty = Empty
  Seg = 2
INVARIANTS TypeOK NoneLost SegmentsSorted
PROPERTIES ImplementsSort Terminates
CHECK_DEADLOCK FALSE
