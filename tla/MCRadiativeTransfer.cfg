\* Four particle slots and four photon slots, two photons at a time that become pairs
\* in the update after next: two iterations of either loop are under way at the same
\* time, into an empty array and behind others, and a third overruns the array. The
\* list holds two tracked photons, and there may be more. The system may stop: an
\* overrun ends it, as nothing is defined after one.
SPECIFICATION Spec
CONSTANTS
  PtcSize = 4
  PhSize = 4
  PerScatter = 2
  MaxPath = 1
  MaxTracked = 2
  Junk = Junk
  Empty = Empty
INVARIANTS TypeOK ClaimsFree CountCovers TallyRight ConvertedGone TrackedListed
CHECK_DEADLOCK FALSE
