----------------------------- MODULE ParticleSort ------------------------------
(***************************************************************************)
(* ptc_sort_by_cell on the host.  The array is sorted in segments of Seg   *)
(* slots: for every segment a counting sort computes where each of its     *)
(* slots has to go (m_index), and ptc_rearrange_arrays carries that out in *)
(* place, following the cycles of the permutation with one particle in     *)
(* hand.  That leaves holes at the end of each segment, which the second   *)
(* half fills from the end of the last segment.  One action is one round   *)
(* of a loop of the code.                                                  *)
(***************************************************************************)
EXTENDS ParticleArray

CONSTANTS NumCells,   \* the cells are 0 .. NumCells - 1
          Seg         \* sort_segment_size()

ASSUME SegAssumption == Seg \in 1 .. Size      \* ptc_updater::init cuts it to size
ASSUME CellAssumption == NumCells \in Nat /\ Cell = 0 .. NumCells - 1
ASSUME TagAssumption == Tag = Slots

VARIABLES slot, number,
          before,    \* history: the array the call was given
          pc,        \* "index", "cycles", "carry", "defrag" or "done"
          n,         \* the segment being sorted
          index,     \* m_index, of which the segment's slots are in use
          segNums,   \* segment_nums(): live particles of each segment
          i, j,      \* the slot the cycle starts from, the slot it has come to
          hand,      \* p_tmp: what is carried along the cycle
          m, last    \* the segment being filled, the one it is filled from

vars == <<slot, number, before, pc, n, index, segNums, i, j, hand, m, last>>

LastSegment == Size \div Seg
Offset == n * Seg
SortSize == IF Seg < number - Offset THEN Seg ELSE number - Offset
Done == -1                                        \* (size_t)-1

\* The counts of the segments stay from one call to the next: an earlier sort, of more
\* or of fewer particles, can have left any that the array has room for.
EarlierCounts == {c \in [0 .. LastSegment -> 0 .. Seg] :
                    \A k \in 0 .. LastSegment : k * Seg + c[k] <= Size}

\* An array as the simulation leaves it: particles and holes among the counted
\* slots, nothing beyond them.
Init ==
  /\ number \in 0 .. Size
  /\ \E c \in [0 .. number - 1 -> Cell \cup {Empty}] :
       slot = [k \in Slots |-> IF k < number /\ c[k] # Empty
                               THEN [cell |-> c[k], tag |-> k] ELSE Empty]
  /\ before = [slot |-> slot, number |-> number]
  /\ pc = IF number > 0 THEN "index" ELSE "done"
  /\ n = 0
  /\ index = [k \in 0 .. Seg - 1 |-> Done]
  /\ segNums \in EarlierCounts
  /\ i = 0 /\ j = 0 /\ hand = Empty
  /\ m = 0 /\ last = 0

--------------------------------------------------------------------------------
Key(p) == IF p = Empty THEN NumCells ELSE p.cell
\* Mutant of KeyAt: an empty slot comes before all others.
KeyAtEmptyFirst(k) == IF slot[Offset + k] = Empty THEN -1 ELSE slot[Offset + k].cell
KeyAt(k) == Key(slot[Offset + k])

\* Mutant of Destination: the inclusive prefix sum.
DestinationInclusive(k) ==
  Offset + Cardinality({l \in 0 .. SortSize - 1 : KeyAt(l) < KeyAt(k)})
         + Cardinality({l \in 0 .. k : KeyAt(l) = KeyAt(k)})
\* The counting sort: a slot goes behind those of smaller cells and behind the
\* earlier ones of its own cell; empty slots go last.
Destination(k) ==
  Offset + Cardinality({l \in 0 .. SortSize - 1 : KeyAt(l) < KeyAt(k)})
         + Cardinality({l \in 0 .. k - 1 : KeyAt(l) = KeyAt(k)})

\* Mutant of IndexSegment: the count of a last segment of no slots is left as it was.
IndexSegmentStale ==
  /\ pc = "index" /\ n <= number \div Seg
  /\ IF Offset = number
     THEN /\ n' = n + 1
          /\ UNCHANGED <<index, segNums, pc, i>>
     ELSE /\ index' = [k \in 0 .. Seg - 1 |-> IF k < SortSize THEN Destination(k)
                                              ELSE index[k]]
          /\ segNums' = [segNums EXCEPT ![n] =
                Cardinality({k \in 0 .. SortSize - 1 : slot[Offset + k] # Empty})]
          /\ pc' = "cycles" /\ i' = 0
          /\ UNCHANGED n
  /\ UNCHANGED <<slot, number, before, j, hand, m, last>>
IndexSegment ==
  /\ pc = "index" /\ n <= number \div Seg
  /\ IF Offset = number
     THEN /\ segNums' = [segNums EXCEPT ![n] = 0]
          /\ n' = n + 1
          /\ UNCHANGED <<index, pc, i>>
     ELSE /\ index' = [k \in 0 .. Seg - 1 |-> IF k < SortSize THEN Destination(k)
                                              ELSE index[k]]
          /\ segNums' = [segNums EXCEPT ![n] =
                Cardinality({k \in 0 .. SortSize - 1 : slot[Offset + k] # Empty})]
          /\ pc' = "cycles" /\ i' = 0
          /\ UNCHANGED n
  /\ UNCHANGED <<slot, number, before, j, hand, m, last>>

\* ptc_rearrange_arrays: the next slot that still has to move is taken in hand.
StartCycle ==
  /\ pc = "cycles" /\ i < SortSize
  /\ IF index[i] = Done
     THEN i' = i + 1 /\ UNCHANGED <<hand, j, pc>>
     ELSE hand' = slot[Offset + i] /\ j' = i /\ pc' = "carry" /\ UNCHANGED i
  /\ UNCHANGED <<slot, number, before, n, index, segNums, m, last>>

\* What is in hand goes where it belongs and what was there is taken in hand.
Swap ==
  /\ pc = "carry" /\ index[j] # Offset + i
  /\ slot' = [slot EXCEPT ![index[j]] = hand]
  /\ hand' = slot[index[j]]
  /\ index' = [index EXCEPT ![j] = Done]
  /\ j' = index[j] - Offset
  /\ UNCHANGED <<number, before, pc, n, segNums, i, m, last>>

\* Mutant of CloseCycle: what is in hand at the end is not put down.
CloseCycleDropping ==
  /\ pc = "carry" /\ index[j] = Offset + i
  /\ index' = [index EXCEPT ![j] = Done]
  /\ i' = i + 1 /\ pc' = "cycles"
  /\ UNCHANGED <<slot, number, before, n, segNums, j, hand, m, last>>
\* The cycle comes back to the slot it started from.
CloseCycle ==
  /\ pc = "carry" /\ index[j] = Offset + i
  /\ slot' = [slot EXCEPT ![Offset + i] = hand]
  /\ index' = [index EXCEPT ![j] = Done]
  /\ i' = i + 1 /\ pc' = "cycles"
  /\ UNCHANGED <<number, before, n, segNums, j, hand, m, last>>

NextSegment ==
  /\ pc = "cycles" /\ i = SortSize
  /\ n' = n + 1 /\ pc' = "index"
  /\ UNCHANGED <<slot, number, before, index, segNums, i, j, hand, m, last>>

StartDefrag ==
  /\ pc = "index" /\ n > number \div Seg
  /\ last' = number \div Seg /\ m' = 0 /\ pc' = "defrag"
  /\ UNCHANGED <<slot, number, before, n, index, segNums, i, j, hand>>

--------------------------------------------------------------------------------
\* Mutant of SegmentFull: a full segment is not full.
SegmentFullNever == segNums[m] > Seg
SegmentFull == segNums[m] >= Seg

SkipFullSegment ==
  /\ pc = "defrag" /\ m < last /\ SegmentFull
  /\ m' = m + 1
  /\ UNCHANGED <<slot, number, before, pc, n, index, segNums, i, j, hand, last>>

\* Copy from the end of the last segment to the end of this one, and erase the
\* source.  The loop breaks when the last segment has become this one: m < last.
ToCopy == LET deficit == Seg - segNums[m]
          IN  IF deficit < segNums[last] THEN deficit ELSE segNums[last]
FillHoles ==
  LET from == last * Seg + segNums[last] - ToCopy
      to == m * Seg + segNums[m]
  IN  /\ pc = "defrag" /\ m < last /\ ~SegmentFull
      /\ slot' = [k \in Slots |->
                    IF k \in to .. to + ToCopy - 1 THEN slot[k - to + from]
                    ELSE IF k \in from .. from + ToCopy - 1 THEN Empty ELSE slot[k]]
      /\ segNums' = [segNums EXCEPT ![m] = @ + ToCopy, ![last] = @ - ToCopy]
      /\ last' = IF segNums[last] = ToCopy THEN last - 1 ELSE last
      /\ UNCHANGED <<number, before, pc, n, index, i, j, hand, m>>

\* Mutant of Finish: the count of the last segment is left out.
FinishShort ==
  /\ pc = "defrag" /\ m >= last
  /\ number' = SetNum(last * Seg)
  /\ pc' = "done"
  /\ UNCHANGED <<slot, before, n, index, segNums, i, j, hand, m, last>>
Finish ==
  /\ pc = "defrag" /\ m >= last
  /\ number' = SetNum(last * Seg + segNums[last])
  /\ pc' = "done"
  /\ UNCHANGED <<slot, before, n, index, segNums, i, j, hand, m, last>>

Next == \/ IndexSegment \/ StartCycle \/ Swap \/ CloseCycle \/ NextSegment
        \/ StartDefrag \/ SkipFullSegment \/ FillHoles \/ Finish

Spec == Init /\ [][Next]_vars
FairSpec == Spec /\ WF_vars(Next)

--------------------------------------------------------------------------------
TypeOK == /\ slot \in Array
          /\ number \in 0 .. Size
          /\ pc \in {"index", "cycles", "carry", "defrag", "done"}
          /\ n \in 0 .. LastSegment + 1
          /\ index \in [0 .. Seg - 1 -> Slots \cup {Done}]
          /\ segNums \in [0 .. LastSegment -> 0 .. Seg]
          /\ i \in 0 .. Seg /\ j \in 0 .. Seg - 1
          /\ hand \in Particle \cup {Empty}
          /\ m \in 0 .. LastSegment + 1 /\ last \in 0 .. LastSegment

\* At every point of the sort, the slots and the hand together hold every particle
\* exactly once.  While a cycle is carried, the slot it started from is a left-over.
InPlay == IF pc = "carry" THEN [slot EXCEPT ![Offset + i] = hand] ELSE slot
NoneLost ==
  /\ {InPlay[k] : k \in Live(InPlay)} = {before.slot[k] : k \in Live(before.slot)}
  /\ Cardinality(Live(InPlay)) = Cardinality(Live(before.slot))

\* Before the holes are filled every segment is in the order of its cells, with its
\* segNums[k] particles first, and particles of a cell in the order they had.  No count
\* reaches beyond the particles there are: none is left over from an earlier sort.
SegmentSorted(k) ==
  LET here == {p \in Slots : p \div Seg = k /\ p < number}
  IN  /\ k * Seg + segNums[k] <= number
      /\ \A p \in here : slot[p] # Empty <=> p < k * Seg + segNums[k]
      /\ \A p, q \in here : p < q =>
           \/ Key(slot[p]) < Key(slot[q])
           \/ /\ Key(slot[p]) = Key(slot[q])
              /\ slot[p] # Empty => slot[p].tag < slot[q].tag
SegmentsSorted ==
  pc \in {"index", "cycles"} =>
    \A k \in 0 .. LastSegment :
      k < n \/ (k = n /\ pc = "cycles" /\ i = SortSize) => SegmentSorted(k)

\* The sort is a compaction: seen from its caller, ParticlePool's SortParticles.
Caller == INSTANCE ParticlePool WITH
            slot <- IF pc = "done" THEN slot ELSE before.slot,
            number <- IF pc = "done" THEN number ELSE before.number,
            phase <- IF pc = "done" THEN "outside" ELSE "cleared",
            tick <- 0, SortInterval <- 1,
            alive <- Tags(before.slot), comm <- TRUE,
            MaxPairs <- 0, MaxArrivals <- 0
ImplementsSort ==
  [][Caller!SortParticles]_<<pc = "done", IF pc = "done" THEN slot ELSE before.slot,
                             IF pc = "done" THEN number ELSE before.number>>

\* The loops end, the one that fills the holes included, whatever the segments hold.
Terminates == <>(pc = "done")
================================================================================
