-------------------------- MODULE ParticleSortProofs ---------------------------
(***************************************************************************)
(* Proofs about ParticleSort: for arrays and segments of any size and any  *)
(* number of cells, the call sorts every segment, fills the holes and      *)
(* loses nothing.  That nothing is lost follows from the shape of the      *)
(* steps: each leaves what is in play as it is or exchanges slots of it.   *)
(* That a segment gets sorted needs to know which slots of a permutation   *)
(* still have to move, and that the cycle being followed comes back to     *)
(* where it started.                                                       *)
(***************************************************************************)
EXTENDS ParticleSort, CountingLemmas

\* The last segment the loops sort and how many slots of a segment they sort.
Segments == number \div Seg
Start(s) == s * Seg
Length(s) == IF Seg < before.number - Start(s) THEN Seg ELSE before.number - Start(s)

\* What a segment held when the call came, and where the counting sort puts it: behind
\* the slots of smaller cells and the earlier ones of its own cell.
Was(s, k) == before.slot[Start(s) + k]
Precedes(s, k, l) == \/ Key(Was(s, k)) < Key(Was(s, l))
                     \/ Key(Was(s, k)) = Key(Was(s, l)) /\ k < l
Ahead(s, k) == {l \in 0 .. Length(s) - 1 : Precedes(s, l, k)}
Goal(s, k) == Start(s) + Cardinality(Ahead(s, k))
Particles(s) == {k \in 0 .. Length(s) - 1 : Was(s, k) # Empty}

\* The array of the call: particles are told apart by the slot they were in.
BeforeInv ==
  /\ before.slot \in Array /\ before.number \in 0 .. Size
  /\ \A p \in Slots : before.slot[p] # Empty =>
                        p < before.number /\ before.slot[p].tag = p
  /\ pc # "done" => number = before.number /\ number > 0

\* The slots and the hand hold what the slots held, in another order.
PermInv ==
  \E f \in [Slots -> Slots] : /\ \A p, q \in Slots : f[p] = f[q] => p = q
                              /\ InPlay = [p \in Slots |-> before.slot[f[p]]]

\* The segments up to the one being sorted are sorted and counted, and slots from that
\* one on (or from the next, when the index is there) are as they were.
SegmentDone(s) == /\ \A k \in 0 .. Length(s) - 1 : slot[Goal(s, k)] = Was(s, k)
                  /\ segNums[s] = Cardinality(Particles(s))
Sorting == pc \in {"cycles", "carry"}
SegmentsInv ==
  pc \in {"index", "cycles", "carry"} =>
    /\ n <= Segments + 1
    /\ Sorting => /\ n <= Segments /\ Offset < number
                  /\ segNums[n] = Cardinality(Particles(n))
    /\ \A s \in 0 .. LastSegment :
         s < n => SegmentDone(s)
    /\ \A p \in Slots :
         p >= number \/ p >= (IF Sorting THEN Offset + Length(n) ELSE Offset) =>
           slot[p] = before.slot[p]

\* Slots that still have to move have moved only into the hand, and they have to go to
\* slots that still have to move; the others have come where they belong.
Pending == {k \in 0 .. Length(n) - 1 : index[k] # Done}
Waiting(k) == k \in Pending /\ ~(pc = "carry" /\ k = j)
Target(k) == Goal(n, k) - Offset
CyclesInv ==
  Sorting =>
    /\ \A k \in 0 .. Length(n) - 1 :
         /\ k \in Pending => /\ index[k] = Offset + Target(k) /\ k >= i
                             /\ Target(k) \in Pending \/ (pc = "carry" /\ Target(k) = i)
         /\ Waiting(k) => slot[Offset + k] = Was(n, k)
         /\ k \notin Pending => /\ slot[Offset + Target(k)] = Was(n, k)
                                /\ ~Waiting(Target(k))
                                /\ ~(pc = "carry" /\ Target(k) = i)
    /\ pc = "cycles" => i <= Length(n)
    /\ pc = "carry" => /\ i < Length(n) /\ j \in Pending /\ hand = Was(n, j)
                       /\ j # i => i \notin Pending /\ \A k \in Pending : Target(k) # j

\* The segments before the one being filled are full, those behind the one it is filled
\* from are empty, and in each the particles come first.  Counts of segments beyond the
\* number are from earlier sorts and say nothing; the slots there are empty.
HolesInv ==
  pc = "defrag" =>
    /\ m <= last /\ last <= Segments
    /\ \A p \in Slots : p >= number => slot[p] = Empty
    /\ \A s \in 0 .. LastSegment : s <= Segments =>
         /\ s < m => segNums[s] = Seg
         /\ s > last => segNums[s] = 0
         /\ Start(s) + segNums[s] <= number
         /\ \A p \in Slots : Start(s) <= p /\ p < Start(s) + Seg =>
                               (slot[p] # Empty <=> p < Start(s) + segNums[s])
DoneInv == pc = "done" => \A p \in Slots : slot[p] # Empty <=> p < number

IInv == /\ TypeOK /\ BeforeInv /\ PermInv
        /\ SegmentsInv /\ CyclesInv /\ HolesInv /\ DoneInv

--------------------------------------------------------------------------------
LEMMA Positive ==
  /\ Size \in Nat \ {0} /\ Seg \in Nat \ {0} /\ Seg <= Size
  /\ NumCells \in Nat
BY SizeAssumption, SegAssumption, CellAssumption

\* Segments lie side by side, and every number is in one.
LEMMA Starts ==
  /\ \A s \in Nat : Start(s) \in Nat /\ Start(s + 1) = Start(s) + Seg
  /\ \A s, t \in Nat : s < t => Start(s) + Seg <= Start(t)
  /\ Start(0) = 0
  /\ Offset = Start(n)
BY Positive DEF Start, Offset

LEMMA Division ==
  ASSUME NEW p \in Nat
  PROVE  /\ p \div Seg \in Nat
         /\ Start(p \div Seg) <= p /\ p < Start(p \div Seg) + Seg
BY Positive DEF Start

\* A slot is in the segment whose bounds it lies between.
LEMMA SegmentOf ==
  ASSUME NEW p \in Nat, NEW s \in Nat
  PROVE  (p \div Seg = s) <=> (Start(s) <= p /\ p < Start(s) + Seg)
<1> DEFINE t == p \div Seg
<1>1. t \in Nat /\ Start(t) <= p /\ p < Start(t) + Seg
  BY Division
<1>2. Start(s) \in Nat /\ Start(t) \in Nat /\ Seg \in Nat
  BY <1>1, Starts, Positive
<1>3. s < t => Start(s) + Seg <= Start(t)
  BY <1>1, Starts
<1>4. t < s => Start(t) + Seg <= Start(s)
  BY <1>1, Starts
<1> HIDE DEF t
<1>5. (t = s) <=> (Start(s) <= p /\ p < Start(s) + Seg)
  BY <1>1, <1>2, <1>3, <1>4
<1> QED BY <1>5 DEF t

\* Segments of a smaller number begin among the counted slots.
LEMMA SegmentsOf ==
  ASSUME NEW a \in Nat, NEW s \in Nat
  PROVE  (s <= a \div Seg) <=> (Start(s) <= a)
<1> DEFINE t == a \div Seg
<1>1. t \in Nat /\ Start(t) <= a /\ a < Start(t) + Seg
  BY Division
<1>2. Start(s) \in Nat /\ Start(t) \in Nat /\ Seg \in Nat \ {0}
  BY <1>1, Starts, Positive
<1>3. s < t => Start(s) + Seg <= Start(t)
  BY <1>1, Starts
<1>4. t < s => Start(t) + Seg <= Start(s)
  BY <1>1, Starts
<1> HIDE DEF t
<1>5. (s <= t) <=> (Start(s) <= a)
  BY <1>1, <1>2, <1>3, <1>4
<1> QED BY <1>5 DEF t

LEMMA Before ==
  ASSUME BeforeInv
  PROVE  /\ before.number \in Nat /\ before.number <= Size
         /\ before.slot \in [Slots -> Particle \cup {Empty}]
         /\ pc # "done" => number = before.number /\ number > 0
BY Positive DEF BeforeInv, Array

LEMMA Lengths ==
  ASSUME BeforeInv, NEW s \in Nat, Start(s) <= before.number
  PROVE  /\ Length(s) \in Nat /\ Length(s) <= Seg
         /\ Start(s) \in Nat /\ before.number \in Nat /\ before.number <= Size
         /\ Start(s) + Length(s) <= before.number
         /\ Length(s) = Seg \/ Start(s) + Length(s) = before.number
<1>1. Start(s) \in Nat
  BY Starts
<1>2. before.number \in Nat /\ before.number <= Size
  BY Before
<1> QED BY <1>1, <1>2, Positive DEF Length

\* Cells and the empty slots that come after them are numbers.
LEMMA Keys ==
  ASSUME BeforeInv, NEW s \in Nat, Start(s) <= before.number
  PROVE  \A k \in 0 .. Length(s) - 1 :
           /\ Start(s) + k \in Slots /\ Start(s) + k < before.number
           /\ Was(s, k) \in Particle \cup {Empty}
           /\ Key(Was(s, k)) \in 0 .. NumCells
           /\ Was(s, k) = Empty <=> Key(Was(s, k)) = NumCells
<1> SUFFICES ASSUME NEW k \in 0 .. Length(s) - 1
             PROVE  /\ Start(s) + k \in Slots /\ Start(s) + k < before.number
                    /\ Was(s, k) \in Particle \cup {Empty}
                    /\ Key(Was(s, k)) \in 0 .. NumCells
                    /\ Was(s, k) = Empty <=> Key(Was(s, k)) = NumCells
  OBVIOUS
<1>1. Start(s) + k \in Slots /\ Start(s) + k < before.number
  BY Lengths, Positive DEF Slots
<1>2. Was(s, k) \in Particle \cup {Empty}
  BY <1>1, Before DEF Was
<1>3. /\ Key(Was(s, k)) \in 0 .. NumCells
      /\ Was(s, k) = Empty <=> Key(Was(s, k)) = NumCells
  <2>1. CASE Was(s, k) = Empty
    BY <2>1, Positive DEF Key
  <2>2. CASE Was(s, k) # Empty
    <3>1. Was(s, k).cell \in 0 .. NumCells - 1
      BY <1>2, <2>2, CellAssumption DEF Particle
    <3> QED BY <2>2, <3>1, Positive DEF Key
  <2> QED BY <2>1, <2>2
<1> QED BY <1>1, <1>2, <1>3

--------------------------------------------------------------------------------
\* The counting sort is a permutation of the segment that keeps its order: slots of
\* smaller cells first, empty ones last, and those of a cell as they were.
LEMMA GoalOrder ==
  ASSUME BeforeInv, NEW s \in Nat, Start(s) <= before.number
  PROVE  /\ \A k \in 0 .. Length(s) - 1 : /\ Goal(s, k) \in Nat
                                       /\ Start(s) <= Goal(s, k)
                                       /\ Goal(s, k) < Start(s) + Length(s)
         /\ \A k, l \in 0 .. Length(s) - 1 :
              Precedes(s, k, l) => Goal(s, k) < Goal(s, l)
         /\ \A k, l \in 0 .. Length(s) - 1 : Goal(s, k) = Goal(s, l) => k = l
<1> DEFINE R == 0 .. Length(s) - 1
<1>1. Length(s) \in Nat /\ Start(s) \in Nat
  BY Lengths, Starts
<1>2. IsFiniteSet(R) /\ Cardinality(R) = Length(s)
  BY <1>1, AllSlots
<1>3. \A k \in R : Key(Was(s, k)) \in Int
  BY Keys
<1>4. ASSUME NEW k \in R
      PROVE  /\ Ahead(s, k) \subseteq R /\ IsFiniteSet(Ahead(s, k))
             /\ Cardinality(Ahead(s, k)) \in Nat
             /\ Cardinality(Ahead(s, k)) < Length(s)
  <2>1. Ahead(s, k) \subseteq R
    BY DEF Ahead
  <2>2. k \notin Ahead(s, k)
    BY <1>3 DEF Ahead, Precedes
  <2> QED BY <1>2, <2>1, <2>2, MoreElements, FS_Subset
<1>5. ASSUME NEW k \in R, NEW l \in R, Precedes(s, k, l)
      PROVE  Cardinality(Ahead(s, k)) < Cardinality(Ahead(s, l))
  <2>1. Ahead(s, k) \subseteq Ahead(s, l)
    <3>1. \A x \in R : Precedes(s, x, k) => Precedes(s, x, l)
      BY <1>1, <1>3, <1>5 DEF Precedes
    <3> QED BY <3>1 DEF Ahead
  <2>2. k \in Ahead(s, l) /\ k \notin Ahead(s, k)
    BY <1>3, <1>5 DEF Ahead, Precedes
  <2> QED BY <1>4, <2>1, <2>2, MoreElements
<1>6. \A k, l \in R : k = l \/ Precedes(s, k, l) \/ Precedes(s, l, k)
  BY <1>1, <1>3 DEF Precedes
<1>7. \A k \in R : /\ Goal(s, k) \in Nat /\ Start(s) <= Goal(s, k)
                   /\ Goal(s, k) < Start(s) + Length(s)
  BY <1>1, <1>4 DEF Goal
<1>8. \A k, l \in R : Precedes(s, k, l) => Goal(s, k) < Goal(s, l)
  BY <1>1, <1>4, <1>5 DEF Goal
<1>9. \A k, l \in R : Goal(s, k) = Goal(s, l) => k = l
  BY <1>6, <1>7, <1>8
<1> QED BY <1>7, <1>8, <1>9

\* Every slot of the segment is the goal of one.
LEMMA GoalOnto ==
  ASSUME BeforeInv, NEW s \in Nat, Start(s) <= before.number,
         NEW p \in Nat, Start(s) <= p, p < Start(s) + Length(s)
  PROVE  \E k \in 0 .. Length(s) - 1 : Goal(s, k) = p
<1> DEFINE f == [k \in 0 .. Length(s) - 1 |-> Goal(s, k) - Start(s)]
<1>1. Length(s) \in Nat /\ Start(s) \in Nat
  BY Lengths, Starts
<1>2. \A k \in 0 .. Length(s) - 1 : Goal(s, k) - Start(s) \in 0 .. Length(s) - 1
  BY <1>1, GoalOrder
<1>3. \A k, l \in 0 .. Length(s) - 1 :
        Goal(s, k) - Start(s) = Goal(s, l) - Start(s) => k = l
  BY <1>1, GoalOrder
<1>4. \A q \in 0 .. Length(s) - 1 : \E k \in 0 .. Length(s) - 1 : f[k] = q
  <2>1. f \in [0 .. Length(s) - 1 -> 0 .. Length(s) - 1]
    BY <1>2
  <2>2. \A k, l \in 0 .. Length(s) - 1 : f[k] = f[l] => k = l
    BY <1>3
  <2> HIDE DEF f
  <2> QED BY <1>1, <2>1, <2>2, EverySlotHit
<1>5. p - Start(s) \in 0 .. Length(s) - 1
  BY <1>1
<1>6. PICK k \in 0 .. Length(s) - 1 : Goal(s, k) - Start(s) = p - Start(s)
  BY <1>4, <1>5
<1>7. Goal(s, k) = p
  BY <1>1, <1>6, GoalOrder
<1> QED BY <1>7

\* Particles come first.
LEMMA ParticlesFirst ==
  ASSUME BeforeInv, NEW s \in Nat, Start(s) <= before.number
  PROVE  /\ Cardinality(Particles(s)) \in Nat /\ Cardinality(Particles(s)) <= Length(s)
         /\ \A k \in 0 .. Length(s) - 1 :
              Was(s, k) # Empty <=> Goal(s, k) < Start(s) + Cardinality(Particles(s))
<1> DEFINE R == 0 .. Length(s) - 1
<1>1. Length(s) \in Nat /\ Start(s) \in Nat
  BY Lengths, Starts
<1>2. /\ IsFiniteSet(Particles(s)) /\ Cardinality(Particles(s)) \in Nat
      /\ Cardinality(Particles(s)) <= Length(s)
  BY <1>1, SetsOfSlots DEF Particles
<1>3. \A k \in R : /\ Key(Was(s, k)) \in 0 .. NumCells
                   /\ Was(s, k) = Empty <=> Key(Was(s, k)) = NumCells
  BY Keys
<1>4. ASSUME NEW k \in R, Was(s, k) # Empty
      PROVE  Cardinality(Ahead(s, k)) < Cardinality(Particles(s))
  <2>1. Ahead(s, k) \subseteq Particles(s)
    <3>1. \A l \in R : Precedes(s, l, k) => Was(s, l) # Empty
      BY <1>3, <1>4, Positive DEF Precedes
    <3> QED BY <3>1 DEF Ahead, Particles
  <2>2. k \in Particles(s) /\ k \notin Ahead(s, k)
    BY <1>3, <1>4 DEF Particles, Ahead, Precedes
  <2> QED BY <1>2, <2>1, <2>2, MoreElements
<1>5. ASSUME NEW k \in R, Was(s, k) = Empty
      PROVE  Cardinality(Particles(s)) <= Cardinality(Ahead(s, k))
  <2>1. Particles(s) \subseteq Ahead(s, k)
    <3>1. \A l \in R : Was(s, l) # Empty => Precedes(s, l, k)
      BY <1>3, <1>5, Positive DEF Precedes
    <3> QED BY <3>1 DEF Ahead, Particles
  <2>2. IsFiniteSet(Ahead(s, k))
    BY <1>1, SetsOfSlots DEF Ahead
  <2> QED BY <2>1, <2>2, MoreElements
<1>6. \A k \in R : Cardinality(Ahead(s, k)) \in Nat
  BY <1>1, SetsOfSlots DEF Ahead
<1> QED BY <1>1, <1>2, <1>4, <1>5, <1>6 DEF Goal

--------------------------------------------------------------------------------
\* While the segments are sorted, the numbers are those of the call.
LEMMA Counts ==
  ASSUME TypeOK, BeforeInv, pc # "done", n <= Segments
  PROVE  /\ n \in Nat /\ Segments \in Nat /\ Segments <= LastSegment
         /\ number \in Nat /\ number <= Size /\ number = before.number
         /\ Offset = Start(n) /\ Start(n) \in Nat /\ Start(n) <= before.number
         /\ SortSize = Length(n)
<1>1. number \in Nat /\ number <= Size /\ number = before.number /\ n \in Nat
  BY Positive, Before DEF TypeOK
<1>2. Segments \in Nat
  BY <1>1, Division DEF Segments
<1>3. Start(n) \in Nat /\ Start(n) <= number
  BY <1>1, Starts, SegmentsOf DEF Segments
<1>4. Segments <= LastSegment
  <2>1. Start(Segments) \in Nat /\ Start(Segments) <= number
    BY <1>1, <1>2, Starts, Division DEF Segments
  <2>2. Start(Segments) <= Size
    BY <1>1, <2>1, Positive
  <2> QED BY <1>2, <2>2, SegmentsOf, Positive DEF LastSegment
<1>5. SortSize = Length(n)
  BY <1>1, Starts DEF SortSize, Length
<1> QED BY <1>1, <1>2, <1>3, <1>4, <1>5, Starts

\* What IndexSegment computes is the goal of each slot, and how many particles there are.
LEMMA DestinationIsGoal ==
  ASSUME TypeOK, BeforeInv, pc # "done", n <= Segments, Offset < number,
         \A p \in Slots : p >= Offset => slot[p] = before.slot[p]
  PROVE  /\ \A k \in 0 .. Length(n) - 1 : /\ slot[Offset + k] = Was(n, k)
                                          /\ Destination(k) = Goal(n, k)
         /\ {k \in 0 .. SortSize - 1 : slot[Offset + k] # Empty} = Particles(n)
<1> DEFINE R == 0 .. Length(n) - 1
<1>1. /\ n \in Nat /\ Start(n) \in Nat /\ Start(n) <= before.number
      /\ Offset = Start(n) /\ SortSize = Length(n) /\ Length(n) \in Nat
  BY Counts, Lengths
<1>2. \A k \in R : slot[Offset + k] = Was(n, k)
  BY <1>1, Keys DEF Was
<1>3. ASSUME NEW k \in R PROVE Destination(k) = Goal(n, k)
  <2> DEFINE A == {l \in R : KeyAt(l) < KeyAt(k)}
             B == {l \in 0 .. k - 1 : KeyAt(l) = KeyAt(k)}
  <2>1. \A l \in R : KeyAt(l) = Key(Was(n, l)) /\ KeyAt(l) \in Int
    BY <1>1, <1>2, Keys DEF KeyAt
  <2>2. A \subseteq R /\ B \subseteq R
    BY <1>1
  <2>3. IsFiniteSet(A) /\ IsFiniteSet(B) /\ Cardinality(A) \in Nat /\ Cardinality(B) \in Nat
    BY <1>1, <2>2, SetsOfSlots
  <2>4. A \cap B = {}
    BY <2>1
  <2>5. A \cup B = Ahead(n, k)
    <3>1. \A l \in R : l \in A \cup B <=> l \in Ahead(n, k)
      BY <1>1, <2>1 DEF Ahead, Precedes
    <3> QED BY <2>2, <3>1 DEF Ahead
  <2>6. Cardinality(Ahead(n, k)) = Cardinality(A) + Cardinality(B)
    BY <2>3, <2>4, <2>5, PartsAddUp
  <2>7. Destination(k) = Offset + Cardinality(A) + Cardinality(B)
    BY <1>1 DEF Destination
  <2> QED BY <1>1, <2>3, <2>6, <2>7 DEF Goal
<1>4. {k \in 0 .. SortSize - 1 : slot[Offset + k] # Empty} = Particles(n)
  BY <1>1, <1>2 DEF Particles
<1> QED BY <1>2, <1>3, <1>4

\* The goals of the segment being sorted, counted from its start.
LEMMA Targets ==
  ASSUME TypeOK, BeforeInv, pc # "done", n <= Segments
  PROVE  /\ \A k \in 0 .. Length(n) - 1 : /\ Target(k) \in 0 .. Length(n) - 1
                                          /\ Goal(n, k) = Offset + Target(k)
         /\ \A k, l \in 0 .. Length(n) - 1 : Target(k) = Target(l) => k = l
         /\ \A k \in 0 .. Length(n) - 1 : Offset + k \in Slots
<1>1. /\ n \in Nat /\ Start(n) \in Nat /\ Start(n) <= before.number
      /\ Offset = Start(n) /\ Length(n) \in Nat
  BY Counts, Lengths
<1>2. \A k \in 0 .. Length(n) - 1 : /\ Goal(n, k) \in Nat /\ Start(n) <= Goal(n, k)
                                    /\ Goal(n, k) < Start(n) + Length(n)
  BY <1>1, GoalOrder
<1>3. \A k \in 0 .. Length(n) - 1 : /\ Target(k) \in 0 .. Length(n) - 1
                                    /\ Goal(n, k) = Offset + Target(k)
  BY <1>1, <1>2 DEF Target
<1>4. \A k, l \in 0 .. Length(n) - 1 : Target(k) = Target(l) => k = l
  BY <1>1, <1>3, GoalOrder
<1>5. \A k \in 0 .. Length(n) - 1 : Offset + k \in Slots
  BY <1>1, Keys
<1> QED BY <1>3, <1>4, <1>5

\* The goals are those of the array of the call, which does not change.
LEMMA SameCall ==
  ASSUME UNCHANGED before
  PROVE  /\ \A s : /\ Length(s)' = Length(s) /\ Particles(s)' = Particles(s)
                   /\ \A k : Goal(s, k)' = Goal(s, k) /\ Was(s, k)' = Was(s, k)
         /\ UNCHANGED n => /\ Offset' = Offset /\ Length(n)' = Length(n)
                           /\ Particles(n)' = Particles(n)
                           /\ \A k : Target(k)' = Target(k) /\ Was(n, k)' = Was(n, k)
<1>1. \A s : /\ Length(s)' = Length(s) /\ Particles(s)' = Particles(s)
            /\ \A k : Goal(s, k)' = Goal(s, k) /\ Was(s, k)' = Was(s, k)
  BY DEF Length, Particles, Goal, Ahead, Precedes, Was, Start, Key
<1>2. ASSUME UNCHANGED n
      PROVE  /\ Offset' = Offset /\ Length(n)' = Length(n) /\ Particles(n)' = Particles(n)
             /\ \A k : Target(k)' = Target(k) /\ Was(n, k)' = Was(n, k)
  <2>1. Offset' = Offset
    BY <1>2 DEF Offset
  <2>2. /\ Length(n)' = Length(n) /\ Particles(n)' = Particles(n)
        /\ \A k : Goal(n, k)' = Goal(n, k) /\ Was(n, k)' = Was(n, k)
    BY <1>2 DEF Length, Particles, Goal, Ahead, Precedes, Was, Start, Key
  <2> QED BY <2>1, <2>2 DEF Target
<1> QED BY <1>1, <1>2

LEMMA InitKeeps == Init => IInv
<1> SUFFICES ASSUME Init PROVE IInv
  OBVIOUS
<1>1. /\ number \in 0 .. Size /\ n = 0 /\ i = 0 /\ j = 0 /\ hand = Empty /\ m = 0 /\ last = 0
      /\ index = [k \in 0 .. Seg - 1 |-> Done] /\ segNums \in EarlierCounts
      /\ before = [slot |-> slot, number |-> number]
      /\ pc = IF number > 0 THEN "index" ELSE "done"
  BY DEF Init
<1>2. /\ slot \in Array
      /\ \A p \in Slots : slot[p] # Empty => p < number /\ slot[p].tag = p
  <2>1. PICK c \in [0 .. number - 1 -> Cell \cup {Empty}] :
          slot = [k \in Slots |-> IF k < number /\ c[k] # Empty
                                  THEN [cell |-> c[k], tag |-> k] ELSE Empty]
    BY DEF Init
  <2>2. ASSUME NEW p \in Slots
        PROVE  /\ slot[p] \in Particle \cup {Empty}
               /\ slot[p] # Empty => p < number /\ slot[p].tag = p
    <3>1. CASE p < number /\ c[p] # Empty
      <4>1. c[p] \in Cell
        BY <1>1, <2>1, <3>1, Positive DEF Slots
      <4> QED BY <2>1, <3>1, <4>1, TagAssumption DEF Particle
    <3>2. CASE ~(p < number /\ c[p] # Empty)
      BY <2>1, <3>2
    <3> QED BY <3>1, <3>2
  <2> QED BY <2>1, <2>2 DEF Array
<1>3. LastSegment \in Nat
  BY Positive, Division DEF LastSegment
<1>4. TypeOK
  <2>1. /\ index \in [0 .. Seg - 1 -> Slots \cup {Done}]
        /\ segNums \in [0 .. LastSegment -> 0 .. Seg]
    BY <1>1, Positive DEF EarlierCounts
  <2>2. /\ n \in 0 .. LastSegment + 1 /\ i \in 0 .. Seg /\ j \in 0 .. Seg - 1
        /\ m \in 0 .. LastSegment + 1 /\ last \in 0 .. LastSegment
    BY <1>1, <1>3, Positive
  <2> QED BY <1>1, <1>2, <2>1, <2>2 DEF TypeOK
<1>5. BeforeInv
  BY <1>1, <1>2, Positive DEF BeforeInv
<1>6. PermInv
  <2> DEFINE f == [p \in Slots |-> p]
  <2>1. InPlay = [p \in Slots |-> before.slot[f[p]]]
    BY <1>1, <1>2 DEF InPlay, Array
  <2>2. f \in [Slots -> Slots] /\ \A p, q \in Slots : f[p] = f[q] => p = q
    OBVIOUS
  <2> QED BY <2>1, <2>2 DEF PermInv
<1>7. SegmentsInv
  <2>1. Segments \in Nat
    BY SMTT(30), <1>1, Division, Positive DEF Segments
  <2> QED BY <1>1, <1>3, <2>1 DEF SegmentsInv, Sorting
<1>8. CyclesInv /\ HolesInv /\ DoneInv
  BY <1>1, <1>2, Positive DEF CyclesInv, Sorting, HolesInv, DoneInv, Slots
<1> QED BY <1>4, <1>5, <1>6, <1>7, <1>8 DEF IInv

--------------------------------------------------------------------------------
\* A step that exchanges what is in play, or leaves it alone.
LEMMA Rearranged ==
  ASSUME PermInv, UNCHANGED before, NEW g \in [Slots -> Slots],
         \A p, q \in Slots : g[p] = g[q] => p = q,
         InPlay' = [p \in Slots |-> InPlay[g[p]]]
  PROVE  PermInv'
<1>1. PICK f \in [Slots -> Slots] : /\ \A p, q \in Slots : f[p] = f[q] => p = q
                                    /\ InPlay = [p \in Slots |-> before.slot[f[p]]]
  BY DEF PermInv
<1> DEFINE h == [p \in Slots |-> f[g[p]]]
<1>2. h \in [Slots -> Slots] /\ \A p, q \in Slots : h[p] = h[q] => p = q
  BY <1>1
<1>3. InPlay' = [p \in Slots |-> before'.slot[h[p]]]
  BY <1>1
<1> QED BY <1>2, <1>3 DEF PermInv

LEMMA LeftAlone ==
  ASSUME PermInv, UNCHANGED before, InPlay' = InPlay
  PROVE  PermInv'
BY DEF PermInv

\* The index of a segment is made, or there is nothing in it.
LEMMA IndexKeeps ==
  ASSUME IInv, IndexSegment
  PROVE  IInv'
<1> USE DEF IInv
<1>1. /\ pc = "index" /\ n <= Segments
      /\ UNCHANGED <<slot, number, before, j, hand, m, last>>
  BY DEF IndexSegment, Segments
<1>2. /\ n \in Nat /\ Segments \in Nat /\ Segments <= LastSegment /\ number \in Nat
      /\ number <= Size /\ number = before.number /\ Offset = Start(n)
      /\ Start(n) \in Nat /\ Start(n) <= before.number /\ SortSize = Length(n)
  BY <1>1, Counts
<1>3. /\ Length(n) \in Nat /\ Length(n) <= Seg
      /\ Start(n) + Length(n) <= number
  BY <1>2, Lengths
<1>n. /\ LastSegment \in Nat /\ n \in 0 .. LastSegment /\ Seg \in Nat \ {0}
      /\ segNums \in [0 .. LastSegment -> 0 .. Seg]
  <2>1. LastSegment \in Nat
    BY Positive, Division DEF LastSegment
  <2>2. segNums \in [0 .. LastSegment -> 0 .. Seg]
    BY DEF TypeOK
  <2>3. n \in 0 .. LastSegment
    BY <1>1, <1>2, <2>1
  <2> QED BY <2>1, <2>2, <2>3, Positive
<1>4. /\ \A s \in 0 .. LastSegment : s < n => SegmentDone(s)
      /\ \A p \in Slots : p >= Offset => slot[p] = before.slot[p]
      /\ number > 0
  BY <1>1, <1>2 DEF SegmentsInv, Sorting, BeforeInv
<1>5. /\ \A s : /\ Length(s)' = Length(s) /\ Particles(s)' = Particles(s)
                /\ \A k : Goal(s, k)' = Goal(s, k) /\ Was(s, k)' = Was(s, k)
      /\ Segments' = Segments
  BY <1>1, SameCall DEF Segments
<1>6. BeforeInv' /\ HolesInv' /\ DoneInv' /\ pc' \in {"index", "cycles"}
  BY <1>1 DEF IndexSegment, BeforeInv, HolesInv, DoneInv
<1>7. PermInv'
  <2>1. InPlay' = InPlay
    BY <1>1, <1>6 DEF InPlay
  <2> QED BY <1>1, <2>1, LeftAlone
<1>8. CASE Offset = number
  <2>1. /\ segNums' = [segNums EXCEPT ![n] = 0] /\ n' = n + 1
        /\ UNCHANGED <<index, pc, i>>
    BY <1>8 DEF IndexSegment
  <2>2. Cardinality(Particles(n)) = 0
    <3>1. Length(n) = 0
      BY <1>2, <1>3, <1>8, Positive
    <3> QED BY <3>1, FS_EmptySet DEF Particles
  <2>3. TypeOK'
    <3>1. n' \in 0 .. LastSegment + 1
      BY <1>n, <2>1
    <3>2. segNums' \in [0 .. LastSegment -> 0 .. Seg]
      <4>1. 0 \in 0 .. Seg
        BY <1>n
      <4> QED BY <1>n, <2>1, <4>1
    <3> QED BY <1>1, <2>1, <3>1, <3>2 DEF TypeOK
  <2>4. SegmentsInv'
    <3>1. ASSUME NEW s \in 0 .. LastSegment, s < n + 1 PROVE SegmentDone(s)'
      <4>1. CASE s < n
        BY <1>1, <1>2, <1>4, <1>5, <2>1, <4>1 DEF SegmentDone, TypeOK
      <4>2. CASE s = n
        <5>1. Length(n) = 0
          BY <1>2, <1>3, <1>8, Positive
        <5>2. segNums'[n] = 0
          BY <2>1, <3>1, <4>2 DEF TypeOK
        <5> QED BY <1>5, <2>2, <4>2, <5>1, <5>2 DEF SegmentDone
      <4> QED BY <1>2, <3>1, <4>1, <4>2
    <3>3. \A p \in Slots : p >= number => slot'[p] = before'.slot[p]
      BY <1>1, <1>4, <1>8
    <3>4. Offset' >= number
      <4>1. Offset' = Start(n) + Seg
        BY <1>2, <2>1, Starts DEF Offset, Start
      <4>2. PICK o : o = Offset'
        OBVIOUS
      <4>3. o = number + Seg
        BY <1>2, <1>8, <4>1, <4>2
      <4>4. o >= number
        BY <1>2, <1>n, <4>3
      <4> QED BY <4>2, <4>4
    <3>5. \A p \in Slots : p >= number' \/ p >= Offset' => slot'[p] = before'.slot[p]
      <4>1. PICK o \in Int : o = Offset'
        BY <1>2, <2>1, Starts DEF Offset, Start
      <4>2. \A p \in Slots : p >= o => p >= number
        BY <1>2, <3>4, <4>1 DEF Slots
      <4> QED BY <1>1, <3>3, <4>1, <4>2
    <3>6. n' <= Segments' + 1
      <4>1. n + 1 <= Segments + 1
        BY <1>1, <1>2
      <4> QED BY <1>5, <2>1, <4>1
    <3> QED BY <1>1, <1>2, <2>1, <3>1, <3>5, <3>6 DEF SegmentsInv, Sorting
  <2>5. CyclesInv'
    BY <1>1, <2>1 DEF CyclesInv, Sorting
  <2> QED BY <1>6, <1>7, <2>3, <2>4, <2>5
<1>9. CASE Offset # number
  <2>1. /\ index' = [k \in 0 .. Seg - 1 |-> IF k < SortSize THEN Destination(k) ELSE index[k]]
        /\ segNums' = [segNums EXCEPT ![n] =
              Cardinality({k \in 0 .. SortSize - 1 : slot[Offset + k] # Empty})]
        /\ pc' = "cycles" /\ i' = 0 /\ n' = n
    BY <1>9 DEF IndexSegment
  <2>2. Offset < number
    BY <1>2, <1>9
  <2>3. /\ \A k \in 0 .. Length(n) - 1 : /\ slot[Offset + k] = Was(n, k)
                                         /\ Destination(k) = Goal(n, k)
        /\ {k \in 0 .. SortSize - 1 : slot[Offset + k] # Empty} = Particles(n)
    BY <1>1, <1>4, <2>2, DestinationIsGoal
  <2>4. \A k \in 0 .. Length(n) - 1 : index'[k] = Goal(n, k)
    BY <1>2, <1>3, <2>1, <2>3, Positive
  <2>5. \A k \in 0 .. Length(n) - 1 : /\ Goal(n, k) \in Nat /\ Start(n) <= Goal(n, k)
                                      /\ Goal(n, k) < Start(n) + Length(n)
    BY <1>2, GoalOrder
  <2>6. /\ Cardinality(Particles(n)) \in Nat /\ Cardinality(Particles(n)) <= Length(n)
        /\ segNums' = [segNums EXCEPT ![n] = Cardinality(Particles(n))]
    BY <1>2, <2>1, <2>3, ParticlesFirst
  <2>7. TypeOK'
    <3>1. index' \in [0 .. Seg - 1 -> Slots \cup {Done}]
      <4>1. \A k \in 0 .. Length(n) - 1 : Destination(k) \in Slots
        <5>1. Start(n) + Length(n) <= Size /\ Size \in Nat
          BY <1>2, <1>3, Positive
        <5>2. \A g \in Nat : Start(n) <= g /\ g < Start(n) + Length(n) => g \in Slots
          BY <1>2, <1>3, <5>1 DEF Slots
        <5> QED BY <2>3, <2>5, <5>2
      <4>2. \A k \in 0 .. Seg - 1 : k < SortSize => k \in 0 .. Length(n) - 1
        BY <1>2, <1>3
      <4> QED BY <2>1, <4>1, <4>2 DEF TypeOK
    <3>2. segNums' \in [0 .. LastSegment -> 0 .. Seg]
      <4>1. Cardinality(Particles(n)) \in 0 .. Seg
        BY <1>3, <2>6, Positive
      <4> QED BY <2>6, <4>1 DEF TypeOK
    <3>3. i' \in 0 .. Seg
      BY <2>1, Positive
    <3> QED BY <1>1, <2>1, <3>1, <3>2, <3>3 DEF TypeOK
  <2>8. SegmentsInv'
    <3>1. Offset' = Offset /\ Length(n)' = Length(n) /\ Particles(n)' = Particles(n)
      BY <1>1, <2>1 DEF Offset, Length, Particles, Start, Was
    <3>2. segNums'[n] = Cardinality(Particles(n))
      BY <1>n, <2>6
    <3>3. \A s \in 0 .. LastSegment : s < n => SegmentDone(s)'
      BY <1>1, <1>2, <1>4, <1>5, <2>6 DEF SegmentDone, TypeOK
    <3>5. \A p \in Slots : p >= number \/ p >= Offset + Length(n) =>
                             slot'[p] = before'.slot[p]
      <4>1. \A p \in Slots : p >= number \/ p >= Offset + Length(n) => p >= Offset
        BY <1>2, <1>3 DEF Slots
      <4> QED BY <1>1, <1>4, <4>1
    <3>6. n' <= Segments' /\ n' <= Segments' + 1 /\ Offset' < number'
      BY <1>1, <1>2, <1>5, <2>1, <2>2, <3>1
    <3> QED BY <1>1, <2>1, <3>1, <3>2, <3>3, <3>5, <3>6 DEF SegmentsInv, Sorting
  <2>9. CyclesInv'
    <3>1. /\ Offset' = Offset /\ Length(n)' = Length(n)
          /\ \A k : Target(k)' = Target(k) /\ Was(n, k)' = Was(n, k)
      BY <1>1, <2>1, SameCall
    <3>2. \A k \in 0 .. Length(n) - 1 : /\ Target(k) \in 0 .. Length(n) - 1
                                        /\ Goal(n, k) = Offset + Target(k)
      BY <1>1, Targets
    <3>3. Pending' = 0 .. Length(n) - 1
      BY <2>1, <2>4, <2>5, <3>1 DEF Pending, Done
    <3>4. \A k \in 0 .. Length(n) - 1 :
            /\ index'[k] = Offset' + Target(k)' /\ k >= 0
            /\ Target(k)' \in Pending'
            /\ slot'[Offset' + k] = Was(n, k)'
      BY <1>1, <1>3, <2>3, <2>4, <3>1, <3>2, <3>3
    <3>5. i' = 0 /\ i' <= Length(n)' /\ pc' = "cycles"
      BY <1>3, <2>1, <3>1
    <3> QED BY <3>1, <3>3, <3>4, <3>5 DEF CyclesInv, Sorting, Waiting
  <2> QED BY <1>6, <1>7, <2>7, <2>8, <2>9
<1> QED BY <1>8, <1>9

--------------------------------------------------------------------------------
\* What is fixed while the particles of a segment are put in order.
LEMMA Segment ==
  ASSUME IInv, Sorting
  PROVE  /\ TypeOK /\ BeforeInv /\ pc # "done" /\ n <= Segments
         /\ n \in Nat /\ Length(n) \in Nat /\ Length(n) <= Seg /\ SortSize = Length(n)
         /\ Offset \in Nat /\ Offset = Start(n) /\ number \in Nat
         /\ Offset + Length(n) <= number /\ number <= Size
<1>1. TypeOK /\ BeforeInv /\ pc # "done" /\ n <= Segments
  BY DEF IInv, Sorting, SegmentsInv
<1> QED BY <1>1, Counts, Lengths

\* Such a step disturbs no other segment.
LEMMA OthersKept ==
  ASSUME IInv, Sorting, UNCHANGED <<before, number, n, segNums>>, Sorting',
         \A p \in Slots : p < Offset \/ p >= Offset + Length(n) => slot'[p] = slot[p]
  PROVE  SegmentsInv'
<1> USE DEF IInv
<1>1. /\ TypeOK /\ BeforeInv /\ n <= Segments
      /\ n \in Nat /\ Length(n) \in Nat /\ Offset \in Nat /\ Offset = Start(n)
      /\ number \in Nat /\ Offset + Length(n) <= number /\ number <= Size
      /\ number = before.number
  BY Segment, Before
<1>2. /\ \A s : /\ Length(s)' = Length(s) /\ Particles(s)' = Particles(s)
                /\ \A k : Goal(s, k)' = Goal(s, k) /\ Was(s, k)' = Was(s, k)
      /\ Offset' = Offset /\ Segments' = Segments
  BY SameCall DEF Segments
<1>3. /\ n <= Segments /\ Offset < number /\ segNums[n] = Cardinality(Particles(n))
      /\ \A s \in 0 .. LastSegment : s < n => SegmentDone(s)
      /\ \A p \in Slots : p >= number \/ p >= Offset + Length(n) =>
                            slot[p] = before.slot[p]
  BY DEF SegmentsInv, Sorting
<1>4. ASSUME NEW s \in 0 .. LastSegment, s < n PROVE SegmentDone(s)'
  <2>1. /\ s \in Nat /\ Start(s) \in Nat /\ Start(s) <= before.number
        /\ Start(s) + Seg <= Offset
    <3>1. s \in Nat
      OBVIOUS
    <3>2. Start(s) \in Nat /\ Start(s) + Seg <= Offset
      BY <1>1, <1>4, <3>1, Starts
    <3> QED BY <1>1, <3>1, <3>2, Positive
  <2>2. \A k \in 0 .. Length(s) - 1 : Goal(s, k) \in Slots /\ Goal(s, k) < Offset
    <3>1. \A k \in 0 .. Length(s) - 1 : /\ Goal(s, k) \in Nat
                                        /\ Goal(s, k) < Start(s) + Length(s)
      BY <1>1, <2>1, GoalOrder
    <3>2. Length(s) \in Nat /\ Length(s) <= Seg
      BY <1>1, <2>1, Lengths
    <3>3. \A g \in Nat : g < Start(s) + Length(s) => g \in Slots /\ g < Offset
      BY <1>1, <2>1, <3>2, Positive DEF Slots
    <3> QED BY <3>1, <3>3
  <2>3. SegmentDone(s)
    BY <1>3, <1>4
  <2> QED BY <1>2, <2>2, <2>3 DEF SegmentDone
<1>5. \A p \in Slots : p >= number \/ p >= Offset + Length(n) =>
                         slot'[p] = before'.slot[p]
  <2>1. \A p \in Slots : p >= number => p >= Offset + Length(n)
    BY <1>1 DEF Slots
  <2> QED BY <1>3, <2>1
<1> QED BY <1>2, <1>3, <1>4, <1>5, SameCall DEF SegmentsInv, Sorting

\* The slot that is taken in hand is still there, too.
LEMMA StartCycleKeeps ==
  ASSUME IInv, StartCycle
  PROVE  IInv'
<1> USE DEF IInv
<1>1. /\ pc = "cycles" /\ i < SortSize
      /\ UNCHANGED <<slot, number, before, n, index, segNums, m, last>>
  BY DEF StartCycle
<1>2. Sorting /\ Sorting' /\ pc' \in {"cycles", "carry"}
  BY <1>1 DEF StartCycle, Sorting
<1>3. /\ Length(n) \in Nat /\ Length(n) <= Seg /\ Offset \in Nat
      /\ i \in 0 .. Length(n) - 1 /\ i \in 0 .. Seg - 1 /\ n <= Segments
  <2>1. Length(n) \in Nat /\ Length(n) <= Seg /\ Offset \in Nat /\ SortSize = Length(n)
    BY <1>2, Segment
  <2>2. i \in Nat
    BY Positive DEF TypeOK
  <2> QED BY <1>1, <1>2, <2>1, <2>2, Positive, Segment
<1>4. /\ \A k \in 0 .. Length(n) - 1 : Target(k) \in 0 .. Length(n) - 1
      /\ \A k, l \in 0 .. Length(n) - 1 : Target(k) = Target(l) => k = l
      /\ \A k \in 0 .. Length(n) - 1 : Offset + k \in Slots
  BY <1>1, <1>3, Targets
<1>5. /\ Offset' = Offset /\ Length(n)' = Length(n) /\ Pending' = Pending
      /\ \A k : Target(k)' = Target(k) /\ Was(n, k)' = Was(n, k)
  BY <1>1, SameCall DEF Pending
<1>6. /\ slot \in [Slots -> Particle \cup {Empty}]
      /\ slot[Offset + i] \in Particle \cup {Empty}
  BY <1>3, <1>4 DEF TypeOK, Array
<1>7. TypeOK'
  <2>1. i' \in 0 .. Seg
    <3>1. i + 1 \in 0 .. Seg /\ i \in 0 .. Seg
      BY <1>3, Positive
    <3> QED BY <3>1 DEF StartCycle
  <2>2. j' \in 0 .. Seg - 1
    BY <1>3 DEF StartCycle, TypeOK
  <2>3. hand' \in Particle \cup {Empty}
    BY <1>6 DEF StartCycle, TypeOK
  <2> QED BY <1>1, <1>2, <2>1, <2>2, <2>3 DEF TypeOK
<1>8. BeforeInv' /\ HolesInv' /\ DoneInv'
  BY <1>1, <1>2 DEF BeforeInv, HolesInv, DoneInv
<1>9. PermInv'
  <2>1. InPlay' = InPlay
    BY <1>1, <1>5, <1>6 DEF InPlay, StartCycle
  <2> QED BY <1>1, <2>1, LeftAlone
<1>10. SegmentsInv'
  BY <1>1, <1>2, OthersKept
<1>11. CyclesInv'
  <2>1. \A k \in 0 .. Length(n) - 1 :
          /\ k \in Pending => /\ index[k] = Offset + Target(k) /\ k >= i
                              /\ Target(k) \in Pending
                              /\ slot[Offset + k] = Was(n, k)
          /\ k \notin Pending => /\ slot[Offset + Target(k)] = Was(n, k)
                                 /\ Target(k) \notin Pending
    BY <1>1, <1>2 DEF CyclesInv, Waiting
  <2>2. CASE index[i] = Done
    <3>1. i' = i + 1 /\ UNCHANGED pc
      BY <2>2 DEF StartCycle
    <3>2. i \notin Pending
      BY <2>2 DEF Pending
    <3>3. \A k \in 0 .. Length(n) - 1 : k >= i /\ k # i => k >= i'
      BY <1>3, <3>1
    <3>4. i' <= Length(n)
      BY <1>3, <3>1
    <3> QED BY <1>1, <1>5, <2>1, <3>1, <3>2, <3>3, <3>4 DEF CyclesInv, Sorting, Waiting
  <2>3. CASE index[i] # Done
    <3>1. hand' = slot[Offset + i] /\ j' = i /\ pc' = "carry" /\ i' = i
      BY <2>3 DEF StartCycle
    <3>2. i \in Pending
      BY <1>3, <2>3 DEF Pending
    <3>3. i < Length(n) /\ hand' = Was(n, i)
      BY <1>3, <2>1, <3>1, <3>2
    <3> QED BY <1>1, <1>5, <2>1, <3>1, <3>2, <3>3 DEF CyclesInv, Sorting, Waiting
  <2> QED BY <2>2, <2>3
<1> QED BY <1>7, <1>8, <1>9, <1>10, <1>11

\* What is known while a cycle is followed.
LEMMA Carrying ==
  ASSUME IInv, pc = "carry"
  PROVE  /\ Sorting /\ n <= Segments
         /\ Length(n) \in Nat /\ Length(n) <= Seg /\ Offset \in Nat
         /\ i \in 0 .. Length(n) - 1 /\ j \in 0 .. Length(n) - 1 /\ j \in Pending
         /\ index[j] = Offset + Target(j) /\ hand = Was(n, j)
         /\ \A k \in 0 .. Length(n) - 1 : Target(k) \in 0 .. Length(n) - 1
         /\ \A k, l \in 0 .. Length(n) - 1 : Target(k) = Target(l) => k = l
         /\ \A k \in 0 .. Length(n) - 1 : Offset + k \in Slots
<1> USE DEF IInv
<1>1. Sorting
  BY DEF Sorting
<1>2. /\ TypeOK /\ n <= Segments /\ Length(n) \in Nat /\ Length(n) <= Seg /\ Offset \in Nat
  BY <1>1, Segment
<1>3. /\ i < Length(n) /\ j \in Pending /\ hand = Was(n, j)
      /\ \A k \in 0 .. Length(n) - 1 : k \in Pending => index[k] = Offset + Target(k)
  BY <1>1 DEF CyclesInv
<1>4. j \in 0 .. Length(n) - 1 /\ index[j] = Offset + Target(j)
  BY <1>3 DEF Pending
<1>5. i \in 0 .. Length(n) - 1
  <2>1. i \in Nat
    BY Positive DEF TypeOK
  <2> QED BY <1>2, <1>3, <2>1
<1> QED BY <1>1, <1>2, <1>3, <1>4, <1>5, Targets

\* What the cycle says of the slots counted from the start of the segment.
LEMMA Cycle ==
  ASSUME IInv, pc = "carry"
  PROVE  \A k \in 0 .. Length(n) - 1 :
           /\ k \in Pending => /\ index[k] = Offset + Target(k) /\ k >= i
                               /\ Target(k) \in Pending \/ Target(k) = i
                               /\ k # j => slot[Offset + k] = Was(n, k)
                               /\ j # i => k # i /\ Target(k) # j
           /\ k \notin Pending => /\ slot[Offset + Target(k)] = Was(n, k)
                                  /\ Target(k) \notin Pending \/ Target(k) = j
                                  /\ Target(k) # i
BY DEF IInv, CyclesInv, Sorting, Waiting

\* What is in hand is put where it belongs, and what was there is taken in hand.
LEMMA SwapKeeps ==
  ASSUME IInv, Swap
  PROVE  IInv'
<1> USE DEF IInv
<1> DEFINE t == Target(j)
           R == 0 .. Length(n) - 1
<1>1. /\ pc = "carry" /\ pc' = "carry"
      /\ UNCHANGED <<number, before, n, segNums, i, m, last>>
  BY DEF Swap
<1>2. /\ Sorting /\ Sorting' /\ n <= Segments
      /\ Length(n) \in Nat /\ Length(n) <= Seg /\ Offset \in Nat
      /\ i \in R /\ j \in R /\ t \in R /\ j \in Pending
      /\ index[j] = Offset + t /\ hand = Was(n, j)
      /\ \A k \in R : Target(k) \in R
      /\ \A k, l \in R : Target(k) = Target(l) => k = l
      /\ \A k \in R : Offset + k \in Slots
  BY <1>1, Carrying DEF Sorting
<1>3. /\ t # i /\ j' = t
      /\ slot' = [slot EXCEPT ![Offset + t] = hand]
      /\ hand' = slot[Offset + t]
      /\ index' = [index EXCEPT ![j] = Done]
  <2>1. t # i
    BY <1>2 DEF Swap
  <2>2. Offset + t - Offset = t
    BY <1>2
  <2> QED BY <1>2, <2>1, <2>2 DEF Swap
<1>4. /\ slot \in [Slots -> Particle \cup {Empty}] /\ hand \in Particle \cup {Empty}
      /\ slot' \in [Slots -> Particle \cup {Empty}]
      /\ slot[Offset + t] \in Particle \cup {Empty}
  BY <1>2, <1>3 DEF TypeOK, Array
<1>5. /\ Offset' = Offset /\ Length(n)' = Length(n)
      /\ \A k : Target(k)' = Target(k) /\ Was(n, k)' = Was(n, k)
  BY <1>1, SameCall
<1>6. \A k \in R : index'[k] = IF k = j THEN Done ELSE index[k]
  <2>1. \A k \in R : k \in 0 .. Seg - 1
    BY <1>2, Positive
  <2> QED BY <1>3, <2>1 DEF TypeOK
<1>7. Pending' = Pending \ {j}
  BY <1>2, <1>5, <1>6 DEF Pending
<1>8. \A k \in R : slot'[Offset + k] = IF k = t THEN hand ELSE slot[Offset + k]
  <2>1. \A k \in R : Offset + k = Offset + t => k = t
    BY <1>2
  <2> QED BY <1>2, <1>3, <1>4, <2>1
<1>9. TypeOK'
  <2>1. index' \in [0 .. Seg - 1 -> Slots \cup {Done}]
    BY <1>3 DEF TypeOK
  <2>2. j' \in 0 .. Seg - 1
    BY <1>2, <1>3, Positive
  <2> QED BY <1>1, <1>3, <1>4, <2>1, <2>2 DEF TypeOK, Array
<1>10. BeforeInv' /\ HolesInv' /\ DoneInv'
  BY <1>1 DEF BeforeInv, HolesInv, DoneInv
<1>11. PermInv'
  <2> DEFINE g == [p \in Slots |-> IF p = Offset + i THEN Offset + t
                                  ELSE IF p = Offset + t THEN Offset + i ELSE p]
  <2>1. Offset + i \in Slots /\ Offset + t \in Slots /\ Offset + i # Offset + t
    BY <1>2, <1>3
  <2>2. g \in [Slots -> Slots] /\ \A p, q \in Slots : g[p] = g[q] => p = q
    BY <2>1
  <2>3. InPlay' = [p \in Slots |-> InPlay[g[p]]]
    <3>1. InPlay = [slot EXCEPT ![Offset + i] = hand]
      BY <1>1 DEF InPlay
    <3>2. InPlay' = [slot' EXCEPT ![Offset + i] = hand']
      BY <1>1, <1>5 DEF InPlay
    <3> QED BY <1>3, <1>4, <2>1, <3>1, <3>2
  <2> QED BY <1>1, <2>2, <2>3, Rearranged
<1>12. SegmentsInv'
  <2>1. \A p \in Slots : p < Offset \/ p >= Offset + Length(n) => p # Offset + t
    BY <1>2 DEF Slots
  <2> QED BY <1>1, <1>2, <1>3, <1>4, <2>1, OthersKept
<1>13. CyclesInv'
  <2> HIDE DEF t, R
  <2>1. \A k \in R :
           /\ k \in Pending => /\ index[k] = Offset + Target(k) /\ k >= i
                               /\ Target(k) \in Pending \/ Target(k) = i
                               /\ k # j => slot[Offset + k] = Was(n, k)
                               /\ j # i => k # i /\ Target(k) # j
           /\ k \notin Pending => /\ slot[Offset + Target(k)] = Was(n, k)
                                  /\ Target(k) \notin Pending \/ Target(k) = j
                                  /\ Target(k) # i
    BY <1>1, Cycle DEF R
  <2>2. t = Target(j)
    BY DEF t
  <2>3. t # j /\ t \in Pending
    BY <1>2, <1>3, <2>1, <2>2
  <2>4. ASSUME NEW k \in R, k \in Pending'
        PROVE  /\ index'[k] = Offset + Target(k) /\ k >= i
               /\ Target(k) \in Pending' \/ Target(k) = i
               /\ k # t => slot'[Offset + k] = Was(n, k)
               /\ k # i /\ Target(k) # t
    BY <1>2, <1>3, <1>6, <1>7, <1>8, <2>1, <2>2, <2>3, <2>4
  <2>5. ASSUME NEW k \in R, k \notin Pending'
        PROVE  /\ slot'[Offset + Target(k)] = Was(n, k)
               /\ Target(k) \notin Pending' \/ Target(k) = t
               /\ Target(k) # i
    BY <1>2, <1>3, <1>7, <1>8, <2>1, <2>2, <2>3, <2>5
  <2>6. t \in Pending' /\ hand' = Was(n, t) /\ i \notin Pending' /\ i < Length(n)
    <3>1. i < Length(n)
      BY <1>2 DEF R
    <3> QED BY <1>2, <1>3, <1>7, <2>1, <2>3, <2>4, <3>1
  <2>7. \A k : k \in Pending' => k \in R
    BY <1>5 DEF Pending, R
  <2> QED BY <1>1, <1>3, <1>5, <2>4, <2>5, <2>6, <2>7 DEF CyclesInv, Waiting, R
<1> QED BY <1>9, <1>10, <1>11, <1>12, <1>13

\* The cycle is closed: what is in hand belongs where the cycle started.
LEMMA CloseCycleKeeps ==
  ASSUME IInv, CloseCycle
  PROVE  IInv'
<1> USE DEF IInv
<1> DEFINE R == 0 .. Length(n) - 1
<1>1. /\ pc = "carry" /\ pc' = "cycles" /\ i' = i + 1
      /\ UNCHANGED <<number, before, n, segNums, j, hand, m, last>>
  BY DEF CloseCycle
<1>2. /\ Sorting /\ Sorting' /\ n <= Segments
      /\ Length(n) \in Nat /\ Length(n) <= Seg /\ Offset \in Nat
      /\ i \in R /\ j \in R /\ j \in Pending
      /\ index[j] = Offset + Target(j) /\ hand = Was(n, j)
      /\ \A k \in R : Target(k) \in R
      /\ \A k, l \in R : Target(k) = Target(l) => k = l
      /\ \A k \in R : Offset + k \in Slots
  BY <1>1, Carrying DEF Sorting
<1>3. /\ Target(j) = i
      /\ slot' = [slot EXCEPT ![Offset + i] = hand]
      /\ index' = [index EXCEPT ![j] = Done]
  <2>1. Target(j) \in R /\ Offset + Target(j) = Offset + i
    BY <1>2 DEF CloseCycle
  <2>2. Target(j) = i
    BY <1>2, <2>1
  <2> QED BY <2>2 DEF CloseCycle
<1>4. /\ slot \in [Slots -> Particle \cup {Empty}] /\ hand \in Particle \cup {Empty}
      /\ slot' \in [Slots -> Particle \cup {Empty}]
  BY <1>2, <1>3 DEF TypeOK, Array
<1>5. /\ Offset' = Offset /\ Length(n)' = Length(n)
      /\ \A k : Target(k)' = Target(k) /\ Was(n, k)' = Was(n, k)
  BY <1>1, SameCall
<1>6. \A k \in R : index'[k] = IF k = j THEN Done ELSE index[k]
  <2>1. \A k \in R : k \in 0 .. Seg - 1
    BY <1>2, Positive
  <2> QED BY <1>3, <2>1 DEF TypeOK
<1>7. Pending' = Pending \ {j}
  BY <1>2, <1>5, <1>6 DEF Pending
<1>8. \A k \in R : slot'[Offset + k] = IF k = i THEN hand ELSE slot[Offset + k]
  <2>1. \A k \in R : Offset + k = Offset + i => k = i
    BY <1>2
  <2> QED BY <1>2, <1>3, <1>4, <2>1
<1>9. TypeOK'
  <2>1. index' \in [0 .. Seg - 1 -> Slots \cup {Done}]
    BY <1>3 DEF TypeOK
  <2>2. i' \in 0 .. Seg
    BY <1>1, <1>2, Positive
  <2> QED BY <1>1, <1>3, <1>4, <2>1, <2>2 DEF TypeOK, Array
<1>10. BeforeInv' /\ HolesInv' /\ DoneInv'
  BY <1>1 DEF BeforeInv, HolesInv, DoneInv
<1>11. PermInv'
  <2>1. InPlay' = InPlay
    BY <1>1, <1>3 DEF InPlay
  <2> QED BY <1>1, <2>1, LeftAlone
<1>12. SegmentsInv'
  <2>1. \A p \in Slots : p < Offset \/ p >= Offset + Length(n) => p # Offset + i
    BY <1>2 DEF Slots
  <2> QED BY <1>1, <1>2, <1>3, <1>4, <2>1, OthersKept
<1>13. CyclesInv'
  <2>i. i < Length(n) /\ i \in Nat /\ i' <= Length(n)
    BY <1>1, <1>2
  <2> HIDE DEF R
  <2>1. \A k \in R :
           /\ k \in Pending => /\ index[k] = Offset + Target(k) /\ k >= i
                               /\ Target(k) \in Pending \/ Target(k) = i
                               /\ k # j => slot[Offset + k] = Was(n, k)
                               /\ j # i => k # i /\ Target(k) # j
           /\ k \notin Pending => /\ slot[Offset + Target(k)] = Was(n, k)
                                  /\ Target(k) \notin Pending \/ Target(k) = j
                                  /\ Target(k) # i
    BY <1>1, Cycle DEF R
  <2>2. ASSUME NEW k \in R, k \in Pending'
        PROVE  /\ index'[k] = Offset + Target(k) /\ k >= i /\ k # i
               /\ Target(k) \in Pending'
               /\ slot'[Offset + k] = Was(n, k)
    BY <1>2, <1>3, <1>6, <1>7, <1>8, <2>1, <2>2
  <2>3. ASSUME NEW k \in R, k \notin Pending'
        PROVE  /\ slot'[Offset + Target(k)] = Was(n, k)
               /\ Target(k) \notin Pending'
    BY <1>2, <1>3, <1>7, <1>8, <2>1, <2>2, <2>3
  <2>4. \A k \in R : k >= i /\ k # i => k >= i'
    BY <1>1, <2>i DEF R
  <2> QED BY <1>1, <1>5, <2>i, <2>2, <2>3, <2>4 DEF CyclesInv, Waiting, R
<1> QED BY <1>9, <1>10, <1>11, <1>12, <1>13

\* When no slot is left to start a cycle from, every slot has come where it belongs.
LEMMA NoneWaiting ==
  ASSUME IInv, pc = "cycles", i = SortSize
  PROVE  SegmentDone(n)
<1> USE DEF IInv
<1>1. Sorting
  BY DEF Sorting
<1>2. /\ n <= Segments /\ Length(n) \in Nat /\ i = Length(n)
  BY <1>1, Segment
<1>3. \A k \in 0 .. Length(n) - 1 : ~(k >= i)
  BY <1>2
<1>4. \A k \in 0 .. Length(n) - 1 : slot[Offset + Target(k)] = Was(n, k)
  BY <1>1, <1>3 DEF CyclesInv
<1>5. \A k \in 0 .. Length(n) - 1 : Goal(n, k) = Offset + Target(k)
  BY <1>1, <1>2, Targets, Segment
<1>6. segNums[n] = Cardinality(Particles(n))
  BY <1>1 DEF SegmentsInv
<1> QED BY <1>4, <1>5, <1>6 DEF SegmentDone

LEMMA NextSegmentKeeps ==
  ASSUME IInv, NextSegment
  PROVE  IInv'
<1> USE DEF IInv
<1>1. /\ pc = "cycles" /\ pc' = "index" /\ i = SortSize /\ n' = n + 1
      /\ UNCHANGED <<slot, number, before, index, segNums, i, j, hand, m, last>>
  BY DEF NextSegment
<1>2. /\ Sorting /\ n <= Segments /\ n \in Nat /\ Offset \in Nat /\ number \in Nat
      /\ Length(n) \in Nat /\ Length(n) <= Seg
      /\ Offset = Start(n) /\ Offset + Length(n) <= number /\ number <= Size
  <2>1. Sorting
    BY <1>1 DEF Sorting
  <2> QED BY <2>1, Segment
<1>3. SegmentDone(n)
  BY <1>1, NoneWaiting
<1>4. Segments \in Nat /\ LastSegment \in Nat /\ Segments <= LastSegment
  <2>1. Segments \in Nat /\ Segments <= LastSegment
    BY <1>1, <1>2, Counts
  <2> QED BY <2>1, Positive, Division DEF LastSegment
<1>5. TypeOK' /\ BeforeInv' /\ HolesInv' /\ DoneInv' /\ CyclesInv'
  <2>1. n' \in 0 .. LastSegment + 1
    BY <1>1, <1>2, <1>4
  <2>2. TypeOK'
    BY <1>1, <2>1 DEF TypeOK
  <2> QED BY <1>1, <2>2 DEF BeforeInv, HolesInv, DoneInv, CyclesInv, Sorting
<1>6. PermInv'
  <2>1. InPlay' = InPlay
    BY <1>1 DEF InPlay
  <2> QED BY <1>1, <2>1, LeftAlone
<1>7. SegmentsInv'
  <2>1. /\ \A s \in 0 .. LastSegment : s < n => SegmentDone(s)
        /\ \A p \in Slots : p >= number \/ p >= Offset + Length(n) =>
                              slot[p] = before.slot[p]
    BY <1>1, <1>2 DEF SegmentsInv
  <2>2. \A s \in 0 .. LastSegment : s < n + 1 => SegmentDone(s)'
    <3>1. \A s \in 0 .. LastSegment : s < n + 1 => SegmentDone(s)
      <4>1. \A s \in 0 .. LastSegment : s < n + 1 => s < n \/ s = n
        BY <1>2
      <4> QED BY <1>3, <2>1, <4>1
    <3>2. \A s : SegmentDone(s) => SegmentDone(s)'
      BY <1>1, SameCall DEF SegmentDone
    <3> QED BY <3>1, <3>2
  <2>4. \A p \in Slots : p >= number' \/ p >= Offset' => slot'[p] = before'.slot[p]
    <3>1. Offset' = Offset + Seg
      BY <1>1, <1>2, Starts DEF Offset, Start
    <3>2. \A p \in Slots : p >= Offset + Seg => p >= Offset + Length(n)
      BY <1>2, Positive DEF Slots
    <3> QED BY <1>1, <2>1, <3>1, <3>2
  <2>5. n' <= Segments' + 1
    <3>1. n + 1 <= Segments + 1
      BY <1>2, <1>4
    <3>2. Segments' = Segments
      BY <1>1 DEF Segments
    <3> QED BY <1>1, <3>1, <3>2
  <2> QED BY <1>1, <1>4, <2>2, <2>4, <2>5 DEF SegmentsInv, Sorting, LastSegment
<1> QED BY <1>5, <1>6, <1>7

--------------------------------------------------------------------------------
\* In a sorted segment the particles come first.
LEMMA SortedSegment ==
  ASSUME TypeOK, BeforeInv, pc # "done", NEW s \in Nat, s <= Segments, SegmentDone(s)
  PROVE  /\ Start(s) \in Nat /\ Start(s) <= number
         /\ segNums[s] \in Nat /\ segNums[s] <= Seg /\ Start(s) + segNums[s] <= number
         /\ \A p \in Slots : Start(s) <= p /\ p < Start(s) + Length(s) =>
                               (slot[p] # Empty <=> p < Start(s) + segNums[s])
<1>1. number \in Nat /\ number = before.number
  BY Before
<1>2. Start(s) \in Nat /\ Start(s) <= number
  BY <1>1, Starts, SegmentsOf DEF Segments
<1>3. Length(s) \in Nat /\ Length(s) <= Seg /\ Start(s) + Length(s) <= number
  BY <1>1, <1>2, Lengths
<1>4. /\ segNums[s] \in Nat /\ segNums[s] <= Length(s)
      /\ \A k \in 0 .. Length(s) - 1 : Was(s, k) # Empty <=>
                                         Goal(s, k) < Start(s) + segNums[s]
  BY <1>1, <1>2, ParticlesFirst DEF SegmentDone
<1>5. segNums[s] <= Seg /\ Start(s) + segNums[s] <= number
  BY <1>1, <1>2, <1>3, <1>4, Positive
<1>6. ASSUME NEW p \in Slots, Start(s) <= p, p < Start(s) + Length(s)
      PROVE  slot[p] # Empty <=> p < Start(s) + segNums[s]
  <2>1. p \in Nat
    BY Positive DEF Slots
  <2>2. PICK k \in 0 .. Length(s) - 1 : Goal(s, k) = p
    BY <1>1, <1>2, <1>6, <2>1, GoalOnto
  <2>3. slot[p] = Was(s, k)
    BY <2>2 DEF SegmentDone
  <2> QED BY <1>4, <2>2, <2>3
<1> QED BY <1>2, <1>4, <1>5, <1>6

LEMMA StartDefragKeeps ==
  ASSUME IInv, StartDefrag
  PROVE  IInv'
<1> USE DEF IInv
<1>1. /\ pc = "index" /\ pc' = "defrag" /\ m' = 0 /\ last' = Segments
      /\ UNCHANGED <<slot, number, before, n, index, segNums, i, j, hand>>
  BY DEF StartDefrag, Segments
<1>2. number \in Nat /\ number = before.number /\ number <= Size
  BY <1>1, Before
<1>3. LastSegment \in Nat /\ Segments \in Nat /\ Segments <= LastSegment /\ n \in Nat
  <2>1. LastSegment \in Nat
    BY Positive, Division DEF LastSegment
  <2>2. Segments \in Nat /\ Start(Segments) <= number
    BY <1>2, Division DEF Segments
  <2>3. Start(Segments) <= Size
    <3>1. Start(Segments) \in Nat
      BY <2>2, Starts
    <3> QED BY <1>2, <2>2, <3>1, Positive
  <2>4. Segments <= LastSegment
    BY <2>2, <2>3, SegmentsOf, Positive DEF LastSegment
  <2> QED BY <2>1, <2>2, <2>4 DEF TypeOK
<1>4. n = Segments + 1
  <2>1. n > Segments
    BY DEF StartDefrag, Segments
  <2>2. n <= Segments + 1
    BY <1>1 DEF SegmentsInv
  <2> QED BY <1>3, <2>1, <2>2
<1>5. TypeOK' /\ BeforeInv' /\ SegmentsInv' /\ CyclesInv' /\ DoneInv'
  <2>1. m' \in 0 .. LastSegment + 1 /\ last' \in 0 .. LastSegment
    BY <1>1, <1>3
  <2>2. TypeOK'
    BY <1>1, <2>1 DEF TypeOK
  <2> QED BY <1>1, <2>2 DEF BeforeInv, SegmentsInv, CyclesInv, Sorting, DoneInv
<1>6. PermInv'
  <2>1. InPlay' = InPlay
    BY <1>1 DEF InPlay
  <2> QED BY <1>1, <2>1, LeftAlone
<1>7. HolesInv'
  <2>1. /\ \A s \in 0 .. LastSegment : s < n => SegmentDone(s)
        /\ \A p \in Slots : p >= number => slot[p] = before.slot[p]
    BY <1>1 DEF SegmentsInv
  <2>2. \A p \in Slots : p >= number => slot[p] = Empty
    <3>1. \A p \in Slots : p >= number => ~(p < before.number)
      BY <1>2, Positive DEF Slots
    <3> QED BY <2>1, <3>1 DEF BeforeInv
  <2>3. ASSUME NEW s \in 0 .. LastSegment, s <= Segments
        PROVE  /\ Start(s) + segNums[s] <= number
               /\ \A p \in Slots : Start(s) <= p /\ p < Start(s) + Seg =>
                                     (slot[p] # Empty <=> p < Start(s) + segNums[s])
    <3>1. s \in Nat /\ SegmentDone(s)
      <4>1. s \in Nat /\ s < n
        BY <1>3, <1>4, <2>3
      <4> QED BY <2>1, <4>1
    <3>2. /\ Start(s) \in Nat /\ Start(s) <= number
          /\ segNums[s] \in Nat /\ Start(s) + segNums[s] <= number
          /\ \A p \in Slots : Start(s) <= p /\ p < Start(s) + Length(s) =>
                                (slot[p] # Empty <=> p < Start(s) + segNums[s])
      BY <1>1, <2>3, <3>1, SortedSegment
    <3>3. Length(s) \in Nat /\ (Length(s) = Seg \/ Start(s) + Length(s) = number)
      BY <1>2, <3>1, <3>2, Lengths
    <3>4. ASSUME NEW p \in Slots, p < Start(s) + Seg, ~(p < Start(s) + Length(s))
          PROVE  p >= number /\ ~(p < Start(s) + segNums[s])
      BY <1>2, <3>2, <3>3, <3>4, Positive DEF Slots
    <3> QED BY <2>2, <3>2, <3>4
  <2>4. \A s \in 0 .. LastSegment : ~(s < 0)
    OBVIOUS
  <2>5. \A s \in 0 .. LastSegment : s <= Segments => ~(s > Segments)
    BY <1>3
  <2>6. Segments' = Segments /\ 0 <= Segments /\ Segments <= Segments
    BY <1>1, <1>3 DEF Segments
  <2> QED BY <1>1, <2>2, <2>3, <2>4, <2>5, <2>6 DEF HolesInv, Start, LastSegment
<1> QED BY <1>5, <1>6, <1>7

LEMMA SkipKeeps ==
  ASSUME IInv, SkipFullSegment
  PROVE  IInv'
<1> USE DEF IInv
<1>1. /\ pc = "defrag" /\ m < last /\ SegmentFull /\ m' = m + 1
      /\ UNCHANGED <<slot, number, before, pc, n, index, segNums, i, j, hand, last>>
  BY DEF SkipFullSegment
<1>2. LastSegment \in Nat /\ m \in Nat /\ last \in 0 .. LastSegment /\ m + 1 <= last
  <2>1. LastSegment \in Nat
    BY Positive, Division DEF LastSegment
  <2>2. m \in Nat /\ last \in 0 .. LastSegment
    BY <2>1 DEF TypeOK
  <2> QED BY <1>1, <2>1, <2>2
<1>3. segNums[m] = Seg
  <2>1. m \in 0 .. LastSegment
    BY <1>1, <1>2
  <2>2. segNums[m] \in 0 .. Seg
    BY <2>1 DEF TypeOK
  <2> QED BY <1>1, <2>2, Positive DEF SegmentFull
<1>4. TypeOK' /\ BeforeInv' /\ SegmentsInv' /\ CyclesInv' /\ DoneInv'
  <2>1. m' \in 0 .. LastSegment + 1
    BY <1>1, <1>2
  <2>2. TypeOK'
    BY <1>1, <2>1 DEF TypeOK
  <2> QED BY <1>1, <2>2 DEF BeforeInv, SegmentsInv, CyclesInv, Sorting, DoneInv
<1>5. PermInv'
  <2>1. InPlay' = InPlay
    BY <1>1 DEF InPlay
  <2> QED BY <1>1, <2>1, LeftAlone
<1>6. HolesInv'
  <2>1. \A s \in 0 .. LastSegment : s <= Segments /\ s < m + 1 => segNums[s] = Seg
    <3>1. \A s \in 0 .. LastSegment : s < m + 1 => s < m \/ s = m
      BY <1>2
    <3> QED BY <1>1, <1>3, <3>1 DEF HolesInv
  <2> QED BY <1>1, <1>2, <2>1 DEF HolesInv, Start, Segments, LastSegment
<1> QED BY <1>4, <1>5, <1>6

\* Which slots are exchanged: the first ones that are empty in the segment that is being
\* filled, and the last ones that are not in the segment it is filled from.
LEMMA CopiedSlots ==
  ASSUME IInv, pc = "defrag", m < last, ~SegmentFull
  PROVE  /\ m \in Nat /\ last \in Nat /\ m \in 0 .. LastSegment /\ last \in 0 .. LastSegment
         /\ LastSegment \in Nat /\ last <= Segments
         /\ Start(m) \in Nat /\ Start(last) \in Nat /\ number \in Nat
         /\ Start(m) + Seg <= Start(last)
         /\ Start(last) + segNums[last] <= number /\ number <= Size
         /\ segNums[m] \in Nat /\ segNums[last] \in Nat /\ segNums[last] <= Seg
         /\ ToCopy \in Nat /\ segNums[m] + ToCopy <= Seg /\ ToCopy <= segNums[last]
         /\ segNums \in [0 .. LastSegment -> 0 .. Seg]
<1> USE DEF IInv
<1>1. LastSegment \in Nat
  BY Positive, Division DEF LastSegment
<1>2. /\ m \in Nat /\ last \in Nat /\ m \in 0 .. LastSegment /\ last \in 0 .. LastSegment
  <2>1. m \in 0 .. LastSegment + 1 /\ last \in 0 .. LastSegment
    BY DEF TypeOK
  <2> QED BY <1>1, <2>1
<1>3. segNums \in [0 .. LastSegment -> 0 .. Seg]
  BY DEF TypeOK
<1>4. /\ segNums[m] \in Nat /\ segNums[m] <= Seg
      /\ segNums[last] \in Nat /\ segNums[last] <= Seg
  BY <1>2, <1>3, Positive
<1>5. segNums[m] < Seg
  BY <1>4, Positive DEF SegmentFull
<1>6. ToCopy \in Nat /\ segNums[m] + ToCopy <= Seg /\ ToCopy <= segNums[last]
  BY <1>4, <1>5, Positive DEF ToCopy
<1>7. Start(m) \in Nat /\ Start(last) \in Nat /\ Start(m) + Seg <= Start(last)
  BY <1>2, Starts
<1>8. number \in Nat /\ number <= Size
  BY Before
<1>9. last <= Segments /\ Start(last) + segNums[last] <= number
  BY <1>2 DEF HolesInv
<1> QED BY <1>1, <1>2, <1>3, <1>4, <1>6, <1>7, <1>8, <1>9

LEMMA FillHolesKeeps ==
  ASSUME IInv, FillHoles
  PROVE  IInv'
<1> USE DEF IInv
<1> DEFINE from == Start(last) + segNums[last] - ToCopy
           to == Start(m) + segNums[m]
           InFrom(p) == from <= p /\ p < from + ToCopy
           InTo(p) == to <= p /\ p < to + ToCopy
<1>1. /\ pc = "defrag" /\ m < last /\ ~SegmentFull
      /\ UNCHANGED <<number, before, pc, n, index, i, j, hand, m>>
  BY DEF FillHoles
<1>2. /\ m \in Nat /\ last \in Nat /\ m \in 0 .. LastSegment /\ last \in 0 .. LastSegment
      /\ LastSegment \in Nat /\ last <= Segments
      /\ Start(m) \in Nat /\ Start(last) \in Nat /\ number \in Nat
      /\ Start(m) + Seg <= Start(last)
      /\ Start(last) + segNums[last] <= number /\ number <= Size
      /\ segNums[m] \in Nat /\ segNums[last] \in Nat /\ segNums[last] <= Seg
      /\ ToCopy \in Nat /\ segNums[m] + ToCopy <= Seg /\ ToCopy <= segNums[last]
      /\ segNums \in [0 .. LastSegment -> 0 .. Seg]
  BY <1>1, CopiedSlots
<1>n. /\ Start(m) \in Nat /\ Start(last) \in Nat /\ number \in Nat /\ Seg \in Nat
      /\ Start(m) + Seg <= Start(last) /\ Size \in Nat
      /\ Start(last) + segNums[last] <= number /\ number <= Size
      /\ segNums[m] \in Nat /\ segNums[last] \in Nat /\ segNums[last] <= Seg
      /\ ToCopy \in Nat /\ segNums[m] + ToCopy <= Seg /\ ToCopy <= segNums[last]
  BY <1>2, Positive
<1>3. /\ from \in Nat /\ to \in Nat /\ to + ToCopy <= from /\ from + ToCopy <= Size
      /\ Start(last) <= from /\ from + ToCopy = Start(last) + segNums[last]
      /\ to + ToCopy <= Start(m) + Seg /\ Start(m) <= to
  BY <1>n
<1>4. /\ segNums' = [segNums EXCEPT ![m] = @ + ToCopy, ![last] = @ - ToCopy]
      /\ last' = IF segNums[last] = ToCopy THEN last - 1 ELSE last
  BY DEF FillHoles
<1> HIDE DEF from, to
<1>5. slot' = [p \in Slots |-> IF InTo(p) THEN slot[p - to + from]
                               ELSE IF InFrom(p) THEN Empty ELSE slot[p]]
  <2>1. slot' = [p \in Slots |->
                    IF p \in to .. to + ToCopy - 1 THEN slot[p - to + from]
                    ELSE IF p \in from .. from + ToCopy - 1 THEN Empty ELSE slot[p]]
    BY DEF FillHoles, from, to, Start
  <2>2. \A p \in Slots : /\ p \in to .. to + ToCopy - 1 <=> InTo(p)
                         /\ p \in from .. from + ToCopy - 1 <=> InFrom(p)
    BY SMTT(30), <1>2, <1>3, Positive DEF Slots
  <2> QED BY <2>1, <2>2
<1>6. /\ \A p \in Slots : p \in Nat
      /\ \A p \in Slots : InTo(p) => p - to + from \in Slots /\ InFrom(p - to + from)
      /\ \A p \in Slots : InFrom(p) => p - from + to \in Slots /\ InTo(p - from + to)
      /\ \A p \in Slots : ~(InTo(p) /\ InFrom(p))
  BY SMTT(30), <1>2, <1>3, Positive DEF Slots
<1>7. /\ \A p \in Slots : InTo(p) => slot[p] = Empty
      /\ \A p \in Slots : InFrom(p) => slot[p] # Empty
  <2>1. \A s \in {m, last} : \A p \in Slots :
          Start(s) <= p /\ p < Start(s) + Seg =>
            (slot[p] # Empty <=> p < Start(s) + segNums[s])
    <3>1. Segments \in Nat
      BY <1>2, Division DEF Segments
    <3>2. m <= Segments /\ last <= Segments
      BY <1>1, <1>2, <3>1
    <3> QED BY <1>1, <1>2, <3>2 DEF HolesInv
  <2>2. \A p \in Slots : InTo(p) => /\ Start(m) <= p /\ p < Start(m) + Seg
                                    /\ ~(p < Start(m) + segNums[m])
    BY <1>n, <1>3, <1>6 DEF to
  <2>3. \A p \in Slots : InFrom(p) => /\ Start(last) <= p /\ p < Start(last) + Seg
                                      /\ p < Start(last) + segNums[last]
    BY <1>n, <1>3, <1>6
  <2> QED BY <2>1, <2>2, <2>3
<1>8. slot \in [Slots -> Particle \cup {Empty}]
  BY DEF TypeOK, Array
<1>9. TypeOK'
  <2>1. slot' \in Array
    BY <1>5, <1>6, <1>8 DEF Array
  <2>2. segNums' \in [0 .. LastSegment -> 0 .. Seg]
    <3>1. segNums[m] + ToCopy \in 0 .. Seg /\ segNums[last] - ToCopy \in 0 .. Seg
      BY SMTT(30), <1>2, Positive
    <3>2. m # last
      BY <1>1, <1>2
    <3> QED BY <1>2, <1>4, <3>1, <3>2
  <2>3. last' \in 0 .. LastSegment
    BY <1>1, <1>2, <1>4
  <2> QED BY <1>1, <2>1, <2>2, <2>3 DEF TypeOK
<1>10. BeforeInv' /\ SegmentsInv' /\ CyclesInv' /\ DoneInv'
  BY <1>1 DEF BeforeInv, SegmentsInv, CyclesInv, Sorting, DoneInv
<1>11. PermInv'
  <2> DEFINE g == [p \in Slots |-> IF InTo(p) THEN p - to + from
                                  ELSE IF InFrom(p) THEN p - from + to ELSE p]
  <2>1. g \in [Slots -> Slots]
    BY <1>6
  <2>2. \A p \in Slots : g[g[p]] = p
    <3>2. \A p \in Slots : /\ InTo(p) => g[p] = p - to + from
                           /\ InFrom(p) => g[p] = p - from + to
                           /\ ~InTo(p) /\ ~InFrom(p) => g[p] = p
      BY <1>6
    <3> HIDE DEF g, InTo, InFrom
    <3> SUFFICES ASSUME NEW p \in Slots PROVE g[g[p]] = p
      OBVIOUS
    <3>3. CASE InTo(p)
      <4>1. PICK q \in Slots : q = p - to + from /\ InFrom(q)
        BY <1>6, <3>3
      <4>2. g[p] = q /\ g[q] = q - from + to
        BY <3>2, <3>3, <4>1
      <4>3. q - from + to = p
        BY <1>3, <1>6, <4>1
      <4> QED BY <4>2, <4>3
    <3>4. CASE InFrom(p)
      <4>1. PICK q \in Slots : q = p - from + to /\ InTo(q)
        BY <1>6, <3>4
      <4>2. g[p] = q /\ g[q] = q - to + from
        BY <3>2, <3>4, <4>1
      <4>3. q - to + from = p
        BY <1>3, <1>6, <4>1
      <4> QED BY <4>2, <4>3
    <3> QED BY <3>2, <3>3, <3>4
  <2>3. \A p, q \in Slots : g[p] = g[q] => p = q
    <3> HIDE DEF g
    <3> QED BY <2>2
  <2>4. InPlay = slot /\ InPlay' = slot'
    BY <1>1 DEF InPlay
  <2>5. \A p \in Slots : slot'[p] = slot[g[p]]
    BY <1>5, <1>6, <1>7
  <2>6. slot' = [p \in Slots |-> slot[g[p]]]
    BY <1>5, <2>5
  <2> HIDE DEF g
  <2> QED BY <1>1, <2>1, <2>3, <2>4, <2>6, Rearranged
<1>12. HolesInv'
  <2>1. /\ m # last
        /\ segNums'[m] = segNums[m] + ToCopy /\ segNums'[last] = segNums[last] - ToCopy
        /\ \A s \in 0 .. LastSegment : s # m /\ s # last => segNums'[s] = segNums[s]
    BY <1>1, <1>2, <1>4
  <2>2. m' <= last' /\ last' <= Segments' /\ last' \in Nat /\ last' <= last
    <3>1. Segments' = Segments /\ Segments \in Nat
      BY <1>1, <1>2, Division DEF Segments
    <3> QED BY <1>1, <1>2, <1>4, <3>1
  <2>3. \A s \in 0 .. LastSegment : s <= Segments /\ s < m => segNums'[s] = Seg
    <3>1. \A s \in 0 .. LastSegment : s < m => s # m /\ s # last
      BY <1>1, <1>2
    <3> QED BY <1>1, <2>1, <3>1 DEF HolesInv
  <2>4. \A s \in 0 .. LastSegment : s <= Segments /\ s > last' => segNums'[s] = 0
    <3>1. \A s \in 0 .. LastSegment : s > last => s # m /\ s # last
      BY <1>1, <1>2
    <3>2. \A s \in 0 .. LastSegment : s > last' => s > last \/ (s = last /\ last' # last)
      BY <1>2, <1>4
    <3>3. last' # last => segNums'[last] = 0
      BY <1>2, <1>4, <2>1
    <3> QED BY <1>1, <2>1, <3>1, <3>2, <3>3 DEF HolesInv
  <2>5. \A s \in 0 .. LastSegment : s <= Segments => Start(s) + segNums'[s] <= number
    <3>1. Start(m) + segNums'[m] <= number /\ Start(last) + segNums'[last] <= number
      BY <1>2, <2>1, Positive
    <3>2. \A s \in 0 .. LastSegment : s <= Segments => Start(s) + segNums[s] <= number
      BY <1>1 DEF HolesInv
    <3> QED BY <2>1, <3>1, <3>2
  <2>6. ASSUME NEW s \in 0 .. LastSegment, s <= Segments, NEW p \in Slots,
               Start(s) <= p, p < Start(s) + Seg
        PROVE  slot'[p] # Empty <=> p < Start(s) + segNums'[s]
    <3>1. /\ slot[p] # Empty <=> p < Start(s) + segNums[s]
          /\ p \in Nat /\ s \in Nat /\ Seg \in Nat
      BY <1>1, <1>2, <1>6, <2>6, Positive DEF HolesInv
    <3>2. CASE s = m
      <4>1. ~InFrom(p)
        BY SMTT(30), <1>2, <1>3, <2>6, <3>1, <3>2
      <4>2. CASE InTo(p)
        <5>1. slot'[p] # Empty
          BY <1>5, <1>6, <1>7, <4>2
        <5>2. p < Start(m) + segNums'[m]
          BY <1>n, <1>3, <2>1, <3>1, <4>2 DEF to
        <5> QED BY <3>2, <5>1, <5>2
      <4>3. CASE ~InTo(p)
        <5>1. slot'[p] = slot[p]
          BY <1>5, <4>1, <4>3
        <5>2. p < Start(m) + segNums'[m] <=> p < Start(m) + segNums[m]
          <6>1. segNums'[m] = segNums[m] + ToCopy /\ p \in Nat
            BY <2>1, <3>1
          <6>2. ~(to <= p /\ p < to + ToCopy)
            BY <4>3
          <6> QED BY <1>n, <6>1, <6>2 DEF to
        <5> QED BY <3>1, <3>2, <5>1, <5>2
      <4> QED BY <4>2, <4>3
    <3>3. CASE s = last
      <4>1. ~InTo(p)
        BY SMTT(30), <1>2, <1>3, <2>6, <3>1, <3>3
      <4>2. CASE InFrom(p)
        <5>1. slot'[p] = Empty
          BY <1>5, <4>1, <4>2
        <5>2. ~(p < Start(last) + segNums'[last])
          BY SMTT(30), <1>2, <2>1, <3>1, <4>2 DEF from
        <5> QED BY <3>3, <5>1, <5>2
      <4>3. CASE ~InFrom(p)
        <5>1. slot'[p] = slot[p]
          BY <1>5, <4>1, <4>3
        <5>2. p < Start(last) + segNums'[last] <=> p < Start(last) + segNums[last]
          BY SMTT(30), <1>2, <2>1, <3>1, <4>3 DEF from
        <5> QED BY <3>1, <3>3, <5>1, <5>2
      <4> QED BY <4>2, <4>3
    <3>4. CASE s # m /\ s # last
      <4>1. /\ ~InTo(p) /\ ~InFrom(p)
        <5>1. /\ Start(s) \in Nat
              /\ s < m => Start(s) + Seg <= Start(m)
              /\ m < s => Start(m) + Seg <= Start(s)
              /\ s < last => Start(s) + Seg <= Start(last)
              /\ last < s => Start(last) + Seg <= Start(s)
          BY <1>2, <3>1, Starts
        <5>2. ~InTo(p)
          <6>1. s < m \/ m < s
            BY <1>2, <3>1, <3>4
          <6>2. to \in Nat /\ Start(m) <= to /\ to + ToCopy <= Start(m) + Seg
            BY <1>3
          <6>3. Start(s) + Seg <= Start(m) \/ Start(m) + Seg <= Start(s)
            BY <5>1, <6>1
          <6> QED BY <1>n, <2>6, <3>1, <5>1, <6>2, <6>3
        <5>3. ~InFrom(p)
          <6>1. s < last \/ last < s
            BY <1>2, <3>1, <3>4
          <6>2. from \in Nat /\ Start(last) <= from /\ from + ToCopy <= Start(last) + Seg
            BY <1>n, <1>3
          <6>3. Start(s) + Seg <= Start(last) \/ Start(last) + Seg <= Start(s)
            BY <5>1, <6>1
          <6> QED BY <1>n, <2>6, <3>1, <5>1, <6>2, <6>3
        <5> QED BY <5>2, <5>3
      <4>2. slot'[p] = slot[p]
        BY <1>5, <4>1
      <4> QED BY <2>1, <3>1, <3>4, <4>2
    <3> QED BY <3>2, <3>3, <3>4
  <2>7. Segments' = Segments
    BY <1>1 DEF Segments
  <2>8. \A p \in Slots : p >= number => slot'[p] = Empty
    <3>1. \A p \in Slots : p >= number => ~InTo(p) /\ ~InFrom(p)
      BY <1>n, <1>3, <1>6
    <3>2. \A p \in Slots : p >= number => slot[p] = Empty
      BY <1>1 DEF HolesInv
    <3> QED BY <1>5, <3>1, <3>2
  <2> QED BY <1>1, <2>2, <2>3, <2>4, <2>5, <2>6, <2>7, <2>8 DEF HolesInv, Start, LastSegment
<1> QED BY <1>9, <1>10, <1>11, <1>12

\* The loop is over: the particles are in front, without a gap.
LEMMA FinishKeeps ==
  ASSUME IInv, Finish
  PROVE  /\ IInv' /\ number' <= number
<1> USE DEF IInv
<1>1. /\ pc = "defrag" /\ pc' = "done" /\ m >= last /\ number' = SetNum(last * Seg + segNums[last])
      /\ UNCHANGED <<slot, before, n, index, segNums, i, j, hand, m, last>>
  BY DEF Finish
<1>2. LastSegment \in Nat /\ last \in 0 .. LastSegment /\ last \in Nat /\ m = last
  <2>1. LastSegment \in Nat
    BY Positive, Division DEF LastSegment
  <2>2. m \in 0 .. LastSegment + 1 /\ last \in 0 .. LastSegment /\ m <= last
    BY <1>1 DEF TypeOK, HolesInv
  <2> QED BY <1>1, <2>1, <2>2
<1>3. number \in Nat /\ number <= Size /\ Seg \in Nat /\ Size \in Nat
  BY <1>1, Before, Positive
<1>4. /\ segNums[last] \in Nat /\ segNums[last] <= Seg
  <2>1. segNums[last] \in 0 .. Seg
    BY <1>2 DEF TypeOK
  <2> QED BY <1>3, <2>1
<1>5. Start(last) \in Nat /\ Start(last) + segNums[last] <= number
  BY <1>1, <1>2, Starts DEF HolesInv
<1>6. number' = Start(last) + segNums[last]
  <2>1. number' = SetNum(Start(last) + segNums[last])
    BY <1>1 DEF Start
  <2> QED BY <1>3, <1>4, <1>5, <2>1 DEF SetNum
<1>7. number' \in 0 .. Size /\ number' <= number
  BY <1>3, <1>4, <1>5, <1>6
<1>8. TypeOK' /\ BeforeInv' /\ SegmentsInv' /\ CyclesInv' /\ HolesInv'
  BY <1>1, <1>7 DEF TypeOK, BeforeInv, SegmentsInv, CyclesInv, Sorting, HolesInv
<1>9. PermInv'
  <2>1. InPlay' = InPlay
    BY <1>1 DEF InPlay
  <2> QED BY <1>1, <2>1, LeftAlone
<1>10. ASSUME NEW p \in Slots PROVE slot[p] # Empty <=> p < Start(last) + segNums[last]
  <2>1. p \in Nat /\ p < Size
    BY <1>3 DEF Slots
  <2>2. PICK s \in Nat : Start(s) <= p /\ p < Start(s) + Seg
    BY <2>1, Division
  <2>3. Start(s) \in Nat /\ s \in 0 .. LastSegment
    <3>1. Start(s) \in Nat
      BY <2>2, Starts
    <3>2. Start(s) <= Size
      BY <1>3, <2>1, <2>2, <3>1
    <3>3. s <= LastSegment
      BY <1>3, <3>2, SegmentsOf DEF LastSegment
    <3> QED BY <1>2, <3>1, <3>3
  <2>3a. CASE ~(s <= Segments)
    <3>1. ~(Start(s) <= number)
      BY <1>3, <2>2, <2>3a, SegmentsOf DEF Segments
    <3>2. p >= number /\ ~(p < Start(last) + segNums[last])
      BY <1>3, <1>4, <1>5, <2>1, <2>2, <2>3, <3>1
    <3> QED BY <1>1, <3>2 DEF HolesInv
  <2>4. ASSUME s <= Segments
        PROVE  /\ slot[p] # Empty <=> p < Start(s) + segNums[s]
               /\ s < last => segNums[s] = Seg
               /\ s > last => segNums[s] = 0
    BY <1>1, <1>2, <2>2, <2>3, <2>4 DEF HolesInv
  <2>5. CASE s <= Segments /\ s < last
    <3>1. Start(s) + Seg <= Start(last)
      BY <1>2, <2>5, Starts
    <3> QED BY <1>3, <1>4, <1>5, <2>1, <2>2, <2>3, <2>4, <2>5, <3>1
  <2>6. CASE s <= Segments /\ s = last
    BY <2>4, <2>6
  <2>7. CASE s <= Segments /\ s > last
    <3>1. Start(last) + Seg <= Start(s)
      BY <1>2, <2>7, Starts
    <3> QED BY <1>3, <1>4, <1>5, <2>1, <2>2, <2>3, <2>4, <2>7, <3>1
  <2> QED BY <1>2, <2>3a, <2>5, <2>6, <2>7
<1>11. DoneInv'
  BY <1>1, <1>6, <1>10 DEF DoneInv
<1> QED BY <1>7, <1>8, <1>9, <1>11

LEMMA StutterKeeps == IInv /\ UNCHANGED vars => IInv'
<1> SUFFICES ASSUME IInv, UNCHANGED vars PROVE IInv'
  OBVIOUS
<1> USE DEF IInv
<1>1. /\ UNCHANGED <<slot, number, before, pc, n, index, segNums, i, j, hand, m, last>>
      /\ Offset' = Offset /\ Length(n)' = Length(n) /\ Particles(n)' = Particles(n)
      /\ \A k : Target(k)' = Target(k) /\ Was(n, k)' = Was(n, k)
      /\ \A s : SegmentDone(s) => SegmentDone(s)'
  BY SameCall DEF vars, SegmentDone
<1>2. TypeOK' /\ BeforeInv' /\ HolesInv' /\ DoneInv'
  BY <1>1 DEF TypeOK, BeforeInv, HolesInv, DoneInv, Start, Segments
<1>3. PermInv'
  <2>1. InPlay' = InPlay
    BY <1>1 DEF InPlay
  <2> QED BY <1>1, <2>1, LeftAlone
<1>4. SegmentsInv'
  BY <1>1 DEF SegmentsInv, Sorting, Segments
<1>5. CyclesInv'
  BY <1>1 DEF CyclesInv, Sorting, Waiting, Pending
<1> QED BY <1>2, <1>3, <1>4, <1>5

LEMMA Inductive == IInv /\ [Next]_vars => IInv'
BY IndexKeeps, StartCycleKeeps, SwapKeeps, CloseCycleKeeps, NextSegmentKeeps,
   StartDefragKeeps, SkipKeeps, FillHolesKeeps, FinishKeeps, StutterKeeps DEF Next

LEMMA Invariant == Spec => []IInv
BY InitKeeps, Inductive, PTL DEF Spec

--------------------------------------------------------------------------------
\* Every variable stays in its range: the index, the number of particles of a segment
\* and the slot a cycle has come to never leave the arrays of the code.
THEOREM TypeCorrect == Spec => []TypeOK
<1>1. IInv => TypeOK
  BY DEF IInv
<1> QED BY Invariant, <1>1, PTL

LEMMA PermutationKeepsAll == IInv => NoneLost
<1> SUFFICES ASSUME IInv PROVE NoneLost
  OBVIOUS
<1> DEFINE S == Live(InPlay)
           T == Live(before.slot)
<1>1. PICK f \in [Slots -> Slots] : /\ \A p, q \in Slots : f[p] = f[q] => p = q
                                    /\ InPlay = [p \in Slots |-> before.slot[f[p]]]
  BY DEF IInv, PermInv
<1>2. \A k \in Slots : \E p \in Slots : f[p] = k
  BY <1>1, Positive, EverySlotHit DEF Slots
<1>3. /\ \A p \in Slots : p \in S <=> f[p] \in T
      /\ \A p \in S : InPlay[p] = before.slot[f[p]]
      /\ S \subseteq Slots /\ T \subseteq Slots
  BY <1>1 DEF Live
<1>4. {InPlay[k] : k \in S} = {before.slot[k] : k \in T}
  <2>1. \A k \in S : \E l \in T : InPlay[k] = before.slot[l]
    BY <1>1, <1>3
  <2>2. \A l \in T : \E k \in S : InPlay[k] = before.slot[l]
    BY <1>1, <1>2, <1>3
  <2> HIDE DEF S, T
  <2> QED BY <2>1, <2>2
<1>5. Cardinality(S) = Cardinality(T)
  <2> DEFINE g == [p \in S |-> f[p]]
  <2>1. IsFiniteSet(S)
    BY <1>3, Positive, SetsOfSlots DEF Slots
  <2>2. g \in Bijection(S, T)
    <3>1. g \in [S -> T] /\ \A p, q \in S : g[p] = g[q] => p = q
      BY <1>1, <1>3
    <3>2. \A l \in T : \E p \in S : g[p] = l
      BY <1>2, <1>3
    <3> HIDE DEF g, S, T
    <3> QED BY <3>1, <3>2 DEF Bijection, Injection, Surjection, IsInjective
  <2> QED BY <2>1, <2>2, FS_Bijection DEF ExistsBijection
<1> QED BY <1>4, <1>5 DEF NoneLost

\* While ptc_rearrange_arrays exchanges slots in place and while the holes are filled,
\* the slots and the particle in hand together always hold every particle once.
THEOREM NothingLost == Spec => []NoneLost
BY Invariant, PermutationKeepsAll, PTL

LEMMA SegmentIsSorted ==
  ASSUME TypeOK, BeforeInv, pc # "done", NEW s \in Nat, s <= Segments, SegmentDone(s)
  PROVE  SegmentSorted(s)
<1> DEFINE here == {p \in Slots : p \div Seg = s /\ p < number}
<1>1. /\ number \in Nat /\ number = before.number /\ Seg \in Nat
      /\ Start(s) \in Nat /\ Start(s) <= before.number
  BY Before, Positive, SortedSegment
<1>2. /\ Length(s) \in Nat /\ (Length(s) = Seg \/ Start(s) + Length(s) = number)
  BY <1>1, Lengths
<1>3. ASSUME NEW p \in here
      PROVE  /\ p \in Slots /\ p \in Nat /\ Start(s) <= p /\ p < Start(s) + Length(s)
             /\ \E k \in 0 .. Length(s) - 1 : Goal(s, k) = p /\ slot[p] = Was(s, k)
  <2>1. p \in Slots /\ p \in Nat /\ p < number /\ p \div Seg = s
    BY Positive DEF Slots
  <2>2. Start(s) <= p /\ p < Start(s) + Seg
    BY <2>1, SegmentOf
  <2>3. p < Start(s) + Length(s)
    BY <1>1, <1>2, <2>1, <2>2
  <2>4. PICK k \in 0 .. Length(s) - 1 : Goal(s, k) = p
    BY <1>1, <2>1, <2>2, <2>3, GoalOnto
  <2>5. slot[p] = Was(s, k)
    BY <2>4 DEF SegmentDone
  <2> QED BY <2>1, <2>2, <2>3, <2>4, <2>5
<1> HIDE DEF here
<1>4. \A p \in here : slot[p] # Empty <=> p < Start(s) + segNums[s]
  BY <1>3, SortedSegment
<1>5. ASSUME NEW p \in here, NEW q \in here, p < q
      PROVE  \/ Key(slot[p]) < Key(slot[q])
             \/ /\ Key(slot[p]) = Key(slot[q])
                /\ slot[p] # Empty => slot[p].tag < slot[q].tag
  <2>1. PICK k \in 0 .. Length(s) - 1 : Goal(s, k) = p /\ slot[p] = Was(s, k)
    BY <1>3
  <2>2. PICK l \in 0 .. Length(s) - 1 : Goal(s, l) = q /\ slot[q] = Was(s, l)
    BY <1>3
  <2>3. Precedes(s, k, l)
    <3>1. ~Precedes(s, l, k) /\ k # l
      <4>1. Goal(s, k) < Goal(s, l) /\ Goal(s, k) \in Nat /\ Goal(s, l) \in Nat
        BY <1>3, <1>5, <2>1, <2>2
      <4>2. ~(Goal(s, l) < Goal(s, k))
        BY <4>1
      <4> QED BY <1>1, <4>1, <4>2, GoalOrder
    <3>2. Key(Was(s, k)) \in Int /\ Key(Was(s, l)) \in Int
      BY <1>1, Keys
    <3> QED BY <1>2, <3>1, <3>2 DEF Precedes
  <2>4. CASE Key(Was(s, k)) < Key(Was(s, l))
    BY <2>1, <2>2, <2>4
  <2>5. CASE Key(Was(s, k)) = Key(Was(s, l)) /\ k < l
    <3>1. ASSUME Was(s, k) # Empty
          PROVE  /\ Was(s, k).tag = Start(s) + k /\ Was(s, l).tag = Start(s) + l
                 /\ Start(s) + k < Start(s) + l
      <4>1. Was(s, l) # Empty /\ Start(s) + k \in Slots /\ Start(s) + l \in Slots
        BY <1>1, <2>5, <3>1, Keys
      <4>2. Was(s, k).tag = Start(s) + k /\ Was(s, l).tag = Start(s) + l
        BY <3>1, <4>1 DEF BeforeInv, Was
      <4>3. Start(s) + k < Start(s) + l
        BY <1>1, <1>2, <2>5
      <4> QED BY <4>2, <4>3
    <3> QED BY <2>1, <2>2, <2>5, <3>1
  <2> QED BY <2>3, <2>4, <2>5 DEF Precedes
<1>6. Start(s) + segNums[s] <= number
  BY SortedSegment
<1> QED BY <1>4, <1>5, <1>6 DEF SegmentSorted, Start, here

\* The counting sort and its cycles put every segment in the order of its cells, empty
\* slots last and particles of a cell as they were, and leave those before it alone.
THEOREM SortedBySegments == Spec => []SegmentsSorted
<1>1. IInv => SegmentsSorted
  <2> SUFFICES ASSUME IInv, pc \in {"index", "cycles"}, NEW s \in 0 .. LastSegment,
                      s < n \/ (s = n /\ pc = "cycles" /\ i = SortSize)
               PROVE  SegmentSorted(s)
    BY DEF SegmentsSorted
  <2> USE DEF IInv
  <2>1. n \in Nat /\ Segments \in Nat /\ s \in Nat
    <3>1. LastSegment \in Nat /\ number \in Nat
      BY Positive, Division, Before DEF LastSegment
    <3> QED BY <3>1, Division DEF TypeOK, Segments
  <2>2. SegmentDone(s) /\ s <= Segments
    <3>1. CASE s < n
      <4>1. n <= Segments + 1 /\ SegmentDone(s)
        BY <3>1 DEF SegmentsInv
      <4> QED BY <2>1, <3>1, <4>1
    <3>2. CASE s = n /\ pc = "cycles" /\ i = SortSize
      <4>1. SegmentDone(n) /\ n <= Segments
        BY <3>2, NoneWaiting DEF SegmentsInv, Sorting
      <4> QED BY <3>2, <4>1
    <3> QED BY <3>1, <3>2
  <2> QED BY <2>1, <2>2, SegmentIsSorted
<1> QED BY Invariant, <1>1, PTL

--------------------------------------------------------------------------------
\* The last step of the call is the compaction its caller sees: the particles of the
\* counted slots are in the first ones, each once, and the slots behind are empty.
LEMMA FinishIsSort ==
  ASSUME IInv, Finish
  PROVE  \E f \in Orders(before.slot, before.number, number') :
           slot' = Packed(before.slot, before.number, number', f)
<1> USE DEF IInv
<1>1. /\ IInv' /\ number' <= number /\ pc = "defrag" /\ pc' = "done"
      /\ UNCHANGED <<slot, before>>
  BY FinishKeeps DEF Finish
<1>2. /\ number = before.number /\ number \in Nat /\ number <= Size /\ Size \in Nat
      /\ number' \in Nat
  <2>1. number' \in 0 .. Size
    BY <1>1 DEF TypeOK
  <2> QED BY <1>1, <2>1, Before, Positive
<1>3. \A p \in Slots : slot[p] # Empty <=> p < number'
  BY <1>1 DEF DoneInv
<1>4. PICK f \in [Slots -> Slots] : /\ \A p, q \in Slots : f[p] = f[q] => p = q
                                    /\ slot = [p \in Slots |-> before.slot[f[p]]]
  BY <1>1 DEF PermInv, InPlay
<1>5. \A k \in Slots : \E p \in Slots : f[p] = k
  BY <1>4, Positive, EverySlotHit DEF Slots
<1>6. \A p \in Slots : f[p] \in Counted(before.slot, before.number) <=> p < number'
  <2>1. \A k \in Slots : k \in Counted(before.slot, before.number) <=>
                           before.slot[k] # Empty
    BY DEF Counted, Live, BeforeInv
  <2> QED BY <1>3, <1>4, <2>1
<1>7. \A p : p \in 0 .. number' - 1 <=> p \in Slots /\ p < number'
  <2>1. PICK c \in Nat : c = number' /\ c <= number
    BY <1>1, <1>2
  <2>2. c \in 0 .. Size
    BY <1>2, <2>1
  <2>3. \A p : p \in 0 .. c - 1 <=> p \in Slots /\ p < c
    BY <2>2, Positive DEF Slots
  <2> QED BY <2>1, <2>3
<1> DEFINE g == [p \in 0 .. number' - 1 |-> f[p]]
<1>8. g \in Orders(before.slot, before.number, number')
  <2>1. g \in [0 .. number' - 1 -> Counted(before.slot, before.number)]
    BY <1>6, <1>7
  <2>2. \A p, q \in 0 .. number' - 1 : g[p] = g[q] => p = q
    BY <1>4, <1>7
  <2>3. \A k \in Counted(before.slot, before.number) :
          \E p \in 0 .. number' - 1 : g[p] = k
    <3>1. \A k \in Counted(before.slot, before.number) : k \in Slots
      BY DEF Counted, Live
    <3> QED BY <1>5, <1>6, <1>7, <3>1
  <2> QED BY <2>1, <2>2, <2>3 DEF Orders
<1>9. slot' = Packed(before.slot, before.number, number', g)
  <2>1. \A p \in Slots : p < number' => slot[p] = before.slot[g[p]]
    BY <1>4, <1>7
  <2>2. \A p \in Slots : p >= number => before.slot[p] = Empty
    <3>1. \A p \in Slots : p >= number => ~(p < before.number)
      BY <1>2 DEF Slots
    <3> QED BY <3>1 DEF BeforeInv
  <2>3. \A p \in Slots : ~(p < number') => slot[p] = Empty
    BY <1>3
  <2>4. \A p \in Slots : p < before.number \/ p >= number
    BY <1>2 DEF Slots
  <2>5. slot' = [p \in Slots |-> slot[p]]
    BY <1>1, <1>4
  <2> HIDE DEF g
  <2>6. \A p \in Slots :
          slot[p] = IF p < number' THEN before.slot[g[p]]
                    ELSE IF p < before.number THEN Empty ELSE before.slot[p]
    BY <2>1, <2>2, <2>3, <2>4
  <2> QED BY <2>5, <2>6 DEF Packed
<1> QED BY <1>8, <1>9

\* Sorting in segments, in place and with holes to fill is the compaction that module
\* ParticlePool takes it for, and until it is over its caller sees the array unsorted.
THEOREM SortIsCompaction == Spec => ImplementsSort
<1> DEFINE S == IF pc = "done" THEN slot ELSE before.slot
           N == IF pc = "done" THEN number ELSE before.number
<1>1. ASSUME IInv, Finish PROVE Caller!SortParticles
  <2>1. /\ pc = "defrag" /\ pc' = "done" /\ UNCHANGED before /\ number' \in 0 .. before.number
        /\ before.number \in Nat
    <3>1. number' <= number /\ number' \in 0 .. Size /\ number = before.number
          /\ before.number \in Nat /\ pc = "defrag" /\ pc' = "done" /\ UNCHANGED before
      BY <1>1, FinishKeeps, Before DEF IInv, TypeOK, Finish
    <3> QED BY <3>1, Positive
  <2>2. PICK f \in Orders(before.slot, before.number, number') :
          slot' = Packed(before.slot, before.number, number', f)
    BY <1>1, FinishIsSort
  <2>3. \A s, a, b : /\ Caller!Orders(s, a, b) = Orders(s, a, b)
                    /\ \A g : Caller!Packed(s, a, b, g) = Packed(s, a, b, g)
    BY DEF Caller!Orders, Caller!Packed, Caller!Counted, Caller!Live, Caller!Slots,
           Orders, Packed, Counted, Live, Slots
  <2>4. \E b \in 0 .. before.number : \E g \in Caller!Orders(before.slot, before.number, b) :
          slot' = Caller!Packed(before.slot, before.number, b, g) /\ number' = b
    BY <2>1, <2>2, <2>3
  <2>5. Caller!Tags(before.slot)' = Caller!Tags(before.slot)
    BY <2>1 DEF Caller!Tags, Caller!Live
  <2>6. (0 + 1) % 1 = 0
    OBVIOUS
  <2> QED BY <2>1, <2>4, <2>5, <2>6 DEF Caller!SortParticles, Caller!Sorting
<1>2. ASSUME [Next]_vars, ~Finish
      PROVE  UNCHANGED <<pc = "done", S, N>>
  BY <1>2 DEF Next, vars, IndexSegment, StartCycle, Swap, CloseCycle, NextSegment, StartDefrag,
              SkipFullSegment, FillHoles
<1>3. IInv /\ [Next]_vars => [Caller!SortParticles]_<<pc = "done", S, N>>
  BY <1>1, <1>2
<1> QED BY Invariant, <1>3, PTL DEF Spec, ImplementsSort

================================================================================
