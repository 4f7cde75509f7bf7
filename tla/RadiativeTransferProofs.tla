------------------------ MODULE RadiativeTransferProofs ------------------------
(***************************************************************************)
(* Proofs about RadiativeTransfer: for arrays of any size, whichever       *)
(* iterations have a result and in whatever order they get on.  The        *)
(* inductive invariant says which part of the slots that a loop has        *)
(* claimed is filled, how much of the work is still to be done, and what   *)
(* is behind the counted slots when no loop runs.                          *)
(***************************************************************************)
EXTENDS RadiativeTransfer, CountingLemmas

Loops == {"emit", "pair", "track"}

\* The iterations of the loop that runs.
Iterations == IF stage = "emit" THEN 0 .. ptcNum - 1
              ELSE IF stage \in {"pair", "track"} THEN 0 .. phNum - 1 ELSE {}
IterInv ==
  /\ todo \subseteq Iterations /\ DOMAIN claim \subseteq Iterations
  /\ todo \cap DOMAIN claim = {}
  /\ stage \notin Loops => pos = 0 /\ tally = 0
  /\ overrun => stage \in {"emit", "pair"}

\* Claims are intervals of the slots claimed so far, one beside the other.
ClaimInv ==
  /\ pos = 0 \/ pos >= PerClaim
  /\ \A n \in DOMAIN claim :
       /\ claim[n] \in Nat /\ Base <= claim[n] /\ claim[n] + PerClaim <= Base + pos
       /\ claim[n] = Base \/ claim[n] >= Base + PerClaim
       /\ \A m \in DOMAIN claim \ {n} : \/ claim[m] + PerClaim <= claim[n]
                                        \/ claim[n] + PerClaim <= claim[m]

\* Slots behind the number that no loop is writing to are empty.
BehindInv ==
  ~overrun =>
    /\ stage # "pair" => \A i \in PtcSlot : i >= ptcNum => ptc[i] = Empty
    /\ stage # "emit" => \A i \in Photons : i < phNum

\* Those that a loop writes to are claimed and filled, or are not in use.
Filled(i) == i < Base + pos /\ \A n \in DOMAIN claim : i \notin Span(claim[n])
FilledInv ==
  ~overrun /\ stage \in {"emit", "pair"} =>
    /\ Base + pos <= Room
    /\ \A i \in Nat : i >= Base => (i \in Occupied <=> Filled(i))

\* The photons that have been a pair and are still there.
PairedPhotons == {i \in Photons : ph[i].paired}
LeftOver == {i \in PairedPhotons : i \notin todo \cup DOMAIN claim}
PairedInv ==
  /\ \A i \in PairedPhotons : ph[i].path = 0
  /\ stage = "pair" => \A n \in DOMAIN claim : ph[n].path = 0
  /\ ~overrun /\ stage = "pair" =>
       /\ \A i, j \in LeftOver : i = j
       /\ LeftOver # {} => ptcNum = 0 /\ pos > 0 /\ \A n \in DOMAIN claim : claim[n] # 0
  /\ ~overrun /\ stage # "pair" => \A i, j \in PairedPhotons : i = j

\* The entries of the list so far: the tracked photons the loop is done with.
Listed == {k \in 0 .. pos - 1 : k < MaxTracked /\ \A n \in DOMAIN claim : claim[n] # k}
ListInv ==
  stage = "track" =>
    /\ pos = Cardinality(TrackedPhotons \ todo)
    /\ DOMAIN claim \subseteq TrackedPhotons
    /\ \A k \in Listed : map[k] \in TrackedPhotons \ (todo \cup DOMAIN claim)
    /\ \A k, l \in Listed : map[k] = map[l] => k = l

TallyInv == TallyRight
GatheredInv == TrackedListed

IInv == /\ TypeOK /\ IterInv /\ ClaimInv /\ BehindInv /\ FilledInv /\ PairedInv
        /\ TallyInv /\ ListInv /\ GatheredInv

--------------------------------------------------------------------------------
LEMMA Numbers ==
  ASSUME TypeOK
  PROVE  /\ PtcSize \in Nat /\ PhSize \in Nat /\ MaxTracked \in Nat /\ MaxPath \in Nat
         /\ Base \in Nat /\ Room \in Nat /\ PerClaim \in Nat \ {0} /\ pos \in Nat
         /\ ptcNum \in Nat /\ ptcNum <= PtcSize /\ phNum \in Nat /\ phNum <= PhSize
BY SizeAssumption, PhotonAssumption, TrackedAssumption DEF TypeOK, Base, Room, PerClaim

\* Iterations are of a particle or of a photon that is counted.
LEMMA IterationsAre ==
  ASSUME TypeOK
  PROVE  /\ Iterations \subseteq PtcSlot \cup PhSlot
         /\ stage \in {"pair", "track"} => /\ Iterations \subseteq PhSlot
                                           /\ \A n \in Iterations : n < phNum
         /\ stage \notin Loops => Iterations = {}
BY Numbers DEF Iterations, PtcSlot, PhSlot, Loops

\* While a loop runs, the numbers stay what they are.
LEMMA LoopRuns ==
  ASSUME UNCHANGED <<stage, ptcNum, phNum>>
  PROVE  UNCHANGED <<Base, Room, PerClaim, Iterations, Unnoticed>>
BY DEF Base, Room, PerClaim, Iterations, Unnoticed, Span

\* An iteration that has no result.
LEMMA SkipKeeps ==
  ASSUME IInv, ~overrun, NEW n, Skip(n)
  PROVE  IInv'
<1> USE DEF IInv
<1>1. /\ UNCHANGED <<ptc, ptcNum, ph, phNum, stage, claim, pos, tally, overrun, map, tracked>>
      /\ UNCHANGED <<Base, Room, PerClaim, Iterations, Unnoticed>>
      /\ n \in todo /\ ~MustProduce(n) /\ todo' = todo \ {n}
  BY LoopRuns DEF Skip
<1>2. TypeOK'
  BY <1>1 DEF TypeOK
<1>3. IterInv' /\ ClaimInv' /\ BehindInv' /\ FilledInv' /\ TallyInv' /\ GatheredInv'
  BY <1>1 DEF IterInv, ClaimInv, BehindInv, FilledInv, Filled, Photons, Occupied, TallyInv,
     TallyRight, GatheredInv, TrackedListed, TrackedPhotons, Span
<1>4. PairedInv'
  <2>1. PairedPhotons' = PairedPhotons
    BY <1>1 DEF PairedPhotons, Photons
  <2>2. stage = "pair" => n \notin PairedPhotons
    BY <1>1 DEF MustProduce, MayProduce, PairedInv, PairedPhotons, Photons
  <2>3. stage = "pair" => LeftOver' = LeftOver
    BY <1>1, <2>1, <2>2 DEF LeftOver
  <2> QED BY <1>1, <2>1, <2>3 DEF PairedInv
<1>5. ListInv'
  <2>1. TrackedPhotons' = TrackedPhotons /\ Listed' = Listed
    BY <1>1 DEF TrackedPhotons, Photons, Listed
  <2>2. stage = "track" => n \notin TrackedPhotons
    BY <1>1 DEF MustProduce, MayProduce, IsListed, TrackedPhotons, Photons
  <2>3. stage = "track" => TrackedPhotons \ todo' = TrackedPhotons \ todo
    BY <1>1, <2>2
  <2> QED BY <1>1, <2>1, <2>3 DEF ListInv
<1> QED BY <1>2, <1>3, <1>4, <1>5

\* An iteration that has a result claims the next slots.
LEMMA ClaimKeeps ==
  ASSUME IInv, ~overrun, NEW n, Claim(n)
  PROVE  IInv'
<1> USE DEF IInv
<1>1. /\ UNCHANGED <<ptc, ptcNum, ph, phNum, stage, tally, map, tracked>>
      /\ UNCHANGED <<Base, Room, PerClaim, Iterations, Unnoticed>>
      /\ n \in todo /\ MayProduce(n) /\ todo' = todo \ {n}
      /\ pos' = pos + PerClaim
      /\ DOMAIN claim' = DOMAIN claim \cup {n} /\ n \notin DOMAIN claim
      /\ claim'[n] = Base + pos /\ \A m \in DOMAIN claim : claim'[m] = claim[m]
      /\ overrun' \in BOOLEAN
      /\ overrun' => stage # "track"
      /\ ~overrun' => stage = "track" \/ ~(Base + pos + PerClaim > Room)
  BY LoopRuns DEF Claim, Advance, IterInv
<1>2. /\ Base \in Nat /\ pos \in Nat /\ PerClaim \in Nat \ {0} /\ Room \in Nat
  BY Numbers
<1>3. n \in Iterations /\ n \in PtcSlot \cup PhSlot
  BY <1>1, IterationsAre DEF IterInv
<1>4. TypeOK'
  BY <1>1, <1>2, <1>3 DEF TypeOK
<1>5. IterInv'
  <2>1. todo' \subseteq Iterations' /\ DOMAIN claim' \subseteq Iterations'
    BY <1>1, <1>3 DEF IterInv
  <2>2. todo' \cap DOMAIN claim' = {}
    BY <1>1 DEF IterInv
  <2>3. stage \in Loops
    BY <1>1 DEF MayProduce, Loops
  <2> QED BY <1>1, <2>1, <2>2, <2>3 DEF IterInv, Loops
<1>6. ClaimInv'
  <2>1. pos' >= PerClaim
    BY <1>1, <1>2
  <2>2. ASSUME NEW k \in DOMAIN claim'
        PROVE  /\ claim'[k] \in Nat /\ Base <= claim'[k]
               /\ claim'[k] + PerClaim <= Base + pos'
               /\ claim'[k] = Base \/ claim'[k] >= Base + PerClaim
    BY <1>1, <1>2 DEF ClaimInv
  <2>3. ASSUME NEW k \in DOMAIN claim', NEW l \in DOMAIN claim' \ {k}
        PROVE  \/ claim'[l] + PerClaim <= claim'[k]
               \/ claim'[k] + PerClaim <= claim'[l]
    BY <1>1, <1>2 DEF ClaimInv
  <2> QED BY <1>1, <2>1, <2>2, <2>3 DEF ClaimInv
<1>7. BehindInv'
  BY <1>1 DEF BehindInv, Photons
<1>8. FilledInv'
  <2> SUFFICES ASSUME ~overrun', stage \in {"emit", "pair"}
               PROVE  /\ Base + pos' <= Room
                      /\ \A i \in Nat : i >= Base => (i \in Occupied' <=> Filled(i)')
    BY <1>1 DEF FilledInv
  <2>1. Base + pos' <= Room
    BY <1>1, <1>2
  <2>2. Occupied' = Occupied
    BY <1>1 DEF Occupied, Photons
  <2>3. ASSUME NEW i \in Nat PROVE Filled(i)' <=> Filled(i)
    <3>1. Filled(i)' <=> /\ i < Base + pos'
                         /\ \A k \in DOMAIN claim : i \notin Span(claim[k])
                         /\ i \notin Span(Base + pos)
      BY <1>1 DEF Filled, Span
    <3>2. i \in Span(Base + pos) <=> i >= Base + pos /\ i < Base + pos'
      BY <1>1, <1>2 DEF Span
    <3>3. i >= Base + pos => \A k \in DOMAIN claim : i \notin Span(claim[k])
      BY <1>2 DEF ClaimInv, Span
    <3> QED BY <1>1, <1>2, <3>1, <3>2, <3>3 DEF Filled
  <2> QED BY <2>1, <2>2, <2>3 DEF FilledInv
<1>9. PairedInv'
  <2>1. PairedPhotons' = PairedPhotons /\ LeftOver' = LeftOver
    BY <1>1 DEF PairedPhotons, Photons, LeftOver
  <2>2. stage = "pair" => ph[n].path = 0
    BY <1>1 DEF MayProduce
  <2>3. stage = "pair" /\ LeftOver # {} => Base + pos # 0
    BY <1>2 DEF PairedInv
  <2> QED BY <1>1, <1>2, <2>1, <2>2, <2>3 DEF PairedInv
<1>10. ListInv'
  <2> SUFFICES ASSUME stage = "track" PROVE ListInv'
    BY <1>1 DEF ListInv
  <2>1. n \in TrackedPhotons
    BY <1>1, <1>3, IterationsAre DEF MayProduce, IsListed, TrackedPhotons, Photons
  <2>2. TrackedPhotons' = TrackedPhotons
    BY <1>1 DEF TrackedPhotons, Photons
  <2>3. pos' = Cardinality(TrackedPhotons' \ todo')
    <3>1. TrackedPhotons \ todo' = (TrackedPhotons \ todo) \cup {n}
      BY <1>1, <2>1
    <3>2. IsFiniteSet(TrackedPhotons \ todo)
      <4>1. TrackedPhotons \ todo \in SUBSET (0 .. PhSize - 1)
        BY DEF TrackedPhotons, Photons, PhSlot
      <4> QED BY <4>1, Numbers, SetsOfSlots
    <3>3. n \notin TrackedPhotons \ todo
      BY <1>1
    <3>4. Cardinality((TrackedPhotons \ todo) \cup {n}) = pos + 1
      BY <3>2, <3>3, FS_AddElement DEF ListInv
    <3> QED BY <1>1, <2>2, <3>1, <3>4 DEF PerClaim
  <2>4. Listed' = Listed
    BY <1>1, <1>2 DEF Listed, PerClaim, Base
  <2> QED BY <1>1, <2>1, <2>2, <2>3, <2>4 DEF ListInv
<1>11. TallyInv'
  BY <1>1 DEF TallyInv, TallyRight, Occupied, Photons
<1>12. GatheredInv'
  BY <1>1 DEF GatheredInv, TrackedListed, MayProduce
<1> QED BY <1>4, <1>5, <1>6, <1>7, <1>8, <1>9, <1>10, <1>11, <1>12

\* An iteration that fills its slots gives up its claim.
LEMMA Unclaimed ==
  ASSUME IInv, NEW n, n \in DOMAIN claim, Finish(n),
         UNCHANGED <<stage, ptcNum, phNum, todo, pos>>
  PROVE  /\ DOMAIN claim' = DOMAIN claim \ {n}
         /\ \A m \in DOMAIN claim' : claim'[m] = claim[m]
         /\ UNCHANGED <<Base, Room, PerClaim, Iterations, Unnoticed>>
         /\ ClaimInv'
         /\ todo \subseteq Iterations /\ DOMAIN claim' \subseteq Iterations
         /\ todo \cap DOMAIN claim' = {}
<1>1. /\ DOMAIN claim' = DOMAIN claim \ {n}
      /\ \A m \in DOMAIN claim' : claim'[m] = claim[m]
      /\ UNCHANGED <<Base, Room, PerClaim, Iterations, Unnoticed>>
  BY LoopRuns DEF Finish
<1>2. ClaimInv'
  BY <1>1 DEF IInv, ClaimInv
<1> QED BY <1>1, <1>2 DEF IInv, IterInv

\* The slots of a claim are behind the counted ones, in the array and not in use, and
\* it is the only one that has them.
LEMMA ClaimedSpan ==
  ASSUME IInv, ~overrun, stage \in {"emit", "pair"}, NEW n \in DOMAIN claim
  PROVE  /\ Span(claim[n]) = claim[n] .. claim[n] + PerClaim - 1
         /\ Span(claim[n]) \subseteq {i \in Nat : Base <= i /\ i < Base + pos /\ i < Room}
         /\ Span(claim[n]) \cap Occupied = {}
         /\ \A m \in DOMAIN claim \ {n} : Span(claim[m]) \cap Span(claim[n]) = {}
<1> USE DEF IInv
<1>1. /\ Base \in Nat /\ pos \in Nat /\ PerClaim \in Nat \ {0} /\ Room \in Nat
      /\ claim[n] \in Nat /\ Base <= claim[n] /\ claim[n] + PerClaim <= Base + pos
      /\ Base + pos <= Room
  BY Numbers DEF ClaimInv, FilledInv
<1>2. Span(claim[n]) \subseteq {i \in Nat : Base <= i /\ i < Base + pos /\ i < Room}
  BY <1>1 DEF Span
<1>3. \A i \in Span(claim[n]) : i \notin Occupied
  BY <1>2 DEF FilledInv, Filled
<1>4. \A m \in DOMAIN claim \ {n} : Span(claim[m]) \cap Span(claim[n]) = {}
  BY <1>1 DEF ClaimInv, Span
<1> QED BY <1>2, <1>3, <1>4 DEF Span

\* Filling the slots of a claim.
LEMMA FilledMore ==
  ASSUME IInv, ~overrun, stage \in {"emit", "pair"}, NEW n \in DOMAIN claim, Finish(n),
         UNCHANGED <<stage, ptcNum, phNum, todo, pos>>,
         Occupied' = Occupied \cup Span(claim[n])
  PROVE  FilledInv'
<1>1. /\ DOMAIN claim' = DOMAIN claim \ {n}
      /\ \A m \in DOMAIN claim' : claim'[m] = claim[m]
      /\ UNCHANGED <<Base, Room, PerClaim>>
  BY Unclaimed
<1>2. ASSUME NEW i \in Nat, i >= Base
      PROVE  Filled(i)' <=> Filled(i) \/ i \in Span(claim[n])
  <2>1. Filled(i)' <=> i < Base + pos /\ \A m \in DOMAIN claim \ {n} : i \notin Span(claim[m])
    BY <1>1 DEF Filled, Span
  <2>2. i \in Span(claim[n]) =>
          /\ i < Base + pos
          /\ \A m \in DOMAIN claim \ {n} : i \notin Span(claim[m])
    BY ClaimedSpan
  <2> QED BY <2>1, <2>2 DEF Filled
<1> QED BY <1>1, <1>2 DEF FilledInv, IInv

\* What is counted when the slots of a claim have been filled.
LEMMA TalliedMore ==
  ASSUME IInv, ~overrun, stage \in {"emit", "pair"}, NEW n \in DOMAIN claim,
         UNCHANGED <<stage, ptcNum, phNum>>, tally' = Tallied(claim[n]),
         Occupied' = Occupied \cup Span(claim[n])
  PROVE  TallyInv' /\ tally' \in Nat
<1> USE DEF IInv
<1> DEFINE counted == {i \in Occupied : i >= Base /\ i \notin Unnoticed}
<1>1. /\ Base \in Nat /\ PerClaim \in Nat \ {0}
      /\ claim[n] \in Nat /\ Base <= claim[n]
      /\ claim[n] = Base \/ claim[n] >= Base + PerClaim
      /\ UNCHANGED <<Base, PerClaim, Unnoticed>>
      /\ tally \in Nat /\ tally = Cardinality(counted)
  BY Numbers, LoopRuns DEF ClaimInv, TallyInv, TallyRight, TypeOK
<1>2. counted' = counted \cup {i \in Span(claim[n]) : i \notin Unnoticed}
  BY <1>1, ClaimedSpan
<1>3. CASE claim[n] = 0
  <2>1. Unnoticed = Span(claim[n])
    BY <1>1, <1>3 DEF Unnoticed
  <2> QED BY <1>1, <1>2, <1>3, <2>1 DEF Tallied, Produced, TallyInv, TallyRight
<1>4. CASE claim[n] # 0
  <2>1. counted' = counted \cup Span(claim[n])
    BY <1>1, <1>2, <1>4 DEF Unnoticed, Span
  <2>2. /\ IsFiniteSet(Span(claim[n])) /\ Cardinality(Span(claim[n])) = PerClaim
        /\ counted \cap Span(claim[n]) = {}
    <3>1. Span(claim[n]) = claim[n] .. claim[n] + PerClaim - 1
      BY DEF Span
    <3>2. /\ IsFiniteSet(claim[n] .. claim[n] + PerClaim - 1)
          /\ Cardinality(claim[n] .. claim[n] + PerClaim - 1) = PerClaim
      <4>1. PICK a \in Int, b \in Int : a = claim[n] /\ b = claim[n] + PerClaim - 1
        BY <1>1
      <4>2. IsFiniteSet(a .. b) /\ Cardinality(a .. b) = IF a > b THEN 0 ELSE b - a + 1
        BY FS_Interval
      <4>3. ~(a > b) /\ b - a + 1 = PerClaim
        BY <1>1, <4>1
      <4> QED BY <4>1, <4>2, <4>3
    <3>3. Span(claim[n]) \cap Occupied = {}
      BY ClaimedSpan
    <3> QED BY <3>1, <3>2, <3>3
  <2>3. IsFiniteSet(counted)
    <3>1. IsFiniteSet(Occupied)
      <4>1. Occupied \in SUBSET (0 .. PhSize - 1) \/ Occupied \in SUBSET (0 .. PtcSize - 1)
        BY DEF Occupied, Photons, PhSlot, PtcSlot
      <4> QED BY <4>1, Numbers, SetsOfSlots
    <3> QED BY <3>1, FS_Subset
  <2>4. Cardinality(counted') = Cardinality(counted) + PerClaim
    BY <2>1, <2>2, <2>3, PartsAddUp
  <2> QED BY <1>1, <1>4, <2>4 DEF Tallied, Produced, TallyInv, TallyRight
<1> QED BY <1>3, <1>4

LEMMA FillPhotonsKeeps ==
  ASSUME IInv, ~overrun, NEW n, n \in DOMAIN claim, Finish(n), FillPhotons(n)
  PROVE  IInv'
<1> USE DEF IInv
<1>1. /\ UNCHANGED <<ptc, ptcNum, phNum, stage, todo, pos, overrun, map, tracked>>
      /\ stage = "emit" /\ tally' = Tallied(claim[n])
  BY DEF FillPhotons
<1>2. PICK chosen : ph' = [i \in PhSlot |->
                IF i \notin Span(claim[n]) THEN ph[i]
                ELSE [live |-> TRUE, path |-> MaxPath, paired |-> FALSE,
                      tracked |-> ph[i].tracked \/ i \in chosen]]
  BY DEF FillPhotons
<1>3. /\ Span(claim[n]) \subseteq PhSlot
      /\ Span(claim[n]) \cap Occupied = {}
  BY <1>1, ClaimedSpan, Numbers DEF Room, PhSlot
<1>4. /\ DOMAIN claim' = DOMAIN claim \ {n} /\ DOMAIN claim' \subseteq Iterations
      /\ \A k \in DOMAIN claim' : claim'[k] = claim[k]
      /\ UNCHANGED Iterations /\ ClaimInv' /\ todo \cap DOMAIN claim' = {}
  BY <1>1, Unclaimed
<1>5. Occupied' = Occupied \cup Span(claim[n])
  BY <1>1, <1>2, <1>3 DEF Occupied, Photons
<1>6. TallyInv' /\ tally' \in Nat
  BY <1>1, <1>5, TalliedMore
<1>7. TypeOK'
  <2>1. \A i \in PhSlot : ph'[i] \in Slot
    BY <1>2, Numbers DEF TypeOK, Slot
  <2> QED BY <1>1, <1>2, <1>4, <1>6, <2>1 DEF TypeOK
<1>8. IterInv' /\ BehindInv' /\ ListInv' /\ GatheredInv'
  BY <1>1, <1>4 DEF IterInv, BehindInv, ListInv, GatheredInv, TrackedListed, Loops
<1>9. FilledInv'
  BY <1>1, <1>5, FilledMore
<1>10. PairedInv'
  <2>1. \A i \in PairedPhotons' : i \in PairedPhotons /\ ph'[i] = ph[i]
    BY <1>1, <1>2 DEF PairedPhotons, Photons
  <2> QED BY <1>1, <2>1 DEF PairedInv
<1> QED BY <1>4, <1>6, <1>7, <1>8, <1>9, <1>10

\* A slot without its photon.
LEMMA VacatedSlot ==
  ASSUME NEW p \in Slot
  PROVE  Vacated(p) \in Slot /\ ~Vacated(p).live
BY PhotonAssumption DEF Vacated, Slot

\* Only a photon whose pair went to slot 0 stays.
LEMMA ConvertedSlot ==
  ASSUME NEW p \in Slot, NEW offset
  PROVE  LET q == Converted(p, offset)
         IN  /\ q \in Slot
             /\ q.live => p.live /\ offset = 0
             /\ q.live => q.path = p.path
<1>1. MaxPath \in Nat
  BY PhotonAssumption
<1>2. CASE offset = 0
  <2>1. Converted(p, offset) = [p EXCEPT !.paired = TRUE]
    BY <1>2 DEF Converted, Produced
  <2> QED BY <1>2, <2>1 DEF Slot
<1>3. CASE offset # 0
  <2>1. Converted(p, offset) = Vacated(p)
    BY <1>3 DEF Converted, Produced
  <2>2. Vacated(p) \in Slot /\ ~Vacated(p).live
    BY VacatedSlot
  <2> QED BY <2>1, <2>2
<1> QED BY <1>2, <1>3

LEMMA FillPairKeeps ==
  ASSUME IInv, ~overrun, NEW n, n \in DOMAIN claim, Finish(n), FillPair(n)
  PROVE  IInv'
<1> USE DEF IInv
<1>1. /\ UNCHANGED <<ptcNum, phNum, stage, todo, pos, overrun, map, tracked>>
      /\ stage = "pair" /\ tally' = Tallied(claim[n])
      /\ ptc' = [i \in PtcSlot |-> IF i \in Span(claim[n]) THEN "lepton" ELSE ptc[i]]
      /\ ph' = [ph EXCEPT ![n] = Converted(@, claim[n])]
  BY DEF FillPair
<1>2. /\ Span(claim[n]) \subseteq PtcSlot
      /\ Span(claim[n]) \cap Occupied = {}
  BY <1>1, ClaimedSpan, Numbers DEF Room, PtcSlot
<1>3. /\ DOMAIN claim' = DOMAIN claim \ {n} /\ DOMAIN claim' \subseteq Iterations
      /\ \A k \in DOMAIN claim' : claim'[k] = claim[k]
      /\ UNCHANGED Iterations /\ ClaimInv' /\ todo \cap DOMAIN claim' = {}
  BY <1>1, Unclaimed
<1>4. n \in PhSlot /\ n \notin todo
  BY <1>1, IterationsAre DEF IterInv
<1>5. /\ ph' \in [PhSlot -> Slot]
      /\ \A i \in PhSlot : i # n => ph'[i] = ph[i]
      /\ ph'[n].live => ph[n].live /\ claim[n] = 0
      /\ ph'[n].live => ph'[n].path = ph[n].path
  <2>1. ph \in [PhSlot -> Slot] /\ ph[n] \in Slot /\ MaxPath \in Nat
    BY <1>4, Numbers DEF TypeOK
  <2>2. /\ ph'[n] = Converted(ph[n], claim[n])
        /\ ph' = [i \in PhSlot |-> IF i = n THEN ph'[n] ELSE ph[i]]
    BY <1>1, <1>4, <2>1
  <2>3. /\ ph'[n] \in Slot
        /\ ph'[n].live => ph[n].live /\ claim[n] = 0
        /\ ph'[n].live => ph'[n].path = ph[n].path
    BY <2>1, <2>2, ConvertedSlot
  <2> QED BY <2>1, <2>2, <2>3
<1>6. Occupied' = Occupied \cup Span(claim[n])
  <2>1. "lepton" # Empty
    BY EmptyIsNoKind DEF Kind
  <2> QED BY <1>1, <1>2, <2>1 DEF Occupied
<1>7. TallyInv' /\ tally' \in Nat
  BY <1>1, <1>6, TalliedMore
<1>8. TypeOK'
  BY <1>1, <1>3, <1>5, <1>7 DEF TypeOK, Kind
<1>9. IterInv' /\ BehindInv' /\ ListInv' /\ GatheredInv'
  <2>1. Photons' \subseteq Photons
    BY <1>4, <1>5 DEF Photons
  <2> QED BY <1>1, <1>3, <2>1 DEF IterInv, BehindInv, ListInv, GatheredInv, TrackedListed,
          Loops
<1>10. FilledInv'
  BY <1>1, <1>6, FilledMore
<1>11. PairedInv'
  <2>1. /\ \A i \in PairedPhotons' : ph'[i].path = 0
        /\ \A k \in DOMAIN claim' : ph'[k].path = 0
    BY <1>1, <1>3, <1>4, <1>5, IterationsAre DEF PairedInv, PairedPhotons, Photons, IterInv
  <2>2. LeftOver' \subseteq LeftOver \cup (IF claim[n] = 0 THEN {n} ELSE {})
    BY <1>1, <1>3, <1>4, <1>5 DEF LeftOver, PairedPhotons, Photons
  <2>3. CASE claim[n] = 0
    <3>1. LeftOver = {}
      BY <1>1, <2>3 DEF PairedInv
    <3>2. /\ Base \in Nat /\ PerClaim \in Nat \ {0} /\ pos \in Nat
          /\ Base = 0 /\ pos > 0 /\ ptcNum = 0
      BY <1>1, <2>3, Numbers DEF ClaimInv, Base
    <3>3. \A k \in DOMAIN claim' : claim'[k] # 0
      BY <1>3, <2>3, <3>2 DEF ClaimInv
    <3> QED BY <1>1, <2>1, <2>2, <2>3, <3>1, <3>2, <3>3 DEF PairedInv
  <2>4. CASE claim[n] # 0
    BY <1>1, <1>3, <2>1, <2>2, <2>4 DEF PairedInv
  <2> QED BY <2>3, <2>4
<1> QED BY <1>3, <1>7, <1>8, <1>9, <1>10, <1>11

LEMMA FillListKeeps ==
  ASSUME IInv, ~overrun, NEW n, n \in DOMAIN claim, Finish(n), FillList(n)
  PROVE  IInv'
<1> USE DEF IInv
<1>1. /\ UNCHANGED <<ptc, ptcNum, ph, phNum, stage, todo, pos, tally, overrun, tracked>>
      /\ stage = "track"
      /\ map' = IF claim[n] < MaxTracked THEN [map EXCEPT ![claim[n]] = n] ELSE map
  BY DEF FillList
<1>2. /\ DOMAIN claim' = DOMAIN claim \ {n} /\ DOMAIN claim' \subseteq Iterations
      /\ \A k \in DOMAIN claim' : claim'[k] = claim[k]
      /\ UNCHANGED Iterations /\ ClaimInv' /\ todo \cap DOMAIN claim' = {}
  BY <1>1, Unclaimed
<1>3. n \in PhSlot /\ n \notin todo /\ n \in TrackedPhotons
  BY <1>1, IterationsAre DEF IterInv, ListInv
<1>4. /\ claim[n] \in Nat /\ claim[n] < pos /\ pos \in Nat
      /\ \A k \in DOMAIN claim' : claim[k] # claim[n]
      /\ \A k \in DOMAIN claim : claim[k] \in Nat
  BY <1>1, <1>2, Numbers DEF ClaimInv, PerClaim, Base
<1>5. TypeOK'
  BY <1>1, <1>2, <1>3, <1>4, Numbers DEF TypeOK
<1>6. IterInv' /\ BehindInv' /\ FilledInv' /\ TallyInv' /\ GatheredInv'
  BY <1>1, <1>2 DEF IterInv, BehindInv, FilledInv, TallyInv, TallyRight, GatheredInv,
     TrackedListed, Loops, Photons
<1>7. PairedInv'
  <2>1. PairedPhotons' = PairedPhotons
    BY <1>1 DEF PairedPhotons, Photons
  <2> QED BY <1>1, <2>1 DEF PairedInv
<1>8. ListInv'
  <2>1. TrackedPhotons' = TrackedPhotons
    BY <1>1 DEF TrackedPhotons, Photons
  <2>2. \A k \in Listed' : \/ k \in Listed /\ map'[k] = map[k]
                           \/ k = claim[n] /\ map'[k] = n
    <3> SUFFICES ASSUME NEW k \in Listed'
                 PROVE  \/ k \in Listed /\ map'[k] = map[k]
                        \/ k = claim[n] /\ map'[k] = n
      OBVIOUS
    <3>1. /\ k \in 0 .. pos - 1 /\ k < MaxTracked
          /\ \A l \in DOMAIN claim \ {n} : claim[l] # k
      BY <1>1, <1>2 DEF Listed
    <3>2. /\ k \in 0 .. MaxTracked - 1 /\ MaxTracked \in Nat
          /\ map \in [0 .. MaxTracked - 1 -> PhSlot \cup {Junk}]
      BY <1>4, <3>1, Numbers DEF TypeOK
    <3>3. CASE k = claim[n]
      BY <1>1, <3>1, <3>2, <3>3
    <3>4. CASE k # claim[n]
      BY <1>1, <3>1, <3>2, <3>4 DEF Listed
    <3> QED BY <3>3, <3>4
  <2>3. \A k \in Listed : map[k] \in TrackedPhotons \ (todo \cup DOMAIN claim)
    BY <1>1 DEF ListInv
  <2>4. \A k \in Listed' : map'[k] \in TrackedPhotons \ (todo \cup DOMAIN claim')
    BY <1>2, <1>3, <2>2, <2>3
  <2>5. \A k, l \in Listed' : map'[k] = map'[l] => k = l
    BY <1>1, <2>2, <2>3 DEF ListInv
  <2> QED BY <1>1, <1>2, <2>1, <2>4, <2>5 DEF ListInv
<1> QED BY <1>2, <1>5, <1>6, <1>7, <1>8

LEMMA JoinKeeps ==
  ASSUME IInv, ~overrun, Join
  PROVE  IInv'
<1> USE DEF IInv
<1>1. /\ todo = {} /\ DOMAIN claim = {} /\ pos' = 0 /\ tally' = 0
      /\ UNCHANGED <<ptc, ph, claim, overrun, map>>
      /\ UNCHANGED <<Photons, PairedPhotons>>
  BY DEF Join, Photons, PairedPhotons
<1>2. CASE /\ stage = "emit" /\ stage' = "pair"
           /\ phNum' = Raised(phNum, PhSize) /\ todo' = 0 .. phNum' - 1
           /\ UNCHANGED <<ptcNum, tracked>>
  <2>1. /\ phNum \in Nat /\ pos \in Nat /\ phNum + pos <= PhSize /\ ptcNum \in Nat
        /\ ptcNum <= PtcSize /\ PhSize \in Nat /\ Base = phNum
        /\ Base' = ptcNum /\ Room' = PtcSize
    BY <1>2, Numbers DEF FilledInv, Base, Room
  <2>2. phNum' = phNum + pos
    BY <1>2, <2>1 DEF Raised
  <2>3. \A i \in Photons : i < phNum'
    <3>1. \A i \in Photons : i \in Nat /\ (i >= Base => Filled(i)) /\ Occupied = Photons
      BY <1>1, <1>2 DEF FilledInv, Occupied, Photons, PhSlot
    <3>2. \A i \in Photons : i >= Base => i < Base + pos
      BY <3>1 DEF Filled
    <3> QED BY <2>1, <2>2, <3>1, <3>2
  <2>4. todo' \subseteq PhSlot
    BY <1>2, <2>1, <2>2 DEF PhSlot
  <2>5. \A i \in Nat : i >= ptcNum => i \notin Occupied'
    BY <1>1, <1>2, <2>1 DEF BehindInv, Occupied
  <2>6. TypeOK'
    BY <1>1, <1>2, <2>1, <2>2, <2>4 DEF TypeOK
  <2>7. IterInv' /\ ClaimInv' /\ BehindInv' /\ ListInv' /\ GatheredInv'
    BY <1>1, <1>2, <2>3 DEF IterInv, Iterations, ClaimInv, BehindInv, ListInv, GatheredInv,
       TrackedListed, Loops
  <2>8. FilledInv'
    BY <1>1, <1>2, <2>1, <2>5 DEF FilledInv, Filled
  <2>9. PairedInv'
    <3>1. LeftOver' = {}
      <4>1. Photons \subseteq todo'
        BY <1>2, <2>2, <2>3, <2>1 DEF Photons, PhSlot
      <4> QED BY <1>1, <4>1 DEF LeftOver, PairedPhotons
    <3> QED BY <1>1, <1>2, <3>1 DEF PairedInv
  <2>10. TallyInv'
    <3>1. {i \in Occupied : i >= Base /\ i \notin Unnoticed}' = {}
      BY <1>2, <2>1, <2>5 DEF Occupied, PtcSlot
    <3> QED BY <1>1, <3>1, FS_EmptySet DEF TallyInv, TallyRight
  <2> QED BY <2>6, <2>7, <2>8, <2>9, <2>10
<1>3. CASE /\ stage = "pair" /\ ptcNum' = Raised(ptcNum, PtcSize)
           /\ \/ stage' = "rest" /\ todo' = {}
              \/ stage' = "track" /\ todo' = 0 .. phNum - 1
           /\ UNCHANGED <<phNum, tracked>>
  <2>1. /\ ptcNum \in Nat /\ pos \in Nat /\ ptcNum + pos <= PtcSize /\ PtcSize \in Nat
        /\ Base = ptcNum
    BY <1>3, Numbers DEF FilledInv, Base, Room
  <2>2. ptcNum' = ptcNum + pos
    BY <1>3, <2>1 DEF Raised
  <2>3. \A i \in PtcSlot : i >= ptcNum' => ptc[i] = Empty
    <3>1. \A i \in PtcSlot : i \in Nat /\ (i \in Occupied <=> ptc[i] # Empty)
      BY <1>3 DEF Occupied, PtcSlot
    <3>2. \A i \in Nat : i >= Base /\ i \in Occupied => i < Base + pos
      BY <1>3 DEF FilledInv, Filled
    <3> QED BY <2>1, <2>2, <3>1, <3>2
  <2>4. todo' \subseteq PhSlot
    BY <1>3, Numbers DEF PhSlot
  <2>5. TypeOK'
    BY <1>1, <1>3, <2>1, <2>2, <2>4 DEF TypeOK
  <2>6. IterInv' /\ ClaimInv' /\ FilledInv' /\ GatheredInv' /\ TallyInv'
    BY <1>1, <1>3 DEF IterInv, Iterations, ClaimInv, FilledInv, GatheredInv,
       TrackedListed, Loops, TallyInv, TallyRight
  <2>7. BehindInv'
    BY <1>1, <1>3, <2>3 DEF BehindInv
  <2>8. PairedInv'
    <3>1. LeftOver = PairedPhotons
      BY <1>1 DEF LeftOver
    <3> QED BY <1>1, <1>3, <3>1 DEF PairedInv
  <2>9. ListInv'
    <3> SUFFICES ASSUME stage' = "track" PROVE ListInv'
      BY DEF ListInv
    <3>1. TrackedPhotons' \ todo' = {}
      BY <1>1, <1>3, Numbers DEF TrackedPhotons, Photons, PhSlot
    <3>2. Listed' = {}
      BY <1>1 DEF Listed
    <3> QED BY <1>1, <3>1, <3>2, FS_EmptySet DEF ListInv
  <2> QED BY <2>5, <2>6, <2>7, <2>8, <2>9
<1>4. CASE /\ stage = "track" /\ stage' = "gathered"
           /\ tracked' = ListLength /\ todo' = {}
           /\ UNCHANGED <<ptcNum, phNum>>
  <2>1. /\ pos \in Nat /\ MaxTracked \in Nat
        /\ tracked' \in 0 .. MaxTracked
        /\ tracked' = IF pos < MaxTracked THEN pos ELSE MaxTracked
    BY <1>4, Numbers DEF ListLength
  <2>2. TypeOK'
    BY <1>1, <1>4, <2>1 DEF TypeOK
  <2>3. /\ IterInv' /\ ClaimInv' /\ FilledInv' /\ TallyInv' /\ BehindInv' /\ ListInv'
        /\ PairedInv'
    BY <1>1, <1>4 DEF IterInv, Iterations, ClaimInv, FilledInv, Loops, TallyInv, TallyRight,
       BehindInv, ListInv, PairedInv
  <2>4. GatheredInv'
    <3> DEFINE K == 0 .. tracked' - 1
               L == {map[k] : k \in K}
    <3>1. Listed = K
      BY <1>1, <2>1 DEF Listed
    <3>2. TrackedPhotons' = TrackedPhotons /\ Cardinality(TrackedPhotons) = pos
      BY <1>1, <1>4 DEF TrackedPhotons, Photons, ListInv
    <3>3. L \subseteq TrackedPhotons
      BY <1>1, <1>4, <3>1 DEF ListInv
    <3>4. Cardinality(L) = tracked'
      <4>1. [k \in K |-> map[k]] \in Bijection(K, L)
        BY <1>4, <3>1 DEF ListInv, Bijection, Injection, Surjection, IsInjective
      <4>2. IsFiniteSet(K) /\ Cardinality(K) = tracked'
        BY <2>1, FS_Interval
      <4> QED BY <4>1, <4>2, FS_Bijection DEF ExistsBijection
    <3> QED BY <1>1, <2>1, <3>2, <3>3, <3>4 DEF GatheredInv, TrackedListed
  <2> QED BY <2>2, <2>3, <2>4
<1> QED BY <1>2, <1>3, <1>4 DEF Join

--------------------------------------------------------------------------------
\* Sorting moves the photons that stay to the front, each to a slot of its own.
LEMMA SortedFrom ==
  ASSUME phNum \in Nat, phNum <= PhSize, NEW s, NEW stay \in SUBSET (0 .. phNum - 1)
  PROVE  \E src \in [PhSlot -> PhSlot] :
           /\ Sorted(s, stay) = [k \in PhSlot |-> s[src[k]]]
           /\ \A k, l \in PhSlot : src[k] = src[l] => k = l
           /\ \A k \in PhSlot : src[k] \in stay => k < Cardinality(stay)
<1> DEFINE D == 0 .. phNum - 1
           gone == D \ stay
           before(S, i) == Cardinality({j \in S : j < i})
           rank(i) == IF i \in stay THEN before(stay, i)
                      ELSE Cardinality(stay) + before(gone, i)
           from(k) == CHOOSE i \in D : rank(i) = k
           src == [k \in PhSlot |-> IF k < phNum THEN from(k) ELSE k]
<1>1. /\ PhSize \in Nat /\ D \subseteq PhSlot
      /\ \A k \in PhSlot : k < phNum <=> k \in D
  BY SizeAssumption DEF PhSlot
<1>2. /\ Cardinality(stay) \in Nat /\ Cardinality(gone) \in Nat
      /\ Cardinality(stay) + Cardinality(gone) = phNum
  <2>1. /\ Cardinality(stay) \in Nat /\ Cardinality(gone) \in Nat
        /\ IsFiniteSet(stay) /\ IsFiniteSet(gone)
    BY SetsOfSlots
  <2>2. stay \cup gone = D /\ stay \cap gone = {}
    OBVIOUS
  <2>3. Cardinality(D) = phNum
    BY FS_Interval
  <2>4. Cardinality(stay \cup gone) = Cardinality(stay) + Cardinality(gone)
    BY <2>1, <2>2, PartsAddUp
  <2> QED BY <2>1, <2>2, <2>3, <2>4
<1>3. ASSUME NEW i \in stay
      PROVE  /\ before(stay, i) \in Nat /\ before(stay, i) < Cardinality(stay)
             /\ \A j \in stay : i < j => before(stay, i) < before(stay, j)
  BY FewerBefore
<1>4. ASSUME NEW i \in gone
      PROVE  /\ before(gone, i) \in Nat /\ before(gone, i) < Cardinality(gone)
             /\ \A j \in gone : i < j => before(gone, i) < before(gone, j)
  BY FewerBefore
<1> HIDE DEF before
<1>5. \A i \in D : /\ rank(i) \in D
                   /\ i \in stay <=> rank(i) < Cardinality(stay)
  BY <1>2, <1>3, <1>4
<1>6. \A i, j \in D : i < j => rank(i) # rank(j)
  <2> SUFFICES ASSUME NEW i \in D, NEW j \in D, i < j PROVE rank(i) # rank(j)
    OBVIOUS
  <2>1. CASE i \in stay /\ j \in stay
    BY <2>1, <1>3
  <2>2. CASE i \in gone /\ j \in gone
    BY <2>2, <1>2, <1>4
  <2>3. CASE i \in stay <=> j \in gone
    BY <2>3, <1>5
  <2> QED BY <2>1, <2>2, <2>3
<1> HIDE DEF rank
<1>7. \A k \in D : from(k) \in D /\ rank(from(k)) = k
  <2>1. [i \in D |-> rank(i)] \in [D -> D]
    BY <1>5
  <2>2. \A i, j \in D : rank(i) = rank(j) => i = j
    BY <1>6
  <2>3. \A k \in D : \E i \in D : rank(i) = k
    BY <2>1, <2>2, EverySlotHit
  <2> QED BY <2>3
<1> HIDE DEF from
<1>8. src \in [PhSlot -> PhSlot]
  BY <1>1, <1>7
<1>9. \A k, l \in PhSlot : src[k] = src[l] => k = l
  BY <1>1, <1>7
<1>10. \A k \in PhSlot : src[k] \in stay => k < Cardinality(stay)
  BY <1>1, <1>5, <1>7
<1>11. Sorted(s, stay) = [k \in PhSlot |-> s[src[k]]]
  BY DEF Sorted, from, rank, before
<1> QED BY <1>8, <1>9, <1>10, <1>11

LEMMA MovedSlot ==
  ASSUME NEW p \in Slot
  PROVE  /\ Moved(p) \in Slot
         /\ Moved(p).paired = p.paired
         /\ p.path = 0 => Moved(p).path = 0
BY PhotonAssumption DEF Moved, Slot

LEMMA OtherSystemsKeeps ==
  ASSUME IInv, ~overrun, OtherSystems
  PROVE  IInv'
<1> USE DEF IInv
<1>1. /\ stage \in {"rest", "gathered"} /\ stage' = "emit" /\ todo' = 0 .. ptcNum' - 1
      /\ UNCHANGED <<pos, tally, overrun>>
      /\ pos = 0 /\ tally = 0
  BY DEF OtherSystems, IterInv, Loops
<1>c. DOMAIN claim = {} /\ UNCHANGED claim
  BY <1>1, IterationsAre DEF OtherSystems, IterInv, Loops
<1>2. /\ ptcNum' \in 0 .. PtcSize
      /\ ptc' \in [PtcSlot -> Kind \cup {Empty}]
      /\ \A i \in PtcSlot : i >= ptcNum' => ptc'[i] = Empty
  <2>1. PICK n \in 0 .. PtcSize : \E t \in [0 .. n - 1 -> Kind \cup {Empty}] :
               /\ ptc' = [i \in PtcSlot |-> IF i < n THEN t[i] ELSE Empty]
               /\ ptcNum' = n
    BY DEF OtherSystems
  <2> QED BY <2>1, Numbers DEF PtcSlot
<1>3. PICK stay \in SUBSET Photons :
        LET left == [i \in PhSlot |-> IF i \in stay THEN Moved(ph[i]) ELSE Vacated(ph[i])]
        IN  \/ ph' = left /\ UNCHANGED phNum
            \/ ph' = Sorted(left, stay) /\ phNum' = Cardinality(stay)
  BY DEF OtherSystems
<1> DEFINE new(i) == IF i \in stay THEN Moved(ph[i]) ELSE Vacated(ph[i])
<1>4. \E src \in [PhSlot -> PhSlot] :
        /\ ph' = [k \in PhSlot |-> new(src[k])]
        /\ \A k, l \in PhSlot : src[k] = src[l] => k = l
        /\ \A k \in PhSlot : src[k] \in stay => k < phNum'
  <2> DEFINE left == [i \in PhSlot |-> new(i)]
  <2>1. stay \in SUBSET (0 .. phNum - 1) /\ phNum \in Nat /\ phNum <= PhSize
    BY <1>1, Numbers DEF BehindInv, Photons, PhSlot
  <2>2. CASE ph' = left /\ UNCHANGED phNum
    <3> DEFINE id == [k \in PhSlot |-> k]
    <3> HIDE DEF new
    <3>1. /\ id \in [PhSlot -> PhSlot]
          /\ \A k, l \in PhSlot : id[k] = id[l] => k = l
      OBVIOUS
    <3>2. ph' = [k \in PhSlot |-> new(id[k])]
      BY <2>2
    <3>3. \A k \in PhSlot : id[k] \in stay => k < phNum'
      <4>1. \A k \in stay : k < phNum'
        BY <2>1, <2>2
      <4> QED BY <4>1
    <3> QED BY <3>1, <3>2, <3>3
  <2>3. CASE ph' = Sorted(left, stay) /\ phNum' = Cardinality(stay)
    <3>1. PICK src \in [PhSlot -> PhSlot] :
            /\ Sorted(left, stay) = [k \in PhSlot |-> left[src[k]]]
            /\ \A k, l \in PhSlot : src[k] = src[l] => k = l
            /\ \A k \in PhSlot : src[k] \in stay => k < Cardinality(stay)
      BY <2>1, SortedFrom
    <3>2. ph' = [k \in PhSlot |-> new(src[k])]
      BY <2>3, <3>1
    <3> QED BY <2>3, <3>1, <3>2
  <2> QED BY <1>3, <2>2, <2>3
<1>5. PICK src \in [PhSlot -> PhSlot] :
        /\ ph' = [k \in PhSlot |-> new(src[k])]
        /\ \A k, l \in PhSlot : src[k] = src[l] => k = l
        /\ \A k \in PhSlot : src[k] \in stay => k < phNum'
  BY <1>4
<1>6. \A i \in PhSlot : /\ new(i) \in Slot
                        /\ new(i).live => i \in stay
                        /\ i \in stay => new(i) = Moved(ph[i]) /\ ph[i] \in Slot
  BY MovedSlot, VacatedSlot DEF TypeOK
<1> HIDE DEF new
<1>7. \A k \in Photons' : k \in PhSlot /\ k < phNum' /\ src[k] \in stay
  BY <1>5, <1>6 DEF Photons
<1>8. phNum' \in 0 .. PhSize
  <2>1. Cardinality(stay) \in 0 .. PhSize
    <3>1. stay \in SUBSET (0 .. PhSize - 1)
      BY DEF Photons, PhSlot
    <3> QED BY <3>1, Numbers, SetsOfSlots
  <2> QED BY <1>3, <2>1 DEF TypeOK
<1>9. TypeOK'
  <2>1. ph' \in [PhSlot -> Slot]
    BY <1>5, <1>6
  <2>2. todo' \subseteq PtcSlot
    <3>1. PICK k \in 0 .. PtcSize : k = ptcNum'
      BY <1>2
    <3>2. 0 .. k - 1 \subseteq 0 .. PtcSize - 1
      BY FirstSlots, SizeAssumption
    <3> QED BY <1>1, <3>1, <3>2 DEF PtcSlot
  <2>3. /\ MaxTracked \in Nat /\ map' \in [0 .. MaxTracked - 1 -> PhSlot \cup {Junk}]
        /\ tracked' = 0
    BY Numbers DEF OtherSystems, TypeOK
  <2>4. /\ DOMAIN claim' \subseteq PtcSlot \cup PhSlot
        /\ \A n \in DOMAIN claim' : claim'[n] \in Nat
    BY <1>c
  <2>5. /\ stage' \in {"rest", "emit", "pair", "track", "gathered"}
        /\ overrun' \in BOOLEAN /\ pos' \in Nat /\ tally' \in Nat
    BY <1>1 DEF TypeOK
  <2>6. tracked' \in 0 .. MaxTracked
    BY <2>3
  <2> QED BY <1>2, <1>8, <2>1, <2>2, <2>3, <2>4, <2>5, <2>6 DEF TypeOK
<1>10. /\ IterInv' /\ ClaimInv' /\ BehindInv' /\ ListInv' /\ GatheredInv'
  BY <1>1, <1>c, <1>2 DEF IterInv, Iterations, ClaimInv, BehindInv, ListInv, GatheredInv,
     TrackedListed, Loops
<1>11. Base' = phNum' /\ Room' = PhSize /\ Occupied' = Photons'
  BY <1>1 DEF Base, Room, Occupied
<1>12. FilledInv'
  <2>1. \A i \in Nat : i >= phNum' => i \notin Photons'
    BY <1>7, <1>8, Numbers
  <2>2. phNum' + pos' <= PhSize
    BY <1>1, <1>8, Numbers
  <2>3. \A i \in Nat : i >= Base' => ~Filled(i)'
    <3>1. PICK k \in Int : k = Base'
      BY <1>8, <1>11
    <3>2. pos' = 0
      BY <1>1
    <3>3. \A i \in Nat : i >= k => ~(i < k + 0)
      OBVIOUS
    <3> QED BY <3>1, <3>2, <3>3 DEF Filled
  <2> QED BY <1>11, <2>1, <2>2, <2>3 DEF FilledInv
<1>13. PairedInv'
  <2>1. \A k \in PairedPhotons' : /\ k \in PhSlot /\ src[k] \in PairedPhotons
                                  /\ ph'[k].path = 0
    <3> SUFFICES ASSUME NEW k \in PairedPhotons'
                 PROVE  /\ k \in PhSlot /\ src[k] \in PairedPhotons
                        /\ ph'[k].path = 0
      OBVIOUS
    <3>1. /\ k \in PhSlot /\ src[k] \in stay /\ ph'[k] = new(src[k]) /\ ph'[k].paired
      BY <1>5, <1>7 DEF PairedPhotons
    <3>2. /\ ph[src[k]] \in Slot /\ new(src[k]) = Moved(ph[src[k]])
          /\ src[k] \in Photons
      BY <1>6, <3>1 DEF Photons
    <3>3. ph[src[k]].paired
      BY <3>1, <3>2, MovedSlot
    <3>4. ph[src[k]].path = 0
      BY <3>2, <3>3 DEF PairedInv, PairedPhotons
    <3> QED BY <3>1, <3>2, <3>3, <3>4, MovedSlot DEF PairedPhotons
  <2>2. \A k, l \in PairedPhotons' : k = l
    <3>1. \A i, l \in PairedPhotons : i = l
      BY <1>1 DEF PairedInv
    <3> QED BY <1>5, <2>1, <3>1
  <2> QED BY <1>1, <2>1, <2>2 DEF PairedInv
<1>14. TallyInv'
  <2>1. {i \in Occupied : i >= Base /\ i \notin Unnoticed}' = {}
    BY <1>7, <1>8, <1>11, Numbers DEF PhSlot
  <2> QED BY <1>1, <2>1, FS_EmptySet DEF TallyInv, TallyRight
<1> QED BY <1>9, <1>10, <1>12, <1>13, <1>14

LEMMA InitKeeps == Init => IInv
<1> SUFFICES ASSUME Init PROVE IInv
  OBVIOUS
<1>1. TypeOK
  <2>1. [live |-> FALSE, path |-> 0, paired |-> FALSE, tracked |-> FALSE] \in Slot
    BY PhotonAssumption DEF Slot
  <2>2. /\ DOMAIN claim \subseteq PtcSlot \cup PhSlot
        /\ \A n \in DOMAIN claim : claim[n] \in Nat
    <3>1. DOMAIN claim = {}
      BY DEF Init
    <3> QED BY <3>1
  <2>3. ptc \in [PtcSlot -> Kind \cup {Empty}] /\ ph \in [PhSlot -> Slot]
    BY <2>1 DEF Init
  <2>4. map \in [0 .. MaxTracked - 1 -> PhSlot \cup {Junk}]
    BY DEF Init
  <2>5. /\ ptcNum \in 0 .. PtcSize /\ phNum \in 0 .. PhSize /\ tracked \in 0 .. MaxTracked
        /\ pos \in Nat /\ tally \in Nat
    <3>1. ptcNum = 0 /\ phNum = 0 /\ tracked = 0 /\ pos = 0 /\ tally = 0
      BY DEF Init
    <3> QED BY <3>1, SizeAssumption, TrackedAssumption
  <2>6. stage = "rest" /\ todo = {} /\ overrun \in BOOLEAN
    BY DEF Init
  <2> QED BY <2>2, <2>3, <2>4, <2>5, <2>6 DEF TypeOK
<1> USE SizeAssumption, PhotonAssumption, TrackedAssumption DEF Init
<1>2. IterInv /\ ClaimInv /\ FilledInv /\ TallyInv /\ ListInv /\ GatheredInv
  BY DEF IterInv, Iterations, Loops, ClaimInv, FilledInv, TallyInv, TallyRight, ListInv,
     GatheredInv, TrackedListed
<1>3. BehindInv /\ PairedInv
  BY DEF BehindInv, PairedInv, Photons, PairedPhotons
<1> QED BY <1>1, <1>2, <1>3 DEF IInv

LEMMA StutterKeeps == IInv /\ UNCHANGED vars => IInv'
<1> SUFFICES ASSUME IInv, UNCHANGED vars PROVE IInv'
  OBVIOUS
<1>1. /\ UNCHANGED <<ptc, ptcNum, ph, phNum, stage, todo, claim, pos, tally, overrun, map,
                     tracked>>
      /\ UNCHANGED <<Base, Room, PerClaim, Iterations, Unnoticed>>
      /\ UNCHANGED <<Photons, PairedPhotons, LeftOver, TrackedPhotons, Occupied, Listed>>
  BY LoopRuns DEF vars, Photons, PairedPhotons, LeftOver, TrackedPhotons, Occupied, Listed
<1>2. TypeOK' /\ IterInv' /\ ClaimInv' /\ BehindInv'
  BY <1>1 DEF IInv, TypeOK, IterInv, ClaimInv, BehindInv
<1>3. FilledInv' /\ PairedInv'
  BY <1>1 DEF IInv, FilledInv, Filled, Span, PairedInv
<1>4. TallyInv' /\ ListInv' /\ GatheredInv'
  BY <1>1 DEF IInv, TallyInv, TallyRight, ListInv, GatheredInv, TrackedListed
<1> QED BY <1>2, <1>3, <1>4 DEF IInv

LEMMA Inductive == IInv /\ [Next]_vars => IInv'
<1> SUFFICES ASSUME IInv, Next PROVE IInv'
  BY StutterKeeps
<1>1. ~overrun
  BY DEF Next
<1>2. ASSUME NEW n, Iteration(n) PROVE IInv'
  BY <1>1, <1>2, SkipKeeps, ClaimKeeps, FillPhotonsKeeps, FillPairKeeps, FillListKeeps
     DEF Iteration, Fill
<1> QED BY <1>1, <1>2, OtherSystemsKeeps, JoinKeeps DEF Next

--------------------------------------------------------------------------------
\* Types: in particular a claim is of a slot, and the list has photons in it only.
THEOREM TypeCorrect == Spec => []TypeOK
<1>1. IInv => TypeOK
  BY DEF IInv
<1> QED BY InitKeeps, Inductive, <1>1, PTL DEF Spec

\* Whatever the threads of a loop do at the same time, no two of them write to the same
\* slot, and none writes to a slot that is in use.
THEOREM ClaimsAreFree == Spec => []ClaimsFree
<1>1. IInv => ClaimsFree
  <2> SUFFICES ASSUME IInv, ~overrun, NEW n \in DOMAIN claim
               PROVE  /\ stage # "track" => Span(claim[n]) \cap Occupied = {}
                      /\ \A m \in DOMAIN claim \ {n} : Span(claim[m]) \cap Span(claim[n]) = {}
    BY DEF ClaimsFree
  <2>1. stage \in Loops
    BY IterationsAre DEF IInv, IterInv
  <2>2. ASSUME NEW m \in DOMAIN claim \ {n} PROVE Span(claim[m]) \cap Span(claim[n]) = {}
    <3>1. /\ PerClaim \in Nat /\ claim[m] \in Nat /\ claim[n] \in Nat
          /\ claim[m] + PerClaim <= claim[n] \/ claim[n] + PerClaim <= claim[m]
      BY Numbers DEF IInv, ClaimInv
    <3> QED BY <3>1 DEF Span
  <2> QED BY <2>1, <2>2, ClaimedSpan DEF Loops
<1> QED BY InitKeeps, Inductive, <1>1, PTL DEF Spec

\* What is raised at the end of a loop covers exactly the slots that were filled, in
\* whatever order the threads finish.
THEOREM CountIsRight == Spec => []CountCovers
<1>1. IInv => CountCovers
  <2> SUFFICES ASSUME IInv, ~overrun, stage # "track"
               PROVE  {i \in Occupied : i >= Base} =
                        (Base .. Base + pos - 1) \ UNION {Span(claim[n]) : n \in DOMAIN claim}
    BY DEF CountCovers
  <2>1. /\ Base \in Nat /\ pos \in Nat /\ \A i \in Occupied : i \in Nat
    BY Numbers DEF IInv, Occupied, Photons, PhSlot, PtcSlot
  <2>2. CASE stage \in {"emit", "pair"}
    BY <2>1, <2>2 DEF IInv, FilledInv, Filled
  <2>3. CASE stage \notin {"emit", "pair"}
    <3>1. stage \notin Loops /\ pos = 0
      BY <2>3 DEF Loops, IInv, IterInv
    <3>2. Base = ptcNum /\ Occupied = {i \in PtcSlot : ptc[i] # Empty}
      BY <2>3 DEF Base, Occupied
    <3>3. \A i \in Occupied : ~(i >= Base)
      BY <2>3, <3>2 DEF IInv, BehindInv
    <3> QED BY <2>1, <3>1, <3>3
  <2> QED BY <2>2, <2>3
<1> QED BY InitKeeps, Inductive, <1>1, PTL DEF Spec

\* The number of photons and pairs that is reported is that of those that were made, but
\* for what the first iteration puts into an empty array.
THEOREM TallyIsRight == Spec => []TallyRight
<1>1. IInv => TallyRight
  BY DEF IInv, TallyInv
<1> QED BY InitKeeps, Inductive, <1>1, PTL DEF Spec

\* At most one photon outlives its pair, however many updates there have been and
\* however often the particle array has been empty.
THEOREM FewOutliveTheirPair == Spec => []ConvertedGone
<1>1. IInv => ConvertedGone
  <2> SUFFICES ASSUME IInv, stage \in {"rest", "gathered"}
               PROVE  Cardinality(PairedPhotons) <= 1
    BY DEF ConvertedGone, PairedPhotons
  <2>1. PairedPhotons = {} \/ \E x : PairedPhotons = {x}
    BY DEF IInv, IterInv, PairedInv
  <2>2. Cardinality({}) = 0 /\ \A x : Cardinality({x}) = 1
    BY FS_EmptySet, FS_Singleton
  <2>3. CASE PairedPhotons = {}
    BY <2>2, <2>3
  <2>4. CASE \E x : PairedPhotons = {x}
    <3> PICK x : PairedPhotons = {x}
      BY <2>4
    <3> QED BY <2>2
  <2> QED BY <2>1, <2>3, <2>4
<1> QED BY InitKeeps, Inductive, <1>1, PTL DEF Spec

\* The list for output has the tracked photons, each once, and none that is gone.
THEOREM ListIsRight == Spec => []TrackedListed
<1>1. IInv => TrackedListed
  BY DEF IInv, GatheredInv
<1> QED BY InitKeeps, Inductive, <1>1, PTL DEF Spec
================================================================================
