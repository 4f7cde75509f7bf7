--------------------------- MODULE RadiativeTransfer ---------------------------
(***************************************************************************)
(* The parallel loops over particles on one rank.  In                      *)
(* radiative_transfer::update particles emit photons, and photons whose    *)
(* path is used up become pairs; every so often gather_tracked_ptc::update *)
(* lists the photons that are tracked, for output.  The iterations of such *)
(* a loop run concurrently, as GPU or OpenMP threads.  One that has a      *)
(* result claims slots for it with an atomic counter, and fills them;      *)
(* photons and pairs go behind the counted slots of their array, whose     *)
(* count is raised when the loop is over.  The offset that was claimed     *)
(* also tells whether there was anything to emit: 0 means nothing.         *)
(* Energies and random numbers decide who emits, which is left open here,  *)
(* and ids are left out.                                                   *)
(***************************************************************************)
EXTENDS Integers, FiniteSets

CONSTANTS PtcSize, PhSize,   \* size() of the particle array and of the photon array
          PerScatter,        \* m_ph_per_scatter
          MaxPath,           \* photon_path in time steps
          MaxTracked,        \* m_max_tracked
          Junk,              \* an entry of the list of an earlier gathering
          Empty              \* an unoccupied particle slot: cell == empty_cell

ASSUME SizeAssumption == PtcSize \in Nat /\ PhSize \in Nat
ASSUME PhotonAssumption == PerScatter \in Nat \ {0} /\ MaxPath \in Nat
ASSUME TrackedAssumption == MaxTracked \in Nat

VARIABLES ptc, ptcNum,  \* the particle array and its number()
          ph, phNum,    \* the photon array and its number()
          stage,        \* the loop that runs, or "rest" or "gathered" between updates
          todo,         \* the iterations of the loop that have not begun
          claim,        \* the offset of each iteration that has to fill its slots
          pos,          \* the counter the iterations claim slots with
          tally,        \* what the loop has added to photon_produced or pair_produced
          overrun,      \* slots beyond the array were claimed: nothing is defined then
          map,          \* m_tracked_map
          tracked       \* m_tracked_num

vars == <<ptc, ptcNum, ph, phNum, stage, todo, claim, pos, tally, overrun, map, tracked>>

PtcSlot == 0 .. PtcSize - 1
PhSlot == 0 .. PhSize - 1
Kind == {"lepton", "ion"}
ASSUME EmptyIsNoKind == Empty \notin Kind
\* A slot of the photon array: whether there is a photon (cell # empty_cell), the steps
\* until it becomes a pair, (history) whether it has been one, and its flag, which stays
\* when the photon is gone.
Slot == [live : BOOLEAN, path : 0 .. MaxPath, paired : BOOLEAN, tracked : BOOLEAN]
Vacated(p) == [live |-> FALSE, path |-> 0, paired |-> FALSE, tracked |-> p.tracked]
Photons == {i \in PhSlot : ph[i].live}
TrackedPhotons == {i \in Photons : i < phNum /\ ph[i].tracked}

\* What a loop writes to: how many slots are counted and how many there are, how many
\* are claimed at a time, and which are in use.
Base == IF stage = "emit" THEN phNum ELSE IF stage = "track" THEN 0 ELSE ptcNum
Room == IF stage = "emit" THEN PhSize ELSE PtcSize
PerClaim == IF stage = "emit" THEN PerScatter ELSE IF stage = "pair" THEN 2 ELSE 1
Span(offset) == offset .. offset + PerClaim - 1
Occupied == IF stage = "emit" THEN Photons ELSE {i \in PtcSlot : ptc[i] # Empty}

Init == /\ ptc = [i \in PtcSlot |-> Empty] /\ ptcNum = 0
        /\ phNum = 0
        /\ ph = [i \in PhSlot |-> [live |-> FALSE, path |-> 0, paired |-> FALSE,
                                  tracked |-> FALSE]]
        /\ stage = "rest" /\ todo = {} /\ claim = <<>>
        /\ pos = 0 /\ tally = 0 /\ overrun = FALSE
        /\ map = [k \in 0 .. MaxTracked - 1 |-> Junk] /\ tracked = 0

--------------------------------------------------------------------------------
\* What the other systems do between two updates: particles are injected, come, leave
\* and are sorted, and the slots behind the number are empty (module ParticlePool).
\* Photons get along their path, some leave (those in guard cells are deleted; arrivals
\* from other ranks are left out), and they may be sorted, which puts the slots
\* of those that are gone, flags and all, behind the others (in one segment, see module
\* ParticleSort).  What was gathered before is not used any more.
Moved(p) == [p EXCEPT !.path = IF @ = 0 THEN 0 ELSE @ - 1]
Sorted(s, stay) ==
  LET before(S, i) == Cardinality({j \in S : j < i})
      gone    == (0 .. phNum - 1) \ stay
      rank(i) == IF i \in stay THEN before(stay, i)
                 ELSE Cardinality(stay) + before(gone, i)
  IN  [k \in PhSlot |->
         IF k < phNum THEN s[CHOOSE i \in 0 .. phNum - 1 : rank(i) = k] ELSE s[k]]
OtherSystems ==
  /\ stage \in {"rest", "gathered"}
  /\ \E n \in 0 .. PtcSize : \E s \in [0 .. n - 1 -> Kind \cup {Empty}] :
       /\ ptc' = [i \in PtcSlot |-> IF i < n THEN s[i] ELSE Empty]
       /\ ptcNum' = n
  /\ \E stay \in SUBSET Photons :
       LET left == [i \in PhSlot |-> IF i \in stay THEN Moved(ph[i]) ELSE Vacated(ph[i])]
       IN  \/ ph' = left /\ UNCHANGED phNum
           \/ ph' = Sorted(left, stay) /\ phNum' = Cardinality(stay)
  /\ stage' = "emit"
  /\ todo' = 0 .. ptcNum' - 1
  /\ map' = [k \in DOMAIN map |-> Junk] /\ tracked' = 0
  /\ UNCHANGED <<claim, pos, tally, overrun>>

\* Ions do not emit.  A lepton may, and its energy decides.  A photon becomes a pair
\* when its path is used up: none is in a guard cell, where the loop would pass over it,
\* as clear_guard_cells has been there.  Slots without a photon are passed over, whatever their flag.
\* Mutant of IsListed: the cell is not looked at.
IsListedByFlag(p) == p.tracked
IsListed(p) == p.tracked /\ p.live
MayProduce(n) == \/ stage = "emit" /\ ptc[n] = "lepton"
                 \/ stage = "pair" /\ ph[n].live /\ ph[n].path = 0
                 \/ stage = "track" /\ IsListed(ph[n])
MustProduce(n) == stage # "emit" /\ MayProduce(n)

Skip(n) ==
  /\ n \in todo /\ ~MustProduce(n)
  /\ todo' = todo \ {n}
  /\ UNCHANGED <<ptc, ptcNum, ph, phNum, stage, claim, pos, tally, overrun, map, tracked>>

\* emit_photon and produce_pair, up to the atomic_add.
\* Mutant of Advance: one slot for all photons of a scattering.
AdvanceOne(p) == p + 1
Advance(p) == p + PerClaim
Claim(n) ==
  /\ n \in todo /\ MayProduce(n)
  /\ todo' = todo \ {n}
  /\ claim' = [m \in DOMAIN claim \cup {n} |-> IF m = n THEN Base + pos ELSE claim[m]]
  /\ pos' = Advance(pos)
  /\ overrun' = (stage # "track" /\ Base + pos + PerClaim > Room)
  /\ UNCHANGED <<ptc, ptcNum, ph, phNum, stage, tally, map, tracked>>

\* Mutant of Produced: the offset is taken relative to the number.
ProducedBehind(offset) == offset # Base
Produced(offset) == offset # 0
\* Mutant of Converted: the photon is not deleted.
ConvertedKept(p, offset) == [p EXCEPT !.paired = TRUE]
Converted(p, offset) == IF Produced(offset) THEN Vacated(p) ELSE [p EXCEPT !.paired = TRUE]
Tallied(offset) == tally + (IF Produced(offset) THEN PerClaim ELSE 0)
Finish(n) == claim' = [m \in DOMAIN claim \ {n} |-> claim[m]]

\* The rest of an iteration: the new photons, and what follows from the offset.  Some
\* are chosen to be tracked; the flag of the others is not touched.
FillPhotons(n) ==
  /\ stage = "emit"
  /\ \E chosen \in SUBSET (IF Produced(claim[n]) THEN Span(claim[n]) ELSE {}) :
       ph' = [i \in PhSlot |->
                IF i \notin Span(claim[n]) THEN ph[i]
                ELSE [live |-> TRUE, path |-> MaxPath, paired |-> FALSE,
                      tracked |-> ph[i].tracked \/ i \in chosen]]
  /\ tally' = Tallied(claim[n])
  /\ UNCHANGED <<ptc, ptcNum, phNum, stage, todo, pos, overrun, map, tracked>>

\* The rest of an iteration: the pair.  The photon is deleted if the offset says so.
FillPair(n) ==
  /\ stage = "pair"
  /\ ptc' = [i \in PtcSlot |-> IF i \in Span(claim[n]) THEN "lepton" ELSE ptc[i]]
  /\ ph' = [ph EXCEPT ![n] = Converted(@, claim[n])]
  /\ tally' = Tallied(claim[n])
  /\ UNCHANGED <<ptcNum, phNum, stage, todo, pos, overrun, map, tracked>>

\* The rest of an iteration of gather_tracked_ptc_index.
FillList(n) ==
  /\ stage = "track"
  /\ map' = IF claim[n] < MaxTracked THEN [map EXCEPT ![claim[n]] = n] ELSE map
  /\ UNCHANGED <<ptc, ptcNum, ph, phNum, stage, todo, pos, tally, overrun, tracked>>

Fill(n) == n \in DOMAIN claim /\ Finish(n) /\ (FillPhotons(n) \/ FillPair(n) \/ FillList(n))

\* The loop is over: add_num.  Pair creation follows on emission.
\* Mutant of Raised: the counter is taken for one of claims.
RaisedPerClaim(num, size) == num + pos * PerClaim
Raised(num, size) == IF num + pos < size THEN num + pos ELSE size
ListLength == IF pos > MaxTracked THEN MaxTracked ELSE pos
Join ==
  /\ stage \in {"emit", "pair", "track"} /\ todo = {} /\ DOMAIN claim = {}
  /\ \/ /\ stage = "emit"
        /\ phNum' = Raised(phNum, PhSize)
        /\ stage' = "pair" /\ todo' = 0 .. phNum' - 1
        /\ UNCHANGED <<ptcNum, tracked>>
     \/ /\ stage = "pair"
        /\ ptcNum' = Raised(ptcNum, PtcSize)
        /\ \/ stage' = "rest" /\ todo' = {}
           \/ stage' = "track" /\ todo' = 0 .. phNum - 1
        /\ UNCHANGED <<phNum, tracked>>
     \/ /\ stage = "track"
        /\ tracked' = ListLength
        /\ stage' = "gathered" /\ todo' = {}
        /\ UNCHANGED <<ptcNum, phNum>>
  /\ pos' = 0 /\ tally' = 0
  /\ UNCHANGED <<ptc, ph, claim, overrun, map>>

Iteration(n) == Skip(n) \/ Claim(n) \/ Fill(n)
Next == ~overrun /\ (OtherSystems \/ Join \/ \E n \in PtcSlot \cup PhSlot : Iteration(n))

Spec == Init /\ [][Next]_vars

--------------------------------------------------------------------------------
TypeOK ==
  /\ ptc \in [PtcSlot -> Kind \cup {Empty}] /\ ptcNum \in 0 .. PtcSize
  /\ ph \in [PhSlot -> Slot] /\ phNum \in 0 .. PhSize
  /\ stage \in {"rest", "emit", "pair", "track", "gathered"}
  /\ todo \subseteq PtcSlot \cup PhSlot
  /\ DOMAIN claim \subseteq PtcSlot \cup PhSlot
  /\ \A n \in DOMAIN claim : claim[n] \in Nat
  /\ pos \in Nat /\ tally \in Nat /\ overrun \in BOOLEAN
  /\ map \in [0 .. MaxTracked - 1 -> PhSlot \cup {Junk}] /\ tracked \in 0 .. MaxTracked

\* Concurrent iterations never write to the same slot, and a slot that one of them is
\* about to write holds nothing (produce_pair asserts this for its two slots).
ClaimsFree ==
  \/ overrun
  \/ \A n \in DOMAIN claim :
       /\ stage # "track" => Span(claim[n]) \cap Occupied = {}
       /\ \A m \in DOMAIN claim \ {n} : Span(claim[m]) \cap Span(claim[n]) = {}

\* At any moment, what is behind the counted slots is exactly what was claimed and
\* filled, with no gap once the loop is over: add_num then counts every new particle
\* and nothing else, although the iterations finish in any order.
CountCovers ==
  \/ overrun \/ stage = "track"
  \/ {i \in Occupied : i >= Base} =
       (Base .. Base + pos - 1) \ UNION {Span(claim[n]) : n \in DOMAIN claim}

\* photon_produced and pair_produced have everything the loop has made so far, except
\* for what went to slot 0 of an empty array, which looks as if nothing was made.
Unnoticed == IF Base = 0 THEN Span(0) ELSE {}
TallyRight ==
  stage \in {"emit", "pair"} =>
    tally = Cardinality({i \in Occupied : i >= Base /\ i \notin Unnoticed})

\* A photon that has become a pair is deleted.  The one whose pair is the first into
\* an empty array stays, and becomes a pair again in the next update; but there is
\* never more than one such photon between two updates.
ConvertedGone ==
  stage \in {"rest", "gathered"} => Cardinality({i \in Photons : ph[i].paired}) <= 1

\* What is gathered for output is a list of photons that exist and are tracked, none of
\* them twice and nothing left over from an earlier list, and it has all of them, or as
\* many as fit.
TrackedListed ==
  stage = "gathered" =>
    LET listed == {map[k] : k \in 0 .. tracked - 1}
        all    == Cardinality(TrackedPhotons)
    IN  /\ listed \subseteq TrackedPhotons
        /\ Cardinality(listed) = tracked
        /\ tracked = (IF all < MaxTracked THEN all ELSE MaxTracked)
================================================================================
