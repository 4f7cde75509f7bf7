----------------------------- MODULE ParticlePool ------------------------------
(***************************************************************************)
(* The life of one rank's particle array over the steps of a simulation:   *)
(* initial conditions and injectors fill it between two updates, and each  *)
(* ptc_updater::update moves the particles, exchanges them with the other  *)
(* ranks (when there is a communicator), clears the guard cells and, every *)
(* SortInterval steps, sorts and compacts the array.  The other ranks are  *)
(* the environment: what they send is any short sequence of particles      *)
(* (module ParticleExchange has the exchange itself).                      *)
(***************************************************************************)
EXTENDS ParticleArray

CONSTANTS SortInterval,   \* m_sort_interval
          MaxPairs,       \* bound: pairs one inject_pairs call asks for
          MaxArrivals     \* bound: particles one exchange brings in

ASSUME IntervalAssumption == SortInterval \in Nat \ {0}
ASSUME BoundAssumption == MaxPairs \in Nat /\ MaxArrivals \in Nat

VARIABLES slot,      \* the particle array
          number,    \* particles_base::number()
          phase,     \* how far ptc_updater::update has come
          tick,      \* step % m_sort_interval
          comm,      \* m_comm # nullptr, settled when the updater is made
          alive      \* history: the tags of the particles this rank holds

vars == <<slot, number, phase, tick, comm, alive>>

Init == /\ slot = [i \in Slots |-> Empty]
        /\ number = 0
        /\ phase = "outside"
        /\ tick = 0
        /\ comm \in BOOLEAN
        /\ alive = {}

--------------------------------------------------------------------------------
\* Sequences of particles the array does not hold yet: all tags new, no tag twice,
\* all cells in C.
Fresh(T) == Tag \ T
\* Mutant of NewParticles: cells that were not translated to the local grid.
NewAnywhere(T, C, len) ==
  {ps \in [1 .. len -> [cell : Cell, tag : Fresh(T)]] :
     \A j, k \in 1 .. len : ps[j].tag = ps[k].tag => j = k}
NewParticles(T, C, len) ==
  {ps \in [1 .. len -> [cell : C, tag : Fresh(T)]] :
     \A j, k \in 1 .. len : ps[j].tag = ps[k].tag => j = k}
TagsIn(ps, len) == {ps[j].tag : j \in 1 .. len}

\* ptc_append: one particle at the end of the counted slots, or nothing at all
\* when the array is full.
Append1 ==
  /\ phase = "outside"
  /\ \/ number = Size /\ UNCHANGED <<slot, number, alive>>
     \/ /\ number < Size
        /\ \E ps \in NewParticles(alive, Cell, 1) :
             /\ slot' = Write(slot, number, ps, 1)
             /\ number' = SetNum(number + 1)
             /\ alive' = alive \cup TagsIn(ps, 1)
  /\ UNCHANGED <<phase, tick>>

\* ptc_injector::inject_pairs: an electron and a positron in the same cell, as
\* often as asked.  A pair that does not fit as a whole is not written, but the
\* count grows by what was asked for, up to the size of the array.
PairsThatFit(want) == LET room == (Size - number) \div 2
                      IN  IF want < room THEN want ELSE room
SameCell(ps, pairs) == \A j \in 1 .. pairs : ps[2 * j - 1].cell = ps[2 * j].cell

InjectPairs ==
  /\ phase = "outside"
  /\ \E want \in 1 .. MaxPairs :
       LET fit == PairsThatFit(want)
       IN  /\ \E ps \in NewParticles(alive, Cell \ Guard, 2 * fit) :
                /\ SameCell(ps, fit)
                /\ slot' = Write(slot, number, ps, 2 * fit)
                /\ alive' = alive \cup TagsIn(ps, 2 * fit)
           /\ number' = SetNum(number + 2 * want)
  /\ UNCHANGED <<phase, tick>>

\* update_particles: every counted particle may end in any cell of the grid.
MoveParticles ==
  /\ phase = "outside"
  /\ \E to \in [Counted(slot, number) -> Cell] :
       slot' = [i \in Slots |-> IF i \in Counted(slot, number)
                                THEN [slot[i] EXCEPT !.cell = to[i]]
                                ELSE slot[i]]
  /\ phase' = "moved"
  /\ UNCHANGED <<number, tick, alive>>

\* send_particles: the particles in guard cells leave, and what the neighbours
\* sent is copied to the end of the counted slots by ptc_copy_from_buffer, which
\* cuts off what does not fit.  Without a communicator nothing happens.
SendParticles ==
  /\ phase = "moved"
  /\ phase' = "sent"
  /\ IF comm
     THEN LET gone == InGuard(slot, number)
              left == {slot[i].tag : i \in gone}
              stay == Erase(slot, gone)
          IN  \E come \in 0 .. MaxArrivals :
                LET room == Size - number
                    fit == IF come < room THEN come ELSE room
                IN  /\ \E ps \in NewParticles(alive, Cell \ Guard, fit) :
                         /\ slot' = Write(stay, number, ps, fit)
                         /\ alive' = (alive \ left) \cup TagsIn(ps, fit)
                    /\ number' = SetNum(number + come)
     ELSE UNCHANGED <<slot, number, alive>>
  /\ UNCHANGED tick

\* clear_guard_cells
ClearGuardCells ==
  /\ phase = "sent"
  /\ slot' = Erase(slot, InGuard(slot, number))
  /\ alive' = alive \ {slot[i].tag : i \in InGuard(slot, number)}
  /\ phase' = "cleared"
  /\ UNCHANGED <<number, tick>>

\* The end of update: sort_particles every m_sort_interval steps.  An empty array
\* is left alone by ptc_sort_by_cell, which is a compaction too.
\* Mutant of Sorting: the remainder never gets that far.
SortingNever == tick = SortInterval
Sorting == tick = 0
SortParticles ==
  /\ phase = "cleared"
  /\ IF Sorting
     THEN \E m \in 0 .. number : \E f \in Orders(slot, number, m) :
            /\ slot' = Packed(slot, number, m, f)
            /\ number' = m
     ELSE UNCHANGED <<slot, number>>
  /\ phase' = "outside"
  /\ tick' = (tick + 1) % SortInterval
  /\ UNCHANGED alive

Update == MoveParticles \/ SendParticles \/ ClearGuardCells \/ SortParticles
Next == (Append1 \/ InjectPairs \/ Update) /\ UNCHANGED comm

Spec == Init /\ [][Next]_vars

\* sim_environment::run calls update again and again, and update runs to its end.
FairSpec == Spec /\ WF_vars(Update /\ UNCHANGED comm)

--------------------------------------------------------------------------------
TypeOK == /\ slot \in Array
          /\ number \in 0 .. Size
          /\ phase \in {"outside", "moved", "sent", "cleared"}
          /\ tick \in 0 .. SortInterval - 1
          /\ alive \subseteq Tag
          /\ comm \in BOOLEAN

\* No particle lies beyond the counted slots, where no loop of the code would
\* visit it.  inject_pairs relies on this when it counts slots that it did not
\* write (ptc_injector_host.hpp): such a slot must not hold an old particle.
TailEmpty == \A i \in Slots : i >= number => slot[i] = Empty

\* The array holds exactly the particles this rank was given and has not given
\* away: through appends, injections, migrations, erasures and sorts none is lost,
\* none comes back and none is there twice.
HoldsExactlyAlive ==
  /\ Tags(slot) = alive
  /\ \A i, j \in Live(slot) : slot[i].tag = slot[j].tag => i = j

\* When update comes to sort, no particle is in a guard cell, where the next
\* deposit or interpolation would reach beyond the local grid: send_particles takes
\* them away, and clear_guard_cells what is left when there is no communicator.
NoneInGuard == phase = "cleared" \/ (comm /\ phase = "sent")
                 => InGuard(slot, number) = {}

\* Holes that migration and erasure leave among the counted slots are taken out
\* again and again, so a full array does not stay full of holes.
HolesReclaimed == []<>(number = Cardinality(alive))
================================================================================
