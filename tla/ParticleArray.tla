----------------------------- MODULE ParticleArray -----------------------------
(***************************************************************************)
(* The particle array of one rank, as the host code keeps it: a fixed      *)
(* number of slots (particles_base::resize), of which the first number()   *)
(* are "counted".  A slot whose cell is empty_cell holds no particle; its  *)
(* other fields are never read, so an empty slot is the single value       *)
(* Empty.  A particle keeps the two things the properties tell apart: the  *)
(* cell it is in and a tag, which stands for everything the particle       *)
(* carries (position, momentum, weight, flag) and identifies it.           *)
(*                                                                         *)
(* The operators are pure: they map the slots s and the count n of an      *)
(* array to the array after the call.                                      *)
(***************************************************************************)
EXTENDS Integers, FiniteSets

CONSTANTS Size,    \* particles_base::size(), fixed when the array is allocated
          Cell,    \* cells of the local grid, guard cells included
          Guard,   \* cells for which grid_t::is_in_bound is false
          Tag,     \* identities a particle can have
          Empty    \* an unoccupied slot: cell == empty_cell

ASSUME SizeAssumption == Size \in Nat \ {0}
ASSUME GuardAssumption == Guard \subseteq Cell
ASSUME EmptyAssumption == Empty \notin [cell : Cell, tag : Tag]

Slots == 0 .. Size - 1
Particle == [cell : Cell, tag : Tag]
Array == [Slots -> Particle \cup {Empty}]

Live(s) == {i \in Slots : s[i] # Empty}
Tags(s) == {s[i].tag : i \in Live(s)}

\* Slots that loops over "0 .. number()-1, skipping empty_cell" visit.
Counted(s, n) == {i \in Live(s) : i < n}

\* Mutant of SetNum: the count is not cut to the size of the array.
SetNumUnchecked(n) == n
SetNum(n) == IF n < Size THEN n ELSE Size

\* Copies the len particles ps[1], ps[2], ... to the slots from "at" on; what does
\* not fit into the array is not copied.
Write(s, at, ps, len) ==
  [i \in Slots |-> IF i >= at /\ i < at + len THEN ps[i - at + 1] ELSE s[i]]

\* Mutant of Erase: particles are copied out and stay.
EraseNothing(s, I) == s
Erase(s, I) == [i \in Slots |-> IF i \in I THEN Empty ELSE s[i]]

\* copy_to_comm_buffers takes these out of the array, clear_guard_cells erases
\* them: both visit the counted slots only.
InGuard(s, n) == {i \in Counted(s, n) : s[i].cell \in Guard}

\* What ptc_sort_by_cell promises: the live particles of the first n slots fill
\* the first m slots, none lost and none duplicated, the rest of the first n slots
\* is empty and the slots from n on are not touched.  Which particle ends up where
\* depends on the segment size and is left open; ParticleSort has the algorithm.
Orders(s, n, m) ==
  {f \in [0 .. m - 1 -> Counted(s, n)] :
     /\ \A i, j \in 0 .. m - 1 : f[i] = f[j] => i = j
     /\ \A k \in Counted(s, n) : \E i \in 0 .. m - 1 : f[i] = k}
\* Mutant of Packed: what was copied forward is not erased where it was.
PackedKeepingSources(s, n, m, f) == [i \in Slots |-> IF i < m THEN s[f[i]] ELSE s[i]]
Packed(s, n, m, f) ==
  [i \in Slots |-> IF i < m THEN s[f[i]] ELSE IF i < n THEN Empty ELSE s[i]]
================================================================================
