------------------------------ MODULE LocalGrid --------------------------------
(***************************************************************************)
(* The part of the grid that each rank keeps (grid_t's constructor): the   *)
(* cells along each axis are divided evenly among the ranks, and every     *)
(* rank has guard cells around its own, which overlap the cells of its     *)
(* neighbours.                                                             *)
(***************************************************************************)
EXTENDS CartesianComm

CONSTANTS Inner,     \* grid.reduced_dim: cells of a rank along each axis, without guards
          GuardOf    \* grid.guard: guard cells on each side, along each axis

\* Guard cells reach only into the grid of the next rank.  The code does not check it.
ASSUME GridAssumption == /\ Inner \in [Axis -> Nat] /\ GuardOf \in [Axis -> Nat]
                         /\ \A k \in Axis : Inner[k] >= GuardOf[k]

Dims(k) == Inner[k] + 2 * GuardOf[k]
Local == {c \in [Axis -> 0 .. Max({Dims(k) : k \in Axis}) - 1] :
            \A k \in Axis : c[k] < Dims(k)}
Interior(c) == \A k \in Axis : c[k] \in GuardOf[k] .. Dims(k) - GuardOf[k] - 1

\* The cell of the whole domain that local cell c of rank r is a copy of; cells beyond
\* a boundary that is not periodic keep a coordinate outside of the domain.
Global ==
  [p \in Rank \X Local |->
     [k \in Axis |-> LET x == p[1][k] * Inner[k] + p[2][k] - GuardOf[k]
                     IN  IF Periodic[k] THEN x % (Extent[k] * Inner[k]) ELSE x]]
================================================================================
