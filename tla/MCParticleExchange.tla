-------------------------- MODULE MCParticleExchange ---------------------------
(* ParticleExchange on small process grids; each cfg picks one.                 *)
EXTENDS ParticleExchange

CONSTANTS p1, p2

Pair2 == <<1, 2>>
Grid2 == <<2, 2>>
Single3 == <<1, 1, 1>>
Line3 == <<1, 1, 2>>
AllPeriodic2 == <<TRUE, TRUE>>
AllPeriodic3 == <<TRUE, TRUE, TRUE>>
OnlyX2 == <<TRUE, FALSE>>

\* The particles start on one rank, or at opposite ends.
OneCorner == [t \in Tag |-> [k \in Axis |-> 0]]
Opposite == [t \in Tag |-> [k \in Axis |-> IF t = p1 THEN 0 ELSE Extent[k] - 1]]
================================================================================
