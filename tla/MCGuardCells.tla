----------------------------- MODULE MCGuardCells ------------------------------
(* GuardCells in three dimensions on two by one by two ranks.                 *)
EXTENDS GuardCells

Grid == <<2, 1, 2>>
NotZ == <<TRUE, TRUE, FALSE>>
MCInner == <<3, 1, 2>>
MCGuardOf == <<2, 1, 1>>
================================================================================
