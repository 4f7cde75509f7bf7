---------------------------- MODULE MCParticleSort -----------------------------
(* ParticleSort on every array of up to five slots with two cells.             *)
EXTENDS ParticleSort

MCCell == 0 .. NumCells - 1
MCTag == 0 .. Size - 1
================================================================================
