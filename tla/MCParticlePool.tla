---------------------------- MODULE MCParticlePool -----------------------------
(* ParticlePool on an array of a few slots, with one inner and one guard cell.  *)
EXTENDS ParticlePool

CONSTANTS inner, guard
MCCell == {inner, guard}
MCGuard == {guard}
================================================================================
