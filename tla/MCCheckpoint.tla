----------------------------- MODULE MCCheckpoint ------------------------------
(* Checkpoint for a run of a few steps.                                         *)
EXTENDS Checkpoint
================================================================================
