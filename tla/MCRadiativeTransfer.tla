-------------------------- MODULE MCRadiativeTransfer --------------------------
(* RadiativeTransfer on arrays of four particles and four photons.              *)
EXTENDS RadiativeTransfer
================================================================================
