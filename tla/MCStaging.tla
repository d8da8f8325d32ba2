------------------------------ MODULE MCStaging ------------------------------
(***************************************************************************)
(* Instances of Staging for TLC.                                           *)
(***************************************************************************)
EXTENDS Staging, TLC

Symmetry == Permutations(Claimants) \cup Permutations(Restorers)
=============================================================================
