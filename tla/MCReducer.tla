------------------------------- MODULE MCReducer -------------------------------
(* An instance of Reducer for TLC. *)
EXTENDS Reducer

Symmetry == Permutations(Reducers) \cup Permutations(Sessions)
=============================================================================
