------------------------------- MODULE MCLog --------------------------------
(* Instances of Log for TLC. *)
EXTENDS Log, TLC

DataSymmetry == Permutations(Blocks) \cup Permutations(Vals)
=============================================================================
