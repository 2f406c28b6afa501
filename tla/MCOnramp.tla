------------------------------ MODULE MCOnramp ------------------------------
(* The onramp for TLC: swaps and task slots are interchangeable.           *)
EXTENDS Onramp, TLC

Symmetry == Permutations(Swaps) \cup Permutations(Tasks)
=============================================================================
