----------------------------- MODULE MCOfframp -----------------------------
(* Model-checking instances of Offramp.                                    *)
EXTENDS Offramp, TLC

Symmetry ==
  Permutations(Offramps) \cup Permutations(Bolts) \cup Permutations(Deposits)
    \cup Permutations(Calls) \cup Permutations(Jobs)
=============================================================================
