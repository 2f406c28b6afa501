------------------------------- MODULE MCPool -------------------------------
(* Model-checking instances of Pool.                                       *)
EXTENDS Pool, TLC

\* Callers are interchangeable: every one may take any role.
Symmetry == Permutations(Callers)
=============================================================================
