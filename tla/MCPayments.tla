---------------------------- MODULE MCPayments ----------------------------
(* Model-checking instances of Payments.                                   *)
EXTENDS Payments, TLC

\* Callers run the same code.
Symmetry == Permutations(Tasks)
=============================================================================
