------------------------------- MODULE MCNode -------------------------------
(* Model-checking instances of Node.                                       *)
EXTENDS Node
=============================================================================
