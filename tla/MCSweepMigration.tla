------------------------- MODULE MCSweepMigration -------------------------
(* Model-checking instances of SweepMigration.                             *)
EXTENDS SweepMigration
=============================================================================
