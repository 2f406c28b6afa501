----------------------- MODULE SweepMigrationProofs -----------------------
(* The migration loses no descriptor, for any set of them and any number   *)
(* of restarts.                                                            *)
EXTENDS SweepMigration, TLAPS

\* What the migration relies on at each of its steps: what it read is still what
\* the directory holds, and a directory is removed only once its contents are
\* somewhere else.
Progress ==
  /\ pc = "write" => held = files["processing"]
  /\ pc = "drop" => files["processing"] \subseteq files["spendable"]
  /\ pc = "track" => held = files["spendable"]
  /\ pc = "remove_spendable" => files["spendable"] \subseteq tracked
  /\ pc \in {"write", "drop", "read", "track", "remove_spendable", "remove_pending"}
       => files["pending"] = {}

IInv == TypeOK /\ Progress

LEMMA InitInv == Init => IInv
  BY SweepAssumption DEF SweepAssumption, Init, IInv, TypeOK, Progress, Dirs, Pc

LEMMA StepInv == IInv /\ [Next]_vars => IInv'
<1> SUFFICES ASSUME IInv, [Next]_vars PROVE IInv'
  OBVIOUS
<1> USE DEF IInv, TypeOK, Progress, Dirs, Pc
<1>1. CASE begin
  BY <1>1 DEF begin
<1>2. ASSUME NEW o \in Outputs, move(o) PROVE IInv'
  BY <1>2 DEF move
<1>3. CASE concat
  BY <1>3 DEF concat
<1>4. CASE write
  BY <1>4 DEF write
<1>5. CASE drop_processing
  BY <1>5 DEF drop_processing
<1>6. CASE read
  BY <1>6 DEF read
<1>7. CASE track
  BY <1>7 DEF track
<1>8. CASE remove_spendable
  BY <1>8 DEF remove_spendable, remove_dir_all
<1>9. CASE remove_pending
  BY <1>9 DEF remove_pending, remove_dir_all
<1>10. CASE Restart
  BY <1>10 DEF Restart
<1>11. CASE UNCHANGED vars
  BY <1>11 DEF vars
<1> QED
  BY <1>1, <1>2, <1>3, <1>4, <1>5, <1>6, <1>7, <1>8, <1>9, <1>10, <1>11 DEF Next, Step

\* Every start of the migration finds the directories consistent: the type
\* invariant and the step-by-step conditions hold, wherever earlier starts died.
THEOREM Inductive == Spec => []IInv
  BY InitInv, StepInv, PTL DEF Spec

\* The directories, their contents and the task stay in their domains.
THEOREM TypeCorrect == Spec => []TypeOK
<1>1. IInv => TypeOK
  BY DEF IInv
<1> QED
  BY <1>1, Inductive, PTL

\* In one step, what is in the directories or with the sweeper stays in one of
\* them: a file is removed only when its descriptors are elsewhere.
LEMMA StepKeeps ==
  IInv /\ [Next]_vars => Found \cup tracked \subseteq Found' \cup tracked'
<1> SUFFICES ASSUME IInv, [Next]_vars PROVE Found \cup tracked \subseteq Found' \cup tracked'
  OBVIOUS
<1>0. /\ Found = files["pending"] \cup files["processing"] \cup files["spendable"]
      /\ Found' = files'["pending"] \cup files'["processing"] \cup files'["spendable"]
  BY DEF Found, Dirs
<1> USE <1>0 DEF IInv, TypeOK, Progress, Dirs
<1>1. CASE UNCHANGED <<files, tracked>>
  BY <1>1
<1>2. ASSUME NEW o \in Outputs, move(o) PROVE Found \cup tracked \subseteq Found' \cup tracked'
  BY <1>2 DEF move
<1>3. CASE write
  BY <1>3 DEF write
<1>4. CASE drop_processing
  BY <1>4 DEF drop_processing
<1>5. CASE track
  BY <1>5 DEF track
<1>6. CASE remove_spendable
  BY <1>6 DEF remove_spendable, remove_dir_all
<1>7. CASE remove_pending
  BY <1>7 DEF remove_pending, remove_dir_all
<1> QED
  BY <1>1, <1>2, <1>3, <1>4, <1>5, <1>6, <1>7
  DEF Next, Step, begin, concat, read, Restart, vars

\* No descriptor is lost between the old directories and the sweeper, for any
\* number of descriptors and a crash between any two steps of any start.
THEOREM NoLoss == Spec => NothingLost
<1>1. IInv /\ [Next]_vars => [Found \cup tracked \subseteq Found' \cup tracked']_vars
  BY StepKeeps
<1> QED
  BY <1>1, Inductive, PTL DEF Spec, NothingLost

-----------------------------------------------------------------------------
(* When the migration panics.                                              *)

\* The pending directory is the first to be made and the last to be removed.
Emptied ==
  /\ "pending" \notin dirs => files["processing"] = {}
  /\ pc \in {"read", "track", "remove_spendable", "remove_pending"} => files["processing"] = {}
  /\ pc = "remove_pending" => files["spendable"] = {}
  /\ pc = "panicked" => \A d \in Dirs : files[d] = {}

LEMMA EmptiedInit == Init => Emptied
  BY DEF Init, Emptied, Dirs

LEMMA EmptiedStep == IInv /\ Emptied /\ [Next]_vars => Emptied'
<1> SUFFICES ASSUME IInv, Emptied, [Next]_vars PROVE Emptied'
  OBVIOUS
<1> USE DEF IInv, TypeOK, Progress, Emptied, Dirs
<1>1. CASE begin
  BY <1>1 DEF begin
<1>2. ASSUME NEW o \in Outputs, move(o) PROVE Emptied'
  BY <1>2 DEF move
<1>3. CASE concat
  BY <1>3 DEF concat
<1>4. CASE write \/ drop_processing
  BY <1>4 DEF write, drop_processing
<1>5. CASE read \/ track
  BY <1>5 DEF read, track
<1>6. CASE remove_spendable
  BY <1>6 DEF remove_spendable, remove_dir_all
<1>7. CASE remove_pending
  BY <1>7 DEF remove_pending, remove_dir_all
<1>8. CASE Restart \/ UNCHANGED vars
  BY <1>8 DEF Restart, vars
<1> QED
  BY <1>1, <1>2, <1>3, <1>4, <1>5, <1>6, <1>7, <1>8 DEF Next, Step

\* The unwrap of remove_dir_all panics only when every directory is empty, for
\* any number of descriptors and of interrupted starts.
THEOREM PanicHarmless == Spec => []PanicsLate
<1>1. Emptied => PanicsLate
  BY DEF Emptied, PanicsLate, Found
<1> QED
  BY <1>1, Inductive, EmptiedInit, EmptiedStep, PTL DEF Spec
=============================================================================
