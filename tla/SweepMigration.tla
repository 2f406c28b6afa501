-------------------------- MODULE SweepMigration --------------------------
(***************************************************************************)
(* migrate_deprecated_spendable_outputs: the descriptors older releases    *)
(* left in three directories are handed to LDK's OutputSweeper and the     *)
(* directories removed.  It runs at every start, in a task of its own; the *)
(* process may die between any two file operations.                        *)
(***************************************************************************)
EXTENDS Naturals, FiniteSets

CONSTANTS Outputs,    \* spendable output descriptors, one per pending file
          MaxStarts   \* bound on the number of times the relay is started

ASSUME SweepAssumption == MaxStarts \in Nat \ {0}

Dirs == {"pending", "processing", "spendable"}

VARIABLES dirs,     \* the directories that exist
          files,    \* the descriptors in each directory
          tracked,  \* descriptors the sweeper has persisted
          pc, held, \* the running migration and the descriptors it read
          starts

vars == <<dirs, files, tracked, pc, held, starts>>

Pc == {"begin", "move", "write", "drop", "read", "track", "remove_spendable",
       "remove_pending", "done", "panicked"}

\* What earlier releases leave: nothing, or descriptors in one or another of the
\* directories, the first of which was the pending one.
Init ==
  /\ dirs \in {d \in SUBSET Dirs : d = {} \/ "pending" \in d}
  /\ \E home \in [Outputs -> Dirs] :
       files = [d \in Dirs |-> {o \in Outputs : d \in dirs /\ home[o] = d}]
  /\ dirs # {} => \E d \in dirs : files[d] # {}
  /\ tracked = {}
  /\ pc = "begin"
  /\ held = {}
  /\ starts = 1

Found == UNION {files[d] : d \in Dirs}

\* (mutant: returns when any of the directories is missing)
begin_any ==
  /\ pc = "begin"
  /\ pc' = IF dirs # Dirs THEN "done" ELSE "move"
  /\ UNCHANGED <<dirs, files, tracked, held, starts>>

\* (mutant: does not look into the pending directory)
begin_read ==
  /\ pc = "begin"
  /\ pc' = IF dirs = {} THEN "done" ELSE "read"
  /\ UNCHANGED <<dirs, files, tracked, held, starts>>

\* Nothing to do, or read_dir of the pending directory succeeds or fails.
begin ==
  /\ pc = "begin"
  /\ pc' = IF dirs = {} THEN "done" ELSE IF "pending" \in dirs THEN "move" ELSE "read"
  /\ UNCHANGED <<dirs, files, tracked, held, starts>>

\* create_dir_all and rename, file by file.
move(o) ==
  /\ pc = "move"
  /\ o \in files["pending"]
  /\ dirs' = dirs \cup {"processing"}
  /\ files' = [files EXCEPT !["pending"] = @ \ {o}, !["processing"] = @ \cup {o}]
  /\ UNCHANGED <<tracked, pc, held, starts>>

\* All moved: read whatever the processing directory holds.
concat ==
  /\ pc = "move"
  /\ files["pending"] = {}
  /\ held' = files["processing"]
  /\ pc' = IF held' = {} THEN "read" ELSE "write"
  /\ UNCHANGED <<dirs, files, tracked, starts>>

\* (mutant: the processing directory goes before the new file is written)
write_late ==
  /\ pc = "write"
  /\ dirs' = dirs \ {"processing"}
  /\ files' = [files EXCEPT !["processing"] = {}]
  /\ pc' = "drop"
  /\ UNCHANGED <<tracked, held, starts>>

\* One new file, under a random key, with all of them; persister.write is atomic.
write ==
  /\ pc = "write"
  /\ dirs' = dirs \cup {"spendable"}
  /\ files' = [files EXCEPT !["spendable"] = @ \cup held]
  /\ pc' = "drop"
  /\ UNCHANGED <<tracked, held, starts>>

drop_processing ==
  /\ pc = "drop"
  /\ dirs' = dirs \ {"processing"}
  /\ files' = [files EXCEPT !["processing"] = {}]
  /\ pc' = "read"
  /\ UNCHANGED <<tracked, held, starts>>

read ==
  /\ pc = "read"
  /\ held' = files["spendable"]
  /\ pc' = "track"
  /\ UNCHANGED <<dirs, files, tracked, starts>>

\* The sweeper skips descriptors it has, and has persisted the others when the
\* call returns.
track ==
  /\ pc = "track"
  /\ tracked' = tracked \cup held
  /\ held' = {}
  /\ pc' = "remove_spendable"
  /\ UNCHANGED <<dirs, files, starts>>

\* remove_dir_all(dir).unwrap(): a missing directory is an error, and a panic.
remove_dir_all(dir, next) ==
  /\ \/ dir \in dirs /\ pc' = next
     \/ dir \notin dirs /\ pc' = "panicked"
  /\ dirs' = dirs \ {dir}
  /\ files' = [files EXCEPT ![dir] = {}]
  /\ UNCHANGED <<tracked, held, starts>>

remove_spendable == pc = "remove_spendable" /\ remove_dir_all("spendable", "remove_pending")
remove_pending == pc = "remove_pending" /\ remove_dir_all("pending", "done")

\* The relay stops, by a crash or later, and is started again.
Restart ==
  /\ starts < MaxStarts
  /\ starts' = starts + 1
  /\ pc' = "begin"
  /\ held' = {}
  /\ UNCHANGED <<dirs, files, tracked>>

Step ==
  \/ begin \/ concat \/ write \/ drop_processing \/ read \/ track
  \/ remove_spendable \/ remove_pending
  \/ \E o \in Outputs : move(o)

Next == Step \/ Restart

Spec == Init /\ [][Next]_vars

\* The task is polled until it ends, and the relay is started again.
FairSpec == Spec /\ WF_vars(Step) /\ WF_vars(Restart)

-----------------------------------------------------------------------------

\* The directories, their contents and the task stay in their domains, and only
\* a directory that exists has contents.
TypeOK ==
  /\ dirs \subseteq Dirs
  /\ files \in [Dirs -> SUBSET Outputs]
  /\ \A d \in Dirs \ dirs : files[d] = {}
  /\ tracked \subseteq Outputs
  /\ pc \in Pc
  /\ held \subseteq Outputs
  /\ starts \in Nat

\* No descriptor is lost: what is on disk stays there, wherever a crash falls
\* between the renames, the rewrite and the removals, until the sweeper has it.
NothingLost == [][Found \cup tracked \subseteq Found' \cup tracked']_vars

\* A descriptor that was left behind reaches the sweeper.
AllTracked == \A o \in Outputs : o \in Found ~> o \in tracked

\* remove_dir_all of a directory that a start before a crash has removed panics;
\* by then there is nothing left to migrate.
PanicsLate == pc = "panicked" => Found = {}
=============================================================================
