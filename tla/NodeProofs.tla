----------------------------- MODULE NodeProofs -----------------------------
(***************************************************************************)
(* The safety properties of Node for every set of peers, every             *)
(* environment and any number of crashes.  The inductive invariant is the  *)
(* conjunction of four parts, each with a lemma for its steps:             *)
(*                                                                         *)
(*   TypeOK                                                                *)
(*   SecretsInv    what the start has written of the secrets and whether   *)
(*                 it would survive a power failure,                       *)
(*   WatchInv      where there is a monitor there is a manager on disk, or *)
(*                 the run that will save one, or a gap that is known,     *)
(*   ShutdownInv   from quit on the console does nothing else, and from    *)
(*                 disconnect_all_peers on a connection comes from a dial  *)
(*                 that stray knows.                                       *)
(***************************************************************************)
EXTENDS Node, TLAPS

\* keys_seed as the start leaves it: partial, whole, synced.  A whole one that is not
\* synced was cut off by a crash.
SecretsInv ==
  /\ SecretsKept
  /\ pc = "wallet_write" => file["wallet"].is = "partial"
  /\ pc = "keys_write" => file["keys"].is = "partial"
  /\ pc = "keys_sync" => file["keys"].is = "new"
  /\ pc = "state" => Whole("keys")
  /\ Whole("keys") /\ pc # "keys_sync" => file["keys"].synced \/ "cut" \in faults

\* What quit, disconnect_all_peers and bp_exit leave to the steps that follow.
Ending == pc \in {"stopping", "disconnected", "stopped"}
Processing == bp = "on" => pc \in {"run", "stopping", "disconnected"}
Disconnected == pc \in {"disconnected", "stopped"}
ShutdownInv ==
  /\ dial["cli"] # None => cmd.name = "connect"
  /\ Ending => stop /\ cmd = QuitCmd
  /\ Disconnected => /\ \A d \in Dialers : dial[d] # None => d \in stray
                     /\ stray = {} => conn = {}
  /\ Processing
  /\ CleanExitSaved

\* MonitorsWatched, with the reason why a start without a manager has no monitors to
\* drop: a run that still has to save its first manager has changes to save.
WatchInv ==
  /\ MonitorsWatched
  /\ manager = None /\ monitors # {} => gap # {} \/ dirty
  /\ dirty => Up
  /\ pc = "stopped" => manager # None
  /\ cmd # NoCmd => Up

IInv == TypeOK /\ SecretsInv /\ WatchInv /\ ShutdownInv

\* The types of what a step of the start that reaches the end, and the end of the
\* process, set in all cases.
FileRec == [is : Contents, synced : BOOLEAN]
LEMMA RunsTypes ==
  ASSUME TypeOK, Runs, chans' \subseteq Peers, watched' \subseteq Peers, gap' \subseteq {"read", "unsaved"}
  PROVE  TypeOK'
<1>1. file' \in [Secrets -> [is : Contents, synced : BOOLEAN]]
  <2> SUFFICES ASSUME NEW s \in Secrets
               PROVE  [file[s] EXCEPT !.is = "used"] \in [is : Contents, synced : BOOLEAN]
    BY DEF Runs
  <2> QED
    BY DEF TypeOK, Contents
<1>2. faults' \subseteq EnvKinds \cup {"cut"}
  BY DEF Runs, TypeOK
<1> QED
  BY <1>1, <1>2, Zenon DEF Runs, TypeOK, links

LEMMA GoneTypes ==
  ASSUME TypeOK, Gone, file' \in [Secrets -> [is : Contents, synced : BOOLEAN]],
         manager' = None \/ manager' \subseteq Peers,
         faults' \subseteq EnvKinds \cup {"cut"}, crashes' \in 0..MaxCrashes,
         gap' = gap \/ Cut
  PROVE  TypeOK'
<1>1. dial' \in [Dialers -> Peers \cup {None}]
  BY DEF Gone, NoDial
<1>2. cmd' \in {NoCmd, QuitCmd} \cup [name : {"connect", "disconnect"}, peer : Peers]
  BY Zenon DEF Gone
<1>3. gap' \subseteq {"read", "unsaved"}
  BY DEF Cut, TypeOK
<1> QED
  BY <1>1, <1>2, <1>3, Zenon DEF Gone, TypeOK

\* Every step keeps the types.
LEMMA TypeStep ==
  ASSUME TypeOK, Next
  PROVE  TypeOK'
<1> USE NodeAssumption DEF NodeAssumption, TypeOK, Secrets, files, links, state, began
<1>1. CASE wallet_read
  BY <1>1 DEF wallet_read, Goes
<1>2. CASE wallet_create
  BY <1>2 DEF wallet_create, Goes, Partial, Contents
<1>3. CASE wallet_write
  BY <1>3 DEF wallet_write, Goes, Drawn, Contents
<1>4. CASE keys_read
  BY <1>4 DEF keys_read, Goes
<1>5. CASE keys_create
  BY <1>5 DEF keys_create, Goes, Partial, Contents, EnvKinds
<1>6. CASE keys_write
  BY <1>6 DEF keys_write, Goes, Drawn, Contents
<1>7. CASE keys_sync
  <2>1. file' \in [Secrets -> [is : Contents, synced : BOOLEAN]]
    BY <1>7, ZenonT(40) DEF keys_sync
  <2> QED
    BY <1>7, <2>1 DEF keys_sync, Goes
<1>8. CASE manager_read
  <2>1. Runs /\ chans' \subseteq Peers /\ watched' \subseteq Peers /\ gap' \subseteq {"read", "unsaved"}
    BY <1>8 DEF manager_read
  <2> QED
    BY <2>1, RunsTypes
<1>9. CASE manager_fresh
  <2>1. Runs /\ chans' \subseteq Peers /\ watched' \subseteq Peers /\ gap' \subseteq {"read", "unsaved"}
    BY <1>9 DEF manager_fresh
  <2> QED
    BY <2>1, RunsTypes
<1>10. CASE bp_saves
  BY <1>10, ZenonT(40) DEF bp_saves
<1>11. CASE reconnect_tick
  BY <1>11 DEF reconnect_tick, LinkStep
<1>12. CASE reconnect_done
  BY <1>12 DEF reconnect_done, LinkStep
<1>13. CASE connectpeer_ends
  BY <1>13 DEF connectpeer_ends, LinkStep, NoCmd
<1>14. CASE disconnect_by_node_id
  BY <1>14 DEF disconnect_by_node_id, LinkStep, NoCmd
<1>15. CASE quit
  BY <1>15 DEF quit, NoCmd, QuitCmd
<1>16. CASE disconnect_all_peers
  BY <1>16 DEF disconnect_all_peers
<1>17. CASE bp_exit
  BY <1>17, Zenon DEF bp_exit
<1>18. CASE exit
  <2>1. file' \in [Secrets -> [is : Contents, synced : BOOLEAN]]
    BY <1>18 DEF exit
  <2>2. manager' = None \/ manager' \subseteq Peers
    BY <1>18, Zenon DEF exit
  <2> QED
    BY <1>18, <2>1, <2>2, GoneTypes, Zenon DEF exit
<1>19. CASE bp_fails
  <2>1. file' \in [Secrets -> [is : Contents, synced : BOOLEAN]]
    BY <1>19 DEF bp_fails
  <2>2. manager' = None \/ manager' \subseteq Peers
    BY <1>19, Zenon DEF bp_fails
  <2> QED
    BY <1>19, <2>1, <2>2, GoneTypes, Zenon DEF bp_fails
<1>20. CASE bp_panics
  <2>1. file' \in [Secrets -> [is : Contents, synced : BOOLEAN]]
    BY <1>20 DEF bp_panics
  <2>2. manager' = None \/ manager' \subseteq Peers
    BY <1>20, Zenon DEF bp_panics
  <2> QED
    BY <1>20, <2>1, <2>2, GoneTypes, Zenon DEF bp_panics
<1>21. CASE crash
  <2>1. file' \in [Secrets -> [is : Contents, synced : BOOLEAN]]
    BY <1>21 DEF crash
  <2>2. manager' = None \/ manager' \subseteq Peers
    BY <1>21, Zenon DEF crash
  <2>3. faults' \subseteq EnvKinds \cup {"cut"}
    BY <1>21, Zenon DEF crash, EnvKinds
  <2>4. crashes' \in 0..MaxCrashes
    BY <1>21 DEF crash
  <2> QED
    BY <1>21, <2>1, <2>2, <2>3, <2>4, GoneTypes, Zenon DEF crash
<1>22. CASE power_failure
  <2>1. file' \in [Secrets -> [is : Contents, synced : BOOLEAN]]
    <3>1. PICK lost \in SUBSET {s \in Secrets : ~file[s].synced}, left \in {Absent, Partial} : file' = Lost(lost, left)
      BY <1>22, Zenon DEF power_failure
    <3>2. Absent \in FileRec /\ Partial \in FileRec
      BY DEF Absent, Partial, FileRec, Contents
    <3>3. \A s \in Secrets : file[s] \in FileRec /\ [file[s] EXCEPT !.synced = TRUE] \in FileRec
      BY ZenonT(40) DEF FileRec
    <3> HIDE NodeAssumption DEF TypeOK, Secrets
    <3> QED
      BY <3>1, <3>2, <3>3, ZenonT(40) DEF Lost, FileRec
  <2>2. manager' = None \/ manager' \subseteq Peers
    BY <1>22, Zenon DEF power_failure
  <2>3. faults' \subseteq EnvKinds \cup {"cut"}
    BY <1>22, Zenon DEF power_failure, EnvKinds
  <2>4. crashes' \in 0..MaxCrashes
    BY <1>22 DEF power_failure
  <2> QED
    BY <1>22, <2>1, <2>2, <2>3, <2>4, GoneTypes, Zenon DEF power_failure
<1>23. ASSUME NEW p \in Peers, channel_updated(p)
       PROVE  TypeOK'
  BY <1>23 DEF channel_updated
<1>24. ASSUME NEW p \in Peers, peer_gone(p)
       PROVE  TypeOK'
  BY <1>24 DEF peer_gone
<1>25. ASSUME NEW p \in Peers, reconnect_next(p)
       PROVE  TypeOK'
  BY <1>25 DEF reconnect_next, LinkStep, Starts, Dialers
<1>26. ASSUME NEW p \in Peers, accept(p)
       PROVE  TypeOK'
  BY <1>26 DEF accept, LinkStep, Starts, Dialers
<1>27. ASSUME NEW p \in Peers, ConnectionNeeded(p)
       PROVE  TypeOK'
  BY <1>27 DEF ConnectionNeeded, LinkStep, Starts, Dialers
<1>28. ASSUME NEW p \in Peers, OpenChannelRequest(p)
       PROVE  TypeOK'
  BY <1>28 DEF OpenChannelRequest, NewChannel
<1>29. ASSUME NEW p \in Peers, connect_peer_if_necessary(p)
       PROVE  TypeOK'
  BY <1>29 DEF connect_peer_if_necessary, LinkStep, Starts, NoCmd, Dialers
<1>30. ASSUME NEW p \in Peers, open_channel(p)
       PROVE  TypeOK'
  BY <1>30 DEF open_channel, NewChannel, NoCmd
<1>31. ASSUME NEW p \in Peers, do_disconnect_peer(p)
       PROVE  TypeOK'
  BY <1>31 DEF do_disconnect_peer, LinkStep, NoCmd
<1>32. ASSUME NEW p \in Peers, close_channel(p)
       PROVE  TypeOK'
  BY <1>32 DEF close_channel, NoCmd
<1>33. ASSUME NEW d \in Dialers, connected(d)
       PROVE  TypeOK'
  BY <1>33 DEF connected
<1>34. ASSUME NEW d \in Dialers, not_connected(d)
       PROVE  TypeOK'
  BY <1>34 DEF not_connected, NoCmd
<1> QED
  BY ZenonT(30), <1>1, <1>2, <1>3, <1>4, <1>5, <1>6, <1>7, <1>8, <1>9, <1>10, <1>11, <1>12,
     <1>13, <1>14, <1>15, <1>16, <1>17, <1>18, <1>19, <1>20, <1>21, <1>22, <1>23, <1>24,
     <1>25, <1>26, <1>27, <1>28, <1>29, <1>30, <1>31, <1>32, <1>33, <1>34
  DEF Next, StartUp, Dial, reconnect_peers


\* Steps that touch neither the files nor what is said of them.
LEMMA SecretsFrame ==
  ASSUME SecretsInv, UNCHANGED <<file, ran, faults>>,
         \/ pc' = pc
         \/ pc # "keys_sync" /\ pc' \notin {"wallet_write", "keys_write", "keys_sync", "state"}
  PROVE  SecretsInv'
BY DEF SecretsInv, SecretsKept, Whole

\* The node runs with what it found or made.
LEMMA SecretsRun ==
  ASSUME TypeOK, SecretsInv, pc = "state", Runs
  PROVE  SecretsInv'
<1>1. /\ file'["keys"].is = "used" /\ file'["wallet"].is = "used"
      /\ file'["keys"].synced = file["keys"].synced
  BY DEF Runs, Secrets, TypeOK
<1>2. file["keys"].synced \/ "cut" \in faults
  BY DEF SecretsInv
<1>3. file'["keys"].synced \/ "cut" \in faults'
  BY <1>1, <1>2, Zenon DEF Runs
<1> QED
  BY <1>1, <1>3, Zenon DEF SecretsInv, SecretsKept, Whole, Runs

\* What a power failure does to a file.
LEMMA PowerFailure ==
  ASSUME TypeOK, power_failure, NEW s \in Secrets
  PROVE  \/ file[s].is = "absent" /\ file'[s] = Absent
         \/ file[s].is # "absent" /\ ~file[s].synced /\ file'[s] \in {Absent, Partial}
         \/ file[s].is # "absent" /\ file'[s].is = file[s].is /\ file'[s].synced
<1>1. PICK lost \in SUBSET {x \in Secrets : ~file[x].synced}, left \in {Absent, Partial} :
        file' = Lost(lost, left)
  BY Zenon DEF power_failure
<1>2. file'[s] = IF file[s].is = "absent" THEN Absent
                ELSE IF s \in lost THEN left ELSE [file[s] EXCEPT !.synced = TRUE]
  BY <1>1, Zenon DEF Lost
<1>3. [file[s] EXCEPT !.synced = TRUE].is = file[s].is /\ [file[s] EXCEPT !.synced = TRUE].synced = TRUE
  BY DEF TypeOK
<1>4. CASE file[s].is = "absent"
  BY <1>2, <1>4, Zenon
<1>5. CASE file[s].is # "absent" /\ s \in lost
  BY <1>1, <1>2, <1>5, Zenon
<1>6. CASE file[s].is # "absent" /\ s \notin lost
  BY <1>2, <1>3, <1>6, Zenon
<1> QED
  BY <1>4, <1>5, <1>6, Zenon

LEMMA SecretsStep ==
  ASSUME TypeOK, SecretsInv, ShutdownInv, Next
  PROVE  SecretsInv'
<1>1. CASE UNCHANGED <<pc, file, ran, faults>>
  BY <1>1, SecretsFrame
<1>2. CASE wallet_read
  BY <1>2 DEF wallet_read, Goes, SecretsInv, SecretsKept, Whole
<1>3. CASE wallet_create
  <2>1. file'["wallet"] = Partial /\ file'["keys"] = file["keys"]
    BY <1>3 DEF wallet_create, Secrets, TypeOK
  <2> QED
    BY <1>3, <2>1 DEF wallet_create, Goes, SecretsInv, SecretsKept, Whole, Partial
<1>4. CASE wallet_write
  <2>1. file'["wallet"] = Drawn /\ file'["keys"] = file["keys"]
    BY <1>4 DEF wallet_write, Secrets, TypeOK
  <2> QED
    BY <1>4, <2>1 DEF wallet_write, Goes, SecretsInv, SecretsKept, Whole
<1>5. CASE keys_read
  BY <1>5 DEF keys_read, Goes, SecretsInv, SecretsKept, Whole, TypeOK, Contents, Secrets
<1>6. CASE keys_create
  <2>1. file'["keys"] = Partial /\ file'["wallet"] = file["wallet"]
    BY <1>6 DEF keys_create, Secrets, TypeOK
  <2> QED
    BY <1>6, <2>1 DEF keys_create, Goes, SecretsInv, SecretsKept, Whole, Partial
<1>7. CASE keys_write
  <2>1. file'["keys"] = Drawn /\ file'["wallet"] = file["wallet"]
    BY <1>7 DEF keys_write, Secrets, TypeOK
  <2> QED
    BY <1>7, <2>1 DEF keys_write, Goes, SecretsInv, SecretsKept, Whole, Drawn
<1>8. CASE keys_sync
  <2>1. file'["keys"].is = file["keys"].is /\ file'["keys"].synced /\ file'["wallet"] = file["wallet"]
    BY <1>8 DEF keys_sync, Secrets, TypeOK
  <2> QED
    BY <1>8, <2>1 DEF keys_sync, Goes, SecretsInv, SecretsKept, Whole
<1>9. CASE manager_read \/ manager_fresh
  BY <1>9, SecretsRun, Zenon DEF manager_read, manager_fresh
<1>10. CASE quit \/ disconnect_all_peers \/ bp_exit \/ exit \/ bp_fails \/ bp_panics
  <2>1. pc # "keys_sync" /\ pc' \in {"stopping", "disconnected", "stopped", "down"}
    BY <1>10 DEF quit, disconnect_all_peers, bp_exit, exit, bp_fails, bp_panics, Gone, ShutdownInv, Processing
  <2>2. UNCHANGED <<file, ran, faults>>
    BY <1>10 DEF quit, disconnect_all_peers, bp_exit, exit, bp_fails, bp_panics, Gone, files
  <2> QED
    BY <2>1, <2>2, SecretsFrame
<1>11. CASE crash
  BY <1>11 DEF crash, Gone, SecretsInv, SecretsKept, Whole
<1>12. CASE power_failure
  <2>1. ran' = ran /\ pc' = "down" /\ faults' = faults \cup {"power"}
    BY <1>12 DEF power_failure, Gone
  <2>2. ASSUME ran, faults \cap {"read", "cut"} = {}
        PROVE  file'["keys"].is = "used"
    <3>1. file["keys"].is = "used" /\ file["keys"].synced
      BY <2>2 DEF SecretsInv, SecretsKept, Whole
    <3> QED
      BY <1>12, <3>1, PowerFailure DEF Secrets
  <2>3. Whole("keys")' => file'["keys"].synced
    BY <1>12, PowerFailure DEF Secrets, Whole, Absent, Partial
  <2> QED
    BY <2>1, <2>2, <2>3 DEF SecretsInv, SecretsKept
<1> QED
  <2>1. ASSUME NEW p \in Peers,
               \/ channel_updated(p) \/ peer_gone(p) \/ reconnect_next(p) \/ accept(p)
               \/ ConnectionNeeded(p) \/ OpenChannelRequest(p) \/ connect_peer_if_necessary(p)
               \/ open_channel(p) \/ do_disconnect_peer(p) \/ close_channel(p)
        PROVE  UNCHANGED <<pc, file, ran, faults>>
    BY <2>1, ZenonT(40)
    DEF channel_updated, peer_gone, reconnect_next, accept, ConnectionNeeded, OpenChannelRequest,
        connect_peer_if_necessary, open_channel, do_disconnect_peer, close_channel, LinkStep, files
  <2>2. ASSUME NEW d \in Dialers, connected(d) \/ not_connected(d)
        PROVE  UNCHANGED <<pc, file, ran, faults>>
    BY <2>2, Zenon DEF connected, not_connected, files
  <2>3. ASSUME bp_saves \/ reconnect_tick \/ reconnect_done \/ connectpeer_ends \/ disconnect_by_node_id
        PROVE  UNCHANGED <<pc, file, ran, faults>>
    BY <2>3, Zenon DEF bp_saves, reconnect_tick, reconnect_done, connectpeer_ends, disconnect_by_node_id,
                       LinkStep, files
  <2> QED
    BY <1>1, <1>2, <1>3, <1>4, <1>5, <1>6, <1>7, <1>8, <1>9, <1>10, <1>11, <1>12, <2>1, <2>2, <2>3, Zenon
    DEF Next, StartUp, Dial, reconnect_peers


\* Steps that leave the channels' files alone, and have no change to save or keep it.
LEMMA WatchFrame ==
  ASSUME WatchInv, UNCHANGED <<manager, monitors, gap, watched, dirty>>, Up' <=> Up,
         pc' = "stopped" => pc = "stopped",
         cmd' \in {cmd, NoCmd} \/ Up
  PROVE  WatchInv'
BY DEF WatchInv, MonitorsWatched

\* The process ends: what it had not saved of its first channels is a gap.
LEMMA WatchGone ==
  ASSUME WatchInv, Gone,
         \/ manager' = manager /\ Cut
         \/ manager' # None /\ gap' = gap
  PROVE  WatchInv'
<1>1. ~Up' /\ ~dirty' /\ monitors' = monitors /\ pc' # "stopped" /\ cmd' = NoCmd
  BY DEF Gone, Up
<1>2. ASSUME manager' = manager, Cut, manager = None, monitors # {}
      PROVE  gap' # {}
  BY <1>2 DEF WatchInv, Cut
<1> QED
  BY <1>1, <1>2, Zenon DEF WatchInv, MonitorsWatched

\* NewChannel saves and watches the monitor; a start that finds the manager watches
\* them all, and one that rightly finds none has no monitors.
LEMMA WatchStep ==
  ASSUME TypeOK, WatchInv, ShutdownInv, Next
  PROVE  WatchInv'
<1>1. ASSUME NEW S \in SUBSET Peers
      PROVE  S # None
  BY <1>1, NodeAssumption DEF NodeAssumption
<1>2. ASSUME NEW p \in Peers, OpenChannelRequest(p) \/ open_channel(p)
      PROVE  WatchInv'
  <2>1. NewChannel(p) /\ Up
    <3>1. CASE OpenChannelRequest(p)
      BY <1>2, <3>1 DEF OpenChannelRequest, ShutdownInv, Processing, Up
    <3>2. CASE open_channel(p)
      <4>1. cmd # NoCmd
        BY <3>2, NodeAssumption DEF NodeAssumption, open_channel, NoCmd
      <4> QED
        BY <3>2, <4>1 DEF open_channel, WatchInv
    <3> QED
      BY <1>2, <3>1, <3>2
  <2>2. UNCHANGED <<pc, manager, gap>> /\ cmd' \in {cmd, NoCmd}
    BY <1>2, Zenon DEF OpenChannelRequest, open_channel, links
  <2>3. Up'
    BY <2>1, <2>2, Zenon DEF Up
  <2> QED
    BY <2>1, <2>2, <2>3 DEF NewChannel, WatchInv, MonitorsWatched
<1>3. CASE manager_read
  BY <1>3 DEF manager_read, Runs, WatchInv, MonitorsWatched, Up
<1>4. CASE manager_fresh
  <2>1. ~dirty /\ ~dirty' /\ pc' # "stopped" /\ Up'
    BY <1>4 DEF manager_fresh, Runs, WatchInv, Up
  <2>2. CASE manager = None
    BY <1>4, <2>1, <2>2 DEF manager_fresh, Runs, WatchInv, MonitorsWatched
  <2>3. CASE manager # None
    BY <1>4, <2>1, <2>3 DEF manager_fresh, Runs, WatchInv, MonitorsWatched
  <2> QED
    BY <2>2, <2>3
<1>5. CASE exit
  <2>1. manager # None
    BY <1>5 DEF exit, WatchInv
  <2> QED
    BY <1>5, <2>1, WatchGone, Zenon DEF exit
<1>6. CASE bp_panics
  <2>1. chans # None
    BY <1>1 DEF TypeOK
  <2> QED
    BY <1>6, <2>1, WatchGone DEF bp_panics
<1>7. CASE bp_fails \/ crash \/ power_failure
  <2>1. Gone /\ Cut /\ manager' = manager
    BY <1>7, Zenon DEF bp_fails, crash, power_failure
  <2> QED
    BY <2>1, WatchGone, Zenon
<1>8. ASSUME bp_saves \/ bp_exit
      PROVE  WatchInv'
  <2>1. chans # None
    BY <1>1 DEF TypeOK
  <2>2. manager' = chans /\ ~dirty' /\ UNCHANGED <<monitors, gap, watched, cmd>> /\ Up' = Up
    BY <1>8 DEF bp_saves, bp_exit, files, began, links, Up
  <2> QED
    BY <2>1, <2>2, Zenon DEF WatchInv, MonitorsWatched
<1>9. ASSUME NEW p \in Peers, channel_updated(p) \/ close_channel(p)
      PROVE  WatchInv'
  <2>1. UNCHANGED <<pc, manager, monitors, gap, watched>> /\ Up /\ dirty'
    BY <1>9 DEF channel_updated, close_channel, files, began, Up
  <2> QED
    BY <2>1, Zenon DEF WatchInv, MonitorsWatched, Up
<1>10. ASSUME wallet_read \/ wallet_create \/ wallet_write \/ keys_read \/ keys_create \/ keys_write \/ keys_sync
       PROVE  WatchInv'
  <2>1. UNCHANGED <<manager, monitors, gap, watched, dirty, cmd>> /\ ~Up /\ ~Up' /\ pc' # "stopped"
    BY <1>10 DEF wallet_read, wallet_create, wallet_write, keys_read, keys_create, keys_write, keys_sync,
                 Goes, began, state, links, Up
  <2> QED
    BY <2>1, WatchFrame
<1>11. ASSUME NEW p \in Peers,
             \/ peer_gone(p) \/ reconnect_next(p) \/ accept(p)
             \/ ConnectionNeeded(p) \/ connect_peer_if_necessary(p) \/ do_disconnect_peer(p)
       PROVE  UNCHANGED <<pc, manager, monitors, gap, watched, dirty>> /\ (cmd' \in {cmd, NoCmd} \/ Up)
  BY <1>11, ZenonT(40)
  DEF peer_gone, reconnect_next, accept, ConnectionNeeded, connect_peer_if_necessary,
      do_disconnect_peer, LinkStep, files, began, state
<1>12. ASSUME NEW d \in Dialers, connected(d) \/ not_connected(d)
       PROVE  UNCHANGED <<pc, manager, monitors, gap, watched, dirty>> /\ (cmd' \in {cmd, NoCmd} \/ Up)
  BY <1>12, Zenon DEF connected, not_connected, files, began, state
<1>13. ASSUME reconnect_tick \/ reconnect_done \/ connectpeer_ends \/ disconnect_by_node_id
       PROVE  UNCHANGED <<pc, manager, monitors, gap, watched, dirty>> /\ (cmd' \in {cmd, NoCmd} \/ Up)
  BY <1>13, Zenon DEF reconnect_tick, reconnect_done, connectpeer_ends, disconnect_by_node_id,
                      LinkStep, files, began, state
<1>14. ASSUME UNCHANGED <<pc, manager, monitors, gap, watched, dirty>>, cmd' \in {cmd, NoCmd} \/ Up
       PROVE  WatchInv'
  BY <1>14, WatchFrame DEF Up
<1>15. ASSUME quit \/ disconnect_all_peers
       PROVE  WatchInv'
  <2>1. UNCHANGED <<manager, monitors, gap, watched, dirty>> /\ Up /\ Up' /\ pc' # "stopped"
    BY <1>15 DEF quit, disconnect_all_peers, files, began, state, Up
  <2> QED
    BY <2>1, WatchFrame
<1> QED
  BY <1>2, <1>3, <1>4, <1>5, <1>6, <1>7, <1>8, <1>9, <1>10, <1>11, <1>12, <1>13, <1>14, <1>15, ZenonT(30)
  DEF Next, StartUp, Dial, reconnect_peers


\* A process that is gone has nothing under way.
LEMMA ShutdownGone ==
  ASSUME Gone
  PROVE  ShutdownInv'
BY DEF Gone, NoDial, Dialers, ShutdownInv, Ending, Disconnected, Processing, CleanExitSaved

\* No step after quit undoes what it and disconnect_all_peers established.
LEMMA ShutdownStep ==
  ASSUME TypeOK, ShutdownInv, Next
  PROVE  ShutdownInv'
<1> USE NodeAssumption DEF NodeAssumption, TypeOK, ShutdownInv, Ending, Disconnected, Processing, CleanExitSaved,
            Dialers, NoCmd, QuitCmd, links, state
<1>1. CASE wallet_read
  BY <1>1 DEF wallet_read, Goes
<1>2. CASE wallet_create
  BY <1>2 DEF wallet_create, Goes, Partial
<1>3. CASE wallet_write
  BY <1>3 DEF wallet_write, Goes, Drawn
<1>4. CASE keys_read
  BY <1>4 DEF keys_read, Goes
<1>5. CASE keys_create
  BY <1>5 DEF keys_create, Goes, Partial
<1>6. CASE keys_write
  BY <1>6 DEF keys_write, Goes, Drawn
<1>7. CASE keys_sync
  BY <1>7 DEF keys_sync, Goes
<1>8. CASE manager_read
  BY <1>8 DEF manager_read, Runs
<1>9. CASE manager_fresh
  BY <1>9 DEF manager_fresh, Runs
<1>10. CASE bp_saves
  BY <1>10 DEF bp_saves
<1>11. CASE reconnect_tick
  BY <1>11 DEF reconnect_tick, LinkStep
<1>12. CASE reconnect_done
  BY <1>12 DEF reconnect_done, LinkStep
<1>13. CASE connectpeer_ends
  BY <1>13 DEF connectpeer_ends, LinkStep, NoCmd
<1>14. CASE disconnect_by_node_id
  BY <1>14 DEF disconnect_by_node_id, LinkStep, NoCmd
<1>15. CASE quit
  BY <1>15 DEF quit, NoCmd, QuitCmd
<1>16. CASE disconnect_all_peers
  BY <1>16 DEF disconnect_all_peers
<1>17. CASE bp_exit
  BY <1>17 DEF bp_exit
<1>18. CASE exit
  BY <1>18, ShutdownGone, Zenon DEF exit
<1>19. CASE bp_fails
  BY <1>19, ShutdownGone, Zenon DEF bp_fails
<1>20. CASE bp_panics
  BY <1>20, ShutdownGone, Zenon DEF bp_panics
<1>21. CASE crash
  BY <1>21, ShutdownGone, Zenon DEF crash
<1>22. CASE power_failure
  BY <1>22, ShutdownGone, Zenon DEF power_failure
<1>23. ASSUME NEW p \in Peers, channel_updated(p)
       PROVE  ShutdownInv'
  BY <1>23 DEF channel_updated
<1>24. ASSUME NEW p \in Peers, peer_gone(p)
       PROVE  ShutdownInv'
  BY <1>24 DEF peer_gone
<1>25. ASSUME NEW p \in Peers, reconnect_next(p)
       PROVE  ShutdownInv'
  BY <1>25 DEF reconnect_next, LinkStep, Starts, Dialers
<1>26. ASSUME NEW p \in Peers, accept(p)
       PROVE  ShutdownInv'
  BY <1>26 DEF accept, LinkStep, Starts, Dialers
<1>27. ASSUME NEW p \in Peers, ConnectionNeeded(p)
       PROVE  ShutdownInv'
  BY <1>27 DEF ConnectionNeeded, LinkStep, Starts, Dialers
<1>28. ASSUME NEW p \in Peers, OpenChannelRequest(p)
       PROVE  ShutdownInv'
  BY <1>28 DEF OpenChannelRequest, NewChannel
<1>29. ASSUME NEW p \in Peers, connect_peer_if_necessary(p)
       PROVE  ShutdownInv'
  BY <1>29 DEF connect_peer_if_necessary, LinkStep, Starts, NoCmd, Dialers
<1>30. ASSUME NEW p \in Peers, open_channel(p)
       PROVE  ShutdownInv'
  BY <1>30 DEF open_channel, NewChannel, NoCmd
<1>31. ASSUME NEW p \in Peers, do_disconnect_peer(p)
       PROVE  ShutdownInv'
  BY <1>31 DEF do_disconnect_peer, LinkStep, NoCmd
<1>32. ASSUME NEW p \in Peers, close_channel(p)
       PROVE  ShutdownInv'
  BY <1>32 DEF close_channel, NoCmd
<1>33. ASSUME NEW d \in Dialers, connected(d)
       PROVE  ShutdownInv'
  BY <1>33 DEF connected
<1>34. ASSUME NEW d \in Dialers, not_connected(d)
       PROVE  ShutdownInv'
  BY <1>34 DEF not_connected, NoCmd
<1> QED
  BY ZenonT(30), <1>1, <1>2, <1>3, <1>4, <1>5, <1>6, <1>7, <1>8, <1>9, <1>10, <1>11, <1>12,
     <1>13, <1>14, <1>15, <1>16, <1>17, <1>18, <1>19, <1>20, <1>21, <1>22, <1>23, <1>24,
     <1>25, <1>26, <1>27, <1>28, <1>29, <1>30, <1>31, <1>32, <1>33, <1>34
  DEF Next, StartUp, Dial, reconnect_peers

-----------------------------------------------------------------------------

\* The inductive invariant holds of every reachable state of the node, whatever
\* crashes, power failures and file errors come at whatever step.
THEOREM Inductive == Spec => []IInv
<1>1. Init => IInv
  <2> SUFFICES ASSUME Init
               PROVE  IInv
    OBVIOUS
  <2>1. TypeOK
    <3>1. file \in [Secrets -> [is : Contents, synced : BOOLEAN]]
      BY DEF Init, Absent, Contents
    <3>2. dial \in [Dialers -> Peers \cup {None}]
      BY DEF Init, NoDial
    <3>3. crashes \in 0..MaxCrashes
      BY NodeAssumption DEF NodeAssumption, Init
    <3> QED
      BY <3>1, <3>2, <3>3, Zenon DEF Init, TypeOK
  <2>2. SecretsInv /\ WatchInv
    BY DEF Init, SecretsInv, SecretsKept, WatchInv, MonitorsWatched, Whole, Absent, Secrets, Up
  <2>3. ShutdownInv
    BY DEF Init, ShutdownInv, Ending, Disconnected, Processing, CleanExitSaved, NoDial, Dialers
  <2> QED
    BY <2>1, <2>2, <2>3 DEF IInv
<1>2. IInv /\ [Next]_vars => IInv'
  <2> SUFFICES ASSUME IInv, [Next]_vars
               PROVE  IInv'
    OBVIOUS
  <2>1. CASE Next
    BY <2>1, TypeStep, SecretsStep, WatchStep, ShutdownStep, Zenon DEF IInv
  <2>2. CASE UNCHANGED vars
    <3> USE <2>2 DEF vars, files, links, state, began, IInv
    <3>1. TypeOK'
      <4> HIDE DEF SecretsInv, ShutdownInv, WatchInv
      <4> QED
        BY SMTT(30), ZenonT(40) DEF TypeOK
    <3>2. SecretsInv' /\ WatchInv'
      BY Zenon DEF SecretsInv, SecretsKept, WatchInv, MonitorsWatched, Whole, Up
    <3>3. ShutdownInv'
      BY Zenon DEF ShutdownInv, Ending, Disconnected, Processing, CleanExitSaved
    <3> QED
      BY <3>1, <3>2, <3>3, Zenon
  <2> QED
    BY <2>1, <2>2
<1> QED
  BY <1>1, <1>2, PTL DEF Spec

\* Every variable of the node's life keeps to its domain.
THEOREM TypeCorrect == Spec => []TypeOK
BY Inductive, PTL DEF IInv

\* However many crashes and power failures there are, keys_seed and the wallet's
\* mnemonic stay what the node ran with, but for what SecretsKept leaves out.
THEOREM SecretsSurvive == Spec => []SecretsKept
<1>1. IInv => SecretsKept
  BY DEF IInv, SecretsInv
<1> QED
  BY <1>1, Inductive, PTL

\* However the runs before it ended, a node that runs watches every channel there is
\* a monitor for, but for the starts MonitorsWatched leaves out: as long as a manager
\* was saved after the first channel, a later start finds it and takes up them all.
THEOREM ChannelsWatched == Spec => []MonitorsWatched
<1>1. IInv => MonitorsWatched
  BY DEF IInv, WatchInv
<1> QED
  BY <1>1, Inductive, PTL

\* Setting stop_listen_connect before the peers are disconnected, and ending the
\* background processor last, leaves no change of the channels unsaved.
THEOREM ShutdownSaves == Spec => []CleanExitSaved
<1>1. IInv => CleanExitSaved
  BY DEF IInv, ShutdownInv
<1> QED
  BY <1>1, Inductive, PTL
=============================================================================
