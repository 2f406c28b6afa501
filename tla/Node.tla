-------------------------------- MODULE Node --------------------------------
(***************************************************************************)
(* The life of the relay's Lightning node: start-up from the files of its  *)
(* data directory, connections to peers while it runs, and shutdown, with  *)
(* crashes and power failures in between.                                  *)
(*                                                                         *)
(* LDK is external: its PeerManager keeps the connections, messages from   *)
(* connected peers change the ChannelManager, which the background         *)
(* processor saves, and every funded channel has a ChannelMonitor that is  *)
(* on disk from the start.  There is at most one channel with a peer, and  *)
(* one address for each.                                                   *)
(***************************************************************************)
EXTENDS Naturals, FiniteSets

CONSTANTS Peers,
          Announced,   \* peers with an address in the network graph, onion ones aside
          Steady,      \* announced peers that can always be reached
          None,
          Env,         \* what the environment may do, see EnvKinds
          MaxCrashes   \* bound on crashes

\* "power": a crash loses what was written and not synced;
\* "read":  a file that is there cannot be read;
\* "write": the background processor fails to write;
\* "panic": an event handler panics in it.
EnvKinds == {"power", "read", "write", "panic"}

Secrets == {"wallet", "keys"}   \* wallet_seed.txt and keys_seed

\* Who sets up connections: the reconnect loop, the console, and a task spawned for
\* ConnectionNeeded or for an accepted stream.
Dialers == {"loop", "cli", "spawned"}

ASSUME NodeAssumption ==
  /\ Steady \subseteq Announced /\ Announced \subseteq Peers
  /\ None \notin Peers \cup {"connect", "disconnect", "quit"}
  /\ \A S \in SUBSET Peers : S # None
  /\ Env \subseteq EnvKinds
  /\ MaxCrashes \in Nat

VARIABLES pc,        \* where start_ldk is
          file,      \* the two secrets on disk
          manager,   \* channels in the manager's file, None without one
          monitors,  \* channels with a monitor on disk
          ran,       \* the node has run
          watched,   \* channels the ChainMonitor watches
          gap,       \* (history) why this start, or the next, may not see the monitors:
                     \* a manager that could not be read, or was not saved for once
          chans,     \* channels in memory
          dirty,     \* the ChannelManager differs from its file
          conn,      \* connected peers
          dial,      \* the peer each dialer is connecting to, or None
          loop, todo,\* the reconnect loop and the peers it has left
          cmd,       \* the console's command
          stop, bp,  \* stop_listen_connect; the background processor
          stray,     \* dialers that the disconnection of all peers has missed
          faults,    \* of the environment, since the node ran last; "cut" if its seed
                     \* was written by a start that crashed before the sync
          crashes

files == <<file, manager, monitors>>
links == <<conn, dial, loop, todo, cmd, stop, stray>>
state == <<chans, dirty>>
began == <<gap, watched>>
vars == <<pc, files, ran, began, state, links, bp, faults, crashes>>

\* A secret's file holds the secret the node ran with last, or another one.
Contents == {"absent", "partial", "used", "new"}
Absent == [is |-> "absent", synced |-> FALSE]
Partial == [is |-> "partial", synced |-> FALSE]
Drawn == [is |-> "new", synced |-> FALSE]
Whole(s) == file[s].is \in {"used", "new"}
NoDial == [d \in Dialers |-> None]
NoCmd == [name |-> None, peer |-> None]
QuitCmd == [name |-> "quit", peer |-> None]

\* start_ldk once its tasks are spawned.
Up == pc \in {"run", "stopping", "disconnected", "stopped"}

Init ==
  /\ pc = "down"
  /\ file = [s \in Secrets |-> Absent]
  /\ manager = None
  /\ monitors = {}
  /\ ran = FALSE
  /\ gap = {} /\ watched = {}
  /\ chans = {} /\ dirty = FALSE
  /\ conn = {} /\ dial = NoDial /\ loop = "wait" /\ todo = {} /\ cmd = NoCmd
  /\ stop = FALSE /\ bp = "off" /\ stray = {}
  /\ faults = {} /\ crashes = 0

-----------------------------------------------------------------------------
(* Start-up.                                                               *)

Goes(to) == pc' = to /\ UNCHANGED <<manager, monitors, began, state, links, bp, crashes>>

\* BdkOnchainWallet::new: a file that is there is parsed, and an error ends the
\* start; without one a mnemonic is drawn and written, but not synced.
wallet_read ==
  /\ pc = "down"
  /\ file["wallet"].is # "absent"
  /\ \/ /\ Whole("wallet")
        /\ Goes("keys")
        /\ UNCHANGED <<file, ran, faults>>
     \/ /\ file["wallet"].is = "partial" \/ "read" \in Env
        /\ Goes("down")
        /\ UNCHANGED <<file, ran, faults>>

wallet_create ==
  /\ pc = "down"
  /\ file["wallet"].is = "absent"
  /\ file' = [file EXCEPT !["wallet"] = Partial]
  /\ Goes("wallet_write")
  /\ UNCHANGED <<ran, faults>>

wallet_write ==
  /\ pc = "wallet_write"
  /\ file' = [file EXCEPT !["wallet"] = Drawn]
  /\ Goes("keys")
  /\ UNCHANGED <<ran, faults>>

\* keys_seed: 32 bytes are taken, any other length fails the assertion ...
keys_read ==
  /\ pc = "keys"
  /\ file["keys"].is # "absent"
  /\ Goes(IF file["keys"].is = "partial" THEN "down" ELSE "state")
  /\ UNCHANGED <<file, ran, faults>>

\* ... and whatever keeps the file from being read makes a new seed: File::create
\* truncates a file that is there.
keys_create ==
  /\ pc = "keys"
  /\ file["keys"].is = "absent" \/ "read" \in Env
  /\ faults' = IF file["keys"].is = "absent" THEN faults ELSE faults \cup {"read"}
  /\ file' = [file EXCEPT !["keys"] = Partial]
  /\ Goes("keys_write")
  /\ UNCHANGED ran

keys_write ==
  /\ pc = "keys_write"
  /\ file' = [file EXCEPT !["keys"] = Drawn]
  /\ Goes("keys_sync")
  /\ UNCHANGED <<ran, faults>>

\* (mutant: sync_all is not called)
keys_not_synced ==
  /\ pc = "keys_sync"
  /\ Goes("state")
  /\ UNCHANGED <<file, ran, faults>>

keys_sync ==
  /\ pc = "keys_sync"
  /\ file' = [file EXCEPT !["keys"].synced = TRUE]
  /\ Goes("state")
  /\ UNCHANGED <<ran, faults>>

\* The node runs: its tasks are spawned, its secrets are in use.
Runs ==
  /\ pc' = "run"
  /\ ran' = TRUE
  /\ file' = [s \in Secrets |-> [file[s] EXCEPT !.is = "used"]]
  /\ bp' = "on"
  /\ dirty' = FALSE
  /\ faults' = {f \in faults : f = "cut" /\ ~file["keys"].synced}
  /\ UNCHANGED <<manager, monitors, links, crashes>>

\* A manager is read with the monitors, and the ChainMonitor is given them all.
manager_read ==
  /\ pc = "state"
  /\ manager # None
  /\ gap' = {}
  /\ chans' = manager \cap monitors
  /\ watched' = monitors
  /\ Runs

\* Whatever keeps the manager's file from being opened makes a fresh node, and the
\* monitors are dropped.
manager_fresh ==
  /\ pc = "state"
  /\ manager = None \/ "read" \in Env
  /\ gap' = IF manager = None THEN gap ELSE {"read"}
  /\ chans' = {}
  /\ watched' = {}
  /\ Runs

-----------------------------------------------------------------------------
(* LDK (external).                                                         *)

\* A channel is negotiated and funded: its monitor is saved and watched.
NewChannel(p) ==
  /\ chans' = chans \cup {p}
  /\ monitors' = monitors \cup {p}
  /\ watched' = watched \cup {p}
  /\ dirty' = TRUE

\* A message from a peer changes its channel, or closes it.
channel_updated(p) ==
  /\ Up /\ p \in chans \cap conn
  /\ chans' \in {chans, chans \ {p}}
  /\ dirty' = TRUE
  /\ UNCHANGED <<pc, files, ran, began, links, bp, faults, crashes>>

peer_gone(p) ==
  /\ p \in conn
  /\ conn' = conn \ {p}
  /\ UNCHANGED <<pc, files, ran, began, state, dial, loop, todo, cmd, stop, stray, bp, faults, crashes>>

\* process_events_async saves the manager.
bp_saves ==
  /\ bp = "on" /\ dirty
  /\ manager' = chans /\ dirty' = FALSE
  /\ UNCHANGED <<pc, file, monitors, ran, began, chans, links, bp, faults, crashes>>

-----------------------------------------------------------------------------
(* Connections.                                                            *)

Starts(d, p) == dial' = [dial EXCEPT ![d] = p]

\* do_connect_peer returns: the peer is connected, or the attempt failed or timed
\* out.
connected(d) ==
  /\ dial[d] # None
  /\ conn' = conn \cup {dial[d]}
  /\ dial' = [dial EXCEPT ![d] = None]
  /\ UNCHANGED <<pc, files, ran, began, state, loop, todo, cmd, stop, stray, bp, faults, crashes>>

\* (mutant: only the handshake is awaited, not the end of the connection)
not_connected_unseen(d) ==
  /\ d # "loop"
  /\ dial[d] \notin Steady \cup {None}
  /\ dial' = [dial EXCEPT ![d] = None]
  /\ cmd' = IF d = "cli" THEN NoCmd ELSE cmd
  /\ UNCHANGED <<pc, files, ran, began, state, conn, loop, todo, stop, stray, bp, faults, crashes>>

not_connected(d) ==
  /\ dial[d] \notin Steady \cup {None}
  /\ dial' = [dial EXCEPT ![d] = None]
  /\ cmd' = IF d = "cli" THEN NoCmd ELSE cmd
  /\ UNCHANGED <<pc, files, ran, began, state, conn, loop, todo, stop, stray, bp, faults, crashes>>

LinkStep == UNCHANGED <<pc, files, ran, began, state, bp, faults, crashes>>

\* Every second reconnect_peers lists the channels ...
reconnect_tick ==
  /\ Up /\ loop = "wait"
  /\ loop' = "round"
  /\ todo' = chans
  /\ LinkStep /\ UNCHANGED <<conn, dial, cmd, stop, stray>>

\* Whether there is an address to try.
AddressOf(p) == p \in Announced

\* ... and takes its peers one by one: connected ones are skipped, a stop ends
\* the loop, the others are dialled at the addresses they announced.
reconnect_next(p) ==
  /\ loop = "round" /\ dial["loop"] = None
  /\ p \in todo
  /\ IF p \in conn \/ (~stop /\ ~AddressOf(p))
       THEN todo' = todo \ {p} /\ UNCHANGED <<loop, dial>>
     ELSE IF stop
       THEN loop' = "ended" /\ todo' = {} /\ UNCHANGED dial
       ELSE todo' = todo \ {p} /\ Starts("loop", p) /\ UNCHANGED loop
  /\ LinkStep /\ UNCHANGED <<conn, cmd, stop, stray>>

reconnect_done ==
  /\ loop = "round" /\ todo = {} /\ dial["loop"] = None
  /\ loop' = "wait"
  /\ LinkStep /\ UNCHANGED <<conn, dial, todo, cmd, stop, stray>>

\* The listener accepts a stream, looks at the flag and spawns the set-up.
accept(p) ==
  /\ Up /\ ~stop
  /\ dial["spawned"] = None
  /\ Starts("spawned", p)
  /\ LinkStep /\ UNCHANGED <<conn, loop, todo, cmd, stop, stray>>

\* ConnectionNeeded spawns a task that dials unless there is a connection.
ConnectionNeeded(p) ==
  /\ bp = "on"
  /\ dial["spawned"] = None /\ p \notin conn
  /\ Starts("spawned", p)
  /\ stray' = IF pc = "disconnected" THEN stray \cup {"spawned"} ELSE stray
  /\ LinkStep /\ UNCHANGED <<conn, loop, todo, cmd, stop>>

\* OpenChannelRequest: every inbound channel is accepted.
OpenChannelRequest(p) ==
  /\ bp = "on"
  /\ p \in conn \ chans
  /\ NewChannel(p)
  /\ UNCHANGED <<pc, file, manager, ran, gap, links, bp, faults, crashes>>

-----------------------------------------------------------------------------
(* The console.                                                            *)

\* connectpeer and openchannel connect, if necessary.
connect_peer_if_necessary(p) ==
  /\ Up /\ cmd = NoCmd
  /\ cmd' = [name |-> "connect", peer |-> p]
  /\ IF p \in conn THEN UNCHANGED dial ELSE Starts("cli", p)
  /\ LinkStep /\ UNCHANGED <<conn, loop, todo, stop, stray>>

\* That is all of connectpeer; openchannel goes on with create_channel, which
\* refuses a peer that has gone.
connectpeer_ends ==
  /\ cmd.name = "connect" /\ dial["cli"] = None
  /\ cmd' = NoCmd
  /\ LinkStep /\ UNCHANGED <<conn, dial, loop, todo, stop, stray>>

open_channel(p) ==
  /\ cmd.name = "connect" /\ dial["cli"] = None
  /\ p = cmd.peer /\ p \in conn \ chans
  /\ NewChannel(p)
  /\ cmd' = NoCmd
  /\ UNCHANGED <<pc, file, manager, ran, gap, conn, dial, loop, todo, stop, stray, bp, faults, crashes>>

\* disconnectpeer: peers with a channel are left alone; the check comes first.
do_disconnect_peer(p) ==
  /\ Up /\ cmd = NoCmd
  /\ p \in conn \ chans
  /\ cmd' = [name |-> "disconnect", peer |-> p]
  /\ LinkStep /\ UNCHANGED <<conn, dial, loop, todo, stop, stray>>

disconnect_by_node_id ==
  /\ cmd.name = "disconnect"
  /\ conn' = conn \ {cmd.peer}
  /\ cmd' = NoCmd
  /\ LinkStep /\ UNCHANGED <<dial, loop, todo, stop, stray>>

\* closechannel begins a shutdown that the peer's messages complete,
\* forceclosechannel takes the channel off the list at once.
close_channel(p) ==
  /\ Up /\ cmd = NoCmd
  /\ p \in chans
  /\ chans' \in {chans, chans \ {p}}
  /\ dirty' = TRUE
  /\ UNCHANGED <<pc, files, ran, began, links, bp, faults, crashes>>

-----------------------------------------------------------------------------
(* Shutdown and crash.                                                     *)

\* (mutant: the flag is not set before the peers are disconnected)
quit_unannounced ==
  /\ pc = "run" /\ cmd = NoCmd
  /\ cmd' = QuitCmd
  /\ pc' = "stopping"
  /\ UNCHANGED <<files, ran, began, state, conn, dial, loop, todo, stop, stray, bp, faults, crashes>>

\* quit ends the console's loop and with it the wait of start_ldk, which sets the
\* flag ...
quit ==
  /\ pc = "run" /\ cmd = NoCmd
  /\ cmd' = QuitCmd
  /\ pc' = "stopping"
  /\ stop' = TRUE
  /\ UNCHANGED <<files, ran, began, state, conn, dial, loop, todo, stray, bp, faults, crashes>>

\* ... and disconnects the peers.
disconnect_all_peers ==
  /\ pc = "stopping"
  /\ conn' = {}
  /\ stray' = {d \in Dialers : dial[d] # None}
  /\ pc' = "disconnected"
  /\ UNCHANGED <<files, ran, began, state, dial, loop, todo, cmd, stop, bp, faults, crashes>>

\* The background processor is told to end, and saves the manager as it does.
bp_exit ==
  /\ pc = "disconnected"
  /\ pc' = "stopped"
  /\ manager' = chans /\ dirty' = FALSE
  /\ bp' = "off"
  /\ UNCHANGED <<file, monitors, ran, began, chans, links, faults, crashes>>

\* The process is gone.
Gone ==
  /\ pc' = "down"
  /\ watched' = {}
  /\ chans' = {} /\ dirty' = FALSE
  /\ conn' = {} /\ dial' = NoDial /\ loop' = "wait" /\ todo' = {} /\ cmd' = NoCmd
  /\ stop' = FALSE /\ bp' = "off" /\ stray' = {}
  /\ UNCHANGED <<monitors, ran>>

\* A run that ends before the first manager was saved leaves its monitors without one.
Cut == gap' = IF manager = None /\ dirty THEN gap \cup {"unsaved"} ELSE gap

\* If it ends by itself, on an error in writing the manager, start_ldk goes through
\* the same steps and saves nothing; ...
bp_fails ==
  /\ bp = "on" /\ dirty /\ "write" \in Env
  /\ Gone /\ Cut
  /\ UNCHANGED <<file, manager, faults, crashes>>

\* (mutant: the save after a panic is left out)
bp_panics_unsaved ==
  /\ bp = "on" /\ "panic" \in Env
  /\ Gone
  /\ UNCHANGED <<file, manager, gap, faults, crashes>>

\* ... if an event handler panicked in it, start_ldk saves the manager first.
bp_panics ==
  /\ bp = "on" /\ "panic" \in Env
  /\ manager' = chans
  /\ Gone
  /\ UNCHANGED <<file, gap, faults, crashes>>

exit ==
  /\ pc = "stopped"
  /\ Gone
  /\ UNCHANGED <<file, manager, gap, faults, crashes>>

crash ==
  /\ pc # "down" /\ crashes < MaxCrashes
  /\ crashes' = crashes + 1
  /\ faults' = IF pc = "keys_sync" THEN faults \cup {"cut"} ELSE faults
  /\ Gone /\ Cut
  /\ UNCHANGED <<file, manager>>

\* Files that were synced survive a power failure, others may not; what is there
\* after it is on disk.
Lost(lost, left) ==
  [s \in Secrets |-> IF file[s].is = "absent" THEN Absent
                     ELSE IF s \in lost THEN left
                     ELSE [file[s] EXCEPT !.synced = TRUE]]

power_failure ==
  /\ pc # "down" /\ crashes < MaxCrashes /\ "power" \in Env
  /\ crashes' = crashes + 1
  /\ faults' = faults \cup {"power"}
  /\ \E lost \in SUBSET {s \in Secrets : ~file[s].synced}, left \in {Absent, Partial} :
       file' = Lost(lost, left)
  /\ Gone /\ Cut
  /\ UNCHANGED manager

-----------------------------------------------------------------------------

StartUp ==
  \/ wallet_read \/ wallet_create \/ wallet_write
  \/ keys_read \/ keys_create \/ keys_write \/ keys_sync
  \/ manager_read \/ manager_fresh

Dial(d) == connected(d) \/ not_connected(d)
reconnect_peers == reconnect_tick \/ (\E p \in Peers : reconnect_next(p)) \/ reconnect_done

Next ==
  \/ StartUp
  \/ \E p \in Peers : channel_updated(p) \/ peer_gone(p)
  \/ bp_saves
  \/ reconnect_peers
  \/ \E d \in Dialers : Dial(d)
  \/ \E p \in Peers : accept(p) \/ ConnectionNeeded(p) \/ OpenChannelRequest(p)
  \/ \E p \in Peers : \/ connect_peer_if_necessary(p) \/ open_channel(p)
                      \/ do_disconnect_peer(p) \/ close_channel(p)
  \/ connectpeer_ends \/ disconnect_by_node_id
  \/ quit \/ disconnect_all_peers \/ bp_exit \/ exit
  \/ bp_fails \/ bp_panics \/ crash \/ power_failure

Spec == Init /\ [][Next]_vars

\* The runtime polls the reconnect task and its timers, which end an attempt; that
\* it succeeds is certain of steady peers only.
Fairness ==
  WF_vars(\/ reconnect_peers
          \/ not_connected("loop")
          \/ dial["loop"] \in Steady /\ connected("loop"))

FairSpec == Spec /\ Fairness

-----------------------------------------------------------------------------
(* Properties.                                                             *)

\* Every variable stays in its domain.
TypeOK ==
  /\ pc \in {"down", "wallet_write", "keys", "keys_write", "keys_sync", "state",
             "run", "stopping", "disconnected", "stopped"}
  /\ file \in [Secrets -> [is : Contents, synced : BOOLEAN]]
  /\ ran \in BOOLEAN
  /\ manager = None \/ manager \subseteq Peers
  /\ monitors \subseteq Peers /\ watched \subseteq Peers /\ gap \subseteq {"read", "unsaved"}
  /\ chans \subseteq Peers /\ conn \subseteq Peers /\ dirty \in BOOLEAN
  /\ dial \in [Dialers -> Peers \cup {None}]
  /\ loop \in {"wait", "round", "ended"} /\ todo \subseteq Peers
  /\ cmd \in {NoCmd, QuitCmd} \cup [name : {"connect", "disconnect"}, peer : Peers]
  /\ stop \in BOOLEAN /\ bp \in {"off", "on"} /\ stray \subseteq Dialers
  /\ faults \subseteq EnvKinds \cup {"cut"} /\ crashes \in 0..MaxCrashes

\* A secret the node has run with stays on disk: the node's own keys survive even
\* a power failure, the wallet's mnemonic, which is not synced, does not.  Left out
\* are a file that cannot be read, which is taken for a missing one, and a seed
\* whose start crashed between write_all and sync_all: the next start reads it and
\* runs with it, and nothing syncs it any more.
SecretsKept ==
  /\ ran /\ faults \cap {"read", "cut"} = {} => file["keys"].is = "used"
  /\ ran /\ "power" \notin faults => file["wallet"].is = "used"

\* A node that runs watches every channel there is a monitor for: the manager is
\* on disk, however earlier runs ended, whenever there is a monitor.  Left out are
\* a start that could not read the manager, and those after a run that was cut off,
\* or could not write, between its first channel and the first save of a manager,
\* until a start finds one again: they drop the monitors.
MonitorsWatched == Up /\ gap = {} => monitors \subseteq watched

\* After a regular shutdown the manager's file is what the channels are: no peer
\* changes them once the background processor has saved them for the last time.
\* Left out are connections whose set-up was under way when the peers were
\* disconnected, or was asked for by an event after that.
CleanExitSaved == pc = "stopped" /\ bp = "off" /\ stray = {} => ~dirty

\* A channel peer that can be reached at an announced address is connected again,
\* however long the dialling of others takes.
Reconnected ==
  \A p \in Steady :
    pc = "run" /\ p \in chans \ conn ~> p \in conn \/ p \notin chans \/ pc # "run"
=============================================================================
