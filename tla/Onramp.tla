------------------------------- MODULE Onramp -------------------------------
(***************************************************************************)
(* The BTC -> cBTC direction of the relay: the swap_mappings table, the    *)
(* REST handler that opens a swap, the fulfil task that a PaymentClaimed   *)
(* event spawns, the start-up recovery, the expiry monitor and the         *)
(* operator's cancel-expired command, all working on the same rows and the *)
(* same on-chain invoices.                                                 *)
(*                                                                         *)
(* Every task runs on a multi-threaded runtime, so a step of this module   *)
(* is one database call, or one exchange with Cardano together with the    *)
(* synchronous code around it.  A crash may come between any two steps.    *)
(***************************************************************************)
EXTENDS Naturals, FiniteSets

CONSTANTS Swaps,          \* one element per POST /swap request
          Tasks,          \* slots for concurrently running fulfill_swap tasks
          NoSwap,         \* "no swap": what an idle task works on
          Env,            \* what the environment may do, see EnvKinds
          Expiry,         \* swap_expiry_ms, in clock ticks
          MaxTime,        \* bound on the clock once no expiry is ahead of it
          SubmitAttempts, \* attempts of submit_contract_tx_with_retry (3)
          MaxCrashes,     \* bound on the number of crashes
          MaxActiveSwaps  \* CARDANO_MAX_ACTIVE_SWAPS

\* "query": a state query fails, or answers from an index that lags;
\* "reply": a transaction lands but the submitter is told of an error;
\* "dup":   LDK delivers an event that was already handled once more;
\* "cli":   the operator runs cancel-expired (or start-up reconciliation).
EnvKinds == {"query", "reply", "dup", "cli"}

ASSUME OnrampAssumption ==
  /\ NoSwap \notin Swaps
  /\ Env \subseteq EnvKinds
  /\ Expiry \in Nat \ {0}
  /\ MaxTime \in Nat
  /\ SubmitAttempts \in Nat \ {0}
  /\ MaxCrashes \in Nat
  /\ MaxActiveSwaps \in Nat

VARIABLES
  status, expires_at, tx_hash, \* columns of swap_mappings, keyed by swap
  chain, chain_expires,        \* the on-chain invoice the handler got the id of
  orphans,                     \* invoices that landed but whose id nobody got
  evt,                         \* the Lightning payment and its LDK event
  req,                         \* handle_swap_request, one per swap
  task,                        \* running fulfill_swap tasks
  rec,                         \* recover_fulfilling_swaps
  mon,                         \* monitor_expired_swaps
  now, crashes

dbvars == <<status, expires_at, tx_hash>>
chainvars == <<chain, chain_expires, orphans>>
clockvars == <<now, crashes>>
vars == <<dbvars, chainvars, evt, req, task, rec, mon, clockvars>>

SwapStatus == {"Pending", "Fulfilling", "Completed", "Failed", "Expired"}
TxHash == {"none", "fulfill", "cancel"}
ChainStatus == {"none", "open", "fulfilled", "cancelled"}
EventStatus == {"none", "claimable", "queued", "handled", "persisted"}
ReqPc == {"idle", "precheck", "create", "created", "closed"}
TaskPc == {"idle", "transition", "expiry", "query", "submit", "completed", "failed"}
RecPc == {"scan", "query", "submit", "record", "done"}
MonPc == {"cancel", "record"}

IdleReq == [pc |-> "idle", now_ms |-> 0, att |-> 0]
ClosedReq == [pc |-> "closed", now_ms |-> 0, att |-> 0]
IdleTask == [pc |-> "idle", swap |-> NoSwap, att |-> 0]
StartRec == [pc |-> "scan", todo |-> {}, cur |-> NoSwap]
StartMon == [pc |-> "cancel", todo |-> {}, cur |-> NoSwap]

Init ==
  /\ status = [s \in Swaps |-> "absent"]
  /\ expires_at = [s \in Swaps |-> 0]
  /\ tx_hash = [s \in Swaps |-> "none"]
  /\ chain = [s \in Swaps |-> "none"]
  /\ chain_expires = [s \in Swaps |-> 0]
  /\ orphans = [s \in Swaps |-> 0]
  /\ evt = [s \in Swaps |-> "none"]
  /\ req = [s \in Swaps |-> IdleReq]
  /\ task = [t \in Tasks |-> IdleTask]
  /\ rec = StartRec
  /\ mon = StartMon
  /\ now = 0
  /\ crashes = 0

-----------------------------------------------------------------------------
(* The swap_mappings table.                                                *)

\* The unconditional update: a NULL hash overwrites the stored one.
update_status(s, st, tx) ==
  /\ status' = [status EXCEPT ![s] = st]
  /\ tx_hash' = [tx_hash EXCEPT ![s] = tx]
  /\ UNCHANGED expires_at

\* Mutant of transition_applies: the status is not compared.
transition_always_applies(s, expected) == status[s] # "absent"

\* The compare-and-set's WHERE clause.
transition_applies(s, expected) == status[s] = expected

get_by_status(st) == {s \in Swaps : status[s] = st}

\* Mutants of get_expired_pending: off by one, and a unit mix-up.
get_expired_pending_early(now_ms) ==
  {s \in Swaps : status[s] = "Pending" /\ expires_at[s] <= now_ms}
get_expired_pending_seconds(now_ms) ==
  {s \in Swaps : status[s] = "Pending" /\ expires_at[s] * 1000 < now_ms}

get_expired_pending(now_ms) ==
  {s \in Swaps : status[s] = "Pending" /\ expires_at[s] < now_ms}

count_active_swaps == Cardinality({s \in Swaps : status[s] \in {"Pending", "Fulfilling"}})

-----------------------------------------------------------------------------
(* Cardano and the retry helper.                                           *)

\* What query_state_with_retry can answer when asked for s's invoice.  The
\* attempts only read, so the loop is its last attempt.
QueryFinds(s) == chain[s] = "open" \/ ("query" \in Env /\ chain[s] # "none")
QueryFails(s) == chain[s] # "open" \/ "query" \in Env

\* A transaction takes s's open invoice to outcome; the script UTxO is spent
\* by it, so at most one transaction ever does.
Lands(s, outcome) ==
  /\ chain[s] = "open"
  /\ chain' = [chain EXCEPT ![s] = outcome]

\* The submitter sees an error: the transaction was refused (stale inputs, a
\* node error) or, with "reply", it landed and the answer was lost.
ErrorSeen(s, outcome) ==
  \/ UNCHANGED chain
  \/ "reply" \in Env /\ Lands(s, outcome)

\* What submit_contract_tx_with_retry does after attempt r.att failed: give up
\* (not retryable, or the last attempt), or go round again.
AfterError(r, gave_up) ==
  {[r EXCEPT !.pc = gave_up, !.att = 0]}
    \cup {[r EXCEPT !.att = a] : a \in {r.att + 1} \cap (1..(SubmitAttempts - 1))}

-----------------------------------------------------------------------------
(* handle_swap_request: one swap per request.  Requests that fail          *)
(* validation or the rate limit change nothing and are not modelled.       *)

\* The active-swap cap, checked before the first await.
handle_swap_request(s) ==
  /\ rec.pc = "done"
  /\ req[s].pc = "idle"
  /\ count_active_swaps < MaxActiveSwaps
  /\ req' = [req EXCEPT ![s].pc = "precheck"]
  /\ UNCHANGED <<dbvars, chainvars, evt, task, rec, mon, clockvars>>

\* After the liquidity query: refuse, or enter request_swap and read the clock.
\* (A client that goes away ends its request as a refusal or an error does.)
liquidity_precheck(s) ==
  /\ req[s].pc = "precheck"
  /\ \/ req' = [req EXCEPT ![s] = ClosedReq]
     \/ req' = [req EXCEPT ![s] = [pc |-> "create", now_ms |-> now, att |-> 0]]
  /\ UNCHANGED <<dbvars, chainvars, evt, task, rec, mon, clockvars>>

\* One attempt at CreateInvoice.  Every attempt carries the same expiry.
request_swap(s) ==
  /\ req[s].pc = "create"
  /\ chain_expires' = [chain_expires EXCEPT ![s] = req[s].now_ms + Expiry]
  /\ \/ /\ chain' = [chain EXCEPT ![s] = "open"]
        /\ req' = [req EXCEPT ![s] = [IdleReq EXCEPT !.pc = "created"]]
        /\ UNCHANGED orphans
     \/ /\ \E r \in AfterError(req[s], "closed") :
             req' = [req EXCEPT ![s] = IF r.pc = "closed" THEN ClosedReq ELSE r]
        /\ \/ UNCHANGED orphans
           \/ "reply" \in Env /\ orphans' = [orphans EXCEPT ![s] = @ + 1]
        /\ UNCHANGED chain
  /\ UNCHANGED <<dbvars, evt, task, rec, mon, clockvars>>

\* Mutant of store_swap_mapping: the row expires at once.
store_swap_mapping_expired(s) ==
  /\ req[s].pc = "created"
  /\ req' = [req EXCEPT ![s] = ClosedReq]
  /\ status' = [status EXCEPT ![s] = "Pending"]
  /\ expires_at' = [expires_at EXCEPT ![s] = now]
  /\ UNCHANGED <<tx_hash, chainvars, evt, task, rec, mon, clockvars>>

\* create_invoice_for_swap and, if it made a BOLT11 invoice, the new row.  The
\* clock is read again for the row's expiry.
store_swap_mapping(s) ==
  /\ req[s].pc = "created"
  /\ req' = [req EXCEPT ![s] = ClosedReq]
  /\ \/ UNCHANGED dbvars
     \/ /\ status' = [status EXCEPT ![s] = "Pending"]
        /\ expires_at' = [expires_at EXCEPT ![s] = now + Expiry]
        /\ UNCHANGED tx_hash
  /\ UNCHANGED <<chainvars, evt, task, rec, mon, clockvars>>

-----------------------------------------------------------------------------
(* The Lightning payment and its events.                                   *)

\* The payer, who has the BOLT11 invoice once the row is stored, pays it.
pay_invoice(s) ==
  /\ status[s] # "absent"
  /\ evt[s] = "none"
  /\ evt' = [evt EXCEPT ![s] = "claimable"]
  /\ UNCHANGED <<dbvars, chainvars, req, task, rec, mon, clockvars>>

\* The PaymentClaimable arm claims the HTLC; LDK queues PaymentClaimed.
PaymentClaimable(s) ==
  /\ evt[s] = "claimable"
  /\ evt' = [evt EXCEPT ![s] = "queued"]
  /\ UNCHANGED <<dbvars, chainvars, req, task, rec, mon, clockvars>>

\* The PaymentClaimed arm spawns fulfill_swap for a known swap.
PaymentClaimed(s) ==
  /\ evt[s] = "queued"
  /\ evt' = [evt EXCEPT ![s] = "handled"]
  /\ \E t \in Tasks :
       /\ task[t].pc = "idle"
       /\ task' = [task EXCEPT ![t] = [pc |-> "transition", swap |-> s, att |-> 0]]
  /\ UNCHANGED <<dbvars, chainvars, req, rec, mon, clockvars>>

\* LDK forgets a handled event when the channel manager is next persisted.
ldk_persist(s) ==
  /\ evt[s] = "handled"
  /\ evt' = [evt EXCEPT ![s] = "persisted"]
  /\ UNCHANGED <<dbvars, chainvars, req, task, rec, mon, clockvars>>

\* LDK promises delivery at least once.
ldk_redeliver(s) ==
  /\ "dup" \in Env
  /\ evt[s] = "handled"
  /\ evt' = [evt EXCEPT ![s] = "queued"]
  /\ UNCHANGED <<dbvars, chainvars, req, task, rec, mon, clockvars>>

Claimed(s) == evt[s] \in {"queued", "handled", "persisted"}

-----------------------------------------------------------------------------
(* fulfill_swap.                                                           *)

\* The Pending -> Fulfilling compare-and-set decides who goes on.
fulfill_transition(t) ==
  LET s == task[t].swap IN
  /\ task[t].pc = "transition"
  /\ \/ /\ transition_applies(s, "Pending")
        /\ update_status(s, "Fulfilling", "none")
        /\ task' = [task EXCEPT ![t].pc = "expiry"]
     \/ /\ ~transition_applies(s, "Pending")
        /\ task' = [task EXCEPT ![t] = IdleTask]
        /\ UNCHANGED dbvars
  /\ UNCHANGED <<chainvars, evt, req, rec, mon, clockvars>>

\* Mutant of swap_expired: the check is dropped.
swap_never_expired(s) == FALSE

\* Is the swap too late?
swap_expired(s) == now > expires_at[s]

fulfill_expiry(t) ==
  LET s == task[t].swap IN
  /\ task[t].pc = "expiry"
  /\ \/ /\ swap_expired(s)
        /\ update_status(s, "Failed", "none")
        /\ task' = [task EXCEPT ![t] = IdleTask]
     \/ /\ ~swap_expired(s)
        /\ task' = [task EXCEPT ![t].pc = "query"]
        /\ UNCHANGED dbvars
  /\ UNCHANGED <<chainvars, evt, req, rec, mon, clockvars>>

\* Mutant of fulfill_query: an error returns without touching the row.
fulfill_query_silent(t) ==
  LET s == task[t].swap IN
  /\ task[t].pc = "query"
  /\ \/ QueryFinds(s) /\ task' = [task EXCEPT ![t].pc = "submit"]
     \/ QueryFails(s) /\ task' = [task EXCEPT ![t] = IdleTask]
  /\ UNCHANGED <<dbvars, chainvars, evt, req, rec, mon, clockvars>>

fulfill_query(t) ==
  LET s == task[t].swap IN
  /\ task[t].pc = "query"
  /\ \/ /\ QueryFinds(s)
        /\ task' = [task EXCEPT ![t].pc = "submit"]
        /\ UNCHANGED dbvars
     \/ /\ QueryFails(s)
        /\ update_status(s, "Failed", "none")
        /\ task' = [task EXCEPT ![t] = IdleTask]
  /\ UNCHANGED <<chainvars, evt, req, rec, mon, clockvars>>

\* One attempt to build and submit FulfillInvoice.
fulfill_submit(t) ==
  LET s == task[t].swap IN
  /\ task[t].pc = "submit"
  /\ \/ /\ Lands(s, "fulfilled")
        /\ task' = [task EXCEPT ![t].pc = "completed", ![t].att = 0]
     \/ /\ ErrorSeen(s, "fulfilled")
        /\ \E r \in AfterError(task[t], "failed") : task' = [task EXCEPT ![t] = r]
  /\ UNCHANGED <<dbvars, chain_expires, orphans, evt, req, rec, mon, clockvars>>

fulfill_record(t) ==
  LET s == task[t].swap IN
  /\ \/ task[t].pc = "completed" /\ update_status(s, "Completed", "fulfill")
     \/ task[t].pc = "failed" /\ update_status(s, "Failed", "none")
  /\ task' = [task EXCEPT ![t] = IdleTask]
  /\ UNCHANGED <<chainvars, evt, req, rec, mon, clockvars>>

-----------------------------------------------------------------------------
(* recover_fulfilling_swaps: runs at start-up, while events are already    *)
(* processed but before the monitor, the REST server and the CLI start.    *)

recover_scan ==
  /\ rec.pc = "scan"
  /\ rec' = [pc |-> "query", todo |-> get_by_status("Fulfilling"), cur |-> NoSwap]
  /\ UNCHANGED <<dbvars, chainvars, evt, req, task, mon, clockvars>>

\* The next swap of the scan; an invoice that is not found counts as fulfilled.
recover_query(s) ==
  /\ rec.pc = "query"
  /\ s \in rec.todo
  /\ \/ /\ QueryFinds(s)
        /\ rec' = [pc |-> "submit", todo |-> rec.todo \ {s}, cur |-> s]
        /\ UNCHANGED dbvars
     \/ /\ QueryFails(s)
        /\ update_status(s, "Completed", "none")
        /\ rec' = [rec EXCEPT !.todo = @ \ {s}]
  /\ UNCHANGED <<chainvars, evt, req, task, mon, clockvars>>

\* A single attempt; on an error the row stays as it is.
recover_submit ==
  /\ rec.pc = "submit"
  /\ \/ Lands(rec.cur, "fulfilled") /\ rec' = [rec EXCEPT !.pc = "record"]
     \/ ErrorSeen(rec.cur, "fulfilled") /\ rec' = [rec EXCEPT !.pc = "query", !.cur = NoSwap]
  /\ UNCHANGED <<dbvars, chain_expires, orphans, evt, req, task, mon, clockvars>>

recover_record ==
  /\ rec.pc = "record"
  /\ update_status(rec.cur, "Completed", "fulfill")
  /\ rec' = [rec EXCEPT !.pc = "query", !.cur = NoSwap]
  /\ UNCHANGED <<chainvars, evt, req, task, mon, clockvars>>

recover_done ==
  /\ rec.pc = "query"
  /\ rec.todo = {}
  /\ rec' = [rec EXCEPT !.pc = "done"]
  /\ UNCHANGED <<dbvars, chainvars, evt, req, task, mon, clockvars>>

-----------------------------------------------------------------------------
(* monitor_expired_swaps and cancel-expired.                               *)

\* A tick of the interval, with no snapshot left to work through.
monitor_tick ==
  /\ rec.pc = "done"
  /\ mon.pc = "cancel"
  /\ mon.todo = {}
  /\ mon' = [mon EXCEPT !.todo = get_expired_pending(now)]
  /\ UNCHANGED <<dbvars, chainvars, evt, req, task, rec, clockvars>>

\* Mutant of monitor_cancel: the row is marked whatever the submission says.
monitor_cancel_blind(s) ==
  /\ mon.pc = "cancel"
  /\ s \in mon.todo
  /\ Lands(s, "cancelled") \/ ErrorSeen(s, "cancelled")
  /\ mon' = [pc |-> "record", todo |-> mon.todo \ {s}, cur |-> s]
  /\ UNCHANGED <<dbvars, chain_expires, orphans, evt, req, task, rec, clockvars>>

\* Build and submit CancelInvoice for one swap of the snapshot.
monitor_cancel(s) ==
  /\ mon.pc = "cancel"
  /\ s \in mon.todo
  /\ \/ /\ Lands(s, "cancelled")
        /\ mon' = [pc |-> "record", todo |-> mon.todo \ {s}, cur |-> s]
     \/ /\ ErrorSeen(s, "cancelled")
        /\ mon' = [mon EXCEPT !.todo = @ \ {s}]
  /\ UNCHANGED <<dbvars, chain_expires, orphans, evt, req, task, rec, clockvars>>

monitor_record ==
  /\ mon.pc = "record"
  /\ update_status(mon.cur, "Expired", "cancel")
  /\ mon' = [mon EXCEPT !.pc = "cancel", !.cur = NoSwap]
  /\ UNCHANGED <<chainvars, evt, req, task, rec, clockvars>>

\* Mutant of cancel_expired: it goes by the rows, not by the chain.
cancel_expired_rows(s) ==
  /\ "cli" \in Env
  /\ rec.pc = "done"
  /\ s \in get_expired_pending(now)
  /\ Lands(s, "cancelled")
  /\ UNCHANGED <<dbvars, chain_expires, orphans, evt, req, task, rec, mon, clockvars>>

\* The CLI command, and reconciliation at start-up, look at the chain alone.
cancel_expired(s) ==
  /\ "cli" \in Env
  /\ rec.pc = "done"
  /\ chain_expires[s] < now
  /\ \/ Lands(s, "cancelled") /\ UNCHANGED orphans
     \/ /\ orphans[s] > 0
        /\ orphans' = [orphans EXCEPT ![s] = @ - 1]
        /\ UNCHANGED chain
  /\ UNCHANGED <<dbvars, chain_expires, evt, req, task, rec, mon, clockvars>>

-----------------------------------------------------------------------------

\* The bound never freezes the clock short of an expiry still ahead.
Tick ==
  /\ now < MaxTime \/ \E s \in Swaps : now <= expires_at[s] \/ now <= chain_expires[s]
  /\ now' = now + 1
  /\ UNCHANGED <<dbvars, chainvars, evt, req, task, rec, mon, crashes>>

\* The process dies and is started again: tasks and handlers are gone, the
\* tables and the chain are not, and LDK replays what it had not persisted.
Crash ==
  /\ crashes < MaxCrashes
  /\ crashes' = crashes + 1
  /\ evt' = [s \in Swaps |-> IF evt[s] = "handled" THEN "queued" ELSE evt[s]]
  /\ req' = [s \in Swaps |-> IF req[s].pc = "idle" THEN IdleReq ELSE ClosedReq]
  /\ task' = [t \in Tasks |-> IdleTask]
  /\ rec' = StartRec
  /\ mon' = StartMon
  /\ UNCHANGED <<dbvars, chainvars, now>>

Handler(s) == liquidity_precheck(s) \/ request_swap(s) \/ store_swap_mapping(s)
Events(s) == PaymentClaimable(s) \/ PaymentClaimed(s) \/ ldk_persist(s)
Fulfil(t) ==
  \/ fulfill_transition(t) \/ fulfill_expiry(t) \/ fulfill_query(t)
  \/ fulfill_submit(t) \/ fulfill_record(t)
Recovery ==
  \/ recover_scan \/ recover_submit \/ recover_record \/ recover_done
  \/ \E s \in Swaps : recover_query(s)
Monitor ==
  \/ monitor_tick \/ monitor_record
  \/ \E s \in Swaps : monitor_cancel(s)
Outside(s) ==
  handle_swap_request(s) \/ pay_invoice(s) \/ ldk_redeliver(s) \/ cancel_expired(s)

Next ==
  \/ \E s \in Swaps : Handler(s) \/ Events(s) \/ Outside(s)
  \/ \E t \in Tasks : Fulfil(t)
  \/ Recovery
  \/ Monitor
  \/ Tick
  \/ Crash

Spec == Init /\ [][Next]_vars

\* Tasks the runtime polls are run; LDK keeps processing events; time passes.
\* A cancellation is retried every minute and Cardano does not refuse it for
\* ever.  Users and the operator owe nothing, nor does a request: the server drops
\* its handler when the client goes away.
Fairness ==
  /\ \A s \in Swaps :
       /\ WF_vars(Events(s))
       /\ SF_vars(monitor_cancel(s) /\ chain' # chain)
  /\ \A t \in Tasks : WF_vars(Fulfil(t))
  /\ WF_vars(Recovery)
  /\ WF_vars(Monitor)
  /\ WF_vars(Tick)

FairSpec == Spec /\ Fairness

-----------------------------------------------------------------------------
(* Properties.                                                             *)

\* The columns, the chain and every task stay in their domains.
TypeOK ==
  /\ status \in [Swaps -> SwapStatus \cup {"absent"}]
  /\ expires_at \in [Swaps -> Nat]
  /\ tx_hash \in [Swaps -> TxHash]
  /\ chain \in [Swaps -> ChainStatus]
  /\ chain_expires \in [Swaps -> Nat]
  /\ orphans \in [Swaps -> Nat]
  /\ evt \in [Swaps -> EventStatus]
  /\ req \in [Swaps -> [pc : ReqPc, now_ms : Nat, att : 0..(SubmitAttempts - 1)]]
  /\ task \in [Tasks -> [pc : TaskPc, swap : Swaps \cup {NoSwap}, att : 0..(SubmitAttempts - 1)]]
  /\ rec \in [pc : RecPc, todo : SUBSET Swaps, cur : Swaps \cup {NoSwap}]
  /\ mon \in [pc : MonPc, todo : SUBSET Swaps, cur : Swaps \cup {NoSwap}]
  /\ now \in Nat
  /\ crashes \in Nat

\* A task that won the Pending -> Fulfilling transition and is not done yet.
Owner(t) == task[t].pc \in {"expiry", "query", "submit", "completed", "failed"}

\* cBTC leaves the pool only for a swap whose Lightning payment was claimed,
\* and the row of such a swap says that fulfilment was at least begun: neither
\* fulfill_swap nor the recovery delivers for a Pending or an Expired row.
DeliveredOnlyIfClaimed ==
  \A s \in Swaps :
    chain[s] = "fulfilled" =>
      Claimed(s) /\ status[s] \in {"Fulfilling", "Completed", "Failed"}

\* However often PaymentClaimed is delivered, and across crashes, at most one
\* fulfill_swap task gets past transition_status for a swap.
SingleFulfiller ==
  \A t, u \in Tasks : Owner(t) /\ Owner(u) /\ task[t].swap = task[u].swap => t = u

\* The monitor works from a snapshot it took before its awaits.  It still never
\* holds a swap that a fulfil task found in time: whoever reads the clock after
\* winning the row sees the swap expired if the monitor could have seen it so.
MonitorExcludesFulfiller ==
  \A t \in Tasks :
    task[t].pc \in {"query", "submit", "completed", "failed"} =>
      task[t].swap \notin mon.todo \cup {mon.cur}

\* A Completed row that carries a transaction hash is backed by a delivery, and
\* an Expired row by a cancelled invoice, whatever update_status overwrote.
RecordedTxIsReal ==
  \A s \in Swaps :
    /\ status[s] = "Completed" /\ tx_hash[s] # "none" => chain[s] = "fulfilled"
    /\ status[s] = "Expired" => chain[s] = "cancelled"

\* The row expires no earlier than the on-chain invoice it stands for, so the
\* monitor never builds a cancellation the contract would call premature.
RowOutlivesInvoice ==
  \A s \in Swaps : status[s] # "absent" => chain_expires[s] <= expires_at[s]

\* Unless the relay crashes, every claimed payment's row is settled one way or
\* another, whatever the queries and submissions of fulfill_swap answer.
ClaimedSettles ==
  \A s \in Swaps :
    Claimed(s) ~> status[s] \in {"Completed", "Failed", "Expired"} \/ crashes > 0

\* A Pending row does not hold liquidity for ever: someone moves it on, or the
\* monitor retries until the expired invoice is cancelled, crashes included.
PendingResolves ==
  \A s \in Swaps : status[s] = "Pending" ~> status[s] # "Pending" \/ chain[s] = "cancelled"

\* If the operator keeps running cancel-expired, no liquidity stays reserved:
\* not by failed swaps, nor by invoices orphaned by crashes or lost replies.
OperatorCancels == \A s \in Swaps : SF_vars(cancel_expired(s))
InvoicesReclaimed ==
  OperatorCancels =>
    \A s \in Swaps :
      chain[s] = "open" \/ orphans[s] > 0 ~> chain[s] # "open" /\ orphans[s] = 0

\* The onramp implements the promise about the pool: claimed payments pay for a
\* swap, an invoice that expired is late, and its UTxO holds the liquidity.
Paid == {s \in Swaps : Claimed(s)}
Late == {s \in Swaps : chain[s] # "none" /\ chain_expires[s] < now}
PoolOf(c) ==
  CASE c = "none" -> "none"
    [] c = "open" -> "reserved"
    [] c = "fulfilled" -> "delivered"
    [] c = "cancelled" -> "released"
Pool == [s \in Swaps |-> PoolOf(chain[s])]
Promise == INSTANCE SwapPromise WITH paid <- Paid, late <- Late, pool <- Pool
ImplementsPromise == Promise!Spec

-----------------------------------------------------------------------------
(* What comments and documents of the repository say, and the code does    *)
(* not keep.                                                               *)

\* SwapStatus::Completed: "cBTC sent to user on Cardano. Swap complete."
CompletedMeansDelivered ==
  \A s \in Swaps : status[s] = "Completed" => chain[s] = "fulfilled"

\* Recovery "scans for stuck entries and retries them": when it is through, and
\* LDK has forgotten the event, a claimed swap that still is Pending has a fulfil
\* task under way.
ClaimedPendingHasTask ==
  \A s \in Swaps :
    rec.pc = "done" /\ evt[s] = "persisted" /\ status[s] = "Pending" =>
      \E t \in Tasks : task[t].pc = "transition" /\ task[t].swap = s
=============================================================================
