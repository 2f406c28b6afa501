------------------------------ MODULE Offramp ------------------------------
(***************************************************************************)
(* The cBTC -> BTC direction of the relay: the offramp_mappings table, the *)
(* request and deposit handlers, the tasks spawned by PaymentSent and      *)
(* PaymentFailed, the start-up recovery, the expiry monitor and the        *)
(* operator's cancel-expired-offramps, all working on the same rows and    *)
(* the same on-chain entries.                                              *)
(*                                                                         *)
(* As in Onramp, a step is one database call, or one exchange with Cardano *)
(* or Lightning together with the synchronous code around it, and a crash  *)
(* may come between any two steps.  All offramps are of one amount.        *)
(***************************************************************************)
EXTENDS Naturals, FiniteSets

CONSTANTS Offramps,       \* one element per POST /offramp, named by its id
          Bolts,          \* BOLT11 invoices (payment hashes) users bring
          Deposits,       \* cBTC transactions users may send to the operator
          Calls,          \* slots for concurrent POST /offramp/deposit calls
          Jobs,           \* slots for tasks spawned by payment events
          None,           \* no offramp, no invoice, no transaction
          Env,            \* what the environment may do, see EnvKinds
          Expiry,         \* swap_expiry_ms, in clock ticks
          MaxTime,        \* bound on the clock once no expiry is ahead of it
          SubmitAttempts, \* attempts of submit_contract_tx_with_retry (3)
          MaxCrashes,     \* bound on the number of crashes
          MaxRefunds,     \* bound on the count of refunds of one offramp
          MaxActive       \* CARDANO_MAX_ACTIVE_OFFRAMPS

\* "query": a query fails, or answers from an index that lags;
\* "reply": a transaction lands but the submitter is told of an error;
\* "dup":   LDK delivers an event that was already handled once more;
\* "cli":   the operator runs cancel-expired-offramps (or start-up does).
EnvKinds == {"query", "reply", "dup", "cli"}

ASSUME OfframpAssumption ==
  /\ None \notin Offramps \cup Bolts \cup Deposits
  /\ Env \subseteq EnvKinds
  /\ Expiry \in Nat \ {0}
  /\ MaxTime \in Nat
  /\ SubmitAttempts \in Nat \ {0}
  /\ MaxCrashes \in Nat
  /\ MaxRefunds \in Nat
  /\ MaxActive \in Nat

VARIABLES
  status, payment_hash, cbtc_tx, expires_at, deposit_tx, \* offramp_mappings
  chain,     \* the on-chain entry of each offramp
  received,  \* deposits that reached the operator's address
  refunds,   \* how often each offramp was refunded
  ln, paid,  \* LDK's outbound payments; invoices that were ever paid
  evt,       \* the payment's event
  replayed,  \* invoices whose event LDK delivered more than once
  req, call, job, rec, mon, \* the running handlers and tasks
  now, crashes,
  dropped    \* offramps whose deposit call was dropped since the last start

dbvars == <<status, payment_hash, cbtc_tx, expires_at, deposit_tx>>
lnvars == <<ln, paid, evt, replayed>>
runvars == <<now, crashes, dropped>>
vars == <<dbvars, chain, received, refunds, lnvars, req, call, job, rec, mon, runvars>>

OfframpStatus ==
  {"AwaitingDeposit", "PendingVerification", "PayingLightning", "DepositingToPool",
   "Completed", "Failed"}
ChainStatus == {"none", "open", "fulfilled", "cancelled"}
LnStatus == {"none", "inflight", "sent"}
EventStatus == {"none", "sent", "failed", "sent_handled", "failed_handled"}
ReqPc == {"idle", "check", "create", "created", "closed"}
CallPc == {"idle", "reuse", "claim", "verify", "revert", "verified", "pay", "unpaid"}
JobPc == {"idle", "complete", "preimage", "query", "submit", "completed", "failed",
          "refund", "mark", "cancel", "cancelled"}
RecPc == {"scan_verifying", "reset", "scan_paying", "fail", "scan_depositing", "query",
          "submit", "record", "done"}
MonPc == {"cancel", "record"}

IdleReq == [pc |-> "idle", bolt |-> None, att |-> 0]
ClosedReq == [pc |-> "closed", bolt |-> None, att |-> 0]
IdleCall == [pc |-> "idle", id |-> None, tx |-> None]
IdleJob == [pc |-> "idle", id |-> None, att |-> 0]
StartRec == [pc |-> "scan_verifying", todo |-> {}, cur |-> None]
StartMon == [pc |-> "cancel", todo |-> {}, cur |-> None]

Init ==
  /\ status = [o \in Offramps |-> "absent"]
  /\ payment_hash = [o \in Offramps |-> None]
  /\ cbtc_tx = [o \in Offramps |-> None]
  /\ expires_at = [o \in Offramps |-> 0]
  /\ deposit_tx = [o \in Offramps |-> FALSE]
  /\ chain = [o \in Offramps |-> "none"]
  /\ received = {}
  /\ refunds = [o \in Offramps |-> 0]
  /\ ln = [b \in Bolts |-> "none"]
  /\ paid = {}
  /\ evt = [b \in Bolts |-> "none"]
  /\ replayed = {}
  /\ req = [o \in Offramps |-> IdleReq]
  /\ call = [c \in Calls |-> IdleCall]
  /\ job = [j \in Jobs |-> IdleJob]
  /\ rec = StartRec
  /\ mon = StartMon
  /\ now = 0
  /\ crashes = 0
  /\ dropped = {}

-----------------------------------------------------------------------------
(* The offramp_mappings table.                                             *)

\* The unconditional update.  COALESCE keeps columns no new value is given for.
update_offramp_status(o, st) ==
  /\ status' = [status EXCEPT ![o] = st]
  /\ UNCHANGED <<payment_hash, cbtc_tx, expires_at, deposit_tx>>

\* (mutant: the WHERE clause without the expected status)
transition_always_applies(o, expected) == status[o] # "absent"

\* The compare-and-set's WHERE clause.
transition_applies(o, expected) == status[o] = expected

get_offramps_by_status(st) == {o \in Offramps : status[o] = st}

\* Rows of a payment hash.  The column is not unique and the SELECT is not
\* ordered, so a lookup is any of them.
get_offramp_by_payment_hash(b) ==
  {o \in Offramps : status[o] # "absent" /\ payment_hash[o] = b}

get_offramp_by_cbtc_tx(d) ==
  {o \in Offramps : status[o] # "absent" /\ cbtc_tx[o] = d}

\* (mutant: only rows still waiting for a deposit expire)
get_expired_awaiting(now_ms) ==
  {o \in Offramps : status[o] = "AwaitingDeposit" /\ expires_at[o] > 0 /\ expires_at[o] < now_ms}

get_expired_offramps(now_ms) ==
  {o \in Offramps : /\ status[o] \in {"AwaitingDeposit", "Failed"}
                    /\ expires_at[o] > 0 /\ expires_at[o] < now_ms}

count_active_offramps ==
  Cardinality({o \in Offramps : status[o] \in OfframpStatus \ {"Completed", "Failed"}})

-----------------------------------------------------------------------------
(* Cardano and the retry helper, as in Onramp.                             *)

QueryFinds(o) == chain[o] = "open" \/ ("query" \in Env /\ chain[o] # "none")
QueryFails(o) == chain[o] # "open" \/ "query" \in Env

\* The contract lets an entry be cancelled only after it expired.
Lands(o, outcome) ==
  /\ chain[o] = "open"
  /\ outcome = "cancelled" => expires_at[o] < now
  /\ chain' = [chain EXCEPT ![o] = outcome]

ErrorSeen(o, outcome) ==
  \/ UNCHANGED chain
  \/ "reply" \in Env /\ Lands(o, outcome)

AfterError(r, gave_up) ==
  {[r EXCEPT !.pc = gave_up, !.att = 0]}
    \cup {[r EXCEPT !.att = a] : a \in {r.att + 1} \cap (1..(SubmitAttempts - 1))}

-----------------------------------------------------------------------------
(* POST /offramp: handle_offramp_request and request_offramp.  Requests    *)
(* that fail validation change nothing and are not modelled.               *)

handle_offramp_request(o, b) ==
  /\ rec.pc = "done"
  /\ req[o].pc = "idle"
  /\ count_active_offramps < MaxActive
  /\ req' = [req EXCEPT ![o] = [pc |-> "check", bolt |-> b, att |-> 0]]
  /\ UNCHANGED <<dbvars, chain, received, refunds, lnvars, call, job, rec, mon, runvars>>

\* The invoice must be new; the expiry is fixed here for the row and the chain.
request_offramp(o) ==
  /\ req[o].pc = "check"
  /\ \/ /\ get_offramp_by_payment_hash(req[o].bolt) # {}
        /\ req' = [req EXCEPT ![o] = ClosedReq]
        /\ UNCHANGED expires_at
     \/ /\ get_offramp_by_payment_hash(req[o].bolt) = {}
        /\ req' = [req EXCEPT ![o].pc = "create"]
        /\ expires_at' = [expires_at EXCEPT ![o] = now + Expiry]
  /\ UNCHANGED <<status, payment_hash, cbtc_tx, deposit_tx, chain, received, refunds, lnvars,
                 call, job, rec, mon, runvars>>

\* One attempt at CreateOfframp.  An attempt that lands with its answer lost
\* leaves an entry nobody has the id of: no row will ever name it.
create_offramp(o) ==
  /\ req[o].pc = "create"
  /\ \/ /\ chain' = [chain EXCEPT ![o] = "open"]
        /\ req' = [req EXCEPT ![o].pc = "created", ![o].att = 0]
     \/ /\ \E r \in AfterError(req[o], "closed") :
             req' = [req EXCEPT ![o] = IF r.pc = "closed" THEN ClosedReq ELSE r]
        /\ UNCHANGED chain
  /\ UNCHANGED <<dbvars, received, refunds, lnvars, call, job, rec, mon, runvars>>

insert_offramp(o) ==
  /\ req[o].pc = "created"
  /\ status' = [status EXCEPT ![o] = "AwaitingDeposit"]
  /\ payment_hash' = [payment_hash EXCEPT ![o] = req[o].bolt]
  /\ req' = [req EXCEPT ![o] = ClosedReq]
  /\ UNCHANGED <<cbtc_tx, expires_at, deposit_tx, chain, received, refunds, lnvars, call, job,
                 rec, mon, runvars>>

-----------------------------------------------------------------------------
(* POST /offramp/deposit: process_offramp_deposit.                         *)

\* A user's cBTC transaction reaches the operator's address.
send_cbtc_deposit(d) ==
  /\ d \notin received
  /\ received' = received \cup {d}
  /\ UNCHANGED <<dbvars, chain, refunds, lnvars, req, call, job, rec, mon, runvars>>

\* The row is read; an unknown id ends the call.
handle_offramp_deposit(c, o, d) ==
  /\ rec.pc = "done"
  /\ call[c].pc = "idle"
  /\ status[o] # "absent"
  /\ call' = [call EXCEPT ![c] = [pc |-> "reuse", id |-> o, tx |-> d]]
  /\ UNCHANGED <<dbvars, chain, received, refunds, lnvars, req, job, rec, mon, runvars>>

\* Another row that carries the hash ends the call.
deposit_reuse_check(c) ==
  /\ call[c].pc = "reuse"
  /\ LET others == get_offramp_by_cbtc_tx(call[c].tx) IN
     \/ others = {} /\ call' = [call EXCEPT ![c].pc = "claim"]
     \/ \E e \in others :
          call' = [call EXCEPT ![c] = IF e = @.id THEN [@ EXCEPT !.pc = "claim"] ELSE IdleCall]
  /\ UNCHANGED <<dbvars, chain, received, refunds, lnvars, req, job, rec, mon, runvars>>

\* AwaitingDeposit -> PendingVerification decides who goes on.
deposit_claim(c) ==
  LET o == call[c].id IN
  /\ call[c].pc = "claim"
  /\ \/ /\ transition_applies(o, "AwaitingDeposit")
        /\ update_offramp_status(o, "PendingVerification")
        /\ call' = [call EXCEPT ![c].pc = "verify"]
     \/ /\ ~transition_applies(o, "AwaitingDeposit")
        /\ call' = [call EXCEPT ![c] = IdleCall]
        /\ UNCHANGED dbvars
  /\ UNCHANGED <<chain, received, refunds, lnvars, req, job, rec, mon, runvars>>

\* (mutant: an answer counts as a yes)
verify_cbtc_answered(c) ==
  /\ call[c].pc = "verify"
  /\ \/ call' = [call EXCEPT ![c].pc = "verified"]
     \/ "query" \in Env /\ call' = [call EXCEPT ![c].pc = "revert"]
  /\ UNCHANGED <<dbvars, chain, received, refunds, lnvars, req, job, rec, mon, runvars>>

verify_cbtc_received(c) ==
  /\ call[c].pc = "verify"
  /\ \/ call[c].tx \in received /\ call' = [call EXCEPT ![c].pc = "verified"]
     \/ /\ call[c].tx \notin received \/ "query" \in Env
        /\ call' = [call EXCEPT ![c].pc = "revert"]
  /\ UNCHANGED <<dbvars, chain, received, refunds, lnvars, req, job, rec, mon, runvars>>

\* After an error, or if the cBTC is not there: the update is unconditional.
deposit_revert(c) ==
  /\ call[c].pc = "revert"
  /\ update_offramp_status(call[c].id, "AwaitingDeposit")
  /\ call' = [call EXCEPT ![c] = IdleCall]
  /\ UNCHANGED <<chain, received, refunds, lnvars, req, job, rec, mon, runvars>>

\* transition_offramp_with_cbtc_tx: the hash and PayingLightning in one statement.
deposit_verified(c) ==
  LET o == call[c].id IN
  /\ call[c].pc = "verified"
  /\ \/ /\ transition_applies(o, "PendingVerification")
        /\ status' = [status EXCEPT ![o] = "PayingLightning"]
        /\ cbtc_tx' = [cbtc_tx EXCEPT ![o] = call[c].tx]
        /\ call' = [call EXCEPT ![c].pc = "pay"]
     \/ /\ ~transition_applies(o, "PendingVerification")
        /\ call' = [call EXCEPT ![c] = IdleCall]
        /\ UNCHANGED <<status, cbtc_tx>>
  /\ UNCHANGED <<payment_hash, expires_at, deposit_tx, chain, received, refunds, lnvars, req, job,
                 rec, mon, runvars>>

\* send_payment: LDK refuses a payment id it has in flight, and one that was
\* sent until it forgets it; a route may not be found.
send_payment(c) ==
  LET b == payment_hash[call[c].id] IN
  /\ call[c].pc = "pay"
  /\ \/ /\ ln[b] # "inflight"
        /\ ln' = [ln EXCEPT ![b] = "inflight"]
        /\ call' = [call EXCEPT ![c] = IdleCall]
     \/ /\ call' = [call EXCEPT ![c].pc = "unpaid"]
        /\ UNCHANGED ln
  /\ UNCHANGED <<dbvars, chain, received, refunds, paid, evt, replayed, req, job, rec, mon, runvars>>

deposit_unpaid(c) ==
  /\ call[c].pc = "unpaid"
  /\ update_offramp_status(call[c].id, "Failed")
  /\ call' = [call EXCEPT ![c] = IdleCall]
  /\ UNCHANGED <<chain, received, refunds, lnvars, req, job, rec, mon, runvars>>

\* The handler awaits process_offramp_deposit itself, so the call ends where it
\* waits once the client is gone: for the verification's answer, or in
\* send_payment for the file store's write before the payment or after its
\* refusal.  The row stays as it is.
drop_deposit(c) ==
  /\ call[c].pc \in {"verify", "pay", "unpaid"}
  /\ call' = [call EXCEPT ![c] = IdleCall]
  /\ dropped' = dropped \cup {call[c].id}
  /\ UNCHANGED <<dbvars, chain, received, refunds, lnvars, req, job, rec, mon, now, crashes>>

-----------------------------------------------------------------------------
(* The outbound Lightning payment and its events.                          *)

\* The payee takes one payment per invoice.
payment_succeeds(b) ==
  /\ ln[b] = "inflight" /\ evt[b] = "none" /\ b \notin paid
  /\ ln' = [ln EXCEPT ![b] = "sent"]
  /\ paid' = paid \cup {b}
  /\ evt' = [evt EXCEPT ![b] = "sent"]
  /\ UNCHANGED <<dbvars, chain, received, refunds, replayed, req, call, job, rec, mon, runvars>>

payment_fails(b) ==
  /\ ln[b] = "inflight" /\ evt[b] = "none"
  /\ ln' = [ln EXCEPT ![b] = "none"]
  /\ evt' = [evt EXCEPT ![b] = "failed"]
  /\ UNCHANGED <<dbvars, chain, received, refunds, paid, replayed, req, call, job, rec, mon, runvars>>

\* Both arms spawn a task for the offramp the payment hash leads to.
SpawnJob(b, pc, handled) ==
  /\ \E j \in Jobs, o \in get_offramp_by_payment_hash(b) :
       /\ job[j].pc = "idle"
       /\ job' = [job EXCEPT ![j] = [pc |-> pc, id |-> o, att |-> 0]]
  /\ evt' = [evt EXCEPT ![b] = handled]
  /\ UNCHANGED <<dbvars, chain, received, refunds, ln, paid, replayed, req, call, rec, mon, runvars>>

PaymentSent(b) == evt[b] = "sent" /\ SpawnJob(b, "complete", "sent_handled")

PaymentFailed(b) == evt[b] = "failed" /\ SpawnJob(b, "refund", "failed_handled")

\* LDK forgets a handled event when the channel manager is next persisted, ...
ldk_persist(b) ==
  /\ evt[b] \in {"sent_handled", "failed_handled"}
  /\ evt' = [evt EXCEPT ![b] = "none"]
  /\ UNCHANGED <<dbvars, chain, received, refunds, ln, paid, replayed, req, call, job, rec, mon, runvars>>

\* ... and may deliver it again until then.
Replayed(e) == IF e = "sent_handled" THEN "sent" ELSE IF e = "failed_handled" THEN "failed" ELSE e

ldk_redeliver(b) ==
  /\ "dup" \in Env
  /\ evt[b] \in {"sent_handled", "failed_handled"}
  /\ evt' = [evt EXCEPT ![b] = Replayed(@)]
  /\ replayed' = replayed \cup {b}
  /\ UNCHANGED <<dbvars, chain, received, refunds, ln, paid, req, call, job, rec, mon, runvars>>

-----------------------------------------------------------------------------
(* complete_offramp.                                                       *)

complete_transition(j) ==
  LET o == job[j].id IN
  /\ job[j].pc = "complete"
  /\ \/ /\ transition_applies(o, "PayingLightning")
        /\ update_offramp_status(o, "DepositingToPool")
        /\ job' = [job EXCEPT ![j].pc = "preimage"]
     \/ /\ ~transition_applies(o, "PayingLightning")
        /\ job' = [job EXCEPT ![j] = IdleJob]
        /\ UNCHANGED dbvars
  /\ UNCHANGED <<chain, received, refunds, lnvars, req, call, rec, mon, runvars>>

\* Stores the preimage and writes the status once more.
complete_preimage(j) ==
  /\ job[j].pc = "preimage"
  /\ update_offramp_status(job[j].id, "DepositingToPool")
  /\ job' = [job EXCEPT ![j].pc = "query"]
  /\ UNCHANGED <<chain, received, refunds, lnvars, req, call, rec, mon, runvars>>

\* (mutant: the task returns without recording that the entry was not found)
complete_query_silent(j) ==
  /\ job[j].pc = "query"
  /\ \/ QueryFinds(job[j].id) /\ job' = [job EXCEPT ![j].pc = "submit"]
     \/ QueryFails(job[j].id) /\ job' = [job EXCEPT ![j] = IdleJob]
  /\ UNCHANGED <<dbvars, chain, received, refunds, lnvars, req, call, rec, mon, runvars>>

complete_query(j) ==
  /\ job[j].pc = "query"
  /\ \/ QueryFinds(job[j].id) /\ job' = [job EXCEPT ![j].pc = "submit"]
     \/ QueryFails(job[j].id) /\ job' = [job EXCEPT ![j].pc = "failed"]
  /\ UNCHANGED <<dbvars, chain, received, refunds, lnvars, req, call, rec, mon, runvars>>

\* (mutant: the outcome of the last attempt is not looked at)
complete_submit_blind(j) ==
  /\ job[j].pc = "submit"
  /\ job' = [job EXCEPT ![j].pc = "completed", ![j].att = 0]
  /\ Lands(job[j].id, "fulfilled") \/ ErrorSeen(job[j].id, "fulfilled")
  /\ UNCHANGED <<dbvars, received, refunds, lnvars, req, call, rec, mon, runvars>>

\* One attempt to build and submit FulfillOfframp.
complete_submit(j) ==
  /\ job[j].pc = "submit"
  /\ \/ /\ Lands(job[j].id, "fulfilled")
        /\ job' = [job EXCEPT ![j].pc = "completed", ![j].att = 0]
     \/ /\ ErrorSeen(job[j].id, "fulfilled")
        /\ \E r \in AfterError(job[j], "failed") : job' = [job EXCEPT ![j] = r]
  /\ UNCHANGED <<dbvars, received, refunds, lnvars, req, call, rec, mon, runvars>>

complete_record(j) ==
  LET o == job[j].id IN
  /\ \/ /\ job[j].pc = "completed"
        /\ status' = [status EXCEPT ![o] = "Completed"]
        /\ deposit_tx' = [deposit_tx EXCEPT ![o] = TRUE]
        /\ UNCHANGED <<payment_hash, cbtc_tx, expires_at>>
     \/ job[j].pc = "failed" /\ update_offramp_status(o, "Failed")
  /\ job' = [job EXCEPT ![j] = IdleJob]
  /\ UNCHANGED <<chain, received, refunds, lnvars, req, call, rec, mon, runvars>>

-----------------------------------------------------------------------------
(* handle_offramp_payment_failed and cancel_offramp_on_chain.              *)

\* (mutant: a refund is sent again when no answer came)
refund_cbtc_retried(j) ==
  /\ job[j].pc = "refund"
  /\ \/ /\ refunds[job[j].id] < MaxRefunds
        /\ refunds' = [refunds EXCEPT ![job[j].id] = @ + 1]
     \/ UNCHANGED refunds
  /\ UNCHANGED job \/ job' = [job EXCEPT ![j].pc = "mark"]
  /\ UNCHANGED <<dbvars, chain, received, lnvars, req, call, rec, mon, runvars>>

\* The best-effort refund.  The answer may be lost; the next step is the same.
refund_cbtc(j) ==
  /\ job[j].pc = "refund"
  /\ \/ /\ refunds[job[j].id] < MaxRefunds
        /\ refunds' = [refunds EXCEPT ![job[j].id] = @ + 1]
     \/ UNCHANGED refunds
  /\ job' = [job EXCEPT ![j].pc = "mark"]
  /\ UNCHANGED <<dbvars, chain, received, lnvars, req, call, rec, mon, runvars>>

\* (mutant: the refunded offramp may be tried again)
mark_awaiting(j) ==
  /\ job[j].pc = "mark"
  /\ update_offramp_status(job[j].id, "AwaitingDeposit")
  /\ job' = [job EXCEPT ![j].pc = "cancel"]
  /\ UNCHANGED <<chain, received, refunds, lnvars, req, call, rec, mon, runvars>>

mark_failed(j) ==
  /\ job[j].pc = "mark"
  /\ update_offramp_status(job[j].id, "Failed")
  /\ job' = [job EXCEPT ![j].pc = "cancel"]
  /\ UNCHANGED <<chain, received, refunds, lnvars, req, call, rec, mon, runvars>>

cancel_offramp_on_chain(j) ==
  /\ job[j].pc = "cancel"
  /\ \/ Lands(job[j].id, "cancelled") /\ job' = [job EXCEPT ![j].pc = "cancelled"]
     \/ ErrorSeen(job[j].id, "cancelled") /\ job' = [job EXCEPT ![j] = IdleJob]
  /\ UNCHANGED <<dbvars, received, refunds, lnvars, req, call, rec, mon, runvars>>

cancel_record(j) ==
  /\ job[j].pc = "cancelled"
  /\ update_offramp_status(job[j].id, "Failed")
  /\ job' = [job EXCEPT ![j] = IdleJob]
  /\ UNCHANGED <<chain, received, refunds, lnvars, req, call, rec, mon, runvars>>

-----------------------------------------------------------------------------
(* recover_depositing_offramps: three passes, while events are already     *)
(* processed but before the monitor, the REST server and the CLI start.    *)

recover_scan ==
  /\ \/ /\ rec.pc = "scan_verifying"
        /\ rec' = [rec EXCEPT !.pc = "reset", !.todo = get_offramps_by_status("PendingVerification")]
     \/ /\ rec.pc = "scan_paying"
        /\ rec' = [rec EXCEPT !.pc = "fail", !.todo = get_offramps_by_status("PayingLightning")]
     \/ /\ rec.pc = "scan_depositing"
        /\ rec' = [rec EXCEPT !.pc = "query", !.todo = get_offramps_by_status("DepositingToPool")]
  /\ UNCHANGED <<dbvars, chain, received, refunds, lnvars, req, call, job, mon, runvars>>

\* A pass ends when its snapshot is worked through.
AfterPass == [reset |-> "scan_paying", fail |-> "scan_depositing", query |-> "done"]

recover_next_pass ==
  /\ rec.pc \in DOMAIN AfterPass
  /\ rec.todo = {}
  /\ rec' = [rec EXCEPT !.pc = AfterPass[@]]
  /\ UNCHANGED <<dbvars, chain, received, refunds, lnvars, req, call, job, mon, runvars>>

\* (mutant: a payment that was under way is taken for sent)
recover_transition_paid(o) ==
  /\ o \in rec.todo
  /\ \E move \in {[pc |-> "reset", from |-> "PendingVerification", to |-> "AwaitingDeposit"],
                 [pc |-> "fail", from |-> "PayingLightning", to |-> "DepositingToPool"]} :
       /\ rec.pc = move.pc
       /\ \/ transition_applies(o, move.from) /\ update_offramp_status(o, move.to)
          \/ ~transition_applies(o, move.from) /\ UNCHANGED dbvars
  /\ rec' = [rec EXCEPT !.todo = @ \ {o}]
  /\ UNCHANGED <<chain, received, refunds, lnvars, req, call, job, mon, runvars>>

\* Both compare-and-sets skip a row that moved on meanwhile.  (The update after
\* the second one writes Failed once more, with a message: nothing that runs
\* before the recovery is done moves a row out of Failed.)
recover_transition(o) ==
  /\ o \in rec.todo
  /\ \E move \in {[pc |-> "reset", from |-> "PendingVerification", to |-> "AwaitingDeposit"],
                 [pc |-> "fail", from |-> "PayingLightning", to |-> "Failed"]} :
       /\ rec.pc = move.pc
       /\ \/ transition_applies(o, move.from) /\ update_offramp_status(o, move.to)
          \/ ~transition_applies(o, move.from) /\ UNCHANGED dbvars
  /\ rec' = [rec EXCEPT !.todo = @ \ {o}]
  /\ UNCHANGED <<chain, received, refunds, lnvars, req, call, job, mon, runvars>>

\* An entry that is not found counts as fulfilled.
recover_query(o) ==
  /\ rec.pc = "query"
  /\ o \in rec.todo
  /\ \/ /\ QueryFinds(o)
        /\ rec' = [pc |-> "submit", todo |-> rec.todo \ {o}, cur |-> o]
        /\ UNCHANGED dbvars
     \/ /\ QueryFails(o)
        /\ update_offramp_status(o, "Completed")
        /\ rec' = [rec EXCEPT !.todo = @ \ {o}]
  /\ UNCHANGED <<chain, received, refunds, lnvars, req, call, job, mon, runvars>>

recover_submit ==
  /\ rec.pc = "submit"
  /\ \/ Lands(rec.cur, "fulfilled") /\ rec' = [rec EXCEPT !.pc = "record"]
     \/ ErrorSeen(rec.cur, "fulfilled") /\ rec' = [rec EXCEPT !.pc = "query", !.cur = None]
  /\ UNCHANGED <<dbvars, received, refunds, lnvars, req, call, job, mon, runvars>>

recover_record ==
  /\ rec.pc = "record"
  /\ update_offramp_status(rec.cur, "Completed")
  /\ rec' = [rec EXCEPT !.pc = "query", !.cur = None]
  /\ UNCHANGED <<chain, received, refunds, lnvars, req, call, job, mon, runvars>>

-----------------------------------------------------------------------------
(* monitor_expired_offramps and cancel-expired-offramps.                   *)

monitor_tick ==
  /\ rec.pc = "done"
  /\ mon.pc = "cancel"
  /\ mon.todo = {}
  /\ mon' = [mon EXCEPT !.todo = get_expired_offramps(now)]
  /\ UNCHANGED <<dbvars, chain, received, refunds, lnvars, req, call, job, rec, runvars>>

\* cancel_offramp_on_chain for one row of the snapshot.
monitor_cancel(o) ==
  /\ mon.pc = "cancel"
  /\ o \in mon.todo
  /\ \/ /\ Lands(o, "cancelled")
        /\ mon' = [pc |-> "record", todo |-> mon.todo \ {o}, cur |-> o]
     \/ /\ ErrorSeen(o, "cancelled")
        /\ mon' = [mon EXCEPT !.todo = @ \ {o}]
  /\ UNCHANGED <<dbvars, received, refunds, lnvars, req, call, job, rec, runvars>>

monitor_record ==
  /\ mon.pc = "record"
  /\ update_offramp_status(mon.cur, "Failed")
  /\ mon' = [mon EXCEPT !.pc = "cancel", !.cur = None]
  /\ UNCHANGED <<chain, received, refunds, lnvars, req, call, job, rec, runvars>>

\* The CLI command, and reconciliation at start-up, look at the chain alone.
cancel_expired_offramps(o) ==
  /\ "cli" \in Env
  /\ rec.pc = "done"
  /\ Lands(o, "cancelled")
  /\ UNCHANGED <<dbvars, received, refunds, lnvars, req, call, job, rec, mon, runvars>>

-----------------------------------------------------------------------------

\* The bound never freezes the clock short of an expiry still ahead.
Tick ==
  /\ now < MaxTime \/ \E o \in Offramps : now <= expires_at[o]
  /\ now' = now + 1
  /\ UNCHANGED <<dbvars, chain, received, refunds, lnvars, req, call, job, rec, mon, crashes,
                 dropped>>

\* The process dies and is started again: handlers and tasks are gone, LDK
\* replays what it had not persisted.
Crash ==
  /\ crashes < MaxCrashes
  /\ crashes' = crashes + 1
  /\ evt' = [b \in Bolts |-> Replayed(evt[b])]
  /\ replayed' = replayed \cup {b \in Bolts : evt[b] # Replayed(evt[b])}
  /\ req' = [o \in Offramps |-> IF req[o].pc = "idle" THEN IdleReq ELSE ClosedReq]
  /\ call' = [c \in Calls |-> IdleCall]
  /\ job' = [j \in Jobs |-> IdleJob]
  /\ rec' = StartRec
  /\ mon' = StartMon
  /\ dropped' = {}
  /\ UNCHANGED <<dbvars, chain, received, refunds, ln, paid, now>>

Request(o) == request_offramp(o) \/ create_offramp(o) \/ insert_offramp(o)
Deposit(c) ==
  \/ deposit_reuse_check(c) \/ deposit_claim(c) \/ verify_cbtc_received(c)
  \/ deposit_revert(c) \/ deposit_verified(c) \/ send_payment(c) \/ deposit_unpaid(c)
Lightning(b) == payment_succeeds(b) \/ payment_fails(b)
Events(b) == PaymentSent(b) \/ PaymentFailed(b) \/ ldk_persist(b)
Job(j) ==
  \/ complete_transition(j) \/ complete_preimage(j) \/ complete_query(j)
  \/ complete_submit(j) \/ complete_record(j)
  \/ refund_cbtc(j) \/ mark_failed(j) \/ cancel_offramp_on_chain(j) \/ cancel_record(j)
Recovery ==
  \/ recover_scan \/ recover_next_pass \/ recover_submit \/ recover_record
  \/ \E o \in Offramps : recover_transition(o) \/ recover_query(o)
Monitor ==
  \/ monitor_tick \/ monitor_record
  \/ \E o \in Offramps : monitor_cancel(o)
Users ==
  \/ \E o \in Offramps, b \in Bolts : handle_offramp_request(o, b)
  \/ \E c \in Calls, o \in Offramps, d \in Deposits : handle_offramp_deposit(c, o, d)
  \/ \E d \in Deposits : send_cbtc_deposit(d)

Next ==
  \/ \E o \in Offramps : Request(o) \/ cancel_expired_offramps(o)
  \/ \E c \in Calls : Deposit(c) \/ drop_deposit(c)
  \/ \E b \in Bolts : Lightning(b) \/ Events(b) \/ ldk_redeliver(b)
  \/ \E j \in Jobs : Job(j)
  \/ Recovery
  \/ Monitor
  \/ Users
  \/ Tick
  \/ Crash

Spec == Init /\ [][Next]_vars

\* Spawned tasks are run, payments resolve, events are processed and time passes.
\* A cancellation the monitor retries is not refused for ever.  A REST request
\* owes nothing while it waits for Cardano; once it pays it only waits for the
\* file store, and goes on unless it is dropped (drop_deposit is never owed).
Fairness ==
  /\ \A o \in Offramps : SF_vars(monitor_cancel(o) /\ chain' # chain)
  /\ \A c \in Calls : WF_vars(send_payment(c) \/ deposit_unpaid(c))
  /\ \A b \in Bolts : WF_vars(Lightning(b)) /\ WF_vars(Events(b))
  /\ \A j \in Jobs : WF_vars(Job(j))
  /\ WF_vars(Recovery)
  /\ WF_vars(Monitor)
  /\ WF_vars(Tick)

FairSpec == Spec /\ Fairness

-----------------------------------------------------------------------------
(* Properties.                                                             *)

\* The columns, the chain and every task stay in their domains.
TypeOK ==
  /\ status \in [Offramps -> OfframpStatus \cup {"absent"}]
  /\ payment_hash \in [Offramps -> Bolts \cup {None}]
  /\ cbtc_tx \in [Offramps -> Deposits \cup {None}]
  /\ expires_at \in [Offramps -> Nat]
  /\ deposit_tx \in [Offramps -> BOOLEAN]
  /\ chain \in [Offramps -> ChainStatus]
  /\ received \in SUBSET Deposits
  /\ refunds \in [Offramps -> Nat]
  /\ ln \in [Bolts -> LnStatus]
  /\ paid \in SUBSET Bolts
  /\ evt \in [Bolts -> EventStatus]
  /\ replayed \in SUBSET Bolts
  /\ req \in [Offramps -> [pc : ReqPc, bolt : Bolts \cup {None}, att : 0..(SubmitAttempts - 1)]]
  /\ call \in [Calls -> [pc : CallPc, id : Offramps \cup {None}, tx : Deposits \cup {None}]]
  /\ job \in [Jobs -> [pc : JobPc, id : Offramps \cup {None}, att : 0..(SubmitAttempts - 1)]]
  /\ rec \in [pc : RecPc, todo : SUBSET Offramps, cur : Offramps \cup {None}]
  /\ mon \in [pc : MonPc, todo : SUBSET Offramps, cur : Offramps \cup {None}]
  /\ now \in Nat
  /\ crashes \in Nat
  /\ dropped \in SUBSET (Offramps \cup {None})

\* The relay pays an invoice over Lightning only for an offramp whose row names
\* a deposit that did arrive: process_offramp_deposit verifies before it pays,
\* and no revert, recovery or replay takes the evidence away again.
PaidOnlyIfDeposited ==
  \A b \in Bolts :
    ln[b] # "none" \/ b \in paid =>
      \E o \in get_offramp_by_payment_hash(b) : cbtc_tx[o] \in received

\* The pool entry is fulfilled only for an invoice that was paid, by the event
\* task or by the recovery, whatever was replayed or crashed in between.
FulfilledOnlyIfPaid ==
  \A o \in Offramps : chain[o] = "fulfilled" => payment_hash[o] \in paid

\* At most one complete_offramp task gets past transition_offramp_status.
Completing(j) == job[j].pc \in {"preimage", "query", "submit", "completed", "failed"}
SingleCompleter ==
  \A j, k \in Jobs : Completing(j) /\ Completing(k) /\ job[j].id = job[k].id => j = k

\* At most one process_offramp_deposit call pays for an offramp.
Paying(c) == call[c].pc \in {"pay", "unpaid"}
SinglePayer ==
  \A c, d \in Calls : Paying(c) /\ Paying(d) /\ call[c].id = call[d].id => c = d

\* A recorded FulfillOfframp hash is backed by the chain.
RecordedDepositIsReal == \A o \in Offramps : deposit_tx[o] => chain[o] = "fulfilled"

\* A user does not get both the Lightning payment and the cBTC back, through any
\* replay, crash or retry, as long as no second row carries the same invoice
\* (handle_offramp_payment_failed looks at no status before it refunds).
Sole(o) == get_offramp_by_payment_hash(payment_hash[o]) = {o}
RefundExcludesPayment ==
  \A o \in Offramps : refunds[o] > 0 /\ payment_hash[o] \in paid => ~Sole(o)

\* A failed payment refunds its deposit once, however tasks, crashes and recovery
\* interleave, unless LDK delivers the event again (nothing remembers the refund)
\* or a second row carries the same invoice.
RefundedOnce ==
  \A o \in Offramps : refunds[o] > 1 => payment_hash[o] \in replayed \/ ~Sole(o)


\* Unless the relay crashes every row whose invoice was paid reaches a final
\* status, whatever the queries and submissions of complete_offramp answer.
DepositSettles ==
  \A o \in Offramps :
    status[o] = "DepositingToPool" ~> status[o] \in {"Completed", "Failed"} \/ crashes > 0

\* The monitor gets the entry of every failed offramp off the chain once it has
\* expired, however often an attempt fails, unless the recovery has meanwhile
\* written Completed over the row.
FailedReclaimed ==
  \A o \in Offramps :
    status[o] = "Failed" /\ chain[o] = "open" ~> chain[o] # "open" \/ status[o] # "Failed"

-----------------------------------------------------------------------------
(* What comments and documents say, and the code does not ensure.          *)

\* "Reject reuse of a cBTC TX hash already claimed by another offramp":
\* process_offramp_deposit looks before the verification and stores after it.
CbtcTxUnique == \A d \in Deposits : Cardinality(get_offramp_by_cbtc_tx(d)) <= 1
=============================================================================
