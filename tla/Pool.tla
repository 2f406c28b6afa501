-------------------------------- MODULE Pool --------------------------------
(***************************************************************************)
(* The liquidity pool, one UTxO at the script address, and everything that *)
(* spends it at the same time: the operator's REST requests and console    *)
(* commands, the cancel loops, the users' swap requests, the fulfilment of *)
(* their swaps and the monitor that cancels the expired ones.              *)
(*                                                                         *)
(* A transaction is built from the state of the UTxO that Blockfrost has   *)
(* indexed and lands only if that state is still unspent.  A step is one   *)
(* exchange with Blockfrost; a submission is two, since the one who waits  *)
(* for the answer may be gone when the transaction lands.  Deposits,       *)
(* withdrawals and swaps are of one unit.                                  *)
(***************************************************************************)
EXTENDS Integers, Sequences, FiniteSets

CONSTANTS Callers,    \* requests and console commands, each of any role
          None,
          Env,        \* what the environment may do, see EnvKinds
          Liquidity,  \* what the pool holds at first
          Attempts,   \* of submit_contract_tx_with_retry (3)
          MaxActive,  \* CARDANO_MAX_ACTIVE_SWAPS
          Handlers    \* bound on the swap requests in progress at once

\* "query": a query fails;
\* "reply": the answer to a submission is lost;
\* "echo":  the answer to an accepted one is "already been included".
EnvKinds == {"query", "reply", "echo"}

\* "request": POST /pool/deposit and /pool/withdraw;
\* "command": cardano-deposit, cardano-withdraw, cancel-expired(-offramps);
\* "swap":    POST /swap/request.
Roles == {"request", "command", "swap"}

Kinds == {"deposit", "withdraw", "create", "cancel"}
Txs == {"valid", "stale", "accepted", "rejected"}
Outcomes == {"ok", "failed", "exhausted", "timeout"}

\* Pool entries carry the id that the attempt to create them was given.
Entries == Callers \X (0..(Attempts - 1))

ASSUME PoolAssumption ==
  /\ None \notin Entries \cup Roles \cup Kinds \cup Txs \cup Outcomes
  /\ Env \subseteq EnvKinds
  /\ Liquidity \in Nat /\ MaxActive \in Nat
  /\ Attempts \in Nat \ {0} /\ Handlers \in Nat \ {0}

ASSUME CallersFinite == IsFiniteSet(Callers)

VARIABLES hist,     \* the states of the script UTxO: the first is the one Blockfrost
                    \* answers with, the last one is unspent
          op,       \* what each caller is doing
          late,     \* transactions on their way that nobody waits for
          landed,   \* how many transactions of each caller landed
          echoed,   \* callers told "already been included" of their own one
          row,      \* the entry a swap's row names, None without a row
          active,   \* swaps whose row counts as active
          expired   \* swaps whose expires_at has passed

vars == <<hist, op, late, landed, echoed, row, active, expired>>

Current == hist[Len(hist)]
Indexed == hist[1]
available(s) == s.total - Cardinality(s.open)

Pc == {"idle", "precheck", "loop", "build", "sent", "created", "done"}

\* att: attempts made before this one; tx: the transaction submitted, "valid" as
\* long as the state it spends is unspent and "stale" after that; todo, cur,
\* count: the entries a cancel loop has left, the one it is at, and how many it
\* says it cancelled.
Idle == [pc |-> "idle", role |-> None, kind |-> None, att |-> 0, tx |-> None,
         cur |-> None, todo |-> {}, count |-> 0, answer |-> None]

Init ==
  /\ hist = <<[total |-> Liquidity, open |-> {}]>>
  /\ op = [x \in Callers |-> Idle]
  /\ late = {}
  /\ landed = [x \in Callers |-> 0]
  /\ echoed = {}
  /\ row = [i \in Callers |-> None]
  /\ active = {}
  /\ expired = {}

-----------------------------------------------------------------------------
(* The script and Blockfrost (external).                                   *)

\* What building a transaction needs of the state it is built from, ...
Allowed(kind, entry, s) ==
  /\ kind \in {"withdraw", "create"} => available(s) > 0
  /\ kind = "cancel" => entry \in s.open

\* ... and what it makes of it.
Effect(kind, entry, s) ==
  IF kind = "deposit" THEN [s EXCEPT !.total = @ + 1]
  ELSE IF kind = "withdraw" THEN [s EXCEPT !.total = @ - 1]
  ELSE IF kind = "create" THEN [s EXCEPT !.open = @ \cup {entry}]
  ELSE [s EXCEPT !.open = @ \ {entry}]

\* The entry a caller's transaction is about.
EntryOf(x) == IF op[x].kind = "create" THEN <<x, op[x].att>> ELSE op[x].cur

\* A transaction lands: what else was built from the state it spends is stale,
\* and will not land.
Lands(kind, entry, by) ==
  /\ hist' = Append(hist, Effect(kind, entry, Current))
  /\ landed' = [landed EXCEPT ![by] = @ + 1]
  /\ late' = {}

Stale == [y \in Callers |-> IF op[y].tx = "valid" THEN [op[y] EXCEPT !.tx = "stale"] ELSE op[y]]

\* The node takes a transaction that spends the unspent state ...
node_accepts(x) ==
  /\ op[x].tx = "valid"
  /\ Lands(op[x].kind, EntryOf(x), x)
  /\ op' = [Stale EXCEPT ![x].tx = "accepted"]
  /\ UNCHANGED <<echoed, row, active, expired>>

\* ... and turns the others down, or any: BadInputs, ConwayMempoolFailure.
node_rejects(x) ==
  /\ op[x].tx \in {"valid", "stale"}
  /\ op' = [op EXCEPT ![x].tx = "rejected"]
  /\ UNCHANGED <<hist, late, landed, echoed, row, active, expired>>

\* So it does with one whose submitter has gone, stale ones left out.
Departed(x) ==
  IF op[x].tx = "valid"
    THEN {[by |-> x, kind |-> op[x].kind, entry |-> EntryOf(x)]}
    ELSE {}

node_accepts_late(t) ==
  /\ Lands(t.kind, t.entry, t.by)
  /\ op' = Stale
  /\ UNCHANGED <<echoed, row, active, expired>>

node_rejects_late(t) ==
  /\ late' = late \ {t}
  /\ UNCHANGED <<hist, op, landed, echoed, row, active, expired>>

blockfrost_indexes ==
  /\ Len(hist) > 1
  /\ hist' = Tail(hist)
  /\ UNCHANGED <<op, late, landed, echoed, row, active, expired>>

-----------------------------------------------------------------------------
(* Building and submitting, with and without retries.                      *)

\* The caller is through with its transaction: a loop goes on.
Ends(x, answer) ==
  IF op[x].kind = "cancel"
    THEN [op[x] EXCEPT !.pc = "loop", !.att = 0, !.tx = None, !.cur = None,
                       !.count = IF answer = "ok" THEN @ + 1 ELSE @]
  ELSE IF op[x].kind = "create" /\ answer = "ok"
    THEN [op[x] EXCEPT !.pc = "created", !.tx = None]
    ELSE [op[x] EXCEPT !.pc = "done", !.att = 0, !.tx = None, !.answer = answer]

\* The closure: build from the indexed state and submit.  An error in building
\* is not retried.
build_and_submit(x) ==
  /\ op[x].pc = "build"
  /\ \/ /\ Allowed(op[x].kind, EntryOf(x), Indexed)
        /\ op' = [op EXCEPT ![x].pc = "sent",
                            ![x].tx = IF Len(hist) = 1 THEN "valid" ELSE "stale"]
     \/ /\ ~Allowed(op[x].kind, EntryOf(x), Indexed) \/ "query" \in Env
        /\ op' = [op EXCEPT ![x] = Ends(x, "failed")]
  /\ UNCHANGED <<hist, late, landed, echoed, row, active, expired>>

submit_ok(x) ==
  /\ op[x].pc = "sent"
  /\ op[x].tx = "accepted"
  /\ op' = [op EXCEPT ![x] = Ends(x, "ok")]
  /\ UNCHANGED <<hist, late, landed, echoed, row, active, expired>>

\* (mutant: every error is retried)
is_retryable_always(x) == op[x].tx \in {"valid", "stale", "rejected"} \/ "echo" \in Env

\* The errors that are: the transaction was turned down, or the node says that it
\* is included already.
is_retryable_submit_err(x) ==
  op[x].tx = "rejected" \/ ("echo" \in Env /\ op[x].tx = "accepted")

\* A request makes one attempt, the others several.
Again(x) == op[x].role # "request" /\ op[x].att + 1 < Attempts

retryable_error(x) ==
  /\ op[x].pc = "sent"
  /\ is_retryable_submit_err(x)
  /\ op' = [op EXCEPT ![x] =
              IF Again(x) THEN [op[x] EXCEPT !.pc = "build", !.att = op[x].att + 1, !.tx = None]
              ELSE Ends(x, IF op[x].role = "request" THEN "failed" ELSE "exhausted")]
  /\ late' = late \cup Departed(x)
  /\ echoed' = IF op[x].tx = "accepted" THEN echoed \cup {x} ELSE echoed
  /\ UNCHANGED <<hist, landed, row, active, expired>>

\* No answer, or an error that is not retried: the transaction may still land.
other_error(x) ==
  /\ "reply" \in Env
  /\ op[x].pc = "sent"
  /\ op' = [op EXCEPT ![x] = Ends(x, "failed")]
  /\ late' = late \cup Departed(x)
  /\ UNCHANGED <<hist, landed, echoed, row, active, expired>>

-----------------------------------------------------------------------------
(* The operator's requests and commands.                                   *)

\* handle_pool_deposit and handle_pool_withdraw, authorised and with an amount.
Begins(x, role, kind) ==
  /\ op[x].pc = "idle"
  /\ op' = [op EXCEPT ![x] = [@ EXCEPT !.pc = "build", !.role = role, !.kind = kind]]
  /\ UNCHANGED <<hist, late, landed, echoed, row, active, expired>>

handle_pool_deposit(r) == Begins(r, "request", "deposit")
handle_pool_withdraw(r) == Begins(r, "request", "withdraw")

\* tokio::time::timeout drops the future of these two, wherever it is; and the
\* server that of any request, of a swap too, once its client has gone.
pool_timeout(r) ==
  /\ op[r].role \in {"request", "swap"}
  /\ op[r].pc \in {"precheck", "build", "sent"}
  /\ op' = [op EXCEPT ![r] = [@ EXCEPT !.pc = "done", !.att = 0, !.tx = None, !.answer = "timeout"]]
  /\ late' = late \cup Departed(r)
  /\ UNCHANGED <<hist, landed, echoed, row, active, expired>>

\* The console runs one command after the other.
ConsoleFree == \A c \in Callers : op[c].role = "command" => op[c].pc = "done"
cardano_deposit(c) == ConsoleFree /\ Begins(c, "command", "deposit")
cardano_withdraw(c) == ConsoleFree /\ Begins(c, "command", "withdraw")

\* cancel-expired: a snapshot of the expired entries, ...
cancel_expired(c) ==
  /\ ConsoleFree
  /\ op[c].pc = "idle"
  /\ op' = [op EXCEPT ![c] =
              [@ EXCEPT !.pc = "loop", !.role = "command", !.kind = "cancel",
                        !.todo = {e \in Indexed.open : e[1] \in expired}]]
  /\ UNCHANGED <<hist, late, landed, echoed, row, active, expired>>

\* ... cancelled one after the other, as far as the budget goes.
cancel_next(c) ==
  /\ op[c].pc = "loop"
  /\ \/ \E e \in op[c].todo :
          op' = [op EXCEPT ![c] =
                   [op[c] EXCEPT !.pc = "build", !.cur = e, !.todo = op[c].todo \ {e}]]
     \/ op' = [op EXCEPT ![c] = [@ EXCEPT !.pc = "done"]]
  /\ UNCHANGED <<hist, late, landed, echoed, row, active, expired>>

-----------------------------------------------------------------------------
(* POST /swap/request, as far as the pool is concerned.                    *)

InProgress == {i \in Callers : op[i].role = "swap" /\ op[i].pc # "done"}

\* (mutant: off by one)
below_cap_or_at == Cardinality(active) <= MaxActive

\* count_active_swaps against the configured limit.
below_cap == Cardinality(active) < MaxActive

handle_swap_request(i) ==
  /\ op[i].pc = "idle"
  /\ Cardinality(InProgress) < Handlers
  /\ op' = [op EXCEPT ![i] =
              [@ EXCEPT !.role = "swap", !.kind = "create",
                        !.pc = IF below_cap THEN "precheck" ELSE "done",
                        !.answer = IF below_cap THEN None ELSE "failed"]]
  /\ UNCHANGED <<hist, late, landed, echoed, row, active, expired>>

\* A query that fails, or an index that lags, lets the request go on.
liquidity_pre_check(i) ==
  /\ op[i].pc = "precheck"
  /\ \/ /\ available(Indexed) > 0 \/ "query" \in Env
        /\ op' = [op EXCEPT ![i] = [@ EXCEPT !.pc = "build"]]
     \/ /\ available(Indexed) <= 0
        /\ op' = [op EXCEPT ![i] = [@ EXCEPT !.pc = "done", !.answer = "failed"]]
  /\ UNCHANGED <<hist, late, landed, echoed, row, active, expired>>

\* (mutant: the row names the entry of the first attempt)
store_first_entry(i) ==
  /\ op[i].pc = "created"
  /\ row' = [row EXCEPT ![i] = <<i, 0>>]
  /\ active' = active \cup {i}
  /\ op' = [op EXCEPT ![i] = [@ EXCEPT !.pc = "done", !.att = 0, !.answer = "ok"]]
  /\ UNCHANGED <<hist, late, landed, echoed, expired>>

\* The BOLT11 invoice, which may fail, and the row.
store_swap_mapping(i) ==
  /\ op[i].pc = "created"
  /\ \/ /\ row' = [row EXCEPT ![i] = <<i, op[i].att>>]
        /\ active' = active \cup {i}
        /\ op' = [op EXCEPT ![i] = [@ EXCEPT !.pc = "done", !.att = 0, !.answer = "ok"]]
     \/ /\ op' = [op EXCEPT ![i] = [@ EXCEPT !.pc = "done", !.att = 0, !.answer = "failed"]]
        /\ UNCHANGED <<row, active>>
  /\ UNCHANGED <<hist, late, landed, echoed, expired>>

\* The swap is fulfilled (Onramp has the steps); this spends the pool too.
fulfill_swap(i) ==
  /\ i \in active
  /\ row[i] \in Current.open
  /\ hist' = Append(hist, [total |-> Current.total - 1, open |-> Current.open \ {row[i]}])
  /\ late' = {}
  /\ op' = Stale
  /\ active' = active \ {i}
  /\ UNCHANGED <<landed, echoed, row, expired>>

\* The clock passes expires_at, hours after the request.
expire(i) ==
  /\ op[i].role = "swap" /\ op[i].pc = "done"
  /\ i \notin expired
  /\ expired' = expired \cup {i}
  /\ UNCHANGED <<hist, op, late, landed, echoed, row, active>>

\* The monitor's CancelInvoice lands, one more transaction that spends the pool, and
\* the row is marked, unless the answer is lost.  A monitor that fails to build or to
\* submit changes nothing.
monitor_expired(i) ==
  /\ i \in active \cap expired
  /\ row[i] \in Current.open
  /\ hist' = Append(hist, Effect("cancel", row[i], Current))
  /\ late' = {}
  /\ op' = Stale
  /\ active' = active \ {i} \/ ("reply" \in Env /\ active' = active)
  /\ UNCHANGED <<landed, echoed, row, expired>>

-----------------------------------------------------------------------------

Node(x) == node_accepts(x) \/ node_rejects(x)
Transact(x) ==
  build_and_submit(x) \/ submit_ok(x) \/ retryable_error(x) \/ other_error(x)

\* The steps of a caller's own task.
Step(x) ==
  \/ Transact(x) \/ pool_timeout(x)
  \/ cancel_next(x)
  \/ liquidity_pre_check(x) \/ store_swap_mapping(x)

Next ==
  \/ \E x \in Callers : Node(x) \/ Step(x)
  \/ \E t \in late : node_accepts_late(t) \/ node_rejects_late(t)
  \/ blockfrost_indexes
  \/ \E r \in Callers : handle_pool_deposit(r) \/ handle_pool_withdraw(r)
  \/ \E c \in Callers : cardano_deposit(c) \/ cardano_withdraw(c) \/ cancel_expired(c)
  \/ \E i \in Callers :
       handle_swap_request(i) \/ fulfill_swap(i) \/ expire(i) \/ monitor_expired(i)

Spec == Init /\ [][Next]_vars

-----------------------------------------------------------------------------
(* Properties.                                                             *)

\* Every variable stays in its domain.
TypeOK ==
  /\ hist \in Seq([total : Int, open : SUBSET Entries]) /\ hist # <<>>
  /\ op \in [Callers -> [pc : Pc, role : Roles \cup {None}, kind : Kinds \cup {None},
                         att : 0..(Attempts - 1),
                         tx : Txs \cup {None},
                         cur : Entries \cup {None}, todo : SUBSET Entries, count : Nat,
                         answer : Outcomes \cup {None}]]
  /\ late \subseteq [by : Callers, kind : Kinds, entry : Entries \cup {None}]
  /\ landed \in [Callers -> Nat]
  /\ echoed \subseteq Callers
  /\ row \in [Callers -> Entries \cup {None}]
  /\ active \subseteq Callers /\ expired \subseteq Callers

\* What a caller is told agrees with what landed.  A deposit, a withdrawal or a
\* CreateInvoice lands at most once, retries and dropped futures included; "ok"
\* means that it did and "failed after N attempts" that it did not.  Only an
\* "already been included" that is about the caller's own transaction breaks it.
\* A cancel loop never counts a cancellation that did not land.
AnswerTellsWhatLanded ==
  /\ \A x \in Callers \ echoed : op[x].kind # "cancel" =>
       /\ landed[x] <= 1
       /\ op[x].answer = "ok" => landed[x] = 1
       /\ op[x].answer = "exhausted" => landed[x] = 0
  /\ \A c \in Callers : op[c].count <= landed[c]

\* A swap that was accepted keeps its cBTC reserved under the id its row has,
\* whatever withdrawals, cancel loops and retries go on, until it is fulfilled or
\* expires, and what is reserved is there: no withdrawal, built from whatever state
\* of the pool, takes the cBTC of an entry.
Reserved == \A i \in active \ expired : row[i] \in Current.open
SwapBacked == Reserved /\ available(Current) >= 0

\* Requests that passed the check together overshoot the limit on active swaps,
\* by less than the number of requests in progress at once and no more.
ActiveBounded == Cardinality(active \cup InProgress) < MaxActive + Handlers
=============================================================================
