---------------------------- MODULE OnrampProofs ----------------------------
(***************************************************************************)
(* The onramp's safety properties for every set of swaps and tasks, every  *)
(* environment and every bound.                                            *)
(***************************************************************************)
EXTENDS Onramp, TLAPS

ReqRec == [pc : ReqPc, now_ms : Nat, att : 0..(SubmitAttempts - 1)]
TaskRec == [pc : TaskPc, swap : Swaps \cup {NoSwap}, att : 0..(SubmitAttempts - 1)]
RecRec == [pc : RecPc, todo : SUBSET Swaps, cur : Swaps \cup {NoSwap}]
MonRec == [pc : MonPc, todo : SUBSET Swaps, cur : Swaps \cup {NoSwap}]

-----------------------------------------------------------------------------
(* Type correctness.                                                       *)

\* After a failed attempt a handler is where it was, one attempt further, or at
\* the place where submit_contract_tx_with_retry gave up.
LEMMA AfterErrorReq ==
  ASSUME NEW r \in ReqRec, NEW g \in ReqPc, NEW x \in AfterError(r, g)
  PROVE  x \in ReqRec /\ x.now_ms = r.now_ms /\ x.pc \in {r.pc, g}
<1>1. CASE x = [r EXCEPT !.pc = g, !.att = 0]
  <2>1. 0 \in 0..(SubmitAttempts - 1)
    BY OnrampAssumption DEF OnrampAssumption
  <2> DEFINE y == [r EXCEPT !.pc = g]
  <2>2. y \in ReqRec /\ x = [y EXCEPT !.att = 0]
    BY <1>1 DEF ReqRec
  <2> QED
    BY <2>1, <2>2, Zenon DEF ReqRec
<1>2. CASE \E a \in {r.att + 1} \cap (1..(SubmitAttempts - 1)) : x = [r EXCEPT !.att = a]
  <2>1. PICK a \in 1..(SubmitAttempts - 1) : x = [r EXCEPT !.att = a]
    BY <1>2
  <2>2. a \in 0..(SubmitAttempts - 1)
    BY OnrampAssumption DEF OnrampAssumption
  <2> QED
    BY <2>1, <2>2 DEF ReqRec
<1> QED
  BY <1>1, <1>2 DEF AfterError

\* The same for a fulfil task, which keeps its swap.
LEMMA AfterErrorTask ==
  ASSUME NEW r \in TaskRec, NEW g \in TaskPc, NEW x \in AfterError(r, g)
  PROVE  x \in TaskRec /\ x.swap = r.swap /\ x.pc \in {r.pc, g}
<1>1. CASE x = [r EXCEPT !.pc = g, !.att = 0]
  <2>1. 0 \in 0..(SubmitAttempts - 1)
    BY OnrampAssumption DEF OnrampAssumption
  <2> DEFINE y == [r EXCEPT !.pc = g]
  <2>2. y \in TaskRec /\ x = [y EXCEPT !.att = 0]
    BY <1>1 DEF TaskRec
  <2> QED
    BY <2>1, <2>2, Zenon DEF TaskRec
<1>2. CASE \E a \in {r.att + 1} \cap (1..(SubmitAttempts - 1)) : x = [r EXCEPT !.att = a]
  <2>1. PICK a \in 1..(SubmitAttempts - 1) : x = [r EXCEPT !.att = a]
    BY <1>2
  <2>2. a \in 0..(SubmitAttempts - 1)
    BY OnrampAssumption DEF OnrampAssumption
  <2> QED
    BY <2>1, <2>2 DEF TaskRec
<1> QED
  BY <1>1, <1>2 DEF AfterError

\* The named constants of the records are of their types.
LEMMA IdleTypes ==
  /\ IdleReq \in ReqRec /\ ClosedReq \in ReqRec
  /\ IdleTask \in TaskRec
  /\ StartRec \in RecRec /\ StartMon \in MonRec
  BY OnrampAssumption
  DEF OnrampAssumption, IdleReq, ClosedReq, IdleTask, StartRec, StartMon, ReqRec, TaskRec, RecRec,
      MonRec, ReqPc, TaskPc, RecPc, MonPc

\* The table's part of TypeOK.
TableOK ==
  /\ status \in [Swaps -> SwapStatus \cup {"absent"}]
  /\ expires_at \in [Swaps -> Nat]
  /\ tx_hash \in [Swaps -> TxHash]

\* The initial values are in their domains.
LEMMA TypeInit == Init => TypeOK
  BY IdleTypes, SMTT(30) DEF Init, TypeOK, ReqRec, TaskRec, RecRec, MonRec, ChainStatus, EventStatus, TxHash

\* Every action of Next keeps the variables in their domains.
LEMMA TypeStep == TypeOK /\ [Next]_vars => TypeOK'
<1> SUFFICES ASSUME TypeOK, [Next]_vars PROVE TypeOK'
  OBVIOUS
<1> USE DEF TypeOK, dbvars, chainvars, clockvars
<1>1. ASSUME NEW s \in Swaps, handle_swap_request(s) PROVE TypeOK'
  BY <1>1, SMTT(30) DEF handle_swap_request, ReqPc
<1>2. ASSUME NEW s \in Swaps, liquidity_precheck(s) PROVE TypeOK'
  <2>1. [pc |-> "create", now_ms |-> now, att |-> 0] \in ReqRec
    BY OnrampAssumption DEF OnrampAssumption, ReqPc, ReqRec
  <2>2. req' \in [Swaps -> ReqRec]
    BY <1>2, <2>1, IdleTypes, ZenonT(40) DEF liquidity_precheck, ReqRec
  <2> QED
    BY <1>2, <2>2 DEF liquidity_precheck, ReqRec
<1>3. ASSUME NEW s \in Swaps, request_swap(s) PROVE TypeOK'
  <2>1. chain' \in [Swaps -> ChainStatus]
    BY <1>3, Zenon DEF request_swap, ChainStatus
  <2>4. orphans' \in [Swaps -> Nat]
    <3>1. orphans' = orphans \/ orphans' = [orphans EXCEPT ![s] = @ + 1]
      BY <1>3 DEF request_swap
    <3> QED
      BY <3>1
  <2>2. chain_expires' \in [Swaps -> Nat]
    BY <1>3, OnrampAssumption DEF OnrampAssumption, request_swap
  <2>3. req' \in [Swaps -> ReqRec]
    <3>1. "closed" \in ReqPc /\ [IdleReq EXCEPT !.pc = "created"] \in ReqRec
      BY IdleTypes, SMTT(30) DEF ReqPc, ReqRec
    <3>2. req \in [Swaps -> ReqRec]
      BY DEF ReqRec
    <3>3. \A r \in AfterError(req[s], "closed") : r \in ReqRec
      BY <3>1, <3>2, AfterErrorReq
    <3>4. \E r \in ReqRec : req' = [req EXCEPT ![s] = r]
      BY <1>3, <3>1, <3>3, IdleTypes, Zenon DEF request_swap
    <3> QED
      BY <3>2, <3>4
  <2> QED
    BY <1>3, <2>1, <2>2, <2>3, <2>4 DEF request_swap, ReqRec
<1>4. ASSUME NEW s \in Swaps, store_swap_mapping(s) PROVE TypeOK'
  <2>1. req' \in [Swaps -> ReqRec]
    BY <1>4, IdleTypes DEF store_swap_mapping, ReqRec
  <2>2. TableOK'
    <3>1. now + Expiry \in Nat
      BY OnrampAssumption DEF OnrampAssumption
    <3>2. CASE UNCHANGED dbvars
      BY <3>2 DEF TableOK
    <3>3. CASE /\ status' = [status EXCEPT ![s] = "Pending"]
               /\ expires_at' = [expires_at EXCEPT ![s] = now + Expiry]
               /\ UNCHANGED tx_hash
      BY <3>1, <3>3 DEF TableOK, SwapStatus
    <3> QED
      BY <1>4, <3>2, <3>3 DEF store_swap_mapping
  <2> QED
    BY <1>4, <2>1, <2>2 DEF store_swap_mapping, TableOK, ReqRec
<1>5. ASSUME NEW s \in Swaps,
             pay_invoice(s) \/ PaymentClaimable(s) \/ ldk_persist(s) \/ ldk_redeliver(s)
      PROVE  TypeOK'
  <2>1. \E e \in EventStatus : evt' = [evt EXCEPT ![s] = e]
    BY <1>5 DEF pay_invoice, PaymentClaimable, ldk_persist, ldk_redeliver, EventStatus
  <2> QED
    BY <1>5, <2>1 DEF pay_invoice, PaymentClaimable, ldk_persist, ldk_redeliver
<1>6. ASSUME NEW s \in Swaps, PaymentClaimed(s) PROVE TypeOK'
  <2>1. [pc |-> "transition", swap |-> s, att |-> 0] \in TaskRec
    BY OnrampAssumption DEF OnrampAssumption, TaskRec, TaskPc
  <2>2. task' \in [Tasks -> TaskRec]
    BY <1>6, <2>1 DEF PaymentClaimed, TaskRec
  <2> QED
    BY <1>6, <2>2 DEF PaymentClaimed, EventStatus, TaskRec
<1>7. ASSUME NEW s \in Swaps, cancel_expired(s) PROVE TypeOK'
  <2>1. chain' \in [Swaps -> ChainStatus]
    BY <1>7 DEF cancel_expired, Lands, ChainStatus
  <2>2. orphans' \in [Swaps -> Nat]
    <3>1. orphans' = orphans \/ (orphans[s] > 0 /\ orphans' = [orphans EXCEPT ![s] = @ - 1])
      BY <1>7 DEF cancel_expired
    <3> QED
      BY <3>1, SMTT(30)
  <2> QED
    BY <1>7, <2>1, <2>2 DEF cancel_expired
<1>8. ASSUME NEW t \in Tasks, Fulfil(t) PROVE TypeOK'
  <2>0. task \in [Tasks -> TaskRec]
    BY DEF TaskRec
  <2>1. \A pc \in TaskPc : [task EXCEPT ![t].pc = pc] \in [Tasks -> TaskRec]
    BY <2>0, SMTT(30) DEF TaskRec
  <2>2. \A r \in TaskRec : [task EXCEPT ![t] = r] \in [Tasks -> TaskRec]
    BY <2>0
  <2>4. CASE fulfill_transition(t)
    <3>1. task' \in [Tasks -> TaskRec]
      BY <2>4, <2>1, <2>2, IdleTypes, ZenonT(40) DEF fulfill_transition, TaskPc
    <3>2. TableOK'
      BY <2>4, ZenonT(40) DEF fulfill_transition, update_status, TableOK, SwapStatus, TxHash
    <3> QED
      BY <2>4, <3>1, <3>2 DEF fulfill_transition, TableOK, TaskRec
  <2>5. CASE fulfill_expiry(t)
    <3>1. task' \in [Tasks -> TaskRec]
      BY <2>5, <2>1, <2>2, IdleTypes, ZenonT(40) DEF fulfill_expiry, TaskPc
    <3>2. TableOK'
      BY <2>5, ZenonT(40) DEF fulfill_expiry, update_status, TableOK, SwapStatus, TxHash
    <3> QED
      BY <2>5, <3>1, <3>2 DEF fulfill_expiry, TableOK, TaskRec
  <2>6. CASE fulfill_query(t)
    <3>1. task' \in [Tasks -> TaskRec]
      BY <2>6, <2>1, <2>2, IdleTypes, ZenonT(40) DEF fulfill_query, TaskPc
    <3>2. TableOK'
      BY <2>6, ZenonT(40) DEF fulfill_query, update_status, TableOK, SwapStatus, TxHash
    <3> QED
      BY <2>6, <3>1, <3>2 DEF fulfill_query, TableOK, TaskRec
  <2>7. CASE fulfill_submit(t)
    <3>1. chain' \in [Swaps -> ChainStatus]
      BY <2>7, SMTT(30) DEF fulfill_submit, Lands, ErrorSeen, ChainStatus, TypeOK
    <3>2. \A r \in AfterError(task[t], "failed") : r \in TaskRec
      BY <2>0, AfterErrorTask DEF TaskPc
    <3> DEFINE f == [task EXCEPT ![t].pc = "completed"]
    <3>3. f \in [Tasks -> TaskRec]
      BY <2>1 DEF TaskPc
    <3>4. [f EXCEPT ![t].att = 0] \in [Tasks -> TaskRec]
      <4>1. 0 \in 0..(SubmitAttempts - 1)
        BY OnrampAssumption DEF OnrampAssumption
      <4>2. \A r \in TaskRec : [r EXCEPT !.att = 0] \in TaskRec
        BY <4>1, Zenon DEF TaskRec
      <4> HIDE DEF f
      <4>3. [f[t] EXCEPT !.att = 0] \in TaskRec
        BY <3>3, <4>2
      <4>4. [f EXCEPT ![t] = [f[t] EXCEPT !.att = 0]] \in [Tasks -> TaskRec]
        BY <3>3, <4>3
      <4> QED
        BY <4>4
    <3>5. task' \in [Tasks -> TaskRec]
      <4>1. \/ task' = [f EXCEPT ![t].att = 0]
            \/ \E r \in AfterError(task[t], "failed") : task' = [task EXCEPT ![t] = r]
        BY <2>7 DEF fulfill_submit
      <4>2. CASE task' = [f EXCEPT ![t].att = 0]
        BY <3>4, <4>2
      <4>3. CASE \E r \in AfterError(task[t], "failed") : task' = [task EXCEPT ![t] = r]
        BY <2>2, <3>2, <4>3
      <4> QED
        BY <4>1, <4>2, <4>3
    <3> QED
      BY <2>7, <3>1, <3>5 DEF fulfill_submit, TaskRec
  <2>8. CASE fulfill_record(t)
    <3>1. task' \in [Tasks -> TaskRec]
      BY <2>8, <2>2, IdleTypes DEF fulfill_record
    <3>2. TableOK'
      BY <2>8, ZenonT(40) DEF fulfill_record, update_status, TableOK, SwapStatus, TxHash
    <3> QED
      BY <2>8, <3>1, <3>2 DEF fulfill_record, TableOK, TaskRec
  <2> QED
    BY <1>8, <2>4, <2>5, <2>6, <2>7, <2>8 DEF Fulfil
<1>9. CASE Recovery
  <2>1. CASE recover_scan
    BY <2>1 DEF recover_scan, get_by_status, RecPc
  <2>2. ASSUME NEW s \in Swaps, recover_query(s) PROVE TypeOK'
    <3>1. TableOK'
      BY <2>2, ZenonT(40) DEF recover_query, update_status, TableOK, SwapStatus, TxHash
    <3>2. rec' \in RecRec
      <4>1. rec \in RecRec
        BY DEF RecRec
      <4>2. [pc |-> "submit", todo |-> rec.todo \ {s}, cur |-> s] \in RecRec
        BY <4>1 DEF RecRec, RecPc
      <4>3. [rec EXCEPT !.todo = rec.todo \ {s}] \in RecRec
        BY <4>1, Zenon DEF RecRec
      <4> QED
        BY <2>2, <4>2, <4>3, Zenon DEF recover_query
    <3> QED
      BY <2>2, <3>1, <3>2 DEF recover_query, TableOK, RecRec
  <2>3. CASE recover_submit
    BY <2>3, ZenonT(40) DEF recover_submit, Lands, ErrorSeen, ChainStatus, RecPc
  <2>4. CASE recover_record
    BY <2>4, Zenon DEF recover_record, update_status, SwapStatus, TxHash, RecPc
  <2>5. CASE recover_done
    BY <2>5, Zenon DEF recover_done, RecPc
  <2> QED
    BY <1>9, <2>1, <2>2, <2>3, <2>4, <2>5 DEF Recovery
<1>10. CASE Monitor
  <2>1. CASE monitor_tick
    BY <2>1, Zenon DEF monitor_tick, get_expired_pending, MonPc
  <2>2. ASSUME NEW s \in Swaps, monitor_cancel(s) PROVE TypeOK'
    <3>1. chain' \in [Swaps -> ChainStatus]
      BY <2>2, SMTT(30) DEF monitor_cancel, Lands, ErrorSeen, ChainStatus
    <3>2. mon' \in MonRec
      <4>1. mon \in MonRec
        BY DEF MonRec
      <4>2. [pc |-> "record", todo |-> mon.todo \ {s}, cur |-> s] \in MonRec
        BY <4>1 DEF MonRec, MonPc
      <4>3. [mon EXCEPT !.todo = mon.todo \ {s}] \in MonRec
        BY <4>1, Zenon DEF MonRec
      <4> QED
        BY <2>2, <4>2, <4>3, Zenon DEF monitor_cancel
    <3> QED
      BY <2>2, <3>1, <3>2 DEF monitor_cancel, MonRec
  <2>3. CASE monitor_record
    BY <2>3, Zenon DEF monitor_record, update_status, SwapStatus, TxHash, MonPc
  <2> QED
    BY <1>10, <2>1, <2>2, <2>3 DEF Monitor
<1>11. CASE Tick
  BY <1>11 DEF Tick
<1>12. CASE Crash
  BY <1>12, IdleTypes DEF Crash, EventStatus, ReqRec, TaskRec, RecRec, MonRec
<1>13. CASE UNCHANGED vars
  BY <1>13 DEF vars
<1> QED
  BY <1>1, <1>2, <1>3, <1>4, <1>5, <1>6, <1>7, <1>8, <1>9, <1>10, <1>11, <1>12, <1>13, Zenon
  DEF Next, Handler, Events, Outside

\* The columns of swap_mappings, the chain and every task of the relay stay in
\* their domains; in particular no attempt counter passes its limit.
THEOREM TypeCorrect == Spec => []TypeOK
  BY TypeInit, TypeStep, PTL DEF Spec

-----------------------------------------------------------------------------
(* The inductive invariant.                                                *)

\* The handler is ahead of its row, and the clock is past what it read.
ReqInv ==
  \A s \in Swaps :
    /\ req[s].pc # "closed" => status[s] = "absent"
    /\ req[s].pc \in {"idle", "precheck", "create"} => chain[s] = "none"
    /\ req[s].pc = "create" => req[s].now_ms <= now
    /\ req[s].pc = "created" => chain_expires[s] <= now + Expiry

\* What a row says about its payment and its invoice.
RowInv ==
  \A s \in Swaps :
    /\ evt[s] # "none" => status[s] # "absent"
    /\ status[s] \in {"Fulfilling", "Completed", "Failed"} => Claimed(s)
    /\ chain[s] = "fulfilled" => Claimed(s) /\ status[s] \notin {"absent", "Pending"}
    /\ status[s] = "Completed" /\ tx_hash[s] # "none" => chain[s] = "fulfilled"
    /\ status[s] = "Expired" => chain[s] = "cancelled"
    /\ status[s] # "absent" => chain_expires[s] <= expires_at[s]

\* A fulfil task works for a claimed payment; past the compare-and-set its row
\* has left Pending for good, and in "completed" the transaction has landed.
TaskInv ==
  \A t \in Tasks :
    /\ task[t].pc # "idle" => task[t].swap \in Swaps /\ Claimed(task[t].swap)
    /\ Owner(t) => status[task[t].swap] # "Pending"
    /\ task[t].pc = "completed" => chain[task[t].swap] = "fulfilled"

\* The recovery only ever holds rows that had left Pending.
RecInv ==
  /\ \A s \in rec.todo : Claimed(s) /\ status[s] # "Pending"
  /\ rec.pc \in {"submit", "record"} =>
       rec.cur \in Swaps /\ Claimed(rec.cur) /\ status[rec.cur] # "Pending"
  /\ rec.pc = "record" => chain[rec.cur] = "fulfilled"

\* The monitor only ever holds rows whose expiry had passed.
MonInv ==
  /\ \A s \in mon.todo : status[s] # "absent" /\ expires_at[s] < now
  /\ mon.pc = "cancel" => mon.cur = NoSwap
  /\ mon.pc = "record" =>
       /\ mon.cur \in Swaps
       /\ status[mon.cur] # "absent"
       /\ expires_at[mon.cur] < now
       /\ chain[mon.cur] = "cancelled"

IInv ==
  /\ TypeOK /\ ReqInv /\ RowInv /\ TaskInv /\ RecInv /\ MonInv
  /\ SingleFulfiller /\ MonitorExcludesFulfiller

\* Writing a status past Pending into the row of a claimed swap keeps RowInv, if
\* Completed with a transaction is only written after the delivery.
LEMMA RowUpdate ==
  ASSUME TypeOK, RowInv, NEW s \in Swaps, Claimed(s),
         NEW st \in {"Fulfilling", "Completed", "Failed"}, NEW tx,
         st = "Completed" /\ tx # "none" => chain[s] = "fulfilled",
         status' = [status EXCEPT ![s] = st], tx_hash' = [tx_hash EXCEPT ![s] = tx],
         UNCHANGED <<expires_at, chain, chain_expires, evt>>
  PROVE  RowInv'
<1> SUFFICES ASSUME NEW r \in Swaps
             PROVE  /\ evt'[r] # "none" => status'[r] # "absent"
                    /\ status'[r] \in {"Fulfilling", "Completed", "Failed"} => Claimed(r)'
                    /\ chain'[r] = "fulfilled" =>
                         Claimed(r)' /\ status'[r] \notin {"absent", "Pending"}
                    /\ status'[r] = "Completed" /\ tx_hash'[r] # "none" => chain'[r] = "fulfilled"
                    /\ status'[r] = "Expired" => chain'[r] = "cancelled"
                    /\ status'[r] # "absent" => chain_expires'[r] <= expires_at'[r]
  BY DEF RowInv
<1>1. evt' = evt /\ chain' = chain /\ chain_expires' = chain_expires /\ expires_at' = expires_at
  OBVIOUS
<1>2. Claimed(r)' <=> Claimed(r)
  BY <1>1 DEF Claimed
<1>3. CASE r = s
  <2>1. status'[r] = st /\ tx_hash'[r] = tx
    BY <1>3 DEF TypeOK
  <2>2. status[s] # "absent"
    BY ZenonT(40) DEF RowInv, Claimed
  <2>3. chain_expires[s] <= expires_at[s]
    BY <2>2 DEF RowInv
  <2> QED
    BY <1>1, <1>2, <1>3, <2>1, <2>3
<1>4. CASE r # s
  <2>1. status'[r] = status[r] /\ tx_hash'[r] = tx_hash[r]
    BY <1>4 DEF TypeOK
  <2> QED
    BY <1>1, <1>2, <2>1 DEF RowInv
<1> QED
  BY <1>3, <1>4

\* The invariant holds at first.
LEMMA IndInit == Init => IInv
<1> SUFFICES ASSUME Init PROVE IInv
  OBVIOUS
<1>1. ReqInv
  BY DEF Init, ReqInv, IdleReq
<1>2. RowInv
  BY DEF Init, RowInv, Claimed
<1>3. \A t \in Tasks : task[t].pc = "idle"
  BY DEF Init, IdleTask
<1>4. TaskInv /\ SingleFulfiller /\ MonitorExcludesFulfiller
  BY <1>3 DEF TaskInv, SingleFulfiller, MonitorExcludesFulfiller, Owner
<1>5. RecInv
  BY DEF Init, RecInv, StartRec
<1>6. MonInv
  BY DEF Init, MonInv, StartMon
<1> QED
  BY <1>1, <1>2, <1>4, <1>5, <1>6, TypeInit DEF IInv

\* Every action of every task keeps it, and so does a crash.
LEMMA IndStep == IInv /\ [Next]_vars => IInv'
<1> SUFFICES ASSUME IInv, [Next]_vars PROVE IInv'
  OBVIOUS
<1>0. TypeOK /\ TypeOK'
  BY TypeStep DEF IInv
<1> USE OnrampAssumption DEF OnrampAssumption, dbvars, chainvars, clockvars
<1>1. ASSUME NEW s \in Swaps, handle_swap_request(s) PROVE IInv'
  <2>1. ReqInv'
    BY <1>0, <1>1 DEF IInv, TypeOK, handle_swap_request, ReqPc, ReqInv
  <2>2. RowInv' /\ TaskInv' /\ RecInv' /\ MonInv' /\ SingleFulfiller' /\ MonitorExcludesFulfiller'
    BY <1>1, ZenonT(40) DEF IInv, handle_swap_request, RowInv, Claimed, TaskInv, Owner, RecInv, MonInv,
       SingleFulfiller, MonitorExcludesFulfiller
  <2> QED
    BY <1>0, <2>1, <2>2 DEF IInv
<1>2. ASSUME NEW s \in Swaps, liquidity_precheck(s) PROVE IInv'
  <2>1. /\ \A r \in Swaps \ {s} : req'[r] = req[r]
        /\ req'[s].pc = "closed" \/ (req'[s].pc = "create" /\ req'[s].now_ms = now)
    BY <1>0, <1>2, SMTT(30) DEF TypeOK, liquidity_precheck, ClosedReq
  <2>2. status[s] = "absent" /\ chain[s] = "none" /\ now \in Nat
    BY <1>0, <1>2 DEF TypeOK, IInv, ReqInv, liquidity_precheck
  <2>3. ReqInv'
    BY <1>2, <2>1, <2>2, SMTT(30) DEF IInv, liquidity_precheck, ReqInv
  <2>4. RowInv' /\ TaskInv' /\ RecInv' /\ MonInv' /\ SingleFulfiller' /\ MonitorExcludesFulfiller'
    BY <1>2 DEF IInv, liquidity_precheck, RowInv, Claimed, TaskInv, Owner, RecInv, MonInv,
       SingleFulfiller, MonitorExcludesFulfiller
  <2> QED
    BY <1>0, <2>3, <2>4 DEF IInv
<1>3. ASSUME NEW s \in Swaps, request_swap(s) PROVE IInv'
  <2>1. req[s] \in ReqRec /\ "closed" \in ReqPc
    BY <1>0 DEF TypeOK, ReqRec, ReqPc
  <2>2. /\ \A r \in Swaps \ {s} : /\ req'[r] = req[r] /\ chain'[r] = chain[r]
                                 /\ chain_expires'[r] = chain_expires[r]
        /\ chain_expires'[s] = req[s].now_ms + Expiry
    BY <1>0, <1>3 DEF TypeOK, request_swap
  <2>3. \/ chain'[s] = "open" /\ req'[s].pc = "created"
        \/ chain'[s] = chain[s] /\ req'[s].pc = "closed"
        \/ chain'[s] = chain[s] /\ req'[s].pc = "create" /\ req'[s].now_ms = req[s].now_ms
    BY <1>0, <1>3, <2>1, AfterErrorReq DEF TypeOK, request_swap, ClosedReq, IdleReq
  <2>4. status[s] = "absent" /\ chain[s] = "none" /\ req[s].now_ms <= now
    BY <1>3 DEF request_swap, IInv, ReqInv
  <2>5. req[s].now_ms + Expiry <= now + Expiry
    BY <1>0, <2>4 DEF TypeOK
  <2>6. ReqInv'
    BY <1>0, <2>2, <2>3, <2>4, <2>5, <1>3 DEF IInv, TypeOK, request_swap, ReqInv
  <2>7. RowInv'
    BY <1>0, <2>2, <2>3, <2>4, <1>3, SMTT(30) DEF IInv, TypeOK, request_swap, RowInv, Claimed
  <2>8. TaskInv'
    BY <1>0, <2>2, <2>3, <2>4, <1>3 DEF IInv, TypeOK, request_swap, RowInv, TaskInv, Claimed,
       Owner
  <2>9. RecInv'
    BY <1>0, <2>2, <2>3, <2>4, <1>3 DEF IInv, TypeOK, request_swap, RowInv, RecInv, Claimed
  <2>10. MonInv'
    BY <1>0, <2>2, <2>3, <2>4, <1>3 DEF IInv, TypeOK, request_swap, MonInv
  <2>11. SingleFulfiller' /\ MonitorExcludesFulfiller'
    BY <1>3 DEF IInv, request_swap, SingleFulfiller, Owner, MonitorExcludesFulfiller
  <2> QED
    BY <1>0, <2>6, <2>7, <2>8, <2>9, <2>10, <2>11 DEF IInv
<1>4. ASSUME NEW s \in Swaps, store_swap_mapping(s) PROVE IInv'
  <2>1. /\ status[s] = "absent" /\ chain_expires[s] <= now + Expiry
        /\ evt[s] = "none" /\ chain[s] # "fulfilled"
    BY <1>4 DEF store_swap_mapping, IInv, ReqInv, RowInv
  <2>2. /\ \A r \in Swaps \ {s} : /\ req'[r] = req[r] /\ status'[r] = status[r]
                                 /\ expires_at'[r] = expires_at[r]
        /\ req'[s].pc = "closed"
        /\ \/ status'[s] = status[s] /\ expires_at'[s] = expires_at[s]
           \/ status'[s] = "Pending" /\ expires_at'[s] = now + Expiry
    BY <1>0, <1>4 DEF TypeOK, store_swap_mapping, ClosedReq
  <2>3. s \notin mon.todo /\ (mon.pc = "record" => mon.cur # s)
    BY <2>1 DEF IInv, MonInv
  <2>10. UNCHANGED <<chain, chain_expires, evt, task, rec, mon, now>>
    BY <1>4 DEF store_swap_mapping, chainvars, clockvars
  <2>11. ~Claimed(s)
    BY <2>1 DEF Claimed
  <2>12. \A r \in Swaps : Claimed(r) => status'[r] = status[r]
    BY <2>2, <2>11, SMTT(30)
  <2>4. ReqInv'
    BY <2>2, <2>10 DEF IInv, ReqInv
  <2>5. RowInv'
    <3>1. /\ status[s] = "absent" /\ evt[s] = "none" /\ chain[s] # "fulfilled"
          /\ chain_expires[s] <= now + Expiry
      BY <1>4, <2>1 DEF store_swap_mapping, IInv, ReqInv
    <3>2. \A r \in Swaps : Claimed(r)' <=> Claimed(r)
      BY <2>10, SMTT(30) DEF Claimed
    <3>3. tx_hash' = tx_hash
      BY <1>4 DEF store_swap_mapping, dbvars
    <3> SUFFICES ASSUME NEW r \in Swaps
                 PROVE  /\ evt'[r] # "none" => status'[r] # "absent"
                        /\ status'[r] \in {"Fulfilling", "Completed", "Failed"} => Claimed(r)'
                        /\ chain'[r] = "fulfilled" =>
                             Claimed(r)' /\ status'[r] \notin {"absent", "Pending"}
                        /\ status'[r] = "Completed" /\ tx_hash'[r] # "none" =>
                             chain'[r] = "fulfilled"
                        /\ status'[r] = "Expired" => chain'[r] = "cancelled"
                        /\ status'[r] # "absent" => chain_expires'[r] <= expires_at'[r]
      BY Zenon DEF RowInv
    <3>4. CASE r = s
      BY <2>2, <2>10, <3>1, <3>4, ZenonT(40)
    <3>5. CASE r # s
      BY <2>2, <2>10, <3>2, <3>3, <3>5 DEF IInv, RowInv
    <3> QED
      BY <3>4, <3>5
  <2>6. TaskInv'
    BY <2>10, <2>11, <2>12, ZenonT(40) DEF IInv, TaskInv, Claimed, Owner
  <2>7. RecInv'
    BY <1>0, <2>10, <2>11, <2>12, Zenon DEF IInv, TypeOK, RecInv, Claimed
  <2>8. MonInv'
    BY <1>0, <2>2, <2>3, <2>10, ZenonT(40) DEF IInv, TypeOK, MonInv
  <2>9. SingleFulfiller' /\ MonitorExcludesFulfiller'
    BY <1>4 DEF IInv, store_swap_mapping, SingleFulfiller, Owner, MonitorExcludesFulfiller
  <2> QED
    BY <1>0, <2>4, <2>5, <2>6, <2>7, <2>8, <2>9 DEF IInv
<1>5. ASSUME NEW s \in Swaps, pay_invoice(s) PROVE IInv'
  <2>1. RowInv'
    BY <1>0, <1>5, ZenonT(40) DEF IInv, TypeOK, pay_invoice, RowInv, Claimed
  <2>2. TaskInv'
    BY <1>0, <1>5, Zenon DEF IInv, TypeOK, pay_invoice, TaskInv, Claimed, Owner
  <2>3. RecInv'
    BY <1>0, <1>5, ZenonT(40) DEF IInv, TypeOK, pay_invoice, RecInv, Claimed
  <2>4. ReqInv' /\ MonInv' /\ SingleFulfiller' /\ MonitorExcludesFulfiller'
    BY <1>5, Zenon DEF IInv, pay_invoice, ReqInv, MonInv, SingleFulfiller, Owner,
       MonitorExcludesFulfiller
  <2> QED
    BY <1>0, <2>1, <2>2, <2>3, <2>4 DEF IInv
<1>6. ASSUME NEW s \in Swaps, PaymentClaimable(s) PROVE IInv'
  <2>1. RowInv'
    BY <1>0, <1>6, ZenonT(40) DEF IInv, TypeOK, PaymentClaimable, RowInv, Claimed
  <2>2. TaskInv'
    BY <1>0, <1>6, ZenonT(40) DEF IInv, TypeOK, PaymentClaimable, TaskInv, Claimed, Owner
  <2>3. RecInv'
    BY <1>0, <1>6, ZenonT(40) DEF IInv, TypeOK, PaymentClaimable, RecInv, Claimed
  <2>4. ReqInv' /\ MonInv' /\ SingleFulfiller' /\ MonitorExcludesFulfiller'
    BY <1>6 DEF IInv, PaymentClaimable, ReqInv, MonInv, SingleFulfiller, Owner,
       MonitorExcludesFulfiller
  <2> QED
    BY <1>0, <2>1, <2>2, <2>3, <2>4 DEF IInv
<1>7. ASSUME NEW s \in Swaps, ldk_persist(s) PROVE IInv'
  <2>1. RowInv'
    BY <1>0, <1>7, ZenonT(40) DEF IInv, TypeOK, ldk_persist, RowInv, Claimed
  <2>2. TaskInv'
    BY <1>0, <1>7, ZenonT(40) DEF IInv, TypeOK, ldk_persist, TaskInv, Claimed, Owner
  <2>3. RecInv'
    BY <1>0, <1>7 DEF IInv, TypeOK, ldk_persist, RecInv, Claimed
  <2>4. ReqInv' /\ MonInv' /\ SingleFulfiller' /\ MonitorExcludesFulfiller'
    BY <1>7, Zenon DEF IInv, ldk_persist, ReqInv, MonInv, SingleFulfiller, Owner,
       MonitorExcludesFulfiller
  <2> QED
    BY <1>0, <2>1, <2>2, <2>3, <2>4 DEF IInv
<1>8. ASSUME NEW s \in Swaps, ldk_redeliver(s) PROVE IInv'
  <2>1. RowInv'
    BY <1>0, <1>8, ZenonT(40) DEF IInv, TypeOK, ldk_redeliver, RowInv, Claimed
  <2>2. TaskInv'
    BY <1>0, <1>8, ZenonT(40) DEF IInv, TypeOK, ldk_redeliver, TaskInv, Claimed, Owner
  <2>3. RecInv'
    BY <1>0, <1>8, ZenonT(40) DEF IInv, TypeOK, ldk_redeliver, RecInv, Claimed
  <2>4. ReqInv' /\ MonInv' /\ SingleFulfiller' /\ MonitorExcludesFulfiller'
    BY <1>8 DEF IInv, ldk_redeliver, ReqInv, MonInv, SingleFulfiller, Owner,
       MonitorExcludesFulfiller
  <2> QED
    BY <1>0, <2>1, <2>2, <2>3, <2>4 DEF IInv
<1>9. ASSUME NEW s \in Swaps, PaymentClaimed(s) PROVE IInv'
  <2>1. \E t \in Tasks : /\ \A u \in Tasks \ {t} : task'[u] = task[u]
                        /\ task'[t].pc = "transition" /\ task'[t].swap = s
    BY <1>0, <1>9, SMTT(30) DEF TypeOK, PaymentClaimed
  <2>2. \A r \in Swaps : Claimed(r) => Claimed(r)'
    BY <1>0, <1>9, Zenon DEF TypeOK, PaymentClaimed, Claimed
  <2>3. Claimed(s)'
    BY <1>0, <1>9, Zenon DEF TypeOK, PaymentClaimed, Claimed
  <2>4. RowInv'
    <3>1. UNCHANGED <<status, expires_at, tx_hash, chain, chain_expires>>
      BY <1>9, Zenon DEF PaymentClaimed, dbvars, chainvars
    <3>2. \A r \in Swaps : evt'[r] # "none" => evt[r] # "none"
      BY <1>0, <1>9, ZenonT(40) DEF TypeOK, PaymentClaimed
    <3> QED
      BY <2>2, <3>1, <3>2, Zenon DEF IInv, RowInv
  <2>5. TaskInv'
    BY <2>1, <2>2, <2>3, <1>9, SMTT(30) DEF IInv, PaymentClaimed, TaskInv, Owner
  <2>6. RecInv'
    BY <1>0, <2>2, <1>9, Zenon DEF IInv, TypeOK, PaymentClaimed, RecInv
  <2>7. SingleFulfiller'
    BY <2>1 DEF IInv, SingleFulfiller, Owner
  <2>8. MonitorExcludesFulfiller'
    BY <2>1, <1>9, Zenon DEF IInv, PaymentClaimed, MonitorExcludesFulfiller
  <2>9. ReqInv' /\ MonInv'
    BY <1>9, ZenonT(40) DEF IInv, PaymentClaimed, ReqInv, MonInv
  <2> QED
    BY <1>0, <2>4, <2>5, <2>6, <2>7, <2>8, <2>9, Zenon DEF IInv
<1>10. ASSUME NEW s \in Swaps, cancel_expired(s) PROVE IInv'
  <2>1. \A r \in Swaps : chain'[r] = chain[r] \/ (chain[r] = "open" /\ chain'[r] = "cancelled")
    BY <1>0, <1>10 DEF TypeOK, cancel_expired, Lands
  <2>2. ReqInv'
    BY <2>1, <1>10, Zenon DEF IInv, cancel_expired, ReqInv
  <2>3. RowInv'
    <3>1. UNCHANGED <<status, expires_at, tx_hash, chain_expires, evt>>
      BY <1>10 DEF cancel_expired, dbvars
    <3> QED
      BY <2>1, <3>1 DEF IInv, RowInv, Claimed
  <2>4. TaskInv'
    <3>1. UNCHANGED <<status, evt, task>>
      BY <1>10, Zenon DEF cancel_expired, dbvars
    <3> QED
      BY <2>1, <3>1 DEF IInv, TaskInv, Claimed, Owner
  <2>5. RecInv'
    BY <1>0, <2>1, <1>10, ZenonT(40) DEF IInv, TypeOK, cancel_expired, ReqInv, RecInv, Claimed
  <2>6. MonInv'
    BY <1>0, <2>1, <1>10, ZenonT(40) DEF IInv, TypeOK, cancel_expired, ReqInv, MonInv, Claimed
  <2>7. SingleFulfiller' /\ MonitorExcludesFulfiller'
    BY <1>10, Zenon DEF IInv, cancel_expired, SingleFulfiller, Owner, MonitorExcludesFulfiller
  <2> QED
    BY <1>0, <2>2, <2>3, <2>4, <2>5, <2>6, <2>7 DEF IInv
<1>11. ASSUME NEW t \in Tasks, fulfill_transition(t) PROVE IInv'
  <2> DEFINE s == task[t].swap
  <2>1. s \in Swaps /\ Claimed(s)
    BY <1>11 DEF fulfill_transition, IInv, TaskInv
  <2>2. /\ \A u \in Tasks \ {t} : task'[u] = task[u]
        /\ \/ task'[t].pc = "idle" /\ UNCHANGED dbvars
           \/ /\ task'[t].pc = "expiry" /\ task'[t].swap = s
              /\ status[s] = "Pending" /\ status' = [status EXCEPT ![s] = "Fulfilling"]
              /\ tx_hash' = [tx_hash EXCEPT ![s] = "none"] /\ expires_at' = expires_at
    BY <1>0, <1>11 DEF TypeOK, fulfill_transition, update_status, transition_applies, IdleTask
  <2>3. ReqInv'
    BY <1>0, <1>11, <2>1, <2>2, SMTT(30) DEF IInv, TypeOK, fulfill_transition, ReqInv
  <2>4. RowInv'
    BY <1>0, <1>11, <2>1, <2>2, SMTT(30) DEF IInv, TypeOK, fulfill_transition, RowInv, Claimed
  <2>5. TaskInv'
    BY <1>0, <1>11, <2>1, <2>2 DEF IInv, TypeOK, fulfill_transition, TaskInv, Claimed, Owner
  <2>6. RecInv'
    BY <1>0, <1>11, <2>1, <2>2 DEF IInv, TypeOK, fulfill_transition, RecInv, Claimed
  <2>7. MonInv'
    BY <1>0, <1>11, <2>1, <2>2, SMTT(30) DEF IInv, TypeOK, fulfill_transition, MonInv
  <2>8. SingleFulfiller'
    BY <2>1, <2>2 DEF IInv, TaskInv, SingleFulfiller, Owner
  <2>9. MonitorExcludesFulfiller'
    BY <1>11, <2>2 DEF IInv, fulfill_transition, MonitorExcludesFulfiller
  <2> QED
    BY <1>0, <2>3, <2>4, <2>5, <2>6, <2>7, <2>8, <2>9 DEF IInv
<1>12. ASSUME NEW t \in Tasks, fulfill_expiry(t) PROVE IInv'
  <2> DEFINE s == task[t].swap
  <2>1. s \in Swaps /\ Claimed(s)
    BY <1>12 DEF fulfill_expiry, IInv, TaskInv
  <2>2. /\ \A u \in Tasks \ {t} : task'[u] = task[u]
        /\ \/ task'[t].pc = "idle" /\ status' = [status EXCEPT ![s] = "Failed"]
              /\ tx_hash' = [tx_hash EXCEPT ![s] = "none"] /\ expires_at' = expires_at
           \/ /\ task'[t].pc = "query" /\ task'[t].swap = s
              /\ ~(now > expires_at[s]) /\ UNCHANGED dbvars
    BY <1>0, <1>12 DEF TypeOK, fulfill_expiry, update_status, swap_expired, IdleTask
  <2>3. ReqInv'
    BY <1>0, <1>12, <2>1, <2>2, SMTT(30) DEF IInv, TypeOK, fulfill_expiry, ReqInv, RowInv, Claimed
  <2>4. RowInv'
    BY <1>0, <1>12, <2>1, <2>2, SMTT(30) DEF IInv, TypeOK, fulfill_expiry, RowInv, Claimed
  <2>5. TaskInv'
    BY <1>0, <1>12, <2>1, <2>2, SMTT(30) DEF IInv, TypeOK, fulfill_expiry, TaskInv, Claimed, Owner
  <2>6. RecInv'
    BY <1>0, <1>12, <2>1, <2>2 DEF IInv, TypeOK, fulfill_expiry, RecInv, Claimed
  <2>7. MonInv'
    BY <1>0, <1>12, <2>1, <2>2 DEF IInv, TypeOK, fulfill_expiry, MonInv
  <2>8. SingleFulfiller'
    BY <1>12, <2>2 DEF IInv, fulfill_expiry, SingleFulfiller, Owner
  <2>9. MonitorExcludesFulfiller'
    BY <1>0, <1>12, <2>1, <2>2 DEF IInv, TypeOK, fulfill_expiry, MonInv,
       MonitorExcludesFulfiller, MonPc
  <2> QED
    BY <1>0, <2>3, <2>4, <2>5, <2>6, <2>7, <2>8, <2>9 DEF IInv
<1>13. ASSUME NEW t \in Tasks, fulfill_query(t) PROVE IInv'
  <2> DEFINE s == task[t].swap
  <2>1. s \in Swaps /\ Claimed(s)
    BY <1>13 DEF fulfill_query, IInv, TaskInv
  <2>2. /\ \A u \in Tasks \ {t} : task'[u] = task[u]
        /\ \/ task'[t].pc = "idle" /\ status' = [status EXCEPT ![s] = "Failed"]
              /\ tx_hash' = [tx_hash EXCEPT ![s] = "none"] /\ expires_at' = expires_at
           \/ task'[t].pc = "submit" /\ task'[t].swap = s /\ UNCHANGED dbvars
    BY <1>0, <1>13 DEF TypeOK, fulfill_query, update_status, IdleTask
  <2>3. ReqInv'
    BY <1>0, <1>13, <2>1, <2>2 DEF IInv, TypeOK, fulfill_query, ReqInv, RowInv, Claimed
  <2>4. RowInv'
    BY <1>0, <1>13, <2>1, <2>2 DEF IInv, TypeOK, fulfill_query, RowInv, Claimed
  <2>5. TaskInv'
    BY <1>0, <1>13, <2>1, <2>2 DEF IInv, TypeOK, fulfill_query, TaskInv, Claimed, Owner
  <2>6. RecInv'
    BY <1>0, <1>13, <2>1, <2>2 DEF IInv, TypeOK, fulfill_query, RecInv, Claimed
  <2>7. MonInv'
    BY <1>0, <1>13, <2>1, <2>2 DEF IInv, TypeOK, fulfill_query, MonInv
  <2>8. SingleFulfiller'
    BY <1>13, <2>2 DEF IInv, fulfill_query, SingleFulfiller, Owner
  <2>9. MonitorExcludesFulfiller'
    BY <1>13, <2>2 DEF IInv, fulfill_query, MonitorExcludesFulfiller
  <2> QED
    BY <1>0, <2>3, <2>4, <2>5, <2>6, <2>7, <2>8, <2>9 DEF IInv
<1>14. ASSUME NEW t \in Tasks, fulfill_submit(t) PROVE IInv'
  <2> DEFINE s == task[t].swap
  <2>1. s \in Swaps /\ Claimed(s) /\ status[s] \notin {"absent", "Pending"}
    BY <1>0, <1>14 DEF fulfill_submit, IInv, TaskInv, RowInv, Owner, Claimed
  <2>2. /\ \A u \in Tasks \ {t} : task'[u] = task[u]
        /\ task'[t].pc \in {"submit", "completed", "failed"} /\ task'[t].swap = s
    <3>1. task[t] \in TaskRec /\ "failed" \in TaskPc
        BY <1>0 DEF TypeOK, TaskRec, TaskPc
      <3> QED
        BY <1>0, <1>14, <3>1, AfterErrorTask, SMTT(30) DEF TypeOK, fulfill_submit
  <2>3. /\ \A r \in Swaps \ {s} : chain'[r] = chain[r]
        /\ chain'[s] = chain[s] \/ (chain[s] = "open" /\ chain'[s] = "fulfilled")
        /\ task'[t].pc = "completed" => chain'[s] = "fulfilled"
    <3>1. task[t] \in TaskRec /\ "failed" \in TaskPc
        BY <1>0 DEF TypeOK, TaskRec, TaskPc
      <3>2. task'[t].pc = "completed" => Lands(s, "fulfilled")
        BY <1>0, <1>14, <3>1, AfterErrorTask DEF TypeOK, fulfill_submit
      <3> QED
        BY <1>0, <1>14, <2>1, <3>2 DEF TypeOK, fulfill_submit, Lands, ErrorSeen
  <2>4. ReqInv'
    BY <1>0, <1>14, <2>1, <2>2, <2>3, SMTT(30) DEF IInv, TypeOK, fulfill_submit, ReqInv, RowInv, Claimed
  <2>5. RowInv'
    BY <1>0, <1>14, <2>1, <2>2, <2>3, SMTT(30) DEF IInv, TypeOK, fulfill_submit, RowInv, Claimed
  <2>6. TaskInv'
    BY <1>0, <1>14, <2>1, <2>2, <2>3, SMTT(30) DEF IInv, TypeOK, fulfill_submit, TaskInv, Claimed, Owner
  <2>7. RecInv'
    BY <1>0, <1>14, <2>1, <2>2, <2>3 DEF IInv, TypeOK, fulfill_submit, RecInv, Claimed
  <2>8. MonInv'
    BY <1>0, <1>14, <2>1, <2>2, <2>3 DEF IInv, TypeOK, fulfill_submit, MonInv
  <2>9. SingleFulfiller'
    BY <1>14, <2>1, <2>2, <2>3 DEF IInv, fulfill_submit, SingleFulfiller, Owner
  <2>10. MonitorExcludesFulfiller'
    BY <1>14, <2>1, <2>2, <2>3, Zenon DEF IInv, fulfill_submit, MonitorExcludesFulfiller
  <2> QED
    BY <1>0, <2>4, <2>5, <2>6, <2>7, <2>8, <2>9, <2>10 DEF IInv
<1>15. ASSUME NEW t \in Tasks, fulfill_record(t) PROVE IInv'
  <2> DEFINE s == task[t].swap
  <2>1. s \in Swaps /\ Claimed(s)
    BY <1>15, Zenon DEF fulfill_record, IInv, TaskInv
  <2>2. /\ \A u \in Tasks \ {t} : task'[u] = task[u]
        /\ task'[t].pc = "idle" /\ expires_at' = expires_at
        /\ \E st \in {"Completed", "Failed"}, tx \in TxHash :
             /\ status' = [status EXCEPT ![s] = st]
             /\ tx_hash' = [tx_hash EXCEPT ![s] = tx]
             /\ st = "Completed" => chain[s] = "fulfilled"
    <3>1. /\ \A u \in Tasks \ {t} : task'[u] = task[u]
          /\ task'[t].pc = "idle"
      BY <1>0, <1>15, Zenon DEF TypeOK, fulfill_record, IdleTask
    <3>2. task[t].pc = "completed" => chain[s] = "fulfilled"
      BY Zenon DEF IInv, TaskInv
    <3> QED
      BY <1>15, <3>1, <3>2, Zenon DEF fulfill_record, update_status, TxHash
  <2>10. UNCHANGED <<expires_at, chain, evt, rec, mon, now>>
    BY <1>15, <2>2, Zenon DEF fulfill_record, chainvars, clockvars
  <2>11. \A r \in Swaps : \/ status'[r] = status[r]
                         \/ status'[r] \in {"Completed", "Failed"}
    BY <2>1, <2>2, ZenonT(40) DEF IInv, TypeOK
  <2>3. ReqInv'
    <3>1. req[s].pc = "closed"
      BY <2>1, Zenon DEF IInv, ReqInv, RowInv, Claimed
    <3>2. \A r \in Swaps : req[r].pc # "closed" => status'[r] = status[r]
      BY <2>2, <3>1 DEF IInv, TypeOK
    <3>3. UNCHANGED <<req, chain, chain_expires, now>>
      BY <1>15 DEF fulfill_record, clockvars
    <3> QED
      BY <3>2, <3>3, Zenon DEF IInv, ReqInv
  <2>4. RowInv'
    <3>1. UNCHANGED <<chain, chain_expires, evt>>
      BY <1>15 DEF fulfill_record
    <3>2. PICK c \in Swaps : c = s
      BY <2>1
    <3>3. PICK st \in {"Completed", "Failed"}, tx \in TxHash :
            /\ status' = [status EXCEPT ![c] = st]
            /\ tx_hash' = [tx_hash EXCEPT ![c] = tx]
            /\ st = "Completed" => chain[c] = "fulfilled"
      BY <2>2, <3>2, ZenonT(40)
    <3>4. TypeOK /\ RowInv /\ Claimed(c)
      BY <2>1, <3>2, SMTT(30) DEF IInv, Claimed
    <3>5. expires_at' = expires_at
      BY <2>2, SMTT(30)
    <3> QED
      BY <3>1, <3>3, <3>4, <3>5, RowUpdate, Zenon
  <2>5. TaskInv'
    BY <2>2, <2>10, <2>11 DEF IInv, TaskInv, Claimed, Owner
  <2>6. RecInv'
    BY <1>0, <2>10, <2>11, ZenonT(40) DEF IInv, TypeOK, RecInv, Claimed
  <2>7. MonInv'
    <3>1. \A r \in Swaps : status[r] # "absent" => status'[r] # "absent"
      BY <2>11, SMTT(30)
    <3>2. mon.todo \subseteq Swaps
      BY <1>0, SMTT(30) DEF TypeOK
    <3> QED
      BY <2>10, <3>1, <3>2 DEF IInv, MonInv
  <2>8. SingleFulfiller'
    BY <2>2, SMTT(30) DEF IInv, SingleFulfiller, Owner
  <2>9. MonitorExcludesFulfiller'
    BY <1>15, <2>2 DEF IInv, fulfill_record, MonitorExcludesFulfiller
  <2> QED
    BY <1>0, <2>3, <2>4, <2>5, <2>6, <2>7, <2>8, <2>9 DEF IInv
<1>16. ASSUME recover_scan PROVE IInv'
  <2>1. RecInv'
    BY <1>0, <1>16, ZenonT(40) DEF IInv, TypeOK, recover_scan, get_by_status, RowInv, RecInv, Claimed
  <2>2. ReqInv' /\ RowInv' /\ TaskInv' /\ MonInv' /\ SingleFulfiller' /\ MonitorExcludesFulfiller'
    BY <1>16, ZenonT(40) DEF IInv, recover_scan, ReqInv, RowInv, Claimed, TaskInv, Owner, MonInv,
       SingleFulfiller, MonitorExcludesFulfiller
  <2> QED
    BY <1>0, <2>1, <2>2, Zenon DEF IInv
<1>17. ASSUME NEW s \in Swaps, recover_query(s) PROVE IInv'
  <2>1. Claimed(s) /\ status[s] \notin {"absent", "Pending"}
    BY <1>0, <1>17 DEF recover_query, IInv, RecInv, RowInv, Claimed
  <2>2. /\ expires_at' = expires_at
        /\ \/ UNCHANGED dbvars
           \/ /\ status' = [status EXCEPT ![s] = "Completed"]
              /\ tx_hash' = [tx_hash EXCEPT ![s] = "none"]
    BY <1>17 DEF recover_query, update_status
  <2>3. ReqInv'
    BY <1>0, <1>17, <2>1, <2>2 DEF IInv, TypeOK, recover_query, ReqInv
  <2>4. RowInv'
    BY <1>0, <1>17, <2>1, <2>2, SMTT(30) DEF IInv, TypeOK, recover_query, RowInv, Claimed
  <2>5. TaskInv'
    BY <1>0, <1>17, <2>1, <2>2, SMTT(30) DEF IInv, TypeOK, recover_query, TaskInv, Claimed, Owner
  <2>6. RecInv'
    BY <1>0, <1>17, <2>1, <2>2, SMTT(30) DEF IInv, TypeOK, recover_query, RecInv, Claimed
  <2>7. MonInv'
    BY <1>0, <1>17, <2>1, <2>2 DEF IInv, TypeOK, recover_query, MonInv
  <2>8. SingleFulfiller' /\ MonitorExcludesFulfiller'
    BY <1>17 DEF IInv, recover_query, SingleFulfiller, Owner, MonitorExcludesFulfiller
  <2> QED
    BY <1>0, <2>3, <2>4, <2>5, <2>6, <2>7, <2>8 DEF IInv
<1>18. ASSUME recover_submit PROVE IInv'
  <2>1. rec.cur \in Swaps /\ Claimed(rec.cur) /\ status[rec.cur] \notin {"absent", "Pending"}
    BY <1>0, <1>18 DEF recover_submit, IInv, RecInv, RowInv, Claimed
  <2>2. /\ \A r \in Swaps \ {rec.cur} : chain'[r] = chain[r]
        /\ \/ chain'[rec.cur] = chain[rec.cur]
           \/ chain[rec.cur] = "open" /\ chain'[rec.cur] = "fulfilled"
    BY <1>0, <1>18, <2>1 DEF TypeOK, recover_submit, Lands, ErrorSeen
  <2>3. /\ rec'.todo = rec.todo
        /\ \/ rec'.pc = "query"
           \/ rec'.pc = "record" /\ rec'.cur = rec.cur /\ chain'[rec.cur] = "fulfilled"
    <3>1. /\ rec \in [pc : RecPc, todo : SUBSET Swaps, cur : Swaps \cup {NoSwap}]
          /\ chain \in [Swaps -> ChainStatus]
      BY <1>0 DEF TypeOK
    <3>2. CASE Lands(rec.cur, "fulfilled") /\ rec' = [rec EXCEPT !.pc = "record"]
      BY <2>1, <3>1, <3>2 DEF Lands
    <3>3. CASE rec' = [rec EXCEPT !.pc = "query", !.cur = NoSwap]
      BY <3>1, <3>3, ZenonT(40)
    <3> QED
      BY <1>18, <3>2, <3>3, ZenonT(40) DEF recover_submit
  <2>4. ReqInv'
    <3>1. UNCHANGED <<status, chain_expires, req, now>>
      BY <1>18 DEF recover_submit, dbvars, clockvars
    <3>2. \A r \in Swaps : chain'[r] = chain[r] \/ chain[r] = "open"
      BY <2>2, ZenonT(40)
    <3> QED
      BY <3>1, <3>2 DEF IInv, ReqInv
  <2>5. RowInv'
    <3>1. UNCHANGED <<status, expires_at, tx_hash, chain_expires, evt>>
      BY <1>18 DEF recover_submit, dbvars
    <3> QED
      BY <2>1, <2>2, <3>1 DEF IInv, RowInv, Claimed
  <2>6. TaskInv'
    BY <1>0, <1>18, <2>1, <2>2 DEF IInv, TypeOK, recover_submit, TaskInv, Claimed, Owner
  <2>7. RecInv'
    BY <1>18, <2>1, <2>3 DEF IInv, recover_submit, RecInv, Claimed
  <2>8. MonInv'
    BY <1>0, <1>18, <2>1, <2>2 DEF IInv, TypeOK, recover_submit, MonInv
  <2>9. SingleFulfiller' /\ MonitorExcludesFulfiller'
    BY <1>18 DEF IInv, recover_submit, SingleFulfiller, Owner, MonitorExcludesFulfiller
  <2> QED
    BY <1>0, <2>4, <2>5, <2>6, <2>7, <2>8, <2>9 DEF IInv
<1>19. ASSUME recover_record PROVE IInv'
  <2>1. rec.cur \in Swaps /\ Claimed(rec.cur) /\ status[rec.cur] \notin {"absent", "Pending"}
    BY <1>0, <1>19 DEF recover_record, IInv, RecInv, RowInv, Claimed
  <2>2. /\ expires_at' = expires_at /\ chain[rec.cur] = "fulfilled"
        /\ status' = [status EXCEPT ![rec.cur] = "Completed"]
        /\ tx_hash' = [tx_hash EXCEPT ![rec.cur] = "fulfill"]
    BY <1>19 DEF recover_record, update_status, IInv, RecInv
  <2>3. ReqInv'
    BY <1>0, <1>19, <2>1, <2>2 DEF IInv, TypeOK, recover_record, ReqInv
  <2>4. RowInv'
    BY <1>0, <1>19, <2>1, <2>2, SMTT(30) DEF IInv, TypeOK, recover_record, RowInv, Claimed
  <2>5. TaskInv'
    BY <1>0, <1>19, <2>1, <2>2 DEF IInv, TypeOK, recover_record, TaskInv, Claimed, Owner
  <2>6. RecInv'
    BY <1>0, <1>19, <2>1, <2>2 DEF IInv, TypeOK, recover_record, RecInv, Claimed
  <2>7. MonInv'
    BY <1>0, <1>19, <2>1, <2>2 DEF IInv, TypeOK, recover_record, MonInv
  <2>8. SingleFulfiller' /\ MonitorExcludesFulfiller'
    BY <1>19 DEF IInv, recover_record, SingleFulfiller, Owner, MonitorExcludesFulfiller
  <2> QED
    BY <1>0, <2>3, <2>4, <2>5, <2>6, <2>7, <2>8 DEF IInv
<1>20. ASSUME recover_done PROVE IInv'
  <2>1. RecInv'
    BY <1>0, <1>20 DEF IInv, TypeOK, recover_done, RecInv, Claimed
  <2>2. ReqInv' /\ RowInv' /\ TaskInv' /\ MonInv' /\ SingleFulfiller' /\ MonitorExcludesFulfiller'
    BY <1>20 DEF IInv, recover_done, ReqInv, RowInv, Claimed, TaskInv, Owner, MonInv,
       SingleFulfiller, MonitorExcludesFulfiller
  <2> QED
    BY <1>0, <2>1, <2>2 DEF IInv
<1>21. ASSUME monitor_tick PROVE IInv'
  <2>1. MonInv'
    BY <1>0, <1>21 DEF IInv, TypeOK, monitor_tick, get_expired_pending, MonInv
  <2>2. MonitorExcludesFulfiller'
    BY <1>0, <1>21 DEF IInv, TypeOK, monitor_tick, get_expired_pending, MonInv, TaskInv, Owner,
       MonitorExcludesFulfiller
  <2>3. ReqInv' /\ RowInv' /\ TaskInv' /\ RecInv' /\ SingleFulfiller'
    BY <1>21 DEF IInv, monitor_tick, ReqInv, RowInv, Claimed, TaskInv, Owner, RecInv,
       SingleFulfiller
  <2> QED
    BY <1>0, <2>1, <2>2, <2>3 DEF IInv
<1>22. ASSUME NEW s \in Swaps, monitor_cancel(s) PROVE IInv'
  <2>1. /\ \A r \in Swaps \ {s} : chain'[r] = chain[r]
        /\ chain'[s] = chain[s] \/ (chain[s] = "open" /\ chain'[s] = "cancelled")
        /\ status[s] # "absent" /\ expires_at[s] < now
    BY <1>0, <1>22 DEF TypeOK, monitor_cancel, Lands, ErrorSeen, IInv, MonInv
  <2>2. /\ mon'.todo = mon.todo \ {s}
        /\ \/ mon'.pc = "cancel" /\ mon'.cur = mon.cur
           \/ mon'.pc = "record" /\ mon'.cur = s /\ chain'[s] = "cancelled"
    BY <1>0, <1>22 DEF TypeOK, monitor_cancel, Lands
  <2>3. ReqInv'
    BY <1>22, <2>1 DEF IInv, monitor_cancel, ReqInv
  <2>4. RowInv'
    BY <1>0, <1>22, <2>1, SMTT(30) DEF IInv, TypeOK, monitor_cancel, RowInv, Claimed
  <2>5. TaskInv'
    BY <1>0, <1>22, <2>1 DEF IInv, TypeOK, monitor_cancel, TaskInv, Claimed, Owner
  <2>6. RecInv'
    BY <1>0, <1>22, <2>1, ZenonT(40) DEF IInv, TypeOK, monitor_cancel, RecInv, Claimed
  <2>7. MonInv'
    BY <1>0, <1>22, <2>1, <2>2, ZenonT(40) DEF IInv, TypeOK, monitor_cancel, MonInv
  <2>8. MonitorExcludesFulfiller'
    BY <1>0, <1>22, <2>2 DEF IInv, TypeOK, monitor_cancel, TaskInv, MonitorExcludesFulfiller
  <2>9. SingleFulfiller'
    BY <1>22 DEF IInv, monitor_cancel, SingleFulfiller, Owner
  <2> QED
    BY <1>0, <2>3, <2>4, <2>5, <2>6, <2>7, <2>8, <2>9 DEF IInv
<1>23. ASSUME monitor_record PROVE IInv'
  <2>1. /\ mon.cur \in Swaps /\ chain[mon.cur] = "cancelled" /\ status[mon.cur] # "absent"
    BY <1>23 DEF monitor_record, IInv, MonInv
  <2>2. /\ expires_at' = expires_at
        /\ status' = [status EXCEPT ![mon.cur] = "Expired"]
        /\ tx_hash' = [tx_hash EXCEPT ![mon.cur] = "cancel"]
        /\ mon'.todo = mon.todo /\ mon'.pc = "cancel" /\ mon'.cur = NoSwap
    BY <1>0, <1>23, Zenon DEF TypeOK, monitor_record, update_status
  <2>3. ReqInv'
    BY <1>0, <1>23, <2>1, <2>2, SMTT(30) DEF IInv, TypeOK, monitor_record, ReqInv
  <2>4. RowInv'
    BY <1>0, <1>23, <2>1, <2>2, SMTT(30) DEF IInv, TypeOK, monitor_record, RowInv, Claimed
  <2>5. TaskInv'
    BY <1>0, <1>23, <2>1, <2>2 DEF IInv, TypeOK, monitor_record, TaskInv, Claimed, Owner
  <2>6. RecInv'
    BY <1>0, <1>23, <2>1, <2>2 DEF IInv, TypeOK, monitor_record, RecInv, Claimed
  <2>7. MonInv'
    BY <1>0, <1>23, <2>1, <2>2 DEF IInv, TypeOK, monitor_record, MonInv
  <2>8. MonitorExcludesFulfiller'
    BY <1>23, <2>2, <1>0 DEF IInv, TypeOK, monitor_record, TaskInv, MonitorExcludesFulfiller
  <2>9. SingleFulfiller'
    BY <1>23 DEF IInv, monitor_record, SingleFulfiller, Owner
  <2> QED
    BY <1>0, <2>3, <2>4, <2>5, <2>6, <2>7, <2>8, <2>9 DEF IInv
<1>24. ASSUME Tick PROVE IInv'
  <2>1. ReqInv'
    <3>1. UNCHANGED <<status, req, chain, chain_expires>> /\ now' = now + 1
      BY <1>24 DEF Tick, dbvars
    <3>2. \A r \in Swaps : req[r].now_ms \in Nat /\ chain_expires[r] \in Nat
      BY Zenon DEF IInv, TypeOK
    <3>3. now \in Nat /\ Expiry \in Nat
      BY OnrampAssumption, Zenon DEF IInv, TypeOK, OnrampAssumption
    <3> QED
      BY <3>1, <3>2, <3>3 DEF IInv, ReqInv
  <2>2. MonInv'
    <3>1. UNCHANGED <<mon, status, expires_at, chain>> /\ now' = now + 1
      BY <1>24, Zenon DEF Tick, dbvars
    <3>2. /\ now \in Nat /\ mon.todo \subseteq Swaps
          /\ \A s \in Swaps : expires_at[s] \in Nat
      BY <1>0, Zenon DEF IInv, TypeOK
    <3> QED
      BY <3>1, <3>2, SMTT(30) DEF IInv, MonInv
  <2>3. RowInv' /\ TaskInv' /\ RecInv' /\ SingleFulfiller' /\ MonitorExcludesFulfiller'
    BY <1>24, ZenonT(40) DEF IInv, Tick, RowInv, Claimed, TaskInv, Owner, RecInv, SingleFulfiller,
       MonitorExcludesFulfiller
  <2> QED
    BY <1>0, <2>1, <2>2, <2>3, Zenon DEF IInv
<1>25. ASSUME Crash PROVE IInv'
  <2>1. ReqInv'
    BY <1>0, <1>25, ZenonT(40) DEF IInv, TypeOK, Crash, ReqInv, IdleReq, ClosedReq
  <2>2. RowInv'
    BY <1>0, <1>25, ZenonT(40) DEF IInv, TypeOK, Crash, RowInv, Claimed
  <2>3. TaskInv'
    BY <1>25, ZenonT(40) DEF IInv, Crash, TaskInv, Owner, IdleTask
  <2>4. RecInv'
    BY <1>25, ZenonT(40) DEF IInv, Crash, RecInv, StartRec
  <2>5. MonInv'
    BY <1>25, Zenon DEF IInv, Crash, MonInv, StartMon
  <2>6. SingleFulfiller'
    BY <1>25, ZenonT(40) DEF IInv, Crash, SingleFulfiller, Owner, IdleTask
  <2>7. MonitorExcludesFulfiller'
    BY <1>25 DEF IInv, Crash, MonitorExcludesFulfiller, IdleTask
  <2> QED
    BY <1>0, <2>1, <2>2, <2>3, <2>4, <2>5, <2>6, <2>7 DEF IInv
<1>26. CASE UNCHANGED vars
  <2>1. ReqInv' /\ RowInv'
    BY <1>26, ZenonT(40) DEF vars, IInv, ReqInv, RowInv, Claimed
  <2>2. TaskInv' /\ RecInv' /\ MonInv'
    BY <1>26, ZenonT(40) DEF vars, IInv, TaskInv, RecInv, MonInv, Owner, Claimed
  <2>3. SingleFulfiller' /\ MonitorExcludesFulfiller'
    BY <1>26, Zenon DEF vars, IInv, SingleFulfiller, MonitorExcludesFulfiller, Owner
  <2> QED
    BY <1>0, <2>1, <2>2, <2>3, Zenon DEF IInv
<1> QED
  BY <1>1, <1>2, <1>3, <1>4, <1>5, <1>6, <1>7, <1>8, <1>9, <1>10, <1>11, <1>12, <1>13,
     <1>14, <1>15, <1>16, <1>17, <1>18, <1>19, <1>20, <1>21, <1>22, <1>23, <1>24, <1>25, <1>26
  DEF Next, Handler, Events, Outside, Fulfil, Recovery, Monitor

\* The inductive invariant holds throughout.
THEOREM Inductive == Spec => []IInv
  BY IndInit, IndStep, PTL DEF Spec

\* cBTC only leaves the pool for claimed payments, whatever fulfill_swap, the
\* recovery and replayed events do, and never under a Pending or Expired row.
THEOREM DeliverySafe == Spec => []DeliveredOnlyIfClaimed
<1>1. IInv => DeliveredOnlyIfClaimed
  BY DEF IInv, TypeOK, RowInv, DeliveredOnlyIfClaimed, SwapStatus
<1> QED
  BY <1>1, Inductive, PTL

\* transition_status admits at most one fulfil task per swap.
THEOREM OneFulfiller == Spec => []SingleFulfiller
<1>1. IInv => SingleFulfiller
  BY DEF IInv
<1> QED
  BY <1>1, Inductive, PTL

\* The monitor's stale snapshot never overlaps a fulfil task that passed the
\* expiry check.
THEOREM MonitorSafe == Spec => []MonitorExcludesFulfiller
<1>1. IInv => MonitorExcludesFulfiller
  BY Zenon DEF IInv
<1> QED
  BY <1>1, Inductive, PTL

\* Recorded transaction hashes and Expired rows are backed by the chain.
THEOREM RecordsReal == Spec => []RecordedTxIsReal
<1>1. IInv => RecordedTxIsReal
  BY ZenonT(40) DEF IInv, RowInv, RecordedTxIsReal
<1> QED
  BY <1>1, Inductive, PTL

\* A row never expires before its on-chain invoice.
THEOREM RowOutlives == Spec => []RowOutlivesInvoice
<1>1. IInv => RowOutlivesInvoice
  BY Zenon DEF IInv, RowInv, RowOutlivesInvoice
<1> QED
  BY <1>1, Inductive, PTL

-----------------------------------------------------------------------------
(* Refinement.                                                             *)

\* A step that leaves the invoices, the clock and who is claimed alone is a
\* stutter of the promise.
LEMMA PromiseStutter ==
  ASSUME UNCHANGED <<chain, chain_expires, now>>, \A s \in Swaps : Claimed(s)' <=> Claimed(s)
  PROVE  UNCHANGED Promise!vars
  BY DEF Promise!vars, Paid, Late, Pool, PoolOf

\* The pool status of each invoice status.
LEMMA PoolValues ==
  /\ PoolOf("none") = "none" /\ PoolOf("open") = "reserved"
  /\ PoolOf("fulfilled") = "delivered" /\ PoolOf("cancelled") = "released"
  BY DEF PoolOf

\* One invoice changing changes one entry of the pool.
LEMMA PoolUpdate ==
  ASSUME TypeOK, NEW s \in Swaps, NEW c, chain' = [chain EXCEPT ![s] = c]
  PROVE  Pool[s] = PoolOf(chain[s]) /\ Pool' = [Pool EXCEPT ![s] = PoolOf(c)]
  BY Zenon DEF TypeOK, Pool

\* FulfillInvoice landing on s's open invoice delivers.
LEMMA PromiseDeliver ==
  ASSUME IInv, NEW s \in Swaps, Claimed(s), ErrorSeen(s, "fulfilled") \/ Lands(s, "fulfilled"),
         UNCHANGED <<chain_expires, evt, now>>
  PROVE  [Promise!Next]_Promise!vars
<1>1. CASE UNCHANGED chain
  BY <1>1 DEF Promise!vars, Paid, Late, Pool, PoolOf, Claimed
<1>2. CASE Lands(s, "fulfilled")
  <2>1. Paid' = Paid /\ Late' = Late
    BY <1>2 DEF IInv, TypeOK, Lands, Paid, Late, Claimed
  <2>2. Pool[s] = "reserved" /\ Pool' = [Pool EXCEPT ![s] = "delivered"]
    <3>1. TypeOK /\ chain[s] = "open" /\ chain' = [chain EXCEPT ![s] = "fulfilled"]
      BY <1>2 DEF IInv, Lands
    <3> QED
      BY <3>1, PoolUpdate, PoolValues, ZenonT(40)
  <2>3. Promise!Deliver(s)
    BY <2>1, <2>2 DEF Promise!Deliver, Paid
  <2> QED
    BY <2>3 DEF Promise!Next
<1> QED
  BY <1>1, <1>2 DEF ErrorSeen

\* CancelInvoice landing on s's open, lapsed invoice releases.
LEMMA PromiseRelease ==
  ASSUME IInv, NEW s \in Swaps, chain_expires[s] < now,
         ErrorSeen(s, "cancelled") \/ Lands(s, "cancelled"),
         UNCHANGED <<chain_expires, evt, now>>
  PROVE  [Promise!Next]_Promise!vars
<1>1. CASE UNCHANGED chain
  BY <1>1 DEF Promise!vars, Paid, Late, Pool, PoolOf, Claimed
<1>2. CASE Lands(s, "cancelled")
  <2>1. Paid' = Paid /\ Late' = Late /\ s \in Late
    BY <1>2 DEF IInv, TypeOK, Lands, Paid, Late, Claimed
  <2>2. Pool[s] = "reserved" /\ Pool' = [Pool EXCEPT ![s] = "released"]
    <3>1. TypeOK /\ chain[s] = "open" /\ chain' = [chain EXCEPT ![s] = "cancelled"]
      BY <1>2 DEF IInv, Lands
    <3> QED
      BY <3>1, PoolUpdate, PoolValues, ZenonT(40)
  <2>3. Promise!Release(s)
    BY <2>1, <2>2 DEF Promise!Release
  <2> QED
    BY <2>3 DEF Promise!Next
<1> QED
  BY <1>1, <1>2 DEF ErrorSeen

\* Every step of the relay is a step of the promise, or a stutter.
LEMMA PromiseStep == IInv /\ [Next]_vars => [Promise!Next]_Promise!vars
<1> SUFFICES ASSUME IInv, [Next]_vars PROVE [Promise!Next]_Promise!vars
  OBVIOUS
<1>0. TypeOK
  BY DEF IInv
<1> USE DEF dbvars, chainvars, clockvars
<1>1. ASSUME NEW s \in Swaps, request_swap(s) PROVE [Promise!Next]_Promise!vars
  <2>1. chain[s] = "none" /\ UNCHANGED <<evt, now>>
    BY <1>1 DEF IInv, ReqInv, request_swap
  <2>2. Paid' = Paid
    BY <2>1 DEF Paid, Claimed
  <2>3. CASE chain' = [chain EXCEPT ![s] = "open"]
    <3>1. Late' \in {Late, Late \cup {s}}
      <4>1. \A r \in Swaps \ {s} : r \in Late' <=> r \in Late
        BY <1>0, <1>1, <2>1, <2>3 DEF TypeOK, request_swap, Late
      <4> QED
        BY <2>1, <4>1 DEF Late
    <3>2. Pool[s] = "none" /\ Pool' = [Pool EXCEPT ![s] = "reserved"]
      BY <1>0, <2>1, <2>3, PoolUpdate, PoolValues, Zenon
    <3>3. Promise!Reserve(s)
      BY <2>2, <3>1, <3>2 DEF Promise!Reserve
    <3> QED
      BY <3>3 DEF Promise!Next
  <2>4. CASE chain' = chain
    <3>1. Late' = Late
      BY <1>0, <1>1, <2>1, <2>4 DEF TypeOK, request_swap, Late
    <3> QED
      BY <2>2, <2>4, <3>1 DEF Promise!vars, Pool, PoolOf
  <2> QED
    BY <1>1, <2>3, <2>4 DEF request_swap
<1>2. ASSUME NEW s \in Swaps, PaymentClaimable(s) PROVE [Promise!Next]_Promise!vars
  <2>1. Paid' = Paid \cup {s}
    BY <1>0, <1>2 DEF TypeOK, PaymentClaimable, Paid, Claimed
  <2>2. Late' = Late /\ Pool' = Pool
    BY <1>2 DEF PaymentClaimable, Late, Pool, PoolOf
  <2>3. Promise!Pay(s)
    BY <2>1, <2>2 DEF Promise!Pay
  <2> QED
    BY <2>3 DEF Promise!Next
<1>3. ASSUME NEW t \in Tasks, fulfill_submit(t) PROVE [Promise!Next]_Promise!vars
  <2>1. task[t].swap \in Swaps /\ Claimed(task[t].swap)
    BY <1>3 DEF IInv, TaskInv, fulfill_submit
  <2> QED
    BY <1>3, <2>1, PromiseDeliver DEF fulfill_submit
<1>4. ASSUME recover_submit PROVE [Promise!Next]_Promise!vars
  <2>1. rec.cur \in Swaps /\ Claimed(rec.cur)
    BY <1>4 DEF IInv, RecInv, recover_submit
  <2> QED
    BY <1>4, <2>1, PromiseDeliver DEF recover_submit
<1>5. ASSUME NEW s \in Swaps, monitor_cancel(s) PROVE [Promise!Next]_Promise!vars
  <2>1. chain_expires[s] < now
    BY <1>0, <1>5 DEF TypeOK, IInv, MonInv, RowInv, monitor_cancel
  <2> QED
    BY <1>5, <2>1, PromiseRelease DEF monitor_cancel
<1>6. ASSUME NEW s \in Swaps, cancel_expired(s) PROVE [Promise!Next]_Promise!vars
  <2>1. ErrorSeen(s, "cancelled") \/ Lands(s, "cancelled")
    BY <1>6 DEF cancel_expired, ErrorSeen
  <2> QED
    BY <1>6, <2>1, PromiseRelease DEF cancel_expired
<1>7. CASE Tick
  <2>1. Late \subseteq Late' /\ Late' \subseteq Swaps
    BY <1>0, <1>7 DEF TypeOK, Tick, Late
  <2>2. Paid' = Paid /\ Pool' = Pool
    BY <1>7 DEF Tick, Paid, Claimed, Pool, PoolOf
  <2>3. Promise!Lapse
    BY <2>1, <2>2, Zenon DEF Promise!Lapse
  <2> QED
    BY <2>3, Zenon DEF Promise!Next
<1>8. ASSUME NEW s \in Swaps,
             pay_invoice(s) \/ PaymentClaimed(s) \/ ldk_persist(s) \/ ldk_redeliver(s)
      PROVE  [Promise!Next]_Promise!vars
  <2>1. \A r \in Swaps : Claimed(r)' <=> Claimed(r)
    BY <1>0, <1>8, ZenonT(40) DEF TypeOK, pay_invoice, PaymentClaimed, ldk_persist, ldk_redeliver, Claimed
  <2> QED
    BY <1>8, <2>1, PromiseStutter, Zenon DEF pay_invoice, PaymentClaimed, ldk_persist, ldk_redeliver
<1>9. CASE Crash
  <2>1. \A r \in Swaps : Claimed(r)' <=> Claimed(r)
    BY <1>0, <1>9 DEF TypeOK, Crash, Claimed
  <2> QED
    BY <1>9, <2>1, PromiseStutter, ZenonT(40) DEF Crash
<1>10. ASSUME UNCHANGED <<chain, chain_expires, evt, now>> PROVE [Promise!Next]_Promise!vars
  BY <1>10, PromiseStutter DEF Claimed
<1>11. ASSUME NEW s \in Swaps,
              handle_swap_request(s) \/ liquidity_precheck(s) \/ store_swap_mapping(s)
       PROVE  [Promise!Next]_Promise!vars
  BY <1>10, <1>11 DEF handle_swap_request, liquidity_precheck, store_swap_mapping
<1>12. ASSUME NEW t \in Tasks,
              fulfill_transition(t) \/ fulfill_expiry(t) \/ fulfill_query(t) \/ fulfill_record(t)
       PROVE  [Promise!Next]_Promise!vars
  BY <1>10, <1>12 DEF fulfill_transition, fulfill_expiry, fulfill_query, fulfill_record
<1>13. ASSUME \/ recover_scan \/ recover_record \/ recover_done
              \/ \E s \in Swaps : recover_query(s)
       PROVE  [Promise!Next]_Promise!vars
  BY <1>10, <1>13 DEF recover_scan, recover_query, recover_record, recover_done
<1>14. ASSUME monitor_tick \/ monitor_record PROVE [Promise!Next]_Promise!vars
  BY <1>10, <1>14 DEF monitor_tick, monitor_record
<1>15. CASE UNCHANGED vars
  BY <1>10, <1>15 DEF vars
<1> QED
  BY <1>1, <1>2, <1>3, <1>4, <1>5, <1>6, <1>7, <1>8, <1>9, <1>11, <1>12, <1>13, <1>14, <1>15
  DEF Next, Handler, Events, Outside, Fulfil, Recovery, Monitor

\* The onramp implements the promise about the pool: liquidity reserved for a
\* swap is delivered at most once and only if paid for, or released and then
\* only when late.
THEOREM Refinement == Spec => ImplementsPromise
<1>1. Init => Promise!Init
  BY DEF Init, Promise!Init, Paid, Late, Pool, PoolOf, Claimed
<1> QED
  BY <1>1, PromiseStep, Inductive, PTL DEF Spec, ImplementsPromise, Promise!Spec
=============================================================================
