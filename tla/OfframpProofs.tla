--------------------------- MODULE OfframpProofs ----------------------------
(***************************************************************************)
(* The offramp's safety properties for every set of offramps, invoices,    *)
(* deposits, calls and tasks, every environment and every bound.           *)
(*                                                                         *)
(* First type correctness, the inductive invariant IInv, and the parts of  *)
(* it that a step leaves alone when it leaves alone what they speak of;    *)
(* then one lemma per group of actions; last the theorems.                 *)
(***************************************************************************)
EXTENDS Offramp, TLAPS

Attempts == 0..(SubmitAttempts - 1)
ReqRec == [pc : ReqPc, bolt : Bolts \cup {None}, att : Attempts]
CallRec == [pc : CallPc, id : Offramps \cup {None}, tx : Deposits \cup {None}]
JobRec == [pc : JobPc, id : Offramps \cup {None}, att : Attempts]
RecRec == [pc : RecPc, todo : SUBSET Offramps, cur : Offramps \cup {None}]
MonRec == [pc : MonPc, todo : SUBSET Offramps, cur : Offramps \cup {None}]

\* TypeOK in terms of these records.
TableOK ==
  /\ status \in [Offramps -> OfframpStatus \cup {"absent"}]
  /\ payment_hash \in [Offramps -> Bolts \cup {None}]
  /\ cbtc_tx \in [Offramps -> Deposits \cup {None}]
  /\ expires_at \in [Offramps -> Nat]
  /\ deposit_tx \in [Offramps -> BOOLEAN]
WorldOK ==
  /\ chain \in [Offramps -> ChainStatus]
  /\ received \in SUBSET Deposits
  /\ refunds \in [Offramps -> Nat]
  /\ now \in Nat
  /\ crashes \in Nat
  /\ dropped \in SUBSET (Offramps \cup {None})
LightningOK ==
  /\ ln \in [Bolts -> LnStatus]
  /\ paid \in SUBSET Bolts
  /\ evt \in [Bolts -> EventStatus]
  /\ replayed \in SUBSET Bolts
TasksOK ==
  /\ req \in [Offramps -> ReqRec]
  /\ call \in [Calls -> CallRec]
  /\ job \in [Jobs -> JobRec]
  /\ rec \in RecRec
  /\ mon \in MonRec

-----------------------------------------------------------------------------
(* Type correctness.                                                       *)

\* TypeOK, part by part.
LEMMA TypeParts == TypeOK <=> TableOK /\ WorldOK /\ LightningOK /\ TasksOK
  BY DEF TypeOK, TableOK, WorldOK, LightningOK, TasksOK, Attempts, ReqRec, CallRec, JobRec, RecRec,
     MonRec

\* The first attempt is always within the limit.
LEMMA FirstAttempt == 0 \in Attempts
  BY OfframpAssumption DEF OfframpAssumption, Attempts

\* The named constants of the records are of their types.
LEMMA IdleTypes ==
  /\ IdleReq \in ReqRec /\ ClosedReq \in ReqRec
  /\ IdleCall \in CallRec /\ IdleJob \in JobRec
  /\ StartRec \in RecRec /\ StartMon \in MonRec
  BY FirstAttempt
  DEF IdleReq, ClosedReq, IdleCall, IdleJob, StartRec, StartMon, ReqRec, CallRec, JobRec, RecRec,
      MonRec, ReqPc, CallPc, JobPc, RecPc, MonPc

\* After a failed attempt a handler is where it was, one attempt further, or at
\* the place where submit_contract_tx_with_retry gave up.
LEMMA AfterErrorReq ==
  ASSUME NEW r \in ReqRec, NEW g \in ReqPc, NEW x \in AfterError(r, g)
  PROVE  x \in ReqRec /\ x.bolt = r.bolt /\ x.pc \in {r.pc, g}
<1>1. CASE x = [r EXCEPT !.pc = g, !.att = 0]
  <2> DEFINE y == [r EXCEPT !.pc = g]
  <2>1. y \in ReqRec /\ x = [y EXCEPT !.att = 0]
    BY <1>1 DEF ReqRec
  <2> QED
    BY Zenon, <2>1, FirstAttempt DEF ReqRec
<1>2. ASSUME NEW a \in 1..(SubmitAttempts - 1), x = [r EXCEPT !.att = a]
      PROVE  x \in ReqRec /\ x.bolt = r.bolt /\ x.pc \in {r.pc, g}
  <2>1. a \in Attempts
    BY OfframpAssumption DEF OfframpAssumption, Attempts
  <2> QED
    BY <1>2, <2>1 DEF ReqRec
<1> QED
  BY <1>1, <1>2 DEF AfterError

\* The same for an event's task, which keeps its offramp.
LEMMA AfterErrorJob ==
  ASSUME NEW r \in JobRec, NEW g \in JobPc, NEW x \in AfterError(r, g)
  PROVE  x \in JobRec /\ x.id = r.id /\ x.pc \in {r.pc, g}
<1>1. CASE x = [r EXCEPT !.pc = g, !.att = 0]
  <2> DEFINE y == [r EXCEPT !.pc = g]
  <2>1. y \in JobRec /\ x = [y EXCEPT !.att = 0]
    BY <1>1 DEF JobRec
  <2> QED
    BY Zenon, <2>1, FirstAttempt DEF JobRec
<1>2. ASSUME NEW a \in 1..(SubmitAttempts - 1), x = [r EXCEPT !.att = a]
      PROVE  x \in JobRec /\ x.id = r.id /\ x.pc \in {r.pc, g}
  <2>1. a \in Attempts
    BY OfframpAssumption DEF OfframpAssumption, Attempts
  <2> QED
    BY <1>2, <2>1 DEF JobRec
<1> QED
  BY <1>1, <1>2 DEF AfterError

\* A status written to a row keeps the table's types.
LEMMA StatusType ==
  ASSUME TableOK, NEW o, NEW st \in OfframpStatus, update_offramp_status(o, st)
  PROVE  TableOK'
  BY Zenon DEF TableOK, update_offramp_status

\* So does an outcome on the chain, whichever answer is seen.
LEMMA ChainType ==
  ASSUME WorldOK, NEW o, NEW out \in {"fulfilled", "cancelled"}, Lands(o, out) \/ ErrorSeen(o, out)
  PROVE  chain' \in [Offramps -> ChainStatus]
  BY DEF WorldOK, Lands, ErrorSeen, ChainStatus

\* A task's step is of the task's type.
LEMMA JobTypes ==
  ASSUME TasksOK, NEW j
  PROVE  /\ \A pc \in JobPc : [job EXCEPT ![j].pc = pc] \in [Jobs -> JobRec]
         /\ \A r \in JobRec : [job EXCEPT ![j] = r] \in [Jobs -> JobRec]
         /\ \A pc \in JobPc : [job EXCEPT ![j].pc = pc, ![j].att = 0] \in [Jobs -> JobRec]
<1>1. \A pc \in JobPc : [job EXCEPT ![j].pc = pc] \in [Jobs -> JobRec]
  BY Zenon DEF TasksOK, JobRec
<1>2. \A f \in [Jobs -> JobRec] : [f EXCEPT ![j].att = 0] \in [Jobs -> JobRec]
  <2> TAKE f \in [Jobs -> JobRec]
  <2>1. \A r \in JobRec : [r EXCEPT !.att = 0] \in JobRec
    BY FirstAttempt DEF JobRec
  <2>2. CASE j \in Jobs
    <3>1. [f[j] EXCEPT !.att = 0] \in JobRec
      BY <2>1, <2>2
    <3>2. [f EXCEPT ![j] = [f[j] EXCEPT !.att = 0]] \in [Jobs -> JobRec]
      BY Zenon, <3>1
    <3> QED
      BY <3>2
  <2>3. CASE j \notin Jobs
    BY Zenon, <2>3
  <2> QED
    BY <2>2, <2>3
<1>3. ASSUME NEW pc \in JobPc
      PROVE  [job EXCEPT ![j].pc = pc, ![j].att = 0] \in [Jobs -> JobRec]
  <2> DEFINE f == [job EXCEPT ![j].pc = pc]
  <2>1. f \in [Jobs -> JobRec]
    BY <1>1, <1>3
  <2>2. [job EXCEPT ![j].pc = pc, ![j].att = 0] = [f EXCEPT ![j].att = 0]
    OBVIOUS
  <2> HIDE DEF f
  <2> QED
    BY Zenon, <1>2, <2>1, <2>2
<1> QED
  BY Zenon, <1>1, <1>3 DEF TasksOK

\* The same for a deposit call.
LEMMA CallTypes ==
  ASSUME TasksOK, NEW c
  PROVE  /\ \A pc \in CallPc : [call EXCEPT ![c].pc = pc] \in [Calls -> CallRec]
         /\ \A r \in CallRec : [call EXCEPT ![c] = r] \in [Calls -> CallRec]
  BY ZenonT(40) DEF TasksOK, CallRec

\* The initial values are in their domains.
LEMMA TypeInit == Init => TypeOK
  BY IdleTypes, TypeParts
  DEF Init, TableOK, WorldOK, LightningOK, TasksOK, ChainStatus, EventStatus, LnStatus

\* Every action of Next keeps the variables in their domains.
LEMMA TypeStep == TypeOK /\ [Next]_vars => TypeOK'
<1> SUFFICES ASSUME TableOK, WorldOK, LightningOK, TasksOK, [Next]_vars
             PROVE  TableOK' /\ WorldOK' /\ LightningOK' /\ TasksOK'
  <2>1. TypeOK' <=> TableOK' /\ WorldOK' /\ LightningOK' /\ TasksOK'
    BY TypeParts, PTL
  <2> QED
    BY <2>1, TypeParts
<1>a. UNCHANGED dbvars => TableOK'
  BY DEF TableOK, dbvars
<1>b. UNCHANGED <<chain, received, refunds, runvars>> => WorldOK'
  BY DEF WorldOK, runvars
<1>c. UNCHANGED lnvars => LightningOK'
  BY DEF LightningOK, lnvars
<1>1. ASSUME NEW o \in Offramps, NEW b \in Bolts, handle_offramp_request(o, b)
      PROVE  TableOK' /\ WorldOK' /\ LightningOK' /\ TasksOK'
  <2>1. [pc |-> "check", bolt |-> b, att |-> 0] \in ReqRec
    BY FirstAttempt DEF ReqRec, ReqPc
  <2>2. TasksOK'
    BY <1>1, <2>1 DEF handle_offramp_request, TasksOK
  <2> QED
    BY <1>1, <1>a, <1>b, <1>c, <2>2 DEF handle_offramp_request
<1>2. ASSUME NEW o \in Offramps, request_offramp(o)
      PROVE  TableOK' /\ WorldOK' /\ LightningOK' /\ TasksOK'
  <2>1. [req EXCEPT ![o].pc = "create"] \in [Offramps -> ReqRec]
    BY DEF TasksOK, ReqRec, ReqPc
  <2>2. TasksOK'
    BY <1>2, <2>1, IdleTypes DEF request_offramp, TasksOK
  <2>3. now + Expiry \in Nat
    BY OfframpAssumption DEF OfframpAssumption, WorldOK
  <2>4. TableOK'
    BY <1>2, <2>3 DEF request_offramp, TableOK
  <2> QED
    BY <1>2, <1>b, <1>c, <2>2, <2>4 DEF request_offramp
<1>3. ASSUME NEW o \in Offramps, create_offramp(o)
      PROVE  TableOK' /\ WorldOK' /\ LightningOK' /\ TasksOK'
  <2>1. WorldOK'
    BY <1>3 DEF create_offramp, WorldOK, ChainStatus, runvars
  <2> DEFINE f == [req EXCEPT ![o].pc = "created"]
  <2>2. f \in [Offramps -> ReqRec]
    BY DEF TasksOK, ReqRec, ReqPc
  <2>3. [req EXCEPT ![o].pc = "created", ![o].att = 0] = [f EXCEPT ![o].att = 0]
    OBVIOUS
  <2>4. [f EXCEPT ![o].att = 0] \in [Offramps -> ReqRec]
    <3>1. \A r \in ReqRec : [r EXCEPT !.att = 0] \in ReqRec
      BY FirstAttempt DEF ReqRec
    <3> HIDE DEF f
    <3>2. [f[o] EXCEPT !.att = 0] \in ReqRec
      BY <2>2, <3>1
    <3>3. [f EXCEPT ![o] = [f[o] EXCEPT !.att = 0]] \in [Offramps -> ReqRec]
      BY <2>2, <3>2
    <3> QED
      BY <3>3
  <2>5. \A r \in AfterError(req[o], "closed") : r \in ReqRec
    BY AfterErrorReq DEF TasksOK, ReqPc
  <2>6. TasksOK'
    <3>1. CASE req' = [req EXCEPT ![o].pc = "created", ![o].att = 0]
      BY <1>3, <2>3, <2>4, <3>1 DEF create_offramp, TasksOK
    <3>2. ASSUME NEW r \in AfterError(req[o], "closed"),
                 req' = [req EXCEPT ![o] = IF r.pc = "closed" THEN ClosedReq ELSE r]
          PROVE  TasksOK'
      BY <1>3, <2>5, <3>2, IdleTypes DEF create_offramp, TasksOK
    <3> QED
      BY <1>3, <3>1, <3>2 DEF create_offramp
  <2> QED
    BY <1>3, <1>a, <1>c, <2>1, <2>6 DEF create_offramp
<1>4. ASSUME NEW o \in Offramps, insert_offramp(o)
      PROVE  TableOK' /\ WorldOK' /\ LightningOK' /\ TasksOK'
  <2>1. req[o].bolt \in Bolts \cup {None}
    BY DEF TasksOK, ReqRec
  <2>2. TableOK'
    BY <1>4, <2>1 DEF insert_offramp, TableOK, OfframpStatus
  <2>3. TasksOK'
    BY <1>4, IdleTypes DEF insert_offramp, TasksOK
  <2> QED
    BY <1>4, <1>b, <1>c, <2>2, <2>3 DEF insert_offramp
<1>5. ASSUME NEW d \in Deposits, send_cbtc_deposit(d)
      PROVE  TableOK' /\ WorldOK' /\ LightningOK' /\ TasksOK'
  BY <1>5, <1>a, <1>c DEF send_cbtc_deposit, WorldOK, TasksOK, runvars
<1>6. ASSUME NEW c \in Calls, NEW o \in Offramps, NEW d \in Deposits, handle_offramp_deposit(c, o, d)
      PROVE  TableOK' /\ WorldOK' /\ LightningOK' /\ TasksOK'
  <2>1. [pc |-> "reuse", id |-> o, tx |-> d] \in CallRec
    BY DEF CallRec, CallPc
  <2>2. TasksOK'
    BY <1>6, <2>1, CallTypes DEF handle_offramp_deposit, TasksOK
  <2> QED
    BY <1>6, <1>a, <1>b, <1>c, <2>2 DEF handle_offramp_deposit
<1>7. ASSUME NEW c \in Calls, Deposit(c)
      PROVE  TableOK' /\ WorldOK' /\ LightningOK' /\ TasksOK'
  <2>a. /\ \A pc \in CallPc : [call EXCEPT ![c].pc = pc] \in [Calls -> CallRec]
        /\ [call EXCEPT ![c] = IdleCall] \in [Calls -> CallRec]
    BY CallTypes, IdleTypes
  <2>1. CASE deposit_reuse_check(c)
    <3>1. [call[c] EXCEPT !.pc = "claim"] \in CallRec
      BY DEF TasksOK, CallRec, CallPc
    <3>2. \A r \in CallRec : [call EXCEPT ![c] = r] \in [Calls -> CallRec]
      BY CallTypes
    <3>3. call' \in [Calls -> CallRec]
      BY <2>1, <2>a, <3>1, <3>2, IdleTypes DEF deposit_reuse_check, CallPc
    <3> QED
      BY <2>1, <1>a, <1>b, <1>c, <3>3 DEF deposit_reuse_check, TasksOK
  <2>2. CASE deposit_claim(c)
    <3>1. TasksOK'
      BY <2>2, <2>a DEF deposit_claim, TasksOK, CallPc
    <3>2. TableOK'
      BY <2>2, <1>a, StatusType DEF deposit_claim, OfframpStatus
    <3> QED
      BY <2>2, <1>b, <1>c, <3>1, <3>2 DEF deposit_claim
  <2>3. CASE verify_cbtc_received(c)
    BY <2>3, <2>a, <1>a, <1>b, <1>c DEF verify_cbtc_received, TasksOK, CallPc
  <2>4. CASE deposit_revert(c)
    <3>1. TableOK'
      BY <2>4, StatusType DEF deposit_revert, OfframpStatus
    <3> QED
      BY <2>4, <2>a, <1>b, <1>c, <3>1 DEF deposit_revert, TasksOK
  <2>5. CASE deposit_verified(c)
    <3>1. call[c].tx \in Deposits \cup {None}
      BY DEF TasksOK, CallRec
    <3>2. TableOK'
      BY <2>5, <3>1 DEF deposit_verified, TableOK, OfframpStatus
    <3> QED
      BY <2>5, <2>a, <1>b, <1>c, <3>2 DEF deposit_verified, TasksOK, CallPc
  <2>6. CASE send_payment(c)
    <3>1. LightningOK'
      BY <2>6 DEF send_payment, LightningOK, LnStatus
    <3> QED
      BY <2>6, <2>a, <1>a, <1>b, <3>1 DEF send_payment, TasksOK, CallPc
  <2>7. CASE deposit_unpaid(c)
    <3>1. TableOK'
      BY <2>7, StatusType DEF deposit_unpaid, OfframpStatus
    <3> QED
      BY <2>7, <2>a, <1>b, <1>c, <3>1 DEF deposit_unpaid, TasksOK
  <2> QED
    BY <1>7, <2>1, <2>2, <2>3, <2>4, <2>5, <2>6, <2>7 DEF Deposit
<1>17. ASSUME NEW c \in Calls, drop_deposit(c)
       PROVE  TableOK' /\ WorldOK' /\ LightningOK' /\ TasksOK'
  <2>1. call[c].id \in Offramps \cup {None}
    BY DEF TasksOK, CallRec
  <2>2. WorldOK'
    BY <1>17, <2>1 DEF drop_deposit, WorldOK
  <2>3. call' \in [Calls -> CallRec]
    BY <1>17, CallTypes, IdleTypes DEF drop_deposit
  <2> QED
    BY <1>17, <1>a, <1>c, <2>2, <2>3 DEF drop_deposit, TasksOK
<1>8. ASSUME NEW b \in Bolts,
             payment_succeeds(b) \/ payment_fails(b) \/ ldk_persist(b) \/ ldk_redeliver(b)
      PROVE  TableOK' /\ WorldOK' /\ LightningOK' /\ TasksOK'
  <2>1. LightningOK'
    <3>1. paid' \in SUBSET Bolts /\ replayed' \in SUBSET Bolts
      BY <1>8 DEF payment_succeeds, payment_fails, ldk_persist, ldk_redeliver, LightningOK
    <3>2. ln' \in [Bolts -> LnStatus]
      BY <1>8 DEF payment_succeeds, payment_fails, ldk_persist, ldk_redeliver, LightningOK, LnStatus
    <3>3. evt' \in [Bolts -> EventStatus]
      BY <1>8 DEF payment_succeeds, payment_fails, ldk_persist, ldk_redeliver, LightningOK,
         EventStatus, Replayed
    <3> QED
      BY <3>1, <3>2, <3>3 DEF LightningOK
  <2> QED
    BY <1>8, <1>a, <1>b, <2>1
    DEF payment_succeeds, payment_fails, ldk_persist, ldk_redeliver, TasksOK
<1>9. ASSUME NEW b \in Bolts, PaymentSent(b) \/ PaymentFailed(b)
      PROVE  TableOK' /\ WorldOK' /\ LightningOK' /\ TasksOK'
  <2>1. PICK pc \in {"complete", "refund"}, h \in {"sent_handled", "failed_handled"} :
          SpawnJob(b, pc, h)
    BY <1>9 DEF PaymentSent, PaymentFailed
  <2>2. PICK j \in Jobs, o \in Offramps : job' = [job EXCEPT ![j] = [pc |-> pc, id |-> o, att |-> 0]]
    BY Zenon, <2>1 DEF SpawnJob, get_offramp_by_payment_hash
  <2>3. [pc |-> pc, id |-> o, att |-> 0] \in JobRec
    BY FirstAttempt DEF JobRec, JobPc
  <2>4. job' \in [Jobs -> JobRec]
    BY <2>2, <2>3, JobTypes
  <2>5. LightningOK'
    BY <2>1 DEF SpawnJob, LightningOK, EventStatus
  <2> QED
    BY <2>1, <1>a, <1>b, <2>4, <2>5 DEF SpawnJob, TasksOK
<1>10. ASSUME NEW j \in Jobs, Job(j)
       PROVE  TableOK' /\ WorldOK' /\ LightningOK' /\ TasksOK'
  <2>a. /\ \A pc \in JobPc : [job EXCEPT ![j].pc = pc] \in [Jobs -> JobRec]
        /\ \A pc \in JobPc : [job EXCEPT ![j].pc = pc, ![j].att = 0] \in [Jobs -> JobRec]
        /\ [job EXCEPT ![j] = IdleJob] \in [Jobs -> JobRec]
    BY JobTypes, IdleTypes
  <2>1. CASE complete_transition(j)
    <3>1. TableOK'
      BY <2>1, <1>a, StatusType DEF complete_transition, OfframpStatus
    <3>2. job' \in [Jobs -> JobRec]
      <4>1. \/ job' = [job EXCEPT ![j].pc = "preimage"]
            \/ job' = [job EXCEPT ![j] = IdleJob]
        BY <2>1, Zenon DEF complete_transition
      <4>2. "preimage" \in JobPc
        BY Zenon DEF JobPc
      <4> QED
        BY <2>a, <4>1, <4>2, Zenon
    <3> QED
      BY <2>1, <1>b, <1>c, <3>1, <3>2 DEF complete_transition, TasksOK
  <2>2. CASE complete_preimage(j)
    <3>1. TableOK'
      BY <2>2, StatusType DEF complete_preimage, OfframpStatus
    <3>2. job' \in [Jobs -> JobRec]
      BY <2>2, <2>a DEF complete_preimage, JobPc
    <3> QED
      BY <2>2, <1>b, <1>c, <3>1, <3>2 DEF complete_preimage, TasksOK
  <2>3. CASE complete_query(j)
    <3>0. PICK pc \in {"submit", "failed"} : job' = [job EXCEPT ![j].pc = pc]
      BY <2>3 DEF complete_query
    <3>1. job' \in [Jobs -> JobRec]
      BY Zenon, <3>0, <2>a DEF JobPc
    <3> QED
      BY <2>3, <1>a, <1>b, <1>c, <3>1 DEF complete_query, TasksOK
  <2>4. CASE complete_submit(j)
    <3>1. chain' \in [Offramps -> ChainStatus]
      BY <2>4, ChainType DEF complete_submit
    <3>2. \A r \in AfterError(job[j], "failed") : r \in JobRec
      BY AfterErrorJob DEF TasksOK, JobPc
    <3>3. job' \in [Jobs -> JobRec]
      <4>1. CASE job' = [job EXCEPT ![j].pc = "completed", ![j].att = 0]
        BY <2>a, <4>1 DEF JobPc
      <4>2. ASSUME NEW r \in AfterError(job[j], "failed"), job' = [job EXCEPT ![j] = r]
            PROVE  job' \in [Jobs -> JobRec]
        BY <3>2, <4>2, JobTypes
      <4> QED
        BY <2>4, <4>1, <4>2 DEF complete_submit
    <3> QED
      BY <2>4, <1>a, <1>c, <3>1, <3>3 DEF complete_submit, TasksOK, WorldOK, runvars
  <2>5. CASE complete_record(j)
    <3>1. TableOK'
      BY Zenon, <2>5, StatusType DEF complete_record, TableOK, OfframpStatus
    <3>2. job' \in [Jobs -> JobRec]
      BY Zenon, <2>5, <2>a DEF complete_record
    <3> QED
      BY <2>5, <1>b, <1>c, <3>1, <3>2 DEF complete_record, TasksOK
  <2>6. CASE refund_cbtc(j)
    <3>1. refunds' \in [Offramps -> Nat]
      <4>1. refunds' = refunds \/ refunds' = [refunds EXCEPT ![job[j].id] = @ + 1]
        BY <2>6 DEF refund_cbtc
      <4> QED
        BY <4>1 DEF WorldOK
    <3>2. job' \in [Jobs -> JobRec]
      BY <2>6, <2>a DEF refund_cbtc, JobPc
    <3> QED
      BY <2>6, <1>a, <1>c, <3>1, <3>2 DEF refund_cbtc, TasksOK, WorldOK, runvars
  <2>7. CASE mark_failed(j)
    <3>1. TableOK'
      BY <2>7, StatusType DEF mark_failed, OfframpStatus
    <3>2. job' \in [Jobs -> JobRec]
      BY <2>7, <2>a DEF mark_failed, JobPc
    <3> QED
      BY <2>7, <1>b, <1>c, <3>1, <3>2 DEF mark_failed, TasksOK
  <2>8. CASE cancel_offramp_on_chain(j)
    <3>1. chain' \in [Offramps -> ChainStatus]
      BY <2>8, ChainType DEF cancel_offramp_on_chain
    <3>2. job' \in [Jobs -> JobRec]
      <4>1. \/ job' = [job EXCEPT ![j].pc = "cancelled"]
            \/ job' = [job EXCEPT ![j] = IdleJob]
        BY <2>8, Zenon DEF cancel_offramp_on_chain
      <4>2. "cancelled" \in JobPc
        BY Zenon DEF JobPc
      <4> QED
        BY <2>a, <4>1, <4>2, Zenon
    <3> QED
      BY <2>8, <1>a, <1>c, <3>1, <3>2 DEF cancel_offramp_on_chain, TasksOK, WorldOK, runvars
  <2>9. CASE cancel_record(j)
    <3>1. TableOK'
      BY <2>9, StatusType DEF cancel_record, OfframpStatus
    <3>2. job' \in [Jobs -> JobRec]
      BY Zenon, <2>9, <2>a DEF cancel_record
    <3> QED
      BY <2>9, <1>b, <1>c, <3>1, <3>2 DEF cancel_record, TasksOK
  <2> QED
    BY <1>10, <2>1, <2>2, <2>3, <2>4, <2>5, <2>6, <2>7, <2>8, <2>9 DEF Job
<1>11. CASE Recovery
  <2>1. CASE recover_scan
    <3>1. \A st : get_offramps_by_status(st) \in SUBSET Offramps
      BY DEF get_offramps_by_status
    <3>2. ASSUME NEW pc \in RecPc, NEW T \in SUBSET Offramps
          PROVE  [rec EXCEPT !.pc = pc, !.todo = T] \in RecRec
      BY Zenon DEF TasksOK, RecRec
    <3>3. rec' \in RecRec
      BY ZenonT(40), <2>1, <3>1, <3>2 DEF recover_scan, RecPc
    <3> QED
      BY <2>1, <1>a, <1>b, <1>c, <3>3 DEF recover_scan, TasksOK
  <2>2. CASE recover_next_pass
    <3>1. \A pc \in DOMAIN AfterPass : AfterPass[pc] \in RecPc
      BY DEF AfterPass, RecPc
    <3>2. rec' \in RecRec
      BY <2>2, <3>1 DEF recover_next_pass, TasksOK, RecRec
    <3> QED
      BY <2>2, <1>a, <1>b, <1>c, <3>2 DEF recover_next_pass, TasksOK
  <2>3. ASSUME NEW o \in Offramps, recover_transition(o)
        PROVE  TableOK' /\ WorldOK' /\ LightningOK' /\ TasksOK'
    <3>1. TableOK'
      BY <2>3, <1>a, StatusType DEF recover_transition, OfframpStatus
    <3>2. rec' \in RecRec
      BY <2>3 DEF recover_transition, TasksOK, RecRec
    <3> QED
      BY <2>3, <1>b, <1>c, <3>1, <3>2 DEF recover_transition, TasksOK
  <2>4. ASSUME NEW o \in Offramps, recover_query(o)
        PROVE  TableOK' /\ WorldOK' /\ LightningOK' /\ TasksOK'
    <3>1. TableOK'
      BY <2>4, <1>a, StatusType DEF recover_query, OfframpStatus
    <3>2. [pc |-> "submit", todo |-> rec.todo \ {o}, cur |-> o] \in RecRec
      BY DEF TasksOK, RecRec, RecPc
    <3>3. [rec EXCEPT !.todo = @ \ {o}] \in RecRec
      BY DEF TasksOK, RecRec
    <3>4. rec' \in RecRec
      BY <2>4, <3>2, <3>3 DEF recover_query
    <3> QED
      BY <2>4, <1>b, <1>c, <3>1, <3>4 DEF recover_query, TasksOK
  <2>5. CASE recover_submit
    <3>1. chain' \in [Offramps -> ChainStatus]
      BY <2>5, ChainType DEF recover_submit
    <3>2. rec' \in RecRec
      BY Zenon, <2>5 DEF recover_submit, TasksOK, RecRec, RecPc
    <3> QED
      BY <2>5, <1>a, <1>c, <3>1, <3>2 DEF recover_submit, TasksOK, WorldOK, runvars
  <2>6. CASE recover_record
    <3>1. TableOK'
      BY <2>6, StatusType DEF recover_record, OfframpStatus
    <3>2. rec' \in RecRec
      BY Zenon, <2>6 DEF recover_record, TasksOK, RecRec, RecPc
    <3> QED
      BY <2>6, <1>b, <1>c, <3>1, <3>2 DEF recover_record, TasksOK
  <2> QED
    BY <1>11, <2>1, <2>2, <2>3, <2>4, <2>5, <2>6 DEF Recovery
<1>12. CASE Monitor
  <2>1. CASE monitor_tick
    <3>1. get_expired_offramps(now) \in SUBSET Offramps
      BY DEF get_expired_offramps
    <3>2. mon' \in MonRec
      BY <2>1, <3>1 DEF monitor_tick, TasksOK, MonRec
    <3> QED
      BY <2>1, <1>a, <1>b, <1>c, <3>2 DEF monitor_tick, TasksOK
  <2>2. ASSUME NEW o \in Offramps, monitor_cancel(o)
        PROVE  TableOK' /\ WorldOK' /\ LightningOK' /\ TasksOK'
    <3>1. chain' \in [Offramps -> ChainStatus]
      BY <2>2, ChainType DEF monitor_cancel
    <3>2. [pc |-> "record", todo |-> mon.todo \ {o}, cur |-> o] \in MonRec
      BY DEF TasksOK, MonRec, MonPc
    <3>3. [mon EXCEPT !.todo = @ \ {o}] \in MonRec
      BY DEF TasksOK, MonRec
    <3>4. mon' \in MonRec
      BY <2>2, <3>2, <3>3 DEF monitor_cancel
    <3> QED
      BY <2>2, <1>a, <1>c, <3>1, <3>4 DEF monitor_cancel, TasksOK, WorldOK, runvars
  <2>3. CASE monitor_record
    <3>1. TableOK'
      BY <2>3, StatusType DEF monitor_record, OfframpStatus
    <3>2. mon' \in MonRec
      BY Zenon, <2>3 DEF monitor_record, TasksOK, MonRec, MonPc
    <3> QED
      BY <2>3, <1>b, <1>c, <3>1, <3>2 DEF monitor_record, TasksOK
  <2> QED
    BY <1>12, <2>1, <2>2, <2>3 DEF Monitor
<1>13. ASSUME NEW o \in Offramps, cancel_expired_offramps(o)
       PROVE  TableOK' /\ WorldOK' /\ LightningOK' /\ TasksOK'
  <2>1. chain' \in [Offramps -> ChainStatus]
    BY <1>13, ChainType DEF cancel_expired_offramps
  <2> QED
    BY <1>13, <1>a, <1>c, <2>1 DEF cancel_expired_offramps, TasksOK, WorldOK, runvars
<1>14. CASE Tick
  BY <1>14, <1>a, <1>c DEF Tick, TasksOK, WorldOK
<1>15. CASE Crash
  <2>1. \A e \in EventStatus : Replayed(e) \in EventStatus
    BY DEF Replayed, EventStatus
  <2>2. LightningOK'
    BY <1>15, <2>1 DEF Crash, LightningOK
  <2>3. TasksOK'
    BY <1>15, IdleTypes DEF Crash, TasksOK
  <2> QED
    BY <1>15, <1>a, <2>2, <2>3 DEF Crash, WorldOK
<1>16. CASE UNCHANGED vars
  BY <1>16, <1>a, <1>b, <1>c DEF vars, TasksOK
<1> QED
  BY <1>1, <1>2, <1>3, <1>4, <1>5, <1>6, <1>7, <1>8, <1>9, <1>10, <1>11, <1>12, <1>13, <1>14, <1>15,
     <1>16, <1>17
  DEF Next, Request, Lightning, Events, Users

\* The columns of offramp_mappings, the chain, LDK's payments and every task of
\* the relay stay in their domains; no attempt counter passes its limit.
THEOREM TypeCorrect == Spec => []TypeOK
  BY TypeInit, TypeStep, PTL DEF Spec

-----------------------------------------------------------------------------
(* The inductive invariant.                                                *)

Present(o) == status[o] # "absent"
Rows(b) == get_offramp_by_payment_hash(b)

\* What a row, or its absence, says.
RowInv ==
  \A o \in Offramps :
    /\ req[o].pc # "closed" => ~Present(o)
    /\ req[o].pc \in {"check", "create", "created"} => req[o].bolt \in Bolts
    /\ req[o].pc \in {"idle", "check", "create"} => chain[o] = "none"
    /\ Present(o) => payment_hash[o] \in Bolts
    /\ ~Present(o) => /\ cbtc_tx[o] = None /\ ~deposit_tx[o] /\ refunds[o] = 0
                      /\ chain[o] # "fulfilled"
    /\ cbtc_tx[o] # None => status[o] \notin {"AwaitingDeposit", "PendingVerification"}
    /\ status[o] = "PayingLightning" => cbtc_tx[o] # None
    /\ status[o] = "DepositingToPool" => payment_hash[o] \in paid

\* The calls that hold a row.
Holding(c) == call[c].pc \in {"verify", "revert", "verified", "pay", "unpaid"}
CallInv ==
  /\ rec.pc # "done" => \A c \in Calls : call[c].pc = "idle"
  /\ \A c \in Calls :
       /\ call[c].pc # "idle" => /\ call[c].id \in Offramps /\ Present(call[c].id)
                                 /\ call[c].tx \in Deposits
       /\ Holding(c) => status[call[c].id] # "AwaitingDeposit"
       /\ call[c].pc \in {"verify", "revert", "verified"} => cbtc_tx[call[c].id] = None
       /\ call[c].pc = "verified" => call[c].tx \in received
       /\ Paying(c) => cbtc_tx[call[c].id] \in received
  /\ \A c, d \in Calls : Holding(c) /\ Holding(d) /\ call[c].id = call[d].id => c = d

\* An invoice that LDK has to do with belongs to a row.
LightningInv ==
  \A b \in Bolts :
    /\ evt[b] # "none" => Rows(b) # {}
    /\ evt[b] \in {"sent", "sent_handled"} => b \in paid

JobInv ==
  /\ \A j \in Jobs :
       /\ job[j].pc # "idle" => job[j].id \in Offramps /\ Present(job[j].id)
       /\ job[j].pc = "complete" \/ Completing(j) => payment_hash[job[j].id] \in paid
       /\ Completing(j) => cbtc_tx[job[j].id] # None /\ status[job[j].id] # "PayingLightning"
       /\ job[j].pc = "completed" => chain[job[j].id] = "fulfilled"

TodoInv ==
  /\ \A o \in rec.todo \cup mon.todo : Present(o)
  /\ rec.pc \in {"query", "submit", "record"} => \A o \in rec.todo : payment_hash[o] \in paid
  /\ rec.pc \in {"submit", "record"} =>
       rec.cur \in Offramps /\ Present(rec.cur) /\ payment_hash[rec.cur] \in paid
  /\ mon.pc = "record" => mon.cur \in Offramps /\ Present(mon.cur)

\* An offramp whose invoice is its own goes through one attempt at paying it.
Refunding(j) == job[j].pc \in {"refund", "mark", "cancel", "cancelled"}
Untried(o) ==
  /\ ln[payment_hash[o]] = "none" /\ evt[payment_hash[o]] = "none" /\ payment_hash[o] \notin paid
  /\ refunds[o] = 0
  /\ \A j \in Jobs : job[j].pc # "idle" => job[j].id # o
NotFailed(o) ==
  /\ evt[payment_hash[o]] \notin {"failed", "failed_handled"}
  /\ refunds[o] = 0
  /\ \A j \in Jobs : Refunding(j) => job[j].id # o
AttemptInv ==
  \A o \in Offramps : Present(o) /\ Sole(o) =>
    /\ cbtc_tx[o] = None => Untried(o)
    /\ \A c \in Calls : call[c].pc = "pay" /\ call[c].id = o => Untried(o)
    /\ ln[payment_hash[o]] = "inflight" =>
         payment_hash[o] \notin paid /\ evt[payment_hash[o]] = "none" /\ NotFailed(o)
    /\ payment_hash[o] \in paid => NotFailed(o)

\* Unless it is replayed the failure is at one place: an event, a task, or a refund.
FailureInv ==
  \A o \in Offramps : Present(o) /\ Sole(o) /\ payment_hash[o] \notin replayed =>
    /\ refunds[o] <= 1
    /\ evt[payment_hash[o]] = "failed" =>
         refunds[o] = 0 /\ \A j \in Jobs : Refunding(j) => job[j].id # o
    /\ \A j, k \in Jobs :
         job[j].pc = "refund" /\ job[j].id = o =>
           refunds[o] = 0 /\ (Refunding(k) /\ job[k].id = o => j = k)

\* What the table, the chain and Lightning say of each other.
World ==
  /\ RowInv /\ LightningInv /\ PaidOnlyIfDeposited /\ RecordedDepositIsReal
  /\ FulfilledOnlyIfPaid

\* All of it.
Core ==
  /\ World /\ CallInv /\ JobInv /\ TodoInv
  /\ AttemptInv /\ FailureInv /\ SingleCompleter
IInv == TypeOK /\ Core

\* The invariant holds at first.
LEMMA IndInit == Init => IInv
<1> SUFFICES ASSUME Init PROVE IInv
  OBVIOUS
<1>1. /\ \A c \in Calls : call[c].pc = "idle"
      /\ \A j \in Jobs : job[j].pc = "idle"
      /\ \A o \in Offramps : ~Present(o) /\ req[o].pc = "idle"
  BY DEF Init, IdleCall, IdleJob, IdleReq, Present
<1>2. RowInv
  BY <1>1 DEF Init, RowInv, Present
<1>3. CallInv
  BY <1>1 DEF CallInv, Holding, Paying
<1>4. LightningInv /\ PaidOnlyIfDeposited
  BY DEF Init, LightningInv, PaidOnlyIfDeposited
<1>5. JobInv /\ SingleCompleter
  BY <1>1 DEF JobInv, SingleCompleter, Completing
<1>6. TodoInv
  BY Zenon DEF Init, TodoInv, StartRec, StartMon
<1>7. AttemptInv /\ FailureInv
  BY <1>1 DEF AttemptInv, FailureInv
<1>8. RecordedDepositIsReal /\ FulfilledOnlyIfPaid
  BY DEF Init, RecordedDepositIsReal, FulfilledOnlyIfPaid
<1> QED
  BY <1>2, <1>3, <1>4, <1>5, <1>6, <1>7, <1>8, TypeInit DEF IInv, Core, World

\* No row comes or goes, and none changes its invoice.
SameRows ==
  /\ payment_hash' = payment_hash
  /\ \A o \in Offramps : Present(o)' <=> Present(o)

\* No call comes to paying, and no task to a new offramp or to refunding.
CallsGoOn ==
  \A c \in Calls :
    call'[c].pc = "pay" => call[c].pc = "pay" /\ call'[c].id = call[c].id
JobsGoOn ==
  \A j \in Jobs :
    /\ job'[j].pc # "idle" => job[j].pc # "idle" /\ job'[j].id = job[j].id
    /\ Refunding(j)' => Refunding(j)
    /\ job'[j].pc = "refund" => job[j].pc = "refund"

\* Then an invoice leads to the same rows as before.
LEMMA RowsKept ==
  ASSUME SameRows
  PROVE  /\ \A b : Rows(b)' = Rows(b)
         /\ \A o \in Offramps : Sole(o)' <=> Sole(o)
<1>1. \A b : Rows(b)' = Rows(b)
  BY DEF SameRows, Rows, Present, get_offramp_by_payment_hash
<1>2. \A o \in Offramps : Sole(o)' <=> Sole(o)
  BY <1>1 DEF SameRows, Sole, Rows
<1> QED
  BY <1>1, <1>2

\* A status written to a row that is there keeps the rows.
LEMMA StatusKeepsRows ==
  ASSUME TypeOK, NEW o, Present(o), NEW st \in OfframpStatus, update_offramp_status(o, st)
  PROVE  SameRows
  BY DEF TypeOK, SameRows, Present, update_offramp_status, OfframpStatus

\* What each part of the invariant does not depend on.
LEMMA LightningKept ==
  ASSUME LightningInv, SameRows, UNCHANGED <<evt, paid>>
  PROVE  LightningInv'
  BY RowsKept DEF LightningInv

LEMMA PaidKept ==
  ASSUME PaidOnlyIfDeposited, SameRows, UNCHANGED <<ln, paid>>,
         \A o \in Offramps : cbtc_tx[o] \in received => cbtc_tx'[o] \in received'
  PROVE  PaidOnlyIfDeposited'
<1>1. \A b \in Bolts : Rows(b)' = Rows(b) /\ Rows(b) \subseteq Offramps
  BY RowsKept DEF Rows, get_offramp_by_payment_hash
<1> QED
  BY <1>1 DEF PaidOnlyIfDeposited, Rows

LEMMA TodoKept ==
  ASSUME TypeOK, TodoInv, SameRows, UNCHANGED <<rec, mon>>, paid \subseteq paid'
  PROVE  TodoInv'
  BY DEF TypeOK, TodoInv, SameRows

LEMMA AttemptKept ==
  ASSUME AttemptInv, SameRows, CallsGoOn, JobsGoOn, UNCHANGED <<cbtc_tx, ln, evt, paid, refunds>>
  PROVE  AttemptInv'
<1> SUFFICES ASSUME NEW o \in Offramps, Present(o)', Sole(o)'
             PROVE  /\ cbtc_tx'[o] = None => Untried(o)'
                    /\ \A c \in Calls : call'[c].pc = "pay" /\ call'[c].id = o => Untried(o)'
                    /\ ln'[payment_hash'[o]] = "inflight" =>
                         /\ payment_hash'[o] \notin paid' /\ evt'[payment_hash'[o]] = "none"
                         /\ NotFailed(o)'
                    /\ payment_hash'[o] \in paid' => NotFailed(o)'
  BY Zenon DEF AttemptInv
<1>1. Present(o) /\ Sole(o)
  BY RowsKept DEF SameRows
<1>2. Untried(o) => Untried(o)'
  BY Zenon DEF Untried, SameRows, JobsGoOn
<1>3. NotFailed(o) => NotFailed(o)'
  BY DEF NotFailed, SameRows, JobsGoOn, Refunding
<1> QED
  BY ZenonT(40), <1>1, <1>2, <1>3 DEF AttemptInv, SameRows, CallsGoOn

LEMMA FailureKept ==
  ASSUME FailureInv, SameRows, JobsGoOn, UNCHANGED <<evt, refunds, replayed>>
  PROVE  FailureInv'
<1> SUFFICES ASSUME NEW o \in Offramps, Present(o)', Sole(o)', payment_hash'[o] \notin replayed'
             PROVE  /\ refunds'[o] <= 1
                    /\ evt'[payment_hash'[o]] = "failed" =>
                         refunds'[o] = 0 /\ \A j \in Jobs : Refunding(j)' => job'[j].id # o
                    /\ \A j, k \in Jobs :
                         job'[j].pc = "refund" /\ job'[j].id = o =>
                           refunds'[o] = 0 /\ (Refunding(k)' /\ job'[k].id = o => j = k)
  BY DEF FailureInv
<1>1. Present(o) /\ Sole(o) /\ payment_hash[o] \notin replayed
  BY RowsKept DEF SameRows
<1>2. \A j \in Jobs :
        /\ Refunding(j)' => Refunding(j) /\ job'[j].id = job[j].id
        /\ job'[j].pc = "refund" => job[j].pc = "refund"
  BY DEF JobsGoOn, Refunding
<1>3. \A j \in Jobs : job[j].pc = "refund" => Refunding(j)
  BY DEF Refunding
<1>4. \A j \in Jobs : job'[j].pc = "refund" => job'[j].id = job[j].id
  BY <1>2, <1>3, ZenonT(40) DEF Refunding
<1>5. UNCHANGED <<refunds, evt, payment_hash>>
  BY DEF SameRows
<1>6. /\ refunds[o] <= 1
      /\ evt[payment_hash[o]] = "failed" =>
           refunds[o] = 0 /\ \A j \in Jobs : Refunding(j) => job[j].id # o
      /\ \A j, k \in Jobs :
           job[j].pc = "refund" /\ job[j].id = o =>
             refunds[o] = 0 /\ (Refunding(k) /\ job[k].id = o => j = k)
  BY <1>1, Zenon DEF IInv, Core, FailureInv
<1> QED
  BY <1>2, <1>4, <1>5, <1>6, ZenonT(40)

LEMMA CallsKept ==
  ASSUME TypeOK, CallInv, SameRows, UNCHANGED <<call, cbtc_tx>>,
         received \subseteq received', rec'.pc # "done" => rec.pc # "done",
         \A o \in Offramps : status'[o] = "AwaitingDeposit" => status[o] = "AwaitingDeposit"
  PROVE  CallInv'
  BY ZenonT(40) DEF TypeOK, CallInv, SameRows, Holding, Paying

LEMMA JobsKept ==
  ASSUME JobInv, SingleCompleter, SameRows, UNCHANGED <<job, cbtc_tx>>, paid \subseteq paid',
         \A o \in Offramps : /\ status'[o] = "PayingLightning" => status[o] = "PayingLightning"
                             /\ chain[o] = "fulfilled" => chain'[o] = "fulfilled"
  PROVE  JobInv' /\ SingleCompleter'
  BY ZenonT(40) DEF JobInv, SingleCompleter, SameRows, Completing

\* World is kept by a step that leaves the table, the chain and Lightning alone, ...
LEMMA WorldKept ==
  ASSUME World, UNCHANGED <<dbvars, chain, received, refunds, ln, paid, evt, req>>
  PROVE  SameRows /\ World'
<1>1. SameRows
  BY DEF SameRows, Present, dbvars
<1>2. LightningInv' /\ PaidOnlyIfDeposited'
  BY <1>1, LightningKept, PaidKept DEF World, dbvars
<1> QED
  BY <1>1, <1>2
  DEF World, RowInv, Present, RecordedDepositIsReal, FulfilledOnlyIfPaid, dbvars

\* ... by a status written to a row that is there, ...
LEMMA WorldStatus ==
  ASSUME TypeOK, World, NEW o \in Offramps, Present(o), NEW st \in OfframpStatus,
         update_offramp_status(o, st),
         st \in {"AwaitingDeposit", "PendingVerification"} => cbtc_tx[o] = None,
         st = "DepositingToPool" => payment_hash[o] \in paid,
         st # "PayingLightning",
         UNCHANGED <<chain, received, refunds, ln, paid, evt, req>>
  PROVE  SameRows /\ World'
<1>1. SameRows
  BY StatusKeepsRows, Zenon
<1>2. LightningInv' /\ PaidOnlyIfDeposited'
  BY <1>1, LightningKept, PaidKept, ZenonT(40) DEF World, update_offramp_status
<1>3. RowInv'
  BY <1>1 DEF World, RowInv, SameRows, update_offramp_status, TypeOK
<1> QED
  BY ZenonT(40), <1>1, <1>2, <1>3
  DEF World, RecordedDepositIsReal, FulfilledOnlyIfPaid, update_offramp_status

\* ... and by an outcome on the chain, whichever answer is seen.
LEMMA WorldChain ==
  ASSUME TypeOK, World, NEW o \in Offramps, NEW out \in {"fulfilled", "cancelled"},
         Lands(o, out) \/ ErrorSeen(o, out),
         out = "fulfilled" => Present(o) /\ payment_hash[o] \in paid,
         UNCHANGED <<dbvars, received, refunds, ln, paid, evt, req>>
  PROVE  /\ SameRows /\ World'
         /\ \A x \in Offramps : chain[x] = "fulfilled" => chain'[x] = "fulfilled"
         /\ Lands(o, out) => chain'[o] = out
<1>1. SameRows
  BY DEF SameRows, Present, dbvars
<1>2. LightningInv' /\ PaidOnlyIfDeposited'
  BY ZenonT(40), <1>1, LightningKept, PaidKept DEF World, dbvars
<1>3. chain' = chain \/ (chain[o] = "open" /\ chain' = [chain EXCEPT ![o] = out])
  BY DEF Lands, ErrorSeen
<1>4. \A x \in Offramps :
        /\ chain[x] = "fulfilled" => chain'[x] = "fulfilled"
        /\ chain[x] = "none" => chain'[x] = "none"
        /\ chain'[x] = "fulfilled" => chain[x] = "fulfilled" \/ (x = o /\ out = "fulfilled")
  BY <1>3, Zenon DEF TypeOK
<1>5. RowInv'
  BY <1>1, <1>4, ZenonT(40) DEF World, RowInv, SameRows, Present, dbvars
<1>6. RecordedDepositIsReal' /\ FulfilledOnlyIfPaid'
  BY <1>4, Zenon DEF World, RecordedDepositIsReal, FulfilledOnlyIfPaid, dbvars
<1>7. Lands(o, out) => chain'[o] = out
  BY DEF Lands, TypeOK
<1> QED
  BY ZenonT(40), <1>1, <1>2, <1>4, <1>5, <1>6, <1>7 DEF World

-----------------------------------------------------------------------------
(* Requests, deposits and LDK's part in a payment.                        *)

\* POST /offramp up to the row: nothing refers to the offramp yet.
LEMMA RequestStep ==
  ASSUME IInv, NEW o \in Offramps,
         request_offramp(o) \/ create_offramp(o) \/ \E b \in Bolts : handle_offramp_request(o, b)
  PROVE  Core'
<1> USE DEF IInv, Core
<1>1. /\ UNCHANGED <<status, payment_hash, cbtc_tx, deposit_tx, received, refunds, ln, paid, evt,
                     replayed, call, job, rec, mon>>
      /\ ~Present(o) /\ \A x \in Offramps : x # o => chain'[x] = chain[x] /\ req'[x] = req[x]
      /\ chain'[o] # "fulfilled" /\ chain[o] # "fulfilled"
  BY DEF World, RowInv, request_offramp, create_offramp, handle_offramp_request, dbvars, lnvars, TypeOK
<1>2. /\ req'[o].pc # "closed" => req'[o].bolt \in Bolts
      /\ req'[o].pc \in {"idle", "check", "create"} => chain'[o] = "none"
  <2>1. ASSUME NEW b \in Bolts, handle_offramp_request(o, b)
        PROVE  /\ req'[o].pc # "closed" => req'[o].bolt \in Bolts
               /\ req'[o].pc \in {"idle", "check", "create"} => chain'[o] = "none"
    BY <2>1, ZenonT(40) DEF World, RowInv, handle_offramp_request, TypeOK
  <2>2. CASE request_offramp(o)
    <3>1. /\ req[o].pc = "check" /\ chain' = chain
          /\ req'[o] = ClosedReq \/ (req'[o].pc = "create" /\ req'[o].bolt = req[o].bolt)
      BY <2>2 DEF request_offramp, TypeOK
    <3>2. ClosedReq.pc = "closed" /\ req[o].bolt \in Bolts /\ chain[o] = "none"
      BY <3>1, ZenonT(40) DEF World, RowInv, ClosedReq
    <3> QED
      BY <3>1, <3>2, ZenonT(40)
  <2>3. CASE create_offramp(o)
    <3>1. req[o] \in ReqRec
      BY TypeParts DEF TasksOK
    <3>2. \A r \in AfterError(req[o], "closed") : r.bolt = req[o].bolt /\ r.pc \in {"create", "closed"}
      BY <2>3, <3>1, AfterErrorReq DEF ReqPc, create_offramp
    <3>3. CASE /\ chain' = [chain EXCEPT ![o] = "open"]
               /\ req' = [req EXCEPT ![o].pc = "created", ![o].att = 0]
      <4>1. req'[o].pc = "created" /\ req'[o].bolt = req[o].bolt
        BY <3>3 DEF TypeOK
      <4> QED
        BY <2>3, <4>1 DEF World, RowInv, create_offramp
    <3>4. ASSUME NEW r \in AfterError(req[o], "closed"), chain' = chain,
                 req' = [req EXCEPT ![o] = IF r.pc = "closed" THEN ClosedReq ELSE r]
          PROVE  /\ req'[o].pc # "closed" => req'[o].bolt \in Bolts
                 /\ req'[o].pc \in {"idle", "check", "create"} => chain'[o] = "none"
      <4>1. req'[o] = IF r.pc = "closed" THEN ClosedReq ELSE r
        BY <3>4 DEF TypeOK
      <4> QED
        BY <2>3, <3>2, <3>4, <4>1 DEF World, RowInv, create_offramp, ClosedReq
    <3> QED
      BY <2>3, <3>3, <3>4 DEF create_offramp
  <2> QED
    BY <2>1, <2>2, <2>3, Zenon
<1>3. SameRows
  BY Zenon, <1>1 DEF SameRows, Present
<1>4. LightningInv' /\ PaidOnlyIfDeposited' /\ TodoInv'
  BY ZenonT(40), <1>1, <1>3, LightningKept, PaidKept, TodoKept DEF World
<1>5. AttemptInv' /\ FailureInv'
  BY <1>1, <1>3, AttemptKept, FailureKept, ZenonT(40) DEF CallsGoOn, JobsGoOn, Refunding
<1>6. CallInv' /\ JobInv' /\ SingleCompleter'
  BY <1>1, <1>3, CallsKept, JobsKept
<1>7. RowInv'
  BY ZenonT(40), <1>1, <1>2, <1>3 DEF World, RowInv, SameRows
<1>8. RecordedDepositIsReal' /\ FulfilledOnlyIfPaid'
  BY Zenon, <1>1 DEF World, RecordedDepositIsReal, FulfilledOnlyIfPaid, RowInv
<1> QED
  BY <1>4, <1>5, <1>6, <1>7, <1>8, ZenonT(40) DEF World

\* insert_offramp: a new row, which leaves no other row alone on its invoice that
\* was not alone before.
LEMMA InsertStep ==
  ASSUME IInv, NEW o \in Offramps, insert_offramp(o)
  PROVE  Core'
<1>z. 0 <= 1
  OBVIOUS
<1> USE DEF IInv, Core
<1>0. PICK b \in Bolts : b = req[o].bolt
  BY ZenonT(40) DEF World, RowInv, insert_offramp
<1>1. /\ UNCHANGED <<cbtc_tx, deposit_tx, chain, received, refunds, ln, paid, evt, replayed, call, job,
                     rec, mon>>
      /\ ~Present(o) /\ Present(o)' /\ payment_hash'[o] = b
      /\ status'[o] = "AwaitingDeposit"
      /\ cbtc_tx[o] = None /\ ~deposit_tx[o] /\ refunds[o] = 0 /\ chain[o] # "fulfilled"
  BY <1>0 DEF World, RowInv, insert_offramp, lnvars, Present, TypeOK
<1>2. \A x \in Offramps : x # o =>
        /\ payment_hash'[x] = payment_hash[x] /\ (Present(x)' <=> Present(x))
        /\ status'[x] = status[x] /\ req'[x] = req[x]
  BY DEF insert_offramp, Present, TypeOK
<1>3. \A x \in Bolts : Rows(x) \subseteq Rows(x)' /\ Rows(x)' \subseteq Rows(x) \cup {o}
  BY ZenonT(40), <1>1, <1>2 DEF Rows, get_offramp_by_payment_hash, Present
<1>4. RowInv'
  <2>1. req'[o].pc = "closed"
    BY DEF insert_offramp, TypeOK, ClosedReq
  <2> SUFFICES ASSUME NEW x \in Offramps
               PROVE  /\ req'[x].pc # "closed" => ~Present(x)'
                      /\ req'[x].pc \in {"check", "create", "created"} => req'[x].bolt \in Bolts
                      /\ req'[x].pc \in {"idle", "check", "create"} => chain'[x] = "none"
                      /\ Present(x)' => payment_hash'[x] \in Bolts
                      /\ ~Present(x)' => /\ cbtc_tx'[x] = None /\ ~deposit_tx'[x] /\ refunds'[x] = 0
                                         /\ chain'[x] # "fulfilled"
                      /\ cbtc_tx'[x] # None => status'[x] \notin {"AwaitingDeposit", "PendingVerification"}
                      /\ status'[x] = "PayingLightning" => cbtc_tx'[x] # None
                      /\ status'[x] = "DepositingToPool" => payment_hash'[x] \in paid'
    BY Zenon DEF RowInv
  <2>2. CASE x = o
    BY <1>1, <2>1, <2>2, ZenonT(40)
  <2>3. CASE x # o
    <3>1. UNCHANGED <<cbtc_tx, deposit_tx, chain, refunds, paid>>
      BY <1>1, Zenon
    <3> QED
      BY <1>2, <2>3, <3>1, ZenonT(40) DEF World, RowInv
  <2> QED
    BY <2>2, <2>3, Zenon
<1>5. LightningInv'
  BY Zenon, <1>1, <1>3 DEF World, LightningInv
<1>6. PaidOnlyIfDeposited'
  BY ZenonT(40), <1>1, <1>3 DEF World, PaidOnlyIfDeposited, Rows
<1>7. RecordedDepositIsReal' /\ FulfilledOnlyIfPaid'
  BY <1>1, <1>2, Zenon DEF World, RecordedDepositIsReal, FulfilledOnlyIfPaid
<1>8. CallInv'
  BY ZenonT(40), <1>1, <1>2 DEF CallInv, Holding, Paying
<1>9. JobInv' /\ SingleCompleter'
  BY ZenonT(40), <1>1, <1>2 DEF JobInv, SingleCompleter, Completing
<1>10. TodoInv'
  BY ZenonT(40), <1>1, <1>2 DEF TodoInv, TypeOK
<1>11. ASSUME NEW x \in Offramps, x # o, Present(x)', Sole(x)'
       PROVE  Present(x) /\ Sole(x)
  <2>1. Present(x)
    BY Zenon, <1>2, <1>11
  <2>2. PICK h \in Bolts : h = payment_hash[x] /\ h = payment_hash'[x]
    BY <1>2, <1>11, <2>1 DEF World, RowInv
  <2>3. Rows(h)' = {x} /\ x \in Rows(h)
    BY Zenon, <1>11, <2>1, <2>2 DEF Sole, Rows, get_offramp_by_payment_hash, Present
  <2>4. Rows(h) = {x}
    BY <1>3, <2>2, <2>3, ZenonT(40)
  <2> QED
    BY <2>1, <2>2, <2>4 DEF Sole, Rows
<1>12. ASSUME Sole(o)' PROVE Untried(o)' /\ NotFailed(o)'
  <2>1. Rows(b) = {}
    <3>1. Rows(b)' = {o}
      BY Zenon, <1>1, <1>12 DEF Sole, Rows
    <3>2. o \notin Rows(b)
      BY Zenon, <1>1 DEF Rows, get_offramp_by_payment_hash, Present
    <3> QED
      BY <1>0, <1>3, <3>1, <3>2
  <2>2. ln[b] = "none" /\ evt[b] = "none" /\ b \notin paid
    BY ZenonT(40), <1>1, <2>1 DEF World, LightningInv, PaidOnlyIfDeposited, Rows
  <2>3. \A j \in Jobs : job[j].pc # "idle" => job[j].id # o
    BY <1>1, Zenon DEF JobInv
  <2> QED
    BY <1>1, <2>2, <2>3 DEF Untried, NotFailed, Refunding
<1>13. ASSUME NEW x \in Offramps, x # o
       PROVE  (Untried(x) => Untried(x)') /\ (NotFailed(x) => NotFailed(x)')
  BY <1>1, <1>2, <1>13, Zenon DEF Untried, NotFailed, Refunding
<1>14. AttemptInv'
  <2> SUFFICES ASSUME NEW x \in Offramps, Present(x)', Sole(x)'
               PROVE  /\ cbtc_tx'[x] = None => Untried(x)'
                      /\ \A c \in Calls : call'[c].pc = "pay" /\ call'[c].id = x => Untried(x)'
                      /\ ln'[payment_hash'[x]] = "inflight" =>
                           /\ payment_hash'[x] \notin paid' /\ evt'[payment_hash'[x]] = "none"
                           /\ NotFailed(x)'
                      /\ payment_hash'[x] \in paid' => NotFailed(x)'
    BY ZenonT(40) DEF AttemptInv
  <2>1. CASE x = o
    BY <1>1, <1>12, <2>1 DEF Untried
  <2>2. CASE x # o
    BY ZenonT(40), <1>1, <1>2, <1>11, <1>13, <2>2 DEF AttemptInv
  <2> QED
    BY <2>1, <2>2, Zenon
<1>15. FailureInv'
  <2> SUFFICES ASSUME NEW x \in Offramps, Present(x)', Sole(x)', payment_hash'[x] \notin replayed'
               PROVE  /\ refunds'[x] <= 1
                      /\ evt'[payment_hash'[x]] = "failed" =>
                           refunds'[x] = 0 /\ \A j \in Jobs : Refunding(j)' => job'[j].id # x
                      /\ \A j, k \in Jobs :
                           job'[j].pc = "refund" /\ job'[j].id = x =>
                             refunds'[x] = 0 /\ (Refunding(k)' /\ job'[k].id = x => j = k)
    BY ZenonT(40) DEF FailureInv
  <2>1. CASE x = o
    <3>1. /\ refunds'[x] = 0 /\ evt'[payment_hash'[x]] = "none"
          /\ \A j \in Jobs : job'[j].pc # "idle" => job'[j].id # x
      BY <1>12, <2>1, Zenon DEF Untried
    <3>2. \A j \in Jobs : job'[j].pc = "refund" \/ Refunding(j)' => job'[j].pc # "idle"
      BY Zenon DEF Refunding
    <3> QED
      BY <1>z, <3>1, <3>2, ZenonT(40)
  <2>2. CASE x # o
    <3>1. Present(x) /\ Sole(x) /\ payment_hash'[x] = payment_hash[x]
      BY Zenon, <1>2, <1>11, <2>2
    <3>2. /\ refunds' = refunds /\ evt' = evt /\ job' = job
          /\ payment_hash[x] \notin replayed /\ \A j \in Jobs : Refunding(j)' <=> Refunding(j)
      BY Zenon, <1>1, <3>1 DEF Refunding
    <3> QED
      BY ZenonT(40), <3>1, <3>2 DEF FailureInv
  <2> QED
    BY <2>1, <2>2, Zenon
<1> QED
  BY <1>4, <1>5, <1>6, <1>7, <1>8, <1>9, <1>10, <1>14, <1>15 DEF World

\* send_cbtc_deposit, the clock, and the operator's command: no row changes.
LEMMA OutsideStep ==
  ASSUME IInv,
         \/ \E d \in Deposits : send_cbtc_deposit(d)
         \/ \E o \in Offramps : cancel_expired_offramps(o)
         \/ Tick
         \/ UNCHANGED vars
  PROVE  Core'
<1> USE DEF IInv, Core
<1>1. /\ UNCHANGED <<dbvars, refunds, ln, paid, evt, replayed, req, call, job, rec, mon>>
      /\ received \subseteq received'
  BY DEF send_cbtc_deposit, cancel_expired_offramps, Tick, vars, lnvars
<1>2. SameRows /\ World' /\ \A x \in Offramps : chain[x] = "fulfilled" => chain'[x] = "fulfilled"
  <2>1. ASSUME NEW d \in Deposits, send_cbtc_deposit(d)
        PROVE  SameRows /\ World' /\ chain' = chain
    <3>1. chain' = chain /\ SameRows
      BY <1>1, <2>1 DEF send_cbtc_deposit, SameRows, Present, dbvars
    <3>2. LightningInv' /\ PaidOnlyIfDeposited'
      BY <1>1, <3>1, LightningKept, PaidKept, Zenon DEF World, dbvars
    <3> QED
      BY <1>1, <3>1, <3>2, Zenon
      DEF World, RowInv, Present, RecordedDepositIsReal, FulfilledOnlyIfPaid, dbvars
  <2>2. ASSUME NEW o \in Offramps, cancel_expired_offramps(o)
        PROVE  SameRows /\ World' /\ \A x \in Offramps : chain[x] = "fulfilled" => chain'[x] = "fulfilled"
    BY <1>1, <2>2, WorldChain, Zenon DEF cancel_expired_offramps
  <2>3. CASE Tick \/ UNCHANGED vars
    BY <1>1, <2>3, WorldKept DEF Tick, vars
  <2> QED
    BY ZenonT(40), <2>1, <2>2, <2>3 DEF Tick, vars
<1>3. CallInv' /\ JobInv' /\ SingleCompleter'
  BY Zenon, <1>1, <1>2, CallsKept, JobsKept DEF dbvars
<1>4. TodoInv' /\ AttemptInv' /\ FailureInv'
  BY Zenon, <1>1, <1>2, TodoKept, AttemptKept, FailureKept DEF dbvars, CallsGoOn, JobsGoOn, Refunding
<1> QED
  BY <1>2, <1>3, <1>4

\* The parts a deposit call does not touch when it writes at most a status.
LEMMA CallFrame ==
  ASSUME IInv, SameRows, CallsGoOn, UNCHANGED <<cbtc_tx, chain, ln, refunds, paid, evt, replayed, job, rec, mon>>,
         \A o \in Offramps : status'[o] = "PayingLightning" => status[o] = "PayingLightning"
  PROVE  JobInv' /\ SingleCompleter' /\ TodoInv' /\ AttemptInv' /\ FailureInv'
<1> USE DEF IInv, Core
<1>1. JobInv' /\ SingleCompleter' /\ TodoInv'
  BY JobsKept, TodoKept
<1>2. AttemptInv' /\ FailureInv'
  BY AttemptKept, FailureKept DEF JobsGoOn, Refunding
<1> QED
  BY ZenonT(40), <1>1, <1>2

\* A call that goes on, or ends, without a claim or evidence of its own.
LEMMA CallMoves ==
  ASSUME IInv, NEW c \in Calls, NEW r \in CallRec, call' = [call EXCEPT ![c] = r],
         SameRows, UNCHANGED <<cbtc_tx, received, rec>>,
         \A o \in Offramps : o # call[c].id => status'[o] = status[o],
         r.pc # "idle" => r.id = call[c].id /\ r.tx = call[c].tx /\ call[c].pc # "idle",
         r.pc \in {"verify", "revert", "verified", "pay", "unpaid"} =>
           /\ Holding(c) /\ status'[r.id] = status[r.id]
           /\ r.pc = "pay" => call[c].pc = "pay"
           /\ r.pc = "unpaid" => Paying(c)
           /\ r.pc \in {"verify", "revert", "verified"} =>
                call[c].pc \in {"verify", "revert", "verified"}
           /\ r.pc = "verified" => r.tx \in received,
         status'[call[c].id] # status[call[c].id] => Holding(c)
  PROVE  CallInv'
<1> USE DEF IInv, Core
<1>0. /\ call'[c] = r
      /\ \A d \in Calls : d # c => call'[d] = call[d]
  BY DEF TypeOK
<1>1. ASSUME NEW d \in Calls
      PROVE  /\ call'[d].pc # "idle" => /\ call'[d].id \in Offramps /\ Present(call[d].id)'
                                        /\ call'[d].tx \in Deposits
             /\ Holding(d)' => Holding(d) /\ call'[d].id = call[d].id
                                 /\ status'[call[d].id] = status[call[d].id]
             /\ call'[d].pc \in {"verify", "revert", "verified"} => cbtc_tx'[call'[d].id] = None
             /\ call'[d].pc = "verified" => call'[d].tx \in received'
             /\ Paying(d)' => cbtc_tx'[call'[d].id] \in received'
  <2>0. /\ call[d].pc # "idle" => /\ call[d].id \in Offramps /\ Present(call[d].id)
                                  /\ call[d].tx \in Deposits
        /\ call[d].pc \in {"verify", "revert", "verified"} => cbtc_tx[call[d].id] = None
        /\ call[d].pc = "verified" => call[d].tx \in received
        /\ Paying(d) => cbtc_tx[call[d].id] \in received
        /\ Holding(d) => call[d].pc # "idle"
    BY ZenonT(40) DEF CallInv, Holding
  <2>1. CASE d = c
    <3>1. call'[d] = r
      BY <1>0, <2>1, Zenon
    <3>2. call'[d].pc # "idle" => /\ call'[d].id \in Offramps /\ Present(call[d].id)'
                                  /\ call'[d].tx \in Deposits
      BY <2>0, <2>1, <3>1, ZenonT(40) DEF SameRows, Present
    <3>3. Holding(d)' => Holding(d) /\ r.id = call[d].id /\ status'[call[d].id] = status[call[d].id]
      BY <2>1, <3>1, ZenonT(40) DEF Holding
    <3>4. Paying(d)' => cbtc_tx'[r.id] \in received'
      BY <2>0, <2>1, <3>1, ZenonT(40) DEF Paying
    <3>5. r.pc \in {"verify", "revert", "verified"} => cbtc_tx'[r.id] = None
      BY <2>0, <2>1, ZenonT(40)
    <3>6. r.pc = "verified" => r.tx \in received
      BY Zenon
    <3>7. call'[d].pc = "verified" => call'[d].tx \in received'
      <4>1. received' = received
        BY Zenon
      <4> HIDE DEF IInv, Core
      <4> QED
        BY <3>1, <3>6, <4>1, SMT
    <3> QED
      BY <3>1, <3>2, <3>3, <3>4, <3>5, <3>7, Zenon
  <2>2. CASE d # c
    <3>1. call'[d] = call[d]
      BY <1>0, <2>2, Zenon
    <3>2. Holding(d) => status'[call[d].id] = status[call[d].id]
      BY <2>0, <2>2, ZenonT(40) DEF CallInv
    <3>3. call'[d].pc # "idle" => /\ call'[d].id \in Offramps /\ Present(call[d].id)'
                                  /\ call'[d].tx \in Deposits
      BY <2>0, <3>1, ZenonT(40) DEF SameRows, Present
    <3>4. (Holding(d)' <=> Holding(d)) /\ (Paying(d)' <=> Paying(d))
      BY <3>1, Zenon DEF Holding, Paying
    <3>5. cbtc_tx' = cbtc_tx /\ received' = received
      BY Zenon
    <3>6. call'[d].pc \in {"verify", "revert", "verified"} => cbtc_tx'[call'[d].id] = None
      BY <2>0, <3>1, <3>5, Zenon
    <3>7. call'[d].pc = "verified" => call'[d].tx \in received'
      BY <2>0, <3>1, <3>5, Zenon
    <3>8. Paying(d)' => cbtc_tx'[call'[d].id] \in received'
      BY <2>0, <3>1, <3>4, <3>5, Zenon
    <3> QED
      BY <3>1, <3>2, <3>3, <3>4, <3>6, <3>7, <3>8, Zenon
  <2> QED
    BY ZenonT(40), <2>1, <2>2
<1>2. rec'.pc # "done" => \A d \in Calls : call'[d].pc = "idle"
  BY ZenonT(40), <1>0 DEF CallInv
<1>3. \A d \in Calls : Holding(d)' => status'[call'[d].id] # "AwaitingDeposit"
  <2> SUFFICES ASSUME NEW d \in Calls, Holding(d)'
               PROVE  status'[call'[d].id] # "AwaitingDeposit"
    OBVIOUS
  <2>1. Holding(d) /\ call'[d].id = call[d].id /\ status'[call[d].id] = status[call[d].id]
    BY Zenon, <1>1
  <2>2. status[call[d].id] # "AwaitingDeposit"
    BY Zenon, <2>1 DEF CallInv
  <2> QED
    BY <2>1, <2>2, Zenon
<1>4. \A d, e \in Calls : Holding(d)' /\ Holding(e)' /\ call'[d].id = call'[e].id => d = e
  BY ZenonT(40), <1>1 DEF CallInv
<1>5. \A d \in Calls : call'[d].pc # "idle" => Present(call[d].id)'
  BY Zenon, <1>1
<1> QED
  BY ZenonT(40), <1>1, <1>2, <1>3, <1>4, <1>5 DEF CallInv

\* POST /offramp/deposit, up to the payment.
LEMMA DepositStep ==
  ASSUME IInv, NEW c \in Calls,
         \/ deposit_reuse_check(c) \/ deposit_claim(c) \/ verify_cbtc_received(c)
         \/ deposit_revert(c) \/ deposit_unpaid(c) \/ drop_deposit(c)
         \/ \E o \in Offramps, d \in Deposits : handle_offramp_deposit(c, o, d)
  PROVE  Core'
<1> USE DEF IInv, Core
<1>0. UNCHANGED <<payment_hash, cbtc_tx, deposit_tx, chain, received, refunds, ln, paid, evt, replayed,
                  req, job, rec, mon>>
  BY DEF deposit_reuse_check, deposit_claim, verify_cbtc_received, deposit_revert, deposit_unpaid,
     handle_offramp_deposit, drop_deposit, update_offramp_status, dbvars, lnvars
<1>t. call[c] \in CallRec /\ IdleCall \in CallRec /\ IdleCall.pc = "idle" /\ TasksOK
  BY TypeParts, IdleTypes DEF TasksOK, IdleCall
<1>m. \A pc \in CallPc :
        /\ [call[c] EXCEPT !.pc = pc] \in CallRec
        /\ [call[c] EXCEPT !.pc = pc].pc = pc
        /\ [call[c] EXCEPT !.pc = pc].id = call[c].id
        /\ [call[c] EXCEPT !.pc = pc].tx = call[c].tx
        /\ [call EXCEPT ![c].pc = pc] = [call EXCEPT ![c] = [call[c] EXCEPT !.pc = pc]]
  BY <1>t DEF CallRec
<1>f. ASSUME SameRows, World', CallInv', CallsGoOn,
             \A o \in Offramps : status'[o] = "PayingLightning" => status[o] = "PayingLightning"
      PROVE  Core'
  BY ZenonT(40), <1>0, <1>f, CallFrame
<1>1. ASSUME NEW r \in CallRec, call' = [call EXCEPT ![c] = r], UNCHANGED dbvars,
             r.pc \in {"idle", "claim", "revert", "verified"},
             r.pc # "idle" => r.id = call[c].id /\ r.tx = call[c].tx /\ call[c].pc # "idle",
             r.pc \in {"revert", "verified"} => call[c].pc = "verify",
             r.pc = "verified" => r.tx \in received
      PROVE  Core'
  <2>1. SameRows /\ World'
    BY <1>0, <1>1, WorldKept
  <2>2. CallInv'
    BY ZenonT(40), <1>0, <1>1, <2>1, CallMoves DEF dbvars, Holding, Paying
  <2>3. CallsGoOn
    BY <1>1 DEF CallsGoOn, TypeOK
  <2> QED
    BY <1>1, <1>f, <2>1, <2>2, <2>3 DEF dbvars
<1>2. CASE deposit_reuse_check(c)
  <2>1. PICK r \in {IdleCall, [call[c] EXCEPT !.pc = "claim"]} : call' = [call EXCEPT ![c] = r]
    BY <1>2, <1>m DEF deposit_reuse_check, CallPc
  <2> QED
    BY Zenon, <1>1, <1>2, <1>t, <1>m, <2>1 DEF deposit_reuse_check, CallPc
<1>3. CASE verify_cbtc_received(c)
  <2>1. PICK pc \in {"revert", "verified"} :
          /\ call' = [call EXCEPT ![c].pc = pc]
          /\ pc = "verified" => call[c].tx \in received
    BY <1>3 DEF verify_cbtc_received
  <2> QED
    BY Zenon, <1>1, <1>3, <1>m, <2>1 DEF verify_cbtc_received, CallPc
<1>4. CASE deposit_revert(c) \/ deposit_unpaid(c)
  <2>1. PICK st \in {"AwaitingDeposit", "Failed"} :
          /\ update_offramp_status(call[c].id, st)
          /\ st = "AwaitingDeposit" => call[c].pc = "revert"
          /\ st = "Failed" => call[c].pc = "unpaid"
    BY <1>4 DEF deposit_revert, deposit_unpaid
  <2>2. /\ call[c].id \in Offramps /\ Present(call[c].id) /\ Holding(c)
        /\ st = "AwaitingDeposit" => cbtc_tx[call[c].id] = None
        /\ call' = [call EXCEPT ![c] = IdleCall]
    BY Zenon, <1>4, <2>1 DEF deposit_revert, deposit_unpaid, CallInv, Holding
  <2>3. SameRows /\ World'
    BY ZenonT(40), <1>0, <2>1, <2>2, WorldStatus DEF OfframpStatus
  <2>4. \A o \in Offramps : o # call[c].id => status'[o] = status[o]
    BY <2>1 DEF update_offramp_status, TypeOK
  <2>5. CallInv'
    BY Zenon, <1>0, <1>t, <2>2, <2>3, <2>4, CallMoves
  <2>6. CallsGoOn
    BY Zenon, <1>t, <2>2 DEF CallsGoOn, TypeOK
  <2> QED
    BY ZenonT(40), <1>f, <2>1, <2>2, <2>3, <2>5, <2>6 DEF update_offramp_status, TypeOK
<1>5. CASE deposit_claim(c)
  <2> DEFINE o == call[c].id
  <2>1. CASE call' = [call EXCEPT ![c] = IdleCall] /\ UNCHANGED dbvars
    BY Zenon, <1>1, <1>t, <2>1
  <2>2. CASE /\ status[o] = "AwaitingDeposit"
             /\ update_offramp_status(o, "PendingVerification")
             /\ call' = [call EXCEPT ![c].pc = "verify"]
    <3>1. o \in Offramps /\ Present(o) /\ call[c].tx \in Deposits
      BY <1>5 DEF CallInv, deposit_claim
    <3>2. cbtc_tx[o] = None
      <4>1. ~Holding(c)
        BY <1>5 DEF deposit_claim, Holding
      <4> QED
        BY <2>2, <3>1 DEF World, RowInv
    <3>3. SameRows /\ World'
      BY <1>0, <2>2, <3>1, <3>2, WorldStatus DEF OfframpStatus
    <3>4. /\ call'[c].pc = "verify" /\ call'[c].id = o /\ call'[c].tx = call[c].tx
          /\ \A d \in Calls : d # c => call'[d] = call[d]
          /\ status'[o] = "PendingVerification"
          /\ \A x \in Offramps : x # o => status'[x] = status[x]
      BY <2>2, <3>1 DEF TypeOK, update_offramp_status
    <3>5. \A d \in Calls : Holding(d) => call[d].id # o
      BY <2>2, ZenonT(40) DEF CallInv
    <3>6. CallInv'
      BY <1>0, <1>5, <3>1, <3>2, <3>3, <3>4, <3>5 DEF CallInv, Holding, Paying, SameRows, deposit_claim
    <3>7. CallsGoOn
      BY Zenon, <3>4 DEF CallsGoOn
    <3> QED
      BY ZenonT(40), <1>f, <3>3, <3>4, <3>6, <3>7
  <2> QED
    BY <1>5, <2>1, <2>2 DEF deposit_claim, transition_applies
<1>6. ASSUME NEW o \in Offramps, NEW d \in Deposits, handle_offramp_deposit(c, o, d)
      PROVE  Core'
  <2>1. SameRows /\ World'
    BY <1>0, <1>6, WorldKept DEF handle_offramp_deposit
  <2>2. /\ call'[c].pc = "reuse" /\ call'[c].id = o /\ call'[c].tx = d
        /\ \A x \in Calls : x # c => call'[x] = call[x]
        /\ Present(o) /\ rec.pc = "done" /\ status' = status
    BY Zenon, <1>6 DEF TypeOK, handle_offramp_deposit, Present, dbvars
  <2>3. CallInv'
    <3>1. \A x \in Calls : /\ Holding(x)' <=> (x # c /\ Holding(x))
                           /\ Paying(x)' <=> (x # c /\ Paying(x))
      BY Zenon, <2>2 DEF Holding, Paying
    <3>2. rec'.pc = "done" /\ cbtc_tx' = cbtc_tx /\ received' = received
      BY Zenon, <1>0, <1>6, <2>2 DEF handle_offramp_deposit, dbvars
    <3>3. \A x \in Offramps : Present(x)' <=> Present(x)
      BY Zenon, <2>1 DEF SameRows
    <3>4. ASSUME NEW x \in Calls
          PROVE  /\ call'[x].pc # "idle" => /\ call'[x].id \in Offramps /\ Present(call[x].id)'
                                            /\ call'[x].tx \in Deposits
                 /\ Holding(x)' => status'[call'[x].id] # "AwaitingDeposit"
                 /\ call'[x].pc \in {"verify", "revert", "verified"} => cbtc_tx'[call'[x].id] = None
                 /\ call'[x].pc = "verified" => call'[x].tx \in received'
                 /\ Paying(x)' => cbtc_tx'[call'[x].id] \in received'
      <4>1. CASE x = c
        BY Zenon, <1>6, <2>2, <3>1, <3>3, <4>1
      <4>2. CASE x # c
        BY Zenon, <2>2, <3>1, <3>2, <3>3, <4>2 DEF CallInv
      <4> QED
        BY Zenon, <4>1, <4>2
    <3>5. \A x, y \in Calls : Holding(x)' /\ Holding(y)' /\ call'[x].id = call'[y].id => x = y
      BY Zenon, <2>2, <3>1 DEF CallInv
    <3> QED
      BY Zenon, <3>2, <3>4, <3>5 DEF CallInv
  <2>4. CallsGoOn
    BY Zenon, <2>2 DEF CallsGoOn
  <2> QED
    BY ZenonT(40), <1>f, <2>1, <2>2, <2>3, <2>4
<1>7. CASE drop_deposit(c)
  BY Zenon, <1>1, <1>7, <1>t DEF drop_deposit
<1> QED
  BY <1>2, <1>3, <1>4, <1>5, <1>6, <1>7, Zenon

\* The claim becomes evidence: the row's hash and PayingLightning.
LEMMA VerifiedStep ==
  ASSUME IInv, NEW c \in Calls, deposit_verified(c)
  PROVE  Core'
<1> USE DEF IInv, Core
<1> DEFINE o == call[c].id
<1>0. /\ UNCHANGED <<payment_hash, deposit_tx, chain, received, refunds, ln, paid, evt, replayed,
                     req, job, rec, mon>>
      /\ o \in Offramps /\ Present(o) /\ cbtc_tx[o] = None /\ Holding(c) /\ call[c].tx \in received
  BY DEF deposit_verified, lnvars, CallInv, Holding
<1>1. CASE call' = [call EXCEPT ![c] = IdleCall] /\ UNCHANGED <<status, cbtc_tx, expires_at>>
  <2>1. SameRows /\ World'
    BY Zenon, <1>0, <1>1, WorldKept DEF dbvars
  <2>2. IdleCall \in CallRec /\ IdleCall.pc = "idle"
    BY IdleTypes DEF IdleCall
  <2>3. CallInv'
    BY ZenonT(40), <1>0, <1>1, <2>1, <2>2, CallMoves
  <2>4. CallsGoOn
    BY <1>1, <2>2 DEF CallsGoOn, TypeOK
  <2> QED
    BY Zenon, <1>0, <1>1, <2>1, <2>3, <2>4, CallFrame
<1>2. CASE /\ status[o] = "PendingVerification"
           /\ status' = [status EXCEPT ![o] = "PayingLightning"]
           /\ cbtc_tx' = [cbtc_tx EXCEPT ![o] = call[c].tx]
           /\ call' = [call EXCEPT ![c].pc = "pay"]
  <2>1. /\ call'[c].pc = "pay" /\ call'[c].id = o /\ call'[c].tx = call[c].tx
        /\ \A d \in Calls : d # c => call'[d] = call[d]
        /\ status'[o] = "PayingLightning" /\ cbtc_tx'[o] = call[c].tx
        /\ \A x \in Offramps : x # o => status'[x] = status[x] /\ cbtc_tx'[x] = cbtc_tx[x]
    BY <1>0, <1>2, SMTT(30), ZenonT(40) DEF TypeOK
  <2>2. SameRows
    BY <1>0, <2>1, Zenon DEF SameRows, Present
  <2>3. cbtc_tx'[o] # None
    BY ZenonT(40), <1>0, <2>1, OfframpAssumption DEF OfframpAssumption, TypeOK
  <2>4. RowInv'
    <3> SUFFICES ASSUME NEW x \in Offramps
                 PROVE  /\ cbtc_tx'[x] # None => status'[x] \notin {"AwaitingDeposit", "PendingVerification"}
                        /\ status'[x] = "PayingLightning" => cbtc_tx'[x] # None
                        /\ status'[x] = "DepositingToPool" => payment_hash'[x] \in paid'
                        /\ ~Present(x)' => cbtc_tx'[x] = None
      BY <1>0, <2>2, ZenonT(40) DEF World, RowInv, SameRows
    <3>1. CASE x = o
      BY <2>1, <2>3, <3>1, ZenonT(40) DEF Present
    <3>2. CASE x # o
      BY <1>0, <2>1, <2>2, <3>2, ZenonT(40) DEF World, RowInv, SameRows
    <3> QED
      BY <3>1, <3>2, Zenon
  <2>5. LightningInv' /\ PaidOnlyIfDeposited' /\ TodoInv'
    BY Zenon, <1>0, <2>1, <2>2, LightningKept, PaidKept, TodoKept DEF World
  <2>6. RecordedDepositIsReal' /\ FulfilledOnlyIfPaid'
    BY ZenonT(40), <1>0 DEF World, RecordedDepositIsReal, FulfilledOnlyIfPaid
  <2>7. CallInv'
    BY <1>0, <2>1, <2>2 DEF CallInv, SameRows, Holding, Paying, deposit_verified
  <2>8. JobInv' /\ SingleCompleter'
    <3>1. \A j \in Jobs : Completing(j) => job[j].id # o
      BY Zenon, <1>0 DEF JobInv
    <3> QED
      BY ZenonT(40), <1>0, <2>1, <2>2, <3>1 DEF JobInv, SingleCompleter, SameRows, Completing
  <2>9. FailureInv'
    BY <1>0, <2>2, FailureKept, Zenon DEF JobsGoOn, Refunding
  <2>10. AttemptInv'
    <3> SUFFICES ASSUME NEW x \in Offramps, Present(x)', Sole(x)'
                 PROVE  /\ cbtc_tx'[x] = None => Untried(x)'
                        /\ \A d \in Calls : call'[d].pc = "pay" /\ call'[d].id = x => Untried(x)'
                        /\ ln'[payment_hash'[x]] = "inflight" =>
                             /\ payment_hash'[x] \notin paid' /\ evt'[payment_hash'[x]] = "none"
                             /\ NotFailed(x)'
                        /\ payment_hash'[x] \in paid' => NotFailed(x)'
      BY Zenon DEF AttemptInv
    <3>1. Present(x) /\ Sole(x)
      BY <2>2, RowsKept DEF SameRows
    <3>2. (Untried(x) => Untried(x)') /\ (NotFailed(x) => NotFailed(x)')
      BY Zenon, <1>0 DEF Untried, NotFailed, Refunding
    <3>3. CASE x = o
      BY Zenon, <1>0, <3>1, <3>2, <3>3 DEF AttemptInv
    <3>4. CASE x # o
      <4>1. /\ cbtc_tx[x] = None => Untried(x)
            /\ \A d \in Calls : call[d].pc = "pay" /\ call[d].id = x => Untried(x)
            /\ ln[payment_hash[x]] = "inflight" =>
                 payment_hash[x] \notin paid /\ evt[payment_hash[x]] = "none" /\ NotFailed(x)
            /\ payment_hash[x] \in paid => NotFailed(x)
        BY ZenonT(40), <3>1 DEF AttemptInv
      <4>2. /\ cbtc_tx'[x] = cbtc_tx[x]
            /\ \A d \in Calls : call'[d].pc = "pay" /\ call'[d].id = x => call[d].pc = "pay" /\ call[d].id = x
        BY <2>1, <3>4, Zenon
      <4> QED
        BY Zenon, <1>0, <3>2, <4>1, <4>2
    <3> QED
      BY Zenon, <3>3, <3>4
  <2> QED
    BY <2>4, <2>5, <2>6, <2>7, <2>8, <2>9, <2>10 DEF World
<1> QED
  BY <1>1, <1>2 DEF deposit_verified, transition_applies

\* What is left to show of a step of LDK's: the offramps alone on its invoice.
LEMMA AttemptOn ==
  ASSUME IInv, SameRows, CallsGoOn, NEW b \in Bolts, UNCHANGED <<cbtc_tx, refunds>>,
         \A j \in Jobs :
           \/ job'[j] = job[j]
           \/ job'[j].id \in Offramps /\ payment_hash[job'[j].id] = b /\ job[j].pc = "idle",
         \A x \in Bolts : x # b => ln'[x] = ln[x] /\ evt'[x] = evt[x] /\ (x \in paid' <=> x \in paid),
         \A o \in Offramps : Present(o) /\ Sole(o) /\ payment_hash[o] = b =>
           /\ cbtc_tx[o] # None
           /\ \A c \in Calls : call'[c].pc = "pay" => call'[c].id # o
           /\ ln'[b] = "inflight" => b \notin paid' /\ evt'[b] = "none" /\ NotFailed(o)'
           /\ b \in paid' => NotFailed(o)'
  PROVE  AttemptInv'
<1> USE DEF IInv, Core
<1> SUFFICES ASSUME NEW o \in Offramps, Present(o)', Sole(o)'
             PROVE  /\ cbtc_tx'[o] = None => Untried(o)'
                    /\ \A d \in Calls : call'[d].pc = "pay" /\ call'[d].id = o => Untried(o)'
                    /\ ln'[payment_hash'[o]] = "inflight" =>
                         /\ payment_hash'[o] \notin paid' /\ evt'[payment_hash'[o]] = "none"
                         /\ NotFailed(o)'
                    /\ payment_hash'[o] \in paid' => NotFailed(o)'
  BY Zenon DEF AttemptInv
<1>1. Present(o) /\ Sole(o) /\ payment_hash'[o] = payment_hash[o] /\ payment_hash[o] \in Bolts
  BY Zenon, RowsKept DEF SameRows, World, RowInv
<1>2. CASE payment_hash[o] = b
  BY Zenon, <1>1, <1>2
<1>3. CASE payment_hash[o] # b
  <2>1. \A j \in Jobs : job'[j].id = o => job'[j] = job[j]
    BY ZenonT(40), <1>3
  <2>2. Untried(o) => Untried(o)'
    BY ZenonT(40), <1>1, <1>3, <2>1 DEF Untried
  <2>3. NotFailed(o) => NotFailed(o)'
    BY ZenonT(40), <1>1, <1>3, <2>1 DEF NotFailed, Refunding
  <2>4. /\ cbtc_tx[o] = None => Untried(o)
        /\ \A d \in Calls : call[d].pc = "pay" /\ call[d].id = o => Untried(o)
        /\ ln[payment_hash[o]] = "inflight" =>
             payment_hash[o] \notin paid /\ evt[payment_hash[o]] = "none" /\ NotFailed(o)
        /\ payment_hash[o] \in paid => NotFailed(o)
    BY Zenon, <1>1 DEF AttemptInv
  <2>5. \A d \in Calls : call'[d].pc = "pay" /\ call'[d].id = o => call[d].pc = "pay" /\ call[d].id = o
    BY Zenon DEF CallsGoOn
  <2> QED
    BY ZenonT(40), <1>1, <1>3, <2>2, <2>3, <2>4, <2>5
<1> QED
  BY Zenon, <1>2, <1>3

\* send_payment: the invoice is in flight, or the call is told it is not.
LEMMA SendStep ==
  ASSUME IInv, NEW c \in Calls, send_payment(c)
  PROVE  Core'
<1> USE DEF IInv, Core
<1>0. UNCHANGED <<dbvars, chain, received, refunds, paid, evt, replayed, req, job, rec, mon>>
  BY DEF send_payment
<1>1. PICK o \in Offramps : o = call[c].id /\ Present(o) /\ cbtc_tx[o] \in received
  BY DEF send_payment, CallInv, Paying
<1>2. PICK b \in Bolts : b = payment_hash[o]
  BY <1>1, Zenon DEF World, RowInv
<1>3. SameRows
  BY <1>0 DEF SameRows, Present, dbvars
<1>4. LightningInv' /\ TodoInv' /\ FailureInv'
  BY Zenon, <1>0, <1>3, LightningKept, TodoKept, FailureKept DEF World, JobsGoOn, Refunding
<1>5. JobInv' /\ SingleCompleter'
  BY Zenon, <1>0, <1>3, JobsKept DEF dbvars
<1>6. RowInv' /\ RecordedDepositIsReal' /\ FulfilledOnlyIfPaid'
  BY ZenonT(40), <1>0 DEF World, RowInv, Present, RecordedDepositIsReal, FulfilledOnlyIfPaid, dbvars
<1>7. PICK r \in CallRec :
        /\ call' = [call EXCEPT ![c] = r]
        /\ \/ r = IdleCall /\ ln' = [ln EXCEPT ![b] = "inflight"]
           \/ r.pc = "unpaid" /\ r.id = call[c].id /\ r.tx = call[c].tx /\ ln' = ln
  <2>1. call[c] \in CallRec /\ IdleCall \in CallRec
    BY TypeParts, IdleTypes DEF TasksOK
  <2>2. [call[c] EXCEPT !.pc = "unpaid"] \in CallRec
    BY <2>1 DEF CallRec, CallPc
  <2>3. CASE call' = [call EXCEPT ![c] = IdleCall] /\ ln' = [ln EXCEPT ![b] = "inflight"]
    BY Zenon, <2>1, <2>3
  <2>4. CASE call' = [call EXCEPT ![c].pc = "unpaid"] /\ ln' = ln
    <3>1. call' = [call EXCEPT ![c] = [call[c] EXCEPT !.pc = "unpaid"]]
      BY <2>4
    <3> QED
      BY Zenon, <2>1, <2>2, <2>4, <3>1 DEF CallRec
  <2> QED
    BY <1>1, <1>2, <2>3, <2>4 DEF send_payment
<1>8. CallInv'
  BY ZenonT(40), <1>0, <1>3, <1>7, CallMoves DEF IdleCall, send_payment, Holding, Paying, dbvars
<1>9. call'[c] = r /\ \A d \in Calls : d # c => call'[d] = call[d]
  BY <1>7 DEF TypeOK
<1>10. CallsGoOn
  BY <1>7, <1>9 DEF CallsGoOn, IdleCall
<1>11. PaidOnlyIfDeposited'
  <2>1. \A x \in Bolts : x # b => ln'[x] = ln[x]
    BY <1>7, ZenonT(40) DEF TypeOK
  <2>2. o \in Rows(b)
    BY <1>1, <1>2 DEF Rows, get_offramp_by_payment_hash, Present
  <2>3. \A x : Rows(x)' = Rows(x)
    BY <1>3, RowsKept
  <2> QED
    BY Zenon, <1>0, <1>1, <2>1, <2>2, <2>3 DEF World, PaidOnlyIfDeposited, Rows, dbvars
<1>12. AttemptInv'
  <2>1. CASE ln' = ln
    BY <1>0, <1>3, <1>10, <2>1, AttemptKept DEF JobsGoOn, Refunding, dbvars
  <2>2. CASE r = IdleCall /\ ln' = [ln EXCEPT ![b] = "inflight"]
    <3>1. ASSUME NEW x \in Offramps, Present(x), Sole(x), payment_hash[x] = b
          PROVE  /\ x = o /\ Untried(x) /\ cbtc_tx[x] # None
                 /\ NotFailed(x)'
      <4>1. x = o
        BY ZenonT(40), <1>1, <1>2, <3>1 DEF Sole, get_offramp_by_payment_hash, Present
      <4>2. Untried(o) /\ call[c].pc = "pay"
        BY <1>1, <3>1, <4>1 DEF AttemptInv, send_payment
      <4>3. cbtc_tx[x] # None
        BY <1>1, <4>1, OfframpAssumption, ZenonT(40) DEF OfframpAssumption, TypeOK
      <4>4. NotFailed(x)'
        BY <1>0, <4>1, <4>2, Zenon DEF Untried, NotFailed, Refunding, dbvars
      <4> QED
        BY <4>1, <4>2, <4>3, <4>4
    <3>2. \A d \in Calls : call'[d].pc = "pay" => call'[d].id # o
      BY <1>1, <1>9, <2>2 DEF CallInv, Holding, IdleCall, send_payment
    <3>3. b \notin paid => b \notin paid'
      BY <1>0
    <3>4. \A x \in Offramps : Present(x) /\ Sole(x) /\ payment_hash[x] = b =>
            /\ cbtc_tx[x] # None
            /\ \A d \in Calls : call'[d].pc = "pay" => call'[d].id # x
            /\ b \notin paid' /\ evt'[b] = "none" /\ NotFailed(x)'
      BY ZenonT(40), <1>0, <3>1, <3>2 DEF Untried
    <3>5. \A x \in Bolts : x # b => ln'[x] = ln[x] /\ evt'[x] = evt[x] /\ (x \in paid' <=> x \in paid)
      BY <1>0, <2>2 DEF TypeOK
    <3> QED
      BY ZenonT(40), <1>0, <1>3, <1>10, <3>4, <3>5, AttemptOn DEF dbvars
  <2> QED
    BY <1>7, <2>1, <2>2, ZenonT(40)
<1> QED
  BY <1>4, <1>5, <1>6, <1>8, <1>11, <1>12 DEF World

\* The parts a step of LDK's on one invoice does not touch.
LEMMA LightningFrame ==
  ASSUME IInv, UNCHANGED <<dbvars, chain, received, refunds, req, call, rec, mon>>, paid \subseteq paid'
  PROVE  /\ SameRows /\ CallsGoOn /\ CallInv' /\ TodoInv'
         /\ RowInv' /\ RecordedDepositIsReal' /\ FulfilledOnlyIfPaid'
         /\ job' = job => JobInv' /\ SingleCompleter'
<1> USE DEF IInv, Core
<1>1. SameRows
  BY Zenon DEF SameRows, Present, dbvars
<1>2. CallInv' /\ TodoInv' /\ CallsGoOn
  BY <1>1, CallsKept, TodoKept, ZenonT(40) DEF dbvars, CallsGoOn
<1>3. job' = job => JobInv' /\ SingleCompleter'
  BY <1>1, JobsKept DEF dbvars
<1>4. RowInv' /\ RecordedDepositIsReal' /\ FulfilledOnlyIfPaid'
  BY ZenonT(40) DEF World, RowInv, Present, RecordedDepositIsReal, FulfilledOnlyIfPaid, dbvars
<1> QED
  BY <1>1, <1>2, <1>3, <1>4

\* An offramp alone on an invoice that LDK has tried, or has an event of.
LEMMA TriedOn ==
  ASSUME IInv, NEW o \in Offramps, Present(o), Sole(o),
         ln[payment_hash[o]] # "none" \/ evt[payment_hash[o]] # "none"
  PROVE  cbtc_tx[o] # None /\ \A c \in Calls : call[c].pc = "pay" => call[c].id # o
  BY Zenon DEF IInv, Core, AttemptInv, Untried

\* The payment succeeds or fails.
LEMMA PaymentStep ==
  ASSUME IInv, NEW b \in Bolts, payment_succeeds(b) \/ payment_fails(b)
  PROVE  Core'
<1> USE DEF IInv, Core
<1>0. /\ UNCHANGED <<dbvars, chain, received, refunds, replayed, req, call, job, rec, mon>>
      /\ ln[b] = "inflight" /\ evt[b] = "none" /\ ln'[b] # "inflight"
      /\ paid \subseteq paid' /\ (b \in paid' => evt'[b] = "sent" \/ b \in paid)
      /\ evt'[b] \in {"sent", "failed"} /\ (evt'[b] = "sent" => b \in paid')
      /\ \A x \in Bolts : x # b => ln'[x] = ln[x] /\ evt'[x] = evt[x] /\ (x \in paid' <=> x \in paid)
  BY ZenonT(40) DEF payment_succeeds, payment_fails, TypeOK
<1>1. /\ SameRows /\ CallsGoOn /\ CallInv' /\ TodoInv' /\ RowInv' /\ RecordedDepositIsReal'
      /\ FulfilledOnlyIfPaid' /\ JobInv' /\ SingleCompleter'
  BY Zenon, <1>0, LightningFrame
<1>2. \A x : Rows(x)' = Rows(x)
  BY <1>1, RowsKept
<1>3. Rows(b) # {} /\ \E o \in Rows(b) : cbtc_tx[o] \in received
  BY Zenon, <1>0 DEF World, PaidOnlyIfDeposited, Rows
<1>4. LightningInv'
  BY Zenon, <1>0, <1>2, <1>3 DEF World, LightningInv
<1>5. PaidOnlyIfDeposited'
  <2>1. \A x \in Bolts : x # b => (ln'[x] # "none" \/ x \in paid' => ln[x] # "none" \/ x \in paid)
    BY Zenon, <1>0
  <2> QED
    BY Zenon, <1>0, <1>2, <1>3, <2>1 DEF World, PaidOnlyIfDeposited, Rows, dbvars
<1>6. ASSUME NEW o \in Offramps, Present(o), Sole(o), payment_hash[o] = b
      PROVE  /\ cbtc_tx[o] # None /\ (\A c \in Calls : call[c].pc = "pay" => call[c].id # o)
             /\ NotFailed(o) /\ b \notin paid
  BY Zenon, <1>0, <1>6, TriedOn DEF AttemptInv
<1>7. AttemptInv'
  <2>1. ASSUME NEW o \in Offramps, Present(o), Sole(o), payment_hash[o] = b, b \in paid'
        PROVE  NotFailed(o)'
    BY Zenon, <1>0, <1>6, <2>1 DEF NotFailed, Refunding, dbvars
  <2> QED
    BY ZenonT(40), <1>0, <1>1, <1>6, <2>1, AttemptOn DEF dbvars
<1>8. FailureInv'
  <2> SUFFICES ASSUME NEW o \in Offramps, Present(o)', Sole(o)', payment_hash'[o] \notin replayed'
               PROVE  /\ refunds'[o] <= 1
                      /\ evt'[payment_hash'[o]] = "failed" =>
                           refunds'[o] = 0 /\ \A j \in Jobs : Refunding(j)' => job'[j].id # o
                      /\ \A j, k \in Jobs :
                           job'[j].pc = "refund" /\ job'[j].id = o =>
                             refunds'[o] = 0 /\ (Refunding(k)' /\ job'[k].id = o => j = k)
    BY Zenon DEF FailureInv
  <2>1. Present(o) /\ Sole(o) /\ payment_hash[o] \notin replayed /\ payment_hash'[o] = payment_hash[o]
    BY Zenon, <1>0, <1>1, RowsKept DEF SameRows
  <2>2. payment_hash[o] \in Bolts
    BY Zenon, <2>1 DEF World, RowInv
  <2>3. CASE payment_hash[o] = b
    <3>1. NotFailed(o)
      BY Zenon, <1>6, <2>1, <2>3
    <3> QED
      BY Zenon, <1>0, <2>1, <3>1 DEF NotFailed, FailureInv, Refunding
  <2>4. CASE payment_hash[o] # b
    <3>1. /\ refunds[o] <= 1
          /\ evt[payment_hash[o]] = "failed" =>
               refunds[o] = 0 /\ \A j \in Jobs : Refunding(j) => job[j].id # o
          /\ \A j, k \in Jobs :
               job[j].pc = "refund" /\ job[j].id = o =>
                 refunds[o] = 0 /\ (Refunding(k) /\ job[k].id = o => j = k)
      BY Zenon, <2>1 DEF FailureInv
    <3>2. /\ evt'[payment_hash'[o]] = evt[payment_hash[o]]
          /\ refunds' = refunds /\ job' = job
          /\ \A j : Refunding(j)' <=> Refunding(j)
      BY Zenon, <1>0, <2>1, <2>2, <2>4 DEF Refunding
    <3> QED
      BY Zenon, <3>1, <3>2
  <2> QED
    BY Zenon, <2>3, <2>4
<1> QED
  BY <1>1, <1>4, <1>5, <1>7, <1>8 DEF World

\* LDK forgets the event, or delivers it once more.
LEMMA EventStep ==
  ASSUME IInv, NEW b \in Bolts, ldk_persist(b) \/ ldk_redeliver(b)
  PROVE  Core'
<1> USE DEF IInv, Core
<1>0. /\ UNCHANGED <<dbvars, chain, received, refunds, ln, paid, req, call, job, rec, mon>>
      /\ evt[b] \in {"sent_handled", "failed_handled"}
      /\ evt'[b] = "none" \/ (evt'[b] = Replayed(evt[b]) /\ b \in replayed')
      /\ \A x \in Bolts : x # b => evt'[x] = evt[x]
      /\ replayed \subseteq replayed'
  BY Zenon DEF ldk_persist, ldk_redeliver, TypeOK, lnvars
<1>1. /\ SameRows /\ CallsGoOn /\ CallInv' /\ TodoInv' /\ RowInv' /\ RecordedDepositIsReal'
      /\ FulfilledOnlyIfPaid' /\ JobInv' /\ SingleCompleter'
  BY Zenon, <1>0, LightningFrame
<1>2. \A x : Rows(x)' = Rows(x)
  BY <1>1, RowsKept
<1>3. LightningInv'
  BY Zenon, <1>0, <1>2 DEF World, LightningInv, Replayed
<1>4. PaidOnlyIfDeposited'
  BY Zenon, <1>0, <1>1, PaidKept DEF World, dbvars
<1>5. AttemptInv'
  <2>1. ASSUME NEW o \in Offramps, Present(o), Sole(o), payment_hash[o] = b
        PROVE  /\ cbtc_tx[o] # None
               /\ \A c \in Calls : call'[c].pc = "pay" => call'[c].id # o
               /\ ln'[b] # "inflight"
               /\ b \in paid' => NotFailed(o)'
    <3>1. cbtc_tx[o] # None /\ \A c \in Calls : call'[c].pc = "pay" => call'[c].id # o
      BY Zenon, <1>0, <2>1, TriedOn
    <3>2. ln'[b] # "inflight"
      BY Zenon, <1>0, <2>1 DEF AttemptInv
    <3>3. b \in paid' => NotFailed(o)'
      BY Zenon, <1>0, <2>1 DEF AttemptInv, NotFailed, Refunding, Replayed, dbvars
    <3> QED
      BY Zenon, <3>1, <3>2, <3>3
  <2> QED
    BY Zenon, <1>0, <1>1, <2>1, AttemptOn DEF dbvars
<1>6. FailureInv'
  <2> SUFFICES ASSUME NEW o \in Offramps, Present(o)', Sole(o)', payment_hash'[o] \notin replayed'
               PROVE  /\ refunds'[o] <= 1
                      /\ evt'[payment_hash'[o]] = "failed" =>
                           refunds'[o] = 0 /\ \A j \in Jobs : Refunding(j)' => job'[j].id # o
                      /\ \A j, k \in Jobs :
                           job'[j].pc = "refund" /\ job'[j].id = o =>
                             refunds'[o] = 0 /\ (Refunding(k)' /\ job'[k].id = o => j = k)
    BY Zenon DEF FailureInv
  <2>1. /\ Present(o) /\ Sole(o) /\ payment_hash[o] \notin replayed
        /\ payment_hash'[o] = payment_hash[o] /\ payment_hash[o] \in Bolts
    BY Zenon, <1>0, <1>1, RowsKept DEF SameRows, World, RowInv
  <2>2. evt'[payment_hash[o]] = "failed" => evt[payment_hash[o]] = "failed"
    BY Zenon, <1>0, <2>1
  <2> QED
    BY ZenonT(40), <1>0, <2>1, <2>2 DEF FailureInv, Refunding
<1> QED
  BY <1>1, <1>3, <1>4, <1>5, <1>6 DEF World

-----------------------------------------------------------------------------
(* The event tasks, the recovery, the monitor and crashes; the theorems.   *)

\* PaymentSent and PaymentFailed: a task for an offramp of the invoice.
LEMMA SpawnStep ==
  ASSUME IInv, NEW b \in Bolts, PaymentSent(b) \/ PaymentFailed(b)
  PROVE  Core'
<1>z. 0 <= 1
  OBVIOUS
<1> USE DEF IInv, Core
<1>1. PICK pc \in {"complete", "refund"}, h \in {"sent_handled", "failed_handled"} :
        /\ SpawnJob(b, pc, h)
        /\ pc = "complete" => evt[b] = "sent" /\ h = "sent_handled"
        /\ pc = "refund" => evt[b] = "failed" /\ h = "failed_handled"
  BY DEF PaymentSent, PaymentFailed
<1>2. PICK j \in Jobs, o \in Rows(b) :
        job[j].pc = "idle" /\ job' = [job EXCEPT ![j] = [pc |-> pc, id |-> o, att |-> 0]]
  BY Zenon, <1>1 DEF SpawnJob, Rows
<1>3. /\ UNCHANGED <<dbvars, chain, received, refunds, ln, paid, replayed, req, call, rec, mon>>
      /\ evt'[b] = h /\ \A x \in Bolts : x # b => evt'[x] = evt[x]
      /\ o \in Offramps /\ Present(o) /\ payment_hash[o] = b
      /\ job'[j].pc = pc /\ job'[j].id = o /\ \A k \in Jobs : k # j => job'[k] = job[k]
  BY Zenon, <1>1, <1>2 DEF SpawnJob, Rows, get_offramp_by_payment_hash, Present, TypeOK
<1>4. /\ SameRows /\ CallsGoOn /\ CallInv' /\ TodoInv' /\ RowInv' /\ RecordedDepositIsReal'
      /\ FulfilledOnlyIfPaid'
  BY ZenonT(40), <1>3, LightningFrame
<1>5. LightningInv'
  <2>1. \A x : Rows(x)' = Rows(x)
    BY <1>4, RowsKept
  <2> QED
    BY <1>1, <1>3, <2>1 DEF World, LightningInv
<1>6. PaidOnlyIfDeposited'
  BY ZenonT(40), <1>3, <1>4, PaidKept DEF World, dbvars
<1>7. JobInv' /\ SingleCompleter'
  <2>1. pc = "complete" => b \in paid
    BY <1>1, Zenon DEF World, LightningInv
  <2> QED
    <3>1. /\ job'[j].pc \in {"complete", "refund"} /\ ~Completing(j)'
          /\ \A k \in Jobs : k # j => job'[k] = job[k] /\ (Completing(k)' <=> Completing(k))
      BY <1>3, ZenonT(40) DEF Completing
    <3>2. SingleCompleter'
      BY <3>1, ZenonT(40) DEF SingleCompleter
    <3>3. ASSUME NEW k \in Jobs
          PROVE  /\ job'[k].pc # "idle" => job'[k].id \in Offramps /\ Present(job[k].id)'
                 /\ job'[k].pc = "complete" \/ Completing(k)' => payment_hash'[job'[k].id] \in paid'
                 /\ Completing(k)' => cbtc_tx'[job'[k].id] # None /\ status'[job'[k].id] # "PayingLightning"
                 /\ job'[k].pc = "completed" => chain'[job'[k].id] = "fulfilled"
      <4>1. UNCHANGED <<status, payment_hash, cbtc_tx, chain, paid>>
        BY <1>3, Zenon DEF dbvars
      <4>2. CASE k = j
        <5>1. job'[k].id = o /\ Present(job[k].id)' /\ job'[k].pc # "completed" /\ ~Completing(k)'
          BY <1>3, <3>1, <4>1, <4>2, ZenonT(40) DEF Present
        <5>2. job'[k].pc = "complete" => payment_hash'[o] \in paid'
          BY <1>3, <2>1, <4>1, <4>2, Zenon
        <5> QED
          BY <1>3, <5>1, <5>2, Zenon
      <4>3. CASE k # j
        <5>1. job'[k] = job[k] /\ (Completing(k)' <=> Completing(k))
          BY <3>1, <4>3, Zenon
        <5> QED
          BY <4>1, <5>1, ZenonT(40) DEF JobInv, Present
      <4> QED
        BY <4>2, <4>3, Zenon
    <3> QED
      BY <3>2, <3>3, Zenon DEF JobInv
<1>8. AttemptInv'
  <2>1. ASSUME NEW x \in Offramps, Present(x), Sole(x), payment_hash[x] = b
        PROVE  /\ cbtc_tx[x] # None
               /\ \A c \in Calls : call'[c].pc = "pay" => call'[c].id # x
               /\ ln'[b] # "inflight"
               /\ b \in paid' => NotFailed(x)'
    <3>0. evt[b] # "none"
      BY <1>1
    <3>1. cbtc_tx[x] # None /\ \A c \in Calls : call'[c].pc = "pay" => call'[c].id # x
      BY ZenonT(40), <1>3, <2>1, <3>0, TriedOn
    <3>2. ln'[b] # "inflight"
      BY Zenon, <1>3, <2>1, <3>0 DEF AttemptInv
    <3>3. ASSUME b \in paid PROVE NotFailed(x)'
      <4>1. NotFailed(x) /\ pc = "complete"
        BY Zenon, <1>1, <2>1, <3>3 DEF AttemptInv, NotFailed
      <4> QED
        BY Zenon, <1>1, <1>3, <2>1, <4>1 DEF NotFailed, Refunding, dbvars
    <3> QED
      BY Zenon, <1>3, <3>1, <3>2, <3>3
  <2>2. \A k \in Jobs :
          \/ job'[k] = job[k]
          \/ job'[k].id \in Offramps /\ payment_hash[job'[k].id] = b /\ job[k].pc = "idle"
    BY Zenon, <1>2, <1>3
  <2> QED
    <3>1. UNCHANGED dbvars /\ \A x \in Bolts : x # b => evt'[x] = evt[x]
      BY <1>3, Zenon
    <3> QED
      BY <1>3, <1>4, <2>1, <2>2, <3>1, AttemptOn, ZenonT(40) DEF dbvars
<1>9. FailureInv'
  <2> SUFFICES ASSUME NEW x \in Offramps, Present(x)', Sole(x)', payment_hash'[x] \notin replayed'
               PROVE  /\ refunds'[x] <= 1
                      /\ evt'[payment_hash'[x]] = "failed" =>
                           refunds'[x] = 0 /\ \A k \in Jobs : Refunding(k)' => job'[k].id # x
                      /\ \A i, k \in Jobs :
                           job'[i].pc = "refund" /\ job'[i].id = x =>
                             refunds'[x] = 0 /\ (Refunding(k)' /\ job'[k].id = x => i = k)
    BY Zenon DEF FailureInv
  <2>1. /\ Present(x) /\ Sole(x) /\ payment_hash[x] \notin replayed
        /\ payment_hash'[x] = payment_hash[x] /\ payment_hash[x] \in Bolts
    BY Zenon, <1>3, <1>4, RowsKept DEF SameRows, World, RowInv
  <2>2. CASE payment_hash[x] = b
    <3>1. evt'[b] # "failed"
      BY ZenonT(40), <1>3
    <3>2. CASE pc = "refund"
      <4>1. refunds[x] = 0 /\ \A k \in Jobs : Refunding(k) => job[k].id # x
        BY Zenon, <1>1, <2>1, <2>2, <3>2 DEF FailureInv
      <4>2. \A k \in Jobs : Refunding(k)' /\ job'[k].id = x => k = j
        BY Zenon, <1>3, <4>1 DEF Refunding
      <4>3. \A k \in Jobs : job'[k].pc = "refund" => Refunding(k)'
        BY ZenonT(40) DEF Refunding
      <4>4. refunds'[x] = 0 /\ evt'[payment_hash'[x]] # "failed"
        BY <1>3, <2>1, <2>2, <3>1, <4>1, Zenon
      <4>5. \A i, k \in Jobs : job'[i].pc = "refund" /\ job'[i].id = x /\ Refunding(k)' /\ job'[k].id = x => i = k
        BY <4>2, <4>3, Zenon
      <4>6. refunds'[x] <= 1
        BY Zenon, <1>z, <4>4
      <4> QED
        BY <4>4, <4>5, <4>6, Zenon
    <3>3. CASE pc = "complete"
      <4>1. \A k \in Jobs : Refunding(k)' => Refunding(k) /\ job'[k] = job[k]
        BY ZenonT(40), <1>3, <3>3 DEF Refunding
      <4>2. \A k \in Jobs : job'[k].pc = "refund" => Refunding(k)'
        BY Zenon DEF Refunding
      <4>3. refunds'[x] = refunds[x] /\ evt'[payment_hash'[x]] # "failed"
        BY <1>3, <2>1, <2>2, <3>1, Zenon
      <4>4. ASSUME NEW i \in Jobs, NEW k \in Jobs, job'[i].pc = "refund", job'[i].id = x
            PROVE  refunds[x] = 0 /\ (Refunding(k)' /\ job'[k].id = x => i = k)
        <5>1. job[i].pc = "refund" /\ job[i].id = x
          BY <4>1, <4>2, <4>4, Zenon
        <5>2. refunds[x] = 0 /\ (Refunding(k) /\ job[k].id = x => i = k)
          BY <2>1, <5>1, ZenonT(40) DEF FailureInv
        <5> QED
          BY <4>1, <5>2, Zenon
      <4>5. refunds[x] <= 1
        BY <2>1, ZenonT(40) DEF FailureInv
      <4> QED
        BY <4>3, <4>4, <4>5, Zenon
    <3> QED
      BY Zenon, <3>2, <3>3
  <2>3. CASE payment_hash[x] # b
    <3>1. x # o
      BY ZenonT(40), <1>3, <2>3
    <3>2. /\ refunds[x] <= 1
          /\ evt[payment_hash[x]] = "failed" =>
               refunds[x] = 0 /\ \A k \in Jobs : Refunding(k) => job[k].id # x
          /\ \A i, k \in Jobs :
               job[i].pc = "refund" /\ job[i].id = x =>
                 refunds[x] = 0 /\ (Refunding(k) /\ job[k].id = x => i = k)
      BY <2>1, ZenonT(40) DEF FailureInv
    <3>3. refunds'[x] = refunds[x] /\ evt'[payment_hash'[x]] = evt[payment_hash[x]]
      BY <1>3, <2>1, <2>3, Zenon
    <3>4. \A k \in Jobs : Refunding(k)' /\ job'[k].id = x => Refunding(k) /\ job'[k] = job[k]
      BY <1>3, <3>1, ZenonT(40) DEF Refunding
    <3>5. \A k \in Jobs : job'[k].pc = "refund" => Refunding(k)'
      BY Zenon DEF Refunding
    <3>6. ASSUME NEW i \in Jobs, NEW k \in Jobs, job'[i].pc = "refund", job'[i].id = x
          PROVE  refunds[x] = 0 /\ (Refunding(k)' /\ job'[k].id = x => i = k)
      <4>1. job[i].pc = "refund" /\ job[i].id = x
        BY <3>4, <3>5, <3>6, Zenon
      <4> QED
        BY <3>2, <3>4, <4>1, ZenonT(40)
    <3>7. evt'[payment_hash'[x]] = "failed" =>
            refunds'[x] = 0 /\ \A k \in Jobs : Refunding(k)' => job'[k].id # x
      BY <3>2, <3>3, <3>4, ZenonT(40)
    <3> QED
      BY <3>2, <3>3, <3>6, <3>7, Zenon
  <2> QED
    BY Zenon, <2>2, <2>3
<1> QED
  BY <1>4, <1>5, <1>6, <1>7, <1>8, <1>9 DEF World

\* A task's step, when the tasks only go on: what is left is JobInv.
LEMMA JobFrame ==
  ASSUME IInv, SameRows, World', JobsGoOn,
         UNCHANGED <<cbtc_tx, received, refunds, ln, paid, evt, replayed, call, rec, mon>>,
         \A o \in Offramps : status'[o] = "AwaitingDeposit" => status[o] = "AwaitingDeposit"
  PROVE  CallInv' /\ TodoInv' /\ AttemptInv' /\ FailureInv'
<1> USE DEF IInv, Core
<1>1. CallInv' /\ TodoInv'
  BY CallsKept, TodoKept, Zenon
<1>2. AttemptInv' /\ FailureInv'
  BY AttemptKept, FailureKept DEF CallsGoOn
<1> QED
  BY <1>1, <1>2, Zenon

\* A task that ends, or goes on for its offramp.
LEMMA JobMoves ==
  ASSUME IInv, NEW j \in Jobs, NEW r, job' = [job EXCEPT ![j] = r], SameRows, UNCHANGED <<cbtc_tx, paid>>,
         r.pc # "idle" => r.id = job[j].id /\ job[j].pc # "idle",
         r.pc = "complete" => job[j].pc = "complete",
         r.pc \in {"preimage", "query", "submit", "completed", "failed"} =>
           /\ cbtc_tx[r.id] # None
           /\ \/ Completing(j)
              \/ job[j].pc = "complete" /\ \A k \in Jobs : Completing(k) => job[k].id # r.id,
         r.pc = "completed" => chain'[r.id] = "fulfilled",
         \A o \in Offramps : /\ status'[o] = "PayingLightning" => status[o] = "PayingLightning"
                             /\ chain[o] = "fulfilled" => chain'[o] = "fulfilled",
         r.pc \in {"preimage", "query", "submit", "completed", "failed"} =>
           status'[r.id] # "PayingLightning"
  PROVE  JobInv' /\ SingleCompleter'
<1> USE DEF IInv, Core
<1>0. job'[j] = r /\ \A k \in Jobs : k # j => job'[k] = job[k]
  BY ZenonT(40) DEF TypeOK
<1>1. ASSUME NEW k \in Jobs
      PROVE  /\ job'[k].pc # "idle" => job'[k].id \in Offramps /\ Present(job[k].id)'
             /\ job'[k].pc = "complete" \/ Completing(k)' => payment_hash'[job'[k].id] \in paid'
             /\ Completing(k)' => cbtc_tx'[job'[k].id] # None /\ status'[job'[k].id] # "PayingLightning"
             /\ job'[k].pc = "completed" => chain'[job'[k].id] = "fulfilled"
  <2>0. /\ job[k].pc # "idle" => job[k].id \in Offramps /\ Present(job[k].id)
        /\ job[k].pc = "complete" \/ Completing(k) => payment_hash[job[k].id] \in paid
        /\ Completing(k) => cbtc_tx[job[k].id] # None /\ status[job[k].id] # "PayingLightning"
        /\ job[k].pc = "completed" => chain[job[k].id] = "fulfilled"
        /\ Completing(k) => job[k].pc # "idle"
    BY ZenonT(40) DEF JobInv, Completing
  <2>1. CASE k = j
    <3>1. job'[k] = r /\ (Completing(k)' => r.pc \in {"preimage", "query", "submit", "completed", "failed"})
      BY <1>0, <2>1, ZenonT(40) DEF Completing
    <3>2. r.pc # "idle" => r.id \in Offramps /\ Present(job[k].id)'
      BY <2>0, <2>1, <3>1, ZenonT(40) DEF SameRows, Present
    <3>3. r.pc = "complete" \/ Completing(k)' => payment_hash'[r.id] \in paid'
      <4>1. r.pc = "complete" \/ Completing(k)' =>
              /\ r.pc # "idle" /\ r.id = job[k].id /\ job[k].id \in Offramps
              /\ payment_hash[job[k].id] \in paid
        BY <2>0, <2>1, <3>1, ZenonT(40)
      <4> QED
        BY <2>0, <4>1, ZenonT(40) DEF SameRows
    <3>4. Completing(k)' => cbtc_tx'[r.id] # None /\ status'[r.id] # "PayingLightning"
      BY <3>1, ZenonT(40)
    <3> QED
      BY <3>1, <3>2, <3>3, <3>4, Zenon
  <2>2. CASE k # j
    <3>1. job'[k] = job[k] /\ (Completing(k)' <=> Completing(k))
      BY <1>0, <2>2, Zenon DEF Completing
    <3>2. job[k].pc # "idle" => Present(job[k].id)' /\ payment_hash'[job[k].id] = payment_hash[job[k].id]
      BY <2>0, <3>1, ZenonT(40) DEF SameRows, Present
    <3>3. Completing(k) => status'[job[k].id] # "PayingLightning"
      BY <2>0, ZenonT(40)
    <3>4. job[k].pc = "completed" => chain'[job[k].id] = "fulfilled"
      BY <2>0, ZenonT(40)
    <3>5. cbtc_tx' = cbtc_tx /\ paid' = paid /\ (job[k].pc = "complete" => job[k].pc # "idle")
      BY Zenon
    <3>6. job'[k].pc # "idle" => job'[k].id \in Offramps /\ Present(job[k].id)'
      BY <2>0, <3>1, <3>2, Zenon
    <3>7. job'[k].pc = "complete" \/ Completing(k)' => payment_hash'[job'[k].id] \in paid'
      BY <2>0, <3>1, <3>2, <3>5, Zenon
    <3>8. Completing(k)' => cbtc_tx'[job'[k].id] # None /\ status'[job'[k].id] # "PayingLightning"
      BY <2>0, <3>1, <3>3, <3>5, Zenon
    <3> QED
      BY <3>1, <3>4, <3>6, <3>7, <3>8, Zenon
  <2> QED
    BY Zenon, <2>1, <2>2
<1>2. SingleCompleter'
  <2> SUFFICES ASSUME NEW i \in Jobs, NEW k \in Jobs, Completing(i)', Completing(k)', job'[i].id = job'[k].id
               PROVE  i = k
    BY Zenon DEF SingleCompleter
  <2>1. \A x \in Jobs : x # j => job'[x] = job[x] /\ (Completing(x)' <=> Completing(x))
    BY <1>0, Zenon DEF Completing
  <2>2. \A x, y \in Jobs : Completing(x) /\ Completing(y) /\ job[x].id = job[y].id => x = y
    BY Zenon DEF SingleCompleter
  <2>3. Completing(j)' => r.pc \in {"preimage", "query", "submit", "completed", "failed"} /\ r.pc # "idle"
    BY <1>0, ZenonT(40) DEF Completing
  <2>4. Completing(j)' => /\ r.id = job[j].id
                         /\ \A x \in Jobs : x # j /\ Completing(x) => job[x].id # r.id
    BY <2>2, <2>3, ZenonT(40)
  <2> HIDE DEF IInv, Core
  <2>5. CASE i # j /\ k # j
    <3>1. Completing(i) /\ Completing(k) /\ job[i].id = job[k].id
      BY <2>1, <2>5, Zenon
    <3> QED
      BY <2>2, <3>1, Zenon
  <2>6. CASE i = j /\ k # j
    BY <1>0, <2>1, <2>4, <2>6, ZenonT(40)
  <2>7. CASE i # j /\ k = j
    BY <1>0, <2>1, <2>4, <2>7, ZenonT(40)
  <2> QED
    BY <2>5, <2>6, <2>7, Zenon
<1> QED
  BY Zenon, <1>1, <1>2 DEF JobInv

\* The steps of complete_offramp and of a failed payment's task, but the refund.
LEMMA JobStep ==
  ASSUME IInv, NEW j \in Jobs, Job(j), ~refund_cbtc(j)
  PROVE  Core'
<1> USE DEF IInv, Core
<1>0. UNCHANGED <<payment_hash, cbtc_tx, received, refunds, ln, paid, evt, replayed, req, call, rec, mon>>
  BY DEF Job, complete_transition, complete_preimage, complete_query, complete_submit, complete_record,
     mark_failed, cancel_offramp_on_chain, cancel_record, update_offramp_status, dbvars, lnvars
<1>t. /\ job[j] \in JobRec /\ IdleJob.pc = "idle"
      /\ \A pc : /\ [job[j] EXCEPT !.pc = pc].pc = pc
                 /\ [job[j] EXCEPT !.pc = pc].id = job[j].id
                 /\ [job EXCEPT ![j].pc = pc] = [job EXCEPT ![j] = [job[j] EXCEPT !.pc = pc]]
  BY TypeParts DEF TasksOK, JobRec, IdleJob
<1>p. PICK o : o = job[j].id
  OBVIOUS
<1>o. /\ o \in Offramps /\ Present(o)
      /\ job[j].pc = "complete" \/ Completing(j) => payment_hash[o] \in paid
      /\ Completing(j) => cbtc_tx[o] # None /\ status[o] # "PayingLightning"
      /\ job[j].pc = "completed" => chain[o] = "fulfilled"
  BY <1>p DEF JobInv, Job, complete_transition, complete_preimage, complete_query, complete_submit,
     complete_record, mark_failed, cancel_offramp_on_chain, cancel_record
<1>f. ASSUME NEW r, job' = [job EXCEPT ![j] = r], SameRows, World',
             \A x \in Offramps : /\ status'[x] = "AwaitingDeposit" => status[x] = "AwaitingDeposit"
                                 /\ status'[x] = "PayingLightning" => status[x] = "PayingLightning"
                                 /\ chain[x] = "fulfilled" => chain'[x] = "fulfilled",
             \/ r.pc = "idle"
             \/ r.id = o /\ r.pc \in {"cancel", "cancelled"} /\ Refunding(j)
             \/ /\ r.id = o /\ r.pc \in {"preimage", "query", "submit", "completed", "failed"}
                /\ cbtc_tx[o] # None /\ status'[o] # "PayingLightning"
                /\ r.pc = "completed" => chain'[o] = "fulfilled"
                /\ \/ Completing(j)
                   \/ job[j].pc = "complete" /\ \A k \in Jobs : Completing(k) => job[k].id # o
      PROVE  Core'
  <2>1. job'[j] = r /\ \A k \in Jobs : k # j => job'[k] = job[k]
    BY Zenon, <1>f DEF TypeOK
  <2>2. JobsGoOn
    BY ZenonT(40), <1>f, <1>p, <2>1 DEF JobsGoOn, Refunding, Completing
  <2>3. CallInv' /\ TodoInv' /\ AttemptInv' /\ FailureInv'
    BY Zenon, <1>0, <1>f, <2>2, JobFrame
  <2>4. JobInv' /\ SingleCompleter'
    BY ZenonT(40), <1>0, <1>f, <1>p, <1>o, JobMoves DEF Refunding, Completing
  <2> QED
    BY Zenon, <1>f, <2>3, <2>4
<1>s. ASSUME NEW st \in {"DepositingToPool", "Failed"}, update_offramp_status(o, st),
             st = "DepositingToPool" => payment_hash[o] \in paid, UNCHANGED chain
      PROVE  /\ SameRows /\ World' /\ status'[o] = st
             /\ \A x \in Offramps : /\ status'[x] = "AwaitingDeposit" => status[x] = "AwaitingDeposit"
                                    /\ status'[x] = "PayingLightning" => status[x] = "PayingLightning"
                                    /\ chain[x] = "fulfilled" => chain'[x] = "fulfilled"
  <2>1. SameRows /\ World'
    BY Zenon, <1>0, <1>o, <1>s, WorldStatus DEF OfframpStatus
  <2> QED
    BY Zenon, <1>o, <1>s, <2>1 DEF update_offramp_status, TypeOK
<1>1. CASE complete_transition(j)
  <2>1. CASE job' = [job EXCEPT ![j] = IdleJob] /\ UNCHANGED dbvars
    <3>1. SameRows /\ World' /\ status' = status /\ chain' = chain
      BY <1>0, <1>1, <2>1, WorldKept DEF complete_transition, dbvars
    <3> QED
      BY Zenon, <1>f, <1>t, <2>1, <3>1
  <2>2. CASE /\ status[o] = "PayingLightning" /\ update_offramp_status(o, "DepositingToPool")
             /\ job' = [job EXCEPT ![j].pc = "preimage"]
    <3>1. cbtc_tx[o] # None /\ payment_hash[o] \in paid /\ chain' = chain /\ job[j].pc = "complete"
      BY <1>1, <1>o, <2>2 DEF World, RowInv, complete_transition
    <3>2. \A k \in Jobs : Completing(k) => job[k].id # o
      BY <2>2 DEF JobInv
    <3>3. PICK r : /\ job' = [job EXCEPT ![j] = r] /\ r.pc = "preimage" /\ r.id = o
      BY ZenonT(40), <1>p, <1>t, <2>2
    <3>4. /\ SameRows /\ World' /\ status'[o] # "PayingLightning"
          /\ \A x \in Offramps : /\ status'[x] = "AwaitingDeposit" => status[x] = "AwaitingDeposit"
                                 /\ status'[x] = "PayingLightning" => status[x] = "PayingLightning"
                                 /\ chain[x] = "fulfilled" => chain'[x] = "fulfilled"
      BY <1>s, <2>2, <3>1
    <3> QED
      BY ZenonT(40), <1>f, <3>1, <3>2, <3>3, <3>4
  <2> QED
    BY <1>1, <1>p, <2>1, <2>2 DEF complete_transition, transition_applies
<1>2. CASE complete_preimage(j)
  <2>1. /\ Completing(j) /\ chain' = chain /\ update_offramp_status(o, "DepositingToPool")
        /\ job' = [job EXCEPT ![j].pc = "query"]
    BY <1>2, <1>p DEF complete_preimage, Completing
  <2> QED
    BY ZenonT(40), <1>f, <1>o, <1>p, <1>s, <1>t, <2>1
<1>3. CASE complete_query(j)
  <2>1. PICK pc \in {"submit", "failed"} : job' = [job EXCEPT ![j].pc = pc]
    BY <1>3 DEF complete_query
  <2>2. SameRows /\ World' /\ status' = status /\ chain' = chain /\ Completing(j)
    BY <1>0, <1>3, WorldKept DEF complete_query, dbvars, Completing
  <2> QED
    BY Zenon, <1>f, <1>o, <1>p, <1>t, <2>1, <2>2
<1>4. CASE complete_submit(j)
  <2>1. /\ SameRows /\ World' /\ status' = status /\ Completing(j)
        /\ \A x \in Offramps : chain[x] = "fulfilled" => chain'[x] = "fulfilled"
        /\ Lands(o, "fulfilled") => chain'[o] = "fulfilled"
    <3>1. Completing(j) /\ (Lands(o, "fulfilled") \/ ErrorSeen(o, "fulfilled")) /\ UNCHANGED dbvars
      BY <1>4, <1>p DEF complete_submit, Completing
    <3> QED
      BY Zenon, <1>0, <1>o, <3>1, WorldChain DEF dbvars
  <2>2. CASE Lands(o, "fulfilled") /\ job' = [job EXCEPT ![j].pc = "completed", ![j].att = 0]
    <3>1. PICK r : /\ r = [job[j] EXCEPT !.pc = "completed", !.att = 0]
                   /\ job' = [job EXCEPT ![j] = r]
      BY Zenon, <2>2
    <3>2. r.pc = "completed" /\ r.id = o
      BY <1>p, <1>t, <3>1 DEF JobRec
    <3> QED
      BY ZenonT(40), <1>f, <1>o, <2>1, <2>2, <3>1, <3>2
  <2>3. ASSUME NEW r \in AfterError(job[j], "failed"), job' = [job EXCEPT ![j] = r]
        PROVE  Core'
    <3>1. r.id = o /\ r.pc \in {"submit", "failed"}
      BY <1>4, <1>p, <1>t, <2>3, AfterErrorJob DEF JobPc, complete_submit
    <3> QED
      BY Zenon, <1>f, <1>o, <2>1, <2>3, <3>1
  <2> QED
    BY <1>4, <1>p, <2>2, <2>3 DEF complete_submit
<1>5. CASE complete_record(j)
  <2>1. CASE job[j].pc = "failed" /\ update_offramp_status(o, "Failed")
    <3>1. chain' = chain /\ job' = [job EXCEPT ![j] = IdleJob]
      BY <1>5, Zenon DEF complete_record
    <3> QED
      BY ZenonT(40), <1>f, <1>s, <1>t, <2>1, <3>1
  <2>2. CASE /\ job[j].pc = "completed" /\ status' = [status EXCEPT ![o] = "Completed"]
             /\ deposit_tx' = [deposit_tx EXCEPT ![o] = TRUE]
    <3>1. /\ chain' = chain /\ job' = [job EXCEPT ![j] = IdleJob] /\ chain[o] = "fulfilled"
          /\ status'[o] = "Completed" /\ \A x \in Offramps : x # o => status'[x] = status[x]
          /\ \A x \in Offramps : x # o => deposit_tx'[x] = deposit_tx[x]
      BY Zenon, <1>5, <1>o, <2>2 DEF complete_record, TypeOK
    <3>2. SameRows
      BY ZenonT(40), <1>0, <1>o, <3>1 DEF SameRows, Present
    <3>3. LightningInv' /\ PaidOnlyIfDeposited'
      BY <1>0, <3>2, LightningKept, PaidKept DEF World
    <3>4. RowInv'
      BY ZenonT(40), <1>0, <1>o, <3>1, <3>2 DEF World, RowInv, SameRows
    <3>5. RecordedDepositIsReal' /\ FulfilledOnlyIfPaid'
      BY Zenon, <1>0, <3>1 DEF World, RecordedDepositIsReal, FulfilledOnlyIfPaid
    <3> QED
      BY ZenonT(40), <1>f, <1>t, <3>1, <3>2, <3>3, <3>4, <3>5 DEF World
  <2> QED
    BY Zenon, <1>5, <1>p, <2>1, <2>2 DEF complete_record
<1>6. CASE mark_failed(j)
  <2>1. /\ Refunding(j) /\ chain' = chain /\ update_offramp_status(o, "Failed")
        /\ job' = [job EXCEPT ![j].pc = "cancel"]
    BY <1>6, <1>p DEF mark_failed, Refunding
  <2> QED
    BY ZenonT(40), <1>f, <1>p, <1>s, <1>t, <2>1
<1>7. CASE cancel_offramp_on_chain(j)
  <2>1. /\ Refunding(j) /\ UNCHANGED dbvars
        /\ Lands(o, "cancelled") \/ ErrorSeen(o, "cancelled")
        /\ job' = [job EXCEPT ![j].pc = "cancelled"] \/ job' = [job EXCEPT ![j] = IdleJob]
    BY <1>7, <1>p DEF cancel_offramp_on_chain, Refunding
  <2>2. /\ SameRows /\ World' /\ status' = status
        /\ \A x \in Offramps : chain[x] = "fulfilled" => chain'[x] = "fulfilled"
    BY <1>0, <1>o, <2>1, WorldChain DEF dbvars
  <2> QED
    BY Zenon, <1>f, <1>p, <1>t, <2>1, <2>2
<1>8. CASE cancel_record(j)
  <2>1. chain' = chain /\ update_offramp_status(o, "Failed") /\ job' = [job EXCEPT ![j] = IdleJob]
    BY <1>8, <1>p DEF cancel_record
  <2> QED
    BY Zenon, <1>f, <1>s, <1>t, <2>1
<1> QED
  BY ZenonT(40), <1>1, <1>2, <1>3, <1>4, <1>5, <1>6, <1>7, <1>8 DEF Job

\* The refund: the offramp's first, if it is alone and its event was not replayed.
LEMMA RefundStep ==
  ASSUME IInv, NEW j \in Jobs, refund_cbtc(j)
  PROVE  Core'
<1> USE DEF IInv, Core
<1>0. UNCHANGED <<dbvars, chain, received, ln, paid, evt, replayed, req, call, rec, mon>>
  BY DEF refund_cbtc, lnvars
<1>1. PICK o \in Offramps : o = job[j].id /\ Present(o) /\ job[j].pc = "refund"
  BY DEF refund_cbtc, JobInv
<1>2. /\ job'[j].pc = "mark" /\ job'[j].id = o /\ \A k \in Jobs : k # j => job'[k] = job[k]
      /\ refunds'[o] \in {refunds[o], refunds[o] + 1}
      /\ \A x \in Offramps : x # o => refunds'[x] = refunds[x]
  BY <1>1 DEF refund_cbtc, TypeOK
<1>3. SameRows
  BY <1>0, ZenonT(40) DEF SameRows, Present, dbvars
<1>4. LightningInv' /\ PaidOnlyIfDeposited' /\ TodoInv' /\ CallInv'
  BY <1>0, <1>3, LightningKept, PaidKept, TodoKept, CallsKept DEF World, dbvars
<1>5. RowInv' /\ RecordedDepositIsReal' /\ FulfilledOnlyIfPaid'
  BY ZenonT(40), <1>0, <1>1, <1>2, <1>3
  DEF World, RowInv, SameRows, RecordedDepositIsReal, FulfilledOnlyIfPaid, dbvars
<1>6. JobInv' /\ SingleCompleter'
  <2>1. job' = [job EXCEPT ![j] = [job[j] EXCEPT !.pc = "mark"]]
    BY DEF refund_cbtc
  <2>2. /\ [job[j] EXCEPT !.pc = "mark"].pc = "mark"
        /\ [job[j] EXCEPT !.pc = "mark"].id = job[j].id
    BY TypeParts DEF TasksOK, JobRec
  <2> QED
    BY <1>0, <1>1, <1>3, <2>1, <2>2, JobMoves, ZenonT(40) DEF dbvars
<1>7. \A k \in Jobs : (Refunding(k)' <=> Refunding(k)) /\ job'[k].id = job[k].id
  BY Zenon, <1>1, <1>2 DEF Refunding
<1>8. AttemptInv'
  <2> SUFFICES ASSUME NEW x \in Offramps, Present(x)', Sole(x)'
               PROVE  /\ cbtc_tx'[x] = None => Untried(x)'
                      /\ \A d \in Calls : call'[d].pc = "pay" /\ call'[d].id = x => Untried(x)'
                      /\ ln'[payment_hash'[x]] = "inflight" =>
                           /\ payment_hash'[x] \notin paid' /\ evt'[payment_hash'[x]] = "none"
                           /\ NotFailed(x)'
                      /\ payment_hash'[x] \in paid' => NotFailed(x)'
    BY Zenon DEF AttemptInv
  <2>1. Present(x) /\ Sole(x)
    BY <1>3, RowsKept DEF SameRows
  <2>2. CASE x = o
    <3>1. ~Untried(o) /\ ~NotFailed(o)
      BY Zenon, <1>1 DEF Untried, NotFailed, Refunding
    <3> QED
      BY Zenon, <1>0, <2>1, <2>2, <3>1 DEF AttemptInv, dbvars
  <2>3. CASE x # o
    <3>1. Untried(x) => Untried(x)'
      BY Zenon, <1>0, <1>1, <1>2, <2>3 DEF Untried, dbvars
    <3>2. NotFailed(x) => NotFailed(x)'
      BY Zenon, <1>0, <1>2, <1>7, <2>3 DEF NotFailed, dbvars
    <3> QED
      BY Zenon, <1>0, <2>1, <3>1, <3>2 DEF AttemptInv, dbvars
  <2> QED
    BY Zenon, <2>2, <2>3
<1>9. FailureInv'
  <2> SUFFICES ASSUME NEW x \in Offramps, Present(x)', Sole(x)', payment_hash'[x] \notin replayed'
               PROVE  /\ refunds'[x] <= 1
                      /\ evt'[payment_hash'[x]] = "failed" =>
                           refunds'[x] = 0 /\ \A k \in Jobs : Refunding(k)' => job'[k].id # x
                      /\ \A i, k \in Jobs :
                           job'[i].pc = "refund" /\ job'[i].id = x =>
                             refunds'[x] = 0 /\ (Refunding(k)' /\ job'[k].id = x => i = k)
    BY Zenon DEF FailureInv
  <2>1. /\ Present(x) /\ Sole(x) /\ payment_hash[x] \notin replayed
        /\ payment_hash'[x] = payment_hash[x] /\ evt' = evt
    BY <1>0, <1>3, RowsKept, Zenon DEF SameRows
  <2>2. CASE x = o
    <3>1. refunds[o] = 0 /\ evt[payment_hash[o]] # "failed"
      BY Zenon, <1>1, <2>1, <2>2 DEF FailureInv, Refunding
    <3>2. \A i \in Jobs : job[i].pc = "refund" /\ job[i].id = o => i = j
      <4>1. Refunding(j)
        BY Zenon, <1>1 DEF Refunding
      <4> QED
        BY ZenonT(40), <1>1, <2>1, <2>2, <4>1 DEF FailureInv
    <3>3. \A i \in Jobs : job'[i].pc = "refund" => job'[i].id # o
      BY ZenonT(40), <1>2, <3>2
    <3>4. refunds'[o] <= 1
      BY <1>2, <3>1
    <3> QED
      BY <2>1, <2>2, <3>1, <3>3, <3>4, ZenonT(40)
  <2>3. CASE x # o
    <3>1. \A i \in Jobs : job'[i].pc = "refund" => job[i].pc = "refund"
      BY ZenonT(40), <1>2
    <3>2. refunds'[x] = refunds[x]
      BY <1>2, <2>3, Zenon
    <3>3. /\ refunds[x] <= 1
          /\ evt[payment_hash[x]] = "failed" =>
               refunds[x] = 0 /\ \A k \in Jobs : Refunding(k) => job[k].id # x
          /\ \A i, k \in Jobs :
               job[i].pc = "refund" /\ job[i].id = x =>
                 refunds[x] = 0 /\ (Refunding(k) /\ job[k].id = x => i = k)
      BY <2>1, ZenonT(40) DEF FailureInv
    <3> QED
      BY <1>7, <2>1, <3>1, <3>2, <3>3, ZenonT(40)
  <2> QED
    BY Zenon, <2>2, <2>3
<1> QED
  BY <1>4, <1>5, <1>6, <1>8, <1>9 DEF World

\* The start-up recovery and the monitor touch rows of their snapshots.
LEMMA ScanFrame ==
  ASSUME IInv, SameRows, World', UNCHANGED <<cbtc_tx, received, refunds, ln, paid, evt, replayed, call, job>>,
         rec'.pc # "done" => rec.pc # "done",
         \A o \in Offramps : /\ status'[o] = "PayingLightning" => status[o] = "PayingLightning"
                             /\ chain[o] = "fulfilled" => chain'[o] = "fulfilled",
         \/ rec.pc # "done"
         \/ \A o \in Offramps : status'[o] = "AwaitingDeposit" => status[o] = "AwaitingDeposit"
  PROVE  CallInv' /\ JobInv' /\ SingleCompleter' /\ AttemptInv' /\ FailureInv'
<1> USE DEF IInv, Core
<1>1. CallInv'
  <2>1. CASE rec.pc # "done"
    BY ZenonT(40), <2>1 DEF CallInv, Holding, Paying
  <2>2. CASE \A o \in Offramps : status'[o] = "AwaitingDeposit" => status[o] = "AwaitingDeposit"
    BY <2>2, CallsKept
  <2> QED
    BY <2>1, <2>2
<1>2. JobInv' /\ SingleCompleter'
  BY JobsKept, Zenon
<1>3. AttemptInv' /\ FailureInv'
  BY AttemptKept, FailureKept, Zenon DEF CallsGoOn, JobsGoOn, Refunding
<1> QED
  BY <1>1, <1>2, <1>3, ZenonT(40)

\* recover_depositing_offramps.
LEMMA RecoveryStep ==
  ASSUME IInv, Recovery
  PROVE  Core'
<1> USE DEF IInv, Core
<1>0. UNCHANGED <<payment_hash, cbtc_tx, received, refunds, ln, paid, evt, replayed, req, call, job, mon>>
  BY DEF Recovery, recover_scan, recover_next_pass, recover_transition, recover_query, recover_submit,
     recover_record, update_offramp_status, dbvars, lnvars
<1>t. rec \in RecRec /\ mon \in MonRec
  BY TypeParts DEF TasksOK
<1>k. ASSUME UNCHANGED <<dbvars, chain>> PROVE SameRows /\ World'
  BY <1>0, <1>k, WorldKept, Zenon
<1>s. ASSUME NEW o \in Offramps, Present(o), NEW st \in {"AwaitingDeposit", "Failed", "Completed"},
             update_offramp_status(o, st), st = "AwaitingDeposit" => cbtc_tx[o] = None, UNCHANGED chain
      PROVE  /\ SameRows /\ World'
             /\ \A x \in Offramps : status'[x] = "PayingLightning" => status[x] = "PayingLightning"
  <2>1. SameRows /\ World'
    BY <1>0, <1>s, WorldStatus, Zenon DEF OfframpStatus
  <2> QED
    BY <1>s, <2>1, Zenon DEF update_offramp_status, TypeOK
<1>f. ASSUME SameRows, World', TodoInv', rec.pc # "done",
             \A x \in Offramps : /\ status'[x] = "PayingLightning" => status[x] = "PayingLightning"
                                 /\ chain[x] = "fulfilled" => chain'[x] = "fulfilled"
      PROVE  Core'
  BY <1>0, <1>f, ScanFrame, ZenonT(40)
<1>1. CASE recover_scan
  <2>1. SameRows /\ World' /\ status' = status /\ chain' = chain /\ rec.pc # "done"
    BY <1>1, <1>k DEF recover_scan, dbvars
  <2>2. \A o \in Offramps : status[o] = "DepositingToPool" => payment_hash[o] \in paid
    BY Zenon DEF World, RowInv
  <2>3. /\ \A o \in rec'.todo : o \in Offramps /\ status[o] # "absent"
        /\ rec'.pc \in {"reset", "fail", "query"}
        /\ rec'.pc = "query" => \A o \in rec'.todo : status[o] = "DepositingToPool"
    <3>1. PICK pc \in {"reset", "fail", "query"},
               st \in {"PendingVerification", "PayingLightning", "DepositingToPool"} :
            /\ rec' = [rec EXCEPT !.pc = pc, !.todo = get_offramps_by_status(st)]
            /\ pc = "query" => st = "DepositingToPool"
      BY <1>1 DEF recover_scan
    <3>2. rec'.pc = pc /\ rec'.todo = get_offramps_by_status(st)
      BY <1>t, <3>1, ZenonT(40) DEF RecRec
    <3> QED
      BY <3>1, <3>2 DEF get_offramps_by_status
  <2>4. TodoInv'
    BY <1>0, <1>t, <2>1, <2>2, <2>3 DEF TodoInv, Present, MonRec
  <2> QED
    BY <1>f, <2>1, <2>4
<1>2. CASE recover_next_pass
  <2>1. SameRows /\ World' /\ status' = status /\ chain' = chain /\ rec.pc # "done"
    BY <1>2, <1>k DEF recover_next_pass, AfterPass, dbvars
  <2>2. rec'.todo = {} /\ rec'.pc \in {"scan_paying", "scan_depositing", "done"}
    <3>1. PICK pc \in {"scan_paying", "scan_depositing", "done"} : rec' = [rec EXCEPT !.pc = pc]
      BY <1>2, SMTT(30), ZenonT(40) DEF recover_next_pass, AfterPass
    <3>2. rec.todo = {} /\ rec'.pc = pc /\ rec'.todo = rec.todo
      BY <1>2, <1>t, <3>1, ZenonT(40) DEF recover_next_pass, RecRec
    <3> QED
      BY <3>2, Zenon
  <2>3. TodoInv'
    BY <1>0, <1>t, <2>1, <2>2, Zenon DEF TodoInv, Present, MonRec
  <2> QED
    BY <1>f, <2>1, <2>3
<1>3. ASSUME NEW o \in Offramps, recover_transition(o)
      PROVE  Core'
  <2>1. rec.pc \in {"reset", "fail"} /\ rec'.pc = rec.pc /\ rec'.todo = rec.todo \ {o} /\ chain' = chain
    BY <1>3, <1>t DEF recover_transition, RecRec
  <2>2. /\ SameRows /\ World'
        /\ \A x \in Offramps : status'[x] = "PayingLightning" => status[x] = "PayingLightning"
    <3>1. CASE UNCHANGED dbvars
      BY <1>k, <2>1, <3>1, Zenon DEF dbvars
    <3>2. ASSUME NEW from \in {"PendingVerification", "PayingLightning"},
                 NEW to \in {"AwaitingDeposit", "Failed"},
                 status[o] = from, update_offramp_status(o, to),
                 to = "AwaitingDeposit" => from = "PendingVerification"
          PROVE  /\ SameRows /\ World'
                 /\ \A x \in Offramps : status'[x] = "PayingLightning" => status[x] = "PayingLightning"
      <4>1. Present(o) /\ (to = "AwaitingDeposit" => cbtc_tx[o] = None)
        BY <3>2 DEF Present, World, RowInv
      <4> QED
        BY <1>s, <2>1, <3>2, <4>1, Zenon
    <3> QED
      BY <1>3, <3>1, <3>2, SMTT(30), ZenonT(40) DEF recover_transition, transition_applies
  <2>3. TodoInv'
    BY ZenonT(40), <1>0, <1>t, <2>1, <2>2 DEF TodoInv, SameRows, RecRec, MonRec
  <2> QED
    BY <1>f, <2>1, <2>2, <2>3
<1>4. ASSUME NEW o \in Offramps, recover_query(o)
      PROVE  Core'
  <2>1. /\ chain' = chain /\ rec.pc = "query" /\ Present(o) /\ payment_hash[o] \in paid
        /\ rec'.pc \in {"query", "submit"} /\ rec'.todo = rec.todo \ {o}
        /\ rec'.pc = "submit" => rec'.cur = o
    BY <1>4, <1>t DEF recover_query, RecRec, TodoInv
  <2>2. /\ SameRows /\ World'
        /\ \A x \in Offramps : status'[x] = "PayingLightning" => status[x] = "PayingLightning"
    <3>1. CASE UNCHANGED dbvars
      BY <1>k, <2>1, <3>1, Zenon DEF dbvars
    <3>2. CASE update_offramp_status(o, "Completed")
      BY Zenon, <1>s, <2>1, <3>2
    <3> QED
      BY <1>4, <3>1, <3>2, Zenon DEF recover_query
  <2>3. TodoInv'
    BY Zenon, <1>0, <1>t, <2>1, <2>2 DEF TodoInv, SameRows, RecRec, MonRec
  <2> QED
    BY <1>f, <2>1, <2>2, <2>3, Zenon
<1>5. CASE recover_submit
  <2>1. /\ rec.pc = "submit" /\ UNCHANGED dbvars /\ rec.cur \in Offramps /\ Present(rec.cur)
        /\ payment_hash[rec.cur] \in paid
        /\ Lands(rec.cur, "fulfilled") \/ ErrorSeen(rec.cur, "fulfilled")
    BY <1>5, ZenonT(40) DEF recover_submit, TodoInv
  <2>2. /\ SameRows /\ World' /\ status' = status
        /\ \A x \in Offramps : chain[x] = "fulfilled" => chain'[x] = "fulfilled"
    BY <1>0, <2>1, WorldChain, Zenon DEF dbvars
  <2>3. rec'.todo = rec.todo /\ (rec'.pc = "query" \/ (rec'.pc = "record" /\ rec'.cur = rec.cur))
    BY Zenon, <1>5, <1>t DEF recover_submit, RecRec
  <2>4. TodoInv'
    BY ZenonT(40), <1>0, <1>t, <2>1, <2>2, <2>3 DEF TodoInv, SameRows, RecRec, MonRec
  <2> QED
    BY Zenon, <1>f, <2>1, <2>2, <2>4
<1>6. CASE recover_record
  <2>1. /\ rec.pc = "record" /\ chain' = chain /\ rec.cur \in Offramps /\ Present(rec.cur)
        /\ update_offramp_status(rec.cur, "Completed")
        /\ rec'.todo = rec.todo /\ rec'.pc = "query"
    BY <1>6, <1>t DEF recover_record, TodoInv, RecRec
  <2>2. /\ SameRows /\ World'
        /\ \A x \in Offramps : status'[x] = "PayingLightning" => status[x] = "PayingLightning"
    BY Zenon, <1>s, <2>1
  <2>3. TodoInv'
    BY ZenonT(40), <1>0, <1>t, <2>1, <2>2 DEF TodoInv, SameRows, RecRec, MonRec
  <2> QED
    BY <1>f, <2>1, <2>2, <2>3
<1> QED
  BY <1>1, <1>2, <1>3, <1>4, <1>5, <1>6, ZenonT(40) DEF Recovery

\* monitor_expired_offramps.
LEMMA MonitorStep ==
  ASSUME IInv, Monitor
  PROVE  Core'
<1> USE DEF IInv, Core
<1>0. UNCHANGED <<payment_hash, cbtc_tx, received, refunds, ln, paid, evt, replayed, req, call, job, rec>>
  BY DEF Monitor, monitor_tick, monitor_cancel, monitor_record, update_offramp_status, dbvars, lnvars
<1>t. rec \in RecRec /\ mon \in MonRec
  BY TypeParts DEF TasksOK
<1>f. ASSUME SameRows, World',
             \A o \in mon'.todo : o \in Offramps /\ Present(o),
             mon'.pc = "record" => mon'.cur \in Offramps /\ Present(mon'.cur),
             \A x \in Offramps : /\ status'[x] = "PayingLightning" => status[x] = "PayingLightning"
                                 /\ status'[x] = "AwaitingDeposit" => status[x] = "AwaitingDeposit"
                                 /\ chain[x] = "fulfilled" => chain'[x] = "fulfilled"
      PROVE  Core'
  <2>1. TodoInv'
    BY Zenon, <1>0, <1>t, <1>f DEF TodoInv, SameRows, RecRec
  <2> QED
    BY Zenon, <1>0, <1>f, <2>1, ScanFrame
<1>1. CASE monitor_tick
  <2>1. SameRows /\ World' /\ status' = status /\ chain' = chain
    BY <1>0, <1>1, WorldKept DEF monitor_tick, dbvars
  <2>2. /\ \A o \in mon'.todo : o \in Offramps /\ Present(o)
        /\ mon'.pc = "cancel"
    BY <1>1, <1>t DEF monitor_tick, MonRec, get_expired_offramps, Present
  <2> QED
    BY Zenon, <1>f, <2>1, <2>2
<1>2. ASSUME NEW o \in Offramps, monitor_cancel(o)
      PROVE  Core'
  <2>1. /\ UNCHANGED dbvars /\ (Lands(o, "cancelled") \/ ErrorSeen(o, "cancelled")) /\ Present(o)
        /\ mon'.todo = mon.todo \ {o} /\ (mon'.pc = "cancel" \/ mon'.cur = o)
    BY <1>2, <1>t DEF monitor_cancel, MonRec, TodoInv
  <2>2. /\ SameRows /\ World' /\ status' = status
        /\ \A x \in Offramps : chain[x] = "fulfilled" => chain'[x] = "fulfilled"
    BY ZenonT(40), <1>0, <2>1, WorldChain DEF dbvars
  <2>3. \A x \in mon'.todo : x \in Offramps /\ Present(x)
    BY <1>t, <2>1, ZenonT(40) DEF TodoInv, MonRec
  <2> QED
    BY Zenon, <1>f, <2>1, <2>2, <2>3
<1>3. CASE monitor_record
  <2>1. /\ chain' = chain /\ mon.cur \in Offramps /\ Present(mon.cur)
        /\ update_offramp_status(mon.cur, "Failed") /\ mon'.todo = mon.todo /\ mon'.pc = "cancel"
    BY <1>3, <1>t, ZenonT(40) DEF monitor_record, MonRec, TodoInv
  <2>2. SameRows /\ World'
    BY <1>0, <2>1, WorldStatus DEF OfframpStatus
  <2>3. \A x \in Offramps : /\ status'[x] = "PayingLightning" => status[x] = "PayingLightning"
                            /\ status'[x] = "AwaitingDeposit" => status[x] = "AwaitingDeposit"
    BY ZenonT(40), <2>1 DEF update_offramp_status, TypeOK
  <2>4. \A x \in mon'.todo : x \in Offramps /\ Present(x)
    BY <1>t, <2>1 DEF TodoInv, MonRec
  <2> QED
    BY <1>f, <2>1, <2>2, <2>3, <2>4
<1> QED
  BY <1>1, <1>2, <1>3 DEF Monitor

\* A crash: no task is left, and LDK replays what it had not persisted.
LEMMA CrashStep ==
  ASSUME IInv, Crash
  PROVE  Core'
<1> USE DEF IInv, Core
<1>0. /\ UNCHANGED <<dbvars, chain, received, refunds, ln, paid>>
      /\ \A c \in Calls : call'[c].pc = "idle"
      /\ \A j \in Jobs : job'[j].pc = "idle"
      /\ \A b \in Bolts : evt'[b] = Replayed(evt[b]) /\ (evt'[b] # evt[b] => b \in replayed')
      /\ replayed \subseteq replayed'
      /\ \A o \in Offramps : req'[o].pc = "closed" \/ (req'[o].pc = "idle" /\ req[o].pc = "idle")
      /\ rec' = StartRec /\ mon' = StartMon
  BY Zenon DEF Crash, IdleCall, IdleJob, IdleReq, ClosedReq
<1>1. SameRows /\ \A o \in Offramps : payment_hash[o] \in Bolts \/ ~Present(o)
  BY Zenon, <1>0 DEF SameRows, Present, dbvars, World, RowInv
<1>2. \A b : Rows(b)' = Rows(b)
  BY <1>1, RowsKept
<1>3. RowInv' /\ RecordedDepositIsReal' /\ FulfilledOnlyIfPaid'
  BY ZenonT(40), <1>0, <1>1 DEF World, RowInv, SameRows, RecordedDepositIsReal, FulfilledOnlyIfPaid, dbvars
<1>4. LightningInv'
  BY Zenon, <1>0, <1>2 DEF World, LightningInv, Replayed
<1>5. PaidOnlyIfDeposited'
  BY Zenon, <1>0, <1>1, PaidKept DEF World, dbvars
<1>6. CallInv' /\ JobInv' /\ SingleCompleter' /\ TodoInv'
  BY ZenonT(40), <1>0 DEF CallInv, Holding, Paying, JobInv, SingleCompleter, Completing, TodoInv, StartRec, StartMon
<1>7. AttemptInv'
  <2> SUFFICES ASSUME NEW o \in Offramps, Present(o)', Sole(o)'
               PROVE  /\ cbtc_tx'[o] = None => Untried(o)'
                      /\ ln'[payment_hash'[o]] = "inflight" =>
                           /\ payment_hash'[o] \notin paid' /\ evt'[payment_hash'[o]] = "none"
                           /\ NotFailed(o)'
                      /\ payment_hash'[o] \in paid' => NotFailed(o)'
    BY Zenon, <1>0 DEF AttemptInv
  <2>1. /\ Present(o) /\ Sole(o) /\ payment_hash[o] \in Bolts /\ payment_hash'[o] = payment_hash[o]
        /\ \A j \in Jobs : ~Refunding(j)'
    BY Zenon, <1>0, <1>1, RowsKept DEF SameRows, Refunding
  <2>2. Untried(o) => Untried(o)'
    BY Zenon, <1>0, <2>1 DEF Untried, Replayed
  <2>3. NotFailed(o) => NotFailed(o)'
    BY Zenon, <1>0, <2>1 DEF NotFailed, Replayed
  <2> QED
    BY Zenon, <1>0, <2>1, <2>2, <2>3 DEF AttemptInv, dbvars, Replayed
<1>8. FailureInv'
  <2> SUFFICES ASSUME NEW o \in Offramps, Present(o)', Sole(o)', payment_hash'[o] \notin replayed'
               PROVE  /\ refunds'[o] <= 1
                      /\ evt'[payment_hash'[o]] = "failed" => refunds'[o] = 0
    BY Zenon, <1>0 DEF FailureInv, Refunding
  <2>1. /\ Present(o) /\ Sole(o) /\ payment_hash[o] \in Bolts /\ payment_hash'[o] = payment_hash[o]
        /\ payment_hash[o] \notin replayed
    BY Zenon, <1>0, <1>1, RowsKept DEF SameRows
  <2> QED
    BY Zenon, <1>0, <2>1 DEF FailureInv
<1> QED
  BY <1>3, <1>4, <1>5, <1>6, <1>7, <1>8 DEF World

\* Together: the invariant is inductive.
LEMMA IndStep == IInv /\ [Next]_vars => IInv'
<1> SUFFICES ASSUME IInv, [Next]_vars PROVE IInv'
  OBVIOUS
<1>1. TypeOK'
  BY TypeStep DEF IInv
<1>2. Core'
  <2>1. ASSUME NEW o \in Offramps, Request(o) \/ cancel_expired_offramps(o) PROVE Core'
    BY <2>1, RequestStep, InsertStep, OutsideStep DEF Request
  <2>2. ASSUME NEW c \in Calls, Deposit(c) \/ drop_deposit(c) PROVE Core'
    BY <2>2, DepositStep, VerifiedStep, SendStep, ZenonT(40) DEF Deposit
  <2>3. ASSUME NEW b \in Bolts, Lightning(b) \/ Events(b) \/ ldk_redeliver(b) PROVE Core'
    BY <2>3, PaymentStep, EventStep, SpawnStep DEF Lightning, Events
  <2>4. ASSUME NEW j \in Jobs, Job(j) PROVE Core'
    BY <2>4, JobStep, RefundStep
  <2>5. CASE Recovery \/ Monitor \/ Crash
    BY <2>5, RecoveryStep, MonitorStep, CrashStep, ZenonT(40)
  <2>6. CASE Users
    BY <2>6, RequestStep, DepositStep, OutsideStep DEF Users
  <2>7. CASE Tick \/ UNCHANGED vars
    BY <2>7, OutsideStep
  <2> QED
    BY <2>1, <2>2, <2>3, <2>4, <2>5, <2>6, <2>7 DEF Next
<1> QED
  BY <1>1, <1>2 DEF IInv

LEMMA Inductive == Spec => []IInv
  BY IndInit, IndStep, PTL DEF Spec
-----------------------------------------------------------------------------
(* The properties.                                                         *)

\* No invoice is paid, or on its way, unless the row of an offramp for it names
\* a deposit that did arrive: the CAS of process_offramp_deposit, the reverts,
\* the recovery and every replay keep it, for any number of concurrent calls.
THEOREM DepositBeforePayment == Spec => []PaidOnlyIfDeposited
<1>1. IInv => PaidOnlyIfDeposited
  BY DEF IInv, Core, World
<1> QED
  BY <1>1, Inductive, PTL

\* FulfillOfframp lands, from complete_offramp or from the recovery, only for an
\* invoice that was paid.
THEOREM PaymentBeforeFulfil == Spec => []FulfilledOnlyIfPaid
<1>1. IInv => FulfilledOnlyIfPaid
  BY DEF IInv, Core, World
<1> QED
  BY <1>1, Inductive, PTL

\* Of all tasks spawned for an offramp's PaymentSent at most one gets past the
\* compare-and-set of complete_offramp.
THEOREM OneCompleter == Spec => []SingleCompleter
<1>1. IInv => SingleCompleter
  BY DEF IInv, Core
<1> QED
  BY <1>1, Inductive, PTL

\* Of all POST /offramp/deposit calls for an offramp at most one is at its
\* payment.
THEOREM OnePayer == Spec => []SinglePayer
<1>1. IInv => SinglePayer
  BY Zenon DEF IInv, Core, CallInv, SinglePayer, Paying, Holding
<1> QED
  BY <1>1, Inductive, PTL

\* The pool transaction that complete_record stores did land.
THEOREM RecordedIsReal == Spec => []RecordedDepositIsReal
<1>1. IInv => RecordedDepositIsReal
  BY ZenonT(40) DEF IInv, Core, World
<1> QED
  BY <1>1, Inductive, PTL

\* handle_offramp_payment_failed refunds no offramp whose invoice was paid, as
\* long as the invoice has one row.
THEOREM NoRefundAndPayment == Spec => []RefundExcludesPayment
<1>1. IInv => RefundExcludesPayment
  <2> SUFFICES ASSUME IInv, NEW o \in Offramps, refunds[o] > 0, payment_hash[o] \in paid, Sole(o)
               PROVE  FALSE
    BY Zenon DEF RefundExcludesPayment
  <2>1. RowInv /\ AttemptInv
    BY Zenon DEF IInv, Core, World
  <2>2. refunds[o] # 0
    OBVIOUS
  <2>3. Present(o)
    BY <2>1, <2>2, ZenonT(40) DEF RowInv
  <2> QED
    BY <2>1, <2>2, <2>3, ZenonT(40) DEF AttemptInv, NotFailed
<1> QED
  BY <1>1, Inductive, PTL

\* ... and refunds once, unless LDK delivered the event again.
THEOREM OneRefund == Spec => []RefundedOnce
<1>1. IInv => RefundedOnce
  <2> SUFFICES ASSUME IInv, NEW o \in Offramps, refunds[o] > 1,
                      payment_hash[o] \notin replayed, Sole(o)
               PROVE  FALSE
    BY Zenon DEF RefundedOnce
  <2>0. RowInv /\ FailureInv /\ refunds[o] \in Nat
    BY ZenonT(40) DEF IInv, Core, World, TypeOK
  <2>1. refunds[o] # 0
    BY <2>0
  <2>2. Present(o)
    BY <2>0, <2>1, ZenonT(40) DEF RowInv
  <2>3. refunds[o] <= 1
    BY <2>0, <2>2, ZenonT(40) DEF FailureInv
  <2> QED
    BY <2>0, <2>3
<1> QED
  BY <1>1, Inductive, PTL
=============================================================================
