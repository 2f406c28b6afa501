---------------------------- MODULE FeeEstimates ----------------------------
(***************************************************************************)
(* The table of fee rates LDK reads, and the task that keeps it up to date:*)
(* bitcoind's poller, or Esplora's when BITCOIN_ESPLORA_URL is set (then   *)
(* bitcoind's goes on updating a table nobody reads).  A round fetches the *)
(* estimates and stores them one atomic at a time; LDK may read between    *)
(* any two of those stores.                                                *)
(***************************************************************************)
EXTENDS Integers, Sequences

CONSTANTS None,     \* no answer, no entry, no environment variable
          Answers,  \* feerates bitcoind gives, in satoshis per 1000 vbytes
          Rates,    \* feerates Esplora gives, in thousandths of a sat/vB
          EnvCaps,  \* values of LDK_MAX_FEERATE_SAT_PER_KWU that are numbers, or None
          U32Max    \* the largest u32

MIN_FEERATE == 253
DEFAULT_NORMAL_MAX_FEERATE_SAT_PER_KWU == 5000
DEFAULT_HIGH_PRIORITY_MAX_FEERATE_SAT_PER_KWU == 50000

ASSUME FeeAssumption ==
  /\ None \notin Int
  /\ Answers \subseteq Nat
  /\ Rates \subseteq Int
  /\ U32Max \in Nat /\ U32Max >= DEFAULT_HIGH_PRIORITY_MAX_FEERATE_SAT_PER_KWU
  /\ EnvCaps \subseteq (0..U32Max) \cup {None}

Targets ==
  {"MaximumFeeEstimate", "UrgentOnChainSweep", "MinAllowedAnchorChannelRemoteFee",
   "MinAllowedNonAnchorChannelRemoteFee", "AnchorChannelFee", "NonAnchorChannelFee",
   "ChannelCloseMinimum", "OutputSpendingFee"}

\* bitcoind's questions (getmempoolinfo, then estimatesmartfee four times) in the
\* order they are asked, and the block targets Esplora answers for.
Queries == <<"mempoolmin", "background", "normal", "high_prio", "very_high_prio">>
Query == {"mempoolmin", "background", "normal", "high_prio", "very_high_prio"}
Blocks == {"1", "6", "25"}

VARIABLES backend,   \* whose table LDK reads
          cap,       \* normal_max_feerate_sat_per_kwu (0 for bitcoind, which has none)
          fees,      \* the table
          pc, k,     \* the poller, and the question or the store it is at
          est,       \* what the round has fetched
          parity     \* fee_counter % 2 of the 30 s loop that drives Esplora

vars == <<backend, cap, fees, pc, k, est, parity>>

\* What each target is before the first round.
Default ==
  [t \in Targets |->
     IF t = "MaximumFeeEstimate" THEN 50000
     ELSE IF t = "UrgentOnChainSweep" THEN 5000
     ELSE IF t = "NonAnchorChannelFee" THEN 2000
     ELSE MIN_FEERATE]

NothingFetched == [s \in Query \cup Blocks |-> None]

AtLeast(x, y) == IF x > y THEN x ELSE y
AtMost(x, y) == IF x < y THEN x ELSE y

max_feerate_sat_per_kwu_from_value(v) ==
  IF v # None /\ v >= MIN_FEERATE THEN v ELSE DEFAULT_NORMAL_MAX_FEERATE_SAT_PER_KWU

\* Both clients start with a round of their own.
Init ==
  /\ \/ backend = "bitcoind" /\ cap = 0
     \/ /\ backend = "esplora"
        /\ cap \in {max_feerate_sat_per_kwu_from_value(v) : v \in EnvCaps}
  /\ fees = Default
  /\ pc = "fetch"
  /\ k = 1
  /\ est = NothingFetched
  /\ parity = 0

\* What LDK reads.
get_est_sat_per_1000_weight(t) == fees[t]

-----------------------------------------------------------------------------
(* bitcoind                                                                *)

\* BTC/kvB to sat/kW: a quarter, rounded, and cast to u32.
feerate_sat_per_kw(a) == AtMost((a + 2) \div 4, U32Max)

\* What stands for an estimate that bitcoind does not have yet.
Unknown(q) ==
  IF q = "normal" THEN 2000
  ELSE IF q = "high_prio" THEN 5000
  ELSE IF q = "very_high_prio" THEN 50000
  ELSE MIN_FEERATE

\* (mutant: the answer is taken as it is)
Estimate_raw(q, a) == IF a = None THEN Unknown(q) ELSE feerate_sat_per_kw(a)

Estimate(q, a) ==
  IF a = None THEN Unknown(q) ELSE AtLeast(feerate_sat_per_kw(a), MIN_FEERATE)

\* One RPC call, and the next one.  An error, or a mempool of another size than
\* the default, is unwrapped: the task panics and no estimate changes any more.
call_method ==
  /\ backend = "bitcoind"
  /\ pc = "fetch"
  /\ \/ /\ \E a \in Answers \cup {None} :
             est' = [est EXCEPT ![Queries[k]] = Estimate(Queries[k], a)]
        /\ \/ k < 5 /\ k' = k + 1 /\ pc' = "fetch"
           \/ k = 5 /\ k' = 1 /\ pc' = "store"
     \/ pc' = "dead" /\ UNCHANGED <<k, est>>
  /\ UNCHANGED <<backend, cap, fees, parity>>

BitcoindStores ==
  <<[target |-> "MaximumFeeEstimate", from |-> "very_high_prio"],
    [target |-> "UrgentOnChainSweep", from |-> "high_prio"],
    [target |-> "MinAllowedAnchorChannelRemoteFee", from |-> "mempoolmin"],
    [target |-> "MinAllowedNonAnchorChannelRemoteFee", from |-> "background"],
    [target |-> "AnchorChannelFee", from |-> "background"],
    [target |-> "NonAnchorChannelFee", from |-> "normal"],
    [target |-> "ChannelCloseMinimum", from |-> "background"],
    [target |-> "OutputSpendingFee", from |-> "background"]>>

\* u32 subtraction, which wraps in a release build.
Stored(target, e) ==
  IF target = "MinAllowedNonAnchorChannelRemoteFee" THEN (e - 250) % (U32Max + 1) ELSE e

store ==
  /\ backend = "bitcoind"
  /\ pc = "store"
  /\ LET s == BitcoindStores[k] IN
       fees' = [fees EXCEPT ![s.target] = Stored(s.target, est[s.from])]
  /\ \/ k < 8 /\ k' = k + 1 /\ pc' = "store" /\ UNCHANGED est
     \/ k = 8 /\ k' = 1 /\ pc' = "sleep" /\ est' = NothingFetched
  /\ UNCHANGED <<backend, cap, parity>>

sleep ==
  /\ backend = "bitcoind"
  /\ pc = "sleep"
  /\ pc' = "fetch"
  /\ UNCHANGED <<backend, cap, fees, k, est, parity>>

-----------------------------------------------------------------------------
(* Esplora                                                                 *)

high_priority_max_feerate_sat_per_kwu(normal_max) ==
  AtLeast(normal_max, DEFAULT_HIGH_PRIORITY_MAX_FEERATE_SAT_PER_KWU)

\* 1 sat/vB is 250 sat/kWU, rounded up.
raw_sat_vb_to_sat_kwu(r) ==
  IF r <= 0 THEN MIN_FEERATE ELSE AtMost((r * 250 + 999) \div 1000, U32Max)

\* (mutant: only bounded from above)
sat_vb_to_sat_kwu_unfloored(r, max) == AtMost(raw_sat_vb_to_sat_kwu(r), max)

sat_vb_to_sat_kwu_clamped(r, max) ==
  AtMost(AtLeast(raw_sat_vb_to_sat_kwu(r), MIN_FEERATE), AtLeast(max, MIN_FEERATE))

\* (mutant: one failed request ends the polling)
update_fee_estimates_once ==
  /\ backend = "esplora"
  /\ pc = "fetch"
  /\ \/ /\ \E e \in [Blocks -> Rates \cup {None}] :
             est' = [s \in Query \cup Blocks |-> IF s \in Blocks THEN e[s] ELSE None]
        /\ pc' = "store"
     \/ pc' = "dead" /\ UNCHANGED est
  /\ UNCHANGED <<backend, cap, fees, k, parity>>

\* The request fails, or its answer does not parse; or it has a rate for some of
\* the block targets.
update_fee_estimates ==
  /\ backend = "esplora"
  /\ pc = "fetch"
  /\ \/ /\ \E e \in [Blocks -> Rates \cup {None}] :
             est' = [s \in Query \cup Blocks |-> IF s \in Blocks THEN e[s] ELSE None]
        /\ pc' = "store"
     \/ pc' = "sleep" /\ UNCHANGED est
  /\ UNCHANGED <<backend, cap, fees, k, parity>>

\* (mutant: the channel fees get the high-priority cap)
EsploraStores_high ==
  <<[target |-> "MaximumFeeEstimate", from |-> "1", high |-> TRUE],
    [target |-> "UrgentOnChainSweep", from |-> "1", high |-> TRUE],
    [target |-> "NonAnchorChannelFee", from |-> "6", high |-> TRUE],
    [target |-> "ChannelCloseMinimum", from |-> "6", high |-> TRUE],
    [target |-> "OutputSpendingFee", from |-> "25", high |-> FALSE]>>

\* (mutant: the maximum follows the channel fees)
EsploraStores_six ==
  <<[target |-> "MaximumFeeEstimate", from |-> "6", high |-> TRUE],
    [target |-> "UrgentOnChainSweep", from |-> "1", high |-> TRUE],
    [target |-> "NonAnchorChannelFee", from |-> "6", high |-> FALSE],
    [target |-> "ChannelCloseMinimum", from |-> "6", high |-> FALSE],
    [target |-> "OutputSpendingFee", from |-> "25", high |-> FALSE]>>

EsploraStores ==
  <<[target |-> "MaximumFeeEstimate", from |-> "1", high |-> TRUE],
    [target |-> "UrgentOnChainSweep", from |-> "1", high |-> TRUE],
    [target |-> "NonAnchorChannelFee", from |-> "6", high |-> FALSE],
    [target |-> "ChannelCloseMinimum", from |-> "6", high |-> FALSE],
    [target |-> "OutputSpendingFee", from |-> "25", high |-> FALSE]>>

\* A block target without a rate leaves its fees as they are.
apply_fee ==
  /\ backend = "esplora"
  /\ pc = "store"
  /\ LET s == EsploraStores[k]
         max == IF s.high THEN high_priority_max_feerate_sat_per_kwu(cap) ELSE cap IN
     \/ est[s.from] = None /\ UNCHANGED fees
     \/ /\ est[s.from] # None
        /\ fees' = [fees EXCEPT ![s.target] = sat_vb_to_sat_kwu_clamped(est[s.from], max)]
  /\ \/ k < 5 /\ k' = k + 1 /\ pc' = "store" /\ UNCHANGED est
     \/ k = 5 /\ k' = 1 /\ pc' = "sleep" /\ est' = NothingFetched
  /\ UNCHANGED <<backend, cap, parity>>

\* Every 30 s the wallet is synced, ...
tick ==
  /\ backend = "esplora"
  /\ pc = "sleep"
  /\ pc' = "sync"
  /\ UNCHANGED <<backend, cap, fees, k, est, parity>>

\* ... and when that is over, whatever came of it, every other time fees are fetched.
synced ==
  /\ backend = "esplora"
  /\ pc = "sync"
  /\ parity' = 1 - parity
  /\ pc' = IF parity' = 0 THEN "fetch" ELSE "sleep"
  /\ UNCHANGED <<backend, cap, fees, k, est>>

Next ==
  call_method \/ store \/ sleep \/ update_fee_estimates \/ apply_fee \/ tick \/ synced

Spec == Init /\ [][Next]_vars

\* The runtime polls the task, and a request for Esplora's estimates ends after
\* 30 s at the latest.  The wallet's sync has no timeout and may hang, and a call
\* to bitcoind may: nothing is owed of those two.
FairSpec ==
  Spec /\ WF_vars(store \/ sleep \/ update_fee_estimates \/ apply_fee \/ tick)

-----------------------------------------------------------------------------

\* The table holds a u32 for every target and the poller is where it can be.
TypeOK ==
  /\ backend \in {"bitcoind", "esplora"}
  /\ cap \in 0..U32Max
  /\ fees \in [Targets -> 0..U32Max]
  /\ pc \in {"fetch", "store", "sleep", "sync", "dead"}
  /\ k \in 1..8
  /\ est \in [Query \cup Blocks -> Int \cup {None}]
  /\ parity \in {0, 1}

\* Whatever the sources answer, and between whichever stores LDK reads, no rate
\* the relay itself pays or proposes is below the 253 sat/kW LDK asks for.
FloorServed ==
  \A t \in Targets \ {"MinAllowedNonAnchorChannelRemoteFee"} :
    get_est_sat_per_1000_weight(t) >= MIN_FEERATE

High == {"MaximumFeeEstimate", "UrgentOnChainSweep"}

\* With Esplora no rate is above its cap, unless it is still the built-in one of
\* before the first estimate (2000 for a channel, even under a cap below that).
CapsKept ==
  backend = "esplora" =>
    \A t \in Targets :
      \/ get_est_sat_per_1000_weight(t) = Default[t]
      \/ get_est_sat_per_1000_weight(t) <=
           IF t \in High THEN high_priority_max_feerate_sat_per_kwu(cap) ELSE cap

\* Except while a round is being stored, a peer is not refused a commitment fee
\* that the relay would itself close the channel with: the 250 taken off the
\* background estimate never wraps.
RemoteFloorBelowOurs ==
  pc # "store" =>
    get_est_sat_per_1000_weight("MinAllowedNonAnchorChannelRemoteFee") <=
      get_est_sat_per_1000_weight("ChannelCloseMinimum")

\* Except while a round is being stored, Esplora's maximum is no less than what
\* an urgent sweep pays, in whatever rounds the rate for one block was missing.
MaximumCoversSweep ==
  backend = "esplora" /\ pc # "store" =>
    get_est_sat_per_1000_weight("MaximumFeeEstimate") >=
      get_est_sat_per_1000_weight("UrgentOnChainSweep")

\* Esplora is asked again and again, however many requests fail: only a sync of
\* the wallet that never ends, awaited in the same loop, stops it.  bitcoind's
\* rounds go on until a call fails, which ends the poller for good, or hangs.
PollingGoesOn ==
  /\ backend = "esplora" => []<>(pc = "fetch") \/ <>[](pc = "sync")
  /\ backend = "bitcoind" => []<>(pc = "sleep") \/ <>[](pc \in {"fetch", "dead"})
=============================================================================
