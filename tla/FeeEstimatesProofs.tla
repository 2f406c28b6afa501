------------------------ MODULE FeeEstimatesProofs ------------------------
(* The fee table is sound for every cap, every source and every width of   *)
(* the integers that holds the built-in rates.                             *)
EXTENDS FeeEstimates, TLAPS

\* A remainder by more than the number is the number.
LEMMA SmallMod == \A x, m \in Nat : x < m => x % m = x
  OBVIOUS

\* Clamping brings a rate between the floor and a cap that is above it.
LEMMA Clamped ==
  ASSUME NEW r \in Int, NEW max \in MIN_FEERATE..U32Max
  PROVE  sat_vb_to_sat_kwu_clamped(r, max) \in MIN_FEERATE..max
<1>1. raw_sat_vb_to_sat_kwu(r) \in Nat
  BY FeeAssumption DEF FeeAssumption, raw_sat_vb_to_sat_kwu, AtMost, MIN_FEERATE
<1> QED
  BY <1>1, FeeAssumption
  DEF FeeAssumption, sat_vb_to_sat_kwu_clamped, AtMost, AtLeast, MIN_FEERATE

\* What a question to bitcoind comes to.
LEMMA Estimated ==
  ASSUME NEW q \in Query, NEW a \in Answers \cup {None}
  PROVE  Estimate(q, a) \in MIN_FEERATE..U32Max
<1>1. Unknown(q) \in MIN_FEERATE..U32Max
  BY FeeAssumption
  DEF FeeAssumption, Unknown, Query, MIN_FEERATE, DEFAULT_HIGH_PRIORITY_MAX_FEERATE_SAT_PER_KWU
<1>2. ASSUME a \in Answers PROVE feerate_sat_per_kw(a) \in 0..U32Max
  BY <1>2, FeeAssumption DEF FeeAssumption, feerate_sat_per_kw, AtMost
<1> QED
  BY <1>1, <1>2, FeeAssumption
  DEF FeeAssumption, Estimate, AtLeast, MIN_FEERATE, DEFAULT_HIGH_PRIORITY_MAX_FEERATE_SAT_PER_KWU

\* What Esplora answers is a number, or nothing, for each block target.
LEMMA Fetched ==
  \A e \in [Blocks -> Rates \cup {None}] :
    [s \in Query \cup Blocks |-> IF s \in Blocks THEN e[s] ELSE None]
      \in [Query \cup Blocks -> Int \cup {None}]
<1> SUFFICES ASSUME NEW e \in [Blocks -> Rates \cup {None}]
             PROVE  [s \in Query \cup Blocks |-> IF s \in Blocks THEN e[s] ELSE None]
                      \in [Query \cup Blocks -> Int \cup {None}]
  OBVIOUS
<1>1. Rates \subseteq Int
  BY FeeAssumption, Zenon DEF FeeAssumption
<1>2. \A s \in Blocks : e[s] \in Int \cup {None}
  BY <1>1, Zenon
<1> QED
  BY <1>2

-----------------------------------------------------------------------------
(* The inductive invariant.                                                *)

\* Where the poller can be.
Place ==
  /\ pc = "fetch" => k \in 1..5
  /\ backend = "esplora" /\ pc = "store" => k \in 1..5
  /\ pc = "sleep" => k = 1
  /\ backend = "esplora" /\ pc # "store" => k = 1

\* bitcoind's round: everything asked so far has an estimate above the floor,
\* and everything has when the stores begin.
Round ==
  backend = "bitcoind" =>
    /\ \A q \in Query : est[q] = None \/ est[q] \in MIN_FEERATE..U32Max
    /\ pc = "fetch" => \A i \in 1..5 : i < k => est[Queries[i]] # None
    /\ pc = "store" => \A q \in Query : est[q] # None

\* The window in which LDK may see the new rate for peers with the old one for
\* closing: from the fourth store to the seventh.
RemoteInv ==
  IF backend = "bitcoind" /\ pc = "store" /\ k \in 5..7
  THEN fees["MinAllowedNonAnchorChannelRemoteFee"] = est["background"] - 250
  ELSE fees["MinAllowedNonAnchorChannelRemoteFee"] <= fees["ChannelCloseMinimum"]

EsploraRemote ==
  backend = "esplora" => fees["MinAllowedNonAnchorChannelRemoteFee"] = MIN_FEERATE

\* The window between Esplora's first two stores.
SweepInv ==
  backend = "esplora" =>
    IF pc = "store" /\ k = 2 /\ est["1"] # None
    THEN fees["MaximumFeeEstimate"] =
           sat_vb_to_sat_kwu_clamped(est["1"], high_priority_max_feerate_sat_per_kwu(cap))
    ELSE fees["MaximumFeeEstimate"] >= fees["UrgentOnChainSweep"]

CapInv == backend = "esplora" => cap \in MIN_FEERATE..U32Max

IInv ==
  /\ TypeOK /\ Place /\ Round /\ RemoteInv /\ EsploraRemote /\ SweepInv /\ CapInv
  /\ FloorServed /\ CapsKept

\* The invariant holds at first.
LEMMA IndInit == Init => IInv
<1> SUFFICES ASSUME Init PROVE IInv
  OBVIOUS
<1> USE FeeAssumption DEF FeeAssumption, MIN_FEERATE,
      DEFAULT_HIGH_PRIORITY_MAX_FEERATE_SAT_PER_KWU
<1>1. /\ backend \in {"bitcoind", "esplora"} /\ cap \in 0..U32Max /\ CapInv
  <2>1. ASSUME NEW v \in EnvCaps
        PROVE  max_feerate_sat_per_kwu_from_value(v) \in MIN_FEERATE..U32Max
    <3>1. v = None \/ v \in 0..U32Max
      OBVIOUS
    <3> QED
      BY <3>1 DEF max_feerate_sat_per_kwu_from_value, DEFAULT_NORMAL_MAX_FEERATE_SAT_PER_KWU
  <2>2. CASE backend = "bitcoind" /\ cap = 0
    BY <2>2 DEF CapInv
  <2>3. CASE /\ backend = "esplora"
             /\ \E v \in EnvCaps : cap = max_feerate_sat_per_kwu_from_value(v)
    <3>1. cap \in MIN_FEERATE..U32Max
      BY <2>1, <2>3
    <3> QED
      BY <2>3, <3>1 DEF CapInv
  <2> QED
    BY <2>2, <2>3 DEF Init
<1>2. fees \in [Targets -> 0..U32Max] /\ fees = Default
  BY DEF Init, Default
<1>3. pc = "fetch" /\ k = 1 /\ parity = 0 /\ est = NothingFetched
  BY DEF Init
<1>4. TypeOK
  BY <1>1, <1>2, <1>3 DEF TypeOK, NothingFetched
<1>5. Place /\ Round
  BY <1>3 DEF Place, Round, NothingFetched
<1>6. /\ fees["MinAllowedNonAnchorChannelRemoteFee"] = 253
      /\ fees["ChannelCloseMinimum"] = 253
      /\ fees["MaximumFeeEstimate"] = 50000 /\ fees["UrgentOnChainSweep"] = 5000
  BY <1>2 DEF Default, Targets
<1>7. RemoteInv /\ EsploraRemote /\ SweepInv
  BY <1>3, <1>6 DEF RemoteInv, EsploraRemote, SweepInv
<1>8. FloorServed /\ CapsKept
  BY <1>2 DEF FloorServed, CapsKept, Default, get_est_sat_per_1000_weight
<1> QED
  BY <1>1, <1>4, <1>5, <1>7, <1>8 DEF IInv

\* Every question and every store keeps it.
LEMMA IndStep == IInv /\ [Next]_vars => IInv'
<1> SUFFICES ASSUME IInv, [Next]_vars PROVE IInv'
  OBVIOUS
<1> USE FeeAssumption DEF FeeAssumption, MIN_FEERATE,
      DEFAULT_HIGH_PRIORITY_MAX_FEERATE_SAT_PER_KWU
<1>0. TypeOK
  BY DEF IInv
<1>1. CASE call_method
  <2>1. /\ backend = "bitcoind" /\ pc = "fetch" /\ k \in 1..5
        /\ UNCHANGED <<backend, cap, fees, parity>>
    BY <1>1 DEF call_method, IInv, Place
  <2>2. Queries[k] \in Query
    BY <2>1 DEF Queries, Query
  <2>3. ASSUME NEW a \in Answers \cup {None},
               est' = [est EXCEPT ![Queries[k]] = Estimate(Queries[k], a)]
        PROVE  IInv'
    <3> DEFINE e == Estimate(Queries[k], a)
    <3>1. e \in MIN_FEERATE..U32Max /\ est' = [est EXCEPT ![Queries[k]] = e]
      BY <2>2, <2>3, Estimated
    <3> HIDE DEF e
    <3>2. e \in Int
      BY <3>1
    <3>3. est' \in [Query \cup Blocks -> Int \cup {None}]
      BY <1>0, <2>2, <3>1, <3>2 DEF TypeOK
    <3>4. \A q \in Query : est'[q] = IF q = Queries[k] THEN e ELSE est[q]
      BY <1>0, <3>1 DEF TypeOK
    <3>5. /\ \A q \in Query : est'[q] = None \/ est'[q] \in MIN_FEERATE..U32Max
          /\ \A i \in 1..5 : i < k + 1 => est'[Queries[i]] # None
      <4>1. \A i \in 1..5 : Queries[i] \in Query
        BY DEF Queries, Query
      <4>2. e # None
        BY <3>2
      <4> QED
        BY <2>1, <3>1, <3>4, <4>1, <4>2 DEF IInv, Round
    <3>6. CASE k < 5 /\ k' = k + 1 /\ pc' = "fetch"
      BY <1>0, <2>1, <3>3, <3>5, <3>6 DEF IInv, TypeOK, Place, Round, RemoteInv, EsploraRemote,
         SweepInv, CapInv, FloorServed, CapsKept, get_est_sat_per_1000_weight
    <3>7. CASE k = 5 /\ k' = 1 /\ pc' = "store"
      <4>1. \A q \in Query : \E i \in 1..5 : q = Queries[i]
        BY DEF Queries, Query
      <4>2. \A q \in Query : est'[q] # None
        BY <3>5, <3>7, <4>1
      <4> QED
        BY <1>0, <2>1, <3>3, <3>5, <3>7, <4>2 DEF IInv, TypeOK, Place, Round, RemoteInv,
           EsploraRemote, SweepInv, CapInv, FloorServed, CapsKept, get_est_sat_per_1000_weight
    <3>8. CASE pc' = "dead" /\ UNCHANGED <<k, est>>
      BY <1>0, <2>1, <3>8 DEF IInv, TypeOK, Place, Round, RemoteInv, EsploraRemote,
         SweepInv, CapInv, FloorServed, CapsKept, get_est_sat_per_1000_weight
    <3> QED
      BY <1>1, <3>6, <3>7, <3>8 DEF call_method
  <2>4. CASE pc' = "dead" /\ UNCHANGED <<k, est>>
    BY <1>0, <2>1, <2>4 DEF IInv, TypeOK, Place, Round, RemoteInv, EsploraRemote,
       SweepInv, CapInv, FloorServed, CapsKept, get_est_sat_per_1000_weight
  <2> QED
    BY <1>1, <2>3, <2>4 DEF call_method
<1>2. CASE store
  <2> DEFINE tg == BitcoindStores[k].target
             v == Stored(tg, est[BitcoindStores[k].from])
  <2>1. /\ backend = "bitcoind" /\ pc = "store" /\ k \in 1..8
        /\ fees' = [fees EXCEPT ![tg] = v] /\ UNCHANGED <<backend, cap, parity>>
    BY <1>2 DEF store, IInv, TypeOK
  <2>2. tg \in Targets /\ BitcoindStores[k].from \in Query
    BY <2>1 DEF BitcoindStores, Targets, Query
  <2>3. est[BitcoindStores[k].from] \in MIN_FEERATE..U32Max
    BY <2>1, <2>2 DEF IInv, Round
  <2>4. /\ tg = "MinAllowedNonAnchorChannelRemoteFee" =>
             v = est[BitcoindStores[k].from] - 250
        /\ tg # "MinAllowedNonAnchorChannelRemoteFee" => v = est[BitcoindStores[k].from]
    <3>1. est[BitcoindStores[k].from] - 250 \in Nat /\ U32Max + 1 \in Nat
      BY <2>3
    <3>2. (est[BitcoindStores[k].from] - 250) % (U32Max + 1) = est[BitcoindStores[k].from] - 250
      BY <2>3, <3>1, SmallMod
    <3> QED
      BY <3>2 DEF Stored
  <2>5. v \in 0..U32Max /\ (tg # "MinAllowedNonAnchorChannelRemoteFee" => v >= MIN_FEERATE)
    BY <2>3, <2>4
  <2> HIDE DEF v
  <2>6. fees' \in [Targets -> 0..U32Max] /\ FloorServed'
    BY <1>0, <2>1, <2>2, <2>5 DEF IInv, TypeOK, FloorServed, get_est_sat_per_1000_weight
  <2>7. /\ tg = "MinAllowedNonAnchorChannelRemoteFee" <=> k = 4
        /\ tg = "ChannelCloseMinimum" <=> k = 7
        /\ k \in {4, 7} => BitcoindStores[k].from = "background"
    BY <2>1 DEF BitcoindStores
  <2>8. /\ fees'["MinAllowedNonAnchorChannelRemoteFee"] =
             IF k = 4 THEN v ELSE fees["MinAllowedNonAnchorChannelRemoteFee"]
        /\ fees'["ChannelCloseMinimum"] = IF k = 7 THEN v ELSE fees["ChannelCloseMinimum"]
    BY <1>0, <2>1, <2>7 DEF TypeOK, Targets
  <2>9. k = 4 => v = est["background"] - 250
    BY <2>4, <2>7
  <2>10. k = 7 => v = est["background"]
    BY <2>4, <2>7
  <2>11. est["background"] \in MIN_FEERATE..U32Max
    BY <2>1 DEF IInv, Round, Query
  <2>12. CASE k < 8 /\ k' = k + 1 /\ pc' = "store" /\ UNCHANGED est
    <3>1. RemoteInv'
      BY <2>1, <2>8, <2>9, <2>10, <2>11, <2>12 DEF IInv, RemoteInv
    <3> QED
      BY <1>0, <2>1, <2>6, <2>12, <3>1 DEF IInv, TypeOK, Place, Round, EsploraRemote,
         SweepInv, CapInv, CapsKept
  <2>13. CASE k = 8 /\ k' = 1 /\ pc' = "sleep" /\ est' = NothingFetched
    <3>1. RemoteInv'
      BY <2>1, <2>8, <2>13 DEF IInv, RemoteInv
    <3> QED
      BY <1>0, <2>1, <2>6, <2>13, <3>1 DEF IInv, TypeOK, Place, Round, EsploraRemote,
         SweepInv, CapInv, CapsKept, NothingFetched
  <2> QED
    BY <1>2, <2>12, <2>13 DEF store
<1>3. CASE sleep
  BY <1>0, <1>3 DEF sleep, IInv, TypeOK, Place, Round, RemoteInv, EsploraRemote,
     SweepInv, CapInv, FloorServed, CapsKept, get_est_sat_per_1000_weight
<1>4. CASE update_fee_estimates
  <2>1. /\ backend = "esplora" /\ pc = "fetch" /\ k = 1
        /\ UNCHANGED <<backend, cap, fees, k, parity>> /\ pc' \in {"store", "sleep"}
    BY <1>4 DEF update_fee_estimates, IInv, Place
  <2>2. est' \in [Query \cup Blocks -> Int \cup {None}]
    <3>1. \A e \in [Blocks -> Rates \cup {None}] :
            [s \in Query \cup Blocks |-> IF s \in Blocks THEN e[s] ELSE None]
              \in [Query \cup Blocks -> Int \cup {None}]
      BY Fetched
    <3> QED
      BY <1>0, <1>4, <3>1 DEF update_fee_estimates, TypeOK
  <2> QED
    BY <1>0, <2>1, <2>2 DEF IInv, TypeOK, Place, Round, RemoteInv, EsploraRemote,
       SweepInv, CapInv, FloorServed, CapsKept, get_est_sat_per_1000_weight
<1>5. CASE apply_fee
  <2> DEFINE st == EsploraStores[k]
             max == IF st.high THEN high_priority_max_feerate_sat_per_kwu(cap) ELSE cap
             v == sat_vb_to_sat_kwu_clamped(est[st.from], max)
  <2>1. /\ backend = "esplora" /\ pc = "store" /\ k \in 1..5 /\ cap \in MIN_FEERATE..U32Max
        /\ UNCHANGED <<backend, cap, parity>>
    BY <1>5 DEF apply_fee, IInv, Place, CapInv
  <2>2. /\ st.target \in Targets /\ st.from \in Blocks
        /\ st.target # "MinAllowedNonAnchorChannelRemoteFee"
        /\ st.high <=> st.target \in High
        /\ st.target = "MaximumFeeEstimate" <=> k = 1
        /\ st.target = "UrgentOnChainSweep" <=> k = 2
        /\ k \in {1, 2} => st.from = "1" /\ st.high
    BY <2>1 DEF EsploraStores, Targets, Blocks, High
  <2>3. max \in MIN_FEERATE..U32Max
    BY <2>1 DEF high_priority_max_feerate_sat_per_kwu, AtLeast
  <2>4. est[st.from] # None => v \in MIN_FEERATE..max
    <3>1. est[st.from] \in Int \cup {None}
      BY <1>0, <2>2 DEF TypeOK
    <3> HIDE DEF max
    <3> QED
      BY <2>3, <3>1, Clamped
  <2>5. \/ est[st.from] = None /\ fees' = fees
        \/ est[st.from] # None /\ fees' = [fees EXCEPT ![st.target] = v]
    BY <1>5 DEF apply_fee
  <2>6. /\ k \in {1, 2} => max = high_priority_max_feerate_sat_per_kwu(cap)
        /\ max = IF st.target \in High THEN high_priority_max_feerate_sat_per_kwu(cap) ELSE cap
    BY <2>2
  <2>7. k \in {1, 2} =>
          v = sat_vb_to_sat_kwu_clamped(est["1"], high_priority_max_feerate_sat_per_kwu(cap))
    BY <2>2, <2>6
  <2> HIDE DEF v, max, st
  <2>8. fees' \in [Targets -> 0..U32Max]
    BY <1>0, <2>2, <2>3, <2>4, <2>5 DEF TypeOK
  <2>9. \A t \in Targets :
          \/ fees'[t] = fees[t]
          \/ t = st.target /\ fees'[t] = v /\ est[st.from] # None
    <3>1. CASE est[st.from] = None
      BY <2>5, <3>1
    <3>2. CASE est[st.from] # None
      <4>1. fees' = [fees EXCEPT ![st.target] = v] /\ DOMAIN fees = Targets
        BY <1>0, <2>5, <3>2 DEF TypeOK
      <4> QED
        BY <2>2, <3>2, <4>1
    <3> QED
      BY <3>1, <3>2
  <2>10. FloorServed'
    <3>1. est[st.from] # None => v >= MIN_FEERATE
      BY <2>3, <2>4
    <3> QED
      BY <2>9, <3>1 DEF IInv, FloorServed, get_est_sat_per_1000_weight
  <2>11. CapsKept'
    <3>1. est[st.from] # None => v <= max
      BY <2>3, <2>4
    <3> QED
      BY <2>1, <2>6, <2>9, <3>1 DEF IInv, CapsKept, get_est_sat_per_1000_weight
  <2>12. EsploraRemote'
    BY <2>1, <2>2, <2>9 DEF IInv, EsploraRemote, Targets
  <2>13. RemoteInv'
    <3>1. fees'["ChannelCloseMinimum"] >= MIN_FEERATE
      BY <2>10 DEF FloorServed, get_est_sat_per_1000_weight, Targets
    <3> QED
      BY <2>1, <2>12, <3>1 DEF RemoteInv, EsploraRemote
  <2>14. CASE k < 5 /\ k' = k + 1 /\ pc' = "store" /\ UNCHANGED est
    <3>1. SweepInv'
      <4>1. CASE k = 1
        <5>1. st.from = "1" /\ st.target = "MaximumFeeEstimate"
          BY <2>2, <4>1
        <5>2. est["1"] # None => fees'["MaximumFeeEstimate"] = v
          BY <1>0, <2>5, <5>1 DEF TypeOK, Targets
        <5>3. est["1"] = None => fees' = fees
          BY <2>5, <5>1
        <5> QED
          BY <2>1, <2>7, <2>14, <4>1, <5>2, <5>3 DEF IInv, SweepInv
      <4>2. CASE k = 2
        <5>1. st.from = "1" /\ st.target = "UrgentOnChainSweep"
          BY <2>2, <4>2
        <5>2. CASE est["1"] # None
          <6>1. fees'["UrgentOnChainSweep"] = v /\ fees'["MaximumFeeEstimate"] = fees["MaximumFeeEstimate"]
            BY <1>0, <2>5, <5>1, <5>2 DEF TypeOK, Targets
          <6>2. fees["MaximumFeeEstimate"] = v
            BY <2>1, <2>7, <4>2, <5>2 DEF IInv, SweepInv
          <6>3. v \in Int
            BY <2>3, <2>4, <5>1, <5>2
          <6> QED
            BY <2>14, <4>2, <6>1, <6>2, <6>3 DEF SweepInv
        <5>3. CASE est["1"] = None
          <6>1. fees' = fees
            BY <2>5, <5>1, <5>3
          <6> QED
            BY <2>1, <2>14, <4>2, <5>3, <6>1 DEF IInv, SweepInv
        <5> QED
          BY <5>2, <5>3
      <4>3. CASE k > 2
        <5>1. st.target # "MaximumFeeEstimate" /\ st.target # "UrgentOnChainSweep"
          BY <2>1, <2>2, <4>3
        <5>2. /\ fees'["MaximumFeeEstimate"] = fees["MaximumFeeEstimate"]
              /\ fees'["UrgentOnChainSweep"] = fees["UrgentOnChainSweep"]
          BY <2>9, <5>1 DEF Targets
        <5> QED
          BY <2>1, <2>14, <4>3, <5>2 DEF IInv, SweepInv
      <4> QED
        BY <2>1, <4>1, <4>2, <4>3
    <3> QED
      BY <1>0, <2>1, <2>8, <2>10, <2>11, <2>12, <2>13, <2>14, <3>1
      DEF IInv, TypeOK, Place, Round, CapInv
  <2>15. CASE k = 5 /\ k' = 1 /\ pc' = "sleep" /\ est' = NothingFetched
    <3>1. st.target # "MaximumFeeEstimate" /\ st.target # "UrgentOnChainSweep"
      BY <2>2, <2>15
    <3>2. /\ fees'["MaximumFeeEstimate"] = fees["MaximumFeeEstimate"]
          /\ fees'["UrgentOnChainSweep"] = fees["UrgentOnChainSweep"]
      BY <2>9, <3>1 DEF Targets
    <3>3. SweepInv'
      BY <2>1, <2>15, <3>2 DEF IInv, SweepInv
    <3>4. est' \in [Query \cup Blocks -> Int \cup {None}]
      BY <2>15 DEF NothingFetched
    <3> QED
      BY <1>0, <2>1, <2>8, <2>10, <2>11, <2>12, <2>13, <2>15, <3>3, <3>4
      DEF IInv, TypeOK, Place, Round, CapInv
  <2> QED
    BY <1>5, <2>14, <2>15 DEF apply_fee
<1>6. CASE tick \/ synced
  BY <1>0, <1>6 DEF tick, synced, IInv, TypeOK, Place, Round, RemoteInv, EsploraRemote,
     SweepInv, CapInv, FloorServed, CapsKept, get_est_sat_per_1000_weight
<1>7. CASE UNCHANGED vars
  BY <1>0, <1>7 DEF vars, IInv, TypeOK, Place, Round, RemoteInv, EsploraRemote,
     SweepInv, CapInv, FloorServed, CapsKept, get_est_sat_per_1000_weight
<1> QED
  BY <1>1, <1>2, <1>3, <1>4, <1>5, <1>6, <1>7 DEF Next

-----------------------------------------------------------------------------

\* The table holds a u32 for every target: neither conversion overflows and the
\* subtraction of 250 does not wrap.
THEOREM TypeCorrect == Spec => []TypeOK
<1>1. IInv => TypeOK
  BY DEF IInv
<1> QED
  BY IndInit, IndStep, <1>1, PTL DEF Spec

\* Nothing the relay pays or proposes is below LDK's floor, for any answers.
THEOREM FloorHolds == Spec => []FloorServed
<1>1. IInv => FloorServed
  BY DEF IInv
<1> QED
  BY IndInit, IndStep, <1>1, PTL DEF Spec

\* With Esplora no estimate is above its cap, whatever the cap was set to.
THEOREM CapsHold == Spec => []CapsKept
<1>1. IInv => CapsKept
  BY DEF IInv
<1> QED
  BY IndInit, IndStep, <1>1, PTL DEF Spec

\* Between rounds the rate asked of peers is below the one the relay closes with.
THEOREM RemoteFloorHolds == Spec => []RemoteFloorBelowOurs
<1>1. IInv => RemoteFloorBelowOurs
  BY DEF IInv, RemoteInv, RemoteFloorBelowOurs, get_est_sat_per_1000_weight
<1> QED
  BY IndInit, IndStep, <1>1, PTL DEF Spec

\* Between rounds Esplora's maximum covers an urgent sweep.
THEOREM MaximumHolds == Spec => []MaximumCoversSweep
<1>1. IInv => MaximumCoversSweep
  BY DEF IInv, SweepInv, MaximumCoversSweep, get_est_sat_per_1000_weight
<1> QED
  BY IndInit, IndStep, <1>1, PTL DEF Spec
=============================================================================
