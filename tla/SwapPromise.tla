---------------------------- MODULE SwapPromise ----------------------------
(***************************************************************************)
(* What the onramp promises about the pool, without tables, tasks, retries *)
(* or crashes: liquidity reserved for a swap is delivered at most once and *)
(* only for a paid swap, or it is released, and then only after the        *)
(* on-chain invoice lapsed.                                                *)
(***************************************************************************)
CONSTANT Swaps

VARIABLES paid,  \* swaps whose Lightning payment the relay holds
          late,  \* swaps whose on-chain invoice has lapsed
          pool   \* what became of the liquidity of each swap

vars == <<paid, late, pool>>

PoolStatus == {"none", "reserved", "delivered", "released"}

Init ==
  /\ paid = {}
  /\ late = {}
  /\ pool = [s \in Swaps |-> "none"]

\* A reservation may come into being lapsed: the transaction took its time.
Reserve(s) ==
  /\ pool[s] = "none"
  /\ pool' = [pool EXCEPT ![s] = "reserved"]
  /\ late' \in {late, late \cup {s}}
  /\ UNCHANGED paid

Pay(s) ==
  /\ paid' = paid \cup {s}
  /\ UNCHANGED <<late, pool>>

Deliver(s) ==
  /\ s \in paid
  /\ pool[s] = "reserved"
  /\ pool' = [pool EXCEPT ![s] = "delivered"]
  /\ UNCHANGED <<paid, late>>

Release(s) ==
  /\ s \in late
  /\ pool[s] = "reserved"
  /\ pool' = [pool EXCEPT ![s] = "released"]
  /\ UNCHANGED <<paid, late>>

Lapse ==
  /\ late \subseteq late'
  /\ late' \subseteq Swaps
  /\ UNCHANGED <<paid, pool>>

Next ==
  \/ \E s \in Swaps : Reserve(s) \/ Pay(s) \/ Deliver(s) \/ Release(s)
  \/ Lapse

Spec == Init /\ [][Next]_vars
=============================================================================
