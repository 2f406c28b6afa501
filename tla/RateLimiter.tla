---------------------------- MODULE RateLimiter ----------------------------
(***************************************************************************)
(* The REST server's RateLimiter: a fixed window per address, kept in a    *)
(* map that is pruned when it grows.  check runs under a mutex, so a call  *)
(* is one step.                                                            *)
(***************************************************************************)
EXTENDS Naturals, FiniteSets, Sequences

CONSTANTS IPs,            \* client addresses
          MaxPerWindow,   \* CARDANO_API_RATE_LIMIT_MAX
          Window,         \* CARDANO_API_RATE_LIMIT_WINDOW_SECS
          EvictAbove,     \* entries above which expired ones are dropped (1000)
          MaxTime         \* bound on the clock

ASSUME RateLimiterAssumption ==
  /\ MaxPerWindow \in Nat
  /\ Window \in Nat
  /\ EvictAbove \in Nat
  /\ MaxTime \in Nat

VARIABLES requests, \* the map: address -> count and start of its window
          now,
          answer,   \* the last call and its result
          granted   \* history: the times of each address's latest grants

vars == <<requests, now, answer, granted>>

Init ==
  /\ requests = [ip \in {} |-> 0]
  /\ now = 0
  /\ answer = <<>>
  /\ granted = [ip \in IPs |-> <<>>]

Elapsed(entry) == now - entry.ts > Window

\* (mutant: everything is dropped, live windows too)
Kept_none == IF Cardinality(DOMAIN requests) > EvictAbove THEN {} ELSE DOMAIN requests

\* The entries a call finds after the eviction at its start.
Kept ==
  IF Cardinality(DOMAIN requests) > EvictAbove
  THEN {ip \in DOMAIN requests : ~Elapsed(requests[ip])}
  ELSE DOMAIN requests

Entry(ip) == IF ip \in Kept THEN requests[ip] ELSE [n |-> 0, ts |-> now]

\* (mutant: one request too many)
Allowed_one_more(entry) == Elapsed(entry) \/ entry.n <= MaxPerWindow

Allowed(entry) == Elapsed(entry) \/ entry.n < MaxPerWindow

Counted(entry) ==
  IF Elapsed(entry) THEN [n |-> 1, ts |-> now]
  ELSE IF Allowed(entry) THEN [entry EXCEPT !.n = @ + 1] ELSE entry

\* The history keeps the latest 2 * MaxPerWindow grants.
Remember(past) ==
  LET all == Append(past, now)
  IN  IF Len(all) > 2 * MaxPerWindow THEN Tail(all) ELSE all

check(ip) ==
  /\ requests' = [i \in Kept \cup {ip} |-> IF i = ip THEN Counted(Entry(ip)) ELSE requests[i]]
  /\ answer' = <<ip, Allowed(Entry(ip))>>
  /\ granted' = IF Allowed(Entry(ip)) THEN [granted EXCEPT ![ip] = Remember(@)] ELSE granted
  /\ UNCHANGED now

Tick ==
  /\ now < MaxTime
  /\ now' = now + 1
  /\ UNCHANGED <<requests, answer, granted>>

Next == Tick \/ \E ip \in IPs : check(ip)

Spec == Init /\ [][Next]_vars

-----------------------------------------------------------------------------

\* The map's keys are addresses, no window starts in the future, and every other
\* variable has its type.
TypeOK ==
  /\ DOMAIN requests \subseteq IPs
  /\ \A ip \in DOMAIN requests : requests[ip] \in [n : Nat, ts : 0..now]
  /\ now \in Nat
  /\ answer = <<>> \/ answer \in IPs \X BOOLEAN
  /\ granted \in [IPs -> Seq(Nat)]

\* Dropping entries never shows: a caller is refused exactly while its window
\* has MaxPerWindow grants, whatever check evicted on whoever's behalf.
Used ==
  [ip \in IPs |-> IF ip \in DOMAIN requests /\ ~Elapsed(requests[ip])
                  THEN requests[ip].n ELSE 0]
Promise == INSTANCE Quota WITH Max <- MaxPerWindow, used <- Used
ImplementsQuota == Promise!Spec

\* However requests straddle windows, no stretch of time as long as a window
\* sees more than 2 * MaxPerWindow grants to an address.
BurstBounded ==
  [][\A ip \in IPs :
       granted'[ip] # granted[ip] /\ Len(granted[ip]) = 2 * MaxPerWindow =>
         now - Head(granted[ip]) > Window]_vars

\* "max requests per IP per window": what a window counts stays within the limit.
QuotaRespected == \A ip \in DOMAIN requests : requests[ip].n <= MaxPerWindow
=============================================================================
