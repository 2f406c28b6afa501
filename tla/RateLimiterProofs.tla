------------------------- MODULE RateLimiterProofs -------------------------
(* The rate limiter's type invariant, its bound on counts, that it         *)
(* implements Quota when the limit is not zero, and its bound on bursts.   *)
EXTENDS RateLimiter, TLAPS

\* Remember appends one time and drops at most one.
LEMMA RememberType ==
  ASSUME now \in Nat, NEW past \in Seq(Nat)
  PROVE  Remember(past) \in Seq(Nat)
<1> DEFINE all == Append(past, now)
<1>1. all \in Seq(Nat) /\ Len(all) = Len(past) + 1
  OBVIOUS
<1>2. Tail(all) \in Seq(Nat)
  BY <1>1
<1> QED
  BY <1>1, <1>2 DEF Remember

\* The entry a call works on, and the one it leaves, are well formed.
LEMMA EntryType ==
  ASSUME TypeOK, NEW ip \in IPs
  PROVE  /\ Entry(ip) \in [n : Nat, ts : 0..now]
         /\ Counted(Entry(ip)) \in [n : Nat, ts : 0..now]
<1>1. Kept \subseteq DOMAIN requests
  BY DEF Kept
<1>2. Entry(ip) \in [n : Nat, ts : 0..now]
  BY <1>1 DEF TypeOK, Entry
<1>3. [Entry(ip) EXCEPT !.n = @ + 1] \in [n : Nat, ts : 0..now]
  BY <1>2
<1> QED
  BY <1>2, <1>3 DEF Counted, TypeOK

\* Every variable keeps its type.
LEMMA TypeStep == TypeOK /\ [Next]_vars => TypeOK'
<1> SUFFICES ASSUME TypeOK, [Next]_vars PROVE TypeOK'
  OBVIOUS
<1>1. ASSUME Tick PROVE TypeOK'
  <2>1. \A ip \in DOMAIN requests : requests[ip] \in [n : Nat, ts : 0..(now + 1)]
    BY DEF TypeOK
  <2> QED
    BY <1>1, <2>1 DEF Tick, TypeOK
<1>2. ASSUME NEW ip \in IPs, check(ip) PROVE TypeOK'
  <2>1. Kept \subseteq DOMAIN requests /\ Kept \cup {ip} \subseteq IPs
    BY DEF Kept, TypeOK
  <2>2. Counted(Entry(ip)) \in [n : Nat, ts : 0..now]
    BY EntryType
  <2>3. /\ DOMAIN requests' = Kept \cup {ip}
        /\ \A i \in DOMAIN requests' : requests'[i] \in [n : Nat, ts : 0..now]
    BY <1>2, <2>1, <2>2 DEF check, TypeOK
  <2>4. answer' \in IPs \X BOOLEAN
    BY <1>2, Zenon DEF check, Allowed
  <2>5. granted' \in [IPs -> Seq(Nat)]
    BY <1>2, RememberType DEF check, TypeOK
  <2> QED
    BY <1>2, <2>1, <2>3, <2>4, <2>5, Zenon DEF check, TypeOK
<1>3. ASSUME UNCHANGED vars PROVE TypeOK'
  BY <1>3 DEF vars, TypeOK
<1> QED
  BY <1>1, <1>2, <1>3 DEF Next

\* TypeOK holds of every call sequence.
THEOREM TypeCorrect == Spec => []TypeOK
<1>1. Init => TypeOK
  BY DEF Init, TypeOK
<1> QED
  BY <1>1, TypeStep, PTL DEF Spec

\* A limit of at least one is never exceeded by what a window counts: check
\* counts up only below the limit and starts a window at one.
THEOREM QuotaKept ==
  ASSUME MaxPerWindow > 0
  PROVE  Spec => []QuotaRespected
<1>1. Init => QuotaRespected
  BY DEF Init, QuotaRespected
<1>2. TypeOK /\ QuotaRespected /\ [Next]_vars => QuotaRespected'
  <2> SUFFICES ASSUME TypeOK, QuotaRespected, [Next]_vars PROVE QuotaRespected'
    OBVIOUS
  <2>1. ASSUME NEW ip \in IPs, check(ip) PROVE QuotaRespected'
    <3>1. Kept \subseteq DOMAIN requests
      BY DEF Kept
    <3>2. Entry(ip) \in [n : Nat, ts : 0..now] /\ Entry(ip).n <= MaxPerWindow
      BY <3>1, EntryType, RateLimiterAssumption
         DEF Entry, QuotaRespected, RateLimiterAssumption
    <3>3. Counted(Entry(ip)).n <= MaxPerWindow
      BY <3>2, RateLimiterAssumption DEF Counted, Allowed, RateLimiterAssumption
    <3> QED
      BY <2>1, <3>1, <3>3 DEF check, QuotaRespected
  <2>2. ASSUME Tick PROVE QuotaRespected'
    BY <2>2 DEF Tick, QuotaRespected
  <2>3. ASSUME UNCHANGED vars PROVE QuotaRespected'
    BY <2>3 DEF vars, QuotaRespected
  <2> QED
    BY <2>1, <2>2, <2>3 DEF Next
<1> QED
  BY <1>1, <1>2, TypeCorrect, PTL DEF Spec

\* A step of the limiter is a step of Quota: a call grants or refuses by the
\* window's count, an eviction changes nothing that counts, and time only ends
\* windows.
LEMMA QuotaStep ==
  ASSUME MaxPerWindow > 0, TypeOK, [Next]_vars
  PROVE  [Promise!Next]_<<Used, answer>>
<1>1. ASSUME Tick PROVE Promise!Lapse
  <2> DEFINE gone == {ip \in IPs : Used'[ip] = 0}
  <2>1. ASSUME NEW ip \in IPs PROVE Used'[ip] = 0 \/ Used'[ip] = Used[ip]
    <3>1. requests' = requests /\ now' = now + 1
      BY <1>1 DEF Tick
    <3>2. Used'[ip] = IF ip \in DOMAIN requests /\ ~(now' - requests[ip].ts > Window)
                      THEN requests[ip].n ELSE 0
      BY <3>1 DEF Used, Elapsed
    <3>3. ASSUME ip \in DOMAIN requests, ~(now' - requests[ip].ts > Window)
          PROVE  ~(now - requests[ip].ts > Window)
      <4>1. now \in Nat /\ requests[ip].ts \in Nat
        BY <3>3 DEF TypeOK
      <4> QED
        BY <3>1, <3>3, <4>1, RateLimiterAssumption DEF RateLimiterAssumption
    <3> QED
      BY <3>2, <3>3 DEF Used, Elapsed
  <2>2. Used' = [ip \in IPs |-> IF ip \in gone THEN 0 ELSE Used[ip]]
    BY <2>1 DEF Used
  <2>3. gone \in SUBSET IPs
    OBVIOUS
  <2> QED
    BY <1>1, <2>2, <2>3, Zenon DEF Tick, Promise!Lapse
<1>2. ASSUME NEW ip \in IPs, check(ip) PROVE Promise!Grant(ip) \/ Promise!Deny(ip)
  <2> DEFINE e == Entry(ip)
  <2>1. /\ Kept \subseteq DOMAIN requests
        /\ \A i \in DOMAIN requests \ Kept : Elapsed(requests[i])
    BY DEF Kept
  <2>2. e \in [n : Nat, ts : 0..now]
    BY EntryType
  <2>3. Used[ip] = IF Elapsed(e) THEN 0 ELSE e.n
    BY <2>1, <2>2 DEF Entry, Used, Elapsed
  <2>4. \A i \in IPs \ {ip} : Used'[i] = Used[i]
    <3> SUFFICES ASSUME NEW i \in IPs \ {ip} PROVE Used'[i] = Used[i]
      OBVIOUS
    <3>1. DOMAIN requests' = Kept \cup {ip} /\ (i \in Kept => requests'[i] = requests[i])
      BY <1>2 DEF check
    <3>2. now' = now
      BY <1>2 DEF check
    <3> QED
      BY <2>1, <3>1, <3>2 DEF Used, Elapsed
  <2>5. Used'[ip] = IF ~Elapsed(Counted(e)) THEN Counted(e).n ELSE 0
    BY <1>2 DEF check, Used, Elapsed
  <2>6. ASSUME Allowed(e) PROVE Promise!Grant(ip)
    <3>1. Used'[ip] = Used[ip] + 1 /\ Used[ip] < MaxPerWindow
      BY <2>2, <2>3, <2>5, <2>6, RateLimiterAssumption
         DEF Counted, Allowed, Elapsed, TypeOK, RateLimiterAssumption
    <3>2. Used' = [Used EXCEPT ![ip] = Used[ip] + 1]
      BY <2>4, <3>1, Zenon DEF Used
    <3> QED
      BY <1>2, <2>6, <3>1, <3>2 DEF check, Promise!Grant
  <2>7. ASSUME ~Allowed(e) PROVE Promise!Deny(ip)
    <3>1. Used'[ip] = Used[ip] /\ Used[ip] >= MaxPerWindow
      BY <2>2, <2>3, <2>5, <2>7, RateLimiterAssumption
         DEF Counted, Allowed, RateLimiterAssumption
    <3>2. Used' = Used
      BY <2>4, <3>1 DEF Used
    <3>3. answer' = <<ip, FALSE>>
      BY <1>2, <2>7, Zenon DEF check, Allowed
    <3> QED
      BY <3>1, <3>2, <3>3 DEF Promise!Deny
  <2> QED
    BY <2>6, <2>7
<1>3. ASSUME UNCHANGED vars PROVE UNCHANGED <<Used, answer>>
  BY <1>3 DEF vars, Used, Elapsed
<1> QED
  BY <1>1, <1>2, <1>3 DEF Next, Promise!Next

\* The limiter implements Quota for every set of addresses, window and
\* eviction threshold, as long as the limit is not zero.
THEOREM QuotaRefinement ==
  ASSUME MaxPerWindow > 0
  PROVE  Spec => ImplementsQuota
<1>1. Init => Promise!Init
  BY DEF Init, Promise!Init, Used
<1>2. TypeOK /\ [Next]_vars => [Promise!Next]_<<Used, answer>>
  BY QuotaStep
<1> QED
  BY <1>1, <1>2, TypeCorrect, PTL DEF Spec, ImplementsQuota, Promise!Spec

-----------------------------------------------------------------------------
(* Bursts.                                                                 *)

Live(ip) == ip \in DOMAIN requests /\ ~Elapsed(requests[ip])

\* All grants of g but the last k are more than a window older than t.
Old(g, k, t) == \A i \in 1..Len(g) : i + k <= Len(g) => g[i] + Window < t

\* All grants of g but the last k are from before t, or from t.
Upto(g, k, t) == \A i \in 1..Len(g) : i + k <= Len(g) => g[i] <= t

\* The last grants are the window's own; those before them, but for as many as a
\* window has, are older than a window, counted from the start of this one.
Past(ip) ==
  /\ Upto(granted[ip], 0, now)
  /\ Live(ip) => /\ requests[ip].n <= MaxPerWindow
                 /\ Upto(granted[ip], requests[ip].n, requests[ip].ts)
                 /\ Old(granted[ip], requests[ip].n + MaxPerWindow, requests[ip].ts)
  /\ ~Live(ip) => Old(granted[ip], MaxPerWindow, now)

\* What Remember keeps of the past has moved back by one.
LEMMA Moved ==
  ASSUME now \in Nat, NEW past \in Seq(Nat)
  PROVE  /\ \A i \in 1..Len(Remember(past)) : \A k \in Nat :
              i + (k + 1) <= Len(Remember(past)) =>
                \E j \in 1..Len(past) : j + k <= Len(past) /\ Remember(past)[i] = past[j]
         /\ \A i \in 1..Len(Remember(past)) :
              Remember(past)[i] = now \/ \E j \in 1..Len(past) : Remember(past)[i] = past[j]
<1> DEFINE all == Append(past, now)
<1>1. /\ all \in Seq(Nat) /\ Len(all) = Len(past) + 1 /\ Len(past) \in Nat
      /\ \A i \in 1..Len(past) : all[i] = past[i]
      /\ all[Len(past) + 1] = now
  OBVIOUS
<1> HIDE DEF all
<1>2. CASE Remember(past) = all
  <2>1. \A i \in 1..Len(all) : i \in 1..Len(past) \/ i = Len(past) + 1
    BY <1>1
  <2>2. ASSUME NEW i \in 1..Len(all), NEW k \in Nat, i + (k + 1) <= Len(all)
        PROVE  i \in 1..Len(past) /\ i + k <= Len(past)
    <3>1. i \in Nat /\ 1 <= i /\ Len(all) = Len(past) + 1 /\ Len(past) \in Nat
      BY <1>1
    <3> QED
      BY <2>2, <3>1, SMTT(30)
  <2> QED
    BY <1>1, <1>2, <2>1, <2>2, Zenon
<1>3. CASE Remember(past) = Tail(all)
  <2>1. Len(Tail(all)) = Len(past) /\ \A i \in 1..Len(past) : Tail(all)[i] = all[i + 1]
    BY <1>1
  <2>2. \A i \in 1..Len(past) : i + 1 \in 1..Len(past) \/ i + 1 = Len(past) + 1
    BY <1>1
  <2>3. \A i \in 1..Len(past) : \A k \in Nat : i + (k + 1) <= Len(past) =>
          i + 1 \in 1..Len(past) /\ (i + 1) + k <= Len(past)
    BY <1>1
  <2>4. \A i \in 1..Len(past) : i + 1 \in 1..Len(past) => Tail(all)[i] = past[i + 1]
    BY <1>1, <2>1
  <2>5. Len(Remember(past)) = Len(past) /\ \A i : Remember(past)[i] = Tail(all)[i]
    BY <1>3, <2>1
  <2>6. ASSUME NEW i \in 1..Len(Remember(past)), NEW k \in Nat, i + (k + 1) <= Len(Remember(past))
        PROVE  \E j \in 1..Len(past) : j + k <= Len(past) /\ Remember(past)[i] = past[j]
    <3>1. i \in 1..Len(past) /\ i + (k + 1) <= Len(past)
      BY <2>5, <2>6
    <3>2. i + 1 \in 1..Len(past) /\ (i + 1) + k <= Len(past)
      BY <2>3, <3>1
    <3>3. Remember(past)[i] = past[i + 1]
      BY <2>4, <2>5, <3>1, <3>2, Zenon
    <3> QED
      BY <3>2, <3>3
  <2>7. ASSUME NEW i \in 1..Len(Remember(past))
        PROVE  Remember(past)[i] = now \/ \E j \in 1..Len(past) : Remember(past)[i] = past[j]
    <3>1. i \in 1..Len(past)
      BY <2>5
    <3>2. Remember(past)[i] = all[i + 1]
      BY <2>1, <2>5, <3>1, Zenon
    <3> QED
      BY <1>1, <2>2, <3>1, <3>2, Zenon
  <2> QED
    BY <2>6, <2>7, Zenon
<1> QED
  BY <1>2, <1>3, Zenon DEF Remember, all

\* So the bounds on it move by one.
LEMMA Granted ==
  ASSUME now \in Nat, NEW past \in Seq(Nat), NEW k \in Nat, NEW t \in Nat
  PROVE  /\ Old(past, k, t) => Old(Remember(past), k + 1, t)
         /\ Upto(past, k, t) => Upto(Remember(past), k + 1, t)
         /\ Upto(past, 0, now) => Upto(Remember(past), 0, now)
<1> DEFINE r == Remember(past)
<1>1. /\ \A i \in 1..Len(r) : i + (k + 1) <= Len(r) =>
           \E j \in 1..Len(past) : j + k <= Len(past) /\ r[i] = past[j]
      /\ \A i \in 1..Len(r) : r[i] = now \/ \E j \in 1..Len(past) : r[i] = past[j]
  BY Moved
<1>2. Len(past) \in Nat
  OBVIOUS
<1> HIDE DEF r
<1>3. ASSUME Old(past, k, t) PROVE Old(r, k + 1, t)
  BY <1>1, <1>3, Zenon DEF Old
<1>4. ASSUME Upto(past, k, t) PROVE Upto(r, k + 1, t)
  BY <1>1, <1>4 DEF Upto
<1>5. ASSUME Upto(past, 0, now) PROVE Upto(r, 0, now)
  <2>1. \A j \in 1..Len(past) : past[j] <= now
    BY <1>2, <1>5 DEF Upto
  <2>2. \A i \in 1..Len(r) : r[i] <= now
    <3> SUFFICES ASSUME NEW i \in 1..Len(r) PROVE r[i] <= now
      OBVIOUS
    <3>1. CASE r[i] = now
      BY <3>1
    <3>2. CASE \E j \in 1..Len(past) : r[i] = past[j]
      BY <2>1, <3>2
    <3> QED
      BY <1>1, <3>1, <3>2
  <2> QED
    BY <2>2, Zenon DEF Upto
<1> QED
  BY <1>3, <1>4, <1>5 DEF r

LEMMA PastTick ==
  ASSUME TypeOK, Tick, NEW ip \in IPs, Past(ip)
  PROVE  Past(ip)'
<1> USE RateLimiterAssumption DEF RateLimiterAssumption
<1>1. /\ requests' = requests /\ granted' = granted /\ now' = now + 1 /\ now \in Nat
      /\ granted[ip] \in Seq(Nat) /\ Len(granted[ip]) \in Nat
  BY DEF Tick, TypeOK
<1>2. \A i \in 1..Len(granted[ip]) : granted[ip][i] \in Nat
  BY <1>1, SMTT(30)
<1>3. Upto(granted[ip], 0, now')
  BY <1>1, <1>2 DEF Past, Upto
<1>4. CASE ~Live(ip)
  <2>1. ~Live(ip)'
    BY <1>1, <1>4 DEF Live, Elapsed, TypeOK
  <2>2. Old(granted[ip], MaxPerWindow, now')
    <3>1. Old(granted[ip], MaxPerWindow, now)
      BY <1>4 DEF Past
    <3>2. ASSUME NEW i \in 1..Len(granted[ip]), i + MaxPerWindow <= Len(granted[ip])
          PROVE  granted[ip][i] + Window < now'
      <4>1. granted[ip][i] + Window < now
        BY <3>1, <3>2 DEF Old
      <4>2. granted[ip][i] \in Nat
        BY <1>2, Zenon
      <4>3. now' = now + 1 /\ now \in Nat
        BY <1>1, Zenon
      <4> QED
        BY <4>1, <4>2, <4>3, SMTT(30)
    <3> QED
      BY <3>2 DEF Old
  <2> QED
    BY <1>1, <1>3, <2>1, <2>2 DEF Past, Upto, Old
<1>5. CASE Live(ip)
  <2>1. requests[ip].ts \in Nat /\ requests[ip].n \in Nat
    BY <1>5 DEF Live, TypeOK
  <2>2. CASE Live(ip)'
    BY <1>1, <1>3, <1>5, <2>2 DEF Past, Upto, Old
  <2>3. CASE ~Live(ip)'
    <3>1. requests[ip].ts + Window < now'
      BY <1>1, <1>5, <2>1, <2>3 DEF Live, Elapsed
    <3>2. Old(granted[ip], MaxPerWindow, now')
      <4>1. Upto(granted[ip], requests[ip].n, requests[ip].ts) /\ requests[ip].n <= MaxPerWindow
        BY <1>5 DEF Past
      <4>2. ASSUME NEW i \in 1..Len(granted[ip]), i + MaxPerWindow <= Len(granted[ip])
            PROVE  granted[ip][i] + Window < now'
        <5>1. i + requests[ip].n <= Len(granted[ip])
          BY <1>1, <2>1, <4>1, <4>2, SMTT(30)
        <5>2. granted[ip][i] <= requests[ip].ts
          BY <4>1, <5>1 DEF Upto
        <5>3. granted[ip][i] \in Nat /\ requests[ip].ts \in Nat
          BY <1>2, <2>1, Zenon
        <5>4. now' = now + 1 /\ now \in Nat
          BY <1>1, Zenon
        <5> QED
          BY <3>1, <5>2, <5>3, <5>4, SMTT(30)
      <4> QED
        BY <4>2 DEF Old
    <3> QED
      BY <1>1, <1>3, <2>3, <3>2 DEF Past, Upto, Old
  <2> QED
    BY <2>2, <2>3
<1> QED
  BY <1>4, <1>5

\* A call leaves the others' grants alone, and an eviction takes no live window.
LEMMA PastOthers ==
  ASSUME TypeOK, NEW ip \in IPs, check(ip), NEW other \in IPs, other # ip, Past(other)
  PROVE  Past(other)'
<1>1. /\ Kept \subseteq DOMAIN requests
      /\ \A i \in DOMAIN requests \ Kept : Elapsed(requests[i])
  BY DEF Kept
<1>2. /\ DOMAIN requests' = Kept \cup {ip} /\ now' = now /\ granted'[other] = granted[other]
      /\ other \in Kept => requests'[other] = requests[other]
  BY DEF check, TypeOK
<1>3. /\ Live(other)' <=> Live(other)
      /\ Live(other) => requests'[other] = requests[other]
  BY <1>1, <1>2 DEF Live, Elapsed
<1> QED
  BY <1>2, <1>3 DEF Past, Upto, Old

\* The caller's window: it goes on, or a new one starts.
LEMMA PastCaller ==
  ASSUME MaxPerWindow > 0, TypeOK, NEW ip \in IPs, check(ip), Past(ip)
  PROVE  /\ Past(ip)'
         /\ granted'[ip] # granted[ip] /\ Len(granted[ip]) = 2 * MaxPerWindow =>
              now - Head(granted[ip]) > Window
<1> USE RateLimiterAssumption DEF RateLimiterAssumption
<1> DEFINE e == Entry(ip)
<1>1. /\ Kept \subseteq DOMAIN requests
      /\ \A i \in DOMAIN requests \ Kept : Elapsed(requests[i])
  BY DEF Kept
<1>2. /\ requests'[ip] = Counted(e) /\ ip \in DOMAIN requests' /\ now' = now /\ now \in Nat
      /\ granted'[ip] = IF Allowed(e) THEN Remember(granted[ip]) ELSE granted[ip]
      /\ granted[ip] \in Seq(Nat) /\ Len(granted[ip]) \in Nat
  BY DEF check, TypeOK
<1>3. e \in [n : Nat, ts : 0..now]
  BY EntryType
<1>4. \A i \in 1..Len(granted[ip]) : granted[ip][i] \in Nat
  BY <1>2
<1>5. Len(granted[ip]) = 2 * MaxPerWindow => 1 \in 1..Len(granted[ip]) /\ Head(granted[ip]) = granted[ip][1]
  BY <1>2
<1>6. CASE Live(ip)
  <2>1. e = requests[ip] /\ ~Elapsed(e)
    BY <1>1, <1>6 DEF Live, Entry
  <2> HIDE DEF e
  <2>2. /\ e.n \in Nat /\ e.ts \in Nat /\ e.ts <= now /\ e.n <= MaxPerWindow
        /\ Upto(granted[ip], 0, now) /\ Upto(granted[ip], e.n, e.ts)
        /\ Old(granted[ip], e.n + MaxPerWindow, e.ts)
    BY <1>3, <1>6, <2>1 DEF Past
  <2>3. CASE Allowed(e)
    <3>1. /\ e.n < MaxPerWindow /\ requests'[ip] = [n |-> e.n + 1, ts |-> e.ts]
          /\ granted'[ip] = Remember(granted[ip])
      BY <1>2, <1>3, <2>1, <2>3 DEF Allowed, Counted
    <3>2. Live(ip)'
      BY <1>2, <2>1, <3>1 DEF Live, Elapsed
    <3>3. e.n + MaxPerWindow \in Nat /\ (e.n + MaxPerWindow) + 1 = (e.n + 1) + MaxPerWindow
      BY <2>2
    <3>4. /\ Upto(granted'[ip], 0, now) /\ Upto(granted'[ip], e.n + 1, e.ts)
          /\ Old(granted'[ip], (e.n + 1) + MaxPerWindow, e.ts)
      BY <1>2, <2>2, <3>1, <3>3, Granted, Zenon
    <3>5. Past(ip)'
      BY <1>2, <2>2, <3>1, <3>2, <3>4 DEF Past, Upto, Old
    <3>6. Len(granted[ip]) = 2 * MaxPerWindow => granted[ip][1] + Window < e.ts
      <4> SUFFICES ASSUME Len(granted[ip]) = 2 * MaxPerWindow
                   PROVE  granted[ip][1] + Window < e.ts
        OBVIOUS
      <4>1. 1 + (e.n + MaxPerWindow) <= Len(granted[ip])
        BY <2>2, <3>1
      <4> QED
        BY <1>5, <2>2, <4>1 DEF Old
    <3>7. Len(granted[ip]) = 2 * MaxPerWindow => now - Head(granted[ip]) > Window
      <4> SUFFICES ASSUME Len(granted[ip]) = 2 * MaxPerWindow
                   PROVE  now - granted[ip][1] > Window
        BY <1>5
      <4>1. granted[ip][1] \in Nat
        BY <1>4, <1>5
      <4>2. granted[ip][1] + Window < e.ts /\ e.ts \in Nat /\ e.ts <= now /\ now \in Nat
        BY <1>2, <2>2, <3>6, SMTT(30)
      <4> QED
        BY <4>1, <4>2, SMTT(30)
    <3> QED
      BY <3>5, <3>7
  <2>4. CASE ~Allowed(e)
    <3>1. requests'[ip] = e /\ granted'[ip] = granted[ip]
      BY <1>2, <2>1, <2>4 DEF Counted
    <3>2. Live(ip)'
      BY <1>2, <2>1, <3>1 DEF Live, Elapsed
    <3> QED
      BY <1>2, <2>2, <3>1, <3>2, Zenon DEF Past, Upto, Old
  <2> QED
    BY <2>3, <2>4
<1>7. CASE ~Live(ip)
  <2>1. Allowed(e) /\ (Elapsed(e) \/ e = [n |-> 0, ts |-> now])
    BY <1>1, <1>7 DEF Live, Entry, Allowed
  <2> HIDE DEF e
  <2>2. requests'[ip] = [n |-> 1, ts |-> now] /\ granted'[ip] = Remember(granted[ip])
    BY <1>2, <1>3, <2>1, SMTT(30) DEF Counted
  <2>3. Live(ip)'
    BY <1>2, <2>2 DEF Live, Elapsed
  <2>4. Upto(granted[ip], 0, now) /\ Old(granted[ip], MaxPerWindow, now)
    BY <1>7 DEF Past
  <2>5. /\ Upto(granted'[ip], 0, now) /\ Upto(granted'[ip], 1, now)
        /\ Old(granted'[ip], 1 + MaxPerWindow, now)
    <3>1. Old(granted'[ip], MaxPerWindow + 1, now) /\ Upto(granted'[ip], 0 + 1, now)
      BY <1>2, <2>2, <2>4, Granted
    <3>2. Upto(granted'[ip], 0, now)
      BY <1>2, <2>2, <2>4, Granted
    <3> QED
      BY <3>1, <3>2, SMTT(30) DEF Old, Upto
  <2>6. Past(ip)'
    BY <1>2, <2>2, <2>3, <2>5 DEF Past, Upto, Old
  <2>7. Len(granted[ip]) = 2 * MaxPerWindow => granted[ip][1] + Window < now
    BY <1>5, <2>4 DEF Old
  <2>8. Len(granted[ip]) = 2 * MaxPerWindow => now - Head(granted[ip]) > Window
    <3> SUFFICES ASSUME Len(granted[ip]) = 2 * MaxPerWindow
                 PROVE  now - granted[ip][1] > Window
      BY <1>5
    <3>1. granted[ip][1] \in Nat
      BY <1>4, <1>5
    <3>2. granted[ip][1] + Window < now /\ now \in Nat
      BY <1>2, <2>7
    <3> QED
      BY <3>1, <3>2
  <2> QED
    BY <2>6, <2>8
<1> QED
  BY <1>6, <1>7

\* No stretch of time as long as a window sees more than twice the limit granted to
\* an address, wherever the windows fall and whatever is evicted.
THEOREM BurstsBounded ==
  ASSUME MaxPerWindow > 0
  PROVE  Spec => BurstBounded
<1> DEFINE AllPast == \A ip \in IPs : Past(ip)
           Spaced == \A ip \in IPs :
             granted'[ip] # granted[ip] /\ Len(granted[ip]) = 2 * MaxPerWindow =>
               now - Head(granted[ip]) > Window
<1>1. Init => AllPast
  BY DEF Init, Past, Live, Old, Upto
<1>2. TypeOK /\ AllPast /\ [Next]_vars => AllPast' /\ [Spaced]_vars
  <2> SUFFICES ASSUME TypeOK, AllPast, [Next]_vars PROVE AllPast' /\ [Spaced]_vars
    OBVIOUS
  <2>1. CASE Tick
    <3>1. granted' = granted
      BY <2>1 DEF Tick
    <3> QED
      BY <2>1, <3>1, PastTick
  <2>2. ASSUME NEW ip \in IPs, check(ip) PROVE AllPast' /\ [Spaced]_vars
    <3>1. \A other \in IPs : other # ip => granted'[other] = granted[other]
      BY <2>2 DEF check, TypeOK
    <3> QED
      BY <2>2, <3>1, PastCaller, PastOthers
  <2>3. CASE UNCHANGED vars
    BY <2>3 DEF vars, Past, Live, Elapsed, Old, Upto
  <2> QED
    BY <2>1, <2>2, <2>3 DEF Next
<1> QED
  BY <1>1, <1>2, TypeCorrect, PTL DEF Spec, BurstBounded
=============================================================================
