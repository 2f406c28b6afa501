------------------------------- MODULE Quota -------------------------------
(***************************************************************************)
(* What a rate limiter promises, without saying how it remembers: an       *)
(* address is refused exactly while it has used up Max grants, and what it *)
(* has used is forgotten only as a whole, as time passes.                  *)
(***************************************************************************)
EXTENDS Naturals

CONSTANTS IPs, Max

VARIABLES used,   \* grants of each address that still count
          answer  \* the last request and what it was told

Init ==
  /\ used = [ip \in IPs |-> 0]
  /\ answer = <<>>

Grant(ip) ==
  /\ used[ip] < Max
  /\ used' = [used EXCEPT ![ip] = @ + 1]
  /\ answer' = <<ip, TRUE>>

Deny(ip) ==
  /\ used[ip] >= Max
  /\ answer' = <<ip, FALSE>>
  /\ UNCHANGED used

Lapse ==
  /\ \E gone \in SUBSET IPs : used' = [ip \in IPs |-> IF ip \in gone THEN 0 ELSE used[ip]]
  /\ UNCHANGED answer

Next == Lapse \/ \E ip \in IPs : Grant(ip) \/ Deny(ip)

Spec == Init /\ [][Next]_<<used, answer>>
=============================================================================
