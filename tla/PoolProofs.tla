----------------------------- MODULE PoolProofs -----------------------------
(* What callers of the pool are told and what an accepted swap holds, for  *)
(* any number of callers, attempts and requests in progress.               *)
EXTENDS Pool, FiniteSetTheorems, TLAPS

PoolState == [total : Int, open : SUBSET Entries]
OpRec == [pc : Pc, role : Roles \cup {None}, kind : Kinds \cup {None},
          att : 0..(Attempts - 1),
          tx : Txs \cup {None},
          cur : Entries \cup {None}, todo : SUBSET Entries, count : Nat,
          answer : Outcomes \cup {None}]
LateRec == [by : Callers, kind : Kinds, entry : Entries \cup {None}]

HistOK == hist \in Seq(PoolState) /\ hist # <<>>
OpOK == op \in [Callers -> OpRec]
RestOK ==
  /\ late \subseteq LateRec
  /\ landed \in [Callers -> Nat]
  /\ echoed \subseteq Callers
  /\ row \in [Callers -> Entries \cup {None}]
  /\ active \subseteq Callers /\ expired \subseteq Callers

\* TypeOK, part by part.
LEMMA TypeParts == TypeOK <=> HistOK /\ OpOK /\ RestOK
  BY DEF TypeOK, HistOK, OpOK, RestOK, PoolState, OpRec, LateRec

-----------------------------------------------------------------------------
(* The inductive invariant, caller by caller.                              *)

\* How the fields of a caller's record go together.
Shape(r) ==
  /\ r.pc = "sent" <=> r.tx # None
  /\ r.pc \in {"precheck", "created"} => r.kind = "create"
  /\ r.pc = "loop" => r.kind = "cancel"
  /\ r.pc \in {"build", "sent"} => r.kind # None
  /\ r.pc = "idle" => r.kind = None
  /\ r.kind = "create" <=> r.role = "swap"
  /\ r.answer # None => r.pc = "done"

\* Cancel loops have expired entries only.
Cancels(r) ==
  r.kind = "cancel" =>
    /\ \A e \in r.todo : e[1] \in expired
    /\ r.pc \in {"build", "sent"} => r.cur \in Entries /\ r.cur[1] \in expired

\* How often the caller's transaction has landed, n, ...
Once(r, n) ==
  r.kind # "cancel" =>
    /\ n <= 1
    /\ r.pc \in {"idle", "precheck", "build"} => n = 0
    /\ r.pc = "sent" => (n = 1 <=> r.tx = "accepted")
    /\ r.pc = "created" \/ r.answer = "ok" => n = 1
    /\ r.answer = "exhausted" => n = 0

\* ... and how many cancellations are counted.
Counts(r, n) ==
  /\ r.count <= n
  /\ r.kind = "cancel" /\ r.tx = "accepted" => r.count < n

\* A swap request that got its entry still has it.
Holds(x, r, s) ==
  r.kind = "create" /\ (r.tx = "accepted" \/ r.pc = "created") => <<x, r.att>> \in s.open

CallerInv ==
  \A x \in Callers :
    /\ Shape(op[x]) /\ Cancels(op[x])
    /\ x \notin echoed => Once(op[x], landed[x])
    /\ Counts(op[x], landed[x])
    /\ Holds(x, op[x], Current)

\* A transaction nobody waits for has a submitter that knows no better.
Left(t) ==
  /\ t.kind = "create" => t.entry \in Entries
  /\ t.kind = "cancel" => t.entry \in Entries /\ t.entry[1] \in expired
  /\ t.by \notin echoed /\ op[t.by].kind # "cancel" =>
       landed[t.by] = 0 /\ op[t.by].answer \in {"failed", "timeout"}
LateInv == \A t \in late : Left(t)

\* An active row belongs to its own entry.
RowInv ==
  \A x \in Callers :
    /\ x \in active => /\ row[x] \in Entries /\ row[x][1] = x
                       /\ op[x].pc = "done"
    /\ x \in expired => op[x].pc = "done"

IInv == TypeOK /\ CallerInv /\ LateInv /\ RowInv /\ Reserved

-----------------------------------------------------------------------------
(* Types.                                                                  *)

LEMMA CurrentType ==
  ASSUME HistOK
  PROVE  Current \in PoolState /\ Indexed \in PoolState /\ Len(hist) \in Nat \ {0}
  BY DEF HistOK, Current, Indexed

LEMMA EffectType ==
  ASSUME NEW k \in Kinds, NEW e, NEW s \in PoolState, k = "create" => e \in Entries
  PROVE  /\ Effect(k, e, s) \in PoolState
         /\ k # "cancel" => s.open \subseteq Effect(k, e, s).open
         /\ k = "create" => e \in Effect(k, e, s).open
         /\ k = "cancel" => Effect(k, e, s).open = s.open \ {e}
<1>1. CASE k = "deposit" \/ k = "withdraw"
  BY <1>1 DEF Effect, PoolState
<1>2. CASE k = "create"
  BY <1>2 DEF Effect, PoolState
<1>3. CASE k = "cancel"
  BY <1>3 DEF Effect, PoolState
<1> QED
  BY <1>1, <1>2, <1>3 DEF Kinds

LEMMA Appended ==
  ASSUME HistOK, NEW s \in PoolState, hist' = Append(hist, s)
  PROVE  HistOK' /\ Current' = s
<1>1. /\ hist' \in Seq(PoolState)
      /\ Len(hist') = Len(hist) + 1
      /\ hist'[Len(hist) + 1] = s
  BY DEF HistOK
<1>2. Len(hist) \in Nat
  BY DEF HistOK
<1> QED
  BY <1>1, <1>2 DEF HistOK, Current

LEMMA Indexes ==
  ASSUME HistOK, Len(hist) > 1, hist' = Tail(hist)
  PROVE  HistOK' /\ Current' = Current
<1>1. /\ hist' \in Seq(PoolState)
      /\ Len(hist') = Len(hist) - 1
      /\ \A i \in 1..(Len(hist) - 1) : hist'[i] = hist[i + 1]
  BY DEF HistOK
<1>2. Len(hist) \in Nat
  BY DEF HistOK
<1> QED
  BY <1>1, <1>2, SMTT(30) DEF HistOK, Current

\* The entry a transaction is about.
LEMMA EntryType ==
  ASSUME OpOK, NEW x \in Callers
  PROVE  /\ EntryOf(x) \in Entries \cup {None}
         /\ op[x].kind = "create" => EntryOf(x) \in Entries /\ EntryOf(x) = <<x, op[x].att>>
         /\ op[x].kind # "create" => EntryOf(x) = op[x].cur
<1>1. op[x].att \in 0..(Attempts - 1) /\ op[x].cur \in Entries \cup {None}
  BY DEF OpOK, OpRec
<1>2. <<x, op[x].att>> \in Entries
  BY <1>1 DEF Entries
<1> QED
  BY <1>1, <1>2 DEF EntryOf

LEMMA EndsType ==
  ASSUME OpOK, NEW x \in Callers, NEW a \in Outcomes
  PROVE  Ends(x, a) \in OpRec
<1>1. op[x] \in OpRec
  BY DEF OpOK
<1>2. 0 \in 0..(Attempts - 1) /\ op[x].count \in Nat
  BY <1>1, PoolAssumption DEF OpRec
<1>3. CASE op[x].kind = "cancel"
  <2>1. CASE a = "ok"
    <3> DEFINE n == op[x].count + 1
    <3>1. n \in Nat
      BY <1>2
    <3>2. Ends(x, a) = [op[x] EXCEPT !.pc = "loop", !.att = 0, !.tx = None, !.cur = None, !.count = n]
      BY <1>3, <2>1 DEF Ends
    <3> HIDE DEF n
    <3> QED
      BY <1>1, <1>2, <3>1, <3>2, ZenonT(40) DEF OpRec, Pc
  <2>2. CASE a # "ok"
    BY <1>1, <1>2, <1>3, <2>2, ZenonT(40) DEF Ends, OpRec, Pc
  <2> QED
    BY <2>1, <2>2
<1>4. CASE op[x].kind # "cancel"
  BY <1>1, <1>2, <1>4, ZenonT(40) DEF Ends, OpRec, Pc
<1> QED
  BY <1>3, <1>4

\* The invariant holds at first.
LEMMA IndInit == Init => IInv
<1> SUFFICES ASSUME Init PROVE IInv
  OBVIOUS
<1> USE PoolAssumption
<1>1. HistOK
  BY DEF Init, HistOK, PoolState
<1>2. OpOK
  BY DEF Init, OpOK, OpRec, Idle, Pc
<1>3. RestOK
  BY DEF Init, RestOK
<1>4. \A x \in Callers : op[x] = Idle /\ landed[x] = 0
  BY DEF Init
<1>5. CallerInv
  BY <1>4 DEF CallerInv, Idle, Kinds, Roles, Txs, Outcomes, Shape, Cancels, Once, Counts, Holds
<1>6. LateInv /\ RowInv /\ Reserved
  BY DEF Init, LateInv, RowInv, Reserved
<1> QED
  BY <1>1, <1>2, <1>3, <1>5, <1>6, TypeParts DEF IInv

-----------------------------------------------------------------------------
(* A step of one caller's own task.                                        *)

\* A transaction left behind, and what is known of it.
LEMMA DepartedLeft ==
  ASSUME IInv, NEW x \in Callers, op[x].tx = "valid"
  PROVE  /\ Departed(x) = {[by |-> x, kind |-> op[x].kind, entry |-> EntryOf(x)]}
         /\ op[x].kind \in Kinds
         /\ EntryOf(x) \in Entries \cup {None}
         /\ op[x].kind = "create" => EntryOf(x) \in Entries
         /\ op[x].kind = "cancel" => EntryOf(x) \in Entries /\ EntryOf(x)[1] \in expired
         /\ x \notin echoed /\ op[x].kind # "cancel" => landed[x] = 0
<1>1. op[x] \in OpRec /\ landed[x] \in Nat
  BY TypeParts DEF IInv, OpOK, RestOK
<1>2. op[x].pc = "sent" /\ op[x].kind \in Kinds
  BY <1>1, PoolAssumption DEF IInv, CallerInv, Shape, OpRec, Txs
<1>3. x \notin echoed /\ op[x].kind # "cancel" => landed[x] = 0
  BY <1>1, <1>2 DEF IInv, CallerInv, Once
<1>4. op[x].kind = "cancel" => op[x].cur \in Entries /\ op[x].cur[1] \in expired
  BY <1>2 DEF IInv, CallerInv, Cancels
<1>5. /\ EntryOf(x) \in Entries \cup {None}
      /\ op[x].kind = "create" => EntryOf(x) \in Entries
      /\ op[x].kind # "create" => EntryOf(x) = op[x].cur
  BY EntryType, TypeParts, Zenon DEF IInv
<1> QED
  BY <1>2, <1>3, <1>4, <1>5 DEF Departed

\* Then it is enough to look at the caller's record.
LEMMA OpStep ==
  ASSUME IInv, NEW x \in Callers, NEW r \in OpRec,
         op' = [op EXCEPT ![x] = r],
         UNCHANGED <<hist, landed, row, active, expired>>,
         echoed \subseteq echoed', echoed' \subseteq Callers,
         \/ late' = late
         \/ /\ late' = late \cup Departed(x)
            /\ r.kind # "cancel" => x \in echoed' \/ op[x].tx # "valid" \/ r.answer \in {"failed", "timeout"},
         op[x].pc # "done", op[x].kind = "cancel" => r.kind = "cancel",
         Shape(r), Cancels(r), x \notin echoed' => Once(r, landed[x]),
         Counts(r, landed[x]), Holds(x, r, Current)
  PROVE  IInv'
<1>1. HistOK /\ OpOK /\ RestOK
  BY TypeParts DEF IInv
<1>2. /\ op'[x] = r
      /\ \A y \in Callers : y # x => op'[y] = op[y]
      /\ OpOK'
  BY <1>1 DEF OpOK
<1>3. HistOK' /\ Current' = Current
  BY <1>1 DEF HistOK, Current
<1>4. x \notin active /\ x \notin expired
  BY DEF IInv, RowInv
<1>5. CallerInv'
  <2> SUFFICES ASSUME NEW y \in Callers
               PROVE  /\ Shape(op[y])' /\ Cancels(op[y])'
                      /\ y \notin echoed' => Once(op[y], landed[y])'
                      /\ Counts(op[y], landed[y])'
                      /\ Holds(y, op[y], Current)'
    BY ZenonT(40) DEF CallerInv
  <2>1. CASE y = x
    BY <1>2, <1>3, <2>1, SMTT(30) DEF Shape, Cancels, Once, Counts, Holds
  <2>2. CASE y # x
    <3>1. op'[y] = op[y] /\ (y \notin echoed' => y \notin echoed)
      BY <1>2, <2>2
    <3> QED
      BY <1>3, <3>1 DEF IInv, CallerInv, Shape, Cancels, Once, Counts, Holds
  <2> QED
    BY <2>1, <2>2
<1>6. late' \subseteq LateRec /\ LateInv'
  <2> SUFFICES ASSUME NEW t \in late'
               PROVE  t \in LateRec /\ Left(t)'
    BY DEF LateInv
  <2>1. CASE t \in late
    <3>1. t \in LateRec /\ Left(t)
      BY <1>1, <2>1, Zenon DEF IInv, LateInv, RestOK
    <3>2. CASE t.by = x
      <4>1. x \in echoed \/ op[x].kind = "cancel"
        <5>1. op[x].answer \notin {"failed", "timeout"}
          BY PoolAssumption, ZenonT(40) DEF IInv, CallerInv, Shape, Outcomes
        <5> QED
          BY <3>1, <3>2, <5>1, Zenon DEF Left
      <4> QED
        BY <1>2, <3>1, <3>2, <4>1, Zenon DEF Left
    <3>3. CASE t.by # x
      <4>1. t.by \in Callers /\ op'[t.by] = op[t.by]
        BY <1>2, <3>1, <3>3, Zenon DEF LateRec
      <4> QED
        BY <3>1, <4>1 DEF Left
    <3> QED
      BY <3>2, <3>3
  <2>2. CASE t \notin late
    <3>1. t \in Departed(x) /\ op[x].tx = "valid"
      BY <2>2, Zenon DEF Departed
    <3>2. t = [by |-> x, kind |-> op[x].kind, entry |-> EntryOf(x)]
      BY <3>1, DepartedLeft, Zenon
    <3>3. t \in LateRec /\ t.by = x /\ t.kind = op[x].kind /\ t.entry = EntryOf(x)
      BY <3>1, <3>2, DepartedLeft, Zenon DEF LateRec
    <3>4. x \notin echoed' /\ r.kind # "cancel" => landed[x] = 0 /\ r.answer \in {"failed", "timeout"}
      BY <2>2, <3>1, DepartedLeft, Zenon
    <3> QED
      BY <1>2, <3>1, <3>3, <3>4, DepartedLeft, ZenonT(40) DEF Left
  <2> QED
    BY <2>1, <2>2
<1>7. RowInv'
  <2> SUFFICES ASSUME NEW y \in Callers
               PROVE  /\ y \in active => /\ row[y] \in Entries /\ row[y][1] = y
                                         /\ op'[y].pc = "done"
                      /\ y \in expired => op'[y].pc = "done"
    BY Zenon DEF RowInv
  <2>1. CASE y = x
    BY <1>4, <2>1, Zenon
  <2>2. CASE y # x
    BY <1>2, <2>2, SMTT(30) DEF IInv, RowInv
  <2> QED
    BY <2>1, <2>2, Zenon
<1>8. Reserved'
  BY <1>3 DEF IInv, Reserved
<1>9. RestOK'
  BY <1>1, <1>6 DEF RestOK
<1> QED
  BY <1>2, <1>3, <1>5, <1>6, <1>7, <1>8, <1>9, TypeParts, ZenonT(40) DEF IInv, TypeOK, HistOK, OpOK, RestOK,
     PoolState, OpRec, LateRec

\* What is known of a caller before its step.
LEMMA CallerFacts ==
  ASSUME IInv, NEW x \in Callers
  PROVE  /\ op[x] \in OpRec /\ landed[x] \in Nat /\ echoed \subseteq Callers
         /\ Shape(op[x]) /\ Cancels(op[x])
         /\ x \notin echoed => Once(op[x], landed[x])
         /\ Counts(op[x], landed[x])
         /\ Holds(x, op[x], Current)
  BY TypeParts, ZenonT(40) DEF IInv, OpOK, RestOK, CallerInv

\* The ways a transaction ends.  An "ok" needs one that was accepted, and
\* "exhausted" one that was not.
LEMMA EndsFits ==
  ASSUME IInv, NEW x \in Callers, NEW a \in Outcomes, op[x].pc \in {"build", "sent"},
         a = "ok" => op[x].tx = "accepted"
  PROVE  /\ Ends(x, a) \in OpRec
         /\ Shape(Ends(x, a)) /\ Cancels(Ends(x, a))
         /\ x \notin echoed /\ (a = "exhausted" => op[x].tx # "accepted") => Once(Ends(x, a), landed[x])
         /\ Counts(Ends(x, a), landed[x]) /\ Holds(x, Ends(x, a), Current)
         /\ Ends(x, a).kind = op[x].kind
         /\ op[x].kind # "cancel" /\ a # "ok" => Ends(x, a).answer = a
<1> USE PoolAssumption
<1> DEFINE e == Ends(x, a)
<1>1. e \in OpRec
  BY EndsType, TypeParts, SMTT(30) DEF IInv
<1>2. op[x] \in OpRec /\ landed[x] \in Nat
  BY CallerFacts, SMTT(30)
<1>3. CASE op[x].kind = "cancel"
  <2>1. /\ e.pc = "loop" /\ e.tx = None /\ e.kind = "cancel" /\ e.role = op[x].role
        /\ e.todo = op[x].todo /\ e.answer = op[x].answer
        /\ e.count = IF a = "ok" THEN op[x].count + 1 ELSE op[x].count
    BY <1>2, <1>3, ZenonT(40) DEF Ends, OpRec
  <2>2. e.count <= landed[x]
    <3>1. op[x].count \in Nat
      BY <1>2, Zenon DEF OpRec
    <3> QED
      BY <1>2, <1>3, <2>1, <3>1, CallerFacts DEF Counts
  <2>3. Shape(e) /\ Cancels(e)
    BY <1>3, <2>1, CallerFacts, ZenonT(40) DEF Shape, Cancels, Txs
  <2> QED
    BY <1>1, <1>3, <2>1, <2>2, <2>3 DEF Once, Counts, Holds, Txs
<1>4. CASE op[x].kind = "create" /\ a = "ok"
  <2>1. /\ e.pc = "created" /\ e.tx = None /\ e.kind = "create" /\ e.role = op[x].role
        /\ e.answer = op[x].answer /\ e.count = op[x].count /\ e.att = op[x].att
    BY <1>2, <1>4, Zenon DEF Ends, OpRec
  <2>2. Shape(e) /\ Cancels(e) /\ Counts(e, landed[x])
    BY <1>4, <2>1, CallerFacts, ZenonT(40) DEF Shape, Cancels, Counts, Txs
  <2>3. op[x].pc = "sent"
    BY <1>4, CallerFacts, Zenon DEF Shape, Txs
  <2>4. (x \notin echoed => Once(e, landed[x])) /\ Holds(x, e, Current)
    BY <1>2, <1>4, <2>1, <2>3, CallerFacts, ZenonT(40) DEF Shape, Once, Holds, Outcomes, Txs
  <2> QED
    BY <1>1, <1>4, <2>1, <2>2, <2>4
<1>5. CASE op[x].kind # "cancel" /\ ~(op[x].kind = "create" /\ a = "ok")
  <2>1. /\ e.pc = "done" /\ e.tx = None /\ e.kind = op[x].kind /\ e.role = op[x].role
        /\ e.answer = a /\ e.count = op[x].count
    BY <1>2, <1>5, Zenon DEF Ends, OpRec
  <2>2. Shape(e) /\ Cancels(e) /\ Counts(e, landed[x]) /\ Holds(x, e, Current)
    BY <1>5, <2>1, CallerFacts, ZenonT(40) DEF Shape, Cancels, Counts, Holds, Txs
  <2>3. x \notin echoed /\ (a = "exhausted" => op[x].tx # "accepted") => Once(e, landed[x])
    BY <1>2, <1>5, <2>1, CallerFacts DEF Shape, Once, Outcomes, Txs
  <2> QED
    BY <1>1, <1>5, <2>1, <2>2, <2>3
<1> QED
  BY <1>3, <1>4, <1>5

\* Building and the answers to a submission.
LEMMA TransactStep ==
  ASSUME IInv, NEW x \in Callers, Transact(x)
  PROVE  IInv'
<1> USE PoolAssumption
<1>0. /\ op[x] \in OpRec /\ landed[x] \in Nat /\ echoed \subseteq Callers
      /\ "failed" \in Outcomes /\ "ok" \in Outcomes /\ "exhausted" \in Outcomes
  BY CallerFacts DEF Outcomes
<1>1. CASE build_and_submit(x)
  <2>1. op[x].pc = "build" /\ op[x].tx = None /\ UNCHANGED <<hist, late, landed, echoed, row, active, expired>>
    BY <1>0, <1>1, CallerFacts DEF build_and_submit, Shape
  <2>2. PICK r : /\ op' = [op EXCEPT ![x] = r]
                 /\ \/ \E t \in {"valid", "stale"} : r = [op[x] EXCEPT !.pc = "sent", !.tx = t]
                    \/ r = Ends(x, "failed")
    BY <1>0, <1>1, TypeParts, ZenonT(40) DEF build_and_submit, IInv, OpOK
  <2>3. CASE r = Ends(x, "failed")
    BY <1>0, <2>1, <2>2, <2>3, EndsFits, OpStep, Zenon
  <2>4. ASSUME NEW t \in {"valid", "stale"}, r = [op[x] EXCEPT !.pc = "sent", !.tx = t]
        PROVE  IInv'
    <3>1. /\ r \in OpRec /\ r.pc = "sent" /\ r.tx = t /\ r.kind = op[x].kind /\ r.role = op[x].role
          /\ r.todo = op[x].todo /\ r.cur = op[x].cur /\ r.count = op[x].count
          /\ r.answer = op[x].answer
      BY <1>0, <2>4, ZenonT(40) DEF OpRec, Pc, Txs
    <3>2. Shape(r) /\ Cancels(r) /\ Counts(r, landed[x]) /\ Holds(x, r, Current)
      BY <2>1, <3>1, CallerFacts, ZenonT(40) DEF Shape, Cancels, Counts, Holds, Txs
    <3>3. x \notin echoed => Once(r, landed[x])
      <4>1. x \notin echoed /\ r.kind # "cancel" => landed[x] = 0 /\ r.answer # "ok"
        BY <2>1, <3>1, CallerFacts, SMTT(30) DEF Once
      <4> QED
        BY <3>1, <4>1, SMTT(30) DEF Once
    <3> QED
      BY <1>0, <2>1, <2>2, <3>1, <3>2, <3>3, OpStep, ZenonT(40)
  <2> QED
    BY <2>2, <2>3, <2>4
<1>2. CASE submit_ok(x)
  BY <1>0, <1>2, EndsFits, OpStep, Zenon DEF submit_ok
<1>3. CASE retryable_error(x)
  <2>1. /\ op[x].pc = "sent" /\ op[x].tx \in {"rejected", "accepted"}
        /\ UNCHANGED <<hist, landed, row, active, expired>>
        /\ late' = late \cup Departed(x)
        /\ echoed' = IF op[x].tx = "accepted" THEN echoed \cup {x} ELSE echoed
    BY <1>3 DEF retryable_error, is_retryable_submit_err
  <2>2. op[x].tx # "valid" /\ (x \notin echoed' => op[x].tx = "rejected" /\ x \notin echoed)
    BY <2>1, Zenon
  <2>3. CASE Again(x)
    <3> DEFINE r == [op[x] EXCEPT !.pc = "build", !.att = op[x].att + 1, !.tx = None]
    <3>0. op' = [op EXCEPT ![x] = r]
      BY Zenon, <1>3, <2>3 DEF retryable_error
    <3>1. op[x].att + 1 \in 0..(Attempts - 1)
      BY <1>0, <2>3 DEF Again, OpRec
    <3>2. /\ r \in OpRec /\ r.pc = "build" /\ r.tx = None /\ r.kind = op[x].kind /\ r.role = op[x].role
          /\ r.todo = op[x].todo /\ r.cur = op[x].cur /\ r.count = op[x].count
          /\ r.answer = op[x].answer
      BY <1>0, <3>1, Zenon DEF OpRec, Pc
    <3> HIDE DEF r
    <3>3. Shape(r) /\ Cancels(r) /\ Counts(r, landed[x]) /\ Holds(x, r, Current)
      BY <2>1, <3>2, CallerFacts, ZenonT(40) DEF Shape, Cancels, Counts, Holds, Txs
    <3>4. x \notin echoed' => Once(r, landed[x])
      BY <1>0, <2>1, <2>2, <3>2, CallerFacts DEF Once, Shape
    <3> QED
      BY <1>0, <2>1, <2>2, <3>0, <3>2, <3>3, <3>4, OpStep, ZenonT(40)
  <2>4. CASE ~Again(x)
    <3>1. PICK a \in {"failed", "exhausted"} : op' = [op EXCEPT ![x] = Ends(x, a)]
      BY <1>3, <2>4, Zenon DEF retryable_error
    <3>2. a \in Outcomes
      BY <1>0, <3>1
    <3>3. a # "ok" /\ (x \notin echoed' => x \notin echoed /\ op[x].tx # "accepted")
      BY <2>2, <3>1
    <3>4. echoed \subseteq echoed' /\ echoed' \subseteq Callers
      BY <1>0, <2>1
    <3> QED
      BY <2>1, <2>2, <3>1, <3>2, <3>3, <3>4, EndsFits, OpStep, Zenon
  <2> QED
    BY <2>3, <2>4
<1>4. CASE other_error(x)
  BY <1>0, <1>4, EndsFits, OpStep, Zenon DEF other_error
<1> QED
  BY <1>1, <1>2, <1>3, <1>4 DEF Transact

\* The operator's requests and commands begin, and requests time out.
LEMMA OperatorStep ==
  ASSUME IInv, NEW x \in Callers,
         \/ handle_pool_deposit(x) \/ handle_pool_withdraw(x) \/ cardano_deposit(x) \/ cardano_withdraw(x)
         \/ pool_timeout(x) \/ cancel_expired(x) \/ cancel_next(x)
  PROVE  IInv'
<1> USE PoolAssumption
<1>0. op[x] \in OpRec /\ landed[x] \in Nat /\ echoed \subseteq Callers /\ Indexed \in PoolState
  BY CallerFacts, CurrentType, TypeParts DEF IInv
<1>1. ASSUME NEW role \in {"request", "command"}, NEW kind \in {"deposit", "withdraw"}, Begins(x, role, kind)
      PROVE  IInv'
  <2> DEFINE r == [op[x] EXCEPT !.pc = "build", !.role = role, !.kind = kind]
  <2>1. /\ op[x].pc = "idle" /\ op' = [op EXCEPT ![x] = r]
        /\ UNCHANGED <<hist, late, landed, echoed, row, active, expired>>
    BY <1>1 DEF Begins
  <2>2. /\ r \in OpRec /\ r.pc = "build" /\ r.kind = kind /\ r.role = role /\ r.tx = op[x].tx
        /\ r.answer = op[x].answer /\ r.count = op[x].count
    BY <1>0, ZenonT(40) DEF OpRec, Pc, Roles, Kinds
  <2> HIDE DEF r
  <2>3. Shape(r) /\ Cancels(r) /\ Counts(r, landed[x]) /\ Holds(x, r, Current)
    BY <2>1, <2>2, CallerFacts, Zenon DEF Shape, Cancels, Counts, Holds, Kinds, Txs
  <2>4. x \notin echoed => Once(r, landed[x])
    BY <1>0, <2>1, <2>2, CallerFacts, ZenonT(40) DEF Once, Shape, Kinds
  <2>5. op[x].kind # "cancel"
    BY <2>1, CallerFacts, Zenon DEF Shape, Kinds
  <2> QED
    BY <1>0, <2>1, <2>2, <2>3, <2>4, <2>5, OpStep, ZenonT(40)
<1>2. CASE pool_timeout(x)
  <2> DEFINE r == [op[x] EXCEPT !.pc = "done", !.att = 0, !.tx = None, !.answer = "timeout"]
  <2>0. 0 \in 0..(Attempts - 1)
    OBVIOUS
  <2>1. /\ op[x].pc \in {"precheck", "build", "sent"}
        /\ op' = [op EXCEPT ![x] = r]
        /\ late' = late \cup Departed(x)
        /\ UNCHANGED <<hist, landed, echoed, row, active, expired>>
    BY <1>2 DEF pool_timeout
  <2>2. /\ r \in OpRec /\ r.pc = "done" /\ r.kind = op[x].kind /\ r.role = op[x].role /\ r.tx = None
        /\ r.answer = "timeout" /\ r.count = op[x].count /\ r.todo = op[x].todo
    BY <1>0, <2>0, Zenon DEF OpRec, Pc, Outcomes
  <2> HIDE DEF r
  <2>3. Shape(r) /\ Cancels(r) /\ Counts(r, landed[x]) /\ Holds(x, r, Current)
    BY <2>1, <2>2, CallerFacts, ZenonT(40) DEF Shape, Cancels, Counts, Holds, Kinds, Txs
  <2>4. x \notin echoed => Once(r, landed[x])
    BY <1>0, <2>1, <2>2, CallerFacts DEF Once
  <2> QED
    BY <1>0, <2>1, <2>2, <2>3, <2>4, OpStep, Zenon
<1>3. CASE cancel_expired(x)
  <2> DEFINE T == {e \in Indexed.open : e[1] \in expired}
             r == [op[x] EXCEPT !.pc = "loop", !.role = "command", !.kind = "cancel", !.todo = T]
  <2>1. /\ op[x].pc = "idle" /\ op' = [op EXCEPT ![x] = r]
        /\ UNCHANGED <<hist, late, landed, echoed, row, active, expired>>
    BY <1>3 DEF cancel_expired
  <2>2. T \in SUBSET Entries /\ \A e \in T : e[1] \in expired
    BY <1>0 DEF PoolState
  <2> HIDE DEF T
  <2>3. /\ r \in OpRec /\ r.pc = "loop" /\ r.kind = "cancel" /\ r.role = "command" /\ r.tx = op[x].tx
        /\ r.answer = op[x].answer /\ r.count = op[x].count /\ r.todo = T
    BY <1>0, <2>2, Zenon DEF OpRec, Pc, Roles, Kinds
  <2> HIDE DEF r
  <2>4. /\ Shape(r) /\ Cancels(r) /\ Counts(r, landed[x]) /\ Holds(x, r, Current)
        /\ Once(r, landed[x])
    BY <2>1, <2>2, <2>3, CallerFacts, ZenonT(40) DEF Shape, Cancels, Once, Counts, Holds, Txs
  <2> QED
    BY <1>0, <2>1, <2>3, <2>4, OpStep, Zenon
<1>4. CASE cancel_next(x)
  <2>1. /\ op[x].pc = "loop" /\ op[x].kind = "cancel"
        /\ UNCHANGED <<hist, late, landed, echoed, row, active, expired>>
    BY <1>4, CallerFacts, ZenonT(40) DEF cancel_next, Shape
  <2>2. ASSUME NEW e \in op[x].todo,
               op' = [op EXCEPT ![x] = [op[x] EXCEPT !.pc = "build", !.cur = e, !.todo = op[x].todo \ {e}]]
        PROVE  IInv'
    <3> DEFINE T == op[x].todo \ {e}
               r == [op[x] EXCEPT !.pc = "build", !.cur = e, !.todo = T]
    <3>0. op[x].todo \in SUBSET Entries /\ \A f \in op[x].todo : f[1] \in expired
      BY <1>0, <2>1, CallerFacts, ZenonT(40) DEF OpRec, Cancels
    <3>1. e \in Entries /\ e[1] \in expired /\ T \in SUBSET Entries /\ \A f \in T : f[1] \in expired
      BY <3>0
    <3>2. op' = [op EXCEPT ![x] = r]
      BY <2>2
    <3> HIDE DEF T
    <3>3. /\ r \in OpRec /\ r.pc = "build" /\ r.kind = "cancel" /\ r.role = op[x].role /\ r.tx = op[x].tx
          /\ r.answer = op[x].answer /\ r.count = op[x].count /\ r.todo = T /\ r.cur = e
      BY <1>0, <2>1, <3>1, ZenonT(40) DEF OpRec, Pc
    <3> HIDE DEF r
    <3>6. Shape(r)
      BY <2>1, <3>3, CallerFacts, ZenonT(40) DEF Shape, Kinds, Txs
    <3>4. Shape(r) /\ Cancels(r)
      BY <3>1, <3>3, <3>6, Zenon DEF Cancels
    <3>5. Once(r, landed[x]) /\ Counts(r, landed[x]) /\ Holds(x, r, Current)
      BY <2>1, <3>3, CallerFacts, ZenonT(40) DEF Shape, Once, Counts, Holds, Txs
    <3> QED
      BY <1>0, <2>1, <3>2, <3>3, <3>4, <3>5, OpStep, ZenonT(40)
  <2>3. CASE op' = [op EXCEPT ![x] = [op[x] EXCEPT !.pc = "done"]]
    <3> DEFINE r == [op[x] EXCEPT !.pc = "done"]
    <3>1. /\ r \in OpRec /\ r.pc = "done" /\ r.kind = "cancel" /\ r.role = op[x].role /\ r.tx = op[x].tx
          /\ r.answer = op[x].answer /\ r.count = op[x].count /\ r.todo = op[x].todo
      BY <1>0, <2>1 DEF OpRec, Pc
    <3>2. op' = [op EXCEPT ![x] = r]
      BY <2>3, Zenon
    <3> HIDE DEF r
    <3>3. /\ Shape(r) /\ Cancels(r) /\ Counts(r, landed[x]) /\ Holds(x, r, Current)
          /\ Once(r, landed[x])
      BY <2>1, <3>1, CallerFacts, ZenonT(40) DEF Shape, Cancels, Once, Counts, Holds, Txs
    <3> QED
      BY <1>0, <2>1, <3>1, <3>2, <3>3, OpStep, Zenon
  <2> QED
    BY <1>4, <2>2, <2>3, ZenonT(40) DEF cancel_next
<1> QED
  BY <1>1, <1>2, <1>3, <1>4, ZenonT(40)
  DEF handle_pool_deposit, handle_pool_withdraw, cardano_deposit, cardano_withdraw

\* POST /swap/request up to the row.
LEMMA SwapStep ==
  ASSUME IInv, NEW x \in Callers, handle_swap_request(x) \/ liquidity_pre_check(x)
  PROVE  IInv'
<1> USE PoolAssumption
<1>0. op[x] \in OpRec /\ landed[x] \in Nat /\ echoed \subseteq Callers
  BY CallerFacts, Zenon
<1>1. CASE handle_swap_request(x)
  <2>1. /\ op[x].pc = "idle" /\ UNCHANGED <<hist, late, landed, echoed, row, active, expired>>
        /\ op[x].kind # "cancel"
    BY <1>1, CallerFacts DEF handle_swap_request, Shape, Kinds
  <2>2. PICK pc \in {"precheck", "done"}, a \in {None, "failed"} :
          /\ a # None <=> pc = "done"
          /\ op' = [op EXCEPT ![x] = [op[x] EXCEPT !.role = "swap", !.kind = "create", !.pc = pc, !.answer = a]]
    BY <1>1, Zenon DEF handle_swap_request, Outcomes
  <2> DEFINE r == [op[x] EXCEPT !.role = "swap", !.kind = "create", !.pc = pc, !.answer = a]
  <2>3. /\ r \in OpRec /\ r.pc = pc /\ r.kind = "create" /\ r.role = "swap" /\ r.tx = op[x].tx
        /\ r.answer = a /\ r.count = op[x].count
    BY <1>0, <2>2, ZenonT(40) DEF OpRec, Pc, Roles, Kinds, Outcomes
  <2>4. op' = [op EXCEPT ![x] = r]
    BY <2>2
  <2> HIDE DEF r
  <2>5. Shape(r) /\ Cancels(r) /\ Counts(r, landed[x]) /\ Holds(x, r, Current)
    BY <2>1, <2>2, <2>3, CallerFacts, ZenonT(40) DEF Shape, Cancels, Counts, Holds, Txs
  <2>6. x \notin echoed => Once(r, landed[x])
    BY <1>0, <2>1, <2>2, <2>3, CallerFacts DEF Once, Outcomes
  <2> QED
    BY <1>0, <2>1, <2>3, <2>4, <2>5, <2>6, OpStep, Zenon
<1>2. CASE liquidity_pre_check(x)
  <2>1. /\ op[x].pc = "precheck" /\ UNCHANGED <<hist, late, landed, echoed, row, active, expired>>
        /\ op[x].kind = "create" /\ op[x].answer = None
    BY <1>2, CallerFacts DEF liquidity_pre_check, Shape
  <2>2. PICK pc \in {"build", "done"}, a \in {None, "failed"} :
          /\ a # None <=> pc = "done"
          /\ op' = [op EXCEPT ![x] = [op[x] EXCEPT !.pc = pc, !.answer = a]]
    <3>1. CASE op' = [op EXCEPT ![x] = [op[x] EXCEPT !.pc = "build"]]
      <4>1. [op[x] EXCEPT !.pc = "build"] = [op[x] EXCEPT !.pc = "build", !.answer = None]
        BY <1>0, <2>1, Zenon DEF OpRec
      <4> QED
        BY <3>1, <4>1, Zenon
    <3>2. CASE op' = [op EXCEPT ![x] = [op[x] EXCEPT !.pc = "done", !.answer = "failed"]]
      BY <3>2 DEF Outcomes
    <3> QED
      BY <1>2, <3>1, <3>2 DEF liquidity_pre_check
  <2> DEFINE r == [op[x] EXCEPT !.pc = pc, !.answer = a]
  <2>3. /\ r \in OpRec /\ r.pc = pc /\ r.kind = "create" /\ r.role = op[x].role /\ r.tx = op[x].tx
        /\ r.answer = a /\ r.count = op[x].count
    BY <1>0, <2>1, <2>2, ZenonT(40) DEF OpRec, Pc, Outcomes
  <2>4. op' = [op EXCEPT ![x] = r]
    BY <2>2
  <2> HIDE DEF r
  <2>5. Shape(r) /\ Cancels(r) /\ Counts(r, landed[x]) /\ Holds(x, r, Current)
    BY <2>1, <2>2, <2>3, CallerFacts, Zenon DEF Shape, Cancels, Counts, Holds, Txs, Kinds
  <2>6. x \notin echoed => Once(r, landed[x])
    BY <1>0, <2>1, <2>2, <2>3, CallerFacts DEF Once, Outcomes
  <2> QED
    BY <1>0, <2>1, <2>3, <2>4, <2>5, <2>6, OpStep, ZenonT(40)
<1> QED
  BY <1>1, <1>2

-----------------------------------------------------------------------------
(* Steps that change the pool or the rows.                                 *)

\* Transactions that become stale change nothing else.
LEMMA StaleFits ==
  ASSUME IInv, NEW x \in Callers
  PROVE  /\ Stale[x] \in OpRec /\ Shape(Stale[x]) /\ Cancels(Stale[x])
         /\ \A n : Once(op[x], n) => Once(Stale[x], n)
         /\ \A n : Counts(op[x], n) => Counts(Stale[x], n)
         /\ \A s : Holds(x, op[x], s) => Holds(x, Stale[x], s)
         /\ Stale[x].tx = IF op[x].tx = "valid" THEN "stale" ELSE op[x].tx
         /\ Stale[x].pc = op[x].pc /\ Stale[x].kind = op[x].kind /\ Stale[x].count = op[x].count
         /\ Stale[x].att = op[x].att /\ Stale[x].answer = op[x].answer
<1> USE PoolAssumption
<1> DEFINE r == Stale[x]
<1>0. op[x] \in OpRec
  BY CallerFacts, Zenon
<1>1. /\ r \in OpRec /\ r.pc = op[x].pc /\ r.role = op[x].role /\ r.kind = op[x].kind /\ r.att = op[x].att
      /\ r.cur = op[x].cur /\ r.todo = op[x].todo /\ r.count = op[x].count /\ r.answer = op[x].answer
      /\ r.tx = IF op[x].tx = "valid" THEN "stale" ELSE op[x].tx
  <2>1. CASE op[x].tx = "valid"
    <3>1. r = [op[x] EXCEPT !.tx = "stale"]
      BY <2>1 DEF Stale
    <3> QED
      BY <1>0, <2>1, <3>1 DEF OpRec, Txs
  <2>2. CASE op[x].tx # "valid"
    <3>1. r = op[x]
      BY <2>2, ZenonT(40) DEF Stale
    <3> QED
      BY <1>0, <2>2, <3>1
  <2> QED
    BY <2>1, <2>2
<1> HIDE DEF r
<1>2. Shape(r) /\ Cancels(r)
  BY <1>1, CallerFacts DEF Shape, Cancels, Txs
<1>3. /\ \A n : Once(op[x], n) => Once(r, n)
      /\ \A n : Counts(op[x], n) => Counts(r, n)
      /\ \A s : Holds(x, op[x], s) => Holds(x, r, s)
  BY <1>1, Zenon DEF Once, Counts, Holds
<1> QED
  BY <1>1, <1>2, <1>3, Zenon DEF r

\* What else is built from the pool becomes stale; entries stay open unless they
\* are cancelled, which takes one that is expired, or fulfilled.
LEMMA PoolStep ==
  ASSUME IInv, NEW s \in PoolState, NEW X \in SUBSET Callers, NEW p \in [Callers -> OpRec],
         hist' = Append(hist, s), late' = {}, op' = p, landed' \in [Callers -> Nat],
         UNCHANGED <<echoed, row, expired>>, active' = active \ X,
         \A x \in active \ (X \cup expired) : row[x] \in Current.open => row[x] \in s.open,
         \A x \in Callers : /\ p[x].pc = op[x].pc
                            /\ Shape(p[x]) /\ Cancels(p[x])
                            /\ x \notin echoed => Once(p[x], landed'[x])
                            /\ Counts(p[x], landed'[x])
                            /\ Holds(x, p[x], s)
  PROVE  IInv'
<1>1. HistOK /\ OpOK /\ RestOK
  BY TypeParts, Zenon DEF IInv
<1>2. HistOK' /\ Current' = s
  BY <1>1, Appended, Zenon
<1>3. OpOK'
  BY Zenon DEF OpOK
<1>4. RestOK'
  BY <1>1, ZenonT(40) DEF RestOK
<1>5. CallerInv'
  BY <1>2, SMTT(30) DEF CallerInv, Shape, Cancels, Once, Counts, Holds
<1>6. LateInv' /\ RowInv'
  BY ZenonT(40) DEF LateInv, RowInv, IInv
<1>7. Reserved'
  BY <1>1, <1>2 DEF IInv, Reserved, RestOK
<1> QED
  BY <1>2, <1>3, <1>4, <1>5, <1>6, <1>7, TypeParts, ZenonT(40) DEF IInv, TypeOK, HistOK, OpOK, RestOK,
     PoolState, OpRec, LateRec

\* A transaction of one of the four kinds lands.
LEMMA LandStep ==
  ASSUME IInv, NEW k \in Kinds, NEW e, NEW by \in Callers, Lands(k, e, by),
         k = "create" => e \in Entries, k = "cancel" => e \in Entries /\ e[1] \in expired,
         UNCHANGED <<echoed, row, active, expired>>,
         \/ op' = Stale /\ (by \notin echoed /\ op[by].kind # "cancel" =>
                              landed[by] = 0 /\ op[by].answer \in {"failed", "timeout"})
         \/ /\ op' = [Stale EXCEPT ![by].tx = "accepted"]
            /\ op[by].tx = "valid" /\ op[by].kind = k /\ e = EntryOf(by)
  PROVE  IInv'
<1> USE PoolAssumption
<1> DEFINE s == Effect(k, e, Current)
<1>1. HistOK /\ OpOK /\ RestOK
  BY TypeParts DEF IInv
<1>2. s \in PoolState /\ hist' = Append(hist, s) /\ late' = {}
  BY <1>1, CurrentType, EffectType DEF Lands
<1>3. ASSUME NEW f \in Entries, f \in Current.open, f[1] \notin expired
      PROVE  f \in s.open
  BY <1>1, <1>3, CurrentType, EffectType
<1>4. k = "create" => e \in s.open
  BY <1>1, CurrentType, EffectType
<1> HIDE DEF s
<1>5. /\ landed' \in [Callers -> Nat] /\ landed'[by] = landed[by] + 1
      /\ \A x \in Callers : x # by => landed'[x] = landed[x]
      /\ \A x \in Callers : landed[x] \in Nat
  BY <1>1 DEF Lands, RestOK
<1>6. ASSUME NEW x \in Callers, x \in active \ expired, row[x] \in Current.open
      PROVE  row[x] \in s.open
  BY <1>3, <1>6 DEF IInv, RowInv
<1>7. ASSUME NEW x \in Callers
      PROVE  Holds(x, op[x], s)
  <2> SUFFICES ASSUME op[x].kind = "create", op[x].tx = "accepted" \/ op[x].pc = "created"
               PROVE  <<x, op[x].att>> \in s.open
    BY DEF Holds
  <2>1. <<x, op[x].att>> \in Current.open
    BY CallerFacts DEF Holds
  <2>2. op[x].pc # "done"
    BY CallerFacts DEF Shape, Txs
  <2>3. x \notin expired
    BY <2>2 DEF IInv, RowInv
  <2>4. <<x, op[x].att>> \in Entries
    BY CallerFacts DEF OpRec, Entries
  <2> QED
    BY <1>3, <2>1, <2>3, <2>4
<1>8. Stale \in [Callers -> OpRec]
  BY StaleFits DEF Stale
<1>9. ASSUME NEW x \in Callers, x # by
      PROVE  /\ op'[x] = Stale[x] /\ op'[x].pc = op[x].pc
             /\ Shape(Stale[x]) /\ Cancels(Stale[x])
             /\ x \notin echoed => Once(Stale[x], landed'[x])
             /\ Counts(Stale[x], landed'[x])
             /\ Holds(x, Stale[x], s)
  <2>1. op'[x] = Stale[x] /\ landed'[x] = landed[x]
    BY <1>5, <1>8, <1>9
  <2> QED
    BY <1>7, <2>1, StaleFits, CallerFacts
<1>10. CASE op' = Stale /\ (by \notin echoed /\ op[by].kind # "cancel" =>
                              landed[by] = 0 /\ op[by].answer \in {"failed", "timeout"})
  <2>1. op[by].answer \in {"failed", "timeout"} => op[by].pc = "done"
    BY CallerFacts DEF Shape, Outcomes
  <2>2. by \notin echoed => Once(Stale[by], landed'[by])
    BY <1>5, <1>10, <2>1, StaleFits DEF Once
  <2>3. Counts(Stale[by], landed'[by])
    <3>1. op[by].count \in Nat
      BY CallerFacts DEF OpRec
    <3>2. Counts(op[by], landed'[by])
      BY <1>5, <3>1, CallerFacts DEF Counts
    <3> QED
      BY <3>2, StaleFits
  <2>4. /\ Shape(Stale[by]) /\ Cancels(Stale[by]) /\ Holds(by, Stale[by], s)
        /\ Stale[by].pc = op[by].pc
    BY <1>7, StaleFits
  <2>5. active' = active \ {} /\ \A x \in active \ ({} \cup expired) : row[x] \in Current.open => row[x] \in s.open
    BY <1>1, <1>6 DEF RestOK
  <2>6. \A x \in Callers : /\ Stale[x].pc = op[x].pc /\ Shape(Stale[x]) /\ Cancels(Stale[x])
                           /\ x \notin echoed => Once(Stale[x], landed'[x])
                           /\ Counts(Stale[x], landed'[x])
                           /\ Holds(x, Stale[x], s)
    BY <1>9, <2>2, <2>3, <2>4
  <2> QED
    BY <1>2, <1>5, <1>8, <1>10, <2>5, <2>6, PoolStep, ZenonT(40)
<1>11. CASE /\ op' = [Stale EXCEPT ![by].tx = "accepted"]
            /\ op[by].tx = "valid" /\ op[by].kind = k /\ e = EntryOf(by)
  <2> DEFINE r == [Stale[by] EXCEPT !.tx = "accepted"]
  <2>1. op' = [Stale EXCEPT ![by] = r] /\ r \in OpRec /\ op' \in [Callers -> OpRec] /\ op'[by] = r
    BY <1>8, <1>11 DEF OpRec, Txs
  <2>2. /\ r.tx = "accepted" /\ r.pc = op[by].pc /\ r.kind = op[by].kind /\ r.role = Stale[by].role
        /\ r.count = op[by].count /\ r.att = op[by].att /\ r.answer = op[by].answer
        /\ r.todo = Stale[by].todo /\ r.cur = Stale[by].cur
    BY <1>8, StaleFits DEF OpRec
  <2> HIDE DEF r
  <2>3. op[by].pc = "sent" /\ op[by].kind = k /\ op[by].answer = None
    BY <1>11, CallerFacts DEF Shape, Txs
  <2>4. Shape(r) /\ Cancels(r)
    BY <2>2, <2>3, StaleFits DEF Shape, Cancels, Txs
  <2>5. by \notin echoed => Once(r, landed'[by])
    <3>1. by \notin echoed /\ op[by].kind # "cancel" => landed[by] = 0
      BY <1>5, <1>11, <2>3, CallerFacts DEF Once
    <3> QED
      BY <1>5, <2>2, <2>3, <3>1 DEF Once, Outcomes
  <2>6. Counts(r, landed'[by])
    <3>1. op[by].count \in Nat
      BY CallerFacts DEF OpRec
    <3> QED
      BY <1>5, <2>2, <3>1, CallerFacts DEF Counts
  <2>7. Holds(by, r, s)
    <3>1. k = "create" => e = <<by, op[by].att>>
      BY <1>1, <1>11, EntryType, ZenonT(40)
    <3> QED
      BY <1>4, <1>11, <2>2, <3>1 DEF Holds
  <2>8. active' = active \ {} /\ \A x \in active \ ({} \cup expired) : row[x] \in Current.open => row[x] \in s.open
    BY <1>1, <1>6 DEF RestOK
  <2>9. \A x \in Callers : /\ op'[x].pc = op[x].pc /\ Shape(op'[x]) /\ Cancels(op'[x])
                           /\ x \notin echoed => Once(op'[x], landed'[x])
                           /\ Counts(op'[x], landed'[x])
                           /\ Holds(x, op'[x], s)
    BY <1>9, <2>1, <2>2, <2>4, <2>5, <2>6, <2>7, ZenonT(40)
  <2> QED
    BY <1>2, <1>5, <2>1, <2>8, <2>9, PoolStep, ZenonT(40)
<1> QED
  BY <1>10, <1>11

\* The node's verdicts.
LEMMA NodeStep ==
  ASSUME IInv, \/ \E x \in Callers : Node(x)
               \/ \E t \in late : node_accepts_late(t) \/ node_rejects_late(t)
  PROVE  IInv'
<1> USE PoolAssumption
<1>0. HistOK /\ OpOK /\ RestOK
  BY TypeParts DEF IInv
<1>1. ASSUME NEW x \in Callers, node_accepts(x)
      PROVE  IInv'
  <2>1. /\ op[x].tx = "valid" /\ Lands(op[x].kind, EntryOf(x), x)
        /\ op' = [Stale EXCEPT ![x].tx = "accepted"]
        /\ UNCHANGED <<echoed, row, active, expired>>
    BY <1>1 DEF node_accepts
  <2> QED
    BY <2>1, DepartedLeft, LandStep, Zenon
<1>2. ASSUME NEW x \in Callers, node_rejects(x)
      PROVE  IInv'
  <2> DEFINE r == [op[x] EXCEPT !.tx = "rejected"]
  <2>1. /\ op[x].tx \in {"valid", "stale"} /\ op' = [op EXCEPT ![x] = r]
        /\ UNCHANGED <<hist, late, landed, echoed, row, active, expired>>
    BY <1>2 DEF node_rejects
  <2>2. op[x] \in OpRec /\ op[x].pc = "sent" /\ landed[x] \in Nat
    BY <2>1, CallerFacts DEF Shape, Txs
  <2>3. /\ r \in OpRec /\ r.tx = "rejected" /\ r.pc = "sent" /\ r.kind = op[x].kind /\ r.role = op[x].role
        /\ r.count = op[x].count /\ r.answer = op[x].answer /\ r.todo = op[x].todo /\ r.cur = op[x].cur
    BY <2>2 DEF OpRec, Txs
  <2> HIDE DEF r
  <2>4. Shape(r) /\ Cancels(r) /\ Counts(r, landed[x]) /\ Holds(x, r, Current)
    BY <2>2, <2>3, CallerFacts, ZenonT(40) DEF Shape, Cancels, Counts, Holds, Txs
  <2>5. x \notin echoed => Once(r, landed[x])
    BY <2>1, <2>2, <2>3, CallerFacts DEF Once
  <2> QED
    BY <1>0, <2>1, <2>2, <2>3, <2>4, <2>5, OpStep, ZenonT(40) DEF RestOK
<1>3. ASSUME NEW t \in late, node_accepts_late(t)
      PROVE  IInv'
  <2>1. /\ Lands(t.kind, t.entry, t.by) /\ op' = Stale
        /\ UNCHANGED <<echoed, row, active, expired>>
    BY <1>3 DEF node_accepts_late
  <2>2. t.kind \in Kinds /\ t.by \in Callers /\ Left(t)
    BY <1>0 DEF RestOK, LateRec, IInv, LateInv
  <2> QED
    BY <2>1, <2>2, LandStep DEF Left
<1>4. ASSUME NEW t \in late, node_rejects_late(t)
      PROVE  IInv'
  <2>1. late' \subseteq late /\ UNCHANGED <<hist, op, landed, echoed, row, active, expired>>
    BY <1>4 DEF node_rejects_late
  <2>2. CallerInv'
    BY <2>1, ZenonT(40) DEF IInv, CallerInv, Current, Shape, Cancels, Once, Counts, Holds
  <2>3. LateInv' /\ RowInv' /\ Reserved'
    BY <2>1 DEF IInv, LateInv, Left, RowInv, Reserved, Current
  <2>4. HistOK' /\ OpOK' /\ RestOK'
    BY <1>0, <2>1, Zenon DEF HistOK, OpOK, RestOK
  <2> QED
    BY <2>2, <2>3, <2>4, TypeParts, ZenonT(40) DEF IInv, TypeOK, HistOK, OpOK, RestOK, PoolState, OpRec, LateRec
<1> QED
  BY <1>1, <1>2, <1>3, <1>4 DEF Node

\* A step that leaves the pool and the callers alone.
LEMMA RestStep ==
  ASSUME IInv, HistOK', Current' = Current, UNCHANGED <<op, late, landed, echoed, row>>,
         expired \subseteq expired', expired' \subseteq Callers, active' \subseteq active,
         \A x \in expired' : op[x].pc = "done"
  PROVE  IInv'
<1>0. OpOK /\ RestOK
  BY TypeParts DEF IInv
<1>1. OpOK' /\ RestOK'
  BY <1>0, ZenonT(40) DEF OpOK, RestOK
<1>2. CallerInv'
  BY SMTT(30) DEF IInv, CallerInv, Shape, Cancels, Once, Counts, Holds
<1>3. LateInv' /\ RowInv' /\ Reserved'
  BY <1>0 DEF IInv, LateInv, Left, RowInv, Reserved, RestOK
<1> QED
  BY <1>1, <1>2, <1>3, TypeParts DEF IInv, TypeOK, HistOK, OpOK, RestOK, PoolState, OpRec, LateRec

\* The row of a swap, and its end.
LEMMA RowStep ==
  ASSUME IInv, NEW x \in Callers, store_swap_mapping(x) \/ fulfill_swap(x) \/ monitor_expired(x)
  PROVE  IInv'
<1> USE PoolAssumption
<1>0. HistOK /\ OpOK /\ RestOK
  BY TypeParts, Zenon DEF IInv
<1>1. op[x] \in OpRec /\ landed[x] \in Nat
  BY CallerFacts, Zenon
<1>2. CASE store_swap_mapping(x)
  <2>1. PICK a \in {"ok", "failed"} :
          /\ op' = [op EXCEPT ![x] = [op[x] EXCEPT !.pc = "done", !.att = 0, !.answer = a]]
          /\ \/ row' = [row EXCEPT ![x] = <<x, op[x].att>>] /\ active' = active \cup {x}
             \/ UNCHANGED <<row, active>>
    BY <1>2 DEF store_swap_mapping
  <2>2. op[x].pc = "created" /\ UNCHANGED <<hist, late, landed, echoed, expired>>
    BY <1>2, ZenonT(40) DEF store_swap_mapping
  <2>3. /\ op[x].kind = "create" /\ op[x].tx = None /\ <<x, op[x].att>> \in Current.open
        /\ x \notin active /\ x \notin expired
    BY <2>2, CallerFacts DEF Shape, Holds, IInv, RowInv
  <2> DEFINE r == [op[x] EXCEPT !.pc = "done", !.att = 0, !.answer = a]
  <2>4. /\ r \in OpRec /\ r.pc = "done" /\ r.kind = "create" /\ r.role = op[x].role /\ r.tx = None
        /\ r.count = op[x].count /\ r.answer = a
    <3>1. 0 \in 0..(Attempts - 1) /\ a \in Outcomes
      BY <2>1 DEF Outcomes
    <3> QED
      BY <1>1, <2>3, <3>1, ZenonT(40) DEF OpRec, Pc
  <2>5. op' = [op EXCEPT ![x] = r]
    BY <2>1
  <2> HIDE DEF r
  <2>6. OpOK' /\ op'[x] = r /\ \A y \in Callers : y # x => op'[y] = op[y]
    BY <1>0, <2>4, <2>5 DEF OpOK
  <2>7. /\ Shape(r) /\ Cancels(r) /\ Counts(r, landed[x]) /\ Holds(x, r, Current)
        /\ x \notin echoed => Once(r, landed[x])
    BY <1>1, <2>1, <2>2, <2>3, <2>4, CallerFacts, ZenonT(40) DEF Shape, Cancels, Once, Counts, Holds, Txs
  <2>8. HistOK' /\ Current' = Current
    BY <1>0, <2>2, Zenon DEF HistOK, Current
  <2>9. CallerInv'
    <3> SUFFICES ASSUME NEW y \in Callers
                 PROVE  /\ Shape(op[y])' /\ Cancels(op[y])'
                        /\ y \notin echoed' => Once(op[y], landed[y])'
                        /\ Counts(op[y], landed[y])'
                        /\ Holds(y, op[y], Current)'
      BY Zenon DEF CallerInv
    <3>1. CASE y = x
      <4>1. op'[y] = r /\ UNCHANGED <<landed, echoed, expired, Current>>
        BY <2>2, <2>6, <2>8, <3>1, ZenonT(40)
      <4>2. Shape(op[y])' /\ Cancels(op[y])'
        BY <2>7, <4>1, ZenonT(40) DEF Shape, Cancels
      <4>3. y \notin echoed' => Once(op[y], landed[y])'
        BY <2>7, <3>1, <4>1, ZenonT(40) DEF Once
      <4>4. Counts(op[y], landed[y])' /\ Holds(y, op[y], Current)'
        BY <2>7, <3>1, <4>1, ZenonT(40) DEF Counts, Holds
      <4> QED
        BY <4>2, <4>3, <4>4, ZenonT(40)
    <3>2. CASE y # x
      <4>1. op'[y] = op[y] /\ UNCHANGED <<landed, echoed, expired, Current>>
        BY <2>2, <2>6, <2>8, <3>2, Zenon
      <4>2. Shape(op[y])' /\ Cancels(op[y])'
        BY <4>1, CallerFacts, ZenonT(40) DEF Shape, Cancels
      <4>3. y \notin echoed' => Once(op[y], landed[y])'
        BY <4>1, CallerFacts, Zenon DEF Once
      <4>4. Counts(op[y], landed[y])' /\ Holds(y, op[y], Current)'
        BY <4>1, CallerFacts DEF Counts, Holds
      <4> QED
        BY <4>2, <4>3, <4>4
    <3> QED
      BY <3>1, <3>2, Zenon
  <2>10. LateInv'
    <3> SUFFICES ASSUME NEW t \in late PROVE Left(t)'
      BY <2>2 DEF LateInv
    <3>1. Left(t) /\ t.by \in Callers
      BY <1>0, Zenon DEF IInv, LateInv, RestOK, LateRec
    <3>2. CASE t.by = x
      <4>1. op[x].answer = None
        BY <2>2, CallerFacts, Zenon DEF Shape
      <4>2. x \in echoed
        BY <2>3, <3>1, <3>2, <4>1, ZenonT(40) DEF Left, Outcomes
      <4> QED
        BY <2>2, <3>1, <3>2, <4>2, Zenon DEF Left
    <3>3. CASE t.by # x
      BY <2>2, <2>6, <3>1, <3>3, ZenonT(40) DEF Left
    <3> QED
      BY <3>2, <3>3
  <2>11. <<x, op[x].att>> \in Entries
    BY <1>1 DEF OpRec, Entries
  <2>12. \A y \in active' : \/ y = x /\ row'[y] = <<x, op[x].att>>
                            \/ y # x /\ y \in active /\ row'[y] = row[y]
    BY <1>0, <2>1, <2>3 DEF RestOK
  <2>13. RowInv' /\ Reserved'
    <3>1. RowInv'
      <4> SUFFICES ASSUME NEW y \in Callers
                   PROVE  /\ y \in active' => /\ row'[y] \in Entries /\ row'[y][1] = y
                                              /\ op'[y].pc = "done"
                          /\ y \in expired' => op'[y].pc = "done"
        BY ZenonT(40) DEF RowInv
      <4>1. CASE y = x
        <5>1. op'[y].pc = "done" /\ y \notin expired'
          BY <2>2, <2>3, <2>4, <2>6, <4>1, ZenonT(40)
        <5>2. y \in active' => row'[y] = <<x, op[x].att>>
          BY <2>12, <4>1, Zenon
        <5>3. <<x, op[x].att>>[1] = x
          OBVIOUS
        <5> QED
          BY <2>11, <4>1, <5>1, <5>2, <5>3, ZenonT(40)
      <4>2. CASE y # x
        <5>1. /\ y \in active => row[y] \in Entries /\ row[y][1] = y /\ op[y].pc = "done"
              /\ y \in expired => op[y].pc = "done"
          BY Zenon DEF IInv, RowInv
        <5> QED
          BY <2>2, <2>6, <2>12, <4>2, <5>1, ZenonT(40)
      <4> QED
        BY <4>1, <4>2
    <3>2. Reserved'
      BY <2>2, <2>3, <2>8, <2>12 DEF IInv, Reserved
    <3> QED
      BY <3>1, <3>2, ZenonT(40)
  <2>14. RestOK'
    BY <1>0, <2>1, <2>2, <2>11, ZenonT(40) DEF RestOK
  <2> QED
    BY <2>6, <2>8, <2>9, <2>10, <2>13, <2>14, TypeParts, ZenonT(40)
    DEF IInv, TypeOK, HistOK, OpOK, RestOK, PoolState, OpRec, LateRec
<1>3. CASE fulfill_swap(x) \/ monitor_expired(x)
  <2>1. PICK s \in PoolState, X \in {{x}, {}} :
          /\ s.open = Current.open \ {row[x]} /\ (X = {} => x \in expired)
          /\ x \in active /\ hist' = Append(hist, s) /\ late' = {} /\ op' = Stale
          /\ active' = active \ X /\ UNCHANGED <<landed, echoed, row, expired>>
    <3>1. CASE fulfill_swap(x)
      <4> DEFINE t == [total |-> Current.total - 1, open |-> Current.open \ {row[x]}]
      <4>1. t \in PoolState /\ t.open = Current.open \ {row[x]}
        BY <1>0, CurrentType DEF PoolState
      <4>2. /\ x \in active /\ hist' = Append(hist, t) /\ late' = {} /\ op' = Stale
            /\ active' = active \ {x} /\ UNCHANGED <<landed, echoed, row, expired>>
        BY <3>1, Zenon DEF fulfill_swap
      <4> HIDE DEF t
      <4>3. {x} # {}
        OBVIOUS
      <4> QED
        BY <4>1, <4>2, <4>3, Zenon
    <3>2. CASE monitor_expired(x)
      <4> DEFINE t == Effect("cancel", row[x], Current)
      <4>1. t \in PoolState /\ t.open = Current.open \ {row[x]}
        BY <1>0, CurrentType, EffectType DEF Kinds
      <4>2. /\ x \in active /\ x \in expired /\ hist' = Append(hist, t) /\ late' = {} /\ op' = Stale
            /\ UNCHANGED <<landed, echoed, row, expired>>
        BY <3>2, Zenon DEF monitor_expired
      <4>3. active' = active \ {x} \/ active' = active \ {}
        BY <3>2 DEF monitor_expired
      <4> HIDE DEF t
      <4> QED
        BY <4>1, <4>2, <4>3, Zenon
    <3> QED
      BY <1>3, <3>1, <3>2
  <2>2. s.open = Current.open \ {row[x]}
    BY <2>1
  <2>3. row[x] \in Entries /\ row[x][1] = x /\ op[x].pc = "done"
    BY <2>1, Zenon DEF IInv, RowInv
  <2>4. \A y \in active \ (X \cup expired) : row[y] \in Current.open => row[y] \in s.open
    <3> SUFFICES ASSUME NEW y \in active, y \notin X, y \notin expired, row[y] \in Current.open
                 PROVE  row[y] \in s.open
      OBVIOUS
    <3>1. y \in Callers /\ row[y][1] = y
      BY <1>0, Zenon DEF IInv, RowInv, RestOK
    <3>2. y # x
      BY <2>1
    <3> QED
      BY <2>2, <2>3, <3>1, <3>2
  <2>5. ASSUME NEW y \in Callers
        PROVE  Holds(y, op[y], s)
    <3> SUFFICES ASSUME op[y].kind = "create", op[y].tx = "accepted" \/ op[y].pc = "created"
                 PROVE  <<y, op[y].att>> \in s.open
      BY ZenonT(40) DEF Holds
    <3>1. <<y, op[y].att>> \in Current.open /\ op[y].pc # "done"
      BY CallerFacts DEF Holds, Shape, Txs
    <3> QED
      BY <2>2, <2>3, <3>1, SMTT(30)
  <2>6. Stale \in [Callers -> OpRec]
    BY StaleFits, Zenon DEF Stale
  <2>7. \A y \in Callers : /\ Stale[y].pc = op[y].pc /\ Shape(Stale[y]) /\ Cancels(Stale[y])
                           /\ y \notin echoed => Once(Stale[y], landed'[y])
                           /\ Counts(Stale[y], landed'[y])
                           /\ Holds(y, Stale[y], s)
    BY <2>1, <2>5, StaleFits, CallerFacts, Zenon
  <2>8. landed' \in [Callers -> Nat] /\ X \in SUBSET Callers
    BY <1>0, <2>1 DEF RestOK
  <2> QED
    BY <2>1, <2>2, <2>4, <2>6, <2>7, <2>8, PoolStep, ZenonT(40)
<1> QED
  BY <1>2, <1>3

-----------------------------------------------------------------------------
(* The theorems.                                                           *)

LEMMA IndStep == IInv /\ [Next]_vars => IInv'
<1> SUFFICES ASSUME IInv, [Next]_vars PROVE IInv'
  OBVIOUS
<1>0. HistOK /\ OpOK /\ RestOK
  BY TypeParts DEF IInv
<1>1. ASSUME NEW x \in Callers, Step(x) PROVE IInv'
  BY <1>1, TransactStep, OperatorStep, SwapStep, RowStep, ZenonT(40) DEF Step
<1>2. CASE blockfrost_indexes
  <2>1. /\ HistOK' /\ Current' = Current
        /\ UNCHANGED <<op, late, landed, echoed, row, active, expired>>
    BY <1>0, <1>2, Indexes, ZenonT(40) DEF blockfrost_indexes
  <2> QED
    BY <1>0, <2>1, RestStep DEF RestOK, IInv, RowInv
<1>3. ASSUME NEW i \in Callers, expire(i) PROVE IInv'
  <2>1. /\ UNCHANGED <<hist, op, late, landed, echoed, row, active>>
        /\ op[i].pc = "done" /\ expired' = expired \cup {i}
    BY <1>3, Zenon DEF expire
  <2>2. HistOK' /\ Current' = Current
    BY <1>0, <2>1, ZenonT(40) DEF HistOK, Current
  <2> QED
    BY <1>0, <2>1, <2>2, RestStep, Zenon DEF RestOK, IInv, RowInv
<1>4. CASE UNCHANGED vars
  <2>1. UNCHANGED <<hist, op, late, landed, echoed, row, active, expired>>
    BY <1>4 DEF vars
  <2>2. HistOK' /\ Current' = Current
    BY <1>0, <2>1 DEF HistOK, Current
  <2> QED
    BY <1>0, <2>1, <2>2, RestStep DEF RestOK, IInv, RowInv
<1> QED
  BY <1>1, <1>2, <1>3, <1>4, NodeStep, OperatorStep, SwapStep, RowStep, ZenonT(40) DEF Next

LEMMA Inductive == Spec => []IInv
  BY IndInit, IndStep, PTL DEF Spec

\* Every variable stays in its domain.
THEOREM TypeCorrect == Spec => []TypeOK
<1>1. IInv => TypeOK
  BY ZenonT(40) DEF IInv
<1> QED
  BY <1>1, Inductive, PTL

\* A deposit, a withdrawal or a CreateInvoice lands at most once, and "ok" and
\* "failed after N attempts" mean what they say, however the retries, the 30 s
\* timeout of the REST request and the other spenders of the UTxO interleave.
THEOREM AnswersTrue == Spec => []AnswerTellsWhatLanded
<1>1. IInv => AnswerTellsWhatLanded
  BY CallerFacts DEF AnswerTellsWhatLanded, Once, Counts
<1> QED
  BY <1>1, Inductive, PTL

-----------------------------------------------------------------------------
(* What is reserved is there.                                              *)

\* A transaction that can still land was built from the state that is unspent, so
\* that what it needs of it holds.
BackedInv ==
  /\ available(Current) >= 0
  /\ \A x \in Callers : op[x].tx = "valid" => Allowed(op[x].kind, EntryOf(x), Current)
  /\ \A t \in late : Allowed(t.kind, t.entry, Current)

LEMMA OpenFinite ==
  ASSUME NEW s \in PoolState
  PROVE  IsFiniteSet(s.open) /\ Cardinality(s.open) \in Nat /\ s.total \in Int
<1>1. IsFiniteSet(0..(Attempts - 1))
  BY PoolAssumption, FS_Interval
<1>2. IsFiniteSet(Entries)
  BY <1>1, CallersFinite, FS_Product DEF Entries
<1>3. s.open \subseteq Entries /\ s.total \in Int
  BY DEF PoolState
<1> QED
  BY <1>2, <1>3, FS_Subset, FS_CardinalityType

\* A transaction leaves the entries backed when building it was allowed.
LEMMA EffectBacked ==
  ASSUME NEW k \in Kinds, NEW e, NEW s \in PoolState, Allowed(k, e, s), available(s) >= 0
  PROVE  available(Effect(k, e, s)) >= 0
<1>0. IsFiniteSet(s.open) /\ Cardinality(s.open) \in Nat /\ s.total \in Int
  BY OpenFinite
<1>1. CASE k = "deposit"
  <2>1. Effect(k, e, s).total = s.total + 1 /\ Effect(k, e, s).open = s.open
    BY <1>1 DEF Effect, PoolState
  <2> QED
    BY <1>0, <2>1 DEF available
<1>2. CASE k = "withdraw"
  <2>1. Effect(k, e, s).total = s.total - 1 /\ Effect(k, e, s).open = s.open
    BY <1>2 DEF Effect, PoolState
  <2>2. available(s) > 0
    BY <1>2 DEF Allowed
  <2> QED
    BY <1>0, <2>1, <2>2 DEF available
<1>3. CASE k = "create"
  <2>1. Effect(k, e, s).total = s.total /\ Effect(k, e, s).open = s.open \cup {e}
    BY <1>3 DEF Effect, PoolState
  <2>2. available(s) > 0
    BY <1>3 DEF Allowed
  <2>3. Cardinality(s.open \cup {e}) \in {Cardinality(s.open), Cardinality(s.open) + 1}
    BY <1>0, FS_AddElement
  <2> QED
    BY <1>0, <2>1, <2>2, <2>3 DEF available
<1>4. CASE k = "cancel"
  <2>1. Effect(k, e, s).total = s.total /\ Effect(k, e, s).open = s.open \ {e}
    BY <1>4 DEF Effect, PoolState
  <2>2. Cardinality(s.open \ {e}) \in {Cardinality(s.open), Cardinality(s.open) - 1}
    BY <1>0, FS_RemoveElement
  <2> QED
    BY <1>0, <2>1, <2>2 DEF available
<1> QED
  BY <1>1, <1>2, <1>3, <1>4 DEF Kinds

\* A caller's own step: whatever it has submitted may be left behind.
LEMMA BackedOp ==
  ASSUME IInv, BackedInv, NEW x \in Callers, NEW r, op' = [op EXCEPT ![x] = r], hist' = hist,
         late' \subseteq late \cup Departed(x),
         r.tx = "valid" => Allowed(r.kind, IF r.kind = "create" THEN <<x, r.att>> ELSE r.cur, Current)
  PROVE  BackedInv'
<1>1. Current' = Current
  BY Zenon DEF Current
<1>2. op'[x] = r /\ \A y \in Callers : y # x => op'[y] = op[y]
  BY TypeParts DEF IInv, OpOK
<1>3. ASSUME NEW y \in Callers, op'[y].tx = "valid"
      PROVE  Allowed(op'[y].kind, EntryOf(y)', Current)
  <2>1. CASE y = x
    <3>1. op'[y] = r /\ EntryOf(y)' = IF r.kind = "create" THEN <<x, r.att>> ELSE r.cur
      BY <1>2, <2>1, SMTT(30) DEF EntryOf
    <3>2. Allowed(r.kind, IF r.kind = "create" THEN <<x, r.att>> ELSE r.cur, Current)
      BY <1>3, <3>1, Zenon
    <3> HIDE DEF Allowed
    <3> QED
      BY <3>1, <3>2
  <2>2. CASE y # x
    <3>1. op'[y] = op[y]
      BY <1>2, <2>2, Zenon
    <3>2. EntryOf(y)' = EntryOf(y)
      BY <3>1, SMTT(30) DEF EntryOf
    <3> QED
      BY <1>3, <3>1, <3>2, Zenon DEF BackedInv
  <2> QED
    BY <2>1, <2>2
<1>4. ASSUME NEW t \in late'
      PROVE  Allowed(t.kind, t.entry, Current)
  <2>1. CASE t \in late
    BY <2>1, Zenon DEF BackedInv
  <2>2. CASE t \in Departed(x)
    <3>1. op[x].tx = "valid" /\ t = [by |-> x, kind |-> op[x].kind, entry |-> EntryOf(x)]
      BY <2>2 DEF Departed
    <3>2. t.kind = op[x].kind /\ t.entry = EntryOf(x)
      BY <3>1
    <3> QED
      BY <3>1, <3>2, Zenon DEF BackedInv
  <2> QED
    BY <1>4, <2>1, <2>2
<1>5. available(Current)' >= 0
  BY <1>1, Zenon DEF BackedInv, available
<1> QED
  BY <1>1, <1>3, <1>4, <1>5, ZenonT(40) DEF BackedInv, Allowed, available

\* The pool changes: what was submitted before is stale.
LEMMA BackedPool ==
  ASSUME IInv, NEW s \in PoolState, hist' = Append(hist, s), late' = {}, available(s) >= 0,
         \A y \in Callers : op'[y].tx # "valid"
  PROVE  BackedInv'
<1>1. Current' = s
  BY Appended, TypeParts, Zenon DEF IInv
<1> QED
  BY <1>1, Zenon DEF BackedInv, available

LEMMA StaleNotValid ==
  ASSUME IInv, NEW y \in Callers
  PROVE  Stale[y].tx # "valid"
  BY StaleFits

\* Every step keeps the entries backed.
LEMMA BackedStep ==
  ASSUME IInv, BackedInv, Next
  PROVE  BackedInv'
<1> USE PoolAssumption
<1>0. HistOK /\ OpOK /\ RestOK /\ Current \in PoolState
  BY TypeParts, CurrentType, Zenon DEF IInv
<1>1. ASSUME NEW x \in Callers
      PROVE  op[x] \in OpRec /\ (op[x].pc # "sent" => op[x].tx = None) /\ None # "valid"
  BY CallerFacts DEF Shape, Txs
<1>2. ASSUME NEW x \in Callers, node_accepts(x)
      PROVE  BackedInv'
  <2>1. /\ op[x].tx = "valid" /\ op[x].kind \in Kinds /\ late' = {}
        /\ hist' = Append(hist, Effect(op[x].kind, EntryOf(x), Current))
    BY <1>2, DepartedLeft, Zenon DEF node_accepts, Lands
  <2>2. Effect(op[x].kind, EntryOf(x), Current) \in PoolState
    BY <1>0, <2>1, DepartedLeft, EffectType, Zenon
  <2>3. available(Effect(op[x].kind, EntryOf(x), Current)) >= 0
    BY <1>0, <2>1, EffectBacked, Zenon DEF BackedInv
  <2>4. ASSUME NEW y \in Callers
        PROVE  op'[y].tx # "valid"
    <3>1. Stale \in [Callers -> OpRec]
      BY StaleFits, Zenon DEF Stale
    <3>2. op' = [Stale EXCEPT ![x].tx = "accepted"]
      BY <1>2, Zenon DEF node_accepts
    <3>3. CASE y = x
      BY <3>1, <3>2, <3>3 DEF OpRec
    <3>4. CASE y # x
      <4>1. op'[y] = Stale[y]
        BY <3>1, <3>2, <3>4, Zenon
      <4> QED
        BY <4>1, StaleNotValid, Zenon
    <3> QED
      BY <3>3, <3>4
  <2> QED
    BY <2>1, <2>2, <2>3, <2>4, BackedPool, Zenon
<1>3. ASSUME NEW t \in late, node_accepts_late(t)
      PROVE  BackedInv'
  <2>1. /\ late' = {} /\ op' = Stale
        /\ hist' = Append(hist, Effect(t.kind, t.entry, Current))
    BY <1>3, Zenon DEF node_accepts_late, Lands
  <2>2. t.kind \in Kinds /\ (t.kind = "create" => t.entry \in Entries)
    BY <1>0, Zenon DEF RestOK, LateRec, IInv, LateInv, Left
  <2>3. Effect(t.kind, t.entry, Current) \in PoolState
    BY <1>0, <2>2, EffectType, Zenon
  <2>4. available(Effect(t.kind, t.entry, Current)) >= 0
    BY <1>0, <2>2, EffectBacked, Zenon DEF BackedInv
  <2> QED
    BY <2>1, <2>3, <2>4, StaleNotValid, BackedPool, Zenon
<1>4. ASSUME NEW i \in Callers, monitor_expired(i)
      PROVE  BackedInv'
  <2>1. /\ late' = {} /\ op' = Stale /\ row[i] \in Current.open
        /\ hist' = Append(hist, Effect("cancel", row[i], Current))
    BY <1>4, Zenon DEF monitor_expired
  <2>2. Allowed("cancel", row[i], Current) /\ "cancel" \in Kinds
    BY <2>1 DEF Allowed, Kinds
  <2>3. Effect("cancel", row[i], Current) \in PoolState
    BY <1>0, <2>2, EffectType
  <2>4. available(Effect("cancel", row[i], Current)) >= 0
    BY <1>0, <2>2, EffectBacked, Zenon DEF BackedInv
  <2> QED
    BY <2>1, <2>3, <2>4, StaleNotValid, BackedPool, Zenon
<1>5. ASSUME NEW i \in Callers, fulfill_swap(i)
      PROVE  BackedInv'
  <2> DEFINE s == [total |-> Current.total - 1, open |-> Current.open \ {row[i]}]
  <2>1. /\ late' = {} /\ op' = Stale /\ row[i] \in Current.open
        /\ hist' = Append(hist, s)
    BY <1>5, Zenon DEF fulfill_swap
  <2>2. s \in PoolState
    BY <1>0 DEF PoolState
  <2>3. IsFiniteSet(Current.open) /\ Cardinality(Current.open) \in Nat /\ Current.total \in Int
    BY <1>0, OpenFinite
  <2>4. Cardinality(Current.open \ {row[i]}) = Cardinality(Current.open) - 1
    BY <2>1, <2>3, FS_RemoveElement
  <2>5. available(Current) >= 0
    BY Zenon DEF BackedInv
  <2>6. available(s) >= 0
    BY <2>3, <2>4, <2>5 DEF available
  <2> HIDE DEF s
  <2> QED
    BY <2>1, <2>2, <2>6, StaleNotValid, BackedPool, Zenon
<1>6. CASE blockfrost_indexes
  <2>1. Current' = Current /\ op' = op /\ late' = late
    BY <1>0, <1>6, Indexes, Zenon DEF blockfrost_indexes
  <2> QED
    BY <2>1, Zenon DEF BackedInv, EntryOf, Allowed, available
<1>7. ASSUME NEW t \in late, node_rejects_late(t)
      PROVE  BackedInv'
  <2>1. hist' = hist /\ op' = op /\ late' \subseteq late
    BY <1>7 DEF node_rejects_late
  <2> QED
    BY <2>1, ZenonT(40) DEF BackedInv, EntryOf, Allowed, available, Current
<1>8. ASSUME NEW i \in Callers, expire(i)
      PROVE  BackedInv'
  BY <1>8, Zenon DEF expire, BackedInv, EntryOf, Allowed, available, Current
<1>9. ASSUME NEW x \in Callers, Transact(x)
      PROVE  BackedInv'
  <2>1. hist' = hist /\ late' \subseteq late \cup Departed(x)
    BY <1>9, Zenon DEF Transact, build_and_submit, submit_ok, retryable_error, other_error
  <2>2. ASSUME NEW a \in Outcomes, op' = [op EXCEPT ![x] = Ends(x, a)]
        PROVE  BackedInv'
    <3>1. Ends(x, a).tx = None
      BY <1>1, Zenon DEF Ends, OpRec
    <3> QED
      BY <1>1, <2>1, <2>2, <3>1, BackedOp, Zenon
  <2>3. ASSUME NEW n, op' = [op EXCEPT ![x] = [op[x] EXCEPT !.pc = "build", !.att = n, !.tx = None]]
        PROVE  BackedInv'
    <3> DEFINE r == [op[x] EXCEPT !.pc = "build", !.att = n, !.tx = None]
    <3>1. r.tx = None
      BY <1>1, Zenon DEF OpRec
    <3> HIDE DEF r
    <3> QED
      BY <1>1, <2>1, <2>3, <3>1, BackedOp, Zenon DEF r
  <2>4. ASSUME Allowed(op[x].kind, EntryOf(x), Indexed), NEW t, t = "valid" => Len(hist) = 1,
               op' = [op EXCEPT ![x] = [op[x] EXCEPT !.pc = "sent", !.tx = t]]
        PROVE  BackedInv'
    <3> DEFINE r == [op[x] EXCEPT !.pc = "sent", !.tx = t]
    <3>1. r.tx = t /\ r.kind = op[x].kind /\ r.att = op[x].att /\ r.cur = op[x].cur
      BY <1>1, Zenon DEF OpRec
    <3> HIDE DEF r
    <3>2. t = "valid" => Indexed = Current
      BY <2>4, Zenon DEF Indexed, Current
    <3>3. (IF r.kind = "create" THEN <<x, r.att>> ELSE r.cur) = EntryOf(x)
      BY <3>1, Zenon DEF EntryOf
    <3>4. r.tx = "valid" => Allowed(r.kind, IF r.kind = "create" THEN <<x, r.att>> ELSE r.cur, Current)
      BY <2>4, <3>1, <3>2, <3>3, Zenon
    <3> QED
      BY <2>1, <2>4, <3>4, BackedOp, Zenon DEF r
  <2>5. {"ok", "failed", "exhausted"} \subseteq Outcomes
    BY DEF Outcomes
  <2>6. CASE build_and_submit(x)
    <3>1. CASE op' = [op EXCEPT ![x] = Ends(x, "failed")]
      BY <2>2, <2>5, <3>1, Zenon
    <3>2. CASE /\ Allowed(op[x].kind, EntryOf(x), Indexed)
               /\ op' = [op EXCEPT ![x].pc = "sent",
                                   ![x].tx = IF Len(hist) = 1 THEN "valid" ELSE "stale"]
      <4> DEFINE t == IF Len(hist) = 1 THEN "valid" ELSE "stale"
      <4>1. t = "valid" => Len(hist) = 1
        OBVIOUS
      <4>2. op' = [op EXCEPT ![x] = [op[x] EXCEPT !.pc = "sent", !.tx = t]]
        BY <1>0, <3>2, Zenon DEF OpOK
      <4> HIDE DEF t
      <4> QED
        BY <2>4, <3>2, <4>1, <4>2, Zenon
    <3> QED
      BY <2>6, <3>1, <3>2, Zenon DEF build_and_submit
  <2>7. CASE submit_ok(x) \/ other_error(x)
    BY <2>2, <2>5, <2>7, Zenon DEF submit_ok, other_error
  <2>8. CASE retryable_error(x)
    <3>1. CASE Again(x)
      BY <2>3, <2>8, <3>1, Zenon DEF retryable_error
    <3>2. CASE ~Again(x)
      BY <2>2, <2>5, <2>8, <3>2, Zenon DEF retryable_error
    <3> QED
      BY <3>1, <3>2
  <2> QED
    BY <1>9, <2>6, <2>7, <2>8, Zenon DEF Transact
<1>10. ASSUME NEW x \in Callers, node_rejects(x)
       PROVE  BackedInv'
  <2> DEFINE r == [op[x] EXCEPT !.tx = "rejected"]
  <2>1. op' = [op EXCEPT ![x] = r] /\ hist' = hist /\ late' \subseteq late \cup Departed(x)
    BY <1>10, Zenon DEF node_rejects
  <2>2. r.tx # "valid"
    BY <1>1 DEF OpRec
  <2> HIDE DEF r
  <2> QED
    BY <2>1, <2>2, BackedOp, Zenon
<1>11. ASSUME NEW x \in Callers, pool_timeout(x)
       PROVE  BackedInv'
  <2> DEFINE r == [op[x] EXCEPT !.pc = "done", !.att = 0, !.tx = None, !.answer = "timeout"]
  <2>1. op' = [op EXCEPT ![x] = r] /\ hist' = hist /\ late' \subseteq late \cup Departed(x)
    BY <1>11, Zenon DEF pool_timeout
  <2>2. r.tx # "valid"
    BY <1>1, Zenon DEF OpRec
  <2> HIDE DEF r
  <2> QED
    BY <2>1, <2>2, BackedOp, Zenon
<1>12. ASSUME NEW x \in Callers,
              \/ handle_pool_deposit(x) \/ handle_pool_withdraw(x) \/ cardano_deposit(x) \/ cardano_withdraw(x)
              \/ cancel_expired(x) \/ cancel_next(x)
              \/ handle_swap_request(x) \/ liquidity_pre_check(x) \/ store_swap_mapping(x)
       PROVE  BackedInv'
  <2>1. op[x].pc # "sent" /\ hist' = hist /\ late' = late
    BY <1>12, ZenonT(40)
    DEF handle_pool_deposit, handle_pool_withdraw, cardano_deposit, cardano_withdraw, Begins, cancel_expired,
        cancel_next, handle_swap_request, liquidity_pre_check, store_swap_mapping
  <2>2. op[x].tx = None /\ op[x] \in OpRec
    BY <1>1, <2>1, Zenon
  <2>3. PICK r : op' = [op EXCEPT ![x] = r] /\ r.tx = op[x].tx
    <3>1. CASE \E role, kind : Begins(x, role, kind)
      <4>1. PICK role, kind : op' = [op EXCEPT ![x] = [op[x] EXCEPT !.pc = "build", !.role = role, !.kind = kind]]
        BY <3>1, Zenon DEF Begins
      <4>2. [op[x] EXCEPT !.pc = "build", !.role = role, !.kind = kind].tx = op[x].tx
        BY <2>2, Zenon DEF OpRec
      <4> QED
        BY <4>1, <4>2, Zenon
    <3>2. CASE cancel_expired(x)
      <4>1. PICK T : op' = [op EXCEPT ![x] = [op[x] EXCEPT !.pc = "loop", !.role = "command", !.kind = "cancel", !.todo = T]]
        BY <3>2, Zenon DEF cancel_expired
      <4>2. [op[x] EXCEPT !.pc = "loop", !.role = "command", !.kind = "cancel", !.todo = T].tx = op[x].tx
        BY <2>2, Zenon DEF OpRec
      <4> QED
        BY <4>1, <4>2, Zenon
    <3>3. CASE cancel_next(x)
      <4>1. ASSUME NEW e, NEW T, op' = [op EXCEPT ![x] = [op[x] EXCEPT !.pc = "build", !.cur = e, !.todo = T]]
            PROVE  \E r : op' = [op EXCEPT ![x] = r] /\ r.tx = op[x].tx
        <5>1. [op[x] EXCEPT !.pc = "build", !.cur = e, !.todo = T].tx = op[x].tx
          BY <2>2, Zenon DEF OpRec
        <5> QED
          BY <4>1, <5>1, Zenon
      <4>2. ASSUME op' = [op EXCEPT ![x] = [op[x] EXCEPT !.pc = "done"]]
            PROVE  \E r : op' = [op EXCEPT ![x] = r] /\ r.tx = op[x].tx
        <5>1. [op[x] EXCEPT !.pc = "done"].tx = op[x].tx
          BY <2>2, Zenon DEF OpRec
        <5> QED
          BY <4>2, <5>1, Zenon
      <4> QED
        BY <3>3, <4>1, <4>2, Zenon DEF cancel_next
    <3>4. CASE handle_swap_request(x)
      <4>1. PICK pc, a : op' = [op EXCEPT ![x] = [op[x] EXCEPT !.role = "swap", !.kind = "create", !.pc = pc, !.answer = a]]
        BY <3>4, Zenon DEF handle_swap_request
      <4>2. [op[x] EXCEPT !.role = "swap", !.kind = "create", !.pc = pc, !.answer = a].tx = op[x].tx
        BY <2>2, Zenon DEF OpRec
      <4> QED
        BY <4>1, <4>2, Zenon
    <3>5. CASE liquidity_pre_check(x)
      <4>1. ASSUME op' = [op EXCEPT ![x] = [op[x] EXCEPT !.pc = "build"]]
            PROVE  \E r : op' = [op EXCEPT ![x] = r] /\ r.tx = op[x].tx
        <5>1. [op[x] EXCEPT !.pc = "build"].tx = op[x].tx
          BY <2>2, Zenon DEF OpRec
        <5> QED
          BY <4>1, <5>1, Zenon
      <4>2. ASSUME op' = [op EXCEPT ![x] = [op[x] EXCEPT !.pc = "done", !.answer = "failed"]]
            PROVE  \E r : op' = [op EXCEPT ![x] = r] /\ r.tx = op[x].tx
        <5>1. [op[x] EXCEPT !.pc = "done", !.answer = "failed"].tx = op[x].tx
          BY <2>2, Zenon DEF OpRec
        <5> QED
          BY <4>2, <5>1, Zenon
      <4> QED
        BY <3>5, <4>1, <4>2, Zenon DEF liquidity_pre_check
    <3>6. CASE store_swap_mapping(x)
      <4>1. PICK a : op' = [op EXCEPT ![x] = [op[x] EXCEPT !.pc = "done", !.att = 0, !.answer = a]]
        BY <3>6, Zenon DEF store_swap_mapping
      <4>2. [op[x] EXCEPT !.pc = "done", !.att = 0, !.answer = a].tx = op[x].tx
        BY <2>2, Zenon DEF OpRec
      <4> QED
        BY <4>1, <4>2, Zenon
    <3> QED
      BY <1>12, <3>1, <3>2, <3>3, <3>4, <3>5, <3>6, Zenon
      DEF handle_pool_deposit, handle_pool_withdraw, cardano_deposit, cardano_withdraw
  <2> QED
    BY <1>1, <2>1, <2>2, <2>3, BackedOp, Zenon
<1> QED
  BY <1>2, <1>3, <1>4, <1>5, <1>6, <1>7, <1>8, <1>9, <1>10, <1>11, <1>12, ZenonT(40) DEF Next, Node, Step

\* An accepted swap keeps its cBTC reserved in the pool until it is fulfilled or
\* expires, and the pool never holds less than its entries reserve.
THEOREM SwapKept == Spec => []SwapBacked
<1>1. Init => BackedInv
  <2> SUFFICES ASSUME Init PROVE BackedInv
    OBVIOUS
  <2>1. Current = [total |-> Liquidity, open |-> {}]
    BY DEF Init, Current
  <2>2. available(Current) = Liquidity
    BY <2>1, PoolAssumption, FS_EmptySet DEF available
  <2>3. \A x \in Callers : op[x].tx = None
    BY DEF Init, Idle
  <2>4. None # "valid"
    BY PoolAssumption DEF PoolAssumption, Txs
  <2> QED
    BY <2>2, <2>3, <2>4, PoolAssumption DEF BackedInv, Init
<1>2. IInv /\ BackedInv /\ [Next]_vars => BackedInv'
  <2>1. ASSUME UNCHANGED vars, BackedInv PROVE BackedInv'
    BY <2>1, Zenon DEF vars, BackedInv, EntryOf, Allowed, available, Current
  <2> QED
    BY <2>1, BackedStep
<1>3. IInv /\ BackedInv => SwapBacked
  BY DEF IInv, BackedInv, SwapBacked
<1> QED
  BY <1>1, <1>2, <1>3, Inductive, PTL DEF Spec

\* No step but a request's first one adds to the swaps that are active or on the
\* way.
LEMMA Shrinks ==
  ASSUME IInv, Next, \A i \in Callers : ~handle_swap_request(i)
  PROVE  active' \cup InProgress' \subseteq active \cup InProgress
<1>0. OpOK
  BY TypeParts, Zenon DEF IInv
<1>1. ASSUME NEW x \in Callers, NEW r, op' = [op EXCEPT ![x] = r], active' = active,
             op[x].pc # "done", r.role = op[x].role \/ r.role # "swap"
      PROVE  active' \cup InProgress' \subseteq active \cup InProgress
  BY <1>0, <1>1 DEF InProgress, OpOK
<1>2. ASSUME NEW x \in Callers, NEW a \in Outcomes
      PROVE  Ends(x, a).role = op[x].role
  BY <1>0, Zenon DEF Ends, OpOK, OpRec
<1>3. ASSUME active' \subseteq active, \A y \in Callers : op'[y].pc = op[y].pc /\ op'[y].role = op[y].role
      PROVE  active' \cup InProgress' \subseteq active \cup InProgress
  BY <1>3 DEF InProgress
<1>4. \A y \in Callers : Stale[y].pc = op[y].pc /\ Stale[y].role = op[y].role
  BY <1>0 DEF Stale, OpOK, OpRec
<1>5. ASSUME NEW x \in Callers, Node(x)
      PROVE  active' \cup InProgress' \subseteq active \cup InProgress
  <2>1. active' = active
    BY <1>5 DEF Node, node_accepts, node_rejects
  <2>2. CASE op' = [op EXCEPT ![x].tx = "rejected"]
    BY <1>0, <1>3, <2>1, <2>2, ZenonT(40) DEF OpOK, OpRec
  <2>3. CASE op' = [Stale EXCEPT ![x].tx = "accepted"]
    <3>1. \A y \in Callers : op'[y].pc = Stale[y].pc /\ op'[y].role = Stale[y].role
      <4>1. Stale \in [Callers -> OpRec]
        BY StaleFits DEF Stale
      <4> HIDE DEF Stale
      <4> QED
        BY <2>3, <4>1 DEF OpRec
    <3> QED
      BY <1>3, <1>4, <2>1, <3>1
  <2> QED
    BY <1>5, <2>2, <2>3 DEF Node, node_accepts, node_rejects
<1>6. ASSUME NEW x \in Callers, Transact(x)
      PROVE  active' \cup InProgress' \subseteq active \cup InProgress
  <2>1. active' = active /\ op[x].pc # "done" /\ op[x] \in OpRec
    BY <1>6, CallerFacts, Zenon DEF Transact, build_and_submit, submit_ok, retryable_error, other_error
  <2>2. \A a \in Outcomes : op' = [op EXCEPT ![x] = Ends(x, a)] =>
          active' \cup InProgress' \subseteq active \cup InProgress
    BY <1>1, <1>2, <2>1, Zenon
  <2>3. \A t : op' = [op EXCEPT ![x].pc = "sent", ![x].tx = t] =>
          active' \cup InProgress' \subseteq active \cup InProgress
    <3> SUFFICES ASSUME NEW t, op' = [op EXCEPT ![x].pc = "sent", ![x].tx = t]
                 PROVE  active' \cup InProgress' \subseteq active \cup InProgress
      OBVIOUS
    <3> DEFINE r == [op[x] EXCEPT !.pc = "sent", !.tx = t]
    <3>1. op' = [op EXCEPT ![x] = r] /\ r.role = op[x].role
      BY <1>0, <2>1, Zenon DEF OpOK, OpRec
    <3> HIDE DEF r
    <3> QED
      BY <1>1, <2>1, <3>1, Zenon
  <2>4. op' = [op EXCEPT ![x] = [op[x] EXCEPT !.pc = "build", !.att = op[x].att + 1, !.tx = None]] =>
          active' \cup InProgress' \subseteq active \cup InProgress
    <3> DEFINE r == [op[x] EXCEPT !.pc = "build", !.att = op[x].att + 1, !.tx = None]
    <3>1. r.role = op[x].role
      BY <2>1 DEF OpRec
    <3> HIDE DEF r
    <3>2. op' = [op EXCEPT ![x] = r] => active' \cup InProgress' \subseteq active \cup InProgress
      BY <1>1, <2>1, <3>1, Zenon
    <3> QED
      BY <3>2 DEF r
  <2>5. {"ok", "failed", "exhausted"} \subseteq Outcomes
    BY DEF Outcomes
  <2>6. CASE build_and_submit(x)
    BY <2>2, <2>3, <2>5, <2>6, Zenon DEF build_and_submit
  <2>7. CASE submit_ok(x) \/ other_error(x)
    BY <2>2, <2>5, <2>7 DEF submit_ok, other_error
  <2>8. CASE retryable_error(x)
    <3>1. CASE Again(x)
      BY <2>4, <2>8, <3>1 DEF retryable_error
    <3>2. CASE ~Again(x)
      <4> DEFINE a == IF op[x].role = "request" THEN "failed" ELSE "exhausted"
      <4>1. a \in Outcomes
        BY <2>5
      <4>2. op' = [op EXCEPT ![x] = Ends(x, a)]
        BY <2>8, <3>2 DEF retryable_error
      <4> HIDE DEF a
      <4> QED
        BY <2>2, <4>1, <4>2, Zenon
    <3> QED
      BY <3>1, <3>2
  <2> QED
    BY <1>6, <2>6, <2>7, <2>8, Zenon DEF Transact
<1>7. ASSUME NEW x \in Callers, NEW role, NEW kind, role # "swap", Begins(x, role, kind)
      PROVE  active' \cup InProgress' \subseteq active \cup InProgress
  <2> DEFINE r == [op[x] EXCEPT !.pc = "build", !.role = role, !.kind = kind]
  <2>1. op' = [op EXCEPT ![x] = r] /\ op[x].pc = "idle" /\ active' = active
    BY <1>0, <1>7 DEF Begins, OpOK
  <2>2. r.role = role
    BY <1>0 DEF OpOK, OpRec
  <2> HIDE DEF r
  <2> QED
    BY <1>1, <1>7, <2>1, <2>2, Zenon
<1>8. ASSUME NEW x \in Callers, cancel_expired(x)
      PROVE  active' \cup InProgress' \subseteq active \cup InProgress
  <2> DEFINE todo == {e \in Indexed.open : e[1] \in expired}
             r == [op[x] EXCEPT !.pc = "loop", !.role = "command", !.kind = "cancel", !.todo = todo]
  <2>1. op' = [op EXCEPT ![x] = r] /\ op[x].pc = "idle" /\ active' = active
    BY <1>0, <1>8 DEF cancel_expired, OpOK
  <2> HIDE DEF todo
  <2>2. r.role = "command"
    BY <1>0 DEF OpOK, OpRec
  <2> HIDE DEF r
  <2> QED
    BY <1>1, <2>1, <2>2, ZenonT(40)
<1>9. ASSUME NEW x \in Callers, pool_timeout(x) \/ cancel_next(x) \/ liquidity_pre_check(x)
      PROVE  active' \cup InProgress' \subseteq active \cup InProgress
  <2>1. op[x].pc # "done" /\ active' = active /\ op[x] \in OpRec
    BY <1>9, CallerFacts, Zenon DEF pool_timeout, cancel_next, liquidity_pre_check
  <2>2. ASSUME NEW pc, NEW answer,
               op' = [op EXCEPT ![x] = [@ EXCEPT !.pc = pc, !.att = 0, !.tx = None, !.answer = answer]]
        PROVE  active' \cup InProgress' \subseteq active \cup InProgress
    <3> DEFINE r == [op[x] EXCEPT !.pc = pc, !.att = 0, !.tx = None, !.answer = answer]
    <3>1. op' = [op EXCEPT ![x] = r] /\ r.role = op[x].role
      BY <1>0, <2>1, <2>2, ZenonT(40) DEF OpOK, OpRec
    <3> HIDE DEF r
    <3> QED
      BY <1>1, <2>1, <3>1, Zenon
  <2>3. ASSUME NEW pc, NEW e, NEW todo,
               op' = [op EXCEPT ![x] = [op[x] EXCEPT !.pc = pc, !.cur = e, !.todo = todo]]
        PROVE  active' \cup InProgress' \subseteq active \cup InProgress
    <3> DEFINE r == [op[x] EXCEPT !.pc = pc, !.cur = e, !.todo = todo]
    <3>1. op' = [op EXCEPT ![x] = r] /\ r.role = op[x].role
      BY <1>0, <2>1, <2>3, ZenonT(40) DEF OpOK, OpRec
    <3> HIDE DEF r
    <3> QED
      BY <1>1, <2>1, <3>1, Zenon
  <2>4. ASSUME NEW pc, op' = [op EXCEPT ![x] = [@ EXCEPT !.pc = pc]]
        PROVE  active' \cup InProgress' \subseteq active \cup InProgress
    <3> DEFINE r == [op[x] EXCEPT !.pc = pc]
    <3>1. op' = [op EXCEPT ![x] = r] /\ r.role = op[x].role
      BY <1>0, <2>1, <2>4, ZenonT(40) DEF OpOK, OpRec
    <3> HIDE DEF r
    <3> QED
      BY <1>1, <2>1, <3>1, Zenon
  <2>5. ASSUME NEW pc, NEW answer, op' = [op EXCEPT ![x] = [@ EXCEPT !.pc = pc, !.answer = answer]]
        PROVE  active' \cup InProgress' \subseteq active \cup InProgress
    <3> DEFINE r == [op[x] EXCEPT !.pc = pc, !.answer = answer]
    <3>1. op' = [op EXCEPT ![x] = r] /\ r.role = op[x].role
      BY <1>0, <2>1, <2>5, Zenon DEF OpOK, OpRec
    <3> HIDE DEF r
    <3> QED
      BY <1>1, <2>1, <3>1, Zenon
  <2>6. CASE pool_timeout(x)
    BY <2>2, <2>6, ZenonT(40) DEF pool_timeout
  <2>7. CASE cancel_next(x)
    BY <2>3, <2>4, <2>7, ZenonT(40) DEF cancel_next
  <2>8. CASE liquidity_pre_check(x)
    BY <2>4, <2>5, <2>8, Zenon DEF liquidity_pre_check
  <2> QED
    BY <1>9, <2>6, <2>7, <2>8
<1>10. ASSUME NEW x \in Callers, store_swap_mapping(x)
       PROVE  active' \cup InProgress' \subseteq active \cup InProgress
  <2>1. op[x].pc = "created" /\ op[x].role = "swap"
    BY <1>10, CallerFacts DEF store_swap_mapping, Shape
  <2>2. /\ active' \subseteq active \cup {x} /\ x \in InProgress
        /\ \A y \in Callers : y # x => op'[y] = op[y]
    BY <1>0, <1>10, <2>1, Zenon DEF store_swap_mapping, InProgress, OpOK
  <2> QED
    BY <2>2, Zenon DEF InProgress
<1>11. ASSUME \/ \E t \in late : node_accepts_late(t) \/ node_rejects_late(t)
              \/ blockfrost_indexes
              \/ \E i \in Callers : fulfill_swap(i) \/ expire(i) \/ monitor_expired(i)
       PROVE  active' \cup InProgress' \subseteq active \cup InProgress
  <2>1. active' \subseteq active /\ (op' = op \/ op' = Stale)
    BY <1>11, Zenon DEF node_accepts_late, node_rejects_late, blockfrost_indexes, fulfill_swap, expire, monitor_expired
  <2>2. \A y \in Callers : op'[y].pc = op[y].pc /\ op'[y].role = op[y].role
    BY <1>4, <2>1
  <2> QED
    BY <1>3, <2>1, <2>2, Zenon
<1> QED
  BY <1>5, <1>6, <1>7, <1>8, <1>9, <1>10, <1>11, ZenonT(40)
  DEF Next, Step, handle_pool_deposit, handle_pool_withdraw, cardano_deposit, cardano_withdraw

\* Swap requests that pass the check on active swaps together overshoot
\* max_active_swaps by less than the number of requests in progress at once.
THEOREM ActiveSwapsBounded == Spec => []ActiveBounded
<1> USE PoolAssumption, CallersFinite
<1>1. ASSUME NEW S \in SUBSET Callers
      PROVE  IsFiniteSet(S) /\ Cardinality(S) \in Nat
  BY FS_Subset, FS_CardinalityType
<1>2. Init => ActiveBounded
  <2> SUFFICES ASSUME Init PROVE ActiveBounded
    OBVIOUS
  <2>1. active \cup InProgress = {}
    BY DEF Init, Idle, InProgress, Roles
  <2> QED
    BY <2>1, FS_EmptySet DEF ActiveBounded
<1>3. ASSUME IInv, ActiveBounded, NEW i \in Callers, handle_swap_request(i)
      PROVE  ActiveBounded'
  <2>0. OpOK /\ active \in SUBSET Callers /\ InProgress \in SUBSET Callers /\ op[i] \in OpRec
    BY <1>3, TypeParts DEF IInv, RestOK, InProgress, OpOK
  <2>1. /\ active' = active /\ Cardinality(InProgress) < Handlers
        /\ op'[i].pc = IF below_cap THEN "precheck" ELSE "done"
        /\ \A y \in Callers : y # i => op'[y] = op[y]
    BY <1>3, <2>0, ZenonT(40) DEF handle_swap_request, OpOK, OpRec
  <2>2. CASE ~below_cap
    <3>1. active' \cup InProgress' \subseteq active \cup InProgress
      BY <2>1, <2>2, Zenon DEF InProgress
    <3>2. Cardinality(active' \cup InProgress') <= Cardinality(active \cup InProgress)
      BY <1>1, <2>0, <3>1, FS_Subset, ZenonT(40)
    <3> QED
      BY <1>1, <1>3, <2>0, <3>1, <3>2, SMTT(30) DEF ActiveBounded
  <2>3. CASE below_cap
    <3> DEFINE B == active \cup InProgress
    <3>1. active' \cup InProgress' \subseteq B \cup {i}
      BY <2>1, Zenon DEF InProgress
    <3>2. /\ IsFiniteSet(B) /\ IsFiniteSet(active) /\ IsFiniteSet(InProgress)
          /\ Cardinality(active) \in Nat /\ Cardinality(InProgress) \in Nat
          /\ Cardinality(B) \in Nat /\ Cardinality(active \cap InProgress) \in Nat
          /\ Cardinality(active' \cup InProgress') \in Nat
      <4>1. B \in SUBSET Callers /\ active \cap InProgress \in SUBSET Callers
            /\ active' \cup InProgress' \in SUBSET Callers
        BY <2>0, <3>1, Zenon
      <4> HIDE DEF B
      <4> QED
        BY <1>1, <2>0, <4>1, Zenon
    <3>3. Cardinality(B) <= Cardinality(active) + Cardinality(InProgress)
      <4>1. Cardinality(B) = Cardinality(active) + Cardinality(InProgress) - Cardinality(active \cap InProgress)
        BY <3>2, FS_Union, Zenon
      <4> HIDE DEF B
      <4> QED
        BY <3>2, <4>1
    <3> HIDE DEF B
    <3>4. IsFiniteSet(B \cup {i}) /\ Cardinality(B \cup {i}) <= Cardinality(B) + 1
      <4>1. /\ IsFiniteSet(B \cup {i})
            /\ Cardinality(B \cup {i}) = IF i \in B THEN Cardinality(B) ELSE Cardinality(B) + 1
        BY <3>2, FS_AddElement, Zenon
      <4> QED
        BY <3>2, <4>1
    <3>5. Cardinality(active' \cup InProgress') <= Cardinality(B \cup {i})
      BY <3>1, <3>4, FS_Subset, Zenon
    <3>6. Cardinality(B \cup {i}) \in Nat
      BY <3>4, FS_CardinalityType, Zenon
    <3> QED
      BY <2>1, <2>3, <3>2, <3>3, <3>4, <3>5, <3>6, SMTT(30) DEF ActiveBounded, below_cap
  <2> QED
    BY <2>2, <2>3, ZenonT(40)
<1>4. ASSUME IInv, ActiveBounded, Next, \A i \in Callers : ~handle_swap_request(i)
      PROVE  ActiveBounded'
  <2>1. active' \cup InProgress' \subseteq active \cup InProgress
    BY <1>4, Shrinks, Zenon
  <2>2. active \cup InProgress \in SUBSET Callers
    BY <1>4, TypeParts, Zenon DEF IInv, RestOK, InProgress
  <2>3. Cardinality(active' \cup InProgress') <= Cardinality(active \cup InProgress)
    BY <1>1, <2>1, <2>2, FS_Subset, Zenon
  <2>4. Cardinality(active' \cup InProgress') \in Nat /\ Cardinality(active \cup InProgress) \in Nat
    BY <1>1, <2>1, <2>2, Zenon
  <2> QED
    BY <1>4, <2>3, <2>4 DEF ActiveBounded
<1>5. ActiveBounded /\ UNCHANGED vars => ActiveBounded'
  BY Zenon DEF ActiveBounded, InProgress, vars
<1>6. IInv /\ ActiveBounded /\ [Next]_vars => ActiveBounded'
  BY <1>3, <1>4, <1>5
<1> QED
  BY <1>2, <1>6, Inductive, PTL DEF Spec
=============================================================================
