--------------------------- MODULE PaymentsProofs ---------------------------
(***************************************************************************)
(* The safety properties of Payments for every set of payments and         *)
(* callers, any number of sends and any number of crashes.                 *)
(*                                                                         *)
(* What is on disk is the last write that landed, and any write that is    *)
(* still outstanding may land next, so a claim about a row on disk is only *)
(* inductive as a claim about memory, disk and all outstanding writes      *)
(* (Everywhere).  A caller makes it true by changing the row, calling      *)
(* write() and waiting: from its write on every outstanding one has the    *)
(* new row, and when its own is done nothing older is left (FromWriteOf).  *)
(* An offer's write carries rows encoded earlier; for rows that did not    *)
(* change in between, those not in stale, it is as good as any other.      *)
(***************************************************************************)
EXTENDS Payments, SequenceTheorems, TLAPS

Callers == Tasks \cup {"handler"}
Outstanding(i) == writes[FileOf(i)]

\* Whatever lands or crashes, i's row is in V.
Everywhere(i, V) ==
  /\ mem[i] \in V /\ disk[i] \in V
  /\ \A k \in 1..Len(Outstanding(i)) : Outstanding(i)[k].snap[i] \in V

\* ... once w's write is done.
FromWriteOf(w, i, V) ==
  /\ mem[i] \in V
  /\ \A k, n \in 1..Len(Outstanding(i)) :
       Outstanding(i)[k].by = w /\ k <= n => Outstanding(i)[n].snap[i] \in V
  /\ Written(w, FileOf(i)) => Everywhere(i, V)

\* No caller starts a write before its last one is done.
Waiting(t, f) == task[t].at \in {"writing", "saving"} /\ FileOf(task[t].id) = f
Handling(f) == handler # None /\ FileOf(handler.id) = f
WriteInv ==
  \A f \in Files :
    /\ \A t \in Tasks : ~Waiting(t, f) => Written(t, f)
    /\ ~Handling(f) => Written("handler", f)

\* An attempt that LDK has not seen yet.
Preparing(t, i) == task[t].at \in {"inserted", "encoded", "writing"} /\ task[t].id = i
\* LDK's events of i that were not delivered or may come again.
EventsLeft(i) == {e \in Range(events) \cup Range(unsaved) : e.id = i}

TaskInv(i) ==
  \A t \in Tasks : Preparing(t, i) =>
    /\ i \in Outbounds /\ mem[i] # None /\ sends[i] > 0
    /\ task[t].at \in {"inserted", "encoded"} => i \in Offers
    /\ sends[i] = 1 =>
         /\ ldk[i] = "unknown" /\ outcome[i] = None /\ EventsLeft(i) = {}
         /\ \A u \in Tasks : Preparing(u, i) => u = t

\* LDK knows an outbound payment or has an event for it: its row is safe.
KnownInv(i) ==
  i \in Outbounds \ stale =>
    /\ ldk[i] # "unknown" \/ EventsLeft(i) # {} => Everywhere(i, HTLCStatus)
    /\ \A t \in Tasks : task[t].at = "writing" /\ task[t].id = i => FromWriteOf(t, i, HTLCStatus)

\* A payment that LDK may yet end, an invoice that may yet be paid.
Unresolved(i) == \/ ldk[i] \in {"queued", "inflight"}
                 \/ ldk[i] = "unknown" /\ i \in Inbounds

\* How an attempt ends, and that only one attempt has events.
OutcomeInv(i) ==
  /\ outcome[i] \in {None, "Succeeded"} \cup (IF i \in Outbounds THEN {"Failed"} ELSE {})
  /\ sends[i] = 0 => ldk[i] = "unknown" /\ outcome[i] = None /\ EventsLeft(i) = {}
  /\ i \in Inbounds => ldk[i] \in {"unknown", "fulfilled"}
  /\ sends[i] = 1 /\ Unresolved(i) => outcome[i] = None /\ EventsLeft(i) = {}
  /\ sends[i] = 1 => \A e \in EventsLeft(i) : e.status = outcome[i]

\* The one attempt at i has ended and its event is being handled, or was.
SettledInv(i) ==
  i \notin stale /\ sends[i] = 1 =>
    /\ outcome[i] # None /\ EventsOf(i) = {} => Everywhere(i, {outcome[i]})
    /\ handler # None /\ handler.id = i => FromWriteOf("handler", i, {outcome[i]})

RowInv(i) == TaskInv(i) /\ KnownInv(i) /\ OutcomeInv(i) /\ SettledInv(i)
IInv == TypeOK /\ WriteInv /\ \A i \in Ids : RowInv(i)

-----------------------------------------------------------------------------
(* The files, the outstanding writes and the events.                       *)

LEMMA FilesOfRows ==
  /\ \A i \in Ids : FileOf(i) \in Files /\ i \in IdsOf(FileOf(i))
  /\ \A f \in Files, i \in Ids : i \in IdsOf(f) <=> f = FileOf(i)
  /\ \A f \in Files : IdsOf(f) \subseteq Ids
  /\ \A i \in Outbounds : FileOf(i) = "outbound"
  /\ IdsOf("outbound") = Outbounds
BY PaymentsAssumption DEF PaymentsAssumption, Files, FileOf, IdsOf, Ids

\* Encode takes the rows of one file.
LEMMA Encoded ==
  ASSUME NEW f \in Files, NEW rows \in [Ids -> Row]
  PROVE  /\ Encode(f, rows) \in [IdsOf(f) -> Row]
         /\ \A i \in Ids : f = FileOf(i) => Encode(f, rows)[i] = rows[i]
BY FilesOfRows DEF Encode

WriteRec(f) == [by : Callers, snap : [IdsOf(f) -> Row]]

LEMMA WritesAre ==
  ASSUME TypeOK, NEW f \in Files
  PROVE  /\ writes[f] \in Seq(WriteRec(f)) /\ Len(writes[f]) \in Nat
         /\ DOMAIN writes[f] = 1..Len(writes[f])
         /\ \A k \in 1..Len(writes[f]) :
              writes[f][k].by \in Callers /\ writes[f][k].snap \in [IdsOf(f) -> Row]
         /\ \A w : Written(w, f) <=> \A k \in 1..Len(writes[f]) : writes[f][k].by # w
<1>1. writes[f] \in Seq(WriteRec(f))
  BY Zenon DEF TypeOK, WriteRec, Callers
<1>2. /\ Len(writes[f]) \in Nat /\ DOMAIN writes[f] = 1..Len(writes[f])
      /\ \A k \in 1..Len(writes[f]) : writes[f][k] \in WriteRec(f)
  BY <1>1, LenProperties, ElementOfSeq
<1> QED
  BY <1>1, <1>2 DEF WriteRec, Written

\* A call of write() puts a write at the end of the file's line ...
LEMMA IssueAppends ==
  ASSUME TypeOK, NEW w \in Callers, NEW f \in Files, NEW s \in [IdsOf(f) -> Row], Issue(w, f, s)
  PROVE  /\ DOMAIN writes' = Files /\ \A g \in Files : g # f => writes'[g] = writes[g]
         /\ writes'[f] \in Seq(WriteRec(f))
         /\ Len(writes'[f]) = Len(writes[f]) + 1
         /\ \A k \in 1..Len(writes[f]) : writes'[f][k] = writes[f][k]
         /\ writes'[f][Len(writes[f]) + 1].by = w
         /\ writes'[f][Len(writes[f]) + 1].snap = s
<1> DEFINE e == [by |-> w, snap |-> s]
<1>1. e \in WriteRec(f) /\ e.by = w /\ e.snap = s
  BY DEF WriteRec
<1>2. /\ writes'[f] = Append(writes[f], e)
      /\ DOMAIN writes' = Files /\ \A g \in Files : g # f => writes'[g] = writes[g]
  BY DEF Issue, TypeOK
<1>3. writes[f] \in Seq(WriteRec(f))
  BY WritesAre
<1> HIDE DEF e
<1> QED
  BY <1>1, <1>2, <1>3, AppendProperties

\* ... and one that lands takes those before it along.
LEMMA LandTakes ==
  ASSUME TypeOK, NEW f \in Files, land(f)
  PROVE  \E k \in 1..Len(writes[f]) :
           /\ \A i \in Ids : disk'[i] = IF f = FileOf(i) THEN writes[f][k].snap[i] ELSE disk[i]
           /\ DOMAIN writes' = Files /\ \A g \in Files : g # f => writes'[g] = writes[g]
           /\ writes'[f] \in Seq(WriteRec(f))
           /\ Len(writes'[f]) = Len(writes[f]) - k
           /\ \A n \in 1..Len(writes'[f]) : writes'[f][n] = writes[f][k + n]
<1>1. PICK k \in 1..Len(writes[f]) :
        /\ disk' = [i \in Ids |-> IF i \in IdsOf(f) THEN writes[f][k].snap[i] ELSE disk[i]]
        /\ writes' = [writes EXCEPT ![f] = SubSeq(@, k + 1, Len(@))]
  BY WritesAre, Zenon DEF land
<1>2. /\ writes'[f] = SubSeq(writes[f], k + 1, Len(writes[f]))
      /\ DOMAIN writes' = Files /\ \A g \in Files : g # f => writes'[g] = writes[g]
  BY <1>1, SMTT(30) DEF TypeOK
<1>3. Len(writes[f]) \in Nat /\ \A n \in (k + 1)..Len(writes[f]) : writes[f][n] \in WriteRec(f)
  BY WritesAre, ElementOfSeq
<1>4. /\ writes'[f] \in Seq(WriteRec(f))
      /\ Len(writes'[f]) = IF k + 1 <= Len(writes[f]) THEN Len(writes[f]) - (k + 1) + 1 ELSE 0
      /\ \A n \in 1..(Len(writes[f]) - (k + 1) + 1) : writes'[f][n] = writes[f][(k + 1) + n - 1]
  BY <1>2, <1>3, SubSeqProperties, SMTT(30)
<1>5. /\ Len(writes'[f]) = Len(writes[f]) - k
      /\ \A n \in 1..Len(writes'[f]) : writes'[f][n] = writes[f][k + n]
  <2>1. Len(writes'[f]) = Len(writes[f]) - k /\ Len(writes[f]) - (k + 1) + 1 = Len(writes[f]) - k
    BY <1>3, <1>4
  <2>2. \A n \in Nat : (k + 1) + n - 1 = k + n
    OBVIOUS
  <2>3. \A n \in 1..Len(writes'[f]) : n \in Nat
    BY <1>3, <2>1
  <2> QED
    BY <1>4, <2>1, <2>2, <2>3, Zenon
<1>6. \A i \in Ids : disk'[i] = IF f = FileOf(i) THEN writes[f][k].snap[i] ELSE disk[i]
  BY <1>1, FilesOfRows, Zenon
<1> QED
  BY <1>2, <1>4, <1>5, <1>6, Zenon

LEMMA EventsAre ==
  ASSUME TypeOK
  PROVE  /\ Range(events) \subseteq Event /\ Range(unsaved) \subseteq Event
         /\ \A i : EventsOf(i) = {} <=> \A e \in Range(events) : e.id # i
         /\ \A i : UnsavedOf(i) = {} <=> \A e \in Range(unsaved) : e.id # i
<1>1. Range(events) \subseteq Event /\ Range(unsaved) \subseteq Event
  BY RangeOfSeq DEF TypeOK
<1> QED
  BY <1>1 DEF Range, EventsOf, UnsavedOf

LEMMA RangeOfAppend ==
  ASSUME NEW S, NEW s \in Seq(S), NEW e \in S
  PROVE  Range(Append(s, e)) = Range(s) \cup {e}
<1>1. Append(s, e) \in Seq(S) /\ Len(s) \in Nat
  BY AppendProperties, LenProperties
<1>2. /\ Range(Append(s, e)) = {Append(s, e)[k] : k \in 1..Len(Append(s, e))}
      /\ Range(s) = {s[k] : k \in 1..Len(s)}
  BY <1>1, RangeEquality, ZenonT(30)
<1>3. /\ Len(Append(s, e)) = Len(s) + 1 /\ Append(s, e)[Len(s) + 1] = e
      /\ \A k \in 1..Len(s) : Append(s, e)[k] = s[k]
  BY AppendProperties
<1>4. ASSUME NEW x \in Range(Append(s, e))
      PROVE  x \in Range(s) \cup {e}
  <2>1. PICK k \in 1..(Len(s) + 1) : x = Append(s, e)[k]
    BY <1>2, <1>3
  <2>2. k = Len(s) + 1 \/ k \in 1..Len(s)
    BY <1>1, <2>1
  <2> QED
    BY <1>2, <1>3, <2>1, <2>2, Zenon
<1>5. ASSUME NEW x \in Range(s) \cup {e}
      PROVE  x \in Range(Append(s, e))
  <2>1. PICK k \in 1..(Len(s) + 1) : x = Append(s, e)[k]
    <3>1. Len(s) + 1 \in 1..(Len(s) + 1) /\ \A k \in 1..Len(s) : k \in 1..(Len(s) + 1)
      BY <1>1
    <3> QED
      BY <1>2, <1>3, <3>1, Zenon
  <2> QED
    BY <1>2, <1>3, <2>1
<1> QED
  BY <1>4, <1>5, Zenon

LEMMA RangeOfTail ==
  ASSUME NEW S, NEW s \in Seq(S), s # <<>>
  PROVE  Range(s) = {Head(s)} \cup Range(Tail(s))
<1>1. Tail(s) \in Seq(S) /\ Len(Tail(s)) = Len(s) - 1 /\ Len(s) \in Nat \ {0} /\ Head(s) = s[1]
  BY HeadTailProperties, EmptySeq
<1>2. /\ Range(Tail(s)) = {Tail(s)[k] : k \in 1..Len(Tail(s))}
      /\ Range(s) = {s[k] : k \in 1..Len(s)}
  BY <1>1, RangeEquality, ZenonT(30)
<1>3. \A k \in 1..Len(Tail(s)) : Tail(s)[k] = s[k + 1]
  BY HeadTailProperties
<1>4. ASSUME NEW x \in Range(s)
      PROVE  x = Head(s) \/ x \in Range(Tail(s))
  <2>1. PICK k \in 1..Len(s) : x = s[k]
    BY <1>2
  <2>2. CASE k = 1
    BY <1>1, <2>1, <2>2
  <2>3. CASE k # 1
    <3>1. k - 1 \in 1..Len(Tail(s)) /\ (k - 1) + 1 = k
      BY <1>1, <2>1, <2>3
    <3>2. Tail(s)[k - 1] = x
      BY <1>3, <2>1, <3>1
    <3> QED
      BY <1>2, <3>1, <3>2
  <2> QED
    BY <2>2, <2>3
<1>5. ASSUME NEW x \in Range(Tail(s))
      PROVE  x \in Range(s)
  <2>1. PICK k \in 1..Len(Tail(s)) : x = Tail(s)[k]
    BY <1>2
  <2>2. k + 1 \in 1..Len(s) /\ x = s[k + 1]
    BY <1>1, <1>3, <2>1
  <2> QED
    BY <1>2, <2>2
<1>6. Head(s) \in Range(s)
  <2>1. 1 \in 1..Len(s)
    BY <1>1
  <2> QED
    BY <1>1, <1>2, <2>1
<1> QED
  BY <1>4, <1>5, <1>6, Zenon

-----------------------------------------------------------------------------
(* What a step does to the row of i on its way to the disk.                *)

\* No write of i's file is called or lands, ...
Quiet(i) == disk'[i] = disk[i] /\ Outstanding(i)' = Outstanding(i)
\* ... or one is called with i's row as it is then, ...
Saves(w, i) ==
  /\ disk'[i] = disk[i]
  /\ \E s \in [IdsOf(FileOf(i)) -> Row] : s[i] = mem'[i] /\ Issue(w, FileOf(i), s)
\* ... or one lands.
RowStep(i) == Quiet(i) \/ (\E w \in Callers : Saves(w, i)) \/ (\E f \in Files : land(f))

\* Under any such step a row that is in V everywhere stays so, as long as the
\* step leaves it in V in memory.
LEMMA EverywhereKept ==
  ASSUME TypeOK, NEW i \in Ids, NEW V, Everywhere(i, V), RowStep(i), mem'[i] \in V
  PROVE  Everywhere(i, V)'
<1> DEFINE f == FileOf(i)
           L == Len(writes[f])
<1>0. /\ f \in Files /\ L \in Nat /\ disk[i] \in V
      /\ \A k \in 1..L : writes[f][k].snap[i] \in V
  BY FilesOfRows, WritesAre, Zenon DEF Everywhere, Outstanding
<1>1. SUFFICES disk'[i] \in V /\ \A k \in 1..Len(writes'[f]) : writes'[f][k].snap[i] \in V
  BY Zenon DEF Everywhere, Outstanding
<1>2. CASE Quiet(i)
  BY <1>0, <1>2, Zenon DEF Quiet, Outstanding
<1>3. ASSUME NEW w \in Callers, Saves(w, i)
      PROVE  disk'[i] \in V /\ \A k \in 1..Len(writes'[f]) : writes'[f][k].snap[i] \in V
  <2>1. PICK s \in [IdsOf(f) -> Row] : s[i] = mem'[i] /\ Issue(w, f, s)
    BY <1>3, Zenon DEF Saves
  <2>2. /\ Len(writes'[f]) = L + 1 /\ \A k \in 1..L : writes'[f][k] = writes[f][k]
        /\ writes'[f][L + 1].snap = s
    BY <1>0, <2>1, IssueAppends, SMTT(30)
  <2>3. \A k \in 1..(L + 1) : k = L + 1 \/ k \in 1..L
    BY <1>0
  <2>4. disk'[i] = disk[i]
    BY <1>3, Zenon DEF Saves
  <2> HIDE DEF f, L
  <2> QED
    BY <1>0, <2>1, <2>2, <2>3, <2>4, ZenonT(20)
<1>4. ASSUME NEW g \in Files, land(g)
      PROVE  disk'[i] \in V /\ \A k \in 1..Len(writes'[f]) : writes'[f][k].snap[i] \in V
  <2>1. PICK k \in 1..Len(writes[g]) :
          /\ disk'[i] = IF g = f THEN writes[g][k].snap[i] ELSE disk[i]
          /\ g # f => writes'[f] = writes[f]
          /\ Len(writes'[g]) = Len(writes[g]) - k
          /\ \A n \in 1..Len(writes'[g]) : writes'[g][n] = writes[g][k + n]
    BY <1>0, <1>4, LandTakes, ZenonT(20)
  <2>2. CASE g # f
    BY <1>0, <2>1, <2>2, Zenon
  <2>3. CASE g = f
    <3>1. \A n \in 1..(L - k) : k + n \in 1..L
      BY <1>0, <2>1, <2>3
    <3> HIDE DEF f, L
    <3>2. k \in 1..L /\ Len(writes'[f]) = L - k
      BY <2>1, <2>3, Zenon DEF L
    <3> QED
      BY <1>0, <2>1, <2>3, <3>1, <3>2, ZenonT(20)
  <2> QED
    BY <2>2, <2>3, Zenon
<1> QED
  BY <1>2, <1>3, <1>4, Zenon DEF RowStep

\* The same of a row that a caller is waiting to see written: when its write lands,
\* or a later one does, nothing older is left.
LEMMA FromWriteKept ==
  ASSUME TypeOK, NEW i \in Ids, NEW V, NEW w, FromWriteOf(w, i, V), RowStep(i), mem'[i] \in V
  PROVE  FromWriteOf(w, i, V)'
<1> DEFINE f == FileOf(i)
           L == Len(writes[f])
<1>0. /\ f \in Files /\ L \in Nat
      /\ \A k, n \in 1..L : writes[f][k].by = w /\ k <= n => writes[f][n].snap[i] \in V
      /\ Written(w, f) => Everywhere(i, V)
      /\ Written(w, f) <=> \A k \in 1..L : writes[f][k].by # w
  BY FilesOfRows, WritesAre, Zenon DEF FromWriteOf, Outstanding
<1>1. CASE Written(w, f)
  <2>1. Everywhere(i, V)'
    BY <1>0, <1>1, EverywhereKept
  <2> QED
    BY <2>1, Zenon DEF FromWriteOf, Everywhere, Outstanding
<1>2. CASE ~Written(w, f)
  <2>1. PICK j \in 1..L : writes[f][j].by = w
    BY <1>0, <1>2, Zenon
  <2>2. CASE Quiet(i)
    <3>1. writes'[f] = writes[f]
      BY <2>2, Zenon DEF Quiet, Outstanding
    <3>2. ~Written(w, f)'
      BY <1>2, <3>1, Zenon DEF Written
    <3> QED
      BY <1>0, <3>1, <3>2, Zenon DEF FromWriteOf, Outstanding
  <2>3. ASSUME NEW u \in Callers, Saves(u, i)
        PROVE  FromWriteOf(w, i, V)'
    <3>1. PICK s \in [IdsOf(f) -> Row] : s[i] = mem'[i] /\ Issue(u, f, s)
      BY <2>3, Zenon DEF Saves
    <3>2. /\ Len(writes'[f]) = L + 1 /\ \A k \in 1..L : writes'[f][k] = writes[f][k]
          /\ writes'[f][L + 1].snap = s /\ writes'[f] \in Seq(WriteRec(f))
      BY <1>0, <3>1, IssueAppends, SMTT(30)
    <3>3. /\ \A k \in 1..(L + 1) : k = L + 1 \/ k \in 1..L
          /\ \A k \in 1..L : k \in 1..(L + 1) /\ ~(L + 1 <= k)
      BY <1>0
    <3>4. DOMAIN writes'[f] = 1..(L + 1)
      BY <3>2, LenProperties
    <3> HIDE DEF f, L
    <3>5. ~Written(w, f)'
      BY <2>1, <3>2, <3>3, <3>4, Zenon DEF Written
    <3>6. \A k, n \in 1..(L + 1) : writes'[f][k].by = w /\ k <= n => writes'[f][n].snap[i] \in V
      BY <1>0, <3>1, <3>2, <3>3, ZenonT(20)
    <3> QED
      BY <3>2, <3>5, <3>6, Zenon DEF FromWriteOf, Outstanding, f
  <2>4. ASSUME NEW g \in Files, land(g)
        PROVE  FromWriteOf(w, i, V)'
    <3>1. PICK k \in 1..Len(writes[g]) :
            /\ disk'[i] = IF g = f THEN writes[g][k].snap[i] ELSE disk[i]
            /\ g # f => writes'[f] = writes[f]
            /\ writes'[g] \in Seq(WriteRec(g))
            /\ Len(writes'[g]) = Len(writes[g]) - k
            /\ \A n \in 1..Len(writes'[g]) : writes'[g][n] = writes[g][k + n]
      BY <1>0, <2>4, LandTakes, ZenonT(20)
    <3>2. CASE g # f
      <4>1. ~Written(w, f)' /\ writes'[f] = writes[f]
        BY <1>2, <3>1, <3>2, Zenon DEF Written
      <4> QED
        BY <1>0, <4>1, Zenon DEF FromWriteOf, Outstanding
    <3>3. CASE g = f
      <4>1. /\ \A n \in 1..(L - k) : k + n \in 1..L /\ k <= k + n
            /\ \A n, m \in 1..(L - k) : n <= m => k + n <= k + m
            /\ \A n \in 1..L : n <= k \/ (n - k \in 1..(L - k) /\ k + (n - k) = n)
        BY <1>0, <3>1, <3>3
      <4>2. /\ k \in 1..L /\ Len(writes'[f]) = L - k /\ DOMAIN writes'[f] = 1..(L - k)
            /\ \A n \in 1..(L - k) : writes'[f][n] = writes[f][k + n]
            /\ disk'[i] = writes[f][k].snap[i]
        BY <3>1, <3>3, LenProperties
      <4> HIDE DEF f, L
      <4>3. \A n, m \in 1..(L - k) : writes'[f][n].by = w /\ n <= m => writes'[f][m].snap[i] \in V
        BY <1>0, <4>1, <4>2, ZenonT(20)
      <4>4. ASSUME Written(w, f)'
            PROVE  disk'[i] \in V /\ \A n \in 1..(L - k) : writes'[f][n].snap[i] \in V
        <5>1. j <= k
          <6>1. SUFFICES ASSUME j - k \in 1..(L - k), k + (j - k) = j
                         PROVE  FALSE
            BY <2>1, <4>1, Zenon
          <6>2. writes'[f][j - k].by = w
            BY <2>1, <4>2, <6>1, Zenon
          <6> QED
            BY <4>2, <4>4, <6>1, <6>2, Zenon DEF Written
        <5>2. \A n \in 1..(L - k) : j <= k + n
          BY <1>0, <2>1, <4>2, <5>1 DEF L
        <5> QED
          BY <1>0, <2>1, <4>1, <4>2, <5>1, <5>2, ZenonT(20)
      <4> QED
        BY <4>2, <4>3, <4>4, Zenon DEF FromWriteOf, Everywhere, Outstanding, f
    <3> QED
      BY <3>2, <3>3, Zenon
  <2> QED
    BY <2>2, <2>3, <2>4, Zenon DEF RowStep
<1> QED
  BY <1>1, <1>2, Zenon

\* A caller that has no write outstanding changes the row and calls write().
LEMMA FromWriteStarts ==
  ASSUME TypeOK, NEW i \in Ids, NEW V, NEW w \in Callers, Written(w, FileOf(i)), Saves(w, i), mem'[i] \in V
  PROVE  FromWriteOf(w, i, V)'
<1> DEFINE f == FileOf(i)
           L == Len(writes[f])
<1>0. f \in Files /\ L \in Nat /\ \A k \in 1..L : writes[f][k].by # w
  BY FilesOfRows, WritesAre, Zenon
<1>1. PICK s \in [IdsOf(f) -> Row] : s[i] = mem'[i] /\ Issue(w, f, s)
  BY Zenon DEF Saves
<1>2. /\ Len(writes'[f]) = L + 1 /\ \A k \in 1..L : writes'[f][k] = writes[f][k]
      /\ writes'[f][L + 1].by = w /\ writes'[f][L + 1].snap = s /\ writes'[f] \in Seq(WriteRec(f))
  BY <1>0, <1>1, IssueAppends, SMTT(30)
<1>3. /\ \A k \in 1..(L + 1) : k = L + 1 \/ k \in 1..L
      /\ L + 1 \in 1..(L + 1) /\ \A k \in 1..L : ~(L + 1 <= k)
  BY <1>0
<1>4. DOMAIN writes'[f] = 1..(L + 1)
  BY <1>2, LenProperties
<1> HIDE DEF f, L
<1>5. ~Written(w, f)'
  BY <1>2, <1>3, <1>4, Zenon DEF Written
<1>6. \A k, n \in 1..(L + 1) : writes'[f][k].by = w /\ k <= n => writes'[f][n].snap[i] \in V
  BY <1>0, <1>1, <1>2, <1>3, ZenonT(20)
<1> QED
  BY <1>2, <1>5, <1>6, Zenon DEF FromWriteOf, Outstanding, f

-----------------------------------------------------------------------------
(* Types, and who has a write outstanding.                                 *)

RowsOK == mem \in [Ids -> Row] /\ disk \in [Ids -> Row]
WritesOK ==
  /\ DOMAIN writes = Files
  /\ \A f \in Files :
       /\ writes[f] \in Seq(WriteRec(f))
       /\ \A k, n \in DOMAIN writes[f] : writes[f][k].by = writes[f][n].by => k = n
TaskRec == [at : {"idle", "inserted", "encoded", "writing", "saving"},
            id : Ids \cup {None}, snap : [Outbounds -> Row] \cup {None}]
TasksOK ==
  /\ task \in [Tasks -> TaskRec]
  /\ \A t \in Tasks : /\ task[t].at # "idle" => task[t].id \in Ids
                      /\ task[t].at = "encoded" => task[t].snap \in [Outbounds -> Row]
LdkOK ==
  /\ ldk \in [Ids -> {"unknown", "queued", "inflight", "fulfilled"}]
  /\ events \in Seq(Event) /\ unsaved \in Seq(Event)
  /\ handler # None => events # <<>> /\ handler = Head(events)
  /\ outcome \in [Ids -> Row]
CountsOK == sends \in [Ids -> Nat] /\ stale \subseteq Outbounds /\ dropped \subseteq Ids /\ crashes \in Nat

LEMMA TypeParts == TypeOK <=> RowsOK /\ WritesOK /\ TasksOK /\ LdkOK /\ CountsOK
BY Zenon DEF TypeOK, RowsOK, WritesOK, WriteRec, Callers, TasksOK, TaskRec, LdkOK, CountsOK

\* A caller without a write outstanding may call write().
LEMMA IssueTypes ==
  ASSUME TypeOK, NEW w \in Callers, NEW f \in Files, NEW s \in [IdsOf(f) -> Row],
         Issue(w, f, s), Written(w, f)
  PROVE  /\ WritesOK'
         /\ \A u \in Callers, g \in Files :
              (Written(u, g)' <=> Written(u, g) /\ ~(u = w /\ g = f))
<1> DEFINE L == Len(writes[f])
<1>1. /\ DOMAIN writes' = Files /\ \A g \in Files : g # f => writes'[g] = writes[g]
      /\ writes'[f] \in Seq(WriteRec(f)) /\ Len(writes'[f]) = L + 1
      /\ \A k \in 1..L : writes'[f][k] = writes[f][k]
      /\ writes'[f][L + 1].by = w
  BY IssueAppends, SMTT(30)
<1>2. L \in Nat /\ DOMAIN writes[f] = 1..L /\ DOMAIN writes'[f] = 1..(L + 1)
  BY <1>1, WritesAre, LenProperties
<1>3. \A k \in 1..(L + 1) : k = L + 1 \/ k \in 1..L
  BY <1>2
<1>4. L + 1 \in 1..(L + 1) /\ \A k \in 1..L : k \in 1..(L + 1)
  BY <1>2
<1> HIDE DEF L
<1>5. \A k, n \in DOMAIN writes'[f] : writes'[f][k].by = writes'[f][n].by => k = n
  <2>1. \A k \in 1..L : writes[f][k].by # w
    BY <1>2, Zenon DEF Written
  <2>2. \A k, n \in 1..L : writes[f][k].by = writes[f][n].by => k = n
    BY <1>2, Zenon DEF TypeOK
  <2> QED
    BY <1>1, <1>2, <1>3, <2>1, <2>2, ZenonT(20)
<1>6. WritesOK'
  <2>1. ASSUME NEW g \in Files, g # f
        PROVE  /\ writes'[g] \in Seq(WriteRec(g))
               /\ \A k, n \in DOMAIN writes'[g] : writes'[g][k].by = writes'[g][n].by => k = n
    BY <1>1, <2>1, TypeParts, Zenon DEF WritesOK
  <2> QED
    BY <1>1, <1>5, <2>1, Zenon DEF WritesOK
<1>7. \A u \in Callers, g \in Files :
        (Written(u, g)' <=> Written(u, g) /\ ~(u = w /\ g = f))
  <2> SUFFICES ASSUME NEW u \in Callers, NEW g \in Files
               PROVE  Written(u, g)' <=> Written(u, g) /\ ~(u = w /\ g = f)
    BY Zenon
  <2>1. CASE g # f
    BY <1>1, <2>1, Zenon DEF Written
  <2>2. CASE g = f
    BY <1>1, <1>2, <1>3, <1>4, <2>2, ZenonT(20) DEF Written
  <2> QED
    BY <2>1, <2>2, Zenon
<1> QED
  BY <1>6, <1>7, Zenon

LEMMA LandTypes ==
  ASSUME TypeOK, NEW f \in Files, land(f)
  PROVE  /\ RowsOK' /\ WritesOK'
         /\ \A u \in Callers, g \in Files : Written(u, g) => Written(u, g)'
<1> DEFINE L == Len(writes[f])
<1>1. PICK j \in 1..L :
        /\ \A i \in Ids : disk'[i] = IF f = FileOf(i) THEN writes[f][j].snap[i] ELSE disk[i]
        /\ DOMAIN writes' = Files /\ \A g \in Files : g # f => writes'[g] = writes[g]
        /\ writes'[f] \in Seq(WriteRec(f))
        /\ Len(writes'[f]) = L - j
        /\ \A n \in 1..Len(writes'[f]) : writes'[f][n] = writes[f][j + n]
  BY LandTakes, Zenon
<1>2. /\ L \in Nat /\ DOMAIN writes[f] = 1..L /\ DOMAIN writes'[f] = 1..(L - j)
      /\ writes[f][j].snap \in [IdsOf(f) -> Row]
  BY <1>1, WritesAre, LenProperties
<1>3. /\ \A n \in 1..(L - j) : j + n \in 1..L /\ writes'[f][n] = writes[f][j + n]
      /\ \A n, m \in 1..(L - j) : j + n = j + m => n = m
  BY <1>1, <1>2, SMTT(30)
<1> HIDE DEF L
<1>4. RowsOK'
  <2>1. disk' = [i \in Ids |-> disk'[i]] /\ mem' = mem
    BY Zenon DEF land
  <2>2. \A i \in Ids : disk'[i] \in Row
    BY <1>1, <1>2, FilesOfRows, SMTT(30) DEF TypeOK
  <2> QED
    BY <2>1, <2>2 DEF TypeOK, RowsOK
<1>5. \A k, n \in DOMAIN writes'[f] : writes'[f][k].by = writes'[f][n].by => k = n
  <2>1. \A k, n \in 1..L : writes[f][k].by = writes[f][n].by => k = n
    BY <1>2, Zenon DEF TypeOK
  <2> SUFFICES ASSUME NEW k \in 1..(L - j), NEW n \in 1..(L - j), writes'[f][k].by = writes'[f][n].by
               PROVE  k = n
    BY <1>2, Zenon
  <2>2. /\ j + k \in 1..L /\ writes'[f][k] = writes[f][j + k]
        /\ j + n \in 1..L /\ writes'[f][n] = writes[f][j + n]
    BY <1>3, Zenon
  <2>3. writes[f][j + k].by = writes[f][j + n].by
    BY <2>2, Zenon
  <2>4. j + k = j + n
    BY <2>1, <2>2, <2>3, Zenon
  <2> QED
    BY <1>3, <2>4, Zenon
<1>6. WritesOK'
  <2>1. ASSUME NEW g \in Files, g # f
        PROVE  /\ writes'[g] \in Seq(WriteRec(g))
               /\ \A k, n \in DOMAIN writes'[g] : writes'[g][k].by = writes'[g][n].by => k = n
    BY <1>1, <2>1, TypeParts, Zenon DEF WritesOK
  <2> QED
    BY <1>1, <1>5, <2>1, ZenonT(40) DEF WritesOK
<1>7. \A u \in Callers, g \in Files : Written(u, g) => Written(u, g)'
  <2> SUFFICES ASSUME NEW u \in Callers, NEW g \in Files, Written(u, g)
               PROVE  Written(u, g)'
    BY Zenon
  <2>1. CASE g # f
    BY <1>1, <2>1, Zenon DEF Written
  <2>2. CASE g = f
    <3> SUFFICES ASSUME NEW k \in 1..(L - j)
                 PROVE  writes'[f][k].by # u
      BY <1>2, <2>2, Zenon DEF Written
    <3>1. j + k \in 1..L /\ writes'[f][k] = writes[f][j + k]
      BY <1>3, Zenon
    <3> QED
      BY <1>2, <2>2, <3>1, Zenon DEF Written
  <2> QED
    BY <2>1, <2>2, Zenon
<1> QED
  BY <1>4, <1>6, <1>7, Zenon

\* What RowsAfter makes of an event.
LEMMA RowsAfterEvent ==
  ASSUME TypeOK, NEW e \in Event
  PROVE  /\ RowsAfter(e) \in [Ids -> Row]
         /\ \A i \in Ids : i # e.id => RowsAfter(e)[i] = mem[i]
         /\ e.id \in Inbounds => RowsAfter(e)[e.id] = "Succeeded"
         /\ e.id \in Outbounds => RowsAfter(e)[e.id] = IF mem[e.id] = None THEN None ELSE e.status
<1>1. /\ e.id \in Ids /\ e.status \in {"Succeeded", "Failed"} /\ mem \in [Ids -> Row]
      /\ None \notin HTLCStatus /\ e.status \in HTLCStatus /\ "Succeeded" \in Row /\ "Failed" \in Row /\ None \in Row
  BY PaymentsAssumption DEF Event, TypeOK, PaymentsAssumption, HTLCStatus, Row
<1>2. CASE e.id \in Inbounds
  <2>1. e.id \notin Outbounds
    BY <1>2, PaymentsAssumption DEF PaymentsAssumption
  <2>2. RowsAfter(e) = [mem EXCEPT ![e.id] = "Succeeded"]
    BY <1>2, <2>1 DEF RowsAfter, PaymentClaimed
  <2> QED
    BY <1>1, <1>2, <2>1, <2>2
<1>3. CASE e.id \notin Inbounds
  <2>1. e.id \in Outbounds
    BY <1>1, <1>3 DEF Ids
  <2>2. RowsAfter(e) = [mem EXCEPT ![e.id] = IF @ = None THEN None ELSE e.status]
    <3>1. CASE e.status = "Succeeded"
      BY <1>3, <2>1, <3>1 DEF RowsAfter, PaymentSent
    <3>2. CASE e.status = "Failed"
      BY <1>3, <2>1, <3>2 DEF RowsAfter, PaymentFailed
    <3> QED
      BY <1>1, <3>1, <3>2, Zenon
  <2> QED
    BY <1>1, <1>3, <2>1, <2>2 DEF Row
<1> QED
  BY <1>2, <1>3, Zenon

\* A task moves.
Moves(t, at, i) ==
  /\ task' \in [Tasks -> TaskRec] /\ \A u \in Tasks : u # t => task'[u] = task[u]
  /\ task'[t].at = at /\ task'[t].id = i

LEMMA TaskMoves ==
  ASSUME TypeOK, NEW t \in Tasks, NEW i \in Ids \cup {None}, NEW at,
         Moves(t, at, i), at # "idle" => i \in Ids,
         at = "encoded" => task'[t].snap \in [Outbounds -> Row]
  PROVE  TasksOK'
BY TypeParts, Zenon DEF TasksOK, Moves

LEMMA TaskIdles ==
  ASSUME TypeOK, NEW t \in Tasks, task' = [task EXCEPT ![t] = Idle]
  PROVE  TasksOK' /\ Moves(t, "idle", None)
<1>1. Idle \in TaskRec /\ Idle.at = "idle" /\ Idle.id = None
  BY DEF Idle, TaskRec
<1>2. Moves(t, "idle", None)
  BY <1>1, TypeParts DEF TasksOK, Moves
<1> QED
  BY <1>2, TaskMoves

\* Insert makes a row Pending.
LEMMA InsertTypes ==
  ASSUME TypeOK, NEW i \in Ids, Insert(i), UNCHANGED <<disk, stale, dropped, crashes>>
  PROVE  /\ RowsOK' /\ CountsOK' /\ mem'[i] = "Pending" /\ sends'[i] = sends[i] + 1
         /\ \A j \in Ids : j # i => mem'[j] = mem[j] /\ sends'[j] = sends[j]
BY DEF Insert, TypeOK, RowsOK, CountsOK, Row, HTLCStatus

-----------------------------------------------------------------------------
(* A step that does nothing new to i.                                      *)

Untouched(i) == /\ mem'[i] = mem[i] /\ sends'[i] = sends[i]
                /\ ldk'[i] = ldk[i] /\ outcome'[i] = outcome[i]
Handled(i) == handler # None /\ handler.id = i
NoEvent(i) == /\ EventsLeft(i)' \subseteq EventsLeft(i)
              /\ EventsOf(i)' = {} => EventsOf(i) = {}
              /\ Handled(i)' => Handled(i)
Continues(t, i) ==
  /\ Preparing(t, i)
  /\ task'[t].at \in {"inserted", "encoded"} => task[t].at \in {"inserted", "encoded"}
  /\ task'[t].at = "writing" /\ i \in Outbounds \ stale'
       => task[t].at = "writing" \/ FromWriteOf(t, i, HTLCStatus)'
NoAttempt(i) == \A t \in Tasks : Preparing(t, i)' => Continues(t, i)
Calm(i) ==
  /\ Untouched(i) /\ NoEvent(i) /\ NoAttempt(i)
  /\ stale \subseteq stale'
  /\ i \notin stale' => RowStep(i)

LEMMA CalmRow ==
  ASSUME IInv, NEW i \in Ids, Calm(i)
  PROVE  RowInv(i)'
<1>0. TypeOK /\ RowInv(i)
  BY Zenon DEF IInv
<1>1. TaskInv(i)'
  BY <1>0, ZenonT(20) DEF RowInv, TaskInv, Calm, Untouched, NoEvent, NoAttempt, Continues
<1>2. KnownInv(i)'
  <2> SUFFICES ASSUME i \in Outbounds, i \notin stale'
               PROVE  /\ ldk'[i] # "unknown" \/ EventsLeft(i)' # {} => Everywhere(i, HTLCStatus)'
                      /\ \A t \in Tasks : task'[t].at = "writing" /\ task'[t].id = i
                                            => FromWriteOf(t, i, HTLCStatus)'
    BY Zenon DEF KnownInv
  <2>1. i \in Outbounds \ stale /\ RowStep(i) /\ mem'[i] = mem[i]
    BY Zenon DEF Calm, Untouched
  <2>2. ASSUME ldk'[i] # "unknown" \/ EventsLeft(i)' # {}
        PROVE  Everywhere(i, HTLCStatus)'
    <3>1. Everywhere(i, HTLCStatus)
      BY <1>0, <2>1, <2>2, Zenon DEF RowInv, KnownInv, Calm, Untouched, NoEvent
    <3> QED
      BY <1>0, <2>1, <3>1, EverywhereKept, Zenon DEF Everywhere
  <2>3. ASSUME NEW t \in Tasks, task'[t].at = "writing", task'[t].id = i
        PROVE  FromWriteOf(t, i, HTLCStatus)'
    <3>1. (task[t].at = "writing" /\ task[t].id = i) \/ FromWriteOf(t, i, HTLCStatus)'
      BY <2>1, <2>3, Zenon DEF Calm, NoAttempt, Continues, Preparing
    <3>2. FromWriteOf(t, i, HTLCStatus) \/ FromWriteOf(t, i, HTLCStatus)'
      BY <1>0, <2>1, <3>1, Zenon DEF RowInv, KnownInv
    <3> QED
      BY <1>0, <2>1, <3>2, FromWriteKept, Zenon DEF FromWriteOf
  <2> QED
    BY <2>2, <2>3, Zenon
<1>3. OutcomeInv(i)'
  <2>1. /\ sends'[i] = sends[i] /\ ldk'[i] = ldk[i] /\ outcome'[i] = outcome[i]
        /\ EventsLeft(i)' \subseteq EventsLeft(i)
    BY Zenon DEF Calm, Untouched, NoEvent
  <2>2. Unresolved(i)' <=> Unresolved(i)
    BY <2>1, Zenon DEF Unresolved
  <2> QED
    BY <1>0, <2>1, <2>2, ZenonT(20) DEF RowInv, OutcomeInv
<1>4. SettledInv(i)'
  <2> SUFFICES ASSUME i \notin stale', sends'[i] = 1
               PROVE  /\ outcome'[i] # None /\ EventsOf(i)' = {} => Everywhere(i, {outcome[i]})'
                      /\ Handled(i)' => FromWriteOf("handler", i, {outcome[i]})'
    BY Zenon DEF SettledInv, Handled
  <2>1. /\ i \notin stale /\ RowStep(i) /\ mem'[i] = mem[i] /\ sends[i] = 1
        /\ outcome'[i] = outcome[i] /\ NoEvent(i)
    BY Zenon DEF Calm, Untouched
  <2>2. PICK v : v = outcome[i]
    OBVIOUS
  <2>3. ASSUME outcome'[i] # None, EventsOf(i)' = {}
        PROVE  Everywhere(i, {outcome[i]})'
    <3>1. Everywhere(i, {v})
      BY <1>0, <2>1, <2>2, <2>3, Zenon DEF RowInv, SettledInv, NoEvent
    <3>2. Everywhere(i, {v})'
      BY <1>0, <2>1, <3>1, EverywhereKept, Zenon DEF Everywhere
    <3> QED
      BY <2>1, <2>2, <3>2
  <2>4. ASSUME Handled(i)'
        PROVE  FromWriteOf("handler", i, {outcome[i]})'
    <3>1. FromWriteOf("handler", i, {v})
      BY <1>0, <2>1, <2>2, <2>4, Zenon DEF RowInv, SettledInv, NoEvent, Handled
    <3>2. FromWriteOf("handler", i, {v})'
      BY <1>0, <2>1, <3>1, FromWriteKept, Zenon DEF FromWriteOf
    <3> QED
      BY <2>1, <2>2, <3>2
  <2> QED
    BY <2>3, <2>4, Zenon
<1> QED
  BY <1>1, <1>2, <1>3, <1>4, Zenon DEF RowInv

\* LDK's events and the handler are left alone.
LEMMA EventsFrame ==
  ASSUME UNCHANGED <<events, unsaved, handler>>, NEW i
  PROVE  /\ NoEvent(i) /\ EventsLeft(i)' = EventsLeft(i) /\ EventsOf(i)' = EventsOf(i)
         /\ Handled(i)' <=> Handled(i)
BY Zenon DEF NoEvent, EventsLeft, EventsOf, Handled

\* The callers are.
LEMMA TaskFrame ==
  ASSUME UNCHANGED task, NEW i
  PROVE  NoAttempt(i)
BY Zenon DEF NoAttempt, Continues, Preparing

\* One caller moves on to another payment, or ends.
LEMMA MoveFrame ==
  ASSUME NEW t \in Tasks, NEW at, NEW j, Moves(t, at, j), NEW i, i # j \/ at \in {"idle", "saving"}
  PROVE  NoAttempt(i)
<1>1. ASSUME NEW u \in Tasks, Preparing(u, i)'
      PROVE  Continues(u, i)
  <2>1. u # t
    BY <1>1, Zenon DEF Moves, Preparing
  <2> QED
    BY <1>1, <2>1, Zenon DEF Moves, Preparing, Continues
<1> QED
  BY <1>1, Zenon DEF NoAttempt

\* A payment whose event is handled has events left.
LEMMA HandledLeft ==
  ASSUME TypeOK, NEW i, EventsLeft(i) = {}
  PROVE  ~Handled(i) /\ EventsOf(i) = {}
<1>1. ~Handled(i)
  <2>1. SUFFICES ASSUME handler # None, handler.id = i
                 PROVE  FALSE
    BY Zenon DEF Handled
  <2>2. events \in Seq(Event) /\ events # <<>> /\ handler = Head(events)
    BY <2>1, Zenon DEF TypeOK
  <2>3. handler \in Range(events)
    BY <2>2, RangeOfTail, Zenon
  <2> QED
    BY <2>1, <2>3, Zenon DEF EventsLeft
<1>2. \A e \in Range(events) : e.id # i
  BY Zenon DEF EventsLeft
<1> QED
  BY <1>1, <1>2, EventsAre, Zenon

-----------------------------------------------------------------------------
(* A new attempt at i.                                                     *)

Starts(t, i) ==
  /\ i \in Outbounds
  /\ task'[t].at \in {"inserted", "encoded"} => i \in Offers
  /\ task'[t].at = "writing" => FromWriteOf(t, i, HTLCStatus)'

LEMMA InsertedRow ==
  ASSUME IInv, NEW i \in Ids, NEW t,
         mem'[i] = "Pending", sends'[i] = sends[i] + 1,
         UNCHANGED <<ldk, events, unsaved, outcome, handler, stale>>, RowStep(i),
         \A u \in Tasks : Preparing(u, i)' => IF u = t THEN Starts(u, i) ELSE Continues(u, i)
  PROVE  RowInv(i)'
<1>0. TypeOK /\ RowInv(i)
  BY Zenon DEF IInv
<1>1. /\ sends'[i] > 0 /\ sends'[i] # 0 /\ sends[i] \in Nat /\ (sends'[i] = 1 => sends[i] = 0)
      /\ mem'[i] \in HTLCStatus /\ mem'[i] # None /\ (sends[i] = 0 => ~(sends[i] > 0))
  BY <1>0, PaymentsAssumption DEF TypeOK, PaymentsAssumption, HTLCStatus
<1>2. /\ EventsLeft(i)' = EventsLeft(i) /\ EventsOf(i)' = EventsOf(i) /\ (Handled(i)' <=> Handled(i))
      /\ ldk' = ldk /\ outcome' = outcome /\ stale' = stale
  BY EventsFrame, Zenon
<1>3. sends[i] = 0 => /\ ldk[i] = "unknown" /\ outcome[i] = None /\ EventsLeft(i) = {}
                      /\ \A u \in Tasks : ~Preparing(u, i)
  BY <1>0, <1>1, Zenon DEF RowInv, OutcomeInv, TaskInv
<1>4. TaskInv(i)'
  <2> SUFFICES ASSUME NEW u \in Tasks, Preparing(u, i)'
               PROVE  /\ i \in Outbounds /\ mem'[i] # None /\ sends'[i] > 0
                      /\ task'[u].at \in {"inserted", "encoded"} => i \in Offers
                      /\ sends'[i] = 1 =>
                           /\ ldk'[i] = "unknown" /\ outcome'[i] = None /\ EventsLeft(i)' = {}
                           /\ \A v \in Tasks : Preparing(v, i)' => v = u
    BY Zenon DEF TaskInv
  <2>1. i \in Outbounds /\ task'[u].at \in {"inserted", "encoded"} => i \in Offers
    BY <1>0, Zenon DEF Starts, Continues, RowInv, TaskInv
  <2>2. i \in Outbounds
    BY <1>0, Zenon DEF Starts, Continues, RowInv, TaskInv
  <2>3. sends'[i] = 1 => \A v \in Tasks : Preparing(v, i)' => v = t
    BY <1>1, <1>3, Zenon DEF Continues
  <2> QED
    BY <1>1, <1>2, <1>3, <2>1, <2>2, <2>3, Zenon
<1>5. KnownInv(i)'
  <2> SUFFICES ASSUME i \in Outbounds \ stale
               PROVE  /\ ldk[i] # "unknown" \/ EventsLeft(i) # {} => Everywhere(i, HTLCStatus)'
                      /\ \A u \in Tasks : task'[u].at = "writing" /\ task'[u].id = i
                                            => FromWriteOf(u, i, HTLCStatus)'
    BY <1>2, Zenon DEF KnownInv
  <2>1. ASSUME ldk[i] # "unknown" \/ EventsLeft(i) # {}
        PROVE  Everywhere(i, HTLCStatus)'
    <3>1. Everywhere(i, HTLCStatus)
      BY <1>0, <2>1, Zenon DEF RowInv, KnownInv
    <3> QED
      BY <1>0, <1>1, <3>1, EverywhereKept, Zenon
  <2>2. ASSUME NEW u \in Tasks, task'[u].at = "writing", task'[u].id = i
        PROVE  FromWriteOf(u, i, HTLCStatus)'
    <3>1. Preparing(u, i)'
      BY <2>2, Zenon DEF Preparing
    <3>2. \/ FromWriteOf(u, i, HTLCStatus)'
          \/ task[u].at = "writing" /\ task[u].id = i
      BY <1>2, <2>2, <3>1, Zenon DEF Starts, Continues, Preparing
    <3>3. FromWriteOf(u, i, HTLCStatus)' \/ FromWriteOf(u, i, HTLCStatus)
      BY <1>0, <3>2, Zenon DEF RowInv, KnownInv
    <3> QED
      BY <1>0, <1>1, <3>3, FromWriteKept, Zenon
  <2> QED
    BY <2>1, <2>2, Zenon
<1>6. OutcomeInv(i)'
  <2>1. Unresolved(i)' <=> Unresolved(i)
    BY <1>2, Zenon DEF Unresolved
  <2> QED
    BY <1>0, <1>1, <1>2, <1>3, <2>1, ZenonT(20) DEF RowInv, OutcomeInv
<1>7. SettledInv(i)'
  <2>1. sends[i] = 0 => ~Handled(i)
    BY <1>0, <1>3, HandledLeft, Zenon
  <2> QED
    BY <1>1, <1>2, <1>3, <2>1, Zenon DEF SettledInv, Handled
<1> QED
  BY <1>4, <1>5, <1>6, <1>7, Zenon DEF RowInv

\* A write of f by w, of the rows in memory: what it does to each of them.
LEMMA WriteOfRows ==
  ASSUME TypeOK, mem' \in [Ids -> Row], disk' = disk, NEW w \in Callers, NEW f \in Files,
         Issue(w, f, Encode(f, mem')), NEW i \in Ids
  PROVE  (f = FileOf(i) => Saves(w, i)) /\ RowStep(i)
<1>1. PICK rows : rows = mem'
  OBVIOUS
<1>2. PICK s : s = Encode(f, rows)
  OBVIOUS
<1>3. /\ s \in [IdsOf(f) -> Row] /\ (f = FileOf(i) => s[i] = rows[i])
      /\ Issue(w, f, s)
  BY <1>1, <1>2, Encoded, Zenon
<1>4. CASE f = FileOf(i)
  BY <1>1, <1>3, <1>4, Zenon DEF Saves, RowStep
<1>5. CASE f # FileOf(i)
  <2>1. FileOf(i) \in Files
    BY FilesOfRows
  <2>2. writes'[FileOf(i)] = writes[FileOf(i)]
    BY <1>3, <1>5, <2>1, IssueAppends, SMTT(30)
  <2> QED
    BY <1>5, <2>2, Zenon DEF RowStep, Quiet, Outstanding
<1> QED
  BY <1>4, <1>5, Zenon

\* sendpayment, keysend and getinvoice.
LEMMA InsertAndWriteStep ==
  ASSUME IInv, NEW t \in Tasks, NEW i \in Ids, NEW at \in {"writing", "saving"},
         InsertAndWrite(t, i, at), at = "writing" => i \in Outbounds
  PROVE  IInv'
<1> DEFINE f == FileOf(i)
<1>0. TypeOK /\ WriteInv /\ f \in Files /\ t \in Callers
  BY FilesOfRows, Zenon DEF IInv, Callers
<1>1. /\ RowsOK' /\ CountsOK' /\ mem'[i] = "Pending" /\ sends'[i] = sends[i] + 1
      /\ \A j \in Ids : j # i => mem'[j] = mem[j] /\ sends'[j] = sends[j]
  BY <1>0, InsertTypes, Zenon DEF InsertAndWrite
<1>2. /\ Issue(t, f, Encode(f, mem')) /\ disk' = disk /\ task[t].at = "idle"
      /\ UNCHANGED <<ldk, events, unsaved, outcome, handler, stale>>
  BY Zenon DEF InsertAndWrite, ldkVars
<1>3. Written(t, f)
  BY <1>0, <1>2, Zenon DEF WriteInv, Waiting
<1>4. Moves(t, at, i)
  BY <1>0, TypeParts DEF InsertAndWrite, Moves, TasksOK, TaskRec
<1>5. /\ WritesOK'
      /\ \A u \in Callers, g \in Files : (Written(u, g)' <=> Written(u, g) /\ ~(u = t /\ g = f))
  <2>1. PICK rows \in [Ids -> Row] : rows = mem'
    BY <1>1, Zenon DEF RowsOK
  <2>2. PICK s \in [IdsOf(f) -> Row] : s = Encode(f, rows)
    BY <1>0, Encoded, Zenon
  <2> QED
    BY <1>0, <1>2, <1>3, <2>1, <2>2, IssueTypes, Zenon
<1>6. TypeOK'
  <2>1. TasksOK'
    BY <1>0, <1>4, TaskMoves
  <2>2. LdkOK'
    BY <1>0, <1>2, TypeParts, Zenon DEF LdkOK
  <2> QED
    BY <1>1, <1>5, <2>1, <2>2, TypeParts, PTL
<1>7. WriteInv'
  <2>1. Waiting(t, f)'
    BY <1>4, Zenon DEF Moves, Waiting
  <2>2. \A u \in Tasks, g \in Files : u # t => (Waiting(u, g)' <=> Waiting(u, g))
    BY <1>4, Zenon DEF Moves, Waiting
  <2>3. \A g \in Files : ~Waiting(t, g)
    BY <1>2, Zenon DEF Waiting
  <2>4. \A g \in Files : Handling(g)' <=> Handling(g)
    BY <1>2, Zenon DEF Handling
  <2>5. "handler" # t /\ "handler" \in Callers /\ \A u \in Tasks : u \in Callers
    BY PaymentsAssumption DEF PaymentsAssumption, Callers
  <2> QED
    BY <1>0, <1>5, <2>1, <2>2, <2>3, <2>4, <2>5, Zenon DEF WriteInv
<1>8. ASSUME NEW j \in Ids
      PROVE  (f = FileOf(j) => Saves(t, j)) /\ RowStep(j)
  BY <1>0, <1>1, <1>2, WriteOfRows, Zenon DEF RowsOK
<1>9. ASSUME NEW j \in Ids, j # i
      PROVE  RowInv(j)'
  <2>1. NoAttempt(j)
    BY <1>4, <1>9, MoveFrame, Zenon
  <2>2. NoEvent(j)
    BY <1>2, EventsFrame, Zenon
  <2>3. Calm(j)
    BY <1>1, <1>2, <1>8, <1>9, <2>1, <2>2, Zenon DEF Calm, Untouched
  <2> QED
    BY <2>3, CalmRow, Zenon
<1>10. RowInv(i)'
  <2>1. at = "writing" => Starts(t, i)
    <3>1. FromWriteOf(t, i, HTLCStatus)'
      <4>1. mem'[i] \in HTLCStatus
        BY <1>1 DEF HTLCStatus
      <4> QED
        BY <1>0, <1>3, <1>8, <4>1, FromWriteStarts, Zenon
    <3> QED
      BY <1>4, <3>1, Zenon DEF Starts, Moves
  <2>2. \A u \in Tasks : Preparing(u, i)' => IF u = t THEN Starts(u, i) ELSE Continues(u, i)
    BY <1>4, <2>1, Zenon DEF Moves, Preparing, Continues
  <2> QED
    BY <1>1, <1>2, <1>8, <2>2, InsertedRow, Zenon
<1> QED
  BY <1>6, <1>7, <1>9, <1>10, Zenon DEF IInv

\* The two steps that insert a row and call no write().
LEMMA InsertStep ==
  ASSUME IInv, NEW i \in Ids, Insert(i),
         UNCHANGED <<disk, writes, handler, ldk, events, unsaved, outcome, stale, dropped, crashes>>,
         NEW t,
         \/ t \in Tasks /\ i \in Offers /\ task[t].at = "idle" /\ Moves(t, "inserted", i)
         \/ t \notin Tasks /\ UNCHANGED task
  PROVE  IInv'
<1>0. TypeOK /\ WriteInv
  BY Zenon DEF IInv
<1>1. /\ RowsOK' /\ CountsOK' /\ mem'[i] = "Pending" /\ sends'[i] = sends[i] + 1
      /\ \A j \in Ids : j # i => mem'[j] = mem[j] /\ sends'[j] = sends[j]
  BY <1>0, InsertTypes, Zenon
<1>2. TypeOK'
  <2>1. TasksOK'
    <3>1. CASE t \in Tasks
      BY <1>0, <3>1, TaskMoves
    <3>2. CASE t \notin Tasks
      BY <1>0, <3>2, TypeParts, Zenon DEF TasksOK
    <3> QED
      BY <3>1, <3>2, Zenon
  <2>2. LdkOK' /\ WritesOK'
    BY <1>0, TypeParts, Zenon DEF LdkOK, WritesOK
  <2> QED
    BY <1>1, <2>1, <2>2, TypeParts, PTL
<1>3. WriteInv'
  <2>1. \A u \in Tasks, g \in Files : Waiting(u, g)' <=> Waiting(u, g)
    BY Zenon DEF Moves, Waiting
  <2>2. \A g \in Files : Handling(g)' <=> Handling(g)
    BY Zenon DEF Handling
  <2>3. \A u \in Callers, g \in Files : Written(u, g)' <=> Written(u, g)
    BY Zenon DEF Written
  <2> QED
    BY <1>0, <2>1, <2>2, <2>3, Zenon DEF WriteInv, Callers
<1>4. ASSUME NEW j \in Ids
      PROVE  RowStep(j)
  BY Zenon DEF RowStep, Quiet, Outstanding
<1>5. ASSUME NEW j \in Ids, j # i
      PROVE  RowInv(j)'
  <2>1. NoAttempt(j)
    BY <1>5, MoveFrame, TaskFrame, Zenon
  <2>2. NoEvent(j)
    BY EventsFrame, Zenon
  <2>3. Calm(j)
    BY <1>1, <1>4, <1>5, <2>1, <2>2, Zenon DEF Calm, Untouched
  <2> QED
    BY <2>3, CalmRow, Zenon
<1>6. RowInv(i)'
  <2>1. \A u \in Tasks : Preparing(u, i)' => IF u = t THEN Starts(u, i) ELSE Continues(u, i)
    BY Zenon DEF Moves, Preparing, Continues, Starts, Outbounds
  <2> QED
    BY <1>1, <1>4, <2>1, InsertedRow, Zenon
<1> QED
  BY <1>2, <1>3, <1>5, <1>6, Zenon DEF IInv

LEMMA AttemptStep ==
  ASSUME IInv, NEW t \in Tasks, NEW i \in Ids,
         send_payment(t, i) \/ keysend(t, i) \/ pay_offer(t, i) \/ get_invoice(t, i)
  PROVE  IInv'
<1>1. CASE send_payment(t, i)
  BY <1>1, InsertAndWriteStep DEF send_payment, Outbounds
<1>2. CASE keysend(t, i)
  BY <1>2, InsertAndWriteStep DEF keysend, Outbounds
<1>3. CASE pay_offer(t, i)
  <2>1. Moves(t, "inserted", i)
    BY <1>3, TypeParts DEF pay_offer, Moves, TasksOK, TaskRec, IInv
  <2> QED
    BY <1>3, <2>1, InsertStep, Zenon DEF pay_offer, ldkVars
<1>4. CASE get_invoice(t, i)
  BY <1>4, InsertAndWriteStep DEF get_invoice
<1> QED
  BY <1>1, <1>2, <1>3, <1>4, Zenon

LEMMA SwapInvoiceStep ==
  ASSUME IInv, NEW i \in Ids, create_invoice_for_swap(i)
  PROVE  IInv'
<1>1. "handler" \notin Tasks
  BY PaymentsAssumption DEF PaymentsAssumption
<1> QED
  BY <1>1, InsertStep, Zenon DEF create_invoice_for_swap, ldkVars

-----------------------------------------------------------------------------
(* The steps of a caller.                                                  *)

\* A caller that has nothing outstanding moves on.
LEMMA MoveWrites ==
  ASSUME WriteInv, UNCHANGED <<writes, handler>>, NEW t \in Tasks, NEW at, NEW i, Moves(t, at, i),
         \A f \in Files : Written(t, f)
  PROVE  WriteInv'
<1>1. \A u \in Callers, f \in Files : Written(u, f)' <=> Written(u, f)
  BY Zenon DEF Written
<1>2. \A u \in Tasks, f \in Files : u # t => (Waiting(u, f)' <=> Waiting(u, f))
  BY Zenon DEF Moves, Waiting
<1>3. \A f \in Files : Handling(f)' <=> Handling(f)
  BY Zenon DEF Handling
<1>4. "handler" \in Callers /\ \A u \in Tasks : u \in Callers
  BY DEF Callers
<1> QED
  BY <1>1, <1>2, <1>3, <1>4, Zenon DEF WriteInv

LEMMA EncodeStep ==
  ASSUME IInv, NEW t \in Tasks, offer_encode(t)
  PROVE  IInv'
<1>0. TypeOK /\ WriteInv /\ task[t].at = "inserted" /\ task[t].id \in Ids
  BY TypeParts, Zenon DEF IInv, offer_encode, TasksOK
<1>1. Encode("outbound", mem) \in [Outbounds -> Row]
  BY <1>0, FilesOfRows, Encoded DEF Files, TypeOK
<1>2. Moves(t, "encoded", task[t].id) /\ task'[t].snap \in [Outbounds -> Row]
  <2>1. task \in [Tasks -> TaskRec]
    BY <1>0, TypeParts, Zenon DEF TasksOK
  <2>2. PICK s \in [Outbounds -> Row] : s = Encode("outbound", mem)
    BY <1>1, Zenon
  <2>3. task' = [task EXCEPT ![t].at = "encoded", ![t].snap = s]
    BY <2>2, Zenon DEF offer_encode
  <2>4. task' \in [Tasks -> TaskRec]
    BY <2>1, <2>3, ZenonT(30) DEF TaskRec
  <2>5. /\ task'[t].at = "encoded" /\ task'[t].id = task[t].id /\ task'[t].snap = s
        /\ \A u \in Tasks : u # t => task'[u] = task[u]
    BY <2>1, <2>3 DEF TaskRec
  <2> QED
    BY <2>4, <2>5, Zenon DEF Moves
<1>3. TypeOK'
  <2>1. TasksOK'
    <3>1. PICK j \in Ids : j = task[t].id
      BY <1>0, Zenon
    <3> QED
      BY <1>0, <1>2, <3>1, TaskMoves, Zenon
  <2>2. RowsOK' /\ WritesOK' /\ LdkOK' /\ CountsOK'
    BY <1>0, TypeParts, Zenon DEF offer_encode, ldkVars, RowsOK, WritesOK, LdkOK, CountsOK
  <2> QED
    BY <2>1, <2>2, TypeParts, PTL
<1>4. PICK j : j = task[t].id
  OBVIOUS
<1>5. WriteInv'
  <2>1. \A f \in Files : Written(t, f)
    BY <1>0, Zenon DEF WriteInv, Waiting
  <2> QED
    BY <1>0, <1>2, <1>4, <2>1, MoveWrites, Zenon DEF offer_encode
<1>6. ASSUME NEW i \in Ids
      PROVE  RowInv(i)'
  <2>1. NoAttempt(i)
    <3>1. ASSUME NEW u \in Tasks, Preparing(u, i)'
          PROVE  Continues(u, i)
      BY <1>0, <1>2, <3>1, Zenon DEF Moves, Preparing, Continues
    <3> QED
      BY <3>1, Zenon DEF NoAttempt
  <2>2. NoEvent(i)
    BY EventsFrame, Zenon DEF offer_encode, ldkVars
  <2>3. Calm(i)
    BY <2>1, <2>2, Zenon DEF Calm, Untouched, offer_encode, ldkVars, RowStep, Quiet, Outstanding
  <2> QED
    BY <2>3, CalmRow, Zenon
<1> QED
  BY <1>3, <1>5, <1>6, Zenon DEF IInv

\* What an offer writes is a row's value unless the row changed since it was
\* encoded, and then the row is stale.
LEMMA OfferWriteStep ==
  ASSUME IInv, NEW t \in Tasks, offer_write(t)
  PROVE  IInv'
<1> DEFINE s == task[t].snap
<1>0. /\ TypeOK /\ WriteInv /\ task[t].at = "encoded" /\ task[t].id \in Ids /\ t \in Callers
      /\ s \in [Outbounds -> Row] /\ IdsOf("outbound") = Outbounds /\ "outbound" \in Files
  BY TypeParts, FilesOfRows, Zenon DEF IInv, offer_write, TasksOK, Callers, Files
<1>1. /\ Issue(t, "outbound", s) /\ stale' = stale \cup {i \in Outbounds : s[i] # mem[i]}
      /\ UNCHANGED <<mem, disk, handler, ldk, events, unsaved, outcome, sends, dropped, crashes>>
  BY Zenon DEF offer_write, ldkVars
<1>2. PICK j \in Ids : j = task[t].id
  BY <1>0, Zenon
<1>3. j \in Outbounds /\ FileOf(j) = "outbound"
  <2>1. Preparing(t, j)
    BY <1>0, <1>2, Zenon DEF Preparing
  <2> QED
    BY <1>2, <2>1, FilesOfRows, Zenon DEF IInv, RowInv, TaskInv
<1>4. Moves(t, "writing", j)
  <2>1. task \in [Tasks -> TaskRec]
    BY <1>0, TypeParts, Zenon DEF TasksOK
  <2>2. task' = [task EXCEPT ![t].at = "writing", ![t].snap = None]
    BY Zenon DEF offer_write
  <2>3. task' \in [Tasks -> TaskRec]
    BY <2>1, <2>2, ZenonT(30) DEF TaskRec
  <2>4. /\ task'[t].at = "writing" /\ task'[t].id = task[t].id
        /\ \A u \in Tasks : u # t => task'[u] = task[u]
    BY <2>1, <2>2 DEF TaskRec
  <2> QED
    BY <1>2, <2>3, <2>4, Zenon DEF Moves
<1>5. PICK r \in [Outbounds -> Row] : r = s
  BY <1>0, Zenon
<1>6. \A f \in Files : Written(t, f)
  BY <1>0, Zenon DEF WriteInv, Waiting
<1>7. /\ WritesOK'
      /\ \A u \in Callers, g \in Files :
           (Written(u, g)' <=> Written(u, g) /\ ~(u = t /\ g = "outbound"))
  BY <1>0, <1>1, <1>5, <1>6, IssueTypes, ZenonT(40)
<1>8. TypeOK'
  <2>1. TasksOK'
    BY <1>0, <1>4, TaskMoves
  <2>2. RowsOK' /\ LdkOK'
    BY <1>0, <1>1, TypeParts, Zenon DEF RowsOK, LdkOK
  <2>3. CountsOK'
    BY <1>0, <1>1, TypeParts, Zenon DEF CountsOK
  <2> QED
    BY <1>7, <2>1, <2>2, <2>3, TypeParts, PTL
<1>9. WriteInv'
  <2>1. Waiting(t, "outbound")'
    BY <1>3, <1>4, Zenon DEF Moves, Waiting
  <2>2. \A u \in Tasks, g \in Files : u # t => (Waiting(u, g)' <=> Waiting(u, g))
    BY <1>4, Zenon DEF Moves, Waiting
  <2>3. \A g \in Files : Handling(g)' <=> Handling(g)
    BY <1>1, Zenon DEF Handling
  <2>4. "handler" # t /\ "handler" \in Callers /\ \A u \in Tasks : u \in Callers
    BY PaymentsAssumption DEF PaymentsAssumption, Callers
  <2> QED
    BY <1>0, <1>6, <1>7, <2>1, <2>2, <2>3, <2>4, Zenon DEF WriteInv
<1>10. ASSUME NEW i \in Ids, i \notin stale'
       PROVE  (i \in Outbounds => Saves(t, i)) /\ RowStep(i)
  <2>1. CASE i \in Outbounds
    <3>1. FileOf(i) = "outbound" /\ r[i] = mem'[i]
      BY <1>1, <1>5, <1>10, <2>1, FilesOfRows, Zenon
    <3>2. Issue(t, "outbound", r) /\ disk' = disk
      BY <1>1, <1>5, Zenon
    <3>3. Saves(t, i)
      BY <1>0, <3>1, <3>2, Zenon DEF Saves
    <3> QED
      BY <1>0, <3>3, Zenon DEF RowStep
  <2>2. CASE i \notin Outbounds
    <3>1. FileOf(i) # "outbound" /\ FileOf(i) \in Files
      BY <1>0, <2>2, FilesOfRows, Zenon
    <3>2. writes'[FileOf(i)] = writes[FileOf(i)]
      BY <1>0, <1>1, <1>5, <3>1, IssueAppends, SMTT(30)
    <3> QED
      BY <1>1, <2>2, <3>2, Zenon DEF RowStep, Quiet, Outstanding
  <2> QED
    BY <2>1, <2>2, Zenon
<1>11. ASSUME NEW i \in Ids
       PROVE  RowInv(i)'
  <2>1. NoAttempt(i)
    <3>1. ASSUME NEW u \in Tasks, Preparing(u, i)', u # t
          PROVE  Continues(u, i)
      BY <1>4, <3>1, Zenon DEF Moves, Preparing, Continues
    <3>2. ASSUME Preparing(t, i)', i \in Outbounds \ stale'
          PROVE  FromWriteOf(t, i, HTLCStatus)'
      <4>1. i = j
        BY <1>4, <3>2, Zenon DEF Moves, Preparing
      <4>2. Saves(t, i)
        BY <1>10, <3>2, Zenon
      <4>3. mem'[i] \in HTLCStatus
        <5>1. Preparing(t, i)
          BY <1>0, <1>2, <4>1, Zenon DEF Preparing
        <5>2. mem[i] # None /\ mem[i] \in Row
          BY <1>0, <5>1, Zenon DEF IInv, RowInv, TaskInv, TypeOK
        <5> QED
          BY <1>1, <5>2 DEF Row
      <4> QED
        BY <1>0, <1>3, <1>6, <4>1, <4>2, <4>3, FromWriteStarts, Zenon
    <3>3. ASSUME Preparing(t, i)'
          PROVE  Continues(t, i)
      <4>1. i = j /\ task'[t].at = "writing"
        BY <1>4, <3>3, Zenon DEF Moves, Preparing
      <4> QED
        BY <1>0, <1>2, <3>2, <3>3, <4>1, Zenon DEF Preparing, Continues
    <3> QED
      BY <3>1, <3>3, Zenon DEF NoAttempt
  <2>2. NoEvent(i)
    BY <1>1, EventsFrame, Zenon
  <2>3. Calm(i)
    BY <1>1, <1>10, <2>1, <2>2, Zenon DEF Calm, Untouched
  <2> QED
    BY <2>3, CalmRow, Zenon
<1> QED
  BY <1>8, <1>9, <1>11, Zenon DEF IInv

LEMMA SavedStep ==
  ASSUME IInv, NEW t \in Tasks, saved(t)
  PROVE  IInv'
<1>0. TypeOK /\ WriteInv
  BY Zenon DEF IInv
<1>1. TasksOK' /\ Moves(t, "idle", None)
  BY <1>0, TaskIdles, Zenon DEF saved
<1>2. TypeOK'
  <2>1. RowsOK' /\ WritesOK' /\ LdkOK' /\ CountsOK'
    BY <1>0, TypeParts, Zenon DEF saved, ldkVars, RowsOK, WritesOK, LdkOK, CountsOK
  <2> QED
    BY <1>1, <2>1, TypeParts, PTL
<1>3. WriteInv'
  <2>1. \A f \in Files : Written(t, f)
    BY <1>0, Zenon DEF saved, WriteInv, Waiting
  <2> QED
    BY <1>0, <1>1, <2>1, MoveWrites, Zenon DEF saved
<1>4. ASSUME NEW i \in Ids
      PROVE  RowInv(i)'
  <2>1. NoAttempt(i)
    BY <1>1, MoveFrame, Zenon
  <2>2. NoEvent(i)
    BY EventsFrame, Zenon DEF saved, ldkVars
  <2>3. Calm(i)
    BY <2>1, <2>2, Zenon DEF Calm, Untouched, saved, ldkVars, RowStep, Quiet, Outstanding
  <2> QED
    BY <2>3, CalmRow, Zenon
<1> QED
  BY <1>2, <1>3, <1>4, Zenon DEF IInv

\* A dropped call leaves its write behind, and nothing else.
LEMMA DropStep ==
  ASSUME IInv, NEW t \in Tasks, drop_call(t)
  PROVE  IInv'
<1>0. TypeOK /\ WriteInv
  BY Zenon DEF IInv
<1>1. PICK j \in Ids : j = task[t].id
  BY <1>0, Zenon DEF drop_call, TypeOK
<1>2. Moves(t, "saving", j)
  BY <1>0, <1>1, TypeParts DEF drop_call, Moves, TasksOK, TaskRec
<1>3. TypeOK'
  <2>1. TasksOK'
    BY <1>0, <1>1, <1>2, TaskMoves
  <2>2. RowsOK' /\ WritesOK' /\ LdkOK'
    BY <1>0, TypeParts, Zenon DEF drop_call, ldkVars, RowsOK, WritesOK, LdkOK
  <2>3. CountsOK'
    BY <1>0, <1>1, TypeParts DEF drop_call, CountsOK
  <2> QED
    BY <2>1, <2>2, <2>3, TypeParts, PTL
<1>4. WriteInv'
  <2>1. \A u \in Callers, f \in Files : Written(u, f)' <=> Written(u, f)
    BY Zenon DEF drop_call, Written
  <2>2. \A u \in Tasks, f \in Files : Waiting(u, f)' <=> Waiting(u, f)
    BY <1>1, <1>2, Zenon DEF drop_call, Moves, Waiting
  <2>3. \A f \in Files : Handling(f)' <=> Handling(f)
    BY Zenon DEF drop_call, Handling
  <2>4. "handler" \in Callers /\ \A u \in Tasks : u \in Callers
    BY DEF Callers
  <2> QED
    BY <1>0, <2>1, <2>2, <2>3, <2>4, Zenon DEF WriteInv
<1>5. ASSUME NEW i \in Ids
      PROVE  RowInv(i)'
  <2>1. NoAttempt(i)
    BY <1>2, MoveFrame, Zenon
  <2>2. NoEvent(i)
    BY EventsFrame, Zenon DEF drop_call, ldkVars
  <2>3. Calm(i)
    BY <2>1, <2>2, Zenon DEF Calm, Untouched, drop_call, ldkVars, RowStep, Quiet, Outstanding
  <2> QED
    BY <2>3, CalmRow, Zenon
<1> QED
  BY <1>3, <1>4, <1>5, Zenon DEF IInv

\* LDK takes a payment only after its row was written: nothing that is still
\* outstanding lacks it.
LEMMA AcceptedStep ==
  ASSUME IInv, NEW t \in Tasks, NEW i \in Ids, pay_accepted(t, i)
  PROVE  IInv'
<1>0. /\ TypeOK /\ WriteInv /\ RowInv(i) /\ Preparing(t, i)
      /\ task[t].at = "writing" /\ task[t].id = i /\ Written(t, "outbound")
  BY Zenon DEF IInv, pay_accepted, Preparing
<1>1. i \in Outbounds /\ i \notin Inbounds /\ FileOf(i) = "outbound" /\ sends[i] > 0 /\ sends[i] # 0
  <2>1. i \in Outbounds /\ sends[i] > 0
    BY <1>0, Zenon DEF RowInv, TaskInv
  <2> QED
    BY <2>1, FilesOfRows, PaymentsAssumption DEF PaymentsAssumption
<1>2. TasksOK' /\ Moves(t, "idle", None)
  BY <1>0, TaskIdles, Zenon DEF pay_accepted
<1>3. /\ ldk' \in [Ids -> {"unknown", "queued", "inflight", "fulfilled"}] /\ outcome' \in [Ids -> Row]
      /\ ldk'[i] = "queued" /\ outcome'[i] = None
      /\ \A j \in Ids : j # i => ldk'[j] = ldk[j] /\ outcome'[j] = outcome[j]
  BY <1>0 DEF pay_accepted, TypeOK, Row
<1>4. UNCHANGED <<mem, disk, writes, handler, events, unsaved, sends, stale, dropped, crashes>>
  BY Zenon DEF pay_accepted
<1>5. TypeOK'
  <2>1. RowsOK' /\ WritesOK' /\ LdkOK' /\ CountsOK'
    BY <1>0, <1>3, <1>4, TypeParts, Zenon DEF RowsOK, WritesOK, LdkOK, CountsOK
  <2> QED
    BY <1>2, <2>1, TypeParts, PTL
<1>6. WriteInv'
  <2>1. \A f \in Files : Written(t, f)
    BY <1>0, <1>1, Zenon DEF WriteInv, Waiting
  <2> QED
    BY <1>0, <1>2, <1>4, <2>1, MoveWrites, Zenon
<1>7. ASSUME NEW j \in Ids
      PROVE  NoAttempt(j) /\ NoEvent(j) /\ RowStep(j)
  <2>1. NoAttempt(j)
    BY <1>2, MoveFrame, Zenon
  <2>2. NoEvent(j)
    BY <1>4, EventsFrame, Zenon
  <2> QED
    BY <1>4, <2>1, <2>2, Zenon DEF RowStep, Quiet, Outstanding
<1>8. ASSUME NEW j \in Ids, j # i
      PROVE  RowInv(j)'
  <2>1. Calm(j)
    BY <1>3, <1>4, <1>7, <1>8, Zenon DEF Calm, Untouched
  <2> QED
    BY <2>1, CalmRow, Zenon
<1>9. RowInv(i)'
  <2>1. /\ EventsLeft(i)' = EventsLeft(i) /\ EventsOf(i)' = EventsOf(i) /\ (Handled(i)' <=> Handled(i))
    BY <1>4, EventsFrame, Zenon
  <2>2. sends[i] = 1 => EventsLeft(i) = {} /\ \A u \in Tasks : Preparing(u, i) => u = t
    BY <1>0, Zenon DEF RowInv, TaskInv
  <2>3. \A u \in Tasks : Preparing(u, i)' => Continues(u, i) /\ u # t
    BY <1>2, <1>7, Zenon DEF NoAttempt, Moves, Preparing
  <2>4. TaskInv(i)'
    BY <1>0, <1>4, <2>2, <2>3, Zenon DEF RowInv, TaskInv, Continues
  <2>5. KnownInv(i)'
    <3> SUFFICES ASSUME i \in Outbounds \ stale
                 PROVE  /\ Everywhere(i, HTLCStatus)'
                        /\ \A u \in Tasks : task'[u].at = "writing" /\ task'[u].id = i
                                              => FromWriteOf(u, i, HTLCStatus)'
      BY <1>4, Zenon DEF KnownInv
    <3>1. Everywhere(i, HTLCStatus)
      BY <1>0, <1>1, Zenon DEF RowInv, KnownInv, FromWriteOf
    <3>2. Everywhere(i, HTLCStatus)'
      BY <1>4, <3>1, Zenon DEF Everywhere, Outstanding
    <3>3. \A u : FromWriteOf(u, i, HTLCStatus)'
      BY <3>2, Zenon DEF FromWriteOf, Everywhere, Outstanding
    <3> QED
      BY <3>2, <3>3, Zenon
  <2>6. OutcomeInv(i)'
    BY <1>1, <1>3, <1>4, <2>1, <2>2, Zenon DEF OutcomeInv
  <2>7. SettledInv(i)'
    <3>1. sends[i] = 1 => ~Handled(i)
      BY <1>0, <2>2, HandledLeft, Zenon
    <3> QED
      BY <1>3, <1>4, <2>1, <3>1, Zenon DEF SettledInv, Handled
  <2> QED
    BY <2>4, <2>5, <2>6, <2>7, Zenon DEF RowInv
<1> QED
  BY <1>5, <1>6, <1>8, <1>9, Zenon DEF IInv

LEMMA RefusedStep ==
  ASSUME IInv, NEW t \in Tasks, NEW i \in Ids, pay_refused(t, i)
  PROVE  IInv'
<1>0. /\ TypeOK /\ WriteInv /\ RowInv(i) /\ Preparing(t, i) /\ t \in Callers
      /\ task[t].at = "writing" /\ task[t].id = i /\ Written(t, "outbound")
  BY Zenon DEF IInv, pay_refused, Preparing, Callers
<1>1. i \in Outbounds /\ i \notin Inbounds /\ FileOf(i) = "outbound" /\ "outbound" \in Files
  <2>1. i \in Outbounds
    BY <1>0, Zenon DEF RowInv, TaskInv
  <2> QED
    BY <2>1, FilesOfRows, PaymentsAssumption DEF PaymentsAssumption, Files
<1>2. /\ UNCHANGED <<disk, handler, ldk, events, unsaved, outcome, sends, stale, dropped, crashes>>
      /\ \A f \in Files : Written(t, f)
  BY <1>0, <1>1, Zenon DEF pay_refused, ldkVars, WriteInv, Waiting
<1>3. LdkOK' /\ CountsOK'
  BY <1>0, <1>2, TypeParts, Zenon DEF LdkOK, CountsOK
<1>4. CASE i \in Offers
  <2>1. task' = [task EXCEPT ![t] = Idle] /\ UNCHANGED <<mem, writes>>
    BY <1>4, Zenon DEF pay_refused
  <2>2. TasksOK' /\ Moves(t, "idle", None)
    BY <1>0, <2>1, TaskIdles, Zenon
  <2>3. TypeOK'
    <3>1. RowsOK' /\ WritesOK'
      BY <1>0, <1>2, <2>1, TypeParts, Zenon DEF RowsOK, WritesOK
    <3> QED
      BY <1>3, <2>2, <3>1, TypeParts, PTL
  <2>4. WriteInv'
    BY <1>0, <1>2, <2>1, <2>2, MoveWrites, Zenon
  <2>5. ASSUME NEW j \in Ids
        PROVE  RowInv(j)'
    <3>1. NoAttempt(j)
      BY <2>2, MoveFrame, Zenon
    <3>2. NoEvent(j)
      BY <1>2, EventsFrame, Zenon
    <3>3. Calm(j)
      BY <1>2, <2>1, <3>1, <3>2, Zenon DEF Calm, Untouched, RowStep, Quiet, Outstanding
    <3> QED
      BY <3>3, CalmRow, Zenon
  <2> QED
    BY <2>3, <2>4, <2>5, Zenon DEF IInv
<1>5. CASE i \notin Offers
  <2>1. /\ mem' = [mem EXCEPT ![i] = "Failed"] /\ Issue(t, "outbound", Encode("outbound", mem'))
        /\ task' = [task EXCEPT ![t].at = "saving"]
    BY <1>5, Zenon DEF pay_refused
  <2>2. RowsOK' /\ mem'[i] = "Failed" /\ \A j \in Ids : j # i => mem'[j] = mem[j]
    BY <1>0, <1>2, <2>1, SMTT(30) DEF TypeOK, RowsOK, Row, HTLCStatus
  <2>3. Moves(t, "saving", i)
    <3>1. task \in [Tasks -> TaskRec]
      BY <1>0, TypeParts, Zenon DEF TasksOK
    <3>2. task' \in [Tasks -> TaskRec]
      BY <2>1, <3>1, ZenonT(30) DEF TaskRec
    <3>3. /\ task'[t].at = "saving" /\ task'[t].id = task[t].id
          /\ \A u \in Tasks : u # t => task'[u] = task[u]
      BY <2>1, <3>1 DEF TaskRec
    <3> QED
      BY <1>0, <3>2, <3>3, Zenon DEF Moves
  <2>4. /\ WritesOK'
        /\ \A u \in Callers, g \in Files :
             (Written(u, g)' <=> Written(u, g) /\ ~(u = t /\ g = "outbound"))
    <3>1. PICK rows \in [Ids -> Row] : rows = mem'
      BY <2>2, Zenon DEF RowsOK
    <3>2. PICK s \in [IdsOf("outbound") -> Row] : s = Encode("outbound", rows)
      BY <1>1, Encoded, Zenon
    <3> QED
      BY <1>0, <1>1, <2>1, <3>1, <3>2, IssueTypes, Zenon
  <2>5. TypeOK'
    <3>1. TasksOK'
      BY <1>0, <2>3, TaskMoves
    <3> QED
      BY <1>3, <2>2, <2>4, <3>1, TypeParts, PTL
  <2>6. WriteInv'
    <3>1. Waiting(t, "outbound")'
      BY <1>1, <2>3, Zenon DEF Moves, Waiting
    <3>2. \A u \in Tasks, g \in Files : u # t => (Waiting(u, g)' <=> Waiting(u, g))
      BY <2>3, Zenon DEF Moves, Waiting
    <3>3. \A g \in Files : Handling(g)' <=> Handling(g)
      BY <1>2, Zenon DEF Handling
    <3>4. "handler" # t /\ "handler" \in Callers /\ \A u \in Tasks : u \in Callers
      BY PaymentsAssumption DEF PaymentsAssumption, Callers
    <3> QED
      BY <1>0, <1>2, <2>4, <3>1, <3>2, <3>3, <3>4, Zenon DEF WriteInv
  <2>7. ASSUME NEW j \in Ids
        PROVE  NoAttempt(j) /\ NoEvent(j) /\ RowStep(j)
    <3>1. NoAttempt(j)
      BY <2>3, MoveFrame, Zenon
    <3>2. NoEvent(j)
      BY <1>2, EventsFrame, Zenon
    <3>3. RowStep(j)
      BY <1>0, <1>1, <1>2, <2>1, <2>2, WriteOfRows, Zenon DEF RowsOK
    <3> QED
      BY <3>1, <3>2, <3>3
  <2>8. ASSUME NEW j \in Ids, j # i
        PROVE  RowInv(j)'
    <3>1. Calm(j)
      BY <1>2, <2>2, <2>7, <2>8, Zenon DEF Calm, Untouched
    <3> QED
      BY <3>1, CalmRow, Zenon
  <2>9. RowInv(i)'
    <3>0. mem'[i] \in HTLCStatus /\ mem'[i] # None
      BY <2>2, PaymentsAssumption DEF PaymentsAssumption, HTLCStatus
    <3>1. EventsLeft(i)' = EventsLeft(i) /\ (Handled(i)' <=> Handled(i))
      BY <1>2, EventsFrame, Zenon
    <3>2. TaskInv(i)'
      BY <1>0, <1>2, <2>7, <3>0, <3>1, Zenon DEF RowInv, TaskInv, NoAttempt, Continues
    <3>3. KnownInv(i)'
      <4> SUFFICES ASSUME i \in Outbounds \ stale
                   PROVE  /\ ldk[i] # "unknown" \/ EventsLeft(i) # {} => Everywhere(i, HTLCStatus)'
                          /\ \A u \in Tasks : task'[u].at = "writing" /\ task'[u].id = i
                                                => FromWriteOf(u, i, HTLCStatus)'
        BY <1>2, <3>1, Zenon DEF KnownInv
      <4>1. ASSUME Everywhere(i, HTLCStatus)
            PROVE  Everywhere(i, HTLCStatus)'
        BY <1>0, <2>7, <3>0, <4>1, EverywhereKept, Zenon
      <4>2. ASSUME NEW u \in Tasks, task'[u].at = "writing", task'[u].id = i
            PROVE  FromWriteOf(u, i, HTLCStatus)'
        <5>1. task[u].at = "writing" /\ task[u].id = i
          BY <2>3, <4>2, Zenon DEF Moves
        <5>2. FromWriteOf(u, i, HTLCStatus)
          BY <1>0, <5>1, Zenon DEF RowInv, KnownInv
        <5> QED
          BY <1>0, <2>7, <3>0, <5>2, FromWriteKept, Zenon
      <4> QED
        BY <1>0, <4>1, <4>2, Zenon DEF RowInv, KnownInv
    <3>4. OutcomeInv(i)'
      <4>1. Unresolved(i)' <=> Unresolved(i)
        BY <1>2, Zenon DEF Unresolved
      <4> QED
        BY <1>0, <1>2, <3>1, <4>1, Zenon DEF RowInv, OutcomeInv
    <3>5. SettledInv(i)'
      <4>1. sends[i] = 1 => outcome[i] = None /\ EventsLeft(i) = {}
        BY <1>0, Zenon DEF RowInv, TaskInv
      <4>2. sends[i] = 1 => ~Handled(i)
        BY <1>0, <4>1, HandledLeft, Zenon
      <4> QED
        BY <1>2, <3>1, <4>1, <4>2, Zenon DEF SettledInv, Handled
    <3> QED
      BY <3>2, <3>3, <3>4, <3>5, Zenon DEF RowInv
  <2> QED
    BY <2>5, <2>6, <2>8, <2>9, Zenon DEF IInv
<1> QED
  BY <1>4, <1>5, Zenon

LEMMA LandStep ==
  ASSUME IInv, NEW f \in Files, land(f)
  PROVE  IInv'
<1>0. TypeOK /\ WriteInv
  BY Zenon DEF IInv
<1>1. UNCHANGED <<mem, task, handler, ldk, events, unsaved, outcome, sends, stale, dropped, crashes>>
  BY Zenon DEF land
<1>2. /\ RowsOK' /\ WritesOK'
      /\ \A u \in Callers, g \in Files : Written(u, g) => Written(u, g)'
  BY <1>0, LandTypes
<1>3. TypeOK'
  <2>1. TasksOK' /\ LdkOK' /\ CountsOK'
    BY <1>0, <1>1, TypeParts, Zenon DEF TasksOK, LdkOK, CountsOK
  <2> QED
    BY <1>2, <2>1, TypeParts, PTL
<1>4. WriteInv'
  <2>1. \A g \in Files : (Handling(g)' <=> Handling(g)) /\ \A u \in Tasks : Waiting(u, g)' <=> Waiting(u, g)
    BY <1>1, Zenon DEF Handling, Waiting
  <2>2. "handler" \in Callers /\ \A u \in Tasks : u \in Callers
    BY DEF Callers
  <2> QED
    BY <1>0, <1>2, <2>1, <2>2, Zenon DEF WriteInv
<1>5. ASSUME NEW i \in Ids
      PROVE  RowInv(i)'
  <2>1. NoAttempt(i)
    BY <1>1, TaskFrame, Zenon
  <2>2. NoEvent(i)
    BY <1>1, EventsFrame, Zenon
  <2>3. Calm(i)
    BY <1>1, <2>1, <2>2, Zenon DEF Calm, Untouched, RowStep
  <2> QED
    BY <2>3, CalmRow, Zenon
<1> QED
  BY <1>3, <1>4, <1>5, Zenon DEF IInv

-----------------------------------------------------------------------------
(* The steps of LDK.                                                       *)

LEMMA LdkFrame ==
  ASSUME IInv, UNCHANGED <<mem, disk, writes, task, handler, sends, stale, dropped, crashes>>, LdkOK'
  PROVE  /\ TypeOK' /\ WriteInv'
         /\ \A j \in Ids : NoAttempt(j) /\ RowStep(j) /\ (Handled(j)' <=> Handled(j))
<1>0. TypeOK /\ WriteInv
  BY Zenon DEF IInv
<1>1. TypeOK'
  <2>1. RowsOK' /\ WritesOK' /\ TasksOK' /\ CountsOK'
    BY <1>0, TypeParts, Zenon DEF RowsOK, WritesOK, TasksOK, CountsOK
  <2> QED
    BY <2>1, TypeParts, PTL
<1>2. WriteInv'
  BY <1>0, Zenon DEF WriteInv, Waiting, Handling, Written
<1>3. ASSUME NEW j \in Ids
      PROVE  NoAttempt(j) /\ RowStep(j) /\ (Handled(j)' <=> Handled(j))
  <2>1. NoAttempt(j)
    BY TaskFrame, Zenon
  <2> QED
    BY <2>1, Zenon DEF RowStep, Quiet, Outstanding, Handled
<1> QED
  BY <1>1, <1>2, <1>3, Zenon

LEMMA PersistStep ==
  ASSUME IInv, ldk_persist
  PROVE  IInv'
<1>0. TypeOK
  BY Zenon DEF IInv
<1>1. /\ UNCHANGED <<mem, disk, writes, task, handler, ldk, events, outcome, sends, stale, dropped, crashes>>
      /\ unsaved' = <<>>
  BY Zenon DEF ldk_persist
<1>2. LdkOK'
  <2>1. <<>> \in Seq(Event)
    OBVIOUS
  <2> QED
    BY <1>0, <1>1, <2>1, TypeParts, Zenon DEF LdkOK
<1>3. /\ TypeOK' /\ WriteInv'
      /\ \A j \in Ids : NoAttempt(j) /\ RowStep(j) /\ (Handled(j)' <=> Handled(j))
  BY <1>1, <1>2, LdkFrame, Zenon
<1>4. ASSUME NEW i \in Ids
      PROVE  RowInv(i)'
  <2>1. Range(unsaved') = {}
    BY <1>1 DEF Range
  <2>2. NoEvent(i)
    BY <1>1, <1>3, <2>1, Zenon DEF NoEvent, EventsLeft, EventsOf
  <2>3. Calm(i)
    BY <1>1, <1>3, <2>2, Zenon DEF Calm, Untouched
  <2> QED
    BY <2>3, CalmRow, Zenon
<1> QED
  BY <1>3, <1>4, Zenon DEF IInv

\* An event is added for i.
LEMMA EventAdded ==
  ASSUME TypeOK, NEW e \in Event, events' = Append(events, e), UNCHANGED <<unsaved, handler>>
  PROVE  /\ events' \in Seq(Event) /\ (handler # None => events' # <<>> /\ handler = Head(events'))
         /\ \A j \in Ids : j # e.id => NoEvent(j)
         /\ EventsLeft(e.id)' = EventsLeft(e.id) \cup {e} /\ EventsOf(e.id)' # {}
<1>0. events \in Seq(Event)
  BY Zenon DEF TypeOK
<1>1. /\ events' \in Seq(Event) /\ Len(events') = Len(events) + 1 /\ events'[Len(events) + 1] = e
      /\ \A k \in 1..Len(events) : events'[k] = events[k]
      /\ Len(events) \in Nat
  BY <1>0, AppendProperties, LenProperties
<1>2. events' # <<>> /\ (events # <<>> => Head(events') = Head(events))
  <2>1. events # <<>> => 1 \in 1..Len(events)
    BY <1>0, <1>1, EmptySeq
  <2>2. events # <<>> => Head(events) = events[1]
    BY <1>0
  <2>3. events' # <<>> /\ Head(events') = events'[1]
    BY <1>1, EmptySeq
  <2> QED
    BY <1>1, <2>1, <2>2, <2>3, Zenon
<1>3. Range(events') = Range(events) \cup {e}
  BY <1>0, RangeOfAppend
<1>4. ASSUME NEW j \in Ids
      PROVE  EventsLeft(j)' = EventsLeft(j) \cup {d \in {e} : d.id = j}
  BY <1>3, Zenon DEF EventsLeft
<1>5. \A j : EventsOf(j)' = {} <=> EventsOf(j) = {} /\ e.id # j
  <2>1. DOMAIN events' = 1..(Len(events) + 1) /\ DOMAIN events = 1..Len(events)
    BY <1>0, <1>1, LenProperties
  <2>2. \A k \in 1..(Len(events) + 1) : k = Len(events) + 1 \/ k \in 1..Len(events)
    BY <1>1
  <2>3. Len(events) + 1 \in 1..(Len(events) + 1) /\ \A k \in 1..Len(events) : k \in 1..(Len(events) + 1)
    BY <1>1
  <2>4. ASSUME NEW j
        PROVE  EventsOf(j)' = {} <=> EventsOf(j) = {} /\ e.id # j
    <3>1. EventsOf(j)' = {} <=> \A k \in 1..(Len(events) + 1) : events'[k].id # j
      BY <2>1, Zenon DEF EventsOf
    <3>2. EventsOf(j) = {} <=> \A k \in 1..Len(events) : events[k].id # j
      BY <2>1, Zenon DEF EventsOf
    <3> QED
      BY <1>1, <2>2, <2>3, <3>1, <3>2, ZenonT(20)
  <2> QED
    BY <2>4, Zenon
<1>6. e.id \in Ids
  BY DEF Event
<1> QED
  <2>1. handler # None => events' # <<>> /\ handler = Head(events')
    BY <1>2, Zenon DEF TypeOK
  <2>2. ASSUME NEW j \in Ids, j # e.id
        PROVE  NoEvent(j)
    BY <1>4, <1>5, <2>2, Zenon DEF NoEvent, Handled
  <2>3. EventsLeft(e.id)' = EventsLeft(e.id) \cup {e}
    BY <1>4, <1>6, Zenon
  <2>4. EventsOf(e.id)' # {}
    BY <1>5, Zenon
  <2> QED
    BY <1>1, <2>1, <2>2, <2>3, <2>4, Zenon

\* The row and what is outstanding of it are left alone.
LEMMA SameRow ==
  ASSUME UNCHANGED <<mem, disk, writes>>, NEW i, NEW V, NEW w
  PROVE  /\ Everywhere(i, V) => Everywhere(i, V)'
         /\ FromWriteOf(w, i, V) => FromWriteOf(w, i, V)'
BY Zenon DEF Everywhere, FromWriteOf, Outstanding, Written

\* Whatever LDK does with a payment it knows, its row is safe.
LEMMA KnownMoves ==
  ASSUME IInv, NEW i \in Ids, ldk[i] # "unknown",
         UNCHANGED <<mem, disk, writes, task, sends, stale>>
  PROVE  TaskInv(i)' /\ KnownInv(i)'
<1>0. RowInv(i)
  BY Zenon DEF IInv
<1>1. \A u \in Tasks : Preparing(u, i)' <=> Preparing(u, i)
  BY Zenon DEF Preparing
<1>2. TaskInv(i)'
  BY <1>0, <1>1, Zenon DEF RowInv, TaskInv
<1>3. Everywhere(i, HTLCStatus) => Everywhere(i, HTLCStatus)'
  BY SameRow, Zenon
<1>4. \A u \in Tasks : FromWriteOf(u, i, HTLCStatus) => FromWriteOf(u, i, HTLCStatus)'
  BY SameRow, Zenon
<1>5. KnownInv(i)'
  BY <1>0, <1>3, <1>4, Zenon DEF RowInv, KnownInv
<1> QED
  BY <1>2, <1>5

LEMMA CommitStep ==
  ASSUME IInv, NEW i \in Ids, ldk_commit(i)
  PROVE  IInv'
<1>0. TypeOK /\ RowInv(i) /\ ldk[i] = "queued"
  BY Zenon DEF IInv, ldk_commit
<1>1. UNCHANGED <<mem, disk, writes, task, handler, events, unsaved, outcome, sends, stale, dropped, crashes>>
  BY Zenon DEF ldk_commit
<1>2. /\ ldk' \in [Ids -> {"unknown", "queued", "inflight", "fulfilled"}]
      /\ ldk'[i] = "inflight" /\ \A j \in Ids : j # i => ldk'[j] = ldk[j]
  BY <1>0 DEF ldk_commit, TypeOK
<1>3. LdkOK'
  BY <1>0, <1>1, <1>2, TypeParts, Zenon DEF LdkOK
<1>4. /\ TypeOK' /\ WriteInv'
      /\ \A j \in Ids : NoAttempt(j) /\ RowStep(j) /\ (Handled(j)' <=> Handled(j))
  BY <1>1, <1>3, LdkFrame, Zenon
<1>5. ASSUME NEW j \in Ids
      PROVE  NoEvent(j) /\ EventsLeft(j)' = EventsLeft(j) /\ EventsOf(j)' = EventsOf(j)
  BY <1>1, EventsFrame, Zenon
<1>6. ASSUME NEW j \in Ids, j # i
      PROVE  RowInv(j)'
  <2>1. Calm(j)
    BY <1>1, <1>2, <1>4, <1>5, <1>6, Zenon DEF Calm, Untouched
  <2> QED
    BY <2>1, CalmRow, Zenon
<1>7. RowInv(i)'
  <2>1. TaskInv(i)' /\ KnownInv(i)'
    BY <1>0, <1>1, KnownMoves
  <2>2. Unresolved(i) /\ i \notin Inbounds /\ sends[i] # 0
    BY <1>0 DEF Unresolved, RowInv, OutcomeInv
  <2>3. OutcomeInv(i)'
    BY <1>0, <1>1, <1>5, <2>2, Zenon DEF RowInv, OutcomeInv
  <2>4. SettledInv(i)'
    BY <1>0, <1>1, <1>5, Zenon DEF RowInv, SettledInv, Everywhere, FromWriteOf, Outstanding, Written
  <2> QED
    BY <2>1, <2>3, <2>4, Zenon DEF RowInv
<1> QED
  BY <1>4, <1>6, <1>7, Zenon DEF IInv

LEMMA ForgetStep ==
  ASSUME IInv, NEW i \in Ids, ldk_forget(i)
  PROVE  IInv'
<1>0. TypeOK /\ RowInv(i) /\ i \in Outbounds /\ i \notin Inbounds /\ ldk[i] = "fulfilled"
  BY PaymentsAssumption DEF IInv, ldk_forget, PaymentsAssumption
<1>1. UNCHANGED <<mem, disk, writes, task, handler, events, unsaved, outcome, sends, stale, dropped, crashes>>
  BY Zenon DEF ldk_forget
<1>2. /\ ldk' \in [Ids -> {"unknown", "queued", "inflight", "fulfilled"}]
      /\ ldk'[i] = "unknown" /\ \A j \in Ids : j # i => ldk'[j] = ldk[j]
  BY <1>0 DEF ldk_forget, TypeOK
<1>3. LdkOK'
  BY <1>0, <1>1, <1>2, TypeParts, Zenon DEF LdkOK
<1>4. /\ TypeOK' /\ WriteInv'
      /\ \A j \in Ids : NoAttempt(j) /\ RowStep(j) /\ (Handled(j)' <=> Handled(j))
  BY <1>1, <1>3, LdkFrame, Zenon
<1>5. ASSUME NEW j \in Ids
      PROVE  NoEvent(j) /\ EventsLeft(j)' = EventsLeft(j) /\ EventsOf(j)' = EventsOf(j)
  BY <1>1, EventsFrame, Zenon
<1>6. ASSUME NEW j \in Ids, j # i
      PROVE  RowInv(j)'
  <2>1. Calm(j)
    BY <1>1, <1>2, <1>4, <1>5, <1>6, Zenon DEF Calm, Untouched
  <2> QED
    BY <2>1, CalmRow, Zenon
<1>7. RowInv(i)'
  <2>1. TaskInv(i)' /\ KnownInv(i)'
    BY <1>0, <1>1, KnownMoves
  <2>2. ~Unresolved(i)'
    BY <1>0, <1>2 DEF Unresolved
  <2>3. OutcomeInv(i)'
    BY <1>0, <1>1, <1>2, <1>5, <2>2, Zenon DEF RowInv, OutcomeInv
  <2>4. SettledInv(i)'
    BY <1>0, <1>1, <1>5, Zenon DEF RowInv, SettledInv, Everywhere, FromWriteOf, Outstanding, Written
  <2> QED
    BY <2>1, <2>3, <2>4, Zenon DEF RowInv
<1> QED
  BY <1>4, <1>6, <1>7, Zenon DEF IInv

\* A payment ends, or an invoice is paid.
LEMMA EndStep ==
  ASSUME IInv, NEW i \in Ids, NEW r \in {"Succeeded", "Failed"}, NEW known \in {"unknown", "fulfilled"},
         UNCHANGED <<mem, disk, writes, task, handler, unsaved, sends, stale, dropped, crashes>>,
         ldk' = [ldk EXCEPT ![i] = known],
         events' = Append(events, [id |-> i, status |-> r]),
         outcome' = [outcome EXCEPT ![i] = r],
         Unresolved(i), sends[i] # 0,
         i \in Inbounds => r = "Succeeded" /\ known = "fulfilled"
  PROVE  IInv'
<1>0. TypeOK /\ RowInv(i)
  BY Zenon DEF IInv
<1>1. PICK e \in Event : e = [id |-> i, status |-> r] /\ e.id = i /\ e.status = r
  BY SMTT(30) DEF Event
<1>2. /\ ldk' \in [Ids -> {"unknown", "queued", "inflight", "fulfilled"}] /\ outcome' \in [Ids -> Row]
      /\ ldk'[i] = known /\ outcome'[i] = r /\ r # None
      /\ \A j \in Ids : j # i => ldk'[j] = ldk[j] /\ outcome'[j] = outcome[j]
  BY <1>0, PaymentsAssumption DEF TypeOK, Row, HTLCStatus, PaymentsAssumption
<1>3. /\ events' \in Seq(Event) /\ (handler # None => events' # <<>> /\ handler = Head(events'))
      /\ \A j \in Ids : j # i => NoEvent(j)
      /\ EventsLeft(i)' = EventsLeft(i) \cup {e} /\ EventsOf(i)' # {}
  BY <1>0, <1>1, EventAdded, Zenon
<1>4. LdkOK'
  BY <1>0, <1>2, <1>3, TypeParts, Zenon DEF LdkOK
<1>5. /\ TypeOK' /\ WriteInv'
      /\ \A j \in Ids : NoAttempt(j) /\ RowStep(j) /\ (Handled(j)' <=> Handled(j))
  BY <1>4, LdkFrame, Zenon
<1>6. ASSUME NEW j \in Ids, j # i
      PROVE  RowInv(j)'
  <2>1. Calm(j)
    BY <1>2, <1>3, <1>5, <1>6, Zenon DEF Calm, Untouched
  <2> QED
    BY <2>1, CalmRow, Zenon
<1>7. RowInv(i)'
  <2>1. TaskInv(i)' /\ KnownInv(i)'
    <3>1. CASE ldk[i] # "unknown"
      BY <3>1, KnownMoves
    <3>2. CASE ldk[i] = "unknown"
      <4>1. i \in Inbounds /\ i \notin Outbounds
        BY <3>2, PaymentsAssumption DEF Unresolved, PaymentsAssumption
      <4>2. \A u \in Tasks : ~Preparing(u, i)
        BY <1>0, <4>1, Zenon DEF RowInv, TaskInv
      <4> QED
        BY <4>1, <4>2, Zenon DEF TaskInv, KnownInv, Preparing
    <3> QED
      BY <3>1, <3>2
  <2>2. ~Unresolved(i)'
    BY <1>2 DEF Unresolved
  <2>3. sends[i] = 1 => EventsLeft(i) = {}
    BY <1>0, Zenon DEF RowInv, OutcomeInv
  <2>4. OutcomeInv(i)'
    <3>1. outcome'[i] \in {None, "Succeeded"} \cup (IF i \in Outbounds THEN {"Failed"} ELSE {})
      BY <1>2 DEF Ids
    <3>2. sends'[i] = 1 => \A d \in EventsLeft(i)' : d.status = outcome'[i]
      BY <1>1, <1>2, <1>3, <2>3, Zenon
    <3>3. i \in Inbounds => ldk'[i] \in {"unknown", "fulfilled"}
      BY <1>2, Zenon
    <3> QED
      BY <2>2, <3>1, <3>2, <3>3, ZenonT(40) DEF OutcomeInv
  <2>5. SettledInv(i)'
    <3>1. sends[i] = 1 => ~Handled(i)
      BY <1>0, <2>3, HandledLeft, Zenon
    <3> QED
      BY <1>3, <1>5, <3>1, Zenon DEF SettledInv, Handled
  <2> QED
    BY <2>1, <2>4, <2>5, Zenon DEF RowInv
<1> QED
  BY <1>5, <1>6, <1>7, Zenon DEF IInv

LEMMA ResolveStep ==
  ASSUME IInv, NEW i \in Ids, NEW r, ldk_resolve(i, r)
  PROVE  IInv'
<1>0. TypeOK /\ RowInv(i)
  BY Zenon DEF IInv
<1>1. ldk[i] \in {"queued", "inflight"} /\ r \in {"Succeeded", "Failed"}
  BY DEF ldk_resolve
<1>2. Unresolved(i) /\ sends[i] # 0 /\ i \notin Inbounds
  BY <1>0, <1>1 DEF Unresolved, RowInv, OutcomeInv
<1>3. PICK known \in {"unknown", "fulfilled"} : known = IF r = "Succeeded" THEN "fulfilled" ELSE "unknown"
  OBVIOUS
<1> QED
  BY <1>1, <1>2, <1>3, EndStep, Zenon DEF ldk_resolve

LEMMA ClaimStep ==
  ASSUME IInv, NEW i \in Ids, ldk_claim(i)
  PROVE  IInv'
<1>0. TypeOK
  BY Zenon DEF IInv
<1>1. Unresolved(i) /\ sends[i] # 0
  BY <1>0 DEF Unresolved, ldk_claim, TypeOK
<1> QED
  BY <1>1, EndStep, Zenon DEF ldk_claim

-----------------------------------------------------------------------------
(* The event handler.                                                      *)

LEMMA HandleStep ==
  ASSUME IInv, handle_ldk_events
  PROVE  IInv'
<1>0. TypeOK /\ WriteInv /\ "handler" \in Callers /\ "handler" \notin Tasks
  BY PaymentsAssumption DEF IInv, Callers, PaymentsAssumption
<1>1. PICK e \in Event : e = Head(events) /\ e \in Range(events)
  <2>1. events \in Seq(Event) /\ events # <<>>
    BY <1>0, Zenon DEF TypeOK, handle_ldk_events
  <2>2. Head(events) \in Range(events)
    BY <2>1, RangeOfTail, Zenon
  <2> QED
    BY <1>0, <2>2, EventsAre, Zenon
<1> DEFINE i == e.id
           f == FileOf(i)
<1>2. i \in Ids /\ f \in Files /\ e.status \in {"Succeeded", "Failed"} /\ e # None /\ e.status # None
  BY FilesOfRows, PaymentsAssumption DEF Event, PaymentsAssumption, HTLCStatus
<1>3. /\ mem' = RowsAfter(e) /\ Issue("handler", f, Encode(f, mem')) /\ handler' = e
      /\ handler = None /\ events # <<>>
      /\ UNCHANGED <<disk, task, ldk, events, unsaved, outcome, sends, stale, dropped, crashes>>
  BY <1>1, Zenon DEF handle_ldk_events, ldkVars
<1>4. /\ mem' \in [Ids -> Row] /\ \A j \in Ids : j # i => mem'[j] = mem[j]
      /\ i \in Inbounds => mem'[i] = "Succeeded"
      /\ i \in Outbounds => mem'[i] = IF mem[i] = None THEN None ELSE e.status
  BY <1>0, <1>3, RowsAfterEvent, Zenon
<1>5. \A g \in Files : Written("handler", g)
  BY <1>0, <1>3, Zenon DEF WriteInv, Handling
<1>6. /\ WritesOK'
      /\ \A u \in Callers, g \in Files : (Written(u, g)' <=> Written(u, g) /\ ~(u = "handler" /\ g = f))
  <2>1. PICK rows \in [Ids -> Row] : rows = mem'
    BY <1>4, Zenon
  <2>2. PICK s \in [IdsOf(f) -> Row] : s = Encode(f, rows)
    BY <1>2, Encoded, Zenon
  <2> QED
    <3> HIDE DEF i, f
    <3>1. f \in Files /\ Issue("handler", f, s) /\ Written("handler", f)
      BY <1>2, <1>3, <1>5, <2>1, <2>2, Zenon
    <3> QED
      BY <1>0, <3>1, IssueTypes, Zenon
<1>7. TypeOK'
  <2>1. RowsOK' /\ TasksOK' /\ CountsOK'
    BY <1>0, <1>3, <1>4, TypeParts, Zenon DEF RowsOK, TasksOK, CountsOK
  <2>2. LdkOK'
    BY <1>0, <1>1, <1>3, TypeParts, Zenon DEF LdkOK
  <2> QED
    BY <1>6, <2>1, <2>2, TypeParts, PTL
<1>8. WriteInv'
  <2>1. Handling(f)'
    BY <1>2, <1>3, Zenon DEF Handling
  <2>2. \A u \in Tasks, g \in Files : Waiting(u, g)' <=> Waiting(u, g)
    BY <1>3, Zenon DEF Waiting
  <2>3. \A u \in Tasks : u \in Callers /\ u # "handler"
    BY <1>0, Zenon DEF Callers
  <2> QED
    BY <1>0, <1>5, <1>6, <2>1, <2>2, <2>3, Zenon DEF WriteInv
<1>9. ASSUME NEW j \in Ids
      PROVE  /\ (f = FileOf(j) => Saves("handler", j)) /\ RowStep(j) /\ NoAttempt(j)
             /\ EventsLeft(j)' = EventsLeft(j) /\ EventsOf(j)' = EventsOf(j)
  <2>1. (f = FileOf(j) => Saves("handler", j)) /\ RowStep(j)
    BY <1>0, <1>2, <1>3, <1>4, WriteOfRows, Zenon
  <2>2. NoAttempt(j)
    BY <1>3, TaskFrame, Zenon
  <2> QED
    BY <1>3, <2>1, <2>2, Zenon DEF EventsLeft, EventsOf
<1>10. ASSUME NEW j \in Ids, j # i
       PROVE  RowInv(j)'
  <2>1. Calm(j)
    BY <1>3, <1>4, <1>9, <1>10, Zenon DEF Calm, Untouched, NoEvent, Handled
  <2> QED
    BY <2>1, CalmRow, Zenon
<1>11. RowInv(i)'
  <2>0. RowInv(i) /\ e \in EventsLeft(i) /\ EventsLeft(i) # {} /\ EventsOf(i) # {}
    <3>1. RowInv(i) /\ e \in EventsLeft(i)
      BY <1>1, <1>2, Zenon DEF IInv, EventsLeft
    <3>2. EventsOf(i) # {}
      BY <1>0, <1>1, EventsAre, Zenon
    <3> QED
      BY <3>1, <3>2, Zenon
  <2>1. i \in Outbounds /\ mem[i] # None => mem'[i] \in HTLCStatus /\ mem'[i] # None /\ mem'[i] = e.status
    <3>1. e.status \in HTLCStatus
      BY <1>2 DEF HTLCStatus
    <3> QED
      BY <1>2, <1>4, <3>1, Zenon
  <2>2. \A u \in Tasks : (Preparing(u, i)' <=> Preparing(u, i)) /\ task'[u] = task[u]
    BY <1>3, Zenon DEF Preparing
  <2>3. TaskInv(i)'
    BY <1>3, <1>9, <2>0, <2>1, <2>2, Zenon DEF RowInv, TaskInv
  <2>4. \A s \in HTLCStatus : s # None
    BY PaymentsAssumption DEF PaymentsAssumption
  <2>5. i \in Outbounds \ stale => mem[i] # None
    BY <2>0, <2>4, Zenon DEF RowInv, KnownInv, Everywhere
  <2>6. KnownInv(i)'
    <3> SUFFICES ASSUME i \in Outbounds \ stale
                 PROVE  /\ Everywhere(i, HTLCStatus)'
                        /\ \A u \in Tasks : task[u].at = "writing" /\ task[u].id = i
                                              => FromWriteOf(u, i, HTLCStatus)'
      BY <1>3, Zenon DEF KnownInv
    <3>1. mem'[i] \in HTLCStatus
      BY <2>1, <2>5, Zenon
    <3>2. PICK j \in Ids : j = i
      BY <1>2, Zenon
    <3>3. Everywhere(j, HTLCStatus)'
      BY <1>0, <1>9, <2>0, <3>1, <3>2, EverywhereKept, Zenon DEF RowInv, KnownInv
    <3>4. ASSUME NEW u \in Tasks, task[u].at = "writing", task[u].id = i
          PROVE  FromWriteOf(u, j, HTLCStatus)'
      BY <1>0, <1>9, <2>0, <3>1, <3>2, <3>4, FromWriteKept, Zenon DEF RowInv, KnownInv
    <3> QED
      BY <3>2, <3>3, <3>4, Zenon
  <2>7. OutcomeInv(i)'
    <3>1. Unresolved(i)' <=> Unresolved(i)
      BY <1>3, Zenon DEF Unresolved
    <3> QED
      BY <1>2, <1>3, <1>9, <2>0, <3>1, Zenon DEF RowInv, OutcomeInv
  <2>8. SettledInv(i)'
    <3> SUFFICES ASSUME i \notin stale, sends[i] = 1
                 PROVE  FromWriteOf("handler", i, {outcome[i]})'
      BY <1>2, <1>3, <1>9, <2>0, Zenon DEF SettledInv
    <3>1. e.status = outcome[i]
      BY <2>0, Zenon DEF RowInv, OutcomeInv
    <3>2. mem'[i] = outcome[i]
      <4>1. CASE i \in Outbounds
        BY <2>1, <2>5, <3>1, <4>1, Zenon
      <4>2. CASE i \notin Outbounds
        <5>1. i \in Inbounds
          BY <1>2, <4>2, Zenon DEF Ids
        <5>2. outcome[i] \in {None, "Succeeded"}
          BY <2>0, <4>2, Zenon DEF RowInv, OutcomeInv
        <5> QED
          BY <1>2, <1>4, <3>1, <5>1, <5>2, Zenon
      <4> QED
        BY <4>1, <4>2
    <3>3. PICK v : v = outcome[i]
      OBVIOUS
    <3>4. PICK j \in Ids : j = i
      BY <1>2, Zenon
    <3>5. FromWriteOf("handler", j, {v})'
      <4>1. mem'[j] \in {v} /\ Saves("handler", j) /\ Written("handler", FileOf(j))
        BY <1>2, <1>5, <1>9, <3>2, <3>3, <3>4, Zenon
      <4> QED
        BY <1>0, <4>1, FromWriteStarts
    <3>6. outcome' = outcome
      BY <1>3
    <3> QED
      BY <3>3, <3>4, <3>5, <3>6, Zenon
  <2> QED
    BY <2>3, <2>6, <2>7, <2>8, Zenon DEF RowInv
<1> QED
  BY <1>7, <1>8, <1>10, <1>11, Zenon DEF IInv

\* The handler's write is done: nothing that is still outstanding is older.
LEMMA HandledStep ==
  ASSUME IInv, event_handled
  PROVE  IInv'
<1>0. TypeOK /\ WriteInv /\ events \in Seq(Event) /\ unsaved \in Seq(Event)
  BY Zenon DEF IInv, TypeOK
<1>1. /\ handler # None /\ Written("handler", FileOf(handler.id))
      /\ events' = Tail(events) /\ unsaved' = Append(unsaved, handler) /\ handler' = None
      /\ UNCHANGED <<mem, disk, writes, task, ldk, outcome, sends, stale, dropped, crashes>>
  BY Zenon DEF event_handled
<1>2. PICK e \in Event : e = handler /\ e = Head(events) /\ events # <<>>
  <2>1. events # <<>> /\ handler = Head(events)
    BY <1>0, <1>1, Zenon DEF TypeOK
  <2>2. Head(events) \in Event
    BY <1>0, <2>1, HeadTailProperties, SMTT(30)
  <2> QED
    BY <2>1, <2>2, Zenon
<1>3. events' \in Seq(Event) /\ unsaved' \in Seq(Event)
  BY <1>0, <1>1, <1>2, HeadTailProperties, AppendProperties
<1>4. Range(events) = {e} \cup Range(events') /\ Range(unsaved') = Range(unsaved) \cup {e}
  <2>1. Range(events) = {e} \cup Range(events')
    BY <1>0, <1>1, <1>2, RangeOfTail, Zenon
  <2>2. unsaved' = Append(unsaved, e) /\ unsaved \in Seq(Event)
    BY <1>0, <1>1, <1>2
  <2>3. Range(unsaved') = Range(unsaved) \cup {e}
    BY <2>2, RangeOfAppend
  <2> QED
    BY <2>1, <2>3
<1>5. TypeOK'
  <2>1. RowsOK' /\ WritesOK' /\ TasksOK' /\ CountsOK'
    BY <1>0, <1>1, TypeParts, Zenon DEF RowsOK, WritesOK, TasksOK, CountsOK
  <2>2. LdkOK'
    BY <1>0, <1>1, <1>3, TypeParts, Zenon DEF LdkOK
  <2> QED
    BY <2>1, <2>2, TypeParts, PTL
<1>6. WriteInv'
  <2>1. \A g \in Files : Written("handler", g)
    BY <1>0, <1>1, Zenon DEF WriteInv, Handling
  <2> QED
    BY <1>0, <1>1, <2>1, Zenon DEF WriteInv, Waiting, Written
<1>7. ASSUME NEW j \in Ids
      PROVE  /\ EventsLeft(j)' = EventsLeft(j) /\ ~Handled(j)'
             /\ j # e.id /\ EventsOf(j)' = {} => EventsOf(j) = {}
  <2>1. EventsLeft(j)' = EventsLeft(j)
    BY <1>4, Zenon DEF EventsLeft
  <2>2. EventsOf(j)' = {} <=> \A d \in Range(events') : d.id # j
    BY Zenon DEF EventsOf, Range
  <2>3. EventsOf(j) = {} <=> \A d \in Range(events) : d.id # j
    BY <1>0, EventsAre, Zenon
  <2> QED
    BY <1>1, <1>4, <2>1, <2>2, <2>3, Zenon DEF Handled
<1>8. ASSUME NEW j \in Ids
      PROVE  NoAttempt(j) /\ RowStep(j)
  BY <1>1, TaskFrame, Zenon DEF RowStep, Quiet, Outstanding
<1>9. ASSUME NEW j \in Ids, j # e.id
      PROVE  RowInv(j)'
  <2>1. Calm(j)
    BY <1>1, <1>7, <1>8, <1>9, Zenon DEF Calm, Untouched, NoEvent
  <2> QED
    BY <2>1, CalmRow, Zenon
<1>10. ASSUME NEW i \in Ids, i = e.id
       PROVE  RowInv(i)'
  <2>0. RowInv(i) /\ Handled(i) /\ Written("handler", FileOf(i))
    BY <1>1, <1>2, <1>10, Zenon DEF IInv, Handled
  <2>1. TaskInv(i)'
    <3>1. \A u \in Tasks : (Preparing(u, i)' <=> Preparing(u, i)) /\ task'[u] = task[u]
      BY <1>1, Zenon DEF Preparing
    <3> QED
      BY <1>1, <1>7, <2>0, <3>1, Zenon DEF RowInv, TaskInv
  <2>2. KnownInv(i)'
    <3>1. Everywhere(i, HTLCStatus) => Everywhere(i, HTLCStatus)'
      BY <1>1, SameRow, Zenon
    <3>2. \A u \in Tasks : FromWriteOf(u, i, HTLCStatus) => FromWriteOf(u, i, HTLCStatus)'
      BY <1>1, SameRow, Zenon
    <3> QED
      BY <1>1, <1>7, <2>0, <3>1, <3>2, Zenon DEF RowInv, KnownInv
  <2>3. OutcomeInv(i)'
    <3>1. Unresolved(i)' <=> Unresolved(i)
      BY <1>1, Zenon DEF Unresolved
    <3> QED
      BY <1>1, <1>7, <2>0, <3>1, Zenon DEF RowInv, OutcomeInv
  <2>4. SettledInv(i)'
    <3>1. i \notin stale /\ sends[i] = 1 => Everywhere(i, {outcome[i]})
      BY <2>0, Zenon DEF RowInv, SettledInv, Handled, FromWriteOf
    <3>2. i \notin stale /\ sends[i] = 1 => Everywhere(i, {outcome[i]})'
      BY <1>1, <3>1, Zenon DEF Everywhere, Outstanding
    <3> QED
      BY <1>1, <3>2, Zenon DEF SettledInv
  <2> QED
    BY <2>1, <2>2, <2>3, <2>4, Zenon DEF RowInv
<1> QED
  BY <1>5, <1>6, <1>9, <1>10, Zenon DEF IInv

-----------------------------------------------------------------------------
(* Crash and start-up: what counts is what was on disk.                    *)

LEMMA CrashTypes ==
  ASSUME TypeOK, Crash
  PROVE  /\ TypeOK' /\ WriteInv'
         /\ \A i \in Ids :
              /\ ldk'[i] = ldk[i] \/ (ldk[i] = "queued" /\ ldk'[i] = "unknown")
              /\ mem'[i] = disk[i] \/ (disk[i] = "Pending" /\ mem'[i] = "Failed")
              /\ disk'[i] = mem'[i] /\ Len(Outstanding(i)') = 0
              /\ \A t \in Tasks : task'[t].at = "idle"
              /\ EventsLeft(i)' = EventsLeft(i) /\ (EventsOf(i)' = {} => EventsOf(i) = {})
<1>1. /\ crashes' = crashes + 1 /\ events' = unsaved \o events /\ unsaved' = <<>>
      /\ mem' = Reconciled(disk, ldk') /\ disk' = mem'
      /\ writes' = [f \in Files |-> <<>>] /\ task' = [t \in Tasks |-> Idle]
      /\ handler' = None /\ dropped' = {} /\ UNCHANGED <<outcome, sends, stale>>
  BY Zenon DEF Crash
<1>2. PICK lost \in SUBSET {i \in Ids : ldk[i] = "queued"} :
        ldk' = [i \in Ids |-> IF i \in lost THEN "unknown" ELSE ldk[i]]
  BY Zenon DEF Crash
<1>3. \A i \in Ids : ldk'[i] = ldk[i] \/ (ldk[i] = "queued" /\ ldk'[i] = "unknown")
  BY <1>2
<1>4. ldk' \in [Ids -> {"unknown", "queued", "inflight", "fulfilled"}]
  BY <1>2 DEF TypeOK
<1>5. \A i \in Ids : mem'[i] = disk[i] \/ (disk[i] = "Pending" /\ mem'[i] = "Failed")
  BY <1>1 DEF Reconciled
<1>6. RowsOK'
  <2>1. mem' = [i \in Ids |-> mem'[i]]
    BY <1>1, Zenon DEF Reconciled
  <2>2. \A i \in Ids : mem'[i] \in Row
    BY <1>5 DEF TypeOK, Row, HTLCStatus
  <2> QED
    BY <1>1, <2>1, <2>2 DEF RowsOK
<1>7. \A f \in Files : writes'[f] = <<>>
  BY <1>1
<1>8. WritesOK'
  <2>1. DOMAIN writes' = Files
    BY <1>1
  <2>2. ASSUME NEW f \in Files
        PROVE  <<>> \in Seq(WriteRec(f)) /\ DOMAIN <<>> = {}
    OBVIOUS
  <2> QED
    BY <1>7, <2>1, <2>2, Zenon DEF WritesOK
<1>9. \A t \in Tasks : task'[t] = Idle /\ task'[t].at = "idle"
  BY <1>1 DEF Idle
<1>10. TasksOK'
  <2>1. Idle \in TaskRec
    BY DEF Idle, TaskRec
  <2>2. task' \in [Tasks -> TaskRec]
    BY <1>1, <2>1
  <2>3. "idle" # "encoded"
    OBVIOUS
  <2> QED
    BY <1>9, <2>2, <2>3, Zenon DEF TasksOK
<1>11. events \in Seq(Event) /\ unsaved \in Seq(Event)
  BY Zenon DEF TypeOK
<1>12. LdkOK'
  <2>1. events' \in Seq(Event) /\ unsaved' \in Seq(Event)
    BY <1>1, <1>11, ConcatProperties
  <2> QED
    BY <1>1, <1>4, <2>1, TypeParts, Zenon DEF LdkOK
<1>13. CountsOK'
  BY <1>1, TypeParts DEF CountsOK
<1>14. TypeOK'
  BY <1>6, <1>8, <1>10, <1>12, <1>13, TypeParts, PTL
<1>15. WriteInv'
  <2>1. \A w, f : f \in Files => Written(w, f)'
    BY <1>7 DEF Written
  <2> QED
    BY <2>1, Zenon DEF WriteInv
<1>16. ASSUME NEW i \in Ids
       PROVE  EventsLeft(i)' = EventsLeft(i) /\ (EventsOf(i)' = {} => EventsOf(i) = {})
  <2>1. Range(events') = Range(unsaved) \cup Range(events) /\ Range(unsaved') = {}
    <3>1. Range(events') = Range(unsaved) \cup Range(events)
      BY <1>1, <1>11, RangeConcatenation
    <3>2. Range(unsaved') = {}
      BY <1>1 DEF Range
    <3> QED
      BY <3>1, <3>2
  <2>2. EventsOf(i)' = {} <=> \A d \in Range(events') : d.id # i
    BY Zenon DEF EventsOf, Range
  <2>3. EventsOf(i) = {} <=> \A d \in Range(events) : d.id # i
    BY EventsAre, Zenon
  <2>4. EventsLeft(i)' = EventsLeft(i)
    BY <2>1, Zenon DEF EventsLeft
  <2> QED
    BY <2>1, <2>2, <2>3, <2>4, Zenon
<1>17. ASSUME NEW i \in Ids
       PROVE  Len(Outstanding(i)') = 0
  BY <1>7, FilesOfRows DEF Outstanding
<1> QED
  BY <1>1, <1>3, <1>5, <1>9, <1>14, <1>15, <1>16, <1>17, Zenon

LEMMA CrashStep ==
  ASSUME IInv, Crash
  PROVE  IInv'
<1>0. TypeOK
  BY Zenon DEF IInv
<1>1. /\ TypeOK' /\ WriteInv'
      /\ handler' = None /\ dropped' = {} /\ UNCHANGED <<outcome, sends, stale>>
  BY <1>0, CrashTypes, Zenon DEF Crash
<1>2. ASSUME NEW i \in Ids
      PROVE  RowInv(i)'
  <2>1. /\ ldk'[i] = ldk[i] \/ (ldk[i] = "queued" /\ ldk'[i] = "unknown")
        /\ mem'[i] = disk[i] \/ (disk[i] = "Pending" /\ mem'[i] = "Failed")
        /\ disk'[i] = mem'[i] /\ Len(Outstanding(i)') = 0
        /\ \A t \in Tasks : task'[t].at = "idle"
        /\ EventsLeft(i)' = EventsLeft(i) /\ (EventsOf(i)' = {} => EventsOf(i) = {})
    BY <1>0, CrashTypes
  <2>2. RowInv(i)
    BY Zenon DEF IInv
  <2>3. ASSUME NEW V, mem'[i] \in V
        PROVE  Everywhere(i, V)'
    BY <2>1, <2>3 DEF Everywhere
  <2>4. \A t \in Tasks : ~Preparing(t, i)' /\ task'[t].at # "writing"
    BY <2>1 DEF Preparing
  <2>5. TaskInv(i)'
    BY <2>4, Zenon DEF TaskInv
  <2>6. KnownInv(i)'
    <3> SUFFICES ASSUME i \in Outbounds \ stale, ldk'[i] # "unknown" \/ EventsLeft(i)' # {}
                 PROVE  Everywhere(i, HTLCStatus)'
      BY <1>1, <2>4, Zenon DEF KnownInv
    <3>1. Everywhere(i, HTLCStatus)
      BY <2>1, <2>2, Zenon DEF RowInv, KnownInv
    <3>2. mem'[i] \in HTLCStatus
      BY <2>1, <3>1 DEF Everywhere, HTLCStatus
    <3> QED
      BY <2>3, <3>2, Zenon
  <2>7. OutcomeInv(i)'
    <3>1. i \in Inbounds => ldk[i] \in {"unknown", "fulfilled"}
      BY <2>2, Zenon DEF RowInv, OutcomeInv
    <3>2. i \in Inbounds => ldk'[i] = ldk[i]
      BY <2>1, <3>1
    <3>3. Unresolved(i)' => Unresolved(i)
      BY <2>1, <3>2 DEF Unresolved
    <3>4. ldk[i] = "unknown" => ldk'[i] = "unknown"
      BY <2>1
    <3> QED
      BY <1>1, <2>1, <2>2, <3>1, <3>2, <3>3, <3>4, Zenon DEF RowInv, OutcomeInv
  <2>8. SettledInv(i)'
    <3> SUFFICES ASSUME i \notin stale, sends[i] = 1, outcome[i] # None, EventsOf(i)' = {}
                 PROVE  Everywhere(i, {outcome[i]})'
      BY <1>1, Zenon DEF SettledInv
    <3>1. disk[i] = outcome[i]
      BY <2>1, <2>2, Zenon DEF RowInv, SettledInv, Everywhere
    <3>2. outcome[i] # "Pending"
      BY <2>2 DEF RowInv, OutcomeInv
    <3>3. PICK v : v = outcome[i]
      BY SMTT(30)
    <3>4. mem'[i] \in {v}
      BY <2>1, <3>1, <3>2, <3>3
    <3>5. Everywhere(i, {v})'
      BY <2>3, <3>4, Zenon
    <3> QED
      BY <1>1, <3>3, <3>5
  <2> QED
    BY <2>5, <2>6, <2>7, <2>8, Zenon DEF RowInv
<1> QED
  BY <1>1, <1>2, Zenon DEF IInv

-----------------------------------------------------------------------------

LEMMA InitInv ==
  ASSUME Init
  PROVE  IInv
<1>1. /\ mem = [i \in Ids |-> None] /\ disk = [i \in Ids |-> None] /\ writes = [f \in Files |-> <<>>]
      /\ task = [t \in Tasks |-> Idle] /\ handler = None /\ ldk = [i \in Ids |-> "unknown"]
      /\ events = <<>> /\ unsaved = <<>> /\ outcome = [i \in Ids |-> None]
      /\ sends = [i \in Ids |-> 0] /\ stale = {} /\ dropped = {} /\ crashes = 0
  BY Zenon DEF Init
<1>2. /\ \A f \in Files : writes[f] = <<>>
      /\ \A t \in Tasks : task[t] = Idle /\ task[t].at = "idle"
  BY <1>1 DEF Idle
<1>3. RowsOK /\ LdkOK /\ CountsOK
  BY <1>1 DEF RowsOK, LdkOK, CountsOK, Row
<1>4. WritesOK
  <2>1. DOMAIN writes = Files
    BY <1>1
  <2>2. ASSUME NEW f \in Files
        PROVE  <<>> \in Seq(WriteRec(f)) /\ DOMAIN <<>> = {}
    OBVIOUS
  <2> QED
    BY <1>2, <2>1, <2>2, Zenon DEF WritesOK
<1>5. TasksOK
  <2>1. Idle \in TaskRec
    BY DEF Idle, TaskRec
  <2>2. task \in [Tasks -> TaskRec]
    BY <1>1, <2>1
  <2>3. "idle" # "encoded"
    OBVIOUS
  <2> QED
    BY <1>2, <2>2, <2>3, Zenon DEF TasksOK
<1>6. TypeOK
  BY <1>3, <1>4, <1>5, TypeParts, Zenon
<1>7. WriteInv
  <2>1. \A w, f : f \in Files => Written(w, f)
    BY <1>2 DEF Written
  <2> QED
    BY <2>1, Zenon DEF WriteInv
<1>8. ASSUME NEW i \in Ids
      PROVE  RowInv(i)
  <2>1. /\ ldk[i] = "unknown" /\ outcome[i] = None /\ sends[i] = 0 /\ sends[i] # 1
    BY <1>1
  <2>2. EventsLeft(i) = {}
    BY <1>1, SMTT(30) DEF EventsLeft, Range
  <2>3. \A t \in Tasks : ~Preparing(t, i) /\ task[t].at # "writing"
    BY <1>2 DEF Preparing
  <2>4. TaskInv(i) /\ KnownInv(i)
    BY <2>1, <2>2, <2>3, Zenon DEF TaskInv, KnownInv
  <2>5. OutcomeInv(i) /\ SettledInv(i)
    BY <2>1, <2>2, Zenon DEF OutcomeInv, SettledInv
  <2> QED
    BY <2>4, <2>5, Zenon DEF RowInv
<1> QED
  BY <1>6, <1>7, <1>8, Zenon DEF IInv

LEMMA StutterInv ==
  ASSUME IInv, UNCHANGED vars
  PROVE  IInv'
<1>1. UNCHANGED <<mem, disk, writes, task, handler, ldk, events, unsaved, outcome, sends, stale, dropped, crashes>>
  BY Zenon DEF vars
<1>2. LdkOK'
  BY <1>1, TypeParts, Zenon DEF IInv, LdkOK
<1>3. /\ TypeOK' /\ WriteInv'
      /\ \A j \in Ids : NoAttempt(j) /\ RowStep(j) /\ (Handled(j)' <=> Handled(j))
  BY <1>1, <1>2, LdkFrame, Zenon
<1>4. ASSUME NEW i \in Ids
      PROVE  RowInv(i)'
  <2>1. NoEvent(i)
    BY <1>1, EventsFrame, Zenon
  <2>2. Calm(i)
    BY <1>1, <1>3, <2>1, Zenon DEF Calm, Untouched
  <2> QED
    BY <2>2, CalmRow, Zenon
<1> QED
  BY <1>3, <1>4, Zenon DEF IInv

\* The inductive invariant: no caller has two writes of a file outstanding, LDK
\* knows of a payment only once its row is in memory, on disk and in every write
\* that may still land, and the same of the outcome of a payment whose event was
\* handled.  Every command, LDK's events, the writes that land in any order and
\* a crash between any two of them keep it.
THEOREM Inductive == Spec => []IInv
<1>1. Init => IInv
  BY InitInv
<1>2. IInv /\ [Next]_vars => IInv'
  <2> SUFFICES ASSUME IInv, [Next]_vars
               PROVE  IInv'
    OBVIOUS
  <2>1. CASE \E t \in Tasks, i \in Ids :
               send_payment(t, i) \/ keysend(t, i) \/ pay_offer(t, i) \/ get_invoice(t, i)
    BY <2>1, AttemptStep, Zenon
  <2>2. CASE \E i \in Ids : create_invoice_for_swap(i)
    BY <2>2, SwapInvoiceStep, Zenon
  <2>3. CASE \E t \in Tasks : TaskStep(t) \/ drop_call(t)
    BY <2>3, EncodeStep, OfferWriteStep, SavedStep, DropStep, AcceptedStep, RefusedStep, Zenon
    DEF TaskStep
  <2>4. CASE \E f \in Files : land(f)
    BY <2>4, LandStep, Zenon
  <2>5. CASE \E i \in Ids : ldk_commit(i) \/ ldk_claim(i) \/ ldk_forget(i)
                              \/ \E r \in HTLCStatus : ldk_resolve(i, r)
    BY <2>5, CommitStep, ClaimStep, ForgetStep, ResolveStep, Zenon
  <2>6. CASE ldk_persist \/ handle_ldk_events \/ event_handled \/ Crash
    BY <2>6, PersistStep, HandleStep, HandledStep, CrashStep, Zenon
  <2>7. CASE UNCHANGED vars
    BY <2>7, StutterInv
  <2> QED
    BY <2>1, <2>2, <2>3, <2>4, <2>5, <2>6, <2>7, Zenon DEF Next
<1> QED
  BY <1>1, <1>2, PTL DEF Spec

\* Every variable stays in its domain, and whoever writes a file awaits that
\* write before its next one.
THEOREM TypeCorrect == Spec => []TypeOK
<1>1. IInv => TypeOK
  BY Zenon DEF IInv
<1> QED
  BY <1>1, Inductive, PTL

\* LDK never carries out a payment that has no row on disk, unless an offer's
\* write has set that row back: whatever lands and whenever the relay crashes,
\* the next start finds the payment and can reconcile it.
THEOREM PaymentsRecorded == Spec => []KnownRecorded
<1>1. IInv => KnownRecorded
  <2> SUFFICES ASSUME IInv, NEW i \in Outbounds \ stale, ldk[i] # "unknown"
               PROVE  disk[i] # None
    BY Zenon DEF KnownRecorded
  <2>1. i \in Ids /\ RowInv(i)
    BY Zenon DEF IInv, Ids
  <2>2. disk[i] \in HTLCStatus
    BY <2>1, Zenon DEF RowInv, KnownInv, Everywhere
  <2> QED
    BY <2>2, PaymentsAssumption DEF PaymentsAssumption
<1> QED
  BY <1>1, Inductive, PTL

\* Once the event that ends a payment's one attempt has been handled, the file
\* says how it ended, and goes on saying it: no crash, no start-up and no other
\* caller's write takes it back, unless an offer's write has.
THEOREM OutcomesOnDisk == Spec => []SettledOnDisk
<1>1. IInv => SettledOnDisk
  BY Zenon DEF IInv, RowInv, SettledInv, SettledOnDisk, Everywhere
<1> QED
  BY <1>1, Inductive, PTL
=============================================================================
