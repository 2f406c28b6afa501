----------------------------- MODULE Payments -----------------------------
(***************************************************************************)
(* The relay's own record of Lightning payments: two maps in memory, each  *)
(* saved as one file, updated by the commands and API tasks that send or   *)
(* request payments and by the LDK event handler, and reconciled with LDK  *)
(* at start-up.                                                            *)
(*                                                                         *)
(* FilesystemStore (external) numbers its writes when write() is called;   *)
(* they reach the disk in any order, and one that is older than the file   *)
(* is skipped.  Callers encode and call write() under the map's lock,      *)
(* except the two that pay offers, which encode first.                     *)
(***************************************************************************)
EXTENDS Naturals, Sequences, FiniteSets

CONSTANTS Bolts,      \* outbound, id = the payment hash of a BOLT11 invoice
          Keysends,   \* outbound, id = the hash of a preimage just drawn
          Offers,     \* outbound, id drawn at random: offers, and names for them
          Inbounds,   \* inbound, id = the payment hash of our invoice
          Tasks,      \* concurrent callers: the CLI loop, API requests
          None,
          MaxSends,   \* bound on the times one BOLT11 invoice is sent
          MaxCrashes  \* bound on crashes

Outbounds == Bolts \cup Keysends \cup Offers
Ids == Outbounds \cup Inbounds

HTLCStatus == {"Pending", "Succeeded", "Failed"}
Row == HTLCStatus \cup {None}
Event == [id : Ids, status : {"Succeeded", "Failed"}]

ASSUME PaymentsAssumption ==
  /\ None \notin HTLCStatus \cup Event
  /\ MaxSends \in Nat /\ MaxCrashes \in Nat
  /\ Outbounds \cap Inbounds = {}
  /\ Bolts \cap Keysends = {} /\ Offers \cap (Bolts \cup Keysends) = {}
  /\ "handler" \notin Tasks

VARIABLES mem, disk,        \* status of each payment's row, None if absent
          writes,           \* per file, the write calls not yet done, in call order
          task,             \* what each caller is in the middle of
          handler,          \* the event being handled, or None
          ldk,              \* what LDK's ChannelManager knows of a payment
          events, unsaved,  \* LDK events to deliver; delivered but not yet durable
          outcome, sends,   \* how the last attempt ended; attempts so far
          stale,            \* (history) rows an offer wrote as they were before
          dropped,          \* (history) rows of calls dropped since the last start
          crashes

vars == <<mem, disk, writes, task, handler, ldk, events, unsaved, outcome, sends, stale, dropped,
          crashes>>
ldkVars == <<ldk, events, unsaved, outcome>>

Files == {"inbound", "outbound"}
IdsOf(file) == IF file = "inbound" THEN Inbounds ELSE Outbounds
FileOf(i) == IF i \in Inbounds THEN "inbound" ELSE "outbound"

Idle == [at |-> "idle", id |-> None, snap |-> None]

Init ==
  /\ mem = [i \in Ids |-> None]
  /\ disk = [i \in Ids |-> None]
  /\ writes = [f \in Files |-> <<>>]
  /\ task = [t \in Tasks |-> Idle]
  /\ handler = None
  /\ ldk = [i \in Ids |-> "unknown"]
  /\ events = <<>>
  /\ unsaved = <<>>
  /\ outcome = [i \in Ids |-> None]
  /\ sends = [i \in Ids |-> 0]
  /\ stale = {}
  /\ dropped = {}
  /\ crashes = 0

-----------------------------------------------------------------------------
\* FilesystemStore

Encode(file, rows) == [i \in IdsOf(file) |-> rows[i]]

\* A call of write() by w.
Issue(w, file, snap) ==
  writes' = [writes EXCEPT ![file] = Append(@, [by |-> w, snap |-> snap])]

\* The caller's write is done: it reached the disk, or a later one did.
Written(w, file) == \A k \in DOMAIN writes[file] : writes[file][k].by # w

land(file) ==
  \E k \in DOMAIN writes[file] :
    /\ disk' = [i \in Ids |-> IF i \in IdsOf(file) THEN writes[file][k].snap[i] ELSE disk[i]]
    /\ writes' = [writes EXCEPT ![file] = SubSeq(@, k + 1, Len(@))]
    /\ UNCHANGED <<mem, task, handler, ldk, events, unsaved, outcome, sends, stale, dropped, crashes>>

-----------------------------------------------------------------------------
\* Sending

Insert(i) ==
  /\ mem' = [mem EXCEPT ![i] = "Pending"]
  /\ sends' = [sends EXCEPT ![i] = @ + 1]

\* A caller in the middle of a write of i's file.
InsertAndWrite(t, i, at) ==
  /\ task[t].at = "idle"
  /\ Insert(i)
  /\ Issue(t, FileOf(i), Encode(FileOf(i), mem'))
  /\ task' = [task EXCEPT ![t] = [at |-> at, id |-> i, snap |-> None]]
  /\ UNCHANGED <<disk, handler, ldkVars, stale, dropped, crashes>>

\* The row is inserted as Pending and the map written, before LDK hears of it.
\* An invoice can be sent again: by sendpayment, or by an offramp's deposit.
send_payment(t, i) ==
  /\ i \in Bolts /\ sends[i] < MaxSends
  /\ InsertAndWrite(t, i, "writing")

keysend(t, i) ==
  /\ i \in Keysends /\ sends[i] = 0
  /\ InsertAndWrite(t, i, "writing")

\* Offers, and names that resolve to one: the row is inserted under one lock ...
pay_offer(t, i) ==
  /\ i \in Offers /\ sends[i] = 0
  /\ task[t].at = "idle"
  /\ Insert(i)
  /\ task' = [task EXCEPT ![t] = [at |-> "inserted", id |-> i, snap |-> None]]
  /\ UNCHANGED <<disk, writes, handler, ldkVars, stale, dropped, crashes>>

\* ... the map is encoded under another ...
offer_encode(t) ==
  /\ task[t].at = "inserted"
  /\ task' = [task EXCEPT ![t].at = "encoded", ![t].snap = Encode("outbound", mem)]
  /\ UNCHANGED <<mem, disk, writes, handler, ldkVars, sends, stale, dropped, crashes>>

\* ... and write() is called with it under none.
offer_write(t) ==
  /\ task[t].at = "encoded"
  /\ Issue(t, "outbound", task[t].snap)
  /\ stale' = stale \cup {i \in Outbounds : task[t].snap[i] # mem[i]}
  /\ task' = [task EXCEPT ![t].at = "writing", ![t].snap = None]
  /\ UNCHANGED <<mem, disk, handler, ldkVars, sends, dropped, crashes>>

\* (mutant: pays without waiting for the write)
pay_accepted_unwritten(t, i) ==
  /\ task[t].at = "writing" /\ task[t].id = i
  /\ ldk[i] = "unknown"
  /\ ldk' = [ldk EXCEPT ![i] = "queued"]
  /\ outcome' = [outcome EXCEPT ![i] = None]
  /\ task' = [task EXCEPT ![t] = Idle]
  /\ UNCHANGED <<mem, disk, writes, handler, events, unsaved, sends, stale, dropped, crashes>>

\* LDK takes the payment; it refuses an id it still knows.
pay_accepted(t, i) ==
  /\ task[t].at = "writing" /\ task[t].id = i
  /\ Written(t, "outbound")
  /\ ldk[i] = "unknown"
  /\ ldk' = [ldk EXCEPT ![i] = "queued"]
  /\ outcome' = [outcome EXCEPT ![i] = None]
  /\ task' = [task EXCEPT ![t] = Idle]
  /\ UNCHANGED <<mem, disk, writes, handler, events, unsaved, sends, stale, dropped, crashes>>

\* LDK refuses it: the row becomes Failed, except for offers, which only report it.
pay_refused(t, i) ==
  /\ task[t].at = "writing" /\ task[t].id = i
  /\ Written(t, "outbound")
  /\ IF i \in Offers
       THEN task' = [task EXCEPT ![t] = Idle] /\ UNCHANGED <<mem, writes>>
       ELSE /\ mem' = [mem EXCEPT ![i] = "Failed"]
            /\ Issue(t, "outbound", Encode("outbound", mem'))
            /\ task' = [task EXCEPT ![t].at = "saving"]
  /\ UNCHANGED <<disk, handler, ldkVars, sends, stale, dropped, crashes>>

\* The last write of a call is awaited too.
saved(t) ==
  /\ task[t].at = "saving"
  /\ Written(t, FileOf(task[t].id))
  /\ task' = [task EXCEPT ![t] = Idle]
  /\ UNCHANGED <<mem, disk, writes, handler, ldkVars, sends, stale, dropped, crashes>>

\* The client of a deposit request goes away while send_payment awaits its first
\* write: the request's future is dropped, and only the write it started goes on.
drop_call(t) ==
  /\ task[t].at = "writing" /\ task[t].id \in Bolts
  /\ task' = [task EXCEPT ![t].at = "saving"]
  /\ dropped' = dropped \cup {task[t].id}
  /\ UNCHANGED <<mem, disk, writes, handler, ldkVars, sends, stale, crashes>>

\* getinvoice saves the inbound map ...
get_invoice(t, i) ==
  /\ i \in Inbounds /\ sends[i] = 0
  /\ InsertAndWrite(t, i, "saving")

\* ... and a swap's invoice stays in memory until another write takes it along.
create_invoice_for_swap(i) ==
  /\ i \in Inbounds /\ sends[i] = 0
  /\ Insert(i)
  /\ UNCHANGED <<disk, writes, task, handler, ldkVars, stale, dropped, crashes>>

-----------------------------------------------------------------------------
\* LDK (external)

\* The HTLC is committed: a restart can no longer forget the payment.
ldk_commit(i) ==
  /\ ldk[i] = "queued"
  /\ ldk' = [ldk EXCEPT ![i] = "inflight"]
  /\ UNCHANGED <<mem, disk, writes, task, handler, events, unsaved, outcome, sends, stale, dropped, crashes>>

\* A payment ends: sent ones stay known for a while, failed ones do not.
ldk_resolve(i, result) ==
  /\ \/ ldk[i] = "inflight" /\ result \in {"Succeeded", "Failed"}
     \/ ldk[i] = "queued" /\ result = "Failed"
  /\ ldk' = [ldk EXCEPT ![i] = IF result = "Succeeded" THEN "fulfilled" ELSE "unknown"]
  /\ events' = Append(events, [id |-> i, status |-> result])
  /\ outcome' = [outcome EXCEPT ![i] = result]
  /\ UNCHANGED <<mem, disk, writes, task, handler, unsaved, sends, stale, dropped, crashes>>

\* A payer pays one of our invoices, and it is claimed.
ldk_claim(i) ==
  /\ i \in Inbounds
  /\ sends[i] > 0 /\ ldk[i] = "unknown"
  /\ ldk' = [ldk EXCEPT ![i] = "fulfilled"]
  /\ events' = Append(events, [id |-> i, status |-> "Succeeded"])
  /\ outcome' = [outcome EXCEPT ![i] = "Succeeded"]
  /\ UNCHANGED <<mem, disk, writes, task, handler, unsaved, sends, stale, dropped, crashes>>

EventsOf(i) == {k \in DOMAIN events : events[k].id = i}
UnsavedOf(i) == {k \in DOMAIN unsaved : unsaved[k].id = i}

\* Some time after its event was handled a sent payment is forgotten.
ldk_forget(i) ==
  /\ i \in Outbounds
  /\ ldk[i] = "fulfilled" /\ EventsOf(i) = {} /\ UnsavedOf(i) = {}
  /\ ldk' = [ldk EXCEPT ![i] = "unknown"]
  /\ UNCHANGED <<mem, disk, writes, task, handler, events, unsaved, outcome, sends, stale, dropped, crashes>>

\* The ChannelManager is saved: handled events will not come again.
ldk_persist ==
  /\ unsaved # <<>>
  /\ unsaved' = <<>>
  /\ UNCHANGED <<mem, disk, writes, task, handler, ldk, events, outcome, sends, stale, dropped, crashes>>

-----------------------------------------------------------------------------
\* The event handler

\* PaymentClaimed makes the row if there is none; PaymentSent and PaymentFailed
\* only change one that is there.
PaymentClaimed(e) == [mem EXCEPT ![e.id] = "Succeeded"]
PaymentSent(e) == [mem EXCEPT ![e.id] = IF @ = None THEN None ELSE "Succeeded"]
PaymentFailed(e) == [mem EXCEPT ![e.id] = IF @ = None THEN None ELSE "Failed"]

RowsAfter(e) ==
  CASE e.id \in Inbounds -> PaymentClaimed(e)
    [] e.id \in Outbounds /\ e.status = "Succeeded" -> PaymentSent(e)
    [] e.id \in Outbounds /\ e.status = "Failed" -> PaymentFailed(e)

\* (mutant: the rows are keyed by payment hash, which an offer's id is not)
handle_by_hash ==
  /\ handler = None
  /\ events # <<>>
  /\ LET e == Head(events) IN
     /\ mem' = IF e.id \in Offers THEN mem ELSE RowsAfter(e)
     /\ Issue("handler", FileOf(e.id), Encode(FileOf(e.id), mem'))
     /\ handler' = e
  /\ UNCHANGED <<disk, task, ldkVars, sends, stale, dropped, crashes>>

handle_ldk_events ==
  /\ handler = None
  /\ events # <<>>
  /\ LET e == Head(events) IN
     /\ mem' = RowsAfter(e)
     /\ Issue("handler", FileOf(e.id), Encode(FileOf(e.id), mem'))
     /\ handler' = e
  /\ UNCHANGED <<disk, task, ldkVars, sends, stale, dropped, crashes>>

\* (mutant: the write is spawned, not awaited)
event_handled_unwritten ==
  /\ handler # None
  /\ events' = Tail(events)
  /\ unsaved' = Append(unsaved, handler)
  /\ handler' = None
  /\ UNCHANGED <<mem, disk, writes, task, ldk, outcome, sends, stale, dropped, crashes>>

\* The handler returns once its write is done, and LDK drops the event.
event_handled ==
  /\ handler # None
  /\ Written("handler", FileOf(handler.id))
  /\ events' = Tail(events)
  /\ unsaved' = Append(unsaved, handler)
  /\ handler' = None
  /\ UNCHANGED <<mem, disk, writes, task, ldk, outcome, sends, stale, dropped, crashes>>

-----------------------------------------------------------------------------
\* Crash and start-up

\* (mutant: no reconciliation)
Reconciled_as_read(rows, known) == rows

\* Pending rows LDK does not know of will never get an event: they have failed.
Reconciled(rows, known) ==
  [i \in Ids |-> IF i \in Outbounds /\ rows[i] = "Pending" /\ known[i] = "unknown"
                   THEN "Failed" ELSE rows[i]]

\* LDK may forget what it had not committed, and delivers again what it had not
\* saved; the maps are read, reconciled and written before anything else starts.
Crash ==
  /\ crashes < MaxCrashes
  /\ crashes' = crashes + 1
  /\ \E lost \in SUBSET {i \in Ids : ldk[i] = "queued"} :
       ldk' = [i \in Ids |-> IF i \in lost THEN "unknown" ELSE ldk[i]]
  /\ events' = unsaved \o events
  /\ unsaved' = <<>>
  /\ mem' = Reconciled(disk, ldk')
  /\ disk' = mem'
  /\ writes' = [f \in Files |-> <<>>]
  /\ task' = [t \in Tasks |-> Idle]
  /\ handler' = None
  /\ dropped' = {}
  /\ UNCHANGED <<outcome, sends, stale>>

TaskStep(t) ==
  \/ offer_encode(t) \/ offer_write(t) \/ saved(t)
  \/ \E i \in Ids : pay_accepted(t, i) \/ pay_refused(t, i)

Next ==
  \/ \E t \in Tasks, i \in Ids :
       send_payment(t, i) \/ keysend(t, i) \/ pay_offer(t, i) \/ get_invoice(t, i)
  \/ \E i \in Ids : create_invoice_for_swap(i)
  \/ \E t \in Tasks : TaskStep(t) \/ drop_call(t)
  \/ \E f \in Files : land(f)
  \/ \E i \in Ids : ldk_commit(i) \/ ldk_claim(i) \/ ldk_forget(i)
                      \/ \E r \in HTLCStatus : ldk_resolve(i, r)
  \/ ldk_persist \/ handle_ldk_events \/ event_handled \/ Crash

Spec == Init /\ [][Next]_vars

\* The runtime polls its tasks, requests that were not dropped, and blocking
\* writes; LDK settles every payment it accepted within its retry and HTLC timeouts.
Fairness ==
  /\ \A t \in Tasks : WF_vars(TaskStep(t))
  /\ \A f \in Files : WF_vars(land(f))
  /\ \A i \in Ids : WF_vars(\E r \in HTLCStatus : ldk_resolve(i, r))
  /\ WF_vars(handle_ldk_events \/ event_handled)

FairSpec == Spec /\ Fairness

-----------------------------------------------------------------------------

\* Every variable stays in its domain, and no caller has two writes of a file
\* outstanding: each awaits its write before its next one.
TypeOK ==
  /\ mem \in [Ids -> Row] /\ disk \in [Ids -> Row]
  /\ DOMAIN writes = Files
  /\ \A f \in Files :
       /\ writes[f] \in Seq([by : Tasks \cup {"handler"}, snap : [IdsOf(f) -> Row]])
       /\ \A k, n \in DOMAIN writes[f] : writes[f][k].by = writes[f][n].by => k = n
  /\ task \in [Tasks -> [at : {"idle", "inserted", "encoded", "writing", "saving"},
                         id : Ids \cup {None}, snap : [Outbounds -> Row] \cup {None}]]
  /\ \A t \in Tasks : /\ task[t].at # "idle" => task[t].id \in Ids
                      /\ task[t].at = "encoded" => task[t].snap \in [Outbounds -> Row]
  /\ ldk \in [Ids -> {"unknown", "queued", "inflight", "fulfilled"}]
  /\ events \in Seq(Event) /\ unsaved \in Seq(Event)
  /\ handler # None => events # <<>> /\ handler = Head(events)
  /\ outcome \in [Ids -> Row] /\ sends \in [Ids -> Nat]
  /\ stale \subseteq Outbounds /\ dropped \subseteq Ids /\ crashes \in Nat

\* A payment LDK may still carry out has a row on disk, so that no crash leaves
\* it without a record: whoever pays awaits the write of the Pending row first.
\* Left out are rows that an offer, whose rows are encoded before they are
\* written, has set back.
KnownRecorded == \A i \in Outbounds \ stale : ldk[i] # "unknown" => disk[i] # None

\* Once the event that ends a payment has been handled, the file says how it
\* ended, whatever crashed and whoever else wrote the file since.  Left out are
\* an invoice that is sent again, whose new attempt overwrites the row, and rows
\* that an offer has set back.
SettledOnDisk ==
  \A i \in Ids \ stale :
    sends[i] = 1 /\ outcome[i] # None /\ EventsOf(i) = {} => disk[i] = outcome[i]

\* The row of an invoice or a keysend does not say Pending for ever, even when it
\* is one that a second send wrote over the first: an event, a refused send or
\* the reconciliation ends it.  A call that is dropped leaves it Pending until the
\* next start.  Left out are a crash after an invoice was sent again (over a sent
\* payment it leaves Pending until LDK forgets it and the relay starts once more)
\* and one after an offer has set the row back.
PendingEnds ==
  \A i \in Bolts \cup Keysends :
    mem[i] = "Pending" ~>
      \/ mem[i] # "Pending"
      \/ i \in dropped
      \/ crashes > 0 /\ (sends[i] > 1 \/ i \in stale)

\* Unless the relay crashes, every attempt that LDK takes, an offer's included,
\* is recorded with the way it ended.
AttemptRecorded ==
  \A i \in Outbounds :
    ldk[i] \in {"queued", "inflight"} ~>
      (outcome[i] # None /\ mem[i] = outcome[i]) \/ crashes > 0
=============================================================================
