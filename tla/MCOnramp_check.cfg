SPECIFICATION FairSpec
CONSTANTS
  Swaps = {s1}
  Tasks = {t1, t2}
  NoSwap = NoSwap
  Env = {"query", "reply", "dup", "cli"}
  Expiry = 1
  MaxTime = 2
  SubmitAttempts = 2
  MaxCrashes = 2
  MaxActiveSwaps = 1
INVARIANTS
  SingleFulfiller
  MonitorExcludesFulfiller
  RecordedTxIsReal
  RowOutlivesInvoice
PROPERTIES
  ImplementsPromise
  ClaimedSettles
  PendingResolves
  InvoicesReclaimed
