SPECIFICATION FairSpec

CONSTANTS
  Offramps = {o1}
  Bolts = {b1}
  Deposits = {d1}
  Calls = {c1, c2}
  Jobs = {j1, j2}
  None = None
  Env = {"query", "reply", "dup", "cli"}
  Expiry = 1
  MaxTime = 0
  SubmitAttempts = 2
  MaxCrashes = 1
  MaxRefunds = 2
  MaxActive = 1

INVARIANTS
  PaidOnlyIfDeposited
  FulfilledOnlyIfPaid
  SingleCompleter
  SinglePayer
  RecordedDepositIsReal
  RefundExcludesPayment
  RefundedOnce
PROPERTIES
  
  DepositSettles
  FailedReclaimed
