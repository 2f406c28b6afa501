SPECIFICATION Spec
CONSTANTS
  Offramps = {o1, o2}
  Bolts = {b1, b2}
  Deposits = {d1}
  Calls = {c1, c2}
  Jobs = {j1}
  None = None
  Env = {}
  Expiry = 1
  MaxTime = 0
  SubmitAttempts = 1
  MaxCrashes = 0
  MaxRefunds = 1
  MaxActive = 2
INVARIANT CbtcTxUnique
