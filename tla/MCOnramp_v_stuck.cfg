SPECIFICATION Spec
CONSTANTS
  Swaps = {s1}
  Tasks = {t1, t2}
  NoSwap = NoSwap
  Env = {}
  Expiry = 1
  MaxTime = 2
  SubmitAttempts = 1
  MaxCrashes = 1
  MaxActiveSwaps = 1
INVARIANT ClaimedPendingHasTask
SYMMETRY Symmetry
