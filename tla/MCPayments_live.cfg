SPECIFICATION FairSpec

CONSTANTS
  Bolts = {b1}
  Keysends = {}
  Offers = {o1}
  Inbounds = {}
  Tasks = {t1, t2}
  None = None
  MaxSends = 2
  MaxCrashes = 1

PROPERTIES
  PendingEnds
  AttemptRecorded

CHECK_DEADLOCK FALSE
