SPECIFICATION FairSpec
CONSTANTS
  Outputs = {o1, o2, o3}
  MaxStarts = 3
INVARIANTS
  PanicsLate
PROPERTIES
  NothingLost
  AllTracked
CHECK_DEADLOCK FALSE
