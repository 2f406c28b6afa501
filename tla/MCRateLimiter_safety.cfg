SPECIFICATION Spec
CONSTANTS
  IPs = {i1, i2}
  MaxPerWindow = 2
  Window = 2
  EvictAbove = 1
  MaxTime = 7
PROPERTIES
  ImplementsQuota
  BurstBounded
