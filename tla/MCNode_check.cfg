SPECIFICATION FairSpec

CONSTANTS
  Peers = {p1, p2}
  Announced = {p1, p2}
  Steady = {p1}
  None = None
  Env = {"power", "read", "write", "panic"}
  MaxCrashes = 2

INVARIANTS
  SecretsKept
  MonitorsWatched
  CleanExitSaved

PROPERTIES
  Reconnected
