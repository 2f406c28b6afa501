SPECIFICATION Spec

CONSTANTS
  Bolts = {b1}
  Keysends = {k1}
  Offers = {o1}
  Inbounds = {i1}
  Tasks = {t1, t2}
  None = None
  MaxSends = 1
  MaxCrashes = 1

SYMMETRY Symmetry

INVARIANTS
  TypeOK
  KnownRecorded
  SettledOnDisk

CHECK_DEADLOCK FALSE
