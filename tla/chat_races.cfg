SPECIFICATION Spec
CONSTANTS
  Channels = {c1}
  Tasks = {t1, t2, t3}
  None = None
  FlushAt = 2
  MinBatch = 1
  MaxSent = 3
  MaxEmpty = 0
  MaxTimers = 1
  MaxFaults = 0
SYMMETRY TaskSymmetry
INVARIANTS
  TypeOK
  NoGaps
  NoStaleCopy
  CopiesBounded
PROPERTIES
  SavedBeforeRemoved
