SPECIFICATION Spec
CONSTANTS
  Channels = {c1}
  Tasks = {t1, t2}
  None = None
  FlushAt = 4
  MinBatch = 2
  MaxSent = 4
  MaxEmpty = 1
  MaxTimers = 1
  MaxFaults = 1
SYMMETRY TaskSymmetry
INVARIANTS
  SavedInOrder
  CopiesBounded
PROPERTIES
  SavedBeforeRemoved
  ImplementsTranscript
