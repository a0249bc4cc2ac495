SPECIFICATION FairSpec
CONSTANTS
  Channels = {c1}
  Tasks = {t1, t2}
  None = None
  FlushAt = 2
  MinBatch = 1
  MaxSent = 3
  MaxEmpty = 1
  MaxTimers = 1
  MaxFaults = 0
PROPERTIES
  Drains
  EndingDrains
