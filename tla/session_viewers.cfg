SPECIFICATION FairSpec
CONSTANTS
  Channels = {c1}
  Viewers = {v1}
  Tasks = {t1, t2}
  None = None
  MaxLives = 1
  MaxTimers = 1
  MaxCrashes = 1
INVARIANT
  TypeOK
PROPERTY
  ViewersSentHome
