SPECIFICATION FairSpec
CONSTANTS
  Channels = {c1}
  Viewers = {}
  Tasks = {t1, t2}
  None = None
  MaxLives = 2
  MaxTimers = 1
  MaxCrashes = 1
PROPERTY
  EndReachesLive
  LeftBehindForAReason
