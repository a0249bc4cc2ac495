SPECIFICATION Spec
CONSTANTS
  Channels = {c1, c2}
  Viewers = {}
  Tasks = {t1, t2}
  None = None
  MaxLives = 1
  MaxTimers = 2
  MaxCrashes = 0
INVARIANT
  EveryMinute
