SPECIFICATION FairSpec
CONSTANTS
  Channels = {c1}
  Viewers = {}
  Tasks = {t1, t2}
  None = None
  MaxLives = 1
  MaxTimers = 1
  MaxCrashes = 0
PROPERTY
  EndsWithoutStreamer
