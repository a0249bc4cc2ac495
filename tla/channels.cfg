SPECIFICATION Spec
CONSTANTS
  Names = {n1, n2}
  Slots = {t1, t2, t3}
  None = None
  MaxRequests = 3
  MaxFaults = 1
SYMMETRY ChannelSymmetry
INVARIANTS
  TypeOK
  KeyShown
  OnlyAsked
  ImageStored
PROPERTIES
  StartsWithKey
