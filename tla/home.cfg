SPECIFICATION Spec
CONSTANTS
  Channels = {c1, c2}
  None = None
  MaxViewers = 2
  MaxMoves = 3
SYMMETRY HomeSymmetry
INVARIANTS
  TypeOK
  RefusedOnly
  CountWithinRoom
  EveryRoomCounted
