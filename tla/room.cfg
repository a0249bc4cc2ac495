SPECIFICATION Spec
CONSTANTS
  Users = {1}
  Texts = {x}
  Viewers = {v1, v2}
  Tasks = {t1, t2}
  Nobody = Nobody
  Recent = 5
  Shown = 2
  MaxSent = 4
SYMMETRY RoomSymmetry
INVARIANTS
  TypeOK
  NoMissedMessage
  LiveInOrder
  AtMostTwice
  RepeatsBounded
