SPECIFICATION Spec
CONSTANTS
  Mails = {m1, m2}
  KakaoIds = {k1}
  Nicks = {n1, n2}
  Browsers = {b1, b2}
  None = None
  MaxUsers = 2
  MaxEdits = 2
  MaxFaults = 1
SYMMETRY AccountSymmetry
INVARIANTS
  TypeOK
  ToldMeansChannel
  StrandedByFault
  OneUserPerAccount
  SameFormOnce
  OnlyTyped
