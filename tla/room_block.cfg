SPECIFICATION Spec
CONSTANTS
  Users = {1, 2}
  Texts = {x}
  Viewers = {v1}
  Tasks = {t1, t2}
  Nobody = Nobody
  Recent = 5
  Shown = 2
  MaxSent = 2
INVARIANT
  BannedStayOut
