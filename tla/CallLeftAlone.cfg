CONSTANTS
  a = a
  b = b
  c = c
  User = {a, b}
  Nobody = Nobody
  Plan <- OneCall
  MaxClicks = 1
  MaxHangUps = 2
SPECIFICATION Spec
INVARIANTS
  NobodyTalksAlone
CHECK_DEADLOCK FALSE
