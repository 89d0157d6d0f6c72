CONSTANTS
  a = a
  b = b
  c = c
  User = {a, b}
  Nobody = Nobody
  Plan <- Both
  MaxClicks = 1
  MaxHangUps = 2
SPECIFICATION Spec
CONSTRAINT PatientBoth
INVARIANTS
  RingSilencedByConnect
  SetupInv
  ConnectedIsEquipped
  ReplacedIsOver
  LeftIsTold
  IInv
  RingInv
CHECK_DEADLOCK FALSE
