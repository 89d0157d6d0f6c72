CONSTANTS
  a = a
  b = b
  c = c
  User = {a, b, c}
  Nobody = Nobody
  Plan <- Contend
  MaxClicks = 2
  MaxHangUps = 1
SPECIFICATION PatientSpec
INVARIANTS
  RingSilencedByConnect
  SetupNeverFatal
  ConnectedIsEquipped
  LeftIsTold
PROPERTIES
  InviteAnswered
  AcceptConnects
CHECK_DEADLOCK FALSE
