CONSTANTS
  Devices = {d1}
  RelayRoutes = {r1}
  DirectRoutes = {p1, p2}
  MaxDevices = 1
  SavesMayFail = TRUE
  LedgerMayFail = FALSE
  RelayDevices = {e1, e2}
  ManyRoutes = {s1, s2, s3}
SPECIFICATION WorldsSpec
SYMMETRY Names
INVARIANTS
  TypeOK
  SessionsCoherent
  RevokedHasNoSession
  RelayDevicesSettle
PROPERTIES
  UpgradeKeepsSessions
