CONSTANTS
  Devices = {d1}
  RelayRoutes = {r1, r2}
  DirectRoutes = {p1}
  MaxDevices = 1
  SavesMayFail = FALSE
  LedgerMayFail = TRUE
SPECIFICATION Spec
INVARIANT
  RevokedHasNoSession
