SPECIFICATION Spec
CONSTANTS
  RelayRoutes = {r1, r2}
  DirectRoutes = {d1}
  MaxFrames = 1
  Worlds = {{"mode", "direct"}}
INVARIANTS
  RelayModeUsesRelay
