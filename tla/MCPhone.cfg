CHECK_DEADLOCK FALSE
SPECIFICATION Spec
CONSTANTS
  RelayRoutes = {r1, r2}
  DirectRoutes = {d1, d2}
  MaxFrames = 1
  Worlds = {{"mode", "direct", "overlap"}, {"network", "drop", "close", "direct"}, {"hide", "drop", "close"}}
SYMMETRY RouteNames
INVARIANTS
  TypeOK
  NoCallIsCutOff
  OutcomesAreHonest
  ClosedIsClosed
PROPERTY
  NeverSelfKicked
