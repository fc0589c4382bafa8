SPECIFICATION FairSpec
CONSTANTS
  RelayRoutes = {r1}
  DirectRoutes = {d1}
  MaxFrames = 1
  Worlds = {{"network", "hide", "direct"}}
PROPERTIES
  NeverGivesUp
  CallsReturn
