SPECIFICATION GuidedSpec
CONSTANTS
  Desks = {m1, m2}
  NoDesk = NoDesk
  KEY_BATCH = 2
  MaxTokens = 2
  m1 = m1
  m2 = m2
INVARIANT KeysReachTheirPane
CHECK_DEADLOCK FALSE
