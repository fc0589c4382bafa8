CONSTANTS
  Keys = {k1, k2}
  Fingerprints = {f1, f2}
  Callers = {c1, c2}
  MaxRememberedOperations = 1
  OperationRetention = 1
  MaxTime = 3
SPECIFICATION FairSpec
INVARIANTS
  TypeOK
  AtMostOnce
  LedgerIsSound
PROPERTIES
  AnswersAreKept
  ReplaySafe
  EveryCallReturns
