SPECIFICATION Spec
CONSTANTS
  unit = unit
  script = script
  path = path
  blob = blob
  u1 = u1
  NoCaller = NoCaller
  Actors = {unit, script}
  Locations = {path}
  Contents = {blob}
  CallerIDs = {u1}
  CallerOf <- MCCallerOf
  Intent <- MCIntent
  MaxCalls = 2
  MaxOutside = 2
  MaxResumes = 2
INVARIANTS
  CurrentIsNewest
  IDsFresh
  ReceiptsResolve
  LedgerTruthful
  ContentSingleton
PROPERTIES
  LedgerAppendOnly
  ProducedKeepsItsKey
CHECK_DEADLOCK FALSE
