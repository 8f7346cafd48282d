SPECIFICATION FairSpec
CONSTANTS
  c1 = c1
  c2 = c2
  c3 = c3
  k1 = k1
  None = None
  Key = {k1}
  KeyOf <- OneAddress
  Fetches = {c1, c3}
  Call = {c1, c2, c3}
  Geocode = {"located"}
  MaxConcurrency = 1
  TTL = 1
  PersistEnabled = TRUE
  MaxTime = 2
  MaxRestarts = 1
CHECK_DEADLOCK FALSE
INVARIANTS
  TypeOK
  InFlightIsAccurate
  AnswerWasCurrent
  OnlyJoinersBlock
PROPERTIES
  MemoryNeverGoesBack
  EveryCallReturns
