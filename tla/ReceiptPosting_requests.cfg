SPECIFICATION FairSpec
CONSTANTS
  n1 = n1
  n2 = n2
  s1 = s1
  s2 = s2
  k1 = k1
  NoKey = NoKey
  None = None
  Other = Other
  Line = {n1, n2}
  Ref = {s1, s2}
  Key = {k1}
  Request = {r1, r2}
  Ordered <- TwoEach
  Command <- Bodies
  PortRows = TRUE
  Faults <- AllFaults
CHECK_DEADLOCK FALSE
INVARIANTS
  TypeOK
  UndisturbedReceiptIsExact
  EveryReceiptHasItsTrail
PROPERTIES
  ImplementsContract
  EveryReceiptRequestEnds
