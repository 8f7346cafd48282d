SPECIFICATION Spec
CONSTANTS
  r1 = r1
  r2 = r2
  r3 = r3
  n1 = n1
  n2 = n2
  k1 = k1
  NoKey = NoKey
  None = None
  Other = Other
  Request = {r1, r2, r3}
  Line = {n1, n2}
  Key = {k1}
  Received <- TwoAndOne
  Command <- Bodies
  Mix <- Mixes
  ResponseEncodes = TRUE
  Faults <- AllFaults
CHECK_DEADLOCK FALSE
INVARIANTS
  TypeOK
  AnswerIsGenuine
  ReturnFitsReceipt
PROPERTIES
  ImplementsContract
