SPECIFICATION FairSpec
CONSTANTS
  l1 = l1
  k1 = k1
  k2 = k2
  NoKey = NoKey
  None = None
  Line = {l1}
  Key = {k1}
  Request = {r1, r2}
  Command <- MixedCommands
  ResponseEncodes = TRUE
  AwareClock = TRUE
  Faults <- AllFaults
  MaxErpEdits = 0
  PortRows = TRUE
  InitialRow <- ReceivedRows
  Day <- OneDay
CHECK_DEADLOCK FALSE
INVARIANTS
  AuditTrailIsSound
  ReplyWasEarned
PROPERTIES
  ImplementsContract
  EveryRequestEnds
