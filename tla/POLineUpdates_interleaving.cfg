SPECIFICATION Spec
CONSTANTS
  l1 = l1
  k1 = k1
  k2 = k2
  NoKey = NoKey
  None = None
  Line = {l1}
  Key = {k1, k2}
  Request = {r1, r2}
  Command <- SharedKeyCommands
  ResponseEncodes = TRUE
  AwareClock = TRUE
  Faults <- PatchFaults
  MaxErpEdits = 1
  PortRows = TRUE
  InitialRow <- Rows
  Day <- Days
CHECK_DEADLOCK FALSE
SYMMETRY Symmetry
INVARIANTS
  TypeOK
PROPERTIES
  PatchIsLegal
