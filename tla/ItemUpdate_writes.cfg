SPECIFICATION Spec
CONSTANTS
  r1 = r1
  r2 = r2
  r3 = r3
  i1 = i1
  desc = desc
  price = price
  v0 = v0
  v1 = v1
  None = None
  Request = {r1, r2, r3}
  Item = {i1}
  Field = {desc, price}
  Value = {v0, v1}
  Template <- Blank
  Command <- Bodies
  Mix <- AnyThree
  EditLimit = 3
  Faults <- AllFaults
CHECK_DEADLOCK FALSE
INVARIANTS
  TypeOK
  OutcomeIsHonest
PROPERTIES
  ImplementsItemContract
