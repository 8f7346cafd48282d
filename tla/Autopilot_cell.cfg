SPECIFICATION FairSpec
CONSTANTS
  ra = ra
  rb = rb
  rc = rc
  o1 = o1
  o2 = o2
  w1 = w1
  w2 = w2
  m1 = m1
  m2 = m2
  None = None
  FirstPlan = FirstPlan
  Request = {ra, rb, rc}
  Worker = {w1, w2}
  Op = {o1}
  PlainOp = {o1}
  Machine = {m1, m2}
  Order <- InOrder
  Allowed <- OneIsBound
  Limit = 0
  ReadersWait = TRUE
  Mix <- CellMixes
  Faults <- AllFaults
CHECK_DEADLOCK FALSE
INVARIANTS
  TypeOK
  LaterSuggestionsDiffer
  PlainRefusedJobStaysAway
  RetiredPlansStayDead
  OnlyRingsBlock
PROPERTIES
  ImplementsJobBoard
  OnlyOverlapRevives
  EndsUnlessStuck
