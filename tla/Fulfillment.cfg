CONSTANTS
  p1 = p1
  p2 = p2
  o1 = o1
  o2 = o2
  a1 = a1
  a2 = a2
  a3 = a3
  i1 = i1
  i2 = i2
  i3 = i3
  i4 = i4
  s1 = s1
  s2 = s2
  None = None
  Callers = {p1, p2}
  Orders = {o1, o2}
  Quantity <- One
  Allowance <- Zero
  Allocations = {a1, a2, a3}
  OrderOf <- Rivals
  SourceOf <- Shared
  Stocked = {a1, a2}
  Instructions = {i1, i2, i3, i4}
  For <- Split
  Optional = {}
  Releasable = {a2, a3}
  Managed = {o1}
  MaxAttempts <- OneRetry
  Tracked = TRUE
CHECK_DEADLOCK FALSE
SYMMETRY TwoCallers
SPECIFICATION Spec
INVARIANTS TypeOK CountersInSync WithinCapacity CommittedIsDelivered NotSentTwice SoldOnce UnknownIsHeld
PROPERTY OutcomeStays
