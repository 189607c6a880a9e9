CONSTANTS
  p1 = p1
  p2 = p2
  o1 = o1
  o2 = o2
  a1 = a1
  a2 = a2
  a3 = a3
  i1 = i1
  i2 = i2
  i3 = i3
  i4 = i4
  s1 = s1
  s2 = s2
  None = None
  Callers = {p1}
  Orders = {o1}
  Quantity <- One
  Allowance <- Zero
  Allocations = {a1}
  OrderOf <- Alone
  SourceOf <- ItsSource
  Stocked = {a1}
  Instructions = {i1}
  For <- ItsInstruction
  Optional = {}
  Releasable = {}
  Managed = {}
  MaxAttempts <- Two
  Tracked = FALSE
CHECK_DEADLOCK FALSE
SPECIFICATION Spec
INVARIANT NotSentTwice
