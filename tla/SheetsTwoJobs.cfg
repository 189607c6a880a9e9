CONSTANTS
  j1 = j1
  j2 = j2
  w1 = w1
  w2 = w2
  o1 = o1
  o2 = o2
  None = None
  Jobs <- TwoJobs
  Kind <- TwoKinds
  Rows = {1, 2}
  JobOf <- OneRowEach
  Workers = {w1, w2}
  Operators = {}
  BatchSize = 1
  MaxBatches = 1
  Lease = 0
  Horizon = 1
  ClaimLag = 0
  ClockLag = 2
  MaxEdits = 0
  FaultsCease = FALSE
SYMMETRY TwoWorkers
SPECIFICATION Spec
INVARIANTS TypeOK AtMostOnce NoForgottenAppend HeaderOnce
PROPERTIES OneAppendAtATime
