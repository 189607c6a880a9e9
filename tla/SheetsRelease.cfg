CONSTANTS
  j1 = j1
  j2 = j2
  w1 = w1
  w2 = w2
  o1 = o1
  o2 = o2
  None = None
  Jobs <- OneJob
  Kind <- ReleaseKind
  Rows = {1, 2}
  JobOf <- TwoRows
  Workers = {w1, w2}
  Operators = {o1}
  BatchSize = 1
  MaxBatches = 1
  Lease = 0
  Horizon = 1
  ClaimLag = 0
  ClockLag = 2
  MaxEdits = 1
  FaultsCease = FALSE
SPECIFICATION Spec
SYMMETRY TwoWorkers
INVARIANTS WrittenRowsLanded VerifiedDelivery
PROPERTIES ReleaseKeepsMarker ImplementsLedger
