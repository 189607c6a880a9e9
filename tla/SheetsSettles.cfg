CONSTANTS
  j1 = j1
  j2 = j2
  w1 = w1
  w2 = w2
  o1 = o1
  o2 = o2
  None = None
  Jobs <- TwoJobs
  Kind <- TwoReleases
  Rows = {1, 2, 3}
  JobOf <- TwoRowsAndOne
  Workers = {w1}
  Operators = {}
  BatchSize = 1
  MaxBatches = 2
  Lease = 0
  Horizon = 2
  ClaimLag = 0
  ClockLag = 1
  MaxEdits = 0
  FaultsCease = TRUE
SPECIFICATION FairSpec
PROPERTIES ClaimsEnd LeftLockIsTaken
