CONSTANTS
  d1 = d1
  d2 = d2
  None = None
  Intents = {1, 2}
  Kind <- AgedFirst
  Drains = {d1}
  Limit = 2
  Lease = 1
  Horizon = 2
  Bound = {1, 2}
  Refusable = {1}
  Gated = {}
  Schedulable = {}
  Releasable = {}
  Stubborn = {}
  Switched = FALSE
  Pace = "prompt"
  FaultsCease = TRUE
SPECIFICATION FairSpec
PROPERTIES IntentsSettle
