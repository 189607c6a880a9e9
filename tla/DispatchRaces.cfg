CONSTANTS
  d1 = d1
  d2 = d2
  None = None
  Intents = {1}
  Kind <- OneRelease
  Drains = {d1, d2}
  Limit = 2
  Lease = 1
  Horizon = 2
  Bound = {1}
  Refusable = {}
  Gated = {}
  Schedulable = {1}
  Releasable = {1}
  Stubborn = {}
  Switched = TRUE
  Pace = "any"
  FaultsCease = FALSE
SYMMETRY TwoDrains
SPECIFICATION Spec
INVARIANTS NothingForgotten
