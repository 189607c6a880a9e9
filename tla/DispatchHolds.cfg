CONSTANTS
  d1 = d1
  d2 = d2
  None = None
  Intents = {1}
  Kind <- OneLead
  Drains = {d1, d2}
  Limit = 2
  Lease = 1
  Horizon = 2
  Bound = {}
  Refusable = {}
  Gated = {1}
  Schedulable = {}
  Releasable = {}
  Stubborn = {}
  Switched = FALSE
  Pace = "any"
  FaultsCease = FALSE
SYMMETRY TwoDrains
SPECIFICATION Spec
INVARIANTS NothingForgotten
