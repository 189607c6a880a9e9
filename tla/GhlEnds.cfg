CONSTANTS
  w1 = w1
  w2 = w2
  o1 = o1
  Nobody = Nobody
  l1 = l1
  Leads = {l1}
  Workers = {w1, w2, o1}
  Operators = {o1}
  StampRequired = FALSE
  WorkflowRequired = FALSE
  Opportunity = TRUE
  Note = FALSE
  Grace = 1
  Lease = 1
  Horizon = 2
  Unset = {"field_options"}
  Refusable = {l1}
  Unreliable = {"contact"}
  Faults = 1
  Prompt = FALSE
  Solo = FALSE
CHECK_DEADLOCK FALSE
SPECIFICATION FairSpec
PROPERTIES RowsEnd EndedStaysEnded
INVARIANTS PendingIsUntouched
