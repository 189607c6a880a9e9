CONSTANTS
  w1 = w1
  w2 = w2
  o1 = o1
  Nobody = Nobody
  l1 = l1
  Leads = {l1}
  Workers = {w1, w2, o1}
  Operators = {o1}
  StampRequired = TRUE
  WorkflowRequired = TRUE
  Opportunity = TRUE
  Note = TRUE
  Grace = 1
  Lease = 1
  Horizon = 2
  Unset = {"field_map", "field_options", "opportunity"}
  Refusable = {l1}
  Unreliable = {"contact", "custom_fields", "note", "tags", "opportunity", "workflow"}
  Faults = 3
  Prompt = TRUE
  Solo = TRUE
CHECK_DEADLOCK FALSE
SYMMETRY TwoWorkers
SPECIFICATION Spec
INVARIANTS TypeOK NotSentAgain AutomationWaits
PROPERTIES DeliveredIsApplied
