----------------------------- MODULE GhlReceipts -----------------------------
(***************************************************************************)
(* What a recorded GHL delivery run says about its operations: the receipt *)
(* of each step, whether the run may be retried or resumed, and the status *)
(* a run earns.  A step is                                                 *)
(*   op        the operation                                               *)
(*   receipt   its stored receipt, "none" for the steps that store none    *)
(*   status    the step's status                                           *)
(*   answer    GHL's answer, "none" when no call was made, "claimed" when  *)
(*             none was made but the stored response says that one was     *)
(*   withheld  was the automation-entry tag left out of a tag write?       *)
(***************************************************************************)
EXTENDS FiniteSets

CONSTANTS
  StampRequired,     \* customFieldStampRequired of the destination
  WorkflowRequired,  \* workflowStartRequired of the destination
  Opportunity,       \* does the destination expect an opportunity?
  Note               \* intakeSummaryNotesEnabled

ASSUME SettingsAssumption ==
  StampRequired \in BOOLEAN /\ WorkflowRequired \in BOOLEAN
  /\ Opportunity \in BOOLEAN /\ Note \in BOOLEAN

Answers == {"ok", "refused", "lost"}
Outcomes == {"completed", "ambiguous", "rejected", "failed_before_send", "skipped"}
Operations == {"contact", "custom_fields", "note", "tags", "opportunity", "workflow"}
StepStatuses == {"succeeded", "partial_success", "failed", "skipped", "optional_failed"}
Steps == [op : Operations, receipt : Outcomes \cup {"none"}, status : StepStatuses,
          answer : Answers \cup {"none", "claimed"}, withheld : BOOLEAN]
Receipts == [op : Operations, outcome : Outcomes, withheld : BOOLEAN]

(* classifyRemoteOutcome for a call that was made: a lost answer is a       *)
(* timeout, a 5xx or a success without the id it must carry.                *)
Classify(answer) ==
  CASE answer = "ok" -> "completed"
    [] answer = "refused" -> "rejected"
    [] answer = "lost" -> "ambiguous"

(* What the step's outcome says in memory, and what its stored response     *)
(* says later: externalCallExecuted.                                        *)
Called(s) == s.answer \in Answers
External(s) == s.answer # "none"

(* Operations whose persisted step says which one it is.                    *)
Known == Operations \ {"opportunity"}

(* receiptFromPersistedStep.  The dispatch reads steps without their type   *)
(* and status (full = FALSE); then a step without receipt counts only when  *)
(* it was sent.                                                             *)
ReceiptOf(s, full) ==
  IF s.receipt # "none" THEN s.receipt
  ELSE IF full /\ s.op \in Known /\ s.status = "skipped" THEN "skipped"
  ELSE IF full /\ s.op \in Known /\ s.status \in {"succeeded", "partial_success"} THEN "completed"
  ELSE IF External(s) THEN IF s.answer = "refused" THEN "rejected" ELSE "ambiguous"
  ELSE IF full /\ s.op \in Known THEN "failed_before_send"
  ELSE "none"

OutcomesOf(steps, full) == {ReceiptOf(s, full) : s \in steps} \ {"none"}

(* Variant: an ambiguous outcome does not hold the run.                     *)
BugDisposition(run, full) ==
  IF run.status = "none" THEN "create"
  ELSE IF run.status # "failed" \/ run.steps = {} THEN "hold"
  ELSE IF "rejected" \in OutcomesOf(run.steps, full) THEN "hold"
  ELSE "resume"

(* deliveryRetryDisposition.                                                *)
Disposition(run, full) ==
  LET outcomes == OutcomesOf(run.steps, full) IN
  IF run.status = "none" THEN "create"
  ELSE IF run.status # "failed" \/ run.steps = {} THEN "hold"
  ELSE IF outcomes = {} THEN "retry"
  ELSE IF outcomes \cap {"ambiguous", "rejected"} # {} THEN "hold"
  ELSE IF "completed" \in outcomes THEN "resume"
  ELSE IF "failed_before_send" \in outcomes THEN "retry"
  ELSE "hold"

(* runHadExternalCall.                                                      *)
HadExternalCall(run) == \E s \in run.steps : External(s)

(* The receipts a reused run starts from.                                   *)
PriorReceipts(run) ==
  {[op |-> s.op, outcome |-> ReceiptOf(s, TRUE), withheld |-> s.withheld] :
     s \in {x \in run.steps : ReceiptOf(x, TRUE) # "none"}}

(* retryDecision on the prior receipt of an operation.                      *)
Has(prior, op, outcomes) == \E r \in prior : r.op = op /\ r.outcome \in outcomes
Completed(prior, op) == Has(prior, op, {"completed"})
Held(prior, op) == Has(prior, op, {"ambiguous", "rejected"})

StatusIs(steps, op, statuses) == \E s \in steps : s.op = op /\ s.status \in statuses

(* Variant: required custom fields that failed do not fail the run.         *)
BugRunStatus(steps) ==
  IF \/ ~StatusIs(steps, "contact", {"succeeded"})
     \/ ~StatusIs(steps, "tags", {"succeeded"})
     \/ Opportunity /\ ~StatusIs(steps, "opportunity", {"succeeded"})
  THEN "failed" ELSE "partial_success"

(* deriveLiveCanaryRunStatus.                                               *)
RunStatus(steps) ==
  IF \/ ~StatusIs(steps, "contact", {"succeeded"})
     \/ ~StatusIs(steps, "tags", {"succeeded"})
     \/ Opportunity /\ ~StatusIs(steps, "opportunity", {"succeeded"})
     \/ StampRequired /\ StatusIs(steps, "custom_fields", {"failed"})
     \/ WorkflowRequired /\ StatusIs(steps, "workflow", {"failed"})
  THEN "failed"
  ELSE IF \E op \in {"custom_fields", "note", "workflow"} :
            StatusIs(steps, op, {"optional_failed", "partial_success", "skipped", "failed"})
  THEN "partial_success"
  ELSE "succeeded"
=============================================================================
