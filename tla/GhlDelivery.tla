----------------------------- MODULE GhlDelivery -----------------------------
(***************************************************************************)
(* GoHighLevel (GHL) delivery of confirmed leads.  Intake commits an outbox *)
(* row with the lead and the same process then claims the row and delivers. *)
(* Drains take over the rows whose process died, and an operator may test   *)
(* the same plan.  A delivery writes one recorded run per plan and sends    *)
(* its operations to GHL one by one; a failed run may be reused.            *)
(*                                                                          *)
(* One statement, or one GHL call with its answer, is one action.  A        *)
(* process may die before any of them.                                      *)
(***************************************************************************)
EXTENDS GhlReceipts, Integers

CONSTANTS
  Leads,        \* confirmed source lead events, one plan each
  Workers,      \* intake requests, drains and operators
  Operators,    \* the workers that only run the paused-location test
  Nobody,       \* not a lead
  Grace,        \* ASSOCIATION_DISPATCH_GRACE_MS in ticks
  Lease,        \* ASSOCIATION_DISPATCH_LEASE_MS in ticks
  Horizon,      \* ages are not told apart beyond this many ticks
  Unset,        \* bound: settings a destination may start without
  Refusable,    \* bound: leads that a delivery's checks may refuse
  Unreliable,   \* bound: operations whose answer may be lost or a refusal
  Faults,       \* bound: failures of the database, the token or the process
  Prompt,       \* does an attempt end or die before the clock moves?
  Solo          \* does an operator's test run alone?

Effects == (Operations \ {"tags"}) \cup {"routing_tags", "entry_tag"}
RowStatuses == {"absent", "pending", "executing", "settled", "uncertain"}
RunStatuses == {"none", "executing", "succeeded", "partial_success", "failed",
                "rolled_back_manual"}
Ages == 0 .. Horizon

ASSUME GhlAssumption ==
  /\ Operators \subseteq Workers /\ Nobody \notin Leads
  /\ Grace \in Nat /\ Lease \in Nat /\ Horizon \in Nat
  /\ Unset \subseteq {"field_map", "field_options", "opportunity"}
  /\ Refusable \subseteq Leads /\ Unreliable \subseteq Operations /\ Faults \in Nat
  /\ Prompt \in BOOLEAN /\ Solo \in BOOLEAN

VARIABLES
  row,      \* GhlAssociationDispatchOutbox, one row per lead
  run,      \* GhlLiveDeliveryRun and its step runs, one per plan
  sent,     \* how often GHL was sent each effect (counted to 2)
  applied,  \* the effects GHL confirmed
  unset,    \* settings the destination still lacks
  worker,   \* locals of the workers
  faults    \* failures so far

vars == <<row, run, sent, applied, unset, worker, faults>>

NoRow == [status |-> "absent", age |-> 0, failed |-> FALSE, ext |-> FALSE]
NoRun == [status |-> "none", steps |-> {}]
NoEnd == [status |-> "executing", failed |-> FALSE, ext |-> FALSE]
Idle == [pc |-> "idle", drain |-> FALSE, lead |-> Nobody, listed |-> [l \in {} |-> "pending"],
         age |-> 0, prior |-> {}, made |-> {}, end |-> NoEnd]

At(w, pc) == worker[w].pc = pc
Lead(w) == worker[w].lead
Go(w, pc) == worker' = [worker EXCEPT ![w].pc = pc]

-----------------------------------------------------------------------------
(* How a delivery ends for its outbox row.                                  *)

(* outboxTerminalFromDelivery; "executing" leaves the row as it is.         *)
End(reason, status, ext) ==
  [status |-> IF reason = "delivery_failed" \/ (status = "failed" /\ ext) THEN "uncertain"
              ELSE IF status = "failed" THEN "executing"
              ELSE "settled",
   failed |-> status = "failed", ext |-> ext]

(* Variant: a failed delivery puts its own status into the row.             *)
BugEnded(end) ==
  [status |-> IF end.failed THEN "failed" ELSE end.status, age |-> 0,
   failed |-> end.failed, ext |-> end.ext]

(* What a row is updated to.                                                *)
Ended(end) == [status |-> end.status, age |-> 0, failed |-> end.failed, ext |-> end.ext]

(* The worker turns to its next listed row, or is done.                     *)
Done(w) ==
  worker' = [worker EXCEPT ![w] =
    IF worker[w].listed = Idle.listed THEN Idle
    ELSE [Idle EXCEPT !.pc = "drain", !.drain = TRUE, !.listed = worker[w].listed,
                      !.age = worker[w].age]]

(* A delivery is over: an operator is answered, the others settle the row.  *)
Return(w, end) ==
  IF w \in Operators THEN worker' = [worker EXCEPT ![w] = Idle]
  ELSE worker' = [worker EXCEPT ![w].pc = "settle", ![w].end = end,
                                ![w].prior = {}, ![w].made = {}]

-----------------------------------------------------------------------------
(* Intake and the claims.                                                   *)

(* Who may start while whom is at work (a bound, see Solo).                 *)
MayStart(w) ==
  Solo => \A v \in Workers \ {w} :
            At(v, "idle") \/ (w \notin Operators /\ v \notin Operators)

(* The row is upserted in the transaction that confirms the lead.           *)
Intake(w, l) ==
  /\ w \notin Operators /\ At(w, "idle") /\ MayStart(w)
  /\ row[l].status = "absent"
  /\ row' = [row EXCEPT ![l].status = "pending"]
  /\ worker' = [worker EXCEPT ![w].pc = "claim", ![w].lead = l]
  /\ UNCHANGED <<run, sent, applied, unset, faults>>

(* Variant: the request delivers without claiming its row.                  *)
BugClaimRequest(w) ==
  /\ At(w, "claim")
  /\ Go(w, "load")
  /\ UNCHANGED <<row, run, sent, applied, unset, faults>>

(* claimPendingAssociationOutbox: a row that another process owns is left.  *)
ClaimRequest(w) ==
  /\ At(w, "claim")
  /\ IF row[Lead(w)].status = "pending"
     THEN /\ row' = [row EXCEPT ![Lead(w)].status = "executing", ![Lead(w)].age = 0]
          /\ Go(w, "load")
     ELSE Done(w) /\ UNCHANGED row
  /\ UNCHANGED <<run, sent, applied, unset, faults>>

(* Variant: a claim that its process left behind is never due.              *)
BugDue(l) == row[l].status = "pending" /\ row[l].age >= Grace

(* Pending past its grace, or executing past its lease.                     *)
Due(l) ==
  \/ row[l].status = "pending" /\ row[l].age >= Grace
  \/ row[l].status = "executing" /\ row[l].age > Lease

(* listDueOutbox.  The drain's clock is read once, here.                    *)
StartDrain(w) ==
  LET due == {l \in Leads : Due(l)} IN
  /\ w \notin Operators /\ At(w, "idle") /\ MayStart(w)
  /\ due # {}
  /\ worker' = [worker EXCEPT ![w].pc = "drain", ![w].drain = TRUE,
                              ![w].listed = [l \in due |-> row[l].status]]
  /\ UNCHANGED <<row, run, sent, applied, unset, faults>>

(* associationDispatchRecovery on the listed row and the run as it is now.  *)
DrainRead(w) ==
  /\ At(w, "drain")
  /\ \E l \in DOMAIN worker[w].listed :
       LET listed == worker[w].listed
           rest == [k \in DOMAIN listed \ {l} |-> listed[k]]
           disposition == Disposition(run[l], FALSE)
           end(status) == [status |-> status, failed |-> run[l].status = "failed",
                           ext |-> HadExternalCall(run[l])]
           turn(pc, e) == worker' = [worker EXCEPT ![w].pc = pc, ![w].lead = l, ![w].end = e,
                                                   ![w].listed = rest]
       IN  IF disposition = "hold"
           THEN turn("mark", end(IF run[l].status = "executing" THEN "uncertain" ELSE "settled"))
           ELSE IF listed[l] = "executing" /\ disposition = "create"
           THEN turn("mark", end("uncertain"))
           ELSE turn(IF listed[l] = "pending" THEN "take_pending" ELSE "take_expired", NoEnd)
  /\ UNCHANGED <<row, run, sent, applied, unset, faults>>

(* The row is written by id, whatever has become of it.                     *)
DrainMark(w) ==
  /\ At(w, "mark")
  /\ row' = [row EXCEPT ![Lead(w)] = Ended(worker[w].end)]
  /\ Done(w)
  /\ UNCHANGED <<run, sent, applied, unset, faults>>

(* Variant: a listed row is claimed whatever has become of it.              *)
BugDrainClaim(w) ==
  /\ At(w, "take_pending") \/ At(w, "take_expired")
  /\ row' = [row EXCEPT ![Lead(w)].status = "executing", ![Lead(w)].age = worker[w].age]
  /\ Go(w, "load")
  /\ UNCHANGED <<run, sent, applied, unset, faults>>

(* claimOutbox: the row is claimed as of the drain's clock.                 *)
DrainClaim(w) ==
  LET x == row[Lead(w)]
      free == \/ At(w, "take_pending") /\ x.status = "pending"
              \/ At(w, "take_expired") /\ x.status = "executing" /\ x.age - worker[w].age > Lease
  IN
  /\ At(w, "take_pending") \/ At(w, "take_expired")
  /\ IF free
     THEN /\ row' = [row EXCEPT ![Lead(w)].status = "executing", ![Lead(w)].age = worker[w].age]
          /\ Go(w, "load")
     ELSE Done(w) /\ UNCHANGED row
  /\ UNCHANGED <<run, sent, applied, unset, faults>>

(* executeSelectedGhlDeliveryTest on the plan of a confirmed lead.          *)
OperatorTest(w, l) ==
  /\ w \in Operators /\ At(w, "idle") /\ MayStart(w)
  /\ row[l].status # "absent"
  /\ worker' = [worker EXCEPT ![w].pc = "load", ![w].lead = l]
  /\ UNCHANGED <<row, run, sent, applied, unset, faults>>

-----------------------------------------------------------------------------
(* Delivery: the plan's checks and its run.                                 *)

(* deliverLoadedPlan, or a refusal of the checks before it.                 *)
Load(w) ==
  LET l == Lead(w)
      disposition == Disposition(run[l], FALSE)
  IN
  /\ At(w, "load")
  /\ \/ l \in Refusable /\ Return(w, End("refused", "none", FALSE))
     \/ disposition = "hold" /\ Return(w, End("held", run[l].status, FALSE))
     \/ disposition = "create" /\ Go(w, "create")
     \/ disposition \in {"retry", "resume"} /\ Go(w, "reuse")
  /\ UNCHANGED <<row, run, sent, applied, unset, faults>>

(* The run is created under a key that is unique per plan.                  *)
Create(w) ==
  /\ At(w, "create")
  /\ IF run[Lead(w)].status = "none"
     THEN /\ run' = [run EXCEPT ![Lead(w)].status = "executing"]
          /\ Go(w, "send")
     ELSE /\ Return(w, End("held", run[Lead(w)].status, FALSE))
          /\ UNCHANGED run
  /\ UNCHANGED <<row, sent, applied, unset, faults>>

(* A run to reuse is read again; its receipts are all that is kept of it.   *)
Reuse(w) ==
  LET r == run[Lead(w)] IN
  /\ At(w, "reuse")
  /\ IF Disposition(r, TRUE) = "hold"
     THEN Return(w, End("held", r.status, HadExternalCall(r)))
     ELSE worker' = [worker EXCEPT ![w].pc = "delete", ![w].prior = PriorReceipts(r)]
  /\ UNCHANGED <<row, run, sent, applied, unset, faults>>

DeleteSteps(w) ==
  /\ At(w, "delete")
  /\ run' = [run EXCEPT ![Lead(w)].steps = {}]
  /\ Go(w, "restart")
  /\ UNCHANGED <<row, sent, applied, unset, faults>>

Restart(w) ==
  /\ At(w, "restart")
  /\ run' = [run EXCEPT ![Lead(w)].status = "executing"]
  /\ Go(w, "send")
  /\ UNCHANGED <<row, sent, applied, unset, faults>>

-----------------------------------------------------------------------------
(* Delivery: the operations (executeLiveCanaryGhlSteps).                    *)

Order == <<"contact", "custom_fields", "note", "tags", "opportunity", "workflow">>
Planned == {i \in 1 .. 6 : (Order[i] = "note" => Note)}

Step(op, receipt, status, answer) ==
  [op |-> op, receipt |-> receipt, status |-> status, answer |-> answer, withheld |-> FALSE]

(* What is left to do: nothing after a contact that failed.                 *)
Left(w) ==
  LET made == worker[w].made IN
  IF StatusIs(made, "contact", {"failed"}) THEN {}
  ELSE {i \in Planned : \A s \in made : s.op # Order[i]}

Now(w) == Order[CHOOSE i \in Left(w) : \A k \in Left(w) : i <= k]

(* Variant: only the workflow waits for the required fields.                *)
BugBlocked(w) == FALSE

(* Required fields that were not written block the workflow and the tag     *)
(* that enters automation.                                                  *)
Blocked(w) == StampRequired /\ StatusIs(worker[w].made, "custom_fields", {"failed"})

PriorWithheld(w) == \E r \in worker[w].prior : r.op = "tags" /\ r.outcome = "completed" /\ r.withheld
TagsOnly(w) == PriorWithheld(w) /\ ~Blocked(w)

(* The status of an operation that did not succeed.                         *)
Failed(op) ==
  IF \/ op = "note"
     \/ op = "custom_fields" /\ ~StampRequired
     \/ op = "workflow" /\ ~WorkflowRequired
  THEN "optional_failed" ELSE "failed"

(* The step of an operation that is decided without a call; {}: it is sent. *)
(* Custom fields are skipped by a destination that maps none of them, and   *)
(* are not written where none of the mapped ones can be.                    *)
Local(w, op) ==
  LET prior == worker[w].prior
      opportunityFailed == StatusIs(worker[w].made, "opportunity", {"failed"})
  IN
  IF op = "custom_fields" /\ "field_map" \in unset
  THEN {Step(op, "none", "skipped", "claimed")}
  ELSE IF op = "custom_fields" /\ "field_options" \in unset
  THEN {Step(op, "none", IF StampRequired THEN "failed" ELSE "partial_success", "none")}
  ELSE IF op = "opportunity"
  THEN IF ~Opportunity THEN {Step(op, "none", "skipped", "none")}
       ELSE IF op \in unset THEN {Step(op, "none", "failed", "none")}
       ELSE {}
  ELSE IF op = "tags" /\ TagsOnly(w) THEN {}
  ELSE IF Completed(prior, op)
  THEN {[Step(op, "completed", "succeeded", "none")
          EXCEPT !.withheld = (op = "tags" /\ PriorWithheld(w))]}
  ELSE IF Held(prior, op)
  THEN {Step(op, r.outcome, IF op = "custom_fields" THEN "failed" ELSE Failed(op), "none") :
          r \in {x \in prior : x.op = op}}
  ELSE IF op = "workflow" /\ Blocked(w) THEN {Step(op, "failed_before_send", "skipped", "none")}
  ELSE IF op = "workflow" /\ opportunityFailed THEN {Step(op, "none", "skipped", "none")}
  ELSE {}

Skip(w) ==
  /\ At(w, "send") /\ Left(w) # {}
  /\ \E s \in Local(w, Now(w)) : worker' = [worker EXCEPT ![w].made = @ \cup {s}]
  /\ UNCHANGED <<row, run, sent, applied, unset, faults>>

(* What GHL is asked to do for an operation.                                *)
EffectsOf(w, op) ==
  IF op # "tags" THEN {op}
  ELSE IF TagsOnly(w) THEN {"entry_tag"}
  ELSE IF Blocked(w) THEN {"routing_tags"}
  ELSE {"routing_tags", "entry_tag"}

Send(w) ==
  LET l == Lead(w) op == Now(w) IN
  /\ At(w, "send") /\ Left(w) # {} /\ Local(w, op) = {}
  /\ \E answer \in IF op \in Unreliable THEN Answers ELSE {"ok"} :
     \E taken \in IF answer = "lost" THEN BOOLEAN ELSE {answer = "ok"} :
       /\ sent' = [sent EXCEPT ![l] = [e \in Effects |->
            IF e \in EffectsOf(w, op) /\ @[e] < 2 THEN @[e] + 1 ELSE @[e]]]
       /\ applied' = IF taken THEN [applied EXCEPT ![l] = @ \cup EffectsOf(w, op)] ELSE applied
       /\ worker' = [worker EXCEPT ![w].made = @ \cup
            {[op |-> op, receipt |-> IF op = "opportunity" THEN "none" ELSE Classify(answer),
              status |-> IF answer = "ok" THEN "succeeded" ELSE Failed(op), answer |-> answer,
              withheld |-> op = "tags" /\ Blocked(w)]}]
  /\ UNCHANGED <<row, run, unset, faults>>

(* The operations are over: one update records the run and its steps.       *)
Finish(w) ==
  LET made == worker[w].made IN
  /\ At(w, "send") /\ Left(w) = {}
  /\ run' = [run EXCEPT ![Lead(w)] = [status |-> RunStatus(made), steps |-> @.steps \cup made]]
  /\ Return(w, End("executed", RunStatus(made), \E s \in made : Called(s)))
  /\ UNCHANGED <<row, sent, applied, unset, faults>>

(* A drain settles its row by id, a request one that is not settled yet.    *)
Settle(w) ==
  LET open == row[Lead(w)].status \in {"pending", "executing"} IN
  /\ At(w, "settle")
  /\ row' = IF worker[w].end.status = "executing" \/ ~(open \/ worker[w].drain) THEN row
            ELSE [row EXCEPT ![Lead(w)] = Ended(worker[w].end)]
  /\ Done(w)
  /\ UNCHANGED <<run, sent, applied, unset, faults>>

-----------------------------------------------------------------------------
(* Failures, repairs and the clock.                                         *)

Fault == faults < Faults /\ faults' = faults + 1

(* A send throws: no token, writes no longer permitted, the lifecycle event *)
(* is not saved.  The run is recorded as failed without steps.              *)
Throw(w) ==
  /\ At(w, "send") /\ Fault
  /\ run' = [run EXCEPT ![Lead(w)].status = "failed"]
  /\ Return(w, End("held", "failed", FALSE))
  /\ UNCHANGED <<row, sent, applied, unset>>

(* The database fails a delivery, which is told as "delivery_failed".       *)
Fail(w) ==
  /\ worker[w].pc \in {"load", "create", "reuse", "delete", "restart", "send"} /\ Fault
  /\ Return(w, End("delivery_failed", "none", FALSE))
  /\ UNCHANGED <<row, run, sent, applied, unset>>

(* The process of a worker dies.                                            *)
Crash(w) ==
  /\ ~At(w, "idle") /\ Fault
  /\ worker' = [worker EXCEPT ![w] = Idle]
  /\ UNCHANGED <<row, run, sent, applied, unset>>

(* An operator completes a setting of the destination.                      *)
Complete(setting) ==
  /\ setting \in unset
  /\ unset' = unset \ {setting}
  /\ UNCHANGED <<row, run, sent, applied, worker, faults>>

(* markGhlLiveDeliveryRunRolledBack, on a run in any status.                *)
Rollback(l) ==
  /\ run[l].status # "none" /\ Fault
  /\ run' = [run EXCEPT ![l].status = "rolled_back_manual"]
  /\ UNCHANGED <<row, sent, applied, unset, worker>>

Older(a) == IF a < Horizon THEN a + 1 ELSE a

Tick ==
  /\ Prompt => \A w \in Workers : At(w, "idle")
  /\ row' = [l \in Leads |->
       IF row[l].status \in {"pending", "executing"} THEN [row[l] EXCEPT !.age = Older(@)]
       ELSE row[l]]
  /\ worker' = [w \in Workers |->
       IF worker[w].drain THEN [worker[w] EXCEPT !.age = Older(@)] ELSE worker[w]]
  /\ <<row, worker>>' # <<row, worker>>
  /\ UNCHANGED <<run, sent, applied, unset, faults>>

-----------------------------------------------------------------------------
Init ==
  /\ row = [l \in Leads |-> NoRow]
  /\ run = [l \in Leads |-> NoRun]
  /\ sent = [l \in Leads |-> [e \in Effects |-> 0]]
  /\ applied = [l \in Leads |-> {}]
  /\ unset = Unset
  /\ worker = [w \in Workers |-> Idle]
  /\ faults = 0

(* The steps a worker takes on its own once it has started.                 *)
Work(w) ==
  \/ ClaimRequest(w) \/ DrainRead(w) \/ DrainMark(w) \/ DrainClaim(w)
  \/ Load(w) \/ Create(w) \/ Reuse(w) \/ DeleteSteps(w) \/ Restart(w)
  \/ Skip(w) \/ Send(w) \/ Finish(w) \/ Settle(w)

Next ==
  \/ \E w \in Workers, l \in Leads : Intake(w, l) \/ OperatorTest(w, l)
  \/ \E w \in Workers : Work(w) \/ StartDrain(w) \/ Throw(w) \/ Fail(w) \/ Crash(w)
  \/ \E setting \in Unset : Complete(setting)
  \/ \E l \in Leads : Rollback(l)
  \/ Tick

Spec == Init /\ [][Next]_vars

(* Workers go on, drains are posted on a schedule, time passes, and a       *)
(* destination is completed at some time.                                   *)
FairSpec ==
  /\ Spec /\ WF_vars(Tick)
  /\ \A w \in Workers : WF_vars(Work(w)) /\ WF_vars(StartDrain(w))
  /\ \A setting \in Unset : WF_vars(Complete(setting))

-----------------------------------------------------------------------------
Ends == [status : {"executing", "settled", "uncertain"}, failed : BOOLEAN, ext : BOOLEAN]
Delivering == {"load", "create", "reuse", "delete", "restart", "send", "settle"}
Pcs == Delivering \cup {"idle", "claim", "drain", "mark", "take_pending", "take_expired"}

(* Rows, runs and the workers' locals have the shape the schema gives them. *)
TypeOK ==
  /\ row \in [Leads -> [status : RowStatuses, age : Ages, failed : BOOLEAN, ext : BOOLEAN]]
  /\ run \in [Leads -> [status : RunStatuses, steps : SUBSET Steps]]
  /\ sent \in [Leads -> [Effects -> 0 .. 2]]
  /\ applied \in [Leads -> SUBSET Effects]
  /\ unset \subseteq Unset /\ faults \in 0 .. Faults
  /\ \A w \in Workers :
       /\ worker[w].pc \in Pcs /\ worker[w].drain \in BOOLEAN
       /\ worker[w].lead \in Leads \cup {Nobody}
       /\ worker[w].listed \in UNION {[S -> {"pending", "executing"}] : S \in SUBSET Leads}
       /\ worker[w].age \in Ages /\ worker[w].end \in Ends
       /\ worker[w].prior \subseteq Receipts /\ worker[w].made \subseteq Steps

(* No effect is sent to GHL twice for a lead, whatever was lost, failed,    *)
(* crashed, retried or taken over in between.                               *)
NotSentAgain == \A l \in Leads, e \in Effects : sent[l][e] <= 1

(* A run is recorded as delivered only when its required operations were    *)
(* confirmed, by this attempt or an earlier one; the required fields are    *)
(* excused where the destination mapped none of them.                       *)
DeliveredIsApplied ==
  [][\A l \in Leads :
       run'[l].status \in {"succeeded", "partial_success"} /\ run'[l].status # run[l].status =>
         /\ {"contact", "routing_tags"} \subseteq applied[l]
         /\ Opportunity => "opportunity" \in applied[l]
         /\ StampRequired => \/ "custom_fields" \in applied[l]
                             \/ StatusIs(run'[l].steps, "custom_fields", {"skipped"})]_vars

(* The calls of an attempt that enter the client's automation.              *)
Enters(s) == Called(s) /\ (s.op = "workflow" \/ (s.op = "tags" /\ ~s.withheld))

(* The client's automation is not started, by tag or by enrolment, before   *)
(* the required fields are on the contact, unless this attempt found none   *)
(* of them mapped; and nobody is enrolled before the opportunity exists.    *)
AutomationWaits ==
  /\ \A w \in Workers : StampRequired /\ (\E s \in worker[w].made : Enters(s)) =>
       \/ "custom_fields" \in applied[Lead(w)]
       \/ StatusIs(worker[w].made, "custom_fields", {"skipped"})
  /\ \A l \in Leads :
       Opportunity /\ sent[l]["workflow"] > 0 => "opportunity" \in applied[l]

(* "Workflow enrollment waits until required custom field writes succeed",  *)
(* and so does the entering tag; false where no field is mapped.            *)
FieldsBeforeAutomation ==
  \A l \in Leads : StampRequired /\ sent[l]["entry_tag"] + sent[l]["workflow"] > 0
                      => "custom_fields" \in applied[l]

(* "A pending row has not started an external attempt": nobody but an       *)
(* operator delivers a lead whose row is still pending.                     *)
PendingIsUntouched ==
  \A w \in Workers \ Operators :
    worker[w].pc \in Delivering => row[Lead(w)].status # "pending"

(* A row that ended is not taken up again, although drains claim rows from  *)
(* a list they read earlier and settle rows by id.                          *)
EndedStaysEnded ==
  [][\A l \in Leads : row[l].status \in {"settled", "uncertain"}
                       => row'[l].status \in {"settled", "uncertain"}]_vars

(* A row settled as failed without an external call is of a lead nothing    *)
(* was sent for.                                                            *)
SettledFailureIsUnsent ==
  \A l \in Leads : row[l].status = "settled" /\ row[l].failed /\ ~row[l].ext
                     => \A e \in Effects : sent[l][e] = 0

(* Every recorded row is settled or marked uncertain in the end.            *)
RowsEnd ==
  \A l \in Leads : row[l].status \in {"pending", "executing"}
                     ~> row[l].status \in {"settled", "uncertain"}
=============================================================================
