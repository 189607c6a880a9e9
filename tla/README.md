# SA360: a TLA+ verification of lead delivery

SA360 takes in leads, routes them to client accounts and delivers them: into a
client's CRM (GHL), by webhook, and as rows of a company-owned Google
spreadsheet. Everything that leaves the system leaves it through an API call
whose answer may be lost, made by API processes that may run twice, stall or
die, while operators lift holds by hand. The hard part of the program is that a
lead is delivered at most once, that what is recorded as delivered was
delivered, and that nothing waits for ever. This project models that part.

## Inventory

| Part | State it keeps | Operations | Properties that make it correct |
| --- | --- | --- | --- |
| **Sheets delivery** `apps/api/src/services/company-sheets-delivery/company-sheets-delivery.service.ts` | `CompanySheetsDeliveryJob` (status, claimToken, startedAt, appendStartedAt), `CompanySheetsDeliveryRow`, `CompanySheetsWorksheetLock`, `CompanySheetsOrderDeliveryEvidence`; the tab itself at Google | create a job, execute it, settle a stale run, release a hold, accept a reconciled custom row | a row reaches the tab at most once; an append that may still land is never forgotten; one append at a time on a worksheet; recorded = landed; claims, locks and holds end |
| **Sheets dispatch** `company-sheets-dispatch/company-sheets-dispatch.service.ts` | `CompanySheetsDispatchIntent` (status, availableAt, processingAt, jobId) | record an intent, drain due intents, park expired ones, schedule explicitly | one execution at a time; no due intent starves; an intent is completed only with its job |
| **Person gate** `company-sheets-dispatch/client-sheets-person-gate.ts` | admissions by phone and email, decisions, history coverage | evaluate a lead, note a delivery, release a dead reservation, recover a hold | one owner for a person's slots; no delivery without admission |
| **Event write guard** `company-sheets-delivery/sheets-event-write-guard.ts` | none (reads the jobs) | decide whether another job already wrote the lead | campaign delivery and captured test never both write |
| **GHL outbox** `ghl-association-dispatch/` | `GhlAssociationDispatchOutbox` (status, availableAt, executingAt, outcome) | record, claim by the request or a drain, deliver, settle, mark uncertain | every row ends, and stays ended; a pending row is delivered by nobody |
| **GHL delivery** `ghl-delivery-adapter/`, `association-ongoing-delivery.ts` | `GhlLiveDeliveryRun` and its step runs with receipts; the client's CRM | run, resume from receipts, hold, operator's test, roll back | no operation is sent again after it may have arrived; automation waits for the fields it needs; delivered = applied |
| **Notifications** `delivery-success-notification/` | `DeliverySuccessNotification`, `ClientDeliveryNotificationPreference`, configuration requests | walk, decide, record, claim, confirm, send, settle; configure | one mail per lead within the mail provider's idempotency window; only to the verified address while it is wanted; a lead that qualifies is notified |
| **Fulfillment execution** `fulfillment-execution/`, with the release in `ppl-fulfillment/` and the order's status in `lead-order/` | allocations, order quantities, inventory items, instructions, attempts | reserve, release, claim an attempt, simulate, execute, record an outcome; pause and resume the order | reserved + fulfilled never exceeds requested; counters match rows; a lead is sent once and sold once; an unknown outcome is held |
| **Company Google** `company-google/` | token, destination | refresh, bind | a late refresh does not undo a newer token |
| Selection and export of pay-per-lead orders, inventory, aged import, bulk import | order and batch status | status changes, batch checkpoints | legal status changes; a restart imports no row twice |
| Source intake, routing, onboarding, portal, voice, admin UI, worker, shared code | single records, data | parsing, matching, presentation | functional, well covered by unit tests |

How they interact: routing and *Approve & Release* record a dispatch intent in
their own transaction. The worker's repeating job posts the drain route; the
drain claims intents under an advisory lock, creates the delivery job and calls
`executeCompanySheetsDeliveryJob` in the API process. Admin routes call the same
function, and `releaseCompanySheetsDeliveryHold`, concurrently with it. All
coordination is through database rows; nothing is shared in memory. Google is
called outside any transaction.

A confirmed association of a lead commits a GHL outbox row with it; the request
then claims the row and delivers, and the worker's drains take over what it left.
The notification scanner reads the receipts of both channels and mails the
client. Lead orders are a path of their own: an operator reserves an allocation
and executes its instructions through the same GHL adapter.

The behaviours that are hard: several API processes between any two statements;
a process that dies between two statements; one that stalls past its lease and
goes on; an append whose answer is lost and that lands later or never; a person
who edits the tab; an operator whose request is slower than the execution it
unblocks. `PROJECT.json` lists them under `hazards`, each at its line.

## Modules

| Module | Models |
| --- | --- |
| `SheetsDelivery` | the delivery engine: executions, hold releases, Google, crashes, time |
| `AppendLedger` | what the engine promises: each row is inserted once, recorded after that, delivered when all are recorded |
| `MCSheetsDelivery` | instances of `SheetsDelivery` for TLC |
| `SheetsDispatch` | dispatch intents, overlapping drains, explicit schedules and hold recovery, over the jobs' life cycle |
| `MCSheetsDispatch` | instances of `SheetsDispatch` for TLC |
| `GhlReceipts` | what a recorded GHL run says about its operations: receipts, retry or resume or hold, the status it earns |
| `GhlDelivery` | the GHL outbox, its claims and drains, runs and their operations, operators, failures and time; uses `GhlReceipts` |
| `DeliveryNotification` | the notification scanner, configuration requests, the mail provider, receipts that come and go |
| `FulfillmentExecution` | reservations and attempts of lead orders, the write boundary, outcomes, releases, pauses |
| `MCGhlDelivery`, `MCDeliveryNotification`, `MCFulfillmentExecution` | their instances for TLC |
| `SheetsDelivery_proofs` | type correctness, and what is recorded as delivered has landed, for every instance |
| `SheetsAppend_proofs` | no row is appended twice or forgotten, and the ledger is implemented, with one operator at a time |
| `SheetsLock_proofs` | one append of the worksheet at a time and the header once, with executions that reach the lock inside their lease and releases that free it in time |
| `SheetsDispatch_proofs` | types and no forgotten outcome, for every instance; the reservation, with drains and executions inside their leases |
| `GhlDelivery_proofs` | rows, what is delivered and what automation waits for, for every instance; nothing is sent twice, with attempts in time and operators alone |
| `FulfillmentExecution_proofs` | types, counters and capacity of orders, for every instance |
| `FulfillmentSending_proofs` | outcomes are final and statuses agree with them, for every instance; no instruction is sent twice by tracked calls; no lead is sent for two allocations, and on which condition |
| `DeliveryNotification_proofs` | types, one mail, its address, final rows and told requests, for every instance |

### SheetsDelivery

All jobs are on one worksheet: the lock, the blocking query and the row
identity are keyed by worksheet, so jobs of different worksheets share nothing.

| Variable | In the code |
| --- | --- |
| `job[j]` | the job's `status`, `claimToken`, age of `startedAt`, `marker` = `appendStartedAt` is not null |
| `row[r]` | `CompanySheetsDeliveryRow.status`; rows are numbered by `ordinal` |
| `evidence[j]` | `CompanySheetsOrderDeliveryEvidence.status`, which only aged releases have |
| `lock` | `ownerJobId` and the age of `lockedAt` |
| `sheet`, `header`, `long` | copies of each stable row id and of the header on the tab; is column A longer than the reconcile cap |
| `orphans` | appends that Google still has although the caller is gone |
| `landed` | history: how often SA360's appends inserted each row |
| `worker[w]`, `operator[o]` | the locals of an execution and of a hold release, with a program counter |

One action is one statement, one transaction, or one call to Google. Between two
of them every other process runs. `Begin` .. `TakeLock` are
`executeCompanySheetsDeliveryJob` and `acquireWorksheetLock`; `Preflight` ..
`Advance` are `runJob`; `FinishJob`, `SyncEvidence` and
`ReleaseFinishedClaimLock` are `finishJob` and the `finally` block; `Throw` is
the `catch` block, which also catches what is thrown after the outcome was
stored; `ReleaseHold` .. `OpSync` are `releaseCompanySheetsDeliveryHold`.

`values.append` is `Send`, then `Land` or not, then one of three answers:
accepted (landed), refused with a status that `runJob` treats as definite (not
landed and never will), ambiguous (either, and it may land later: `LandOrphan`).

A claim token is represented by the worker that drew it. A timestamp is an age
in ticks, told apart up to `Horizon`; the lease is `Lease` ticks. An execution
reads the clock once and uses that reading for the claim, the settlement cutoff
and the lock's age; `ClaimLag` and `ClockLag` bound how long that reading is
used, so a run can say whether stalls in that stretch are included.

Abstracted: which token, metadata or control check fails in `Preflight`;
wording of errors; `rowsWritten` and `lastError`; the content of rows. The
person-gate check of a lead and the destination check of a test are choices over
their answers (`GateRefusals`). Custom sheets, which replace the append by
another writer, are not part of this module.

### AppendLedger

Its state is three sets: inserted, recorded, delivered. Claims, leases, locks
and holds do not occur. `ImplementsLedger` is the refinement: `copies` is
`landed`, `recorded` the written rows, `delivered` the succeeded jobs. `Doubt`
is there because the `catch` block of an execution can turn a succeeded job into
an uncertain one.

### SheetsDispatch

| Variable | In the code |
| --- | --- |
| `intent[i]` | `CompanySheetsDispatchIntent`: `status`, `linked` = `jobId` is set, age of `processingAt`, `wait` = `availableAt` is in the future. Intents are numbered by `createdAt` |
| `job[i]` | the intent's `CompanySheetsDeliveryJob` as a drain sees it: status, owner of the claim, age, marker, `written` = all rows are recorded |
| `newest` | kind of the job with the latest `createdAt`, which `selectFairIntent` reads |
| `ready`, `flag` | intents whose tab is bound; the execution flag |
| `drain[d]` | locals of a call of `processDueCompanySheetsDispatches`: `exec` the flag it read, `done` = `excludeIds`, `seen` the listed intents with their status, `age` since its start, `intent` and `res` of `handleClaimedIntent` |
| `request` | locals of `scheduleAgedReleaseExplicitly`, or of an operator's hold recovery |

`history_gap` is `review_held` with one of the two history reasons, which a drain
recovers; `review_held` stands for the other reviews and for `duplicate_held`,
which nothing but an operator moves; `assessment_failed` is the transient one.

`Start`, `RecoverRead`, `RecoverWrite` are `recoverDueSheetsPersonHolds`.
`BeginClaims` reads the flag. Off: `BeginClaims` settles the stale runs, then
`List` and `ClaimListed`. On: `Claim` is the whole transaction of
`claimNextDispatchIntent`: `QuarantinedJobs`, `InFlight`, `Parked`, `Fair`.
`EnqueueIntent`, `Mark`, `Begin`, `StartAppend`, `EndRun`, `Return` and `Finish`
are `handleClaimedIntent` with the execution it calls; the execution's
statements between these, and its guards, are `SheetsDelivery`'s.

Assumed at this level: an enqueue is one step, with every refusal the code knows
as a choice; the claim transaction and the recording of an intent are atomic
(an advisory lock, the transaction of the caller). Left out: the canary jobs,
which count as campaign jobs for `newest`; the admin route that executes a job
without an intent; the cap on spins, which a claim lost inside the lock would
need; the activation switches, which decide only whether an intent is recorded.

`Pace` says what a drain's stalls may be. `any`: any stall anywhere. `prompt`:
the statements around an execution take less than a tick, an execution any time.
`in_lease`: an execution that has not died also ends inside its lease. Which
properties need which is part of the result: `ParkedStays` holds `in_lease` and
fails for `prompt`; `NothingForgotten` holds for `any`.

### GhlDelivery

| Variable | In the code |
| --- | --- |
| `row[l]` | `GhlAssociationDispatchOutbox` of a lead: `status`, age of `availableAt` or `executingAt`, `failed` and `ext` = the outcome and `externalCallExecuted` it was settled with |
| `run[l]` | `GhlLiveDeliveryRun` of the lead's plan with its step runs |
| `sent`, `applied` | history: how often GHL was asked for each effect, and what it took |
| `unset` | settings of the destination that are still missing: `field_map` = no field to be stamped has a field id, `field_options` = the fields that have one cannot be written (options without a mapping, values of the wrong type), `opportunity` = the pipeline's settings |
| `worker[w]` | locals of an intake request, a drain or an operator's test |

`Intake`, `ClaimRequest` and `StartDrain` .. `DrainClaim` are
`ghl-association-dispatch.ts`; `Load` is the plan's checks, `Create` .. `Restart`
and `Finish` are `ghl-live-canary.service.ts`, `Skip` and `Send` its executor,
one operation at a time. A step is a record of operation, receipt, status and
answer; `GhlReceipts` computes from these records what the code computes from
the stored JSON, once with and once without the step's type and status, as the
code reads them in different places.

`Local` is what the executor decides without a call. The fields have two such
branches. Where none of them has a field id the step is `skipped`, whether
fields are required or not, and its stored response says that a call was made,
though the outcome says that none was: answer `claimed` (`External` is what the
stored response says, `Called` what the outcome said). Where the mapped ones
cannot be written the step is `failed` when fields are required and
`partial_success` otherwise; a reused run takes the latter for completed. The two
requests of a stamp, plain fields and options, are one write here; a stamp that
leaves a required core field unsatisfied after a call is among the lost answers.

Left out: the service switch (on), the stamping of source attributes and the
owner step, which repeat the pattern of the fields and the note, collisions of
field targets, and settings that become incomplete again. `Send` stands for each
operation's call; its lines in the map are the contact's. A lead's routing tags
include one that does not enter automation. `sent` counts to two.

### DeliveryNotification

One client and one lead. `note` is the notification row, `pref` the client's
preference, `request[q]` an administrator's configuration request with its stored
result, `done[c]` the receipt of a channel (open, or completed before or after
`enabledAt`), `scanner[s]` the locals of a walk, `provider` the mails the mail
provider took by idempotency key. `Consider` .. `Mark` are `scan.ts` in the order
of its statements; `Gate` is `confirmSend`, which runs before and after the
claim; `Configure` is both configuration routes. `Decide` runs in a transaction
that locks the client's rows; `Gate` takes no lock, and each of its two uses is
one step whose reads are taken together.

The mail provider delivers one mail per idempotency key and refuses a known key
with another address: its documented behaviour, for 24 hours. Left out: the
channel-level resolution of several receipts, paging, the kill switch (on). A walk whose
process died takes up again as a new one, so an old claim counts as stale from
its lease on. `fresh` and
`applied` are history: nothing was changed since the claim; how often a request
edited the settings.

### FulfillmentExecution

| Variable | In the code |
| --- | --- |
| `order[o]` | `LeadOrder`: `reservedQuantity`, `fulfilledQuantity`, `status` (completed and canceled are `closed`), `held` = `pausedAt` is set |
| `alloc[a]` | `LeadAllocation.status` |
| `item` | source leads whose inventory item is available |
| `instr[i]` | `DeliveryInstruction.status` |
| `attempts[i]` | the instruction's `DeliveryAttempt`s by `attemptNumber`: mode and status |
| `sent[i]` | history: live attempts that reached the buyer's CRM |
| `caller[p]` | locals of an admin call |

A transaction is one action, and so is a read outside one. `CheckReserve` and
`Reserve` are `validateReservationEligibility` and
`reserveLeadAllocationAtomicTx`; `Read` and `Claim` are the two halves of
`claimDeliveryAttempt`; `Boundary`, `Send` and what follows are
`executeLf2GhlCanaryForInstruction`; `Finalize` is the end of a simulation. The
partial unique indexes of the migration are `Free`, the number check in `Claim`
and `Running`. `Tracked` says whether the caller hands the adapter a fetch it can
watch; the deployed route does not.

Left out: the replay of a reservation that was already made, cycles and tenants,
the webhook and file adapters, `recordRetryableAttemptFailure`, which needs a
result the live adapter never returns, and the repair of counters. `SafeRelease`
has no caller in production but is modelled: it is the release that asks for
open attempts.

## Runs

| Run | Instance | Question | Result |
| --- | --- | --- | --- |
| `TwoJobs` | a release and a lead with a row each, 2 executions | can contention, crashes, lost answers, late appends or expired leases write a row twice, forget an append, or let two appends run at once? | no |
| `Release` | one release of 2 rows in batches of 1, one batch per execution, 2 executions, 1 operator, 1 edit of the tab | is a delivery that needs several executions and hold releases recorded truthfully, and does a person who copies or deletes rows or fills the tab make SA360 append again? | recorded truthfully; no: the engine implements the ledger |
| `SheetsSettles` | releases of 2 rows and of 1, two batches per execution, 1 execution, fair | does every claim end, and does a lock left by a dead execution let others in? | yes |
| `DispatchOverlap` | a release that may be refused and a lead, 2 drains, `in_lease` | do overlapping drains execute one job at a time, show the reservation, complete only what was delivered, and leave alone what is parked? | yes |
| `DispatchRaces` | one release, 2 drains, `any`, explicit schedule, hold release, flag off and on | can an intent be completed whose job is yet to run? | no |
| `DispatchHolds` | one lead held by the gate, tab bound late, 2 drains, `any`, operator's recovery | the same | no |
| `DispatchSettles` | two intents, 1 drain that may die, fair | does every intent come to rest? | yes |
| `GhlSafety` | one lead, 2 workers and an operator, 3 faults, all answers, prompt attempts, operators alone | is anything sent twice, is automation started before the fields a destination maps, is a run recorded as delivered that was not? | no |
| `GhlEnds` | the same with fields not required, no note, 1 fault, the contact's answer unreliable, stalls anywhere and operators at any time, fair | does every row end and stay so, and is a pending row left alone? | yes |
| `NotifyOnce` | one lead, 2 walks, 1 request, 2 addresses, 1 fault, 1 change, fair | is the client mailed once, only where and when it is allowed, is no lead left aside, and is a repeated request told of its own edit? | yes |
| `Fulfillment` | 2 orders, 3 allocations of 2 leads, 4 instructions, 2 callers | can counters drift, capacity be exceeded, an outcome be rewritten, a lead be sent or sold twice? | no |
| `CanaryThrow` | one instruction, one caller, `Tracked = FALSE` | is an instruction sent once through the route as deployed? | **no** |

The bold answer is a finding: a test and a decision record say what the run
refutes. `PROJECT.json` quotes both sides. In *CanaryThrow* the attempt writes the contact and then throws,
because a lifecycle event is not saved or the mode changed; nobody watched the
fetch, so the exception is a failure before the first call, the instruction is
planned again, and the next execution sends the lead once more.

### Outside these bounds

Some properties fail there, for reasons the runs keep apart by their constants.
They are not runs; each is reproduced by the change it names. Where the
repository's documentation says otherwise, it is quoted.

- `ReleaseKeepsMarker` in `Release` with `Rows = {1}`, `JobOf <- OneRow`, one
  worker, `Operators = {o1, o2}` and no edits: both read the held job; the first finds nothing
  appended and returns it to retryable; a new execution's append is in doubt and
  held; the second, whose copy of the job has no marker, clears the new one
  (`company-sheets-delivery.service.ts:2170`). `company-google-sheets-delivery.md:229`:
  "`RETRY AFTER RECONCILE` does not clear that marker while the row is absent."
- `OneAppendAtATime` in `TwoJobs` with an operator and `Horizon = 0`: between the
  release's job update and its lock update (2186) the job is claimed again; the
  lock update frees the new execution's lock. The same document, 268: "The lock
  is not force-released."
- `OneRun` in `DispatchOverlap` with `Schedulable = {1}`: an explicit schedule
  makes an intent pending that a drain is processing and whose job is not claimed
  yet (`company-sheets-dispatch.service.ts:522`); another drain sees nothing in
  flight. Line 300: "A running job inside the lease, or a processing intent
  inside the lease, blocks a second execution." With `Gated = {2}` instead, a
  recovery that evaluated the gate before another one promoted the lead does the same.
- `IntentsSettle` in `DispatchSettles` with `Limit = 1`, `Kind <- TwoLeads`,
  `Bound = {2}`, `Refusable = {}`, `Pace = "in_lease"`: intents in
  `awaiting_setup` are due at every drain (204), and as many as the limit (20, at
  most 50) keep all newer ones out. The architecture document, 264: "Pending
  intents are still drained while API dispatch stays on."
- `LeadsGetTheirTurn` in the same with `Intents = {1, 2, 3}`,
  `Kind <- AgedThenLeads`, `Bound = {1, 2, 3}` and `Stubborn = {1}`: the
  alternation looks at the newest *created* job (230), so retries do not count as
  turns. It needs drains with room for one claim, as the start budget leaves them
  when an execution is slow. The same document, 266: "it alternates so the older
  aged backlog does not take every execution."
- `OneAppendAtATime` in `TwoJobs` with `ClaimLag = 2`: an execution that stalls
  between its clock reading and its claim has an expired lease from the start.
- `OneAppendAtATime` in `TwoJobs` with three workers: an execution that stalled
  past its lease between its clock reading and the lock, its claim settled and its
  job claimed again, still takes the lock of its job, because
  `acquireWorksheetLock` (`company-sheets-delivery.service.ts:1455`) does not ask
  for the claim, and gives it the age of its old reading. A third, for the other
  job, saw the owner while it was not running, finds the lock expired and takes it
  from the owner's new run, which is about to append.
- `ParkedStays` in `DispatchOverlap` with `Pace = "prompt"`: a drain whose
  execution outlived its lease writes its outcome by id over the parking of the
  drain that took the intent.
- `HoldsEnd` under `AttendedSpec`: nothing ends a hold whose append is known to
  be dead. `EvidenceFollowsJob`: a crash between `finishJob`'s two statements.
- `SettledFailureIsUnsent` in `GhlSafety` with `Operators = {}`, one fault, nothing
  unset, refusable or unreliable and no note: a send that throws after the contact
  was written records a failed run without steps, which a drain settles as a
  failure without an external call.
- `NotSentAgain` with `Solo = FALSE`: an operator's test reuses a failed run while
  a drain does, and both send. With `Prompt = FALSE` two drains do, one past its
  lease. `ghl-destination-authorization.ts:56` says of a reused run: "Completed
  operations are not repeated."
- `FieldsBeforeAutomation` in `GhlSafety` as it is: where fields are required but none of them
  has a field id, the stamp is skipped (`ghl-live-canary-executor.service.ts:468`),
  the block of 929 looks for `failed` only, the entering tag and the workflow are
  sent, and the run ends as `partial_success`. Line 932 gives as the reason of the
  block: "Workflow enrollment waits until required custom field writes succeed.", and
  `ghl-custom-field-stamp.report.ts:42` calls the skipped stamp "optional unless
  customFieldStampRequired". `AutomationWaits` and `DeliveredIsApplied` therefore
  except an attempt that skipped its fields.
- `LeftClaimIsTaken` in `NotifyOnce` with no requests, one address and no
  changes: a row whose walk died while it was `sending` is passed over by the
  scanner (`scan.ts:522`) and never claimed again, though
  `notification-claim.ts:14` says stale claims may be.
- `SoldOnce` in `Fulfillment` with `a1`, which has two instructions, in
  `Releasable`: a simulation of one instruction ends while the other is executed
  live, and puts the allocation back to `reserved`; the release, which asks for the
  status alone, lets the lead be sold again.

Some hazards do not bite inside the bounds, and `PROJECT.json` names no property for
them: two hold releases at once, a release that frees a lock late, an operator's
test beside a delivery, a backlog at the limit and the resale of an allocation of
two instructions, all in this list, and several stale runs of one worksheet, of which
two jobs leave one at most and the theorems any number.

Seen while modelling, without a property: a GHL step that was skipped for want of a
mapping is stored as called, so a failed run that has it is ambiguous and is held,
never resumed; an order that was paused keeps
`pausedAt` when it is resumed and never reserves again; an unknown outcome of a
second instruction is refused once the allocation is in review, so its attempt
stays open; nothing reclaims the attempt of a process that died, which the
decision record leaves to an operator; eligibility compares with the requested
quantity while the transaction also allows the review allowance, where the decision
record bounds reservations by the requested quantity alone
(`lf2-fulfillment-reservation-v1.md:27`; `WithinCapacity` states the
transaction's bound, and in `Fulfillment` the allowance is 0, so that the two agree); the export of
pay-per-lead packages commits allocations without the order's counters, as its
documentation says.

Bounds. Two executions are enough for one stale and one current owner; what three
can do to the lock is in *Outside these bounds* and, for any number, in the proofs of
`SheetsLock_proofs`. A second job is needed for the lock. Two
rows in batches of one with one batch per execution make a delivery span
executions; with two batches per execution one execution appends twice.
`Lease = 0` with `Horizon = 1` already tells a fresh lease from an expired one; `Horizon = 2` is used where a lock must outlive a claim.
`ClockLag = 2` lets an execution stall past its lease; `ClaimLag = 0` leaves the
stall before the claim out, which `ClaimLag = 2` lets in. Runs without
`CalmDown` leave crashes unbounded. Symmetry is used on workers only, and only in runs without
liveness.

In the dispatch a tick is the execution lease, which is also the drain's start
budget; `Horizon = 2` tells a fresh claim, one at the end of its lease and an
expired one apart. Two drains are one that lost its claim and one that took it
over; two intents are one in flight and one that must not be. A `Limit` of 1
stands for a backlog as long as the limit.

In `GhlDelivery` one lead is enough, since plans share nothing; two workers are
the process that left a row and the one that takes it over. `Prompt` keeps an
attempt shorter than a tick, `Solo` keeps operators apart from the rest:
`GhlSafety` asks what failures alone can do (all three settings missing at first, each
supplied at any time; 739 thousand states), `GhlEnds` what stalls can where fields are
not required (174 thousand). A rollback
counts as a fault. In `DeliveryNotification` two walks are a stale and a current
one; the request may be repeated, after its own edit moved the revision it asks for, the
preference may be on already or never set. One request is never answered with a
conflict, and an address changed while the preference is on takes two: both are in
the theorems, for any number of requests, and not in the run.
In `FulfillmentExecution` an order of quantity one with two allocations is at its
limit at once; `MaxAttempts` lets one instruction be tried again; `a1` has two
instructions, so an allocation is part way delivered; `a1` and `a2` share a lead.

Fairness of the dispatch (`Fairness`): the worker's repeating job keeps starting
drains, a drain that has not died goes on, an execution ends, time passes. Tick
is strongly fair because drains and time exclude one another in `prompt` and
`in_lease`: a tick is possible again and again, between drains. `Calm` says that
faults and operators' requests are finitely many and the flag is on in the end;
`Stubborn` intents may go on failing. Nothing is assumed of the order in which intents are chosen.

Fairness of the GHL delivery: a worker that has not died goes on, drains are
posted again and again, time passes, and missing settings are completed at some
time. Of the notifications: walks go on and are started again, time passes. Faults
are bounded in both.

Fairness of the delivery (`Running`): a handler that has not died goes on; the
repeating drain and the admin routes attempt each job again and again; time passes; Google
answers each request within its timeout, without saying which answer; crashes
are finitely many (`CalmDown`). `Attended` adds an operator who keeps releasing
and that accepted appends land. No answer of Google, no success and no
particular interleaving is assumed.

## Proofs

### SheetsDelivery

`TypeCorrect` is the type invariant by one typing lemma for each kind of step.

`Accounted` is the inductive invariant behind `WrittenRowsLanded` and
`VerifiedDelivery`. Neither is inductive: a row is recorded because an execution
or an operator saw it, or because Google accepted it, so the invariant has to say
of every process's locals that what they claim to have seen has landed. The
argument is monotonicity: the sets of landed and of recorded rows only grow, so
a claim stays true however long a stale process keeps it, and no step needs to
know who owns the job. This is why the result holds for any number of
executions and operators, including the behaviours of the findings.

These proofs assume only the types of the constants (`KindAssumption`,
`RowsAssumption`, `JobOfAssumption`, `NoneAssumption`, `BoundsAssumption`).

`SheetsAppend_proofs` shows `AtMostOnce`, `NoForgottenAppend`, `ReleaseKeepsMarker`
and `ImplementsLedger` for any number of jobs, rows and executions, any lease and
any clock lag, when at most one hold release is under way at a time
(`OneOperator`). The hypothesis is needed: the first item of *Outside these
bounds* has two operators and an append that is forgotten. The invariant `Tracked`
has five parts.

- `CarriedOnce`: a row is carried by one append at most: one that a worker is about
  to send or waits for, one that Google still has, or one that has landed.
- `MarkersKept`: while a row that was carried is not recorded, its job has the
  marker.
- `OrphansPlaced`: an append that Google still has is of one job.
- `WorkersTracked`: an execution that still has its claim knows where it stands.
  Before the marker is stored the job runs without one; from then until it is
  cleared every unrecorded row of the job is in the batch; at `advance`, and when
  the job is to be finished other than by holding it, there is none. Of an
  execution that lost its claim nothing is said, because it cannot write: every
  write of a job or of rows asks for the claim or leaves the job held.
- `OperatorsTracked`: the job of a release under way stays held with the marker that
  was read, because only an operator leaves `uncertain`; when the hold is to be
  lifted no row of it is unrecorded. This is the part two operators break.

`Mark` is where the parts meet: the claim says there is no marker, no marker says
that no pending row was ever carried, so the batch may be sent. A claim is taken
away only by a settlement, which keeps the marker.

`LedgerImplemented` is the step simulation: an insertion is `Append` (the rows are
of one job and not on the tab), an adoption or recording is `Record` (`Accounted`
says the rows landed), storing a success or lifting a hold as delivered is
`Deliver`, any other write of a status is `Doubt` or leaves the ledger alone.

`SheetsLock_proofs` shows `OneAppendAtATime` and `HeaderOnce`, for any number of
jobs, rows and executions. They rest on the worksheet lock, which a lease
can take away, so there are hypotheses, and *Outside these bounds* has a run
against each part of the first two.

- `InTime`: an execution claims at the clock it read (`ClaimLag = 0`) and takes the
  lock no later than a lease after it (`ClockLag <= Lease`).
- `UnlocksInTime`: the release of a hold frees the lock before its job runs or is held
  again. It is a condition on behaviours (`[]UnlocksInTime`), as it is on
  the timing of two statements of one handler.
- `OneOperator`, for the header only, which uses `Tracked`.

The invariant `Locking` is about who may own the lock.

- `Timely`: on its way to the lock an execution still has its claim, which is as old
  as its clock reading and so within the lease: no settlement takes it.
- `LockKept`: a job whose execution is past the lock, or that has a marker, owns the
  lock. `MarkersHeld`: a job with a marker runs or is held.
- `NoneSteals`: a clock reading that is to take the lock from a job is at least as old
  as the claim of that job's run and as its lock, so it finds neither expired. This is
  the part that `ClockLag <= Lease` buys: an owner that was seen dead may have been
  claimed again since, but then all is newer than the reading.
- `HoldsLifted`: a release of a hold goes on only to `retryable` or `succeeded`.

`AppendsAlone` follows at `Mark`, the only step at which a job begins to append: both
jobs would own the lock. For the header, `Heading` says that the rows an
execution carries are named and not recorded, so its job has the marker and the
lock. Of all executions and orphaned appends one at most is then under way
(`OneCarrier`, theorem `OneUnderWay`), and while an execution that found the tab blank
is before its append nothing lands (`HeaderFree`).

`TwoJobs` checks the same two properties outside `InTime`, where two executions
still keep them. `Locking` and `Heading` were checked with TLC before the proof on
two jobs, two executions, an operator, `Lease = 1`, `ClockLag = 1` and
`Horizon = 2`, in 6.46 million states.

### SheetsDispatch

For every instance, gates, schedules and overrunning drains included:
`TypeCorrect`, and `NothingIsForgotten`. The latter rests on `Known`: a completed
intent, and a drain or request that is about to write "succeeded", goes with a job
that succeeded, or is uncertain, with all its rows written. Such a job stays so
(`Sure`), so a write by id may come as late as it likes.

The reservation is proved for any number of intents and drains under `InLease`:
executions end within their lease and the database steps around one take less than
a tick (`Pace = "in_lease"`), and neither a person gate nor an explicit schedule takes part (`Gated` and
`Schedulable` empty). Hold releases, refusals and the switch of the dispatch flag
are free. The hypothesis is needed: *Outside these bounds* has, for each part
of it, the run in which the reservation is broken. Under it, `Ordered` says:

- `RowsGood`: an intent whose job runs is `processing`, linked to it and exactly as
  old; a completed one has a job that succeeded.
- `AllPlaced`, `AllHeld`: a drain knows where it stands. The intent it has in hand is
  still `processing` inside its lease, its job runs exactly while the drain waits for
  its own run, and a success it is about to write has happened.
- `OneHand`, `OnlyItsRun`, `SingleRun`: an intent is in one drain's hands, at most one
  drain has an intent in hand to execute, and no other job runs then.
- `Settled`: a drain that found execution off has settled the stale runs, so none is
  there while it lists intents.

`ExecutedAlone`, `RunsAlone`, `ReservationSeen`, `CompletedAreDelivered` and
`WaitersAreLeft` follow; `RunsAlone` states `OneRun`, the stronger form that is
no run's property. Two lemmas carry the argument, for a drain that works on the
intent in its hand (`HandOrdered`) and one that has none (`QuietOrdered`).

### GhlDelivery

For any number of leads, requests, drains and operators, any stalls, failures and
missing settings, and any flags, from the assumptions on the constants alone
(`GhlAssumption`, `SettingsAssumption`): `TypeCorrect`,
`PendingIsLeft`, `EndedIsFinal`, `DeliveredWasApplied` and `AutomationWaited`.

- Steps are sorted once. `StepKinds` says that a step either moves a worker over the
  outbox and records nothing (`Quiet`), or is one of seven things a delivery does
  (`Begins`, `Reuses`, `Deletes`, `Restarts`, `Skips`, `Calls`, `Records`), or changes a
  status or a setting, or is the clock. The other proofs look at kinds only.
- `AllBegun`: a row only advances, from absent over pending and executing to its end
  (`Advances`), and a request or drain delivers only what is past pending. So a claim
  that comes late finds the row further on.
- `Honest`: a step that claims success, on a run, in a worker's hands or in the
  receipts it took over, is of an operation GHL applied, or of fields that are not
  required. What GHL applied only grows,
  so a claim stays true whoever made it and however stale it is; that is why both
  properties survive deliveries that overlap. `Stamped` and `Waited` add what an attempt
  may say of itself: whoever sent what enters automation has fields among its steps
  that are applied or were skipped, since the order of operations puts them first and
  `Blocked` withholds both after a failure.
- `DeliveredWasApplied` is an action property: at the step that gives a run its
  delivered status (`StepDelivered`), which is `Finish` alone, the steps in the worker's
  hands earned that status, and honest steps were applied.

`NothingIsRepeated` is proved under `Alone`: an attempt ends before the clock moves
(`Prompt`), and operators test while no other worker is at work (`Solo`) or there are
none. The hypothesis is needed: *Outside these bounds* has the runs in which two
deliveries of one plan both send. Failures are free, and so are crashes, rollbacks
and settings supplied between attempts. `AloneInvariant` adds two parts.

- `Exclusive`: a lead has one deliverer, whose row is a fresh claim or has ended.
- `Ledger`: what was sent is on record. A run whose attempt recorded its steps
  (`Told`) says of each operation that was sent that it completed, or has a step
  that is ambiguous or rejected; such a run is never reused, and neither is one
  whose attempt died before it recorded anything. Fields that were sent could be written, and settings are only
  supplied, so a later attempt does not skip them. For the one who redelivers
  (`Tracks`), the receipts it took over (`Recalls`) or the steps it made say so. The
  opportunity leaves no receipt that can be reused: a run that sent it is ambiguous or
  rejected.

### FulfillmentExecution

The proofs hold for any number of calls, orders, allocations and instructions.
They assume the types of the constants (`FulfillmentAssumption`) and that the
allocations are finitely many (`FiniteAssumption`, for counting). The second module
builds on the first.

- `FulfillmentExecution_proofs`. `Typed` and `Locals` say that a call that works on
  an attempt holds the number of one that exists, of its own mode. `Counts` adds
  the bound on the counters to `CountersInSync`; `TypeOK` and `WithinCapacity`
  follow from it. Every transaction moves one allocation (`Becomes`), which changes
  the two counts of its order by what its status adds (`HeldMoves`,
  `CommittedMoves`), and the counters by the same (`Shifts`). The proof needs that
  the room is compared again inside the reserving transaction: the eligibility
  check before it gives nothing that survives until then.
- `FulfillmentSending_proofs`, for every instance. Every step of a call does one of four things to
  attempts: nothing, a claim, an activation, an end (`StepKinds`). An instruction
  has one open attempt at most, and is `executing` while it has; a call at `commit`
  has sent; what is completed has a live success; what is committed has all it
  requires completed. `OutcomeStays` and `UnknownIsHeld` follow: an end needs an
  open attempt of an executing instruction, and an allocation in review stays
  there.
- The same module, for `Tracked` calls. `NotSentTwice` rests on who may
  hold an attempt. A live call holds its attempt alone, because only simulations
  are joined (`Shared`), and no other call ends it (`OwnOpen`). What was sent is
  recorded as a success or an unknown outcome, or its attempt is open and whoever
  holds it will commit or doubt (`Recorded`): a call that dies there leaves an open
  attempt nobody takes up. The gates at the boundary read exactly this record
  (`GatesKnow`). `Tracked` is used once, in `RecordedStep`: an exception after the
  lead arrived is never withdrawn. `CanaryThrow` shows that without it the theorem
  is false.
- The same module, for `Tracked` calls and releases of allocations that have one
  instruction (`Simple`): `OneBuyer`. What may be released is then `delivering` while
  an attempt is open, and `committed` or in review once one was delivered, so a
  release finds neither; the partial unique index does the rest. *Outside these
  bounds* says how `SoldOnce` fails without `Simple`.

### DeliveryNotification

The five safety properties hold for any number of walks and requests, any
addresses, faults and changes; only `NotificationAssumption` is assumed. The
invariant has three parts besides the types.

- `OneKey`: the provider knows at most one key and has mailed it once. The key does
  not depend on the attempt, so a retry after a lost answer is recognised. This is
  the whole of `MailedOnce`, and it holds within the provider's 24 hours.
- `Told`: a request is never newer than the settings; one that was applied has its
  answer stored with the edit, so a repetition is given that answer and edits nothing,
  and one that was told of a conflict was not applied and never will be: its
  revision has passed. `AppliedAreTold` is its part about answers.
- `Seen`: what a walk saw after its claim holds until a setting or a receipt
  changes, and every such change clears the walk's `fresh`. `MailIsAuthorized`
  follows at the send.

`EndedStaysEnded` needs only the types: each update names the statuses it may
leave, and none is `sent` or `skipped`.

Every safety property of the passing runs is stated by a theorem. Only
model-checked: the liveness properties, which are out of the prover's reach.

## Plan

Done: `SheetsDelivery` with its ledger, `SheetsDispatch`, `GhlDelivery`,
`DeliveryNotification`, `FulfillmentExecution`, and the proofs above. What would
come next:

1. The custom-sheet append and `acceptReconciledCustomRow`.
2. An abstract specification of the reservation that `SheetsDispatch` implements,
   and its job life cycle shown to be `SheetsDelivery`'s.
3. `PersonGate`: slots, decisions, release of dead reservations.
4. `SheetsEventWrite`: campaign delivery against captured test of one lead.
5. Checkpointed aged import; the Google token refresh.

## Not modelled

Parsing, mapping, presentation and the admin UI have no concurrent state and
are covered by the repository's unit tests. `PROJECT.json` lists every component
with its reason.
