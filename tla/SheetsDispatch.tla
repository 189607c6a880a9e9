--------------------------- MODULE SheetsDispatch ---------------------------
(***************************************************************************)
(* Automatic dispatch of Company Google Sheets deliveries: confirmed leads *)
(* and released packages leave an intent, and drains claim due intents,    *)
(* create their job, execute it and write the outcome back.  Drains        *)
(* overlap: the worker stops waiting for a drain that the API carries on,  *)
(* and an operator may post one.                                           *)
(*                                                                         *)
(* Execution of a job is taken from SheetsDelivery at the level a drain    *)
(* sees: its claim, marker, outcome and settlement.  The claim decision is *)
(* one transaction under an advisory lock, here one action; any other      *)
(* action is one statement, or one enqueue.                                *)
(***************************************************************************)
EXTENDS Naturals, FiniteSets

CONSTANTS
  Intents,      \* dispatch intents, numbered in the order of their createdAt
  Kind,         \* [Intents -> {"campaign_lead", "aged_release"}]
  Drains,       \* concurrent calls of processDueCompanySheetsDispatches
  None,         \* SQL null
  Limit,        \* intents one drain may claim (20 by default, at most 50)
  Lease,        \* COMPANY_SHEETS_EXECUTION_LEASE_MS, also the start budget, in ticks
  Horizon,      \* ages are not told apart beyond this many ticks
  Bound,        \* intents whose tab is bound from the start
  Refusable,    \* bound: intents whose order or lead may be refused
  Gated,        \* bound: campaign intents the person gate may hold
  Schedulable,  \* bound: aged intents an operator schedules explicitly
  Releasable,   \* bound: intents whose held job an operator releases
  Stubborn,     \* bound: intents whose delivery may go on failing
  Switched,     \* is the execution flag ever off?
  Pace,         \* how slow a drain may be, see Paces
  FaultsCease   \* do faults and requests end at some time (for liveness)?

Campaign(i) == Kind[i] = "campaign_lead"

GateHolds == {"review_held", "history_gap", "assessment_failed", "assessment_held"}
IntentStatuses ==
  {"absent", "pending", "awaiting_setup", "needs_explicit_schedule", "processing",
   "scheduled", "retryable", "completed"} \cup GateHolds
JobStatuses == {"none", "queued", "running", "retryable", "uncertain", "succeeded", "failed"}

(* "any": a drain may pause anywhere for any time.  "prompt": the database  *)
(* steps around an execution take less than a tick.  "in_lease": and an     *)
(* execution that is not given up ends inside its lease.                    *)
Paces == {"any", "prompt", "in_lease"}

ASSUME IntentsAssumption == Intents \subseteq Nat /\ IsFiniteSet(Intents)
ASSUME KindAssumption == Kind \in [Intents -> {"campaign_lead", "aged_release"}]
ASSUME NoneAssumption == None \notin Intents \cup Drains
ASSUME BoundsAssumption ==
  /\ Limit \in Nat /\ Lease \in Nat /\ Horizon \in Nat
  /\ Bound \subseteq Intents /\ Refusable \subseteq Intents
  /\ Gated \subseteq {i \in Intents : Campaign(i)}
  /\ Schedulable \subseteq {i \in Intents : ~Campaign(i)}
  /\ Releasable \subseteq Intents /\ Stubborn \subseteq Intents
  /\ Switched \in BOOLEAN /\ Pace \in Paces /\ FaultsCease \in BOOLEAN

VARIABLES
  intent,   \* the CompanySheetsDispatchIntent rows
  job,      \* the CompanySheetsDeliveryJob of each intent
  newest,   \* kind of the job with the latest createdAt
  ready,    \* intents whose tab is bound
  flag,     \* SA360_COMPANY_GOOGLE_SHEETS_EXECUTION_ENABLED
  drain,    \* locals of the drains
  request,  \* locals of an explicit schedule request
  calm      \* have faults and operators' requests ceased?

vars == <<intent, job, newest, ready, flag, drain, request, calm>>

Ages == 0 .. Horizon
Expired(a) == a > Lease
Older(a) == IF a < Horizon THEN a + 1 ELSE a

(* written: are all rows of the job recorded as written?                    *)
NoJob == [status |-> "none", owner |-> None, age |-> 0, marker |-> FALSE, written |-> FALSE]
Idle == [pc |-> "idle", exec |-> FALSE, intent |-> None, res |-> "none",
         done |-> {}, seen |-> [i \in {} |-> "absent"], age |-> 0]
NoRequest == [pc |-> "idle", intent |-> None, res |-> "none"]

At(d, pc) == drain[d].pc = pc

-----------------------------------------------------------------------------
(* Recording: intake and Approve & Release.                                 *)

(* What the person gate may answer for an intent.                           *)
GateAnswers(i) == {"ok"} \cup (IF i \in Gated THEN GateHolds ELSE {})

NewStatus(i, gate) ==
  IF gate # "ok" THEN gate
  ELSE IF i \in ready THEN "pending"
  ELSE IF Campaign(i) THEN "awaiting_setup" ELSE "needs_explicit_schedule"

(* The intent is inserted in the transaction of the confirmed lead or the   *)
(* release.  A campaign lead recorded again moves an assessment hold only.  *)
Record(i) ==
  /\ \/ /\ intent[i].status = "absent"
        /\ \A k \in Intents : k < i => intent[k].status # "absent"
     \/ Campaign(i) /\ intent[i].status \in {"assessment_held", "assessment_failed"}
  /\ \E gate \in GateAnswers(i) :
       intent' = [intent EXCEPT ![i].status = NewStatus(i, gate)]
  /\ UNCHANGED <<job, newest, ready, flag, drain, request, calm>>

BindTab(i) ==
  /\ i \notin ready
  /\ ready' = ready \cup {i}
  /\ UNCHANGED <<intent, job, newest, flag, drain, request, calm>>

-----------------------------------------------------------------------------
(* Settlement of stale runs and stale claims.                               *)

StaleRun(i) == job[i].status = "running" /\ Expired(job[i].age)
Returned(i) == StaleRun(i) /\ ~job[i].marker

(* quarantineExpiredRuns: a stale run without marker is returned together   *)
(* with the intents that process it, one with a marker is held.             *)
QuarantinedJobs ==
  [i \in Intents |->
     IF ~StaleRun(i) THEN job[i]
     ELSE IF job[i].marker THEN [job[i] EXCEPT !.status = "uncertain", !.owner = None]
     ELSE [job[i] EXCEPT !.status = "retryable", !.owner = None, !.age = 0]]

LinkedProcessing(i) == intent[i].status = "processing" /\ intent[i].linked

QuarantinedIntents ==
  [i \in Intents |->
     IF Returned(i) /\ LinkedProcessing(i)
     THEN [intent[i] EXCEPT !.status = "retryable", !.wait = FALSE] ELSE intent[i]]

(* Variant: a claim whose run has ended is taken for delivered.             *)
BugParked(x, j) ==
  IF x.status # "processing" \/ ~Expired(x.age) THEN x
  ELSE IF x.linked /\ j.status # "running" THEN [x EXCEPT !.status = "completed"]
  ELSE [x EXCEPT !.status = "retryable", !.wait = FALSE]

(* Variant: an expired claim is left as it is.                              *)
BugUnparked(x, j) == x

(* parkExpiredProcessing, by the job the intent is linked to.               *)
Parked(x, j) ==
  IF x.status # "processing" \/ ~Expired(x.age) THEN x
  ELSE IF x.linked /\ j.status = "running" THEN x
  ELSE IF x.linked /\ j.status = "succeeded" THEN [x EXCEPT !.status = "completed"]
  ELSE IF x.linked /\ (j.status = "uncertain" \/ j.marker)
       THEN [x EXCEPT !.status = "scheduled", !.wait = TRUE]
  ELSE [x EXCEPT !.status = "retryable", !.wait = FALSE]

(* Variant: only runs are looked for, not claims.                           *)
BugInFlight == \E i \in Intents : QuarantinedJobs[i].status = "running"

InFlight ==
  \E i \in Intents :
    \/ QuarantinedJobs[i].status = "running"
    \/ QuarantinedIntents[i].status = "processing" /\ ~Expired(intent[i].age)

-----------------------------------------------------------------------------
(* Which intent goes next.                                                  *)

(* Variant: parked releases are due like any other intent.                  *)
BugDue(i, x) ==
  \/ x.status \in {"pending", "scheduled", "retryable", "needs_explicit_schedule"} /\ ~x.wait
  \/ x.status = "awaiting_setup" /\ Campaign(i)

Due(i, x) ==
  \/ x.status \in {"pending", "scheduled", "retryable"} /\ ~x.wait
  \/ x.status = "awaiting_setup" /\ Campaign(i)

Oldest(S) == CHOOSE i \in S : \A k \in S : i <= k

(* selectFairIntent: S is the due intents; the kind is told from the job    *)
(* that was created last.                                                   *)
Fair(S) ==
  LET campaign == {i \in S : Campaign(i)}
      aged == S \ campaign
  IN  IF campaign = {} THEN Oldest(aged)
      ELSE IF aged = {} THEN Oldest(campaign)
      ELSE IF newest = "campaign_lead" THEN Oldest(aged) ELSE Oldest(campaign)

Claimed(x) == [x EXCEPT !.status = "processing", !.age = 0]

-----------------------------------------------------------------------------
(* Recovery of person holds, by a drain before it claims or by an operator. *)

DrainRecovers == {"history_gap", "assessment_failed"}

(* The hold's new status; the intent is updated by id.                      *)
Promote(i, gate) ==
  intent' = [intent EXCEPT ![i].status = IF gate = "ok" THEN "pending" ELSE gate,
                           ![i].wait = CASE gate = "ok" -> FALSE
                                         [] gate \in DrainRecovers -> TRUE
                                         [] OTHER -> @]

(* A drain starts with the holds that are due.                              *)
Start(d) ==
  LET holds == {i \in Intents : intent[i].status \in DrainRecovers /\ ~intent[i].wait}
  IN  /\ At(d, "idle")
      /\ drain' = [drain EXCEPT ![d].pc = "recover",
                                ![d].seen = [i \in holds |-> intent[i].status]]
      /\ UNCHANGED <<intent, job, newest, ready, flag, request, calm>>

Rest(seen, i) == [k \in DOMAIN seen \ {i} |-> seen[k]]

(* The hold is read again; one that is no hold any more is passed over.     *)
RecoverRead(d) ==
  /\ At(d, "recover") /\ DOMAIN drain[d].seen # {}
  /\ LET i == Oldest(DOMAIN drain[d].seen)
     IN  drain' = [drain EXCEPT ![d].seen = Rest(@, i),
                                ![d].pc = IF intent[i].status \in DrainRecovers THEN "gate" ELSE @,
                                ![d].intent = IF intent[i].status \in DrainRecovers THEN i ELSE None]
  /\ UNCHANGED <<intent, job, newest, ready, flag, request, calm>>

RecoverWrite(d) ==
  /\ At(d, "gate")
  /\ \E gate \in GateAnswers(drain[d].intent) : Promote(drain[d].intent, gate)
  /\ drain' = [drain EXCEPT ![d].pc = "recover", ![d].intent = None]
  /\ UNCHANGED <<job, newest, ready, flag, request, calm>>

(* The operator's request recovers an assessment hold of any reason.        *)
RequestRecovery(i) ==
  /\ ~calm /\ request.pc = "idle" /\ i \in Gated
  /\ intent[i].status \in DrainRecovers \cup {"assessment_held"}
  /\ request' = [pc |-> "gate", intent |-> i, res |-> "none"]
  /\ UNCHANGED <<intent, job, newest, ready, flag, drain, calm>>

RequestPromote ==
  /\ request.pc = "gate"
  /\ \E gate \in GateAnswers(request.intent) : Promote(request.intent, gate)
  /\ request' = NoRequest
  /\ UNCHANGED <<job, newest, ready, flag, drain, calm>>

-----------------------------------------------------------------------------
(* The drain: its flag, its claims.                                         *)

(* With execution off the stale runs are settled and the due intents are    *)
(* listed; with execution on the drain claims one intent at a time.         *)
BeginClaims(d) ==
  /\ At(d, "recover") /\ drain[d].seen = Idle.seen
  /\ IF flag
     THEN /\ drain' = [drain EXCEPT ![d].pc = "loop", ![d].exec = TRUE, ![d].age = 0]
          /\ UNCHANGED <<intent, job>>
     ELSE /\ job' = QuarantinedJobs
          /\ intent' = QuarantinedIntents
          /\ drain' = [drain EXCEPT ![d].pc = "settled"]
  /\ UNCHANGED <<newest, ready, flag, request, calm>>

StaleClaim(i) == intent[i].status = "processing" /\ Expired(intent[i].age)

(* The oldest Limit of the due intents, with their status.                  *)
List(d) ==
  LET due == {i \in Intents : Due(i, intent[i]) \/ StaleClaim(i)}
      listed == {i \in due : Cardinality({k \in due : k < i}) < Limit}
  IN  /\ At(d, "settled")
      /\ drain' = [drain EXCEPT ![d].pc = "list",
                                ![d].seen = [i \in listed |-> intent[i].status]]
      /\ UNCHANGED <<intent, job, newest, ready, flag, request, calm>>

Handle(d, i) ==
  drain' = [drain EXCEPT ![d].pc = "enqueue", ![d].intent = i, ![d].res = "none",
                         ![d].seen = IF drain[d].exec THEN @ ELSE Rest(@, i),
                         ![d].done = IF drain[d].exec THEN @ \cup {i} ELSE @]

(* A listed intent is claimed if its status is the one listed.              *)
ClaimListed(d) ==
  /\ At(d, "list") /\ DOMAIN drain[d].seen # {}
  /\ LET i == Oldest(DOMAIN drain[d].seen)
     IN  IF /\ intent[i].status = drain[d].seen[i]
            /\ intent[i].status = "processing" => StaleClaim(i)
         THEN /\ intent' = [intent EXCEPT ![i] = Claimed(@)]
              /\ Handle(d, i)
         ELSE /\ drain' = [drain EXCEPT ![d].seen = Rest(@, i)]
              /\ UNCHANGED intent
  /\ UNCHANGED <<job, newest, ready, flag, request, calm>>

MayClaim(d) == Cardinality(drain[d].done) < Limit /\ drain[d].age < Lease

(* claimNextDispatchIntent.                                                 *)
Claim(d) ==
  LET parked == [i \in Intents |-> Parked(QuarantinedIntents[i], QuarantinedJobs[i])]
      due == {i \in Intents \ drain[d].done : Due(i, parked[i])}
  IN
  /\ At(d, "loop") /\ MayClaim(d)
  /\ job' = QuarantinedJobs
  /\ IF InFlight
     THEN /\ intent' = QuarantinedIntents
          /\ drain' = [drain EXCEPT ![d] = Idle]
     ELSE IF due = {}
     THEN /\ intent' = parked
          /\ drain' = [drain EXCEPT ![d] = Idle]
     ELSE /\ intent' = [parked EXCEPT ![Fair(due)] = Claimed(@)]
          /\ Handle(d, Fair(due))
  /\ UNCHANGED <<newest, ready, flag, request, calm>>

(* The request limit or the start budget is spent, or the list is done.     *)
Stop(d) ==
  /\ \/ At(d, "loop") /\ ~MayClaim(d)
     \/ At(d, "list") /\ drain[d].seen = Idle.seen
  /\ drain' = [drain EXCEPT ![d] = Idle]
  /\ UNCHANGED <<intent, job, newest, ready, flag, request, calm>>

-----------------------------------------------------------------------------
(* Enqueueing: the checks and createJob.                                    *)

(* A transient fault, or one that lasts.                                    *)
CanRetry(i) == ~calm \/ i \in Stubborn

(* The answers of the enqueue that are no job.                              *)
Refusals(i) ==
  (IF i \notin ready THEN {"setup"} ELSE {})
  \cup (IF i \in Refusable THEN {"blocked"} ELSE {})
  \cup (GateAnswers(i) \ {"ok"})
  \cup (IF CanRetry(i) THEN {"retry"} ELSE {})

(* res is what the caller is told.  A row that changed during the enqueue   *)
(* is refused after its job was created.                                    *)
Enqueue(i, res) ==
  \/ res \in Refusals(i) /\ UNCHANGED <<job, newest>>
  \/ /\ i \in ready
     /\ IF job[i].status = "none"
        THEN job' = [job EXCEPT ![i].status = "queued"] /\ newest' = Kind[i]
        ELSE UNCHANGED <<job, newest>>
     /\ res = job'[i].status \/ (i \in Refusable /\ res = "blocked")

Results == JobStatuses \cup GateHolds \cup {"setup", "blocked", "retry", "busy", "lost"}

EnqueueIntent(d) ==
  /\ At(d, "enqueue")
  /\ \E res \in Results :
       /\ Enqueue(drain[d].intent, res)
       /\ drain' = [drain EXCEPT ![d].pc = "mark", ![d].res = res]
  /\ UNCHANGED <<intent, ready, flag, request, calm>>

(* terminalHold.                                                            *)
SetupHold(i) == IF Campaign(i) THEN "awaiting_setup" ELSE "needs_explicit_schedule"

(* Variant: a job that exists counts as delivered while execution is off.   *)
BugOutcome(i, res, exec) ==
  CASE res \in GateHolds -> res
    [] res = "setup" -> SetupHold(i)
    [] res = "blocked" -> "needs_explicit_schedule"
    [] res = "retry" -> "retryable"
    [] OTHER -> IF exec THEN "processing" ELSE "completed"

(* Where an intent goes by the answer of its enqueue.                       *)
Outcome(i, res, exec) ==
  CASE res \in GateHolds -> res
    [] res = "setup" -> SetupHold(i)
    [] res = "blocked" -> "needs_explicit_schedule"
    [] res = "retry" -> "retryable"
    [] res = "succeeded" -> "completed"
    [] res = "uncertain" -> "scheduled"
    [] OTHER -> IF exec THEN "processing" ELSE "scheduled"

NextPc(d) == IF drain[d].exec THEN "loop" ELSE "list"

(* Variant: the job's id is not stored.                                     *)
BugMark(d) ==
  LET i == drain[d].intent
      status == Outcome(i, drain[d].res, drain[d].exec)
  IN
  /\ At(d, "mark")
  /\ intent' = [intent EXCEPT ![i].status = status, ![i].wait = @ \/ status = "retryable"]
  /\ drain' = IF status = "processing"
              THEN [drain EXCEPT ![d].pc = "execute"]
              ELSE [drain EXCEPT ![d].pc = NextPc(d), ![d].intent = None, ![d].res = "none"]
  /\ UNCHANGED <<job, newest, ready, flag, request, calm>>

(* markIntent: the update names the intent's id and nothing else.           *)
Mark(d) ==
  LET i == drain[d].intent
      status == Outcome(i, drain[d].res, drain[d].exec)
  IN
  /\ At(d, "mark")
  /\ intent' = [intent EXCEPT ![i].status = status,
                              ![i].linked = @ \/ drain[d].res \in JobStatuses,
                              ![i].wait = @ \/ status = "retryable"]
  /\ drain' = IF status = "processing"
              THEN [drain EXCEPT ![d].pc = "execute"]
              ELSE [drain EXCEPT ![d].pc = NextPc(d), ![d].intent = None, ![d].res = "none"]
  /\ UNCHANGED <<job, newest, ready, flag, request, calm>>

-----------------------------------------------------------------------------
(* Execution, as a drain sees it.                                           *)

Answer(d, res) == drain' = [drain EXCEPT ![d].pc = "finish", ![d].res = res]

(* The claim of executeCompanySheetsDeliveryJob and its refusals.  A failed *)
(* job is answered as one that is running.                                  *)
Begin(d) ==
  LET i == drain[d].intent IN
  /\ At(d, "execute")
  /\ CASE job[i].status \in {"queued", "retryable"} ->
            /\ job' = [job EXCEPT ![i].status = "running", ![i].owner = d, ![i].age = 0]
            /\ drain' = [drain EXCEPT ![d].pc = "running"]
            /\ UNCHANGED intent
       [] StaleRun(i) ->
            /\ job' = [job EXCEPT ![i] = QuarantinedJobs[i]]
            /\ intent' = [intent EXCEPT ![i] = QuarantinedIntents[i]]
            /\ Answer(d, IF job[i].marker THEN "uncertain" ELSE "lost")
       [] OTHER ->
            /\ Answer(d, IF job[i].status \in {"uncertain", "succeeded"} THEN job[i].status
                         ELSE "busy")
            /\ UNCHANGED <<intent, job>>
  /\ UNCHANGED <<newest, ready, flag, request, calm>>

Owns(d) == job[drain[d].intent].owner = d

StartAppend(d) ==
  LET i == drain[d].intent IN
  /\ At(d, "running")
  /\ IF Owns(d) /\ job[i].status = "running"
     THEN /\ ~job[i].marker
          /\ job' = [job EXCEPT ![i].marker = TRUE]
          /\ UNCHANGED drain
     ELSE /\ Answer(d, "lost")
          /\ UNCHANGED job
  /\ UNCHANGED <<intent, newest, ready, flag, request, calm>>

(* How a run may end: also failed or queued, when its person gate refuses   *)
(* or the worksheet is busy; without faults it does not come back.           *)
RunEnds(i) == {"succeeded", "uncertain", "failed"} \cup (IF CanRetry(i) THEN {"retryable", "queued"} ELSE {})

EndRun(d) ==
  LET i == drain[d].intent IN
  /\ At(d, "running") /\ Owns(d) /\ job[i].status = "running"
  /\ \E s \in RunEnds(i), all \in BOOLEAN :
       /\ s = "failed" => i \in Gated /\ ~job[i].marker
       /\ IF all THEN s = "succeeded" \/ (s = "uncertain" /\ i \in Releasable)
          ELSE s # "succeeded"
       /\ job' = [job EXCEPT ![i].status = s, ![i].marker = @ /\ s = "uncertain",
                             ![i].written = all]
       /\ drain' = [drain EXCEPT ![d].pc = "ended", ![d].res = s]
  /\ UNCHANGED <<intent, newest, ready, flag, request, calm>>

(* The call returns; or an error raised after the outcome was stored turns  *)
(* it into uncertain, under the token that still is the run's own.          *)
Return(d) ==
  /\ At(d, "ended")
  /\ \/ /\ \E res \in IF drain[d].res = "queued" THEN {"busy", "retryable"} ELSE {drain[d].res} :
             Answer(d, res)
        /\ UNCHANGED job
     \/ /\ ~calm
        /\ IF Owns(d)
           THEN /\ job' = [job EXCEPT ![drain[d].intent].status = "uncertain"]
                /\ Answer(d, "uncertain")
           ELSE Answer(d, "lost") /\ UNCHANGED job
  /\ UNCHANGED <<intent, newest, ready, flag, request, calm>>

(* Variants: the answer itself is stored; any answer that is no refusal     *)
(* completes the intent.                                                    *)
BugRawVerdict(res) == IF res = "succeeded" THEN "completed" ELSE res
BugVerdict(res) ==
  CASE res \in {"succeeded", "retryable"} -> "completed"
    [] OTHER -> "scheduled"

(* The intent's status by the answer of the execution.                      *)
Verdict(res) ==
  CASE res = "succeeded" -> "completed"
    [] res \in {"uncertain", "busy"} -> "scheduled"
    [] OTHER -> "retryable"

Finish(d) ==
  LET i == drain[d].intent
      res == drain[d].res
  IN
  /\ At(d, "finish")
  /\ intent' = IF res = "lost" THEN intent
               ELSE [intent EXCEPT ![i].status = Verdict(res),
                                   ![i].wait = @ \/ Verdict(res) # "completed"]
  /\ drain' = [drain EXCEPT ![d].pc = "loop", ![d].intent = None, ![d].res = "none"]
  /\ UNCHANGED <<job, newest, ready, flag, request, calm>>

(* The process or the request dies; its claim and its run are left behind.  *)
Die(d) ==
  /\ ~calm /\ ~At(d, "idle")
  /\ drain' = [drain EXCEPT ![d] = Idle]
  /\ UNCHANGED <<intent, job, newest, ready, flag, request, calm>>

-----------------------------------------------------------------------------
(* scheduleAgedReleaseExplicitly: the upsert, the enqueue, the outcome.     *)

Schedule(i) ==
  /\ ~calm /\ request.pc = "idle" /\ i \in Schedulable
  /\ \A k \in Intents : k < i => intent[k].status # "absent"
  /\ intent' = [intent EXCEPT ![i].status = "pending", ![i].wait = FALSE]
  /\ request' = [pc |-> "enqueue", intent |-> i, res |-> "none"]
  /\ UNCHANGED <<job, newest, ready, flag, drain, calm>>

ScheduleEnqueue ==
  /\ request.pc = "enqueue"
  /\ \E res \in Results :
       /\ Enqueue(request.intent, res)
       /\ request' = [request EXCEPT !.pc = "mark", !.res = res]
  /\ UNCHANGED <<intent, ready, flag, drain, calm>>

ScheduleMark ==
  LET i == request.intent IN
  /\ request.pc = "mark"
  /\ intent' = [intent EXCEPT ![i].status = Outcome(i, request.res, FALSE),
                              ![i].linked = @ \/ request.res \in JobStatuses]
  /\ request' = NoRequest
  /\ UNCHANGED <<job, newest, ready, flag, drain, calm>>

(* releaseCompanySheetsDeliveryHold: a held job is adopted as succeeded when *)
(* its rows are recorded or found, and returned when no append is in doubt. *)
Release(i) ==
  /\ i \in Releasable /\ job[i].status = "uncertain"
  /\ \E s \in {"succeeded", "retryable"} :
       /\ s = "retryable" => ~job[i].marker /\ ~job[i].written
       /\ job' = [job EXCEPT ![i].status = s, ![i].marker = FALSE,
                             ![i].written = s = "succeeded"]
  /\ UNCHANGED <<intent, newest, ready, flag, drain, request, calm>>

-----------------------------------------------------------------------------
(* The environment.                                                         *)

SwitchFlag ==
  /\ Switched /\ ~calm
  /\ flag' = ~flag
  /\ UNCHANGED <<intent, job, newest, ready, drain, request, calm>>

(* May a tick pass now?                                                     *)
InPace ==
  /\ Pace # "any" => /\ \A d \in Drains : drain[d].pc \in {"idle", "running"}
                     /\ request.pc = "idle"
  /\ Pace = "in_lease" => \A d \in Drains :
       At(d, "running") /\ Owns(d) => job[drain[d].intent].age < Lease

Tick ==
  /\ InPace
  /\ intent' = [i \in Intents |-> [intent[i] EXCEPT !.age = Older(@), !.wait = FALSE]]
  /\ job' = [i \in Intents |->
               IF job[i].status = "running" THEN [job[i] EXCEPT !.age = Older(@)] ELSE job[i]]
  /\ drain' = [d \in Drains |->
                 IF ~drain[d].exec THEN drain[d] ELSE [drain[d] EXCEPT !.age = Older(@)]]
  /\ UNCHANGED <<newest, ready, flag, request, calm>>

Calm ==
  /\ FaultsCease /\ ~calm
  /\ calm' = TRUE /\ flag' = TRUE
  /\ UNCHANGED <<intent, job, newest, ready, drain, request>>

Init ==
  /\ intent = [i \in Intents |-> [status |-> "absent", linked |-> FALSE, age |-> 0, wait |-> FALSE]]
  /\ job = [i \in Intents |-> NoJob]
  /\ newest = "none"
  /\ ready = Bound
  /\ flag = TRUE
  /\ drain = [d \in Drains |-> Idle]
  /\ request = NoRequest
  /\ calm = FALSE

Step(d) ==
  \/ RecoverRead(d) \/ RecoverWrite(d) \/ BeginClaims(d) \/ List(d) \/ ClaimListed(d)
  \/ Claim(d) \/ Stop(d) \/ EnqueueIntent(d) \/ Mark(d) \/ Begin(d)
  \/ StartAppend(d) \/ EndRun(d) \/ Return(d) \/ Finish(d)

RequestStep == RequestPromote \/ ScheduleEnqueue \/ ScheduleMark

Next ==
  \/ \E d \in Drains : Start(d) \/ Step(d) \/ Die(d)
  \/ \E i \in Intents : Record(i) \/ BindTab(i) \/ RequestRecovery(i) \/ Schedule(i)
                       \/ Release(i)
  \/ RequestStep \/ SwitchFlag \/ Tick \/ Calm

Spec == Init /\ [][Next]_vars

(* The repeatable job keeps posting drains, a drain that runs goes on, a    *)
(* run that may end does, and time passes.                                  *)
Fairness ==
  /\ \A d \in Drains : WF_vars(Start(d)) /\ WF_vars(Step(d)) /\ WF_vars(EndRun(d))
  /\ WF_vars(RequestStep) /\ SF_vars(Tick) /\ WF_vars(Calm)

FairSpec == Spec /\ Fairness

-----------------------------------------------------------------------------
(* Properties.                                                              *)

TypeOK ==
  /\ intent \in [Intents -> [status : IntentStatuses, linked : BOOLEAN, age : Ages, wait : BOOLEAN]]
  /\ job \in [Intents -> [status : JobStatuses, owner : Drains \cup {None}, age : Ages,
                          marker : BOOLEAN, written : BOOLEAN]]
  /\ newest \in {"none", "campaign_lead", "aged_release"}
  /\ ready \subseteq Intents /\ flag \in BOOLEAN /\ calm \in BOOLEAN
  /\ \A d \in Drains :
       /\ drain[d].pc \in {"idle", "recover", "gate", "settled", "list", "loop", "enqueue", "mark",
                           "execute", "running", "ended", "finish"}
       /\ drain[d].exec \in BOOLEAN /\ drain[d].res \in Results /\ drain[d].age \in Ages
       /\ drain[d].done \subseteq Intents /\ DOMAIN drain[d].seen \subseteq Intents
       /\ \A i \in DOMAIN drain[d].seen : drain[d].seen[i] \in IntentStatuses
       /\ drain[d].intent \in Intents \cup {None}
       /\ drain[d].intent = None
            <=> drain[d].pc \in {"idle", "recover", "settled", "list", "loop"}

(* d has a claim, or a run that is its own and inside the lease.            *)
Reserves(d) ==
  /\ drain[d].exec
  /\ \/ drain[d].pc \in {"enqueue", "mark", "execute"}
     \/ /\ At(d, "running") /\ Owns(d)
        /\ job[drain[d].intent].status = "running" /\ ~Expired(job[drain[d].intent].age)

(* "A running job inside the lease, or a processing intent inside the       *)
(* lease, blocks a second execution": no two drains that execute hold       *)
(* reservations at once (the comment of claimNextDispatchIntent).           *)
OneExecution == \A d, e \in Drains : Reserves(d) /\ Reserves(e) => d = e

(* The same of the job rows alone: at most one job runs inside its lease.   *)
OneRun ==
  \A i, k \in Intents :
    (\A n \in {i, k} : job[n].status = "running" /\ ~Expired(job[n].age)) => i = k

(* While a job runs inside its lease its intent shows the reservation other *)
(* drains look for ("Stay processing until execute returns").               *)
ReservationShown ==
  \A i \in Intents : job[i].status = "running" /\ ~Expired(job[i].age)
                     => intent[i].status = "processing" /\ intent[i].linked

(* An intent is completed only while its job is succeeded: what the admin   *)
(* page shows as delivered is.                                              *)
CompletedIsDelivered ==
  \A i \in Intents : intent[i].status = "completed" => job[i].status = "succeeded"

(* Whatever overlaps, no intent is completed while its job has yet to be    *)
(* executed; nothing would take the job up again.                           *)
NothingForgotten ==
  \A i \in Intents : intent[i].status = "completed" => job[i].status \in {"succeeded", "uncertain"}

(* "Parked and not retried into a later status change": an intent that      *)
(* waits for its explicit schedule, or for a review, is moved by an         *)
(* operator only; no drain revives it late.                                 *)
ParkedStays ==
  [][\A i \in Intents : intent[i].status \in {"needs_explicit_schedule", "review_held"}
                        => intent'[i].status = intent[i].status]_vars

(* Where an intent comes to rest; an uncertain job waits for its operator,  *)
(* a failed one is never executed again.                                    *)
AtRest(i) ==
  \/ intent[i].status \in {"completed", "needs_explicit_schedule"} \cup GateHolds
  \/ job[i].status \in {"uncertain", "failed"}

(* Once faults cease every intent whose tab is bound comes to rest: claims  *)
(* and runs left by dead drains are taken up again.                         *)
IntentsSettle ==
  \A i \in Intents : (intent[i].status # "absent" /\ i \in ready) ~> AtRest(i)

(* "So an older aged backlog cannot take every execution": a campaign lead  *)
(* that is due is claimed in the end, unless another lead is held (the      *)
(* comment of selectFairIntent).                                            *)
LeadsGetTheirTurn ==
  \A i \in Intents : (Campaign(i) /\ intent[i].status = "pending")
                      ~> \/ intent[i].status # "pending"
                         \/ \E k \in Intents : Campaign(k) /\ job[k].status = "uncertain"

=============================================================================
