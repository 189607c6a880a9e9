--------------------------- MODULE SheetsDelivery ---------------------------
(***************************************************************************)
(* The execution engine of Company Google Sheets delivery: durable jobs,   *)
(* claims with a lease, the worksheet lock, the append marker, the Google  *)
(* append whose answer may be lost, the reconciling read, and the          *)
(* operator's hold release.  All jobs are on one worksheet: the lock, the  *)
(* blocking query and the row identity are all keyed by worksheet, so jobs *)
(* on different worksheets share no state here.                            *)
(*                                                                         *)
(* One action is one database statement (or one transaction) or one call   *)
(* to Google; between two of them every other process may run.             *)
(*                                                                         *)
(* Time is kept as ages: how many ticks ago a timestamp was taken, counted *)
(* up to Horizon.                                                          *)
(***************************************************************************)
EXTENDS Naturals, FiniteSets

CONSTANTS
  Jobs,        \* delivery jobs of one worksheet
  Kind,        \* [Jobs -> Kinds], the job's kind column
  Rows,        \* delivery rows, numbered in ordinal order
  JobOf,       \* [Rows -> Jobs]
  Workers,     \* concurrent API executions of executeCompanySheetsDeliveryJob
  Operators,   \* concurrent release-hold requests
  None,        \* SQL null
  BatchSize,   \* COMPANY_SHEETS_DELIVERY_BATCH_SIZE (25 in the code)
  MaxBatches,  \* batches per execution (4 in the code)
  Lease,       \* COMPANY_SHEETS_EXECUTION_LEASE_MS, in ticks
  Horizon,     \* ages are not told apart beyond this many ticks
  ClaimLag,    \* bound: ticks between reading the clock and the claim
  ClockLag,    \* bound: ticks between reading the clock and its later uses
  MaxEdits,    \* bound: changes made to the tab by an outside editor
  FaultsCease  \* do processes stop dying at some time (TRUE for liveness)?

Kinds == {"lead", "aged_release", "canary", "campaign_test"}
Statuses == {"queued", "running", "retryable", "uncertain", "succeeded", "failed"}

ASSUME KindAssumption == Kind \in [Jobs -> Kinds]
ASSUME RowsAssumption == Rows \subseteq Nat /\ IsFiniteSet(Rows)
ASSUME JobOfAssumption == JobOf \in [Rows -> Jobs]
ASSUME NoneAssumption == None \notin Jobs \cup Workers
ASSUME BoundsAssumption ==
  /\ BatchSize \in Nat \ {0} /\ MaxBatches \in Nat \ {0}
  /\ Lease \in Nat /\ Horizon \in Nat /\ MaxEdits \in Nat
  /\ ClaimLag \in Nat /\ ClockLag \in Nat /\ FaultsCease \in BOOLEAN

VARIABLES
  job,       \* the CompanySheetsDeliveryJob rows
  row,       \* the status column of the CompanySheetsDeliveryRow rows
  evidence,  \* CompanySheetsOrderDeliveryEvidence.status of each job
  lock,      \* the CompanySheetsWorksheetLock row
  sheet,     \* Google: copies of each stable row id on the tab
  header,    \* Google: copies of the header row on the tab
  long,      \* Google: is the tab longer than the reconcile cap?
  orphans,   \* appends Google still has open whose caller is gone
  landed,    \* history: how often an append of SA360 inserted each row
  worker,    \* locals of the executions
  operator,  \* locals of the release-hold requests
  edits,     \* outside changes made so far
  calm       \* have faults ceased?

dbVars == <<job, row, evidence, lock>>
envVars == <<edits, calm>>
tabVars == <<sheet, header, long, landed>>
vars == <<job, row, evidence, lock, sheet, header, long, orphans, landed,
          worker, operator, edits, calm>>

RowsOf(j) == {r \in Rows : JobOf[r] = j}
PendingOf(j) == {r \in RowsOf(j) : row[r] = "pending"}

(* Only an aged release has an evidence row for syncEvidence to update.    *)
HasEvidence(j) == Kind[j] = "aged_release"

-----------------------------------------------------------------------------
(* Claims, leases and the worksheet lock.                                   *)

Ages == 0 .. Horizon

IdleWorker ==
  [pc |-> "idle", job |-> None, age |-> 0, locked |-> FALSE, steal |-> None,
   fresh |-> FALSE, prepend |-> FALSE, again |-> FALSE, once |-> {}, dup |-> {},
   cut |-> FALSE, rows |-> {}, batch |-> 0, call |-> "none", goal |-> "queued", caught |-> FALSE]

IdleOperator ==
  [pc |-> "idle", job |-> None, marked |-> FALSE, once |-> {}, dup |-> {},
   cut |-> FALSE, goal |-> "retryable"]

(* A claim token is a fresh UUID.  It is represented by the worker that     *)
(* drew it; a token drawn by a settlement, which nobody keeps, by None.     *)
HoldsToken(w) == job[worker[w].job].claim = w
OwnsRun(w) == HoldsToken(w) /\ job[worker[w].job].status = "running"

(* A timestamp of age a is before the lease cutoff of a clock read age b ago. *)
Expired(a, b) == a > b + Lease
StaleRun(j, now) == job[j].status = "running" /\ Expired(job[j].age, now)

FreeLock == [owner |-> None, age |-> 0]

ReleaseLock(j) == IF lock.owner = j THEN FreeLock ELSE lock

(* Variant: a stale run is returned even when its append was started.       *)
BugSettleStaleRuns(S, now) ==
  /\ job' = [j \in Jobs |->
               IF j \in S THEN [job[j] EXCEPT !.status = "retryable", !.claim = None,
                                             !.age = 0, !.marker = FALSE]
               ELSE job[j]]
  /\ lock' = IF lock.owner \in S THEN FreeLock ELSE lock
  /\ UNCHANGED evidence

(* settleStaleCompanySheetsRun for every job of S, all of them stale runs:  *)
(* without a marker the claim is returned, with one the job is held, and    *)
(* both draw a token that no worker has.                                    *)
SettleStaleRuns(S, now) ==
  LET held == {j \in S : job[j].marker}
      reclaimed == S \ held
      \* The lock row afterwards.  A lock that a returned claim owned may be
      \* taken by a held job settled after it, or freed after all of them.
      owners == IF lock.owner \in held THEN {lock.owner}
                ELSE IF lock.owner \in reclaimed THEN held \cup {None}
                ELSE IF lock.owner = None /\ held # {} THEN held
                ELSE {lock.owner}
  IN
  /\ job' = [j \in Jobs |->
               CASE j \in held -> [job[j] EXCEPT !.status = "uncertain", !.claim = None]
                 [] j \in reclaimed ->
                      [job[j] EXCEPT !.status = "retryable", !.claim = None, !.age = 0]
                 [] OTHER -> job[j]]
  /\ evidence' = [j \in Jobs |->
               CASE HasEvidence(j) /\ j \in held -> "uncertain"
                 [] HasEvidence(j) /\ j \in reclaimed -> "retryable"
                 [] OTHER -> evidence[j]]
  /\ \E o \in owners :
       lock' = CASE o \in held -> [owner |-> o, age |-> now]
                 [] o = None -> FreeLock
                 [] OTHER -> lock

-----------------------------------------------------------------------------
(* Worker control.                                                          *)

At(w, p) == worker[w].pc = p
Goto(w, p) == worker' = [worker EXCEPT ![w].pc = p]
Return(w) == worker' = [worker EXCEPT ![w] = IdleWorker]

(* Leaving runJob runs the finally block; leaving before it does not.       *)
Leave(w) == IF worker[w].locked
            THEN worker' = [worker EXCEPT ![w] = [IdleWorker EXCEPT !.pc = "unlock",
                                                    !.job = worker[w].job, !.locked = TRUE]]
            ELSE Return(w)

(* What is still read of the locals once an execution is to finish.         *)
Finishing(w, s) == [IdleWorker EXCEPT !.pc = "finish", !.job = worker[w].job,
                                      !.locked = worker[w].locked, !.goal = s,
                                      !.caught = worker[w].caught]
Finish(w, s) == worker' = [worker EXCEPT ![w] = Finishing(w, s)]

-----------------------------------------------------------------------------
(* executeCompanySheetsDeliveryJob, up to the worksheet lock.               *)

(* Variant: a running job is always left to its worker.                     *)
BugBegin(w, j) ==
  /\ At(w, "idle") /\ job[j].status \in {"queued", "retryable"}
  /\ worker' = [worker EXCEPT ![w] = [IdleWorker EXCEPT !.pc = "claim", !.job = j]]
  /\ UNCHANGED <<dbVars, tabVars, orphans, operator, envVars>>

(* The clock and the job row are read; the early returns change nothing.    *)
Begin(w, j) ==
  /\ At(w, "idle")
  /\ \/ /\ StaleRun(j, 0)
        /\ worker' = [worker EXCEPT ![w] = [IdleWorker EXCEPT !.pc = "settle", !.job = j]]
     \/ /\ job[j].status \in {"queued", "retryable"}
        /\ worker' = [worker EXCEPT ![w] = [IdleWorker EXCEPT !.pc = "claim", !.job = j]]
  /\ UNCHANGED <<dbVars, tabVars, orphans, operator, envVars>>

(* A stale run is settled in a transaction and this execution returns.      *)
Settle(w) ==
  /\ At(w, "settle")
  /\ LET j == worker[w].job
     IN  SettleStaleRuns(IF StaleRun(j, worker[w].age) THEN {j} ELSE {}, worker[w].age)
  /\ Return(w)
  /\ UNCHANGED <<row, tabVars, orphans, operator, envVars>>

Claim(w) ==
  /\ At(w, "claim")
  /\ LET j == worker[w].job
     IN  IF job[j].status \in {"queued", "retryable"} /\ ~job[j].marker
         THEN /\ job' = [job EXCEPT ![j].status = "running", ![j].claim = w,
                                    ![j].age = worker[w].age]
              /\ Goto(w, "gate")
         ELSE /\ Return(w)
              /\ UNCHANGED job
  /\ UNCHANGED <<row, evidence, lock, tabVars, orphans, operator, envVars>>

(* What the checks of the job's kind can answer: a lead that the person     *)
(* gate does not admit goes back to queued or fails, a test whose           *)
(* destination changed is held before any lock is taken.                    *)
GateRefusals(k) ==
  CASE k = "lead" -> {"queued", "failed"}
    [] k \in {"canary", "campaign_test"} -> {"uncertain"}
    [] OTHER -> {}

Gate(w) ==
  /\ At(w, "gate")
  /\ \/ Goto(w, "siblings")
     \/ \E s \in GateRefusals(Kind[worker[w].job]) : Finish(w, s)
  /\ UNCHANGED <<dbVars, tabVars, orphans, operator, envVars>>

(* acquireWorksheetLock, first transaction: the other stale runs on the tab. *)
SettleSiblings(w) ==
  /\ At(w, "siblings")
  /\ SettleStaleRuns({j \in Jobs \ {worker[w].job} : StaleRun(j, worker[w].age)},
                     worker[w].age)
  /\ Goto(w, "blocked")
  /\ UNCHANGED <<row, tabVars, orphans, operator, envVars>>

(* worksheetAppendBlocked.                                                  *)
Blocks(j) == job[j].status = "uncertain" \/ (job[j].status = "running" /\ job[j].marker)

CheckBlocked(w) ==
  /\ At(w, "blocked")
  /\ IF \E j \in Jobs \ {worker[w].job} : Blocks(j) THEN Finish(w, "queued")
     ELSE Goto(w, "readLock")
  /\ UNCHANGED <<dbVars, tabVars, orphans, operator, envVars>>

(* Variant: the owner that was read is not kept.                            *)
BugReadLock(w) ==
  /\ At(w, "readLock")
  /\ Goto(w, IF lock.owner \in {None, worker[w].job} THEN "takeLock" ELSE "readOwner")
  /\ UNCHANGED <<dbVars, tabVars, orphans, operator, envVars>>

ReadLock(w) ==
  /\ At(w, "readLock")
  /\ IF lock.owner \in {None, worker[w].job} THEN Goto(w, "takeLock")
     ELSE worker' = [worker EXCEPT ![w].pc = "readOwner", ![w].steal = lock.owner,
                                   ![w].fresh = ~Expired(lock.age, worker[w].age)]
  /\ UNCHANGED <<dbVars, tabVars, orphans, operator, envVars>>

(* Variant: a lock whose lease has run out may be stolen, whoever owns it.   *)
BugReadOwner(w) ==
  /\ At(w, "readOwner")
  /\ IF worker[w].fresh THEN Finish(w, "queued") ELSE Goto(w, "takeLock")
  /\ UNCHANGED <<dbVars, tabVars, orphans, operator, envVars>>

(* The owner is read after the lock row and may have moved on since.        *)
ReadOwner(w) ==
  /\ At(w, "readOwner")
  /\ LET owner == job[worker[w].steal]
         busy == \/ owner.status \in {"running", "uncertain"}
                 \/ owner.marker
                 \/ worker[w].fresh /\ owner.status # "succeeded"
     IN  IF busy THEN Finish(w, "queued") ELSE Goto(w, "takeLock")
  /\ UNCHANGED <<dbVars, tabVars, orphans, operator, envVars>>

(* Variant: only a free lock is taken.                                      *)
BugMayTake(w) == lock.owner \in {None, worker[w].job}

MayTake(w) ==
  \/ lock.owner \in {None, worker[w].job}
  \/ lock.owner = worker[w].steal /\ Expired(lock.age, worker[w].age)

TakeLock(w) ==
  /\ At(w, "takeLock")
  /\ IF MayTake(w)
     THEN /\ lock' = [owner |-> worker[w].job, age |-> worker[w].age]
          /\ worker' = [worker EXCEPT ![w] = [IdleWorker EXCEPT !.pc = "preflight",
                                                 !.job = worker[w].job, !.locked = TRUE]]
     ELSE /\ Finish(w, "queued")
          /\ UNCHANGED lock
  /\ UNCHANGED <<job, row, evidence, tabVars, orphans, operator, envVars>>

-----------------------------------------------------------------------------
(* runJob, up to the append.                                                *)

(* Access token, metadata, connection, company control: any of them may     *)
(* stop the attempt, and a different connection holds the job.              *)
Preflight(w) ==
  /\ At(w, "preflight")
  /\ \/ Goto(w, "inspect")
     \/ Finish(w, "retryable")
     \/ Finish(w, "uncertain")
  /\ UNCHANGED <<dbVars, tabVars, orphans, operator, envVars>>

(* Variant: only the data rows decide whether the tab is blank.             *)
BugBlankTab == \A r \in Rows : sheet[r] = 0

BlankTab == header = 0 /\ ~long /\ \A r \in Rows : sheet[r] = 0

(* inspectSheetHeader: present, blank, a conflict, or a read that failed.   *)
Inspect(w, here, next) ==
  /\ At(w, here)
  /\ \/ /\ header > 0 \/ BlankTab
        /\ worker' = [worker EXCEPT ![w].pc = next, ![w].prepend = BlankTab]
     \/ /\ ~(header > 0 \/ BlankTab)
        /\ Finish(w, "uncertain")
     \/ Finish(w, "retryable")
  /\ UNCHANGED <<dbVars, tabVars, orphans, operator, envVars>>

InspectHeader(w) == Inspect(w, "inspect", "confirm")
ReinspectHeader(w) == Inspect(w, "reinspect", "mark")

(* lostPreAppend: a run that already carries its marker is held.            *)
LostPreAppend(w) ==
  IF OwnsRun(w) /\ job[worker[w].job].marker THEN Finish(w, "uncertain") ELSE Leave(w)

BeforeAppend(w) == OwnsRun(w) /\ ~job[worker[w].job].marker

ConfirmClaim(w) ==
  /\ At(w, "confirm")
  /\ IF BeforeAppend(w) THEN Goto(w, "column") ELSE LostPreAppend(w)
  /\ UNCHANGED <<dbVars, tabVars, orphans, operator, envVars>>

(* stableIdCounts of column A: the ids of j read once, and more than once.  *)
(* What a tab longer than the cap has below it is not read.                 *)
Reading(j, once, dup) ==
  LET here == {r \in RowsOf(j) : sheet[r] > 0}
      twice == {r \in RowsOf(j) : sheet[r] > 1}
  IN  /\ dup \subseteq twice /\ once \subseteq here \ dup
      /\ ~long => dup = twice /\ once = here \ twice

(* reconcilePending reads the column, before the first batch and again      *)
(* after an ambiguous append; a read that fails holds the job.              *)
ReadColumn(w) ==
  /\ At(w, "column")
  /\ \/ \E once, dup \in SUBSET RowsOf(worker[w].job) :
          /\ Reading(worker[w].job, once, dup)
          /\ worker' = [worker EXCEPT ![w].pc = "adopt", ![w].once = once, ![w].dup = dup,
                                      ![w].cut = long]
     \/ Finish(w, "uncertain")
  /\ UNCHANGED <<dbVars, tabVars, orphans, operator, envVars>>

(* The rows that were seen are adopted in a transaction under the claim; the *)
(* reads of the pending rows next to it are taken with it.                  *)
Adopt(w) ==
  /\ At(w, "adopt")
  /\ LET pending == PendingOf(worker[w].job)
         found == IF pending \cap worker[w].dup # {} THEN {}
                  ELSE pending \cap worker[w].once
         missing == pending \ found
         held == \/ pending \cap worker[w].dup # {}
                 \/ worker[w].cut /\ missing # {}
                 \/ worker[w].again /\ worker[w].rows \cap missing # {}
     IN  IF ~OwnsRun(w) THEN Leave(w) /\ UNCHANGED row
         ELSE /\ row' = [r \in Rows |-> IF r \in found THEN "written" ELSE row[r]]
              /\ IF held THEN Finish(w, "uncertain")
                 ELSE worker' = [worker EXCEPT ![w].once = {}, ![w].dup = {}, ![w].cut = FALSE,
                        ![w].pc = IF worker[w].again THEN "advance" ELSE "load"]
  /\ UNCHANGED <<job, evidence, lock, tabVars, orphans, operator, envVars>>

(* The next pending rows in ordinal order, at most a batch of them.         *)
NextBatch(j) ==
  {r \in PendingOf(j) : Cardinality({s \in PendingOf(j) : s <= r}) <= BatchSize}

LoadBatch(w) ==
  /\ At(w, "load")
  /\ LET j == worker[w].job
     IN  IF PendingOf(j) = {} THEN Finish(w, "succeeded")
         ELSE IF worker[w].batch = MaxBatches THEN Finish(w, "retryable")
         ELSE worker' = [worker EXCEPT ![w].rows = NextBatch(j), ![w].batch = @ + 1,
                              ![w].pc = IF worker[w].prepend THEN "reinspect" ELSE "mark"]
  /\ UNCHANGED <<dbVars, tabVars, orphans, operator, envVars>>

(* Variant: the marker is stored without asking for the claim.              *)
BugMark(w) ==
  /\ At(w, "mark")
  /\ job' = [job EXCEPT ![worker[w].job].marker = TRUE]
  /\ Goto(w, "send")
  /\ UNCHANGED <<row, evidence, lock, tabVars, orphans, operator, envVars>>

(* The marker is stored under the claim before Google is called.            *)
Mark(w) ==
  /\ At(w, "mark")
  /\ IF BeforeAppend(w)
     THEN /\ job' = [job EXCEPT ![worker[w].job].marker = TRUE]
          /\ Goto(w, "send")
     ELSE /\ LostPreAppend(w)
          /\ UNCHANGED job
  /\ UNCHANGED <<row, evidence, lock, tabVars, orphans, operator, envVars>>

-----------------------------------------------------------------------------
(* The append and its answer.                                               *)

Send(w) ==
  /\ At(w, "send")
  /\ worker' = [worker EXCEPT ![w].pc = "await", ![w].call = "open"]
  /\ UNCHANGED <<dbVars, tabVars, orphans, operator, envVars>>

(* values.append inserts a batch at once, the header with it when asked.    *)
Insert(rows, withHeader) ==
  /\ sheet' = [r \in Rows |-> IF r \in rows THEN sheet[r] + 1 ELSE sheet[r]]
  /\ landed' = [r \in Rows |-> IF r \in rows THEN landed[r] + 1 ELSE landed[r]]
  /\ header' = header + (IF withHeader THEN 1 ELSE 0)
  /\ UNCHANGED long

Land(w) ==
  /\ At(w, "await") /\ worker[w].call = "open"
  /\ Insert(worker[w].rows, worker[w].prepend)
  /\ worker' = [worker EXCEPT ![w].call = "landed"]
  /\ UNCHANGED <<dbVars, orphans, operator, envVars>>

(* An append whose caller has gone may still be executed.                   *)
LandOrphan(c) ==
  /\ Insert(c.rows, c.prepend)
  /\ orphans' = orphans \ {c}
  /\ UNCHANGED <<dbVars, worker, operator, envVars>>

OpenCall(w) == [rows |-> worker[w].rows, prepend |-> worker[w].prepend]

(* What Google still has of w's append once w stops waiting for it.         *)
OrphansWithout(w) ==
  IF worker[w].call = "open" THEN orphans \cup {OpenCall(w)} ELSE orphans

(* Variant: whatever came back, or nothing, counts as a success.            *)
BugAppendOk(w) ==
  /\ At(w, "await")
  /\ orphans' = OrphansWithout(w)
  /\ worker' = [worker EXCEPT ![w].pc = "written", ![w].call = "none"]
  /\ UNCHANGED <<dbVars, tabVars, operator, envVars>>

AppendOk(w) ==
  /\ At(w, "await") /\ worker[w].call = "landed"
  /\ worker' = [worker EXCEPT ![w].pc = "written", ![w].call = "none"]
  /\ UNCHANGED <<dbVars, tabVars, orphans, operator, envVars>>

(* 400, 401, 403, 404, 429: Google did not and will not insert the rows.    *)
AppendRefused(w) ==
  /\ At(w, "await") /\ worker[w].call = "open"
  /\ Finish(w, IF PendingOf(worker[w].job) = {} THEN "succeeded" ELSE "retryable")
  /\ UNCHANGED <<dbVars, tabVars, orphans, operator, envVars>>

(* Variant: a timeout is taken for a refusal and the job is tried again.    *)
BugAppendAmbiguous(w) ==
  /\ At(w, "await")
  /\ orphans' = OrphansWithout(w)
  /\ Finish(w, "retryable")
  /\ UNCHANGED <<dbVars, tabVars, operator, envVars>>

(* A timeout, a network error, a 5xx or an unknown status says nothing: the *)
(* same execution reads the column again and does not append again.         *)
AppendAmbiguous(w) ==
  /\ At(w, "await")
  /\ orphans' = OrphansWithout(w)
  /\ worker' = [worker EXCEPT ![w].pc = "column", ![w].call = "none", ![w].again = TRUE]
  /\ UNCHANGED <<dbVars, tabVars, operator, envVars>>

(* markRowsWrittenIfClaimed: some of the rows may have been adopted already. *)
MarkRowsWritten(w) ==
  /\ At(w, "written")
  /\ IF OwnsRun(w)
     THEN /\ row' = [r \in Rows |-> IF r \in worker[w].rows THEN "written" ELSE row[r]]
          /\ IF \A r \in worker[w].rows : row[r] = "pending" THEN Goto(w, "advance")
             ELSE Finish(w, "uncertain")
     ELSE Finish(w, "uncertain") /\ UNCHANGED row
  /\ UNCHANGED <<job, evidence, lock, tabVars, orphans, operator, envVars>>

(* The batch is accounted for: the marker is cleared under the claim.       *)
Advance(w) ==
  /\ At(w, "advance")
  /\ IF OwnsRun(w)
     THEN /\ job' = [job EXCEPT ![worker[w].job].marker = FALSE]
          /\ worker' = [worker EXCEPT ![w].pc = "load", ![w].rows = {},
                                      ![w].again = FALSE, ![w].prepend = FALSE]
     ELSE Leave(w) /\ UNCHANGED job
  /\ UNCHANGED <<row, evidence, lock, tabVars, orphans, operator, envVars>>

-----------------------------------------------------------------------------
(* Leaving an execution.                                                    *)

(* finishJob: the status and the marker are written under the token.        *)
FinishJob(w) ==
  /\ At(w, "finish")
  /\ LET j == worker[w].job
         s == worker[w].goal
     IN  IF HoldsToken(w)
         THEN /\ job' = [job EXCEPT ![j].status = s, ![j].age = 0,
                                    ![j].marker = @ /\ s = "uncertain"]
              /\ Goto(w, "sync")
         ELSE Leave(w) /\ UNCHANGED job
  /\ UNCHANGED <<row, evidence, lock, tabVars, orphans, operator, envVars>>

(* syncEvidence is a statement of its own after finishJob's.                *)
SyncEvidence(w) ==
  /\ At(w, "sync")
  /\ LET j == worker[w].job
     IN  evidence' = IF HasEvidence(j) THEN [evidence EXCEPT ![j] = worker[w].goal]
                     ELSE evidence
  /\ Leave(w)
  /\ UNCHANGED <<job, row, lock, tabVars, orphans, operator, envVars>>

(* releaseFinishedClaimLock, in one transaction.                            *)
ReleaseFinishedClaimLock(w) ==
  /\ At(w, "unlock")
  /\ LET j == worker[w].job
     IN  lock' = IF HoldsToken(w) /\ job[j].status \notin {"running", "uncertain"}
                 THEN ReleaseLock(j) ELSE lock
  /\ Return(w)
  /\ UNCHANGED <<job, row, evidence, tabVars, orphans, operator, envVars>>

(* A database error inside the try block holds the job, also when it comes  *)
(* after finishJob has stored the outcome; one inside the catch block       *)
(* leaves the execution.                                                    *)
Throw(w) ==
  /\ ~calm /\ worker[w].locked
  /\ \/ /\ ~worker[w].caught
        /\ worker[w].pc \in {"preflight", "confirm", "adopt", "load", "mark", "written",
                             "advance", "finish", "sync"}
        /\ worker' = [worker EXCEPT ![w] = [Finishing(w, "uncertain") EXCEPT !.caught = TRUE]]
     \/ /\ worker[w].caught /\ worker[w].pc \in {"finish", "sync"}
        /\ Leave(w)
  /\ UNCHANGED <<dbVars, tabVars, orphans, operator, envVars>>

(* The process dies, or loses its connection, between two statements.       *)
Crash(w) ==
  /\ ~calm /\ ~At(w, "idle")
  /\ Return(w)
  /\ orphans' = OrphansWithout(w)
  /\ UNCHANGED <<dbVars, tabVars, operator, envVars>>

-----------------------------------------------------------------------------
(* releaseCompanySheetsDeliveryHold.  The job read at the start is the one  *)
(* every later decision is taken on.                                        *)

OpAt(o, p) == operator[o].pc = p
OpReturn(o) == operator' = [operator EXCEPT ![o] = IdleOperator]
OpGoto(o, p) == operator' = [operator EXCEPT ![o].pc = p]

ReleaseHold(o, j) ==
  /\ OpAt(o, "idle") /\ job[j].status = "uncertain"
  /\ operator' = [operator EXCEPT ![o] = [IdleOperator EXCEPT !.pc = "column", !.job = j,
                                            !.marked = job[j].marker]]
  /\ UNCHANGED <<dbVars, tabVars, orphans, worker, envVars>>

OpReadColumn(o) ==
  /\ OpAt(o, "column")
  /\ \E once, dup \in SUBSET RowsOf(operator[o].job) :
       /\ Reading(operator[o].job, once, dup)
       /\ operator' = [operator EXCEPT ![o].pc = "adopt", ![o].once = once, ![o].dup = dup,
                                       ![o].cut = long]
  /\ UNCHANGED <<dbVars, tabVars, orphans, worker, envVars>>

(* Variant: whatever was seen, the phrase lifts the hold, and some adopted   *)
(* row completes the delivery.                                              *)
BugOpAdopt(o) ==
  /\ OpAt(o, "adopt")
  /\ LET found == PendingOf(operator[o].job) \cap operator[o].once
     IN  /\ row' = [r \in Rows |-> IF r \in found THEN "written" ELSE row[r]]
         /\ operator' = [operator EXCEPT ![o].pc = "release",
              ![o].goal = IF found = {} THEN "retryable" ELSE "succeeded"]
  /\ UNCHANGED <<job, evidence, lock, tabVars, orphans, worker, envVars>>

(* A repeated id, or an append whose row is not seen, keeps the hold.  The  *)
(* adoption is not made under any claim.                                    *)
OpAdopt(o) ==
  /\ OpAt(o, "adopt")
  /\ LET pending == PendingOf(operator[o].job)
         found == pending \cap operator[o].once
         missing == pending \ found
         unresolved == \/ operator[o].marked /\ (missing # {} \/ operator[o].cut)
                       \/ operator[o].cut /\ missing # {}
     IN  IF operator[o].dup # {} THEN OpReturn(o) /\ UNCHANGED row
         ELSE /\ row' = [r \in Rows |-> IF r \in found THEN "written" ELSE row[r]]
              /\ IF unresolved THEN OpReturn(o)
                 ELSE operator' = [operator EXCEPT ![o].pc = "release",
                        ![o].goal = IF missing = {} THEN "succeeded" ELSE "retryable"]
  /\ UNCHANGED <<job, evidence, lock, tabVars, orphans, worker, envVars>>

(* The hold is lifted where the status is still uncertain.                  *)
OpRelease(o) ==
  /\ OpAt(o, "release")
  /\ LET j == operator[o].job
     IN  IF job[j].status = "uncertain"
         THEN /\ job' = [job EXCEPT ![j].status = operator[o].goal, ![j].marker = FALSE]
              /\ OpGoto(o, "unlock")
         ELSE OpReturn(o) /\ UNCHANGED job
  /\ UNCHANGED <<row, evidence, lock, tabVars, orphans, worker, envVars>>

(* The worksheet lock is released by a statement of its own.                *)
OpUnlock(o) ==
  /\ OpAt(o, "unlock")
  /\ lock' = ReleaseLock(operator[o].job)
  /\ OpGoto(o, "sync")
  /\ UNCHANGED <<job, row, evidence, tabVars, orphans, worker, envVars>>

OpSync(o) ==
  /\ OpAt(o, "sync")
  /\ LET j == operator[o].job
     IN  evidence' = IF HasEvidence(j) THEN [evidence EXCEPT ![j] = operator[o].goal]
                     ELSE evidence
  /\ OpReturn(o)
  /\ UNCHANGED <<job, row, lock, tabVars, orphans, worker, envVars>>

(* The column cannot be read, or the request dies between two statements.   *)
OpGone(o) ==
  /\ ~calm /\ ~OpAt(o, "idle")
  /\ OpReturn(o)
  /\ UNCHANGED <<dbVars, tabVars, orphans, worker, envVars>>

-----------------------------------------------------------------------------
(* Time and the outside editor of the tab.                                  *)

Older(a) == IF a < Horizon THEN a + 1 ELSE a

(* Only ages that a later step may read are kept: those of runs, of the     *)
(* held lock and of executions up to the worksheet lock.                    *)
ClockPcs == {"settle", "claim", "gate", "siblings", "blocked", "readLock", "readOwner",
             "takeLock"}

Tick ==
  /\ \A w \in Workers :
       worker[w].pc \in ClockPcs =>
         worker[w].age < IF At(w, "claim") THEN ClaimLag ELSE ClockLag
  /\ job' = [j \in Jobs |-> IF job[j].status = "running"
                            THEN [job[j] EXCEPT !.age = Older(@)] ELSE job[j]]
  /\ lock' = IF lock.owner = None THEN lock ELSE [lock EXCEPT !.age = Older(@)]
  /\ worker' = [w \in Workers |-> IF worker[w].pc \in ClockPcs
                                  THEN [worker[w] EXCEPT !.age = Older(@)] ELSE worker[w]]
  /\ UNCHANGED <<row, evidence, tabVars, orphans, operator, envVars>>

CalmDown ==
  /\ FaultsCease /\ ~calm
  /\ calm' = TRUE
  /\ UNCHANGED <<dbVars, tabVars, orphans, worker, operator, edits>>

(* Somebody copies or deletes a row, deletes the header, or fills the tab.   *)
Edit ==
  /\ edits < MaxEdits
  /\ \/ \E r \in Rows : /\ sheet[r] = 1
                        /\ \E n \in {0, 2} : sheet' = [sheet EXCEPT ![r] = n]
                        /\ UNCHANGED <<header, long>>
     \/ /\ header = 1 /\ header' = 0
        /\ UNCHANGED <<sheet, long>>
     \/ /\ ~long /\ long' = TRUE
        /\ UNCHANGED <<sheet, header>>
  /\ edits' = edits + 1
  /\ UNCHANGED <<dbVars, landed, orphans, worker, operator, calm>>

-----------------------------------------------------------------------------

Init ==
  /\ job = [j \in Jobs |-> [status |-> "queued", claim |-> None, age |-> 0, marker |-> FALSE]]
  /\ row = [r \in Rows |-> "pending"]
  /\ evidence = [j \in Jobs |-> "queued"]
  /\ lock = FreeLock
  /\ sheet = [r \in Rows |-> 0]
  /\ landed = [r \in Rows |-> 0]
  /\ header \in {0, 1}
  /\ long = FALSE
  /\ orphans = {}
  /\ worker = [w \in Workers |-> IdleWorker]
  /\ operator = [o \in Operators |-> IdleOperator]
  /\ edits = 0
  /\ calm = FALSE

Execute(w) ==
  \/ Settle(w) \/ Claim(w) \/ Gate(w)
  \/ SettleSiblings(w) \/ CheckBlocked(w) \/ ReadLock(w) \/ ReadOwner(w) \/ TakeLock(w)
  \/ Preflight(w) \/ InspectHeader(w) \/ ConfirmClaim(w) \/ ReadColumn(w) \/ Adopt(w)
  \/ LoadBatch(w) \/ ReinspectHeader(w) \/ Mark(w) \/ Send(w)
  \/ AppendOk(w) \/ AppendRefused(w) \/ AppendAmbiguous(w)
  \/ MarkRowsWritten(w) \/ Advance(w)
  \/ FinishJob(w) \/ SyncEvidence(w) \/ ReleaseFinishedClaimLock(w)

Release(o) ==
  \/ OpReadColumn(o) \/ OpAdopt(o) \/ OpRelease(o) \/ OpUnlock(o) \/ OpSync(o)

Next ==
  \/ \E w \in Workers, j \in Jobs : Begin(w, j)
  \/ \E w \in Workers : Execute(w) \/ Land(w) \/ Throw(w) \/ Crash(w)
  \/ \E c \in orphans : LandOrphan(c)
  \/ \E o \in Operators, j \in Jobs : ReleaseHold(o, j)
  \/ \E o \in Operators : Release(o) \/ OpGone(o)
  \/ Tick
  \/ Edit
  \/ CalmDown

Spec == Init /\ [][Next]_vars

(* Scheduling.  A handler that has not died runs on; the repeating drain    *)
(* and the admin routes attempt every job again and again; time passes;     *)
(* Google answers every request within its timeout, but nothing says which  *)
(* answer; processes die and databases fail only finitely often.            *)
Running ==
  /\ SF_vars(Tick)
  /\ WF_vars(CalmDown)
  /\ \A w \in Workers : WF_vars(Execute(w))
  /\ \A j \in Jobs : SF_vars(\E w \in Workers : Begin(w, j))
FairSpec == Spec /\ Running

(* An operator also keeps asking to release every held job, and Google      *)
(* executes the appends it has accepted in the end.                         *)
Attended ==
  /\ WF_vars(\E c \in orphans : LandOrphan(c))
  /\ \A o \in Operators : WF_vars(Release(o))
  /\ \A j \in Jobs : SF_vars(\E o \in Operators : ReleaseHold(o, j))
AttendedSpec == FairSpec /\ Attended

-----------------------------------------------------------------------------
(* Properties.                                                              *)

WorkerPcs ==
  {"idle", "settle", "claim", "gate", "siblings", "blocked", "readLock", "readOwner",
   "takeLock", "preflight", "inspect", "confirm", "column", "adopt", "load", "reinspect",
   "mark", "send", "await", "written", "advance", "finish", "sync", "unlock"}
OperatorPcs == {"idle", "column", "adopt", "release", "unlock", "sync"}

JobRecords == [status : Statuses, claim : Workers \cup {None}, age : Ages, marker : BOOLEAN]
LockRecords == [owner : Jobs \cup {None}, age : Ages]
Calls == [rows : SUBSET Rows, prepend : BOOLEAN]
WorkerRecords ==
  [pc : WorkerPcs, job : Jobs \cup {None}, age : Ages, locked : BOOLEAN,
   steal : Jobs \cup {None}, fresh : BOOLEAN, prepend : BOOLEAN, again : BOOLEAN,
   once : SUBSET Rows, dup : SUBSET Rows, cut : BOOLEAN, rows : SUBSET Rows, batch : 0 .. MaxBatches,
   call : {"none", "open", "landed"}, goal : Statuses, caught : BOOLEAN]
OperatorRecords ==
  [pc : OperatorPcs, job : Jobs \cup {None}, marked : BOOLEAN, once : SUBSET Rows,
   dup : SUBSET Rows, cut : BOOLEAN, goal : Statuses]

(* Every variable keeps its type, and a process that is under way has a job. *)
TypeOK ==
  /\ job \in [Jobs -> JobRecords]
  /\ row \in [Rows -> {"pending", "written"}]
  /\ evidence \in [Jobs -> Statuses]
  /\ lock \in LockRecords
  /\ sheet \in [Rows -> Nat] /\ landed \in [Rows -> Nat]
  /\ header \in Nat /\ long \in BOOLEAN /\ edits \in 0 .. MaxEdits /\ calm \in BOOLEAN
  /\ orphans \subseteq Calls
  /\ worker \in [Workers -> WorkerRecords]
  /\ operator \in [Operators -> OperatorRecords]
  /\ \A w \in Workers : At(w, "idle") \/ worker[w].job \in Jobs
  /\ \A w \in Workers : At(w, "readOwner") => worker[w].steal \in Jobs
  /\ \A o \in Operators : OpAt(o, "idle") \/ operator[o].job \in Jobs

(* The appends of r that Google may still execute.                          *)
OpenAppends(r) ==
  Cardinality({w \in Workers : worker[w].call = "open" /\ r \in worker[w].rows})
    + Cardinality({c \in orphans : r \in c.rows})

(* No row is ever handed to Google again while an earlier append of it has  *)
(* landed or may still land: not after a timeout, a crash of the worker, a  *)
(* lease that ran out, a reclaimed claim or an operator's release.          *)
AtMostOnce == \A r \in Rows : landed[r] + OpenAppends(r) <= 1

(* A row that an append has carried, or still carries, is recorded as       *)
(* written or its job keeps appendStartedAt.                                *)
NoForgottenAppend ==
  \A r \in Rows : row[r] = "pending" /\ landed[r] + OpenAppends(r) > 0
                    => job[JobOf[r]].marker

(* A row is recorded as written only once an append of it has landed.       *)
WrittenRowsLanded == \A r \in Rows : row[r] = "written" => landed[r] > 0

LandedRows == {r \in Rows : landed[r] > 0}
WrittenRows == {r \in Rows : row[r] = "written"}

(* What the locals x of an execution say about rows that have landed (L)    *)
(* and rows that are recorded (W).                                          *)
WorkerSound(x, L, W) ==
  /\ x.once \subseteq L
  /\ x.pc # "await" => x.call = "none"
  /\ x.pc = "written" \/ x.call = "landed" => x.rows \subseteq L
  /\ x.pc \in {"finish", "sync"} /\ x.goal = "succeeded" => RowsOf(x.job) \subseteq W

OperatorSound(x, L, W) ==
  /\ x.once \subseteq L
  /\ x.pc = "release" /\ x.goal = "succeeded" => RowsOf(x.job) \subseteq W

(* Whatever the tab, the row records, the job records and the locals of     *)
(* every process, the stale ones included, claim to have been delivered     *)
(* has landed: the invariant behind WrittenRowsLanded and VerifiedDelivery. *)
Accounted ==
  /\ \A r \in Rows : sheet[r] > 0 => r \in LandedRows
  /\ WrittenRows \subseteq LandedRows
  /\ \A j \in Jobs : job[j].status = "succeeded" => RowsOf(j) \subseteq WrittenRows
  /\ \A w \in Workers : WorkerSound(worker[w], LandedRows, WrittenRows)
  /\ \A o \in Operators : OperatorSound(operator[o], LandedRows, WrittenRows)

(* The proof a client's CSV download asks for, evidence and job both        *)
(* succeeded, is given only when every row of the release has landed.       *)
VerifiedDelivery ==
  \A j \in Jobs : job[j].status = "succeeded" /\ evidence[j] = "succeeded"
                    => \A r \in RowsOf(j) : landed[r] > 0

Appending(j) == job[j].status = "running" /\ job[j].marker

(* No job starts an append on the worksheet while an append of another job  *)
(* is running or unresolved.                                                *)
OneAppendAtATime ==
  [][\A j \in Jobs : ~Appending(j) /\ Appending(j)' =>
       \A k \in Jobs \ {j} : ~job[k].marker]_vars

(* The header is never on the tab twice, although every append that finds   *)
(* the tab blank carries one.                                               *)
HeaderOnce == header <= 1

(* Lifting a hold clears appendStartedAt only with every row accounted for. *)
ReleaseKeepsMarker ==
  [][\A j \in Jobs : job[j].status = "uncertain" /\ job[j].marker /\ ~job'[j].marker
       => \A r \in RowsOf(j) : row[r] = "written"]_vars

(* A claim whose worker died does not keep its job running for ever: once   *)
(* the lease has run out another execution returns or holds it.             *)
ClaimsEnd == \A j \in Jobs : job[j].status = "running" ~> job[j].status # "running"

(* A lock left behind by a finished job, whose worker died before releasing *)
(* it, does not keep a waiting job off the worksheet for ever, unless the   *)
(* job's own worker holds it after all.                                     *)
LeftLockIsTaken ==
  \A j, k \in Jobs :
    /\ lock.owner = j /\ job[j].status \in {"succeeded", "failed"}
    /\ job[k].status \in {"queued", "retryable"}
    ~> lock.owner # j \/ job[j].status = "uncertain"

(* A hold ends: the row is found and adopted, or the append is given up.    *)
HoldsEnd == \A j \in Jobs : job[j].status = "uncertain" ~> job[j].status # "uncertain"

(* When nothing is under way the evidence of a delivered release says so.   *)
EvidenceFollowsJob ==
  (\A w \in Workers : At(w, "idle")) /\ (\A o \in Operators : OpAt(o, "idle")) =>
    \A j \in Jobs : HasEvidence(j) /\ job[j].status = "succeeded"
                      => evidence[j] = "succeeded"

Ledger ==
  INSTANCE AppendLedger WITH copies <- landed,
                             recorded <- {r \in Rows : row[r] = "written"},
                             delivered <- {j \in Jobs : job[j].status = "succeeded"}

(* The engine implements the ledger: each row is inserted once, recorded    *)
(* only after that, and a job is delivered once all its rows are recorded.  *)
ImplementsLedger == Ledger!Spec
=============================================================================
