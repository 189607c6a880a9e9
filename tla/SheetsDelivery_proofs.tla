----------------------- MODULE SheetsDelivery_proofs -----------------------
(***************************************************************************)
(* The delivery engine for every instance: type correctness, by one typing *)
(* lemma for each kind of step, on the parts of TypeOK that the step can   *)
(* disturb; then that what is recorded as written or delivered has landed. *)
(***************************************************************************)
EXTENDS SheetsDelivery, TLAPS

USE KindAssumption, JobOfAssumption, NoneAssumption, BoundsAssumption

(* The parts of TypeOK, in the form in which the steps preserve them.       *)
WorkerOK(x) ==
  /\ x \in WorkerRecords
  /\ x.pc = "idle" \/ x.job \in Jobs
  /\ x.pc = "readOwner" => x.steal \in Jobs
WorkersOK == worker \in [Workers -> WorkerRecords] /\ \A w \in Workers : WorkerOK(worker[w])

OperatorOK(x) == x \in OperatorRecords /\ (x.pc = "idle" \/ x.job \in Jobs)
OperatorsOK ==
  operator \in [Operators -> OperatorRecords] /\ \A o \in Operators : OperatorOK(operator[o])

JobsOK == job \in [Jobs -> JobRecords]
LockOK == lock \in LockRecords
RowsOK == row \in [Rows -> {"pending", "written"}]
EvidenceOK == evidence \in [Jobs -> Statuses]
TabOK == /\ sheet \in [Rows -> Nat] /\ landed \in [Rows -> Nat]
         /\ header \in Nat /\ long \in BOOLEAN
OrphansOK == orphans \subseteq Calls
BoundsOK == edits \in 0 .. MaxEdits /\ calm \in BOOLEAN

LEMMA TypeParts ==
  TypeOK <=> /\ WorkersOK /\ OperatorsOK /\ JobsOK /\ LockOK /\ RowsOK
             /\ EvidenceOK /\ TabOK /\ OrphansOK /\ BoundsOK
  BY DEF TypeOK, WorkersOK, WorkerOK, OperatorsOK, OperatorOK, JobsOK, LockOK, RowsOK,
         EvidenceOK, TabOK, OrphansOK, BoundsOK, At, OpAt

LEMMA ZeroIsAnAge == 0 \in Ages /\ \A a \in Ages : Older(a) \in Ages
  BY DEF Ages, Older

LEMMA IdleOK == WorkerOK(IdleWorker) /\ OperatorOK(IdleOperator)
  BY DEF IdleWorker, IdleOperator, WorkerOK, OperatorOK, WorkerRecords, OperatorRecords,
         WorkerPcs, OperatorPcs, Ages, Statuses

(* Locals of an execution that has moved on, with nothing else changed.     *)
LEMMA MovedOK ==
  ASSUME NEW x, WorkerOK(x), x.job \in Jobs, NEW p \in WorkerPcs, p # "readOwner"
  PROVE  WorkerOK([x EXCEPT !.pc = p])
  BY DEF WorkerOK, WorkerRecords

LEMMA StartedOK ==
  ASSUME NEW j \in Jobs, NEW p \in WorkerPcs, p # "readOwner"
  PROVE  WorkerOK([IdleWorker EXCEPT !.pc = p, !.job = j])
  BY IdleOK DEF WorkerOK, WorkerRecords

LEMMA FinishingOK ==
  ASSUME NEW w \in Workers, WorkerOK(worker[w]), worker[w].job \in Jobs, NEW s \in Statuses
  PROVE  WorkerOK(Finishing(w, s))
  <1>1. worker[w].locked \in BOOLEAN /\ worker[w].caught \in BOOLEAN
    BY DEF WorkerOK, WorkerRecords
  <1>2. "finish" \in WorkerPcs
    BY DEF WorkerPcs
  <1> QED
    BY <1>1, <1>2, IdleOK DEF Finishing, WorkerOK, WorkerRecords

(* The ways in which an action changes the locals of one execution.         *)
LEMMA WorkerUpdate ==
  ASSUME WorkersOK, NEW w \in Workers, NEW x, WorkerOK(x), worker' = [worker EXCEPT ![w] = x]
  PROVE  WorkersOK'
  BY DEF WorkersOK, WorkerOK

LEMMA GotoOK ==
  ASSUME WorkersOK, NEW w \in Workers, ~At(w, "idle"),
         NEW p \in WorkerPcs, p # "readOwner", Goto(w, p)
  PROVE  WorkersOK'
  <1>1. worker[w].job \in Jobs /\ WorkerOK(worker[w])
    BY DEF WorkersOK, WorkerOK, At
  <1>2. worker' = [worker EXCEPT ![w] = [worker[w] EXCEPT !.pc = p]]
    BY DEF Goto
  <1> QED
    BY <1>1, <1>2, MovedOK, WorkerUpdate

LEMMA ReturnOK ==
  ASSUME WorkersOK, NEW w \in Workers, Return(w)
  PROVE  WorkersOK'
  BY IdleOK, WorkerUpdate DEF Return

LEMMA FinishOK ==
  ASSUME WorkersOK, NEW w \in Workers, ~At(w, "idle"), NEW s \in Statuses, Finish(w, s)
  PROVE  WorkersOK'
  <1>1. worker[w].job \in Jobs /\ WorkerOK(worker[w])
    BY DEF WorkersOK, WorkerOK, At
  <1> QED
    BY <1>1, FinishingOK, WorkerUpdate DEF Finish

LEMMA LeaveOK ==
  ASSUME WorkersOK, NEW w \in Workers, ~At(w, "idle"), Leave(w)
  PROVE  WorkersOK'
  <1>1. worker[w].job \in Jobs /\ WorkerOK(worker[w])
    BY DEF WorkersOK, WorkerOK, At
  <1>2. CASE ~worker[w].locked
    BY <1>2, ReturnOK DEF Leave
  <1>3. CASE worker[w].locked
    <2> DEFINE x == [IdleWorker EXCEPT !.pc = "unlock", !.job = worker[w].job, !.locked = TRUE]
    <2>1. WorkerOK(x)
      <3>1. IdleWorker \in WorkerRecords
        BY IdleOK DEF WorkerOK
      <3>2. x \in WorkerRecords /\ x.pc = "unlock" /\ x.job = worker[w].job
        BY <1>1, <3>1 DEF WorkerRecords, WorkerPcs
      <3> QED
        BY <1>1, <3>2 DEF WorkerOK
    <2>2. worker' = [worker EXCEPT ![w] = x]
      BY <1>3 DEF Leave
    <2> QED
      BY <2>1, <2>2, WorkerUpdate
  <1> QED
    BY <1>2, <1>3

LEMMA LostPreAppendOK ==
  ASSUME WorkersOK, NEW w \in Workers, ~At(w, "idle"), LostPreAppend(w)
  PROVE  WorkersOK'
  BY FinishOK, LeaveOK DEF LostPreAppend, Statuses

Types == /\ WorkersOK /\ OperatorsOK /\ JobsOK /\ LockOK /\ RowsOK
         /\ EvidenceOK /\ TabOK /\ OrphansOK /\ BoundsOK

LEMMA SettleOK ==
  ASSUME JobsOK, LockOK, EvidenceOK, NEW S \in SUBSET Jobs, NEW now \in Ages,
         SettleStaleRuns(S, now)
  PROVE  JobsOK' /\ LockOK' /\ EvidenceOK'
  <1> DEFINE held == {j \in S : job[j].marker}
             reclaimed == S \ held
  <1>1. JobsOK'
    <2>1. ASSUME NEW j \in Jobs
          PROVE  /\ job[j] \in JobRecords
                 /\ [job[j] EXCEPT !.status = "uncertain", !.claim = None] \in JobRecords
                 /\ [job[j] EXCEPT !.status = "retryable", !.claim = None, !.age = 0] \in JobRecords
      BY ZeroIsAnAge DEF JobsOK, JobRecords, Statuses
    <2> QED
      BY <2>1 DEF SettleStaleRuns, JobsOK
  <1>2. EvidenceOK'
    BY DEF SettleStaleRuns, EvidenceOK, Statuses
  <1>3. LockOK'
    <2>1. /\ FreeLock \in LockRecords
          /\ \A o \in held : [owner |-> o, age |-> now] \in LockRecords
      BY ZeroIsAnAge DEF FreeLock, LockRecords
    <2> QED
      BY <2>1 DEF SettleStaleRuns, LockOK
  <1> QED
    BY <1>1, <1>2, <1>3

LEMMA InsertOK ==
  ASSUME TabOK, NEW R, NEW h, Insert(R, h)
  PROVE  TabOK'
  BY DEF TabOK, Insert

LEMMA OrphansWithoutOK ==
  ASSUME OrphansOK, WorkersOK, NEW w \in Workers, orphans' = OrphansWithout(w)
  PROVE  OrphansOK'
  BY DEF OrphansOK, WorkersOK, WorkerOK, WorkerRecords, OrphansWithout, OpenCall, Calls

LEMMA ReleaseLockOK ==
  ASSUME LockOK, NEW j, lock' = ReleaseLock(j) \/ lock' = lock
  PROVE  LockOK'
  BY ZeroIsAnAge DEF LockOK, ReleaseLock, FreeLock, LockRecords

LEMMA JobUpdate ==
  ASSUME JobsOK, NEW j \in Jobs, NEW x \in JobRecords, job' = [job EXCEPT ![j] = x]
  PROVE  JobsOK'
  BY DEF JobsOK

LEMMA ReadingLocals ==
  ASSUME NEW x, WorkerOK(x), x.job \in Jobs, NEW once \in SUBSET Rows, NEW dup \in SUBSET Rows,
         NEW cut \in BOOLEAN
  PROVE  WorkerOK([x EXCEPT !.pc = "adopt", !.once = once, !.dup = dup, !.cut = cut])
  BY DEF WorkerOK, WorkerRecords, WorkerPcs

(* The steps that change nothing but the locals of an execution.            *)
LEMMA OnlyLocals ==
  ASSUME Types, WorkersOK', UNCHANGED <<dbVars, tabVars, orphans, operator, envVars>>
  PROVE  Types'
  BY DEF Types, dbVars, tabVars, envVars, OperatorsOK, JobsOK, LockOK, RowsOK, EvidenceOK,
         TabOK, OrphansOK, BoundsOK

LEMMA BeginTypes ==
  ASSUME Types, NEW w \in Workers, NEW j \in Jobs, Begin(w, j)
  PROVE  Types'
  <1>1. WorkersOK'
    <2>1. /\ WorkerOK([IdleWorker EXCEPT !.pc = "settle", !.job = j])
          /\ WorkerOK([IdleWorker EXCEPT !.pc = "claim", !.job = j])
      BY StartedOK DEF WorkerPcs
    <2> QED
      BY <2>1, WorkerUpdate DEF Begin, Types
  <1> QED
    BY <1>1, OnlyLocals DEF Begin

LEMMA LocalStepTypes ==
  ASSUME Types, NEW w \in Workers,
         \/ Gate(w) \/ CheckBlocked(w) \/ ReadLock(w) \/ ReadOwner(w) \/ Preflight(w)
         \/ InspectHeader(w) \/ ReinspectHeader(w) \/ ConfirmClaim(w) \/ ReadColumn(w)
         \/ LoadBatch(w) \/ Send(w) \/ AppendOk(w) \/ AppendRefused(w) \/ Throw(w)
  PROVE  Types'
  <1> DEFINE x == worker[w]
  <1>1. ~At(w, "idle")
    BY DEF Gate, CheckBlocked, ReadLock, ReadOwner, Preflight, InspectHeader, ReinspectHeader,
           Inspect, ConfirmClaim, ReadColumn, LoadBatch, Send, AppendOk, AppendRefused, Throw, At
  <1>2. WorkersOK /\ x \in WorkerRecords /\ WorkerOK(x) /\ x.job \in Jobs
    BY <1>1 DEF Types, WorkersOK, WorkerOK, At
  <1>3. CASE Gate(w)
    <2>1. \A s \in GateRefusals(Kind[x.job]) : s \in Statuses
      BY DEF GateRefusals, Statuses
    <2>2. WorkersOK'
      BY <1>1, <1>2, <1>3, <2>1, GotoOK, FinishOK DEF Gate, WorkerPcs
    <2> QED
      BY <1>3, <2>2, OnlyLocals DEF Gate
  <1>4. CASE CheckBlocked(w)
    <2>1. WorkersOK'
      BY <1>1, <1>2, <1>4, GotoOK, FinishOK DEF CheckBlocked, WorkerPcs, Statuses
    <2> QED
      BY <1>4, <2>1, OnlyLocals DEF CheckBlocked
  <1>5. CASE ReadLock(w)
    <2>1. CASE lock.owner \in {None, x.job}
      BY <1>1, <1>2, <1>5, <2>1, GotoOK, OnlyLocals DEF ReadLock, WorkerPcs
    <2>2. CASE lock.owner \notin {None, x.job}
      <3> DEFINE fresh == ~Expired(lock.age, x.age)
                 y == [x EXCEPT !.pc = "readOwner", !.steal = lock.owner, !.fresh = fresh]
      <3>1. lock.owner \in Jobs
        BY <2>2 DEF Types, LockOK, LockRecords
      <3>2. fresh \in BOOLEAN
        BY DEF Expired
      <3>3. "readOwner" \in WorkerPcs
        BY DEF WorkerPcs
      <3> HIDE DEF fresh
      <3>4. WorkerOK(y)
        BY <1>2, <3>1, <3>2, <3>3 DEF WorkerOK, WorkerRecords
      <3>5. worker' = [worker EXCEPT ![w] = y]
        BY <1>2, <1>5, <2>2 DEF ReadLock, WorkersOK, fresh
      <3>6. WorkersOK'
        BY <1>2, <3>4, <3>5, WorkerUpdate
      <3> QED
        BY <1>5, <3>6, OnlyLocals DEF ReadLock
    <2> QED
      BY <2>1, <2>2
  <1>6. CASE ReadOwner(w)
    <2>1. WorkersOK'
      BY <1>1, <1>2, <1>6, GotoOK, FinishOK DEF ReadOwner, WorkerPcs, Statuses
    <2> QED
      BY <1>6, <2>1, OnlyLocals DEF ReadOwner
  <1>7. CASE Preflight(w)
    <2>1. WorkersOK'
      BY <1>1, <1>2, <1>7, GotoOK, FinishOK DEF Preflight, WorkerPcs, Statuses
    <2> QED
      BY <1>7, <2>1, OnlyLocals DEF Preflight
  <1>8. ASSUME NEW here, NEW next \in {"confirm", "mark"}, Inspect(w, here, next)
        PROVE  Types'
    <2> DEFINE y == [x EXCEPT !.pc = next, !.prepend = BlankTab]
    <2>1. BlankTab \in BOOLEAN /\ next \in WorkerPcs
      BY DEF BlankTab, WorkerPcs
    <2>2. WorkerOK(y)
      BY <1>2, <2>1 DEF WorkerOK, WorkerRecords
    <2>3. \/ worker' = [worker EXCEPT ![w] = y]
          \/ Finish(w, "uncertain") \/ Finish(w, "retryable")
      BY <1>2, <1>8 DEF Inspect, WorkersOK
    <2>4. WorkersOK'
      BY <1>1, <1>2, <2>2, <2>3, WorkerUpdate, FinishOK DEF Statuses
    <2> QED
      BY <1>8, <2>4, OnlyLocals DEF Inspect
  <1>9. CASE ConfirmClaim(w)
    <2>1. WorkersOK'
      BY <1>1, <1>2, <1>9, GotoOK, LostPreAppendOK DEF ConfirmClaim, WorkerPcs
    <2> QED
      BY <1>9, <2>1, OnlyLocals DEF ConfirmClaim
  <1>10. CASE ReadColumn(w)
    <2>1. ASSUME NEW once \in SUBSET RowsOf(x.job), NEW dup \in SUBSET RowsOf(x.job),
                 worker' = [worker EXCEPT ![w].pc = "adopt", ![w].once = once,
                                          ![w].dup = dup, ![w].cut = long]
          PROVE  WorkersOK'
      <3> DEFINE y == [x EXCEPT !.pc = "adopt", !.once = once, !.dup = dup, !.cut = long]
      <3>1. once \in SUBSET Rows /\ dup \in SUBSET Rows /\ long \in BOOLEAN
        BY DEF RowsOf, Types, TabOK
      <3>2. WorkerOK(y)
        BY <1>2, <3>1, ReadingLocals
      <3>3. worker' = [worker EXCEPT ![w] = y]
        BY <1>2, <2>1 DEF WorkersOK
      <3> QED
        BY <1>2, <3>2, <3>3, WorkerUpdate
    <2>2. WorkersOK'
      BY <1>1, <1>2, <1>10, <2>1, FinishOK DEF ReadColumn, Statuses
    <2> QED
      BY <1>10, <2>2, OnlyLocals DEF ReadColumn
  <1>11. CASE LoadBatch(w)
    <2> DEFINE next == IF x.prepend THEN "reinspect" ELSE "mark"
               y == [x EXCEPT !.rows = NextBatch(x.job), !.batch = x.batch + 1, !.pc = next]
    <2>1. \/ worker' = [worker EXCEPT ![w] = y] /\ x.batch # MaxBatches
          \/ Finish(w, "succeeded") \/ Finish(w, "retryable")
      BY <1>2, <1>11 DEF LoadBatch, WorkersOK
    <2>2. ASSUME x.batch # MaxBatches PROVE WorkerOK(y)
      <3>1. x.batch \in 0 .. MaxBatches
        BY <1>2 DEF WorkerRecords
      <3>2. x.batch + 1 \in 0 .. MaxBatches
        BY <2>2, <3>1
      <3>3. NextBatch(x.job) \in SUBSET Rows /\ next \in WorkerPcs /\ next # "readOwner"
        BY DEF NextBatch, PendingOf, RowsOf, WorkerPcs
      <3> HIDE DEF next
      <3> QED
        BY <1>2, <3>2, <3>3 DEF WorkerOK, WorkerRecords
    <2> HIDE DEF y
    <2>3. WorkersOK'
      BY <1>1, <1>2, <2>1, <2>2, WorkerUpdate, FinishOK DEF Statuses
    <2> QED
      BY <1>11, <2>3, OnlyLocals DEF LoadBatch
  <1>12. CASE Send(w)
    <2> DEFINE y == [x EXCEPT !.pc = "await", !.call = "open"]
    <2>1. WorkerOK(y)
      BY <1>2 DEF WorkerOK, WorkerRecords, WorkerPcs
    <2>2. worker' = [worker EXCEPT ![w] = y]
      BY <1>2, <1>12 DEF Send, WorkersOK
    <2> QED
      BY <1>2, <1>12, <2>1, <2>2, WorkerUpdate, OnlyLocals DEF Send
  <1>13. CASE AppendOk(w)
    <2> DEFINE y == [x EXCEPT !.pc = "written", !.call = "none"]
    <2>1. WorkerOK(y)
      BY <1>2 DEF WorkerOK, WorkerRecords, WorkerPcs
    <2>2. worker' = [worker EXCEPT ![w] = y]
      BY <1>2, <1>13 DEF AppendOk, WorkersOK
    <2> QED
      BY <1>2, <1>13, <2>1, <2>2, WorkerUpdate, OnlyLocals DEF AppendOk
  <1>14. CASE AppendRefused(w)
    <2>1. WorkersOK'
      BY <1>1, <1>2, <1>14, FinishOK DEF AppendRefused, Statuses
    <2> QED
      BY <1>14, <2>1, OnlyLocals DEF AppendRefused
  <1>15. CASE Throw(w)
    <2> DEFINE y == [Finishing(w, "uncertain") EXCEPT !.caught = TRUE]
    <2>1. WorkerOK(Finishing(w, "uncertain"))
      BY <1>2, FinishingOK DEF Statuses
    <2>2. WorkerOK(y)
      BY <2>1 DEF WorkerOK, WorkerRecords
    <2> HIDE DEF y
    <2>3. worker' = [worker EXCEPT ![w] = y] \/ Leave(w)
      BY <1>15 DEF Throw, y
    <2>4. WorkersOK'
      BY <1>1, <1>2, <2>2, <2>3, WorkerUpdate, LeaveOK
    <2> QED
      BY <1>15, <2>4, OnlyLocals DEF Throw
  <1> QED
    BY <1>3, <1>4, <1>5, <1>6, <1>7, <1>8, <1>9, <1>10, <1>11, <1>12, <1>13, <1>14, <1>15
       DEF InspectHeader, ReinspectHeader

(* The steps of an execution that write to the database.                    *)
LEMMA StoreStepTypes ==
  ASSUME Types, NEW w \in Workers,
         \/ Settle(w) \/ Claim(w) \/ SettleSiblings(w) \/ TakeLock(w) \/ Adopt(w) \/ Mark(w)
         \/ MarkRowsWritten(w) \/ Advance(w) \/ FinishJob(w) \/ SyncEvidence(w)
         \/ ReleaseFinishedClaimLock(w)
  PROVE  Types'
  <1> DEFINE x == worker[w]
  <1>1. ~At(w, "idle")
    BY DEF Settle, Claim, SettleSiblings, TakeLock, Adopt, Mark, MarkRowsWritten, Advance,
           FinishJob, SyncEvidence, ReleaseFinishedClaimLock, At
  <1>2. WorkersOK /\ x \in WorkerRecords /\ WorkerOK(x) /\ x.job \in Jobs
    BY <1>1 DEF Types, WorkersOK, WorkerOK, At
  <1>3. x.age \in Ages /\ x.goal \in Statuses
    BY <1>2 DEF WorkerRecords
  <1>4. JobsOK /\ LockOK /\ RowsOK /\ EvidenceOK /\ job[x.job] \in JobRecords
    BY <1>2 DEF Types, JobsOK
  <1> USE DEF Types
  <1>5. CASE Settle(w)
    <2>1. WorkersOK'
      BY <1>5, ReturnOK DEF Settle
    <2>2. JobsOK' /\ LockOK' /\ EvidenceOK'
      BY <1>2, <1>3, <1>5, SettleOK DEF Settle
    <2> QED
      BY <1>5, <2>1, <2>2 DEF Settle, tabVars, envVars, OperatorsOK, RowsOK, TabOK,
                              OrphansOK, BoundsOK
  <1>6. CASE SettleSiblings(w)
    <2>1. WorkersOK'
      BY <1>1, <1>6, GotoOK DEF SettleSiblings, WorkerPcs
    <2>2. JobsOK' /\ LockOK' /\ EvidenceOK'
      BY <1>2, <1>3, <1>6, SettleOK DEF SettleSiblings
    <2> QED
      BY <1>6, <2>1, <2>2 DEF SettleSiblings, tabVars, envVars, OperatorsOK, RowsOK, TabOK,
                              OrphansOK, BoundsOK
  <1>7. CASE Claim(w)
    <2>1. WorkersOK'
      BY <1>1, <1>7, GotoOK, ReturnOK DEF Claim, WorkerPcs
    <2>2. [job[x.job] EXCEPT !.status = "running", !.claim = w, !.age = x.age] \in JobRecords
      BY <1>3, <1>4 DEF JobRecords, Statuses
    <2>3. JobsOK'
      BY <1>2, <1>7, <2>2 DEF Claim, JobsOK
    <2> QED
      BY <1>7, <2>1, <2>3 DEF Claim, tabVars, envVars, OperatorsOK, LockOK, RowsOK, EvidenceOK,
                              TabOK, OrphansOK, BoundsOK
  <1>8. CASE TakeLock(w)
    <2> DEFINE y == [IdleWorker EXCEPT !.pc = "preflight", !.job = x.job, !.locked = TRUE]
    <2>1. WorkerOK(y)
      BY <1>2, IdleOK DEF WorkerOK, WorkerRecords, WorkerPcs
    <2>2. WorkersOK'
      BY <1>1, <1>8, <2>1, WorkerUpdate, FinishOK DEF TakeLock, Statuses
    <2>3. LockOK'
      BY <1>2, <1>3, <1>8 DEF TakeLock, LockOK, LockRecords
    <2> QED
      BY <1>8, <2>2, <2>3 DEF TakeLock, tabVars, envVars, OperatorsOK, JobsOK, RowsOK, EvidenceOK,
                              TabOK, OrphansOK, BoundsOK
  <1>9. CASE Adopt(w)
    <2> DEFINE next == IF x.again THEN "advance" ELSE "load"
               y == [x EXCEPT !.once = {}, !.dup = {}, !.cut = FALSE, !.pc = next]
    <2>1. next \in WorkerPcs /\ next # "readOwner"
      BY DEF WorkerPcs
    <2> HIDE DEF next
    <2>2. WorkerOK(y)
      BY <1>2, <2>1 DEF WorkerOK, WorkerRecords
    <2> USE DEF next
    <2>3. worker' = [worker EXCEPT ![w] = y] \/ Finish(w, "uncertain") \/ Leave(w)
      BY <1>9 DEF Adopt, WorkersOK
    <2>4. WorkersOK'
      BY <1>1, <2>2, <2>3, WorkerUpdate, FinishOK, LeaveOK DEF Statuses
    <2>5. RowsOK'
      BY <1>9 DEF Adopt, RowsOK
    <2> QED
      BY <1>9, <2>4, <2>5 DEF Adopt, tabVars, envVars, OperatorsOK, JobsOK, LockOK, EvidenceOK,
                              TabOK, OrphansOK, BoundsOK
  <1>10. CASE Mark(w)
    <2>1. WorkersOK'
      BY <1>1, <1>10, GotoOK, LostPreAppendOK DEF Mark, WorkerPcs
    <2>2. [job[x.job] EXCEPT !.marker = TRUE] \in JobRecords
      BY <1>4 DEF JobRecords
    <2>3. JobsOK'
      BY <1>2, <1>10, <2>2 DEF Mark, JobsOK
    <2> QED
      BY <1>10, <2>1, <2>3 DEF Mark, tabVars, envVars, OperatorsOK, LockOK, RowsOK, EvidenceOK,
                               TabOK, OrphansOK, BoundsOK
  <1>11. CASE MarkRowsWritten(w)
    <2>1. WorkersOK'
      BY <1>1, <1>11, GotoOK, FinishOK DEF MarkRowsWritten, WorkerPcs, Statuses
    <2>2. RowsOK'
      BY <1>11 DEF MarkRowsWritten, RowsOK
    <2> QED
      BY <1>11, <2>1, <2>2 DEF MarkRowsWritten, tabVars, envVars, OperatorsOK, JobsOK, LockOK,
                               EvidenceOK, TabOK, OrphansOK, BoundsOK
  <1>12. CASE Advance(w)
    <2> DEFINE y == [x EXCEPT !.pc = "load", !.rows = {}, !.again = FALSE, !.prepend = FALSE]
    <2>1. WorkerOK(y)
      <3>1. x \in WorkerRecords /\ x.job \in Jobs
        BY <1>2 DEF WorkerOK
      <3>2. y.pc = "load" /\ y.job = x.job
        BY <3>1 DEF WorkerRecords
      <3>3. y \in WorkerRecords
        BY <3>1 DEF WorkerRecords, WorkerPcs
      <3> HIDE DEF y
      <3> QED
        BY <3>1, <3>2, <3>3 DEF WorkerOK
    <2>2. worker' = [worker EXCEPT ![w] = y] \/ Leave(w)
      BY <1>12 DEF Advance, WorkersOK
    <2>3. WorkersOK'
      BY <1>1, <2>1, <2>2, WorkerUpdate, LeaveOK
    <2>4. [job[x.job] EXCEPT !.marker = FALSE] \in JobRecords
      BY <1>4 DEF JobRecords
    <2>5. JobsOK'
      BY <1>2, <1>12, <2>4 DEF Advance, JobsOK
    <2> QED
      BY <1>12, <2>3, <2>5 DEF Advance, tabVars, envVars, OperatorsOK, LockOK, RowsOK,
                               EvidenceOK, TabOK, OrphansOK, BoundsOK
  <1>13. CASE FinishJob(w)
    <2>1. WorkersOK'
      BY <1>1, <1>13, GotoOK, LeaveOK DEF FinishJob, WorkerPcs
    <2>2. [job[x.job] EXCEPT !.status = x.goal, !.age = 0,
                             !.marker = @ /\ x.goal = "uncertain"] \in JobRecords
      BY <1>3, <1>4, ZeroIsAnAge DEF JobRecords
    <2>3. JobsOK'
      BY <1>2, <1>13, <2>2 DEF FinishJob, JobsOK
    <2> QED
      BY <1>13, <2>1, <2>3 DEF FinishJob, tabVars, envVars, OperatorsOK, LockOK, RowsOK,
                               EvidenceOK, TabOK, OrphansOK, BoundsOK
  <1>14. CASE SyncEvidence(w)
    <2>1. WorkersOK'
      BY <1>1, <1>14, LeaveOK DEF SyncEvidence
    <2>2. EvidenceOK'
      BY <1>3, <1>14 DEF SyncEvidence, EvidenceOK
    <2> QED
      BY <1>14, <2>1, <2>2 DEF SyncEvidence, tabVars, envVars, OperatorsOK, JobsOK, LockOK,
                               RowsOK, TabOK, OrphansOK, BoundsOK
  <1>15. CASE ReleaseFinishedClaimLock(w)
    <2>1. WorkersOK'
      BY <1>15, ReturnOK DEF ReleaseFinishedClaimLock
    <2>2. LockOK'
      BY <1>15, ReleaseLockOK DEF ReleaseFinishedClaimLock
    <2> QED
      BY <1>15, <2>1, <2>2 DEF ReleaseFinishedClaimLock, tabVars, envVars, OperatorsOK, JobsOK,
                               RowsOK, EvidenceOK, TabOK, OrphansOK, BoundsOK
  <1> QED
    BY <1>5, <1>6, <1>7, <1>8, <1>9, <1>10, <1>11, <1>12, <1>13, <1>14, <1>15

(* The steps in which Google, or the loss of an execution, takes part.      *)
LEMMA CallStepTypes ==
  ASSUME Types, NEW w \in Workers, AppendAmbiguous(w) \/ Land(w) \/ Crash(w)
  PROVE  Types'
  <1> DEFINE x == worker[w]
  <1>1. WorkersOK /\ x \in WorkerRecords /\ WorkerOK(x) /\ (At(w, "await") => x.job \in Jobs)
    BY DEF Types, WorkersOK, WorkerOK, At
  <1> USE DEF Types
  <1>2. CASE AppendAmbiguous(w)
    <2> DEFINE y == [x EXCEPT !.pc = "column", !.call = "none", !.again = TRUE]
    <2>1. WorkerOK(y)
      BY <1>1, <1>2 DEF WorkerOK, WorkerRecords, WorkerPcs, AppendAmbiguous, At
    <2>2. worker' = [worker EXCEPT ![w] = y]
      BY <1>2 DEF AppendAmbiguous, WorkersOK
    <2>3. WorkersOK' /\ OrphansOK'
      BY <1>2, <2>1, <2>2, WorkerUpdate, OrphansWithoutOK DEF AppendAmbiguous
    <2> QED
      BY <1>2, <2>3 DEF AppendAmbiguous, dbVars, tabVars, envVars, OperatorsOK, JobsOK, LockOK,
                        RowsOK, EvidenceOK, TabOK, BoundsOK
  <1>3. CASE Land(w)
    <2> DEFINE y == [x EXCEPT !.call = "landed"]
    <2>1. WorkerOK(y)
      BY <1>1 DEF WorkerOK, WorkerRecords
    <2>2. worker' = [worker EXCEPT ![w] = y]
      BY <1>3 DEF Land, WorkersOK
    <2>3. WorkersOK' /\ TabOK'
      BY <1>3, <2>1, <2>2, WorkerUpdate, InsertOK DEF Land
    <2> QED
      BY <1>3, <2>3 DEF Land, dbVars, envVars, OperatorsOK, JobsOK, LockOK,
                        RowsOK, EvidenceOK, OrphansOK, BoundsOK
  <1>4. CASE Crash(w)
    <2>1. WorkersOK' /\ OrphansOK'
      BY <1>4, ReturnOK, OrphansWithoutOK DEF Crash
    <2> QED
      BY <1>4, <2>1 DEF Crash, dbVars, tabVars, envVars, OperatorsOK, JobsOK, LockOK,
                        RowsOK, EvidenceOK, TabOK, BoundsOK
  <1> QED
    BY <1>2, <1>3, <1>4

LEMMA OperatorUpdate ==
  ASSUME OperatorsOK, NEW o \in Operators, NEW x, OperatorOK(x),
         operator' = [operator EXCEPT ![o] = x]
  PROVE  OperatorsOK'
  BY DEF OperatorsOK, OperatorOK

LEMMA OpReturnOK ==
  ASSUME OperatorsOK, NEW o \in Operators, OpReturn(o)
  PROVE  OperatorsOK'
  BY IdleOK, OperatorUpdate DEF OpReturn

LEMMA OpGotoOK ==
  ASSUME OperatorsOK, NEW o \in Operators, ~OpAt(o, "idle"), NEW p \in OperatorPcs, OpGoto(o, p)
  PROVE  OperatorsOK'
  <1>1. OperatorOK([operator[o] EXCEPT !.pc = p])
    BY DEF OperatorsOK, OperatorOK, OperatorRecords, OpAt
  <1>2. operator' = [operator EXCEPT ![o] = [operator[o] EXCEPT !.pc = p]]
    BY DEF OpGoto, OperatorsOK
  <1> QED
    BY <1>1, <1>2, OperatorUpdate

LEMMA ReleaseHoldTypes ==
  ASSUME Types, NEW o \in Operators, NEW j \in Jobs, ReleaseHold(o, j)
  PROVE  Types'
  <1> DEFINE y == [IdleOperator EXCEPT !.pc = "column", !.job = j, !.marked = job[j].marker]
  <1>1. job[j].marker \in BOOLEAN
    BY DEF Types, JobsOK, JobRecords
  <1>2. OperatorOK(y)
    BY <1>1, IdleOK DEF OperatorOK, OperatorRecords, OperatorPcs
  <1>3. OperatorsOK'
    BY <1>2, OperatorUpdate DEF ReleaseHold, Types
  <1> QED
    BY <1>3 DEF Types, ReleaseHold, dbVars, tabVars, envVars, WorkersOK, JobsOK, LockOK, RowsOK,
                EvidenceOK, TabOK, OrphansOK, BoundsOK

LEMMA ReleaseTypes ==
  ASSUME Types, NEW o \in Operators, Release(o) \/ OpGone(o)
  PROVE  Types'
  <1> DEFINE x == operator[o]
  <1>1. ~OpAt(o, "idle")
    BY DEF Release, OpReadColumn, OpAdopt, OpRelease, OpUnlock, OpSync, OpGone, OpAt
  <1>2. OperatorsOK /\ x \in OperatorRecords /\ OperatorOK(x) /\ x.job \in Jobs /\ x.goal \in Statuses
    BY <1>1 DEF Types, OperatorsOK, OperatorOK, OperatorRecords, OpAt
  <1> USE DEF Types
  <1>3. CASE OpReadColumn(o)
    <2>1. PICK once \in SUBSET RowsOf(x.job), dup \in SUBSET RowsOf(x.job) :
            operator' = [operator EXCEPT ![o].pc = "adopt", ![o].once = once, ![o].dup = dup,
                                         ![o].cut = long]
      BY <1>3 DEF OpReadColumn
    <2> DEFINE y == [x EXCEPT !.pc = "adopt", !.once = once, !.dup = dup, !.cut = long]
    <2>2. once \in SUBSET Rows /\ dup \in SUBSET Rows /\ long \in BOOLEAN
      BY DEF RowsOf, TabOK
    <2>3. OperatorOK(y)
      BY <1>2, <2>2 DEF OperatorOK, OperatorRecords, OperatorPcs
    <2>4. operator' = [operator EXCEPT ![o] = y]
      BY <1>2, <2>1 DEF OperatorsOK
    <2>5. OperatorsOK'
      BY <1>2, <2>3, <2>4, OperatorUpdate
    <2> QED
      BY <1>3, <2>5 DEF OpReadColumn, dbVars, tabVars, envVars, WorkersOK, JobsOK, LockOK,
                        RowsOK, EvidenceOK, TabOK, OrphansOK, BoundsOK
  <1>4. CASE OpAdopt(o)
    <2>1. ASSUME NEW g \in {"succeeded", "retryable"},
                 operator' = [operator EXCEPT ![o].pc = "release", ![o].goal = g]
          PROVE  OperatorsOK'
      <3> DEFINE y == [x EXCEPT !.pc = "release", !.goal = g]
      <3>1. OperatorOK(y)
        BY <1>2 DEF OperatorOK, OperatorRecords, OperatorPcs, Statuses
      <3>2. operator' = [operator EXCEPT ![o] = y]
        BY <1>2, <2>1 DEF OperatorsOK
      <3> QED
        BY <1>2, <3>1, <3>2, OperatorUpdate
    <2>2. OperatorsOK'
      BY <1>2, <1>4, <2>1, OpReturnOK DEF OpAdopt
    <2>3. RowsOK'
      BY <1>4 DEF OpAdopt, RowsOK
    <2> QED
      BY <1>4, <2>2, <2>3 DEF OpAdopt, tabVars, envVars, WorkersOK, JobsOK, LockOK,
                              EvidenceOK, TabOK, OrphansOK, BoundsOK
  <1>5. CASE OpRelease(o)
    <2>1. OperatorsOK'
      BY <1>1, <1>2, <1>5, OpGotoOK, OpReturnOK DEF OpRelease, OperatorPcs
    <2>2. [job[x.job] EXCEPT !.status = x.goal, !.marker = FALSE] \in JobRecords
      <3>1. job[x.job] \in JobRecords /\ x.goal \in Statuses
        BY <1>2 DEF JobsOK
      <3> QED
        BY <3>1 DEF JobRecords
    <2>3. JobsOK'
      BY <1>2, <1>5, <2>2 DEF OpRelease, JobsOK
    <2> QED
      BY <1>5, <2>1, <2>3 DEF OpRelease, tabVars, envVars, WorkersOK, LockOK, RowsOK,
                              EvidenceOK, TabOK, OrphansOK, BoundsOK
  <1>6. CASE OpUnlock(o)
    <2>1. OperatorsOK' /\ LockOK'
      BY <1>1, <1>6, OpGotoOK, ReleaseLockOK DEF OpUnlock, OperatorPcs
    <2> QED
      BY <1>6, <2>1 DEF OpUnlock, tabVars, envVars, WorkersOK, JobsOK, RowsOK,
                        EvidenceOK, TabOK, OrphansOK, BoundsOK
  <1>7. CASE OpSync(o)
    <2>1. OperatorsOK' /\ EvidenceOK'
      BY <1>2, <1>7, OpReturnOK DEF OpSync, EvidenceOK
    <2> QED
      BY <1>7, <2>1 DEF OpSync, tabVars, envVars, WorkersOK, JobsOK, RowsOK, LockOK,
                        TabOK, OrphansOK, BoundsOK
  <1>8. CASE OpGone(o)
    <2>1. OperatorsOK'
      BY <1>8, OpReturnOK DEF OpGone
    <2> QED
      BY <1>8, <2>1 DEF OpGone, dbVars, tabVars, envVars, WorkersOK, JobsOK, LockOK,
                        RowsOK, EvidenceOK, TabOK, OrphansOK, BoundsOK
  <1> QED
    BY <1>3, <1>4, <1>5, <1>6, <1>7, <1>8 DEF Release

LEMMA TickTypes ==
  ASSUME Types, Tick
  PROVE  Types'
  <1> USE DEF Types
  <1>1. JobsOK'
    <2>1. ASSUME NEW j \in Jobs
          PROVE  job[j] \in JobRecords /\ [job[j] EXCEPT !.age = Older(@)] \in JobRecords
      BY ZeroIsAnAge DEF JobsOK, JobRecords
    <2> QED
      BY <2>1 DEF Tick, JobsOK
  <1>2. LockOK'
    <2>1. [lock EXCEPT !.age = Older(@)] \in LockRecords
      BY ZeroIsAnAge DEF LockOK, LockRecords
    <2> QED
      BY <2>1 DEF Tick, LockOK
  <1>3. WorkersOK'
    <2>1. ASSUME NEW w \in Workers
          PROVE  WorkerOK(worker[w]) /\ WorkerOK([worker[w] EXCEPT !.age = Older(@)])
      BY ZeroIsAnAge DEF WorkersOK, WorkerOK, WorkerRecords
    <2>2. \A w \in Workers : WorkerOK(worker'[w])
      BY <2>1 DEF Tick
    <2>3. worker' \in [Workers -> WorkerRecords]
      BY <2>1 DEF Tick, WorkerOK
    <2> QED
      BY <2>2, <2>3 DEF WorkersOK
  <1> QED
    BY <1>1, <1>2, <1>3 DEF Tick, tabVars, envVars, OperatorsOK, RowsOK, EvidenceOK, TabOK,
                            OrphansOK, BoundsOK

LEMMA OutsideStepTypes ==
  ASSUME Types, (\E c \in orphans : LandOrphan(c)) \/ Edit \/ CalmDown
  PROVE  Types'
  <1> USE DEF Types
  <1>1. CASE \E c \in orphans : LandOrphan(c)
    <2>1. TabOK' /\ OrphansOK'
      BY <1>1, InsertOK DEF LandOrphan, OrphansOK
    <2> QED
      BY <1>1, <2>1 DEF LandOrphan, dbVars, envVars, WorkersOK, OperatorsOK, JobsOK, LockOK,
                        RowsOK, EvidenceOK, BoundsOK
  <1>2. CASE Edit
    <2>1. TabOK'
      <3>1. sheet' \in [Rows -> Nat] /\ header' \in Nat
        BY <1>2 DEF Edit, TabOK
      <3>2. long' \in BOOLEAN
        BY <1>2, Zenon DEF Edit, TabOK
      <3>3. landed' \in [Rows -> Nat]
        BY <1>2 DEF Edit, TabOK
      <3> QED
        BY <3>1, <3>2, <3>3 DEF TabOK
    <2>2. BoundsOK'
      BY <1>2 DEF Edit, BoundsOK
    <2> QED
      BY <1>2, <2>1, <2>2 DEF Edit, dbVars, WorkersOK, OperatorsOK, JobsOK, LockOK,
                        RowsOK, EvidenceOK, OrphansOK
  <1>3. CASE CalmDown
    BY <1>3 DEF CalmDown, dbVars, tabVars, WorkersOK, OperatorsOK, JobsOK, LockOK, RowsOK,
                EvidenceOK, TabOK, OrphansOK, BoundsOK
  <1> QED
    BY <1>1, <1>2, <1>3

LEMMA InitTypes == Init => Types
  <1> SUFFICES ASSUME Init PROVE Types
    OBVIOUS
  <1>1. WorkersOK /\ OperatorsOK
    BY IdleOK DEF Init, WorkersOK, WorkerOK, OperatorsOK, OperatorOK
  <1>2. JobsOK /\ LockOK
    BY ZeroIsAnAge DEF Init, JobsOK, LockOK, JobRecords, LockRecords, FreeLock, Statuses
  <1>3. RowsOK /\ EvidenceOK
    BY DEF Init, RowsOK, EvidenceOK, Statuses
  <1>4. long \in BOOLEAN /\ calm \in BOOLEAN
    BY Zenon DEF Init
  <1>5. sheet \in [Rows -> Nat] /\ landed \in [Rows -> Nat] /\ header \in Nat
    BY DEF Init
  <1>6. OrphansOK /\ edits \in 0 .. MaxEdits
    BY DEF Init, OrphansOK
  <1> QED
    BY <1>1, <1>2, <1>3, <1>4, <1>5, <1>6 DEF Types, TabOK, BoundsOK

LEMMA StepTypes == Types /\ [Next]_vars => Types'
  <1> SUFFICES ASSUME Types, [Next]_vars PROVE Types'
    OBVIOUS
  <1>1. ASSUME NEW w \in Workers, NEW j \in Jobs, Begin(w, j) PROVE Types'
    BY <1>1, BeginTypes
  <1>2. ASSUME NEW w \in Workers, Execute(w) \/ Land(w) \/ Throw(w) \/ Crash(w) PROVE Types'
    BY <1>2, LocalStepTypes, StoreStepTypes, CallStepTypes DEF Execute
  <1>3. ASSUME NEW o \in Operators, NEW j \in Jobs, ReleaseHold(o, j) PROVE Types'
    BY <1>3, ReleaseHoldTypes
  <1>4. ASSUME NEW o \in Operators, Release(o) \/ OpGone(o) PROVE Types'
    BY <1>4, ReleaseTypes
  <1>5. CASE UNCHANGED vars
    BY <1>5 DEF vars, Types, WorkersOK, OperatorsOK, JobsOK, LockOK, RowsOK, EvidenceOK, TabOK,
                OrphansOK, BoundsOK
  <1> QED
    BY <1>1, <1>2, <1>3, <1>4, <1>5, TickTypes, OutsideStepTypes DEF Next

(* Every variable of the engine keeps its type, for any number of jobs,     *)
(* rows, executions and operators.                                          *)
THEOREM TypeCorrect == Spec => []TypeOK
  <1>1. Spec => []Types
    BY InitTypes, StepTypes, PTL DEF Spec
  <1>2. Types => TypeOK
    BY TypeParts DEF Types
  <1> QED
    BY <1>1, <1>2, PTL

-----------------------------------------------------------------------------
(* What Sheets delivery records as written or delivered has landed on the   *)
(* tab.  Accounted is inductive: the locals of a process only make claims   *)
(* about rows that have landed or are recorded, both sets only grow, so a   *)
(* claim stays true however long a stale process keeps it, and no step      *)
(* needs to know who owns the job.                                          *)

Grows == LandedRows \subseteq LandedRows' /\ WrittenRows \subseteq WrittenRows'

SoundWorkers == \A w \in Workers : WorkerSound(worker[w], LandedRows, WrittenRows)
SoundOperators == \A o \in Operators : OperatorSound(operator[o], LandedRows, WrittenRows)
SoundTab == \A r \in Rows : sheet[r] > 0 => r \in LandedRows
SoundRows == WrittenRows \subseteq LandedRows
SoundJobs == \A j \in Jobs : job[j].status = "succeeded" => RowsOf(j) \subseteq WrittenRows

LEMMA AccountedParts ==
  Accounted <=> SoundTab /\ SoundRows /\ SoundJobs /\ SoundWorkers /\ SoundOperators
  BY DEF Accounted, SoundTab, SoundRows, SoundJobs, SoundWorkers, SoundOperators

Sound == SoundTab /\ SoundRows /\ SoundJobs /\ SoundWorkers /\ SoundOperators

(* The claims of locals only ask that certain rows are in the two sets.     *)
LEMMA SoundMonotone ==
  ASSUME NEW L, NEW W, NEW M, NEW X, L \subseteq M, W \subseteq X
  PROVE  /\ \A x : WorkerSound(x, L, W) => WorkerSound(x, M, X)
         /\ \A x : OperatorSound(x, L, W) => OperatorSound(x, M, X)
  BY DEF WorkerSound, OperatorSound

LEMMA NothingPending ==
  ASSUME RowsOK, NEW j \in Jobs, PendingOf(j) = {}
  PROVE  RowsOf(j) \subseteq WrittenRows
  BY DEF RowsOK, PendingOf, RowsOf, WrittenRows

LEMMA SoundIdle == \A L, W : WorkerSound(IdleWorker, L, W) /\ OperatorSound(IdleOperator, L, W)
  BY DEF WorkerSound, OperatorSound, IdleWorker, IdleOperator

LEMMA SoundStarted ==
  ASSUME NEW j, NEW p \in {"settle", "claim"}, NEW L, NEW W
  PROVE  WorkerSound([IdleWorker EXCEPT !.pc = p, !.job = j], L, W)
  BY DEF WorkerSound, IdleWorker

LEMMA SoundFinishing ==
  ASSUME NEW w \in Workers, NEW s, NEW L, NEW W,
         s = "succeeded" => RowsOf(worker[w].job) \subseteq W
  PROVE  WorkerSound(Finishing(w, s), L, W)
  BY DEF WorkerSound, Finishing, IdleWorker

(* The ways in which an action changes the locals of one execution.         *)
LEMMA SoundUpdate ==
  ASSUME WorkersOK, SoundWorkers, Grows, NEW w \in Workers, NEW x,
         worker' = [worker EXCEPT ![w] = x], WorkerSound(x, LandedRows', WrittenRows')
  PROVE  SoundWorkers'
  <1>1. ASSUME NEW v \in Workers
        PROVE  WorkerSound(worker'[v], LandedRows', WrittenRows')
    <2>1. CASE v = w
      BY <2>1 DEF WorkersOK
    <2>2. CASE v # w
      <3>1. worker'[v] = worker[v]
        BY <2>2 DEF WorkersOK
      <3> QED
        BY <3>1, SoundMonotone DEF SoundWorkers, Grows
    <2> QED
      BY <2>1, <2>2
  <1> QED
    BY <1>1 DEF SoundWorkers

LEMMA SoundFrame ==
  ASSUME SoundWorkers, Grows, UNCHANGED worker
  PROVE  SoundWorkers'
  BY SoundMonotone DEF SoundWorkers, Grows

LEMMA SoundReturn ==
  ASSUME WorkersOK, SoundWorkers, Grows, NEW w \in Workers, Return(w)
  PROVE  SoundWorkers'
  BY SoundIdle, SoundUpdate DEF Return

LEMMA SoundLeave ==
  ASSUME WorkersOK, SoundWorkers, Grows, NEW w \in Workers, Leave(w)
  PROVE  SoundWorkers'
  <1>1. CASE ~worker[w].locked
    BY <1>1, SoundReturn DEF Leave
  <1>2. CASE worker[w].locked
    <2> DEFINE x == [IdleWorker EXCEPT !.pc = "unlock", !.job = worker[w].job, !.locked = TRUE]
    <2>1. WorkerSound(x, LandedRows', WrittenRows')
      BY DEF WorkerSound, IdleWorker
    <2>2. worker' = [worker EXCEPT ![w] = x]
      BY <1>2 DEF Leave
    <2> QED
      BY <2>1, <2>2, SoundUpdate
  <1> QED
    BY <1>1, <1>2

LEMMA SoundFinish ==
  ASSUME WorkersOK, SoundWorkers, Grows, NEW w \in Workers, NEW s, Finish(w, s),
         s = "succeeded" => RowsOf(worker[w].job) \subseteq WrittenRows'
  PROVE  SoundWorkers'
  BY SoundFinishing, SoundUpdate DEF Finish

LEMMA SoundGoto ==
  ASSUME WorkersOK, SoundWorkers, Grows, NEW w \in Workers, NEW p, Goto(w, p),
         worker[w].pc # "await", p \notin {"written", "finish", "sync"}
  PROVE  SoundWorkers'
  <1> DEFINE x == [worker[w] EXCEPT !.pc = p]
  <1>1. worker[w] \in WorkerRecords /\ WorkerSound(worker[w], LandedRows', WrittenRows')
    BY SoundMonotone DEF WorkersOK, SoundWorkers, Grows
  <1>2. WorkerSound(x, LandedRows', WrittenRows')
    BY <1>1 DEF WorkerSound, WorkerRecords
  <1>3. worker' = [worker EXCEPT ![w] = x]
    BY DEF Goto, WorkersOK
  <1> QED
    BY <1>2, <1>3, SoundUpdate

LEMMA SoundLostPreAppend ==
  ASSUME WorkersOK, SoundWorkers, Grows, NEW w \in Workers, LostPreAppend(w)
  PROVE  SoundWorkers'
  BY SoundFinish, SoundLeave DEF LostPreAppend

(* The steps that neither touch the tab nor the records of rows and jobs.    *)
LEMMA SoundOnlyLocals ==
  ASSUME Sound, Grows => SoundWorkers', UNCHANGED <<job, row, sheet, landed, operator>>
  PROVE  Sound'
  <1>1. LandedRows' = LandedRows /\ WrittenRows' = WrittenRows
    BY DEF LandedRows, WrittenRows
  <1>2. Grows
    BY <1>1 DEF Grows
  <1> QED
    BY <1>1, <1>2 DEF Sound, SoundTab, SoundRows, SoundJobs, SoundOperators, RowsOf

(* The steps that write job records only, and succeed no job unduly.        *)
LEMMA SoundOnlyJobs ==
  ASSUME Sound, Grows => SoundWorkers', Grows => SoundOperators', UNCHANGED <<row, sheet, landed>>,
         \A j \in Jobs : job'[j].status = "succeeded"
                           => job[j].status = "succeeded" \/ RowsOf(j) \subseteq WrittenRows
  PROVE  Sound'
  <1>1. LandedRows' = LandedRows /\ WrittenRows' = WrittenRows
    BY DEF LandedRows, WrittenRows
  <1>2. Grows
    BY <1>1 DEF Grows
  <1>3. \A j \in Jobs : job'[j].status = "succeeded" => RowsOf(j) \subseteq WrittenRows
    BY DEF Sound, SoundJobs
  <1> QED
    BY <1>1, <1>2, <1>3 DEF Sound, SoundTab, SoundRows, SoundJobs, RowsOf

(* The steps that record rows, all of them landed.                          *)
LEMMA SoundRecording ==
  ASSUME Sound, RowsOK, NEW R, R \subseteq LandedRows,
         row' = [r \in Rows |-> IF r \in R THEN "written" ELSE row[r]],
         UNCHANGED <<job, sheet, landed>>,
         Grows => SoundWorkers' /\ SoundOperators'
  PROVE  Sound' /\ Grows /\ WrittenRows' = WrittenRows \cup (R \cap Rows)
  <1>1. LandedRows' = LandedRows /\ WrittenRows' = WrittenRows \cup (R \cap Rows)
    BY DEF LandedRows, WrittenRows, RowsOK
  <1>2. Grows
    BY <1>1 DEF Grows
  <1> QED
    BY <1>1, <1>2 DEF Sound, SoundTab, SoundRows, SoundJobs, RowsOf

LEMMA SoundOperatorsFrame ==
  ASSUME SoundOperators, Grows, UNCHANGED operator
  PROVE  SoundOperators'
  BY SoundMonotone DEF SoundOperators, Grows

LEMMA BeginSound ==
  ASSUME Types, Sound, NEW w \in Workers, NEW j \in Jobs, Begin(w, j)
  PROVE  Sound'
  <1>1. ASSUME Grows PROVE SoundWorkers'
    BY <1>1, SoundStarted, SoundUpdate DEF Begin, Types, Sound
  <1> QED
    BY <1>1, SoundOnlyLocals DEF Begin, dbVars, tabVars

LEMMA LocalStepSound ==
  ASSUME Types, Sound, NEW w \in Workers,
         \/ Gate(w) \/ CheckBlocked(w) \/ ReadLock(w) \/ ReadOwner(w) \/ Preflight(w)
         \/ InspectHeader(w) \/ ReinspectHeader(w) \/ ConfirmClaim(w) \/ ReadColumn(w)
         \/ LoadBatch(w) \/ Send(w) \/ AppendOk(w) \/ AppendRefused(w) \/ Throw(w)
  PROVE  Sound'
  <1> DEFINE x == worker[w]
             L == LandedRows'
             W == WrittenRows'
  <1>1. UNCHANGED <<job, row, sheet, landed, operator>>
    BY DEF Gate, CheckBlocked, ReadLock, ReadOwner, Preflight, InspectHeader, ReinspectHeader,
           Inspect, ConfirmClaim, ReadColumn, LoadBatch, Send, AppendOk, AppendRefused, Throw,
           dbVars, tabVars
  <1>2. LandedRows' = LandedRows /\ WrittenRows' = WrittenRows
    BY <1>1 DEF LandedRows, WrittenRows
  <1>3. Grows /\ WorkersOK /\ SoundWorkers /\ RowsOK /\ SoundTab
    BY <1>2 DEF Grows, Types, Sound
  <1>4. x \in WorkerRecords /\ WorkerSound(x, L, W)
    BY <1>2, <1>3 DEF WorkersOK, SoundWorkers
  <1> SUFFICES SoundWorkers'
    BY <1>1, SoundOnlyLocals
  <1> HIDE DEF L, W
  <1>5. CASE Gate(w)
    <2>1. \A s \in GateRefusals(Kind[x.job]) : s # "succeeded"
      BY DEF GateRefusals
    <2> QED
      BY <1>3, <1>5, <2>1, SoundGoto, SoundFinish DEF Gate, At
  <1>6. CASE CheckBlocked(w)
    BY <1>3, <1>6, SoundGoto, SoundFinish DEF CheckBlocked, At
  <1>7. CASE ReadLock(w)
    <2> DEFINE fresh == ~Expired(lock.age, x.age)
               y == [x EXCEPT !.pc = "readOwner", !.steal = lock.owner, !.fresh = fresh]
    <2> HIDE DEF fresh
    <2>1. WorkerSound(y, L, W)
      BY <1>4, <1>7 DEF WorkerSound, WorkerRecords, ReadLock, At
    <2>2. worker' = [worker EXCEPT ![w] = y] \/ Goto(w, "takeLock")
      BY <1>7 DEF ReadLock, fresh
    <2> QED
      BY <1>3, <1>7, <2>1, <2>2, SoundGoto, SoundUpdate DEF ReadLock, At, L, W
  <1>8. CASE ReadOwner(w)
    BY <1>3, <1>8, SoundGoto, SoundFinish DEF ReadOwner, At
  <1>9. CASE Preflight(w)
    BY <1>3, <1>9, SoundGoto, SoundFinish DEF Preflight, At
  <1>10. ASSUME NEW here \in {"inspect", "reinspect"}, NEW next \in {"confirm", "mark"},
                Inspect(w, here, next)
         PROVE  SoundWorkers'
    <2> DEFINE y == [x EXCEPT !.pc = next, !.prepend = BlankTab]
    <2>1. WorkerSound(y, L, W)
      BY <1>4, <1>10 DEF WorkerSound, WorkerRecords, Inspect, At
    <2>2. \/ worker' = [worker EXCEPT ![w] = y]
          \/ Finish(w, "uncertain") \/ Finish(w, "retryable")
      BY <1>10 DEF Inspect
    <2> QED
      BY <1>3, <2>1, <2>2, SoundUpdate, SoundFinish DEF L, W
  <1>11. CASE ConfirmClaim(w)
    BY <1>3, <1>11, SoundGoto, SoundLostPreAppend DEF ConfirmClaim, At
  <1>12. CASE ReadColumn(w)
    <2>1. ASSUME NEW once \in SUBSET RowsOf(x.job), NEW dup \in SUBSET RowsOf(x.job),
                 Reading(x.job, once, dup),
                 worker' = [worker EXCEPT ![w].pc = "adopt", ![w].once = once,
                                          ![w].dup = dup, ![w].cut = long]
          PROVE  SoundWorkers'
      <3> DEFINE y == [x EXCEPT !.pc = "adopt", !.once = once, !.dup = dup, !.cut = long]
      <3>1. once \subseteq LandedRows
        BY <1>3, <2>1 DEF Reading, SoundTab, RowsOf
      <3>2. WorkerSound(y, L, W)
        BY <1>2, <1>4, <1>12, <3>1 DEF WorkerSound, WorkerRecords, ReadColumn, At, L
      <3>3. worker' = [worker EXCEPT ![w] = y]
        BY <2>1
      <3> QED
        BY <1>3, <3>2, <3>3, SoundUpdate DEF L, W
    <2> QED
      BY <1>3, <1>12, <2>1, SoundFinish DEF ReadColumn
  <1>13. CASE LoadBatch(w)
    <2> DEFINE next == IF x.prepend THEN "reinspect" ELSE "mark"
               y == [x EXCEPT !.rows = NextBatch(x.job), !.batch = x.batch + 1, !.pc = next]
    <2>1. x.job \in Jobs
      BY <1>3, <1>13 DEF WorkersOK, WorkerOK, LoadBatch, At
    <2>2. \/ worker' = [worker EXCEPT ![w] = y]
          \/ Finish(w, "succeeded") /\ PendingOf(x.job) = {}
          \/ Finish(w, "retryable")
      BY <1>13 DEF LoadBatch
    <2>3. next \in {"reinspect", "mark"}
      OBVIOUS
    <2> HIDE DEF next
    <2>4. WorkerSound(y, L, W)
      BY <1>4, <1>13, <2>3 DEF WorkerSound, WorkerRecords, LoadBatch, At
    <2> HIDE DEF y
    <2>5. PendingOf(x.job) = {} => RowsOf(x.job) \subseteq WrittenRows'
      BY <1>2, <1>3, <2>1, NothingPending
    <2> QED
      BY <1>3, <2>2, <2>4, <2>5, SoundUpdate, SoundFinish DEF L, W
  <1>14. CASE Send(w)
    <2> DEFINE y == [x EXCEPT !.pc = "await", !.call = "open"]
    <2>1. WorkerSound(y, L, W)
      BY <1>4, <1>14 DEF WorkerSound, WorkerRecords, Send, At
    <2>2. worker' = [worker EXCEPT ![w] = y]
      BY <1>14 DEF Send
    <2> QED
      BY <1>3, <2>1, <2>2, SoundUpdate DEF L, W
  <1>15. CASE AppendOk(w)
    <2> DEFINE y == [x EXCEPT !.pc = "written", !.call = "none"]
    <2>1. WorkerSound(y, L, W)
      BY <1>4, <1>15 DEF WorkerSound, WorkerRecords, AppendOk, At
    <2>2. worker' = [worker EXCEPT ![w] = y]
      BY <1>15 DEF AppendOk
    <2> QED
      BY <1>3, <2>1, <2>2, SoundUpdate DEF L, W
  <1>16. CASE AppendRefused(w)
    <2>1. x.job \in Jobs
      BY <1>3, <1>16 DEF WorkersOK, WorkerOK, AppendRefused, At
    <2>2. PendingOf(x.job) = {} => RowsOf(x.job) \subseteq WrittenRows'
      BY <1>2, <1>3, <2>1, NothingPending
    <2> QED
      BY <1>3, <1>16, <2>2, SoundFinish DEF AppendRefused
  <1>17. CASE Throw(w)
    <2> DEFINE y == [Finishing(w, "uncertain") EXCEPT !.caught = TRUE]
    <2>1. WorkerSound(y, L, W)
      BY DEF WorkerSound, Finishing, IdleWorker
    <2>2. worker' = [worker EXCEPT ![w] = y] \/ Leave(w)
      BY <1>17 DEF Throw
    <2> QED
      BY <1>3, <2>1, <2>2, SoundUpdate, SoundLeave DEF L, W
  <1> QED
    BY <1>5, <1>6, <1>7, <1>8, <1>9, <1>10, <1>11, <1>12, <1>13, <1>14, <1>15, <1>16, <1>17
       DEF InspectHeader, ReinspectHeader

(* The steps of an execution that write to the database.                    *)
LEMMA JobStepSound ==
  ASSUME Types, Sound, NEW w \in Workers,
         \/ Settle(w) \/ Claim(w) \/ SettleSiblings(w) \/ TakeLock(w) \/ Mark(w) \/ Advance(w)
         \/ FinishJob(w) \/ SyncEvidence(w) \/ ReleaseFinishedClaimLock(w)
  PROVE  Sound'
  <1> DEFINE x == worker[w]
  <1>1. UNCHANGED <<row, sheet, landed, operator>>
    BY DEF Settle, Claim, SettleSiblings, TakeLock, Mark, Advance, FinishJob, SyncEvidence,
           ReleaseFinishedClaimLock, tabVars
  <1>2. LandedRows' = LandedRows /\ WrittenRows' = WrittenRows
    BY <1>1 DEF LandedRows, WrittenRows
  <1>3. Grows /\ WorkersOK /\ SoundWorkers /\ JobsOK
    BY <1>2 DEF Grows, Types, Sound
  <1>4. SoundOperators'
    BY <1>1, <1>3, SoundOperatorsFrame DEF Sound
  <1>5. x \in WorkerRecords /\ WorkerOK(x) /\ WorkerSound(x, LandedRows', WrittenRows')
    BY <1>2, <1>3 DEF WorkersOK, SoundWorkers
  <1> DEFINE Undue == \A j \in Jobs : job'[j].status = "succeeded"
                        => job[j].status = "succeeded" \/ RowsOf(j) \subseteq WrittenRows
  <1> SUFFICES SoundWorkers' /\ Undue
    BY <1>1, <1>4, SoundOnlyJobs
  <1>6. ASSUME NEW S, NEW now, SettleStaleRuns(S, now) PROVE Undue
    <2>1. ASSUME NEW j \in Jobs PROVE job'[j].status = "succeeded" => job'[j] = job[j]
      <3>1. job[j] \in JobRecords
        BY <1>3 DEF JobsOK
      <3>2. \/ job'[j] = job[j]
            \/ job'[j] = [job[j] EXCEPT !.status = "uncertain", !.claim = None]
            \/ job'[j] = [job[j] EXCEPT !.status = "retryable", !.claim = None, !.age = 0]
        BY <1>6 DEF SettleStaleRuns
      <3> QED
        BY <3>1, <3>2 DEF JobRecords
    <2> QED
      BY <2>1
  <1>7. CASE Settle(w)
    BY <1>3, <1>6, <1>7, SoundReturn DEF Settle
  <1>8. CASE SettleSiblings(w)
    BY <1>3, <1>6, <1>8, SoundGoto DEF SettleSiblings, At
  <1>9. CASE Claim(w)
    <2>1. Undue
      <3>1. job' = job \/ job' = [job EXCEPT ![x.job].status = "running", ![x.job].claim = w,
                                            ![x.job].age = x.age]
        BY <1>9 DEF Claim
      <3> QED
        BY <1>3, <3>1 DEF JobsOK, JobRecords
    <2> QED
      BY <1>3, <1>9, <2>1, SoundGoto, SoundReturn DEF Claim, At
  <1>10. CASE TakeLock(w)
    <2> DEFINE y == [IdleWorker EXCEPT !.pc = "preflight", !.job = x.job, !.locked = TRUE]
    <2>1. WorkerSound(y, LandedRows', WrittenRows')
      BY DEF WorkerSound, IdleWorker
    <2>2. Undue
      BY <1>10 DEF TakeLock
    <2> QED
      BY <1>3, <1>10, <2>1, <2>2, SoundUpdate, SoundFinish DEF TakeLock
  <1>11. CASE Mark(w)
    <2>1. Undue
      <3>1. job' = job \/ job' = [job EXCEPT ![x.job].marker = TRUE]
        BY <1>11 DEF Mark
      <3>2. ASSUME NEW j \in Jobs PROVE job'[j].status = job[j].status
        <4>1. job[j] \in JobRecords
          BY <1>3 DEF JobsOK
        <4>2. job'[j] = job[j] \/ job'[j] = [job[j] EXCEPT !.marker = TRUE]
          BY <1>3, <3>1 DEF JobsOK
        <4> QED
          BY <4>1, <4>2 DEF JobRecords
      <3> QED
        BY <3>2
    <2> QED
      BY <1>3, <1>11, <2>1, SoundGoto, SoundLostPreAppend DEF Mark, At
  <1>12. CASE Advance(w)
    <2> DEFINE y == [x EXCEPT !.pc = "load", !.rows = {}, !.again = FALSE, !.prepend = FALSE]
    <2>1. WorkerSound(y, LandedRows', WrittenRows')
      BY <1>5, <1>12 DEF WorkerSound, WorkerRecords, Advance, At
    <2>2. worker' = [worker EXCEPT ![w] = y] \/ Leave(w)
      BY <1>12 DEF Advance
    <2>3. Undue
      <3>1. job' = job \/ job' = [job EXCEPT ![x.job].marker = FALSE]
        BY <1>12 DEF Advance
      <3>2. ASSUME NEW j \in Jobs PROVE job'[j].status = job[j].status
        <4>1. job[j] \in JobRecords
          BY <1>3 DEF JobsOK
        <4>2. job'[j] = job[j] \/ job'[j] = [job[j] EXCEPT !.marker = FALSE]
          BY <1>3, <3>1 DEF JobsOK
        <4> QED
          BY <4>1, <4>2 DEF JobRecords
      <3> QED
        BY <3>2
    <2> QED
      BY <1>3, <2>1, <2>2, <2>3, SoundUpdate, SoundLeave
  <1>13. CASE FinishJob(w)
    <2> DEFINE y == [x EXCEPT !.pc = "sync"]
    <2>1. x.goal = "succeeded" => RowsOf(x.job) \subseteq WrittenRows
      BY <1>2, <1>5, <1>13 DEF WorkerSound, FinishJob, At
    <2>2. Undue
      BY <1>3, <1>13, <2>1 DEF FinishJob, JobsOK, JobRecords
    <2>3. WorkerSound(y, LandedRows', WrittenRows')
      BY <1>5, <1>13 DEF WorkerSound, WorkerRecords, FinishJob, At
    <2>4. worker' = [worker EXCEPT ![w] = y] \/ Leave(w)
      BY <1>13 DEF FinishJob, Goto
    <2> QED
      BY <1>3, <2>2, <2>3, <2>4, SoundUpdate, SoundLeave
  <1>14. CASE SyncEvidence(w)
    BY <1>3, <1>14, SoundLeave DEF SyncEvidence
  <1>15. CASE ReleaseFinishedClaimLock(w)
    BY <1>3, <1>15, SoundReturn DEF ReleaseFinishedClaimLock
  <1> QED
    BY <1>7, <1>8, <1>9, <1>10, <1>11, <1>12, <1>13, <1>14, <1>15

(* The steps that record rows: what was seen on the tab, what was appended. *)
LEMMA RecordStepSound ==
  ASSUME Types, Sound, NEW w \in Workers, Adopt(w) \/ MarkRowsWritten(w)
  PROVE  Sound'
  <1> DEFINE x == worker[w]
  <1>1. WorkersOK /\ SoundWorkers /\ RowsOK
    BY DEF Types, Sound
  <1>2. x \in WorkerRecords /\ WorkerSound(x, LandedRows, WrittenRows)
    BY <1>1 DEF WorkersOK, SoundWorkers
  <1>3. UNCHANGED <<job, sheet, landed, operator>>
    BY DEF Adopt, MarkRowsWritten, tabVars
  <1>4. Grows => SoundOperators'
    BY <1>3, SoundOperatorsFrame DEF Sound
  <1>5. CASE Adopt(w)
    <2> DEFINE next == IF x.again THEN "advance" ELSE "load"
               y == [x EXCEPT !.once = {}, !.dup = {}, !.cut = FALSE, !.pc = next]
    <2>1. worker' = [worker EXCEPT ![w] = y] \/ Finish(w, "uncertain") \/ Leave(w)
      BY <1>5 DEF Adopt
    <2>2. next \in {"advance", "load"}
      OBVIOUS
    <2> HIDE DEF next
    <2>3. ASSUME Grows PROVE WorkerSound(y, LandedRows', WrittenRows')
      BY <1>2, <1>5, <2>2 DEF WorkerSound, WorkerRecords, Adopt, At
    <2> HIDE DEF y
    <2>4. Grows => SoundWorkers'
      BY <1>1, <2>1, <2>3, SoundUpdate, SoundFinish, SoundLeave
    <2>5. CASE UNCHANGED row
      BY <1>3, <1>4, <2>4, <2>5, SoundOnlyLocals
    <2>6. CASE ~UNCHANGED row
      <3> DEFINE pending == PendingOf(x.job)
                 found == IF pending \cap x.dup # {} THEN {} ELSE pending \cap x.once
      <3>1. row' = [r \in Rows |-> IF r \in found THEN "written" ELSE row[r]]
        BY <1>5, <2>6 DEF Adopt
      <3>2. found \subseteq LandedRows
        BY <1>2 DEF WorkerSound
      <3> HIDE DEF found
      <3> QED
        BY <1>1, <1>3, <1>4, <2>4, <3>1, <3>2, SoundRecording
    <2> QED
      BY <2>5, <2>6
  <1>6. CASE MarkRowsWritten(w)
    <2> DEFINE y == [x EXCEPT !.pc = "advance"]
    <2>1. worker' = [worker EXCEPT ![w] = y] \/ Finish(w, "uncertain")
      BY <1>6 DEF MarkRowsWritten, Goto
    <2>2. ASSUME Grows PROVE SoundWorkers'
      BY <1>1, <1>6, <2>2, SoundGoto, SoundFinish DEF MarkRowsWritten, At
    <2>3. x.rows \subseteq LandedRows
      BY <1>2, <1>6 DEF WorkerSound, MarkRowsWritten, At
    <2>4. CASE UNCHANGED row
      BY <1>3, <1>4, <2>2, <2>4, SoundOnlyLocals
    <2>5. CASE row' = [r \in Rows |-> IF r \in x.rows THEN "written" ELSE row[r]]
      BY <1>1, <1>3, <1>4, <2>2, <2>3, <2>5, SoundRecording
    <2> QED
      BY <1>6, <2>4, <2>5 DEF MarkRowsWritten
  <1> QED
    BY <1>5, <1>6

(* An append lands, with or without its caller.                             *)
LEMMA SoundInsert ==
  ASSUME TabOK, Sound, NEW R, NEW h, Insert(R, h), UNCHANGED <<job, row, operator>>,
         Grows => SoundWorkers'
  PROVE  Sound' /\ Grows /\ R \cap Rows \subseteq LandedRows'
  <1>1. LandedRows' = LandedRows \cup (R \cap Rows) /\ WrittenRows' = WrittenRows
    BY DEF TabOK, Insert, LandedRows, WrittenRows
  <1>2. Grows
    BY <1>1 DEF Grows
  <1>3. SoundTab'
    BY DEF TabOK, Insert, LandedRows, Sound, SoundTab
  <1>4. SoundOperators'
    BY <1>2, SoundOperatorsFrame DEF Sound
  <1> QED
    BY <1>1, <1>2, <1>3, <1>4 DEF Sound, SoundRows, SoundJobs, RowsOf

LEMMA CallStepSound ==
  ASSUME Types, Sound, NEW w \in Workers, AppendAmbiguous(w) \/ Land(w) \/ Crash(w)
  PROVE  Sound'
  <1> DEFINE x == worker[w]
  <1>1. WorkersOK /\ SoundWorkers /\ TabOK
    BY DEF Types, Sound
  <1>2. x \in WorkerRecords /\ WorkerSound(x, LandedRows, WrittenRows)
    BY <1>1 DEF WorkersOK, SoundWorkers
  <1>3. CASE AppendAmbiguous(w)
    <2> DEFINE y == [x EXCEPT !.pc = "column", !.call = "none", !.again = TRUE]
    <2>1. worker' = [worker EXCEPT ![w] = y]
      BY <1>3 DEF AppendAmbiguous
    <2>2. ASSUME Grows PROVE WorkerSound(y, LandedRows', WrittenRows')
      BY <1>2, <2>2 DEF WorkerSound, WorkerRecords, Grows
    <2>3. Grows => SoundWorkers'
      BY <1>1, <2>1, <2>2, SoundUpdate
    <2> QED
      BY <1>3, <2>3, SoundOnlyLocals DEF AppendAmbiguous, dbVars, tabVars
  <1>4. CASE Land(w)
    <2> DEFINE y == [x EXCEPT !.call = "landed"]
    <2>1. worker' = [worker EXCEPT ![w] = y]
      BY <1>4 DEF Land
    <2>2. LandedRows' = LandedRows \cup x.rows /\ x.rows \subseteq Rows
      BY <1>1, <1>2, <1>4 DEF Land, Insert, LandedRows, TabOK, WorkerRecords
    <2>3. ASSUME Grows PROVE WorkerSound(y, LandedRows', WrittenRows')
      BY <1>2, <1>4, <2>2, <2>3 DEF WorkerSound, WorkerRecords, Grows, Land, At
    <2>4. Grows => SoundWorkers'
      BY <1>1, <2>1, <2>3, SoundUpdate
    <2> QED
      BY <1>1, <1>4, <2>4, SoundInsert DEF Land, dbVars
  <1>5. CASE Crash(w)
    <2>1. Grows => SoundWorkers'
      BY <1>1, <1>5, SoundReturn DEF Crash
    <2> QED
      BY <1>5, <2>1, SoundOnlyLocals DEF Crash, dbVars, tabVars
  <1> QED
    BY <1>3, <1>4, <1>5

LEMMA SoundOperatorUpdate ==
  ASSUME OperatorsOK, SoundOperators, Grows, NEW o \in Operators, NEW x,
         operator' = [operator EXCEPT ![o] = x], OperatorSound(x, LandedRows', WrittenRows')
  PROVE  SoundOperators'
  <1>1. ASSUME NEW v \in Operators
        PROVE  OperatorSound(operator'[v], LandedRows', WrittenRows')
    <2>1. CASE v = o
      BY <2>1 DEF OperatorsOK
    <2>2. CASE v # o
      <3>1. operator'[v] = operator[v]
        BY <2>2 DEF OperatorsOK
      <3> QED
        BY <3>1, SoundMonotone DEF SoundOperators, Grows
    <2> QED
      BY <2>1, <2>2
  <1> QED
    BY <1>1 DEF SoundOperators

LEMMA SoundOpReturn ==
  ASSUME OperatorsOK, SoundOperators, Grows, NEW o \in Operators, OpReturn(o)
  PROVE  SoundOperators'
  BY SoundIdle, SoundOperatorUpdate DEF OpReturn

LEMMA OperatorStepSound ==
  ASSUME Types, Sound, NEW o \in Operators,
         (\E j \in Jobs : ReleaseHold(o, j)) \/ Release(o) \/ OpGone(o)
  PROVE  Sound'
  <1> DEFINE x == operator[o]
  <1>1. OperatorsOK /\ SoundOperators /\ RowsOK /\ JobsOK
    BY DEF Types, Sound
  <1>2. x \in OperatorRecords /\ OperatorSound(x, LandedRows, WrittenRows)
    BY <1>1 DEF OperatorsOK, SoundOperators
  <1>3. UNCHANGED <<sheet, landed, worker>>
    BY DEF ReleaseHold, Release, OpReadColumn, OpAdopt, OpRelease, OpUnlock, OpSync, OpGone,
           tabVars
  <1>4. Grows => SoundWorkers'
    BY <1>3, SoundFrame DEF Sound
  <1>5. ASSUME Grows => SoundOperators', UNCHANGED <<job, row>> PROVE Sound'
    BY <1>3, <1>4, <1>5, SoundOnlyJobs
  <1>6. CASE \E j \in Jobs : ReleaseHold(o, j)
    <2>1. PICK j \in Jobs : ReleaseHold(o, j)
      BY <1>6
    <2> DEFINE y == [IdleOperator EXCEPT !.pc = "column", !.job = j, !.marked = job[j].marker]
    <2>2. OperatorSound(y, LandedRows', WrittenRows')
      BY DEF OperatorSound, IdleOperator
    <2> QED
      BY <1>1, <1>5, <2>1, <2>2, SoundOperatorUpdate DEF ReleaseHold, dbVars
  <1>7. CASE OpReadColumn(o)
    <2>1. PICK once \in SUBSET RowsOf(x.job), dup \in SUBSET RowsOf(x.job) :
            /\ Reading(x.job, once, dup)
            /\ operator' = [operator EXCEPT ![o].pc = "adopt", ![o].once = once,
                                            ![o].dup = dup, ![o].cut = long]
      BY <1>7 DEF OpReadColumn
    <2> DEFINE y == [x EXCEPT !.pc = "adopt", !.once = once, !.dup = dup, !.cut = long]
    <2>2. once \subseteq LandedRows
      BY <2>1 DEF Reading, RowsOf, Sound, SoundTab
    <2>3. ASSUME Grows PROVE OperatorSound(y, LandedRows', WrittenRows')
      BY <1>2, <2>2, <2>3 DEF OperatorSound, OperatorRecords, Grows
    <2>4. operator' = [operator EXCEPT ![o] = y]
      BY <2>1
    <2> QED
      BY <1>1, <1>5, <1>7, <2>3, <2>4, SoundOperatorUpdate DEF OpReadColumn, dbVars
  <1>8. CASE OpAdopt(o)
    <2>1. CASE OpReturn(o) /\ UNCHANGED row
      BY <1>1, <1>5, <1>8, <2>1, SoundOpReturn DEF OpAdopt
    <2>2. CASE ~(OpReturn(o) /\ UNCHANGED row)
      <3> DEFINE pending == PendingOf(x.job)
                 found == pending \cap x.once
                 missing == pending \ found
                 g == IF missing = {} THEN "succeeded" ELSE "retryable"
                 y == [x EXCEPT !.pc = "release", !.goal = g]
      <3>1. row' = [r \in Rows |-> IF r \in found THEN "written" ELSE row[r]]
        BY <1>8, <2>2 DEF OpAdopt
      <3>2. OpReturn(o) \/ operator' = [operator EXCEPT ![o] = y]
        BY <1>8, <2>2 DEF OpAdopt
      <3>3. found \subseteq LandedRows
        BY <1>2 DEF OperatorSound
      <3>4. x.job \in Jobs
        BY <1>1, <1>8 DEF OperatorsOK, OperatorOK, OpAdopt, OpAt
      <3>5. missing = {} => RowsOf(x.job) \subseteq WrittenRows'
        BY <1>1, <3>1 DEF PendingOf, RowsOf, WrittenRows, RowsOK
      <3>6. ASSUME Grows PROVE OperatorSound(y, LandedRows', WrittenRows')
        BY <1>2, <3>5, <3>6 DEF OperatorSound, OperatorRecords, Grows
      <3>7. UNCHANGED <<job, sheet, landed>>
        BY <1>3, <1>8 DEF OpAdopt
      <3> HIDE DEF y, found
      <3>8. Grows => SoundOperators'
        BY <1>1, <3>2, <3>6, SoundOpReturn, SoundOperatorUpdate
      <3> QED
        BY <1>1, <1>4, <3>1, <3>3, <3>7, <3>8, SoundRecording
    <2> QED
      BY <2>1, <2>2
  <1>9. CASE OpRelease(o)
    <2> DEFINE y == [x EXCEPT !.pc = "unlock"]
    <2>1. ASSUME Grows PROVE OperatorSound(y, LandedRows', WrittenRows')
      BY <1>2, <2>1 DEF OperatorSound, OperatorRecords, Grows
    <2>2. operator' = [operator EXCEPT ![o] = y] \/ OpReturn(o)
      BY <1>9 DEF OpRelease, OpGoto
    <2>3. Grows => SoundOperators'
      BY <1>1, <2>1, <2>2, SoundOpReturn, SoundOperatorUpdate
    <2>4. x.goal = "succeeded" => RowsOf(x.job) \subseteq WrittenRows
      BY <1>2, <1>9 DEF OperatorSound, OpRelease, OpAt
    <2>5. \A j \in Jobs : job'[j].status = "succeeded"
            => job[j].status = "succeeded" \/ RowsOf(j) \subseteq WrittenRows
      BY <1>1, <1>9, <2>4 DEF OpRelease, JobsOK, JobRecords
    <2> QED
      BY <1>3, <1>4, <1>9, <2>3, <2>5, SoundOnlyJobs DEF OpRelease
  <1>10. CASE OpUnlock(o)
    <2> DEFINE y == [x EXCEPT !.pc = "sync"]
    <2>1. ASSUME Grows PROVE OperatorSound(y, LandedRows', WrittenRows')
      BY <1>2, <2>1 DEF OperatorSound, OperatorRecords, Grows
    <2>2. operator' = [operator EXCEPT ![o] = y]
      BY <1>10 DEF OpUnlock, OpGoto
    <2> QED
      BY <1>1, <1>5, <1>10, <2>1, <2>2, SoundOperatorUpdate DEF OpUnlock
  <1>11. CASE OpSync(o)
    BY <1>1, <1>5, <1>11, SoundOpReturn DEF OpSync
  <1>12. CASE OpGone(o)
    BY <1>1, <1>5, <1>12, SoundOpReturn DEF OpGone, dbVars
  <1> QED
    BY <1>6, <1>7, <1>8, <1>9, <1>10, <1>11, <1>12 DEF Release

LEMMA OutsideStepSound ==
  ASSUME Types, Sound, (\E c \in orphans : LandOrphan(c)) \/ Edit \/ CalmDown \/ Tick
  PROVE  Sound'
  <1>1. WorkersOK /\ SoundWorkers /\ SoundOperators /\ TabOK /\ JobsOK
    BY DEF Types, Sound
  <1>2. CASE \E c \in orphans : LandOrphan(c)
    BY <1>1, <1>2, SoundFrame, SoundInsert DEF LandOrphan, dbVars
  <1>3. CASE Edit
    <2>1. LandedRows' = LandedRows /\ WrittenRows' = WrittenRows
      BY <1>3 DEF Edit, LandedRows, WrittenRows, dbVars
    <2>2. Grows
      BY <2>1 DEF Grows
    <2>3. SoundTab'
      <3>1. \A r \in Rows : sheet'[r] > 0 => sheet[r] > 0
        BY <1>1, <1>3 DEF Edit, TabOK
      <3> QED
        BY <2>1, <3>1 DEF Sound, SoundTab
    <2>4. SoundWorkers' /\ SoundOperators'
      BY <1>1, <1>3, <2>2, SoundFrame, SoundOperatorsFrame DEF Edit
    <2> QED
      BY <1>3, <2>1, <2>3, <2>4 DEF Sound, SoundRows, SoundJobs, RowsOf, Edit, dbVars
  <1>4. CASE CalmDown
    <2>1. Grows => SoundWorkers'
      BY <1>1, <1>4, SoundFrame DEF CalmDown
    <2> QED
      BY <1>4, <2>1, SoundOnlyLocals DEF CalmDown, dbVars, tabVars
  <1>5. CASE Tick
    <2>1. ASSUME Grows PROVE SoundWorkers'
      <3>1. ASSUME NEW w \in Workers
            PROVE  WorkerSound(worker'[w], LandedRows', WrittenRows')
        <4> DEFINE y == [worker[w] EXCEPT !.age = Older(@)]
        <4>1. worker[w] \in WorkerRecords /\ WorkerSound(worker[w], LandedRows', WrittenRows')
          BY <1>1, <2>1, SoundMonotone DEF WorkersOK, SoundWorkers, Grows
        <4>2. WorkerSound(y, LandedRows', WrittenRows')
          BY <4>1 DEF WorkerSound, WorkerRecords
        <4>3. worker'[w] = y \/ worker'[w] = worker[w]
          BY <1>5 DEF Tick
        <4> QED
          BY <4>1, <4>2, <4>3
      <3> QED
        BY <3>1 DEF SoundWorkers
    <2>2. Grows => SoundOperators'
      BY <1>1, <1>5, SoundOperatorsFrame DEF Tick
    <2>3. \A j \in Jobs : job'[j].status = job[j].status
      BY <1>1, <1>5 DEF Tick, JobsOK, JobRecords
    <2> QED
      BY <1>5, <2>1, <2>2, <2>3, SoundOnlyJobs DEF Tick, tabVars
  <1> QED
    BY <1>2, <1>3, <1>4, <1>5

LEMMA InitSound == Init => Sound
  <1> SUFFICES ASSUME Init PROVE Sound
    OBVIOUS
  <1>1. SoundTab /\ SoundRows
    BY DEF Init, SoundTab, SoundRows, WrittenRows
  <1>2. SoundJobs
    BY DEF Init, SoundJobs
  <1>3. SoundWorkers /\ SoundOperators
    BY SoundIdle DEF Init, SoundWorkers, SoundOperators
  <1> QED
    BY <1>1, <1>2, <1>3 DEF Sound

LEMMA StepSound == Types /\ Sound /\ [Next]_vars => Sound'
  <1> SUFFICES ASSUME Types, Sound, [Next]_vars PROVE Sound'
    OBVIOUS
  <1>1. ASSUME NEW w \in Workers, NEW j \in Jobs, Begin(w, j) PROVE Sound'
    BY <1>1, BeginSound
  <1>2. ASSUME NEW w \in Workers, Execute(w) \/ Land(w) \/ Throw(w) \/ Crash(w) PROVE Sound'
    BY <1>2, LocalStepSound, JobStepSound, RecordStepSound, CallStepSound DEF Execute
  <1>3. ASSUME NEW o \in Operators, (\E j \in Jobs : ReleaseHold(o, j)) \/ Release(o) \/ OpGone(o)
        PROVE  Sound'
    BY <1>3, OperatorStepSound
  <1>4. CASE UNCHANGED vars
    BY <1>4, SoundFrame, SoundOnlyLocals DEF vars, Sound
  <1> QED
    BY <1>1, <1>2, <1>3, <1>4, OutsideStepSound DEF Next

(* Whatever the records and the locals of any process claim to have been    *)
(* delivered has landed, for any number of jobs, executions and operators.  *)
THEOREM AccountedHolds == Spec => []Accounted
  <1>1. Spec => []Types
    BY InitTypes, StepTypes, PTL DEF Spec
  <1>2. Spec => []Sound
    BY <1>1, InitSound, StepSound, PTL DEF Spec
  <1>3. Sound => Accounted
    BY AccountedParts DEF Sound
  <1> QED
    BY <1>2, <1>3, PTL

(* A row is recorded as written only once an append of it has landed.       *)
THEOREM WrittenHasLanded == Spec => []WrittenRowsLanded
  <1>1. Accounted => WrittenRowsLanded
    BY DEF Accounted, WrittenRowsLanded, WrittenRows, LandedRows
  <1> QED
    BY <1>1, AccountedHolds, PTL

(* Evidence and job are never both succeeded, the proof a client's download *)
(* asks for, while a row of the release has not landed.                     *)
THEOREM DeliveryVerified == Spec => []VerifiedDelivery
  <1>1. Accounted => VerifiedDelivery
    BY DEF Accounted, VerifiedDelivery, LandedRows, RowsOf
  <1> QED
    BY <1>1, AccountedHolds, PTL
=============================================================================
