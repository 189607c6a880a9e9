------------------------ MODULE SheetsAppend_proofs ------------------------
(***************************************************************************)
(* No row is handed to Google twice, as long as one operator at a time     *)
(* releases holds.  A row is carried by one append at most: one that a     *)
(* worker is about to send or waits for, one that Google still has, or one *)
(* that has landed.  Until such a row is recorded its job keeps the marker,*)
(* and whoever clears the marker knows every row of the job.               *)
(***************************************************************************)
EXTENDS SheetsDelivery_proofs, FiniteSetTheorems

OneOperator == \A o, p \in Operators : o = p

-----------------------------------------------------------------------------
(* Where a row may be on its way to the tab.                                *)

Carries(x, r) == (x.pc = "send" \/ x.call = "open") /\ r \in x.rows

Once(r) ==
  /\ landed[r] \in {0, 1}
  /\ \A v, w \in Workers : Carries(worker[v], r) /\ Carries(worker[w], r) => v = w
  /\ \A c, d \in orphans : r \in c.rows /\ r \in d.rows => c = d
  /\ \A w \in Workers, c \in orphans : ~(Carries(worker[w], r) /\ r \in c.rows)
  /\ landed[r] = 1 => /\ \A w \in Workers : ~Carries(worker[w], r)
                      /\ \A c \in orphans : r \notin c.rows

Used(r) == \/ landed[r] # 0
           \/ \E w \in Workers : Carries(worker[w], r)
           \/ \E c \in orphans : r \in c.rows

Pending == {r \in Rows : row[r] = "pending"}

(* Rows that may be on the tab although no record says so.                  *)
Unrecorded == {r \in Pending : Used(r)}

(* Before the marker of a batch is stored, and from then until it is        *)
(* cleared.                                                                 *)
Early(x) ==
  \/ x.pc \in {"gate", "siblings", "blocked", "readLock", "readOwner", "takeLock", "preflight",
               "inspect", "confirm", "load", "reinspect", "mark"}
  \/ x.pc \in {"column", "adopt"} /\ ~x.again
Late(x) ==
  \/ x.pc \in {"send", "await", "written", "advance"}
  \/ x.pc \in {"column", "adopt"} /\ x.again

(* What an execution with locals x that has w's claim may rely on, in job   *)
(* records J with unrecorded rows D and pending rows P.                     *)
WorkerTracked(w, x, J, D, P) ==
  /\ x.rows \subseteq RowsOf(x.job) /\ (x.again => Late(x))
  /\ x.pc # "idle" /\ J[x.job].claim = w =>
       /\ Early(x) => J[x.job].status = "running" /\ ~J[x.job].marker
       /\ Late(x) => J[x.job].status = "running" /\ D \cap RowsOf(x.job) \subseteq x.rows
       /\ x.pc \in {"reinspect", "mark"} => x.rows \subseteq P
       /\ x.pc = "advance" => D \cap RowsOf(x.job) = {}
       /\ x.pc = "finish" /\ x.goal # "uncertain" =>
            J[x.job].status = "running" /\ D \cap RowsOf(x.job) = {}

(* A job whose hold is being released stays held, with the marker read.     *)
OperatorTracked(x, J, D) ==
  /\ x.pc \in {"column", "adopt", "release"} => J[x.job].status = "uncertain"
  /\ x.pc \in {"column", "adopt"} => (x.marked <=> J[x.job].marker)
  /\ x.pc = "release" => D \cap RowsOf(x.job) = {}
  /\ x.pc = "release" /\ J[x.job].marker => x.goal = "succeeded"

CarriedOnce == \A r \in Rows : Once(r)
MarkersKept == \A j \in Jobs : Unrecorded \cap RowsOf(j) # {} => job[j].marker
OrphansPlaced == \A c \in orphans : \E j \in Jobs : c.rows \subseteq RowsOf(j)
WorkersTracked == \A w \in Workers : WorkerTracked(w, worker[w], job, Unrecorded, Pending)
OperatorsTracked == \A o \in Operators : OperatorTracked(operator[o], job, Unrecorded)

Tracked == CarriedOnce /\ MarkersKept /\ OrphansPlaced /\ WorkersTracked /\ OperatorsTracked

-----------------------------------------------------------------------------
(* What single steps do to the copies of a row.                             *)

(* Nobody takes up a row and Google is not called.                          *)
LEMMA CopiesKept ==
  ASSUME CarriedOnce, UNCHANGED <<landed, orphans>>,
         \A v \in Workers, r \in Rows : Carries(worker'[v], r) => Carries(worker[v], r)
  PROVE  CarriedOnce' /\ \A r \in Rows : Used(r)' => Used(r)
  <1>1. ASSUME NEW r \in Rows PROVE Once(r)'
    BY DEF CarriedOnce, Once
  <1>2. ASSUME NEW r \in Rows, Used(r)' PROVE Used(r)
    BY <1>2 DEF Used
  <1> QED
    BY <1>1, <1>2 DEF CarriedOnce

(* A worker stops waiting for an append that Google still has.              *)
LEMMA CopiesOrphaned ==
  ASSUME CarriedOnce, NEW w \in Workers, landed' = landed, orphans' = OrphansWithout(w),
         \A r \in Rows : ~Carries(worker'[w], r),
         \A v \in Workers \ {w} : worker'[v] = worker[v]
  PROVE  CarriedOnce' /\ \A r \in Rows : Used(r)' => Used(r)
  <1>1. \A v \in Workers, r \in Rows : Carries(worker'[v], r) => Carries(worker[v], r) /\ v # w
    OBVIOUS
  <1>2. CASE worker[w].call # "open"
    BY <1>1, <1>2, CopiesKept DEF OrphansWithout
  <1>3. CASE worker[w].call = "open"
    <2>1. orphans' = orphans \cup {OpenCall(w)} /\ OpenCall(w).rows = worker[w].rows
      BY <1>3 DEF OrphansWithout, OpenCall
    <2>2. \A c \in orphans', r \in Rows :
            r \in c.rows => c \in orphans \/ (c = OpenCall(w) /\ Carries(worker[w], r))
      BY <1>3, <2>1 DEF Carries
    <2>3. ASSUME NEW r \in Rows PROVE Once(r)'
      <3>1. Once(r)
        BY DEF CarriedOnce
      <3> QED
        BY <1>1, <2>2, <3>1 DEF Once
    <2>4. ASSUME NEW r \in Rows, Used(r)' PROVE Used(r)
      BY <1>1, <2>2, <2>4 DEF Used
    <2> QED
      BY <2>3, <2>4 DEF CarriedOnce
  <1> QED
    BY <1>2, <1>3

(* Google inserts rows R that one append carried, and forgets the append.   *)
LEMMA CopiesInserted ==
  ASSUME CarriedOnce, TabOK, NEW R, NEW h, Insert(R, h),
         \A r \in R : Used(r) /\ landed[r] = 0,
         \A v \in Workers, r \in Rows : Carries(worker'[v], r) => Carries(worker[v], r) /\ r \notin R,
         orphans' \subseteq orphans, \A c \in orphans', r \in R : r \notin c.rows
  PROVE  CarriedOnce' /\ \A r \in Rows : Used(r)' => Used(r)
  <1>1. ASSUME NEW r \in Rows PROVE Once(r)' /\ (Used(r)' => Used(r))
    <2>1. Once(r) /\ landed'[r] = IF r \in R THEN landed[r] + 1 ELSE landed[r]
      BY DEF CarriedOnce, Insert
    <2>2. CASE r \in R
      <3>1. landed'[r] = 1
        BY <2>1, <2>2
      <3> QED
        BY <2>2, <3>1 DEF Once
    <2>3. CASE r \notin R
      BY <2>1, <2>3 DEF Once, Used
    <2> QED
      BY <2>2, <2>3
  <1> QED
    BY <1>1 DEF CarriedOnce

-----------------------------------------------------------------------------
(* What is kept of the other processes.                                     *)

(* It is enough that whoever keeps the claim keeps the record and its rows. *)
LEMMA WorkerKept ==
  ASSUME NEW w, NEW x, NEW J, NEW D, NEW P, NEW K, NEW E, NEW Q,
         WorkerTracked(w, x, J, D, P),
         x.pc # "idle" /\ K[x.job].claim = w =>
           /\ J[x.job].claim = w /\ K[x.job].status = J[x.job].status
           /\ K[x.job].marker = J[x.job].marker
           /\ E \cap RowsOf(x.job) \subseteq D /\ P \cap RowsOf(x.job) \subseteq Q
  PROVE  WorkerTracked(w, x, K, E, Q)
  BY DEF WorkerTracked

(* Likewise for an operator whose job keeps its status and marker.         *)
LEMMA OperatorKept ==
  ASSUME NEW x, NEW J, NEW D, NEW K, NEW E, OperatorTracked(x, J, D),
         x.pc \in {"column", "adopt", "release"} =>
           /\ K[x.job].status = J[x.job].status /\ K[x.job].marker = J[x.job].marker
           /\ E \cap RowsOf(x.job) \subseteq D
  PROVE  OperatorTracked(x, K, E)
  BY DEF OperatorTracked

(* A step of one worker that writes no record.                              *)
LEMMA WorkerMoves ==
  ASSUME WorkersOK, Tracked, NEW w \in Workers, NEW x, worker' = [worker EXCEPT ![w] = x],
         UNCHANGED <<job, row, operator>>, CarriedOnce', OrphansPlaced',
         \A r \in Rows : Used(r)' => Used(r),
         WorkerTracked(w, x, job, Unrecorded', Pending)
  PROVE  Tracked'
  <1>1. Pending' = Pending /\ Unrecorded' \subseteq Unrecorded
    BY DEF Pending, Unrecorded
  <1>2. MarkersKept'
    BY <1>1 DEF Tracked, MarkersKept, RowsOf
  <1>3. ASSUME NEW v \in Workers PROVE WorkerTracked(v, worker'[v], job', Unrecorded', Pending')
    <2>1. CASE v = w
      BY <1>1, <2>1 DEF WorkersOK
    <2>2. CASE v # w
      <3>1. worker'[v] = worker[v] /\ WorkerTracked(v, worker[v], job, Unrecorded, Pending)
        BY <2>2 DEF WorkersOK, Tracked, WorkersTracked
      <3> QED
        BY <1>1, <3>1, WorkerKept
    <2> QED
      BY <2>1, <2>2
  <1>4. ASSUME NEW o \in Operators PROVE OperatorTracked(operator'[o], job', Unrecorded')
    BY <1>1, OperatorKept DEF Tracked, OperatorsTracked
  <1> QED
    BY <1>2, <1>3, <1>4 DEF Tracked, WorkersTracked, OperatorsTracked

(* The same when the tab and Google are left alone as well.                 *)
LEMMA WorkerMovesOn ==
  ASSUME WorkersOK, Tracked, NEW w \in Workers, NEW x, worker' = [worker EXCEPT ![w] = x],
         UNCHANGED <<job, row, operator, landed, orphans>>,
         \A r \in Rows : Carries(x, r) => Carries(worker[w], r),
         WorkerTracked(w, x, job, Unrecorded, Pending)
  PROVE  Tracked'
  <1>1. \A v \in Workers, r \in Rows : Carries(worker'[v], r) => Carries(worker[v], r)
    BY DEF WorkersOK
  <1>2. CarriedOnce' /\ \A r \in Rows : Used(r)' => Used(r)
    BY <1>1, CopiesKept DEF Tracked
  <1>3. OrphansPlaced'
    BY DEF Tracked, OrphansPlaced, RowsOf
  <1>4. Unrecorded' \subseteq Unrecorded
    BY <1>2 DEF Unrecorded, Pending
  <1>5. WorkerTracked(w, x, job, Unrecorded', Pending)
    BY <1>4, WorkerKept
  <1> QED
    BY <1>2, <1>3, <1>5, WorkerMoves

-----------------------------------------------------------------------------
(* Locals after a move.                                                     *)

(* Nothing is relied on outside a run.                                      *)
LEMMA TrackedOutside ==
  ASSUME NEW w, NEW x, NEW J, NEW D, NEW P, x.rows = {}, ~x.again,
         x.pc \in {"idle", "settle", "claim", "sync", "unlock"}
  PROVE  WorkerTracked(w, x, J, D, P) /\ \A r \in Rows : ~Carries(x, r)
  BY DEF WorkerTracked, Early, Late, Carries

(* An execution that starts or ends carries no rows.                       *)
LEMMA IdleRows ==
  /\ IdleWorker.rows = {} /\ IdleWorker.pc = "idle" /\ ~IdleWorker.again
  /\ \A p, j : LET x == [IdleWorker EXCEPT !.pc = p, !.job = j]
               IN  x.rows = {} /\ x.pc = p /\ x.job = j /\ ~x.again
  /\ \A j : LET x == [IdleWorker EXCEPT !.pc = "unlock", !.job = j, !.locked = TRUE]
            IN  x.rows = {} /\ x.pc = "unlock" /\ ~x.again
  BY DEF IdleWorker

(* Who is to finish a job other than by holding it knows its rows.          *)
LEMMA TrackedFinishing ==
  ASSUME NEW w \in Workers, NEW s, NEW J, NEW D, NEW P,
         s # "uncertain" /\ J[worker[w].job].claim = w =>
           J[worker[w].job].status = "running" /\ D \cap RowsOf(worker[w].job) = {}
  PROVE  WorkerTracked(w, Finishing(w, s), J, D, P) /\ \A r \in Rows : ~Carries(Finishing(w, s), r)
  BY DEF WorkerTracked, Finishing, IdleWorker, Early, Late, Carries

(* Without a marker there is no unrecorded row.                             *)
LEMMA EarlyIsClean ==
  ASSUME Types, Tracked, NEW w \in Workers, Early(worker[w]), HoldsToken(w)
  PROVE  /\ job[worker[w].job].status = "running" /\ ~job[worker[w].job].marker
         /\ Unrecorded \cap RowsOf(worker[w].job) = {}
  <1>1. worker[w].pc # "idle"
    BY DEF Early
  <1>2. worker[w].job \in Jobs
    BY <1>1 DEF Types, WorkersOK, WorkerOK
  <1> QED
    BY <1>1, <1>2 DEF Tracked, WorkersTracked, WorkerTracked, MarkersKept, HoldsToken

Still == UNCHANGED <<job, row, operator, landed, orphans>>

(* Giving up relies on nothing.                                            *)
LEMMA ReturnMoves ==
  ASSUME WorkersOK, Tracked, NEW w \in Workers, Return(w), Still
  PROVE  Tracked'
  BY IdleRows, TrackedOutside, WorkerMovesOn DEF Return, Still

(* Nor does leaving, with or without the lock to release.                  *)
LEMMA LeaveMoves ==
  ASSUME WorkersOK, Tracked, NEW w \in Workers, Leave(w), Still
  PROVE  Tracked'
  <1>1. CASE ~worker[w].locked
    BY <1>1, ReturnMoves DEF Leave
  <1>2. CASE worker[w].locked
    <2> DEFINE x == [IdleWorker EXCEPT !.pc = "unlock", !.job = worker[w].job, !.locked = TRUE]
    <2>1. worker' = [worker EXCEPT ![w] = x]
      BY <1>2 DEF Leave
    <2>2. WorkerTracked(w, x, job, Unrecorded, Pending) /\ \A r \in Rows : ~Carries(x, r)
      BY IdleRows, TrackedOutside
    <2> QED
      BY <2>1, <2>2, WorkerMovesOn DEF Still
  <1> QED
    BY <1>1, <1>2

(* Going on to finish a job that is held, or whose rows are known.         *)
LEMMA FinishMoves ==
  ASSUME WorkersOK, Tracked, NEW w \in Workers, NEW s, Finish(w, s), Still,
         s # "uncertain" /\ HoldsToken(w) =>
           job[worker[w].job].status = "running" /\ Unrecorded \cap RowsOf(worker[w].job) = {}
  PROVE  Tracked'
  <1>1. /\ WorkerTracked(w, Finishing(w, s), job, Unrecorded, Pending)
        /\ \A r \in Rows : ~Carries(Finishing(w, s), r)
    BY TrackedFinishing DEF HoldsToken
  <1> QED
    BY <1>1, WorkerMovesOn DEF Finish, Still

(* A lost claim ends the execution or holds its own job.                   *)
LEMMA LostPreAppendMoves ==
  ASSUME WorkersOK, Tracked, NEW w \in Workers, LostPreAppend(w), Still
  PROVE  Tracked'
  BY FinishMoves, LeaveMoves DEF LostPreAppend

(* A run goes on before its marker is stored.                               *)
LEMMA GotoEarly ==
  ASSUME Types, Tracked, NEW w \in Workers, NEW p, Goto(w, p), Still, Early(worker[w]),
         worker[w].pc # "adopt",
         p \in {"siblings", "blocked", "readLock", "readOwner", "takeLock", "preflight", "inspect",
                "confirm", "column"}
  PROVE  Tracked'
  <1> DEFINE x == [worker[w] EXCEPT !.pc = p]
  <1>1. worker[w] \in WorkerRecords /\ WorkerTracked(w, worker[w], job, Unrecorded, Pending)
    BY DEF Types, WorkersOK, Tracked, WorkersTracked
  <1>2. /\ x.pc = p /\ x.again = worker[w].again /\ x.rows = worker[w].rows
        /\ x.job = worker[w].job /\ x.call = worker[w].call
    BY <1>1 DEF WorkerRecords
  <1>3. worker' = [worker EXCEPT ![w] = x]
    BY DEF Goto
  <1> HIDE DEF x
  <1>4. Early(x) /\ ~Late(x) /\ worker[w].pc # "idle" /\ ~worker[w].again
    BY <1>1, <1>2 DEF Early, Late, WorkerTracked
  <1>5. WorkerTracked(w, x, job, Unrecorded, Pending)
    BY <1>1, <1>2, <1>4 DEF WorkerTracked
  <1>6. \A r \in Rows : Carries(x, r) => Carries(worker[w], r)
    BY <1>2 DEF Carries
  <1> QED
    BY <1>3, <1>5, <1>6, WorkerMovesOn DEF Types, Still

-----------------------------------------------------------------------------
(* The steps of an execution that write no record.                          *)

(* An execution starts with locals that say nothing.                       *)
LEMMA BeginTracked ==
  ASSUME Types, Tracked, NEW w \in Workers, NEW j \in Jobs, Begin(w, j)
  PROVE  Tracked'
  <1>1. PICK p \in {"settle", "claim"} :
          worker' = [worker EXCEPT ![w] = [IdleWorker EXCEPT !.pc = p, !.job = j]]
    BY DEF Begin
  <1> DEFINE x == [IdleWorker EXCEPT !.pc = p, !.job = j]
  <1>2. x.rows = {} /\ ~x.again /\ x.pc = p
    BY IdleRows
  <1>3. worker' = [worker EXCEPT ![w] = x]
    BY <1>1
  <1> HIDE DEF x
  <1>4. WorkerTracked(w, x, job, Unrecorded, Pending) /\ \A r \in Rows : ~Carries(x, r)
    BY <1>2, TrackedOutside
  <1>5. Still
    BY DEF Begin, Still, dbVars, tabVars
  <1> QED
    BY <1>3, <1>4, <1>5, WorkerMovesOn DEF Types, Still

(* Up to the worksheet lock and on to the reading of the tab.               *)
LEMMA EarlyStepTracked ==
  ASSUME Types, Tracked, NEW w \in Workers,
         \/ Gate(w) \/ CheckBlocked(w) \/ ReadLock(w) \/ ReadOwner(w) \/ TakeLock(w)
         \/ Preflight(w) \/ InspectHeader(w) \/ ConfirmClaim(w)
  PROVE  Tracked'
  <1>1. Early(worker[w]) /\ worker[w].pc \notin {"adopt", "idle"}
    BY DEF Gate, CheckBlocked, ReadLock, ReadOwner, TakeLock, Preflight, InspectHeader, Inspect,
           ConfirmClaim, At, Early
  <1>2. Still
    BY DEF Gate, CheckBlocked, ReadLock, ReadOwner, TakeLock, Preflight, InspectHeader, Inspect,
           ConfirmClaim, Still, dbVars, tabVars
  <1>3. ASSUME NEW s, Finish(w, s) PROVE Tracked'
    BY <1>1, <1>2, <1>3, EarlyIsClean, FinishMoves DEF Types
  <1>4. ASSUME NEW p, Goto(w, p), p \in {"siblings", "blocked", "readLock", "readOwner", "takeLock",
                                        "preflight", "inspect", "confirm", "column"}
        PROVE  Tracked'
    BY <1>1, <1>2, <1>4, GotoEarly
  <1>5. /\ worker[w] \in WorkerRecords /\ WorkerTracked(w, worker[w], job, Unrecorded, Pending)
        /\ WorkersOK
    BY DEF Types, WorkersOK, Tracked, WorkersTracked
  <1>6. ASSUME NEW x, worker' = [worker EXCEPT ![w] = x], x.job = worker[w].job,
               x.pc \in {"readOwner", "preflight", "confirm"}, ~x.again,
               x.rows \subseteq worker[w].rows, x.call = "open" => worker[w].call = "open"
        PROVE  Tracked'
    <2>1. Early(x) /\ ~Late(x)
      BY <1>6 DEF Early, Late
    <2>2. WorkerTracked(w, x, job, Unrecorded, Pending)
      BY <1>1, <1>5, <1>6, <2>1 DEF WorkerTracked
    <2>3. \A r \in Rows : Carries(x, r) => Carries(worker[w], r)
      BY <1>6 DEF Carries
    <2> QED
      BY <1>2, <1>5, <1>6, <2>2, <2>3, WorkerMovesOn DEF Still
  <1>7. ~worker[w].again
    BY <1>1, <1>5 DEF WorkerTracked, Early, Late
  <1>8. CASE Gate(w) \/ CheckBlocked(w) \/ ReadOwner(w) \/ Preflight(w)
    <2>1. CASE Gate(w)
      BY <1>3, <1>4, <2>1 DEF Gate
    <2>2. CASE CheckBlocked(w)
      BY <1>3, <1>4, <2>2 DEF CheckBlocked
    <2>3. CASE ReadOwner(w)
      BY <1>3, <1>4, <2>3 DEF ReadOwner
    <2>4. CASE Preflight(w)
      BY <1>3, <1>4, <2>4 DEF Preflight
    <2> QED
      BY <1>8, <2>1, <2>2, <2>3, <2>4
  <1>9. CASE ReadLock(w)
    <2> DEFINE x == [worker[w] EXCEPT !.pc = "readOwner", !.steal = lock.owner,
                                      !.fresh = ~Expired(lock.age, worker[w].age)]
    <2>1. CASE lock.owner \in {None, worker[w].job}
      BY <1>4, <1>9, <2>1 DEF ReadLock
    <2>2. CASE lock.owner \notin {None, worker[w].job}
      <3>1. worker' = [worker EXCEPT ![w] = x]
        BY <1>9, <2>2 DEF ReadLock
      <3>2. /\ x.job = worker[w].job /\ x.pc = "readOwner" /\ ~x.again
            /\ x.rows = worker[w].rows /\ x.call = worker[w].call
        BY <1>5, <1>7 DEF WorkerRecords
      <3> HIDE DEF x
      <3> QED
        BY <1>6, <3>1, <3>2
    <2> QED
      BY <2>1, <2>2
  <1>10. CASE TakeLock(w)
    <2> DEFINE x == [IdleWorker EXCEPT !.pc = "preflight", !.job = worker[w].job, !.locked = TRUE]
    <2>1. CASE MayTake(w)
      <3>1. worker' = [worker EXCEPT ![w] = x]
        BY <1>10, <2>1 DEF TakeLock
      <3>2. /\ x.job = worker[w].job /\ x.pc = "preflight" /\ ~x.again
            /\ x.rows = {} /\ x.call = "none"
        BY DEF IdleWorker
      <3> HIDE DEF x
      <3> QED
        BY <1>6, <3>1, <3>2
    <2> QED
      BY <1>3, <1>10, <2>1 DEF TakeLock
  <1>11. CASE InspectHeader(w)
    <2> DEFINE x == [worker[w] EXCEPT !.pc = "confirm", !.prepend = BlankTab]
    <2>1. CASE worker' = [worker EXCEPT ![w] = x]
      <3>1. /\ x.job = worker[w].job /\ x.pc = "confirm" /\ ~x.again
            /\ x.rows = worker[w].rows /\ x.call = worker[w].call
        BY <1>5, <1>7 DEF WorkerRecords
      <3> HIDE DEF x
      <3> QED
        BY <1>6, <2>1, <3>1
    <2> QED
      BY <1>3, <1>11, <2>1 DEF InspectHeader, Inspect
  <1>12. CASE ConfirmClaim(w)
    BY <1>2, <1>4, <1>5, <1>12, LostPreAppendMoves DEF ConfirmClaim
  <1> QED
    BY <1>8, <1>9, <1>10, <1>11, <1>12

(* The rows of a batch are pending rows of its job.                         *)
LEMMA BatchRows ==
  ASSUME NEW j
  PROVE  NextBatch(j) \subseteq RowsOf(j) /\ NextBatch(j) \subseteq Pending
  BY DEF NextBatch, PendingOf, RowsOf, Pending

(* With nothing pending there is nothing unrecorded.                        *)
LEMMA NonePending ==
  ASSUME NEW j, PendingOf(j) = {}
  PROVE  Unrecorded \cap RowsOf(j) = {}
  BY DEF PendingOf, RowsOf, Unrecorded, Pending

(* From the reading of the tab to the call of Google.                       *)
LEMMA BatchStepTracked ==
  ASSUME Types, Sound, Tracked, NEW w \in Workers,
         ReinspectHeader(w) \/ ReadColumn(w) \/ LoadBatch(w) \/ Send(w)
  PROVE  Tracked'
  <1>1. Still
    BY DEF ReinspectHeader, Inspect, ReadColumn, LoadBatch, Send, Still, dbVars, tabVars
  <1>2. /\ worker[w] \in WorkerRecords /\ WorkerTracked(w, worker[w], job, Unrecorded, Pending)
        /\ WorkersOK
    BY DEF Types, WorkersOK, Tracked, WorkersTracked
  <1>3. ASSUME NEW x, worker' = [worker EXCEPT ![w] = x],
               \A r \in Rows : Carries(x, r) => Carries(worker[w], r),
               WorkerTracked(w, x, job, Unrecorded, Pending)
        PROVE  Tracked'
    BY <1>1, <1>2, <1>3, WorkerMovesOn DEF Still
  <1>4. ASSUME NEW s, Finish(w, s), Early(worker[w]) \/ s = "uncertain" PROVE Tracked'
    BY <1>1, <1>4, EarlyIsClean, FinishMoves DEF Types
  <1>5. CASE ReinspectHeader(w)
    <2> DEFINE x == [worker[w] EXCEPT !.pc = "mark", !.prepend = BlankTab]
    <2>1. worker[w].pc = "reinspect" /\ Early(worker[w])
      BY <1>5 DEF ReinspectHeader, Inspect, At, Early
    <2>2. CASE worker' = [worker EXCEPT ![w] = x]
      <3>1. /\ x.job = worker[w].job /\ x.pc = "mark" /\ x.again = worker[w].again
            /\ x.rows = worker[w].rows /\ x.call = worker[w].call
        BY <1>2 DEF WorkerRecords
      <3> HIDE DEF x
      <3>2. WorkerTracked(w, x, job, Unrecorded, Pending)
        BY <1>2, <2>1, <3>1 DEF WorkerTracked, Early, Late
      <3> QED
        BY <1>3, <2>1, <2>2, <3>1, <3>2 DEF Carries
    <2> QED
      BY <1>4, <1>5, <2>1, <2>2 DEF ReinspectHeader, Inspect
  <1>6. CASE ReadColumn(w)
    <2>1. CASE Finish(w, "uncertain")
      BY <1>4, <2>1
    <2>2. ASSUME NEW once, NEW dup,
                 worker' = [worker EXCEPT ![w].pc = "adopt", ![w].once = once, ![w].dup = dup,
                                          ![w].cut = long]
          PROVE  Tracked'
      <3> DEFINE x == [worker[w] EXCEPT !.pc = "adopt", !.once = once, !.dup = dup, !.cut = long]
      <3>1. /\ x.job = worker[w].job /\ x.pc = "adopt" /\ x.again = worker[w].again
            /\ x.rows = worker[w].rows /\ x.call = worker[w].call /\ worker[w].pc = "column"
            /\ worker' = [worker EXCEPT ![w] = x]
        BY <1>2, <1>6, <2>2 DEF WorkerRecords, ReadColumn, At
      <3> HIDE DEF x
      <3>2. WorkerTracked(w, x, job, Unrecorded, Pending)
        BY <1>2, <3>1 DEF WorkerTracked, Early, Late
      <3> QED
        BY <1>3, <3>1, <3>2 DEF Carries
    <2> QED
      BY <1>6, <2>1, <2>2 DEF ReadColumn
  <1>7. CASE LoadBatch(w)
    <2> DEFINE j == worker[w].job
               p == IF worker[w].prepend THEN "reinspect" ELSE "mark"
               x == [worker[w] EXCEPT !.rows = NextBatch(j), !.batch = @ + 1, !.pc = p]
    <2>1. worker[w].pc = "load" /\ Early(worker[w])
      BY <1>7 DEF LoadBatch, At, Early
    <2>2. CASE \E s : Finish(w, s)
      BY <1>4, <2>1, <2>2
    <2>3. CASE ~\E s : Finish(w, s)
      <3>1. /\ x.job = worker[w].job /\ x.pc \in {"reinspect", "mark"}
            /\ x.again = worker[w].again /\ x.rows = NextBatch(j) /\ x.call = worker[w].call
            /\ worker' = [worker EXCEPT ![w] = x]
        BY <1>2, <1>7, <2>3 DEF WorkerRecords, LoadBatch
      <3> HIDE DEF x
      <3>2. WorkerTracked(w, x, job, Unrecorded, Pending)
        BY <1>2, <2>1, <3>1, BatchRows DEF WorkerTracked, Early, Late
      <3>3. worker[w].call = "none"
        BY <2>1 DEF Sound, SoundWorkers, WorkerSound
      <3> QED
        BY <1>3, <3>1, <3>2, <3>3 DEF Carries
    <2> QED
      BY <2>2, <2>3
  <1>8. CASE Send(w)
    <2> DEFINE x == [worker[w] EXCEPT !.pc = "await", !.call = "open"]
    <2>1. /\ x.job = worker[w].job /\ x.pc = "await" /\ x.again = worker[w].again
          /\ x.rows = worker[w].rows /\ worker[w].pc = "send" /\ worker' = [worker EXCEPT ![w] = x]
      BY <1>2, <1>8 DEF WorkerRecords, Send, At
    <2> HIDE DEF x
    <2>2. WorkerTracked(w, x, job, Unrecorded, Pending)
      BY <1>2, <2>1 DEF WorkerTracked, Early, Late
    <2> QED
      BY <1>3, <2>1, <2>2 DEF Carries
  <1> QED
    BY <1>5, <1>6, <1>7, <1>8

(* Google's answers, or none.                                               *)
LEMMA AnswerTracked ==
  ASSUME Types, Sound, Tracked, NEW w \in Workers,
         AppendOk(w) \/ AppendRefused(w) \/ AppendAmbiguous(w) \/ Land(w)
  PROVE  Tracked'
  <1>1. /\ worker[w] \in WorkerRecords /\ WorkerTracked(w, worker[w], job, Unrecorded, Pending)
        /\ WorkersOK /\ CarriedOnce /\ OrphansPlaced
    BY DEF Types, WorkersOK, Tracked, WorkersTracked
  <1>2. worker[w].pc = "await" /\ Late(worker[w]) /\ ~Early(worker[w])
    BY DEF AppendOk, AppendRefused, AppendAmbiguous, Land, At, Late, Early
  <1>3. worker[w].job \in Jobs /\ worker[w].rows \subseteq RowsOf(worker[w].job)
    BY <1>1, <1>2 DEF WorkersOK, WorkerOK, WorkerTracked
  <1>4. CASE AppendOk(w)
    <2> DEFINE x == [worker[w] EXCEPT !.pc = "written", !.call = "none"]
    <2>1. /\ x.job = worker[w].job /\ x.pc = "written" /\ x.again = worker[w].again
          /\ x.rows = worker[w].rows /\ x.call = "none" /\ worker' = [worker EXCEPT ![w] = x]
      BY <1>1, <1>4 DEF WorkerRecords, AppendOk
    <2> HIDE DEF x
    <2>2. WorkerTracked(w, x, job, Unrecorded, Pending) /\ \A r \in Rows : ~Carries(x, r)
      BY <1>1, <1>2, <2>1 DEF WorkerTracked, Early, Late, Carries
    <2> QED
      BY <1>1, <1>4, <2>1, <2>2, WorkerMovesOn DEF AppendOk, dbVars, tabVars
  <1>5. CASE AppendRefused(w)
    <2>1. PICK s : Finish(w, s)
      BY <1>5 DEF AppendRefused
    <2> DEFINE x == Finishing(w, s)
    <2>2. x.rows = {} /\ x.call = "none" /\ x.pc = "finish" /\ worker' = [worker EXCEPT ![w] = x]
      BY <2>1 DEF Finish, Finishing, IdleWorker
    <2>3. UNCHANGED <<job, row, operator, landed, orphans>>
      BY <1>5 DEF AppendRefused, dbVars, tabVars
    <2>4. \A v \in Workers, r \in Rows : Carries(worker'[v], r) => Carries(worker[v], r) /\ v # w
      BY <1>1, <2>2 DEF WorkersOK, Carries
    <2>5. CarriedOnce' /\ \A r \in Rows : Used(r)' => Used(r)
      BY <1>1, <2>3, <2>4, CopiesKept
    <2>6. ASSUME NEW r \in worker[w].rows PROVE ~Used(r)'
      <3>1. r \in Rows /\ Carries(worker[w], r)
        BY <1>3, <1>5 DEF RowsOf, Carries, AppendRefused
      <3>2. Once(r)
        BY <1>1, <3>1 DEF CarriedOnce
      <3> QED
        BY <2>3, <2>4, <3>1, <3>2 DEF Once, Used
    <2>7. Unrecorded' \subseteq Unrecorded \ worker[w].rows
      BY <2>3, <2>5, <2>6 DEF Unrecorded, Pending
    <2>8. HoldsToken(w) => job[worker[w].job].status = "running"
                           /\ Unrecorded' \cap RowsOf(worker[w].job) = {}
      BY <1>1, <1>2, <2>7 DEF WorkerTracked, HoldsToken
    <2>9. WorkerTracked(w, x, job, Unrecorded', Pending)
      BY <2>8, TrackedFinishing DEF HoldsToken
    <2>10. OrphansPlaced'
      BY <1>1, <2>3 DEF OrphansPlaced, RowsOf
    <2> QED
      BY <1>1, <2>2, <2>3, <2>5, <2>9, <2>10, WorkerMoves
  <1>6. CASE AppendAmbiguous(w)
    <2> DEFINE x == [worker[w] EXCEPT !.pc = "column", !.call = "none", !.again = TRUE]
    <2>1. /\ x.job = worker[w].job /\ x.pc = "column" /\ x.again
          /\ x.rows = worker[w].rows /\ x.call = "none" /\ worker' = [worker EXCEPT ![w] = x]
      BY <1>1, <1>6 DEF WorkerRecords, AppendAmbiguous
    <2> HIDE DEF x
    <2>2. WorkerTracked(w, x, job, Unrecorded, Pending) /\ \A r \in Rows : ~Carries(x, r)
      BY <1>1, <1>2, <2>1 DEF WorkerTracked, Early, Late, Carries
    <2>3. /\ UNCHANGED <<job, row, operator, landed>> /\ orphans' = OrphansWithout(w)
          /\ worker'[w] = x /\ \A v \in Workers \ {w} : worker'[v] = worker[v]
      BY <1>1, <1>6, <2>1 DEF AppendAmbiguous, dbVars, tabVars, WorkersOK
    <2>4. CarriedOnce' /\ \A r \in Rows : Used(r)' => Used(r)
      BY <1>1, <2>2, <2>3, CopiesOrphaned
    <2>5. Unrecorded' \subseteq Unrecorded
      BY <2>3, <2>4 DEF Unrecorded, Pending
    <2>6. WorkerTracked(w, x, job, Unrecorded', Pending)
      BY <2>2, <2>5, WorkerKept
    <2>7. OrphansPlaced'
      BY <1>1, <1>3, <2>3 DEF OrphansPlaced, OrphansWithout, OpenCall, RowsOf
    <2> QED
      BY <1>1, <2>1, <2>3, <2>4, <2>6, <2>7, WorkerMoves
  <1>7. CASE Land(w)
    <2> DEFINE x == [worker[w] EXCEPT !.call = "landed"]
    <2>1. /\ x.job = worker[w].job /\ x.pc = "await" /\ x.again = worker[w].again
          /\ x.rows = worker[w].rows /\ x.call = "landed" /\ worker' = [worker EXCEPT ![w] = x]
      BY <1>1, <1>2, <1>7 DEF WorkerRecords, Land
    <2> HIDE DEF x
    <2>2. WorkerTracked(w, x, job, Unrecorded, Pending) /\ \A r \in Rows : ~Carries(x, r)
      BY <1>1, <1>2, <2>1 DEF WorkerTracked, Early, Late, Carries
    <2>3. /\ UNCHANGED <<job, row, operator, orphans>> /\ Insert(worker[w].rows, worker[w].prepend)
      BY <1>7 DEF Land, dbVars
    <2>4. ASSUME NEW r \in worker[w].rows
          PROVE  /\ Once(r) /\ Carries(worker[w], r) /\ Used(r) /\ landed[r] = 0
                 /\ \A v \in Workers : Carries(worker[v], r) => v = w
                 /\ \A c \in orphans : r \notin c.rows
      <3>1. r \in Rows /\ Carries(worker[w], r)
        BY <1>3, <1>7 DEF RowsOf, Carries, Land
      <3>2. Once(r)
        BY <1>1, <3>1 DEF CarriedOnce
      <3> QED
        BY <3>1, <3>2 DEF Once, Used
    <2>5. \A v \in Workers, r \in Rows :
            Carries(worker'[v], r) => Carries(worker[v], r) /\ r \notin worker[w].rows
      BY <1>1, <2>1, <2>2, <2>4 DEF WorkersOK
    <2>6. CarriedOnce' /\ \A r \in Rows : Used(r)' => Used(r)
      BY <1>1, <2>3, <2>4, <2>5, CopiesInserted DEF Types
    <2>7. Unrecorded' \subseteq Unrecorded
      BY <2>3, <2>6 DEF Unrecorded, Pending
    <2>8. WorkerTracked(w, x, job, Unrecorded', Pending)
      BY <2>2, <2>7, WorkerKept
    <2>9. OrphansPlaced'
      BY <1>1, <2>3 DEF OrphansPlaced, RowsOf
    <2> QED
      BY <1>1, <2>1, <2>3, <2>6, <2>8, <2>9, WorkerMoves
  <1> QED
    BY <1>4, <1>5, <1>6, <1>7

(* An execution ends, by itself or not.                                     *)
LEMMA EndTracked ==
  ASSUME Types, Sound, Tracked, NEW w \in Workers,
         SyncEvidence(w) \/ ReleaseFinishedClaimLock(w) \/ Throw(w) \/ Crash(w)
  PROVE  Tracked'
  <1>1. WorkersOK /\ CarriedOnce /\ OrphansPlaced
    BY DEF Types, Tracked
  <1>2. CASE SyncEvidence(w)
    BY <1>1, <1>2, LeaveMoves DEF SyncEvidence, Still, tabVars
  <1>3. CASE ReleaseFinishedClaimLock(w)
    BY <1>1, <1>3, ReturnMoves DEF ReleaseFinishedClaimLock, Still, tabVars
  <1>4. CASE Throw(w)
    <2>1. Still
      BY <1>4 DEF Throw, Still, dbVars, tabVars
    <2> DEFINE x == [Finishing(w, "uncertain") EXCEPT !.caught = TRUE]
    <2>2. CASE worker' = [worker EXCEPT ![w] = x]
      <3>1. /\ x.rows = {} /\ x.call = "none" /\ x.pc = "finish" /\ x.goal = "uncertain"
            /\ ~x.again
        BY DEF Finishing, IdleWorker
      <3> HIDE DEF x
      <3>2. WorkerTracked(w, x, job, Unrecorded, Pending) /\ \A r \in Rows : ~Carries(x, r)
        BY <3>1 DEF WorkerTracked, Early, Late, Carries
      <3> QED
        BY <1>1, <2>1, <2>2, <3>2, WorkerMovesOn DEF Still
    <2> QED
      BY <1>1, <1>4, <2>1, <2>2, LeaveMoves DEF Throw
  <1>5. CASE Crash(w)
    <2>1. /\ UNCHANGED <<job, row, operator, landed>> /\ orphans' = OrphansWithout(w)
          /\ worker' = [worker EXCEPT ![w] = IdleWorker]
          /\ worker'[w] = IdleWorker /\ \A v \in Workers \ {w} : worker'[v] = worker[v]
      BY <1>1, <1>5 DEF Crash, Return, dbVars, tabVars, WorkersOK
    <2>2. /\ WorkerTracked(w, IdleWorker, job, Unrecorded', Pending)
          /\ \A r \in Rows : ~Carries(IdleWorker, r)
      BY IdleRows, TrackedOutside
    <2>3. CarriedOnce' /\ \A r \in Rows : Used(r)' => Used(r)
      BY <1>1, <2>1, <2>2, CopiesOrphaned
    <2>4. OrphansPlaced'
      <3>1. worker[w].job \in Jobs /\ worker[w].rows \subseteq RowsOf(worker[w].job)
        BY <1>5 DEF Types, WorkersOK, WorkerOK, Tracked, WorkersTracked, WorkerTracked, Crash, At
      <3> QED
        BY <1>1, <2>1, <3>1 DEF OrphansPlaced, OrphansWithout, OpenCall, RowsOf
    <2> QED
      BY <1>1, <2>1, <2>2, <2>3, <2>4, WorkerMoves
  <1> QED
    BY <1>2, <1>3, <1>4, <1>5

-----------------------------------------------------------------------------
(* The steps of an execution that write records.                            *)

(* A step of w leaves to another worker what it has the claim of, and a     *)
(* held job as it is.                                                       *)
LEMMA RecordMoves ==
  ASSUME Types, Tracked, NEW w \in Workers, NEW x, worker' = [worker EXCEPT ![w] = x],
         UNCHANGED operator, CarriedOnce', OrphansPlaced', MarkersKept',
         WorkerTracked(w, x, job', Unrecorded', Pending'),
         \A j \in Jobs, v \in Workers \ {w} : job'[j].claim = v =>
           /\ job[j].claim = v
           /\ job'[j].status = job[j].status /\ job'[j].marker = job[j].marker
           /\ Unrecorded' \cap RowsOf(j) \subseteq Unrecorded
           /\ Pending \cap RowsOf(j) \subseteq Pending',
         \A j \in Jobs : job[j].status = "uncertain" =>
           /\ job'[j].status = "uncertain" /\ job'[j].marker = job[j].marker
           /\ Unrecorded' \cap RowsOf(j) \subseteq Unrecorded
  PROVE  Tracked'
  <1>1. ASSUME NEW v \in Workers PROVE WorkerTracked(v, worker'[v], job', Unrecorded', Pending')
    <2>1. CASE v = w
      BY <2>1 DEF Types, WorkersOK
    <2>2. CASE v # w
      <3> DEFINE k == worker[v].job
      <3>1. /\ worker'[v] = worker[v] /\ WorkerTracked(v, worker[v], job, Unrecorded, Pending)
            /\ worker[v].pc # "idle" => k \in Jobs
        BY <2>2 DEF Types, WorkersOK, WorkerOK, Tracked, WorkersTracked
      <3>2. worker[v].pc # "idle" /\ job'[k].claim = v =>
              /\ job[k].claim = v
              /\ job'[k].status = job[k].status /\ job'[k].marker = job[k].marker
              /\ Unrecorded' \cap RowsOf(k) \subseteq Unrecorded
              /\ Pending \cap RowsOf(k) \subseteq Pending'
        BY <2>2, <3>1
      <3>3. worker[v].pc # "idle" /\ job'[k].claim = v =>
              Unrecorded' \cap RowsOf(k) \subseteq Unrecorded \cap RowsOf(k)
        BY <3>2
      <3> QED
        BY <3>1, <3>2, <3>3, WorkerKept
    <2> QED
      BY <2>1, <2>2
  <1>2. ASSUME NEW o \in Operators PROVE OperatorTracked(operator'[o], job', Unrecorded')
    <2> DEFINE k == operator[o].job
    <2>1. OperatorTracked(operator[o], job, Unrecorded) /\ operator'[o] = operator[o]
      BY DEF Tracked, OperatorsTracked
    <2>2. operator[o].pc \in {"column", "adopt", "release"} => k \in Jobs
      BY DEF Types, OperatorsOK, OperatorOK
    <2>3. operator[o].pc \in {"column", "adopt", "release"} =>
            /\ job'[k].status = job[k].status /\ job'[k].marker = job[k].marker
            /\ Unrecorded' \cap RowsOf(k) \subseteq Unrecorded
      BY <2>1, <2>2 DEF OperatorTracked
    <2> QED
      BY <2>1, <2>3, OperatorKept
  <1> QED
    BY <1>1, <1>2 DEF Tracked, WorkersTracked, OperatorsTracked

(* Without an append nothing that is unrecorded is new.                     *)
LEMMA RowsKept ==
  ASSUME WorkersOK, CarriedOnce, OrphansPlaced, NEW w \in Workers, NEW x,
         worker' = [worker EXCEPT ![w] = x], UNCHANGED <<row, landed, orphans>>,
         \A r \in Rows : Carries(x, r) => Carries(worker[w], r)
  PROVE  CarriedOnce' /\ OrphansPlaced' /\ Unrecorded' \subseteq Unrecorded /\ Pending' = Pending
  <1>1. \A v \in Workers, r \in Rows : Carries(worker'[v], r) => Carries(worker[v], r)
    BY DEF WorkersOK
  <1>2. CarriedOnce' /\ \A r \in Rows : Used(r)' => Used(r)
    BY <1>1, CopiesKept
  <1> QED
    BY <1>2 DEF Unrecorded, Pending, OrphansPlaced, RowsOf

(* Rows R are recorded as written.                                          *)
LEMMA RowsRecorded ==
  ASSUME CarriedOnce, OrphansPlaced, NEW R,
         row' = [r \in Rows |-> IF r \in R THEN "written" ELSE row[r]],
         UNCHANGED <<landed, orphans>>,
         \A v \in Workers, r \in Rows : Carries(worker'[v], r) => Carries(worker[v], r)
  PROVE  /\ CarriedOnce' /\ OrphansPlaced'
         /\ Unrecorded' \subseteq Unrecorded \ R /\ Pending' = Pending \ R
  <1>1. CarriedOnce' /\ \A r \in Rows : Used(r)' => Used(r)
    BY CopiesKept
  <1>2. Pending' = Pending \ R /\ Pending \subseteq Rows
    BY DEF Pending
  <1>3. Unrecorded' \subseteq Unrecorded \ R
    BY <1>1, <1>2 DEF Unrecorded
  <1>4. OrphansPlaced'
    BY DEF OrphansPlaced, RowsOf
  <1> QED
    BY <1>1, <1>2, <1>3, <1>4

(* A claim is taken of a job without a marker, so with clean rows.         *)
LEMMA ClaimTracked ==
  ASSUME Types, Sound, Tracked, NEW w \in Workers, Claim(w)
  PROVE  Tracked'
  <1> DEFINE j == worker[w].job
             x == [worker[w] EXCEPT !.pc = "gate"]
             y == [job[j] EXCEPT !.status = "running", !.claim = w, !.age = worker[w].age]
  <1>1. /\ worker[w] \in WorkerRecords /\ WorkerTracked(w, worker[w], job, Unrecorded, Pending)
        /\ WorkersOK /\ CarriedOnce /\ OrphansPlaced /\ j \in Jobs /\ worker[w].pc = "claim"
        /\ worker[w].call = "none" /\ job[j] \in JobRecords
    BY DEF Types, WorkersOK, WorkerOK, Tracked, WorkersTracked, Claim, At, JobsOK, Sound,
           SoundWorkers, WorkerSound
  <1>2. CASE Return(w) /\ UNCHANGED job
    BY <1>1, <1>2, ReturnMoves DEF Claim, Still, tabVars
  <1>3. CASE ~(Return(w) /\ UNCHANGED job)
    <2>1. /\ worker' = [worker EXCEPT ![w] = x] /\ job' = [job EXCEPT ![j] = y]
          /\ job[j].status \in {"queued", "retryable"} /\ ~job[j].marker
      BY <1>3 DEF Claim, Goto
    <2>2. /\ x.pc = "gate" /\ x.job = j /\ x.rows = worker[w].rows /\ x.call = "none"
          /\ x.again = worker[w].again
      BY <1>1 DEF WorkerRecords
    <2>3. y.status = "running" /\ y.claim = w /\ y.marker = job[j].marker
      BY <1>1 DEF JobRecords
    <2> HIDE DEF x, y
    <2>4. job'[j] = y /\ \A k \in Jobs \ {j} : job'[k] = job[k]
      BY <1>1, <2>1 DEF Types, JobsOK
    <2>5. UNCHANGED <<row, landed, orphans, operator>>
      BY DEF Claim, tabVars
    <2>6. CarriedOnce' /\ OrphansPlaced' /\ Unrecorded' \subseteq Unrecorded /\ Pending' = Pending
      BY <1>1, <2>1, <2>2, <2>5, RowsKept DEF Carries
    <2>7. MarkersKept'
      BY <2>3, <2>4, <2>6 DEF Tracked, MarkersKept, RowsOf
    <2>8. WorkerTracked(w, x, job', Unrecorded', Pending')
      BY <1>1, <2>1, <2>2, <2>3, <2>4 DEF WorkerTracked, Early, Late
    <2>9. /\ \A k \in Jobs, v \in Workers \ {w} : job'[k].claim = v => job'[k] = job[k]
          /\ \A k \in Jobs : job[k].status = "uncertain" => job'[k] = job[k]
      BY <2>1, <2>3, <2>4
    <2>10. \A k \in Jobs, v \in Workers \ {w} : job'[k].claim = v =>
             /\ job[k].claim = v
             /\ job'[k].status = job[k].status /\ job'[k].marker = job[k].marker
             /\ Unrecorded' \cap RowsOf(k) \subseteq Unrecorded
             /\ Pending \cap RowsOf(k) \subseteq Pending'
      BY <2>6, <2>9
    <2>11. \A k \in Jobs : job[k].status = "uncertain" =>
             /\ job'[k].status = "uncertain" /\ job'[k].marker = job[k].marker
             /\ Unrecorded' \cap RowsOf(k) \subseteq Unrecorded
      BY <2>6, <2>9
    <2>12. worker' = [worker EXCEPT ![w] = x] /\ UNCHANGED operator
      BY <2>1, <2>5
    <2> QED
      BY <2>6, <2>7, <2>8, <2>10, <2>11, <2>12, RecordMoves
  <1> QED
    BY <1>2, <1>3

(* Settling leaves every marker alone and takes claims away.                *)
LEMMA Settled ==
  ASSUME JobsOK, NEW S \in SUBSET Jobs, NEW now, SettleStaleRuns(S, now)
  PROVE  \A j \in Jobs : /\ job'[j].marker = job[j].marker
                         /\ j \in S => job'[j].claim = None
                         /\ j \notin S => job'[j] = job[j]
  BY DEF SettleStaleRuns, JobsOK, JobRecords

(* Settling takes the claim away, so the stalled worker relies on nothing. *)
LEMMA SettleTracked ==
  ASSUME Types, Sound, Tracked, NEW w \in Workers, Settle(w) \/ SettleSiblings(w)
  PROVE  Tracked'
  <1> DEFINE j == worker[w].job
             x == [worker[w] EXCEPT !.pc = "blocked"]
  <1>1. /\ worker[w] \in WorkerRecords /\ WorkerTracked(w, worker[w], job, Unrecorded, Pending)
        /\ WorkersOK /\ CarriedOnce /\ OrphansPlaced /\ j \in Jobs
        /\ worker[w].pc \in {"settle", "siblings"} /\ worker[w].call = "none" /\ JobsOK
    BY DEF Types, WorkersOK, WorkerOK, Tracked, WorkersTracked, Settle, SettleSiblings, At, Sound,
           SoundWorkers, WorkerSound
  <1>2. UNCHANGED <<row, landed, orphans, operator>>
    BY DEF Settle, SettleSiblings, tabVars
  <1>3. PICK S, now, z :
          /\ S \in SUBSET Jobs /\ \A k \in S : job[k].status = "running"
          /\ SettleStaleRuns(S, now)
          /\ worker' = [worker EXCEPT ![w] = z]
          /\ z = IdleWorker \/ (j \notin S /\ z = x /\ worker[w].pc = "siblings")
    <2>1. CASE Settle(w)
      <3> DEFINE T == IF StaleRun(j, worker[w].age) THEN {j} ELSE {}
      <3>1. T \in SUBSET Jobs /\ \A k \in T : job[k].status = "running"
        BY <1>1 DEF StaleRun
      <3>2. SettleStaleRuns(T, worker[w].age)
        BY <2>1 DEF Settle
      <3>3. worker' = [worker EXCEPT ![w] = IdleWorker]
        BY <2>1 DEF Settle, Return
      <3> HIDE DEF T
      <3> QED
        BY <3>1, <3>2, <3>3
    <2>2. CASE SettleSiblings(w)
      <3> DEFINE T == {k \in Jobs \ {j} : StaleRun(k, worker[w].age)}
      <3>1. T \in SUBSET Jobs /\ j \notin T /\ \A k \in T : job[k].status = "running"
        BY DEF StaleRun
      <3>2. SettleStaleRuns(T, worker[w].age) /\ worker[w].pc = "siblings"
        BY <2>2 DEF SettleSiblings, At
      <3>3. worker' = [worker EXCEPT ![w] = x]
        BY <2>2 DEF SettleSiblings, Goto
      <3> HIDE DEF T, x
      <3> QED
        BY <3>1, <3>2, <3>3
    <2> QED
      BY <2>1, <2>2
  <1>4. \A k \in Jobs : /\ job'[k].marker = job[k].marker
                        /\ k \in S => job'[k].claim = None
                        /\ k \notin S => job'[k] = job[k]
    BY <1>1, <1>3, Settled
  <1>5. /\ x.pc = "blocked" /\ x.job = j /\ x.rows = worker[w].rows /\ x.call = "none"
        /\ x.again = worker[w].again
    BY <1>1 DEF WorkerRecords
  <1> HIDE DEF x
  <1>6. \A r \in Rows : ~Carries(z, r)
    BY <1>3, <1>5, IdleRows DEF Carries, IdleWorker
  <1>7. CarriedOnce' /\ OrphansPlaced' /\ Unrecorded' \subseteq Unrecorded /\ Pending' = Pending
    BY <1>1, <1>2, <1>3, <1>6, RowsKept
  <1>8. MarkersKept'
    BY <1>4, <1>7 DEF Tracked, MarkersKept, RowsOf
  <1>9. WorkerTracked(w, z, job', Unrecorded', Pending')
    <2>1. CASE z = IdleWorker
      BY <2>1, IdleRows, TrackedOutside
    <2>2. CASE j \notin S /\ z = x /\ worker[w].pc = "siblings"
      <3>1. job'[j] = job[j]
        BY <1>1, <1>4, <2>2
      <3> QED
        BY <1>1, <1>5, <2>2, <3>1 DEF WorkerTracked, Early, Late
    <2> QED
      BY <1>3, <2>1, <2>2
  <1>10. /\ \A k \in Jobs, v \in Workers \ {w} : job'[k].claim = v => job'[k] = job[k]
         /\ \A k \in Jobs : job[k].status = "uncertain" => job'[k] = job[k]
    <2>1. \A k \in S : job[k].status # "uncertain" /\ job'[k].claim \notin Workers
      BY <1>3, <1>4, NoneAssumption
    <2> QED
      BY <1>4, <2>1
  <1> QED
    BY <1>2, <1>3, <1>7, <1>8, <1>9, <1>10, RecordMoves

(* What is known of an execution that is to write records under its claim.  *)
LEMMA Holder ==
  ASSUME Types, Sound, Tracked, NEW w \in Workers, worker[w].pc \notin {"idle", "await"}
  PROVE  /\ worker[w] \in WorkerRecords /\ WorkerTracked(w, worker[w], job, Unrecorded, Pending)
         /\ WorkersOK /\ CarriedOnce /\ OrphansPlaced /\ MarkersKept
         /\ worker[w].job \in Jobs /\ worker[w].call = "none" /\ job[worker[w].job] \in JobRecords
  BY DEF Types, WorkersOK, WorkerOK, Tracked, WorkersTracked, JobsOK, Sound, SoundWorkers, WorkerSound

(* The holder of a claim writes its job and the rows of its job.            *)
LEMMA HolderMoves ==
  ASSUME Types, Tracked, NEW w \in Workers, NEW x, worker' = [worker EXCEPT ![w] = x],
         NEW j \in Jobs, job[j].claim = w, job'[j].claim = w, UNCHANGED operator,
         \A k \in Jobs \ {j} : job'[k] = job[k],
         CarriedOnce', OrphansPlaced', Unrecorded' \subseteq Unrecorded \cup RowsOf(j),
         Pending \subseteq Pending' \cup RowsOf(j),
         Unrecorded' \cap RowsOf(j) # {} => job'[j].marker,
         job[j].status = "uncertain" =>
           /\ job'[j].status = "uncertain" /\ job'[j].marker = job[j].marker
           /\ Unrecorded' \cap RowsOf(j) \subseteq Unrecorded,
         WorkerTracked(w, x, job', Unrecorded', Pending')
  PROVE  Tracked'
  <1>1. \A k \in Jobs \ {j} : RowsOf(k) \cap RowsOf(j) = {}
    BY DEF RowsOf
  <1>2. \A k \in Jobs \ {j} : /\ Unrecorded' \cap RowsOf(k) \subseteq Unrecorded
                              /\ Pending \cap RowsOf(k) \subseteq Pending'
    BY <1>1
  <1>3. MarkersKept'
    <2>1. ASSUME NEW k \in Jobs, Unrecorded' \cap RowsOf(k) # {} PROVE job'[k].marker
      <3>1. CASE k = j
        BY <2>1, <3>1
      <3>2. CASE k # j
        BY <1>2, <2>1, <3>2 DEF Tracked, MarkersKept
      <3> QED
        BY <3>1, <3>2
    <2> QED
      BY <2>1 DEF MarkersKept, RowsOf
  <1>4. \A k \in Jobs, v \in Workers \ {w} : job'[k].claim = v =>
          /\ job[k].claim = v
          /\ job'[k].status = job[k].status /\ job'[k].marker = job[k].marker
          /\ Unrecorded' \cap RowsOf(k) \subseteq Unrecorded
          /\ Pending \cap RowsOf(k) \subseteq Pending'
    BY <1>2
  <1>5. \A k \in Jobs : job[k].status = "uncertain" =>
          /\ job'[k].status = "uncertain" /\ job'[k].marker = job[k].marker
          /\ Unrecorded' \cap RowsOf(k) \subseteq Unrecorded
    BY <1>2
  <1> QED
    BY <1>3, <1>4, <1>5, RecordMoves

(* The rows that are about to be sent are pending under no marker: unused. *)
LEMMA MarkTracked ==
  ASSUME Types, Sound, Tracked, NEW w \in Workers, Mark(w)
  PROVE  Tracked'
  <1> DEFINE j == worker[w].job
             R == worker[w].rows
             x == [worker[w] EXCEPT !.pc = "send"]
             y == [job[j] EXCEPT !.marker = TRUE]
  <1>1. worker[w].pc = "mark" /\ UNCHANGED <<row, operator, landed, orphans>>
    BY DEF Mark, At, tabVars
  <1>2. /\ worker[w] \in WorkerRecords /\ WorkerTracked(w, worker[w], job, Unrecorded, Pending)
        /\ WorkersOK /\ CarriedOnce /\ OrphansPlaced /\ MarkersKept
        /\ j \in Jobs /\ worker[w].call = "none" /\ job[j] \in JobRecords
    BY <1>1, Holder
  <1>3. CASE ~BeforeAppend(w)
    BY <1>2, <1>3, LostPreAppendMoves DEF Mark, Still, tabVars
  <1>4. CASE BeforeAppend(w)
    <2>1. /\ worker' = [worker EXCEPT ![w] = x] /\ job' = [job EXCEPT ![j] = y]
          /\ job[j].claim = w /\ job[j].status = "running" /\ ~job[j].marker
      BY <1>4 DEF Mark, Goto, BeforeAppend, OwnsRun, HoldsToken
    <2>2. /\ x.pc = "send" /\ x.job = j /\ x.rows = R /\ x.again = worker[w].again
      BY <1>2 DEF WorkerRecords
    <2>3. y.status = "running" /\ y.claim = w /\ y.marker
      BY <1>2, <2>1 DEF JobRecords
    <2> HIDE DEF x, y
    <2>4. job'[j] = y /\ \A k \in Jobs \ {j} : job'[k] = job[k]
      BY <1>2, <2>1 DEF Types, JobsOK
    <2>5. R \subseteq RowsOf(j) /\ R \subseteq Pending
      BY <1>1, <1>2, <2>1 DEF WorkerTracked
    <2>6. \A r \in R : r \in Rows /\ ~Used(r)
      BY <1>2, <2>1, <2>5 DEF MarkersKept, Unrecorded, RowsOf
    <2>7. /\ \A v \in Workers \ {w} : worker'[v] = worker[v]
          /\ worker'[w] = x
      BY <1>2, <2>1 DEF WorkersOK
    <2>8. ASSUME NEW r \in Rows PROVE Once(r)' /\ (Used(r)' => Used(r) \/ r \in R)
      <3>1. Once(r) /\ (Carries(worker'[w], r) => r \in R)
        BY <1>2, <2>2, <2>7 DEF CarriedOnce, Carries
      <3>2. CASE r \in R
        BY <1>1, <2>6, <2>7, <3>1, <3>2 DEF Once, Used
      <3>3. CASE r \notin R
        BY <1>1, <2>7, <3>1, <3>3 DEF Once, Used
      <3> QED
        BY <3>2, <3>3
    <2>9. CarriedOnce' /\ OrphansPlaced'
      BY <1>1, <1>2, <2>8 DEF CarriedOnce, OrphansPlaced, RowsOf
    <2>10. Pending' = Pending /\ Unrecorded' \subseteq Unrecorded \cup R
      BY <1>1, <2>8 DEF Pending, Unrecorded
    <2>11. Unrecorded \cap RowsOf(j) = {}
      BY <1>2, <2>1 DEF MarkersKept
    <2>12. WorkerTracked(w, x, job', Unrecorded', Pending')
      BY <1>2, <2>2, <2>3, <2>4, <2>5, <2>10, <2>11 DEF WorkerTracked, Early, Late
    <2> QED
      BY <1>1, <1>2, <2>1, <2>3, <2>4, <2>5, <2>9, <2>10, <2>12, HolderMoves
  <1> QED
    BY <1>3, <1>4

(* The batch is accounted for, or the execution's outcome is stored.        *)
LEMMA OutcomeTracked ==
  ASSUME Types, Sound, Tracked, NEW w \in Workers, Advance(w) \/ FinishJob(w)
  PROVE  Tracked'
  <1> DEFINE j == worker[w].job
             x == IF worker[w].pc = "advance"
                  THEN [worker[w] EXCEPT !.pc = "load", !.rows = {}, !.again = FALSE, !.prepend = FALSE]
                  ELSE [worker[w] EXCEPT !.pc = "sync"]
             y == IF worker[w].pc = "advance" THEN [job[j] EXCEPT !.marker = FALSE]
                  ELSE [job[j] EXCEPT !.status = worker[w].goal, !.age = 0,
                                      !.marker = @ /\ worker[w].goal = "uncertain"]
  <1>1. /\ worker[w].pc \in {"advance", "finish"} /\ UNCHANGED <<row, operator, landed, orphans>>
        /\ worker[w].pc = "advance" => Advance(w)
        /\ worker[w].pc = "finish" => FinishJob(w)
    BY DEF Advance, FinishJob, At, tabVars
  <1>2. /\ worker[w] \in WorkerRecords /\ WorkerTracked(w, worker[w], job, Unrecorded, Pending)
        /\ WorkersOK /\ CarriedOnce /\ OrphansPlaced /\ MarkersKept
        /\ j \in Jobs /\ worker[w].call = "none" /\ job[j] \in JobRecords
    BY <1>1, Holder
  <1>3. CASE Leave(w) /\ UNCHANGED job
    BY <1>1, <1>2, <1>3, LeaveMoves DEF Still
  <1>4. CASE ~(Leave(w) /\ UNCHANGED job)
    <2>1. /\ worker' = [worker EXCEPT ![w] = x] /\ job' = [job EXCEPT ![j] = y]
          /\ job[j].claim = w /\ worker[w].pc = "advance" => job[j].status = "running"
      BY <1>1, <1>4 DEF Advance, FinishJob, Goto, OwnsRun, HoldsToken
    <2>2. job[j].claim = w
      BY <1>1, <1>4 DEF Advance, FinishJob, OwnsRun, HoldsToken
    <2>3. CASE worker[w].pc = "advance"
      <3>1. /\ x.pc = "load" /\ x.job = j /\ x.rows = {} /\ ~x.again /\ x.call = "none"
            /\ y.status = job[j].status /\ y.claim = w /\ y.marker = FALSE
        BY <1>2, <2>2, <2>3 DEF WorkerRecords, JobRecords
      <3>2. job[j].status = "running" /\ Unrecorded \cap RowsOf(j) = {}
        BY <1>2, <2>2, <2>3 DEF WorkerTracked, Late
      <3> HIDE DEF x, y
      <3>3. job'[j] = y /\ \A k \in Jobs \ {j} : job'[k] = job[k]
        BY <1>2, <2>1 DEF Types, JobsOK
      <3>4. CarriedOnce' /\ OrphansPlaced' /\ Unrecorded' \subseteq Unrecorded /\ Pending' = Pending
        BY <1>1, <1>2, <2>1, <3>1, RowsKept DEF Carries
      <3>5. WorkerTracked(w, x, job', Unrecorded', Pending')
        BY <3>1, <3>2, <3>3 DEF WorkerTracked, Early, Late
      <3>6. Unrecorded' \cap RowsOf(j) = {} /\ job[j].status # "uncertain"
        BY <3>2, <3>4
      <3>7. worker' = [worker EXCEPT ![w] = x] /\ y.claim = w /\ UNCHANGED operator
        BY <1>1, <2>1, <3>1
      <3> QED
        BY <1>2, <2>2, <3>3, <3>4, <3>5, <3>6, <3>7, HolderMoves
    <2>4. CASE worker[w].pc = "finish"
      <3>1. /\ x.pc = "sync" /\ x.job = j /\ x.rows = worker[w].rows /\ x.again = worker[w].again
            /\ x.call = "none" /\ y.status = worker[w].goal /\ y.claim = w
            /\ y.marker = (job[j].marker /\ worker[w].goal = "uncertain")
        BY <1>2, <2>2, <2>4 DEF WorkerRecords, JobRecords
      <3>2. worker[w].goal # "uncertain" =>
              job[j].status = "running" /\ Unrecorded \cap RowsOf(j) = {}
        BY <1>2, <2>2, <2>4 DEF WorkerTracked
      <3> HIDE DEF x, y
      <3>3. job'[j] = y /\ \A k \in Jobs \ {j} : job'[k] = job[k]
        BY <1>2, <2>1 DEF Types, JobsOK
      <3>4. CarriedOnce' /\ OrphansPlaced' /\ Unrecorded' \subseteq Unrecorded /\ Pending' = Pending
        BY <1>1, <1>2, <2>1, <3>1, RowsKept DEF Carries
      <3>5. WorkerTracked(w, x, job', Unrecorded', Pending')
        BY <1>2, <2>4, <3>1 DEF WorkerTracked, Early, Late
      <3>6. Unrecorded' \cap RowsOf(j) # {} => y.marker
        BY <1>2, <3>1, <3>2, <3>4 DEF MarkersKept
      <3>7. job[j].status = "uncertain" => y.status = "uncertain" /\ y.marker = job[j].marker
        BY <1>2, <3>1, <3>2 DEF JobRecords
      <3>8. worker' = [worker EXCEPT ![w] = x] /\ y.claim = w /\ UNCHANGED operator
        BY <1>1, <2>1, <3>1
      <3> QED
        BY <1>2, <2>2, <3>3, <3>4, <3>5, <3>6, <3>7, <3>8, HolderMoves
    <2> QED
      BY <1>1, <2>3, <2>4
  <1> QED
    BY <1>3, <1>4

(* Rows seen on the tab, or just appended, are recorded under the claim.    *)
LEMMA RecordingTracked ==
  ASSUME Types, Sound, Tracked, NEW w \in Workers, Adopt(w) \/ MarkRowsWritten(w)
  PROVE  Tracked'
  <1> DEFINE j == worker[w].job
             X == worker[w].rows
  <1>1. worker[w].pc \in {"adopt", "written"} /\ UNCHANGED <<job, operator, landed, orphans>>
    BY DEF Adopt, MarkRowsWritten, At, tabVars
  <1>2. /\ worker[w] \in WorkerRecords /\ WorkerTracked(w, worker[w], job, Unrecorded, Pending)
        /\ WorkersOK /\ CarriedOnce /\ OrphansPlaced /\ MarkersKept
        /\ j \in Jobs /\ worker[w].call = "none" /\ job[j] \in JobRecords
    BY <1>1, Holder
  <1>3. CASE UNCHANGED row /\ (Leave(w) \/ Finish(w, "uncertain"))
    BY <1>1, <1>2, <1>3, LeaveMoves, FinishMoves DEF Still
  <1>4. ASSUME NEW R \in SUBSET RowsOf(j), OwnsRun(w), NEW x, worker' = [worker EXCEPT ![w] = x],
               row' = [r \in Rows |-> IF r \in R THEN "written" ELSE row[r]],
               \A r \in Rows : ~Carries(x, r),
               \A U : U \subseteq Unrecorded \ R => WorkerTracked(w, x, job, U, Pending \ R)
        PROVE  Tracked'
    <2>1. \A v \in Workers, r \in Rows : Carries(worker'[v], r) => Carries(worker[v], r)
      BY <1>2, <1>4 DEF WorkersOK
    <2>2. /\ CarriedOnce' /\ OrphansPlaced'
          /\ Unrecorded' \subseteq Unrecorded \ R /\ Pending' = Pending \ R
      BY <1>1, <1>2, <1>4, <2>1, RowsRecorded
    <2>3. WorkerTracked(w, x, job', Unrecorded', Pending')
      BY <1>1, <1>4, <2>2
    <2>4. job[j].claim = w /\ job[j].status = "running"
      BY <1>4 DEF OwnsRun, HoldsToken
    <2> QED
      BY <1>1, <1>2, <1>4, <2>2, <2>3, <2>4, HolderMoves DEF MarkersKept
  <1>5. ASSUME NEW R \in SUBSET RowsOf(j), OwnsRun(w), Finish(w, "uncertain"),
               row' = [r \in Rows |-> IF r \in R THEN "written" ELSE row[r]]
        PROVE  Tracked'
    <2>1. \A U, P : WorkerTracked(w, Finishing(w, "uncertain"), job, U, P)
      BY TrackedFinishing
    <2>2. \A r \in Rows : ~Carries(Finishing(w, "uncertain"), r)
      BY TrackedFinishing
    <2> QED
      BY <1>4, <1>5, <2>1, <2>2 DEF Finish
  <1>6. CASE Adopt(w) /\ OwnsRun(w)
    <2> DEFINE pending == PendingOf(j)
               found == IF pending \cap worker[w].dup # {} THEN {} ELSE pending \cap worker[w].once
               missing == pending \ found
               p == IF worker[w].again THEN "advance" ELSE "load"
               x == [worker[w] EXCEPT !.once = {}, !.dup = {}, !.cut = FALSE, !.pc = p]
    <2>1. /\ row' = [r \in Rows |-> IF r \in found THEN "written" ELSE row[r]]
          /\ \/ Finish(w, "uncertain")
             \/ /\ worker' = [worker EXCEPT ![w] = x]
                /\ ~(worker[w].again /\ X \cap missing # {})
      BY <1>6 DEF Adopt
    <2>2. found \in SUBSET RowsOf(j)
      BY DEF PendingOf
    <2>3. /\ x.pc = p /\ x.job = j /\ x.rows = X /\ x.again = worker[w].again /\ x.call = "none"
          /\ worker[w].pc = "adopt" /\ worker[w].again \in BOOLEAN
      BY <1>2, <1>6 DEF WorkerRecords, Adopt, At
    <2>4. Unrecorded \cap RowsOf(j) \subseteq pending
      BY DEF Unrecorded, Pending, PendingOf, RowsOf
    <2>5. ASSUME ~(worker[w].again /\ X \cap missing # {}), NEW U, U \subseteq Unrecorded \ found
          PROVE  WorkerTracked(w, x, job, U, Pending \ found)
      <3> HIDE DEF x, found
      <3>1. job[j].claim = w /\ job[j].status = "running"
        BY <1>6 DEF OwnsRun, HoldsToken
      <3>2. CASE worker[w].again
        <4>1. Late(worker[w]) /\ Unrecorded \cap RowsOf(j) \subseteq X
          BY <1>2, <2>3, <3>1, <3>2 DEF WorkerTracked, Late
        <4>2. U \cap RowsOf(j) = {}
          BY <2>4, <2>5, <3>2, <4>1
        <4> QED
          BY <1>2, <2>3, <3>1, <3>2, <4>2 DEF WorkerTracked, Early, Late
      <3>3. CASE ~worker[w].again
        <4>1. Early(worker[w]) /\ ~job[j].marker
          BY <1>2, <2>3, <3>1, <3>3 DEF WorkerTracked, Early
        <4> QED
          BY <1>2, <2>3, <3>1, <3>3, <4>1 DEF WorkerTracked, Early, Late
      <3> QED
        BY <3>2, <3>3
    <2>6. \A r \in Rows : ~Carries(x, r)
      BY <2>3 DEF Carries
    <2> HIDE DEF x, found
    <2> QED
      BY <1>4, <1>5, <1>6, <2>1, <2>2, <2>5, <2>6
  <1>7. CASE MarkRowsWritten(w) /\ OwnsRun(w)
    <2> DEFINE x == [worker[w] EXCEPT !.pc = "advance"]
    <2>1. /\ row' = [r \in Rows |-> IF r \in X THEN "written" ELSE row[r]]
          /\ worker' = [worker EXCEPT ![w] = x] \/ Finish(w, "uncertain")
      BY <1>7 DEF MarkRowsWritten, Goto
    <2>2. /\ x.pc = "advance" /\ x.job = j /\ x.rows = X /\ x.again = worker[w].again
          /\ x.call = "none" /\ worker[w].pc = "written"
      BY <1>2, <1>7 DEF WorkerRecords, MarkRowsWritten, At
    <2> HIDE DEF x
    <2>3. X \in SUBSET RowsOf(j) /\ Unrecorded \cap RowsOf(j) \subseteq X
      BY <1>2, <1>7, <2>2 DEF WorkerTracked, OwnsRun, HoldsToken, Late
    <2>4. \A U : U \subseteq Unrecorded \ X => WorkerTracked(w, x, job, U, Pending \ X)
      BY <1>2, <1>7, <2>2, <2>3 DEF WorkerTracked, OwnsRun, Early, Late
    <2>5. \A r \in Rows : ~Carries(x, r)
      BY <2>2 DEF Carries
    <2> QED
      BY <1>4, <1>5, <1>7, <2>1, <2>3, <2>4, <2>5
  <1> QED
    BY <1>3, <1>6, <1>7 DEF Adopt, MarkRowsWritten

-----------------------------------------------------------------------------
(* The steps of the operator.                                               *)

(* Nothing is relied on by an execution whose job is held.                  *)
LEMMA HeldWorkers ==
  ASSUME Types, Tracked, UNCHANGED worker, NEW j \in Jobs, job[j].status = "uncertain",
         job'[j].claim = job[j].claim, \A k \in Jobs \ {j} : job'[k] = job[k],
         Unrecorded' \subseteq Unrecorded, Pending \subseteq Pending' \cup RowsOf(j)
  PROVE  WorkersTracked'
  <1>1. ASSUME NEW v \in Workers PROVE WorkerTracked(v, worker[v], job', Unrecorded', Pending')
    <2> DEFINE k == worker[v].job
    <2>1. /\ WorkerTracked(v, worker[v], job, Unrecorded, Pending)
          /\ worker[v].pc # "idle" => k \in Jobs
      BY DEF Types, WorkersOK, WorkerOK, Tracked, WorkersTracked
    <2>2. CASE k = j
      BY <2>1, <2>2 DEF WorkerTracked, Early, Late
    <2>3. CASE k # j
      <3>1. worker[v].pc # "idle" => job'[k] = job[k] /\ Pending \cap RowsOf(k) \subseteq Pending'
        BY <2>1, <2>3 DEF RowsOf
      <3> QED
        BY <2>1, <3>1, WorkerKept
    <2> QED
      BY <2>2, <2>3
  <1> QED
    BY <1>1 DEF WorkersTracked

(* The only operator moves, and changes neither jobs nor rows.              *)
LEMMA OperatorMoves ==
  ASSUME OneOperator, Types, Tracked, NEW o \in Operators, NEW x,
         operator' = [operator EXCEPT ![o] = x], UNCHANGED <<job, row, worker, landed, orphans>>,
         OperatorTracked(x, job, Unrecorded)
  PROVE  Tracked'
  <1>1. CarriedOnce' /\ Unrecorded' = Unrecorded /\ Pending' = Pending
    BY DEF Tracked, CarriedOnce, Once, Unrecorded, Used, Pending
  <1>2. MarkersKept' /\ OrphansPlaced'
    BY <1>1 DEF Tracked, MarkersKept, OrphansPlaced, RowsOf
  <1>3. WorkersTracked'
    BY <1>1 DEF Tracked, WorkersTracked
  <1>4. OperatorsTracked'
    <2>1. \A p \in Operators : p = o /\ operator'[p] = x
      BY DEF OneOperator, Types, OperatorsOK
    <2> QED
      BY <1>1, <2>1 DEF OperatorsTracked
  <1> QED
    BY <1>1, <1>2, <1>3, <1>4 DEF Tracked

(* The hold release knows every row of the job when it clears a marker.    *)
LEMMA OperatorStepTracked ==
  ASSUME OneOperator, Types, Tracked, NEW o \in Operators,
         (\E j \in Jobs : ReleaseHold(o, j)) \/ Release(o) \/ OpGone(o)
  PROVE  Tracked'
  <1> DEFINE z == operator[o]
             j == z.job
  <1>1. /\ z \in OperatorRecords /\ OperatorTracked(z, job, Unrecorded)
        /\ z.pc # "idle" => j \in Jobs
        /\ OperatorsOK /\ CarriedOnce /\ OrphansPlaced /\ MarkersKept
    BY DEF Types, OperatorsOK, OperatorOK, Tracked, OperatorsTracked
  <1>2. ASSUME NEW x, operator' = [operator EXCEPT ![o] = x], x.pc \in {"idle", "unlock", "sync"},
               UNCHANGED <<job, row, worker, landed, orphans>>
        PROVE  Tracked'
    BY <1>2, OperatorMoves DEF OperatorTracked
  <1>3. ASSUME OpReturn(o), UNCHANGED <<job, row, worker, landed, orphans>> PROVE Tracked'
    <2>1. IdleOperator.pc = "idle"
      BY DEF IdleOperator
    <2> QED
      BY <1>2, <1>3, <2>1 DEF OpReturn
  <1>4. ASSUME NEW k \in Jobs, ReleaseHold(o, k) PROVE Tracked'
    <2> DEFINE x == [IdleOperator EXCEPT !.pc = "column", !.job = k, !.marked = job[k].marker]
    <2>1. x.pc = "column" /\ x.job = k /\ x.marked = job[k].marker
      BY DEF IdleOperator
    <2>2. /\ operator' = [operator EXCEPT ![o] = x] /\ job[k].status = "uncertain"
          /\ UNCHANGED <<job, row, worker, landed, orphans>>
      BY <1>4 DEF ReleaseHold, dbVars, tabVars
    <2> HIDE DEF x
    <2>3. OperatorTracked(x, job, Unrecorded)
      BY <2>1, <2>2 DEF OperatorTracked
    <2> QED
      BY <2>2, <2>3, OperatorMoves
  <1>5. CASE OpReadColumn(o)
    <2>1. PICK once \in SUBSET RowsOf(j), dup \in SUBSET RowsOf(j) :
            operator' = [operator EXCEPT ![o].pc = "adopt", ![o].once = once, ![o].dup = dup,
                                         ![o].cut = long]
      BY <1>5 DEF OpReadColumn
    <2> DEFINE x == [z EXCEPT !.pc = "adopt", !.once = once, !.dup = dup, !.cut = long]
    <2>2. /\ x.pc = "adopt" /\ x.job = j /\ x.marked = z.marked /\ z.pc = "column"
          /\ operator' = [operator EXCEPT ![o] = x]
          /\ UNCHANGED <<job, row, worker, landed, orphans>>
      <3>1. x.pc = "adopt" /\ x.job = j /\ x.marked = z.marked
        BY <1>1 DEF OperatorRecords
      <3>2. operator' = [operator EXCEPT ![o] = x]
        BY <2>1
      <3> QED
        BY <1>5, <3>1, <3>2 DEF OpReadColumn, OpAt, dbVars, tabVars
    <2> HIDE DEF x
    <2>3. OperatorTracked(x, job, Unrecorded)
      BY <1>1, <2>2 DEF OperatorTracked
    <2> QED
      BY <2>2, <2>3, OperatorMoves
  <1>6. CASE OpAdopt(o)
    <2> DEFINE pending == PendingOf(j)
               found == pending \cap z.once
               missing == pending \ found
               g == IF missing = {} THEN "succeeded" ELSE "retryable"
               x == [z EXCEPT !.pc = "release", !.goal = g]
    <2>1. /\ z.pc = "adopt" /\ job[j].status = "uncertain" /\ j \in Jobs
          /\ z.marked <=> job[j].marker
          /\ UNCHANGED <<job, worker, landed, orphans>>
      BY <1>1, <1>6 DEF OpAdopt, OpAt, OperatorTracked, tabVars
    <2>2. CASE OpReturn(o) /\ UNCHANGED row
      BY <1>3, <2>1, <2>2
    <2>3. CASE ~(OpReturn(o) /\ UNCHANGED row)
      <3>1. /\ row' = [r \in Rows |-> IF r \in found THEN "written" ELSE row[r]]
            /\ \/ operator' = [operator EXCEPT ![o] = IdleOperator]
               \/ /\ operator' = [operator EXCEPT ![o] = x]
                  /\ z.marked => missing = {}
        BY <1>6, <2>3 DEF OpAdopt, OpReturn
      <3>2. /\ x.pc = "release" /\ x.job = j /\ x.goal = g /\ IdleOperator.pc = "idle"
        BY <1>1 DEF OperatorRecords, IdleOperator
      <3>3. found \subseteq RowsOf(j) /\ Unrecorded \cap RowsOf(j) \subseteq pending
        BY DEF PendingOf, RowsOf, Unrecorded, Pending
      <3> HIDE DEF found, x, g
      <3>4. /\ CarriedOnce' /\ OrphansPlaced'
            /\ Unrecorded' \subseteq Unrecorded \ found /\ Pending' = Pending \ found
        BY <1>1, <2>1, <3>1, RowsRecorded
      <3>5. MarkersKept'
        BY <1>1, <2>1, <3>4 DEF MarkersKept, RowsOf
      <3>6. WorkersTracked'
        BY <2>1, <3>3, <3>4, HeldWorkers
      <3>7. \A p \in Operators : p = o
        BY DEF OneOperator
      <3>8. OperatorTracked(operator'[o], job', Unrecorded')
        <4>1. CASE operator' = [operator EXCEPT ![o] = IdleOperator]
          BY <1>1, <3>2, <4>1 DEF OperatorsOK, OperatorTracked
        <4>2. CASE operator' = [operator EXCEPT ![o] = x] /\ (z.marked => missing = {})
          <5>1. operator'[o] = x
            BY <1>1, <4>2 DEF OperatorsOK
          <5>2. Unrecorded' \cap RowsOf(j) = {}
            <6>1. CASE job[j].marker
              BY <2>1, <3>3, <3>4, <4>2, <6>1
            <6>2. CASE ~job[j].marker
              BY <1>1, <2>1, <3>4, <6>2 DEF MarkersKept
            <6> QED
              BY <6>1, <6>2
          <5>3. job[j].marker => x.goal = "succeeded"
            BY <2>1, <3>2, <4>2 DEF g
          <5> QED
            BY <2>1, <3>2, <5>1, <5>2, <5>3 DEF OperatorTracked
        <4> QED
          BY <3>1, <4>1, <4>2
      <3>9. OperatorsTracked'
        BY <3>7, <3>8 DEF OperatorsTracked
      <3> QED
        BY <3>4, <3>5, <3>6, <3>9 DEF Tracked
    <2> QED
      BY <2>2, <2>3
  <1>7. CASE OpRelease(o)
    <2> DEFINE x == [z EXCEPT !.pc = "unlock"]
               y == [job[j] EXCEPT !.status = z.goal, !.marker = FALSE]
    <2>1. /\ z.pc = "release" /\ job[j].status = "uncertain" /\ j \in Jobs
          /\ Unrecorded \cap RowsOf(j) = {} /\ UNCHANGED <<row, worker, landed, orphans>>
          /\ job[j] \in JobRecords /\ JobsOK
      BY <1>1, <1>7 DEF OpRelease, OpAt, OperatorTracked, tabVars, Types, JobsOK
    <2>2. operator' = [operator EXCEPT ![o] = x] /\ job' = [job EXCEPT ![j] = y]
      BY <1>7, <2>1 DEF OpRelease, OpGoto
    <2>3. x.pc = "unlock" /\ y.claim = job[j].claim
      BY <1>1, <2>1 DEF OperatorRecords, JobRecords
    <2> HIDE DEF x, y
    <2>4. job'[j] = y /\ (\A k \in Jobs \ {j} : job'[k] = job[k]) /\ operator'[o] = x
      BY <1>1, <2>1, <2>2 DEF JobsOK, OperatorsOK
    <2>5. CarriedOnce' /\ OrphansPlaced' /\ Unrecorded' = Unrecorded /\ Pending' = Pending
      BY <1>1, <2>1 DEF CarriedOnce, Once, Unrecorded, Used, Pending, OrphansPlaced, RowsOf
    <2>6. MarkersKept'
      BY <1>1, <2>1, <2>4, <2>5 DEF MarkersKept, RowsOf
    <2>7. WorkersTracked'
      BY <2>1, <2>3, <2>4, <2>5, HeldWorkers
    <2>8. OperatorsTracked'
      BY <2>3, <2>4 DEF OneOperator, OperatorsTracked, OperatorTracked
    <2> QED
      BY <2>5, <2>6, <2>7, <2>8 DEF Tracked
  <1>8. CASE OpUnlock(o)
    <2> DEFINE x == [z EXCEPT !.pc = "sync"]
    <2>1. x.pc = "sync" /\ operator' = [operator EXCEPT ![o] = x]
      BY <1>1, <1>8 DEF OperatorRecords, OpUnlock, OpGoto
    <2> QED
      BY <1>2, <1>8, <2>1 DEF OpUnlock, tabVars
  <1>9. CASE OpSync(o) \/ OpGone(o)
    BY <1>3, <1>9 DEF OpSync, OpGone, dbVars, tabVars
  <1> QED
    BY <1>4, <1>5, <1>6, <1>7, <1>8, <1>9 DEF Release

-----------------------------------------------------------------------------
(* Steps of Google, of the clock and of others; the induction.              *)

(* Orphans land, the tab is edited, time passes.                           *)
LEMMA OutsideStepTracked ==
  ASSUME Types, Tracked,
         (\E c \in orphans : LandOrphan(c)) \/ Edit \/ CalmDown \/ Tick \/ UNCHANGED vars
  PROVE  Tracked'
  <1>1. CarriedOnce /\ OrphansPlaced /\ MarkersKept /\ WorkersTracked /\ OperatorsTracked
    BY DEF Tracked
  <1>2. ASSUME NEW c \in orphans, LandOrphan(c) PROVE Tracked'
    <2>1. /\ UNCHANGED <<job, row, worker, operator>> /\ Insert(c.rows, c.prepend)
          /\ orphans' = orphans \ {c} /\ c.rows \subseteq Rows
      BY <1>1, <1>2 DEF LandOrphan, dbVars, OrphansPlaced, RowsOf
    <2>2. ASSUME NEW r \in c.rows
          PROVE  /\ Used(r) /\ landed[r] = 0 /\ \A v \in Workers : ~Carries(worker[v], r)
                 /\ \A d \in orphans' : r \notin d.rows
      <3>1. Once(r)
        BY <1>1, <2>1 DEF CarriedOnce
      <3> QED
        BY <2>1, <3>1 DEF Once, Used
    <2>3. CarriedOnce' /\ \A r \in Rows : Used(r)' => Used(r)
      BY <1>1, <2>1, <2>2, CopiesInserted DEF Types
    <2>4. Unrecorded' \subseteq Unrecorded /\ Pending' = Pending
      BY <2>1, <2>3 DEF Unrecorded, Pending
    <2>5. MarkersKept' /\ OrphansPlaced'
      BY <1>1, <2>1, <2>4 DEF MarkersKept, OrphansPlaced, RowsOf
    <2>6. WorkersTracked'
      BY <1>1, <2>1, <2>4, WorkerKept DEF WorkersTracked
    <2>7. OperatorsTracked'
      BY <1>1, <2>1, <2>4, OperatorKept DEF OperatorsTracked
    <2> QED
      BY <2>3, <2>5, <2>6, <2>7 DEF Tracked
  <1>3. CASE Edit \/ CalmDown \/ UNCHANGED vars
    <2>1. UNCHANGED <<job, row, worker, operator, landed, orphans>>
      BY <1>3 DEF Edit, CalmDown, vars, dbVars, tabVars
    <2> QED
      BY <1>1, <2>1 DEF Tracked, CarriedOnce, Once, Unrecorded, Used, Pending, MarkersKept,
                        OrphansPlaced, WorkersTracked, OperatorsTracked, RowsOf
  <1>4. CASE Tick
    <2>1. UNCHANGED <<row, operator, landed, orphans>>
      BY <1>4 DEF Tick, tabVars
    <2>2. \A j \in Jobs : /\ job'[j].status = job[j].status /\ job'[j].claim = job[j].claim
                          /\ job'[j].marker = job[j].marker
      BY <1>4 DEF Tick, Types, JobsOK, JobRecords
    <2>3. ASSUME NEW w \in Workers
          PROVE  /\ worker'[w].pc = worker[w].pc /\ worker'[w].job = worker[w].job
                 /\ worker'[w].rows = worker[w].rows /\ worker'[w].again = worker[w].again
                 /\ worker'[w].goal = worker[w].goal /\ worker'[w].call = worker[w].call
      <3> DEFINE y == [worker[w] EXCEPT !.age = Older(@)]
      <3>1. worker'[w] = y \/ worker'[w] = worker[w]
        BY <1>4 DEF Tick
      <3>2. worker[w] \in WorkerRecords
        BY DEF Types, WorkersOK
      <3> QED
        BY <3>1, <3>2 DEF WorkerRecords
    <2>4. \A w \in Workers, r \in Rows : Carries(worker'[w], r) => Carries(worker[w], r)
      BY <2>3 DEF Carries
    <2>5. CarriedOnce' /\ \A r \in Rows : Used(r)' => Used(r)
      BY <1>1, <2>1, <2>4, CopiesKept
    <2>6. Unrecorded' \subseteq Unrecorded /\ Pending' = Pending
      BY <2>1, <2>5 DEF Unrecorded, Pending
    <2>7. MarkersKept' /\ OrphansPlaced'
      BY <1>1, <2>1, <2>2, <2>6 DEF MarkersKept, OrphansPlaced, RowsOf
    <2>8. ASSUME NEW w \in Workers
          PROVE  WorkerTracked(w, worker'[w], job', Unrecorded', Pending')
      <3>1. WorkerTracked(w, worker[w], job, Unrecorded, Pending)
        BY <1>1 DEF WorkersTracked
      <3>2. worker[w].pc # "idle" => worker[w].job \in Jobs
        BY DEF Types, WorkersOK, WorkerOK
      <3>3. WorkerTracked(w, worker[w], job', Unrecorded', Pending')
        BY <2>2, <2>6, <3>1, <3>2, WorkerKept
      <3>4. (Early(worker'[w]) <=> Early(worker[w])) /\ (Late(worker'[w]) <=> Late(worker[w]))
        BY <2>3 DEF Early, Late
      <3> QED
        BY <2>3, <3>3, <3>4 DEF WorkerTracked
    <2>9. ASSUME NEW o \in Operators PROVE OperatorTracked(operator[o], job', Unrecorded')
      <3>1. OperatorTracked(operator[o], job, Unrecorded)
        BY <1>1 DEF OperatorsTracked
      <3>2. operator[o].pc # "idle" => operator[o].job \in Jobs
        BY DEF Types, OperatorsOK, OperatorOK
      <3> QED
        BY <2>2, <2>6, <3>1, <3>2, OperatorKept
    <2> QED
      BY <2>1, <2>5, <2>7, <2>8, <2>9 DEF Tracked, WorkersTracked, OperatorsTracked
  <1> QED
    BY <1>2, <1>3, <1>4

(* Nothing has been sent at the start.                                     *)
LEMMA InitTracked == Init => Tracked
  <1> SUFFICES ASSUME Init PROVE Tracked
    OBVIOUS
  <1>1. \A w \in Workers : worker[w] = IdleWorker
    BY DEF Init
  <1>2. IdleWorker.pc = "idle" /\ IdleWorker.rows = {} /\ ~IdleWorker.again /\ IdleOperator.pc = "idle"
    BY DEF IdleWorker, IdleOperator
  <1>3. \A r \in Rows : landed[r] = 0 /\ orphans = {} /\ \A w \in Workers : ~Carries(worker[w], r)
    BY <1>1, <1>2 DEF Init, Carries
  <1>4. CarriedOnce /\ OrphansPlaced
    BY <1>3 DEF CarriedOnce, Once, OrphansPlaced, Init
  <1>5. Unrecorded = {}
    BY <1>3 DEF Unrecorded, Pending, Used
  <1>6. MarkersKept
    BY <1>5 DEF MarkersKept
  <1>7. WorkersTracked
    BY <1>1, <1>2, TrackedOutside DEF WorkersTracked
  <1>8. OperatorsTracked
    BY <1>2 DEF Init, OperatorsTracked, OperatorTracked
  <1> QED
    BY <1>4, <1>6, <1>7, <1>8 DEF Tracked

(* The induction step.                                                     *)
LEMMA StepTracked ==
  ASSUME OneOperator, Types, Sound, Tracked, [Next]_vars
  PROVE  Tracked'
  <1>1. ASSUME NEW w \in Workers, NEW j \in Jobs, Begin(w, j) PROVE Tracked'
    BY <1>1, BeginTracked
  <1>2. ASSUME NEW w \in Workers, Execute(w) PROVE Tracked'
    BY <1>2, EarlyStepTracked, BatchStepTracked, AnswerTracked, EndTracked, ClaimTracked,
       SettleTracked, MarkTracked, OutcomeTracked, RecordingTracked DEF Execute
  <1>3. ASSUME NEW w \in Workers, Land(w) \/ Throw(w) \/ Crash(w) PROVE Tracked'
    BY <1>3, AnswerTracked, EndTracked
  <1>4. ASSUME NEW o \in Operators, (\E j \in Jobs : ReleaseHold(o, j)) \/ Release(o) \/ OpGone(o)
        PROVE  Tracked'
    BY <1>4, OperatorStepTracked
  <1> QED
    BY <1>1, <1>2, <1>3, <1>4, OutsideStepTracked DEF Next

(* The invariant holds throughout.                                         *)
LEMMA AlwaysTracked == ASSUME OneOperator PROVE Spec => [](Types /\ Sound /\ Tracked)
  <1>1. Spec => [](Types /\ Sound)
    BY InitTypes, StepTypes, InitSound, StepSound, PTL DEF Spec
  <1>2. Tracked /\ (Types /\ Sound) /\ [Next]_vars => Tracked'
    BY StepTracked
  <1> QED
    BY <1>1, <1>2, InitTracked, PTL DEF Spec

-----------------------------------------------------------------------------
(* What follows.                                                            *)

(* A row that is carried once is open once.                                 *)
LEMMA OpenOnce ==
  ASSUME NEW r, Once(r)
  PROVE  landed[r] + OpenAppends(r) <= 1 /\ (landed[r] + OpenAppends(r) > 0 => Used(r))
  <1> DEFINE A == {w \in Workers : worker[w].call = "open" /\ r \in worker[w].rows}
             B == {c \in orphans : r \in c.rows}
  <1>1. \A w \in A : Carries(worker[w], r)
    BY DEF Carries
  <1>2. (A = {} \/ \E w : A = {w}) /\ (B = {} \/ \E c : B = {c})
    BY <1>1 DEF Once
  <1>3. /\ A = {} => Cardinality(A) = 0
        /\ (\E w : A = {w}) => Cardinality(A) = 1
        /\ B = {} => Cardinality(B) = 0
        /\ (\E c : B = {c}) => Cardinality(B) = 1
    BY FS_EmptySet, FS_Singleton
  <1>4. A = {} \/ B = {}
    BY <1>1 DEF Once
  <1>5. landed[r] = 1 => A = {} /\ B = {}
    BY <1>1 DEF Once
  <1>6. landed[r] \in {0, 1} /\ (A # {} \/ B # {} => Used(r))
    BY <1>1 DEF Once, Used
  <1>7. OpenAppends(r) = Cardinality(A) + Cardinality(B)
    BY DEF OpenAppends
  <1> HIDE DEF A, B
  <1> QED
    BY <1>2, <1>3, <1>4, <1>5, <1>6, <1>7 DEF Used

(* No row is handed to Google while an earlier append of it has landed or   *)
(* may still land, whatever times out, dies, is reclaimed or released.      *)
THEOREM SentOnce == OneOperator => (Spec => []AtMostOnce)
  <1> SUFFICES ASSUME OneOperator PROVE Spec => []AtMostOnce
    OBVIOUS
  <1>1. Tracked => AtMostOnce
    BY OpenOnce DEF Tracked, CarriedOnce, AtMostOnce
  <1> QED
    BY <1>1, AlwaysTracked, PTL

(* A row that an append carried is recorded, or its job keeps the marker.   *)
THEOREM NoneForgotten == OneOperator => (Spec => []NoForgottenAppend)
  <1> SUFFICES ASSUME OneOperator PROVE Spec => []NoForgottenAppend
    OBVIOUS
  <1>1. Tracked => NoForgottenAppend
    <2> SUFFICES ASSUME Tracked, NEW r \in Rows, row[r] = "pending", landed[r] + OpenAppends(r) > 0
                 PROVE  job[JobOf[r]].marker
      BY DEF NoForgottenAppend
    <2>1. Used(r)
      BY OpenOnce DEF Tracked, CarriedOnce
    <2>2. JobOf[r] \in Jobs
      BY JobOfAssumption
    <2> QED
      BY <2>1, <2>2 DEF Tracked, MarkersKept, Unrecorded, Pending, RowsOf
  <1> QED
    BY <1>1, AlwaysTracked, PTL

(* The steps that can change a status, a marker or a claim.                 *)
LEMMA JobsLeft ==
  ASSUME Types, Next,
         ~\E w \in Workers : Claim(w) \/ Settle(w) \/ SettleSiblings(w) \/ Mark(w) \/ Advance(w)
                               \/ FinishJob(w),
         ~\E o \in Operators : OpRelease(o)
  PROVE  \A j \in Jobs : /\ job'[j].status = job[j].status /\ job'[j].marker = job[j].marker
                         /\ job'[j].claim = job[j].claim
  <1>1. CASE Tick
    BY <1>1 DEF Tick, Types, JobsOK, JobRecords
  <1>2. ASSUME NEW w \in Workers, Execute(w) PROVE UNCHANGED job
    <2>1. CASE Gate(w) \/ CheckBlocked(w) \/ ReadLock(w) \/ ReadOwner(w) \/ TakeLock(w)
      BY <2>1 DEF Gate, CheckBlocked, ReadLock, ReadOwner, TakeLock, dbVars
    <2>2. CASE Preflight(w) \/ InspectHeader(w) \/ ConfirmClaim(w) \/ ReadColumn(w)
      BY <2>2 DEF Preflight, InspectHeader, Inspect, ConfirmClaim, ReadColumn, dbVars
    <2>3. CASE Adopt(w) \/ LoadBatch(w) \/ ReinspectHeader(w) \/ Send(w)
      BY <2>3 DEF Adopt, LoadBatch, ReinspectHeader, Inspect, Send, dbVars
    <2>4. CASE AppendOk(w) \/ AppendRefused(w) \/ AppendAmbiguous(w) \/ MarkRowsWritten(w)
      BY <2>4 DEF AppendOk, AppendRefused, AppendAmbiguous, MarkRowsWritten, dbVars
    <2>5. CASE SyncEvidence(w) \/ ReleaseFinishedClaimLock(w)
      BY <2>5 DEF SyncEvidence, ReleaseFinishedClaimLock
    <2> QED
      BY <1>2, <2>1, <2>2, <2>3, <2>4, <2>5 DEF Execute
  <1>3. CASE \E w \in Workers : (\E j \in Jobs : Begin(w, j)) \/ Land(w) \/ Throw(w) \/ Crash(w)
    BY <1>3 DEF Begin, Land, Throw, Crash, dbVars
  <1>4. CASE \E o \in Operators : (\E j \in Jobs : ReleaseHold(o, j)) \/ Release(o) \/ OpGone(o)
    BY <1>4 DEF ReleaseHold, Release, OpReadColumn, OpAdopt, OpUnlock, OpSync, OpGone, dbVars
  <1>5. CASE (\E c \in orphans : LandOrphan(c)) \/ Edit \/ CalmDown
    BY <1>5 DEF LandOrphan, Edit, CalmDown, dbVars
  <1> QED
    BY <1>1, <1>2, <1>3, <1>4, <1>5 DEF Next

(* Settling changes running jobs only, and to a status that is not a result. *)
LEMMA SettledJobs ==
  ASSUME Types, NEW w \in Workers, Settle(w) \/ SettleSiblings(w), NEW j \in Jobs
  PROVE  /\ job'[j].marker = job[j].marker
         /\ \/ job'[j] = job[j]
            \/ job[j].status = "running" /\ job'[j].status \in {"retryable", "uncertain"}
  <1>1. PICK S, now :
          /\ S \in SUBSET Jobs /\ \A k \in S : job[k].status = "running"
          /\ SettleStaleRuns(S, now)
    <2>1. CASE Settle(w)
      <3> DEFINE k == worker[w].job
                 T == IF StaleRun(k, worker[w].age) THEN {k} ELSE {}
      <3>1. k \in Jobs
        BY <2>1 DEF Settle, At, Types, WorkersOK, WorkerOK
      <3>2. T \in SUBSET Jobs /\ \A i \in T : job[i].status = "running"
        BY <3>1 DEF StaleRun
      <3>3. SettleStaleRuns(T, worker[w].age)
        BY <2>1 DEF Settle
      <3> HIDE DEF T
      <3> QED
        BY <3>2, <3>3
    <2>2. CASE SettleSiblings(w)
      <3> DEFINE T == {k \in Jobs \ {worker[w].job} : StaleRun(k, worker[w].age)}
      <3>1. T \in SUBSET Jobs /\ \A i \in T : job[i].status = "running"
        BY DEF StaleRun
      <3>2. SettleStaleRuns(T, worker[w].age)
        BY <2>2 DEF SettleSiblings
      <3> HIDE DEF T
      <3> QED
        BY <3>1, <3>2
    <2> QED
      BY <2>1, <2>2
  <1>2. JobsOK
    BY DEF Types
  <1>3. job'[j].marker = job[j].marker /\ (j \notin S => job'[j] = job[j])
    BY <1>1, <1>2, Settled
  <1>4. j \in S => job'[j].status \in {"retryable", "uncertain"}
    BY <1>1, <1>2 DEF SettleStaleRuns, JobsOK, JobRecords
  <1> QED
    BY <1>1, <1>3, <1>4

(* The status and the marker of the one job that another step writes.       *)
LEMMA OneJobWritten ==
  ASSUME Types, Sound, Tracked, NEW w \in Workers,
         Claim(w) \/ Mark(w) \/ Advance(w) \/ FinishJob(w), ~UNCHANGED job
  PROVE  /\ worker[w].job \in Jobs /\ \A k \in Jobs \ {worker[w].job} : job'[k] = job[k]
         /\ LET x == job[worker[w].job]
                y == job'[worker[w].job]
            IN  \/ Claim(w) /\ x.status # "succeeded" /\ y.status = "running" /\ ~x.marker
                \/ Mark(w) /\ y.status = x.status /\ y.marker
                \/ Advance(w) /\ y.status = x.status /\ x.status = "running"
                \/ /\ FinishJob(w) /\ y.status = worker[w].goal
                   /\ x.status = "running" \/ (y.marker <=> x.marker)
  <1> DEFINE j == worker[w].job
  <1>1. worker[w].pc \notin {"idle", "await"}
    BY DEF Claim, Mark, Advance, FinishJob, At
  <1>2. /\ WorkerTracked(w, worker[w], job, Unrecorded, Pending)
        /\ j \in Jobs /\ job[j] \in JobRecords /\ JobsOK
    BY <1>1, Holder DEF Types
  <1>3. CASE Claim(w)
    <2>1. /\ job[j].status \in {"queued", "retryable"} /\ ~job[j].marker
          /\ job' = [job EXCEPT ![j].status = "running", ![j].claim = w,
                                ![j].age = worker[w].age]
      BY <1>3 DEF Claim
    <2> QED
      BY <1>2, <1>3, <2>1 DEF JobsOK, JobRecords
  <1>4. CASE Mark(w)
    <2>1. job' = [job EXCEPT ![j].marker = TRUE]
      BY <1>4 DEF Mark
    <2> QED
      BY <1>2, <1>4, <2>1 DEF JobsOK, JobRecords
  <1>5. CASE Advance(w)
    <2>1. job' = [job EXCEPT ![j].marker = FALSE] /\ job[j].status = "running"
      BY <1>5 DEF Advance, OwnsRun
    <2> QED
      BY <1>2, <1>5, <2>1 DEF JobsOK, JobRecords
  <1>6. CASE FinishJob(w)
    <2>1. /\ HoldsToken(w) /\ worker[w].pc = "finish"
          /\ job' = [job EXCEPT ![j].status = worker[w].goal, ![j].age = 0,
                                ![j].marker = @ /\ worker[w].goal = "uncertain"]
      BY <1>6 DEF FinishJob, At
    <2>2. job[j].status = "running" \/ worker[w].goal = "uncertain"
      BY <1>2, <2>1 DEF WorkerTracked, HoldsToken
    <2> QED
      BY <1>2, <1>6, <2>1, <2>2 DEF JobsOK, JobRecords
  <1> QED
    BY <1>3, <1>4, <1>5, <1>6

(* A hold is lifted for the one job the operator has.                       *)
LEMMA OneJobReleased ==
  ASSUME Types, Tracked, NEW o \in Operators, OpRelease(o)
  PROVE  /\ operator[o].job \in Jobs /\ \A k \in Jobs \ {operator[o].job} : job'[k] = job[k]
         /\ operator[o].pc = "release" /\ OperatorTracked(operator[o], job, Unrecorded)
         /\ job'[operator[o].job].status = operator[o].goal
  <1>1. /\ operator[o].pc = "release" /\ operator[o].job \in Jobs
        /\ OperatorTracked(operator[o], job, Unrecorded) /\ JobsOK
    BY DEF OpRelease, OpAt, Types, OperatorsOK, OperatorOK, Tracked, OperatorsTracked
  <1>2. job[operator[o].job].status = "uncertain"
    BY <1>1 DEF OperatorTracked
  <1> QED
    BY <1>1, <1>2 DEF OpRelease, JobsOK, JobRecords

(* Lifting a hold clears the marker only with every row accounted for.      *)
THEOREM MarkerKept == OneOperator => (Spec => ReleaseKeepsMarker)
  <1> SUFFICES ASSUME OneOperator PROVE Spec => ReleaseKeepsMarker
    OBVIOUS
  <1>1. ASSUME Types, Sound, Tracked, [Next]_vars, NEW j \in Jobs,
               job[j].status = "uncertain", job[j].marker, ~job'[j].marker
        PROVE  \A r \in RowsOf(j) : row[r] = "written"
    <2>1. ~UNCHANGED job /\ Next
      BY <1>1 DEF vars
    <2>2. ~\E w \in Workers : Settle(w) \/ SettleSiblings(w)
      BY <1>1, SettledJobs
    <2>3. ~\E w \in Workers : Claim(w) \/ Mark(w) \/ Advance(w) \/ FinishJob(w)
      <3> SUFFICES ASSUME NEW w \in Workers, Claim(w) \/ Mark(w) \/ Advance(w) \/ FinishJob(w)
                   PROVE  FALSE
        OBVIOUS
      <3> QED
        BY <1>1, <2>1, OneJobWritten
    <2>4. PICK o \in Operators : OpRelease(o)
      BY <1>1, <2>1, <2>2, <2>3, JobsLeft
    <2>5. operator[o].job = j /\ operator[o].goal = "succeeded" /\ operator[o].pc = "release"
      BY <1>1, <2>4, OneJobReleased DEF OperatorTracked
    <2> QED
      BY <1>1, <2>5 DEF Sound, SoundOperators, OperatorSound, RowsOf, WrittenRows
  <1>2. (Types /\ Sound /\ Tracked) /\ [Next]_vars =>
          [\A j \in Jobs : job[j].status = "uncertain" /\ job[j].marker /\ ~job'[j].marker
             => \A r \in RowsOf(j) : row[r] = "written"]_vars
    BY <1>1
  <1> QED
    BY <1>2, AlwaysTracked, PTL DEF Spec, ReleaseKeepsMarker

-----------------------------------------------------------------------------
(* The engine implements the ledger.                                        *)

(* The steps that can change the records of rows or the tab's history.      *)
LEMMA RowsLeft ==
  ASSUME [Next]_vars,
         ~\E w \in Workers : Adopt(w) \/ MarkRowsWritten(w) \/ Land(w),
         ~\E c \in orphans : LandOrphan(c), ~\E o \in Operators : OpAdopt(o)
  PROVE  UNCHANGED <<row, landed>>
  <1>1. CASE Tick \/ Edit \/ CalmDown \/ UNCHANGED vars
    BY <1>1 DEF Tick, Edit, CalmDown, dbVars, tabVars, vars
  <1>2. ASSUME NEW w \in Workers, Execute(w) PROVE UNCHANGED <<row, landed>>
    <2>1. CASE Settle(w) \/ Claim(w) \/ SettleSiblings(w) \/ TakeLock(w) \/ Mark(w)
      BY <2>1 DEF Settle, Claim, SettleSiblings, TakeLock, Mark, tabVars
    <2>2. CASE Advance(w) \/ FinishJob(w) \/ SyncEvidence(w) \/ ReleaseFinishedClaimLock(w)
      BY <2>2 DEF Advance, FinishJob, SyncEvidence, ReleaseFinishedClaimLock, tabVars
    <2>3. CASE Gate(w) \/ CheckBlocked(w) \/ ReadLock(w) \/ ReadOwner(w) \/ Preflight(w)
      BY <2>3 DEF Gate, CheckBlocked, ReadLock, ReadOwner, Preflight, dbVars, tabVars
    <2>4. CASE InspectHeader(w) \/ ReinspectHeader(w) \/ ConfirmClaim(w) \/ ReadColumn(w)
      BY <2>4 DEF InspectHeader, ReinspectHeader, Inspect, ConfirmClaim, ReadColumn, dbVars, tabVars
    <2>5. CASE LoadBatch(w) \/ Send(w) \/ AppendOk(w) \/ AppendRefused(w) \/ AppendAmbiguous(w)
      BY <2>5 DEF LoadBatch, Send, AppendOk, AppendRefused, AppendAmbiguous, dbVars, tabVars
    <2> QED
      BY <1>2, <2>1, <2>2, <2>3, <2>4, <2>5 DEF Execute
  <1>3. CASE \E w \in Workers : (\E j \in Jobs : Begin(w, j)) \/ Throw(w) \/ Crash(w)
    BY <1>3 DEF Begin, Throw, Crash, dbVars, tabVars
  <1>4. CASE \E o \in Operators : (\E j \in Jobs : ReleaseHold(o, j)) \/ Release(o) \/ OpGone(o)
    BY <1>4 DEF ReleaseHold, Release, OpReadColumn, OpRelease, OpUnlock, OpSync, OpGone, dbVars,
                tabVars
  <1> QED
    BY <1>1, <1>2, <1>3, <1>4 DEF Next

(* Every step of the engine is a step of the ledger or leaves it alone.     *)
LEMMA LedgerStep ==
  ASSUME OneOperator, Types, Sound, Tracked, [Next]_vars
  PROVE  [Ledger!Next]_(Ledger!vars)
  <1> DEFINE rec == {r \in Rows : row[r] = "written"}
             del == {j \in Jobs : job[j].status = "succeeded"}
  <1>1. Sound'
    BY StepSound
  <1>2. CASE UNCHANGED <<landed, row>> /\ del' = del
    BY <1>2 DEF Ledger!vars
  <1>3. ASSUME NEW R \in SUBSET Rows, NEW k \in Jobs, R \subseteq RowsOf(k), NEW h, Insert(R, h),
               \A r \in R : landed[r] = 0, UNCHANGED <<job, row>>
        PROVE  Ledger!Next
    <2>1. landed' = [r \in Rows |-> IF r \in R THEN 1 ELSE landed[r]]
      BY <1>3 DEF Insert, Types, TabOK
    <2>2. Ledger!Append(k, R)
      BY <1>3, <2>1 DEF Ledger!Append, RowsOf
    <2> QED
      BY <2>2 DEF Ledger!Next
  <1>4. ASSUME UNCHANGED <<job, landed>>, rec \subseteq rec' PROVE Ledger!Next
    <2>1. \A r \in rec' : landed[r] = 1
      <3>1. \A r \in rec' : r \in Rows /\ landed'[r] > 0
        BY <1>1 DEF Sound, SoundRows, WrittenRows, LandedRows
      <3> QED
        BY <1>4, <3>1 DEF Tracked, CarriedOnce, Once
    <2>2. PICK R \in SUBSET Rows : R = rec'
      OBVIOUS
    <2>3. Ledger!Record(R)
      BY <1>4, <2>1, <2>2 DEF Ledger!Record
    <2> QED
      BY <2>3 DEF Ledger!Next
  <1>5. ASSUME UNCHANGED <<row, landed>>, NEW k \in Jobs, \A i \in Jobs \ {k} : job'[i] = job[i]
        PROVE  Ledger!Next
    <2>1. CASE job'[k].status = "succeeded"
      <3>1. RowsOf(k) \subseteq rec
        BY <1>1, <1>5, <2>1 DEF Sound, SoundJobs, WrittenRows, RowsOf
      <3>2. Ledger!Deliver(k)
        BY <1>5, <2>1, <3>1 DEF Ledger!Deliver, RowsOf
      <3> QED
        BY <3>2 DEF Ledger!Next
    <2>2. CASE job'[k].status # "succeeded"
      <3>1. Ledger!Doubt(k)
        BY <1>5, <2>2 DEF Ledger!Doubt
      <3> QED
        BY <3>1 DEF Ledger!Next
    <2> QED
      BY <2>1, <2>2
  <1>6. ASSUME NEW w \in Workers, Land(w) PROVE Ledger!Next
    <2> DEFINE R == worker[w].rows
               k == worker[w].job
    <2>1. R \subseteq RowsOf(k) /\ k \in Jobs
      BY <1>6 DEF Land, At, Types, WorkersOK, WorkerOK, Tracked, WorkersTracked, WorkerTracked
    <2>2. \A r \in R : r \in Rows /\ landed[r] = 0
      BY <1>6, <2>1 DEF Land, RowsOf, Carries, Tracked, CarriedOnce, Once
    <2>3. Insert(R, worker[w].prepend) /\ UNCHANGED <<job, row>>
      BY <1>6 DEF Land, dbVars
    <2> QED
      BY <1>3, <2>1, <2>2, <2>3
  <1>7. ASSUME NEW c \in orphans, LandOrphan(c) PROVE Ledger!Next
    <2>1. PICK k \in Jobs : c.rows \subseteq RowsOf(k)
      BY DEF Tracked, OrphansPlaced
    <2>2. \A r \in c.rows : r \in Rows /\ landed[r] = 0
      BY <2>1 DEF RowsOf, Tracked, CarriedOnce, Once
    <2>3. Insert(c.rows, c.prepend) /\ UNCHANGED <<job, row>>
      BY <1>7 DEF LandOrphan, dbVars
    <2> QED
      BY <1>3, <2>1, <2>2, <2>3
  <1>8. CASE (\E w \in Workers : Adopt(w) \/ MarkRowsWritten(w)) \/ \E o \in Operators : OpAdopt(o)
    <2>1. UNCHANGED <<job, landed>>
      BY <1>8 DEF Adopt, MarkRowsWritten, OpAdopt, tabVars
    <2>2. rec \subseteq rec'
      BY <1>8 DEF Adopt, MarkRowsWritten, OpAdopt
    <2> QED
      BY <1>4, <2>1, <2>2
  <1>9. ASSUME UNCHANGED <<row, landed>> PROVE [Ledger!Next]_(Ledger!vars)
    <2>1. ASSUME \A j \in Jobs : job'[j].status = "succeeded" <=> job[j].status = "succeeded"
          PROVE  [Ledger!Next]_(Ledger!vars)
      BY <1>2, <1>9, <2>1
    <2>2. CASE UNCHANGED job
      BY <2>1, <2>2
    <2>3. CASE ~UNCHANGED job /\ \E w \in Workers : Claim(w) \/ Mark(w) \/ Advance(w) \/ FinishJob(w)
      BY <1>5, <1>9, <2>3, OneJobWritten
    <2>4. CASE \E w \in Workers : Settle(w) \/ SettleSiblings(w)
      BY <2>1, <2>4, SettledJobs
    <2>5. CASE \E o \in Operators : OpRelease(o)
      BY <1>5, <1>9, <2>5, OneJobReleased
    <2>6. CASE UNCHANGED vars
      BY <2>2, <2>6 DEF vars
    <2> QED
      BY <2>1, <2>2, <2>3, <2>4, <2>5, <2>6, JobsLeft
  <1> QED
    BY <1>6, <1>7, <1>8, <1>9, RowsLeft

(* Each row is inserted at most once, recorded only after that and for good, *)
(* and a delivery is complete once all its rows are recorded.               *)
THEOREM LedgerImplemented == OneOperator => (Spec => ImplementsLedger)
  <1> SUFFICES ASSUME OneOperator PROVE Spec => ImplementsLedger
    OBVIOUS
  <1>1. Init => Ledger!Init
    BY DEF Init, Ledger!Init
  <1>2. (Types /\ Sound /\ Tracked) /\ [Next]_vars => [Ledger!Next]_(Ledger!vars)
    BY LedgerStep
  <1> QED
    BY <1>1, <1>2, AlwaysTracked, PTL DEF Spec, ImplementsLedger, Ledger!Spec
=============================================================================
