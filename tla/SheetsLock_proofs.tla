------------------------- MODULE SheetsLock_proofs -------------------------
(***************************************************************************)
(* The worksheet lock.  A job whose append is started or whose execution   *)
(* is past the lock owns it, as long as no execution comes to the lock     *)
(* after its own lease (InTime) and no release-hold request frees it after *)
(* its job was claimed again (UnlocksInTime): then no two jobs append at a *)
(* time, and the header is inserted once.                                  *)
(***************************************************************************)
EXTENDS SheetsAppend_proofs, WellFoundedInduction

USE RowsAssumption

(* An execution claims at the clock it read, and uses that reading for the  *)
(* lock no later than a lease after it.                                     *)
InTime == ClaimLag = 0 /\ ClockLag <= Lease

(* The lock of a released hold is freed before the job runs or is held again. *)
UnlocksInTime ==
  \A o \in Operators : OpAt(o, "unlock") =>
    job[operator[o].job].status \notin {"running", "uncertain"}

-----------------------------------------------------------------------------
(* The invariant of the lock.                                               *)

(* Between the claim and the lock, and from the lock to the outcome.        *)
Ahead == {"gate", "siblings", "blocked", "readLock", "readOwner", "takeLock"}
Inside == {"preflight", "inspect", "confirm", "column", "adopt", "load", "reinspect", "mark",
           "send", "await", "written", "advance"}

(* An execution on its way to the lock still has its claim, of the same age *)
(* as its clock reading.                                                    *)
WorkerTimely(w, x, J) ==
  /\ x.pc = "claim" => x.age = 0
  /\ x.pc \in Ahead => /\ J[x.job].claim = w /\ J[x.job].status = "running" /\ ~J[x.job].marker
                       /\ x.age <= Lease /\ J[x.job].age = x.age
  /\ x.pc \notin {"readOwner", "takeLock"} => x.steal = None

Inhabits(w, j) ==
  worker[w].pc \in Inside /\ worker[w].job = j /\ job[j].claim = w /\ job[j].status = "running"
Protected(j) == job[j].marker \/ \E w \in Workers : Inhabits(w, j)

(* A clock reading that may steal j's lock is at least as old as j's claim  *)
(* and as the lock.                                                         *)
Harmless(x, j) ==
  x.pc = "takeLock" /\ x.steal = j =>
    /\ job[j].status = "running" => job[j].age <= x.age
    /\ Protected(j) => lock.age <= x.age

Timely == \A w \in Workers : WorkerTimely(w, worker[w], job)
MarkersHeld == \A j \in Jobs : job[j].marker => job[j].status \in {"running", "uncertain"}
LockKept == \A j \in Jobs : Protected(j) => lock.owner = j
NoneSteals == \A w \in Workers, j \in Jobs : Harmless(worker[w], j)
HoldsLifted == \A o \in Operators : operator[o].goal \in {"retryable", "succeeded"}

Locking == Timely /\ MarkersHeld /\ LockKept /\ NoneSteals /\ HoldsLifted

-----------------------------------------------------------------------------
(* Steps that change locals only.                                           *)

(* What an execution w may make of its locals.                              *)
Onward(w, x) ==
  /\ x.pc = "claim" => x.age = 0
  /\ x.pc \in Ahead => worker[w].pc \in Ahead /\ x.job = worker[w].job /\ x.age = worker[w].age
  /\ x.pc \in Inside => worker[w].pc \in Inside /\ x.job = worker[w].job
  /\ x.pc \notin {"readOwner", "takeLock"} => x.steal = None
  /\ x.pc = "takeLock" /\ x.steal \in Jobs =>
       ~job[x.steal].marker /\ job[x.steal].status \notin {"running", "uncertain"}

(* The phases of an execution are disjoint.                                 *)
LEMMA Phases ==
  /\ Ahead \cap Inside = {} /\ "claim" \notin Ahead \cup Inside
  /\ \A p \in {"idle", "settle", "finish", "sync", "unlock"} : p \notin Ahead \cup Inside
  BY DEF Ahead, Inside

(* An onward move keeps the invariant: nobody new is inside.                *)
LEMMA MovesKept ==
  ASSUME Types, Locking, NEW w \in Workers, NEW x, worker' = [worker EXCEPT ![w] = x],
         UNCHANGED <<job, lock, operator>>, Onward(w, x)
  PROVE  Locking'
  <1>1. worker'[w] = x /\ \A v \in Workers \ {w} : worker'[v] = worker[v]
    BY DEF Types, WorkersOK
  <1>2. ASSUME NEW v \in Workers, NEW j, Inhabits(v, j)' PROVE Inhabits(v, j)
    BY <1>1, <1>2 DEF Inhabits, Onward
  <1>3. \A j : Protected(j)' => Protected(j)
    BY <1>2 DEF Protected
  <1>4. Timely'
    BY <1>1 DEF Locking, Timely, WorkerTimely, Onward
  <1>5. LockKept' /\ MarkersHeld'
    BY <1>3 DEF Locking, LockKept, MarkersHeld
  <1>6. NoneSteals'
    <2> SUFFICES ASSUME NEW v \in Workers, NEW j \in Jobs PROVE Harmless(worker[v], j)'
      BY DEF NoneSteals
    <2>1. CASE v = w
      <3>1. ASSUME x.pc = "takeLock", x.steal = j PROVE job[j].status # "running" /\ ~Protected(j)
        BY <3>1 DEF Onward, Protected, Inhabits
      <3> QED
        BY <1>1, <1>3, <2>1, <3>1 DEF Harmless
    <2>2. CASE v # w
      BY <1>1, <1>3, <2>2 DEF Locking, NoneSteals, Harmless
    <2> QED
      BY <2>1, <2>2
  <1> QED
    BY <1>4, <1>5, <1>6 DEF Locking, HoldsLifted

(* Ending, leaving and finishing an execution are onward moves.             *)
LEMMA OnwardOut ==
  ASSUME NEW w, NEW x, x.steal = None, x.pc \in {"idle", "settle", "finish", "sync", "unlock"}
  PROVE  Onward(w, x)
  BY Phases, NoneAssumption DEF Onward

(* As are moves from one place to the next within a phase.                  *)
LEMMA OnwardWithin ==
  ASSUME Types, Locking, NEW w \in Workers, NEW x, x.job = worker[w].job,
         \/ worker[w].pc \in Inside /\ x.pc \in Inside /\ x.steal = worker[w].steal
         \/ /\ worker[w].pc \in Ahead /\ x.pc \in Ahead \ {"readOwner", "takeLock"}
            /\ x.steal = None /\ x.age = worker[w].age
  PROVE  Onward(w, x)
  <1>1. worker[w].pc \in Inside => worker[w].steal = None
    BY DEF Locking, Timely, WorkerTimely, Inside
  <1> QED
    BY <1>1, Phases, NoneAssumption DEF Onward

Quiet == UNCHANGED <<job, lock, operator>>

(* The ways out, whatever the outcome.                                      *)
LEMMA OutKept ==
  ASSUME Types, Locking, NEW w \in Workers, Quiet,
         Return(w) \/ Leave(w) \/ LostPreAppend(w) \/ \E s : Finish(w, s)
  PROVE  Locking'
  <1>1. ASSUME NEW x, worker' = [worker EXCEPT ![w] = x], x.steal = None,
               x.pc \in {"idle", "settle", "finish", "sync", "unlock"}
        PROVE  Locking'
    BY <1>1, OnwardOut, MovesKept DEF Quiet
  <1>2. CASE Return(w)
    <2>1. IdleWorker.steal = None /\ IdleWorker.pc = "idle"
      BY DEF IdleWorker
    <2> QED
      BY <1>1, <1>2, <2>1 DEF Return
  <1>3. CASE \E s : Finish(w, s)
    <2>1. \A s : Finishing(w, s).steal = None /\ Finishing(w, s).pc = "finish"
      BY DEF Finishing, IdleWorker
    <2> QED
      BY <1>1, <1>3, <2>1 DEF Finish
  <1>4. CASE Leave(w)
    <2> DEFINE x == [IdleWorker EXCEPT !.pc = "unlock", !.job = worker[w].job, !.locked = TRUE]
    <2>1. x.steal = None /\ x.pc = "unlock"
      BY DEF IdleWorker
    <2>2. Return(w) \/ worker' = [worker EXCEPT ![w] = x]
      BY <1>4 DEF Leave
    <2> HIDE DEF x
    <2> QED
      BY <1>1, <1>2, <2>1, <2>2
  <1> QED
    BY <1>2, <1>3, <1>4 DEF LostPreAppend

(* A move to the next place within a phase.                                 *)
LEMMA GotoKept ==
  ASSUME Types, Locking, NEW w \in Workers, Quiet, NEW p, Goto(w, p),
         \/ worker[w].pc \in Inside /\ p \in Inside
         \/ worker[w].pc \in Ahead \ {"readOwner", "takeLock"} /\ p \in Ahead \ {"readOwner", "takeLock"}
  PROVE  Locking'
  <1> DEFINE x == [worker[w] EXCEPT !.pc = p]
  <1>1. worker' = [worker EXCEPT ![w] = x]
    BY DEF Goto
  <1>2. /\ x.pc = p /\ x.job = worker[w].job /\ x.steal = worker[w].steal
        /\ x.age = worker[w].age
    BY DEF Types, WorkersOK, WorkerRecords
  <1> HIDE DEF x
  <1>3. worker[w].pc \notin {"readOwner", "takeLock"} => worker[w].steal = None
    BY DEF Locking, Timely, WorkerTimely
  <1>4. Onward(w, x)
    BY <1>2, <1>3, OnwardWithin
  <1> QED
    BY <1>1, <1>4, MovesKept DEF Quiet

(* The steps of an execution up to the lock that write nothing.             *)
LEMMA AheadKept ==
  ASSUME Types, Locking, NEW w \in Workers,
         \/ \E j \in Jobs : Begin(w, j)
         \/ Gate(w) \/ CheckBlocked(w) \/ ReadLock(w) \/ ReadOwner(w)
  PROVE  Locking'
  <1>1. Quiet /\ WorkersOK
    BY DEF Begin, Gate, CheckBlocked, ReadLock, ReadOwner, Quiet, dbVars, Types
  <1>2. CASE \E j \in Jobs : Begin(w, j)
    <2>1. PICK j \in Jobs, p \in {"settle", "claim"} :
            worker' = [worker EXCEPT ![w] = [IdleWorker EXCEPT !.pc = p, !.job = j]]
      BY <1>2 DEF Begin
    <2> DEFINE x == [IdleWorker EXCEPT !.pc = p, !.job = j]
    <2>2. x.pc = p /\ x.age = 0 /\ x.steal = None
      BY DEF IdleWorker
    <2> HIDE DEF x
    <2>3. Onward(w, x)
      BY <2>2, Phases, NoneAssumption DEF Onward
    <2> QED
      BY <1>1, <2>1, <2>3, MovesKept DEF Quiet, x
  <1>3. CASE Gate(w)
    BY <1>1, <1>3, GotoKept, OutKept DEF Gate, At, Ahead
  <1>4. CASE CheckBlocked(w)
    BY <1>1, <1>4, GotoKept, OutKept DEF CheckBlocked, At, Ahead
  <1>5. ASSUME NEW x, worker' = [worker EXCEPT ![w] = x], x.pc \in {"readOwner", "takeLock"},
               worker[w].pc \in Ahead, x.job = worker[w].job, x.age = worker[w].age,
               x.pc = "takeLock" /\ x.steal \in Jobs =>
                 ~job[x.steal].marker /\ job[x.steal].status \notin {"running", "uncertain"}
        PROVE  Locking'
    <2>1. Onward(w, x)
      BY <1>5 DEF Onward, Ahead, Inside
    <2> QED
      BY <1>1, <1>5, <2>1, MovesKept DEF Quiet
  <1>6. CASE ReadLock(w)
    <2>1. worker[w].pc = "readLock" /\ worker[w].pc \in Ahead /\ worker[w].steal = None
      BY <1>6 DEF ReadLock, At, Ahead, Locking, Timely, WorkerTimely
    <2>2. CASE lock.owner \in {None, worker[w].job}
      <3> DEFINE x == [worker[w] EXCEPT !.pc = "takeLock"]
      <3>1. worker' = [worker EXCEPT ![w] = x]
        BY <1>6, <2>2 DEF ReadLock, Goto
      <3>2. x.pc = "takeLock" /\ x.job = worker[w].job /\ x.age = worker[w].age /\ x.steal = None
        BY <1>1, <2>1 DEF WorkersOK, WorkerRecords
      <3> HIDE DEF x
      <3> QED
        BY <1>5, <2>1, <3>1, <3>2, NoneAssumption
    <2>3. CASE lock.owner \notin {None, worker[w].job}
      <3> DEFINE fresh == ~Expired(lock.age, worker[w].age)
                 x == [worker[w] EXCEPT !.pc = "readOwner", !.steal = lock.owner, !.fresh = fresh]
      <3> HIDE DEF fresh
      <3>1. worker' = [worker EXCEPT ![w] = x]
        BY <1>1, <1>6, <2>3 DEF ReadLock, fresh, WorkersOK
      <3>2. x.pc = "readOwner" /\ x.job = worker[w].job /\ x.age = worker[w].age
        BY <1>1 DEF WorkersOK, WorkerRecords
      <3> HIDE DEF x
      <3> QED
        BY <1>5, <2>1, <3>1, <3>2
    <2> QED
      BY <2>2, <2>3
  <1>7. CASE ReadOwner(w)
    <2>1. worker[w].pc \in Ahead
      BY <1>7 DEF ReadOwner, At, Ahead
    <2>2. CASE \E s : Finish(w, s)
      BY <1>1, <2>2, OutKept
    <2>3. CASE ~\E s : Finish(w, s)
      <3> DEFINE x == [worker[w] EXCEPT !.pc = "takeLock"]
      <3>1. /\ worker' = [worker EXCEPT ![w] = x]
            /\ ~job[worker[w].steal].marker
            /\ job[worker[w].steal].status \notin {"running", "uncertain"}
        BY <1>7, <2>3 DEF ReadOwner, Goto
      <3>2. /\ x.pc = "takeLock" /\ x.job = worker[w].job /\ x.age = worker[w].age
            /\ x.steal = worker[w].steal
        BY <1>1 DEF WorkersOK, WorkerRecords
      <3> HIDE DEF x
      <3> QED
        BY <1>5, <2>1, <3>1, <3>2
    <2> QED
      BY <2>2, <2>3
  <1> QED
    BY <1>2, <1>3, <1>4, <1>6, <1>7

(* The steps past the lock that change neither a job nor the lock.          *)
LEMMA InsideKept ==
  ASSUME Types, Locking, NEW w \in Workers,
         \/ Preflight(w) \/ InspectHeader(w) \/ ReinspectHeader(w) \/ ConfirmClaim(w)
         \/ ReadColumn(w) \/ Adopt(w) \/ LoadBatch(w) \/ Send(w) \/ AppendOk(w)
         \/ AppendRefused(w) \/ AppendAmbiguous(w) \/ MarkRowsWritten(w) \/ Land(w)
  PROVE  Locking'
  <1>1. Quiet /\ WorkersOK /\ worker[w] \in WorkerRecords /\ worker[w].pc \in Inside
    BY DEF Preflight, InspectHeader, ReinspectHeader, Inspect, ConfirmClaim, ReadColumn, Adopt,
           LoadBatch, Send, AppendOk, AppendRefused, AppendAmbiguous, MarkRowsWritten, Land,
           Quiet, dbVars, Types, WorkersOK, At, Inside
  <1>2. ASSUME NEW x, worker' = [worker EXCEPT ![w] = x], x.pc \in Inside,
               x.job = worker[w].job, x.steal = worker[w].steal
        PROVE  Locking'
    BY <1>1, <1>2, OnwardWithin, MovesKept DEF Quiet
  <1>3. ASSUME Return(w) \/ Leave(w) \/ LostPreAppend(w) \/ \E s : Finish(w, s) PROVE Locking'
    BY <1>1, <1>3, OutKept
  <1>4. ASSUME NEW p \in Inside, Goto(w, p) PROVE Locking'
    BY <1>1, <1>4, GotoKept
  <1>5. CASE Preflight(w)
    BY <1>3, <1>4, <1>5 DEF Preflight, Inside
  <1>6. ASSUME NEW here, NEW next \in Inside, Inspect(w, here, next) PROVE Locking'
    <2> DEFINE x == [worker[w] EXCEPT !.pc = next, !.prepend = BlankTab]
    <2>1. x.pc = next /\ x.job = worker[w].job /\ x.steal = worker[w].steal
      BY <1>1 DEF WorkerRecords
    <2>2. worker' = [worker EXCEPT ![w] = x] \/ \E s : Finish(w, s)
      BY <1>1, <1>6 DEF Inspect, WorkersOK
    <2> HIDE DEF x
    <2> QED
      BY <1>2, <1>3, <2>1, <2>2
  <1>7. CASE InspectHeader(w) \/ ReinspectHeader(w)
    BY <1>6, <1>7 DEF InspectHeader, ReinspectHeader, Inside
  <1>8. CASE ConfirmClaim(w)
    BY <1>3, <1>4, <1>8 DEF ConfirmClaim, Inside
  <1>9. CASE ReadColumn(w)
    <2>1. ASSUME NEW once, NEW dup,
                 worker' = [worker EXCEPT ![w].pc = "adopt", ![w].once = once, ![w].dup = dup,
                                          ![w].cut = long]
          PROVE  Locking'
      <3> DEFINE x == [worker[w] EXCEPT !.pc = "adopt", !.once = once, !.dup = dup, !.cut = long]
      <3>1. /\ x.pc = "adopt" /\ x.job = worker[w].job /\ x.steal = worker[w].steal
            /\ worker' = [worker EXCEPT ![w] = x]
        BY <1>1, <2>1 DEF WorkerRecords, WorkersOK
      <3> HIDE DEF x
      <3> QED
        BY <1>2, <3>1 DEF Inside
    <2> QED
      BY <1>3, <1>9, <2>1 DEF ReadColumn
  <1>10. CASE Adopt(w)
    <2> DEFINE p == IF worker[w].again THEN "advance" ELSE "load"
               x == [worker[w] EXCEPT !.once = {}, !.dup = {}, !.cut = FALSE, !.pc = p]
    <2>1. x.pc \in Inside /\ x.job = worker[w].job /\ x.steal = worker[w].steal
      BY <1>1 DEF WorkerRecords, Inside
    <2>2. worker' = [worker EXCEPT ![w] = x] \/ Leave(w) \/ \E s : Finish(w, s)
      BY <1>1, <1>10 DEF Adopt, WorkersOK
    <2> HIDE DEF x
    <2> QED
      BY <1>2, <1>3, <2>1, <2>2
  <1>11. CASE LoadBatch(w)
    <2> DEFINE p == IF worker[w].prepend THEN "reinspect" ELSE "mark"
               x == [worker[w] EXCEPT !.rows = NextBatch(worker[w].job), !.batch = @ + 1, !.pc = p]
    <2>1. x.pc \in Inside /\ x.job = worker[w].job /\ x.steal = worker[w].steal
      BY <1>1 DEF WorkerRecords, Inside
    <2>2. worker' = [worker EXCEPT ![w] = x] \/ \E s : Finish(w, s)
      BY <1>1, <1>11 DEF LoadBatch, WorkersOK
    <2> HIDE DEF x
    <2> QED
      BY <1>2, <1>3, <2>1, <2>2
  <1>12. CASE Send(w) \/ AppendOk(w) \/ AppendAmbiguous(w) \/ Land(w)
    <2>1. PICK x : /\ worker' = [worker EXCEPT ![w] = x]
                   /\ x.pc \in Inside /\ x.job = worker[w].job /\ x.steal = worker[w].steal
      <3> DEFINE a == [worker[w] EXCEPT !.pc = "await", !.call = "open"]
                 b == [worker[w] EXCEPT !.pc = "written", !.call = "none"]
                 c == [worker[w] EXCEPT !.pc = "column", !.call = "none", !.again = TRUE]
                 d == [worker[w] EXCEPT !.call = "landed"]
      <3>1. \A x \in {a, b, c, d} :
              x.pc \in Inside /\ x.job = worker[w].job /\ x.steal = worker[w].steal
        BY <1>1 DEF WorkerRecords, Inside
      <3>2. \E x \in {a, b, c, d} : worker' = [worker EXCEPT ![w] = x]
        BY <1>1, <1>12 DEF Send, AppendOk, AppendAmbiguous, Land, WorkersOK
      <3> QED
        BY <3>1, <3>2
    <2> QED
      BY <1>2, <2>1
  <1>13. CASE AppendRefused(w)
    BY <1>3, <1>13 DEF AppendRefused
  <1>14. CASE MarkRowsWritten(w)
    BY <1>3, <1>4, <1>14 DEF MarkRowsWritten, Inside
  <1> QED
    BY <1>5, <1>7, <1>8, <1>9, <1>10, <1>11, <1>12, <1>13, <1>14

(* The end of an execution that does not free the lock.                     *)
LEMMA EndKept ==
  ASSUME Types, Locking, NEW w \in Workers, SyncEvidence(w) \/ Throw(w) \/ Crash(w)
  PROVE  Locking'
  <1>1. Quiet
    BY DEF SyncEvidence, Throw, Crash, Quiet, dbVars
  <1>2. CASE SyncEvidence(w)
    BY <1>1, <1>2, OutKept DEF SyncEvidence
  <1>3. CASE Crash(w)
    BY <1>1, <1>3, OutKept DEF Crash
  <1>4. CASE Throw(w)
    <2> DEFINE x == [Finishing(w, "uncertain") EXCEPT !.caught = TRUE]
    <2>1. x.steal = None /\ x.pc = "finish"
      BY DEF Finishing, IdleWorker
    <2>2. worker' = [worker EXCEPT ![w] = x] \/ Leave(w)
      BY <1>4 DEF Throw
    <2> HIDE DEF x
    <2>3. Onward(w, x)
      BY <2>1, OnwardOut
    <2> QED
      BY <1>1, <2>2, <2>3, OutKept, MovesKept DEF Quiet
  <1> QED
    BY <1>2, <1>3, <1>4

-----------------------------------------------------------------------------
(* Steps that write a job.                                                  *)

(* An execution writes its own job under its claim, or takes the claim.     *)
LEMMA RecordKept ==
  ASSUME Types, Locking, NEW w \in Workers, NEW x, NEW y, worker' = [worker EXCEPT ![w] = x],
         NEW j \in Jobs, j = worker[w].job, job' = [job EXCEPT ![j] = y], UNCHANGED <<lock, operator>>,
         y.claim = w, job[j].status = "running" => job[j].claim = w,
         y.marker => y.status \in {"running", "uncertain"},
         y.marker \/ x.pc \in Inside => x.job = j /\ Protected(j),
         y.status = "running" => y.age = 0 \/ (job[j].status = "running" /\ y.age = job[j].age),
         WorkerTimely(w, x, job'), x.pc # "takeLock"
  PROVE  Locking'
  <1>1. /\ worker'[w] = x /\ \A v \in Workers \ {w} : worker'[v] = worker[v]
        /\ job'[j] = y /\ \A k \in Jobs \ {j} : job'[k] = job[k]
    BY DEF Types, WorkersOK, JobsOK
  <1>2. ASSUME NEW k \in Jobs, Protected(k)' PROVE Protected(k)
    <2>1. ASSUME NEW v \in Workers \ {w}, Inhabits(v, k)' PROVE Inhabits(v, k)
      BY <1>1, <2>1 DEF Inhabits
    <2>2. ASSUME Inhabits(w, k)' PROVE Protected(k)
      BY <1>1, <2>2 DEF Inhabits
    <2>3. ASSUME job'[k].marker PROVE Protected(k)
      BY <1>1, <2>3 DEF Protected
    <2> QED
      BY <1>2, <2>1, <2>2, <2>3 DEF Protected
  <1>3. Timely'
    <2> SUFFICES ASSUME NEW v \in Workers \ {w} PROVE WorkerTimely(v, worker[v], job')
      BY <1>1 DEF Timely
    <2>1. WorkerTimely(v, worker[v], job) /\ (worker[v].pc \in Ahead => worker[v].job \in Jobs \ {j})
      BY DEF Locking, Timely, WorkerTimely, Types, WorkersOK, WorkerOK, Ahead
    <2> QED
      BY <1>1, <2>1 DEF WorkerTimely
  <1>4. MarkersHeld' /\ LockKept'
    BY <1>1, <1>2 DEF Locking, MarkersHeld, LockKept
  <1>5. NoneSteals'
    <2> SUFFICES ASSUME NEW v \in Workers \ {w}, NEW k \in Jobs, worker[v].pc = "takeLock",
                        worker[v].steal = k
                 PROVE  /\ job'[k].status = "running" => job'[k].age <= worker[v].age
                        /\ Protected(k)' => lock.age <= worker[v].age
      BY <1>1 DEF NoneSteals, Harmless
    <2>1. Harmless(worker[v], k) /\ worker[v].age \in Nat
      BY DEF Locking, NoneSteals, Types, WorkersOK, WorkerRecords, Ages
    <2> QED
      BY <1>1, <1>2, <2>1 DEF Harmless
  <1> QED
    BY <1>3, <1>4, <1>5 DEF Locking, HoldsLifted

(* The claim, the marker, its clearing, and the outcome.                    *)
LEMMA WritesKept ==
  ASSUME Types, Locking, NEW w \in Workers,
         Claim(w) \/ Mark(w) \/ Advance(w) \/ FinishJob(w)
  PROVE  Locking'
  <1> DEFINE j == worker[w].job
  <1>1. /\ worker[w] \in WorkerRecords /\ WorkersOK /\ JobsOK /\ UNCHANGED <<lock, operator>>
        /\ j \in Jobs /\ job[j] \in JobRecords /\ WorkerTimely(w, worker[w], job)
    BY DEF Claim, Mark, Advance, FinishJob, At, Types, WorkersOK, WorkerOK, JobsOK, Locking, Timely
  <1>2. ASSUME UNCHANGED job, Return(w) \/ Leave(w) \/ LostPreAppend(w) PROVE Locking'
    BY <1>1, <1>2, OutKept DEF Quiet
  <1>3. CASE Claim(w) /\ job[j].status \in {"queued", "retryable"} /\ ~job[j].marker
    <2> DEFINE x == [worker[w] EXCEPT !.pc = "gate"]
               y == [job[j] EXCEPT !.status = "running", !.claim = w, !.age = worker[w].age]
    <2>1. worker' = [worker EXCEPT ![w] = x] /\ job' = [job EXCEPT ![j] = y] /\ worker[w].pc = "claim"
      BY <1>1, <1>3 DEF Claim, Goto, At, JobsOK
    <2>2. /\ x.pc = "gate" /\ x.job = j /\ x.age = worker[w].age /\ x.steal = worker[w].steal
          /\ y.status = "running" /\ y.claim = w /\ ~y.marker /\ y.age = worker[w].age
      BY <1>1, <1>3 DEF WorkerRecords, JobRecords
    <2> HIDE DEF x, y
    <2>3. worker[w].age = 0 /\ worker[w].steal = None /\ job'[j] = y
      BY <1>1, <2>1 DEF WorkerTimely, JobsOK
    <2>4. WorkerTimely(w, x, job') /\ x.pc \notin Inside
      BY <1>1, <2>2, <2>3, BoundsAssumption DEF WorkerTimely, Inside
    <2> QED
      BY <1>1, <1>3, <2>1, <2>2, <2>3, <2>4, RecordKept
  <1>4. CASE Mark(w) /\ BeforeAppend(w)
    <2> DEFINE x == [worker[w] EXCEPT !.pc = "send"]
               y == [job[j] EXCEPT !.marker = TRUE]
    <2>1. /\ worker' = [worker EXCEPT ![w] = x] /\ job' = [job EXCEPT ![j] = y]
          /\ worker[w].pc = "mark" /\ job[j].claim = w /\ job[j].status = "running"
      BY <1>1, <1>4 DEF Mark, Goto, At, JobsOK, BeforeAppend, OwnsRun, HoldsToken
    <2>2. /\ x.pc = "send" /\ x.job = j /\ x.steal = worker[w].steal
          /\ y.status = "running" /\ y.claim = w /\ y.age = job[j].age
      BY <1>1, <2>1 DEF WorkerRecords, JobRecords
    <2> HIDE DEF x, y
    <2>3. Protected(j) /\ WorkerTimely(w, x, job')
      BY <1>1, <2>1, <2>2 DEF Protected, Inhabits, Inside, WorkerTimely, Ahead
    <2> QED
      BY <1>1, <2>1, <2>2, <2>3, RecordKept
  <1>5. CASE Advance(w) /\ OwnsRun(w)
    <2> DEFINE x == [worker[w] EXCEPT !.pc = "load", !.rows = {}, !.again = FALSE, !.prepend = FALSE]
               y == [job[j] EXCEPT !.marker = FALSE]
    <2>1. /\ worker' = [worker EXCEPT ![w] = x] /\ job' = [job EXCEPT ![j] = y]
          /\ worker[w].pc = "advance" /\ job[j].claim = w /\ job[j].status = "running"
      BY <1>1, <1>5 DEF Advance, WorkersOK, At, JobsOK, OwnsRun, HoldsToken
    <2>2. /\ x.pc = "load" /\ x.job = j /\ x.steal = worker[w].steal
          /\ y.status = "running" /\ y.claim = w /\ y.age = job[j].age
      BY <1>1, <2>1 DEF WorkerRecords, JobRecords
    <2> HIDE DEF x, y
    <2>3. Protected(j) /\ WorkerTimely(w, x, job')
      BY <1>1, <2>1, <2>2 DEF Protected, Inhabits, Inside, WorkerTimely, Ahead
    <2> QED
      BY <1>1, <2>1, <2>2, <2>3, RecordKept
  <1>6. CASE FinishJob(w) /\ HoldsToken(w)
    <2> DEFINE s == worker[w].goal
               x == [worker[w] EXCEPT !.pc = "sync"]
               y == [job[j] EXCEPT !.status = s, !.age = 0, !.marker = @ /\ s = "uncertain"]
    <2>1. /\ worker' = [worker EXCEPT ![w] = x] /\ job' = [job EXCEPT ![j] = y]
          /\ worker[w].pc = "finish" /\ job[j].claim = w
      BY <1>1, <1>6 DEF FinishJob, Goto, At, JobsOK, HoldsToken
    <2>2. /\ x.pc = "sync" /\ x.job = j /\ x.steal = worker[w].steal
          /\ y.status = s /\ y.claim = w /\ y.age = 0
          /\ y.marker = (job[j].marker /\ s = "uncertain")
      BY <1>1, <2>1 DEF WorkerRecords, JobRecords
    <2> HIDE DEF x, y
    <2>3. (y.marker => Protected(j)) /\ WorkerTimely(w, x, job') /\ x.pc \notin Inside
      BY <1>1, <2>1, <2>2 DEF Protected, Inside, WorkerTimely, Ahead
    <2> QED
      BY <1>1, <2>1, <2>2, <2>3, RecordKept
  <1> QED
    BY <1>2, <1>3, <1>4, <1>5, <1>6 DEF Claim, Mark, Advance, FinishJob

(* A settlement: which jobs it settles, by which clock reading.             *)
LEMMA SettledBy ==
  ASSUME Types, Locking, NEW w \in Workers, Settle(w) \/ SettleSiblings(w)
  PROVE  \E S \in SUBSET Jobs : \E x :
           /\ \A j \in S : StaleRun(j, worker[w].age)
           /\ SettleStaleRuns(S, worker[w].age)
           /\ worker' = [worker EXCEPT ![w] = x] /\ x.steal = None
           /\ \/ x.pc = "idle"
              \/ /\ x.pc = "blocked" /\ worker[w].pc = "siblings" /\ x.job = worker[w].job
                 /\ x.age = worker[w].age
  <1> DEFINE j == worker[w].job
  <1>1. worker[w] \in WorkerRecords /\ WorkersOK /\ j \in Jobs
    BY DEF Types, WorkersOK, WorkerOK, Settle, SettleSiblings, At
  <1>2. CASE Settle(w)
    <2> DEFINE S == IF StaleRun(j, worker[w].age) THEN {j} ELSE {}
    <2>1. S \in SUBSET Jobs /\ \A k \in S : StaleRun(k, worker[w].age)
      BY <1>1
    <2>2. SettleStaleRuns(S, worker[w].age) /\ worker' = [worker EXCEPT ![w] = IdleWorker]
      BY <1>2 DEF Settle, Return
    <2>3. IdleWorker.steal = None /\ IdleWorker.pc = "idle"
      BY DEF IdleWorker
    <2> HIDE DEF S
    <2> QED
      BY <2>1, <2>2, <2>3
  <1>3. CASE SettleSiblings(w)
    <2> DEFINE S == {k \in Jobs \ {j} : StaleRun(k, worker[w].age)}
               x == [worker[w] EXCEPT !.pc = "blocked"]
    <2>1. S \in SUBSET Jobs /\ \A k \in S : StaleRun(k, worker[w].age)
      OBVIOUS
    <2>2. SettleStaleRuns(S, worker[w].age) /\ worker' = [worker EXCEPT ![w] = x]
      BY <1>3 DEF SettleSiblings, Goto
    <2>3. /\ x.steal = worker[w].steal /\ x.pc = "blocked" /\ x.job = j /\ x.age = worker[w].age
          /\ worker[w].pc = "siblings"
      BY <1>1, <1>3 DEF WorkerRecords, SettleSiblings, At
    <2>4. worker[w].steal = None
      BY <2>3 DEF Locking, Timely, WorkerTimely
    <2> HIDE DEF S, x
    <2> QED
      BY <2>1, <2>2, <2>3, <2>4
  <1> QED
    BY <1>2, <1>3

(* The lock after a settlement: a job that may still own it does.           *)
LEMMA SettledLock ==
  ASSUME Types, Locking, NEW S \in SUBSET Jobs, NEW now, SettleStaleRuns(S, now),
         NEW k \in Jobs, Protected(k), k \in S => job[k].marker
  PROVE  lock'.owner = k /\ lock'.age = (IF k \in S THEN now ELSE lock.age)
  <1> DEFINE held == {j \in S : job[j].marker}
  <1>1. \A j \in Jobs : Protected(j) => lock.owner = j
    BY DEF Locking, LockKept
  <1>2. \A j \in held : lock.owner = j
    BY <1>1 DEF Protected
  <1>3. lock.owner = k /\ k # None
    BY <1>1, NoneAssumption
  <1>4. CASE k \in S
    <2>1. lock.owner \in held
      BY <1>3, <1>4
    <2>2. \E o \in {lock.owner} : lock' = CASE o \in held -> [owner |-> o, age |-> now]
                                           [] o = None -> FreeLock
                                           [] OTHER -> lock
      BY <2>1 DEF SettleStaleRuns
    <2>3. lock' = [owner |-> k, age |-> now]
      BY <1>3, <2>1, <2>2
    <2> QED
      BY <1>4, <2>3
  <1>5. CASE k \notin S
    <2>1. held = {}
      BY <1>2, <1>3, <1>5
    <2>2. lock' = lock
      BY <1>3, <1>5, <2>1 DEF SettleStaleRuns
    <2> QED
      BY <1>3, <1>5, <2>2
  <1> QED
    BY <1>4, <1>5

(* A settlement takes no claim that an execution on its way to the lock     *)
(* has, and leaves the lock with a job that is held.                        *)
LEMMA SettleKept ==
  ASSUME Types, Locking, NEW w \in Workers, Settle(w) \/ SettleSiblings(w)
  PROVE  Locking'
  <1> DEFINE now == worker[w].age
  <1>0. PICK S \in SUBSET Jobs : \E x :
           /\ \A j \in S : StaleRun(j, now)
           /\ SettleStaleRuns(S, now)
           /\ worker' = [worker EXCEPT ![w] = x] /\ x.steal = None
           /\ \/ x.pc = "idle"
              \/ /\ x.pc = "blocked" /\ worker[w].pc = "siblings" /\ x.job = worker[w].job
                 /\ x.age = worker[w].age
    BY SettledBy
  <1>1. PICK x :
           /\ \A j \in S : StaleRun(j, now)
           /\ SettleStaleRuns(S, now)
           /\ worker' = [worker EXCEPT ![w] = x] /\ x.steal = None
           /\ \/ x.pc = "idle"
              \/ /\ x.pc = "blocked" /\ worker[w].pc = "siblings" /\ x.job = worker[w].job
                 /\ x.age = worker[w].age
    BY <1>0
  <1>2. /\ WorkersOK /\ JobsOK /\ worker'[w] = x /\ operator' = operator
        /\ \A v \in Workers \ {w} : worker'[v] = worker[v]
    BY <1>1 DEF Types, WorkersOK, Settle, SettleSiblings
  <1>3. /\ \A v \in Workers : worker[v] \in WorkerRecords /\ worker[v].age \in Nat
        /\ \A j \in Jobs : job[j] \in JobRecords /\ job[j].age \in Nat
    BY <1>2 DEF WorkersOK, WorkerRecords, JobsOK, JobRecords, Ages
  <1>4. \A j \in Jobs : /\ job'[j].marker = job[j].marker
                        /\ j \in S => job'[j].claim = None
                        /\ j \notin S => job'[j] = job[j]
    BY <1>1, <1>2, Settled
  <1>5. \A j \in S : job'[j].status = IF job[j].marker THEN "uncertain" ELSE "retryable"
    BY <1>1, <1>2, <1>3 DEF SettleStaleRuns, JobRecords
  <1>6. \A j \in S : job[j].status = "running" /\ job[j].age > now + Lease
    BY <1>1 DEF StaleRun, Expired
  <1>7. \A j \in S, v \in Workers : ~Inhabits(v, j)'
    BY <1>4, NoneAssumption DEF Inhabits
  <1>8. ASSUME NEW j \in Jobs, Protected(j)' PROVE Protected(j) /\ (j \in S => job[j].marker)
    <2>1. ASSUME NEW v \in Workers, Inhabits(v, j)' PROVE Inhabits(v, j)
      BY <1>1, <1>2, <1>4, <1>7, <2>1 DEF Inhabits, Inside
    <2> QED
      BY <1>4, <1>7, <1>8, <2>1 DEF Protected
  <1>9. ASSUME NEW j \in Jobs, Protected(j)'
        PROVE  lock'.owner = j /\ lock'.age = (IF j \in S THEN now ELSE lock.age)
    BY <1>1, <1>8, <1>9, SettledLock
  <1>10. Timely'
    <2>1. ASSUME NEW v \in Workers, worker[v].pc \in Ahead
          PROVE  worker[v].job \in Jobs \ S
      <3>1. worker[v].job \in Jobs /\ job[worker[v].job].age <= Lease
        BY <2>1 DEF Locking, Timely, WorkerTimely, Types, WorkersOK, WorkerOK, Ahead
      <3> QED
        BY <1>3, <1>6, <3>1, BoundsAssumption
    <2>2. \A v \in Workers : worker[v].pc \in Ahead => job'[worker[v].job] = job[worker[v].job]
      BY <1>4, <2>1
    <2> SUFFICES ASSUME NEW v \in Workers PROVE WorkerTimely(v, worker'[v], job')
      BY DEF Timely
    <2>3. WorkerTimely(v, worker[v], job)
      BY DEF Locking, Timely
    <2>4. CASE v # w
      BY <1>2, <2>2, <2>3, <2>4 DEF WorkerTimely
    <2>5. CASE v = w
      BY <1>1, <1>2, <2>2, <2>3, <2>5 DEF WorkerTimely, Ahead
    <2> QED
      BY <2>4, <2>5
  <1>11. MarkersHeld' /\ LockKept'
    BY <1>4, <1>5, <1>9 DEF Locking, MarkersHeld, LockKept
  <1>12. NoneSteals'
    <2> SUFFICES ASSUME NEW v \in Workers, NEW j \in Jobs, worker'[v].pc = "takeLock",
                        worker'[v].steal = j
                 PROVE  /\ job'[j].status = "running" => job'[j].age <= worker'[v].age
                        /\ Protected(j)' => lock'.age <= worker'[v].age
      BY DEF NoneSteals, Harmless
    <2>1. v # w /\ worker'[v] = worker[v]
      BY <1>1, <1>2
    <2>2. Harmless(worker[v], j)
      BY DEF Locking, NoneSteals
    <2>3. job'[j].status = "running" => job'[j].age <= worker'[v].age
      BY <1>4, <1>5, <2>1, <2>2 DEF Harmless
    <2>4. ASSUME j \in S PROVE now <= worker[v].age
      <3>1. job[j].age <= worker[v].age /\ job[j].age > now + Lease
        BY <1>6, <2>1, <2>2, <2>4 DEF Harmless
      <3> QED
        BY <1>3, <3>1, BoundsAssumption
    <2>5. Protected(j)' => lock'.age <= worker'[v].age
      BY <1>8, <1>9, <2>1, <2>2, <2>4 DEF Harmless
    <2> QED
      BY <2>3, <2>5
  <1> QED
    BY <1>2, <1>10, <1>11, <1>12 DEF Locking, HoldsLifted

-----------------------------------------------------------------------------
(* Steps that write the lock.                                               *)

(* Nobody takes the lock of a protected job.                                *)
LEMMA NoTheft ==
  ASSUME Types, Locking, NEW w \in Workers, At(w, "takeLock"), MayTake(w),
         NEW k \in Jobs, Protected(k)
  PROVE  k = worker[w].job
  <1>1. lock.owner = k /\ k # None /\ Harmless(worker[w], k)
    BY NoneAssumption DEF Locking, LockKept, NoneSteals
  <1>2. worker[w].age \in Nat /\ lock.age \in Nat
    BY DEF Types, WorkersOK, WorkerRecords, LockOK, LockRecords, Ages
  <1>3. ASSUME worker[w].steal = k, Expired(lock.age, worker[w].age) PROVE FALSE
    BY <1>1, <1>2, <1>3, BoundsAssumption DEF Harmless, At, Expired
  <1> QED
    BY <1>1, <1>3 DEF MayTake

(* The lock is taken by the holder of a claim of the lock's age.            *)
LEMMA TakeLockKept ==
  ASSUME Types, Locking, NEW w \in Workers, TakeLock(w)
  PROVE  Locking'
  <1>1. CASE ~MayTake(w)
    BY <1>1, OutKept DEF TakeLock, Quiet
  <1>2. CASE MayTake(w)
    <2> DEFINE i == worker[w].job
               x == [IdleWorker EXCEPT !.pc = "preflight", !.job = i, !.locked = TRUE]
    <2>1. /\ worker' = [worker EXCEPT ![w] = x] /\ lock' = [owner |-> i, age |-> worker[w].age]
          /\ UNCHANGED <<job, operator>> /\ worker[w].pc = "takeLock"
      BY <1>2 DEF TakeLock, At
    <2>2. x.pc = "preflight" /\ x.job = i /\ x.steal = None
      BY DEF IdleWorker
    <2> HIDE DEF x
    <2>3. worker'[w] = x /\ \A v \in Workers \ {w} : worker'[v] = worker[v]
      BY <2>1 DEF Types, WorkersOK
    <2>4. lock'.owner = i /\ lock'.age = worker[w].age
      BY <2>1
    <2>5. i \in Jobs /\ job[i].status = "running" /\ job[i].age = worker[w].age
      BY <2>1 DEF Types, WorkersOK, WorkerOK, Locking, Timely, WorkerTimely, Ahead
    <2>6. \A k \in Jobs : Protected(k) => k = i
      BY <2>1, <1>2, NoTheft DEF At
    <2>7. \A k \in Jobs : Protected(k)' => k = i
      <3>1. ASSUME NEW k \in Jobs, NEW v \in Workers, Inhabits(v, k)', k # i PROVE Inhabits(v, k)
        BY <2>1, <2>2, <2>3, <3>1 DEF Inhabits
      <3> QED
        BY <2>1, <2>6, <3>1 DEF Protected
    <2>8. Timely' /\ MarkersHeld' /\ LockKept'
      <3>1. WorkerTimely(w, x, job)
        BY <2>2 DEF WorkerTimely, Ahead
      <3> QED
        BY <2>1, <2>3, <2>4, <2>7, <3>1 DEF Locking, Timely, MarkersHeld, LockKept
    <2>9. NoneSteals'
      <3> SUFFICES ASSUME NEW v \in Workers \ {w}, NEW k \in Jobs, worker[v].pc = "takeLock",
                          worker[v].steal = k
                   PROVE  /\ job[k].status = "running" => job[k].age <= worker[v].age
                          /\ Protected(k)' => lock'.age <= worker[v].age
        BY <2>1, <2>2, <2>3 DEF NoneSteals, Harmless
      <3>1. job[k].status = "running" => job[k].age <= worker[v].age
        BY DEF Locking, NoneSteals, Harmless
      <3> QED
        BY <2>4, <2>5, <2>7, <3>1
    <2> QED
      BY <2>1, <2>8, <2>9 DEF Locking, HoldsLifted
  <1> QED
    BY <1>1, <1>2

(* A lock is freed only of a job that nothing protects.                     *)
LEMMA FreedKept ==
  ASSUME Types, Locking, NEW j, j \in Jobs => ~Protected(j), lock' \in {lock, ReleaseLock(j)},
         UNCHANGED job, HoldsLifted', \A v \in Workers : worker'[v] \in {worker[v], IdleWorker}
  PROVE  Locking'
  <1>1. IdleWorker.pc = "idle" /\ IdleWorker.steal = None
    BY DEF IdleWorker
  <1>2. \A k \in Jobs : Protected(k)' => Protected(k)
    <2>1. ASSUME NEW k \in Jobs, NEW v \in Workers, Inhabits(v, k)' PROVE Inhabits(v, k)
      BY <1>1, <2>1 DEF Inhabits, Inside
    <2> QED
      BY <2>1 DEF Protected
  <1>3. \A k \in Jobs : Protected(k)' => lock.owner = k /\ lock' = lock
    BY <1>2 DEF Locking, LockKept, ReleaseLock
  <1>4. \A v \in Workers : WorkerTimely(v, IdleWorker, job)
    BY <1>1 DEF WorkerTimely, Ahead
  <1>5. LockKept' /\ MarkersHeld' /\ Timely'
    BY <1>3, <1>4 DEF Locking, LockKept, MarkersHeld, Timely
  <1>6. NoneSteals'
    BY <1>1, <1>2, <1>3 DEF Locking, NoneSteals, Harmless
  <1> QED
    BY <1>5, <1>6 DEF Locking

(* An execution frees the lock of a job that is not running or held.        *)
LEMMA ReleaseFinishedKept ==
  ASSUME Types, Locking, NEW w \in Workers, ReleaseFinishedClaimLock(w)
  PROVE  Locking'
  <1> DEFINE j == worker[w].job
  <1>1. UNCHANGED <<job, operator>> /\ worker' = [worker EXCEPT ![w] = IdleWorker]
    BY DEF ReleaseFinishedClaimLock, Return
  <1>2. \A v \in Workers : worker'[v] \in {worker[v], IdleWorker}
    BY <1>1 DEF Types, WorkersOK
  <1>3. CASE lock' = lock
    BY <1>1, <1>3, OutKept DEF Quiet, Return
  <1>4. CASE lock' # lock
    <2>1. job[j].status \notin {"running", "uncertain"} /\ lock' = ReleaseLock(j)
      BY <1>4 DEF ReleaseFinishedClaimLock
    <2>2. j \in Jobs => ~Protected(j)
      BY <2>1 DEF Protected, Inhabits, Locking, MarkersHeld
    <2> QED
      BY <1>1, <1>2, <2>1, <2>2, FreedKept DEF Locking, HoldsLifted
  <1> QED
    BY <1>3, <1>4

-----------------------------------------------------------------------------
(* The release of a hold, and time.                                         *)

(* A release sends its job back or completes it.                            *)
LEMMA HoldsLiftedKept ==
  ASSUME Types, HoldsLifted, NEW o \in Operators,
         (\E j \in Jobs : ReleaseHold(o, j)) \/ Release(o) \/ OpGone(o)
  PROVE  HoldsLifted'
  <1>1. OperatorsOK /\ operator[o] \in OperatorRecords /\ IdleOperator.goal = "retryable"
    BY DEF Types, OperatorsOK, IdleOperator
  <1>2. PICK x : operator' = [operator EXCEPT ![o] = x] /\ x.goal \in {"retryable", "succeeded"}
    <2>1. CASE OpGone(o)
      BY <1>1, <2>1 DEF OpGone, OpReturn
    <2>2. CASE \E j \in Jobs : ReleaseHold(o, j)
      <3>1. PICK j \in Jobs : ReleaseHold(o, j)
        BY <2>2
      <3> DEFINE x == [IdleOperator EXCEPT !.pc = "column", !.job = j, !.marked = job[j].marker]
      <3>2. x.goal = "retryable"
        BY DEF IdleOperator
      <3>3. operator' = [operator EXCEPT ![o] = x]
        BY <3>1 DEF ReleaseHold
      <3> QED
        BY <3>2, <3>3
    <2>3. CASE OpReadColumn(o)
      <3>1. PICK once, dup :
              operator' = [operator EXCEPT ![o].pc = "adopt", ![o].once = once, ![o].dup = dup,
                                           ![o].cut = long]
        BY <2>3 DEF OpReadColumn
      <3> DEFINE x == [operator[o] EXCEPT !.pc = "adopt", !.once = once, !.dup = dup, !.cut = long]
      <3>2. x.goal = operator[o].goal /\ operator' = [operator EXCEPT ![o] = x]
        BY <1>1, <3>1 DEF OperatorRecords, OperatorsOK
      <3> HIDE DEF x
      <3> QED
        BY <3>2 DEF HoldsLifted
    <2>4. CASE OpAdopt(o)
      <3>1. CASE OpReturn(o)
        BY <1>1, <3>1 DEF OpReturn
      <3>2. CASE ~OpReturn(o)
        <4>1. PICK g \in {"retryable", "succeeded"} :
                operator' = [operator EXCEPT ![o].pc = "release", ![o].goal = g]
          BY <2>4, <3>2 DEF OpAdopt
        <4> DEFINE x == [operator[o] EXCEPT !.pc = "release", !.goal = g]
        <4>2. x.goal = g /\ operator' = [operator EXCEPT ![o] = x]
          BY <1>1, <4>1 DEF OperatorRecords, OperatorsOK
        <4> HIDE DEF x
        <4> QED
          BY <4>2
      <3> QED
        BY <3>1, <3>2
    <2>5. CASE \E p : OpGoto(o, p)
      <3>1. PICK p : OpGoto(o, p)
        BY <2>5
      <3> DEFINE x == [operator[o] EXCEPT !.pc = p]
      <3>2. x.goal = operator[o].goal /\ operator' = [operator EXCEPT ![o] = x]
        BY <1>1, <3>1 DEF OperatorRecords, OperatorsOK, OpGoto
      <3> HIDE DEF x
      <3> QED
        BY <3>2 DEF HoldsLifted
    <2>6. CASE OpReturn(o)
      BY <1>1, <2>6 DEF OpReturn
    <2> QED
      BY <2>1, <2>2, <2>3, <2>4, <2>5, <2>6 DEF Release, OpRelease, OpUnlock, OpSync
  <1>3. operator'[o] = x /\ \A p \in Operators \ {o} : operator'[p] = operator[p]
    BY <1>1, <1>2 DEF OperatorsOK
  <1> QED
    BY <1>2, <1>3 DEF HoldsLifted

(* Lifting a hold protects nobody, and frees the lock in time.              *)
LEMMA ReleaseKept ==
  ASSUME Types, Locking, UnlocksInTime, NEW o \in Operators,
         (\E j \in Jobs : ReleaseHold(o, j)) \/ Release(o) \/ OpGone(o)
  PROVE  Locking'
  <1> DEFINE i == operator[o].job
  <1>1. worker' = worker /\ HoldsLifted' /\ JobsOK /\ WorkersOK
    BY HoldsLiftedKept DEF ReleaseHold, Release, OpReadColumn, OpAdopt, OpRelease, OpUnlock, OpSync,
                           OpGone, Locking, Types
  <1>2. CASE UNCHANGED <<job, lock>>
    <2>1. lock' \in {lock, ReleaseLock(None)} /\ None \notin Jobs
      BY <1>2, NoneAssumption
    <2> QED
      BY <1>1, <1>2, <2>1, FreedKept
  <1>3. CASE OpUnlock(o)
    <2>1. i \in Jobs => ~Protected(i)
      BY <1>3 DEF UnlocksInTime, OpUnlock, Protected, Inhabits, Locking, MarkersHeld
    <2>2. lock' \in {lock, ReleaseLock(i)} /\ UNCHANGED job
      BY <1>3 DEF OpUnlock
    <2> QED
      BY <1>1, <2>1, <2>2, FreedKept
  <1>4. CASE OpRelease(o) /\ ~UNCHANGED job
    <2> DEFINE y == [job[i] EXCEPT !.status = operator[o].goal, !.marker = FALSE]
    <2>1. /\ i \in Jobs /\ job[i].status = "uncertain" /\ UNCHANGED lock
          /\ job' = [job EXCEPT ![i] = y] /\ operator[o].goal \in {"retryable", "succeeded"}
      BY <1>1, <1>4 DEF OpRelease, JobsOK, OpAt, Types, OperatorsOK, OperatorOK, Locking, HoldsLifted
    <2>2. y.status \in {"retryable", "succeeded"} /\ ~y.marker
      BY <1>1, <2>1 DEF JobsOK, JobRecords
    <2> HIDE DEF y
    <2>3. job'[i] = y /\ \A k \in Jobs \ {i} : job'[k] = job[k]
      BY <1>1, <2>1 DEF JobsOK
    <2>4. \A k \in Jobs : Protected(k)' => Protected(k)
      <3>1. ASSUME NEW k \in Jobs, NEW v \in Workers, Inhabits(v, k)' PROVE Inhabits(v, k)
        BY <1>1, <2>2, <2>3, <3>1 DEF Inhabits
      <3> QED
        BY <2>2, <2>3, <3>1 DEF Protected
    <2>5. Timely'
      <3>1. ASSUME NEW v \in Workers PROVE WorkerTimely(v, worker[v], job')
        <4>1. WorkerTimely(v, worker[v], job) /\ (worker[v].pc \in Ahead => worker[v].job \in Jobs \ {i})
          BY <2>1 DEF Locking, Timely, WorkerTimely, Types, WorkersOK, WorkerOK, Ahead
        <4> QED
          BY <2>3, <4>1 DEF WorkerTimely
      <3> QED
        BY <1>1, <3>1 DEF Timely
    <2>6. MarkersHeld' /\ LockKept'
      BY <2>1, <2>2, <2>3, <2>4 DEF Locking, MarkersHeld, LockKept
    <2>7. NoneSteals'
      BY <1>1, <2>1, <2>2, <2>3, <2>4 DEF Locking, NoneSteals, Harmless
    <2> QED
      BY <1>1, <2>5, <2>6, <2>7 DEF Locking
  <1> QED
    BY <1>2, <1>3, <1>4 DEF ReleaseHold, Release, OpReadColumn, OpAdopt, OpRelease, OpSync, OpGone, dbVars

(* A clock that is older than another stays so.                             *)
LEMMA OlderKeeps ==
  ASSUME NEW a \in Ages, NEW b \in Ages, a <= b
  PROVE  Older(a) <= Older(b) /\ Older(a) \in Ages
  BY BoundsAssumption DEF Older, Ages

(* Time passes for a claim, for the clock reading it was made with and for  *)
(* the lock alike, and not beyond the lease while the lock is awaited.      *)
LEMMA TickKept ==
  ASSUME InTime, Types, Locking, Tick
  PROVE  Locking'
  <1>1. /\ WorkersOK /\ JobsOK /\ LockOK /\ operator' = operator
        /\ \A v \in Workers : worker[v] \in WorkerRecords /\ worker[v].age \in Ages
        /\ \A j \in Jobs : job[j] \in JobRecords /\ job[j].age \in Ages
    BY DEF Types, WorkersOK, WorkerRecords, JobsOK, JobRecords, Tick
  <1>2. \A v \in Workers :
          /\ worker'[v].pc = worker[v].pc /\ worker'[v].job = worker[v].job
          /\ worker'[v].steal = worker[v].steal
          /\ worker[v].pc \in ClockPcs => worker'[v].age = Older(worker[v].age)
    BY <1>1 DEF Tick, WorkerRecords
  <1>3. \A j \in Jobs :
          /\ job'[j].status = job[j].status /\ job'[j].claim = job[j].claim
          /\ job'[j].marker = job[j].marker
          /\ job[j].status = "running" => job'[j].age = Older(job[j].age)
    BY <1>1 DEF Tick, JobRecords
  <1>4. /\ lock'.owner = lock.owner /\ lock.age \in Ages
        /\ lock.owner # None => lock'.age = Older(lock.age)
    BY <1>1 DEF Tick, LockOK, LockRecords
  <1>5. \A j \in Jobs : Protected(j)' => Protected(j)
    <2>1. ASSUME NEW j \in Jobs, Protected(j)' PROVE Protected(j)
      BY <1>2, <1>3, <2>1 DEF Protected, Inhabits
    <2> QED
      BY <2>1
  <1>6. MarkersHeld' /\ LockKept' /\ HoldsLifted'
    BY <1>1, <1>3, <1>4, <1>5 DEF Locking, MarkersHeld, LockKept, HoldsLifted
  <1>7. Timely'
    <2> SUFFICES ASSUME NEW v \in Workers PROVE WorkerTimely(v, worker'[v], job')
      BY DEF Timely
    <2>1. WorkerTimely(v, worker[v], job)
      BY DEF Locking, Timely
    <2>2. worker[v].pc # "claim"
      BY <1>1 DEF InTime, Tick, At, ClockPcs, Ages
    <2>3. ASSUME worker[v].pc \in Ahead
          PROVE  /\ worker[v].pc \in ClockPcs /\ worker[v].job \in Jobs
                 /\ Older(worker[v].age) <= Lease
      <3>1. worker[v].pc \in ClockPcs
        BY <2>3 DEF Ahead, ClockPcs
      <3>2. worker[v].age < ClockLag
        BY <2>2, <3>1 DEF Tick, At
      <3> QED
        BY <1>1, <2>3, <3>1, <3>2, BoundsAssumption
           DEF InTime, Older, Ages, WorkersOK, WorkerOK, Ahead
    <2> QED
      BY <1>2, <1>3, <2>1, <2>2, <2>3 DEF WorkerTimely
  <1>8. NoneSteals'
    <2> SUFFICES ASSUME NEW v \in Workers, NEW j \in Jobs, worker'[v].pc = "takeLock",
                        worker'[v].steal = j
                 PROVE  /\ job'[j].status = "running" => job'[j].age <= worker'[v].age
                        /\ Protected(j)' => lock'.age <= worker'[v].age
      BY DEF NoneSteals, Harmless
    <2>1. /\ Harmless(worker[v], j) /\ worker[v].pc = "takeLock" /\ worker[v].steal = j
          /\ worker'[v].age = Older(worker[v].age)
      BY <1>2 DEF Locking, NoneSteals, ClockPcs
    <2>2. job'[j].status = "running" => job'[j].age <= worker'[v].age
      BY <1>1, <1>3, <2>1, OlderKeeps DEF Harmless
    <2>3. Protected(j)' => lock'.age <= worker'[v].age
      <3>1. Protected(j) => lock.owner # None /\ lock.age <= worker[v].age
        BY <2>1, NoneAssumption DEF Harmless, Locking, LockKept
      <3> QED
        BY <1>1, <1>4, <1>5, <2>1, <3>1, OlderKeeps
    <2> QED
      BY <2>2, <2>3
  <1> QED
    BY <1>6, <1>7, <1>8 DEF Locking

(* Google's late appends, the editor and the end of faults change neither.  *)
LEMMA OutsideKept ==
  ASSUME Types, Locking,
         (\E c \in orphans : LandOrphan(c)) \/ Edit \/ CalmDown \/ UNCHANGED vars
  PROVE  Locking'
  <1>1. UNCHANGED <<job, lock, operator, worker>>
    BY DEF LandOrphan, Edit, CalmDown, dbVars, vars
  <1>2. lock' \in {lock, ReleaseLock(None)} /\ None \notin Jobs
    BY <1>1, NoneAssumption
  <1>3. HoldsLifted'
    BY <1>1 DEF Locking, HoldsLifted
  <1> QED
    BY <1>1, <1>2, <1>3, FreedKept

(* Every step keeps the lock with the job it protects.                      *)
LEMMA StepLocking ==
  ASSUME InTime, Types, Locking, UnlocksInTime, [Next]_vars
  PROVE  Locking'
  <1>1. CASE \E w \in Workers : Execute(w)
    BY <1>1, AheadKept, InsideKept, EndKept, WritesKept, SettleKept, TakeLockKept, ReleaseFinishedKept
       DEF Execute
  <1>2. CASE \E w \in Workers : (\E j \in Jobs : Begin(w, j)) \/ Land(w) \/ Throw(w) \/ Crash(w)
    BY <1>2, AheadKept, InsideKept, EndKept
  <1>3. CASE \E o \in Operators : (\E j \in Jobs : ReleaseHold(o, j)) \/ Release(o) \/ OpGone(o)
    BY <1>3, ReleaseKept
  <1>4. CASE Tick
    BY <1>4, TickKept
  <1>5. CASE (\E c \in orphans : LandOrphan(c)) \/ Edit \/ CalmDown \/ UNCHANGED vars
    BY <1>5, OutsideKept
  <1> QED
    BY <1>1, <1>2, <1>3, <1>4, <1>5 DEF Next

(* At the start nobody needs the lock.                                      *)
LEMMA InitLocking ==
  ASSUME Init
  PROVE  Locking
  <1>1. /\ \A w \in Workers : worker[w] = IdleWorker
        /\ \A o \in Operators : operator[o].goal = "retryable"
        /\ \A j \in Jobs : ~job[j].marker
    BY DEF Init, IdleOperator
  <1>2. IdleWorker.pc = "idle" /\ IdleWorker.steal = None
    BY DEF IdleWorker
  <1>3. \A j \in Jobs : ~Protected(j)
    BY <1>1, <1>2 DEF Protected, Inhabits, Inside
  <1> QED
    BY <1>1, <1>2, <1>3 DEF Locking, Timely, WorkerTimely, MarkersHeld, LockKept, NoneSteals,
                            Harmless, HoldsLifted, Ahead

(* Whoever is past the lock, or has its marker stored, owns the lock.       *)
LEMMA AlwaysLocking == InTime => (Spec /\ []UnlocksInTime => [](Types /\ Locking))
  <1> SUFFICES ASSUME InTime PROVE Spec /\ []UnlocksInTime => [](Types /\ Locking)
    OBVIOUS
  <1>1. Init => Types /\ Locking
    BY InitTypes, InitLocking
  <1>2. (Types /\ Locking) /\ UnlocksInTime /\ [Next]_vars => (Types /\ Locking)'
    BY StepTypes, StepLocking
  <1> QED
    BY <1>1, <1>2, PTL DEF Spec

-----------------------------------------------------------------------------
(* One append at a time.                                                    *)

(* Only storing the marker under a claim starts an append.                  *)
LEMMA StartedByMark ==
  ASSUME Types, Locking, Next, NEW j \in Jobs, ~Appending(j), Appending(j)'
  PROVE  \E w \in Workers : Mark(w) /\ BeforeAppend(w) /\ worker[w].job = j
  <1>1. JobsOK /\ WorkersOK /\ job[j] \in JobRecords
    BY DEF Types, JobsOK
  <1>2. job'[j].status # job[j].status \/ job'[j].marker # job[j].marker
    BY DEF Appending
  <1>3. ASSUME NEW w \in Workers, Settle(w) \/ SettleSiblings(w) PROVE FALSE
    BY <1>3, SettledJobs DEF Appending
  <1>4. ASSUME NEW w \in Workers, Claim(w) PROVE FALSE
    <2>1. worker[w].job \in Jobs
      BY <1>4 DEF Claim, At, Types, WorkersOK, WorkerOK
    <2> QED
      BY <1>1, <1>4, <2>1 DEF Claim, JobsOK, JobRecords, Appending
  <1>5. ASSUME NEW w \in Workers, Advance(w) PROVE FALSE
    BY <1>1, <1>5 DEF Advance, JobsOK, JobRecords, Appending
  <1>6. ASSUME NEW w \in Workers, FinishJob(w) PROVE FALSE
    BY <1>1, <1>6 DEF FinishJob, JobsOK, JobRecords, Appending
  <1>7. ASSUME NEW o \in Operators, OpRelease(o) PROVE FALSE
    BY <1>1, <1>7 DEF OpRelease, JobsOK, JobRecords, Appending
  <1>8. PICK w \in Workers : Mark(w)
    BY <1>2, <1>3, <1>4, <1>5, <1>6, <1>7, JobsLeft
  <1> QED
    BY <1>1, <1>8 DEF Mark, JobsOK, JobRecords, Appending

(* No job starts an append on the worksheet while one of another job is     *)
(* running or unresolved: both would own the worksheet lock.                *)
THEOREM AppendsAlone == InTime => (Spec /\ []UnlocksInTime => OneAppendAtATime)
  <1> SUFFICES ASSUME InTime PROVE Spec /\ []UnlocksInTime => OneAppendAtATime
    OBVIOUS
  <1>1. ASSUME Types, Locking, [Next]_vars, NEW j \in Jobs, ~Appending(j), Appending(j)',
               NEW k \in Jobs \ {j}
        PROVE  ~job[k].marker
    <2>1. Next
      BY <1>1 DEF vars, Appending
    <2>2. PICK w \in Workers : Mark(w) /\ BeforeAppend(w) /\ worker[w].job = j
      BY <1>1, <2>1, StartedByMark
    <2>3. Protected(j)
      BY <2>2 DEF Mark, At, BeforeAppend, OwnsRun, HoldsToken, Protected, Inhabits, Inside
    <2>4. Protected(k) => k = j
      BY <1>1, <2>3 DEF Locking, LockKept
    <2> QED
      BY <2>4 DEF Protected
  <1>2. (Types /\ Locking) /\ [Next]_vars =>
          [\A j \in Jobs : ~Appending(j) /\ Appending(j)' =>
             \A k \in Jobs \ {j} : ~job[k].marker]_vars
    BY <1>1
  <1> QED
    BY <1>2, AlwaysLocking, PTL DEF Spec, OneAppendAtATime

-----------------------------------------------------------------------------
(* The header.                                                              *)

(* An append under way, and a run of which none is.                         *)
Carrying(x) == x.pc = "send" \/ x.call = "open"
Fresh(w) == worker[w].pc \in Inside /\ BeforeAppend(w)

RowsNamed ==
  /\ \A w \in Workers :
       worker[w].pc \in {"reinspect", "mark"} \/ Carrying(worker[w]) => worker[w].rows # {}
  /\ \A c \in orphans : c.rows # {}
OneCarrier ==
  /\ \A v, w \in Workers : Carrying(worker[v]) /\ Carrying(worker[w]) => v = w
  /\ \A c, d \in orphans : c = d
  /\ \A w \in Workers, c \in orphans : ~Carrying(worker[w])
HeaderFree ==
  /\ \A w \in Workers : (Carrying(worker[w]) \/ Fresh(w)) /\ worker[w].prepend => header = 0
  /\ \A c \in orphans : c.prepend => header = 0

(* One append of the worksheet is under way at most, it carries rows, and   *)
(* whoever is to insert the header still finds none.                        *)
Heading == RowsNamed /\ OneCarrier /\ HeaderFree /\ HeaderOnce

(* A set of numbers has a smallest one.                                     *)
LEMMA Smallest ==
  ASSUME NEW P \in SUBSET Nat, P # {}
  PROVE  \E m \in P : \A n \in P : m <= n
  <1> DEFINE R == {ss \in Nat \X Nat : ss[1] < ss[2]}
  <1>1. IsWellFoundedOn(R, Nat)
    BY NatLessThanWellFounded DEF OpToRel
  <1>2. \A n, m \in P : n < m => <<n, m>> \in R
    OBVIOUS
  <1> HIDE DEF R
  <1>3. PICK m \in P : \A n \in P : ~(<<n, m>> \in R)
    BY <1>1, WFMin
  <1>4. \A n \in P : ~(n < m)
    BY <1>2, <1>3
  <1> QED
    BY <1>4

(* While rows are pending the next batch has rows.                          *)
LEMMA BatchNamed ==
  ASSUME NEW j, PendingOf(j) # {}
  PROVE  NextBatch(j) # {}
  <1> DEFINE P == PendingOf(j)
  <1>1. P \in SUBSET Nat
    BY RowsAssumption DEF PendingOf, RowsOf
  <1>2. PICK m \in P : \A n \in P : m <= n
    BY <1>1, Smallest
  <1>3. {s \in P : s <= m} = {m}
    BY <1>1, <1>2
  <1>4. Cardinality({s \in P : s <= m}) <= BatchSize
    BY <1>3, FS_Singleton, BoundsAssumption
  <1> QED
    BY <1>4 DEF NextBatch

(* The job of an append under way has its marker, so no run is fresh.       *)
LEMMA NoneFresh ==
  ASSUME Types, Sound, Tracked, Locking, Heading,
         (\E w \in Workers : Carrying(worker[w])) \/ orphans # {}
  PROVE  \A v \in Workers : ~Fresh(v)
  <1>1. PICK r \in Rows : Used(r) /\ landed[r] = 0
    <2>1. ASSUME NEW w \in Workers, Carrying(worker[w])
          PROVE  \E r \in Rows : Used(r) /\ landed[r] = 0
      <3>1. PICK r \in worker[w].rows : Carries(worker[w], r)
        BY <2>1 DEF Heading, RowsNamed, Carries, Carrying
      <3>2. r \in Rows
        BY DEF Types, WorkersOK, WorkerRecords
      <3> QED
        BY <3>1, <3>2 DEF Tracked, CarriedOnce, Once, Used
    <2>2. ASSUME NEW c \in orphans
          PROVE  \E r \in Rows : Used(r) /\ landed[r] = 0
      <3>1. PICK r \in c.rows : r \in Rows
        BY DEF Heading, RowsNamed, Types, OrphansOK, Calls
      <3> QED
        BY <3>1 DEF Tracked, CarriedOnce, Once, Used
    <2> QED
      BY <2>1, <2>2
  <1>2. JobOf[r] \in Jobs /\ r \in RowsOf(JobOf[r])
    BY JobOfAssumption DEF RowsOf
  <1>3. r \in Pending
    BY <1>1 DEF Sound, SoundRows, WrittenRows, LandedRows, Types, RowsOK, Pending
  <1>4. job[JobOf[r]].marker
    BY <1>1, <1>2, <1>3 DEF Tracked, MarkersKept, Unrecorded
  <1>5. ASSUME NEW v \in Workers, Fresh(v) PROVE FALSE
    <2>1. worker[v].job \in Jobs /\ Protected(worker[v].job)
      BY <1>5 DEF Fresh, BeforeAppend, OwnsRun, HoldsToken, Protected, Inhabits, Inside, Types,
                  WorkersOK, WorkerOK
    <2>2. worker[v].job = JobOf[r]
      BY <1>2, <1>4, <2>1 DEF Locking, LockKept, Protected
    <2> QED
      BY <1>4, <1>5, <2>2 DEF Fresh, BeforeAppend
  <1> QED
    BY <1>5

(* An execution's place, job and append are as before.                      *)
Unmoved(v) ==
  /\ worker'[v].pc = worker[v].pc /\ worker'[v].job = worker[v].job
  /\ worker'[v].rows = worker[v].rows /\ worker'[v].call = worker[v].call
  /\ worker'[v].prepend = worker[v].prepend

(* A run is fresh only by its own steps.                                    *)
LEMMA FreshLeft ==
  ASSUME Types, Locking, [Next]_vars, NEW v \in Workers, Unmoved(v), Fresh(v)'
  PROVE  Fresh(v)
  <1> DEFINE k == worker[v].job
  <1>1. /\ worker[v].pc \in Inside /\ k \in Jobs /\ JobsOK /\ WorkersOK /\ job[k] \in JobRecords
        /\ job'[k].claim = v /\ job'[k].status = "running" /\ ~job'[k].marker
    BY DEF Fresh, Unmoved, BeforeAppend, OwnsRun, HoldsToken, Types, JobsOK, WorkersOK, WorkerOK,
           Inside
  <1>2. ASSUME job[k].claim = v /\ job[k].status = "running" /\ ~job[k].marker PROVE Fresh(v)
    BY <1>1, <1>2 DEF Fresh, BeforeAppend, OwnsRun, HoldsToken
  <1>3. CASE UNCHANGED job
    BY <1>1, <1>2, <1>3
  <1>4. ASSUME NEW w \in Workers, Settle(w) \/ SettleSiblings(w) PROVE Fresh(v)
    <2>1. PICK S \in SUBSET Jobs : SettleStaleRuns(S, worker[w].age)
      BY <1>4, SettledBy
    <2>2. job'[k] = job[k]
      BY <1>1, <2>1, Settled, NoneAssumption
    <2> QED
      BY <1>1, <1>2, <2>2
  <1>5. ASSUME NEW w \in Workers, Claim(w) \/ Mark(w) \/ Advance(w) \/ FinishJob(w) PROVE Fresh(v)
    <2>1. CASE v # w /\ ~UNCHANGED job
      <3>1. CASE Claim(w)
        <4>1. job' = [job EXCEPT ![worker[w].job].status = "running", ![worker[w].job].claim = w,
                                 ![worker[w].job].age = worker[w].age]
          BY <2>1, <3>1 DEF Claim
        <4>2. worker[w].job # k
          BY <1>1, <2>1, <4>1 DEF JobsOK, JobRecords
        <4> QED
          BY <1>1, <1>2, <4>1, <4>2 DEF JobsOK
      <3>2. CASE Mark(w)
        <4>1. job' = [job EXCEPT ![worker[w].job].marker = TRUE]
          BY <2>1, <3>2 DEF Mark
        <4>2. worker[w].job # k
          BY <1>1, <4>1 DEF JobsOK, JobRecords
        <4> QED
          BY <1>1, <1>2, <4>1, <4>2 DEF JobsOK
      <3>3. CASE Advance(w)
        <4>1. job' = [job EXCEPT ![worker[w].job].marker = FALSE] /\ job[worker[w].job].claim = w
          BY <2>1, <3>3 DEF Advance, OwnsRun, HoldsToken
        <4>2. worker[w].job # k
          BY <1>1, <2>1, <4>1 DEF JobsOK, JobRecords
        <4> QED
          BY <1>1, <1>2, <4>1, <4>2 DEF JobsOK
      <3>4. CASE FinishJob(w)
        <4> DEFINE j == worker[w].job
                   s == worker[w].goal
        <4>1. /\ job' = [job EXCEPT ![j].status = s, ![j].age = 0, ![j].marker = @ /\ s = "uncertain"]
              /\ job[j].claim = w
          BY <2>1, <3>4 DEF FinishJob, HoldsToken
        <4>2. j # k
          BY <1>1, <2>1, <4>1 DEF JobsOK, JobRecords
        <4> QED
          BY <1>1, <1>2, <4>1, <4>2 DEF JobsOK
      <3> QED
        BY <1>5, <3>1, <3>2, <3>3, <3>4
    <2>2. CASE v = w /\ ~UNCHANGED job
      <3>1. CASE Mark(w)
        BY <1>1, <2>2, <3>1 DEF Mark, JobsOK, JobRecords
      <3>2. CASE Claim(w) \/ FinishJob(w)
        BY <1>1, <2>2, <3>2 DEF Claim, FinishJob, At, Inside
      <3>3. CASE Advance(w)
        <4>1. worker'[w] = [worker[w] EXCEPT !.pc = "load", !.rows = {}, !.again = FALSE, !.prepend = FALSE]
          BY <1>1, <2>2, <3>3 DEF Advance, WorkersOK
        <4>2. worker'[w].pc = "load" /\ worker[w].pc = "advance"
          BY <1>1, <3>3, <4>1 DEF WorkersOK, WorkerRecords, Advance, At
        <4> QED
          BY <2>2, <4>2 DEF Unmoved
      <3> QED
        BY <1>5, <3>1, <3>2, <3>3
    <2> QED
      BY <1>3, <2>1, <2>2
  <1>6. ASSUME NEW o \in Operators, OpRelease(o) PROVE Fresh(v)
    <2>1. operator[o].goal # "running"
      BY DEF Locking, HoldsLifted
    <2> QED
      BY <1>1, <1>2, <1>6, <2>1 DEF OpRelease, JobsOK, JobRecords
  <1>7. CASE UNCHANGED vars
    BY <1>3, <1>7 DEF vars, dbVars
  <1>8. CASE /\ Next
             /\ ~\E w \in Workers : Claim(w) \/ Settle(w) \/ SettleSiblings(w) \/ Mark(w) \/ Advance(w)
                                   \/ FinishJob(w)
             /\ ~\E o \in Operators : OpRelease(o)
    BY <1>1, <1>2, <1>8, JobsLeft
  <1> QED
    BY <1>4, <1>5, <1>6, <1>7, <1>8

(* Steps that leave every execution and every append where it is.           *)
LEMMA HeadStays ==
  ASSUME Types, Locking, Heading, [Next]_vars, \A v \in Workers : Unmoved(v),
         UNCHANGED orphans, header' \in {0, header}
  PROVE  Heading'
  <1>1. \A v \in Workers : Fresh(v)' => Fresh(v)
    BY FreshLeft
  <1>2. \A v \in Workers : Carrying(worker'[v]) <=> Carrying(worker[v])
    BY DEF Carrying, Unmoved
  <1> QED
    BY <1>1, <1>2 DEF Heading, RowsNamed, OneCarrier, HeaderFree, HeaderOnce, Unmoved

(* What an execution may make of its locals without a new append.           *)
Heads(w, x) ==
  /\ x.pc \in {"reinspect", "mark"} \/ Carrying(x) => x.rows # {}
  /\ Carrying(x) => Carrying(worker[w]) /\ x.prepend = worker[w].prepend
  /\ x.pc \in Inside /\ x.prepend /\ ~Carrying(x) =>
       \/ header = 0
       \/ /\ worker[w].pc \in Inside /\ worker[w].prepend /\ x.job = worker[w].job
          /\ UNCHANGED job

(* A step of one execution that inserts nothing and starts no append.       *)
LEMMA HeadMoves ==
  ASSUME Types, Locking, Heading, [Next]_vars, NEW w \in Workers, NEW x,
         worker' = [worker EXCEPT ![w] = x], UNCHANGED <<header, orphans>>, Heads(w, x)
  PROVE  Heading'
  <1>1. worker'[w] = x /\ \A v \in Workers \ {w} : worker'[v] = worker[v]
    BY DEF Types, WorkersOK
  <1>2. \A v \in Workers \ {w} : Unmoved(v) /\ (Fresh(v)' => Fresh(v))
    BY <1>1, FreshLeft DEF Unmoved
  <1>3. RowsNamed' /\ OneCarrier' /\ HeaderOnce'
    BY <1>1 DEF Heading, RowsNamed, OneCarrier, HeaderOnce, Heads
  <1>4. (Carrying(x) \/ Fresh(w)') /\ x.prepend => header = 0
    <2>1. ASSUME Carrying(x), x.prepend PROVE header = 0
      BY <2>1 DEF Heads, Heading, HeaderFree
    <2>2. ASSUME ~Carrying(x), Fresh(w)', x.prepend, header # 0 PROVE FALSE
      <3>1. Fresh(w) /\ worker[w].prepend
        BY <1>1, <2>2 DEF Heads, Fresh, BeforeAppend, OwnsRun, HoldsToken
      <3> QED
        BY <2>2, <3>1 DEF Heading, HeaderFree
    <2> QED
      BY <2>1, <2>2
  <1>5. HeaderFree'
    BY <1>1, <1>2, <1>4 DEF Heading, HeaderFree
  <1> QED
    BY <1>3, <1>5 DEF Heading

(* The ways out carry nothing.                                              *)
LEMMA HeadOut ==
  ASSUME Types, Locking, Heading, [Next]_vars, NEW w \in Workers, UNCHANGED <<header, orphans>>,
         Return(w) \/ Leave(w) \/ LostPreAppend(w) \/ \E s : Finish(w, s)
  PROVE  Heading'
  <1>1. ASSUME NEW x, worker' = [worker EXCEPT ![w] = x], x.call = "none",
               x.pc \in {"idle", "finish", "unlock"}
        PROVE  Heading'
    <2>1. Heads(w, x)
      BY <1>1 DEF Heads, Carrying, Inside
    <2> QED
      BY <1>1, <2>1, HeadMoves
  <1>2. CASE Return(w)
    <2>1. IdleWorker.call = "none" /\ IdleWorker.pc = "idle"
      BY DEF IdleWorker
    <2> QED
      BY <1>1, <1>2, <2>1 DEF Return
  <1>3. CASE \E s : Finish(w, s)
    <2>1. \A s : Finishing(w, s).call = "none" /\ Finishing(w, s).pc = "finish"
      BY DEF Finishing, IdleWorker
    <2> QED
      BY <1>1, <1>3, <2>1 DEF Finish
  <1>4. CASE Leave(w)
    <2> DEFINE x == [IdleWorker EXCEPT !.pc = "unlock", !.job = worker[w].job, !.locked = TRUE]
    <2>1. x.call = "none" /\ x.pc = "unlock"
      BY DEF IdleWorker
    <2>2. Return(w) \/ worker' = [worker EXCEPT ![w] = x]
      BY <1>4 DEF Leave
    <2> HIDE DEF x
    <2> QED
      BY <1>1, <1>2, <2>1, <2>2
  <1> QED
    BY <1>2, <1>3, <1>4 DEF LostPreAppend

(* Nor does a move to a place where nothing is sent.                        *)
LEMMA HeadGoto ==
  ASSUME Types, Sound, Locking, Heading, [Next]_vars, NEW w \in Workers,
         UNCHANGED <<header, orphans>>, NEW p, Goto(w, p), worker[w].pc # "await",
         p \notin {"reinspect", "mark", "send"},
         p \in Inside => worker[w].pc \in Inside /\ UNCHANGED job
  PROVE  Heading'
  <1> DEFINE x == [worker[w] EXCEPT !.pc = p]
  <1>1. worker' = [worker EXCEPT ![w] = x]
    BY DEF Goto
  <1>2. /\ x.pc = p /\ x.job = worker[w].job /\ x.prepend = worker[w].prepend
        /\ x.call = worker[w].call /\ worker[w].call = "none"
    BY DEF Types, WorkersOK, WorkerRecords, Sound, SoundWorkers, WorkerSound
  <1> HIDE DEF x
  <1>3. Heads(w, x)
    BY <1>2 DEF Heads, Carrying
  <1> QED
    BY <1>1, <1>3, HeadMoves

(* The steps of an execution before the lock, and past its last append.     *)
LEMMA OuterHeading ==
  ASSUME Types, Sound, Locking, Heading, [Next]_vars, NEW w \in Workers,
         \/ \E j \in Jobs : Begin(w, j)
         \/ Settle(w) \/ Claim(w) \/ Gate(w) \/ SettleSiblings(w) \/ CheckBlocked(w)
         \/ ReadLock(w) \/ ReadOwner(w) \/ TakeLock(w) \/ FinishJob(w) \/ SyncEvidence(w)
         \/ ReleaseFinishedClaimLock(w) \/ Throw(w)
  PROVE  Heading'
  <1>1. UNCHANGED <<header, orphans>> /\ WorkersOK /\ worker[w] \in WorkerRecords
    BY DEF Begin, Settle, Claim, Gate, SettleSiblings, CheckBlocked, ReadLock, ReadOwner, TakeLock,
           FinishJob, SyncEvidence, ReleaseFinishedClaimLock, Throw, tabVars, Types, WorkersOK
  <1>2. ASSUME Return(w) \/ Leave(w) \/ LostPreAppend(w) \/ \E s : Finish(w, s) PROVE Heading'
    BY <1>1, <1>2, HeadOut
  <1>3. ASSUME NEW p \in {"gate", "siblings", "blocked", "readLock", "takeLock", "sync"}, Goto(w, p),
               worker[w].pc # "await"
        PROVE  Heading'
    BY <1>1, <1>3, HeadGoto DEF Inside
  <1>4. ASSUME NEW x, worker' = [worker EXCEPT ![w] = x], x.call = "none",
               \/ x.pc \in {"settle", "claim", "readOwner", "finish"}
               \/ x.pc = "preflight" /\ ~x.prepend
        PROVE  Heading'
    <2>1. Heads(w, x)
      BY <1>4 DEF Heads, Carrying, Inside
    <2> QED
      BY <1>1, <1>4, <2>1, HeadMoves
  <1>5. CASE \E j \in Jobs : Begin(w, j)
    <2>1. PICK j \in Jobs, p \in {"settle", "claim"} :
            worker' = [worker EXCEPT ![w] = [IdleWorker EXCEPT !.pc = p, !.job = j]]
      BY <1>5 DEF Begin
    <2> DEFINE x == [IdleWorker EXCEPT !.pc = p, !.job = j]
    <2>2. x.pc = p /\ x.call = "none"
      BY DEF IdleWorker
    <2> HIDE DEF x
    <2> QED
      BY <1>4, <2>1, <2>2 DEF x
  <1>6. CASE ReadLock(w)
    <2> DEFINE fresh == ~Expired(lock.age, worker[w].age)
               x == [worker[w] EXCEPT !.pc = "readOwner", !.steal = lock.owner, !.fresh = fresh]
    <2> HIDE DEF fresh
    <2>1. worker[w].pc = "readLock" /\ (Goto(w, "takeLock") \/ worker' = [worker EXCEPT ![w] = x])
      BY <1>1, <1>6 DEF ReadLock, At, fresh, WorkersOK
    <2>2. x.pc = "readOwner" /\ x.call = "none"
      BY <1>1, <2>1 DEF WorkerRecords, Sound, SoundWorkers, WorkerSound
    <2> HIDE DEF x
    <2> QED
      BY <1>3, <1>4, <2>1, <2>2
  <1>7. CASE TakeLock(w)
    <2> DEFINE x == [IdleWorker EXCEPT !.pc = "preflight", !.job = worker[w].job, !.locked = TRUE]
    <2>1. x.pc = "preflight" /\ x.call = "none" /\ ~x.prepend
      BY DEF IdleWorker
    <2>2. worker' = [worker EXCEPT ![w] = x] \/ Finish(w, "queued")
      BY <1>7 DEF TakeLock
    <2> HIDE DEF x
    <2> QED
      BY <1>2, <1>4, <2>1, <2>2
  <1>8. CASE Throw(w)
    <2> DEFINE x == [Finishing(w, "uncertain") EXCEPT !.caught = TRUE]
    <2>1. x.call = "none" /\ x.pc = "finish"
      BY DEF Finishing, IdleWorker
    <2>2. worker' = [worker EXCEPT ![w] = x] \/ Leave(w)
      BY <1>8 DEF Throw
    <2> HIDE DEF x
    <2> QED
      BY <1>2, <1>4, <2>1, <2>2
  <1>9. CASE \/ Settle(w) \/ Claim(w) \/ Gate(w) \/ SettleSiblings(w) \/ CheckBlocked(w)
             \/ ReadOwner(w) \/ FinishJob(w) \/ SyncEvidence(w) \/ ReleaseFinishedClaimLock(w)
    BY <1>2, <1>3, <1>9 DEF Settle, Claim, Gate, SettleSiblings, CheckBlocked, ReadOwner, FinishJob,
                            SyncEvidence, ReleaseFinishedClaimLock, At
  <1> QED
    BY <1>5, <1>6, <1>7, <1>8, <1>9

(* The steps past the lock that start no append and end none.               *)
LEMMA InnerHeading ==
  ASSUME Types, Sound, Locking, Heading, [Next]_vars, NEW w \in Workers,
         \/ Preflight(w) \/ InspectHeader(w) \/ ReinspectHeader(w) \/ ConfirmClaim(w)
         \/ ReadColumn(w) \/ Adopt(w) \/ LoadBatch(w) \/ MarkRowsWritten(w) \/ Advance(w)
  PROVE  Heading'
  <1>1. /\ UNCHANGED <<header, orphans>> /\ WorkersOK /\ worker[w] \in WorkerRecords
        /\ worker[w].pc \in Inside \ {"await", "send"} /\ worker[w].call = "none"
    BY DEF Preflight, InspectHeader, ReinspectHeader, Inspect, ConfirmClaim, ReadColumn, Adopt,
           LoadBatch, MarkRowsWritten, Advance, tabVars, Types, WorkersOK, At, Inside, Sound,
           SoundWorkers, WorkerSound
  <1>2. ASSUME Return(w) \/ Leave(w) \/ LostPreAppend(w) \/ \E s : Finish(w, s) PROVE Heading'
    BY <1>1, <1>2, HeadOut
  <1>3. ASSUME NEW x, worker' = [worker EXCEPT ![w] = x], x.call = "none", x.pc # "send",
               x.pc \in {"reinspect", "mark"} => x.rows # {},
               \/ x.prepend => header = 0
               \/ x.prepend = worker[w].prepend /\ x.job = worker[w].job /\ UNCHANGED job
        PROVE  Heading'
    <2>1. Heads(w, x)
      BY <1>1, <1>3 DEF Heads, Carrying
    <2> QED
      BY <1>1, <1>3, <2>1, HeadMoves
  <1>4. ASSUME NEW p, Goto(w, p), p \in {"inspect", "column", "advance"}, UNCHANGED job PROVE Heading'
    BY <1>1, <1>4, HeadGoto
  <1>5. CASE Preflight(w) \/ ConfirmClaim(w) \/ MarkRowsWritten(w)
    BY <1>2, <1>4, <1>5 DEF Preflight, ConfirmClaim, MarkRowsWritten, dbVars
  <1>6. ASSUME NEW here, NEW next \in {"confirm", "mark"}, Inspect(w, here, next),
               next = "mark" => worker[w].rows # {}
        PROVE  Heading'
    <2> DEFINE x == [worker[w] EXCEPT !.pc = next, !.prepend = BlankTab]
    <2>1. /\ x.pc = next /\ x.rows = worker[w].rows /\ x.call = "none" /\ (x.prepend => header = 0)
      BY <1>1 DEF WorkerRecords, BlankTab
    <2>2. worker' = [worker EXCEPT ![w] = x] \/ \E s : Finish(w, s)
      BY <1>1, <1>6 DEF Inspect, WorkersOK
    <2> HIDE DEF x
    <2> QED
      BY <1>2, <1>3, <1>6, <2>1, <2>2
  <1>7. CASE InspectHeader(w) \/ ReinspectHeader(w)
    <2>1. ReinspectHeader(w) => worker[w].rows # {}
      BY DEF ReinspectHeader, Inspect, At, Heading, RowsNamed
    <2> QED
      BY <1>6, <1>7, <2>1 DEF InspectHeader, ReinspectHeader
  <1>8. CASE ReadColumn(w)
    <2>1. ASSUME NEW once, NEW dup,
                 worker' = [worker EXCEPT ![w].pc = "adopt", ![w].once = once, ![w].dup = dup,
                                          ![w].cut = long]
          PROVE  Heading'
      <3> DEFINE x == [worker[w] EXCEPT !.pc = "adopt", !.once = once, !.dup = dup, !.cut = long]
      <3>1. /\ x.pc = "adopt" /\ x.job = worker[w].job /\ x.prepend = worker[w].prepend
            /\ x.call = "none" /\ worker' = [worker EXCEPT ![w] = x]
        BY <1>1, <2>1 DEF WorkerRecords, WorkersOK
      <3> HIDE DEF x
      <3> QED
        BY <1>3, <1>8, <3>1 DEF ReadColumn, dbVars
    <2> QED
      BY <1>2, <1>8, <2>1 DEF ReadColumn
  <1>9. CASE Adopt(w)
    <2> DEFINE p == IF worker[w].again THEN "advance" ELSE "load"
               x == [worker[w] EXCEPT !.once = {}, !.dup = {}, !.cut = FALSE, !.pc = p]
    <2>1. /\ x.pc \in {"advance", "load"} /\ x.job = worker[w].job
          /\ x.prepend = worker[w].prepend /\ x.call = "none"
      BY <1>1 DEF WorkerRecords
    <2>2. worker' = [worker EXCEPT ![w] = x] \/ Leave(w) \/ \E s : Finish(w, s)
      BY <1>1, <1>9 DEF Adopt, WorkersOK
    <2> HIDE DEF x
    <2> QED
      BY <1>2, <1>3, <1>9, <2>1, <2>2 DEF Adopt
  <1>10. CASE LoadBatch(w)
    <2> DEFINE p == IF worker[w].prepend THEN "reinspect" ELSE "mark"
               R == NextBatch(worker[w].job)
               x == [worker[w] EXCEPT !.rows = R, !.batch = @ + 1, !.pc = p]
    <2>1. /\ x.pc \in {"reinspect", "mark"} /\ x.job = worker[w].job /\ x.rows = R
          /\ x.prepend = worker[w].prepend /\ x.call = "none"
      BY <1>1 DEF WorkerRecords
    <2>2. (worker' = [worker EXCEPT ![w] = x] /\ R # {}) \/ \E s : Finish(w, s)
      BY <1>1, <1>10, BatchNamed DEF LoadBatch, WorkersOK
    <2> HIDE DEF x
    <2> QED
      BY <1>2, <1>3, <1>10, <2>1, <2>2 DEF LoadBatch, dbVars
  <1>11. CASE Advance(w)
    <2> DEFINE x == [worker[w] EXCEPT !.pc = "load", !.rows = {}, !.again = FALSE, !.prepend = FALSE]
    <2>1. x.pc = "load" /\ ~x.prepend /\ x.call = "none"
      BY <1>1 DEF WorkerRecords
    <2>2. worker' = [worker EXCEPT ![w] = x] \/ Leave(w)
      BY <1>1, <1>11 DEF Advance, WorkersOK
    <2> HIDE DEF x
    <2> QED
      BY <1>2, <1>3, <2>1, <2>2
  <1> QED
    BY <1>5, <1>7, <1>8, <1>9, <1>10, <1>11

(* An append is started by a fresh run, so none is under way.               *)
LEMMA MarkHeading ==
  ASSUME Types, Sound, Tracked, Locking, Heading, [Next]_vars, NEW w \in Workers, Mark(w)
  PROVE  Heading'
  <1> DEFINE x == [worker[w] EXCEPT !.pc = "send"]
             j == worker[w].job
  <1>1. /\ UNCHANGED <<header, orphans>> /\ WorkersOK /\ JobsOK /\ worker[w] \in WorkerRecords
        /\ worker[w].pc = "mark" /\ j \in Jobs /\ worker[w].rows # {}
    BY DEF Mark, At, tabVars, Types, WorkersOK, WorkerOK, Heading, RowsNamed
  <1>2. CASE ~BeforeAppend(w)
    BY <1>1, <1>2, HeadOut DEF Mark
  <1>3. CASE BeforeAppend(w)
    <2>1. worker' = [worker EXCEPT ![w] = x]
      BY <1>3 DEF Mark, Goto
    <2>2. x.pc = "send" /\ x.rows = worker[w].rows /\ x.prepend = worker[w].prepend
      BY <1>1 DEF WorkerRecords
    <2> HIDE DEF x
    <2>3. worker'[w] = x /\ \A v \in Workers \ {w} : worker'[v] = worker[v]
      BY <1>1, <2>1 DEF WorkersOK
    <2>4. Fresh(w)
      BY <1>1, <1>3 DEF Fresh, Inside
    <2>5. orphans = {} /\ \A v \in Workers : ~Carrying(worker[v])
      BY <2>4, NoneFresh
    <2>6. \A v \in Workers \ {w} : Fresh(v)' => Fresh(v)
      BY <2>3, FreshLeft DEF Unmoved
    <2>7. RowsNamed' /\ OneCarrier' /\ HeaderOnce'
      BY <1>1, <2>2, <2>3, <2>5 DEF Heading, RowsNamed, OneCarrier, HeaderOnce
    <2>8. HeaderFree'
      BY <1>1, <2>2, <2>3, <2>4, <2>5, <2>6 DEF Heading, HeaderFree
    <2> QED
      BY <2>7, <2>8 DEF Heading
  <1> QED
    BY <1>2, <1>3

(* The call, and an answer that leaves nothing with Google.                 *)
LEMMA AnswerHeading ==
  ASSUME Types, Sound, Locking, Heading, [Next]_vars, NEW w \in Workers,
         Send(w) \/ AppendOk(w) \/ AppendRefused(w)
  PROVE  Heading'
  <1>1. UNCHANGED <<header, orphans, job>> /\ WorkersOK /\ worker[w] \in WorkerRecords
    BY DEF Send, AppendOk, AppendRefused, tabVars, dbVars, Types, WorkersOK
  <1>2. CASE Send(w)
    <2> DEFINE x == [worker[w] EXCEPT !.pc = "await", !.call = "open"]
    <2>1. /\ x.pc = "await" /\ x.call = "open" /\ x.rows = worker[w].rows
          /\ x.prepend = worker[w].prepend /\ worker[w].pc = "send"
          /\ worker' = [worker EXCEPT ![w] = x]
      BY <1>1, <1>2 DEF WorkerRecords, Send, At, WorkersOK
    <2> HIDE DEF x
    <2>2. Heads(w, x)
      BY <2>1 DEF Heads, Carrying, Heading, RowsNamed
    <2> QED
      BY <1>1, <2>1, <2>2, HeadMoves
  <1>3. CASE AppendOk(w)
    <2> DEFINE x == [worker[w] EXCEPT !.pc = "written", !.call = "none"]
    <2>1. /\ x.pc = "written" /\ x.call = "none" /\ x.job = worker[w].job
          /\ x.prepend = worker[w].prepend /\ worker[w].pc \in Inside
          /\ worker' = [worker EXCEPT ![w] = x]
      BY <1>1, <1>3 DEF WorkerRecords, AppendOk, At, Inside, WorkersOK
    <2> HIDE DEF x
    <2>2. Heads(w, x)
      BY <1>1, <2>1 DEF Heads, Carrying
    <2> QED
      BY <1>1, <2>1, <2>2, HeadMoves
  <1>4. CASE AppendRefused(w)
    BY <1>1, <1>4, HeadOut DEF AppendRefused
  <1> QED
    BY <1>2, <1>3, <1>4

(* An append whose caller stops waiting is still the only one.              *)
LEMMA AbandonedHeading ==
  ASSUME Types, Locking, Heading, [Next]_vars, NEW w \in Workers,
         AppendAmbiguous(w) \/ Crash(w)
  PROVE  Heading'
  <1> DEFINE a == [worker[w] EXCEPT !.pc = "column", !.call = "none", !.again = TRUE]
  <1>1. UNCHANGED <<header, job>> /\ WorkersOK /\ worker[w] \in WorkerRecords
    BY DEF AppendAmbiguous, Crash, tabVars, dbVars, Types, WorkersOK
  <1>2. PICK x : /\ worker' = [worker EXCEPT ![w] = x] /\ orphans' = OrphansWithout(w)
                 /\ x.call = "none" /\ x.pc \in {"idle", "column"}
                 /\ x.pc = "column" => /\ worker[w].pc \in Inside /\ x.job = worker[w].job
                                       /\ x.prepend = worker[w].prepend
    <2>1. a.pc = "column" /\ a.call = "none" /\ a.job = worker[w].job /\ a.prepend = worker[w].prepend
      BY <1>1 DEF WorkerRecords
    <2>2. IdleWorker.pc = "idle" /\ IdleWorker.call = "none"
      BY DEF IdleWorker
    <2>3. CASE AppendAmbiguous(w)
      <3>1. /\ worker' = [worker EXCEPT ![w] = a] /\ orphans' = OrphansWithout(w)
            /\ worker[w].pc \in Inside
        BY <1>1, <2>3 DEF AppendAmbiguous, WorkersOK, At, Inside
      <3> HIDE DEF a
      <3> QED
        BY <2>1, <3>1
    <2>4. CASE Crash(w)
      BY <2>2, <2>4 DEF Crash, Return
    <2> QED
      BY <2>3, <2>4
  <1>3. Heads(w, x)
    BY <1>1, <1>2 DEF Heads, Carrying, Inside
  <1>4. CASE worker[w].call # "open"
    BY <1>1, <1>2, <1>3, <1>4, HeadMoves DEF OrphansWithout
  <1>5. CASE worker[w].call = "open"
    <2>1. /\ orphans' = orphans \cup {OpenCall(w)} /\ OpenCall(w).rows = worker[w].rows
          /\ OpenCall(w).prepend = worker[w].prepend
      BY <1>2, <1>5 DEF OrphansWithout, OpenCall
    <2>2. worker'[w] = x /\ \A v \in Workers \ {w} : worker'[v] = worker[v]
      BY <1>1, <1>2 DEF WorkersOK
    <2>3. \A v \in Workers \ {w} : Fresh(v)' => Fresh(v)
      BY <2>2, FreshLeft DEF Unmoved
    <2>4. orphans = {} /\ Carrying(worker[w]) /\ \A v \in Workers \ {w} : ~Carrying(worker[v])
      BY <1>5 DEF Heading, OneCarrier, Carrying
    <2>5. RowsNamed' /\ OneCarrier' /\ HeaderOnce'
      BY <1>1, <1>2, <2>1, <2>2, <2>4 DEF Heading, RowsNamed, OneCarrier, HeaderOnce, Carrying
    <2>6. worker[w].prepend => header = 0
      BY <2>4 DEF Heading, HeaderFree
    <2>7. Fresh(w)' => x.prepend = worker[w].prepend
      BY <1>2, <2>2 DEF Fresh, Inside
    <2>8. HeaderFree'
      BY <1>1, <1>2, <2>1, <2>2, <2>3, <2>4, <2>6, <2>7 DEF Heading, HeaderFree, Carrying
    <2> QED
      BY <2>5, <2>8 DEF Heading
  <1> QED
    BY <1>4, <1>5

(* Google inserts the one append under way: nobody is left who would insert *)
(* another header.                                                          *)
LEMMA LandHeading ==
  ASSUME Types, Sound, Tracked, Locking, Heading, [Next]_vars,
         (\E w \in Workers : Land(w)) \/ (\E c \in orphans : LandOrphan(c))
  PROVE  Heading'
  <1>1. PICK R, h : /\ Insert(R, h) /\ (h => header = 0)
                    /\ orphans' = {} /\ \A v \in Workers : ~Carrying(worker'[v])
                    /\ \A v \in Workers : worker'[v].pc \in {"reinspect", "mark"} => Unmoved(v)
                    /\ \A v \in Workers : ~Unmoved(v) => worker'[v].pc = worker[v].pc
                                           /\ worker'[v].job = worker[v].job /\ UNCHANGED job
    <2>1. ASSUME NEW w \in Workers, Land(w)
          PROVE  /\ Insert(worker[w].rows, worker[w].prepend) /\ (worker[w].prepend => header = 0)
                 /\ orphans' = {} /\ \A v \in Workers : ~Carrying(worker'[v])
                 /\ \A v \in Workers : worker'[v].pc \in {"reinspect", "mark"} => Unmoved(v)
                 /\ \A v \in Workers : ~Unmoved(v) => worker'[v].pc = worker[v].pc
                                        /\ worker'[v].job = worker[v].job /\ UNCHANGED job
      <3> DEFINE x == [worker[w] EXCEPT !.call = "landed"]
      <3>1. /\ x.pc = "await" /\ x.job = worker[w].job /\ x.call = "landed" /\ worker[w].pc = "await"
            /\ worker[w].call = "open" /\ worker'[w] = x
            /\ \A v \in Workers \ {w} : worker'[v] = worker[v]
        BY <2>1 DEF Land, At, Types, WorkersOK, WorkerRecords
      <3> HIDE DEF x
      <3>2. orphans = {} /\ Carrying(worker[w]) /\ \A v \in Workers \ {w} : ~Carrying(worker[v])
        BY <3>1 DEF Heading, OneCarrier, Carrying
      <3>3. /\ Insert(worker[w].rows, worker[w].prepend) /\ UNCHANGED <<job, orphans>>
            /\ (worker[w].prepend => header = 0)
        BY <2>1, <3>2 DEF Land, dbVars, Heading, HeaderFree
      <3>4. \A v \in Workers \ {w} : Unmoved(v)
        BY <3>1 DEF Unmoved
      <3> QED
        BY <3>1, <3>2, <3>3, <3>4 DEF Carrying
    <2>2. ASSUME NEW c \in orphans, LandOrphan(c)
          PROVE  /\ Insert(c.rows, c.prepend) /\ (c.prepend => header = 0)
                 /\ orphans' = {} /\ \A v \in Workers : ~Carrying(worker'[v]) /\ Unmoved(v)
      BY <2>2 DEF LandOrphan, Heading, HeaderFree, OneCarrier, Unmoved
    <2> QED
      BY <2>1, <2>2
  <1>2. \A v \in Workers : ~Fresh(v)
    <2>1. (\E w \in Workers : Carrying(worker[w])) \/ orphans # {}
      BY DEF Land, Carrying
    <2> QED
      BY <2>1, NoneFresh
  <1>3. \A v \in Workers : ~Fresh(v)'
    <2>1. ASSUME NEW v \in Workers, Unmoved(v), Fresh(v)' PROVE FALSE
      BY <1>2, <2>1, FreshLeft
    <2>2. ASSUME NEW v \in Workers, ~Unmoved(v), Fresh(v)' PROVE FALSE
      BY <1>1, <1>2, <2>2 DEF Fresh, BeforeAppend, OwnsRun, HoldsToken
    <2> QED
      BY <2>1, <2>2
  <1>4. HeaderFree' /\ OneCarrier'
    BY <1>1, <1>3 DEF HeaderFree, OneCarrier
  <1>5. RowsNamed'
    BY <1>1 DEF Heading, RowsNamed, Unmoved
  <1>6. HeaderOnce'
    BY <1>1 DEF Heading, HeaderOnce, Insert, Types, TabOK
  <1> QED
    BY <1>4, <1>5, <1>6 DEF Heading

(* Every step keeps the header single.                                      *)
LEMMA StepHeading ==
  ASSUME Types, Sound, Tracked, Locking, Heading, [Next]_vars
  PROVE  Heading'
  <1>1. CASE \E w \in Workers : Execute(w)
    BY <1>1, OuterHeading, InnerHeading, MarkHeading, AnswerHeading, AbandonedHeading DEF Execute
  <1>2. CASE \E w \in Workers : (\E j \in Jobs : Begin(w, j)) \/ Land(w) \/ Throw(w) \/ Crash(w)
    BY <1>2, OuterHeading, LandHeading, AbandonedHeading
  <1>3. CASE \E c \in orphans : LandOrphan(c)
    BY <1>3, LandHeading
  <1>4. CASE (\E o \in Operators : (\E j \in Jobs : ReleaseHold(o, j)) \/ Release(o) \/ OpGone(o))
             \/ Edit \/ CalmDown \/ UNCHANGED vars
    <2>1. UNCHANGED <<worker, orphans>> /\ header' \in {0, header}
      BY <1>4 DEF ReleaseHold, Release, OpReadColumn, OpAdopt, OpRelease, OpUnlock, OpSync, OpGone, Edit,
                  CalmDown, tabVars, vars
    <2> QED
      BY <2>1, HeadStays DEF Unmoved
  <1>5. CASE Tick
    <2>1. \A v \in Workers : Unmoved(v)
      BY <1>5 DEF Tick, Types, WorkersOK, WorkerRecords, Unmoved
    <2> QED
      BY <1>5, <2>1, HeadStays DEF Tick, tabVars
  <1> QED
    BY <1>1, <1>2, <1>3, <1>4, <1>5 DEF Next

(* At the start nothing is under way.                                       *)
LEMMA InitHeading ==
  ASSUME Init
  PROVE  Heading
  <1>1. orphans = {} /\ header \in {0, 1} /\ \A w \in Workers : worker[w] = IdleWorker
    BY DEF Init
  <1>2. IdleWorker.pc = "idle" /\ IdleWorker.call = "none"
    BY DEF IdleWorker
  <1> QED
    BY <1>1, <1>2 DEF Heading, RowsNamed, OneCarrier, HeaderFree, HeaderOnce, Carrying, Fresh, Inside

(* As long as one operator at a time releases holds.                        *)
LEMMA AlwaysHeading ==
  InTime /\ OneOperator => (Spec /\ []UnlocksInTime => []Heading)
  <1> SUFFICES ASSUME InTime, OneOperator PROVE Spec /\ []UnlocksInTime => []Heading
    OBVIOUS
  <1>1. Init => Heading
    BY InitHeading
  <1>2. (Types /\ Sound /\ Tracked) /\ (Types /\ Locking) /\ Heading /\ [Next]_vars => Heading'
    BY StepHeading
  <1> QED
    BY <1>1, <1>2, AlwaysTracked, AlwaysLocking, PTL DEF Spec

(* Of all the executions and the appends whose caller is gone, one append   *)
(* of the worksheet at most is about to be sent or may still land.          *)
THEOREM OneUnderWay == InTime /\ OneOperator => (Spec /\ []UnlocksInTime => []OneCarrier)
  <1> SUFFICES ASSUME InTime, OneOperator PROVE Spec /\ []UnlocksInTime => []OneCarrier
    OBVIOUS
  <1>1. Heading => OneCarrier
    BY DEF Heading
  <1> QED
    BY <1>1, AlwaysHeading, PTL

(* The header is on the tab once at most, although every append that finds  *)
(* the tab blank carries one: a run that found it blank owns the worksheet  *)
(* lock, and nothing else lands until its append has.                       *)
THEOREM HeaderWrittenOnce ==
  InTime /\ OneOperator => (Spec /\ []UnlocksInTime => []HeaderOnce)
  <1> SUFFICES ASSUME InTime, OneOperator PROVE Spec /\ []UnlocksInTime => []HeaderOnce
    OBVIOUS
  <1>1. Heading => HeaderOnce
    BY DEF Heading
  <1> QED
    BY <1>1, AlwaysHeading, PTL
=============================================================================
