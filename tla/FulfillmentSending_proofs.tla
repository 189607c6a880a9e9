--------------------- MODULE FulfillmentSending_proofs ----------------------
(***************************************************************************)
(* What becomes of attempts: their outcomes are final, and instructions and*)
(* allocations tell the truth about them.  Then what reaches the CRM of a  *)
(* buyer: no instruction is sent twice, when the call tracks its fetches,  *)
(* and no source lead for two allocations, when what operators release has *)
(* one instruction as well.                                                *)
(***************************************************************************)
EXTENDS FulfillmentExecution_proofs

USE FulfillmentAssumption

(* The status of an attempt that is open is rewritten.                      *)
Rewrites(i, n, s) ==
  /\ n \in DOMAIN attempts[i] /\ attempts[i][n].status \in Open
  /\ attempts' = Set(i, n, s)

(* An instruction that is planned is claimed.                               *)
Claims(i, m) ==
  /\ Claimable(i)
  /\ attempts' = [attempts EXCEPT ![i] = Append(@, [mode |-> m, status |-> "claimed"])]
  /\ instr' = [instr EXCEPT ![i] = "executing"]
  /\ alloc' = [alloc EXCEPT ![For[i]] = "delivering"]

Activates(i, n) == Rewrites(i, n, "in_progress") /\ UNCHANGED <<instr, alloc>>

(* An attempt ends as s, and leaves its instruction in t.                   *)
Ends(i, n, s, t) ==
  /\ Rewrites(i, n, s)
  /\ instr' = [instr EXCEPT ![i] = t]
  /\ t = "completed" => s = "succeeded" /\ attempts[i][n].mode = "live" /\ sent[i] > 0
  /\ s = "succeeded" /\ attempts[i][n].mode = "live" =>
       t = "completed" /\ (Missing(i) = {} => alloc'[For[i]] = "committed")
  /\ s = "unknown_outcome" => t = "review_required" /\ alloc'[For[i]] = "review_required"
  /\ \A a \in Allocations \ {For[i]} : alloc'[a] = alloc[a]

(* Attempts and instructions stay, and allocations but a reserved one.      *)
Quiet == /\ UNCHANGED <<attempts, instr>>
         /\ \A a \in Allocations : alloc[a] # "shadow" => alloc'[a] = alloc[a]

Left == {"planned", "completed", "review_required"}

(* Of the attempts of an instruction one is open, while it is executing.    *)
OneOpen == \A i \in Instructions : \A m, n \in DOMAIN attempts[i] :
             attempts[i][m].status \in Open /\ attempts[i][n].status \in Open => m = n
OpenExecutes == \A i \in Instructions : \A n \in DOMAIN attempts[i] :
                  attempts[i][n].status \in Open => instr[i] = "executing"

(* A call commits what arrived; what is completed has arrived.              *)
ArrivedFirst == \A p \in Callers : At(p, "commit") => sent[caller[p].what] > 0
CompletedArrived == \A i \in Instructions : instr[i] = "completed" =>
  /\ sent[i] > 0
  /\ \E n \in DOMAIN attempts[i] : attempts[i][n] = [mode |-> "live", status |-> "succeeded"]
CommittedCompleted == \A a \in Allocations : alloc[a] = "committed" =>
  \A i \in Required(a) : instr[i] = "completed"

Outcomes == /\ OneOpen /\ OpenExecutes /\ ArrivedFirst
            /\ CompletedArrived /\ CommittedCompleted /\ UnknownIsHeld

(* Every step of a call is of one of four kinds.                            *)
LEMMA StepKinds ==
  ASSUME Typed, Locals, OpenExecutes, ArrivedFirst, NEW p \in Callers, Step(p)
  PROVE  \/ Quiet
         \/ \E i \in Instructions, m \in Modes : Claims(i, m)
         \/ \E i \in Instructions : \E n \in DOMAIN attempts[i] : Activates(i, n)
         \/ \E i \in Instructions : \E n \in DOMAIN attempts[i] : \E s \in Ended, t \in Left :
              Ends(i, n, s, t)
  <1> DEFINE Goal ==
         \/ Quiet
         \/ \E i \in Instructions, m \in Modes : Claims(i, m)
         \/ \E i \in Instructions : \E n \in DOMAIN attempts[i] : Activates(i, n)
         \/ \E i \in Instructions : \E n \in DOMAIN attempts[i] : \E s \in Ended, t \in Left :
              Ends(i, n, s, t)
  <1>w. ASSUME caller[p].pc \in Working
        PROVE  /\ caller[p].what \in Instructions
               /\ caller[p].number \in DOMAIN attempts[caller[p].what]
               /\ Unfinished(p) => instr[caller[p].what] = "executing"
    <2>1. /\ caller[p].what \in Instructions
          /\ caller[p].number \in DOMAIN attempts[caller[p].what]
      BY <1>w DEF Locals, Local
    <2> QED
      BY <2>1 DEF OpenExecutes, Unfinished, Mine
  <1>1. ASSUME Quiet PROVE Goal
    BY <1>1
  <1>2. ASSUME Claim(p) PROVE Goal
    <2>1. caller[p].what \in Instructions /\ caller[p].mode \in Modes
      BY <1>2 DEF Claim, Locals, Local, Typed, CallerRecords
    <2>2. Quiet \/ Claims(caller[p].what, caller[p].mode)
      BY <1>2 DEF Claim, Claims, Quiet
    <2> QED
      BY <2>1, <2>2
  <1>3. ASSUME Activate(p) PROVE Goal
    <2>1. caller[p].pc \in Working
      BY <1>3 DEF Activate, At, Working
    <2>2. Quiet \/ Activates(caller[p].what, caller[p].number)
      BY <1>3, <1>w, <2>1 DEF Activate, Activates, Rewrites, Quiet, Mine
    <2> QED
      BY <1>w, <2>1, <2>2
  <1>4. ASSUME Finalize(p) PROVE Goal
    <2>1. caller[p].pc \in Working
      BY <1>4 DEF Finalize, At, Working
    <2>2. CASE Unfinished(p)
      <3>1. PICK s \in {"succeeded", "terminal_failure"} :
              attempts' = Set(caller[p].what, caller[p].number, s)
        BY <1>4, <2>2 DEF Finalize
      <3>2. instr' = [instr EXCEPT ![caller[p].what] = "planned"]
        BY <1>4, <1>w, <2>1, <2>2 DEF Finalize, Typed
      <3>3. Mine(p).mode = "simulation"
        BY <1>4, <2>1 DEF Finalize, Locals, Local
      <3>4. Ends(caller[p].what, caller[p].number, s, "planned")
        BY <1>4, <1>w, <2>1, <2>2, <3>1, <3>2, <3>3
        DEF Finalize, Ends, Rewrites, Unfinished, Mine, Typed
      <3> QED
        BY <1>w, <2>1, <3>4 DEF Ended, Left
    <2>3. CASE ~Unfinished(p)
      <3>1. UNCHANGED <<attempts, instr, alloc>>
        BY <1>4, <2>3 DEF Finalize
      <3> QED
        BY <3>1 DEF Quiet
    <2> QED
      BY <2>2, <2>3
  <1>5. ASSUME Commit(p) PROVE Goal
    <2>1. caller[p].pc \in Working /\ sent[caller[p].what] > 0 /\ Mine(p).mode = "live"
      BY <1>5 DEF Commit, At, Working, LiveSteps, ArrivedFirst, Locals, Local
    <2>2. Quiet \/ Ends(caller[p].what, caller[p].number, "succeeded", "completed")
      <3> DEFINE i == caller[p].what
                 last == Missing(i) = {}
      <3>1. CASE UNCHANGED <<attempts, instr, alloc>>
        BY <3>1 DEF Quiet
      <3>2. CASE ~UNCHANGED <<attempts, instr, alloc>>
        <4>1. /\ Unfinished(p) /\ attempts' = Set(i, caller[p].number, "succeeded")
              /\ instr' = [instr EXCEPT ![i] = "completed"]
              /\ alloc' = IF last THEN [alloc EXCEPT ![For[i]] = "committed"] ELSE alloc
          BY <1>5, <3>2 DEF Commit
        <4>2. Rewrites(i, caller[p].number, "succeeded")
          BY <1>w, <2>1, <4>1 DEF Rewrites, Unfinished, Mine
        <4>3. last => alloc'[For[i]] = "committed"
          BY <1>w, <2>1, <4>1 DEF Typed
        <4>4. \A a \in Allocations \ {For[i]} : alloc'[a] = alloc[a]
          BY <4>1 DEF Typed
        <4> QED
          BY <2>1, <4>1, <4>2, <4>3, <4>4 DEF Ends, Mine
      <3> QED
        BY <3>1, <3>2
    <2> QED
      BY <1>w, <2>1, <2>2 DEF Ended, Left
  <1>6. ASSUME Doubt(p) PROVE Goal
    <2>1. caller[p].pc \in Working
      BY <1>6 DEF Doubt, At, Working
    <2>2. CASE Unfinished(p) /\ alloc[For[caller[p].what]] \in Executable
      <3>1. alloc'[For[caller[p].what]] = "review_required"
        BY <1>6, <1>w, <2>1, <2>2 DEF Doubt, Typed
      <3>2. Ends(caller[p].what, caller[p].number, "unknown_outcome", "review_required")
        BY <1>6, <1>w, <2>1, <2>2, <3>1 DEF Doubt, Ends, Rewrites, Unfinished, Mine, Typed
      <3> QED
        BY <1>w, <2>1, <3>2 DEF Ended, Left
    <2>3. CASE ~(Unfinished(p) /\ alloc[For[caller[p].what]] \in Executable)
      BY <1>6, <2>3 DEF Doubt, Quiet
    <2> QED
      BY <2>2, <2>3
  <1>7. ASSUME Cancel(p) PROVE Goal
    <2>1. caller[p].pc \in Working
      BY <1>7 DEF Cancel, Working
    <2>2. Quiet \/ Ends(caller[p].what, caller[p].number, "terminal_failure", "planned")
      BY <1>7, <1>w, <2>1 DEF Cancel, Ends, Rewrites, Quiet, Unfinished, Mine, Typed
    <2> QED
      BY <1>w, <2>1, <2>2 DEF Ended, Left
  <1>8. ASSUME \/ \E a \in Allocations : CheckReserve(p, a)
               \/ \E i \in Instructions : Join(p, i) \/ \E mode \in Modes : Read(p, i, mode)
               \/ Reserve(p) \/ Boundary(p) \/ Send(p) \/ Fail(p) \/ Crash(p)
        PROVE  Quiet
    BY <1>8 DEF CheckReserve, Join, Read, Reserve, Boundary, Send, Fail, Crash, Quiet, Typed
  <1> HIDE DEF Goal
  <1>9. Goal
    BY <1>1, <1>2, <1>3, <1>4, <1>5, <1>6, <1>7, <1>8 DEF Step
  <1> QED
    BY <1>9 DEF Goal

(* SetFacts, of an attempt that was open.                                   *)
LEMMA RewriteFacts ==
  ASSUME Typed, NEW i \in Instructions, NEW n \in DOMAIN attempts[i], NEW s \in Open \cup Ended,
         Rewrites(i, n, s)
  PROVE  /\ \A j \in Instructions : DOMAIN attempts'[j] = DOMAIN attempts[j]
         /\ \A j \in Instructions : \A m \in DOMAIN attempts[j] :
              /\ attempts'[j][m].mode = attempts[j][m].mode
              /\ j # i \/ m # n => attempts'[j][m] = attempts[j][m]
         /\ attempts'[i][n].status = s
         /\ attempts[i][n].status \in Open
  BY SetFacts DEF Rewrites

(* AppendFacts, of a claim.                                                 *)
LEMMA ClaimFacts ==
  ASSUME Typed, NEW i \in Instructions, NEW m \in Modes, Claims(i, m)
  PROVE  /\ \A j \in Instructions : \A k \in DOMAIN attempts[j] :
              k \in DOMAIN attempts'[j] /\ attempts'[j][k] = attempts[j][k]
         /\ \A j \in Instructions : \A k \in DOMAIN attempts'[j] :
              k \in DOMAIN attempts[j]
              \/ (j = i /\ k = Len(attempts[i]) + 1 /\ attempts'[j][k].status = "claimed")
         /\ \A k \in DOMAIN attempts[i] : attempts[i][k].status \notin Open
  <1> DEFINE x == [mode |-> m, status |-> "claimed"]
  <1>1. x \in AttemptRecords /\ x.status = "claimed"
    BY DEF AttemptRecords, Open
  <1>2. attempts' = [attempts EXCEPT ![i] = Append(@, x)]
    BY DEF Claims
  <1>3. \A k \in DOMAIN attempts[i] : attempts[i][k].status \notin Open
    BY DEF Claims, Claimable, Running
  <1> HIDE DEF x
  <1>4. /\ \A j \in Instructions : \A k \in DOMAIN attempts[j] :
              k \in DOMAIN attempts'[j] /\ attempts'[j][k] = attempts[j][k]
        /\ \A j \in Instructions : \A k \in DOMAIN attempts'[j] :
              k \in DOMAIN attempts[j] \/ (j = i /\ k = Len(attempts[i]) + 1)
        /\ attempts'[i][Len(attempts[i]) + 1] = x
    BY <1>1, <1>2, AppendFacts
  <1> QED
    BY <1>1, <1>3, <1>4

(* OutcomeStays, for one step of a call.                                    *)
LEMMA OutcomesKept ==
  ASSUME Typed, Locals, OpenExecutes, ArrivedFirst, NEW p \in Callers, Step(p),
         NEW i \in Instructions, NEW n \in DOMAIN attempts[i], attempts[i][n].status \in Ended
  PROVE  n \in DOMAIN attempts'[i] /\ attempts'[i][n] = attempts[i][n]
  <1>1. attempts[i][n].status \notin Open
    BY DEF Open, Ended
  <1>2. CASE Quiet
    BY <1>2 DEF Quiet
  <1>3. ASSUME NEW j \in Instructions, NEW m \in Modes, Claims(j, m)
        PROVE  n \in DOMAIN attempts'[i] /\ attempts'[i][n] = attempts[i][n]
    BY <1>3, ClaimFacts
  <1>4. ASSUME NEW j \in Instructions, NEW m \in DOMAIN attempts[j], NEW s \in Open \cup Ended,
               Rewrites(j, m, s)
        PROVE  n \in DOMAIN attempts'[i] /\ attempts'[i][n] = attempts[i][n]
    <2>1. attempts[j][m].status \in Open
      BY <1>4, RewriteFacts
    <2>2. j # i \/ m # n
      BY <1>1, <2>1
    <2> QED
      BY <1>4, <2>2, RewriteFacts
  <1>5. ASSUME NEW j \in Instructions, NEW m \in DOMAIN attempts[j], Activates(j, m)
        PROVE  n \in DOMAIN attempts'[i] /\ attempts'[i][n] = attempts[i][n]
    BY <1>4, <1>5 DEF Activates, Open
  <1>6. ASSUME NEW j \in Instructions, NEW m \in DOMAIN attempts[j],
               NEW s \in Ended, NEW t \in Left, Ends(j, m, s, t)
        PROVE  n \in DOMAIN attempts'[i] /\ attempts'[i][n] = attempts[i][n]
    BY <1>4, <1>6 DEF Ends
  <1> QED
    BY <1>2, <1>3, <1>5, <1>6, StepKinds

(* A committed allocation, and one in review, stay what they are.           *)
LEMMA AllocEnds ==
  ASSUME Typed, Locals, NEW p \in Callers, Step(p),
         NEW a \in Allocations, alloc[a] \in {"committed", "review_required"}
  PROVE  alloc'[a] = alloc[a]
  <1>1. /\ alloc \in [Allocations -> AllocStatuses]
        /\ alloc[a] \notin Executable /\ alloc[a] \notin {"shadow", "delivering"}
    BY DEF Typed, Executable
  <1>2. CASE Reserve(p)
    BY <1>1, <1>2 DEF Reserve
  <1>3. CASE Claim(p)
    BY <1>1, <1>3 DEF Claim
  <1>4. CASE Finalize(p)
    BY <1>1, <1>4 DEF Finalize, Back
  <1>5. CASE Commit(p)
    BY <1>1, <1>5 DEF Commit, Settles
  <1>6. CASE Doubt(p)
    BY <1>1, <1>6 DEF Doubt
  <1>7. CASE Cancel(p)
    BY <1>1, <1>7 DEF Cancel, Back
  <1>8. CASE alloc' = alloc
    BY <1>8
  <1> QED
    BY <1>2, <1>3, <1>4, <1>5, <1>6, <1>7, <1>8
    DEF Step, CheckReserve, Join, Read, Activate, Boundary, Send, Fail, Crash

(* An instruction that is completed or in review stays so.                  *)
LEMMA InstrEnds ==
  ASSUME Typed, Locals, OpenExecutes, ArrivedFirst, NEW p \in Callers, Step(p),
         NEW i \in Instructions, instr[i] \in {"completed", "review_required"}
  PROVE  instr'[i] = instr[i]
  <1>0. instr \in [Instructions -> InstrStatuses]
    BY DEF Typed
  <1>1. CASE Quiet
    BY <1>1 DEF Quiet
  <1>2. ASSUME NEW j \in Instructions, NEW m \in Modes, Claims(j, m) PROVE instr'[i] = instr[i]
    BY <1>0, <1>2 DEF Claims, Claimable
  <1>3. ASSUME NEW j \in Instructions, NEW m \in DOMAIN attempts[j], Activates(j, m)
        PROVE  instr'[i] = instr[i]
    BY <1>3 DEF Activates
  <1>4. ASSUME NEW j \in Instructions, NEW m \in DOMAIN attempts[j],
               NEW s \in Ended, NEW t \in Left, Ends(j, m, s, t)
        PROVE  instr'[i] = instr[i]
    <2>1. instr[j] = "executing"
      BY <1>4 DEF Ends, Rewrites, OpenExecutes
    <2> QED
      BY <1>0, <1>4, <2>1 DEF Ends
  <1> QED
    BY <1>1, <1>2, <1>3, <1>4, StepKinds

(* A lead that was sent stays sent.                                         *)
LEMMA SentGrows ==
  ASSUME Typed, Locals, NEW p \in Callers, Step(p), NEW i \in Instructions
  PROVE  sent'[i] >= sent[i]
  <1>1. sent \in [Instructions -> Nat] /\ sent[i] \in Nat
    BY DEF Typed
  <1>2. CASE Send(p)
    BY <1>1, <1>2 DEF Send
  <1>3. CASE sent' = sent
    BY <1>1, <1>3
  <1> QED
    BY <1>2, <1>3 DEF Step, CheckReserve, Join, Read, Reserve, Claim, Activate, Finalize,
                      Boundary, Commit, Doubt, Cancel, Fail, Crash

(* One attempt is open at most, and its instruction is executing.           *)
LEMMA OpenStep ==
  ASSUME Typed, Locals, Outcomes, NEW p \in Callers, Step(p)
  PROVE  OneOpen' /\ OpenExecutes'
  <1> USE DEF Outcomes
  <1>0. instr \in [Instructions -> InstrStatuses]
    BY DEF Typed
  <1>1. CASE Quiet
    BY <1>1 DEF Quiet, OneOpen, OpenExecutes
  <1>2. ASSUME NEW i \in Instructions, NEW m \in Modes, Claims(i, m)
        PROVE  OneOpen' /\ OpenExecutes'
    <2>1. instr' = [instr EXCEPT ![i] = "executing"]
      BY <1>2 DEF Claims
    <2>2. ASSUME NEW j \in Instructions, NEW k \in DOMAIN attempts'[j],
                 attempts'[j][k].status \in Open
          PROVE  IF j = i THEN k = Len(attempts[i]) + 1
                          ELSE k \in DOMAIN attempts[j] /\ attempts[j][k].status \in Open
      BY <1>2, <2>2, ClaimFacts
    <2>3. OneOpen'
      BY <2>2 DEF OneOpen
    <2>4. OpenExecutes'
      BY <1>0, <2>1, <2>2 DEF OpenExecutes
    <2> QED
      BY <2>3, <2>4
  <1>3. ASSUME NEW i \in Instructions, NEW n \in DOMAIN attempts[i], NEW s \in Open \cup Ended,
               Rewrites(i, n, s), NEW j \in Instructions, NEW k \in DOMAIN attempts'[j],
               attempts'[j][k].status \in Open
        PROVE  /\ k \in DOMAIN attempts[j] /\ attempts[j][k].status \in Open
               /\ s \in Ended => j # i
    <2>1. k \in DOMAIN attempts[j]
      BY <1>3, RewriteFacts
    <2>2. attempts[i][n].status \in Open /\ attempts'[i][n].status = s
      BY <1>3, RewriteFacts
    <2>3. j # i \/ k # n => attempts'[j][k] = attempts[j][k]
      BY <1>3, <2>1, RewriteFacts
    <2>4. attempts[j][k].status \in Open
      BY <1>3, <2>2, <2>3
    <2>5. ASSUME s \in Ended, j = i PROVE FALSE
      <3>1. k = n
        BY <2>1, <2>2, <2>4, <2>5 DEF OneOpen
      <3> QED
        BY <1>3, <2>2, <2>5, <3>1 DEF Open, Ended
    <2> QED
      BY <2>1, <2>4, <2>5
  <1>4. ASSUME NEW i \in Instructions, NEW n \in DOMAIN attempts[i], Activates(i, n)
        PROVE  OneOpen' /\ OpenExecutes'
    <2>1. Rewrites(i, n, "in_progress") /\ "in_progress" \in Open \cup Ended /\ instr' = instr
      BY <1>4 DEF Activates, Open
    <2>2. ASSUME NEW j \in Instructions, NEW k \in DOMAIN attempts'[j],
                 attempts'[j][k].status \in Open
          PROVE  k \in DOMAIN attempts[j] /\ attempts[j][k].status \in Open
      BY <1>3, <2>1, <2>2
    <2> QED
      BY <2>1, <2>2 DEF OneOpen, OpenExecutes
  <1>5. ASSUME NEW i \in Instructions, NEW n \in DOMAIN attempts[i],
               NEW s \in Ended, NEW t \in Left, Ends(i, n, s, t)
        PROVE  OneOpen' /\ OpenExecutes'
    <2>1. Rewrites(i, n, s) /\ instr' = [instr EXCEPT ![i] = t]
      BY <1>5 DEF Ends
    <2>2. ASSUME NEW j \in Instructions, NEW k \in DOMAIN attempts'[j],
                 attempts'[j][k].status \in Open
          PROVE  k \in DOMAIN attempts[j] /\ attempts[j][k].status \in Open /\ j # i
      BY <1>3, <2>1, <2>2
    <2>3. OneOpen'
      BY <2>2 DEF OneOpen
    <2>4. OpenExecutes'
      BY <1>0, <2>1, <2>2 DEF OpenExecutes
    <2> QED
      BY <2>3, <2>4
  <1> QED
    BY <1>1, <1>2, <1>4, <1>5, StepKinds

(* Where the step of a call leads it.                                       *)
LEMMA GoFacts ==
  ASSUME Typed, NEW p \in Callers, NEW s, Go(p, s)
  PROVE  /\ caller'[p].pc = s /\ caller'[p].what = caller[p].what
         /\ caller'[p].mode = caller[p].mode /\ caller'[p].number = caller[p].number
         /\ \A q \in Callers \ {p} : caller'[q] = caller[q]
  <1>1. caller \in [Callers -> CallerRecords] /\ caller[p] \in CallerRecords
    BY DEF Typed
  <1> QED
    BY <1>1 DEF Go, CallerRecords

(* A call that returns holds nothing.                                       *)
LEMMA DoneFacts ==
  ASSUME Typed, NEW p \in Callers, Done(p)
  PROVE  caller'[p].pc = "idle" /\ \A q \in Callers \ {p} : caller'[q] = caller[q]
  BY DEF Typed, Done, Idle

(* A call returns, waits for its claim, joins, or goes on with its attempt. *)
GoesOn(p) ==
  /\ caller[p].pc \in Working
  /\ caller'[p].what = caller[p].what
  /\ caller'[p].mode = caller[p].mode
  /\ caller'[p].number = caller[p].number
Starts(p) ==
  /\ caller'[p].pc = "activate"
  /\ \/ Join(p, caller'[p].what) /\ caller'[p].mode = "simulation"
     \/ /\ caller'[p].number = Len(attempts[caller'[p].what]) + 1
        /\ Claims(caller'[p].what, caller'[p].mode)

(* The step of a call leaves the other calls alone, and its own in one of the*)
(* ways above.                                                              *)
LEMMA OwnStep ==
  ASSUME Typed, Locals, NEW p \in Callers, Step(p)
  PROVE  /\ \/ caller'[p].pc \in {"idle", "reserve", "claim"}
            \/ Starts(p)
            \/ GoesOn(p)
         /\ caller'[p].pc = "commit" => Send(p)
         /\ \A q \in Callers \ {p} : caller'[q] = caller[q]
  <1> DEFINE Goal ==
         /\ \/ caller'[p].pc \in {"idle", "reserve", "claim"}
            \/ Starts(p)
            \/ GoesOn(p)
         /\ caller'[p].pc = "commit" => Send(p)
         /\ \A q \in Callers \ {p} : caller'[q] = caller[q]
  <1>0. caller \in [Callers -> CallerRecords] /\ caller[p] \in CallerRecords
    BY DEF Typed
  <1>d. ASSUME Done(p) PROVE Goal
    BY <1>d, DoneFacts
  <1>g. ASSUME NEW s \in Steps \ {"commit"}, Go(p, s), caller[p].pc \in Working PROVE Goal
    BY <1>g, GoFacts DEF GoesOn
  <1>1. ASSUME NEW a \in Allocations, CheckReserve(p, a) PROVE Goal
    BY <1>0, <1>1 DEF CheckReserve, CallerRecords
  <1>2. ASSUME NEW i \in Instructions, Join(p, i) PROVE Goal
    <2>1. PICK n \in DOMAIN attempts[i] :
            caller' = [caller EXCEPT ![p] = [Idle EXCEPT !.pc = "activate", !.what = i,
                                                         !.mode = "simulation", !.number = n]]
      BY <1>2 DEF Join
    <2>2. caller'[p].pc = "activate" /\ caller'[p].what = i /\ caller'[p].mode = "simulation"
      BY <1>0, <2>1 DEF Idle
    <2>3. \A q \in Callers \ {p} : caller'[q] = caller[q]
      BY <1>0, <2>1
    <2> QED
      BY <1>2, <2>2, <2>3 DEF Starts
  <1>3. ASSUME NEW i \in Instructions, NEW mode \in Modes, Read(p, i, mode) PROVE Goal
    <2>1. caller' = [caller EXCEPT ![p] = [Idle EXCEPT !.pc = "claim", !.what = i, !.mode = mode,
                                                       !.number = Len(attempts[i]) + 1]]
      BY <1>3 DEF Read
    <2> QED
      BY <1>0, <2>1 DEF Idle
  <1>4. ASSUME Claim(p) PROVE Goal
    <2>1. CASE Done(p)
      BY <1>d, <2>1
    <2>2. CASE ~Done(p)
      <3>1. /\ Go(p, "activate") /\ caller[p].number = Len(attempts[caller[p].what]) + 1
            /\ Claims(caller[p].what, caller[p].mode)
        BY <1>4, <2>2 DEF Claim, Claims
      <3>2. /\ caller'[p].pc = "activate" /\ caller'[p].what = caller[p].what
            /\ caller'[p].mode = caller[p].mode /\ caller'[p].number = caller[p].number
            /\ \A q \in Callers \ {p} : caller'[q] = caller[q]
        BY <3>1, GoFacts, Zenon
      <3>3. Starts(p)
        BY <3>1, <3>2, Zenon DEF Starts
      <3> QED
        BY <3>2, <3>3
    <2> QED
      BY <2>1, <2>2
  <1>5. ASSUME Activate(p) PROVE Goal
    BY <1>5, <1>d, <1>g DEF Activate, At, Working, Steps
  <1>6. ASSUME Boundary(p) PROVE Goal
    BY <1>6, <1>g DEF Boundary, At, Working, Steps
  <1>7. ASSUME Send(p) PROVE Goal
    <2>1. PICK s : Go(p, s)
      BY <1>7 DEF Send
    <2>2. caller[p].pc \in Working
      BY <1>7 DEF Send, At, Working
    <2> QED
      BY <1>7, <2>1, <2>2, GoFacts DEF GoesOn
  <1>8. ASSUME Commit(p) PROVE Goal
    BY <1>8, <1>d, <1>g DEF Commit, At, Working, Steps
  <1>9. ASSUME Fail(p) PROVE Goal
    BY <1>9, <1>g DEF Fail, Working, Steps
  <1>10. ASSUME Reserve(p) \/ Finalize(p) \/ Doubt(p) \/ Cancel(p) \/ Crash(p) PROVE Goal
    BY <1>10, <1>d DEF Reserve, Finalize, Doubt, Cancel, Crash
  <1> HIDE DEF Goal
  <1>11. Goal
    BY <1>1, <1>2, <1>3, <1>4, <1>5, <1>6, <1>7, <1>8, <1>9, <1>10 DEF Step
  <1> QED
    BY <1>11 DEF Goal

(* A call that is about to commit has sent what it commits.                 *)
LEMMA ArrivedStep ==
  ASSUME Typed, Locals, Outcomes, NEW p \in Callers, Step(p)
  PROVE  ArrivedFirst'
  <1> SUFFICES ASSUME NEW q \in Callers, At(q, "commit")' PROVE sent'[caller'[q].what] > 0
    BY DEF ArrivedFirst, At
  <1>1. caller \in [Callers -> CallerRecords] /\ sent \in [Instructions -> Nat]
    BY DEF Typed
  <1>2. CASE caller'[q] = caller[q]
    <2>1. sent[caller[q].what] > 0 /\ caller[q].what \in Instructions
      BY <1>2 DEF Outcomes, ArrivedFirst, At, Locals, Local, Working
    <2>2. sent'[caller[q].what] >= sent[caller[q].what]
      BY <2>1, SentGrows
    <2>3. sent'[caller[q].what] \in Nat
      BY <2>1, TypedStep DEF Typed
    <2> QED
      BY <1>1, <1>2, <2>1, <2>2, <2>3
  <1>3. CASE Send(p) /\ q = p
    <2>1. PICK r \in Results, arrived \in BOOLEAN :
            /\ r = "succeeded" => arrived
            /\ Go(p, Verdict(r, arrived))
            /\ sent' = IF arrived THEN [sent EXCEPT ![caller[p].what] = @ + 1] ELSE sent
      BY <1>3 DEF Send
    <2>2. caller'[p].pc = Verdict(r, arrived) /\ caller'[p].what = caller[p].what
      BY <1>1, <2>1 DEF Go, CallerRecords
    <2>3. r = "succeeded"
      BY <1>3, <2>2 DEF At, Verdict
    <2>4. caller[p].what \in Instructions
      BY <1>3 DEF Send, At, Locals, Local, Working
    <2> QED
      BY <1>1, <1>3, <2>1, <2>2, <2>3, <2>4
  <1>4. CASE ~Send(p) /\ q = p /\ caller'[q] # caller[q]
    <2>1. caller'[p].pc # "commit"
      BY <1>4, OwnStep
    <2> QED
      BY <1>4, <2>1 DEF At
  <1>5. q # p => caller'[q] = caller[q]
    BY OwnStep
  <1> QED
    BY <1>2, <1>3, <1>4, <1>5

(* What a step completes was sent, and its attempt has succeeded.           *)
LEMMA CompletedStep ==
  ASSUME Typed, Locals, Outcomes, NEW p \in Callers, Step(p)
  PROVE  CompletedArrived'
  <1> SUFFICES ASSUME NEW i \in Instructions, instr'[i] = "completed"
               PROVE  /\ sent'[i] > 0
                      /\ \E n \in DOMAIN attempts'[i] :
                           attempts'[i][n] = [mode |-> "live", status |-> "succeeded"]
    BY DEF CompletedArrived
  <1>0. /\ instr \in [Instructions -> InstrStatuses]
        /\ sent[i] \in Nat /\ sent'[i] \in Nat /\ sent'[i] >= sent[i]
    BY TypedStep, SentGrows DEF Typed
  <1>1. CASE instr[i] = "completed"
    <2>1. sent[i] > 0
      BY <1>1 DEF Outcomes, CompletedArrived
    <2>2. PICK n \in DOMAIN attempts[i] :
            attempts[i][n] = [mode |-> "live", status |-> "succeeded"]
      BY <1>1 DEF Outcomes, CompletedArrived
    <2>3. attempts[i][n].status \in Ended
      BY <2>2 DEF Ended
    <2>4. n \in DOMAIN attempts'[i] /\ attempts'[i][n] = attempts[i][n]
      BY <2>3, OutcomesKept DEF Outcomes
    <2> QED
      BY <1>0, <2>1, <2>2, <2>4
  <1>2. CASE instr[i] # "completed"
    <2>1. PICK j \in Instructions : \E n \in DOMAIN attempts[j] : \E s \in Ended, t \in Left :
            Ends(j, n, s, t)
      BY <1>0, <1>2, StepKinds DEF Outcomes, Quiet, Claims, Activates
    <2>2. PICK n \in DOMAIN attempts[j] : \E s \in Ended, t \in Left : Ends(j, n, s, t)
      BY <2>1
    <2>3. PICK s \in Ended, t \in Left : Ends(j, n, s, t)
      BY <2>2
    <2>4. j = i /\ t = "completed"
      BY <1>0, <1>2, <2>3 DEF Ends
    <2>5. s = "succeeded" /\ attempts[j][n].mode = "live" /\ sent[j] > 0 /\ Rewrites(j, n, s)
      BY <2>3, <2>4 DEF Ends
    <2>6. /\ n \in DOMAIN attempts'[i]
          /\ attempts'[i][n].mode = "live" /\ attempts'[i][n].status = "succeeded"
      BY <2>4, <2>5, RewriteFacts
    <2>7. attempts'[i][n] \in AttemptRecords
      <3>1. attempts'[i] \in Seq(AttemptRecords)
        BY TypedStep DEF Typed
      <3> QED
        BY <2>6, <3>1, LenProperties, ElementOfSeq
    <2>8. attempts'[i][n] = [mode |-> "live", status |-> "succeeded"]
      BY <2>6, <2>7 DEF AttemptRecords
    <2> QED
      BY <1>0, <2>4, <2>5, <2>6, <2>8
  <1> QED
    BY <1>1, <1>2

(* What a commit leaves committed has all it requires completed.            *)
LEMMA CommittedStep ==
  ASSUME Typed, Locals, Outcomes, NEW p \in Callers, Step(p)
  PROVE  CommittedCompleted'
  <1> SUFFICES ASSUME NEW a \in Allocations, alloc'[a] = "committed", NEW i \in Required(a)
               PROVE  instr'[i] = "completed"
    BY DEF CommittedCompleted, Required, InstructionsOf
  <1>0. /\ alloc \in [Allocations -> AllocStatuses] /\ instr \in [Instructions -> InstrStatuses]
        /\ i \in Instructions /\ For[i] = a
    BY DEF Typed, Required, InstructionsOf
  <1>1. CASE alloc[a] = "committed"
    BY <1>0, <1>1, InstrEnds DEF Outcomes, CommittedCompleted
  <1>2. CASE alloc[a] # "committed"
    <2>1. Commit(p)
      BY <1>0, <1>2 DEF Step, CheckReserve, Join, Read, Reserve, Claim, Activate, Finalize, Boundary,
                        Send, Doubt, Cancel, Fail, Crash, Back
    <2>2. PICK k \in Instructions : k = caller[p].what
      BY <2>1 DEF Commit, At, Locals, Local, Working
    <2>3. /\ Missing(k) = {} /\ instr' = [instr EXCEPT ![k] = "completed"]
          /\ alloc' = [alloc EXCEPT ![For[k]] = "committed"]
      BY <1>2, <2>1, <2>2 DEF Commit
    <2>4. For[k] = a
      BY <1>0, <1>2, <2>3
    <2>5. i = k \/ instr[i] = "completed"
      BY <2>3, <2>4 DEF Missing
    <2> QED
      BY <1>0, <2>3, <2>5
  <1> QED
    BY <1>1, <1>2

(* An unknown outcome puts its allocation and instruction in review.        *)
LEMMA UnknownStep ==
  ASSUME Typed, Locals, Outcomes, NEW p \in Callers, Step(p)
  PROVE  UnknownIsHeld'
  <1> SUFFICES ASSUME NEW i \in Instructions, NEW n \in DOMAIN attempts'[i],
                      attempts'[i][n].status = "unknown_outcome"
               PROVE  alloc'[For[i]] = "review_required" /\ instr'[i] = "review_required"
    BY DEF UnknownIsHeld
  <1>0. instr \in [Instructions -> InstrStatuses]
    BY DEF Typed
  <1>1. CASE n \in DOMAIN attempts[i] /\ attempts[i][n].status = "unknown_outcome"
    <2>1. alloc[For[i]] = "review_required" /\ instr[i] = "review_required"
      BY <1>1 DEF Outcomes, UnknownIsHeld
    <2> QED
      BY <2>1, AllocEnds, InstrEnds DEF Outcomes
  <1>2. CASE ~(n \in DOMAIN attempts[i] /\ attempts[i][n].status = "unknown_outcome")
    <2>1. ASSUME NEW j \in Instructions, NEW m \in DOMAIN attempts[j], NEW s \in Open \cup Ended,
                 Rewrites(j, m, s)
          PROVE  j = i /\ s = "unknown_outcome"
      <3>1. n \in DOMAIN attempts[i]
        BY <2>1, RewriteFacts
      <3>2. j = i /\ m = n
        BY <1>2, <2>1, <3>1, RewriteFacts
      <3> QED
        BY <2>1, <3>2, RewriteFacts
    <2>2. ASSUME NEW j \in Instructions, NEW m \in Modes, Claims(j, m) PROVE FALSE
      BY <1>2, <2>2, ClaimFacts
    <2>3. ASSUME NEW j \in Instructions, NEW m \in DOMAIN attempts[j], Activates(j, m)
          PROVE  FALSE
      <3>1. Rewrites(j, m, "in_progress") /\ "in_progress" \in Open \cup Ended
        BY <2>3 DEF Activates, Open
      <3> QED
        BY <2>1, <3>1
    <2>4. ASSUME NEW j \in Instructions, NEW m \in DOMAIN attempts[j],
                 NEW s \in Ended, NEW t \in Left, Ends(j, m, s, t)
          PROVE  alloc'[For[i]] = "review_required" /\ instr'[i] = "review_required"
      <3>1. j = i /\ s = "unknown_outcome"
        BY <2>1, <2>4 DEF Ends
      <3> QED
        BY <1>0, <2>4, <3>1 DEF Ends
    <2>5. ~Quiet
      BY <1>2 DEF Quiet
    <2> QED
      BY <2>2, <2>3, <2>4, <2>5, StepKinds DEF Outcomes
  <1> QED
    BY <1>1, <1>2

(* There are no attempts at first.                                          *)
LEMMA OutcomesInit == Init => Outcomes
  BY DEF Init, Outcomes, OneOpen, OpenExecutes, ArrivedFirst, CompletedArrived,
         CommittedCompleted, UnknownIsHeld, At, Idle

(* No step of a call breaks Outcomes.                                       *)
LEMMA OutcomesStep ==
  ASSUME Typed, Locals, Outcomes, NEW p \in Callers, Step(p)
  PROVE  Outcomes'
  BY OpenStep, ArrivedStep, CompletedStep, CommittedStep, UnknownStep DEF Outcomes

(* A transaction aside touches an allocation that is neither committed nor  *)
(* in review, and releases it.                                              *)
LEMMA OutcomesAside ==
  ASSUME Typed, Outcomes, UNCHANGED <<instr, attempts, sent, caller>>,
         \/ alloc' = alloc
         \/ \E a \in Allocations : alloc[a] \in Executable /\ alloc' = [alloc EXCEPT ![a] = "released"]
  PROVE  Outcomes'
  <1>1. OneOpen' /\ OpenExecutes' /\ ArrivedFirst' /\ CompletedArrived'
    BY DEF Outcomes, OneOpen, OpenExecutes, ArrivedFirst, CompletedArrived, At
  <1>2. ASSUME NEW b \in Allocations
        PROVE  /\ alloc'[b] = "committed" => alloc[b] = "committed"
               /\ alloc[b] = "review_required" => alloc'[b] = "review_required"
    BY DEF Typed, Executable
  <1>3. CommittedCompleted'
    BY <1>2 DEF Outcomes, CommittedCompleted, Required, InstructionsOf
  <1>4. UnknownIsHeld'
    BY <1>2 DEF Outcomes, UnknownIsHeld
  <1> QED
    BY <1>1, <1>3, <1>4 DEF Outcomes

(* The statuses of attempts, instructions and allocations agree in every    *)
(* reachable state.                                                         *)
THEOREM OutcomesHold == Spec => [](Typed /\ Locals /\ Outcomes)
  <1>1. Typed /\ Locals /\ Outcomes /\ [Next]_vars => Typed' /\ Locals' /\ Outcomes'
    <2> SUFFICES ASSUME Typed, Locals, Outcomes, [Next]_vars PROVE Typed' /\ Locals' /\ Outcomes'
      OBVIOUS
    <2>1. CASE \E p \in Callers : Step(p)
      BY <2>1, TypedStep, OutcomesStep
    <2>2. CASE \/ \E a \in Allocations : SafeRelease(a) \/ Release(a)
               \/ \E o \in Managed : Pause(o) \/ Stop(o) \/ Resume(o)
      <3>1. /\ UNCHANGED <<instr, attempts, sent, caller>>
            /\ \/ alloc' = alloc
               \/ \E a \in Allocations :
                    alloc[a] \in Executable /\ alloc' = [alloc EXCEPT ![a] = "released"]
        BY <2>2 DEF SafeRelease, Release, MayRelease, Executable, Pause, Stop, Resume
      <3> QED
        BY <2>2, <3>1, TypedAside, OutcomesAside
    <2>3. CASE UNCHANGED vars
      <3>1. UNCHANGED <<instr, attempts, sent, caller>> /\ alloc' = alloc
        BY <2>3 DEF vars
      <3> QED
        BY <2>3, <3>1, TypedStutter, OutcomesAside
    <2> QED
      BY <2>1, <2>2, <2>3 DEF Next
  <1> QED
    BY <1>1, TypedInit, OutcomesInit, PTL DEF Spec

(* UnknownIsHeld: an unknown outcome keeps its allocation and instruction   *)
(* in review, whatever sibling instructions and other calls do.             *)
THEOREM UnknownHeld == Spec => []UnknownIsHeld
  <1>1. Outcomes => UnknownIsHeld
    BY DEF Outcomes
  <1> QED
    BY <1>1, OutcomesHold, PTL

(* CommittedIsDelivered: what an order is charged for has a live attempt    *)
(* that succeeded for every required instruction, and was sent.             *)
THEOREM CommittedDelivered == Spec => []CommittedIsDelivered
  <1>1. Outcomes => CommittedIsDelivered
    BY DEF Outcomes, CommittedIsDelivered, CommittedCompleted, CompletedArrived,
           Required, InstructionsOf
  <1> QED
    BY <1>1, OutcomesHold, PTL

(* OutcomeStays: no step rewrites an outcome that is recorded.              *)
THEOREM OutcomeFinal == Spec => OutcomeStays
  <1> DEFINE Stays == \A i \in Instructions : \A n \in DOMAIN attempts[i] :
                        attempts[i][n].status \in Ended =>
                          n \in DOMAIN attempts'[i] /\ attempts'[i][n] = attempts[i][n]
  <1>1. Typed /\ Locals /\ Outcomes /\ [Next]_vars => [Stays]_vars
    <2> SUFFICES ASSUME Typed, Locals, Outcomes, Next PROVE Stays
      OBVIOUS
    <2>1. CASE \E p \in Callers : Step(p)
      BY <2>1, OutcomesKept DEF Outcomes
    <2>2. CASE ~\E p \in Callers : Step(p)
      BY <2>2 DEF Next, SafeRelease, Release, Pause, Stop, Resume
    <2> QED
      BY <2>1, <2>2
  <1> QED
    BY <1>1, OutcomesHold, PTL DEF Spec, OutcomeStays

-----------------------------------------------------------------------------
(* Who may hold an attempt, and what is on record of what was sent.         *)

Holds(q, i, n) == caller[q].pc \in Working /\ caller[q].what = i /\ caller[q].number = n

(* Calls that share an attempt simulate.                                    *)
Shared == \A p, q \in Callers :
  p # q /\ caller[p].pc \in Working /\ Holds(q, caller[p].what, caller[p].number)
    => caller[p].mode = "simulation"

(* The attempt of a live call is open until the call has ended it.          *)
OwnOpen == \A p \in Callers :
  caller[p].pc \in Working /\ caller[p].mode = "live" => Mine(p).status \in Open

(* The gates let nothing through that was sent.                             *)
Unsent == \A p \in Callers : At(p, "send") => sent[caller[p].what] = 0

(* What was sent is on record, or its attempt is open and whoever holds it  *)
(* will commit or doubt.                                                    *)
Witness(i, n) ==
  /\ attempts[i][n].mode = "live"
  /\ \/ attempts[i][n].status \in {"succeeded", "unknown_outcome"}
     \/ /\ attempts[i][n].status \in Open
        /\ \A q \in Callers : Holds(q, i, n) => caller[q].pc \in {"commit", "doubt"}
Recorded == \A i \in Instructions :
  sent[i] > 0 => \E n \in DOMAIN attempts[i] : Witness(i, n)

Sending == Shared /\ OwnOpen /\ Unsent /\ Recorded /\ NotSentTwice

(* A step changes no attempt but the one its call holds.                    *)
LEMMA OnlyOwn ==
  ASSUME Typed, Locals, NEW p \in Callers, Step(p),
         NEW j \in Instructions, NEW m \in DOMAIN attempts[j], ~Holds(p, j, m)
  PROVE  m \in DOMAIN attempts'[j] /\ attempts'[j][m] = attempts[j][m]
  <1> DEFINE Goal == m \in DOMAIN attempts'[j] /\ attempts'[j][m] = attempts[j][m]
  <1>1. ASSUME attempts' = attempts PROVE Goal
    BY <1>1
  <1>2. ASSUME NEW s \in Open \cup Ended, caller[p].pc \in Working,
               attempts' = Set(caller[p].what, caller[p].number, s)
        PROVE  Goal
    <2>1. PICK i \in Instructions : i = caller[p].what /\ caller[p].number \in DOMAIN attempts[i]
      BY <1>2 DEF Locals, Local
    <2>2. PICK n \in DOMAIN attempts[i] : n = caller[p].number
      BY <2>1
    <2>3. attempts' = Set(i, n, s)
      BY <1>2, <2>1, <2>2
    <2>4. j # i \/ m # n
      BY <1>2, <2>1, <2>2 DEF Holds
    <2> QED
      BY <2>3, <2>4, SetFacts
  <1>3. ASSUME Claim(p) PROVE Goal
    <2>1. PICK i \in Instructions, k \in Modes : i = caller[p].what /\ k = caller[p].mode
      BY <1>3 DEF Claim, Locals, Local, Typed, CallerRecords
    <2>2. attempts' = attempts \/ Claims(i, k)
      BY <1>3, <2>1 DEF Claim, Claims
    <2> QED
      BY <1>1, <2>2, ClaimFacts
  <1>4. ASSUME Activate(p) PROVE Goal
    BY <1>1, <1>2, <1>4 DEF Activate, At, Working, Open
  <1>5. ASSUME Finalize(p) PROVE Goal
    BY <1>1, <1>2, <1>5 DEF Finalize, At, Working, Ended
  <1>6. ASSUME Commit(p) PROVE Goal
    BY <1>1, <1>2, <1>6 DEF Commit, At, Working, Ended
  <1>7. ASSUME Doubt(p) PROVE Goal
    BY <1>1, <1>2, <1>7 DEF Doubt, At, Working, Ended
  <1>8. ASSUME Cancel(p) PROVE Goal
    BY <1>1, <1>2, <1>8 DEF Cancel, Working, Ended
  <1>9. ASSUME \/ \E a \in Allocations : CheckReserve(p, a)
               \/ \E i \in Instructions : Join(p, i) \/ \E mode \in Modes : Read(p, i, mode)
               \/ Reserve(p) \/ Boundary(p) \/ Send(p) \/ Fail(p) \/ Crash(p)
        PROVE  attempts' = attempts
    BY <1>9 DEF CheckReserve, Join, Read, Reserve, Boundary, Send, Fail, Crash
  <1> HIDE DEF Goal
  <1>10. Goal
    BY <1>1, <1>3, <1>4, <1>5, <1>6, <1>7, <1>8, <1>9 DEF Step
  <1> QED
    BY <1>10 DEF Goal

(* The number of a new claim is held by no call.                            *)
LEMMA FreshNumber ==
  ASSUME Typed, Locals, NEW q \in Callers, NEW i \in Instructions
  PROVE  ~Holds(q, i, Len(attempts[i]) + 1)
  <1>1. Len(attempts[i]) \in Nat /\ DOMAIN attempts[i] = 1 .. Len(attempts[i])
    BY LenProperties DEF Typed
  <1>2. Len(attempts[i]) + 1 \notin DOMAIN attempts[i]
    BY <1>1
  <1> QED
    BY <1>2 DEF Holds, Locals, Local

(* Whoever comes to hold an attempt after a step held it before, or joins a *)
(* simulation, or has claimed it in that step.                              *)
LEMMA Holding ==
  ASSUME Typed, Locals, NEW p \in Callers, Step(p), NEW q \in Callers,
         caller'[q].pc \in Working
  PROVE  \/ Holds(q, caller'[q].what, caller'[q].number) /\ caller'[q].mode = caller[q].mode
         \/ q = p /\ caller'[q].mode = "simulation"
         \/ /\ q = p /\ caller'[q].what \in Instructions
            /\ caller'[q].number = Len(attempts[caller'[q].what]) + 1
  <1>1. CASE q # p
    <2>1. caller'[q] = caller[q]
      BY <1>1, OwnStep
    <2> QED
      BY <2>1 DEF Holds
  <1>2. CASE q = p
    <2>1. Starts(p) \/ GoesOn(p)
      BY <1>2, OwnStep DEF Working
    <2>2. caller'[p].what \in Instructions
      BY <1>2, TypedStep DEF Locals, Local
    <2> QED
      BY <1>2, <2>1, <2>2 DEF Starts, GoesOn, Holds
  <1> QED
    BY <1>1, <1>2

(* A call that comes to share an attempt simulates, and so did the other.   *)
LEMMA SharedStep ==
  ASSUME Typed, Locals, Shared, NEW p \in Callers, Step(p)
  PROVE  Shared'
  <1> SUFFICES ASSUME NEW q \in Callers, NEW r \in Callers, q # r,
                      caller'[q].pc \in Working, caller'[r].pc \in Working,
                      caller'[r].what = caller'[q].what, caller'[r].number = caller'[q].number
               PROVE  caller'[q].mode = "simulation"
    BY DEF Shared, Holds
  <1>1. caller'[q].mode = caller'[r].mode
    BY TypedStep DEF Locals, Local, Mine
  <1>2. \A t \in Callers \ {p} : caller'[t] = caller[t]
    BY OwnStep
  <1>3. caller'[q].what \in Instructions
    BY TypedStep DEF Locals, Local
  <1>4. PICK i \in Instructions : i = caller'[q].what
    BY <1>3
  <1>5. CASE q # p
    <2>1. caller'[q] = caller[q]
      BY <1>2, <1>5
    <2>2. Holds(q, i, caller'[q].number)
      BY <1>4, <2>1 DEF Holds
    <2>3. CASE Holds(r, i, caller'[q].number)
      BY <1>4, <2>1, <2>3 DEF Shared
    <2>4. CASE caller'[r].mode = "simulation"
      BY <1>1, <2>4
    <2>5. CASE caller'[r].number = Len(attempts[i]) + 1
      BY <2>2, <2>5, FreshNumber
    <2> QED
      BY <1>4, <2>3, <2>4, <2>5, Holding
  <1>6. CASE r # p
    <2>1. caller'[r] = caller[r]
      BY <1>2, <1>6
    <2>2. Holds(r, i, caller'[q].number)
      BY <1>4, <2>1 DEF Holds
    <2>3. CASE Holds(q, i, caller'[q].number) /\ caller'[q].mode = caller[q].mode
      BY <1>4, <2>2, <2>3 DEF Shared, Holds
    <2>4. CASE caller'[q].mode = "simulation"
      BY <2>4
    <2>5. CASE caller'[q].number = Len(attempts[i]) + 1
      BY <2>2, <2>5, FreshNumber
    <2> QED
      BY <1>4, <2>3, <2>4, <2>5, Holding
  <1> QED
    BY <1>5, <1>6

(* What a call does to its own attempt while it goes on.                    *)
LEMMA OwnActive ==
  ASSUME Typed, Locals, NEW p \in Callers, Step(p),
         caller[p].pc \in Working, caller'[p].pc \in Working
  PROVE  attempts' = attempts \/ attempts' = Set(caller[p].what, caller[p].number, "in_progress")
  <1>1. ASSUME Done(p) PROVE FALSE
    BY <1>1, DoneFacts DEF Working
  <1>2. ASSUME \/ \E a \in Allocations : CheckReserve(p, a)
               \/ \E i \in Instructions : Join(p, i) \/ \E mode \in Modes : Read(p, i, mode)
               \/ Reserve(p) \/ Boundary(p) \/ Send(p) \/ Fail(p) \/ Crash(p)
        PROVE  attempts' = attempts
    BY <1>2 DEF CheckReserve, Join, Read, Reserve, Boundary, Send, Fail, Crash
  <1>3. ~Claim(p)
    BY DEF Claim, At, Working
  <1>4. ~Finalize(p) /\ ~Doubt(p) /\ ~Cancel(p)
    BY <1>1 DEF Finalize, Doubt, Cancel
  <1>5. ASSUME Commit(p) PROVE attempts' = attempts
    BY <1>1, <1>5 DEF Commit
  <1>6. ASSUME Activate(p)
        PROVE  \/ attempts' = attempts
               \/ attempts' = Set(caller[p].what, caller[p].number, "in_progress")
    BY <1>6 DEF Activate
  <1> QED
    BY <1>2, <1>3, <1>4, <1>5, <1>6, Zenon DEF Step

(* No other call ends the attempt of a live call.                           *)
LEMMA OwnOpenStep ==
  ASSUME Typed, Locals, Shared, OwnOpen, NEW p \in Callers, Step(p)
  PROVE  OwnOpen'
  <1> SUFFICES ASSUME NEW q \in Callers, caller'[q].pc \in Working, caller'[q].mode = "live"
               PROVE  attempts'[caller'[q].what][caller'[q].number].status \in Open
    BY DEF OwnOpen, Mine
  <1>1. CASE q # p
    <2>1. caller'[q] = caller[q]
      BY <1>1, OwnStep
    <2>2. PICK i \in Instructions : i = caller[q].what /\ caller[q].number \in DOMAIN attempts[i]
      BY <2>1 DEF Locals, Local
    <2>3. ~Holds(p, i, caller[q].number)
      BY <1>1, <2>1, <2>2 DEF Shared
    <2>4. attempts[i][caller[q].number].status \in Open
      BY <2>1, <2>2 DEF OwnOpen, Mine
    <2> QED
      BY <2>1, <2>2, <2>3, <2>4, OnlyOwn
  <1>2. CASE q = p
    <2>1. CASE GoesOn(p)
      <3>1. PICK i \in Instructions : i = caller[p].what /\ caller[p].number \in DOMAIN attempts[i]
        BY <2>1 DEF GoesOn, Locals, Local
      <3>2. PICK n \in DOMAIN attempts[i] : n = caller[p].number
        BY <3>1
      <3>3. attempts[i][n].status \in Open
        BY <1>2, <2>1, <3>1, <3>2 DEF GoesOn, OwnOpen, Mine
      <3>4. attempts' = attempts \/ attempts' = Set(i, n, "in_progress")
        BY <1>2, <2>1, <3>1, <3>2, OwnActive DEF GoesOn
      <3>5. attempts'[i][n].status \in Open
        BY <3>3, <3>4, SetFacts DEF Open
      <3> QED
        BY <1>2, <2>1, <3>1, <3>2, <3>5 DEF GoesOn
    <2>2. CASE Starts(p)
      <3>1. PICK i \in Instructions, k \in Modes : i = caller'[p].what /\ k = caller'[p].mode
        BY <1>2, TypedStep DEF Locals, Local, Modes
      <3>2. caller'[p].number = Len(attempts[i]) + 1 /\ Claims(i, k)
        BY <1>2, <2>2, <3>1 DEF Starts
      <3>3. caller'[p].number \in DOMAIN attempts'[i]
        BY <1>2, <3>1, TypedStep DEF Locals, Local
      <3>4. caller'[p].number \notin DOMAIN attempts[i]
        BY <3>2, LenProperties DEF Typed
      <3>5. attempts'[i][caller'[p].number].status = "claimed"
        BY <3>2, <3>3, <3>4, ClaimFacts
      <3> QED
        BY <1>2, <3>1, <3>5 DEF Open
    <2> QED
      BY <1>2, <2>1, <2>2, OwnStep DEF Working
  <1> QED
    BY <1>1, <1>2
(* Two calls about to send the same instruction would share its attempt.    *)
LEMMA OneSender ==
  ASSUME Typed, Locals, OneOpen, Shared, OwnOpen, NEW p \in Callers, NEW q \in Callers,
         At(p, "send"), At(q, "send"), caller[p].what = caller[q].what
  PROVE  p = q
  <1>1. /\ caller[p].pc \in Working /\ caller[p].mode = "live"
        /\ caller[q].pc \in Working /\ caller[q].mode = "live"
    BY DEF At, Working, LiveSteps, Locals, Local
  <1>2. PICK i \in Instructions : i = caller[p].what
    BY <1>1 DEF Locals, Local
  <1>3. /\ caller[p].number \in DOMAIN attempts[i] /\ caller[q].number \in DOMAIN attempts[i]
        /\ attempts[i][caller[p].number].status \in Open
        /\ attempts[i][caller[q].number].status \in Open
    BY <1>1, <1>2 DEF Locals, Local, OwnOpen, Mine
  <1>4. caller[p].number = caller[q].number
    BY <1>3 DEF OneOpen
  <1> QED
    BY <1>1, <1>2, <1>4 DEF Shared, Holds

(* What Send does to the history.                                           *)
LEMMA SentChanges ==
  ASSUME Typed, Locals, NEW p \in Callers, Step(p), NEW i \in Instructions
  PROVE  \/ sent'[i] = sent[i]
         \/ At(p, "send") /\ caller[p].what = i /\ Send(p) /\ sent'[i] = sent[i] + 1
  <1>1. sent \in [Instructions -> Nat] /\ sent[i] \in Nat
    BY DEF Typed
  <1>2. ASSUME Send(p)
        PROVE  \/ sent'[i] = sent[i]
               \/ At(p, "send") /\ caller[p].what = i /\ Send(p) /\ sent'[i] = sent[i] + 1
    BY <1>1, <1>2 DEF Send
  <1>3. ASSUME ~Send(p) PROVE sent' = sent
    BY <1>3 DEF Step, CheckReserve, Join, Read, Reserve, Claim, Activate, Finalize,
                Boundary, Commit, Doubt, Cancel, Fail, Crash
  <1> QED
    BY <1>2, <1>3

(* An instruction whose gates let a call through was never sent.            *)
LEMMA GatesKnow ==
  ASSUME Typed, Locals, OneOpen, OwnOpen, Recorded, NEW p \in Callers, At(p, "boundary"),
         MayExecute(caller[p].what)
  PROVE  sent[caller[p].what] = 0
  <1>1. caller[p].pc \in Working /\ caller[p].mode = "live"
    BY DEF At, Working, LiveSteps, Locals, Local
  <1>2. PICK i \in Instructions : i = caller[p].what
    BY <1>1 DEF Locals, Local
  <1>3. /\ caller[p].number \in DOMAIN attempts[i]
        /\ attempts[i][caller[p].number].status \in Open
    BY <1>1, <1>2 DEF Locals, Local, OwnOpen, Mine
  <1>4. sent[i] \in Nat
    BY DEF Typed
  <1>5. ASSUME sent[i] > 0 PROVE FALSE
    <2>1. PICK n \in DOMAIN attempts[i] : Witness(i, n)
      BY <1>5 DEF Recorded
    <2>2. attempts[i][n].status \in Open /\ \A q \in Callers : Holds(q, i, n) => caller[q].pc \in {"commit", "doubt"}
      BY <1>2, <2>1 DEF Witness, MayExecute, Tried
    <2>3. n = caller[p].number
      BY <1>3, <2>2 DEF OneOpen
    <2>4. Holds(p, i, n)
      BY <1>1, <1>2, <2>3 DEF Holds
    <2> QED
      BY <2>2, <2>4 DEF At
  <1> QED
    BY <1>2, <1>4, <1>5

(* A call comes to send through the gates at the boundary.                  *)
LEMMA ToSend ==
  ASSUME Typed, Locals, NEW p \in Callers, Step(p), caller'[p].pc = "send"
  PROVE  /\ At(p, "boundary") /\ MayExecute(caller[p].what) /\ sent' = sent
         /\ caller'[p].what = caller[p].what
  <1>0. caller \in [Callers -> CallerRecords] /\ caller[p] \in CallerRecords
    BY DEF Typed
  <1>1. ASSUME Done(p) PROVE FALSE
    BY <1>1, DoneFacts
  <1>2. ASSUME NEW s \in Steps \ {"send"}, Go(p, s) PROVE FALSE
    BY <1>2, GoFacts
  <1>3. ASSUME NEW a \in Allocations, CheckReserve(p, a) PROVE FALSE
    BY <1>0, <1>3 DEF CheckReserve, CallerRecords
  <1>4. ASSUME NEW i \in Instructions, Join(p, i) PROVE FALSE
    <2>1. PICK n \in DOMAIN attempts[i] :
            caller' = [caller EXCEPT ![p] = [Idle EXCEPT !.pc = "activate", !.what = i,
                                                         !.mode = "simulation", !.number = n]]
      BY <1>4 DEF Join
    <2> QED
      BY <1>0, <2>1 DEF Idle
  <1>5. ASSUME NEW i \in Instructions, NEW mode \in Modes, Read(p, i, mode) PROVE FALSE
    <2>1. caller' = [caller EXCEPT ![p] = [Idle EXCEPT !.pc = "claim", !.what = i, !.mode = mode,
                                                       !.number = Len(attempts[i]) + 1]]
      BY <1>5 DEF Read
    <2> QED
      BY <1>0, <2>1 DEF Idle
  <1>6. ASSUME Send(p) PROVE FALSE
    <2>1. PICK r \in Results, arrived \in BOOLEAN : Go(p, Verdict(r, arrived))
      BY <1>6 DEF Send
    <2>2. Verdict(r, arrived) \in {"commit", "doubt", "withdraw"}
      BY DEF Verdict, Results
    <2> QED
      BY <1>2, <2>1, <2>2 DEF Steps
  <1>7. ~Claim(p) /\ ~Activate(p) /\ ~Commit(p) /\ ~Fail(p)
    BY <1>1, <1>2 DEF Claim, Activate, Commit, Fail, Steps
  <1>8. ~Reserve(p) /\ ~Finalize(p) /\ ~Doubt(p) /\ ~Cancel(p) /\ ~Crash(p)
    BY <1>1 DEF Reserve, Finalize, Doubt, Cancel, Crash
  <1>9. Boundary(p)
    BY <1>3, <1>4, <1>5, <1>6, <1>7, <1>8, Zenon DEF Step
  <1>10. At(p, "boundary") /\ sent' = sent /\ (MayExecute(caller[p].what) /\ Go(p, "send"))
    BY <1>2, <1>9 DEF Boundary, Steps
  <1> QED
    BY <1>10, GoFacts

(* A call at send remains the only one, and the first.                      *)
LEMMA UnsentStep ==
  ASSUME Typed, Locals, OneOpen, Sending, NEW p \in Callers, Step(p)
  PROVE  Unsent'
  <1> USE DEF Sending
  <1> SUFFICES ASSUME NEW q \in Callers, caller'[q].pc = "send"
               PROVE  sent'[caller'[q].what] = 0
    BY DEF Unsent, At
  <1>1. CASE q # p
    <2>1. caller'[q] = caller[q]
      BY <1>1, OwnStep
    <2>2. PICK i \in Instructions : i = caller[q].what
      BY <2>1 DEF Locals, Local, Working
    <2>3. sent[i] = 0 /\ At(q, "send")
      BY <2>1, <2>2 DEF Unsent, At
    <2>4. ~(At(p, "send") /\ caller[p].what = i)
      BY <1>1, <2>2, <2>3, OneSender
    <2> QED
      BY <2>1, <2>2, <2>3, <2>4, SentChanges
  <1>2. CASE q = p
    BY <1>2, ToSend, GatesKnow
  <1> QED
    BY <1>1, <1>2

(* A send is the first of its instruction.                                  *)
LEMMA OnceStep ==
  ASSUME Typed, Locals, Sending, NEW p \in Callers, Step(p)
  PROVE  NotSentTwice'
  <1> SUFFICES ASSUME NEW i \in Instructions PROVE sent'[i] <= 1
    BY DEF NotSentTwice
  <1>1. At(p, "send") /\ caller[p].what = i => sent[i] = 0
    BY DEF Sending, Unsent
  <1>2. sent[i] <= 1
    BY DEF Sending, NotSentTwice
  <1> QED
    BY <1>1, <1>2, SentChanges
(* A call that commits or doubts leaves its attempt open and doubts it, or  *)
(* is gone, or puts on record that the lead was sent.                       *)
LEMMA InDoubt ==
  ASSUME Typed, Locals, NEW p \in Callers, Step(p), caller[p].pc \in {"commit", "doubt"}
  PROVE  \/ attempts' = attempts /\ caller'[p].pc \in {"doubt", "idle"}
         \/ \E s \in {"succeeded", "unknown_outcome"} :
              attempts' = Set(caller[p].what, caller[p].number, s)
  <1>1. ASSUME Commit(p)
        PROVE  \/ attempts' = attempts /\ Go(p, "doubt")
               \/ attempts' = Set(caller[p].what, caller[p].number, "succeeded")
    BY <1>1 DEF Commit
  <1>2. ASSUME Doubt(p)
        PROVE  \/ attempts' = attempts /\ Done(p)
               \/ attempts' = Set(caller[p].what, caller[p].number, "unknown_outcome")
    BY <1>2 DEF Doubt
  <1>3. ASSUME Fail(p) PROVE attempts' = attempts /\ Go(p, "doubt")
    BY <1>3 DEF Fail
  <1>4. ASSUME Crash(p) PROVE attempts' = attempts /\ Done(p)
    BY <1>4 DEF Crash
  <1>5. /\ \A a \in Allocations : ~CheckReserve(p, a)
        /\ \A i \in Instructions : ~Join(p, i) /\ \A mode \in Modes : ~Read(p, i, mode)
    BY DEF CheckReserve, Join, Read, At
  <1>6. /\ ~Reserve(p) /\ ~Claim(p) /\ ~Activate(p) /\ ~Finalize(p)
        /\ ~Boundary(p) /\ ~Send(p) /\ ~Cancel(p)
    BY DEF Reserve, Claim, Activate, Finalize, Boundary, Send, Cancel, At
  <1>7. Commit(p) \/ Doubt(p) \/ Fail(p) \/ Crash(p)
    BY <1>5, <1>6, Zenon DEF Step
  <1> QED
    BY <1>1, <1>2, <1>3, <1>4, <1>7, GoFacts, DoneFacts

(* What was on record, or pending, stays so.                                *)
LEMMA WitnessKept ==
  ASSUME Typed, Locals, Outcomes, NEW p \in Callers, Step(p),
         NEW i \in Instructions, NEW n \in DOMAIN attempts[i], Witness(i, n)
  PROVE  \E m \in DOMAIN attempts'[i] : Witness(i, m)'
  <1>0. attempts[i][n].mode = "live" /\ \A q \in Callers \ {p} : caller'[q] = caller[q]
    BY OwnStep DEF Witness
  <1>1. CASE attempts[i][n].status \in {"succeeded", "unknown_outcome"}
    <2>1. n \in DOMAIN attempts'[i] /\ attempts'[i][n] = attempts[i][n]
      BY <1>1, OutcomesKept DEF Outcomes, Ended
    <2> QED
      BY <1>0, <1>1, <2>1 DEF Witness
  <1>2. CASE /\ attempts[i][n].status \notin {"succeeded", "unknown_outcome"}
             /\ ~Holds(p, i, n)
    <2>1. n \in DOMAIN attempts'[i] /\ attempts'[i][n] = attempts[i][n]
      BY <1>2, OnlyOwn
    <2>2. ASSUME NEW q \in Callers, caller'[q].pc \in Working, caller'[q].what = i, caller'[q].number = n
          PROVE  caller'[q].pc \in {"commit", "doubt"}
      <3>1. caller'[q].mode = "live"
        BY <1>0, <2>1, <2>2, TypedStep DEF Locals, Local, Mine
      <3>2. n # Len(attempts[i]) + 1
        BY LenProperties DEF Typed
      <3>3. Holds(q, i, n)
        BY <2>2, <3>1, <3>2, Holding
      <3>4. q # p
        BY <1>2, <3>3
      <3> QED
        BY <1>0, <1>2, <3>3, <3>4 DEF Witness
    <2> QED
      BY <1>0, <1>2, <2>1, <2>2 DEF Witness, Holds
  <1>3. CASE /\ attempts[i][n].status \notin {"succeeded", "unknown_outcome"}
             /\ Holds(p, i, n)
    <2>1. caller[p].pc \in {"commit", "doubt"} /\ attempts[i][n].status \in Open
      BY <1>3 DEF Witness
    <2>2. CASE attempts' = attempts /\ caller'[p].pc \in {"doubt", "idle"}
      <3>1. ASSUME NEW q \in Callers, caller'[q].pc \in Working, caller'[q].what = i, caller'[q].number = n
            PROVE  caller'[q].pc \in {"commit", "doubt"}
        BY <1>0, <1>3, <2>2, <3>1 DEF Witness, Holds, Working
      <3> QED
        BY <1>0, <2>1, <2>2, <3>1 DEF Witness, Holds
    <2>3. ASSUME NEW s \in {"succeeded", "unknown_outcome"},
                 attempts' = Set(caller[p].what, caller[p].number, s)
          PROVE  \E m \in DOMAIN attempts'[i] : Witness(i, m)'
      <3>1. attempts' = Set(i, n, s)
        BY <1>3, <2>3 DEF Holds
      <3>2. /\ n \in DOMAIN attempts'[i] /\ attempts'[i][n].status = s
            /\ attempts'[i][n].mode = "live"
        BY <1>0, <3>1, SetFacts DEF Ended
      <3> QED
        BY <3>2 DEF Witness
    <2> QED
      BY <2>1, <2>2, <2>3, InDoubt
  <1> QED
    BY <1>1, <1>2, <1>3

(* What a step sends is pending under its attempt: the classifier of a tracked*)
(* call never takes it for a failure before the call.                       *)
LEMMA RecordedStep ==
  ASSUME Tracked, Typed, Locals, Outcomes, Sending, NEW p \in Callers, Step(p)
  PROVE  Recorded'
  <1> SUFFICES ASSUME NEW i \in Instructions, sent'[i] > 0
               PROVE  \E n \in DOMAIN attempts'[i] : Witness(i, n)'
    BY DEF Recorded
  <1>1. CASE sent[i] > 0
    <2>1. PICK n \in DOMAIN attempts[i] : Witness(i, n)
      BY <1>1 DEF Sending, Recorded
    <2> QED
      BY <2>1, WitnessKept
  <1>2. CASE ~(sent[i] > 0)
    <2>1. At(p, "send") /\ caller[p].what = i /\ Send(p) /\ sent'[i] = sent[i] + 1
      BY <1>2, SentChanges
    <2>2. caller[p].pc \in Working /\ caller[p].mode = "live"
      BY <2>1 DEF At, Working, LiveSteps, Locals, Local
    <2>3. PICK n \in DOMAIN attempts[i] : n = caller[p].number
      BY <2>1, <2>2 DEF Locals, Local
    <2>4. attempts[i][n].mode = "live" /\ attempts[i][n].status \in Open
      BY <2>1, <2>2, <2>3 DEF Locals, Local, Sending, OwnOpen, Mine
    <2>5. attempts' = attempts /\ \A q \in Callers \ {p} : caller'[q] = caller[q]
      BY <2>1, OwnStep DEF Send
    <2>6. PICK r \in Results, arrived \in BOOLEAN :
            /\ r = "before_call" => ~arrived
            /\ Go(p, Verdict(r, arrived))
            /\ sent' = IF arrived THEN [sent EXCEPT ![caller[p].what] = @ + 1] ELSE sent
      BY <2>1 DEF Send
    <2>7. arrived
      BY <1>2, <2>1, <2>6
    <2>8. Verdict(r, arrived) \in {"commit", "doubt"}
      BY <2>6, <2>7 DEF Verdict, Results
    <2>9. caller'[p].pc \in {"commit", "doubt"}
      BY <2>6, <2>8, GoFacts
    <2>10. ASSUME NEW q \in Callers, caller'[q].pc \in Working, caller'[q].what = i, caller'[q].number = n
           PROVE  caller'[q].pc \in {"commit", "doubt"}
      <3>1. CASE q = p
        BY <2>9, <3>1
      <3>2. CASE q # p
        BY <2>1, <2>2, <2>3, <2>5, <2>10, <3>2 DEF Sending, Shared, Holds
      <3> QED
        BY <3>1, <3>2
    <2> QED
      BY <2>4, <2>5, <2>10 DEF Witness, Holds
  <1> QED
    BY <1>1, <1>2

(* Nothing was sent at first.                                               *)
LEMMA SendingInit == Init => Sending
  BY DEF Init, Sending, Shared, OwnOpen, Unsent, Recorded, NotSentTwice, Holds, Working, At, Idle

(* A transaction aside changes no attempt and no call.                      *)
LEMMA SendingAside ==
  ASSUME Sending, UNCHANGED <<attempts, sent, caller>>
  PROVE  Sending'
  BY DEF Sending, Shared, OwnOpen, Unsent, Recorded, NotSentTwice, Witness, Holds, At, Mine

(* The invariant: types, locals, outcomes and sends.                        *)
Sent == Typed /\ Locals /\ Outcomes /\ Sending

(* It holds at first.                                                       *)
LEMMA SentInit == Init => Sent
  BY TypedInit, OutcomesInit, SendingInit DEF Sent

(* Every step preserves it.                                                 *)
LEMMA SentInductive ==
  ASSUME Tracked, Sent, [Next]_vars
  PROVE  Sent'
  <1> USE DEF Sent
  <1>1. ASSUME NEW p \in Callers, Step(p) PROVE Sent'
    <2>1. Typed' /\ Locals' /\ Outcomes'
      BY <1>1, TypedStep, OutcomesStep
    <2>2. Shared' /\ OwnOpen' /\ Unsent' /\ Recorded' /\ NotSentTwice'
      BY <1>1, SharedStep, OwnOpenStep, UnsentStep, RecordedStep, OnceStep DEF Sending, Outcomes
    <2> QED
      BY <2>1, <2>2 DEF Sending
  <1>2. CASE \/ \E a \in Allocations : SafeRelease(a) \/ Release(a)
             \/ \E o \in Managed : Pause(o) \/ Stop(o) \/ Resume(o)
    <2>1. /\ UNCHANGED <<instr, attempts, sent, caller>>
          /\ \/ alloc' = alloc
             \/ \E a \in Allocations :
                  alloc[a] \in Executable /\ alloc' = [alloc EXCEPT ![a] = "released"]
      BY <1>2 DEF SafeRelease, Release, MayRelease, Executable, Pause, Stop, Resume
    <2> QED
      BY <1>2, <2>1, TypedAside, OutcomesAside, SendingAside
  <1>3. CASE UNCHANGED vars
    <2>1. UNCHANGED <<instr, attempts, sent, caller>> /\ alloc' = alloc
      BY <1>3 DEF vars
    <2> QED
      BY <1>3, <2>1, TypedStutter, OutcomesAside, SendingAside
  <1> QED
    BY <1>1, <1>2, <1>3 DEF Next

(* NotSentTwice: when deliverLive reports the calls it started, no order of *)
(* claims, simulations, exceptions, failed commits and crashes sends an     *)
(* instruction to the buyer's CRM twice.                                    *)
THEOREM SentOnce == Tracked => (Spec => []NotSentTwice)
  <1> SUFFICES ASSUME Tracked PROVE Spec => []NotSentTwice
    OBVIOUS
  <1>1. Sent /\ [Next]_vars => Sent'
    BY SentInductive
  <1>2. Sent => NotSentTwice
    BY DEF Sent, Sending
  <1> QED
    BY <1>1, <1>2, SentInit, PTL DEF Spec

-----------------------------------------------------------------------------
(* One buyer of a source lead.                                              *)

(* With a second instruction, a release between the two would free a lead   *)
(* that was sent.                                                           *)
Simple == \A a \in Releasable : \A i, j \in InstructionsOf(a) : i = j

(* One active allocation of a source; it is active before the first attempt *)
(* and is released by operators only.                                       *)
Apart == \A a, b \in Allocations :
  SourceOf[a] = SourceOf[b] /\ alloc[a] \in Active /\ alloc[b] \in Active => a = b
Begun == \A i \in Instructions : alloc[For[i]] = "shadow" => DOMAIN attempts[i] = {}
Firm == \A a \in Allocations : alloc[a] = "released" => a \in Releasable

(* What may be released tells by its status whether its instruction is open *)
(* or delivered.                                                            *)
Busy == \A i \in Instructions :
  For[i] \in Releasable /\ Running(i) => alloc[For[i]] = "delivering"
Settled == \A i \in Instructions : \A n \in DOMAIN attempts[i] :
  For[i] \in Releasable /\ attempts[i][n].mode = "live" /\ attempts[i][n].status = "succeeded"
    => alloc[For[i]] = "committed"
Owned == \A i \in Instructions : sent[i] > 0 => alloc[For[i]] \in Active

Sold == Apart /\ Begun /\ Firm /\ Busy /\ Settled /\ Owned

(* What a step of a call does to an allocation.                             *)
LEMMA AllocMoves ==
  ASSUME Typed, NEW p \in Callers, Step(p), NEW a \in Allocations
  PROVE  \/ alloc'[a] = alloc[a]
         \/ alloc[a] \in Executable /\ alloc'[a] \in Active
         \/ Reserve(p) /\ a = caller[p].what /\ alloc'[a] = "reserved" /\ Free(a)
  <1> DEFINE Goal ==
         \/ alloc'[a] = alloc[a]
         \/ alloc[a] \in Executable /\ alloc'[a] \in Active
         \/ Reserve(p) /\ a = caller[p].what /\ alloc'[a] = "reserved" /\ Free(a)
  <1>0. alloc \in [Allocations -> AllocStatuses]
    BY DEF Typed
  <1>1. ASSUME Reserve(p) PROVE Goal
    BY <1>0, <1>1 DEF Reserve
  <1>2. ASSUME Claim(p) PROVE Goal
    BY <1>0, <1>2 DEF Claim, Executable, Active
  <1>3. ASSUME Finalize(p) PROVE Goal
    BY <1>0, <1>3 DEF Finalize, Back, Executable, Active
  <1>4. ASSUME Commit(p) PROVE Goal
    BY <1>0, <1>4 DEF Commit, Settles, Active
  <1>5. ASSUME Doubt(p) PROVE Goal
    BY <1>0, <1>5 DEF Doubt, Active
  <1>6. ASSUME Cancel(p) PROVE Goal
    BY <1>0, <1>6 DEF Cancel, Back, Executable, Active
  <1>7. ASSUME alloc' = alloc PROVE Goal
    BY <1>7
  <1>8. ASSUME \/ \E b \in Allocations : CheckReserve(p, b)
               \/ \E i \in Instructions : Join(p, i) \/ \E mode \in Modes : Read(p, i, mode)
               \/ Activate(p) \/ Boundary(p) \/ Send(p) \/ Fail(p) \/ Crash(p)
        PROVE  alloc' = alloc
    BY <1>8 DEF CheckReserve, Join, Read, Activate, Boundary, Send, Fail, Crash
  <1> HIDE DEF Goal
  <1>9. Goal
    BY <1>1, <1>2, <1>3, <1>4, <1>5, <1>6, <1>7, <1>8, Zenon DEF Step
  <1> QED
    BY <1>9 DEF Goal

(* The partial unique index.                                                *)
LEMMA ApartStep ==
  ASSUME Typed, Apart, NEW p \in Callers, Step(p)
  PROVE  Apart'
  <1> SUFFICES ASSUME NEW a \in Allocations, NEW b \in Allocations, SourceOf[a] = SourceOf[b],
                      alloc'[a] \in Active, alloc'[b] \in Active, a # b
               PROVE  FALSE
    BY DEF Apart
  <1>1. ASSUME NEW c \in Allocations, alloc'[c] \in Active
        PROVE  alloc[c] \in Active \/ (c = caller[p].what /\ Free(c))
    BY <1>1, AllocMoves DEF Executable, Active
  <1>2. ~(alloc[a] \in Active /\ alloc[b] \in Active)
    BY DEF Apart
  <1>3. CASE alloc[a] \in Active
    <2>1. Free(b)
      BY <1>1, <1>2, <1>3
    <2> QED
      BY <1>3, <2>1 DEF Free
  <1>4. CASE alloc[a] \notin Active
    <2>1. Free(a) /\ a = caller[p].what
      BY <1>1, <1>4
    <2>2. alloc[b] \in Active
      BY <1>1, <2>1
    <2> QED
      BY <2>1, <2>2 DEF Free
  <1> QED
    BY <1>3, <1>4

(* Attempts are claimed while the allocation is active.                     *)
LEMMA BegunStep ==
  ASSUME Typed, Locals, Outcomes, Begun, Firm, NEW p \in Callers, Step(p)
  PROVE  Begun' /\ Firm'
  <1>1. ASSUME NEW a \in Allocations, alloc'[a] \in {"shadow", "released"}
        PROVE  alloc[a] = alloc'[a]
    BY <1>1, AllocMoves DEF Active
  <1>2. Firm'
    BY <1>1 DEF Firm
  <1>3. ASSUME NEW i \in Instructions, alloc'[For[i]] = "shadow"
        PROVE  DOMAIN attempts'[i] = {}
    <2>1. alloc[For[i]] = "shadow" /\ DOMAIN attempts[i] = {}
      BY <1>1, <1>3 DEF Begun
    <2>2. ASSUME Quiet PROVE DOMAIN attempts'[i] = {}
      BY <2>1, <2>2 DEF Quiet
    <2>3. ASSUME NEW j \in Instructions, NEW m \in Modes, Claims(j, m)
          PROVE  DOMAIN attempts'[i] = {}
      <3>1. j # i
        BY <1>3, <2>3 DEF Claims, Typed
      <3>2. ASSUME NEW k \in DOMAIN attempts'[i] PROVE k \in DOMAIN attempts[i]
        BY <2>3, <3>1, <3>2, ClaimFacts
      <3> QED
        BY <2>1, <3>2
    <2>4. ASSUME NEW j \in Instructions, NEW m \in DOMAIN attempts[j], NEW s \in Open \cup Ended,
                 Rewrites(j, m, s)
          PROVE  DOMAIN attempts'[i] = {}
      BY <2>1, <2>4, RewriteFacts
    <2>5. ASSUME NEW j \in Instructions, NEW m \in DOMAIN attempts[j], Activates(j, m)
          PROVE  DOMAIN attempts'[i] = {}
      BY <2>4, <2>5 DEF Activates, Open
    <2>6. ASSUME NEW j \in Instructions, NEW m \in DOMAIN attempts[j],
                 NEW s \in Ended, NEW t \in Left, Ends(j, m, s, t)
          PROVE  DOMAIN attempts'[i] = {}
      BY <2>4, <2>6 DEF Ends
    <2> QED
      BY <2>2, <2>3, <2>5, <2>6, StepKinds DEF Outcomes
  <1> QED
    BY <1>2, <1>3 DEF Begun

(* The one instruction of what may be released keeps it delivering.         *)
LEMMA BusyStep ==
  ASSUME Simple, Typed, Locals, Outcomes, Busy, NEW p \in Callers, Step(p)
  PROVE  Busy'
  <1> SUFFICES ASSUME NEW i \in Instructions, For[i] \in Releasable,
                      NEW n \in DOMAIN attempts'[i], attempts'[i][n].status \in Open
               PROVE  alloc'[For[i]] = "delivering"
    BY DEF Busy, Running
  <1>0. For[i] \in Allocations /\ alloc \in [Allocations -> AllocStatuses]
    BY DEF Typed
  <1>r. n \in DOMAIN attempts[i] /\ attempts[i][n].status \in Open => alloc[For[i]] = "delivering"
    BY DEF Busy, Running
  <1>1. ASSUME Quiet PROVE alloc'[For[i]] = "delivering"
    BY <1>0, <1>1, <1>r DEF Quiet
  <1>2. ASSUME NEW j \in Instructions, NEW m \in Modes, Claims(j, m)
        PROVE  alloc'[For[i]] = "delivering"
    <2>1. alloc' = [alloc EXCEPT ![For[j]] = "delivering"]
      BY <1>2 DEF Claims
    <2>2. CASE j = i
      BY <1>0, <2>1, <2>2
    <2>3. CASE j # i
      <3>1. n \in DOMAIN attempts[i] /\ attempts'[i][n] = attempts[i][n]
        BY <1>2, <2>3, ClaimFacts
      <3> QED
        BY <1>0, <1>r, <2>1, <3>1
    <2> QED
      BY <2>2, <2>3
  <1>3. ASSUME NEW j \in Instructions, NEW m \in DOMAIN attempts[j], NEW s \in Open \cup Ended,
               Rewrites(j, m, s)
        PROVE  alloc[For[i]] = "delivering" /\ (s \in Ended => j # i)
    <2>1. n \in DOMAIN attempts[i] /\ attempts[j][m].status \in Open
      BY <1>3, RewriteFacts
    <2>2. attempts[i][n].status \in Open
      <3>1. CASE j # i \/ m # n
        BY <1>3, <2>1, <3>1, RewriteFacts
      <3>2. CASE j = i /\ m = n
        BY <2>1, <3>2
      <3> QED
        BY <3>1, <3>2
    <2>3. ASSUME s \in Ended, j = i PROVE FALSE
      <3>1. m = n
        BY <2>1, <2>2, <2>3 DEF Outcomes, OneOpen
      <3>2. attempts'[i][n].status = s
        BY <1>3, <2>3, <3>1, RewriteFacts
      <3> QED
        BY <2>3, <3>2 DEF Open, Ended
    <2> QED
      BY <1>r, <2>1, <2>2, <2>3
  <1>4. ASSUME NEW j \in Instructions, NEW m \in DOMAIN attempts[j], Activates(j, m)
        PROVE  alloc'[For[i]] = "delivering"
    BY <1>3, <1>4 DEF Activates, Open
  <1>5. ASSUME NEW j \in Instructions, NEW m \in DOMAIN attempts[j],
               NEW s \in Ended, NEW t \in Left, Ends(j, m, s, t)
        PROVE  alloc'[For[i]] = "delivering"
    <2>1. alloc[For[i]] = "delivering" /\ j # i
      BY <1>3, <1>5 DEF Ends
    <2>2. For[i] # For[j]
      BY <2>1 DEF Simple, InstructionsOf
    <2> QED
      BY <1>0, <1>5, <2>1, <2>2 DEF Ends
  <1> QED
    BY <1>1, <1>2, <1>4, <1>5, StepKinds DEF Outcomes

(* A live success of the one instruction commits the allocation.            *)
LEMMA SettledStep ==
  ASSUME Simple, Typed, Locals, Outcomes, Settled, NEW p \in Callers, Step(p)
  PROVE  Settled'
  <1> SUFFICES ASSUME NEW i \in Instructions, For[i] \in Releasable, NEW n \in DOMAIN attempts'[i],
                      attempts'[i][n].mode = "live", attempts'[i][n].status = "succeeded"
               PROVE  alloc'[For[i]] = "committed"
    BY DEF Settled
  <1>0. For[i] \in Allocations
    OBVIOUS
  <1>r. ASSUME n \in DOMAIN attempts[i], attempts[i][n] = attempts'[i][n]
        PROVE  alloc'[For[i]] = "committed"
    <2>1. alloc[For[i]] = "committed"
      BY <1>r DEF Settled
    <2> QED
      BY <1>0, <2>1, AllocEnds
  <1>1. ASSUME Quiet PROVE alloc'[For[i]] = "committed"
    BY <1>1, <1>r DEF Quiet
  <1>2. ASSUME NEW j \in Instructions, NEW m \in Modes, Claims(j, m)
        PROVE  alloc'[For[i]] = "committed"
    BY <1>2, <1>r, ClaimFacts
  <1>3. ASSUME NEW j \in Instructions, NEW m \in DOMAIN attempts[j], NEW s \in Open \cup Ended,
               Rewrites(j, m, s), ~(j = i /\ m = n /\ s = "succeeded" /\ attempts[i][n].mode = "live")
        PROVE  alloc'[For[i]] = "committed"
    <2>1. n \in DOMAIN attempts[i] /\ attempts[i][n].mode = "live"
      BY <1>3, RewriteFacts
    <2>2. j # i \/ m # n
      BY <1>3, <2>1, RewriteFacts
    <2> QED
      BY <1>3, <1>r, <2>1, <2>2, RewriteFacts
  <1>4. ASSUME NEW j \in Instructions, NEW m \in DOMAIN attempts[j], Activates(j, m)
        PROVE  alloc'[For[i]] = "committed"
    BY <1>3, <1>4 DEF Activates, Open
  <1>5. ASSUME NEW j \in Instructions, NEW m \in DOMAIN attempts[j],
               NEW s \in Ended, NEW t \in Left, Ends(j, m, s, t)
        PROVE  alloc'[For[i]] = "committed"
    <2>1. CASE j = i /\ m = n /\ s = "succeeded" /\ attempts[i][n].mode = "live"
      <3>1. Missing(i) = {}
        BY DEF Missing, Required, InstructionsOf, Simple
      <3> QED
        BY <1>5, <2>1, <3>1 DEF Ends
    <2>2. CASE ~(j = i /\ m = n /\ s = "succeeded" /\ attempts[i][n].mode = "live")
      BY <1>3, <1>5, <2>2 DEF Ends
    <2> QED
      BY <2>1, <2>2
  <1> QED
    BY <1>1, <1>2, <1>4, <1>5, StepKinds DEF Outcomes

(* What is sent belongs to an active allocation.                            *)
LEMMA OwnedStep ==
  ASSUME Typed, Locals, Sending, Sold, NEW p \in Callers, Step(p)
  PROVE  Owned'
  <1> SUFFICES ASSUME NEW i \in Instructions, sent'[i] > 0
               PROVE  alloc'[For[i]] \in Active
    BY DEF Owned
  <1>0. For[i] \in Allocations /\ alloc[For[i]] \in AllocStatuses /\ sent[i] \in Nat
    BY DEF Typed
  <1>1. alloc[For[i]] \in Active => alloc'[For[i]] \in Active
    BY <1>0, AllocMoves DEF Active
  <1>2. CASE sent[i] > 0
    BY <1>1, <1>2 DEF Sold, Owned
  <1>3. CASE ~(sent[i] > 0)
    <2>1. At(p, "send") /\ caller[p].what = i
      BY <1>3, SentChanges
    <2>2. caller[p].pc \in Working /\ caller[p].mode = "live"
      BY <2>1 DEF At, Working, LiveSteps, Locals, Local
    <2>3. PICK n \in DOMAIN attempts[i] : n = caller[p].number
      BY <2>1, <2>2 DEF Locals, Local
    <2>4. Running(i)
      BY <2>1, <2>2, <2>3 DEF Sending, OwnOpen, Mine, Running
    <2>5. alloc[For[i]] # "shadow"
      BY <2>3 DEF Sold, Begun
    <2>6. alloc[For[i]] # "released"
      BY <1>0, <2>4 DEF Sold, Firm, Busy
    <2> QED
      BY <1>0, <1>1, <2>5, <2>6 DEF AllocStatuses
  <1> QED
    BY <1>2, <1>3

(* An operator releases what is neither being delivered nor delivered.      *)
Releases(a) ==
  /\ a \in Releasable /\ alloc[a] \in Executable
  /\ \A i \in InstructionsOf(a) : ~Running(i)
  /\ alloc' = [alloc EXCEPT ![a] = "released"]

(* Such a release leaves what was sold alone.                               *)
LEMMA SoldReleases ==
  ASSUME Typed, Outcomes, Sending, Sold, NEW a \in Allocations, Releases(a),
         UNCHANGED <<attempts, sent>>
  PROVE  Sold'
  <1>0. /\ alloc \in [Allocations -> AllocStatuses] /\ alloc'[a] = "released"
        /\ \A b \in Allocations \ {a} : alloc'[b] = alloc[b]
        /\ alloc[a] \in Executable /\ a \in Releasable
    BY DEF Typed, Releases
  <1>1. Apart'
    BY <1>0 DEF Sold, Apart, Active
  <1>2. Begun' /\ Firm'
    BY <1>0 DEF Sold, Begun, Firm
  <1>3. ASSUME NEW i \in Instructions, For[i] = a PROVE ~Running(i)
    BY <1>3 DEF Releases, InstructionsOf
  <1>4. Busy'
    BY <1>0, <1>3 DEF Sold, Busy, Running
  <1>5. Settled'
    BY <1>0 DEF Sold, Settled, Executable
  <1>6. ASSUME NEW i \in Instructions, For[i] = a, sent[i] > 0 PROVE FALSE
    <2>1. PICK n \in DOMAIN attempts[i] : Witness(i, n)
      BY <1>6 DEF Sending, Recorded
    <2>2. attempts[i][n].status \notin Open
      BY <1>3, <1>6 DEF Running
    <2>3. CASE attempts[i][n].status = "succeeded"
      BY <1>0, <1>6, <2>1, <2>3 DEF Witness, Sold, Settled, Executable
    <2>4. CASE attempts[i][n].status = "unknown_outcome"
      BY <1>0, <1>6, <2>4 DEF Outcomes, UnknownIsHeld, Executable
    <2> QED
      BY <2>1, <2>2, <2>3, <2>4 DEF Witness
  <1>7. Owned'
    BY <1>0, <1>6 DEF Sold, Owned
  <1> QED
    BY <1>1, <1>2, <1>4, <1>5, <1>7 DEF Sold

(* What an administrator does to an order is of no concern here.            *)
LEMMA SoldSame ==
  ASSUME Sold, UNCHANGED <<alloc, attempts, sent>>
  PROVE  Sold'
  BY DEF Sold, Apart, Begun, Firm, Busy, Settled, Owned, Running

(* Nothing is reserved at first.                                            *)
LEMMA SoldInit == Init => Sold
  BY DEF Init, Sold, Apart, Begun, Firm, Busy, Settled, Owned, Running, Active

(* SoldOnce: under these conditions a lead that reached a buyer is never    *)
(* sent for another allocation, whatever operators release and reserve.     *)
THEOREM OneBuyer == Tracked /\ Simple => (Spec => []SoldOnce)
  <1> SUFFICES ASSUME Tracked, Simple PROVE Spec => []SoldOnce
    OBVIOUS
  <1> DEFINE Inv == Sent /\ Sold
  <1>1. Inv /\ [Next]_vars => Inv'
    <2> SUFFICES ASSUME Sent, Sold, [Next]_vars PROVE Sent' /\ Sold'
      OBVIOUS
    <2>0. Sent' /\ Typed /\ Locals /\ Outcomes /\ Sending
      BY SentInductive DEF Sent
    <2>1. ASSUME NEW p \in Callers, Step(p) PROVE Sold'
      BY <2>0, <2>1, ApartStep, BegunStep, BusyStep, SettledStep, OwnedStep DEF Sold
    <2>2. ASSUME NEW a \in Allocations, SafeRelease(a) \/ Release(a) PROVE Sold'
      <3>1. UNCHANGED <<attempts, sent>>
        BY <2>2 DEF SafeRelease, Release
      <3>2. ASSUME Release(a), NEW i \in InstructionsOf(a) PROVE ~Running(i)
        BY <3>2 DEF Release, MayRelease, InstructionsOf, Sold, Busy
      <3>3. Releases(a)
        BY <2>2, <3>2 DEF SafeRelease, Release, MayRelease, Executable, Releases
      <3> QED
        BY <2>0, <3>1, <3>3, SoldReleases
    <2>3. ASSUME NEW o \in Managed, Pause(o) \/ Stop(o) \/ Resume(o) PROVE Sold'
      BY <2>3, SoldSame DEF Pause, Stop, Resume
    <2>4. ASSUME UNCHANGED vars PROVE Sold'
      BY <2>4, SoldSame DEF vars
    <2>5. Sold'
      BY <2>1, <2>2, <2>3, <2>4, Zenon DEF Next
    <2> QED
      BY <2>0, <2>5
  <1>2. Inv => SoldOnce
    <2> SUFFICES ASSUME Sold, NEW i \in Instructions, NEW j \in Instructions,
                        sent[i] > 0, sent[j] > 0, SourceOf[For[i]] = SourceOf[For[j]]
                 PROVE  For[i] = For[j]
      BY DEF SoldOnce
    <2> QED
      BY DEF Sold, Owned, Apart
  <1>3. Init => Inv
    BY SentInit, SoldInit
  <1> HIDE DEF Inv
  <1> QED
    BY <1>1, <1>2, <1>3, PTL DEF Spec
=============================================================================
