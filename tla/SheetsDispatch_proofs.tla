------------------------ MODULE SheetsDispatch_proofs ------------------------
(***************************************************************************)
(* What holds of automatic dispatch for any intents, drains, limits, lease *)
(* and faults.                                                             *)
(***************************************************************************)
EXTENDS SheetsDispatch, WellFoundedInduction, TLAPS

Pcs == {"idle", "recover", "gate", "settled", "list", "loop", "enqueue", "mark", "execute",
        "running", "ended", "finish"}
NoWork == {"idle", "recover", "settled", "list", "loop"}
Seens == UNION {[S -> IntentStatuses] : S \in SUBSET Intents}

IntentRecords == [status : IntentStatuses, linked : BOOLEAN, age : Ages, wait : BOOLEAN]
JobRecords == [status : JobStatuses, owner : Drains \cup {None}, age : Ages,
               marker : BOOLEAN, written : BOOLEAN]
DrainRecords == [pc : Pcs, exec : BOOLEAN, intent : Intents \cup {None}, res : Results,
                 done : SUBSET Intents, seen : Seens, age : Ages]
RequestRecords == [pc : {"idle", "gate", "enqueue", "mark"}, intent : Intents \cup {None},
                   res : Results]

IntentsOK == intent \in [Intents -> IntentRecords]
JobsOK == job \in [Intents -> JobRecords]
DrainOK(x) == x \in DrainRecords /\ (x.intent = None <=> x.pc \in NoWork)
DrainsOK == drain \in [Drains -> DrainRecords] /\ \A d \in Drains : DrainOK(drain[d])
RequestOK == request \in RequestRecords /\ (request.pc # "idle" => request.intent \in Intents)
SettingsOK == /\ newest \in {"none", "campaign_lead", "aged_release"}
              /\ ready \subseteq Intents /\ flag \in BOOLEAN /\ calm \in BOOLEAN
Typed == IntentsOK /\ JobsOK /\ DrainsOK /\ RequestOK /\ SettingsOK

-----------------------------------------------------------------------------
(* The operators the actions are built from.                                *)

(* The oldest of some intents is one of them.                               *)
LEMMA OldestFacts ==
  ASSUME NEW S, S \subseteq Intents, S # {}
  PROVE  Oldest(S) \in S
  <1> DEFINE R == OpToRel(<, Nat)
  <1>1. IsWellFoundedOn(R, Nat)
    BY NatLessThanWellFounded
  <1>2. PICK i \in S : \A k \in S : ~(<<k, i>> \in R)
    BY <1>1, WFMin, IntentsAssumption
  <1>3. \A k \in S : i <= k
    <2> SUFFICES ASSUME NEW k \in S PROVE i <= k
      OBVIOUS
    <2>1. i \in Nat /\ k \in Nat
      BY IntentsAssumption
    <2>2. ~(k < i)
      BY <1>2, <2>1 DEF OpToRel
    <2> HIDE DEF R
    <2> QED
      BY <2>1, <2>2
  <1> QED
    BY <1>2, <1>3 DEF Oldest

(* The intent a drain takes next is one of those that are due.              *)
LEMMA FairFacts ==
  ASSUME NEW S, S \subseteq Intents, S # {}
  PROVE  Fair(S) \in S
  <1> DEFINE campaign == {i \in S : Campaign(i)}
             aged == S \ campaign
  <1>1. campaign # {} => Oldest(campaign) \in campaign
    BY OldestFacts
  <1>2. aged # {} => Oldest(aged) \in aged
    BY OldestFacts
  <1>3. campaign = {} => aged # {}
    OBVIOUS
  <1>4. Fair(S) = IF campaign = {} THEN Oldest(aged)
                  ELSE IF aged = {} THEN Oldest(campaign)
                  ELSE IF newest = "campaign_lead" THEN Oldest(aged) ELSE Oldest(campaign)
    BY DEF Fair
  <1> HIDE DEF campaign, aged
  <1>5. Fair(S) \in campaign \cup aged
    BY <1>1, <1>2, <1>3, <1>4
  <1> QED
    BY <1>5 DEF campaign, aged

(* An age stays within what is told apart.                                  *)
LEMMA AgesFacts == 0 \in Ages /\ \A a \in Ages : Older(a) \in Ages
  BY BoundsAssumption DEF Ages, Older

(* Settlement and parking keep the types of the rows.                       *)
LEMMA QuarantineTyped ==
  ASSUME IntentsOK, JobsOK
  PROVE  /\ QuarantinedJobs \in [Intents -> JobRecords]
         /\ QuarantinedIntents \in [Intents -> IntentRecords]
  <1>1. ASSUME NEW i \in Intents PROVE QuarantinedJobs[i] \in JobRecords
    <2>1. job[i] \in JobRecords
      BY DEF JobsOK
    <2> QED
      BY <2>1, AgesFacts DEF QuarantinedJobs, JobRecords, JobStatuses
  <1>2. ASSUME NEW i \in Intents PROVE QuarantinedIntents[i] \in IntentRecords
    <2>1. intent[i] \in IntentRecords
      BY DEF IntentsOK
    <2> QED
      BY <2>1 DEF QuarantinedIntents, IntentRecords, IntentStatuses
  <1> QED
    BY <1>1, <1>2 DEF QuarantinedJobs, QuarantinedIntents

(* Parking keeps the type of an intent.                                     *)
LEMMA ParkedTyped ==
  ASSUME NEW x \in IntentRecords, NEW j
  PROVE  Parked(x, j) \in IntentRecords
  BY DEF Parked, IntentRecords, IntentStatuses

(* Every status an intent is given is one of its statuses.                  *)
LEMMA StatusFacts ==
  ASSUME NEW i \in Intents
  PROVE  /\ \A gate \in GateAnswers(i) : NewStatus(i, gate) \in IntentStatuses
         /\ \A gate \in GateAnswers(i) : gate = "ok" \/ gate \in GateHolds
         /\ \A res, exec : Outcome(i, res, exec) \in IntentStatuses
         /\ \A res : Verdict(res) \in IntentStatuses
  BY DEF GateAnswers, NewStatus, IntentStatuses, Outcome, Verdict, GateHolds, SetupHold

(* The locals of a drain, or of a request, that is over.                    *)
LEMMA IdleTyped == DrainOK(Idle) /\ NoRequest \in RequestRecords
  <1>1. Idle.seen \in Seens
    BY DEF Idle, Seens
  <1> QED
    BY <1>1, AgesFacts DEF DrainOK, DrainRecords, Idle, Pcs, NoWork, Results, JobStatuses,
       NoRequest, RequestRecords

(* What a drain still has to look at.                                       *)
LEMMA SeenFacts ==
  ASSUME NEW seen \in Seens
  PROVE  /\ DOMAIN seen \subseteq Intents
         /\ \A i \in DOMAIN seen : seen[i] \in IntentStatuses
         /\ \A i : Rest(seen, i) \in Seens
  <1>1. PICK S \in SUBSET Intents : seen \in [S -> IntentStatuses]
    BY DEF Seens
  <1>2. ASSUME NEW i PROVE Rest(seen, i) \in [S \ {i} -> IntentStatuses]
    BY <1>1 DEF Rest
  <1> QED
    BY <1>1, <1>2 DEF Seens

(* A list of due intents with the status each has now.                      *)
LEMMA ListedFacts ==
  ASSUME IntentsOK, NEW S \in SUBSET Intents
  PROVE  [i \in S |-> intent[i].status] \in Seens
  <1>1. [i \in S |-> intent[i].status] \in [S -> IntentStatuses]
    BY DEF IntentsOK, IntentRecords
  <1> QED
    BY <1>1 DEF Seens

(* A hold is promoted or stays one.                                         *)
LEMMA PromoteTyped ==
  ASSUME IntentsOK, NEW i \in Intents, NEW gate \in GateAnswers(i), Promote(i, gate)
  PROVE  IntentsOK'
  <1>1. intent[i] \in IntentRecords /\ (gate = "ok" \/ gate \in GateHolds)
    BY StatusFacts DEF IntentsOK
  <1>2. [intent[i] EXCEPT !.status = IF gate = "ok" THEN "pending" ELSE gate,
                          !.wait = CASE gate = "ok" -> FALSE
                                     [] gate \in DrainRecovers -> TRUE
                                     [] OTHER -> @] \in IntentRecords
    BY <1>1 DEF IntentRecords, IntentStatuses
  <1> QED
    BY <1>2 DEF Promote, IntentsOK

-----------------------------------------------------------------------------
(* One drain goes on with locals x.                                         *)
Moves(d, x) == drain' = [drain EXCEPT ![d] = x]

(* A drain that moves on to locals of their type.                           *)
LEMMA MovesTyped ==
  ASSUME DrainsOK, NEW d \in Drains, NEW x, DrainOK(x), Moves(d, x)
  PROVE  DrainsOK'
  BY DEF DrainsOK, DrainOK, Moves

(* The holds a drain starts with are read and written one by one.           *)
LEMMA RecoveryTyped ==
  ASSUME Typed, NEW d \in Drains, Start(d) \/ RecoverRead(d) \/ RecoverWrite(d) \/ BeginClaims(d)
  PROVE  Typed'
  <1> DEFINE y == drain[d]
  <1>1. y \in DrainRecords /\ DrainOK(y) /\ y.seen \in Seens
    BY DEF Typed, DrainsOK, DrainRecords
  <1>2. CASE Start(d)
    <2> DEFINE holds == {i \in Intents : intent[i].status \in DrainRecovers /\ ~intent[i].wait}
               f == [i \in holds |-> intent[i].status]
               x == [y EXCEPT !.pc = "recover", !.seen = f]
    <2>1. f \in Seens
      BY ListedFacts DEF Typed
    <2>2. Moves(d, x) /\ y.pc = "idle"
      BY <1>2 DEF Start, Moves, At
    <2> HIDE DEF f
    <2>3. DrainOK(x)
      BY <1>1, <2>1, <2>2 DEF DrainOK, DrainRecords, Pcs, NoWork
    <2> HIDE DEF x
    <2>4. DrainsOK'
      BY <2>2, <2>3, MovesTyped DEF Typed
    <2> QED
      BY <1>2, <2>4 DEF Typed, Start, IntentsOK, JobsOK, RequestOK, SettingsOK
  <1>3. CASE RecoverRead(d)
    <2> DEFINE i == Oldest(DOMAIN y.seen)
               hold == intent[i].status \in DrainRecovers
               pc == IF hold THEN "gate" ELSE y.pc
               who == IF hold THEN i ELSE None
               x == [y EXCEPT !.seen = Rest(@, i), !.pc = pc, !.intent = who]
    <2>1. y.pc = "recover" /\ Moves(d, x)
      BY <1>3 DEF RecoverRead, Moves, At
    <2>2. i \in Intents
      BY <1>1, <1>3, SeenFacts, OldestFacts DEF RecoverRead
    <2>3. Rest(y.seen, i) \in Seens
      BY <1>1, SeenFacts
    <2> HIDE DEF i
    <2>4. DrainOK(x)
      BY <1>1, <2>1, <2>2, <2>3, NoneAssumption DEF DrainOK, DrainRecords, Pcs, NoWork
    <2> HIDE DEF x
    <2>5. DrainsOK'
      BY <2>1, <2>4, MovesTyped DEF Typed
    <2> QED
      BY <1>3, <2>5 DEF Typed, RecoverRead, IntentsOK, JobsOK, RequestOK, SettingsOK
  <1>4. CASE RecoverWrite(d)
    <2> DEFINE i == y.intent
               x == [y EXCEPT !.pc = "recover", !.intent = None]
    <2>1. y.pc = "gate" /\ Moves(d, x)
      BY <1>4 DEF RecoverWrite, Moves, At
    <2>2. DrainOK(x) /\ i \in Intents
      BY <1>1, <2>1 DEF DrainOK, DrainRecords, Pcs, NoWork
    <2>3. PICK gate \in GateAnswers(i) : Promote(i, gate)
      BY <1>4 DEF RecoverWrite
    <2> HIDE DEF x, i
    <2>4. IntentsOK'
      BY <2>2, <2>3, PromoteTyped DEF Typed
    <2>5. DrainsOK'
      BY <2>1, <2>2, MovesTyped DEF Typed
    <2> QED
      BY <1>4, <2>4, <2>5 DEF Typed, RecoverWrite, JobsOK, RequestOK, SettingsOK
  <1>5. CASE BeginClaims(d)
    <2>1. IntentsOK' /\ JobsOK'
      BY <1>5, QuarantineTyped DEF BeginClaims, Typed, IntentsOK, JobsOK
    <2> DEFINE x == IF flag THEN [y EXCEPT !.pc = "loop", !.exec = TRUE, !.age = 0]
                    ELSE [y EXCEPT !.pc = "settled"]
    <2>2. y.pc = "recover" /\ Moves(d, x)
      BY <1>5 DEF BeginClaims, Moves, At
    <2>3. DrainOK(x)
      BY <1>1, <2>2, AgesFacts DEF DrainOK, DrainRecords, Pcs, NoWork
    <2> HIDE DEF x
    <2>4. DrainsOK'
      BY <2>2, <2>3, MovesTyped DEF Typed
    <2> QED
      BY <1>5, <2>1, <2>4 DEF Typed, BeginClaims, RequestOK, SettingsOK
  <1> QED
    BY <1>2, <1>3, <1>4, <1>5

(* A drain takes an intent in hand.                                         *)
LEMMA HandleTyped ==
  ASSUME DrainsOK, NEW d \in Drains, NEW i \in Intents, Handle(d, i)
  PROVE  DrainsOK'
  <1> DEFINE y == drain[d]
             seen == IF y.exec THEN y.seen ELSE Rest(y.seen, i)
             done == IF y.exec THEN y.done \cup {i} ELSE y.done
             x == [y EXCEPT !.pc = "enqueue", !.intent = i, !.res = "none", !.seen = seen,
                            !.done = done]
  <1>1. y \in DrainRecords /\ y.seen \in Seens /\ y.done \subseteq Intents
    BY DEF DrainsOK, DrainRecords
  <1>2. seen \in Seens /\ done \subseteq Intents
    BY <1>1, SeenFacts
  <1>3. Moves(d, x)
    BY DEF Handle, Moves
  <1> HIDE DEF seen, done
  <1>4. DrainOK(x)
    BY <1>1, <1>2, NoneAssumption DEF DrainOK, DrainRecords, Pcs, NoWork, Results, JobStatuses
  <1> HIDE DEF x
  <1> QED
    BY <1>3, <1>4, MovesTyped

(* What claiming an intent leaves of its row.                               *)
LEMMA ClaimedTyped ==
  ASSUME NEW x \in IntentRecords
  PROVE  Claimed(x) \in IntentRecords
  BY AgesFacts DEF Claimed, IntentRecords, IntentStatuses

(* A drain ends.                                                            *)
LEMMA IdleAgainTyped ==
  ASSUME DrainsOK, NEW d \in Drains, drain' = [drain EXCEPT ![d] = Idle]
  PROVE  DrainsOK'
  BY IdleTyped, MovesTyped DEF Moves

(* The claims of a drain, and its end.                                      *)
LEMMA ClaimsTyped ==
  ASSUME Typed, NEW d \in Drains,
         List(d) \/ ClaimListed(d) \/ Claim(d) \/ Stop(d) \/ Die(d)
  PROVE  Typed'
  <1> DEFINE y == drain[d]
  <1>1. y \in DrainRecords /\ DrainOK(y) /\ y.seen \in Seens
    BY DEF Typed, DrainsOK, DrainRecords
  <1>2. CASE List(d)
    <2> DEFINE due == {i \in Intents : Due(i, intent[i]) \/ StaleClaim(i)}
               listed == {i \in due : Cardinality({k \in due : k < i}) < Limit}
               f == [i \in listed |-> intent[i].status]
               x == [y EXCEPT !.pc = "list", !.seen = f]
    <2>1. f \in Seens
      BY ListedFacts DEF Typed
    <2>2. Moves(d, x) /\ y.pc = "settled"
      BY <1>2 DEF List, Moves, At
    <2> HIDE DEF f
    <2>3. DrainOK(x)
      BY <1>1, <2>1, <2>2 DEF DrainOK, DrainRecords, Pcs, NoWork
    <2> HIDE DEF x
    <2>4. DrainsOK'
      BY <2>2, <2>3, MovesTyped DEF Typed
    <2> QED
      BY <1>2, <2>4 DEF Typed, List, IntentsOK, JobsOK, RequestOK, SettingsOK
  <1>3. CASE ClaimListed(d)
    <2> DEFINE i == Oldest(DOMAIN y.seen)
               x == [y EXCEPT !.seen = Rest(@, i)]
    <2>1. i \in Intents /\ Rest(y.seen, i) \in Seens
      BY <1>1, <1>3, SeenFacts, OldestFacts DEF ClaimListed
    <2>2. \/ intent' = [intent EXCEPT ![i] = Claimed(@)] /\ Handle(d, i)
          \/ UNCHANGED intent /\ Moves(d, x)
      BY <1>3 DEF ClaimListed, Moves
    <2> HIDE DEF i
    <2>3. DrainOK(x)
      BY <1>1, <2>1 DEF DrainOK, DrainRecords
    <2> HIDE DEF x
    <2>4. DrainsOK'
      BY <2>1, <2>2, <2>3, MovesTyped, HandleTyped DEF Typed
    <2>5. IntentsOK'
      BY <2>1, <2>2, ClaimedTyped DEF Typed, IntentsOK
    <2> QED
      BY <1>3, <2>4, <2>5 DEF Typed, ClaimListed, JobsOK, RequestOK, SettingsOK
  <1>4. CASE Claim(d)
    <2> DEFINE parked == [i \in Intents |-> Parked(QuarantinedIntents[i], QuarantinedJobs[i])]
               due == {i \in Intents \ y.done : Due(i, parked[i])}
    <2>1. /\ QuarantinedJobs \in [Intents -> JobRecords]
          /\ QuarantinedIntents \in [Intents -> IntentRecords]
      BY QuarantineTyped DEF Typed
    <2>2. parked \in [Intents -> IntentRecords]
      BY <2>1, ParkedTyped
    <2>3. due # {} => Fair(due) \in Intents
      BY FairFacts
    <2>4. /\ job' = QuarantinedJobs
          /\ \/ intent' = QuarantinedIntents /\ drain' = [drain EXCEPT ![d] = Idle]
             \/ intent' = parked /\ drain' = [drain EXCEPT ![d] = Idle]
             \/ /\ due # {} /\ intent' = [parked EXCEPT ![Fair(due)] = Claimed(@)]
                /\ Handle(d, Fair(due))
      BY <1>4 DEF Claim
    <2> HIDE DEF parked, due
    <2>5. IntentsOK' /\ JobsOK'
      BY <2>1, <2>2, <2>3, <2>4, ClaimedTyped DEF IntentsOK, JobsOK
    <2>6. DrainsOK'
      BY <2>3, <2>4, IdleAgainTyped, HandleTyped DEF Typed
    <2> QED
      BY <1>4, <2>5, <2>6 DEF Typed, Claim, RequestOK, SettingsOK
  <1>5. CASE Stop(d) \/ Die(d)
    <2>1. DrainsOK'
      BY <1>5, IdleAgainTyped DEF Stop, Die, Typed
    <2> QED
      BY <1>5, <2>1 DEF Typed, Stop, Die, IntentsOK, JobsOK, RequestOK, SettingsOK
  <1> QED
    BY <1>2, <1>3, <1>4, <1>5

(* An enqueue creates a job at most.                                        *)
LEMMA EnqueueTyped ==
  ASSUME JobsOK, SettingsOK, NEW i \in Intents, NEW res, Enqueue(i, res)
  PROVE  JobsOK' /\ newest' \in {"none", "campaign_lead", "aged_release"}
  <1>1. job[i] \in JobRecords
    BY DEF JobsOK
  <1>2. [job[i] EXCEPT !.status = "queued"] \in JobRecords
    BY <1>1 DEF JobRecords, JobStatuses
  <1>3. UNCHANGED <<job, newest>> \/ (job' = [job EXCEPT ![i].status = "queued"] /\ newest' = Kind[i])
    BY DEF Enqueue
  <1> QED
    BY <1>2, <1>3, KindAssumption DEF JobsOK, SettingsOK

(* An intent in hand is handed on: the enqueue, its outcome, the execution. *)
LEMMA HandTyped ==
  ASSUME Typed, NEW d \in Drains, EnqueueIntent(d) \/ Mark(d)
  PROVE  Typed'
  <1> DEFINE y == drain[d]
             i == y.intent
  <1>1. y \in DrainRecords /\ DrainOK(y) /\ y.pc \in {"enqueue", "mark"} /\ i \in Intents
    BY DEF Typed, DrainsOK, DrainRecords, DrainOK, NoWork, EnqueueIntent, Mark, At
  <1>2. CASE EnqueueIntent(d)
    <2>1. PICK res \in Results : /\ Enqueue(i, res)
                                 /\ drain' = [drain EXCEPT ![d].pc = "mark", ![d].res = res]
      BY <1>2 DEF EnqueueIntent
    <2> DEFINE x == [y EXCEPT !.pc = "mark", !.res = res]
    <2>2. Moves(d, x)
      BY <2>1 DEF Moves
    <2>3. DrainOK(x)
      BY <1>1 DEF DrainOK, DrainRecords, Pcs, NoWork
    <2> HIDE DEF x
    <2>4. DrainsOK' /\ JobsOK' /\ newest' \in {"none", "campaign_lead", "aged_release"}
      BY <1>1, <2>1, <2>2, <2>3, MovesTyped, EnqueueTyped DEF Typed
    <2> QED
      BY <1>2, <2>4 DEF Typed, EnqueueIntent, IntentsOK, RequestOK, SettingsOK
  <1>3. CASE Mark(d)
    <2> DEFINE status == Outcome(i, y.res, y.exec)
               linked == intent[i].linked \/ y.res \in JobStatuses
               wait == intent[i].wait \/ status = "retryable"
               z == [intent[i] EXCEPT !.status = status, !.linked = linked, !.wait = wait]
               x == IF status = "processing" THEN [y EXCEPT !.pc = "execute"]
                    ELSE [y EXCEPT !.pc = NextPc(d), !.intent = None, !.res = "none"]
    <2>1. status \in IntentStatuses /\ NextPc(d) \in {"loop", "list"}
      BY <1>1, StatusFacts DEF NextPc
    <2>2. intent' = [intent EXCEPT ![i] = z] /\ Moves(d, x)
      BY <1>3 DEF Mark, Moves
    <2> HIDE DEF status, linked, wait
    <2>3. intent[i] \in IntentRecords /\ linked \in BOOLEAN /\ wait \in BOOLEAN
      BY <1>1 DEF linked, wait, Typed, IntentsOK
    <2>4. z \in IntentRecords
      BY <2>1, <2>3 DEF IntentRecords
    <2>5. DrainOK(x)
      BY <1>1, <2>1 DEF DrainOK, DrainRecords, Pcs, NoWork, Results, JobStatuses
    <2> HIDE DEF x, z
    <2>6. DrainsOK' /\ IntentsOK'
      BY <1>1, <2>2, <2>4, <2>5, MovesTyped DEF Typed, IntentsOK
    <2> QED
      BY <1>3, <2>6 DEF Typed, Mark, JobsOK, RequestOK, SettingsOK
  <1> QED
    BY <1>2, <1>3

(* The execution of a job, and its outcome.                                 *)
LEMMA AnswerTyped ==
  ASSUME DrainsOK, NEW d \in Drains, drain[d].pc \notin NoWork, NEW res \in Results,
         Answer(d, res)
  PROVE  DrainsOK'
  <1> DEFINE x == [drain[d] EXCEPT !.pc = "finish", !.res = res]
  <1>1. Moves(d, x)
    BY DEF Answer, Moves
  <1>2. DrainOK(x)
    BY DEF DrainsOK, DrainOK, DrainRecords, Pcs, NoWork
  <1> HIDE DEF x
  <1> QED
    BY <1>1, <1>2, MovesTyped

(* The execution of a job keeps every type.                                 *)
LEMMA ExecutionTyped ==
  ASSUME Typed, NEW d \in Drains,
         Begin(d) \/ StartAppend(d) \/ EndRun(d) \/ Return(d) \/ Finish(d)
  PROVE  Typed'
  <1> DEFINE y == drain[d]
             i == y.intent
  <1>1. /\ y \in DrainRecords /\ DrainOK(y) /\ y.pc \in {"execute", "running", "ended", "finish"}
        /\ i \in Intents /\ y.pc \notin NoWork
    BY DEF Typed, DrainsOK, DrainRecords, DrainOK, NoWork, Begin, StartAppend, EndRun, Return,
           Finish, At
  <1>2. job[i] \in JobRecords /\ intent[i] \in IntentRecords
    BY <1>1 DEF Typed, JobsOK, IntentsOK
  <1>3. CASE Begin(d)
    <2> DEFINE x == [y EXCEPT !.pc = "running"]
               j == [job[i] EXCEPT !.status = "running", !.owner = d, !.age = 0]
    <2>1. \/ job' = [job EXCEPT ![i] = j] /\ Moves(d, x) /\ UNCHANGED intent
          \/ /\ job' = [job EXCEPT ![i] = QuarantinedJobs[i]]
             /\ intent' = [intent EXCEPT ![i] = QuarantinedIntents[i]]
             /\ \E res \in Results : Answer(d, res)
          \/ /\ \E res \in Results : Answer(d, res)
             /\ UNCHANGED <<intent, job>>
      <3>1. {"uncertain", "lost", "succeeded", "busy"} \subseteq Results
        BY DEF Results, JobStatuses
      <3> QED
        BY <1>3, <3>1 DEF Begin, Moves
    <2>2. j \in JobRecords
      BY <1>2, AgesFacts DEF JobRecords, JobStatuses
    <2>3. DrainOK(x)
      BY <1>1 DEF DrainOK, DrainRecords, Pcs, NoWork
    <2> HIDE DEF x, j
    <2>4. DrainsOK'
      BY <1>1, <2>1, <2>3, MovesTyped, AnswerTyped DEF Typed
    <2>5. JobsOK' /\ IntentsOK'
      BY <1>1, <2>1, <2>2, QuarantineTyped DEF Typed, JobsOK, IntentsOK
    <2> QED
      BY <1>3, <2>4, <2>5 DEF Typed, Begin, RequestOK, SettingsOK
  <1>4. CASE StartAppend(d)
    <2> DEFINE j == [job[i] EXCEPT !.marker = TRUE]
    <2>1. \/ job' = [job EXCEPT ![i] = j] /\ UNCHANGED drain
          \/ Answer(d, "lost") /\ UNCHANGED job
      BY <1>4 DEF StartAppend
    <2>2. j \in JobRecords
      BY <1>2 DEF JobRecords
    <2> HIDE DEF j
    <2>3. DrainsOK'
      BY <1>1, <2>1, AnswerTyped DEF Typed, DrainsOK, Results
    <2>4. JobsOK'
      BY <1>1, <2>1, <2>2 DEF Typed, JobsOK
    <2> QED
      BY <1>4, <2>3, <2>4 DEF Typed, StartAppend, IntentsOK, RequestOK, SettingsOK
  <1>5. CASE EndRun(d)
    <2>1. PICK s \in RunEnds(i), all \in BOOLEAN :
            /\ job' = [job EXCEPT ![i].status = s, ![i].marker = @ /\ s = "uncertain",
                                  ![i].written = all]
            /\ drain' = [drain EXCEPT ![d].pc = "ended", ![d].res = s]
      BY <1>5 DEF EndRun
    <2> DEFINE marker == job[i].marker /\ s = "uncertain"
               j == [job[i] EXCEPT !.status = s, !.marker = marker, !.written = all]
               x == [y EXCEPT !.pc = "ended", !.res = s]
    <2>2. s \in JobStatuses /\ s \in Results /\ marker \in BOOLEAN
      BY DEF RunEnds, JobStatuses, Results
    <2>3. job' = [job EXCEPT ![i] = j] /\ Moves(d, x)
      BY <2>1 DEF Moves
    <2> HIDE DEF marker
    <2>4. j \in JobRecords /\ DrainOK(x)
      BY <1>1, <1>2, <2>2 DEF JobRecords, DrainOK, DrainRecords, Pcs, NoWork
    <2> HIDE DEF j, x
    <2>5. JobsOK' /\ DrainsOK'
      BY <1>1, <2>3, <2>4, MovesTyped DEF Typed, JobsOK
    <2> QED
      BY <1>5, <2>5 DEF Typed, EndRun, IntentsOK, RequestOK, SettingsOK
  <1>6. CASE Return(d)
    <2> DEFINE j == [job[i] EXCEPT !.status = "uncertain"]
    <2>1. /\ \E res \in Results : Answer(d, res)
          /\ UNCHANGED job \/ job' = [job EXCEPT ![i] = j]
      <3>1. y.res \in Results /\ {"uncertain", "lost", "busy", "retryable"} \subseteq Results
        BY <1>1 DEF Results, JobStatuses, DrainRecords
      <3> QED
        BY <1>6, <3>1 DEF Return
    <2>2. j \in JobRecords
      BY <1>2 DEF JobRecords, JobStatuses
    <2> HIDE DEF j
    <2>3. JobsOK' /\ DrainsOK'
      BY <1>1, <2>1, <2>2, AnswerTyped DEF Typed, JobsOK
    <2> QED
      BY <1>6, <2>3 DEF Typed, Return, IntentsOK, RequestOK, SettingsOK
  <1>7. CASE Finish(d)
    <2> DEFINE status == Verdict(y.res)
               wait == intent[i].wait \/ Verdict(y.res) # "completed"
               z == [intent[i] EXCEPT !.status = status, !.wait = wait]
               x == [y EXCEPT !.pc = "loop", !.intent = None, !.res = "none"]
    <2>1. /\ intent' = intent \/ intent' = [intent EXCEPT ![i] = z]
          /\ Moves(d, x)
      BY <1>7 DEF Finish, Moves
    <2>2. status \in IntentStatuses /\ wait \in BOOLEAN
      BY <1>1, StatusFacts
    <2> HIDE DEF status, wait
    <2>3. z \in IntentRecords /\ DrainOK(x)
      BY <1>1, <1>2, <2>2 DEF IntentRecords, DrainOK, DrainRecords, Pcs, NoWork, Results, JobStatuses
    <2> HIDE DEF z, x
    <2>4. IntentsOK' /\ DrainsOK'
      BY <1>1, <2>1, <2>3, MovesTyped DEF Typed, IntentsOK
    <2> QED
      BY <1>7, <2>4 DEF Typed, Finish, JobsOK, RequestOK, SettingsOK
  <1> QED
    BY <1>3, <1>4, <1>5, <1>6, <1>7

(* Intake, releases of holds, and the operator's requests.                  *)
LEMMA OperatorTyped ==
  ASSUME Typed, NEW i \in Intents,
         Record(i) \/ BindTab(i) \/ RequestRecovery(i) \/ Schedule(i) \/ Release(i)
  PROVE  Typed'
  <1>1. job[i] \in JobRecords /\ intent[i] \in IntentRecords
    BY DEF Typed, JobsOK, IntentsOK
  <1>2. CASE Record(i)
    <2>1. PICK gate \in GateAnswers(i) : intent' = [intent EXCEPT ![i].status = NewStatus(i, gate)]
      BY <1>2 DEF Record
    <2>2. NewStatus(i, gate) \in IntentStatuses
      BY StatusFacts
    <2>3. [intent[i] EXCEPT !.status = NewStatus(i, gate)] \in IntentRecords
      BY <1>1, <2>2 DEF IntentRecords
    <2> QED
      BY <1>2, <2>1, <2>3 DEF Typed, Record, IntentsOK, JobsOK, DrainsOK, RequestOK, SettingsOK
  <1>3. CASE BindTab(i)
    BY <1>3 DEF Typed, BindTab, IntentsOK, JobsOK, DrainsOK, RequestOK, SettingsOK
  <1>4. CASE RequestRecovery(i)
    <2>1. RequestOK'
      BY <1>4 DEF RequestRecovery, RequestOK, RequestRecords, Results, JobStatuses
    <2> QED
      BY <1>4, <2>1 DEF Typed, RequestRecovery, IntentsOK, JobsOK, DrainsOK, SettingsOK
  <1>5. CASE Schedule(i)
    <2>1. RequestOK'
      BY <1>5 DEF Schedule, RequestOK, RequestRecords, Results, JobStatuses
    <2>2. [intent[i] EXCEPT !.status = "pending", !.wait = FALSE] \in IntentRecords
      BY <1>1 DEF IntentRecords, IntentStatuses
    <2> QED
      BY <1>5, <2>1, <2>2 DEF Typed, Schedule, IntentsOK, JobsOK, DrainsOK, SettingsOK
  <1>6. CASE Release(i)
    <2>1. PICK s \in {"succeeded", "retryable"} :
            job' = [job EXCEPT ![i].status = s, ![i].marker = FALSE, ![i].written = s = "succeeded"]
      BY <1>6 DEF Release
    <2> DEFINE written == s = "succeeded"
               j == [job[i] EXCEPT !.status = s, !.marker = FALSE, !.written = written]
    <2>2. job' = [job EXCEPT ![i] = j] /\ written \in BOOLEAN
      BY <2>1
    <2> HIDE DEF written
    <2>3. j \in JobRecords
      BY <1>1, <2>2 DEF JobRecords, JobStatuses
    <2> QED
      BY <1>6, <2>2, <2>3 DEF Typed, Release, IntentsOK, JobsOK, DrainsOK, RequestOK, SettingsOK
  <1> QED
    BY <1>2, <1>3, <1>4, <1>5, <1>6

(* The steps of a request, and the environment's.                           *)
LEMMA RequestTyped ==
  ASSUME Typed, RequestStep
  PROVE  Typed'
  <1> DEFINE i == request.intent
  <1>1. request \in RequestRecords /\ i \in Intents /\ NoRequest \in RequestRecords
    BY IdleTyped DEF Typed, RequestOK, RequestStep, RequestPromote, ScheduleEnqueue, ScheduleMark
  <1>2. CASE RequestPromote
    <2>1. IntentsOK'
      BY <1>1, <1>2, PromoteTyped DEF RequestPromote, Typed
    <2> QED
      BY <1>1, <1>2, <2>1 DEF Typed, RequestPromote, JobsOK, DrainsOK, RequestOK, SettingsOK, NoRequest
  <1>3. CASE ScheduleEnqueue
    <2>1. PICK res \in Results : /\ Enqueue(i, res)
                                 /\ request' = [request EXCEPT !.pc = "mark", !.res = res]
      BY <1>3 DEF ScheduleEnqueue
    <2>2. JobsOK' /\ newest' \in {"none", "campaign_lead", "aged_release"}
      BY <1>1, <2>1, EnqueueTyped DEF Typed
    <2>3. RequestOK'
      BY <1>1, <2>1 DEF RequestOK, RequestRecords
    <2> QED
      BY <1>3, <2>2, <2>3 DEF Typed, ScheduleEnqueue, IntentsOK, DrainsOK, SettingsOK
  <1>4. CASE ScheduleMark
    <2> DEFINE status == Outcome(i, request.res, FALSE)
               linked == intent[i].linked \/ request.res \in JobStatuses
               z == [intent[i] EXCEPT !.status = status, !.linked = linked]
    <2>1. intent' = [intent EXCEPT ![i] = z] /\ status \in IntentStatuses /\ linked \in BOOLEAN
      BY <1>1, <1>4, StatusFacts DEF ScheduleMark
    <2> HIDE DEF status, linked
    <2>2. z \in IntentRecords
      BY <1>1, <2>1 DEF Typed, IntentsOK, IntentRecords
    <2> HIDE DEF z
    <2> QED
      BY <1>1, <1>4, <2>1, <2>2 DEF Typed, ScheduleMark, IntentsOK, JobsOK, DrainsOK, RequestOK,
         SettingsOK, NoRequest
  <1> QED
    BY <1>2, <1>3, <1>4 DEF RequestStep

(* The flag, the clock and the end of faults keep every type.               *)
LEMMA WorldTyped ==
  ASSUME Typed, SwitchFlag \/ Tick \/ Calm \/ UNCHANGED vars
  PROVE  Typed'
  <1>1. CASE SwitchFlag \/ Calm \/ UNCHANGED vars
    BY <1>1 DEF Typed, SwitchFlag, Calm, vars, IntentsOK, JobsOK, DrainsOK, RequestOK, SettingsOK
  <1>2. CASE Tick
    <2>1. ASSUME NEW i \in Intents PROVE intent'[i] \in IntentRecords /\ job'[i] \in JobRecords
      <3>1. intent[i] \in IntentRecords /\ job[i] \in JobRecords
        BY DEF Typed, IntentsOK, JobsOK
      <3>2. Older(intent[i].age) \in Ages /\ Older(job[i].age) \in Ages
        BY <3>1, AgesFacts DEF IntentRecords, JobRecords
      <3> QED
        BY <1>2, <3>1, <3>2 DEF Tick, IntentRecords, JobRecords
    <2>2. ASSUME NEW d \in Drains PROVE DrainOK(drain'[d])
      <3>1. drain[d] \in DrainRecords /\ DrainOK(drain[d])
        BY DEF Typed, DrainsOK
      <3>2. Older(drain[d].age) \in Ages
        BY <3>1, AgesFacts DEF DrainRecords
      <3> QED
        BY <1>2, <3>1, <3>2 DEF Tick, DrainRecords, DrainOK
    <2>3. IntentsOK' /\ JobsOK' /\ DrainsOK'
      BY <1>2, <2>1, <2>2 DEF Tick, IntentsOK, JobsOK, DrainsOK, DrainOK
    <2> QED
      BY <1>2, <2>3 DEF Typed, Tick, RequestOK, SettingsOK
  <1> QED
    BY <1>1, <1>2

(* At first every row is absent and every drain idle.                       *)
LEMMA InitTyped == Init => Typed
  <1> SUFFICES ASSUME Init PROVE Typed
    OBVIOUS
  <1>1. IntentsOK /\ JobsOK
    BY AgesFacts DEF Init, IntentsOK, JobsOK, IntentRecords, JobRecords, NoJob, IntentStatuses,
       JobStatuses
  <1>2. DrainsOK
    BY IdleTyped DEF Init, DrainsOK, DrainOK
  <1>3. RequestOK /\ SettingsOK
    BY IdleTyped, BoundsAssumption DEF Init, RequestOK, NoRequest, SettingsOK
  <1> QED
    BY <1>1, <1>2, <1>3 DEF Typed

(* Every step keeps every type.                                             *)
LEMMA NextTyped ==
  ASSUME Typed, [Next]_vars
  PROVE  Typed'
  BY RecoveryTyped, ClaimsTyped, HandTyped, ExecutionTyped, OperatorTyped, RequestTyped, WorldTyped
     DEF Next, Step

(* What is kept implies the type invariant.                                 *)
LEMMA TypedImplies == Typed => TypeOK
  <1> SUFFICES ASSUME Typed PROVE TypeOK
    OBVIOUS
  <1>1. ASSUME NEW d \in Drains
        PROVE  /\ drain[d] \in DrainRecords /\ DrainOK(drain[d])
               /\ DOMAIN drain[d].seen \subseteq Intents
               /\ \A i \in DOMAIN drain[d].seen : drain[d].seen[i] \in IntentStatuses
    BY SeenFacts DEF Typed, DrainsOK, DrainRecords
  <1> QED
    BY <1>1 DEF Typed, TypeOK, IntentsOK, JobsOK, SettingsOK, IntentRecords, JobRecords, DrainRecords,
       DrainOK, Pcs, NoWork

(* Every row, every drain and every request has its type, whatever          *)
(* overlaps.                                                                *)
THEOREM TypeCorrect == Spec => []TypeOK
  <1>1. Spec => []Typed
    BY InitTyped, NextTyped, PTL DEF Spec
  <1> QED
    BY <1>1, TypedImplies, PTL

-----------------------------------------------------------------------------
(* What is known to be delivered stays so.  A job that was adopted or whose *)
(* rows are all recorded keeps them: it may be held once more, when an      *)
(* error is raised after its outcome was stored, but is not returned.       *)
Sure(i) == job[i].status \in {"succeeded", "uncertain"} /\ job[i].written

RowKnown(i) == /\ intent[i].status = "completed" => Sure(i)
               /\ job[i].status = "succeeded" => job[i].written
DrainKnown(d) == drain[d].res = "succeeded" =>
                   drain[d].pc \in {"mark", "ended", "finish"} /\ Sure(drain[d].intent)
RequestKnown == request.res = "succeeded" => request.pc = "mark" /\ Sure(request.intent)
Known == (\A i \in Intents : RowKnown(i)) /\ (\A d \in Drains : DrainKnown(d)) /\ RequestKnown

(* What a step must not do for that.                                        *)
JobsStay == \A i \in Intents : /\ Sure(i) => Sure(i)'
                               /\ job'[i].status = "succeeded" => job'[i].written
IntentsStay == \A i \in Intents : intent'[i].status = "completed"
                                  => intent[i].status = "completed" \/ Sure(i) \/ Sure(i)'
DrainStays(d) == drain'[d].res = "succeeded" =>
                   /\ drain'[d].pc \in {"mark", "ended", "finish"}
                   /\ \/ \E i \in Intents : drain'[d].intent = i /\ Sure(i)'
                      \/ drain[d].res = "succeeded" /\ drain'[d].intent = drain[d].intent

(* A step that forgets nothing keeps what is known.                         *)
LEMMA KnownStep ==
  ASSUME Typed, Typed', Known, JobsStay, IntentsStay, \A d \in Drains : DrainStays(d),
         RequestKnown'
  PROVE  Known'
  <1>1. ASSUME NEW i \in Intents PROVE RowKnown(i)'
    BY DEF Known, RowKnown, JobsStay, IntentsStay
  <1>2. ASSUME NEW d \in Drains PROVE DrainKnown(d)'
    <2>1. DrainStays(d) /\ DrainKnown(d)
      BY DEF Known
    <2>2. ASSUME drain'[d].res = "succeeded"
          PROVE  \E i \in Intents : drain'[d].intent = i /\ Sure(i)'
      <3>1. CASE drain[d].res = "succeeded" /\ drain'[d].intent = drain[d].intent
        <4>1. drain[d].intent \in Intents /\ Sure(drain[d].intent)
          BY <2>1, <3>1 DEF DrainKnown, Typed, DrainsOK, DrainOK, NoWork, DrainRecords
        <4> QED
          BY <3>1, <4>1 DEF JobsStay
      <3> QED
        BY <2>1, <2>2, <3>1 DEF DrainStays
    <2> QED
      BY <2>1, <2>2 DEF DrainStays, DrainKnown, Sure
  <1> QED
    BY <1>1, <1>2 DEF Known

(* A step of one drain leaves the locals of the others alone.               *)
LEMMA OthersKept ==
  ASSUME DrainsOK, NEW d \in Drains, Start(d) \/ Step(d) \/ Die(d), NEW e \in Drains, e # d
  PROVE  drain'[e] = drain[e]
  <1> USE DEF DrainsOK, Answer, Handle
  <1>1. CASE Start(d) \/ RecoverRead(d) \/ RecoverWrite(d) \/ BeginClaims(d) \/ List(d)
    BY <1>1 DEF Start, RecoverRead, RecoverWrite, BeginClaims, List
  <1>2. CASE ClaimListed(d) \/ Claim(d) \/ Stop(d) \/ Die(d)
    BY <1>2 DEF ClaimListed, Claim, Stop, Die
  <1>3. CASE EnqueueIntent(d) \/ Mark(d) \/ StartAppend(d) \/ EndRun(d) \/ Finish(d)
    BY <1>3 DEF EnqueueIntent, Mark, StartAppend, EndRun, Finish
  <1>4. CASE Begin(d)
    BY <1>4 DEF Begin
  <1>5. CASE Return(d)
    BY <1>5 DEF Return
  <1> QED
    BY <1>1, <1>2, <1>3, <1>4, <1>5 DEF Step

(* A drain that takes an intent in hand has no answer for it yet.           *)
LEMMA HandleFacts ==
  ASSUME DrainsOK, NEW d \in Drains, NEW i \in Intents, Handle(d, i)
  PROVE  /\ drain'[d].pc = "enqueue" /\ drain'[d].intent = i /\ drain'[d].res = "none"
         /\ drain'[d].exec = drain[d].exec
         /\ drain'[d].seen = IF drain[d].exec THEN drain[d].seen ELSE Rest(drain[d].seen, i)
  <1>1. drain[d] \in DrainRecords
    BY DEF DrainsOK
  <1> QED
    BY <1>1 DEF DrainsOK, Handle, DrainRecords

(* Which locals a drain has where it looks for work.                        *)
LEMMA LookingFacts ==
  ASSUME DrainsOK, NEW d \in Drains
  PROVE  /\ Start(d) => drain'[d].pc = "recover" /\ drain'[d].intent = drain[d].intent
                        /\ drain'[d].res = drain[d].res /\ drain'[d].exec = drain[d].exec
         /\ RecoverRead(d) => drain'[d].pc \in {"recover", "gate"}
                        /\ drain'[d].res = drain[d].res /\ drain'[d].exec = drain[d].exec
         /\ RecoverWrite(d) => drain'[d].pc = "recover" /\ drain'[d].intent = None
                        /\ drain'[d].res = drain[d].res /\ drain'[d].exec = drain[d].exec
         /\ BeginClaims(d) => /\ drain'[d].intent = drain[d].intent /\ drain'[d].res = drain[d].res
                              /\ drain'[d].seen = drain[d].seen
                              /\ IF flag THEN drain'[d].pc = "loop" /\ drain'[d].exec
                                 ELSE drain'[d].pc = "settled" /\ drain'[d].exec = drain[d].exec
         /\ List(d) => drain'[d].pc = "list" /\ drain'[d].intent = drain[d].intent
                        /\ drain'[d].res = drain[d].res /\ drain'[d].exec = drain[d].exec
  <1>1. drain[d] \in DrainRecords
    BY DEF DrainsOK
  <1> USE <1>1 DEF DrainsOK, DrainRecords, At
  <1>2. Start(d) => drain'[d].pc = "recover" /\ drain'[d].intent = drain[d].intent
                    /\ drain'[d].res = drain[d].res /\ drain'[d].exec = drain[d].exec
    BY DEF Start
  <1>3. RecoverRead(d) => drain'[d].pc \in {"recover", "gate"}
                        /\ drain'[d].res = drain[d].res /\ drain'[d].exec = drain[d].exec
    BY DEF RecoverRead
  <1>4. RecoverWrite(d) => drain'[d].pc = "recover" /\ drain'[d].intent = None
                        /\ drain'[d].res = drain[d].res /\ drain'[d].exec = drain[d].exec
    BY DEF RecoverWrite
  <1>5. BeginClaims(d) => /\ drain'[d].intent = drain[d].intent /\ drain'[d].res = drain[d].res
                          /\ drain'[d].seen = drain[d].seen
                          /\ IF flag THEN drain'[d].pc = "loop" /\ drain'[d].exec
                             ELSE drain'[d].pc = "settled" /\ drain'[d].exec = drain[d].exec
    BY DEF BeginClaims
  <1>6. List(d) => drain'[d].pc = "list" /\ drain'[d].intent = drain[d].intent
                        /\ drain'[d].res = drain[d].res /\ drain'[d].exec = drain[d].exec
    BY DEF List
  <1> QED
    BY <1>2, <1>3, <1>4, <1>5, <1>6

(* What the settlement of stale runs makes of a job and of its intent.      *)
LEMMA QuarantineFacts ==
  ASSUME IntentsOK, JobsOK, NEW i \in Intents
  PROVE  /\ ~StaleRun(i) => QuarantinedJobs[i] = job[i]
         /\ StaleRun(i) => QuarantinedJobs[i].status \in {"uncertain", "retryable"}
         /\ ~(Returned(i) /\ LinkedProcessing(i)) => QuarantinedIntents[i] = intent[i]
         /\ Returned(i) /\ LinkedProcessing(i) => QuarantinedIntents[i].status = "retryable"
  <1>1. job[i] \in JobRecords /\ intent[i] \in IntentRecords
    BY DEF IntentsOK, JobsOK
  <1> QED
    BY <1>1 DEF QuarantinedJobs, QuarantinedIntents, JobRecords, IntentRecords

(* What parking makes of an expired claim.                                  *)
LEMMA ParkedFacts ==
  ASSUME NEW x \in IntentRecords, NEW j
  PROVE  \/ Parked(x, j) = x
         \/ /\ x.status = "processing" /\ Expired(x.age)
            /\ \/ Parked(x, j).status \in {"scheduled", "retryable"}
               \/ Parked(x, j).status = "completed" /\ j.status = "succeeded"
  BY DEF Parked, IntentRecords

(* A drain that looks for work, or claims some, learns nothing new.         *)
LEMMA LookingKnown ==
  ASSUME Typed, Known, NEW d \in Drains,
         \/ Start(d) \/ RecoverRead(d) \/ RecoverWrite(d) \/ BeginClaims(d) \/ List(d)
         \/ ClaimListed(d) \/ Claim(d) \/ Stop(d) \/ Die(d)
  PROVE  JobsStay /\ IntentsStay /\ (\A e \in Drains : DrainStays(e)) /\ RequestKnown'
  <1>1. IntentsOK /\ JobsOK /\ DrainsOK
    BY DEF Typed
  <1>2. \A i \in Intents : RowKnown(i)
    BY DEF Known
  <1>3. JobsStay
    <2>1. job' = job \/ job' = QuarantinedJobs
      BY DEF Start, RecoverRead, RecoverWrite, BeginClaims, List, ClaimListed, Claim, Stop, Die
    <2>2. ASSUME NEW i \in Intents PROVE job'[i] = job[i] \/
                 (job[i].status = "running" /\ job'[i].status \in {"uncertain", "retryable"})
      BY <1>1, <2>1, QuarantineFacts DEF StaleRun
    <2> QED
      BY <1>2, <2>2 DEF JobsStay, Sure, RowKnown
  <1>4. IntentsStay
    <2>1. CASE RecoverWrite(d)
      <3>1. PICK i, gate : i = drain[d].intent /\ gate \in GateAnswers(i) /\ Promote(i, gate)
        BY <2>1 DEF RecoverWrite
      <3>2. i \in Intents => gate = "ok" \/ gate \in GateHolds
        BY <3>1, StatusFacts
      <3>3. \A k \in Intents \ {i} : intent'[k] = intent[k]
        BY <1>1, <3>1 DEF Promote, IntentsOK
      <3>4. i \in Intents => intent'[i].status # "completed"
        BY <1>1, <3>1, <3>2 DEF Promote, IntentsOK, IntentRecords, GateHolds
      <3> QED
        BY <3>3, <3>4 DEF IntentsStay
    <2>2. CASE ClaimListed(d)
      <3>1. \A k \in Intents : intent'[k] = intent[k] \/ intent'[k].status = "processing"
        BY <1>1, <2>2 DEF ClaimListed, Claimed, IntentsOK, IntentRecords
      <3> QED
        BY <3>1 DEF IntentsStay
    <2>3. CASE Claim(d)
      <3> DEFINE parked == [i \in Intents |-> Parked(QuarantinedIntents[i], QuarantinedJobs[i])]
                 due == {i \in Intents \ drain[d].done : Due(i, parked[i])}
      <3>1. \/ intent' = QuarantinedIntents
            \/ intent' = parked
            \/ intent' = [parked EXCEPT ![Fair(due)] = Claimed(@)]
        BY <2>3 DEF Claim
      <3>2. ASSUME NEW k \in Intents
            PROVE  /\ QuarantinedIntents[k].status = "completed" => intent[k].status = "completed"
                   /\ parked[k].status = "completed" => intent[k].status = "completed" \/ Sure(k)
        <4>1. QuarantinedIntents[k] \in IntentRecords
          BY <1>1, QuarantineTyped
        <4>2. QuarantinedIntents[k].status = "completed" => intent[k].status = "completed"
          BY <1>1, QuarantineFacts
        <4>3. QuarantinedJobs[k].status = "succeeded" => Sure(k)
          BY <1>1, <1>2, QuarantineFacts DEF RowKnown, Sure
        <4> QED
          BY <4>1, <4>2, <4>3, ParkedFacts
      <3>3. parked \in [Intents -> IntentRecords]
        BY <1>1, QuarantineTyped, ParkedTyped
      <3> HIDE DEF parked, due
      <3>4. ASSUME NEW k \in Intents
            PROVE  [parked EXCEPT ![Fair(due)] = Claimed(@)][k] = parked[k]
                   \/ [parked EXCEPT ![Fair(due)] = Claimed(@)][k].status = "processing"
        BY <3>3 DEF Claimed, IntentRecords
      <3>5. ASSUME NEW k \in Intents, intent'[k].status = "completed"
            PROVE  intent[k].status = "completed" \/ Sure(k)
        <4>1. CASE intent' = QuarantinedIntents
          BY <3>2, <3>5, <4>1
        <4>2. CASE intent' = parked
          BY <3>2, <3>5, <4>2
        <4>3. CASE intent' = [parked EXCEPT ![Fair(due)] = Claimed(@)]
          BY <3>2, <3>4, <3>5, <4>3
        <4> QED
          BY <3>1, <4>1, <4>2, <4>3
      <3> QED
        BY <3>5 DEF IntentsStay
    <2>4. CASE BeginClaims(d)
      <3>1. intent' = intent \/ intent' = QuarantinedIntents
        BY <2>4 DEF BeginClaims
      <3> QED
        BY <1>1, <3>1, QuarantineFacts DEF IntentsStay
    <2>5. CASE Start(d) \/ RecoverRead(d) \/ List(d) \/ Stop(d) \/ Die(d)
      BY <2>5 DEF Start, RecoverRead, List, Stop, Die, IntentsStay
    <2> QED
      BY <2>1, <2>2, <2>3, <2>4, <2>5
  <1>5. \A e \in Drains : DrainStays(e)
    <2>1. drain[d] \in DrainRecords /\ DrainOK(drain[d]) /\ DrainKnown(d)
      BY <1>1 DEF Known, DrainsOK
    <2>2. drain'[d].res # "succeeded"
      <3>1. CASE Start(d) \/ RecoverRead(d) \/ RecoverWrite(d) \/ BeginClaims(d) \/ List(d)
        <4>1. drain[d].res # "succeeded"
          BY <2>1, <3>1 DEF DrainKnown, Start, RecoverRead, RecoverWrite, BeginClaims, List, At
        <4> QED
          BY <1>1, <3>1, <4>1, LookingFacts
      <3>2. CASE ClaimListed(d)
        <4>1. drain[d].res # "succeeded"
          BY <2>1, <3>2 DEF DrainKnown, ClaimListed, At
        <4> QED
          BY <1>1, <2>1, <3>2, <4>1 DEF ClaimListed, Handle, DrainsOK, DrainRecords
      <3>3. CASE Claim(d)
        <4>1. drain' = [drain EXCEPT ![d] = Idle] \/ \E i : Handle(d, i)
          BY <3>3 DEF Claim
        <4>2. ASSUME NEW i, Handle(d, i) PROVE drain'[d].res = "none"
          BY <1>1, <2>1, <4>2 DEF Handle, DrainsOK, DrainRecords
        <4> QED
          BY <1>1, <4>1, <4>2 DEF Idle, DrainsOK
      <3>4. CASE Stop(d) \/ Die(d)
        BY <1>1, <3>4 DEF Stop, Die, Idle, DrainsOK
      <3> QED
        BY <3>1, <3>2, <3>3, <3>4
    <2>3. \A e \in Drains \ {d} : drain'[e] = drain[e]
      BY <1>1, OthersKept DEF Step
    <2>4. ASSUME NEW e \in Drains \ {d} PROVE DrainStays(e)
      BY <2>3 DEF Known, DrainKnown, DrainStays
    <2> QED
      BY <2>2, <2>4 DEF DrainStays
  <1>6. RequestKnown'
    <2>1. UNCHANGED request
      BY DEF Start, RecoverRead, RecoverWrite, BeginClaims, List, ClaimListed, Claim, Stop, Die
    <2>2. request.res = "succeeded" => request.intent \in Intents
      BY DEF Known, RequestKnown, Typed, RequestOK
    <2> QED
      BY <1>3, <2>1, <2>2 DEF Known, RequestKnown, JobsStay, Sure
  <1> QED
    BY <1>3, <1>4, <1>5, <1>6

(* A job that is created, or found, is told for what it is.                 *)
LEMMA EnqueueFacts ==
  ASSUME Typed, NEW i \in Intents, NEW res \in Results, Enqueue(i, res)
  PROVE  /\ job' = job \/ (job[i].status = "none" /\ job' = [job EXCEPT ![i].status = "queued"])
         /\ \/ res \in Refusals(i)
            \/ i \in ready /\ (res = job'[i].status \/ res = "blocked")
  BY DEF Enqueue

(* The answers of an enqueue that are no job.                               *)
LEMMA RefusalFacts ==
  ASSUME NEW i \in Intents, NEW res \in Refusals(i)
  PROVE  res \in {"setup", "blocked", "retry"} \cup (GateAnswers(i) \ {"ok"})
  BY DEF Refusals

(* What a drain does with the intent in its hand touches no other row.      *)
LEMMA HandRows ==
  ASSUME IntentsOK, JobsOK, NEW d \in Drains, NEW i \in Intents, drain[d].intent = i,
         EnqueueIntent(d) \/ Mark(d) \/ Begin(d) \/ StartAppend(d) \/ EndRun(d) \/ Return(d) \/ Finish(d)
  PROVE  \A k \in Intents \ {i} : job'[k] = job[k] /\ intent'[k] = intent[k]
  <1>1. CASE EnqueueIntent(d)
    BY <1>1 DEF EnqueueIntent, Enqueue, JobsOK
  <1>2. CASE Begin(d)
    BY <1>2 DEF Begin, JobsOK, IntentsOK
  <1>3. CASE Mark(d) \/ Finish(d)
    BY <1>3 DEF Mark, Finish, IntentsOK
  <1>4. CASE StartAppend(d) \/ EndRun(d) \/ Return(d)
    BY <1>4 DEF StartAppend, EndRun, Return, JobsOK
  <1> QED
    BY <1>1, <1>2, <1>3, <1>4

(* A drain that has an intent in hand completes it by what it was told.     *)
LEMMA HandKnown ==
  ASSUME Typed, Known, NEW d \in Drains,
         EnqueueIntent(d) \/ Mark(d) \/ Begin(d) \/ StartAppend(d) \/ EndRun(d) \/ Return(d) \/ Finish(d)
  PROVE  JobsStay /\ IntentsStay /\ (\A e \in Drains : DrainStays(e)) /\ RequestKnown'
  <1> DEFINE y == drain[d]
  <1>0. y.intent \in Intents
    <2>1. y \in DrainRecords /\ DrainOK(y) /\ y.pc \notin NoWork
      BY DEF Typed, DrainsOK, NoWork, EnqueueIntent, Mark, Begin, StartAppend, EndRun, Return,
             Finish, At
    <2> QED
      BY <2>1 DEF DrainOK, DrainRecords
  <1> PICK i \in Intents : i = y.intent
    BY <1>0
  <1>1. /\ IntentsOK /\ JobsOK /\ DrainsOK /\ y \in DrainRecords /\ i = y.intent
        /\ DrainKnown(d) /\ job[i] \in JobRecords /\ intent[i] \in IntentRecords
    BY DEF Typed, Known, JobsOK, IntentsOK, DrainsOK
  <1>2. RowKnown(i) /\ \A k \in Intents : RowKnown(k)
    BY <1>1 DEF Known
  <1>3. \A k \in Intents \ {i} : job'[k] = job[k] /\ intent'[k] = intent[k]
    BY <1>1, HandRows
  <1>4. /\ Sure(i) => Sure(i)'
        /\ job'[i].status = "succeeded" => job'[i].written
    <2>1. CASE EnqueueIntent(d)
      <3>1. \E res \in Results : Enqueue(i, res)
        BY <1>1, <2>1 DEF EnqueueIntent
      <3>2. job' = job \/ (job[i].status = "none" /\ job' = [job EXCEPT ![i].status = "queued"])
        BY <1>1, <3>1, EnqueueFacts
      <3> QED
        BY <1>1, <1>2, <3>2 DEF Sure, RowKnown, JobsOK, JobRecords
    <2>2. CASE Begin(d)
      <3>1. \/ job' = job
            \/ /\ job[i].status \in {"queued", "retryable"}
               /\ job' = [job EXCEPT ![i].status = "running", ![i].owner = d, ![i].age = 0]
            \/ StaleRun(i) /\ job' = [job EXCEPT ![i] = QuarantinedJobs[i]]
        BY <1>1, <2>2 DEF Begin
      <3>2. CASE StaleRun(i) /\ job' = [job EXCEPT ![i] = QuarantinedJobs[i]]
        BY <1>1, <3>2, QuarantineFacts DEF Sure, JobsOK, StaleRun
      <3>3. CASE job' = job
        BY <1>1, <1>2, <3>3 DEF Sure, RowKnown
      <3>4. CASE /\ job[i].status \in {"queued", "retryable"}
                 /\ job' = [job EXCEPT ![i].status = "running", ![i].owner = d, ![i].age = 0]
        BY <1>1, <3>4 DEF Sure, JobsOK, JobRecords
      <3> QED
        BY <3>1, <3>2, <3>3, <3>4
    <2>3. CASE StartAppend(d)
      <3>1. job' = job \/ (job[i].status = "running" /\ job' = [job EXCEPT ![i].marker = TRUE])
        BY <1>1, <2>3 DEF StartAppend
      <3> QED
        BY <1>1, <1>2, <3>1 DEF Sure, RowKnown, JobsOK, JobRecords
    <2>4. CASE EndRun(d)
      <3>1. PICK s \in RunEnds(i), all \in BOOLEAN :
              /\ IF all THEN s = "succeeded" \/ (s = "uncertain" /\ i \in Releasable)
                 ELSE s # "succeeded"
              /\ job' = [job EXCEPT ![i].status = s, ![i].marker = @ /\ s = "uncertain",
                                    ![i].written = all]
        BY <1>1, <2>4 DEF EndRun
      <3>2. job[i].status = "running" /\ job'[i].status = s /\ job'[i].written = all
        BY <1>1, <2>4, <3>1 DEF EndRun, JobsOK, JobRecords
      <3> QED
        BY <3>1, <3>2 DEF Sure
    <2>5. CASE Return(d)
      <3>1. job' = job \/ job' = [job EXCEPT ![i].status = "uncertain"]
        BY <1>1, <2>5 DEF Return
      <3> QED
        BY <1>1, <1>2, <3>1 DEF Sure, RowKnown, JobsOK, JobRecords
    <2>6. CASE Mark(d) \/ Finish(d)
      <3>1. job' = job
        BY <2>6 DEF Mark, Finish
      <3> QED
        BY <1>1, <1>2, <3>1 DEF Sure, RowKnown
    <2> QED
      BY <2>1, <2>2, <2>3, <2>4, <2>5, <2>6
  <1>5. intent'[i].status = "completed" => intent[i].status = "completed" \/ Sure(i)
    <2>1. CASE Mark(d)
      <3>1. y.pc = "mark" /\ intent'[i].status = Outcome(i, y.res, y.exec)
        BY <1>1, <2>1 DEF Mark, At, IntentsOK, IntentRecords
      <3>2. Outcome(i, y.res, y.exec) = "completed" => y.res = "succeeded"
        BY DEF Outcome, SetupHold, GateHolds
      <3> QED
        BY <1>1, <3>1, <3>2 DEF DrainKnown
    <2>2. CASE Finish(d)
      <3>1. intent' = intent \/ intent'[i].status = Verdict(y.res)
        BY <1>1, <2>2 DEF Finish, IntentsOK, IntentRecords
      <3>2. Verdict(y.res) = "completed" => y.res = "succeeded"
        BY DEF Verdict
      <3> QED
        BY <1>1, <3>1, <3>2 DEF DrainKnown
    <2>3. CASE Begin(d)
      <3>1. intent' = intent \/ intent' = [intent EXCEPT ![i] = QuarantinedIntents[i]]
        BY <1>1, <2>3 DEF Begin
      <3> QED
        BY <1>1, <3>1, QuarantineFacts DEF IntentsOK
    <2>4. CASE EnqueueIntent(d) \/ StartAppend(d) \/ EndRun(d) \/ Return(d)
      BY <2>4 DEF EnqueueIntent, StartAppend, EndRun, Return
    <2> QED
      BY <2>1, <2>2, <2>3, <2>4
  <1>6. JobsStay
    <2>1. ASSUME NEW k \in Intents \ {i}
          PROVE  (Sure(k) => Sure(k)') /\ (job'[k].status = "succeeded" => job'[k].written)
      <3>1. job'[k] = job[k] /\ RowKnown(k)
        BY <1>2, <1>3
      <3> QED
        BY <3>1 DEF Sure, RowKnown
    <2> QED
      BY <1>4, <2>1 DEF JobsStay
  <1>7. IntentsStay
    BY <1>3, <1>5 DEF IntentsStay
  <1>8. DrainStays(d)
    <2>1. CASE EnqueueIntent(d)
      <3>1. PICK res \in Results : /\ Enqueue(i, res)
                                   /\ drain' = [drain EXCEPT ![d].pc = "mark", ![d].res = res]
        BY <1>1, <2>1 DEF EnqueueIntent
      <3>2. drain'[d].pc = "mark" /\ drain'[d].res = res /\ drain'[d].intent = i
        BY <1>1, <3>1 DEF DrainsOK, DrainRecords
      <3>3. res = "succeeded" => job[i].status = "succeeded"
        <4>1. "succeeded" \notin Refusals(i)
          BY <1>1 DEF Refusals, GateAnswers, GateHolds
        <4>2. /\ job' = job \/ (job[i].status = "none" /\ job' = [job EXCEPT ![i].status = "queued"])
              /\ res \in Refusals(i) \/ res = job'[i].status \/ res = "blocked"
          BY <1>1, <3>1, EnqueueFacts
        <4> QED
          BY <1>1, <4>1, <4>2 DEF JobsOK, JobRecords
      <3> QED
        BY <1>1, <1>2, <1>4, <3>2, <3>3 DEF DrainStays, RowKnown, Sure
    <2>2. CASE Mark(d)
      <3>1. y.pc = "mark" /\ (drain'[d].res = "none"
              \/ (drain'[d].res = y.res /\ Outcome(i, y.res, y.exec) = "processing"))
        BY <1>1, <2>2 DEF Mark, At, DrainsOK, DrainRecords
      <3>2. Outcome(i, "succeeded", y.exec) = "completed"
        BY DEF Outcome, GateHolds
      <3> QED
        BY <3>1, <3>2 DEF DrainStays
    <2>3. CASE Begin(d)
      <3>1. y.pc = "execute" /\ y.res # "succeeded"
        BY <1>1, <2>3 DEF Begin, At, DrainKnown
      <3>2. \/ drain' = [drain EXCEPT ![d].pc = "running"]
            \/ \E res \in {"uncertain", "lost", "busy"} : Answer(d, res)
            \/ job[i].status = "succeeded" /\ job' = job /\ Answer(d, "succeeded")
        BY <1>1, <2>3 DEF Begin
      <3>3. \/ drain'[d].res # "succeeded"
            \/ /\ job[i].status = "succeeded" /\ job' = job
               /\ drain'[d].pc = "finish" /\ drain'[d].intent = i
        BY <1>1, <3>1, <3>2 DEF Answer, DrainsOK, DrainRecords
      <3> QED
        BY <1>1, <1>2, <3>3 DEF DrainStays, RowKnown, Sure
    <2>4. CASE StartAppend(d)
      <3>1. y.pc = "running" /\ y.res # "succeeded"
        BY <1>1, <2>4 DEF StartAppend, At, DrainKnown
      <3>2. drain' = drain \/ Answer(d, "lost")
        BY <1>1, <2>4 DEF StartAppend
      <3> QED
        BY <1>1, <3>1, <3>2 DEF DrainStays, Answer, DrainsOK, DrainRecords
    <2>5. CASE EndRun(d)
      <3>1. PICK s \in RunEnds(i), all \in BOOLEAN :
              /\ IF all THEN s = "succeeded" \/ (s = "uncertain" /\ i \in Releasable)
                 ELSE s # "succeeded"
              /\ job' = [job EXCEPT ![i].status = s, ![i].marker = @ /\ s = "uncertain",
                                    ![i].written = all]
              /\ drain' = [drain EXCEPT ![d].pc = "ended", ![d].res = s]
        BY <1>1, <2>5 DEF EndRun
      <3>2. job'[i].status = s /\ job'[i].written = all
        BY <1>1, <3>1 DEF JobsOK, JobRecords
      <3>3. drain'[d].pc = "ended" /\ drain'[d].res = s /\ drain'[d].intent = i
        BY <1>1, <3>1 DEF DrainsOK, DrainRecords
      <3> QED
        BY <1>1, <3>1, <3>2, <3>3 DEF DrainStays, Sure
    <2>6. CASE Return(d)
      <3>1. \E res : /\ Answer(d, res)
                     /\ res = y.res \/ res \in {"busy", "retryable", "uncertain", "lost"}
        BY <2>6 DEF Return
      <3>2. /\ drain'[d].pc = "finish" /\ drain'[d].intent = i
            /\ drain'[d].res = "succeeded" => y.res = "succeeded"
        BY <1>1, <3>1 DEF Answer, DrainsOK, DrainRecords
      <3> QED
        BY <3>2 DEF DrainStays
    <2>7. CASE Finish(d)
      BY <1>1, <2>7 DEF Finish, DrainStays, DrainsOK, DrainRecords
    <2> QED
      BY <2>1, <2>2, <2>3, <2>4, <2>5, <2>6, <2>7
  <1>9. ASSUME NEW e \in Drains \ {d} PROVE DrainStays(e)
    <2>1. drain'[e] = drain[e]
      BY <1>1, OthersKept DEF Step
    <2> QED
      BY <2>1 DEF Known, DrainKnown, DrainStays
  <1>10. RequestKnown'
    <2>1. UNCHANGED request
      BY DEF EnqueueIntent, Mark, Begin, StartAppend, EndRun, Return, Finish
    <2>2. request.res = "succeeded" => request.intent \in Intents
      BY DEF Known, RequestKnown, Typed, RequestOK
    <2> QED
      BY <1>6, <2>1, <2>2 DEF Known, RequestKnown, JobsStay, Sure
  <1> QED
    BY <1>6, <1>7, <1>8, <1>9, <1>10

(* Intake and operators complete no intent but by what a request was told.  *)
LEMMA OperatorKnown ==
  ASSUME Typed, Known, NEW k \in Intents,
         Record(k) \/ BindTab(k) \/ RequestRecovery(k) \/ Schedule(k) \/ Release(k)
  PROVE  JobsStay /\ IntentsStay /\ UNCHANGED drain /\ RequestKnown'
  <1>1. IntentsOK /\ JobsOK /\ RowKnown(k) /\ (request.res = "succeeded" => request.intent \in Intents)
    BY DEF Typed, Known, RequestKnown, RequestOK
  <1>2. UNCHANGED drain
    BY DEF Record, BindTab, RequestRecovery, Schedule, Release
  <1>3. JobsStay
    <2>1. CASE Release(k)
      <3>1. PICK s \in {"succeeded", "retryable"} :
              /\ s = "retryable" => ~job[k].marker /\ ~job[k].written
              /\ job' = [job EXCEPT ![k].status = s, ![k].marker = FALSE,
                                    ![k].written = s = "succeeded"]
        BY <2>1 DEF Release
      <3>2. job'[k].status = s /\ job'[k].written = (s = "succeeded")
        BY <1>1, <3>1 DEF JobsOK, JobRecords
      <3>3. \A i \in Intents \ {k} : job'[i] = job[i] /\ RowKnown(i)
        BY <1>1, <3>1 DEF JobsOK, Known
      <3>4. /\ Sure(k) => Sure(k)'
            /\ job'[k].status = "succeeded" => job'[k].written
        BY <3>1, <3>2 DEF Sure
      <3> QED
        BY <3>3, <3>4 DEF JobsStay, Sure, RowKnown
    <2>2. CASE ~Release(k)
      <3>1. job' = job
        BY <2>2 DEF Record, BindTab, RequestRecovery, Schedule
      <3> QED
        BY <3>1 DEF JobsStay, Sure, Known, RowKnown
    <2> QED
      BY <2>1, <2>2
  <1>4. IntentsStay
    <2>1. CASE Record(k)
      <3>1. PICK gate \in GateAnswers(k) : intent' = [intent EXCEPT ![k].status = NewStatus(k, gate)]
        BY <2>1 DEF Record
      <3>2. NewStatus(k, gate) # "completed"
        BY StatusFacts DEF NewStatus, GateHolds
      <3> QED
        BY <1>1, <3>1, <3>2 DEF IntentsStay, IntentsOK, IntentRecords
    <2>2. CASE Schedule(k)
      BY <1>1, <2>2 DEF Schedule, IntentsStay, IntentsOK, IntentRecords
    <2>3. CASE BindTab(k) \/ RequestRecovery(k) \/ Release(k)
      BY <2>3 DEF BindTab, RequestRecovery, Release, IntentsStay
    <2> QED
      BY <2>1, <2>2, <2>3
  <1>5. RequestKnown'
    <2>1. request' = request \/ request'.res = "none"
      BY DEF Record, BindTab, RequestRecovery, Schedule, Release
    <2> QED
      BY <1>1, <1>3, <2>1 DEF Known, RequestKnown, JobsStay, Sure
  <1> QED
    BY <1>2, <1>3, <1>4, <1>5

(* A request completes an intent by what it was told.                       *)
LEMMA RequestStepKnown ==
  ASSUME Typed, Known, RequestStep
  PROVE  JobsStay /\ IntentsStay /\ UNCHANGED drain /\ RequestKnown'
  <1>0. request.intent \in Intents
    BY DEF Typed, RequestOK, RequestStep, RequestPromote, ScheduleEnqueue, ScheduleMark
  <1> PICK i \in Intents : i = request.intent
    BY <1>0
  <1>1. /\ IntentsOK /\ JobsOK /\ i = request.intent /\ job[i] \in JobRecords
        /\ request \in RequestRecords /\ RowKnown(i)
    BY DEF Typed, Known, JobsOK, RequestOK
  <1>2. UNCHANGED drain
    BY DEF RequestStep, RequestPromote, ScheduleEnqueue, ScheduleMark
  <1>3. JobsStay
    <2>1. \/ job' = job
          \/ job[i].status = "none" /\ job' = [job EXCEPT ![i].status = "queued"]
      <3>1. CASE RequestPromote \/ ScheduleMark
        BY <3>1 DEF RequestPromote, ScheduleMark
      <3>2. CASE ScheduleEnqueue
        <4>1. PICK res \in Results : Enqueue(i, res)
          BY <1>1, <3>2 DEF ScheduleEnqueue
        <4> QED
          BY <4>1, EnqueueFacts
      <3> QED
        BY <3>1, <3>2 DEF RequestStep
    <2> QED
      BY <1>1, <2>1 DEF JobsStay, Sure, Known, RowKnown, JobsOK, JobRecords
  <1>4. CASE RequestPromote
    <2>1. PICK gate \in GateAnswers(i) : Promote(i, gate)
      BY <1>1, <1>4 DEF RequestPromote
    <2>2. gate = "ok" \/ gate \in GateHolds
      BY StatusFacts
    <2>3. IntentsStay
      BY <1>1, <2>1, <2>2 DEF Promote, IntentsOK, IntentRecords, GateHolds, IntentsStay
    <2> QED
      BY <1>2, <1>3, <1>4, <2>3 DEF RequestPromote, NoRequest, RequestKnown
  <1>5. CASE ScheduleEnqueue
    <2>1. PICK res \in Results : /\ Enqueue(i, res)
                                 /\ request' = [request EXCEPT !.pc = "mark", !.res = res]
      BY <1>1, <1>5 DEF ScheduleEnqueue
    <2>2. request'.pc = "mark" /\ request'.res = res /\ request'.intent = i
      BY <1>1, <2>1 DEF RequestRecords
    <2>3. res = "succeeded" => job[i].status = "succeeded"
      <3>1. "succeeded" \notin Refusals(i)
        BY DEF Refusals, GateAnswers, GateHolds
      <3>2. /\ job' = job \/ (job[i].status = "none" /\ job' = [job EXCEPT ![i].status = "queued"])
            /\ res \in Refusals(i) \/ res = job'[i].status \/ res = "blocked"
        BY <2>1, EnqueueFacts
      <3> QED
        BY <1>1, <3>1, <3>2 DEF JobsOK, JobRecords
    <2>4. RequestKnown'
      BY <1>1, <1>3, <2>2, <2>3 DEF RequestKnown, JobsStay, RowKnown, Sure
    <2>5. IntentsStay
      BY <1>5 DEF ScheduleEnqueue, IntentsStay
    <2> QED
      BY <1>2, <1>3, <2>4, <2>5
  <1>6. CASE ScheduleMark
    <2>1. /\ intent'[i].status = Outcome(i, request.res, FALSE)
          /\ \A k \in Intents \ {i} : intent'[k] = intent[k]
      BY <1>1, <1>6 DEF ScheduleMark, IntentsOK, IntentRecords
    <2>2. Outcome(i, request.res, FALSE) = "completed" => request.res = "succeeded"
      BY DEF Outcome, SetupHold, GateHolds
    <2>3. request.res = "succeeded" => Sure(i)
      BY <1>1 DEF Known, RequestKnown
    <2>4. IntentsStay
      BY <2>1, <2>2, <2>3 DEF IntentsStay
    <2> QED
      BY <1>2, <1>3, <1>6, <2>4 DEF ScheduleMark, NoRequest, RequestKnown
  <1> QED
    BY <1>4, <1>5, <1>6 DEF RequestStep

(* The flag and the clock complete no intent.                               *)
LEMMA WorldKnown ==
  ASSUME Typed, Known, SwitchFlag \/ Tick \/ Calm \/ UNCHANGED vars
  PROVE  JobsStay /\ IntentsStay /\ (\A d \in Drains : DrainStays(d)) /\ RequestKnown'
  <1>1. IntentsOK /\ JobsOK /\ DrainsOK /\ UNCHANGED request
    BY DEF Typed, SwitchFlag, Tick, Calm, vars
  <1>2. ASSUME NEW i \in Intents
        PROVE  /\ job'[i].status = job[i].status /\ job'[i].written = job[i].written
               /\ intent'[i].status = intent[i].status /\ RowKnown(i)
    <2>1. job[i] \in JobRecords /\ intent[i] \in IntentRecords /\ RowKnown(i)
      BY <1>1 DEF JobsOK, IntentsOK, Known
    <2>2. CASE Tick
      BY <2>1, <2>2 DEF Tick, JobRecords, IntentRecords
    <2> QED
      BY <2>1, <2>2 DEF SwitchFlag, Calm, vars
  <1>3. ASSUME NEW d \in Drains
        PROVE  /\ drain'[d].pc = drain[d].pc /\ drain'[d].res = drain[d].res
               /\ drain'[d].intent = drain[d].intent
    <2>1. drain[d] \in DrainRecords
      BY <1>1 DEF DrainsOK
    <2>2. CASE Tick
      BY <2>1, <2>2 DEF Tick, DrainRecords
    <2> QED
      BY <2>2 DEF SwitchFlag, Calm, vars
  <1>4. JobsStay /\ IntentsStay
    BY <1>2 DEF JobsStay, IntentsStay, Sure, RowKnown
  <1>5. \A d \in Drains : DrainStays(d)
    BY <1>3 DEF DrainStays, Known, DrainKnown
  <1>6. request.res = "succeeded" => request.intent \in Intents
    BY DEF Known, RequestKnown, Typed, RequestOK
  <1> QED
    BY <1>1, <1>4, <1>5, <1>6 DEF Known, RequestKnown, JobsStay, Sure

(* At first nothing is completed.                                           *)
LEMMA InitKnown == Init => Known
  BY DEF Init, Known, RowKnown, DrainKnown, RequestKnown, NoJob, Idle, NoRequest

(* Every step keeps what is known.                                          *)
LEMMA NextKnown ==
  ASSUME Typed, Known, [Next]_vars
  PROVE  Known'
  <1>1. Typed'
    BY NextTyped
  <1>2. UNCHANGED drain => \A d \in Drains : DrainStays(d)
    BY DEF DrainStays, Known, DrainKnown
  <1>3. JobsStay /\ IntentsStay /\ (\A d \in Drains : DrainStays(d)) /\ RequestKnown'
    <2>1. CASE \E d \in Drains : Start(d) \/ Step(d) \/ Die(d)
      BY <2>1, LookingKnown, HandKnown DEF Step
    <2>2. CASE \E i \in Intents : Record(i) \/ BindTab(i) \/ RequestRecovery(i) \/ Schedule(i)
                                  \/ Release(i)
      BY <1>2, <2>2, OperatorKnown
    <2>3. CASE RequestStep
      BY <1>2, <2>3, RequestStepKnown
    <2>4. CASE SwitchFlag \/ Tick \/ Calm \/ UNCHANGED vars
      BY <2>4, WorldKnown
    <2> QED
      BY <2>1, <2>2, <2>3, <2>4 DEF Next
  <1> QED
    BY <1>1, <1>3, KnownStep

(* Whatever drains, requests and releases overlap, and however late their   *)
(* answers come, no intent is completed while its job has yet to be         *)
(* executed: a completed intent's job is succeeded, or held.                *)
THEOREM NothingIsForgotten == Spec => []NothingForgotten
  <1>1. Spec => [](Typed /\ Known)
    BY InitTyped, NextTyped, InitKnown, NextKnown, PTL DEF Spec
  <1>2. Typed /\ Known => NothingForgotten
    BY DEF Known, RowKnown, Sure, NothingForgotten
  <1> QED
    BY <1>1, <1>2, PTL

-----------------------------------------------------------------------------
(* Executions inside their lease, while the database steps around one take  *)
(* less than a tick, no person gate holds a lead and no operator schedules  *)
(* a release explicitly.                                                    *)
InLease == Pace = "in_lease" /\ Gated = {} /\ Schedulable = {}

(* A row that runs shows the reservation and is as old as it.               *)
RowGood(r, j) ==
  /\ j.status = "running" => r.status = "processing" /\ r.linked /\ r.age = j.age
  /\ r.status \notin GateHolds
  /\ r.status = "completed" => j.status = "succeeded"

(* An intent in hand is a fresh claim; its job runs exactly while the drain *)
(* waits for its own run.                                                   *)
HeldBy(d, x, r, j) ==
  /\ r.status = "processing" /\ ~Expired(r.age)
  /\ x.pc \in {"enqueue", "mark", "execute"} => r.age = 0
  /\ x.pc \in {"execute", "running", "ended", "finish"} => r.linked
  /\ IF x.pc = "running" THEN j.status = "running" /\ j.owner = d ELSE j.status # "running"
  /\ x.res = "succeeded" => j.status = "succeeded"

(* Which drains claim to execute, and what a list of due intents shows.     *)
DueStatuses == {"pending", "scheduled", "retryable", "awaiting_setup", "processing"}
Told == JobStatuses \cup {"setup", "blocked", "retry"}
Placed(x) ==
  /\ x.pc \in {"idle", "recover", "settled", "list"} => ~x.exec
  /\ x.pc \in {"loop", "execute", "running", "ended", "finish"} => x.exec
  /\ x.pc # "gate" /\ (x.pc = "mark" => x.res \in Told)
  /\ \A i \in DOMAIN x.seen : x.seen[i] \in DueStatuses

(* A drain that found execution off has settled the stale runs.             *)
Settling(x) == x.pc \in {"settled", "list"} \/ (x.intent # None /\ ~x.exec)

RowsGood == \A i \in Intents : RowGood(intent[i], job[i])
AllPlaced == \A d \in Drains : Placed(drain[d])
AllHeld == \A d \in Drains, i \in Intents :
             drain[d].intent = i => HeldBy(d, drain[d], intent[i], job[i])
OneHand == \A d, e \in Drains :
             drain[d].intent # None /\ drain[e].intent # None
             /\ (drain[d].intent = drain[e].intent \/ (drain[d].exec /\ drain[e].exec)) => d = e
OnlyItsRun == \A d \in Drains, i \in Intents :
                drain[d].intent # None /\ drain[d].exec /\ job[i].status = "running"
                => drain[d].intent = i
SingleRun == \A i, k \in Intents : job[i].status = "running" /\ job[k].status = "running" => i = k
Settled == \A d \in Drains, i \in Intents : Settling(drain[d]) => ~StaleRun(i)
Ordered == /\ RowsGood /\ AllPlaced /\ AllHeld /\ OneHand /\ OnlyItsRun /\ SingleRun /\ Settled
           /\ request = NoRequest

(* No drain moves an intent that waits for its explicit schedule.           *)
WaitersStay == \A i \in Intents : intent[i].status = "needs_explicit_schedule"
                                  => intent'[i].status = "needs_explicit_schedule"

(* A drain that puts its intent down, or has none, after settling perhaps.  *)
LEMMA QuietOrdered ==
  ASSUME Typed, Ordered, NEW d \in Drains, NEW x, x = drain'[d], x.intent = None, Placed(x),
         \A e \in Drains \ {d} : drain'[e] = drain[e], UNCHANGED request,
         \/ UNCHANGED <<intent, job>>
         \/ job' = QuarantinedJobs /\ intent' = QuarantinedIntents,
         Settling(x) => Settling(drain[d]) \/ job' = QuarantinedJobs
  PROVE  Ordered' /\ WaitersStay
  <1>1. IntentsOK /\ JobsOK
    BY DEF Typed
  <1>2. ASSUME NEW i \in Intents
        PROVE  /\ job'[i].status = "running" => job'[i] = job[i]
               /\ ~StaleRun(i) => job'[i] = job[i] /\ intent'[i] = intent[i]
               /\ RowGood(intent'[i], job'[i])
               /\ job' = QuarantinedJobs => ~StaleRun(i)'
               /\ intent[i].status # "processing" => intent'[i].status = intent[i].status
    <2>1. RowGood(intent[i], job[i])
      BY DEF Ordered, RowsGood
    <2>2. CASE UNCHANGED <<intent, job>>
      <3>1. job' = QuarantinedJobs => ~StaleRun(i)'
        BY <1>1, <2>2, QuarantineFacts DEF StaleRun
      <3> QED
        BY <2>1, <2>2, <3>1
    <2>3. CASE job' = QuarantinedJobs /\ intent' = QuarantinedIntents
      <3>1. CASE StaleRun(i)
        <4>1. job'[i].status \in {"uncertain", "retryable"}
          BY <1>1, <2>3, <3>1, QuarantineFacts
        <4>2. intent[i].status = "processing"
              /\ (intent'[i] = intent[i] \/ intent'[i].status = "retryable")
          BY <1>1, <2>1, <2>3, <3>1, QuarantineFacts DEF RowGood, StaleRun
        <4> QED
          BY <3>1, <4>1, <4>2 DEF RowGood, GateHolds, StaleRun
      <3>2. CASE ~StaleRun(i)
        <4>1. job'[i] = job[i] /\ intent'[i] = intent[i]
          BY <1>1, <2>3, <3>2, QuarantineFacts DEF Returned
        <4> QED
          BY <2>1, <3>2, <4>1 DEF StaleRun
      <3> QED
        BY <3>1, <3>2
    <2> QED
      BY <2>2, <2>3
  <1>3. RowsGood' /\ AllPlaced'
    BY <1>2 DEF RowsGood, AllPlaced, Ordered
  <1>4. AllHeld'
    <2> SUFFICES ASSUME NEW e \in Drains, NEW i \in Intents, drain'[e].intent = i
                 PROVE  HeldBy(e, drain'[e], intent'[i], job'[i])
      BY DEF AllHeld
    <2>1. e # d /\ drain'[e] = drain[e]
      BY NoneAssumption
    <2>2. HeldBy(e, drain[e], intent[i], job[i]) /\ RowGood(intent[i], job[i])
      BY <2>1 DEF Ordered, AllHeld, RowsGood
    <2>3. ~StaleRun(i)
      BY <2>2 DEF HeldBy, RowGood, StaleRun
    <2> QED
      BY <1>2, <2>1, <2>2, <2>3
  <1>5. OneHand' /\ OnlyItsRun' /\ SingleRun'
    BY <1>2 DEF Ordered, OneHand, OnlyItsRun, SingleRun
  <1>6. Settled'
    <2> SUFFICES ASSUME NEW e \in Drains, NEW i \in Intents, Settling(drain'[e]), StaleRun(i)'
                 PROVE  FALSE
      BY DEF Settled
    <2>1. job'[i] = job[i] /\ job' # QuarantinedJobs /\ StaleRun(i)
      BY <1>2 DEF StaleRun
    <2>2. Settling(drain[e])
      BY <2>1
    <2> QED
      BY <2>1, <2>2 DEF Ordered, Settled
  <1>7. WaitersStay
    BY <1>2 DEF WaitersStay
  <1> QED
    BY <1>3, <1>4, <1>5, <1>6, <1>7 DEF Ordered

(* A drain that works on the intent in its hand.                            *)
LEMMA HandOrdered ==
  ASSUME Typed, Ordered, NEW d \in Drains, NEW i \in Intents, drain[d].intent = i,
         NEW x, x = drain'[d], \A e \in Drains \ {d} : drain'[e] = drain[e], UNCHANGED request,
         \A k \in Intents \ {i} : intent'[k] = intent[k] /\ job'[k] = job[k],
         Placed(x), x.exec = drain[d].exec, x.pc # "settled",
         x.intent = None \/ (x.intent = i /\ HeldBy(d, x, intent'[i], job'[i])),
         RowGood(intent'[i], job'[i]),
         job'[i].status = "running" => job[i].status = "running" \/ drain[d].exec,
         job'[i].status = "running" /\ Expired(job'[i].age) => StaleRun(i)
  PROVE  Ordered' /\ WaitersStay
  <1>1. HeldBy(d, drain[d], intent[i], job[i]) /\ drain[d].intent # None
    BY NoneAssumption DEF Ordered, AllHeld
  <1>2. RowsGood' /\ AllPlaced'
    BY DEF Ordered, RowsGood, AllPlaced
  <1>3. \A e \in Drains \ {d} : drain[e].intent # i
    BY <1>1 DEF Ordered, OneHand
  <1>4. AllHeld'
    <2> SUFFICES ASSUME NEW e \in Drains, NEW k \in Intents, drain'[e].intent = k
                 PROVE  HeldBy(e, drain'[e], intent'[k], job'[k])
      BY DEF AllHeld
    <2>1. CASE e = d
      BY <2>1, NoneAssumption
    <2>2. CASE e # d
      <3>1. drain'[e] = drain[e] /\ intent'[k] = intent[k] /\ job'[k] = job[k]
        BY <1>3, <2>2
      <3> QED
        BY <3>1 DEF Ordered, AllHeld
    <2> QED
      BY <2>1, <2>2
  <1>5. OneHand'
    BY <1>1 DEF Ordered, OneHand
  <1>6. OnlyItsRun'
    <2> SUFFICES ASSUME NEW e \in Drains, NEW k \in Intents, drain'[e].intent # None,
                        drain'[e].exec, job'[k].status = "running"
                 PROVE  drain'[e].intent = k
      BY DEF OnlyItsRun
    <2>1. drain[e].intent # None /\ drain[e].exec /\ drain'[e].intent = drain[e].intent
      BY <1>1
    <2>2. CASE job[k].status = "running"
      BY <2>1, <2>2 DEF Ordered, OnlyItsRun
    <2>3. CASE job[k].status # "running"
      <3>1. k = i /\ drain[d].exec
        BY <2>3
      <3>2. e = d
        BY <1>1, <2>1, <3>1 DEF Ordered, OneHand
      <3> QED
        BY <2>1, <3>1, <3>2
    <2> QED
      BY <2>2, <2>3
  <1>7. SingleRun'
    <2>1. ASSUME NEW k \in Intents \ {i}, job'[k].status = "running", job'[i].status = "running"
          PROVE  FALSE
      <3>1. job[k].status = "running"
        BY <2>1
      <3>2. CASE job[i].status = "running"
        BY <3>1, <3>2 DEF Ordered, SingleRun
      <3>3. CASE drain[d].exec
        BY <1>1, <3>1, <3>3 DEF Ordered, OnlyItsRun
      <3> QED
        BY <2>1, <3>2, <3>3
    <2> QED
      BY <2>1 DEF Ordered, SingleRun
  <1>8. Settled'
    <2> SUFFICES ASSUME NEW e \in Drains, NEW k \in Intents, Settling(drain'[e]), StaleRun(k)'
                 PROVE  FALSE
      BY DEF Settled
    <2>1. StaleRun(k)
      BY DEF StaleRun
    <2>2. Settling(drain[e])
      <3>1. CASE e = d
        BY <1>1, <3>1 DEF Settling, Placed
      <3>2. CASE e # d
        BY <3>2
      <3> QED
        BY <3>1, <3>2
    <2> QED
      BY <2>1, <2>2 DEF Ordered, Settled
  <1>9. WaitersStay
    <2>1. intent[i].status = "processing"
      BY <1>1 DEF HeldBy
    <2> QED
      BY <2>1 DEF WaitersStay
  <1> QED
    BY <1>2, <1>4, <1>5, <1>6, <1>7, <1>8, <1>9 DEF Ordered

(* The drains that look for work.                                           *)
LEMMA LookingOrdered ==
  ASSUME Typed, Ordered, InLease, NEW d \in Drains,
         \/ Start(d) \/ RecoverRead(d) \/ RecoverWrite(d) \/ BeginClaims(d) \/ List(d)
         \/ Stop(d) \/ Die(d)
  PROVE  Ordered' /\ WaitersStay
  <1> DEFINE y == drain[d]
  <1>1. DrainsOK /\ y \in DrainRecords /\ DrainOK(y) /\ Placed(y)
    BY DEF Typed, DrainsOK, Ordered, AllPlaced
  <1>2. ~RecoverWrite(d)
    BY <1>1 DEF RecoverWrite, At, Placed
  <1>3. UNCHANGED request /\ \A e \in Drains \ {d} : drain'[e] = drain[e]
    BY <1>1, OthersKept DEF Step, Start, RecoverRead, RecoverWrite, BeginClaims, List, Stop, Die
  <1>4. \A i \in Intents : intent[i].status \notin DrainRecovers
    BY DEF Ordered, RowsGood, RowGood, GateHolds, DrainRecovers
  <1>5. CASE Start(d)
    <2>1. drain'[d].seen = [i \in {} |-> intent[i].status]
      <3>1. {i \in Intents : intent[i].status \in DrainRecovers /\ ~intent[i].wait} = {}
        BY <1>4
      <3> QED
        BY <1>1, <1>5, <3>1 DEF Start, DrainsOK, DrainRecords
    <2>2. /\ drain'[d].pc = "recover" /\ drain'[d].intent = None /\ drain'[d].exec = y.exec
          /\ y.pc = "idle"
      BY <1>1, <1>5, LookingFacts DEF Start, At, DrainOK, NoWork
    <2>3. Placed(drain'[d]) /\ ~Settling(drain'[d])
      BY <1>1, <2>1, <2>2 DEF Placed, Settling
    <2>4. UNCHANGED <<intent, job>>
      BY <1>5 DEF Start
    <2> QED
      BY <1>3, <2>2, <2>3, <2>4, QuietOrdered
  <1>6. CASE RecoverRead(d)
    <2> DEFINE i == Oldest(DOMAIN y.seen)
    <2>1. i \in Intents /\ y.pc = "recover"
      BY <1>1, <1>6, SeenFacts, OldestFacts DEF RecoverRead, DrainRecords, At
    <2>2. drain' = [drain EXCEPT ![d].seen = Rest(@, i), ![d].pc = @, ![d].intent = None]
      BY <1>4, <1>6, <2>1 DEF RecoverRead
    <2> HIDE DEF i
    <2>3. /\ drain'[d].pc = "recover" /\ drain'[d].intent = None /\ drain'[d].exec = y.exec
          /\ drain'[d].seen = Rest(y.seen, i)
      BY <1>1, <2>1, <2>2 DEF DrainsOK, DrainRecords
    <2>4. Placed(drain'[d]) /\ ~Settling(drain'[d])
      BY <1>1, <2>1, <2>3 DEF Placed, Settling, Rest
    <2>5. UNCHANGED <<intent, job>>
      BY <1>6 DEF RecoverRead
    <2> QED
      BY <1>3, <2>3, <2>4, <2>5, QuietOrdered
  <1>7. CASE BeginClaims(d)
    <2>1. y.pc = "recover" /\ y.intent = None
      BY <1>1, <1>7 DEF BeginClaims, At, DrainOK, NoWork
    <2>2. /\ drain'[d].intent = None /\ drain'[d].seen = y.seen
          /\ IF flag THEN drain'[d].pc = "loop" /\ drain'[d].exec
             ELSE drain'[d].pc = "settled" /\ drain'[d].exec = y.exec
      BY <1>1, <1>7, <2>1, LookingFacts
    <2>3. IF flag THEN UNCHANGED <<intent, job>>
          ELSE job' = QuarantinedJobs /\ intent' = QuarantinedIntents
      BY <1>7 DEF BeginClaims
    <2>4. Placed(drain'[d])
      BY <1>1, <2>1, <2>2 DEF Placed
    <2>5. Settling(drain'[d]) => ~flag
      BY <2>2 DEF Settling
    <2> QED
      BY <1>3, <2>2, <2>3, <2>4, <2>5, QuietOrdered
  <1>8. CASE List(d)
    <2>1. y.pc = "settled" /\ y.intent = None
      BY <1>1, <1>8 DEF List, At, DrainOK, NoWork
    <2>2. drain'[d].pc = "list" /\ drain'[d].intent = None /\ drain'[d].exec = y.exec
      BY <1>1, <1>8, <2>1, LookingFacts
    <2>3. \A i \in DOMAIN drain'[d].seen : drain'[d].seen[i] \in DueStatuses
      <3>1. PICK S : /\ S \subseteq {i \in Intents : Due(i, intent[i]) \/ StaleClaim(i)}
                     /\ drain' = [drain EXCEPT ![d].pc = "list",
                                               ![d].seen = [i \in S |-> intent[i].status]]
        BY <1>8 DEF List
      <3>2. drain'[d].seen = [i \in S |-> intent[i].status]
        BY <1>1, <3>1 DEF DrainsOK, DrainRecords
      <3>3. \A i \in S : intent[i].status \in DueStatuses
        BY <3>1 DEF Due, StaleClaim, DueStatuses
      <3> QED
        BY <3>2, <3>3
    <2>4. Placed(drain'[d]) /\ Settling(y)
      BY <1>1, <2>1, <2>2, <2>3 DEF Placed, Settling
    <2>5. UNCHANGED <<intent, job>>
      BY <1>8 DEF List
    <2> QED
      BY <1>3, <2>2, <2>4, <2>5, QuietOrdered
  <1>9. CASE Stop(d) \/ Die(d)
    <2>1. drain'[d] = Idle /\ UNCHANGED <<intent, job>>
      BY <1>1, <1>9 DEF Stop, Die, DrainsOK
    <2>2. Idle.intent = None /\ Placed(Idle) /\ ~Settling(Idle)
      BY DEF Idle, Placed, Settling
    <2> QED
      BY <1>3, <2>1, <2>2, QuietOrdered
  <1> QED
    BY <1>2, <1>5, <1>6, <1>7, <1>8, <1>9

(* A listed intent is claimed while it is due, or its claim has expired; no *)
(* drain has it in hand.                                                    *)
LEMMA ClaimListedOrdered ==
  ASSUME Typed, Ordered, NEW d \in Drains, ClaimListed(d)
  PROVE  Ordered' /\ WaitersStay
  <1> DEFINE y == drain[d]
  <1>1. /\ DrainsOK /\ IntentsOK /\ y \in DrainRecords /\ DrainOK(y) /\ Placed(y) /\ y.pc = "list"
        /\ UNCHANGED <<job, request>> /\ DOMAIN y.seen # {}
    BY DEF Typed, DrainsOK, Ordered, AllPlaced, ClaimListed, At
  <1>2. \A e \in Drains \ {d} : drain'[e] = drain[e]
    BY <1>1, OthersKept DEF Step
  <1>3. y.intent = None /\ ~y.exec /\ Settling(y)
    BY <1>1 DEF DrainOK, NoWork, Placed, Settling
  <1>4. PICK i \in Intents : i = Oldest(DOMAIN y.seen) /\ i \in DOMAIN y.seen
    BY <1>1, SeenFacts, OldestFacts DEF DrainRecords
  <1>5. \/ /\ intent[i].status = y.seen[i] /\ (intent[i].status = "processing" => StaleClaim(i))
           /\ intent' = [intent EXCEPT ![i] = Claimed(@)] /\ Handle(d, i)
        \/ UNCHANGED intent /\ drain' = [drain EXCEPT ![d].seen = Rest(@, i)]
    BY <1>4 DEF ClaimListed
  <1>6. \A k \in DOMAIN Rest(y.seen, i) : Rest(y.seen, i)[k] \in DueStatuses
    BY <1>1 DEF Placed, Rest
  <1>7. CASE UNCHANGED intent /\ drain' = [drain EXCEPT ![d].seen = Rest(@, i)]
    <2>1. /\ drain'[d].pc = "list" /\ drain'[d].intent = None /\ ~drain'[d].exec
          /\ drain'[d].seen = Rest(y.seen, i)
      BY <1>1, <1>3, <1>7 DEF DrainsOK, DrainRecords
    <2>2. Placed(drain'[d])
      BY <1>6, <2>1 DEF Placed
    <2> QED
      BY <1>1, <1>2, <1>3, <1>7, <2>1, <2>2, QuietOrdered
  <1>8. CASE /\ intent[i].status = y.seen[i] /\ (intent[i].status = "processing" => StaleClaim(i))
             /\ intent' = [intent EXCEPT ![i] = Claimed(@)] /\ Handle(d, i)
    <2>1. /\ drain'[d].pc = "enqueue" /\ drain'[d].intent = i /\ drain'[d].res = "none"
          /\ ~drain'[d].exec /\ drain'[d].seen = Rest(y.seen, i)
      BY <1>1, <1>3, <1>8, HandleFacts
    <2>2. intent'[i].status = "processing" /\ intent'[i].age = 0
          /\ \A k \in Intents \ {i} : intent'[k] = intent[k]
      BY <1>1, <1>8 DEF Claimed, IntentsOK, IntentRecords
    <2>3. intent[i].status \in DueStatuses /\ RowGood(intent[i], job[i]) /\ ~StaleRun(i)
      BY <1>1, <1>3, <1>4, <1>8 DEF Placed, Ordered, RowsGood, Settled
    <2>4. job[i].status # "running"
      BY <1>8, <2>3 DEF RowGood, StaleRun, StaleClaim
    <2>5. ~Expired(0)
      BY BoundsAssumption DEF Expired
    <2>6. \A e \in Drains : drain[e].intent # i
      BY <1>8 DEF Ordered, AllHeld, HeldBy, StaleClaim
    <2>7. RowsGood'
      <3>1. RowGood(intent'[i], job'[i])
        BY <1>1, <2>2, <2>4 DEF RowGood, GateHolds
      <3> QED
        BY <1>1, <2>2, <3>1 DEF Ordered, RowsGood
    <2>8. AllPlaced'
      <3>1. Placed(drain'[d])
        BY <1>6, <2>1 DEF Placed
      <3> QED
        BY <1>2, <3>1 DEF Ordered, AllPlaced
    <2>9. AllHeld'
      <3> SUFFICES ASSUME NEW e \in Drains, NEW k \in Intents, drain'[e].intent = k
                   PROVE  HeldBy(e, drain'[e], intent'[k], job'[k])
        BY DEF AllHeld
      <3>1. CASE e = d
        BY <1>1, <2>1, <2>2, <2>4, <2>5, <3>1 DEF HeldBy
      <3>2. CASE e # d
        <4>1. k # i /\ drain'[e] = drain[e] /\ intent'[k] = intent[k] /\ job'[k] = job[k]
          BY <1>1, <1>2, <2>2, <2>6, <3>2
        <4> QED
          BY <4>1 DEF Ordered, AllHeld
      <3> QED
        BY <3>1, <3>2
    <2>10. OneHand'
      BY <1>2, <2>1, <2>6 DEF Ordered, OneHand
    <2>11. OnlyItsRun' /\ SingleRun'
      BY <1>1, <1>2, <2>1 DEF Ordered, OnlyItsRun, SingleRun
    <2>12. Settled'
      BY <1>1, <1>2, <1>3 DEF Ordered, Settled, StaleRun
    <2>13. WaitersStay
      BY <2>2, <2>3 DEF WaitersStay, DueStatuses
    <2> QED
      BY <1>1, <2>7, <2>8, <2>9, <2>10, <2>11, <2>12, <2>13 DEF Ordered
  <1> QED
    BY <1>5, <1>7, <1>8

(* A drain that executes claims where no drain has anything in hand and     *)
(* nothing runs.                                                            *)
LEMMA FreeFacts ==
  ASSUME Typed, Ordered, ~InFlight
  PROVE  /\ \A d \in Drains : drain[d].intent = None
         /\ \A i \in Intents : QuarantinedJobs[i].status # "running"
  <1>1. \A i \in Intents : QuarantinedJobs[i].status # "running"
    BY DEF InFlight
  <1>2. ASSUME NEW d \in Drains, drain[d].intent # None PROVE FALSE
    <2>1. PICK i \in Intents : drain[d].intent = i
      BY <1>2 DEF Typed, DrainsOK, DrainRecords
    <2>2. HeldBy(d, drain[d], intent[i], job[i]) /\ RowGood(intent[i], job[i])
      BY <2>1 DEF Ordered, AllHeld, RowsGood
    <2>3. ~StaleRun(i) /\ intent[i].status = "processing" /\ ~Expired(intent[i].age)
      BY <2>2 DEF HeldBy, RowGood, StaleRun
    <2>4. QuarantinedIntents[i] = intent[i]
      BY <2>3, QuarantineFacts DEF Returned, Typed
    <2> QED
      BY <2>3, <2>4 DEF InFlight
  <1> QED
    BY <1>1, <1>2

(* A drain claims, after settling and parking what is stale.                *)
LEMMA ClaimOrdered ==
  ASSUME Typed, Ordered, NEW d \in Drains, Claim(d)
  PROVE  Ordered' /\ WaitersStay
  <1> DEFINE y == drain[d]
             parked == [i \in Intents |-> Parked(QuarantinedIntents[i], QuarantinedJobs[i])]
             due == {i \in Intents \ y.done : Due(i, parked[i])}
  <1>1. /\ IntentsOK /\ JobsOK /\ DrainsOK /\ y \in DrainRecords /\ Placed(y) /\ y.pc = "loop"
        /\ UNCHANGED request /\ job' = QuarantinedJobs
    BY DEF Typed, DrainsOK, Ordered, AllPlaced, Claim, At
  <1>2. \A e \in Drains \ {d} : drain'[e] = drain[e]
    BY <1>1, OthersKept DEF Step
  <1>3. Idle.intent = None /\ Placed(Idle) /\ ~Settling(Idle)
    BY DEF Idle, Placed, Settling
  <1>4. CASE InFlight
    <2>1. drain'[d] = Idle /\ intent' = QuarantinedIntents
      BY <1>1, <1>4 DEF Claim, DrainsOK
    <2> QED
      BY <1>1, <1>2, <1>3, <2>1, QuietOrdered
  <1>5. CASE ~InFlight
    <2>1. /\ \A e \in Drains : drain[e].intent = None
          /\ \A i \in Intents : job'[i].status # "running"
      BY <1>1, <1>5, FreeFacts
    <2>2. parked \in [Intents -> IntentRecords]
      BY <1>1, QuarantineTyped, ParkedTyped
    <2>3. ASSUME NEW i \in Intents
          PROVE  /\ RowGood(parked[i], job'[i])
                 /\ intent[i].status = "needs_explicit_schedule"
                    => parked[i].status = "needs_explicit_schedule"
      <3>1. QuarantinedIntents[i] \in IntentRecords /\ RowGood(intent[i], job[i])
        BY <1>1, QuarantineTyped DEF Ordered, RowsGood
      <3>2. \/ QuarantinedIntents[i] = intent[i] /\ (intent[i].status = "completed" => job'[i] = job[i])
            \/ intent[i].status = "processing" /\ QuarantinedIntents[i].status = "retryable"
        <4>1. Returned(i) /\ LinkedProcessing(i) => intent[i].status = "processing"
          BY DEF LinkedProcessing
        <4>2. intent[i].status = "completed" => ~StaleRun(i)
          BY <3>1 DEF RowGood, StaleRun
        <4> QED
          BY <1>1, <4>1, <4>2, QuarantineFacts
      <3>3. /\ QuarantinedIntents[i].status \notin GateHolds
            /\ QuarantinedIntents[i].status = "completed" => job'[i].status = "succeeded"
            /\ intent[i].status = "needs_explicit_schedule"
               => QuarantinedIntents[i].status = "needs_explicit_schedule"
        BY <3>1, <3>2 DEF RowGood, GateHolds
      <3>4. \/ parked[i] = QuarantinedIntents[i]
            \/ /\ QuarantinedIntents[i].status = "processing"
               /\ \/ parked[i].status \in {"scheduled", "retryable"}
                  \/ parked[i].status = "completed" /\ job'[i].status = "succeeded"
        BY <1>1, <3>1, ParkedFacts
      <3> HIDE DEF parked
      <3>5. /\ parked[i].status \notin GateHolds
            /\ parked[i].status = "completed" => job'[i].status = "succeeded"
        BY <3>3, <3>4 DEF GateHolds
      <3>6. intent[i].status = "needs_explicit_schedule"
            => parked[i].status = "needs_explicit_schedule"
        BY <3>3, <3>4
      <3> QED
        BY <2>1, <3>5, <3>6 DEF RowGood
    <2>4. /\ due \subseteq Intents
          /\ \/ intent' = parked /\ drain' = [drain EXCEPT ![d] = Idle]
             \/ /\ due # {} /\ intent' = [parked EXCEPT ![Fair(due)] = Claimed(@)]
                /\ Handle(d, Fair(due))
      BY <1>5 DEF Claim
    <2>5. \A i \in due : parked[i].status # "needs_explicit_schedule"
      BY DEF Due
    <2> HIDE DEF parked, due
    <2>6. OnlyItsRun' /\ SingleRun' /\ Settled'
      BY <2>1 DEF OnlyItsRun, SingleRun, Settled, StaleRun
    <2>7. \A e \in Drains \ {d} : drain'[e].intent = None /\ Placed(drain'[e])
      BY <1>2, <2>1 DEF Ordered, AllPlaced
    <2>8. OneHand'
      BY <2>7 DEF OneHand
    <2>9. CASE intent' = parked /\ drain' = [drain EXCEPT ![d] = Idle]
      <3>1. drain'[d] = Idle
        BY <1>1, <2>9 DEF DrainsOK
      <3>2. AllPlaced' /\ AllHeld'
        BY <1>3, <2>7, <3>1, NoneAssumption DEF AllPlaced, AllHeld
      <3>3. RowsGood' /\ WaitersStay
        BY <2>3, <2>9 DEF RowsGood, WaitersStay
      <3> QED
        BY <1>1, <2>6, <2>8, <3>2, <3>3 DEF Ordered
    <2>10. CASE /\ due # {} /\ intent' = [parked EXCEPT ![Fair(due)] = Claimed(@)]
                /\ Handle(d, Fair(due))
      <3>1. PICK i \in Intents : i = Fair(due) /\ i \in due
        BY <2>4, <2>10, FairFacts
      <3>2. /\ drain'[d].pc = "enqueue" /\ drain'[d].intent = i /\ drain'[d].res = "none"
            /\ drain'[d].exec = y.exec /\ drain'[d].seen = IF y.exec THEN y.seen ELSE Rest(y.seen, i)
        BY <1>1, <2>10, <3>1, HandleFacts
      <3>3. /\ intent'[i].status = "processing" /\ intent'[i].age = 0
            /\ \A k \in Intents \ {i} : intent'[k] = parked[k]
        BY <2>2, <2>10, <3>1 DEF Claimed, IntentRecords
      <3>4. ~Expired(0)
        BY BoundsAssumption DEF Expired
      <3>5. AllPlaced'
        <4>1. Placed(drain'[d])
          BY <1>1, <3>2 DEF Placed
        <4> QED
          BY <2>7, <4>1 DEF AllPlaced
      <3>6. AllHeld'
        <4>1. HeldBy(d, drain'[d], intent'[i], job'[i])
          BY <2>1, <3>2, <3>3, <3>4 DEF HeldBy
        <4> QED
          BY <2>7, <3>2, <4>1, NoneAssumption DEF AllHeld
      <3>7. RowsGood'
        <4>1. RowGood(intent'[i], job'[i])
          BY <2>1, <3>3 DEF RowGood, GateHolds
        <4> QED
          BY <2>3, <3>3, <4>1 DEF RowsGood
      <3>8. WaitersStay
        BY <2>3, <2>5, <3>1, <3>3 DEF WaitersStay
      <3> QED
        BY <1>1, <2>6, <2>8, <3>5, <3>6, <3>7, <3>8 DEF Ordered
    <2> QED
      BY <2>4, <2>9, <2>10
  <1> QED
    BY <1>4, <1>5

(* What holds of a drain that works on the intent in its hand.              *)
HandStep(d) == EnqueueIntent(d) \/ Mark(d) \/ Begin(d) \/ StartAppend(d) \/ EndRun(d)
               \/ Return(d) \/ Finish(d)
InHand(d, i) ==
  /\ drain[d].intent = i /\ drain[d] \in DrainRecords /\ DrainsOK /\ DrainOK(drain[d])
  /\ IntentsOK /\ JobsOK /\ intent[i] \in IntentRecords /\ job[i] \in JobRecords
  /\ HeldBy(d, drain[d], intent[i], job[i]) /\ RowGood(intent[i], job[i]) /\ Placed(drain[d])
HandFrame(d, i) ==
  /\ \A e \in Drains \ {d} : drain'[e] = drain[e]
  /\ \A k \in Intents \ {i} : intent'[k] = intent[k] /\ job'[k] = job[k]
  /\ UNCHANGED request

(* A drain that works on an intent has it in its hand.                      *)
LEMMA InHandFacts ==
  ASSUME Typed, Ordered, NEW d \in Drains, HandStep(d)
  PROVE  \E i \in Intents : InHand(d, i) /\ HandFrame(d, i)
  <1>1. IntentsOK /\ JobsOK /\ DrainsOK /\ drain[d] \in DrainRecords /\ DrainOK(drain[d])
    BY DEF Typed, DrainsOK
  <1>2. drain[d].intent \in Intents
    BY <1>1 DEF DrainOK, DrainRecords, NoWork, HandStep, EnqueueIntent, Mark, Begin, StartAppend,
                EndRun, Return, Finish, At
  <1>3. PICK i \in Intents : drain[d].intent = i
    BY <1>2
  <1>4. InHand(d, i)
    BY <1>1, <1>3 DEF InHand, Ordered, AllHeld, RowsGood, AllPlaced, IntentsOK, JobsOK
  <1>5. \A e \in Drains \ {d} : drain'[e] = drain[e]
    BY <1>1, OthersKept DEF HandStep, Step
  <1>6. \A k \in Intents \ {i} : intent'[k] = intent[k] /\ job'[k] = job[k]
    BY <1>1, <1>3, HandRows DEF HandStep
  <1>7. UNCHANGED request
    BY DEF HandStep, EnqueueIntent, Mark, Begin, StartAppend, EndRun, Return, Finish
  <1> QED
    BY <1>4, <1>5, <1>6, <1>7 DEF HandFrame

(* The enqueue tells of a job, or refuses; no gate holds the lead.          *)
LEMMA EnqueueOrdered ==
  ASSUME Typed, Ordered, InLease, NEW d \in Drains, EnqueueIntent(d)
  PROVE  Ordered' /\ WaitersStay
  <1>1. PICK i \in Intents : InHand(d, i) /\ HandFrame(d, i)
    BY InHandFacts DEF HandStep
  <1>2. PICK res \in Results : /\ Enqueue(i, res)
                               /\ drain' = [drain EXCEPT ![d].pc = "mark", ![d].res = res]
    BY <1>1 DEF EnqueueIntent, InHand
  <1> DEFINE y == drain[d]
  <1>3. /\ drain'[d].pc = "mark" /\ drain'[d].res = res /\ drain'[d].intent = i
        /\ drain'[d].exec = y.exec /\ drain'[d].seen = y.seen /\ y.pc = "enqueue" /\ UNCHANGED intent
    BY <1>1, <1>2 DEF InHand, DrainsOK, DrainRecords, EnqueueIntent, At
  <1>4. /\ job' = job \/ (job[i].status = "none" /\ job' = [job EXCEPT ![i].status = "queued"])
        /\ res \in Refusals(i) \/ res = job'[i].status \/ res = "blocked"
    BY <1>2, EnqueueFacts
  <1>5. job'[i].status = job[i].status \/ job'[i].status = "queued"
    BY <1>1, <1>4 DEF InHand, JobsOK, JobRecords
  <1>6. job[i].status \in JobStatuses /\ job[i].status # "running"
    BY <1>1, <1>3 DEF InHand, JobRecords, HeldBy
  <1>7. Refusals(i) \subseteq {"setup", "blocked", "retry"}
    BY DEF Refusals, GateAnswers, InLease
  <1>8. res \in Told /\ (res = "succeeded" => job'[i].status = "succeeded")
    BY <1>4, <1>5, <1>6, <1>7 DEF Told, JobStatuses
  <1>9. Placed(drain'[d])
    BY <1>1, <1>3, <1>8 DEF InHand, Placed
  <1>10. HeldBy(d, drain'[d], intent'[i], job'[i])
    BY <1>1, <1>3, <1>5, <1>6, <1>8 DEF InHand, HeldBy
  <1>11. RowGood(intent'[i], job'[i])
    BY <1>1, <1>3, <1>5, <1>6 DEF InHand, HeldBy, RowGood, GateHolds
  <1> QED
    BY <1>1, <1>3, <1>5, <1>6, <1>9, <1>10, <1>11, HandOrdered DEF InHand, HandFrame

(* The outcome is stored: an intent to execute keeps its claim, any other   *)
(* is put down.                                                             *)
LEMMA MarkOrdered ==
  ASSUME Typed, Ordered, NEW d \in Drains, Mark(d)
  PROVE  Ordered' /\ WaitersStay
  <1>1. PICK i \in Intents : InHand(d, i) /\ HandFrame(d, i)
    BY InHandFacts DEF HandStep
  <1> DEFINE y == drain[d]
             linked == intent[i].linked \/ y.res \in JobStatuses
  <1>2. PICK status : status = Outcome(i, y.res, y.exec)
    OBVIOUS
  <1>3. /\ intent' = [intent EXCEPT ![i].status = status, ![i].linked = @ \/ y.res \in JobStatuses,
                                    ![i].wait = @ \/ status = "retryable"]
        /\ drain' = IF status = "processing" THEN [drain EXCEPT ![d].pc = "execute"]
                    ELSE [drain EXCEPT ![d].pc = NextPc(d), ![d].intent = None, ![d].res = "none"]
        /\ UNCHANGED job
    BY <1>1, <1>2 DEF Mark, InHand
  <1>4. y.pc = "mark" /\ y.res \in Told /\ job[i].status # "running"
    BY <1>1 DEF Mark, At, InHand, Placed, HeldBy
  <1>5. intent'[i].status = status /\ intent'[i].age = intent[i].age
    BY <1>1, <1>3 DEF InHand, IntentsOK, IntentRecords
  <1>6. y.res \in JobStatuses => intent'[i].linked
    BY <1>1, <1>3 DEF InHand, IntentsOK, IntentRecords
  <1>7. status \notin GateHolds /\ (status = "completed" => y.res = "succeeded")
    BY <1>2, <1>4 DEF Outcome, Told, JobStatuses, GateHolds, SetupHold
  <1>8. status = "processing" => y.exec /\ y.res \in JobStatuses /\ y.res # "succeeded"
    BY <1>2, <1>4 DEF Outcome, Told, SetupHold, GateHolds, JobStatuses
  <1>9. RowGood(intent'[i], job'[i])
    BY <1>1, <1>3, <1>4, <1>5, <1>7 DEF InHand, RowGood, HeldBy
  <1>10. CASE status = "processing"
    <2>1. /\ drain'[d].pc = "execute" /\ drain'[d].exec = y.exec /\ drain'[d].intent = i
          /\ drain'[d].res = y.res /\ drain'[d].seen = y.seen
      BY <1>1, <1>3, <1>10 DEF InHand, DrainsOK, DrainRecords
    <2>2. Placed(drain'[d])
      BY <1>1, <1>8, <1>10, <2>1 DEF InHand, Placed
    <2>3. HeldBy(d, drain'[d], intent'[i], job'[i])
      BY <1>1, <1>3, <1>4, <1>5, <1>6, <1>8, <1>10, <2>1 DEF InHand, HeldBy
    <2> QED
      BY <1>1, <1>3, <1>4, <1>9, <2>1, <2>2, <2>3, HandOrdered DEF InHand, HandFrame
  <1>11. CASE status # "processing"
    <2>1. /\ drain'[d].pc = NextPc(d) /\ drain'[d].exec = y.exec /\ drain'[d].intent = None
          /\ drain'[d].seen = y.seen
      BY <1>1, <1>3, <1>11 DEF InHand, DrainsOK, DrainRecords
    <2>2. Placed(drain'[d]) /\ drain'[d].pc # "settled"
      BY <1>1, <2>1 DEF InHand, Placed, NextPc
    <2> QED
      BY <1>1, <1>3, <1>4, <1>9, <2>1, <2>2, HandOrdered DEF InHand, HandFrame
  <1> QED
    BY <1>10, <1>11

(* The run begins, or what is found is answered.                            *)
LEMMA BeginOrdered ==
  ASSUME Typed, Ordered, NEW d \in Drains, Begin(d)
  PROVE  Ordered' /\ WaitersStay
  <1>1. PICK i \in Intents : InHand(d, i) /\ HandFrame(d, i)
    BY InHandFacts DEF HandStep
  <1> DEFINE y == drain[d]
  <1>2. /\ y.pc = "execute" /\ y.exec /\ job[i].status # "running" /\ intent[i].linked
        /\ intent[i].age = 0 /\ intent[i].status = "processing" /\ ~Expired(intent[i].age)
        /\ y.res # "succeeded" \/ job[i].status = "succeeded"
    BY <1>1 DEF Begin, At, InHand, Placed, HeldBy
  <1>3. /\ UNCHANGED intent
        /\ \/ /\ job' = [job EXCEPT ![i].status = "running", ![i].owner = d, ![i].age = 0]
              /\ drain' = [drain EXCEPT ![d].pc = "running"]
              /\ job[i].status \in {"queued", "retryable"}
           \/ /\ UNCHANGED job
              /\ \E res : Answer(d, res) /\ (res = "succeeded" => job[i].status = "succeeded")
    BY <1>1, <1>2 DEF Begin, InHand, StaleRun
  <1>4. CASE /\ job' = [job EXCEPT ![i].status = "running", ![i].owner = d, ![i].age = 0]
             /\ drain' = [drain EXCEPT ![d].pc = "running"]
             /\ job[i].status \in {"queued", "retryable"}
    <2>1. /\ drain'[d].pc = "running" /\ drain'[d].exec = y.exec /\ drain'[d].intent = i
          /\ drain'[d].res = y.res /\ drain'[d].seen = y.seen
      BY <1>1, <1>4 DEF InHand, DrainsOK, DrainRecords
    <2>2. job'[i].status = "running" /\ job'[i].owner = d /\ job'[i].age = 0
      BY <1>1, <1>4 DEF InHand, JobsOK, JobRecords
    <2>3. Placed(drain'[d])
      BY <1>1, <1>2, <2>1 DEF InHand, Placed
    <2>4. HeldBy(d, drain'[d], intent'[i], job'[i])
      BY <1>2, <1>3, <1>4, <2>1, <2>2 DEF HeldBy
    <2>5. RowGood(intent'[i], job'[i])
      BY <1>2, <1>3, <2>2 DEF RowGood, GateHolds
    <2>6. ~Expired(job'[i].age)
      BY <2>2, BoundsAssumption DEF Expired
    <2> QED
      BY <1>1, <1>2, <2>1, <2>2, <2>3, <2>4, <2>5, <2>6, HandOrdered DEF InHand, HandFrame
  <1>5. ASSUME NEW res, Answer(d, res), res = "succeeded" => job[i].status = "succeeded",
               UNCHANGED job
        PROVE  Ordered' /\ WaitersStay
    <2>1. /\ drain'[d].pc = "finish" /\ drain'[d].exec = y.exec /\ drain'[d].intent = i
          /\ drain'[d].res = res /\ drain'[d].seen = y.seen
      BY <1>1, <1>5 DEF Answer, InHand, DrainsOK, DrainRecords
    <2>2. Placed(drain'[d])
      BY <1>1, <1>2, <2>1 DEF InHand, Placed
    <2>3. HeldBy(d, drain'[d], intent'[i], job'[i])
      BY <1>2, <1>3, <1>5, <2>1 DEF HeldBy
    <2>4. RowGood(intent'[i], job'[i])
      BY <1>1, <1>3, <1>5 DEF InHand
    <2> QED
      BY <1>1, <1>2, <1>5, <2>1, <2>2, <2>3, <2>4, HandOrdered DEF InHand, HandFrame
  <1> QED
    BY <1>3, <1>4, <1>5

(* A run inside its lease goes on and ends as its own.                      *)
LEMMA RunOrdered ==
  ASSUME Typed, Ordered, InLease, NEW d \in Drains, StartAppend(d) \/ EndRun(d)
  PROVE  Ordered' /\ WaitersStay
  <1>1. PICK i \in Intents : InHand(d, i) /\ HandFrame(d, i)
    BY InHandFacts DEF HandStep
  <1> DEFINE y == drain[d]
  <1>2. /\ y.pc = "running" /\ y.exec /\ job[i].status = "running" /\ job[i].owner = d
        /\ intent[i].linked /\ intent[i].status = "processing" /\ ~Expired(intent[i].age)
        /\ y.res # "succeeded" /\ UNCHANGED intent
    BY <1>1 DEF StartAppend, EndRun, At, InHand, Placed, HeldBy
  <1>3. CASE StartAppend(d)
    <2>1. job' = [job EXCEPT ![i].marker = TRUE] /\ UNCHANGED drain
      BY <1>1, <1>2, <1>3 DEF StartAppend, InHand, Owns
    <2>2. job'[i].status = job[i].status /\ job'[i].owner = job[i].owner /\ job'[i].age = job[i].age
      BY <1>1, <2>1 DEF InHand, JobsOK, JobRecords
    <2>3. HeldBy(d, drain'[d], intent'[i], job'[i]) /\ Placed(drain'[d])
      BY <1>1, <1>2, <2>1, <2>2 DEF InHand, HeldBy
    <2>4. RowGood(intent'[i], job'[i])
      BY <1>1, <1>2, <2>2 DEF InHand, RowGood
    <2>5. job'[i].status = "running" /\ Expired(job'[i].age) => StaleRun(i)
      BY <1>2, <2>2 DEF StaleRun
    <2>6. /\ drain'[d] = y /\ y.intent = i /\ y.pc # "settled" /\ UNCHANGED request
          /\ \A e \in Drains \ {d} : drain'[e] = drain[e]
          /\ \A k \in Intents \ {i} : intent'[k] = intent[k] /\ job'[k] = job[k]
      BY <1>1, <1>2, <2>1 DEF InHand, HandFrame
    <2> HIDE DEF y
    <2> QED
      BY <1>2, <2>3, <2>4, <2>5, <2>6, HandOrdered DEF y
  <1>4. CASE EndRun(d)
    <2>1. PICK s \in RunEnds(i), all \in BOOLEAN :
            /\ job' = [job EXCEPT ![i].status = s, ![i].marker = @ /\ s = "uncertain",
                                  ![i].written = all]
            /\ drain' = [drain EXCEPT ![d].pc = "ended", ![d].res = s]
      BY <1>1, <1>4 DEF EndRun, InHand
    <2>2. /\ drain'[d].pc = "ended" /\ drain'[d].exec = y.exec /\ drain'[d].intent = i
          /\ drain'[d].res = s /\ drain'[d].seen = y.seen
      BY <1>1, <2>1 DEF InHand, DrainsOK, DrainRecords
    <2>3. job'[i].status = s /\ s # "running"
      BY <1>1, <2>1 DEF InHand, JobsOK, JobRecords, RunEnds
    <2>4. Placed(drain'[d])
      BY <1>1, <1>2, <2>2 DEF InHand, Placed
    <2>5. HeldBy(d, drain'[d], intent'[i], job'[i])
      BY <1>2, <2>2, <2>3 DEF HeldBy
    <2>6. RowGood(intent'[i], job'[i])
      BY <1>2, <2>3 DEF RowGood, GateHolds
    <2> QED
      BY <1>1, <2>2, <2>3, <2>4, <2>5, <2>6, HandOrdered DEF InHand, HandFrame
  <1> QED
    BY <1>3, <1>4

(* The outcome is answered, and stored.                                     *)
LEMMA OutcomeOrdered ==
  ASSUME Typed, Ordered, NEW d \in Drains, Return(d) \/ Finish(d)
  PROVE  Ordered' /\ WaitersStay
  <1>1. PICK i \in Intents : InHand(d, i) /\ HandFrame(d, i)
    BY InHandFacts DEF HandStep
  <1> DEFINE y == drain[d]
  <1>2. /\ y.pc \in {"ended", "finish"} /\ y.exec /\ job[i].status # "running"
        /\ intent[i].linked /\ intent[i].status = "processing" /\ ~Expired(intent[i].age)
        /\ y.res = "succeeded" => job[i].status = "succeeded"
    BY <1>1 DEF Return, Finish, At, InHand, Placed, HeldBy
  <1>3. CASE Return(d)
    <2>1. PICK res : /\ Answer(d, res) /\ UNCHANGED intent
                     /\ \/ UNCHANGED job /\ (res = "succeeded" => y.res = "succeeded")
                        \/ job' = [job EXCEPT ![i].status = "uncertain"] /\ res = "uncertain"
      BY <1>1, <1>3 DEF Return, InHand
    <2>2. /\ drain'[d].pc = "finish" /\ drain'[d].exec = y.exec /\ drain'[d].intent = i
          /\ drain'[d].res = res /\ drain'[d].seen = y.seen
      BY <1>1, <2>1 DEF Answer, InHand, DrainsOK, DrainRecords
    <2>3. job'[i].status # "running" /\ (res = "succeeded" => job'[i].status = "succeeded")
      BY <1>1, <1>2, <2>1 DEF InHand, JobsOK, JobRecords
    <2>4. Placed(drain'[d])
      BY <1>1, <1>2, <2>2 DEF InHand, Placed
    <2>5. HeldBy(d, drain'[d], intent'[i], job'[i])
      BY <1>2, <2>1, <2>2, <2>3 DEF HeldBy
    <2>6. RowGood(intent'[i], job'[i])
      BY <1>2, <2>1, <2>3 DEF RowGood, GateHolds
    <2> QED
      BY <1>1, <2>2, <2>3, <2>4, <2>5, <2>6, HandOrdered DEF InHand, HandFrame
  <1>4. CASE Finish(d)
    <2>1. /\ intent' = intent \/ intent' = [intent EXCEPT ![i].status = Verdict(y.res),
                                   ![i].wait = @ \/ Verdict(y.res) # "completed"]
          /\ drain' = [drain EXCEPT ![d].pc = "loop", ![d].intent = None, ![d].res = "none"]
          /\ UNCHANGED job
      BY <1>1, <1>4 DEF Finish, InHand
    <2>2. /\ drain'[d].pc = "loop" /\ drain'[d].exec = y.exec /\ drain'[d].intent = None
          /\ drain'[d].seen = y.seen
      BY <1>1, <2>1 DEF InHand, DrainsOK, DrainRecords
    <2>3. intent'[i].status = "processing" \/ intent'[i].status = Verdict(y.res)
      BY <1>1, <1>2, <2>1 DEF InHand, IntentsOK, IntentRecords
    <2>4. Placed(drain'[d])
      BY <1>1, <1>2, <2>2 DEF InHand, Placed
    <2>5. RowGood(intent'[i], job'[i])
      <3>1. Verdict(y.res) \in {"completed", "scheduled", "retryable"}
            /\ (Verdict(y.res) = "completed" => y.res = "succeeded")
        BY DEF Verdict
      <3>2. intent'[i].status \in {"processing", "completed", "scheduled", "retryable"}
            /\ (intent'[i].status = "completed" => y.res = "succeeded")
        BY <2>3, <3>1
      <3>3. job'[i] = job[i]
        BY <2>1
      <3> HIDE DEF y
      <3> QED
        BY <1>2, <3>2, <3>3 DEF RowGood, GateHolds
    <2>6. job'[i].status # "running"
      BY <1>2, <2>1
    <2> QED
      BY <1>1, <2>2, <2>4, <2>5, <2>6, HandOrdered DEF InHand, HandFrame
  <1> QED
    BY <1>3, <1>4

(* Intake, releases of holds, the flag and time.                            *)
LEMMA OperatorOrdered ==
  ASSUME Typed, Ordered, InLease, NEW k \in Intents,
         Record(k) \/ BindTab(k) \/ RequestRecovery(k) \/ Schedule(k) \/ Release(k)
  PROVE  Ordered' /\ WaitersStay
  <1>1. IntentsOK /\ JobsOK /\ RowGood(intent[k], job[k])
    BY DEF Typed, Ordered, RowsGood
  <1>2. ~RequestRecovery(k) /\ ~Schedule(k)
    BY DEF RequestRecovery, Schedule, InLease
  <1>3. CASE BindTab(k)
    BY <1>3 DEF BindTab, Ordered, RowsGood, AllPlaced, AllHeld, OneHand, OnlyItsRun, SingleRun,
                Settled, StaleRun, WaitersStay
  <1>4. CASE Record(k)
    <2>1. PICK gate \in GateAnswers(k) : intent' = [intent EXCEPT ![k].status = NewStatus(k, gate)]
      BY <1>4 DEF Record
    <2>2. intent[k].status = "absent" /\ UNCHANGED <<job, drain, request>>
      BY <1>1, <1>4 DEF Record, RowGood, GateHolds
    <2>3. intent'[k].status \in {"pending", "awaiting_setup", "needs_explicit_schedule"}
          /\ \A i \in Intents \ {k} : intent'[i] = intent[i]
      <3>1. gate = "ok"
        BY DEF GateAnswers, InLease
      <3> QED
        BY <1>1, <2>1, <3>1 DEF NewStatus, IntentsOK, IntentRecords
    <2>4. RowsGood'
      <3>1. RowGood(intent'[k], job'[k])
        BY <1>1, <2>2, <2>3 DEF RowGood, GateHolds
      <3> QED
        BY <2>2, <2>3, <3>1 DEF Ordered, RowsGood
    <2>5. AllHeld'
      BY <2>2, <2>3 DEF Ordered, AllHeld, HeldBy
    <2>6. AllPlaced' /\ OneHand' /\ OnlyItsRun' /\ SingleRun' /\ Settled'
      BY <2>2 DEF Ordered, AllPlaced, OneHand, OnlyItsRun, SingleRun, Settled, StaleRun
    <2>7. WaitersStay
      BY <2>2, <2>3 DEF WaitersStay
    <2> QED
      BY <2>2, <2>4, <2>5, <2>6, <2>7 DEF Ordered
  <1>5. CASE Release(k)
    <2>1. PICK s \in {"succeeded", "retryable"} :
            job' = [job EXCEPT ![k].status = s, ![k].marker = FALSE, ![k].written = s = "succeeded"]
      BY <1>5 DEF Release
    <2>2. job[k].status = "uncertain" /\ UNCHANGED <<intent, drain, request>>
      BY <1>5 DEF Release
    <2>3. job'[k].status = s /\ \A i \in Intents \ {k} : job'[i] = job[i]
      BY <1>1, <2>1 DEF JobsOK, JobRecords
    <2>4. RowsGood'
      <3>1. RowGood(intent'[k], job'[k])
        BY <1>1, <2>2, <2>3 DEF RowGood
      <3> QED
        BY <2>2, <2>3, <3>1 DEF Ordered, RowsGood
    <2>5. AllHeld'
      <3> SUFFICES ASSUME NEW d \in Drains, NEW i \in Intents, drain[d].intent = i
                   PROVE  HeldBy(d, drain[d], intent[i], job'[i])
        BY <2>2 DEF AllHeld
      <3>1. HeldBy(d, drain[d], intent[i], job[i])
        BY DEF Ordered, AllHeld
      <3>2. CASE i = k
        BY <2>2, <2>3, <3>1, <3>2 DEF HeldBy
      <3>3. CASE i # k
        BY <2>3, <3>1, <3>3
      <3> QED
        BY <3>2, <3>3
    <2>6. AllPlaced' /\ OneHand' /\ OnlyItsRun' /\ SingleRun' /\ Settled'
      <3>1. \A i \in Intents : job'[i].status = "running" => job'[i] = job[i]
        BY <2>3
      <3> QED
        BY <2>2, <3>1 DEF Ordered, AllPlaced, OneHand, OnlyItsRun, SingleRun, Settled, StaleRun
    <2> QED
      BY <2>2, <2>4, <2>5, <2>6 DEF Ordered, WaitersStay
  <1> QED
    BY <1>2, <1>3, <1>4, <1>5

(* Time passes only while runs are inside their lease.                      *)
LEMMA TickOrdered ==
  ASSUME Typed, Ordered, InLease, Tick
  PROVE  Ordered' /\ WaitersStay
  <1>1. /\ IntentsOK /\ JobsOK /\ DrainsOK /\ UNCHANGED request
        /\ \A d \in Drains : drain[d].pc \in {"idle", "running"}
        /\ \A d \in Drains : At(d, "running") /\ Owns(d) => job[drain[d].intent].age < Lease
    BY DEF Typed, Tick, InPace, InLease
  <1>2. ASSUME NEW d \in Drains
        PROVE  /\ drain'[d].pc = drain[d].pc /\ drain'[d].exec = drain[d].exec
               /\ drain'[d].intent = drain[d].intent /\ drain'[d].res = drain[d].res
               /\ drain'[d].seen = drain[d].seen
    <2>1. drain[d] \in DrainRecords
      BY <1>1 DEF DrainsOK
    <2> QED
      BY <2>1 DEF Tick, DrainRecords
  <1>3. ASSUME NEW i \in Intents
        PROVE  /\ intent'[i].status = intent[i].status /\ intent'[i].linked = intent[i].linked
               /\ intent'[i].age = Older(intent[i].age)
               /\ job'[i].status = job[i].status /\ job'[i].owner = job[i].owner
               /\ job[i].status = "running" => job'[i].age = Older(job[i].age)
    <2>1. intent[i] \in IntentRecords /\ job[i] \in JobRecords
      BY <1>1 DEF IntentsOK, JobsOK
    <2> QED
      BY <2>1 DEF Tick, IntentRecords, JobRecords
  <1>4. RowsGood'
    BY <1>3 DEF Ordered, RowsGood, RowGood
  <1>5. AllPlaced' /\ OneHand' /\ OnlyItsRun' /\ SingleRun'
    BY <1>2, <1>3 DEF Ordered, AllPlaced, Placed, OneHand, OnlyItsRun, SingleRun
  <1>6. AllHeld'
    <2> SUFFICES ASSUME NEW d \in Drains, NEW i \in Intents, drain'[d].intent = i
                 PROVE  HeldBy(d, drain'[d], intent'[i], job'[i])
      BY DEF AllHeld
    <2>1. drain[d].intent = i /\ HeldBy(d, drain[d], intent[i], job[i]) /\ RowGood(intent[i], job[i])
      BY <1>2 DEF Ordered, AllHeld, RowsGood
    <2>2. drain[d].pc = "running"
      BY <1>1, <2>1, NoneAssumption DEF DrainsOK, DrainOK, NoWork
    <2>3. job[i].age < Lease /\ intent[i].age = job[i].age
      BY <1>1, <2>1, <2>2 DEF HeldBy, RowGood, At, Owns
    <2>4. intent[i].age \in Nat
      <3>1. intent[i] \in IntentRecords
        BY <1>1 DEF IntentsOK
      <3> QED
        BY <3>1 DEF IntentRecords, Ages
    <2>5. ~Expired(intent'[i].age)
      BY <1>3, <2>3, <2>4, BoundsAssumption DEF Older, Expired
    <2> QED
      BY <1>2, <1>3, <2>1, <2>2, <2>5 DEF HeldBy
  <1>7. Settled'
    <2> SUFFICES ASSUME NEW d \in Drains PROVE ~Settling(drain'[d])
      BY DEF Settled
    <2>1. Placed(drain[d]) /\ DrainOK(drain[d]) /\ drain[d].pc \in {"idle", "running"}
      BY <1>1 DEF Ordered, AllPlaced, DrainsOK
    <2> QED
      BY <1>2, <2>1 DEF Settling, Placed, DrainOK, NoWork
  <1>8. WaitersStay
    BY <1>3 DEF WaitersStay
  <1> QED
    BY <1>1, <1>4, <1>5, <1>6, <1>7, <1>8 DEF Ordered

(* At first no drain has anything in hand.                                  *)
LEMMA InitOrdered == Init => Ordered
  <1> SUFFICES ASSUME Init PROVE Ordered
    OBVIOUS
  <1>1. \A i \in Intents : intent[i].status = "absent" /\ job[i].status = "none"
    BY DEF Init, NoJob
  <1>2. \A d \in Drains : drain[d] = Idle
    BY DEF Init
  <1>3. Idle.intent = None /\ Placed(Idle) /\ ~Settling(Idle)
    BY DEF Idle, Placed, Settling
  <1> QED
    BY <1>1, <1>2, <1>3, NoneAssumption DEF Init, Ordered, RowsGood, RowGood, GateHolds, AllPlaced,
       AllHeld, OneHand, OnlyItsRun, SingleRun, Settled

(* Every step inside the lease keeps the order.                             *)
LEMMA NextOrdered ==
  ASSUME Typed, Ordered, InLease, [Next]_vars
  PROVE  Ordered' /\ WaitersStay
  <1>1. CASE \E d \in Drains : Start(d) \/ Step(d) \/ Die(d)
    BY <1>1, LookingOrdered, ClaimListedOrdered, ClaimOrdered, EnqueueOrdered, MarkOrdered,
       BeginOrdered, RunOrdered, OutcomeOrdered DEF Step
  <1>2. CASE \E i \in Intents : Record(i) \/ BindTab(i) \/ RequestRecovery(i) \/ Schedule(i)
                                \/ Release(i)
    BY <1>2, OperatorOrdered
  <1>3. CASE RequestStep
    BY <1>3 DEF RequestStep, RequestPromote, ScheduleEnqueue, ScheduleMark, Ordered, NoRequest
  <1>4. CASE Tick
    BY <1>4, TickOrdered
  <1>5. CASE SwitchFlag \/ Calm \/ UNCHANGED vars
    <2>1. UNCHANGED <<intent, job, drain, request>>
      BY <1>5 DEF SwitchFlag, Calm, vars
    <2> QED
      BY <2>1 DEF Ordered, RowsGood, AllPlaced, AllHeld, OneHand, OnlyItsRun, SingleRun, Settled,
         StaleRun, WaitersStay
  <1> QED
    BY <1>1, <1>2, <1>3, <1>4, <1>5 DEF Next

(* The order holds in every reachable state.                                *)
LEMMA OrderedAlways ==
  ASSUME InLease
  PROVE  Spec => [](Typed /\ Ordered)
  <1>1. Init => Typed /\ Ordered
    BY InitTyped, InitOrdered
  <1>2. Typed /\ Ordered /\ [Next]_vars => (Typed /\ Ordered)'
    BY NextTyped, NextOrdered
  <1> QED
    BY <1>1, <1>2, PTL DEF Spec

(* "A running job inside the lease, or a processing intent inside the       *)
(* lease, blocks a second execution": drains that overlap, die, or find     *)
(* execution off never reserve two executions.                              *)
THEOREM ExecutedAlone == InLease => (Spec => []OneExecution)
  <1> SUFFICES ASSUME InLease PROVE Spec => []OneExecution
    OBVIOUS
  <1>1. Typed /\ Ordered => OneExecution
    <2> SUFFICES ASSUME Typed, Ordered, NEW d \in Drains, NEW e \in Drains, Reserves(d), Reserves(e)
                 PROVE  d = e
      BY DEF OneExecution
    <2>1. drain[d].exec /\ drain[e].exec /\ drain[d].intent # None /\ drain[e].intent # None
      BY DEF Reserves, At, Typed, DrainsOK, DrainOK, NoWork
    <2> QED
      BY <2>1 DEF Ordered, OneHand
  <1> QED
    BY <1>1, OrderedAlways, PTL

(* The same of the job rows alone: no two jobs run inside their lease, not  *)
(* even one that a dead drain left behind and another that began after it.  *)
THEOREM RunsAlone == InLease => (Spec => []OneRun)
  <1> SUFFICES ASSUME InLease PROVE Spec => []OneRun
    OBVIOUS
  <1>1. Ordered => OneRun
    BY DEF Ordered, SingleRun, OneRun
  <1> QED
    BY <1>1, OrderedAlways, PTL

(* "Stay processing until execute returns": while a job runs inside its     *)
(* lease its intent shows the reservation other drains look for.            *)
THEOREM ReservationSeen == InLease => (Spec => []ReservationShown)
  <1> SUFFICES ASSUME InLease PROVE Spec => []ReservationShown
    OBVIOUS
  <1>1. Ordered => ReservationShown
    BY DEF Ordered, RowsGood, RowGood, ReservationShown
  <1> QED
    BY <1>1, OrderedAlways, PTL

(* What the admin page shows as delivered is: a completed intent's job is   *)
(* succeeded, though an error raised after the outcome was stored may turn  *)
(* a job back into uncertain.                                               *)
THEOREM CompletedAreDelivered == InLease => (Spec => []CompletedIsDelivered)
  <1> SUFFICES ASSUME InLease PROVE Spec => []CompletedIsDelivered
    OBVIOUS
  <1>1. Ordered => CompletedIsDelivered
    BY DEF Ordered, RowsGood, RowGood, CompletedIsDelivered
  <1> QED
    BY <1>1, OrderedAlways, PTL

(* "Parked and not retried into a later status change": no drain revives an *)
(* intent that waits for its explicit schedule or for a review.             *)
THEOREM WaitersAreLeft == InLease => (Spec => ParkedStays)
  <1> SUFFICES ASSUME InLease PROVE Spec => ParkedStays
    OBVIOUS
  <1>1. Typed /\ Ordered /\ [Next]_vars
        => [\A i \in Intents : intent[i].status \in {"needs_explicit_schedule", "review_held"}
                               => intent'[i].status = intent[i].status]_vars
    <2> SUFFICES ASSUME Typed, Ordered, [Next]_vars, NEW i \in Intents,
                        intent[i].status \in {"needs_explicit_schedule", "review_held"}
                 PROVE  intent'[i].status = intent[i].status
      OBVIOUS
    <2>1. intent[i].status = "needs_explicit_schedule"
      BY DEF Ordered, RowsGood, RowGood, GateHolds
    <2> QED
      BY <2>1, NextOrdered DEF WaitersStay
  <1> QED
    BY <1>1, OrderedAlways, PTL DEF Spec, ParkedStays
=============================================================================
