------------------------- MODULE GhlDelivery_proofs -------------------------
(***************************************************************************)
(* What holds of the GHL delivery of any number of leads by any number of  *)
(* requests, drains and operators, whatever is lost, refused or fails; and *)
(* that no effect is sent twice when attempts end before the clock moves   *)
(* and no operator tests a plan while others are at work.                  *)
(***************************************************************************)
EXTENDS GhlDelivery, TLAPS

RowRecords == [status : RowStatuses, age : Ages, failed : BOOLEAN, ext : BOOLEAN]
RunRecords == [status : RunStatuses, steps : SUBSET Steps]
Lists == UNION {[S -> {"pending", "executing"}] : S \in SUBSET Leads}
Locals == [pc : Pcs, drain : BOOLEAN, lead : Leads \cup {Nobody}, listed : Lists, age : Ages,
           prior : SUBSET Receipts, made : SUBSET Steps, end : Ends]

(* What a worker holds at each place.                                       *)
Placed(d) ==
  /\ d.pc = "idle" => d = Idle
  /\ d.pc \notin {"idle", "drain"} => d.lead \in Leads
  /\ d.pc \notin {"delete", "restart", "send"} => d.prior = {}
  /\ d.pc # "send" => d.made = {}
  /\ d.pc = "mark" => d.end.status # "executing"

TypedRows == row \in [Leads -> RowRecords]
TypedRuns == run \in [Leads -> RunRecords]
TypedCalls == sent \in [Leads -> [Effects -> 0 .. 2]] /\ applied \in [Leads -> SUBSET Effects]
TypedBounds == unset \subseteq Unset /\ faults \in 0 .. Faults
TypedWorkers == worker \in [Workers -> Locals] /\ \A w \in Workers : Placed(worker[w])
Typed == TypedRows /\ TypedRuns /\ TypedCalls /\ TypedBounds /\ TypedWorkers

-----------------------------------------------------------------------------
(* One worker moves, to a place it may be at with what it holds.            *)
Moves(w) ==
  /\ worker' \in [Workers -> Locals] /\ Placed(worker'[w])
  /\ \A v \in Workers \ {w} : worker'[v] = worker[v]

(* An idle worker has the type of locals.                                   *)
LEMMA IdleFacts ==
  /\ Idle \in Locals /\ Placed(Idle) /\ Idle.pc = "idle" /\ Idle.lead = Nobody /\ Idle.age = 0
  /\ Idle.prior = {} /\ Idle.made = {} /\ DOMAIN Idle.listed = {} /\ ~Idle.drain
  <1>1. Idle.listed \in [{} -> {"pending", "executing"}] /\ Idle.listed \in Lists
    BY DEF Idle, Lists
  <1>2. 0 \in Ages /\ NoEnd \in Ends /\ "idle" \in Pcs
    BY GhlAssumption DEF Ages, NoEnd, Ends, Pcs
  <1> QED
    BY <1>1, <1>2 DEF Idle, Locals, Placed

(* The locals of one worker are replaced.                                   *)
LEMMA MovesFacts ==
  ASSUME TypedWorkers, NEW w \in Workers, NEW x \in Locals, Placed(x),
         worker' = [worker EXCEPT ![w] = x]
  PROVE  Moves(w) /\ worker'[w] = x
  BY DEF TypedWorkers, Moves

(* Typed locals after a move are typed workers.                             *)
LEMMA MovesTyped ==
  ASSUME TypedWorkers, NEW w \in Workers, Moves(w)
  PROVE  TypedWorkers'
  BY DEF TypedWorkers, Moves

(* Going on to another place changes nothing else.                          *)
LEMMA GoFacts ==
  ASSUME TypedWorkers, NEW w \in Workers, NEW pc \in Pcs, Go(w, pc),
         worker[w].pc # "idle", pc \notin {"idle", "mark"}, pc # "drain" => Lead(w) \in Leads,
         pc \notin {"delete", "restart", "send"} => worker[w].prior = {},
         pc # "send" => worker[w].made = {}
  PROVE  /\ Moves(w) /\ worker'[w].pc = pc
         /\ worker'[w].lead = Lead(w) /\ worker'[w].listed = worker[w].listed
         /\ worker'[w].age = worker[w].age /\ worker'[w].drain = worker[w].drain
         /\ worker'[w].prior = worker[w].prior /\ worker'[w].made = worker[w].made
  <1> DEFINE x == [worker[w] EXCEPT !.pc = pc]
  <1>1. worker[w] \in Locals
    BY DEF TypedWorkers
  <1>2. /\ x \in Locals /\ x.pc = pc /\ x.lead = Lead(w) /\ x.listed = worker[w].listed
        /\ x.age = worker[w].age /\ x.drain = worker[w].drain
        /\ x.prior = worker[w].prior /\ x.made = worker[w].made
    BY <1>1 DEF Locals, Lead
  <1>3. worker' = [worker EXCEPT ![w] = x]
    BY DEF Go
  <1> HIDE DEF x
  <1>4. Placed(x)
    BY <1>2 DEF Placed
  <1> QED
    BY <1>2, <1>3, <1>4, MovesFacts

(* A worker that turns to its next listed row.                              *)
LEMMA DoneFacts ==
  ASSUME TypedWorkers, NEW w \in Workers, Done(w)
  PROVE  /\ Moves(w) /\ worker'[w].pc \in {"idle", "drain"} /\ worker'[w].lead = Nobody
         /\ worker'[w].prior = {} /\ worker'[w].made = {}
         /\ worker'[w].listed = worker[w].listed /\ worker'[w].age \in {0, worker[w].age}
  <1>1. worker[w] \in Locals
    BY DEF TypedWorkers
  <1>2. CASE worker[w].listed = Idle.listed
    <2>1. worker' = [worker EXCEPT ![w] = Idle]
      BY <1>2 DEF Done
    <2> QED
      BY <1>2, <2>1, IdleFacts, MovesFacts
  <1>3. CASE worker[w].listed # Idle.listed
    <2> DEFINE x == [Idle EXCEPT !.pc = "drain", !.drain = TRUE, !.listed = worker[w].listed,
                                 !.age = worker[w].age]
    <2>1. worker' = [worker EXCEPT ![w] = x]
      BY <1>3 DEF Done
    <2>2. /\ x \in Locals /\ x.pc = "drain" /\ x.lead = Nobody /\ x.prior = {} /\ x.made = {}
          /\ x.listed = worker[w].listed /\ x.age = worker[w].age
      BY <1>1, IdleFacts DEF Locals, Pcs
    <2> HIDE DEF x
    <2>3. Placed(x)
      BY <2>2 DEF Placed
    <2> QED
      BY <2>1, <2>2, <2>3, MovesFacts
  <1> QED
    BY <1>2, <1>3

(* A delivery that is over.                                                 *)
LEMMA ReturnFacts ==
  ASSUME TypedWorkers, NEW w \in Workers, NEW end \in Ends, Return(w, end), Lead(w) \in Leads
  PROVE  /\ Moves(w) /\ worker'[w].prior = {} /\ worker'[w].made = {}
         /\ \/ worker'[w] = Idle
            \/ /\ worker'[w].pc = "settle" /\ worker'[w].lead = Lead(w)
               /\ worker'[w].listed = worker[w].listed /\ worker'[w].age = worker[w].age
               /\ w \notin Operators
  <1>1. worker[w] \in Locals
    BY DEF TypedWorkers
  <1>2. CASE w \in Operators
    BY <1>2, IdleFacts, MovesFacts DEF Return
  <1>3. CASE w \notin Operators
    <2> DEFINE x == [worker[w] EXCEPT !.pc = "settle", !.end = end, !.prior = {}, !.made = {}]
    <2>1. worker' = [worker EXCEPT ![w] = x]
      BY <1>3 DEF Return
    <2>2. /\ x \in Locals /\ x.pc = "settle" /\ x.lead = Lead(w) /\ x.prior = {} /\ x.made = {}
          /\ x.listed = worker[w].listed /\ x.age = worker[w].age
      BY <1>1 DEF Locals, Pcs, Delivering, Lead
    <2> HIDE DEF x
    <2>3. Placed(x)
      BY <2>2 DEF Placed
    <2> QED
      BY <1>3, <2>1, <2>2, <2>3, MovesFacts
  <1> QED
    BY <1>2, <1>3

(* The end of a delivery is one.                                            *)
LEMMA EndFacts ==
  ASSUME NEW reason, NEW status, NEW ext \in BOOLEAN
  PROVE  End(reason, status, ext) \in Ends
  BY DEF End, Ends

-----------------------------------------------------------------------------
(* Which operation is next: it was not made, and those before it were.      *)
MadeOp(S, op) == \E s \in S : s.op = op

(* The operation a run makes next is one it has not made, after those it    *)
(* waits for.                                                               *)
LEMMA TurnFacts ==
  ASSUME NEW w \in Workers, Left(w) # {}
  PROVE  /\ Now(w) \in Operations /\ ~MadeOp(worker[w].made, Now(w))
         /\ Now(w) = "note" => Note
         /\ Now(w) # "contact" => MadeOp(worker[w].made, "contact")
         /\ Now(w) \in {"tags", "opportunity", "workflow"} => MadeOp(worker[w].made, "custom_fields")
         /\ Now(w) = "workflow" => MadeOp(worker[w].made, "opportunity")
         /\ ~StatusIs(worker[w].made, "contact", {"failed"})
  <1> DEFINE L == Left(w) m == worker[w].made
  <1>1. ~StatusIs(m, "contact", {"failed"}) /\ L = {i \in Planned : \A s \in m : s.op # Order[i]}
    BY DEF Left
  <1>2. /\ Order[1] = "contact" /\ Order[2] = "custom_fields" /\ Order[3] = "note"
        /\ Order[4] = "tags" /\ Order[5] = "opportunity" /\ Order[6] = "workflow"
    BY DEF Order
  <1>3. L \subseteq 1 .. 6 /\ \A i \in 1 .. 6 \ {3} : i \in Planned
    BY <1>1, <1>2 DEF Planned
  <1> HIDE DEF L
  <1>4. \E i \in L : \A k \in L : i <= k
    <2>1. CASE 1 \in L
      BY <1>3, <2>1
    <2>2. CASE 1 \notin L /\ 2 \in L
      BY <1>3, <2>2
    <2>3. CASE L \subseteq 3 .. 6 /\ 3 \in L
      BY <2>3
    <2>4. CASE L \subseteq 4 .. 6 /\ 4 \in L
      BY <2>4
    <2>5. CASE L \subseteq 5 .. 6 /\ 5 \in L
      BY <2>5
    <2>6. CASE L = {6}
      BY <2>6
    <2> QED
      BY <1>3, <2>1, <2>2, <2>3, <2>4, <2>5, <2>6, L # {} DEF L
  <1>5. PICK i \in L : Now(w) = Order[i] /\ \A k \in L : i <= k
    BY <1>4 DEF Now, L
  <1>6. i \in Planned /\ i \in 1 .. 6 /\ ~MadeOp(m, Order[i])
    BY <1>1, <1>3, <1>5 DEF MadeOp
  <1>7. ASSUME NEW k \in 1 .. 6 \ {3}, k < i
        PROVE  MadeOp(m, Order[k])
    <2>1. k \notin L
      BY <1>5, <1>6, <1>7
    <2> QED
      BY <1>1, <1>3, <1>7, <2>1 DEF MadeOp
  <1>8. Now(w) \in Operations
    BY <1>2, <1>5, <1>6 DEF Operations
  <1>9. Now(w) = "note" => Note
    BY <1>2, <1>5, <1>6 DEF Planned
  <1>10. i = 1 \/ MadeOp(m, "contact")
    BY <1>2, <1>6, <1>7
  <1>11. i \in {1, 2, 3} \/ MadeOp(m, "custom_fields")
    BY <1>2, <1>6, <1>7
  <1>12. i # 6 \/ MadeOp(m, "opportunity")
    BY <1>2, <1>6, <1>7
  <1> QED
    BY <1>1, <1>2, <1>5, <1>6, <1>8, <1>9, <1>10, <1>11, <1>12

(* What is over is over: a failed contact, or every planned operation.      *)
LEMMA OverFacts ==
  ASSUME NEW w \in Workers, Left(w) = {}
  PROVE  \/ StatusIs(worker[w].made, "contact", {"failed"})
         \/ \A op \in Operations : MadeOp(worker[w].made, op) \/ (op = "note" /\ ~Note)
  <1>1. /\ Order[1] = "contact" /\ Order[2] = "custom_fields" /\ Order[3] = "note"
        /\ Order[4] = "tags" /\ Order[5] = "opportunity" /\ Order[6] = "workflow"
    BY DEF Order
  <1>2. ASSUME ~StatusIs(worker[w].made, "contact", {"failed"}), NEW i \in 1 .. 6,
               Order[i] = "note" => Note
        PROVE  MadeOp(worker[w].made, Order[i])
    BY <1>2 DEF Left, Planned, MadeOp
  <1>3. ASSUME NEW op \in Operations
        PROVE  \E i \in 1 .. 6 : op = Order[i]
    BY <1>1 DEF Operations
  <1> QED
    BY <1>2, <1>3

-----------------------------------------------------------------------------
(* Receipts.                                                                *)

(* The receipt of a step, by its status and answer where none is stored.    *)
LEMMA ReceiptFacts ==
  ASSUME NEW s \in Steps
  PROVE  /\ ReceiptOf(s, TRUE) \in Outcomes \cup {"none"}
         /\ ReceiptOf(s, TRUE) = "completed" =>
              s.receipt = "completed" \/ s.status \in {"succeeded", "partial_success"}
         /\ s.receipt # "none" => ReceiptOf(s, TRUE) = s.receipt
         /\ s.op = "opportunity" /\ s.receipt = "none" =>
              ReceiptOf(s, TRUE) # "completed"
              /\ (s.answer # "none" => ReceiptOf(s, TRUE) \in {"ambiguous", "rejected"})
  BY DEF ReceiptOf, Steps, Outcomes, Known, External

(* The receipts a reused run starts from, and what they are not.            *)
LEMMA PriorFacts ==
  ASSUME NEW r \in RunRecords
  PROVE  /\ PriorReceipts(r) \subseteq Receipts
         /\ \A p \in PriorReceipts(r) : \E s \in r.steps :
              p.op = s.op /\ p.outcome = ReceiptOf(s, TRUE) /\ p.withheld = s.withheld
         /\ \A s \in r.steps : ReceiptOf(s, TRUE) # "none" =>
              \E p \in PriorReceipts(r) :
                p.op = s.op /\ p.outcome = ReceiptOf(s, TRUE) /\ p.withheld = s.withheld
  <1>1. r.steps \subseteq Steps
    BY DEF RunRecords
  <1>2. ASSUME NEW s \in r.steps, ReceiptOf(s, TRUE) # "none"
        PROVE  [op |-> s.op, outcome |-> ReceiptOf(s, TRUE), withheld |-> s.withheld] \in Receipts
    BY <1>1, <1>2, ReceiptFacts DEF Receipts, Steps
  <1>3. PriorReceipts(r) \subseteq Receipts
    BY <1>2 DEF PriorReceipts
  <1>4. ASSUME NEW p \in PriorReceipts(r)
        PROVE  \E s \in r.steps :
                 p.op = s.op /\ p.outcome = ReceiptOf(s, TRUE) /\ p.withheld = s.withheld
    <2>1. PICK s \in r.steps :
            p = [op |-> s.op, outcome |-> ReceiptOf(s, TRUE), withheld |-> s.withheld]
      BY DEF PriorReceipts
    <2> QED
      BY <2>1
  <1>5. ASSUME NEW s \in r.steps, ReceiptOf(s, TRUE) # "none"
        PROVE  \E p \in PriorReceipts(r) :
                 p.op = s.op /\ p.outcome = ReceiptOf(s, TRUE) /\ p.withheld = s.withheld
    <2>1. [op |-> s.op, outcome |-> ReceiptOf(s, TRUE), withheld |-> s.withheld] \in PriorReceipts(r)
      BY <1>5 DEF PriorReceipts
    <2> QED
      BY <2>1
  <1> QED
    BY <1>3, <1>4, <1>5

(* A step that is made without a call.                                      *)
LEMMA StepFacts ==
  ASSUME NEW op \in Operations, NEW receipt \in Outcomes \cup {"none"},
         NEW status \in StepStatuses, NEW answer \in {"none", "claimed"}
  PROVE  /\ Step(op, receipt, status, answer) \in Steps
         /\ Step(op, receipt, status, answer).op = op
         /\ Step(op, receipt, status, answer).receipt = receipt
         /\ Step(op, receipt, status, answer).status = status
         /\ Step(op, receipt, status, answer).answer \notin Answers
         /\ ~Step(op, receipt, status, answer).withheld
  BY DEF Step, Steps, Answers

(* The settings without which the custom fields cannot be written.          *)
FieldSettings == {"field_map", "field_options"}
Unwritable(u) == u \cap FieldSettings # {}

(* A step decided without a call repeats a completed receipt or does not    *)
(* succeed.                                                                 *)
LEMMA LocalFacts ==
  ASSUME NEW w \in Workers, worker[w].prior \subseteq Receipts, NEW op \in Operations,
         NEW s \in Local(w, op)
  PROVE  /\ s \in Steps /\ s.op = op /\ s.answer \notin Answers
         /\ \/ /\ s.receipt = "completed" /\ s.status = "succeeded"
               /\ Completed(worker[w].prior, op) /\ op # "opportunity"
               /\ s.withheld <=> op = "tags" /\ PriorWithheld(w)
            \/ /\ s.status # "succeeded" /\ s.receipt # "completed" /\ ~s.withheld
               /\ \/ op = "opportunity" /\ s.receipt = "none"
                  \/ op = "custom_fields" /\ Unwritable(unset)
                  \/ ~Completed(worker[w].prior, op)
               /\ op \in {"contact", "tags"} =>
                    s.status = "failed" /\ Held(worker[w].prior, op)
               /\ op = "custom_fields" /\ StampRequired => s.status \in {"failed", "skipped"}
               /\ s.status = "partial_success" => op = "custom_fields" /\ ~StampRequired
               /\ op = "opportunity" /\ Opportunity => s.status = "failed"
  <1> DEFINE prior == worker[w].prior
  <1>1. CASE op = "custom_fields" /\ Unwritable(unset)
    <2>1. PICK status \in {"failed", "partial_success", "skipped"}, answer \in {"none", "claimed"} :
            /\ s = Step(op, "none", status, answer)
            /\ StampRequired => status # "partial_success"
      BY <1>1 DEF Local, Unwritable, FieldSettings
    <2> QED
      BY <1>1, <2>1, StepFacts DEF StepStatuses
  <1>2. CASE op = "opportunity"
    <2>1. PICK status \in {"failed", "skipped"} :
            s = Step(op, "none", status, "none") /\ (Opportunity => status = "failed")
      BY <1>2 DEF Local
    <2> QED
      BY <1>2, <2>1, StepFacts DEF StepStatuses
  <1>3. CASE ~(op = "custom_fields" /\ Unwritable(unset)) /\ op # "opportunity"
    <2>0. ~(op = "custom_fields" /\ ("field_map" \in unset \/ "field_options" \in unset))
      BY <1>3 DEF Unwritable, FieldSettings
    <2>1. ~(op = "tags" /\ TagsOnly(w))
      BY <1>3, <2>0 DEF Local
    <2>2. CASE Completed(prior, op)
      <3> DEFINE y == Step(op, "completed", "succeeded", "none")
      <3>1. y \in Steps /\ y.op = op /\ y.receipt = "completed" /\ y.status = "succeeded"
            /\ y.answer \notin Answers
        BY DEF Step, Steps, Outcomes, StepStatuses, Answers
      <3>2. s = [y EXCEPT !.withheld = (op = "tags" /\ PriorWithheld(w))]
        BY <1>3, <2>0, <2>1, <2>2 DEF Local
      <3>3. (op = "tags" /\ PriorWithheld(w)) \in BOOLEAN
        OBVIOUS
      <3> HIDE DEF y
      <3>4. s \in Steps /\ s.op = op /\ s.receipt = "completed" /\ s.status = "succeeded"
            /\ s.answer \notin Answers /\ s.withheld = (op = "tags" /\ PriorWithheld(w))
        BY <3>1, <3>2, <3>3 DEF Steps
      <3> QED
        BY <1>3, <2>2, <3>4
    <2>3. CASE ~Completed(prior, op) /\ Held(prior, op)
      <3> DEFINE status == IF op = "custom_fields" THEN "failed" ELSE Failed(op)
      <3>1. PICK r \in prior : r.op = op /\ s = Step(op, r.outcome, status, "none")
        BY <1>3, <2>0, <2>1, <2>3 DEF Local
      <3>2. r.outcome \in Outcomes /\ r.outcome # "completed"
        BY <2>3, <3>1 DEF Receipts, Completed, Has
      <3> QED
        <4>1. /\ status \in {"optional_failed", "failed"}
              /\ op \in {"contact", "tags", "custom_fields"} => status = "failed"
          BY DEF Failed
        <4> HIDE DEF status
        <4> QED
          BY <1>3, <2>3, <3>1, <3>2, <4>1, StepFacts DEF StepStatuses
    <2>4. CASE ~Completed(prior, op) /\ ~Held(prior, op)
      <3>1. PICK receipt \in {"failed_before_send", "none"} : s = Step(op, receipt, "skipped", "none")
        BY <1>3, <2>0, <2>1, <2>4 DEF Local
      <3>2. op = "workflow"
        BY <1>3, <2>0, <2>1, <2>4 DEF Local
      <3> QED
        BY <2>4, <3>1, <3>2, StepFacts DEF StepStatuses, Outcomes
    <2> QED
      BY <2>2, <2>3, <2>4
  <1> QED
    BY <1>1, <1>2, <1>3

(* An operation is sent when nothing decides it without a call.             *)
LEMMA SentFacts ==
  ASSUME NEW w \in Workers, NEW op, Local(w, op) = {}
  PROVE  /\ op = "custom_fields" => ~Unwritable(unset)
         /\ op = "opportunity" => Opportunity /\ op \notin unset
         /\ op # "opportunity" /\ ~(op = "tags" /\ TagsOnly(w)) => ~Completed(worker[w].prior, op)
         /\ op = "workflow" => ~Blocked(w) /\ ~StatusIs(worker[w].made, "opportunity", {"failed"})
  <1> DEFINE prior == worker[w].prior
  <1>1. \A status : Held(prior, op) =>
          {Step(op, r.outcome, status, "none") : r \in {x \in prior : x.op = op}} # {}
    BY DEF Held, Has
  <1>2. Unwritable(unset) => "field_map" \in unset \/ "field_options" \in unset
    BY DEF Unwritable, FieldSettings
  <1> QED
    BY <1>1, <1>2 DEF Local

-----------------------------------------------------------------------------
(* The kinds of steps.  What a worker has in hand stays: its lead, what is  *)
(* left of its list, its clock.                                             *)
Keeps(w) == /\ worker'[w].lead = Lead(w) /\ worker'[w].listed = worker[w].listed
            /\ worker'[w].age = worker[w].age
RowsElse(l) == \A k \in Leads \ {l} : row'[k] = row[k]
Over(r) == r.status \in {"settled", "uncertain"}
Calm == UNCHANGED <<run, sent, applied, unset>>

(* It starts: a request with a new row, an operator's test, a drain.        *)
Starts(w) ==
  /\ Moves(w) /\ At(w, "idle") /\ MayStart(w) /\ worker'[w].age = 0
  /\ \/ /\ w \notin Operators /\ worker'[w].pc = "claim"
        /\ worker'[w].lead \in Leads /\ DOMAIN worker'[w].listed = {}
        /\ row[worker'[w].lead].status = "absent" /\ row'[worker'[w].lead].status = "pending"
        /\ RowsElse(worker'[w].lead)
     \/ /\ w \in Operators /\ worker'[w].pc = "load"
        /\ worker'[w].lead \in Leads /\ DOMAIN worker'[w].listed = {}
        /\ row[worker'[w].lead].status # "absent" /\ row' = row
     \/ /\ w \notin Operators /\ worker'[w].pc = "drain" /\ worker'[w].lead = Nobody
        /\ \A l \in DOMAIN worker'[w].listed : row[l].status # "absent"
        /\ row' = row

(* It takes its row: one that is pending, or executing past its lease.      *)
Takes(w) ==
  /\ Moves(w) /\ worker[w].pc \in {"claim", "take_pending", "take_expired"}
  /\ worker'[w].pc = "load" /\ Keeps(w)
  /\ \/ row[Lead(w)].status = "pending"
     \/ row[Lead(w)].status = "executing" /\ row[Lead(w)].age - worker[w].age > Lease
  /\ row'[Lead(w)].status = "executing" /\ row'[Lead(w)].age \in {0, worker[w].age}
  /\ RowsElse(Lead(w))

(* It puts its row down, as it is or ended.                                 *)
Puts(w) ==
  /\ Moves(w) /\ worker[w].pc \in {"claim", "take_pending", "take_expired", "mark", "settle"}
  /\ worker'[w].pc \in {"idle", "drain"} /\ worker'[w].lead = Nobody
  /\ worker'[w].listed = worker[w].listed /\ worker'[w].age \in {0, worker[w].age}
  /\ row' = row \/ (Over(row'[Lead(w)]) /\ RowsElse(Lead(w)))

(* It turns to a row of its list.                                           *)
Turns(w) ==
  /\ Moves(w) /\ At(w, "drain") /\ worker'[w].pc \in {"mark", "take_pending", "take_expired"}
  /\ worker'[w].lead \in DOMAIN worker[w].listed
  /\ DOMAIN worker'[w].listed \subseteq DOMAIN worker[w].listed
  /\ worker'[w].age = worker[w].age /\ row' = row

(* It goes on delivering, or stops.                                         *)
Delivers(w) ==
  /\ Moves(w) /\ row' = row
  /\ \/ worker'[w] = Idle
     \/ worker[w].pc \in Delivering /\ worker'[w].pc \in Delivering /\ Keeps(w)

(* It neither records nor sends anything.                                   *)
Quiet(w) == Moves(w) /\ Calm /\ worker'[w].pc \notin {"delete", "restart", "send"}

-----------------------------------------------------------------------------
(* Each action is of its kind.                                              *)

(* Rows with another status, age or end.                                    *)
LEMMA RowFacts ==
  ASSUME TypedRows, NEW l \in Leads, NEW status \in RowStatuses, NEW age \in Ages
  PROVE  /\ row' = [row EXCEPT ![l].status = status, ![l].age = age] =>
              TypedRows' /\ row'[l].status = status /\ row'[l].age = age /\ RowsElse(l)
         /\ row' = [row EXCEPT ![l].status = status] =>
              TypedRows' /\ row'[l].status = status /\ row'[l].age = row[l].age /\ RowsElse(l)
  <1>1. row[l] \in RowRecords
    BY DEF TypedRows
  <1> DEFINE x == [row[l] EXCEPT !.status = status, !.age = age]
             y == [row[l] EXCEPT !.status = status]
  <1>2. x \in RowRecords /\ x.status = status /\ x.age = age
    BY <1>1 DEF RowRecords
  <1>3. y \in RowRecords /\ y.status = status /\ y.age = row[l].age
    BY <1>1 DEF RowRecords
  <1>4. /\ row' = [row EXCEPT ![l].status = status, ![l].age = age] => row' = [row EXCEPT ![l] = x]
        /\ row' = [row EXCEPT ![l].status = status] => row' = [row EXCEPT ![l] = y]
    BY DEF TypedRows
  <1> HIDE DEF x, y
  <1> QED
    BY <1>2, <1>3, <1>4 DEF TypedRows, RowsElse

(* A row that is settled with an end.                                       *)
LEMMA EndedFacts ==
  ASSUME TypedRows, NEW l \in Leads, NEW end \in Ends, end.status # "executing",
         row' = [row EXCEPT ![l] = Ended(end)]
  PROVE  TypedRows' /\ Over(row'[l]) /\ RowsElse(l)
  <1>1. Ended(end) \in RowRecords /\ Over(Ended(end))
    BY GhlAssumption DEF Ended, RowRecords, Ends, RowStatuses, Ages, Over
  <1> QED
    BY <1>1 DEF TypedRows, RowsElse

(* Intake commits a new row and goes on to claim it.                        *)
LEMMA IntakeKind ==
  ASSUME Typed, NEW w \in Workers, NEW l \in Leads, Intake(w, l)
  PROVE  TypedRows' /\ Starts(w) /\ Quiet(w)
  <1> DEFINE x == [Idle EXCEPT !.pc = "claim", !.lead = l]
  <1>1. worker[w] = Idle /\ worker \in [Workers -> Locals]
    BY DEF Intake, Typed, TypedWorkers, Placed, At
  <1>2. worker' = [worker EXCEPT ![w] = x]
    BY <1>1 DEF Intake
  <1>3. /\ x \in Locals /\ x.pc = "claim" /\ x.lead = l /\ x.listed = Idle.listed /\ x.age = 0
        /\ x.prior = {} /\ x.made = {}
    BY IdleFacts DEF Locals, Pcs
  <1> HIDE DEF x
  <1>4. Placed(x)
    BY <1>3 DEF Placed
  <1>5. Moves(w) /\ worker'[w] = x
    BY <1>2, <1>3, <1>4, MovesFacts DEF Typed
  <1>6. TypedRows' /\ row'[l].status = "pending" /\ RowsElse(l)
    <2>1. 0 \in Ages /\ "pending" \in RowStatuses /\ row' = [row EXCEPT ![l].status = "pending"]
      BY GhlAssumption DEF Intake, Ages, RowStatuses
    <2> QED
      BY <2>1, RowFacts DEF Typed
  <1> QED
    BY <1>3, <1>5, <1>6, IdleFacts DEF Intake, Starts, Quiet, Calm

(* An operator tests the plan of a recorded lead.                           *)
LEMMA OperatorKind ==
  ASSUME Typed, NEW w \in Workers, NEW l \in Leads, OperatorTest(w, l)
  PROVE  TypedRows' /\ Starts(w) /\ Quiet(w)
  <1> DEFINE x == [Idle EXCEPT !.pc = "load", !.lead = l]
  <1>1. worker[w] = Idle /\ worker \in [Workers -> Locals]
    BY DEF OperatorTest, Typed, TypedWorkers, Placed, At
  <1>2. worker' = [worker EXCEPT ![w] = x]
    BY <1>1 DEF OperatorTest
  <1>3. /\ x \in Locals /\ x.pc = "load" /\ x.lead = l /\ x.listed = Idle.listed /\ x.age = 0
        /\ x.prior = {} /\ x.made = {}
    BY IdleFacts DEF Locals, Pcs, Delivering
  <1> HIDE DEF x
  <1>4. Placed(x)
    BY <1>3 DEF Placed
  <1>5. Moves(w) /\ worker'[w] = x
    BY <1>2, <1>3, <1>4, MovesFacts DEF Typed
  <1> QED
    BY <1>3, <1>5, IdleFacts DEF OperatorTest, Starts, Quiet, Calm, Typed, TypedRows

(* A drain lists what is due.                                               *)
LEMMA StartDrainKind ==
  ASSUME Typed, NEW w \in Workers, StartDrain(w)
  PROVE  TypedRows' /\ Starts(w) /\ Quiet(w)
  <1> DEFINE due == {l \in Leads : Due(l)}
             list == [l \in due |-> row[l].status]
             x == [Idle EXCEPT !.pc = "drain", !.drain = TRUE, !.listed = list]
  <1>1. worker[w] = Idle /\ worker \in [Workers -> Locals]
    BY DEF StartDrain, Typed, TypedWorkers, Placed, At
  <1>2. list \in [due -> {"pending", "executing"}] /\ DOMAIN list = due
    BY DEF Due
  <1>3. list \in Lists
    BY <1>2 DEF Lists
  <1>4. \A l \in due : row[l].status # "absent"
    BY DEF Due
  <1>5. worker' = [worker EXCEPT ![w] = x]
    BY <1>1 DEF StartDrain
  <1> HIDE DEF due, list
  <1>6. /\ x \in Locals /\ x.pc = "drain" /\ x.lead = Nobody /\ x.listed = list /\ x.age = 0
        /\ x.prior = {} /\ x.made = {}
    BY <1>3, IdleFacts DEF Locals, Pcs
  <1> HIDE DEF x
  <1>7. Placed(x)
    BY <1>6 DEF Placed
  <1>8. Moves(w) /\ worker'[w] = x
    BY <1>5, <1>6, <1>7, MovesFacts DEF Typed
  <1> QED
    BY <1>2, <1>4, <1>6, <1>8 DEF StartDrain, Starts, Quiet, Calm, Typed, TypedRows

(* A request claims its row, or leaves it to who owns it.                   *)
LEMMA ClaimRequestKind ==
  ASSUME Typed, NEW w \in Workers, ClaimRequest(w)
  PROVE  TypedRows' /\ (Takes(w) \/ Puts(w)) /\ Quiet(w)
  <1>1. Lead(w) \in Leads /\ worker[w].prior = {} /\ worker[w].made = {}
    BY DEF ClaimRequest, Typed, TypedWorkers, Placed, At, Lead
  <1>2. CASE row[Lead(w)].status = "pending"
    <2>1. Go(w, "load") /\ row' = [row EXCEPT ![Lead(w)].status = "executing", ![Lead(w)].age = 0]
      BY <1>2 DEF ClaimRequest
    <2>2. TypedRows' /\ row'[Lead(w)].status = "executing" /\ row'[Lead(w)].age = 0
          /\ RowsElse(Lead(w))
      <3>1. 0 \in Ages /\ "executing" \in RowStatuses
        BY GhlAssumption DEF Ages, RowStatuses
      <3> QED
        BY <1>1, <2>1, <3>1, RowFacts DEF Typed
    <2>3. Moves(w) /\ worker'[w].pc = "load" /\ Keeps(w)
      BY <1>1, <2>1, GoFacts DEF ClaimRequest, Typed, Pcs, Delivering, Keeps, At
    <2> QED
      BY <1>2, <2>2, <2>3 DEF ClaimRequest, Takes, Quiet, Calm, At
  <1>3. CASE row[Lead(w)].status # "pending"
    <2>1. Done(w) /\ row' = row
      BY <1>3 DEF ClaimRequest
    <2> QED
      BY <2>1, DoneFacts DEF ClaimRequest, Puts, Quiet, Calm, At, Typed, TypedRows
  <1> QED
    BY <1>2, <1>3

(* A drain judges one of its rows.                                          *)
LEMMA DrainReadKind ==
  ASSUME Typed, NEW w \in Workers, DrainRead(w)
  PROVE  TypedRows' /\ Turns(w) /\ Quiet(w)
  <1>1. PICK l \in DOMAIN worker[w].listed, pc \in {"mark", "take_pending", "take_expired"}, e \in Ends :
          /\ pc = "mark" => e.status # "executing"
          /\ worker' = [worker EXCEPT ![w].pc = pc, ![w].lead = l, ![w].end = e,
               ![w].listed = [k \in DOMAIN worker[w].listed \ {l} |-> worker[w].listed[k]]]
    <2>1. PICK l \in DOMAIN worker[w].listed :
            LET listed == worker[w].listed
                rest == [k \in DOMAIN listed \ {l} |-> listed[k]]
                disposition == Disposition(run[l], FALSE)
                end(status) == [status |-> status, failed |-> run[l].status = "failed",
                                ext |-> HadExternalCall(run[l])]
                turn(pc, e) == worker' = [worker EXCEPT ![w].pc = pc, ![w].lead = l, ![w].end = e,
                                                        ![w].listed = rest]
            IN  IF disposition = "hold"
                THEN turn("mark", end(IF run[l].status = "executing" THEN "uncertain" ELSE "settled"))
                ELSE IF listed[l] = "executing" /\ disposition = "create"
                THEN turn("mark", end("uncertain"))
                ELSE turn(IF listed[l] = "pending" THEN "take_pending" ELSE "take_expired", NoEnd)
      BY DEF DrainRead
    <2> DEFINE E(status) == [status |-> status, failed |-> run[l].status = "failed",
                             ext |-> HadExternalCall(run[l])]
    <2>2. E("uncertain") \in Ends /\ E("settled") \in Ends /\ NoEnd \in Ends
          /\ E("uncertain").status # "executing" /\ E("settled").status # "executing"
      BY DEF Ends, NoEnd, HadExternalCall
    <2> DEFINE T(pc, e) == worker' = [worker EXCEPT ![w].pc = pc, ![w].lead = l, ![w].end = e,
               ![w].listed = [k \in DOMAIN worker[w].listed \ {l} |-> worker[w].listed[k]]]
    <2>3. \/ T("mark", E("uncertain")) \/ T("mark", E("settled"))
          \/ T("take_pending", NoEnd) \/ T("take_expired", NoEnd)
      BY <2>1
    <2> HIDE DEF E
    <2> QED
      BY <2>2, <2>3
  <1> DEFINE rest == [k \in DOMAIN worker[w].listed \ {l} |-> worker[w].listed[k]]
             x == [worker[w] EXCEPT !.pc = pc, !.lead = l, !.end = e, !.listed = rest]
  <1>2. worker[w] \in Locals /\ worker[w].pc = "drain" /\ worker[w].prior = {} /\ worker[w].made = {}
    BY DEF DrainRead, At, Typed, TypedWorkers, Placed
  <1>3. rest \in Lists /\ l \in Leads /\ DOMAIN rest \subseteq DOMAIN worker[w].listed
    <2>1. PICK S \in SUBSET Leads : worker[w].listed \in [S -> {"pending", "executing"}]
      BY <1>2 DEF Locals, Lists
    <2>2. rest \in [S \ {l} -> {"pending", "executing"}] /\ S \ {l} \in SUBSET Leads
      BY <2>1
    <2> QED
      BY <2>1, <2>2 DEF Lists
  <1>4. worker' = [worker EXCEPT ![w] = x]
    BY <1>1
  <1> HIDE DEF rest
  <1>5. /\ x \in Locals /\ x.pc = pc /\ x.lead = l /\ x.listed = rest /\ x.age = worker[w].age
        /\ x.prior = {} /\ x.made = {} /\ x.end = e
    BY <1>2, <1>3 DEF Locals, Pcs
  <1> HIDE DEF x
  <1>6. Placed(x)
    BY <1>1, <1>3, <1>5 DEF Placed
  <1>7. Moves(w) /\ worker'[w] = x
    BY <1>4, <1>5, <1>6, MovesFacts DEF Typed
  <1> QED
    BY <1>2, <1>3, <1>5, <1>7 DEF DrainRead, Turns, Quiet, Calm, At, Typed, TypedRows

(* A drain ends a row.                                                      *)
LEMMA DrainMarkKind ==
  ASSUME Typed, NEW w \in Workers, DrainMark(w)
  PROVE  TypedRows' /\ Puts(w) /\ Quiet(w)
  <1>1. Lead(w) \in Leads /\ worker[w].end \in Ends /\ worker[w].end.status # "executing"
    BY DEF DrainMark, Typed, TypedWorkers, Placed, Locals, At, Lead
  <1>2. TypedRows' /\ Over(row'[Lead(w)]) /\ RowsElse(Lead(w))
    BY <1>1, EndedFacts DEF DrainMark, Typed
  <1> QED
    BY <1>2, DoneFacts DEF DrainMark, Puts, Quiet, Calm, At, Typed

(* A drain takes a row over, or leaves it.                                  *)
LEMMA DrainClaimKind ==
  ASSUME Typed, NEW w \in Workers, DrainClaim(w)
  PROVE  TypedRows' /\ (Takes(w) \/ Puts(w)) /\ Quiet(w)
  <1> DEFINE x == row[Lead(w)]
             free == \/ At(w, "take_pending") /\ x.status = "pending"
                     \/ At(w, "take_expired") /\ x.status = "executing" /\ x.age - worker[w].age > Lease
  <1>1. /\ Lead(w) \in Leads /\ worker[w].prior = {} /\ worker[w].made = {}
        /\ worker[w].age \in Ages /\ worker[w].pc \in {"take_pending", "take_expired"}
    BY DEF DrainClaim, Typed, TypedWorkers, Placed, At, Lead, Locals
  <1>2. CASE free
    <2>1. Go(w, "load")
          /\ row' = [row EXCEPT ![Lead(w)].status = "executing", ![Lead(w)].age = worker[w].age]
      BY <1>2 DEF DrainClaim
    <2>2. TypedRows' /\ row'[Lead(w)].status = "executing" /\ row'[Lead(w)].age = worker[w].age
          /\ RowsElse(Lead(w))
      BY <1>1, <2>1, RowFacts DEF Typed, RowStatuses
    <2>3. Moves(w) /\ worker'[w].pc = "load" /\ Keeps(w)
      BY <1>1, <2>1, GoFacts DEF Typed, Pcs, Delivering, Keeps
    <2> QED
      BY <1>1, <1>2, <2>2, <2>3 DEF DrainClaim, Takes, Quiet, Calm
  <1>3. CASE ~free
    <2>1. Done(w) /\ row' = row
      BY <1>3 DEF DrainClaim
    <2> QED
      BY <1>1, <2>1, DoneFacts DEF DrainClaim, Puts, Quiet, Calm, Typed, TypedRows
  <1> QED
    BY <1>2, <1>3

(* The worker settles its row or leaves it.                                 *)
LEMMA SettleKind ==
  ASSUME Typed, NEW w \in Workers, Settle(w)
  PROVE  TypedRows' /\ Puts(w) /\ Quiet(w)
  <1>1. Lead(w) \in Leads /\ worker[w].end \in Ends
    BY DEF Settle, Typed, TypedWorkers, Placed, Locals, At, Lead
  <1>2. \/ row' = row
        \/ worker[w].end.status # "executing" /\ row' = [row EXCEPT ![Lead(w)] = Ended(worker[w].end)]
    BY DEF Settle
  <1>3. TypedRows' /\ (row' = row \/ (Over(row'[Lead(w)]) /\ RowsElse(Lead(w))))
    BY <1>1, <1>2, EndedFacts DEF Typed, TypedRows
  <1> QED
    BY <1>3, DoneFacts DEF Settle, Puts, Quiet, Calm, At, Typed

-----------------------------------------------------------------------------
(* What a delivery does with its run, its receipts and its steps.           *)
RunsElse(l) == \A k \in Leads \ {l} : run'[k] = run[k]
TypedData == TypedRuns /\ TypedCalls /\ TypedBounds

Begins(w) ==
  /\ run[Lead(w)].status = "none" /\ run'[Lead(w)].steps = run[Lead(w)].steps
  /\ run'[Lead(w)].status = "executing" /\ RunsElse(Lead(w))
  /\ worker'[w].pc = "send" /\ worker'[w].lead = Lead(w)
  /\ worker'[w].prior = {} /\ worker'[w].made = {}
  /\ UNCHANGED <<sent, applied, unset>>

Reuses(w) ==
  /\ Disposition(run[Lead(w)], TRUE) # "hold" /\ worker'[w].pc = "delete"
  /\ worker'[w].prior = PriorReceipts(run[Lead(w)]) /\ worker'[w].made = {}
  /\ worker'[w].lead = Lead(w) /\ Calm

Deletes(w) ==
  /\ At(w, "delete") /\ worker'[w].pc = "restart"
  /\ run'[Lead(w)].steps = {} /\ run'[Lead(w)].status = run[Lead(w)].status /\ RunsElse(Lead(w))
  /\ worker'[w].prior = worker[w].prior /\ worker'[w].made = {} /\ worker[w].made = {}
  /\ worker'[w].lead = Lead(w) /\ UNCHANGED <<sent, applied, unset>>

Restarts(w) ==
  /\ At(w, "restart") /\ worker'[w].pc = "send"
  /\ run'[Lead(w)].steps = run[Lead(w)].steps /\ run'[Lead(w)].status = "executing"
  /\ RunsElse(Lead(w))
  /\ worker'[w].prior = worker[w].prior /\ worker'[w].made = {} /\ worker[w].made = {}
  /\ worker'[w].lead = Lead(w) /\ UNCHANGED <<sent, applied, unset>>

Skips(w, s) ==
  /\ At(w, "send") /\ Left(w) # {} /\ s \in Local(w, Now(w)) /\ s \in Steps
  /\ worker'[w].pc = "send" /\ worker'[w].lead = Lead(w)
  /\ worker'[w].prior = worker[w].prior /\ worker'[w].made = worker[w].made \cup {s} /\ Calm

Calls(w, s) ==
  LET l == Lead(w) op == Now(w) effects == EffectsOf(w, op) IN
  /\ At(w, "send") /\ Left(w) # {} /\ Local(w, op) = {}
  /\ s \in Steps /\ s.op = op /\ s.answer \in Answers
  /\ s.receipt = IF op = "opportunity" THEN "none" ELSE Classify(s.answer)
  /\ s.status = IF s.answer = "ok" THEN "succeeded" ELSE Failed(op)
  /\ s.withheld <=> op = "tags" /\ Blocked(w)
  /\ worker'[w].pc = "send" /\ worker'[w].lead = Lead(w)
  /\ worker'[w].prior = worker[w].prior /\ worker'[w].made = worker[w].made \cup {s}
  /\ \A e \in Effects : sent'[l][e] =
       IF e \in effects /\ sent[l][e] < 2 THEN sent[l][e] + 1 ELSE sent[l][e]
  /\ \A k \in Leads \ {l} : sent'[k] = sent[k]
  /\ \A k \in Leads : applied[k] \subseteq applied'[k]
  /\ s.answer = "ok" => effects \subseteq applied'[l]
  /\ UNCHANGED <<run, unset>>

Records(w) ==
  LET l == Lead(w) made == worker[w].made IN
  /\ At(w, "send") /\ Left(w) = {}
  /\ run'[l].status = RunStatus(made) /\ run'[l].steps = run[l].steps \cup made /\ RunsElse(l)
  /\ worker'[w].pc \notin {"delete", "restart", "send"}
  /\ UNCHANGED <<sent, applied, unset>>

(* A run's status is replaced, by one that is not a success.                *)
Restates(l) ==
  /\ run'[l].status \in {"failed", "rolled_back_manual"} /\ run'[l].steps = run[l].steps
  /\ RunsElse(l) /\ UNCHANGED <<sent, applied, unset>>

(* A run is replaced.                                                       *)
LEMMA RunMoves ==
  ASSUME TypedRuns, NEW l \in Leads, NEW r \in RunRecords, run' = [run EXCEPT ![l] = r]
  PROVE  TypedRuns' /\ run'[l] = r /\ RunsElse(l)
  BY DEF TypedRuns, RunsElse

(* Runs with another status or other steps.                                 *)
LEMMA RunFacts ==
  ASSUME TypedRuns, NEW l \in Leads, NEW status \in RunStatuses, NEW steps \in SUBSET Steps
  PROVE  /\ run' = [run EXCEPT ![l].status = status] =>
              /\ TypedRuns' /\ run'[l].status = status /\ run'[l].steps = run[l].steps
              /\ RunsElse(l)
         /\ run' = [run EXCEPT ![l].steps = steps] =>
              /\ TypedRuns' /\ run'[l].status = run[l].status /\ run'[l].steps = steps
              /\ RunsElse(l)
  <1>1. run[l] \in RunRecords
    BY DEF TypedRuns
  <1> DEFINE x == [run[l] EXCEPT !.status = status]
             y == [run[l] EXCEPT !.steps = steps]
  <1>2. x \in RunRecords /\ x.status = status /\ x.steps = run[l].steps
    BY <1>1 DEF RunRecords
  <1>3. y \in RunRecords /\ y.status = run[l].status /\ y.steps = steps
    BY <1>1 DEF RunRecords
  <1>4. /\ run' = [run EXCEPT ![l].status = status] => run' = [run EXCEPT ![l] = x]
        /\ run' = [run EXCEPT ![l].steps = steps] => run' = [run EXCEPT ![l] = y]
    BY DEF TypedRuns
  <1> HIDE DEF x, y
  <1>5. ASSUME run' = [run EXCEPT ![l].status = status]
        PROVE  /\ TypedRuns' /\ run'[l].status = status /\ run'[l].steps = run[l].steps
               /\ RunsElse(l)
    BY <1>2, <1>4, <1>5, RunMoves
  <1>6. ASSUME run' = [run EXCEPT ![l].steps = steps]
        PROVE  /\ TypedRuns' /\ run'[l].status = run[l].status /\ run'[l].steps = steps
               /\ RunsElse(l)
    BY <1>3, <1>4, <1>6, RunMoves
  <1> QED
    BY <1>5, <1>6

(* Where a worker delivers, its lead is one.                                *)
LEMMA LeadFacts ==
  ASSUME TypedWorkers, NEW w \in Workers
  PROVE  /\ worker[w] \in Locals
         /\ worker[w].pc \notin {"idle", "drain"} => Lead(w) \in Leads
         /\ worker[w].pc \notin {"delete", "restart", "send"} => worker[w].prior = {}
         /\ worker[w].pc # "send" => worker[w].made = {}
  BY DEF TypedWorkers, Placed, Lead

(* A delivery that is over neither records nor sends anything more.         *)
LEMMA ReturnKind ==
  ASSUME TypedWorkers, NEW w \in Workers, NEW end \in Ends, Return(w, end), row' = row,
         worker[w].pc \in Delivering
  PROVE  Delivers(w) /\ Moves(w) /\ worker'[w].pc \notin {"delete", "restart", "send"}
  <1>1. Lead(w) \in Leads
    BY LeadFacts DEF Delivering
  <1>2. /\ Moves(w)
        /\ \/ worker'[w] = Idle
           \/ worker'[w].pc = "settle" /\ Keeps(w)
    BY <1>1, ReturnFacts DEF Keeps
  <1> QED
    BY <1>2, IdleFacts DEF Delivers, Delivering

(* The checks refuse the delivery, hold it, or lead to a run.               *)
LEMMA LoadKind ==
  ASSUME Typed, NEW w \in Workers, Load(w)
  PROVE  Delivers(w) /\ Quiet(w)
  <1>1. At(w, "load") /\ row' = row /\ Calm
    BY DEF Load, Calm
  <1>2. /\ worker[w].pc \in Delivering /\ Lead(w) \in Leads /\ TypedWorkers
        /\ worker[w].prior = {} /\ worker[w].made = {}
    BY <1>1, LeadFacts DEF Typed, At, Delivering
  <1>3. \/ \E end \in Ends : Return(w, end)
        \/ Go(w, "create") \/ Go(w, "reuse")
    BY EndFacts DEF Load
  <1>4. CASE \E end \in Ends : Return(w, end)
    BY <1>1, <1>2, <1>4, ReturnKind DEF Quiet
  <1>5. ASSUME NEW pc \in {"create", "reuse"}, Go(w, pc)
        PROVE  Delivers(w) /\ Quiet(w)
    <2>1. Moves(w) /\ worker'[w].pc = pc /\ Keeps(w)
      BY <1>1, <1>2, <1>5, GoFacts DEF Pcs, Delivering, At, Keeps
    <2> QED
      BY <1>1, <1>2, <2>1 DEF Delivers, Quiet, Delivering
  <1> QED
    BY <1>3, <1>4, <1>5

(* A run is created, unless there is one.                                   *)
LEMMA CreateKind ==
  ASSUME Typed, NEW w \in Workers, Create(w)
  PROVE  TypedData' /\ Delivers(w) /\ (Quiet(w) \/ Begins(w))
  <1>1. At(w, "create") /\ row' = row /\ UNCHANGED <<sent, applied, unset, faults>>
    BY DEF Create
  <1>2. /\ worker[w].pc \in Delivering /\ Lead(w) \in Leads /\ TypedWorkers /\ TypedRuns
        /\ worker[w].prior = {} /\ worker[w].made = {}
    BY <1>1, LeadFacts DEF Typed, At, Delivering
  <1>3. TypedCalls' /\ TypedBounds'
    BY <1>1 DEF Typed, TypedCalls, TypedBounds
  <1>4. CASE run[Lead(w)].status = "none"
    <2>1. run' = [run EXCEPT ![Lead(w)].status = "executing"] /\ Go(w, "send")
      BY <1>4 DEF Create
    <2>2. /\ TypedRuns' /\ run'[Lead(w)].status = "executing"
          /\ run'[Lead(w)].steps = run[Lead(w)].steps /\ RunsElse(Lead(w))
      <3>1. "executing" \in RunStatuses /\ {} \in SUBSET Steps
        BY DEF RunStatuses
      <3> QED
        BY <1>2, <2>1, <3>1, RunFacts
    <2>3. /\ Moves(w) /\ worker'[w].pc = "send" /\ Keeps(w)
          /\ worker'[w].prior = {} /\ worker'[w].made = {}
      BY <1>1, <1>2, <2>1, GoFacts DEF Pcs, Delivering, At, Keeps
    <2> QED
      BY <1>1, <1>2, <1>3, <1>4, <2>2, <2>3 DEF TypedData, Delivers, Begins, Delivering, Keeps
  <1>5. CASE run[Lead(w)].status # "none"
    <2>1. run' = run /\ \E end \in Ends : Return(w, end)
      BY <1>5, EndFacts DEF Create
    <2> QED
      BY <1>1, <1>2, <1>3, <2>1, ReturnKind DEF TypedData, Quiet, Calm, TypedRuns
  <1> QED
    BY <1>4, <1>5

(* A failed run is reused with its receipts, unless they hold it.           *)
LEMMA ReuseKind ==
  ASSUME Typed, NEW w \in Workers, Reuse(w)
  PROVE  Delivers(w) /\ Calm /\ (Quiet(w) \/ Reuses(w))
  <1>1. At(w, "reuse") /\ row' = row /\ Calm
    BY DEF Reuse, Calm
  <1>2. /\ worker[w].pc \in Delivering /\ Lead(w) \in Leads /\ TypedWorkers
        /\ run[Lead(w)] \in RunRecords /\ worker[w] \in Locals /\ worker[w].made = {}
    BY <1>1, LeadFacts DEF Typed, At, Delivering, TypedRuns
  <1>3. CASE Disposition(run[Lead(w)], TRUE) = "hold"
    <2>1. HadExternalCall(run[Lead(w)]) \in BOOLEAN
      BY DEF HadExternalCall
    <2>2. \E end \in Ends : Return(w, end)
      BY <1>3, <2>1, EndFacts DEF Reuse
    <2> QED
      BY <1>1, <1>2, <2>2, ReturnKind DEF Quiet
  <1>4. CASE Disposition(run[Lead(w)], TRUE) # "hold"
    <2> DEFINE prior == PriorReceipts(run[Lead(w)])
               x == [worker[w] EXCEPT !.pc = "delete", !.prior = prior]
    <2>1. worker' = [worker EXCEPT ![w] = x]
      BY <1>4 DEF Reuse
    <2>2. prior \in SUBSET Receipts
      BY <1>2, PriorFacts
    <2> HIDE DEF prior
    <2>3. /\ x \in Locals /\ x.pc = "delete" /\ x.lead = Lead(w) /\ x.listed = worker[w].listed
          /\ x.age = worker[w].age /\ x.prior = prior /\ x.made = {}
      BY <1>2, <2>2 DEF Locals, Pcs, Delivering, Lead
    <2> HIDE DEF x
    <2>4. Placed(x)
      BY <1>2, <2>3 DEF Placed
    <2>5. Moves(w) /\ worker'[w] = x
      BY <1>2, <2>1, <2>3, <2>4, MovesFacts
    <2> QED
      BY <1>1, <1>2, <1>4, <2>3, <2>5 DEF Delivers, Keeps, Reuses, Delivering, prior
  <1> QED
    BY <1>3, <1>4

(* The steps of a reused run are deleted.                                   *)
LEMMA DeleteKind ==
  ASSUME Typed, NEW w \in Workers, DeleteSteps(w)
  PROVE  TypedData' /\ Delivers(w) /\ Deletes(w)
  <1>1. /\ At(w, "delete") /\ row' = row /\ UNCHANGED <<sent, applied, unset, faults>>
        /\ run' = [run EXCEPT ![Lead(w)].steps = {}] /\ Go(w, "restart")
    BY DEF DeleteSteps
  <1>2. /\ worker[w].pc \in Delivering /\ Lead(w) \in Leads /\ TypedWorkers /\ TypedRuns
        /\ worker[w].made = {}
    BY <1>1, LeadFacts DEF Typed, At, Delivering
  <1>3. TypedCalls' /\ TypedBounds'
    BY <1>1 DEF Typed, TypedCalls, TypedBounds
  <1>4. /\ TypedRuns' /\ run'[Lead(w)].status = run[Lead(w)].status
        /\ run'[Lead(w)].steps = {} /\ RunsElse(Lead(w))
    <2>1. "executing" \in RunStatuses /\ {} \in SUBSET Steps
      BY DEF RunStatuses
    <2> QED
      BY <1>1, <1>2, <2>1, RunFacts
  <1>5. /\ Moves(w) /\ worker'[w].pc = "restart" /\ Keeps(w)
        /\ worker'[w].prior = worker[w].prior /\ worker'[w].made = {}
    BY <1>1, <1>2, GoFacts DEF Pcs, Delivering, At, Keeps
  <1> QED
    BY <1>1, <1>2, <1>3, <1>4, <1>5 DEF TypedData, Delivers, Deletes, Delivering, Keeps

(* The reused run is executing again.                                       *)
LEMMA RestartKind ==
  ASSUME Typed, NEW w \in Workers, Restart(w)
  PROVE  TypedData' /\ Delivers(w) /\ Restarts(w)
  <1>1. /\ At(w, "restart") /\ row' = row /\ UNCHANGED <<sent, applied, unset, faults>>
        /\ run' = [run EXCEPT ![Lead(w)].status = "executing"] /\ Go(w, "send")
    BY DEF Restart
  <1>2. /\ worker[w].pc \in Delivering /\ Lead(w) \in Leads /\ TypedWorkers /\ TypedRuns
        /\ worker[w].made = {}
    BY <1>1, LeadFacts DEF Typed, At, Delivering
  <1>3. TypedCalls' /\ TypedBounds'
    BY <1>1 DEF Typed, TypedCalls, TypedBounds
  <1>4. /\ TypedRuns' /\ run'[Lead(w)].status = "executing"
        /\ run'[Lead(w)].steps = run[Lead(w)].steps /\ RunsElse(Lead(w))
    <2>1. "executing" \in RunStatuses /\ {} \in SUBSET Steps
      BY DEF RunStatuses
    <2> QED
      BY <1>1, <1>2, <2>1, RunFacts
  <1>5. /\ Moves(w) /\ worker'[w].pc = "send" /\ Keeps(w)
        /\ worker'[w].prior = worker[w].prior /\ worker'[w].made = {}
    BY <1>1, <1>2, GoFacts DEF Pcs, Delivering, At, Keeps
  <1> QED
    BY <1>1, <1>2, <1>3, <1>4, <1>5 DEF TypedData, Delivers, Restarts, Delivering, Keeps

(* A step is added to what was made.                                        *)
LEMMA AddFacts ==
  ASSUME TypedWorkers, NEW w \in Workers, At(w, "send"), NEW s \in Steps,
         worker' = [worker EXCEPT ![w].made = worker[w].made \cup {s}]
  PROVE  /\ Moves(w) /\ worker'[w].pc = "send" /\ Keeps(w)
         /\ worker'[w].prior = worker[w].prior /\ worker'[w].made = worker[w].made \cup {s}
  <1> DEFINE x == [worker[w] EXCEPT !.made = worker[w].made \cup {s}]
  <1>1. worker[w] \in Locals /\ worker[w].pc = "send" /\ worker[w].lead \in Leads
    BY LeadFacts DEF At, Lead
  <1>2. worker' = [worker EXCEPT ![w] = x]
    OBVIOUS
  <1>3. /\ x \in Locals /\ x.pc = "send" /\ x.lead = Lead(w) /\ x.listed = worker[w].listed
        /\ x.age = worker[w].age /\ x.prior = worker[w].prior
        /\ x.made = worker[w].made \cup {s}
    BY <1>1 DEF Locals, Lead
  <1> HIDE DEF x
  <1>4. Placed(x)
    BY <1>1, <1>3 DEF Placed, Lead
  <1> QED
    BY <1>2, <1>3, <1>4, MovesFacts DEF Keeps

(* An operation is decided without a call.                                  *)
LEMMA SkipKind ==
  ASSUME Typed, NEW w \in Workers, Skip(w)
  PROVE  Delivers(w) /\ Calm /\ \E s \in Steps : Skips(w, s)
  <1>1. At(w, "send") /\ Left(w) # {} /\ row' = row /\ Calm
    BY DEF Skip, Calm
  <1>2. TypedWorkers /\ worker[w].prior \subseteq Receipts /\ worker[w].pc \in Delivering
    BY <1>1, LeadFacts DEF Typed, Locals, At, Delivering
  <1>3. PICK s \in Local(w, Now(w)) :
          worker' = [worker EXCEPT ![w].made = worker[w].made \cup {s}]
    BY DEF Skip
  <1>4. s \in Steps
    BY <1>1, <1>2, <1>3, TurnFacts, LocalFacts
  <1>5. /\ Moves(w) /\ worker'[w].pc = "send" /\ Keeps(w)
        /\ worker'[w].prior = worker[w].prior /\ worker'[w].made = worker[w].made \cup {s}
    BY <1>1, <1>2, <1>3, <1>4, AddFacts
  <1> QED
    BY <1>1, <1>2, <1>3, <1>4, <1>5 DEF Delivers, Skips, Delivering, Keeps

(* An operation is sent, with an answer.                                    *)
LEMMA SendKind ==
  ASSUME Typed, NEW w \in Workers, Send(w)
  PROVE  TypedData' /\ Delivers(w) /\ \E s \in Steps : Calls(w, s)
  <1> DEFINE l == Lead(w)
             op == Now(w)
             effects == EffectsOf(w, op)
             counts == [e \in Effects |-> IF e \in effects /\ sent[l][e] < 2
                                          THEN sent[l][e] + 1 ELSE sent[l][e]]
             S(answer) == [op |-> op, receipt |-> IF op = "opportunity" THEN "none" ELSE Classify(answer),
                           status |-> IF answer = "ok" THEN "succeeded" ELSE Failed(op),
                           answer |-> answer, withheld |-> op = "tags" /\ Blocked(w)]
  <1>1. At(w, "send") /\ Left(w) # {} /\ Local(w, op) = {} /\ row' = row
        /\ UNCHANGED <<run, unset, faults>>
    BY DEF Send
  <1>2. TypedWorkers /\ Lead(w) \in Leads /\ worker[w].pc \in Delivering /\ TypedCalls
    BY <1>1, LeadFacts DEF Typed, At, Delivering
  <1>3. PICK answer \in Answers, taken \in BOOLEAN :
          /\ answer = "ok" => taken
          /\ sent' = [sent EXCEPT ![l] = counts]
          /\ applied' = IF taken THEN [applied EXCEPT ![l] = applied[l] \cup effects] ELSE applied
          /\ worker' = [worker EXCEPT ![w].made = worker[w].made \cup {S(answer)}]
    BY DEF Send, Answers
  <1>4. op \in Operations
    BY <1>1, TurnFacts
  <1> DEFINE s == S(answer)
  <1>5. /\ s \in Steps /\ s.op = op /\ s.answer = answer
        /\ s.receipt = IF op = "opportunity" THEN "none" ELSE Classify(answer)
        /\ s.status = IF answer = "ok" THEN "succeeded" ELSE Failed(op)
        /\ s.withheld <=> op = "tags" /\ Blocked(w)
    <2>1. Classify(answer) \in Outcomes /\ Failed(op) \in StepStatuses
          /\ (op = "tags" /\ Blocked(w)) \in BOOLEAN /\ "succeeded" \in StepStatuses
      BY <1>3 DEF Classify, Answers, Outcomes, Failed, StepStatuses, Blocked
    <2> QED
      BY <1>3, <1>4, <2>1 DEF Steps
  <1>6. effects \subseteq Effects
    BY <1>4 DEF EffectsOf, Effects, Operations
  <1> HIDE DEF S, op, effects
  <1>7. /\ counts \in [Effects -> 0 .. 2]
        /\ \A e \in Effects : counts[e] = IF e \in effects /\ sent[l][e] < 2
                                          THEN sent[l][e] + 1 ELSE sent[l][e]
    <2>1. \A e \in Effects : sent[l][e] \in 0 .. 2
      BY <1>2 DEF TypedCalls
    <2> QED
      BY <2>1
  <1> HIDE DEF counts
  <1>8. /\ sent' \in [Leads -> [Effects -> 0 .. 2]] /\ sent'[l] = counts
        /\ \A k \in Leads \ {l} : sent'[k] = sent[k]
    BY <1>2, <1>3, <1>7 DEF TypedCalls
  <1>9. /\ applied' \in [Leads -> SUBSET Effects]
        /\ \A k \in Leads : applied[k] \subseteq applied'[k]
        /\ answer = "ok" => effects \subseteq applied'[l]
    BY <1>2, <1>3, <1>6 DEF TypedCalls
  <1>10. TypedData'
    BY <1>1, <1>8, <1>9 DEF TypedData, Typed, TypedRuns, TypedCalls, TypedBounds
  <1>11. /\ Moves(w) /\ worker'[w].pc = "send" /\ Keeps(w)
         /\ worker'[w].prior = worker[w].prior /\ worker'[w].made = worker[w].made \cup {s}
    BY <1>1, <1>2, <1>3, <1>5, AddFacts
  <1>12. Delivers(w)
    BY <1>1, <1>2, <1>11 DEF Delivers, Delivering
  <1> HIDE DEF s
  <1>13. Calls(w, s)
    BY <1>1, <1>3, <1>5, <1>7, <1>8, <1>9, <1>11 DEF Calls, Keeps, op, effects
  <1> QED
    BY <1>5, <1>10, <1>12, <1>13

(* The run and its steps are recorded.                                      *)
LEMMA FinishKind ==
  ASSUME Typed, NEW w \in Workers, Finish(w)
  PROVE  TypedData' /\ Delivers(w) /\ Records(w)
  <1> DEFINE made == worker[w].made l == Lead(w)
  <1>1. /\ At(w, "send") /\ Left(w) = {} /\ row' = row /\ UNCHANGED <<sent, applied, unset, faults>>
        /\ run' = [run EXCEPT ![l] = [status |-> RunStatus(made), steps |-> run[l].steps \cup made]]
    BY DEF Finish
  <1>2. /\ worker[w].pc \in Delivering /\ l \in Leads /\ TypedWorkers /\ TypedRuns
        /\ made \subseteq Steps
    BY <1>1, LeadFacts DEF Typed, At, Delivering, Locals
  <1>3. TypedCalls' /\ TypedBounds'
    BY <1>1 DEF Typed, TypedCalls, TypedBounds
  <1>4. RunStatus(made) \in RunStatuses /\ run[l].steps \cup made \in SUBSET Steps
    BY <1>2 DEF RunStatus, RunStatuses, TypedRuns, RunRecords
  <1>5. /\ TypedRuns' /\ run'[l].status = RunStatus(made)
        /\ run'[l].steps = run[l].steps \cup made /\ RunsElse(l)
    <2>1. PICK r \in RunRecords :
            r = [status |-> RunStatus(made), steps |-> run[l].steps \cup made]
      BY <1>4 DEF RunRecords
    <2>2. r.status = RunStatus(made) /\ r.steps = run[l].steps \cup made
      BY <2>1
    <2> QED
      BY <1>1, <1>2, <2>1, <2>2, RunMoves
  <1>6. Delivers(w) /\ worker'[w].pc \notin {"delete", "restart", "send"}
    <2>1. (\E s \in made : Called(s)) \in BOOLEAN
      OBVIOUS
    <2>2. \E end \in Ends : Return(w, end)
      BY <2>1, EndFacts DEF Finish
    <2> QED
      BY <1>1, <1>2, <2>2, ReturnKind
  <1> QED
    BY <1>1, <1>3, <1>5, <1>6 DEF TypedData, Records

(* A send that throws leaves a failed run.                                  *)
LEMMA ThrowKind ==
  ASSUME Typed, NEW w \in Workers, Throw(w)
  PROVE  /\ TypedData' /\ Delivers(w) /\ Lead(w) \in Leads /\ Restates(Lead(w)) /\ At(w, "send")
         /\ worker'[w].pc \notin {"delete", "restart", "send"}
  <1>1. /\ At(w, "send") /\ row' = row /\ UNCHANGED <<sent, applied, unset>>
        /\ run' = [run EXCEPT ![Lead(w)].status = "failed"]
    BY DEF Throw
  <1>2. worker[w].pc \in Delivering /\ Lead(w) \in Leads /\ TypedWorkers /\ TypedRuns
    BY <1>1, LeadFacts DEF Typed, At, Delivering
  <1>3. TypedCalls' /\ TypedBounds'
    BY <1>1, GhlAssumption DEF Typed, TypedCalls, TypedBounds, Throw, Fault
  <1>4. /\ TypedRuns' /\ run'[Lead(w)].status = "failed"
        /\ run'[Lead(w)].steps = run[Lead(w)].steps /\ RunsElse(Lead(w))
    <2>1. "failed" \in RunStatuses /\ {} \in SUBSET Steps
      BY DEF RunStatuses
    <2> QED
      BY <1>1, <1>2, <2>1, RunFacts
  <1>5. \E end \in Ends : Return(w, end)
    BY EndFacts DEF Throw
  <1> QED
    BY <1>1, <1>2, <1>3, <1>4, <1>5, ReturnKind DEF TypedData, Restates

(* The database fails a delivery, or its process dies.                      *)
LEMMA FailKind ==
  ASSUME Typed, NEW w \in Workers, Fail(w) \/ Crash(w)
  PROVE  TypedData' /\ Delivers(w) /\ Quiet(w)
  <1>1. row' = row /\ Calm /\ TypedWorkers
    BY DEF Fail, Crash, Calm, Typed
  <1>2. TypedData'
    <2>1. faults' = faults + 1 /\ faults < Faults
      BY DEF Fail, Crash, Fault
    <2>2. faults' \in 0 .. Faults
      BY <2>1, GhlAssumption DEF Typed, TypedBounds
    <2> QED
      BY <1>1, <2>2 DEF Calm, Typed, TypedData, TypedRuns, TypedCalls, TypedBounds
  <1>3. CASE Fail(w)
    <2>1. worker[w].pc \in Delivering /\ \E end \in Ends : Return(w, end)
      BY <1>3, EndFacts DEF Fail, Delivering
    <2> QED
      BY <1>1, <1>2, <2>1, ReturnKind DEF Quiet
  <1>4. CASE Crash(w)
    <2>1. Moves(w) /\ worker'[w] = Idle
      BY <1>1, <1>4, IdleFacts, MovesFacts DEF Crash
    <2> QED
      BY <1>1, <1>2, <2>1, IdleFacts DEF Delivers, Quiet
  <1> QED
    BY <1>3, <1>4

(* A run is marked as rolled back.                                          *)
LEMMA RollbackKind ==
  ASSUME Typed, NEW l \in Leads, Rollback(l)
  PROVE  TypedData' /\ Restates(l)
  <1>1. /\ run' = [run EXCEPT ![l].status = "rolled_back_manual"]
        /\ UNCHANGED <<sent, applied, unset>> /\ TypedRuns
    BY DEF Rollback, Typed
  <1>2. TypedCalls' /\ TypedBounds'
    BY GhlAssumption DEF Typed, TypedCalls, TypedBounds, Rollback, Fault
  <1>3. /\ TypedRuns' /\ run'[l].status = "rolled_back_manual"
        /\ run'[l].steps = run[l].steps /\ RunsElse(l)
    <2>1. "rolled_back_manual" \in RunStatuses /\ {} \in SUBSET Steps
      BY DEF RunStatuses
    <2> QED
      BY <1>1, <2>1, RunFacts
  <1> QED
    BY <1>1, <1>2, <1>3 DEF TypedData, Restates

(* Time passes: only ages change.                                           *)
Ticks ==
  /\ worker' \in [Workers -> Locals] /\ Calm
  /\ \A w \in Workers :
       /\ Placed(worker'[w]) /\ worker'[w].pc = worker[w].pc
       /\ worker'[w].lead = Lead(w) /\ worker'[w].listed = worker[w].listed
       /\ worker'[w].prior = worker[w].prior /\ worker'[w].made = worker[w].made
       /\ At(w, "idle") => worker'[w] = worker[w]
  /\ \A l \in Leads : row'[l].status = row[l].status
  /\ Prompt => \A w \in Workers : At(w, "idle")

(* The clock ages rows and walks; nothing is recorded or sent.              *)
LEMMA TickKind ==
  ASSUME Typed, Tick
  PROVE  TypedRows' /\ TypedData' /\ Ticks
  <1>1. \A a \in Ages : Older(a) \in Ages
    BY GhlAssumption DEF Ages, Older
  <1>2. TypedRows' /\ \A l \in Leads : row'[l].status = row[l].status
    <2>1. ASSUME NEW l \in Leads
          PROVE  row'[l] \in RowRecords /\ row'[l].status = row[l].status
      <3> DEFINE x == [row[l] EXCEPT !.age = Older(row[l].age)]
      <3>1. row[l] \in RowRecords
        BY DEF Typed, TypedRows
      <3>2. x \in RowRecords /\ x.status = row[l].status
        BY <1>1, <3>1 DEF RowRecords
      <3>3. row'[l] \in {x, row[l]}
        BY DEF Tick
      <3> HIDE DEF x
      <3> QED
        BY <3>1, <3>2, <3>3
    <2>2. DOMAIN row' = Leads /\ row' = [l \in Leads |-> row'[l]]
      BY DEF Tick
    <2> QED
      BY <2>1, <2>2 DEF TypedRows
  <1>3. ASSUME NEW w \in Workers
        PROVE  /\ worker'[w] \in Locals /\ Placed(worker'[w]) /\ worker'[w].pc = worker[w].pc
               /\ worker'[w].lead = Lead(w) /\ worker'[w].listed = worker[w].listed
               /\ worker'[w].prior = worker[w].prior /\ worker'[w].made = worker[w].made
               /\ At(w, "idle") => worker'[w] = worker[w]
    <2> DEFINE x == [worker[w] EXCEPT !.age = Older(worker[w].age)]
    <2>1. worker[w] \in Locals /\ Placed(worker[w])
      BY DEF Typed, TypedWorkers
    <2>2. /\ x \in Locals /\ x.pc = worker[w].pc /\ x.lead = worker[w].lead
          /\ x.listed = worker[w].listed /\ x.prior = worker[w].prior
          /\ x.made = worker[w].made /\ x.end = worker[w].end
      BY <1>1, <2>1 DEF Locals
    <2>3. /\ worker[w].drain => worker'[w] = x
          /\ ~worker[w].drain => worker'[w] = worker[w]
      BY DEF Tick
    <2> HIDE DEF x
    <2>4. CASE ~worker[w].drain
      BY <2>1, <2>3, <2>4 DEF Lead
    <2>5. CASE worker[w].drain
      <3>1. worker[w].pc # "idle"
        BY <2>1, <2>5, IdleFacts DEF Placed
      <3> QED
        BY <2>1, <2>2, <2>3, <2>5, <3>1 DEF Placed, At, Lead
    <2> QED
      BY <2>4, <2>5
  <1>4. worker' \in [Workers -> Locals]
    <2>1. DOMAIN worker' = Workers /\ worker' = [w \in Workers |-> worker'[w]]
      BY DEF Tick
    <2> QED
      BY <1>3, <2>1
  <1>5. Calm /\ faults' = faults /\ (Prompt => \A w \in Workers : At(w, "idle"))
    BY DEF Tick, Calm
  <1>6. TypedData'
    BY <1>5 DEF Calm, Typed, TypedData, TypedRuns, TypedCalls, TypedBounds
  <1> QED
    BY <1>2, <1>3, <1>4, <1>5, <1>6 DEF Ticks

-----------------------------------------------------------------------------
(* Every step is of one kind for what is recorded and sent, and of one for  *)
(* who works on what.                                                       *)
Resumes(w) ==
  /\ Delivers(w)
  /\ \/ Begins(w) \/ Reuses(w) \/ Deletes(w) \/ Restarts(w) \/ Records(w)
     \/ (\E s \in Steps : Skips(w, s) \/ Calls(w, s))
     \/ (At(w, "send") /\ Restates(Lead(w)) /\ worker'[w].pc \notin {"delete", "restart", "send"})
Walks(w) == Starts(w) \/ Takes(w) \/ Puts(w) \/ Turns(w) \/ Delivers(w)
Idles == UNCHANGED <<row, worker>>
Sheds == unset' \subseteq unset /\ UNCHANGED <<run, sent, applied>>

Kinds == \/ \E w \in Workers : Walks(w) /\ (Quiet(w) \/ (Lead(w) \in Leads /\ Resumes(w)))
         \/ Idles /\ (Sheds \/ \E l \in Leads : Restates(l))
         \/ Ticks

(* What a worker's step does to rows, runs and calls, whatever else it      *)
(* writes.                                                                  *)
LEMMA WorkKinds ==
  ASSUME Typed, NEW w \in Workers, Work(w)
  PROVE  TypedRows' /\ TypedData' /\ Walks(w) /\ (Quiet(w) \/ (Lead(w) \in Leads /\ Resumes(w)))
  <1> USE DEF Typed, Walks
  <1>1. ASSUME UNCHANGED <<run, sent, applied, unset, faults>>
        PROVE  TypedData'
    BY <1>1 DEF TypedData, TypedRuns, TypedCalls, TypedBounds
  <1>2. ASSUME row' = row
        PROVE  TypedRows'
    BY <1>2 DEF TypedRows
  <1>3. CASE ClaimRequest(w)
    BY <1>1, <1>3, ClaimRequestKind DEF ClaimRequest
  <1>4. CASE DrainRead(w)
    BY <1>1, <1>4, DrainReadKind DEF DrainRead
  <1>5. CASE DrainMark(w)
    BY <1>1, <1>5, DrainMarkKind DEF DrainMark
  <1>6. CASE DrainClaim(w)
    BY <1>1, <1>6, DrainClaimKind DEF DrainClaim
  <1>7. CASE Load(w)
    BY <1>1, <1>2, <1>7, LoadKind DEF Load
  <1>8. CASE Settle(w)
    BY <1>1, <1>8, SettleKind DEF Settle
  <1>9. At(w, "create") \/ At(w, "reuse") \/ At(w, "delete") \/ At(w, "restart") \/ At(w, "send")
        => Lead(w) \in Leads
    BY LeadFacts DEF At
  <1>10. CASE Create(w)
    BY <1>2, <1>9, <1>10, CreateKind DEF Create, Resumes
  <1>11. CASE Reuse(w)
    BY <1>1, <1>2, <1>9, <1>11, ReuseKind DEF Reuse, Resumes
  <1>12. CASE DeleteSteps(w)
    BY <1>2, <1>9, <1>12, DeleteKind DEF DeleteSteps, Resumes
  <1>13. CASE Restart(w)
    BY <1>2, <1>9, <1>13, RestartKind DEF Restart, Resumes
  <1>14. CASE Skip(w)
    BY <1>1, <1>2, <1>9, <1>14, SkipKind DEF Skip, Resumes
  <1>15. CASE Send(w)
    BY <1>2, <1>9, <1>15, SendKind DEF Send, Resumes
  <1>16. CASE Finish(w)
    BY <1>2, <1>9, <1>16, FinishKind DEF Finish, Resumes
  <1> QED
    BY <1>3, <1>4, <1>5, <1>6, <1>7, <1>8, <1>10, <1>11, <1>12, <1>13, <1>14, <1>15, <1>16
    DEF Work

(* Every step keeps the types and is of one of the kinds.                   *)
LEMMA StepKinds ==
  ASSUME Typed, [Next]_vars
  PROVE  Typed' /\ Kinds
  <1>1. ASSUME UNCHANGED <<run, sent, applied, unset, faults>>
        PROVE  TypedData'
    BY <1>1 DEF Typed, TypedData, TypedRuns, TypedCalls, TypedBounds
  <1>2. ASSUME row' = row
        PROVE  TypedRows'
    BY <1>2 DEF Typed, TypedRows
  <1>3. ASSUME NEW w \in Workers, Moves(w), TypedRows', TypedData'
        PROVE  Typed'
    BY <1>3, MovesTyped DEF Typed, TypedData
  <1>4. ASSUME Idles, TypedData'
        PROVE  Typed'
    BY <1>4 DEF Typed, Idles, TypedData, TypedRows, TypedWorkers
  <1>5. ASSUME NEW w \in Workers, Walks(w)
        PROVE  Moves(w)
    BY <1>5 DEF Walks, Starts, Takes, Puts, Turns, Delivers
  <1>6. ASSUME NEW w \in Workers, NEW l \in Leads, Intake(w, l)
        PROVE  Typed' /\ Kinds
    BY <1>1, <1>3, <1>5, <1>6, IntakeKind DEF Intake, Kinds, Walks
  <1>7. ASSUME NEW w \in Workers, NEW l \in Leads, OperatorTest(w, l)
        PROVE  Typed' /\ Kinds
    BY <1>1, <1>3, <1>5, <1>7, OperatorKind DEF OperatorTest, Kinds, Walks
  <1>8. ASSUME NEW w \in Workers, Work(w)
        PROVE  Typed' /\ Kinds
    BY <1>3, <1>5, <1>8, WorkKinds DEF Kinds
  <1>9. ASSUME NEW w \in Workers, StartDrain(w)
        PROVE  Typed' /\ Kinds
    BY <1>1, <1>3, <1>5, <1>9, StartDrainKind DEF StartDrain, Kinds, Walks
  <1>10. ASSUME NEW w \in Workers, Throw(w)
         PROVE  Typed' /\ Kinds
    <2>1. row' = row
      BY <1>10 DEF Throw
    <2> QED
      BY <1>2, <1>3, <1>5, <1>10, <2>1, ThrowKind DEF Kinds, Walks, Resumes
  <1>11. ASSUME NEW w \in Workers, Fail(w) \/ Crash(w)
         PROVE  Typed' /\ Kinds
    <2>1. row' = row
      BY <1>11 DEF Fail, Crash
    <2> QED
      BY <1>2, <1>3, <1>5, <1>11, <2>1, FailKind DEF Kinds, Walks
  <1>12. ASSUME NEW setting \in Unset, Complete(setting)
         PROVE  Typed' /\ Kinds
    <2>1. Idles /\ Sheds /\ faults' = faults
      BY <1>12 DEF Complete, Idles, Sheds
    <2>2. TypedData'
      BY <2>1 DEF Sheds, Typed, TypedData, TypedRuns, TypedCalls, TypedBounds
    <2> QED
      BY <1>4, <2>1, <2>2 DEF Kinds
  <1>13. ASSUME NEW l \in Leads, Rollback(l)
         PROVE  Typed' /\ Kinds
    <2>1. Idles
      BY <1>13 DEF Rollback, Idles
    <2> QED
      BY <1>4, <1>13, <2>1, RollbackKind DEF Kinds
  <1>14. CASE Tick
    BY <1>14, TickKind DEF Kinds, Ticks, Typed, TypedData, TypedWorkers
  <1>15. CASE UNCHANGED vars
    <2>1. Idles /\ Sheds /\ UNCHANGED <<run, sent, applied, unset, faults>>
      BY <1>15 DEF vars, Idles, Sheds
    <2> QED
      BY <1>1, <1>4, <2>1 DEF Kinds
  <1> QED
    BY <1>6, <1>7, <1>8, <1>9, <1>10, <1>11, <1>12, <1>13, <1>14, <1>15 DEF Next

(* Nothing is recorded at first.                                            *)
LEMMA InitTyped ==
  ASSUME Init
  PROVE  Typed
  <1>1. NoRow \in RowRecords /\ NoRun \in RunRecords
    BY GhlAssumption DEF NoRow, NoRun, RowRecords, RunRecords, RowStatuses, RunStatuses, Ages
  <1>2. TypedBounds
    BY GhlAssumption DEF Init, TypedBounds
  <1> QED
    BY <1>1, <1>2, IdleFacts
    DEF Init, Typed, TypedRows, TypedRuns, TypedCalls, TypedWorkers

(* TypeOK: rows, runs and the workers' locals keep the shape the schema     *)
(* gives them.                                                              *)
THEOREM TypeCorrect == Spec => []TypeOK
  <1>1. Typed => TypeOK
    BY DEF Typed, TypeOK, TypedRows, TypedRuns, TypedCalls, TypedBounds, TypedWorkers,
           RowRecords, RunRecords, Lists, Locals
  <1>2. Typed /\ [Next]_vars => Typed'
    BY StepKinds
  <1> QED
    BY <1>1, <1>2, InitTyped, PTL DEF Spec

-----------------------------------------------------------------------------
(* Rows: who works on a lead has a row, and delivers only one that is not   *)
(* pending; a row goes from pending to executing to its end.                *)
Begun(w) ==
  /\ Lead(w) \in Leads => row[Lead(w)].status # "absent"
  /\ \A l \in DOMAIN worker[w].listed : row[l].status # "absent"
  /\ w \notin Operators /\ worker[w].pc \in Delivering => row[Lead(w)].status # "pending"
AllBegun == \A w \in Workers : Begun(w)

Advances(l) ==
  /\ row[l].status # "absent" => row'[l].status # "absent"
  /\ row'[l].status = "pending" => row[l].status \in {"absent", "pending"}
  /\ Over(row[l]) => Over(row'[l])

(* What a worker knows of rows stays true of rows that advance.             *)
LEMMA BegunStays ==
  ASSUME Typed, AllBegun, NEW v \in Workers, \A l \in Leads : Advances(l),
         worker'[v].pc \in Delivering => worker[v].pc \in Delivering,
         worker'[v].lead = worker[v].lead \/ worker'[v].lead = Nobody,
         worker'[v].pc \in Delivering => worker'[v].lead = worker[v].lead,
         DOMAIN worker'[v].listed \subseteq DOMAIN worker[v].listed
  PROVE  Begun(v)'
  <1>1. /\ Begun(v) /\ DOMAIN worker[v].listed \subseteq Leads /\ Nobody \notin Leads
        /\ worker[v].pc \in Delivering => Lead(v) \in Leads
    BY LeadFacts, GhlAssumption DEF AllBegun, Typed, Locals, Lists, Delivering
  <1>2. worker'[v].lead \in Leads => row'[worker'[v].lead].status # "absent"
    BY <1>1 DEF Begun, Lead, Advances
  <1>3. \A l \in DOMAIN worker'[v].listed : row'[l].status # "absent"
    BY <1>1 DEF Begun, Advances
  <1>4. v \notin Operators /\ worker'[v].pc \in Delivering => row'[worker'[v].lead].status # "pending"
    BY <1>1 DEF Begun, Lead, Advances
  <1> QED
    BY <1>2, <1>3, <1>4 DEF Begun, Lead

(* One worker walks.                                                        *)
LEMMA WalkBegun ==
  ASSUME Typed, AllBegun, NEW w \in Workers, Walks(w)
  PROVE  (\A l \in Leads : Advances(l)) /\ AllBegun'
  <1>1. /\ Begun(w) /\ DOMAIN worker[w].listed \subseteq Leads /\ Nobody \notin Leads
        /\ worker[w].pc \notin {"idle", "drain"} => Lead(w) \in Leads
        /\ At(w, "idle") => worker[w] = Idle
        /\ worker[w].pc # "idle" => ~At(w, "idle")
    BY LeadFacts, GhlAssumption DEF AllBegun, Typed, TypedWorkers, Placed, Locals, Lists, At
  <1>2. ASSUME NEW l \in Leads
        PROVE  Advances(l)
    BY <1>1 DEF Walks, Starts, Takes, Puts, Turns, Delivers, RowsElse, Over, Advances
  <1>3. Moves(w)
    BY DEF Walks, Starts, Takes, Puts, Turns, Delivers
  <1>4. ASSUME NEW v \in Workers \ {w}
        PROVE  Begun(v)'
    BY <1>2, <1>3, BegunStays DEF Moves
  <1>5. Begun(w)'
    <2>1. CASE Starts(w)
      <3>1. \/ /\ DOMAIN worker'[w].listed = {} /\ row'[worker'[w].lead].status # "absent"
               /\ (w \in Operators \/ worker'[w].pc = "claim")
            \/ /\ \A l \in DOMAIN worker'[w].listed : row'[l].status # "absent"
               /\ worker'[w].lead = Nobody /\ worker'[w].pc = "drain"
        BY <2>1 DEF Starts
      <3> QED
        BY <1>1, <3>1 DEF Begun, Lead, Delivering
    <2>2. CASE Takes(w)
      <3>1. /\ row'[Lead(w)].status = "executing" /\ worker'[w].lead = Lead(w)
            /\ worker'[w].listed = worker[w].listed
        BY <2>2 DEF Takes, Keeps
      <3>2. \A l \in DOMAIN worker'[w].listed : row'[l].status # "absent"
        BY <1>1, <1>2, <3>1 DEF Begun, Advances
      <3> QED
        BY <3>1, <3>2 DEF Begun, Lead
    <2>3. CASE Puts(w)
      BY <1>2, <2>3, BegunStays DEF Puts, Delivering
    <2>4. CASE Turns(w)
      <3>1. row' = row /\ worker'[w].lead \in DOMAIN worker[w].listed
            /\ DOMAIN worker'[w].listed \subseteq DOMAIN worker[w].listed
            /\ worker'[w].pc \notin Delivering
        BY <2>4 DEF Turns, Delivering
      <3> QED
        BY <1>1, <3>1 DEF Begun, Lead
    <2>5. CASE Delivers(w)
      <3>1. CASE worker'[w] = Idle
        BY <1>1, <3>1, IdleFacts DEF Begun, Lead, Delivering
      <3>2. CASE worker[w].pc \in Delivering /\ worker'[w].pc \in Delivering /\ Keeps(w)
        BY <1>2, <3>2, BegunStays DEF Keeps, Lead
      <3> QED
        BY <2>5, <3>1, <3>2 DEF Delivers
    <2> QED
      BY <2>1, <2>2, <2>3, <2>4, <2>5 DEF Walks
  <1> QED
    BY <1>2, <1>4, <1>5 DEF AllBegun

(* Every step.                                                              *)
LEMMA StepBegun ==
  ASSUME Typed, AllBegun, Kinds
  PROVE  (\A l \in Leads : Advances(l)) /\ AllBegun'
  <1>1. CASE \E w \in Workers : Walks(w)
    BY <1>1, WalkBegun
  <1>2. CASE Idles
    <2>1. \A l \in Leads : Advances(l)
      BY <1>2 DEF Idles, Advances
    <2> QED
      BY <1>2, <2>1 DEF Idles, AllBegun, Begun, Lead
  <1>3. CASE Ticks
    <2>1. \A l \in Leads : Advances(l)
      BY <1>3 DEF Ticks, Advances, Over
    <2>2. ASSUME NEW w \in Workers
          PROVE  Begun(w)'
      BY <1>3, <2>1, BegunStays DEF Ticks, Lead
    <2> QED
      BY <2>1, <2>2 DEF AllBegun
  <1> QED
    BY <1>1, <1>2, <1>3 DEF Kinds

(* A delivery under way, and a row that was tried, is past pending.         *)
LEMMA BegunInvariant == Spec => [](Typed /\ AllBegun)
  <1>1. Init => Typed /\ AllBegun
    BY InitTyped, IdleFacts, GhlAssumption DEF Init, AllBegun, Begun, Lead, Delivering
  <1>2. Typed /\ AllBegun /\ [Next]_vars => (Typed /\ AllBegun)'
    BY StepKinds, StepBegun
  <1> QED
    BY <1>1, <1>2, PTL DEF Spec

(* PendingIsUntouched: a row that is still pending has not started an       *)
(* external attempt, whoever claims, drains, dies or comes late.            *)
THEOREM PendingIsLeft == Spec => []PendingIsUntouched
  <1>1. AllBegun => PendingIsUntouched
    BY DEF AllBegun, Begun, PendingIsUntouched
  <1> QED
    BY <1>1, BegunInvariant, PTL

(* EndedStaysEnded: neither a stale drain nor a settlement by id takes up a *)
(* row that ended.                                                          *)
THEOREM EndedIsFinal == Spec => EndedStaysEnded
  <1>1. Typed /\ AllBegun /\ [Next]_vars =>
          [\A l \in Leads : row[l].status \in {"settled", "uncertain"}
                              => row'[l].status \in {"settled", "uncertain"}]_vars
    BY StepKinds, StepBegun DEF Advances, Over
  <1> QED
    BY <1>1, BegunInvariant, PTL DEF Spec, EndedStaysEnded

-----------------------------------------------------------------------------
(* What is recorded as done was taken by GHL.                               *)
Effect(op) == IF op = "tags" THEN "routing_tags" ELSE op

(* A step or a receipt that claims success has its effect confirmed, unless *)
(* it is of custom fields that need not be written.                         *)
Excused(op) == op = "custom_fields" /\ ~StampRequired
StepClaims(taken, s) ==
  s.status \in {"succeeded", "partial_success"} \/ s.receipt = "completed"
    => Excused(s.op) \/ Effect(s.op) \in taken
ReceiptClaims(taken, r) == r.outcome = "completed" => Excused(r.op) \/ Effect(r.op) \in taken

(* A required operation has succeeded or failed, or its fields are not      *)
(* mapped; each is made once.                                               *)
Decided(s) ==
  /\ s.op = "contact" \/ (s.op = "opportunity" /\ Opportunity)
       => s.status \in {"succeeded", "failed"}
  /\ s.op = "custom_fields" /\ StampRequired => s.status \in {"succeeded", "failed", "skipped"}
Once(S) == \A s, t \in S : s.op = t.op => s = t

(* The required fields are written, or were found without a mapping.        *)
Stamped(taken, S) == "custom_fields" \in taken \/ StatusIs(S, "custom_fields", {"skipped"})
Waited(taken, S) == StampRequired /\ (\E s \in S : Enters(s)) => Stamped(taken, S)

RunHonest(l) == \A s \in run[l].steps : StepClaims(applied[l], s)
WorkerHonest(w) ==
  Lead(w) \in Leads =>
    /\ \A s \in worker[w].made : StepClaims(applied[Lead(w)], s) /\ Decided(s)
    /\ \A r \in worker[w].prior : ReceiptClaims(applied[Lead(w)], r)
    /\ Once(worker[w].made)
    /\ Waited(applied[Lead(w)], worker[w].made)
Honest == (\A l \in Leads : RunHonest(l)) /\ (\A w \in Workers : WorkerHonest(w))

Grows == \A l \in Leads : applied[l] \subseteq applied'[l]

(* What GHL took stays, so a claim stays true.                              *)
LEMMA ClaimsStay ==
  ASSUME Grows, NEW v \in Workers, WorkerHonest(v),
         \/ worker'[v].prior = {} /\ worker'[v].made = {}
         \/ /\ worker'[v].lead = Lead(v) /\ worker'[v].prior = worker[v].prior
            /\ worker'[v].made = worker[v].made
         \/ /\ worker'[v].lead = Lead(v) /\ worker'[v].prior = worker[v].prior
            /\ worker'[v].made = {}
  PROVE  WorkerHonest(v)'
  <1>1. \A l \in Leads : \A S : Waited(applied[l], S) => Waited(applied'[l], S)
    BY DEF Grows, Waited, Stamped
  <1>2. \A taken : Waited(taken, {})
    BY DEF Waited
  <1>3. /\ \A l \in Leads : \A s : StepClaims(applied[l], s) => StepClaims(applied'[l], s)
        /\ \A l \in Leads : \A r : ReceiptClaims(applied[l], r) => ReceiptClaims(applied'[l], r)
    BY DEF Grows, StepClaims, ReceiptClaims
  <1>4. CASE worker'[v].prior = {} /\ worker'[v].made = {}
    BY <1>2, <1>4 DEF WorkerHonest, Once, Lead
  <1>5. CASE worker'[v].lead = Lead(v) /\ worker'[v].prior = worker[v].prior
    BY <1>1, <1>2, <1>3, <1>5 DEF WorkerHonest, Once, Lead
  <1> QED
    BY <1>4, <1>5

(* A run that gains no steps keeps what it claims.                          *)
LEMMA RunClaimsStay ==
  ASSUME Grows, NEW l \in Leads, RunHonest(l), run'[l].steps \subseteq run[l].steps
  PROVE  RunHonest(l)'
  BY DEF Grows, RunHonest, StepClaims

(* A delivery that is recorded as done has had what it needs confirmed.     *)
LEMMA DoneIsApplied ==
  ASSUME NEW w \in Workers, Lead(w) \in Leads, WorkerHonest(w), Left(w) = {},
         RunStatus(worker[w].made) \in {"succeeded", "partial_success"}
  PROVE  /\ {"contact", "routing_tags"} \subseteq applied[Lead(w)]
         /\ Opportunity => "opportunity" \in applied[Lead(w)]
         /\ StampRequired => Stamped(applied[Lead(w)], worker[w].made)
  <1> DEFINE made == worker[w].made l == Lead(w)
  <1>1. /\ StatusIs(made, "contact", {"succeeded"}) /\ StatusIs(made, "tags", {"succeeded"})
        /\ Opportunity => StatusIs(made, "opportunity", {"succeeded"})
        /\ StampRequired => ~StatusIs(made, "custom_fields", {"failed"})
    BY DEF RunStatus
  <1>2. \A op : StatusIs(made, op, {"succeeded"}) => Excused(op) \/ Effect(op) \in applied[l]
    BY DEF StatusIs, WorkerHonest, StepClaims
  <1>3. ~StatusIs(made, "contact", {"failed"})
    BY <1>1 DEF StatusIs, WorkerHonest, Once
  <1>4. MadeOp(made, "custom_fields")
    BY <1>3, OverFacts DEF Operations
  <1>5. ASSUME StampRequired
        PROVE  StatusIs(made, "custom_fields", {"succeeded"}) \/ StatusIs(made, "custom_fields", {"skipped"})
    BY <1>1, <1>4, <1>5 DEF StatusIs, MadeOp, WorkerHonest, Decided
  <1> QED
    BY <1>1, <1>2, <1>5 DEF Effect, Excused, Stamped

(* An operation that enters automation is sent after what it waits for.     *)
LEMMA SentAfter ==
  ASSUME NEW w \in Workers, Lead(w) \in Leads, WorkerHonest(w), Left(w) # {},
         Local(w, Now(w)) = {}
  PROVE  /\ StampRequired /\ ("entry_tag" \in EffectsOf(w, Now(w)) \/ "workflow" \in EffectsOf(w, Now(w)))
              => Stamped(applied[Lead(w)], worker[w].made)
         /\ Opportunity /\ "workflow" \in EffectsOf(w, Now(w)) => "opportunity" \in applied[Lead(w)]
  <1> DEFINE made == worker[w].made l == Lead(w) op == Now(w)
  <1>1. \A o : StatusIs(made, o, {"succeeded"}) /\ o # "tags" => Excused(o) \/ o \in applied[l]
    BY DEF StatusIs, WorkerHonest, StepClaims, Effect
  <1>2. op \in Operations
    BY TurnFacts
  <1>3. /\ "workflow" \in EffectsOf(w, op) => op = "workflow"
        /\ "entry_tag" \in EffectsOf(w, op) => op = "tags" /\ ~Blocked(w)
    BY <1>2 DEF EffectsOf, TagsOnly, Operations
  <1>4. op = "workflow" => ~Blocked(w) /\ ~StatusIs(made, "opportunity", {"failed"})
    BY SentFacts
  <1>5. ASSUME StampRequired, op \in {"tags", "workflow"}, ~Blocked(w)
        PROVE  StatusIs(made, "custom_fields", {"succeeded"}) \/ StatusIs(made, "custom_fields", {"skipped"})
    <2>1. MadeOp(made, "custom_fields")
      BY <1>5, TurnFacts
    <2>2. ~StatusIs(made, "custom_fields", {"failed"})
      BY <1>5 DEF Blocked
    <2> QED
      BY <1>5, <2>1, <2>2 DEF StatusIs, MadeOp, WorkerHonest, Decided
  <1>6. ASSUME Opportunity, op = "workflow"
        PROVE  StatusIs(made, "opportunity", {"succeeded"})
    <2>1. MadeOp(made, "opportunity")
      BY <1>6, TurnFacts
    <2> QED
      BY <1>4, <1>6, <2>1 DEF StatusIs, MadeOp, WorkerHonest, Decided
  <1> HIDE DEF op, made, l
  <1>7. StampRequired /\ ("entry_tag" \in EffectsOf(w, op) \/ "workflow" \in EffectsOf(w, op))
          => Stamped(applied[l], made)
    BY <1>1, <1>3, <1>4, <1>5 DEF Stamped, Excused
  <1>8. Opportunity /\ "workflow" \in EffectsOf(w, op) => "opportunity" \in applied[l]
    BY <1>1, <1>3, <1>6 DEF Excused
  <1> QED
    BY <1>7, <1>8 DEF op, l, made

(* The steps a worker adds claim nothing that was not confirmed.            *)
LEMMA SkipHonest ==
  ASSUME Typed, NEW w \in Workers, Lead(w) \in Leads, WorkerHonest(w), NEW s, Skips(w, s)
  PROVE  WorkerHonest(w)'
  <1> DEFINE made == worker[w].made prior == worker[w].prior l == Lead(w) op == Now(w)
  <1>1. op \in Operations /\ ~MadeOp(made, op) /\ prior \subseteq Receipts
    BY TurnFacts, LeadFacts DEF Skips, Typed, Locals
  <1>2. s.op = op /\ ~Called(s)
        /\ \/ s.status = "succeeded" /\ Completed(prior, op)
           \/ /\ s.status # "succeeded" /\ s.receipt # "completed" /\ Decided(s)
              /\ s.status = "partial_success" => Excused(op)
    BY <1>1, LocalFacts DEF Skips, Decided, Called, Excused
  <1>3. StepClaims(applied[l], s) /\ Decided(s)
    BY <1>2 DEF StepClaims, WorkerHonest, ReceiptClaims, Completed, Has, Decided
  <1>4. Once(made \cup {s})
    BY <1>1, <1>2 DEF Once, WorkerHonest, MadeOp
  <1>5. /\ worker'[w].made = made \cup {s} /\ worker'[w].prior = prior /\ worker'[w].lead = l
        /\ applied' = applied
    BY DEF Skips, Calm
  <1>6. Waited(applied[l], made \cup {s})
    BY <1>2 DEF WorkerHonest, Waited, Stamped, StatusIs, Enters
  <1> QED
    BY <1>3, <1>4, <1>5, <1>6 DEF WorkerHonest, Lead

(* A call adds a step that claims success only for what GHL applied.        *)
LEMMA CallHonest ==
  ASSUME Typed, NEW w \in Workers, Lead(w) \in Leads, WorkerHonest(w), NEW s, Calls(w, s)
  PROVE  Grows /\ WorkerHonest(w)'
  <1> DEFINE made == worker[w].made prior == worker[w].prior l == Lead(w) op == Now(w)
  <1>1. op \in Operations /\ ~MadeOp(made, op)
    BY TurnFacts DEF Calls
  <1>2. /\ s.op = op /\ s.answer \in Answers
        /\ s.receipt = IF op = "opportunity" THEN "none" ELSE Classify(s.answer)
        /\ s.status = IF s.answer = "ok" THEN "succeeded" ELSE Failed(op)
        /\ s.answer = "ok" => EffectsOf(w, op) \subseteq applied'[l]
        /\ \A k \in Leads : applied[k] \subseteq applied'[k]
        /\ s.withheld <=> op = "tags" /\ Blocked(w)
        /\ worker'[w].made = made \cup {s} /\ worker'[w].prior = prior /\ worker'[w].lead = l
    BY DEF Calls
  <1>3. Grows
    BY <1>2 DEF Grows
  <1>4. s.answer # "ok" => s.status \notin {"succeeded", "partial_success"} /\ s.receipt # "completed"
    BY <1>2 DEF Answers, Classify, Failed
  <1>5. s.answer = "ok" => Effect(op) \in applied'[l]
    <2>1. \/ Effect(op) \in EffectsOf(w, op)
          \/ op = "tags" /\ PriorWithheld(w)
      BY DEF Effect, EffectsOf, TagsOnly
    <2>2. PriorWithheld(w) => "routing_tags" \in applied[l]
      BY DEF PriorWithheld, WorkerHonest, ReceiptClaims, Effect, Excused
    <2> QED
      BY <1>2, <2>1, <2>2 DEF Effect
  <1>6. StepClaims(applied'[l], s)
    BY <1>2, <1>4, <1>5 DEF StepClaims
  <1>7. Decided(s)
    BY <1>2 DEF Decided, Failed
  <1>8. Once(made \cup {s})
    BY <1>1, <1>2 DEF Once, WorkerHonest, MadeOp
  <1>9. /\ \A t \in made : StepClaims(applied'[l], t) /\ Decided(t)
        /\ \A r \in prior : ReceiptClaims(applied'[l], r)
    BY <1>2 DEF WorkerHonest, StepClaims, ReceiptClaims
  <1>11. Waited(applied'[l], made \cup {s})
    <2>1. CASE Enters(s) /\ StampRequired
      <3>1. "entry_tag" \in EffectsOf(w, op) \/ "workflow" \in EffectsOf(w, op)
        BY <1>2, <2>1 DEF Enters, EffectsOf
      <3>2. Stamped(applied[l], made)
        BY <2>1, <3>1, SentAfter DEF Calls
      <3> QED
        BY <1>2, <3>2 DEF Waited, Stamped, StatusIs
    <2>2. CASE ~(Enters(s) /\ StampRequired)
      <3>1. Waited(applied[l], made)
        BY DEF WorkerHonest
      <3> QED
        BY <1>2, <2>2, <3>1 DEF Waited, Stamped, StatusIs
    <2> QED
      BY <2>1, <2>2
  <1> HIDE DEF made, prior, l, op
  <1>10. \A t \in worker'[w].made : StepClaims(applied'[worker'[w].lead], t) /\ Decided(t)
    BY <1>2, <1>6, <1>7, <1>9
  <1> QED
    BY <1>2, <1>3, <1>8, <1>9, <1>10, <1>11 DEF WorkerHonest, Lead

(* Enrolment comes after the opportunity.                                   *)
Waits(l) == Opportunity /\ sent[l]["workflow"] > 0 => "opportunity" \in applied[l]
Account == Honest /\ \A l \in Leads : Waits(l)

(* A step that adds no steps to a run and calls nothing.                    *)
LEMMA StillHonest ==
  ASSUME Typed, Account, UNCHANGED <<sent, applied>>,
         \A l \in Leads : run'[l].steps \subseteq run[l].steps,
         \A v \in Workers : WorkerHonest(v)'
  PROVE  Account'
  <1>1. Grows
    BY DEF Grows
  <1>2. \A l \in Leads : RunHonest(l)'
    BY <1>1, RunClaimsStay DEF Account, Honest
  <1>3. \A l \in Leads : Waits(l)'
    BY DEF Account, Waits
  <1> QED
    BY <1>2, <1>3 DEF Account, Honest

(* The other workers.                                                       *)
LEMMA OthersHonest ==
  ASSUME Honest, Grows, NEW w \in Workers, Moves(w)
  PROVE  \A v \in Workers \ {w} : WorkerHonest(v)'
  <1>1. ASSUME NEW v \in Workers \ {w}
        PROVE  WorkerHonest(v)'
    BY <1>1, ClaimsStay DEF Honest, Moves, Lead
  <1> QED
    BY <1>1

(* A worker that neither records nor sends has nothing to claim.            *)
LEMMA EmptyHonest ==
  ASSUME NEW w \in Workers, worker'[w].prior = {}, worker'[w].made = {}
  PROVE  WorkerHonest(w)'
  BY DEF WorkerHonest, Once, Lead, Waited

(* A worker that only moves rows claims nothing.                            *)
LEMMA QuietHonest ==
  ASSUME Typed, Account, NEW w \in Workers, Quiet(w)
  PROVE  Account'
  <1>1. Moves(w) /\ UNCHANGED <<run, sent, applied>>
    BY DEF Quiet, Calm
  <1>2. worker'[w].prior = {} /\ worker'[w].made = {}
    BY DEF Quiet, Moves, Placed
  <1>3. \A v \in Workers : WorkerHonest(v)'
    BY <1>1, <1>2, EmptyHonest, OthersHonest DEF Account, Grows
  <1> QED
    BY <1>1, <1>3, StillHonest

(* Nor does a worker's step in a run claim what was not applied.            *)
LEMMA ResumeHonest ==
  ASSUME Typed, Account, NEW w \in Workers, Lead(w) \in Leads, Resumes(w)
  PROVE  Account'
  <1> DEFINE l == Lead(w)
  <1>1. Moves(w) /\ WorkerHonest(w) /\ RunHonest(l) /\ run[l] \in RunRecords
    BY DEF Resumes, Delivers, Account, Honest, Typed, TypedRuns
  <1>2. ASSUME UNCHANGED <<sent, applied>>, WorkerHonest(w)',
               run' = run \/ (RunsElse(l) /\ run'[l].steps \subseteq run[l].steps)
        PROVE  Account'
    <2>1. \A v \in Workers : WorkerHonest(v)'
      BY <1>1, <1>2, OthersHonest DEF Account, Grows
    <2>2. \A k \in Leads : run'[k].steps \subseteq run[k].steps
      BY <1>2 DEF RunsElse
    <2> QED
      BY <1>2, <2>1, <2>2, StillHonest
  <1>3. CASE Begins(w)
    BY <1>2, <1>3, EmptyHonest DEF Begins
  <1>4. CASE Reuses(w)
    <2>1. \A r \in PriorReceipts(run[l]) : ReceiptClaims(applied[l], r)
      <3> SUFFICES ASSUME NEW r \in PriorReceipts(run[l]), r.outcome = "completed"
                   PROVE  Excused(r.op) \/ Effect(r.op) \in applied[l]
        BY DEF ReceiptClaims
      <3>1. PICK s \in run[l].steps : r.op = s.op /\ r.outcome = ReceiptOf(s, TRUE)
        BY <1>1, PriorFacts
      <3>2. s \in Steps
        BY <1>1 DEF RunRecords
      <3>3. s.receipt = "completed" \/ s.status \in {"succeeded", "partial_success"}
        BY <3>1, <3>2, ReceiptFacts
      <3> QED
        BY <1>1, <3>1, <3>3 DEF RunHonest, StepClaims
    <2>2. WorkerHonest(w)'
      BY <1>4, <2>1 DEF Reuses, Calm, WorkerHonest, Once, Lead, Waited
    <2> QED
      BY <1>2, <1>4, <2>2 DEF Reuses, Calm
  <1>5. CASE Restarts(w)
    BY <1>1, <1>2, <1>5, ClaimsStay DEF Restarts, Grows
  <1>6. CASE Deletes(w)
    <2>1. WorkerHonest(w)'
      BY <1>1, <1>6, ClaimsStay DEF Deletes, Grows
    <2>2. \A v \in Workers : WorkerHonest(v)'
      BY <1>1, <1>6, <2>1, OthersHonest DEF Account, Grows, Deletes
    <2>3. \A k \in Leads : run'[k].steps \subseteq run[k].steps
      BY <1>6 DEF RunsElse, Deletes
    <2> QED
      BY <1>6, <2>2, <2>3, StillHonest DEF Deletes
  <1>7. CASE Records(w)
    <2>1. worker'[w].prior = {} /\ worker'[w].made = {} /\ UNCHANGED <<sent, applied>>
      BY <1>1, <1>7 DEF Records, Moves, Placed
    <2>2. Grows /\ \A v \in Workers : WorkerHonest(v)'
      BY <1>1, <2>1, EmptyHonest, OthersHonest DEF Account, Grows
    <2>3. \A k \in Leads : RunHonest(k)'
      BY <1>7, <2>1 DEF Records, RunsElse, RunHonest, WorkerHonest, Account, Honest
    <2>4. \A k \in Leads : Waits(k)'
      BY <2>1 DEF Account, Waits
    <2> QED
      BY <2>2, <2>3, <2>4 DEF Account, Honest
  <1>8. ASSUME NEW s, Skips(w, s)
        PROVE  Account'
    BY <1>1, <1>2, <1>8, SkipHonest DEF Skips, Calm
  <1>9. ASSUME NEW s, Calls(w, s)
        PROVE  Account'
    <2>1. Grows /\ \A v \in Workers : WorkerHonest(v)'
      BY <1>1, <1>9, CallHonest, OthersHonest DEF Account
    <2>2. run' = run
      BY <1>9 DEF Calls
    <2>3. \A k \in Leads : RunHonest(k)'
      BY <2>1, <2>2, RunClaimsStay DEF Account, Honest
    <2>4. ASSUME NEW k \in Leads
          PROVE  Waits(k)'
      <3>1. Waits(k) /\ applied[k] \subseteq applied'[k]
        BY <2>1 DEF Account, Grows
      <3>2. CASE k # l
        BY <1>9, <3>1, <3>2 DEF Calls, Waits
      <3>3. CASE k = l
        <4>1. "workflow" \in Effects
          BY DEF Effects, Operations
        <4>2. "workflow" \in EffectsOf(w, Now(w)) \/ sent'[l]["workflow"] = sent[l]["workflow"]
          BY <1>9, <4>1 DEF Calls
        <4>3. Opportunity /\ "workflow" \in EffectsOf(w, Now(w)) => "opportunity" \in applied[l]
          BY <1>1, <1>9, SentAfter DEF Calls
        <4> HIDE DEF l
        <4> QED
          BY <3>1, <3>3, <4>2, <4>3 DEF Waits
      <3> QED
        BY <3>2, <3>3
    <2> QED
      BY <2>1, <2>3, <2>4 DEF Account, Honest
  <1>10. CASE Restates(l) /\ worker'[w].pc \notin {"delete", "restart", "send"}
    <2>1. worker'[w].prior = {} /\ worker'[w].made = {}
      BY <1>1, <1>10 DEF Moves, Placed
    <2> QED
      BY <1>2, <1>10, <2>1, EmptyHonest DEF Restates
  <1> QED
    BY <1>3, <1>4, <1>5, <1>6, <1>7, <1>8, <1>9, <1>10 DEF Resumes

(* No step of the system does.                                              *)
LEMMA StepHonest ==
  ASSUME Typed, Account, Kinds
  PROVE  Account'
  <1>1. CASE \E w \in Workers : Walks(w) /\ (Quiet(w) \/ (Lead(w) \in Leads /\ Resumes(w)))
    BY <1>1, QuietHonest, ResumeHonest
  <1>2. ASSUME UNCHANGED worker, applied' = applied
        PROVE  \A v \in Workers : WorkerHonest(v)'
    BY <1>2 DEF Account, Honest, WorkerHonest, Lead
  <1>3. CASE Idles /\ Sheds
    BY <1>2, <1>3, StillHonest DEF Idles, Sheds
  <1>4. CASE Idles /\ \E l \in Leads : Restates(l)
    <2>1. PICK l \in Leads : Restates(l)
      BY <1>4
    <2>2. \A k \in Leads : run'[k].steps \subseteq run[k].steps
      BY <2>1 DEF Restates, RunsElse
    <2> QED
      BY <1>2, <1>4, <2>1, <2>2, StillHonest DEF Idles, Restates
  <1>5. CASE Ticks
    <2>1. ASSUME NEW v \in Workers
          PROVE  WorkerHonest(v)'
      BY <1>5, ClaimsStay DEF Ticks, Calm, Grows, Account, Honest
    <2> QED
      BY <1>5, <2>1, StillHonest DEF Ticks, Calm
  <1> QED
    BY <1>1, <1>3, <1>4, <1>5 DEF Kinds

(* At first nothing is claimed.                                             *)
LEMMA AccountInit ==
  ASSUME Init
  PROVE  Account
  <1>1. Honest
    BY IdleFacts, GhlAssumption DEF Init, Honest, RunHonest, WorkerHonest, NoRun, Lead, Once, Waited
  <1>2. \A l \in Leads : Waits(l)
    BY DEF Init, Waits, Effects, Operations
  <1> QED
    BY <1>1, <1>2 DEF Account

(* Whatever claims success was applied, in every instance.                  *)
LEMMA AccountInvariant == Spec => [](Typed /\ Account)
  <1>1. Init => Account
    BY AccountInit
  <1>2. Typed /\ Account /\ [Next]_vars => (Typed /\ Account)'
    BY StepKinds, StepHonest
  <1> QED
    BY <1>1, <1>2, InitTyped, PTL DEF Spec

(* What is asked of a run that becomes delivered.                           *)
Delivered(l) ==
  run'[l].status \in {"succeeded", "partial_success"} /\ run'[l].status # run[l].status =>
    /\ {"contact", "routing_tags"} \subseteq applied[l]
    /\ Opportunity => "opportunity" \in applied[l]
    /\ StampRequired => Stamped(applied[l], run'[l].steps)

(* Only the end of an attempt makes a run delivered.                        *)
LEMMA StepDelivered ==
  ASSUME Typed, Account, Kinds, NEW l \in Leads
  PROVE  Delivered(l)
  <1>1. ASSUME NEW w \in Workers, Lead(w) \in Leads, Records(w)
        PROVE  Delivered(l)
    <2> DEFINE made == worker[w].made
    <2>1. CASE l # Lead(w)
      BY <1>1, <2>1 DEF Records, RunsElse, Delivered
    <2>2. CASE l = Lead(w)
      <3>1. WorkerHonest(w)
        BY DEF Account, Honest
      <3>2. run'[l].status = RunStatus(made) /\ made \subseteq run'[l].steps /\ Left(w) = {}
        BY <1>1, <2>2 DEF Records
      <3>3. Stamped(applied[l], made) => Stamped(applied[l], run'[l].steps)
        BY <3>2 DEF Stamped, StatusIs
      <3> QED
        BY <1>1, <2>2, <3>1, <3>2, <3>3, DoneIsApplied DEF Delivered
    <2> QED
      BY <2>1, <2>2
  <1>2. ASSUME run'[l].status = run[l].status \/ run'[l].status \notin {"succeeded", "partial_success"}
        PROVE  Delivered(l)
    BY <1>2 DEF Delivered
  <1>3. ASSUME NEW w \in Workers, Lead(w) \in Leads, Resumes(w), ~Records(w)
        PROVE  Delivered(l)
    BY <1>2, <1>3 DEF Resumes, Begins, Reuses, Deletes, Restarts, Skips, Calls, Restates, RunsElse, Calm
  <1> QED
    BY <1>1, <1>2, <1>3 DEF Kinds, Quiet, Calm, Idles, Sheds, Restates, RunsElse, Ticks

(* DeliveredIsApplied: a run becomes delivered only with its required       *)
(* operations confirmed, in this attempt or an earlier one, or its fields   *)
(* found without a mapping, even where two deliveries of a plan overlap.    *)
THEOREM DeliveredWasApplied == Spec => DeliveredIsApplied
  <1>1. Typed /\ Account /\ [Next]_vars
          => [\A l \in Leads :
                run'[l].status \in {"succeeded", "partial_success"} /\ run'[l].status # run[l].status =>
                  /\ {"contact", "routing_tags"} \subseteq applied[l]
                  /\ Opportunity => "opportunity" \in applied[l]
                  /\ StampRequired =>
                       \/ "custom_fields" \in applied[l]
                       \/ StatusIs(run'[l].steps, "custom_fields", {"skipped"})]_vars
    BY StepKinds, StepDelivered DEF Delivered, Stamped
  <1> QED
    BY <1>1, AccountInvariant, PTL DEF Spec, DeliveredIsApplied

(* AutomationWaits: an attempt sends the entering tag or the enrolment only *)
(* after the required fields are confirmed or were found without a mapping, *)
(* and the enrolment only after the opportunity.                            *)
THEOREM AutomationWaited == Spec => []AutomationWaits
  <1>1. Typed /\ Account => AutomationWaits
    <2> SUFFICES ASSUME Typed, Account PROVE AutomationWaits
      OBVIOUS
    <2>1. ASSUME NEW w \in Workers, StampRequired, \E s \in worker[w].made : Enters(s)
          PROVE  Stamped(applied[Lead(w)], worker[w].made)
      <3>1. Lead(w) \in Leads
        BY <2>1, LeadFacts DEF Typed, TypedWorkers, Placed
      <3> QED
        BY <2>1, <3>1 DEF Account, Honest, WorkerHonest, Waited
    <2> QED
      BY <2>1 DEF AutomationWaits, Stamped, Account, Waits
  <1> QED
    BY <1>1, AccountInvariant, PTL

-----------------------------------------------------------------------------
(* An attempt ends or dies before the clock moves, and an operator's test   *)
(* runs while nobody else is at work.                                       *)
Alone == Prompt /\ (Solo \/ Operators = {})

(* Then one worker at most delivers a lead: its claim is fresh or its row   *)
(* has ended, so nobody takes it over.                                      *)
Claimed(w) ==
  \/ Over(row[Lead(w)])
  \/ row[Lead(w)].status = "executing" /\ row[Lead(w)].age = 0
Exclusive ==
  /\ \A w \in Workers : worker[w].age = 0
  /\ \A w \in Operators : ~At(w, "idle") => \A v \in Workers \ {w} : At(v, "idle")
  /\ \A w \in Workers \ Operators : worker[w].pc \in Delivering => Claimed(w)
  /\ \A w, v \in Workers :
       worker[w].pc \in Delivering /\ worker[v].pc \in Delivering /\ Lead(w) = Lead(v) => w = v

(* A step of one worker that does not begin to deliver.                     *)
LEMMA StaysExclusive ==
  ASSUME Exclusive, NEW w \in Workers, Moves(w), worker'[w].age = 0, worker[w].pc # "idle",
         worker'[w].pc \in Delivering => worker[w].pc \in Delivering /\ worker'[w].lead = Lead(w),
         \A l \in Leads : row'[l] = row[l] \/ Over(row'[l]),
         \A v \in Workers : worker[v].pc \in Delivering => Lead(v) \in Leads
  PROVE  Exclusive'
  <1>1. \A v \in Workers : worker'[v].age = 0
    BY DEF Exclusive, Moves
  <1>2. \A o \in Operators : ~At(o, "idle")' => \A v \in Workers \ {o} : At(v, "idle")'
    BY GhlAssumption DEF Exclusive, Moves, At
  <1>3. ASSUME NEW v \in Workers
        PROVE  worker'[v].pc \in Delivering =>
                 worker[v].pc \in Delivering /\ worker'[v].lead = Lead(v)
    BY DEF Moves, Lead
  <1>4. \A v \in Workers \ Operators : worker'[v].pc \in Delivering => Claimed(v)'
    BY <1>3 DEF Exclusive, Claimed, Lead, Over
  <1>5. \A u, v \in Workers :
          worker'[u].pc \in Delivering /\ worker'[v].pc \in Delivering
          /\ worker'[u].lead = worker'[v].lead => u = v
    BY <1>3 DEF Exclusive
  <1> QED
    BY <1>1, <1>2, <1>4, <1>5 DEF Exclusive, Lead

(* A step of a worker leaves each lead with one deliverer.                  *)
LEMMA WalkExclusive ==
  ASSUME Alone, Typed, Exclusive, NEW w \in Workers, Walks(w)
  PROVE  Exclusive'
  <1>1. /\ \A v \in Workers : worker[v].pc \in Delivering => Lead(v) \in Leads
        /\ worker[w].pc \notin {"idle", "drain"} => Lead(w) \in Leads
        /\ worker[w].age = 0 /\ \A l \in Leads : row[l].age \in Ages
    BY LeadFacts DEF Delivering, Exclusive, Typed, TypedRows, RowRecords
  <1>2. CASE Starts(w)
    <2>1. /\ Moves(w) /\ At(w, "idle") /\ worker'[w].age = 0 /\ MayStart(w)
          /\ w \notin Operators => worker'[w].pc \notin Delivering
          /\ \A l \in Leads : row'[l] = row[l] \/ row[l].status = "absent"
      BY <1>2 DEF Starts, RowsElse, Delivering
    <2>2. \A v \in Workers \ {w} : At(v, "idle") \/ (w \notin Operators /\ v \notin Operators)
      BY <2>1 DEF Alone, MayStart
    <2>3. \A v \in Workers : worker'[v].age = 0
      BY <2>1 DEF Exclusive, Moves
    <2>4. \A o \in Operators : ~At(o, "idle")' => \A v \in Workers \ {o} : At(v, "idle")'
      BY <2>1, <2>2, GhlAssumption DEF Exclusive, Moves, At
    <2>5. ASSUME NEW v \in Workers \ Operators, worker'[v].pc \in Delivering
          PROVE  Claimed(v)'
      <3>1. v # w /\ worker'[v] = worker[v] /\ Claimed(v) /\ Lead(v) \in Leads
        BY <1>1, <2>1, <2>5 DEF Moves, Exclusive
      <3>2. row'[Lead(v)] = row[Lead(v)]
        BY <2>1, <3>1 DEF Claimed, Over
      <3> QED
        BY <3>1, <3>2 DEF Claimed, Lead, Over
    <2>6. \A v \in Workers \ {w} : ~(worker'[w].pc \in Delivering /\ worker'[v].pc \in Delivering)
      BY <2>1, <2>2 DEF Moves, At, Delivering
    <2>7. \A u, v \in Workers :
            worker'[u].pc \in Delivering /\ worker'[v].pc \in Delivering
            /\ worker'[u].lead = worker'[v].lead => u = v
      BY <2>1, <2>6 DEF Exclusive, Moves, Lead
    <2> QED
      BY <2>3, <2>4, <2>5, <2>7 DEF Exclusive, Lead
  <1>3. CASE Takes(w)
    <2>1. /\ Moves(w) /\ worker[w].pc # "idle" /\ Lead(w) \in Leads /\ worker'[w].pc = "load"
          /\ worker'[w].lead = Lead(w) /\ worker'[w].age = 0
          /\ row'[Lead(w)].status = "executing" /\ row'[Lead(w)].age = 0
          /\ RowsElse(Lead(w))
      BY <1>1, <1>3 DEF Takes, Keeps
    <2>2. \/ row[Lead(w)].status = "pending"
          \/ row[Lead(w)].status = "executing" /\ row[Lead(w)].age # 0
      BY <1>1, <1>3, GhlAssumption DEF Takes
    <2>3. \A o \in Operators : worker[o].pc \notin Delivering \/ o = w
      BY <2>1, GhlAssumption DEF Exclusive, At, Delivering
    <2>4. \A v \in Workers \ {w} : worker[v].pc \in Delivering => Lead(v) # Lead(w)
      BY <2>2, <2>3 DEF Exclusive, Claimed, Over
    <2>5. \A v \in Workers : worker'[v].age = 0
      BY <2>1 DEF Exclusive, Moves
    <2>6. \A o \in Operators : ~At(o, "idle")' => \A v \in Workers \ {o} : At(v, "idle")'
      BY <2>1, GhlAssumption DEF Exclusive, Moves, At
    <2>7. ASSUME NEW v \in Workers \ Operators, worker'[v].pc \in Delivering
          PROVE  Claimed(v)'
      <3>1. CASE v = w
        BY <2>1, <3>1 DEF Claimed, Lead
      <3>2. CASE v # w
        <4>1. worker'[v] = worker[v] /\ Claimed(v) /\ Lead(v) \in Leads \ {Lead(w)}
          BY <1>1, <2>1, <2>4, <2>7, <3>2 DEF Moves, Exclusive
        <4> QED
          BY <2>1, <4>1 DEF Claimed, Lead, Over, RowsElse
      <3> QED
        BY <3>1, <3>2
    <2>8. \A u, v \in Workers :
            worker'[u].pc \in Delivering /\ worker'[v].pc \in Delivering
            /\ worker'[u].lead = worker'[v].lead => u = v
      BY <2>1, <2>4 DEF Exclusive, Moves, Lead
    <2> QED
      BY <2>5, <2>6, <2>7, <2>8 DEF Exclusive, Lead
  <1>4. CASE Puts(w)
    BY <1>1, <1>4, StaysExclusive DEF Puts, RowsElse, Delivering
  <1>5. CASE Turns(w)
    BY <1>1, <1>5, StaysExclusive DEF Turns, Delivering, At
  <1>6. CASE Delivers(w)
    <2>1. Moves(w) /\ row' = row
      BY <1>6 DEF Delivers
    <2>2. CASE worker'[w] = Idle
      <3>1. CASE worker[w].pc = "idle"
        <4>1. worker' = worker
          <5>1. worker'[w] = worker[w]
            BY <2>2, <3>1 DEF Typed, TypedWorkers, Placed
          <5>2. \A v \in Workers : worker'[v] = worker[v]
            BY <2>1, <5>1 DEF Moves
          <5> QED
            BY <2>1, <5>2 DEF Moves, Typed, TypedWorkers
        <4> QED
          BY <2>1, <4>1 DEF Exclusive, At, Lead, Claimed, Over
      <3>2. CASE worker[w].pc # "idle"
        BY <1>1, <2>1, <2>2, <3>2, IdleFacts, StaysExclusive DEF Delivering
      <3> QED
        BY <3>1, <3>2
    <2>3. CASE worker[w].pc \in Delivering /\ worker'[w].pc \in Delivering /\ Keeps(w)
      BY <1>1, <2>1, <2>3, StaysExclusive DEF Keeps, Delivering
    <2> QED
      BY <1>6, <2>2, <2>3 DEF Delivers
  <1> QED
    BY <1>2, <1>3, <1>4, <1>5, <1>6 DEF Walks

(* So does every step, where attempts end in time and operators are alone.  *)
LEMMA StepExclusive ==
  ASSUME Alone, Typed, Exclusive, Kinds
  PROVE  Exclusive'
  <1>1. CASE \E w \in Workers : Walks(w)
    BY <1>1, WalkExclusive
  <1>2. CASE Idles
    BY <1>2 DEF Idles, Exclusive, At, Lead, Claimed, Over
  <1>3. CASE Ticks
    <2>1. \A w \in Workers : At(w, "idle") /\ worker'[w] = worker[w]
      BY <1>3 DEF Ticks, Alone
    <2> QED
      BY <2>1, GhlAssumption DEF Exclusive, At, Delivering
  <1> QED
    BY <1>1, <1>2, <1>3 DEF Kinds

-----------------------------------------------------------------------------
(* What was sent for a lead is told by the steps of its run or, while it is *)
(* delivered again, by the receipts and steps of the one worker that does.  *)
WasSent(n, op) ==
  IF op = "tags" THEN n["routing_tags"] > 0 \/ n["entry_tag"] > 0 ELSE n[op] > 0
Doubtful(S) == \E s \in S : ReceiptOf(s, TRUE) \in {"ambiguous", "rejected"}
Completes(S, op) == \E s \in S : s.op = op /\ ReceiptOf(s, TRUE) = "completed"
EntryWithheld(S) == \E s \in S : s.op = "tags" /\ s.withheld

(* What was sent is recorded as completed; an opportunity is not, and the   *)
(* entering tag is not sent where it is recorded as withheld.               *)
Tells(n, S, op) ==
  /\ WasSent(n, op) => op # "opportunity" /\ Completes(S, op)
  /\ op = "tags" /\ EntryWithheld(S) => n["entry_tag"] = 0
Recalls(n, P, op) ==
  /\ WasSent(n, op) => op # "opportunity" /\ Completed(P, op)
  /\ op = "tags" /\ EntryWithheld(P) => n["entry_tag"] = 0

Told(r, n, u) ==
  /\ r.status = "none" => r.steps = {} /\ \A e \in Effects : n[e] = 0
  /\ r.steps # {} => Once(r.steps) /\ (Doubtful(r.steps) \/ \A op \in Operations : Tells(n, r.steps, op))
  /\ ~Note => n["note"] = 0
  /\ n["custom_fields"] > 0 => ~Unwritable(u)
  /\ \A e \in Effects : n[e] <= 1

Tracks(d, r, n) ==
  /\ d.pc \in {"delete", "restart", "send"} =>
       /\ \A p \in d.prior : p.outcome \notin {"ambiguous", "rejected"}
       /\ \A op \in Operations : MadeOp(d.made, op) \/ Recalls(n, d.prior, op)
  /\ d.pc \in {"restart", "send"} => r.steps = {}
  /\ d.pc = "send" =>
       /\ r.status # "none"
       /\ \/ Doubtful(d.made)
          \/ /\ \A op \in Operations : MadeOp(d.made, op) => Tells(n, d.made, op)
             /\ ~StatusIs(d.made, "contact", {"failed"})

AllTold == \A l \in Leads : Told(run[l], sent[l], unset)
AllTracked == \A w \in Workers : Tracks(worker[w], run[Lead(w)], sent[Lead(w)])
Ledger == AllTold /\ AllTracked

(* The workers that do not move, while one delivers.                        *)
LEMMA OthersTracked ==
  ASSUME Typed, Exclusive, AllTracked, NEW w \in Workers, Moves(w), worker[w].pc \in Delivering,
         \A k \in Leads \ {Lead(w)} : run'[k] = run[k] /\ sent'[k] = sent[k]
  PROVE  \A v \in Workers \ {w} : Tracks(worker[v], run[Lead(v)], sent[Lead(v)])'
  <1> SUFFICES ASSUME NEW v \in Workers \ {w}
               PROVE  Tracks(worker'[v], run'[worker'[v].lead], sent'[worker'[v].lead])
    BY DEF Lead
  <1>1. worker'[v] = worker[v] /\ Tracks(worker[v], run[Lead(v)], sent[Lead(v)])
    BY DEF Moves, AllTracked
  <1>2. CASE worker[v].pc \notin {"delete", "restart", "send"}
    BY <1>1, <1>2 DEF Tracks
  <1>3. CASE worker[v].pc \in {"delete", "restart", "send"}
    <2>1. Lead(v) \in Leads \ {Lead(w)}
      BY <1>3, LeadFacts DEF Exclusive, Delivering, Typed
    <2> QED
      BY <1>1, <2>1 DEF Lead
  <1> QED
    BY <1>2, <1>3

(* A worker that is not at its run tracks nothing.                          *)
LEMMA QuietTracked ==
  ASSUME NEW d, NEW r, NEW n, d.pc \notin {"delete", "restart", "send"}
  PROVE  Tracks(d, r, n)
  BY DEF Tracks

(* A step of a delivery, from what it leaves of its lead.                   *)
LEMMA DeliversLedger ==
  ASSUME Typed, Exclusive, Ledger, NEW w \in Workers, Moves(w), worker[w].pc \in Delivering,
         Lead(w) \in Leads, unset' = unset,
         \A k \in Leads \ {Lead(w)} : run'[k] = run[k] /\ sent'[k] = sent[k],
         Told(run'[Lead(w)], sent'[Lead(w)], unset),
         Tracks(worker'[w], run'[worker'[w].lead], sent'[worker'[w].lead])
  PROVE  Ledger'
  <1>1. \A v \in Workers : Tracks(worker[v], run[Lead(v)], sent[Lead(v)])'
    BY OthersTracked DEF Ledger, Lead
  <1>2. \A k \in Leads : Told(run'[k], sent'[k], unset')
    BY DEF Ledger, AllTold
  <1> QED
    BY <1>1, <1>2 DEF Ledger, AllTold, AllTracked

(* A run is created: nothing was sent yet.                                  *)
LEMMA BeginsLedger ==
  ASSUME Typed, Exclusive, Ledger, NEW w \in Workers, Moves(w), worker[w].pc \in Delivering,
         Lead(w) \in Leads, Begins(w)
  PROVE  Ledger'
  <1> DEFINE l == Lead(w)
  <1>1. Told(run[l], sent[l], unset)
    BY DEF Ledger, AllTold
  <1>2. run[l].steps = {} /\ \A e \in Effects : sent[l][e] = 0
    BY <1>1 DEF Told, Begins
  <1>3. Told(run'[l], sent'[l], unset)
    BY <1>1, <1>2 DEF Told, Begins
  <1>4. \A op \in Operations : Recalls(sent[l], {}, op)
    BY <1>2 DEF Recalls, WasSent, EntryWithheld, Effects, Operations
  <1>5. Tracks(worker'[w], run'[l], sent'[l])
    BY <1>2, <1>4 DEF Tracks, Begins, MadeOp, StatusIs
  <1> QED
    BY <1>3, <1>5, DeliversLedger DEF Begins, RunsElse

(* A run is reused: nothing of it is in doubt, and its receipts tell what   *)
(* its steps told.                                                          *)
LEMMA ReusesLedger ==
  ASSUME Typed, Exclusive, Ledger, NEW w \in Workers, Moves(w), worker[w].pc \in Delivering,
         Lead(w) \in Leads, Reuses(w)
  PROVE  Ledger'
  <1> DEFINE l == Lead(w) r == run[l] P == PriorReceipts(r)
  <1>1. Told(r, sent[l], unset) /\ r \in RunRecords
    BY DEF Ledger, AllTold, Typed, TypedRuns
  <1>2. r.status = "none" \/ (r.steps # {} /\ ~Doubtful(r.steps))
    <2>1. Disposition(r, TRUE) # "hold"
      BY DEF Reuses
    <2>2. r.status # "none" => r.steps # {} /\ OutcomesOf(r.steps, TRUE) \cap {"ambiguous", "rejected"} = {}
      BY <2>1 DEF Disposition
    <2> QED
      BY <2>2 DEF Doubtful, OutcomesOf
  <1>3. \A p \in P : \E s \in r.steps :
          p.op = s.op /\ p.outcome = ReceiptOf(s, TRUE) /\ p.withheld = s.withheld
    BY <1>1, PriorFacts
  <1>4. \A p \in P : p.outcome \notin {"ambiguous", "rejected"}
    BY <1>1, <1>2, <1>3 DEF Told, Doubtful
  <1>5. ASSUME NEW op \in Operations
        PROVE  Recalls(sent[l], P, op)
    <2>1. CASE r.status = "none"
      <3>1. r.steps = {} /\ \A e \in Effects : sent[l][e] = 0
        BY <1>1, <2>1 DEF Told
      <3>2. P = {}
        BY <1>3, <3>1
      <3> HIDE DEF P
      <3> QED
        BY <3>1, <3>2 DEF Recalls, WasSent, EntryWithheld, Effects, Operations
    <2>2. CASE r.steps # {} /\ ~Doubtful(r.steps)
      <3>1. Tells(sent[l], r.steps, op)
        BY <1>1, <2>2 DEF Told
      <3>2. ASSUME Completes(r.steps, op)
            PROVE  Completed(P, op)
        <4>1. PICK s \in r.steps : s.op = op /\ ReceiptOf(s, TRUE) = "completed"
          BY <3>2 DEF Completes
        <4>2. \E p \in P : p.op = s.op /\ p.outcome = ReceiptOf(s, TRUE)
          BY <1>1, <4>1, PriorFacts
        <4> HIDE DEF P
        <4> QED
          BY <4>1, <4>2 DEF Completed, Has
      <3>3. EntryWithheld(P) => EntryWithheld(r.steps)
        BY <1>3 DEF EntryWithheld
      <3> HIDE DEF P, r
      <3> QED
        BY <3>1, <3>2, <3>3 DEF Tells, Recalls
    <2> QED
      BY <1>2, <2>1, <2>2
  <1>6. Tracks(worker'[w], run'[l], sent'[l])
    <2>1. worker'[w].prior = P /\ worker'[w].pc = "delete" /\ sent' = sent
      BY DEF Reuses, Calm
    <2> HIDE DEF P
    <2> QED
      BY <1>4, <1>5, <2>1 DEF Tracks
  <1> QED
    BY <1>1, <1>6, DeliversLedger DEF Reuses, Calm

(* Its steps are deleted and it is executing again: the receipts stay.      *)
LEMMA RestartsLedger ==
  ASSUME Typed, Exclusive, Ledger, NEW w \in Workers, Moves(w), worker[w].pc \in Delivering,
         Lead(w) \in Leads, Deletes(w) \/ Restarts(w)
  PROVE  Ledger'
  <1> DEFINE l == Lead(w)
  <1>1. Told(run[l], sent[l], unset) /\ Tracks(worker[w], run[l], sent[l])
    BY DEF Ledger, AllTold, AllTracked
  <1>2. CASE Deletes(w)
    <2>1. Told(run'[l], sent'[l], unset)
      BY <1>1, <1>2 DEF Told, Deletes
    <2>2. Tracks(worker'[w], run'[l], sent'[l])
      BY <1>1, <1>2 DEF Tracks, Deletes, At
    <2> QED
      BY <1>2, <2>1, <2>2, DeliversLedger DEF Deletes, RunsElse
  <1>3. CASE Restarts(w)
    <2>1. run'[l].steps = {}
      BY <1>1, <1>3 DEF Tracks, Restarts, At
    <2>2. Told(run'[l], sent'[l], unset)
      BY <1>1, <1>3, <2>1 DEF Told, Restarts
    <2>3. Tracks(worker'[w], run'[l], sent'[l])
      BY <1>1, <1>3, <2>1 DEF Tracks, Restarts, At, MadeOp, StatusIs
    <2> QED
      BY <1>3, <2>2, <2>3, DeliversLedger DEF Restarts, RunsElse
  <1> QED
    BY <1>2, <1>3

(* A step is decided without a call: it repeats a receipt, or nothing was   *)
(* sent.                                                                    *)
LEMMA SkipLedger ==
  ASSUME Typed, Exclusive, Honest, Ledger, NEW w \in Workers, Moves(w),
         worker[w].pc \in Delivering, Lead(w) \in Leads, NEW s, Skips(w, s)
  PROVE  Ledger'
  <1> DEFINE l == Lead(w) n == sent[l] d == worker[w] op == Now(w)
  <1>1. Told(run[l], n, unset) /\ Tracks(d, run[l], n) /\ d.pc = "send"
    BY DEF Ledger, AllTold, AllTracked, Skips, At
  <1>2. op \in Operations /\ ~MadeOp(d.made, op) /\ d.prior \subseteq Receipts
    BY TurnFacts, LeadFacts DEF Skips, Typed, Locals
  <1>3. /\ s \in Steps /\ s.op = op
        /\ \/ /\ s.receipt = "completed" /\ s.status = "succeeded"
              /\ Completed(d.prior, op) /\ op # "opportunity"
              /\ s.withheld <=> op = "tags" /\ PriorWithheld(w)
           \/ /\ s.status # "succeeded" /\ s.receipt # "completed" /\ ~s.withheld
              /\ \/ op = "opportunity" /\ s.receipt = "none"
                 \/ op = "custom_fields" /\ Unwritable(unset)
                 \/ ~Completed(d.prior, op)
              /\ op \in {"contact", "tags"} => Held(d.prior, op)
    BY <1>2, LocalFacts DEF Skips
  <1>4. Recalls(n, d.prior, op)
    BY <1>1, <1>2 DEF Tracks
  <1>5. \A o : ~Held(d.prior, o)
    BY <1>1 DEF Tracks, Held, Has
  <1>6. d.made \subseteq Steps /\ \A e \in Effects : n[e] \in 0 .. 2
    BY LeadFacts DEF Typed, Locals, TypedCalls
  <1> DEFINE made == d.made \cup {s}
  <1>7. Tells(n, made, op)
    <2>1. CASE s.receipt = "completed" /\ op # "opportunity" /\ (s.withheld => PriorWithheld(w))
      <3>1. Completes(made, op)
        BY <1>3, <2>1, ReceiptFacts DEF Completes
      <3>2. op = "tags" /\ EntryWithheld(made) => EntryWithheld(d.prior)
        BY <1>2, <2>1 DEF EntryWithheld, PriorWithheld, MadeOp
      <3> QED
        BY <1>4, <2>1, <3>1, <3>2 DEF Tells, Recalls
    <2>2. CASE op \notin {"contact", "tags"} /\ (op = "opportunity" \/ (op = "custom_fields" /\ Unwritable(unset))
                                                   \/ ~Completed(d.prior, op))
      <3>1. ~WasSent(n, op)
        BY <1>1, <1>4, <2>2 DEF Recalls, WasSent, Told
      <3> QED
        BY <2>2, <3>1 DEF Tells
    <2> QED
      BY <1>3, <1>5, <2>1, <2>2
  <1>8. ASSUME NEW o \in Operations, MadeOp(d.made, o), Tells(n, d.made, o)
        PROVE  Tells(n, made, o)
    BY <1>2, <1>3, <1>8 DEF Tells, Completes, EntryWithheld, MadeOp
  <1>9. /\ worker'[w].pc = "send" /\ worker'[w].prior = d.prior /\ worker'[w].made = made
        /\ worker'[w].lead = l /\ run' = run /\ sent' = sent /\ unset' = unset
    BY DEF Skips, Calm
  <1>10. s.op = "contact" => s.status # "failed"
    BY <1>3, <1>5
  <1> HIDE DEF n, d, op, l
  <1>11. Doubtful(d.made) \/ \A o \in Operations : MadeOp(made, o) => Tells(n, made, o)
    BY <1>1, <1>3, <1>7, <1>8 DEF Tracks, MadeOp
  <1>12. Doubtful(d.made) \/ ~StatusIs(made, "contact", {"failed"})
    BY <1>1, <1>10 DEF Tracks, StatusIs
  <1>13. /\ Doubtful(d.made) => Doubtful(made)
         /\ \A o \in Operations : MadeOp(d.made, o) => MadeOp(made, o)
    BY DEF Doubtful, MadeOp
  <1> HIDE DEF made
  <1>14. Tracks(worker'[w], run[l], n)
    BY <1>1, <1>9, <1>11, <1>12, <1>13 DEF Tracks
  <1> QED
    BY <1>1, <1>9, <1>14, DeliversLedger DEF l, n

(* What an operation sends.                                                 *)
LEMMA EffectsFacts ==
  ASSUME NEW w \in Workers, NEW op \in Operations
  PROVE  /\ EffectsOf(w, op) \subseteq Effects
         /\ op # "tags" => EffectsOf(w, op) = {op} /\ op \in Effects
         /\ op = "tags" => EffectsOf(w, op) \subseteq {"routing_tags", "entry_tag"}
         /\ op = "tags" /\ TagsOnly(w) => EffectsOf(w, op) = {"entry_tag"}
         /\ op = "tags" /\ Blocked(w) => EffectsOf(w, op) = {"routing_tags"}
         /\ "routing_tags" \in Effects /\ "entry_tag" \in Effects
         /\ "routing_tags" \notin Operations /\ "entry_tag" \notin Operations
  BY DEF EffectsOf, Effects, Operations, TagsOnly

(* A call sends what was not sent, and its step tells how it went.          *)
LEMMA CallLedger ==
  ASSUME Typed, Exclusive, Honest, Ledger, NEW w \in Workers, Moves(w),
         worker[w].pc \in Delivering, Lead(w) \in Leads, NEW s, Calls(w, s)
  PROVE  Ledger'
  <1> DEFINE l == Lead(w) n == sent[l] m == sent'[l] d == worker[w] op == Now(w)
             sends == EffectsOf(w, op)
  <1>1. Told(run[l], n, unset) /\ Tracks(d, run[l], n) /\ d.pc = "send"
    BY DEF Ledger, AllTold, AllTracked, Calls, At
  <1>2. op \in Operations /\ ~MadeOp(d.made, op) /\ (op = "note" => Note)
    BY TurnFacts DEF Calls
  <1>3. /\ op = "custom_fields" => ~Unwritable(unset)
        /\ op # "opportunity" /\ ~(op = "tags" /\ TagsOnly(w)) => ~Completed(d.prior, op)
    BY SentFacts DEF Calls
  <1>4. Recalls(n, d.prior, op)
    BY <1>1, <1>2 DEF Tracks
  <1>5. d.made \subseteq Steps /\ \A e \in Effects : n[e] \in 0 .. 2
    BY LeadFacts DEF Typed, Locals, TypedCalls
  <1>6. /\ s \in Steps /\ s.op = op /\ s.answer \in Answers
        /\ s.receipt = IF op = "opportunity" THEN "none" ELSE Classify(s.answer)
        /\ s.status = IF s.answer = "ok" THEN "succeeded" ELSE Failed(op)
        /\ s.withheld <=> op = "tags" /\ Blocked(w)
        /\ \A e \in Effects : m[e] = IF e \in sends /\ n[e] < 2 THEN n[e] + 1 ELSE n[e]
    BY DEF Calls
  <1> DEFINE made == d.made \cup {s}
  <1>7. /\ worker'[w].pc = "send" /\ worker'[w].prior = d.prior /\ worker'[w].made = made
        /\ worker'[w].lead = l /\ run' = run /\ unset' = unset
        /\ \A k \in Leads \ {l} : sent'[k] = sent[k]
    BY DEF Calls
  <1>8. \A e \in sends : n[e] = 0
    <2>1. CASE op # "tags"
      <3>1. sends = {op} /\ op \in Effects
        BY <1>2, <2>1, EffectsFacts
      <3>2. ~WasSent(n, op)
        BY <1>3, <1>4, <2>1 DEF Recalls
      <3> QED
        BY <1>5, <2>1, <3>1, <3>2 DEF WasSent
    <2>2. CASE op = "tags" /\ TagsOnly(w)
      <3>1. EntryWithheld(d.prior)
        BY <2>2 DEF TagsOnly, PriorWithheld, EntryWithheld
      <3> QED
        BY <1>2, <1>4, <2>2, <3>1, EffectsFacts DEF Recalls
    <2>3. CASE op = "tags" /\ ~TagsOnly(w)
      <3>1. ~WasSent(n, op)
        BY <1>3, <1>4, <2>3 DEF Recalls
      <3>2. sends \subseteq {"routing_tags", "entry_tag"} /\ sends \subseteq Effects
        BY <1>2, <2>3, EffectsFacts
      <3> QED
        BY <1>5, <2>3, <3>1, <3>2 DEF WasSent
    <2> QED
      BY <2>1, <2>2, <2>3
  <1>9. \A e \in Effects : m[e] <= 1 /\ (e \notin sends => m[e] = n[e])
    <2>1. \A e \in Effects : n[e] <= 1 /\ n[e] \in 0 .. 2
      BY <1>1, <1>5 DEF Told
    <2> HIDE DEF n, m, sends
    <2> QED
      BY <1>6, <1>8, <2>1
  <1>10. sends \subseteq Effects
    BY <1>2, EffectsFacts
  <1>11. Told(run[l], m, unset)
    <2>1. run[l].steps = {} /\ run[l].status # "none"
      BY <1>1 DEF Tracks
    <2>2. ~Note => m["note"] = 0
      <3>1. "note" \in Effects /\ (op # "note" => "note" \notin sends)
        BY <1>2, EffectsFacts DEF Effects, Operations
      <3> QED
        BY <1>1, <1>2, <1>9, <3>1 DEF Told
    <2>3. m["custom_fields"] > 0 => ~Unwritable(unset)
      <3>1. "custom_fields" \in Effects /\ (op # "custom_fields" => "custom_fields" \notin sends)
        BY <1>2, EffectsFacts DEF Effects, Operations
      <3> QED
        BY <1>1, <1>3, <1>9, <3>1 DEF Told
    <2> QED
      BY <1>9, <2>1, <2>2, <2>3 DEF Told
  <1>12. ASSUME NEW o \in Operations \ {op}
         PROVE  /\ WasSent(m, o) => WasSent(n, o)
                /\ o = "tags" => m["entry_tag"] = n["entry_tag"]
    <2>1. /\ o = "tags" => "entry_tag" \notin sends /\ "routing_tags" \notin sends
          /\ o # "tags" => o \notin sends /\ o \in Effects
          /\ "routing_tags" \in Effects /\ "entry_tag" \in Effects
      BY <1>2, EffectsFacts
    <2> QED
      BY <1>9, <2>1 DEF WasSent
  <1>13. ASSUME s.answer = "ok", op # "opportunity"
         PROVE  Tells(m, made, op)
    <2>1. Completes(made, op)
      BY <1>6, <1>13, ReceiptFacts DEF Completes, Classify
    <2>2. op = "tags" /\ EntryWithheld(made) => m["entry_tag"] = 0
      <3> SUFFICES ASSUME op = "tags", EntryWithheld(made)
                   PROVE  m["entry_tag"] = 0
        OBVIOUS
      <3>1. Blocked(w)
        BY <1>2, <1>6 DEF EntryWithheld, MadeOp
      <3>2. "entry_tag" \notin sends /\ "entry_tag" \in Effects
        BY <1>2, <3>1, EffectsFacts
      <3>3. ~WasSent(n, op)
        BY <1>3, <1>4, <3>1 DEF Recalls, TagsOnly
      <3> QED
        BY <1>5, <1>9, <3>2, <3>3 DEF WasSent
    <2> QED
      BY <1>13, <2>1, <2>2 DEF Tells
  <1>14. ASSUME s.answer # "ok" \/ op = "opportunity"
         PROVE  Doubtful(made)
    <2>1. ReceiptOf(s, TRUE) \in {"ambiguous", "rejected"}
      BY <1>6, <1>14, ReceiptFacts DEF Answers, Classify
    <2> QED
      BY <2>1 DEF Doubtful
  <1> HIDE DEF l, n, m, d, op, sends
  <1>15. ASSUME NEW o \in Operations, MadeOp(d.made, o), Tells(n, d.made, o)
         PROVE  Tells(m, made, o)
    <2>1. o # op
      BY <1>2, <1>15
    <2>2. Completes(d.made, o) => Completes(made, o)
      BY DEF Completes
    <2>3. o = "tags" /\ EntryWithheld(made) => EntryWithheld(d.made)
      BY <1>6, <2>1 DEF EntryWithheld
    <2> HIDE DEF made
    <2> QED
      BY <1>12, <1>15, <2>1, <2>2, <2>3 DEF Tells
  <1>16. ASSUME NEW o \in Operations
         PROVE  MadeOp(made, o) \/ Recalls(m, d.prior, o)
    <2>1. CASE o = op
      BY <1>6, <2>1 DEF MadeOp
    <2>2. CASE o # op
      BY <1>1, <1>12, <2>2 DEF Tracks, Recalls, MadeOp
    <2> QED
      BY <2>1, <2>2
  <1>17. Doubtful(made) \/ \A o \in Operations : MadeOp(made, o) => Tells(m, made, o)
    BY <1>1, <1>6, <1>13, <1>14, <1>15 DEF Tracks, MadeOp, Doubtful
  <1>18. Doubtful(made) \/ ~StatusIs(made, "contact", {"failed"})
    BY <1>1, <1>6, <1>14 DEF Tracks, StatusIs, Doubtful
  <1> HIDE DEF made
  <1>19. Tracks(worker'[w], run[l], m)
    BY <1>1, <1>7, <1>16, <1>17, <1>18 DEF Tracks
  <1> QED
    BY <1>7, <1>11, <1>19, DeliversLedger DEF l, m

(* The run is recorded with what was made: every planned operation, or a    *)
(* contact that failed.                                                     *)
LEMMA RecordsLedger ==
  ASSUME Typed, Exclusive, Honest, Ledger, NEW w \in Workers, Moves(w),
         worker[w].pc \in Delivering, Lead(w) \in Leads, Records(w)
  PROVE  Ledger'
  <1> DEFINE l == Lead(w) n == sent[l] made == worker[w].made
  <1>1. Told(run[l], n, unset) /\ Tracks(worker[w], run[l], n) /\ worker[w].pc = "send"
    BY DEF Ledger, AllTold, AllTracked, Records, At
  <1>2. run'[l].steps = made /\ run'[l].status # "none" /\ Once(made)
    BY <1>1 DEF Tracks, Records, RunStatus, Honest, WorkerHonest
  <1>3. Doubtful(made) \/ \A op \in Operations : Tells(n, made, op)
    <2>1. CASE Doubtful(made)
      BY <2>1
    <2>2. CASE ~Doubtful(made)
      <3>1. \A op \in Operations : MadeOp(made, op) \/ (op = "note" /\ ~Note)
        BY <1>1, <2>2, OverFacts DEF Tracks, Records
      <3>2. \A op \in Operations : MadeOp(made, op) => Tells(n, made, op)
        BY <1>1, <2>2 DEF Tracks
      <3>3. ~Note => Tells(n, made, "note")
        BY <1>1 DEF Told, Tells, WasSent
      <3> QED
        BY <3>1, <3>2, <3>3
    <2> QED
      BY <2>1, <2>2
  <1>4. Told(run'[l], n, unset)
    BY <1>1, <1>2, <1>3 DEF Told
  <1>5. Tracks(worker'[w], run'[worker'[w].lead], sent'[worker'[w].lead])
    BY QuietTracked DEF Records
  <1> QED
    BY <1>4, <1>5, DeliversLedger DEF Records, RunsElse

(* A run's status changes without a success.                                *)
LEMMA RestatedTold ==
  ASSUME NEW l \in Leads, Restates(l), AllTold
  PROVE  AllTold'
  BY DEF Restates, AllTold, Told, RunsElse

(* A change of a run's status leaves the one who redelivers it informed.    *)
LEMMA RestatedTracks ==
  ASSUME Typed, NEW l \in Leads, Restates(l), NEW v \in Workers, Tracks(worker[v], run[Lead(v)], sent[Lead(v)])
  PROVE  Tracks(worker[v], run'[Lead(v)], sent'[Lead(v)])
  <1>1. CASE worker[v].pc \notin {"delete", "restart", "send"}
    BY <1>1, QuietTracked
  <1>2. CASE worker[v].pc \in {"delete", "restart", "send"}
    <2>1. Lead(v) \in Leads
      BY <1>2, LeadFacts DEF Typed
    <2>2. /\ sent'[Lead(v)] = sent[Lead(v)] /\ run'[Lead(v)].steps = run[Lead(v)].steps
          /\ run[Lead(v)].status # "none" => run'[Lead(v)].status # "none"
      BY <2>1 DEF Restates, RunsElse
    <2> QED
      BY <2>2 DEF Tracks
  <1> QED
    BY <1>1, <1>2

(* One worker walks.                                                        *)
LEMMA WalkLedger ==
  ASSUME Typed, Exclusive, Honest, Ledger, NEW w \in Workers, Walks(w),
         Quiet(w) \/ (Lead(w) \in Leads /\ Resumes(w))
  PROVE  Ledger'
  <1>1. Moves(w)
    BY DEF Walks, Starts, Takes, Puts, Turns, Delivers
  <1>2. CASE Quiet(w)
    <2>1. AllTold' /\ UNCHANGED <<run, sent>>
      BY <1>2 DEF Quiet, Calm, Ledger, AllTold
    <2>2. ASSUME NEW v \in Workers
          PROVE  Tracks(worker'[v], run'[worker'[v].lead], sent'[worker'[v].lead])
      <3>1. CASE v = w
        BY <1>2, <3>1, QuietTracked DEF Quiet
      <3>2. CASE v # w
        BY <1>1, <2>1, <3>2 DEF Moves, Ledger, AllTracked, Lead
      <3> QED
        BY <3>1, <3>2
    <2> QED
      BY <2>1, <2>2 DEF Ledger, AllTracked, Lead
  <1>3. CASE Lead(w) \in Leads /\ Resumes(w)
    <2>1. CASE worker[w].pc \in Delivering
      <3>1. CASE Begins(w)
        BY <1>1, <1>3, <2>1, <3>1, BeginsLedger
      <3>2. CASE Reuses(w)
        BY <1>1, <1>3, <2>1, <3>2, ReusesLedger
      <3>3. CASE Deletes(w) \/ Restarts(w)
        BY <1>1, <1>3, <2>1, <3>3, RestartsLedger
      <3>4. CASE \E s \in Steps : Skips(w, s)
        BY <1>1, <1>3, <2>1, <3>4, SkipLedger
      <3>5. CASE \E s \in Steps : Calls(w, s)
        BY <1>1, <1>3, <2>1, <3>5, CallLedger
      <3>6. CASE Records(w)
        BY <1>1, <1>3, <2>1, <3>6, RecordsLedger
      <3>7. CASE Restates(Lead(w)) /\ worker'[w].pc \notin {"delete", "restart", "send"}
        <4>1. AllTold'
          BY <1>3, <3>7, RestatedTold DEF Ledger
        <4>2. /\ Told(run'[Lead(w)], sent'[Lead(w)], unset)
              /\ \A k \in Leads \ {Lead(w)} : run'[k] = run[k] /\ sent'[k] = sent[k]
              /\ unset' = unset
          BY <1>3, <3>7, <4>1 DEF AllTold, Restates, RunsElse
        <4> QED
          BY <1>1, <1>3, <2>1, <3>7, <4>2, QuietTracked, DeliversLedger
      <3> QED
        BY <1>3, <3>1, <3>2, <3>3, <3>4, <3>5, <3>6, <3>7 DEF Resumes
    <2>2. CASE worker[w].pc \notin Delivering
      <3>1. worker'[w] = Idle /\ worker[w].pc \notin {"delete", "restart", "send"}
        BY <1>3, <2>2 DEF Resumes, Delivers, Delivering
      <3> QED
        BY <1>3, <3>1, IdleFacts DEF Resumes, Begins, Reuses, Deletes, Restarts, Records, Skips, Calls, At
    <2> QED
      BY <2>1, <2>2
  <1> QED
    BY <1>2, <1>3

(* Every step leaves what was sent on record.                               *)
LEMMA StepLedger ==
  ASSUME Typed, Exclusive, Honest, Ledger, Kinds
  PROVE  Ledger'
  <1>1. CASE \E w \in Workers : Walks(w) /\ (Quiet(w) \/ (Lead(w) \in Leads /\ Resumes(w)))
    BY <1>1, WalkLedger
  <1>2. CASE Idles /\ Sheds
    <2>1. AllTold'
      BY <1>2 DEF Ledger, AllTold, Sheds, Told, Unwritable
    <2> QED
      BY <1>2, <2>1 DEF Ledger, AllTracked, Idles, Sheds, Lead
  <1>3. CASE Idles /\ \E l \in Leads : Restates(l)
    <2>1. PICK l \in Leads : Restates(l)
      BY <1>3
    <2>2. AllTold'
      BY <2>1, RestatedTold DEF Ledger
    <2>3. \A v \in Workers : Tracks(worker[v], run'[Lead(v)], sent'[Lead(v)])
      BY <2>1, RestatedTracks DEF Ledger, AllTracked
    <2> QED
      BY <1>3, <2>2, <2>3 DEF Ledger, AllTracked, Idles, Lead
  <1>4. CASE Ticks
    <2>1. AllTold' /\ UNCHANGED <<run, sent>>
      BY <1>4 DEF Ticks, Calm, Ledger, AllTold
    <2>2. \A v \in Workers : /\ worker'[v].pc = worker[v].pc /\ worker'[v].lead = Lead(v)
                             /\ worker'[v].prior = worker[v].prior /\ worker'[v].made = worker[v].made
      BY <1>4 DEF Ticks
    <2>3. \A v \in Workers : Tracks(worker'[v], run'[worker'[v].lead], sent'[worker'[v].lead])
      BY <2>1, <2>2 DEF Ledger, AllTracked, Tracks
    <2> QED
      BY <2>1, <2>3 DEF Ledger, AllTracked, Lead
  <1> QED
    BY <1>1, <1>2, <1>3, <1>4 DEF Kinds

(* The whole invariant behind NotSentAgain.                                 *)
LEMMA AloneInvariant ==
  ASSUME Alone
  PROVE  Spec => [](Typed /\ Account /\ Exclusive /\ Ledger)
  <1>1. Init => Account
    BY AccountInit
  <1>2. Init => Exclusive
    BY IdleFacts, GhlAssumption DEF Init, Exclusive, At, Delivering
  <1>3. Init => Ledger
    <2> SUFFICES ASSUME Init PROVE Ledger
      OBVIOUS
    <2>1. AllTold
      BY DEF Init, AllTold, Told, NoRun, Effects, Operations
    <2>2. AllTracked
      BY IdleFacts, QuietTracked DEF Init, AllTracked
    <2> QED
      BY <2>1, <2>2 DEF Ledger
  <1>4. Typed /\ Account /\ Exclusive /\ Ledger /\ [Next]_vars
          => (Typed /\ Account /\ Exclusive /\ Ledger)'
    BY StepKinds, StepHonest, StepExclusive, StepLedger DEF Account
  <1> QED
    BY <1>1, <1>2, <1>3, <1>4, InitTyped, PTL DEF Spec

(* NotSentAgain: whatever is lost, refused, failed, rolled back or taken    *)
(* over in between, no effect is sent to GHL twice for a lead, where        *)
(* attempts end before the clock moves and operators test alone.            *)
THEOREM NothingIsRepeated == Alone => (Spec => []NotSentAgain)
  <1> SUFFICES ASSUME Alone PROVE Spec => []NotSentAgain
    OBVIOUS
  <1>1. Ledger => NotSentAgain
    BY DEF Ledger, AllTold, Told, NotSentAgain
  <1> QED
    BY <1>1, AloneInvariant, PTL
=============================================================================
