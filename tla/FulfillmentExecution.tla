------------------------- MODULE FulfillmentExecution -------------------------
(***************************************************************************)
(* Reservations and delivery attempts of lead orders.  An allocation ties  *)
(* a source lead to an order; its delivery instructions are executed by    *)
(* attempts, simulated or live.  Operators reserve, simulate, execute and  *)
(* release through admin routes; each call is a process that may die       *)
(* between two statements.  Orders may be paused and resumed meanwhile.    *)
(*                                                                         *)
(* A transaction is one step.  So is a read outside a transaction, whose   *)
(* answer the caller keeps until it acts on it.                            *)
(***************************************************************************)
EXTENDS Integers, Sequences, FiniteSets

CONSTANTS
  Callers,       \* admin calls that may run at once
  Orders,
  Quantity,      \* requestedQuantity of an order
  Allowance,     \* reviewCapacityAllowance of an order
  Allocations,
  OrderOf,       \* the order of an allocation
  SourceOf,      \* the source lead of an allocation
  Stocked,       \* allocations of the source's inventory item
  Instructions,
  For,           \* the allocation of an instruction
  Optional,      \* instructions that are not required
  Releasable,    \* bound: allocations an operator releases
  Managed,       \* bound: orders an administrator pauses, resumes or ends
  MaxAttempts,   \* bound: attempts of an instruction
  Tracked,       \* does the caller hand deliverLive a fetch of its own?
  None

Sources == {SourceOf[a] : a \in Allocations}
Active == {"reserved", "delivering", "committed", "review_required"}
Open == {"claimed", "in_progress"}
Ended == {"succeeded", "terminal_failure", "unknown_outcome"}
Modes == {"live", "simulation"}
Executable == {"reserved", "delivering"}
Results == {"succeeded", "unknown", "before_call", "thrown"}

ASSUME FulfillmentAssumption ==
  /\ Quantity \in [Orders -> Nat] /\ Allowance \in [Orders -> Nat]
  /\ OrderOf \in [Allocations -> Orders] /\ DOMAIN SourceOf = Allocations
  /\ For \in [Instructions -> Allocations]
  /\ Stocked \subseteq Allocations /\ Releasable \subseteq Allocations
  /\ Optional \subseteq Instructions /\ Managed \subseteq Orders
  /\ MaxAttempts \in [Instructions -> Nat] /\ Tracked \in BOOLEAN
  /\ None \notin Allocations \cup Instructions

ASSUME FiniteAssumption == IsFiniteSet(Allocations)

VARIABLES
  order,     \* LeadOrder: the counters, the status, is pausedAt set?
  alloc,     \* LeadAllocation.status
  item,      \* sources whose inventory item is available
  instr,     \* DeliveryInstruction.status
  attempts,  \* DeliveryAttempts of an instruction, by attemptNumber
  sent,      \* history: live attempts of an instruction that reached the buyer's CRM
  caller     \* locals of the calls

vars == <<order, alloc, item, instr, attempts, sent, caller>>

Idle == [pc |-> "idle", what |-> None, mode |-> "live", number |-> 0]

At(p, pc) == caller[p].pc = pc
Go(p, pc) == caller' = [caller EXCEPT ![p].pc = pc]
Done(p) == caller' = [caller EXCEPT ![p] = Idle]

InstructionsOf(a) == {i \in Instructions : For[i] = a}
Running(i) == \E n \in DOMAIN attempts[i] : attempts[i][n].status \in Open
Required(a) == InstructionsOf(a) \ Optional
Mine(p) == attempts[caller[p].what][caller[p].number]
Set(i, n, status) == [attempts EXCEPT ![i][n].status = status]

-----------------------------------------------------------------------------
(* Reservation.                                                             *)

Takes(o) == order[o].status = "active" /\ ~order[o].held
Used(o) == order[o].reserved + order[o].fulfilled

(* Variant: the quantity is compared after the reservation only.            *)
BugRoom(o) == Used(o) <= Quantity[o] + Allowance[o]

Room(o) == Used(o) < Quantity[o] + Allowance[o]

(* The partial unique index on the source of active allocations.            *)
Free(a) == \A b \in Allocations \ {a} : SourceOf[b] = SourceOf[a] => alloc[b] \notin Active

(* validateReservationEligibility, outside the transaction.                 *)
CheckReserve(p, a) ==
  /\ At(p, "idle")
  /\ alloc[a] = "shadow" /\ Takes(OrderOf[a]) /\ Required(a) # {} /\ Free(a)
  /\ Used(OrderOf[a]) < Quantity[OrderOf[a]]
  /\ caller' = [caller EXCEPT ![p].pc = "reserve", ![p].what = a]
  /\ UNCHANGED <<order, alloc, item, instr, attempts, sent>>

(* reserveLeadAllocationAtomicTx; what it refuses rolls everything back.    *)
Reserve(p) ==
  LET a == caller[p].what
      o == OrderOf[a] IN
  /\ At(p, "reserve")
  /\ IF alloc[a] = "shadow" /\ Takes(o) /\ Room(o) /\ Free(a)
          /\ (a \in Stocked => SourceOf[a] \in item)
     THEN /\ alloc' = [alloc EXCEPT ![a] = "reserved"]
          /\ order' = [order EXCEPT ![o].reserved = @ + 1]
          /\ item' = IF a \in Stocked THEN item \ {SourceOf[a]} ELSE item
     ELSE UNCHANGED <<alloc, order, item>>
  /\ Done(p)
  /\ UNCHANGED <<instr, attempts, sent>>

(* safeReleaseReservation: no attempt of the allocation may be open.        *)
SafeRelease(a) ==
  /\ a \in Releasable
  /\ alloc[a] \in Executable /\ order[OrderOf[a]].reserved > 0
  /\ \A i \in InstructionsOf(a) : ~Running(i)
  /\ alloc' = [alloc EXCEPT ![a] = "released"]
  /\ order' = [order EXCEPT ![OrderOf[a]].reserved = @ - 1]
  /\ UNCHANGED <<item, instr, attempts, sent, caller>>

(* Variant: a delivering allocation may be released as well.                *)
BugMayRelease(a) == alloc[a] \in Executable

MayRelease(a) == alloc[a] = "reserved"

(* releasePplAllocation: returns the item, asks the allocation only.        *)
Release(a) ==
  /\ a \in Releasable
  /\ MayRelease(a) /\ order[OrderOf[a]].reserved > 0
  /\ a \in Stocked => SourceOf[a] \notin item
  /\ alloc' = [alloc EXCEPT ![a] = "released"]
  /\ order' = [order EXCEPT ![OrderOf[a]].reserved = @ - 1]
  /\ item' = IF a \in Stocked THEN item \cup {SourceOf[a]} ELSE item
  /\ UNCHANGED <<instr, attempts, sent, caller>>

-----------------------------------------------------------------------------
(* An attempt, simulated or live.                                           *)

(* A live attempt that delivered, or may have, closes the gates.            *)
Tried(i) == \E n \in DOMAIN attempts[i] :
              attempts[i][n].mode = "live" /\ attempts[i][n].status \in {"succeeded", "unknown_outcome"}

MayExecute(i) == Takes(OrderOf[For[i]]) /\ alloc[For[i]] \in Executable /\ ~Tried(i)

(* What claimDeliveryAttempt reads before its transaction, after the        *)
(* preflight of a live call; optional instructions are not executed live.   *)
Read(p, i, mode) ==
  /\ At(p, "idle")
  /\ alloc[For[i]] \in Executable /\ instr[i] = "planned" /\ ~Running(i)
  /\ mode = "live" => MayExecute(i) /\ i \notin Optional
  /\ Len(attempts[i]) < MaxAttempts[i]
  /\ caller' = [caller EXCEPT ![p] = [Idle EXCEPT !.pc = "claim", !.what = i, !.mode = mode,
                                                  !.number = Len(attempts[i]) + 1]]
  /\ UNCHANGED <<order, alloc, item, instr, attempts, sent>>

Claimable(i) == instr[i] = "planned" /\ ~Running(i)

(* The claim transaction; an attempt number is used once.                   *)
Claim(p) ==
  LET i == caller[p].what
      a == For[i] IN
  /\ At(p, "claim")
  /\ IF alloc[a] \in Executable /\ Claimable(i)
          /\ caller[p].number = Len(attempts[i]) + 1
     THEN /\ alloc' = [alloc EXCEPT ![a] = "delivering"]
          /\ instr' = [instr EXCEPT ![i] = "executing"]
          /\ attempts' = [attempts EXCEPT ![i] =
                            Append(@, [mode |-> caller[p].mode, status |-> "claimed"])]
          /\ Go(p, "activate")
     ELSE Done(p) /\ UNCHANGED <<alloc, instr, attempts>>
  /\ UNCHANGED <<order, item, sent>>

(* A simulation takes over a simulation that is open.                       *)
Join(p, i) ==
  \E n \in DOMAIN attempts[i] :
    /\ At(p, "idle")
    /\ attempts[i][n].mode = "simulation" /\ attempts[i][n].status \in Open
    /\ caller' = [caller EXCEPT ![p] = [Idle EXCEPT !.pc = "activate", !.what = i,
                                                    !.mode = "simulation", !.number = n]]
    /\ UNCHANGED <<order, alloc, item, instr, attempts, sent>>

(* activateAttemptInProgress, and the same statement of a simulation.       *)
Activate(p) ==
  /\ At(p, "activate")
  /\ IF Mine(p).status \in Open
     THEN /\ attempts' = Set(caller[p].what, caller[p].number, "in_progress")
          /\ Go(p, IF caller[p].mode = "live" THEN "boundary" ELSE "finalize")
     ELSE Done(p) /\ UNCHANGED attempts
  /\ UNCHANGED <<order, alloc, item, instr, sent>>

(* Variant: a simulation that was joined is finished twice.                 *)
BugUnfinished(p) == Mine(p).status # "claimed"

Unfinished(p) == Mine(p).status \in Open

(* Variant: the allocation goes back whatever became of it.                 *)
BugBack(a) == "reserved"

(* What becomes of an allocation when an attempt leaves it undelivered.     *)
Back(a) == IF alloc[a] = "delivering" THEN "reserved" ELSE alloc[a]

(* The end of a simulation: the instruction and the allocation go back.     *)
Finalize(p) ==
  LET i == caller[p].what IN
  /\ At(p, "finalize")
  /\ IF Unfinished(p)
     THEN /\ \E s \in {"succeeded", "terminal_failure"} :
               attempts' = Set(i, caller[p].number, s)
          /\ instr' = [instr EXCEPT ![i] = IF @ = "executing" THEN "planned" ELSE @]
          /\ alloc' = [alloc EXCEPT ![For[i]] = Back(For[i])]
     ELSE UNCHANGED <<attempts, instr, alloc>>
  /\ Done(p)
  /\ UNCHANGED <<order, item, sent>>

(* The gates at the write boundary; any of them, or the audit, may say no.  *)
Boundary(p) ==
  LET i == caller[p].what IN
  /\ At(p, "boundary")
  /\ \/ MayExecute(i) /\ Go(p, "send")
     \/ Go(p, "cancel")
  /\ UNCHANGED <<order, alloc, item, instr, attempts, sent>>

(* Variant: an exception is taken for a failure before the first call.      *)
BugVerdict(r, arrived) == CASE r = "succeeded" -> "commit" [] r = "unknown" -> "doubt"
                            [] OTHER -> "withdraw"

(* The classifier: an exception is a failure before the first call unless   *)
(* the adapter saw the call start.                                          *)
Verdict(r, arrived) == CASE r = "succeeded" -> "commit"
                         [] r = "unknown" -> "doubt"
                         [] r = "thrown" /\ arrived /\ Tracked -> "doubt"
                         [] OTHER -> "withdraw"

(* deliverLive: every step accepted; a call answered badly or not at all,   *)
(* applied or not; rejected before any call; or an exception, before the    *)
(* first call or after the lead arrived.                                    *)
Send(p) ==
  /\ At(p, "send")
  /\ \E r \in Results, arrived \in BOOLEAN :
       /\ r = "succeeded" => arrived
       /\ r = "before_call" => ~arrived
       /\ Go(p, Verdict(r, arrived))
       /\ sent' = IF arrived THEN [sent EXCEPT ![caller[p].what] = @ + 1] ELSE sent
  /\ UNCHANGED <<order, alloc, item, instr, attempts>>

-----------------------------------------------------------------------------
(* The result is recorded.                                                  *)

(* Variant: an instruction that is executing counts as completed.           *)
BugMissing(i) == {j \in Required(For[i]) \ {i} : instr[j] = "planned"}

(* Required instructions that keep the allocation open when i completes.    *)
Missing(i) == {j \in Required(For[i]) \ {i} : instr[j] # "completed"}

Counted(o) == order[o].status = "active" /\ order[o].reserved > 0

(* Variant: the order's refusal is not taken for a failure.                 *)
BugSettles(a) == alloc[a] \in Executable

Settles(a) == alloc[a] \in Executable /\ Counted(OrderOf[a])

(* commitFulfillmentSuccess: all of it, or nothing and the call is in doubt. *)
Commit(p) ==
  LET i == caller[p].what
      a == For[i]
      o == OrderOf[a]
      last == Missing(i) = {} IN
  /\ At(p, "commit")
  /\ IF Unfinished(p) /\ (last => Settles(a))
     THEN /\ attempts' = Set(i, caller[p].number, "succeeded")
          /\ instr' = [instr EXCEPT ![i] = "completed"]
          /\ alloc' = IF last THEN [alloc EXCEPT ![a] = "committed"] ELSE alloc
          /\ order' = IF last /\ Counted(o)
                      THEN [order EXCEPT ![o].reserved = @ - 1, ![o].fulfilled = @ + 1]
                      ELSE order
          /\ Done(p)
     ELSE Go(p, "doubt") /\ UNCHANGED <<attempts, instr, alloc, order>>
  /\ UNCHANGED <<item, sent>>

(* recordAttemptUnknownOutcome: nothing at all unless the allocation can    *)
(* still be put in review.                                                  *)
Doubt(p) ==
  LET i == caller[p].what IN
  /\ At(p, "doubt")
  /\ IF Unfinished(p) /\ alloc[For[i]] \in Executable
     THEN /\ attempts' = Set(i, caller[p].number, "unknown_outcome")
          /\ alloc' = [alloc EXCEPT ![For[i]] = "review_required"]
          /\ instr' = [instr EXCEPT ![i] = "review_required"]
     ELSE UNCHANGED <<attempts, alloc, instr>>
  /\ Done(p)
  /\ UNCHANGED <<order, item, sent>>

(* recordLiveAttemptCanceledBeforeExternalCall.                             *)
Cancel(p) ==
  LET i == caller[p].what IN
  /\ caller[p].pc \in {"cancel", "withdraw"}
  /\ IF Unfinished(p)
     THEN /\ attempts' = Set(i, caller[p].number, "terminal_failure")
          /\ instr' = [instr EXCEPT ![i] = "planned"]
          /\ alloc' = [alloc EXCEPT ![For[i]] = Back(For[i])]
     ELSE UNCHANGED <<attempts, instr, alloc>>
  /\ Done(p)
  /\ UNCHANGED <<order, item, sent>>

(* Recording fails after deliverLive was called: the catch is in doubt.     *)
Fail(p) ==
  /\ caller[p].pc \in {"commit", "withdraw"}
  /\ Go(p, "doubt")
  /\ UNCHANGED <<order, alloc, item, instr, attempts, sent>>

(* The process dies, or a statement fails where no catch records it; a      *)
(* claim made by itself ends here too.                                      *)
Crash(p) ==
  /\ ~At(p, "idle") /\ Done(p)
  /\ UNCHANGED <<order, alloc, item, instr, attempts, sent>>

(* An administrator pauses, completes or cancels an order, or resumes a     *)
(* paused one: pausedAt stays, and with it what completing has set.         *)
Pause(o) ==
  /\ order[o].status # "paused"
  /\ order' = [order EXCEPT ![o].status = "paused", ![o].held = TRUE]
  /\ UNCHANGED <<alloc, item, instr, attempts, sent, caller>>

Stop(o) ==
  /\ order[o].status # "closed"
  /\ order' = [order EXCEPT ![o].status = "closed"]
  /\ UNCHANGED <<alloc, item, instr, attempts, sent, caller>>

Resume(o) ==
  /\ order[o].status = "paused"
  /\ order' = [order EXCEPT ![o].status = "active"]
  /\ UNCHANGED <<alloc, item, instr, attempts, sent, caller>>

-----------------------------------------------------------------------------
Init ==
  /\ order = [o \in Orders |-> [reserved |-> 0, fulfilled |-> 0, status |-> "active", held |-> FALSE]]
  /\ alloc = [a \in Allocations |-> "shadow"]
  /\ item = {SourceOf[a] : a \in Stocked}
  /\ instr = [i \in Instructions |-> "planned"]
  /\ attempts = [i \in Instructions |-> <<>>]
  /\ sent = [i \in Instructions |-> 0]
  /\ caller = [p \in Callers |-> Idle]

Step(p) ==
  \/ \E a \in Allocations : CheckReserve(p, a)
  \/ \E i \in Instructions : Join(p, i) \/ \E mode \in Modes : Read(p, i, mode)
  \/ Reserve(p) \/ Claim(p) \/ Activate(p) \/ Finalize(p) \/ Boundary(p) \/ Send(p)
  \/ Commit(p) \/ Doubt(p) \/ Cancel(p) \/ Fail(p) \/ Crash(p)

Next ==
  \/ \E p \in Callers : Step(p)
  \/ \E a \in Allocations : SafeRelease(a) \/ Release(a)
  \/ \E o \in Managed : Pause(o) \/ Stop(o) \/ Resume(o)

Spec == Init /\ [][Next]_vars

-----------------------------------------------------------------------------
(* Properties.                                                              *)

Steps == {"idle", "reserve", "claim", "activate", "finalize", "boundary", "send",
          "commit", "doubt", "cancel", "withdraw"}

(* Every variable holds a value of its type; the counters of an order stay  *)
(* between zero and what the order may take.                                *)
TypeOK ==
  /\ \A o \in Orders :
       order[o] \in [reserved : 0..(Quantity[o] + Allowance[o]),
                     fulfilled : 0..(Quantity[o] + Allowance[o]),
                     status : {"active", "paused", "closed"}, held : BOOLEAN]
  /\ alloc \in [Allocations -> Active \cup {"shadow", "released"}]
  /\ item \subseteq Sources
  /\ instr \in [Instructions -> {"planned", "executing", "completed", "review_required"}]
  /\ \A i \in Instructions :
       attempts[i] \in Seq([mode : Modes, status : Open \cup Ended])
  /\ sent \in [Instructions -> Nat]
  /\ caller \in [Callers -> [pc : Steps, what : Allocations \cup Instructions \cup {None},
                             mode : Modes, number : Nat]]

AllocationsIn(o, statuses) == {a \in Allocations : OrderOf[a] = o /\ alloc[a] \in statuses}

(* The counters of an order agree with its allocations after every          *)
(* transaction, whatever else runs: what counter-reconciliation checks.     *)
CountersInSync ==
  \A o \in Orders :
    /\ order[o].reserved = Cardinality(AllocationsIn(o, Active \ {"committed"}))
    /\ order[o].fulfilled = Cardinality(AllocationsIn(o, {"committed"}))

(* Concurrent reservations never take more of an order than its quantity    *)
(* and its review allowance.                                                *)
WithinCapacity ==
  \A o \in Orders : Cardinality(AllocationsIn(o, Active)) <= Quantity[o] + Allowance[o]

(* A committed allocation is paid for by a lead that arrived: each of its   *)
(* required instructions has a live attempt that succeeded, and was sent.   *)
CommittedIsDelivered ==
  \A a \in Allocations : alloc[a] = "committed" =>
    \A i \in Required(a) :
      /\ sent[i] > 0
      /\ \E n \in DOMAIN attempts[i] : attempts[i][n] = [mode |-> "live", status |-> "succeeded"]

(* No instruction reaches the buyer's CRM twice, over exceptions, crashes,  *)
(* failed commits, simulations and calls that overlap.                      *)
NotSentTwice == \A i \in Instructions : sent[i] <= 1

(* A lead that reached a buyer is not sent for another order, whatever      *)
(* operators release and reserve meanwhile.                                 *)
SoldOnce ==
  \A i, j \in Instructions :
    sent[i] > 0 /\ sent[j] > 0 /\ SourceOf[For[i]] = SourceOf[For[j]] => For[i] = For[j]

(* An unknown outcome holds the reservation: the allocation stays in review *)
(* and its instruction too, though a sibling instruction goes on.           *)
UnknownIsHeld ==
  \A i \in Instructions :
    (\E n \in DOMAIN attempts[i] : attempts[i][n].status = "unknown_outcome")
      => alloc[For[i]] = "review_required" /\ instr[i] = "review_required"

(* The outcome of an attempt is final: no later step rewrites it, nor does  *)
(* any attempt disappear.                                                   *)
OutcomeStays ==
  [][\A i \in Instructions : \A n \in DOMAIN attempts[i] :
       attempts[i][n].status \in Ended =>
         n \in DOMAIN attempts'[i] /\ attempts'[i][n] = attempts[i][n]]_vars

=============================================================================
