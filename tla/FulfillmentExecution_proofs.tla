-------------------- MODULE FulfillmentExecution_proofs --------------------
(***************************************************************************)
(* What holds of orders, allocations and attempts for any number of calls, *)
(* orders, allocations and instructions: types, counters and capacity.     *)
(***************************************************************************)
EXTENDS FulfillmentExecution, FiniteSetTheorems, SequenceTheorems, TLAPS

USE FulfillmentAssumption

OrderStatuses == {"active", "paused", "closed"}
OrderRecords == [reserved : Nat, fulfilled : Nat, status : OrderStatuses, held : BOOLEAN]
AllocStatuses == Active \cup {"shadow", "released"}
InstrStatuses == {"planned", "executing", "completed", "review_required"}
AttemptRecords == [mode : Modes, status : Open \cup Ended]
CallerRecords == [pc : Steps, what : Allocations \cup Instructions \cup {None},
                  mode : Modes, number : Nat]

(* TypeOK without the bound on the counters, as sets of functions.          *)
Typed ==
  /\ order \in [Orders -> OrderRecords]
  /\ alloc \in [Allocations -> AllocStatuses]
  /\ item \subseteq Sources
  /\ instr \in [Instructions -> InstrStatuses]
  /\ attempts \in [Instructions -> Seq(AttemptRecords)]
  /\ sent \in [Instructions -> Nat]
  /\ caller \in [Callers -> CallerRecords]

(* Steps at which a call holds the number of an attempt.                    *)
Working == {"activate", "finalize", "boundary", "send", "commit", "doubt", "cancel", "withdraw"}
LiveSteps == Working \ {"activate", "finalize"}

(* What the locals of a call stand for.                                     *)
Local(p) ==
  /\ At(p, "reserve") => caller[p].what \in Allocations
  /\ At(p, "claim") => caller[p].what \in Instructions
  /\ caller[p].pc \in Working =>
       /\ caller[p].what \in Instructions
       /\ caller[p].number \in DOMAIN attempts[caller[p].what]
       /\ Mine(p).mode = caller[p].mode
  /\ caller[p].pc \in LiveSteps => caller[p].mode = "live"
  /\ At(p, "finalize") => caller[p].mode = "simulation"
Locals == \A p \in Callers : Local(p)

-----------------------------------------------------------------------------
(* The two ways in which attempts change.                                   *)

(* Rewriting the status of one attempt leaves every other one alone.        *)
LEMMA SetFacts ==
  ASSUME Typed, NEW i \in Instructions, NEW n \in DOMAIN attempts[i], NEW s \in Open \cup Ended,
         attempts' = Set(i, n, s)
  PROVE  /\ attempts' \in [Instructions -> Seq(AttemptRecords)]
         /\ \A j \in Instructions : DOMAIN attempts'[j] = DOMAIN attempts[j]
         /\ \A j \in Instructions : \A m \in DOMAIN attempts[j] :
              /\ attempts'[j][m].mode = attempts[j][m].mode
              /\ j # i \/ m # n => attempts'[j][m] = attempts[j][m]
         /\ attempts'[i][n].status = s
  <1> DEFINE q == attempts[i]
             x == [q[n] EXCEPT !.status = s]
             r == [q EXCEPT ![n] = x]
  <1>1. q \in Seq(AttemptRecords) /\ DOMAIN q = 1 .. Len(q)
    BY LenProperties DEF Typed
  <1>2. q[n] \in AttemptRecords
    BY <1>1, ElementOfSeq
  <1>3. x \in AttemptRecords /\ x.mode = q[n].mode /\ x.status = s
    BY <1>2 DEF AttemptRecords
  <1>4. /\ r \in Seq(AttemptRecords)
        /\ DOMAIN r = DOMAIN q
        /\ \A m \in DOMAIN q : r[m] = IF m = n THEN x ELSE q[m]
    BY <1>1, <1>3, ExceptSeq, LenProperties
  <1>5. attempts' = [attempts EXCEPT ![i] = r]
    BY DEF Set
  <1>6. attempts \in [Instructions -> Seq(AttemptRecords)]
    BY DEF Typed
  <1> HIDE DEF q, x, r
  <1>7. \A j \in Instructions : attempts'[j] = IF j = i THEN r ELSE attempts[j]
    BY <1>5, <1>6
  <1>8. attempts' \in [Instructions -> Seq(AttemptRecords)]
    BY <1>4, <1>5, <1>6
  <1>9. \A j \in Instructions : DOMAIN attempts'[j] = DOMAIN attempts[j]
    BY <1>4, <1>7 DEF q
  <1>10. ASSUME NEW j \in Instructions, NEW m \in DOMAIN attempts[j]
         PROVE  /\ attempts'[j][m].mode = attempts[j][m].mode
                /\ j # i \/ m # n => attempts'[j][m] = attempts[j][m]
    BY <1>3, <1>4, <1>7 DEF q
  <1>11. attempts'[i][n].status = s
    BY <1>3, <1>4, <1>7 DEF q
  <1> QED
    BY <1>8, <1>9, <1>10, <1>11

(* A claim adds one attempt at the end.                                     *)
LEMMA AppendFacts ==
  ASSUME Typed, NEW i \in Instructions, NEW x \in AttemptRecords,
         attempts' = [attempts EXCEPT ![i] = Append(@, x)]
  PROVE  /\ attempts' \in [Instructions -> Seq(AttemptRecords)]
         /\ \A j \in Instructions : \A m \in DOMAIN attempts[j] :
              m \in DOMAIN attempts'[j] /\ attempts'[j][m] = attempts[j][m]
         /\ \A j \in Instructions : \A m \in DOMAIN attempts'[j] :
              m \in DOMAIN attempts[j] \/ (j = i /\ m = Len(attempts[i]) + 1)
         /\ Len(attempts[i]) + 1 \in DOMAIN attempts'[i]
         /\ Len(attempts[i]) + 1 \notin DOMAIN attempts[i]
         /\ attempts'[i][Len(attempts[i]) + 1] = x
  <1> DEFINE q == attempts[i]
             r == Append(q, x)
  <1>1. q \in Seq(AttemptRecords) /\ Len(q) \in Nat /\ DOMAIN q = 1 .. Len(q)
    BY LenProperties DEF Typed
  <1>2. /\ r \in Seq(AttemptRecords)
        /\ DOMAIN r = 1 .. Len(q) + 1
        /\ \A m \in 1 .. Len(q) : r[m] = q[m]
        /\ r[Len(q) + 1] = x
    BY <1>1
  <1>3. 1 .. Len(q) + 1 = DOMAIN q \cup {Len(q) + 1} /\ Len(q) + 1 \notin DOMAIN q
    BY <1>1
  <1>4. attempts \in [Instructions -> Seq(AttemptRecords)]
    BY DEF Typed
  <1> HIDE DEF q, r
  <1>5. \A j \in Instructions : attempts'[j] = IF j = i THEN r ELSE attempts[j]
    BY <1>4 DEF r, q
  <1>6. attempts' \in [Instructions -> Seq(AttemptRecords)]
    BY <1>2, <1>4 DEF r, q
  <1> QED
    BY <1>1, <1>2, <1>3, <1>5, <1>6 DEF q

-----------------------------------------------------------------------------
(* Types, and the locals of the calls.                                      *)

(* No attempt disappears or changes its mode.                               *)
Kept == \A j \in Instructions : \A m \in DOMAIN attempts[j] :
          m \in DOMAIN attempts'[j] /\ attempts'[j][m].mode = attempts[j][m].mode

(* Locals survive every step of another call, and a step within one's own.  *)
LEMMA OthersLocal ==
  ASSUME Locals, Kept, NEW p \in Callers, NEW c,
         caller \in [Callers -> CallerRecords], caller' = [caller EXCEPT ![p] = c], Local(p)'
  PROVE  Locals'
  <1> SUFFICES ASSUME NEW q \in Callers, q # p PROVE Local(q)'
    BY DEF Locals
  <1>1. caller'[q] = caller[q] /\ Local(q)
    BY DEF Locals
  <1> QED
    BY <1>1 DEF Local, At, Mine, Kept

(* Locals survive a step that changes no local.                             *)
LEMMA SameLocal ==
  ASSUME Locals, Kept, caller' = caller
  PROVE  Locals'
  BY DEF Locals, Local, At, Mine, Kept

(* A call that returns.                                                     *)
LEMMA DoneOK ==
  ASSUME Typed, Locals, Kept, NEW p \in Callers, Done(p)
  PROVE  caller' \in [Callers -> CallerRecords] /\ Locals'
  <1>1. Idle \in CallerRecords
    BY DEF Idle, CallerRecords, Steps, Modes
  <1>2. caller' = [caller EXCEPT ![p] = Idle] /\ caller \in [Callers -> CallerRecords]
    BY DEF Done, Typed
  <1>3. caller'[p] = Idle
    BY <1>2
  <1>4. Local(p)'
    BY <1>3 DEF Local, At, Idle, Working, LiveSteps
  <1> QED
    BY <1>1, <1>2, <1>4, OthersLocal

(* A call that goes on to a step of an attempt it holds.                    *)
LEMMA GoOK ==
  ASSUME Typed, Locals, Kept, NEW p \in Callers, NEW s \in Working, Go(p, s),
         caller[p].pc \in Working,
         s \in LiveSteps => caller[p].mode = "live",
         s = "finalize" => caller[p].mode = "simulation"
  PROVE  caller' \in [Callers -> CallerRecords] /\ Locals'
  <1> DEFINE c == [caller[p] EXCEPT !.pc = s]
  <1>1. caller' = [caller EXCEPT ![p] = c] /\ caller \in [Callers -> CallerRecords]
    BY DEF Go, Typed
  <1>2. caller'[p] = c /\ caller[p] \in CallerRecords
    BY <1>1
  <1>3. /\ c \in CallerRecords /\ c.pc = s /\ c.what = caller[p].what
        /\ c.mode = caller[p].mode /\ c.number = caller[p].number
    BY <1>2 DEF CallerRecords, Steps, Working
  <1> HIDE DEF c
  <1>4. Local(p)'
    BY <1>2, <1>3 DEF Locals, Local, At, Working, LiveSteps, Mine, Kept
  <1> QED
    BY <1>1, <1>3, <1>4, OthersLocal

(* A status that is rewritten for the attempt of a call.                    *)
LEMMA Rewritten ==
  ASSUME Typed, Locals, NEW p \in Callers, caller[p].pc \in Working, NEW s \in Open \cup Ended,
         attempts' = Set(caller[p].what, caller[p].number, s)
  PROVE  attempts' \in [Instructions -> Seq(AttemptRecords)] /\ Kept
  <1>1. PICK i \in Instructions : i = caller[p].what /\ caller[p].number \in DOMAIN attempts[i]
    BY DEF Locals, Local
  <1>2. PICK n \in DOMAIN attempts[i] : n = caller[p].number
    BY <1>1
  <1>3. attempts' = Set(i, n, s)
    BY <1>1, <1>2
  <1> QED
    BY <1>3, SetFacts DEF Kept

(* An allocation goes back to a status it may have.                         *)
LEMMA BackType ==
  ASSUME Typed, NEW a \in Allocations
  PROVE  Back(a) \in AllocStatuses
  BY DEF Typed, Back, AllocStatuses, Active

(* One allocation changes its status, within the type.                      *)
LEMMA AllocUpdate ==
  ASSUME Typed, NEW a \in Allocations, NEW s \in AllocStatuses, alloc' = [alloc EXCEPT ![a] = s]
  PROVE  alloc' \in [Allocations -> AllocStatuses]
  BY DEF Typed

(* One instruction changes its status, within the type.                     *)
LEMMA InstrUpdate ==
  ASSUME Typed, NEW i \in Instructions, NEW s \in InstrStatuses, instr' = [instr EXCEPT ![i] = s]
  PROVE  instr' \in [Instructions -> InstrStatuses]
  BY DEF Typed

(* One order changes, to another record of its type.                        *)
LEMMA OrderUpdate ==
  ASSUME Typed, NEW o \in Orders,
         \/ order' = [order EXCEPT ![o].reserved = @ + 1]
         \/ /\ order[o].reserved > 0
            /\ \/ order' = [order EXCEPT ![o].reserved = @ - 1]
               \/ order' = [order EXCEPT ![o].reserved = @ - 1, ![o].fulfilled = @ + 1]
         \/ order' = [order EXCEPT ![o].status = "paused", ![o].held = TRUE]
         \/ \E s \in OrderStatuses : order' = [order EXCEPT ![o].status = s]
  PROVE  order' \in [Orders -> OrderRecords]
  <1>1. order \in [Orders -> OrderRecords] /\ order[o] \in OrderRecords
    BY DEF Typed
  <1>2. order[o].reserved \in Nat /\ order[o].fulfilled \in Nat
    BY <1>1 DEF OrderRecords
  <1>3. CASE order' = [order EXCEPT ![o].reserved = @ + 1]
    <2>1. [order[o] EXCEPT !.reserved = @ + 1] \in OrderRecords
      BY <1>1, <1>2 DEF OrderRecords
    <2> QED
      BY <1>1, <1>3, <2>1
  <1>4. CASE order[o].reserved > 0 /\ order' = [order EXCEPT ![o].reserved = @ - 1]
    <2>1. order[o].reserved - 1 \in Nat
      BY <1>2, <1>4
    <2>2. [order[o] EXCEPT !.reserved = @ - 1] \in OrderRecords
      BY <1>1, <2>1 DEF OrderRecords
    <2> QED
      BY <1>1, <1>4, <2>2
  <1>5. CASE /\ order[o].reserved > 0
             /\ order' = [order EXCEPT ![o].reserved = @ - 1, ![o].fulfilled = @ + 1]
    <2>1. order[o].reserved - 1 \in Nat /\ order[o].fulfilled + 1 \in Nat
      BY <1>2, <1>5
    <2>2. [order[o] EXCEPT !.reserved = @ - 1, !.fulfilled = @ + 1] \in OrderRecords
      BY <1>1, <2>1 DEF OrderRecords
    <2> QED
      BY <1>1, <1>5, <2>2
  <1>6. CASE order' = [order EXCEPT ![o].status = "paused", ![o].held = TRUE]
    <2>1. [order[o] EXCEPT !.status = "paused", !.held = TRUE] \in OrderRecords
      BY <1>1 DEF OrderRecords, OrderStatuses
    <2> QED
      BY <1>1, <1>6, <2>1
  <1>7. ASSUME NEW s \in OrderStatuses, order' = [order EXCEPT ![o].status = s]
        PROVE  order' \in [Orders -> OrderRecords]
    <2>1. [order[o] EXCEPT !.status = s] \in OrderRecords
      BY <1>1 DEF OrderRecords
    <2> QED
      BY <1>1, <1>7, <2>1
  <1> QED
    BY <1>3, <1>4, <1>5, <1>6, <1>7

(* Nothing is running at first.                                             *)
LEMMA TypedInit == Init => Typed /\ Locals
  <1> SUFFICES ASSUME Init PROVE Typed /\ Locals
    OBVIOUS
  <1>1. Idle \in CallerRecords
    BY DEF Idle, CallerRecords, Steps, Modes
  <1>2. order \in [Orders -> OrderRecords]
    BY DEF Init, OrderRecords, OrderStatuses
  <1>3. attempts \in [Instructions -> Seq(AttemptRecords)]
    BY EmptySeq DEF Init
  <1>4. Typed
    BY <1>1, <1>2, <1>3 DEF Init, Typed, AllocStatuses, InstrStatuses, Sources
  <1>5. Locals
    BY DEF Init, Locals, Local, At, Idle, Working, LiveSteps
  <1> QED
    BY <1>4, <1>5

(* What a step of a call preserves, whichever step it is.                   *)
LEMMA TypedStep ==
  ASSUME Typed, Locals, NEW p \in Callers, Step(p)
  PROVE  Typed' /\ Locals'
  <1> USE DEF Typed
  <1>k. attempts' = attempts => Kept
    BY DEF Kept
  <1>1. ASSUME NEW a \in Allocations, CheckReserve(p, a) PROVE Typed' /\ Locals'
    <2> DEFINE c == [caller[p] EXCEPT !.pc = "reserve", !.what = a]
    <2>1. c \in CallerRecords /\ c.pc = "reserve" /\ c.what = a
      <3>1. caller[p] \in CallerRecords
        OBVIOUS
      <3> QED
        BY <3>1 DEF CallerRecords, Steps
    <2>2. caller' = [caller EXCEPT ![p] = c]
      BY <1>1 DEF CheckReserve
    <2> HIDE DEF c
    <2>3. Local(p)'
      BY <2>1, <2>2 DEF Local, At, Working, LiveSteps
    <2>4. Locals' /\ caller' \in [Callers -> CallerRecords]
      <3>1. Kept
        BY <1>1, <1>k DEF CheckReserve
      <3> QED
        BY <3>1, <2>1, <2>2, <2>3, OthersLocal
    <2> QED
      BY <1>1, <2>4 DEF CheckReserve
  <1>2. ASSUME NEW i \in Instructions, Join(p, i) PROVE Typed' /\ Locals'
    <2>1. PICK n \in DOMAIN attempts[i] :
            /\ attempts[i][n].mode = "simulation"
            /\ caller' = [caller EXCEPT ![p] = [Idle EXCEPT !.pc = "activate", !.what = i,
                                                            !.mode = "simulation", !.number = n]]
      BY <1>2 DEF Join
    <2> DEFINE c == [Idle EXCEPT !.pc = "activate", !.what = i, !.mode = "simulation", !.number = n]
    <2>2. n \in Nat
      BY LenProperties
    <2>3. /\ c \in CallerRecords /\ c.pc = "activate" /\ c.what = i
          /\ c.mode = "simulation" /\ c.number = n
      BY <2>2 DEF Idle, CallerRecords, Steps, Modes
    <2>4. caller' = [caller EXCEPT ![p] = c] /\ attempts' = attempts
      BY <1>2, <2>1 DEF Join
    <2> HIDE DEF c
    <2>5. Local(p)'
      BY <2>1, <2>3, <2>4 DEF Local, At, Working, LiveSteps, Mine
    <2>6. Locals' /\ caller' \in [Callers -> CallerRecords]
      BY <1>k, <2>3, <2>4, <2>5, OthersLocal
    <2> QED
      BY <1>2, <2>6 DEF Join
  <1>3. ASSUME NEW i \in Instructions, NEW mode \in Modes, Read(p, i, mode)
        PROVE  Typed' /\ Locals'
    <2> DEFINE c == [Idle EXCEPT !.pc = "claim", !.what = i, !.mode = mode,
                                 !.number = Len(attempts[i]) + 1]
    <2>1. Len(attempts[i]) + 1 \in Nat
      BY LenProperties
    <2>2. c \in CallerRecords /\ c.pc = "claim" /\ c.what = i
      BY <2>1 DEF Idle, CallerRecords, Steps, Modes
    <2>3. caller' = [caller EXCEPT ![p] = c] /\ attempts' = attempts
      BY <1>3 DEF Read
    <2> HIDE DEF c
    <2>4. Local(p)'
      BY <2>2, <2>3 DEF Local, At, Working, LiveSteps
    <2>5. Locals' /\ caller' \in [Callers -> CallerRecords]
      BY <1>k, <2>2, <2>3, <2>4, OthersLocal
    <2> QED
      BY <1>3, <2>5 DEF Read
  <1>4. ASSUME Reserve(p) PROVE Typed' /\ Locals'
    <2>1. PICK a \in Allocations : a = caller[p].what
      BY <1>4 DEF Reserve, Locals, Local
    <2>o. PICK o \in Orders : o = OrderOf[a]
      BY <2>1
    <2>2. Locals' /\ caller' \in [Callers -> CallerRecords]
      BY <1>4, <1>k, DoneOK DEF Reserve
    <2>3. alloc' \in [Allocations -> AllocStatuses]
      BY <1>4, <2>1, AllocUpdate DEF Reserve, AllocStatuses, Active
    <2>4. order' \in [Orders -> OrderRecords]
      BY <1>4, <2>1, <2>o, OrderUpdate DEF Reserve
    <2>5. item' \subseteq Sources
      BY <1>4 DEF Reserve
    <2> QED
      BY <1>4, <2>2, <2>3, <2>4, <2>5 DEF Reserve
  <1>5. ASSUME Claim(p) PROVE Typed' /\ Locals'
    <2> DEFINE i == caller[p].what
    <2>1. i \in Instructions /\ For[i] \in Allocations /\ At(p, "claim")
      BY <1>5 DEF Claim, Locals, Local
    <2>2. CASE Done(p) /\ UNCHANGED <<alloc, instr, attempts>>
      BY <1>5, <1>k, <2>2, DoneOK DEF Claim
    <2>3. CASE ~(Done(p) /\ UNCHANGED <<alloc, instr, attempts>>)
      <3> DEFINE x == [mode |-> caller[p].mode, status |-> "claimed"]
      <3>1. /\ alloc' = [alloc EXCEPT ![For[i]] = "delivering"]
            /\ instr' = [instr EXCEPT ![i] = "executing"]
            /\ attempts' = [attempts EXCEPT ![i] = Append(@, x)]
            /\ caller[p].number = Len(attempts[i]) + 1
            /\ Go(p, "activate")
            /\ UNCHANGED <<order, item, sent>>
        BY <1>5, <2>3 DEF Claim
      <3>2. x \in AttemptRecords /\ x.mode = caller[p].mode
        BY DEF AttemptRecords, Open, CallerRecords
      <3> HIDE DEF x
      <3>3. /\ attempts' \in [Instructions -> Seq(AttemptRecords)]
            /\ Kept
            /\ caller[p].number \in DOMAIN attempts'[i]
            /\ attempts'[i][caller[p].number] = x
        BY <2>1, <3>1, <3>2, AppendFacts DEF Kept
      <3> DEFINE c == [caller[p] EXCEPT !.pc = "activate"]
      <3>4. /\ c \in CallerRecords /\ c.pc = "activate" /\ c.what = i
            /\ c.mode = caller[p].mode /\ c.number = caller[p].number
        <4>1. caller[p] \in CallerRecords
          OBVIOUS
        <4> QED
          BY <4>1 DEF CallerRecords, Steps
      <3>5. caller' = [caller EXCEPT ![p] = c]
        BY <3>1 DEF Go
      <3> HIDE DEF c
      <3>6. Local(p)'
        BY <2>1, <3>2, <3>3, <3>4, <3>5 DEF Local, At, Working, LiveSteps, Mine
      <3>7. Locals' /\ caller' \in [Callers -> CallerRecords]
        BY <3>3, <3>4, <3>5, <3>6, OthersLocal
      <3>8. alloc' \in [Allocations -> AllocStatuses] /\ instr' \in [Instructions -> InstrStatuses]
        BY <2>1, <3>1 DEF AllocStatuses, Active, InstrStatuses
      <3> QED
        BY <3>1, <3>3, <3>7, <3>8
    <2> QED
      BY <2>2, <2>3
  <1>6. ASSUME Activate(p) PROVE Typed' /\ Locals'
    <2>1. CASE Done(p) /\ UNCHANGED attempts
      BY <1>6, <1>k, <2>1, DoneOK DEF Activate
    <2>2. CASE ~(Done(p) /\ UNCHANGED attempts)
      <3>1. /\ attempts' = Set(caller[p].what, caller[p].number, "in_progress")
            /\ Go(p, IF caller[p].mode = "live" THEN "boundary" ELSE "finalize")
            /\ caller[p].pc \in Working
        BY <1>6, <2>2 DEF Activate, At, Working
      <3>2. attempts' \in [Instructions -> Seq(AttemptRecords)] /\ Kept
        BY <3>1, Rewritten DEF Open
      <3>3. caller[p].mode \in {"live", "simulation"}
        BY DEF CallerRecords, Modes
      <3>4. CASE caller[p].mode = "live"
        BY <1>6, <3>1, <3>2, <3>4, GoOK DEF Activate, Working, LiveSteps
      <3>5. CASE caller[p].mode = "simulation"
        BY <1>6, <3>1, <3>2, <3>5, GoOK DEF Activate, Working, LiveSteps
      <3> QED
        BY <3>3, <3>4, <3>5
    <2> QED
      BY <2>1, <2>2
  <1>7. ASSUME Finalize(p) PROVE Typed' /\ Locals'
    <2>1. PICK i \in Instructions : i = caller[p].what /\ caller[p].pc \in Working
      BY <1>7 DEF Finalize, At, Locals, Local, Working
    <2>a. PICK a \in Allocations : a = For[i]
      OBVIOUS
    <2>2. attempts' \in [Instructions -> Seq(AttemptRecords)] /\ Kept
      BY <1>7, <1>k, <2>1, Rewritten DEF Finalize, Ended
    <2>3. alloc' \in [Allocations -> AllocStatuses]
      BY <1>7, <2>1, <2>a, BackType, AllocUpdate DEF Finalize
    <2>4. instr' \in [Instructions -> InstrStatuses]
      BY <1>7, <2>1, InstrUpdate DEF Finalize, InstrStatuses
    <2> QED
      BY <1>7, <2>2, <2>3, <2>4, DoneOK DEF Finalize
  <1>8. ASSUME Boundary(p) PROVE Typed' /\ Locals'
    <2>1. PICK s \in {"send", "cancel"} : Go(p, s)
      BY <1>8 DEF Boundary
    <2>2. Locals' /\ caller' \in [Callers -> CallerRecords]
      BY <1>8, <1>k, <2>1, GoOK DEF Boundary, At, Working, LiveSteps, Locals, Local
    <2> QED
      BY <1>8, <2>2 DEF Boundary
  <1>9. ASSUME Send(p) PROVE Typed' /\ Locals'
    <2>1. PICK s \in {"commit", "doubt", "withdraw"} : Go(p, s)
      BY <1>9 DEF Send, Verdict
    <2>2. caller[p].mode = "live" /\ caller[p].pc \in Working /\ s \in LiveSteps /\ s \in Working
      BY <1>9, <2>1 DEF Send, At, Working, LiveSteps, Locals, Local
    <2>4. Kept
      BY <1>9, <1>k DEF Send
    <2>5. Locals' /\ caller' \in [Callers -> CallerRecords]
      BY <2>1, <2>2, <2>4, GoOK DEF LiveSteps
    <2>3. caller[p].what \in Instructions
      BY <1>9 DEF Send, At, Locals, Local, Working
    <2>6. sent' \in [Instructions -> Nat]
      BY <1>9, <2>3 DEF Send
    <2> QED
      BY <1>9, <2>5, <2>6 DEF Send
  <1>10. ASSUME Commit(p) PROVE Typed' /\ Locals'
    <2>1. PICK i \in Instructions : i = caller[p].what /\ caller[p].pc \in Working /\ At(p, "commit")
      BY <1>10 DEF Commit, At, Locals, Local, Working
    <2>a. PICK a \in Allocations : a = For[i]
      OBVIOUS
    <2>o. PICK o \in Orders : o = OrderOf[a]
      OBVIOUS
    <2>2. attempts' \in [Instructions -> Seq(AttemptRecords)] /\ Kept
      BY <1>10, <1>k, <2>1, Rewritten DEF Commit, Ended
    <2>3. alloc' \in [Allocations -> AllocStatuses]
      BY <1>10, <2>1, <2>a, AllocUpdate DEF Commit, AllocStatuses, Active
    <2>4. instr' \in [Instructions -> InstrStatuses]
      BY <1>10, <2>1, InstrUpdate DEF Commit, InstrStatuses
    <2>5. order' \in [Orders -> OrderRecords]
      BY <1>10, <2>1, <2>a, <2>o, OrderUpdate DEF Commit, Counted
    <2>6. Locals' /\ caller' \in [Callers -> CallerRecords]
      BY <1>10, <2>1, <2>2, DoneOK, GoOK DEF Commit, At, Working, LiveSteps, Locals, Local
    <2> QED
      BY <1>10, <2>2, <2>3, <2>4, <2>5, <2>6 DEF Commit
  <1>11. ASSUME Doubt(p) PROVE Typed' /\ Locals'
    <2>1. PICK i \in Instructions : i = caller[p].what /\ caller[p].pc \in Working
      BY <1>11 DEF Doubt, At, Locals, Local, Working
    <2>a. PICK a \in Allocations : a = For[i]
      OBVIOUS
    <2>2. attempts' \in [Instructions -> Seq(AttemptRecords)] /\ Kept
      BY <1>11, <1>k, <2>1, Rewritten DEF Doubt, Ended
    <2>3. alloc' \in [Allocations -> AllocStatuses]
      BY <1>11, <2>1, <2>a, AllocUpdate DEF Doubt, AllocStatuses, Active
    <2>4. instr' \in [Instructions -> InstrStatuses]
      BY <1>11, <2>1, InstrUpdate DEF Doubt, InstrStatuses
    <2> QED
      BY <1>11, <2>2, <2>3, <2>4, DoneOK DEF Doubt
  <1>12. ASSUME Cancel(p) PROVE Typed' /\ Locals'
    <2>1. PICK i \in Instructions : i = caller[p].what /\ caller[p].pc \in Working
      BY <1>12 DEF Cancel, At, Locals, Local, Working
    <2>a. PICK a \in Allocations : a = For[i]
      OBVIOUS
    <2>2. attempts' \in [Instructions -> Seq(AttemptRecords)] /\ Kept
      BY <1>12, <1>k, <2>1, Rewritten DEF Cancel, Ended
    <2>3. alloc' \in [Allocations -> AllocStatuses]
      BY <1>12, <2>1, <2>a, BackType, AllocUpdate DEF Cancel
    <2>4. instr' \in [Instructions -> InstrStatuses]
      BY <1>12, <2>1, InstrUpdate DEF Cancel, InstrStatuses
    <2> QED
      BY <1>12, <2>2, <2>3, <2>4, DoneOK DEF Cancel
  <1>13. ASSUME Fail(p) PROVE Typed' /\ Locals'
    <2>1. Locals' /\ caller' \in [Callers -> CallerRecords]
      BY <1>13, <1>k, GoOK DEF Fail, At, Working, LiveSteps, Locals, Local
    <2> QED
      BY <1>13, <2>1 DEF Fail
  <1>14. ASSUME Crash(p) PROVE Typed' /\ Locals'
    BY <1>14, <1>k, DoneOK DEF Crash
  <1> QED
    BY <1>1, <1>2, <1>3, <1>4, <1>5, <1>6, <1>7, <1>8, <1>9, <1>10, <1>11, <1>12, <1>13, <1>14
    DEF Step

(* What a transaction outside the calls preserves.                          *)
LEMMA TypedAside ==
  ASSUME Typed, Locals,
         \/ \E a \in Allocations : SafeRelease(a) \/ Release(a)
         \/ \E o \in Managed : Pause(o) \/ Stop(o) \/ Resume(o)
  PROVE  Typed' /\ Locals'
  <1> USE DEF Typed
  <1>k. attempts' = attempts => Kept
    BY DEF Kept
  <1>1. ASSUME NEW a \in Allocations, SafeRelease(a) PROVE Typed' /\ Locals'
    <2>o. PICK o \in Orders : o = OrderOf[a]
      OBVIOUS
    <2>1. order' \in [Orders -> OrderRecords]
      BY <1>1, <2>o, OrderUpdate DEF SafeRelease
    <2>2. alloc' \in [Allocations -> AllocStatuses]
      BY <1>1, AllocUpdate DEF SafeRelease, AllocStatuses, Active
    <2> QED
      BY <1>1, <1>k, <2>1, <2>2, SameLocal DEF SafeRelease
  <1>2. ASSUME NEW a \in Allocations, Release(a) PROVE Typed' /\ Locals'
    <2>o. PICK o \in Orders : o = OrderOf[a]
      OBVIOUS
    <2>1. order' \in [Orders -> OrderRecords]
      BY <1>2, <2>o, OrderUpdate DEF Release
    <2>2. alloc' \in [Allocations -> AllocStatuses]
      BY <1>2, AllocUpdate DEF Release, AllocStatuses, Active
    <2>3. item' \subseteq Sources
      BY <1>2 DEF Release, Sources
    <2> QED
      BY <1>2, <1>k, <2>1, <2>2, <2>3, SameLocal DEF Release
  <1>3. ASSUME NEW o \in Managed, Pause(o) PROVE Typed' /\ Locals'
    BY <1>3, <1>k, OrderUpdate, SameLocal DEF Pause
  <1>4. ASSUME NEW o \in Managed, Stop(o) PROVE Typed' /\ Locals'
    BY <1>4, <1>k, OrderUpdate, SameLocal DEF Stop, OrderStatuses
  <1>5. ASSUME NEW o \in Managed, Resume(o) PROVE Typed' /\ Locals'
    BY <1>5, <1>k, OrderUpdate, SameLocal DEF Resume, OrderStatuses
  <1> QED
    BY <1>1, <1>2, <1>3, <1>4, <1>5

(* A step that changes nothing.                                             *)
LEMMA TypedStutter ==
  ASSUME Typed, Locals, UNCHANGED vars
  PROVE  Typed' /\ Locals'
  BY SameLocal DEF Typed, vars, Kept

(* Variables have their types, and a call that holds an attempt holds one of*)
(* its own mode, in every reachable state.                                  *)
THEOREM TypedHolds == Spec => [](Typed /\ Locals)
  <1>1. Typed /\ Locals /\ [Next]_vars => Typed' /\ Locals'
    BY TypedStep, TypedAside, TypedStutter DEF Next
  <1> QED
    BY <1>1, TypedInit, PTL DEF Spec

-----------------------------------------------------------------------------
(* Capacity: the counters count the allocations, and never exceed the order. *)

USE FiniteAssumption

Held == Active \ {"committed"}
Capped == \A o \in Orders : Used(o) <= Quantity[o] + Allowance[o]
Counts == Capped /\ CountersInSync

(* What an allocation in a status adds to the counters of its order.        *)
HeldOne(s) == IF s \in Held THEN 1 ELSE 0
CommittedOne(s) == IF s = "committed" THEN 1 ELSE 0

(* AllocationsIn, of any function from allocations to statuses.             *)
In(f, o, T) == {b \in Allocations : OrderOf[b] = o /\ f[b] \in T}

(* One allocation changes status.                                           *)
Becomes(a, s) == alloc' = [alloc EXCEPT ![a] = s]

(* The allocations of an order can be counted.                              *)
LEMMA Counting ==
  ASSUME NEW o \in Orders, NEW f, NEW T
  PROVE  /\ IsFiniteSet(In(f, o, T))
         /\ Cardinality(In(f, o, T)) \in Nat
  <1>1. In(f, o, T) \subseteq Allocations
    BY DEF In
  <1> QED
    BY <1>1, FS_Subset, FS_CardinalityType

(* When one allocation changes status, a count changes by what it adds.     *)
LEMMA CountMoves ==
  ASSUME Typed,
         NEW a \in Allocations, NEW s, Becomes(a, s), NEW o \in Orders, NEW T
  PROVE  /\ OrderOf[a] # o \/ (s \in T <=> alloc[a] \in T) => In(alloc', o, T) = In(alloc, o, T)
         /\ OrderOf[a] = o /\ s \in T /\ alloc[a] \notin T =>
              Cardinality(In(alloc', o, T)) = Cardinality(In(alloc, o, T)) + 1
         /\ OrderOf[a] = o /\ s \notin T /\ alloc[a] \in T =>
              Cardinality(In(alloc', o, T)) = Cardinality(In(alloc, o, T)) - 1
  <1> DEFINE old == In(alloc, o, T)
             new == In(alloc', o, T)
  <1>1. IsFiniteSet(old)
    BY Counting
  <1>2. a \in old <=> OrderOf[a] = o /\ alloc[a] \in T
    BY DEF In
  <1>3. alloc'[a] = s /\ \A b \in Allocations \ {a} : alloc'[b] = alloc[b]
    BY DEF Becomes, Typed
  <1>4. CASE OrderOf[a] # o \/ (s \in T <=> alloc[a] \in T)
    <2>1. new = old
      BY <1>3, <1>4 DEF In
    <2> QED
      BY <1>4, <2>1
  <1>5. CASE OrderOf[a] = o /\ s \in T /\ alloc[a] \notin T
    <2>1. new = old \cup {a}
      BY <1>3, <1>5 DEF In
    <2> HIDE DEF old, new
    <2>2. Cardinality(new) = Cardinality(old) + 1
      BY <1>1, <1>2, <1>5, <2>1, FS_AddElement
    <2> QED
      BY <1>5, <2>2 DEF old, new
  <1>6. CASE OrderOf[a] = o /\ s \notin T /\ alloc[a] \in T
    <2>1. new = old \ {a}
      BY <1>3, <1>6 DEF In
    <2> HIDE DEF old, new
    <2>2. Cardinality(new) = Cardinality(old) - 1
      BY <1>1, <1>2, <1>6, <2>1, FS_RemoveElement
    <2> QED
      BY <1>6, <2>2 DEF old, new
  <1> QED
    BY <1>4, <1>5, <1>6

(* The same for the two counts of an order.                                *)
LEMMA HeldMoves ==
  ASSUME Typed,
         NEW a \in Allocations, NEW s, Becomes(a, s), NEW o \in Orders
  PROVE  Cardinality(In(alloc', o, Held))
           = Cardinality(In(alloc, o, Held))
             + (IF o = OrderOf[a] THEN HeldOne(s) - HeldOne(alloc[a]) ELSE 0)
  <1> DEFINE T == Held
  <1>1. Cardinality(In(alloc, o, T)) \in Nat
    BY Counting
  <1>2. CASE OrderOf[a] # o \/ (s \in T <=> alloc[a] \in T)
    <2>1. In(alloc', o, T) = In(alloc, o, T)
      BY <1>2, CountMoves
    <2> QED
      BY <1>1, <1>2, <2>1 DEF HeldOne
  <1>3. CASE OrderOf[a] = o /\ s \in T /\ alloc[a] \notin T
    <2>1. Cardinality(In(alloc', o, T)) = Cardinality(In(alloc, o, T)) + 1
      BY <1>3, CountMoves
    <2> QED
      BY <1>1, <1>3, <2>1 DEF HeldOne
  <1>4. CASE OrderOf[a] = o /\ s \notin T /\ alloc[a] \in T
    <2>1. Cardinality(In(alloc', o, T)) = Cardinality(In(alloc, o, T)) - 1
      BY <1>4, CountMoves
    <2> QED
      BY <1>1, <1>4, <2>1 DEF HeldOne
  <1> QED
    BY <1>2, <1>3, <1>4

(* The same of the allocations that are committed.                          *)
LEMMA CommittedMoves ==
  ASSUME Typed,
         NEW a \in Allocations, NEW s, Becomes(a, s), NEW o \in Orders
  PROVE  Cardinality(In(alloc', o, {"committed"}))
           = Cardinality(In(alloc, o, {"committed"}))
             + (IF o = OrderOf[a] THEN CommittedOne(s) - CommittedOne(alloc[a]) ELSE 0)
  <1> DEFINE T == {"committed"}
  <1>1. Cardinality(In(alloc, o, T)) \in Nat
    BY Counting
  <1>2. CASE OrderOf[a] # o \/ (s \in T <=> alloc[a] \in T)
    <2>1. In(alloc', o, T) = In(alloc, o, T)
      BY <1>2, CountMoves
    <2> QED
      BY <1>1, <1>2, <2>1 DEF CommittedOne
  <1>3. CASE OrderOf[a] = o /\ s \in T /\ alloc[a] \notin T
    <2>1. Cardinality(In(alloc', o, T)) = Cardinality(In(alloc, o, T)) + 1
      BY <1>3, CountMoves
    <2> QED
      BY <1>1, <1>3, <2>1 DEF CommittedOne
  <1>4. CASE OrderOf[a] = o /\ s \notin T /\ alloc[a] \in T
    <2>1. Cardinality(In(alloc', o, T)) = Cardinality(In(alloc, o, T)) - 1
      BY <1>4, CountMoves
    <2> QED
      BY <1>1, <1>4, <2>1 DEF CommittedOne
  <1> QED
    BY <1>2, <1>3, <1>4

(* CountersInSync, in terms of In.                                          *)
LEMMA CountsAre ==
  Counts <=> /\ Capped
             /\ \A o \in Orders :
                  /\ order[o].reserved = Cardinality(In(alloc, o, Held))
                  /\ order[o].fulfilled = Cardinality(In(alloc, o, {"committed"}))
  BY DEF Counts, CountersInSync, AllocationsIn, In, Held

(* Counters that do not move, with allocations that do not either.          *)
LEMMA CountsStay ==
  ASSUME Counts, alloc' = alloc,
         \A o \in Orders : /\ order'[o].reserved = order[o].reserved
                           /\ order'[o].fulfilled = order[o].fulfilled
  PROVE  Counts'
  <1>1. Capped'
    BY DEF Counts, Capped, Used
  <1>2. ASSUME NEW o \in Orders, NEW T PROVE In(alloc', o, T) = In(alloc, o, T)
    BY DEF In
  <1>3. ASSUME NEW o \in Orders
        PROVE  /\ order'[o].reserved = Cardinality(In(alloc', o, Held))
               /\ order'[o].fulfilled = Cardinality(In(alloc', o, {"committed"}))
    BY <1>2, CountsAre
  <1>4. CountersInSync'
    BY <1>3 DEF CountersInSync, Held, AllocationsIn, In
  <1> QED
    BY <1>1, <1>4 DEF Counts

(* The counters of one order shift, within what the order may take.         *)
Shifts(o, r, f) ==
  /\ \A q \in Orders \ {o} : order'[q] = order[q]
  /\ order'[o].reserved = order[o].reserved + r
  /\ order'[o].fulfilled = order[o].fulfilled + f
  /\ order'[o].reserved + order'[o].fulfilled <= Quantity[o] + Allowance[o]

(* Counters that move with one allocation of an order.                      *)
LEMMA CountsMove ==
  ASSUME Typed, Counts, NEW a \in Allocations, NEW s, Becomes(a, s),
         Shifts(OrderOf[a], HeldOne(s) - HeldOne(alloc[a]), CommittedOne(s) - CommittedOne(alloc[a]))
  PROVE  Counts'
  <1> USE DEF Shifts
  <1>1. Capped'
    BY DEF Counts, Capped, Used
  <1>2. ASSUME NEW o \in Orders
        PROVE  /\ order'[o].reserved = Cardinality(In(alloc', o, Held))
               /\ order'[o].fulfilled = Cardinality(In(alloc', o, {"committed"}))
    <2>1. /\ order[o].reserved = Cardinality(In(alloc, o, Held))
          /\ order[o].fulfilled = Cardinality(In(alloc, o, {"committed"}))
      BY CountsAre
    <2>2. /\ Cardinality(In(alloc, o, Held)) \in Nat
          /\ Cardinality(In(alloc, o, {"committed"})) \in Nat
      BY Counting
    <2>3. /\ Cardinality(In(alloc', o, Held))
               = Cardinality(In(alloc, o, Held))
                 + (IF o = OrderOf[a] THEN HeldOne(s) - HeldOne(alloc[a]) ELSE 0)
          /\ Cardinality(In(alloc', o, {"committed"}))
               = Cardinality(In(alloc, o, {"committed"}))
                 + (IF o = OrderOf[a] THEN CommittedOne(s) - CommittedOne(alloc[a]) ELSE 0)
      BY HeldMoves, CommittedMoves
    <2>4. HeldOne(s) \in Int /\ HeldOne(alloc[a]) \in Int
          /\ CommittedOne(s) \in Int /\ CommittedOne(alloc[a]) \in Int
      BY DEF HeldOne, CommittedOne
    <2>5. CASE o # OrderOf[a]
      BY <2>1, <2>2, <2>3, <2>5
    <2>6. CASE o = OrderOf[a]
      BY <2>1, <2>2, <2>3, <2>4, <2>6
    <2> QED
      BY <2>5, <2>6
  <1>3. CountersInSync'
    BY <1>2 DEF CountersInSync, Held, AllocationsIn, In
  <1> QED
    BY <1>1, <1>3 DEF Counts

(* No allocation counts at first.                                           *)
LEMMA CountsInit == Init => Counts
  <1> SUFFICES ASSUME Init PROVE Counts
    OBVIOUS
  <1>1. Capped
    BY DEF Init, Capped, Used
  <1>2. ASSUME NEW o \in Orders
        PROVE  /\ AllocationsIn(o, Active \ {"committed"}) = {}
               /\ AllocationsIn(o, {"committed"}) = {}
    BY DEF Init, AllocationsIn, Active
  <1> QED
    BY <1>1, <1>2, FS_EmptySet DEF Init, Counts, CountersInSync

(* Counters are natural numbers.                                            *)
LEMMA OrderCounters ==
  ASSUME Typed, NEW o \in Orders
  PROVE  order[o].reserved \in Nat /\ order[o].fulfilled \in Nat
  BY DEF Typed, OrderRecords

(* An allocation stays reserved, delivering or in review.                   *)
LEMMA CountsSame ==
  ASSUME Typed, Counts, NEW a \in Allocations, NEW s \in Held, Becomes(a, s),
         alloc[a] \in Held, order' = order
  PROVE  Counts'
  <1>1. Used(OrderOf[a]) <= Quantity[OrderOf[a]] + Allowance[OrderOf[a]]
    BY DEF Counts, Capped
  <1>2. order[OrderOf[a]].reserved \in Nat /\ order[OrderOf[a]].fulfilled \in Nat
    BY OrderCounters
  <1>3. /\ HeldOne(s) - HeldOne(alloc[a]) = 0
        /\ CommittedOne(s) - CommittedOne(alloc[a]) = 0
    BY DEF HeldOne, CommittedOne, Held
  <1>4. Shifts(OrderOf[a], HeldOne(s) - HeldOne(alloc[a]), CommittedOne(s) - CommittedOne(alloc[a]))
    BY <1>1, <1>2, <1>3 DEF Shifts, Used
  <1> QED
    BY <1>4, CountsMove

(* A reservation takes one of the room that is left.                        *)
LEMMA CountsUp ==
  ASSUME Typed, Counts, NEW a \in Allocations, Becomes(a, "reserved"),
         alloc[a] = "shadow", Room(OrderOf[a]),
         order' = [order EXCEPT ![OrderOf[a]].reserved = @ + 1]
  PROVE  Counts'
  <1>1. Used(OrderOf[a]) + 1 <= Quantity[OrderOf[a]] + Allowance[OrderOf[a]]
    BY OrderCounters DEF Room, Used
  <1>2. order[OrderOf[a]].reserved \in Nat /\ order[OrderOf[a]].fulfilled \in Nat
    BY OrderCounters
  <1>3. /\ HeldOne("reserved") = 1 /\ HeldOne(alloc[a]) = 0
        /\ CommittedOne("reserved") = 0 /\ CommittedOne(alloc[a]) = 0
    BY DEF HeldOne, CommittedOne, Held, Active
  <1>4. /\ order'[OrderOf[a]].reserved = order[OrderOf[a]].reserved + 1
        /\ order'[OrderOf[a]].fulfilled = order[OrderOf[a]].fulfilled
        /\ \A q \in Orders \ {OrderOf[a]} : order'[q] = order[q]
    BY DEF Typed, OrderRecords
  <1>5. Shifts(OrderOf[a], HeldOne("reserved") - HeldOne(alloc[a]),
                           CommittedOne("reserved") - CommittedOne(alloc[a]))
    BY <1>1, <1>2, <1>3, <1>4 DEF Shifts, Used
  <1> QED
    BY <1>5, CountsMove

(* A release gives one back.                                                *)
LEMMA CountsDown ==
  ASSUME Typed, Counts, NEW a \in Allocations, Becomes(a, "released"), alloc[a] \in Held,
         order' = [order EXCEPT ![OrderOf[a]].reserved = @ - 1]
  PROVE  Counts'
  <1>1. Used(OrderOf[a]) <= Quantity[OrderOf[a]] + Allowance[OrderOf[a]]
    BY DEF Counts, Capped
  <1>2. order[OrderOf[a]].reserved \in Nat /\ order[OrderOf[a]].fulfilled \in Nat
    BY OrderCounters
  <1>3. /\ HeldOne("released") = 0 /\ HeldOne(alloc[a]) = 1
        /\ CommittedOne("released") = 0 /\ CommittedOne(alloc[a]) = 0
    BY DEF HeldOne, CommittedOne, Held, Active
  <1>4. /\ order'[OrderOf[a]].reserved = order[OrderOf[a]].reserved - 1
        /\ order'[OrderOf[a]].fulfilled = order[OrderOf[a]].fulfilled
        /\ \A q \in Orders \ {OrderOf[a]} : order'[q] = order[q]
    BY DEF Typed, OrderRecords
  <1>5. Shifts(OrderOf[a], HeldOne("released") - HeldOne(alloc[a]),
                           CommittedOne("released") - CommittedOne(alloc[a]))
    BY <1>1, <1>2, <1>3, <1>4 DEF Shifts, Used
  <1> QED
    BY <1>5, CountsMove

(* A commit turns a reserved one into a fulfilled one.                      *)
LEMMA CountsOver ==
  ASSUME Typed, Counts, NEW a \in Allocations, Becomes(a, "committed"), alloc[a] \in Held,
         order' = [order EXCEPT ![OrderOf[a]].reserved = @ - 1, ![OrderOf[a]].fulfilled = @ + 1]
  PROVE  Counts'
  <1>1. Used(OrderOf[a]) <= Quantity[OrderOf[a]] + Allowance[OrderOf[a]]
    BY DEF Counts, Capped
  <1>2. order[OrderOf[a]].reserved \in Nat /\ order[OrderOf[a]].fulfilled \in Nat
    BY OrderCounters
  <1>3. /\ HeldOne("committed") = 0 /\ HeldOne(alloc[a]) = 1
        /\ CommittedOne("committed") = 1 /\ CommittedOne(alloc[a]) = 0
    BY DEF HeldOne, CommittedOne, Held, Active
  <1>4. /\ order'[OrderOf[a]].reserved = order[OrderOf[a]].reserved - 1
        /\ order'[OrderOf[a]].fulfilled = order[OrderOf[a]].fulfilled + 1
        /\ \A q \in Orders \ {OrderOf[a]} : order'[q] = order[q]
    BY DEF Typed, OrderRecords
  <1>5. order'[OrderOf[a]].reserved + order'[OrderOf[a]].fulfilled
          <= Quantity[OrderOf[a]] + Allowance[OrderOf[a]]
    BY <1>1, <1>2, <1>4 DEF Used
  <1>6. /\ order'[OrderOf[a]].reserved
               = order[OrderOf[a]].reserved + (HeldOne("committed") - HeldOne(alloc[a]))
        /\ order'[OrderOf[a]].fulfilled
               = order[OrderOf[a]].fulfilled + (CommittedOne("committed") - CommittedOne(alloc[a]))
    BY <1>2, <1>3, <1>4
  <1>7. Shifts(OrderOf[a], HeldOne("committed") - HeldOne(alloc[a]),
                           CommittedOne("committed") - CommittedOne(alloc[a]))
    BY <1>4, <1>5, <1>6, Zenon DEF Shifts
  <1> QED
    BY <1>7, CountsMove

(* An allocation whose attempt is undone goes back within what is held.     *)
LEMMA CountsBack ==
  ASSUME Typed, Counts, NEW a \in Allocations, Becomes(a, Back(a)), order' = order
  PROVE  Counts'
  <1>1. CASE alloc[a] = "delivering"
    <2>1. Back(a) = "reserved" /\ Back(a) \in Held /\ alloc[a] \in Held
      BY <1>1 DEF Back, Held, Active
    <2> QED
      BY <2>1, CountsSame
  <1>2. CASE alloc[a] # "delivering"
    <2>1. alloc' = alloc
      BY <1>2 DEF Becomes, Back, Typed
    <2> QED
      BY <2>1, CountsStay
  <1> QED
    BY <1>1, <1>2

(* No step of a call brings the counters out of step.                       *)
LEMMA CountsStep ==
  ASSUME Typed, Locals, Counts, NEW p \in Callers, Step(p)
  PROVE  Counts'
  <1>1. ASSUME UNCHANGED <<order, alloc>> PROVE Counts'
    BY <1>1, CountsStay
  <1>2. ASSUME Reserve(p) PROVE Counts'
    <2>1. PICK a \in Allocations : a = caller[p].what
      BY <1>2 DEF Reserve, Locals, Local
    <2>2. CASE alloc' = alloc /\ order' = order
      BY <1>1, <2>2
    <2>3. CASE ~(alloc' = alloc /\ order' = order)
      <3>1. /\ alloc[a] = "shadow" /\ Room(OrderOf[a]) /\ Becomes(a, "reserved")
            /\ order' = [order EXCEPT ![OrderOf[a]].reserved = @ + 1]
        BY <1>2, <2>1, <2>3 DEF Reserve, Becomes
      <3> QED
        BY <3>1, CountsUp
    <2> QED
      BY <2>2, <2>3
  <1>3. ASSUME Claim(p) PROVE Counts'
    <2>1. PICK i \in Instructions : i = caller[p].what
      BY <1>3 DEF Claim, Locals, Local
    <2>2. PICK a \in Allocations : a = For[i]
      OBVIOUS
    <2>3. CASE alloc' = alloc
      BY <1>1, <1>3, <2>3 DEF Claim
    <2>4. CASE alloc' # alloc
      <3>1. Becomes(a, "delivering") /\ alloc[a] \in Held /\ "delivering" \in Held /\ order' = order
        BY <1>3, <2>1, <2>2, <2>4 DEF Claim, Becomes, Executable, Held, Active
      <3> QED
        BY <3>1, CountsSame
    <2> QED
      BY <2>3, <2>4
  <1>4. ASSUME Finalize(p) \/ Cancel(p) PROVE Counts'
    <2>1. PICK i \in Instructions : i = caller[p].what
      BY <1>4 DEF Finalize, Cancel, Locals, Local, At, Working
    <2>2. PICK a \in Allocations : a = For[i]
      OBVIOUS
    <2>3. order' = order /\ (alloc' = alloc \/ Becomes(a, Back(a)))
      BY <1>4, <2>1, <2>2 DEF Finalize, Cancel, Becomes
    <2> QED
      BY <1>1, <2>3, CountsBack
  <1>5. ASSUME Commit(p) PROVE Counts'
    <2>1. PICK i \in Instructions : i = caller[p].what
      BY <1>5 DEF Commit, Locals, Local, At, Working
    <2>2. PICK a \in Allocations : a = For[i]
      OBVIOUS
    <2>3. CASE alloc' = alloc /\ order' = order
      BY <1>1, <2>3
    <2>4. CASE ~(alloc' = alloc /\ order' = order)
      <3>1. Missing(i) = {} /\ Settles(a)
        BY <1>5, <2>1, <2>2, <2>4 DEF Commit
      <3>2. /\ Becomes(a, "committed") /\ alloc[a] \in Held
            /\ order' = [order EXCEPT ![OrderOf[a]].reserved = @ - 1, ![OrderOf[a]].fulfilled = @ + 1]
        BY <1>5, <2>1, <2>2, <2>4, <3>1
        DEF Commit, Becomes, Settles, Executable, Held, Active
      <3> QED
        BY <3>2, CountsOver
    <2> QED
      BY <2>3, <2>4
  <1>6. ASSUME Doubt(p) PROVE Counts'
    <2>1. PICK i \in Instructions : i = caller[p].what
      BY <1>6 DEF Doubt, Locals, Local, At, Working
    <2>2. PICK a \in Allocations : a = For[i]
      OBVIOUS
    <2>3. CASE alloc' = alloc
      BY <1>1, <1>6, <2>3 DEF Doubt
    <2>4. CASE alloc' # alloc
      <3>1. /\ Becomes(a, "review_required") /\ alloc[a] \in Held
            /\ "review_required" \in Held /\ order' = order
        BY <1>6, <2>1, <2>2, <2>4 DEF Doubt, Becomes, Executable, Held, Active
      <3> QED
        BY <3>1, CountsSame
    <2> QED
      BY <2>3, <2>4
  <1>7. CASE UNCHANGED <<order, alloc>>
    BY <1>1, <1>7
  <1> QED
    BY <1>2, <1>3, <1>4, <1>5, <1>6, <1>7
    DEF Step, CheckReserve, Join, Read, Activate, Boundary, Send, Fail, Crash

(* Nor does an operator who releases, or an administrator of the order.     *)
LEMMA CountsAside ==
  ASSUME Typed, Counts,
         \/ \E a \in Allocations : SafeRelease(a) \/ Release(a)
         \/ \E o \in Managed : Pause(o) \/ Stop(o) \/ Resume(o)
  PROVE  Counts'
  <1>1. ASSUME NEW a \in Allocations, SafeRelease(a) \/ Release(a) PROVE Counts'
    <2>1. /\ Becomes(a, "released") /\ alloc[a] \in Held
          /\ order' = [order EXCEPT ![OrderOf[a]].reserved = @ - 1]
      BY <1>1 DEF SafeRelease, Release, MayRelease, Becomes, Executable, Held, Active
    <2> QED
      BY <2>1, CountsDown
  <1>2. ASSUME NEW o \in Managed, Pause(o) \/ Stop(o) \/ Resume(o) PROVE Counts'
    <2>1. /\ alloc' = alloc
          /\ \A q \in Orders : /\ order'[q].reserved = order[q].reserved
                               /\ order'[q].fulfilled = order[q].fulfilled
      <3>1. order \in [Orders -> OrderRecords] /\ o \in Orders
        BY DEF Typed
      <3>2. CASE Pause(o)
        BY <3>1, <3>2 DEF Pause, OrderRecords
      <3>3. CASE Stop(o)
        BY <3>1, <3>3 DEF Stop, OrderRecords
      <3>4. CASE Resume(o)
        BY <3>1, <3>4 DEF Resume, OrderRecords
      <3> QED
        BY <1>2, <3>2, <3>3, <3>4
    <2> QED
      BY <2>1, CountsStay
  <1> QED
    BY <1>1, <1>2

(* The counters agree with the allocations, within what the order may take. *)
THEOREM CountsHold == Spec => [](Typed /\ Locals /\ Counts)
  <1>1. Typed /\ Locals /\ Counts /\ [Next]_vars => Typed' /\ Locals' /\ Counts'
    <2> SUFFICES ASSUME Typed, Locals, Counts, [Next]_vars PROVE Typed' /\ Locals' /\ Counts'
      OBVIOUS
    <2>1. CASE \E p \in Callers : Step(p)
      BY <2>1, TypedStep, CountsStep
    <2>2. CASE \/ \E a \in Allocations : SafeRelease(a) \/ Release(a)
               \/ \E o \in Managed : Pause(o) \/ Stop(o) \/ Resume(o)
      BY <2>2, TypedAside, CountsAside
    <2>3. CASE UNCHANGED vars
      <3>1. alloc' = alloc /\ order' = order
        BY <2>3 DEF vars
      <3> QED
        BY <2>3, <3>1, TypedStutter, CountsStay
    <2> QED
      BY <2>1, <2>2, <2>3 DEF Next
  <1> QED
    BY <1>1, TypedInit, CountsInit, PTL DEF Spec

(* TypeOK: every variable holds a value of its type in every reachable      *)
(* state, for any orders, allocations, instructions and calls.              *)
THEOREM TypeCorrect == Spec => []TypeOK
  <1>1. Typed /\ Counts => TypeOK
    <2> SUFFICES ASSUME Typed, Counts PROVE TypeOK
      OBVIOUS
    <2>1. ASSUME NEW o \in Orders
          PROVE  order[o] \in [reserved : 0..(Quantity[o] + Allowance[o]),
                               fulfilled : 0..(Quantity[o] + Allowance[o]),
                               status : {"active", "paused", "closed"}, held : BOOLEAN]
      <3>1. order[o] \in OrderRecords /\ Used(o) <= Quantity[o] + Allowance[o]
        BY DEF Typed, Counts, Capped
      <3>2. order[o].reserved \in Nat /\ order[o].fulfilled \in Nat
        BY OrderCounters
      <3>3. /\ order[o].reserved \in 0..(Quantity[o] + Allowance[o])
            /\ order[o].fulfilled \in 0..(Quantity[o] + Allowance[o])
        BY <3>1, <3>2 DEF Used
      <3> QED
        BY <3>1, <3>3 DEF OrderRecords, OrderStatuses
    <2>2. \A i \in Instructions : attempts[i] \in Seq([mode : Modes, status : Open \cup Ended])
      BY DEF Typed, AttemptRecords
    <2> QED
      BY <2>1, <2>2 DEF Typed, TypeOK, AllocStatuses, InstrStatuses, CallerRecords
  <1> QED
    BY <1>1, CountsHold, PTL

(* CountersInSync: the reserved and fulfilled counters of every order are   *)
(* the numbers of its held and its committed allocations, always.           *)
THEOREM CountersAgree == Spec => []CountersInSync
  <1>1. Counts => CountersInSync
    BY DEF Counts
  <1> QED
    BY <1>1, CountsHold, PTL

(* WithinCapacity: no race of reservations, releases and commits takes more *)
(* active allocations of an order than its quantity and its allowance.      *)
THEOREM CapacityHolds == Spec => []WithinCapacity
  <1>1. Typed /\ Counts => WithinCapacity
    <2> SUFFICES ASSUME Typed, Counts, NEW o \in Orders
                 PROVE  Cardinality(AllocationsIn(o, Active)) <= Quantity[o] + Allowance[o]
      BY DEF WithinCapacity
    <2> DEFINE held == In(alloc, o, Held)
               paid == In(alloc, o, {"committed"})
    <2>1. AllocationsIn(o, Active) = held \cup paid
      BY DEF AllocationsIn, In, Held, Active
    <2>2. held \cap paid = {}
      BY DEF In, Held
    <2>3. IsFiniteSet(held) /\ IsFiniteSet(paid)
      BY Counting
    <2>4. /\ order[o].reserved = Cardinality(held) /\ order[o].fulfilled = Cardinality(paid)
          /\ order[o].reserved + order[o].fulfilled <= Quantity[o] + Allowance[o]
      BY CountsAre DEF Capped, Used
    <2>5. order[o].reserved \in Nat /\ order[o].fulfilled \in Nat
      BY OrderCounters
    <2> HIDE DEF held, paid
    <2>6. Cardinality(held \cup paid) = Cardinality(held) + Cardinality(paid) - Cardinality({})
      BY <2>2, <2>3, FS_Union
    <2>7. Cardinality({}) = 0
      BY FS_EmptySet
    <2> QED
      BY <2>1, <2>4, <2>5, <2>6, <2>7
  <1> QED
    BY <1>1, CountsHold, PTL

=============================================================================
