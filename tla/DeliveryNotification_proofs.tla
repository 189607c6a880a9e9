-------------------- MODULE DeliveryNotification_proofs --------------------
(***************************************************************************)
(* What holds of notifications for any walks, requests, addresses, faults  *)
(* and changes.                                                            *)
(***************************************************************************)
EXTENDS DeliveryNotification, TLAPS

USE NotificationAssumption

NoteRecords == [status : Statuses, evidence : SUBSET Channels, age : Ages,
                attempts : 0 .. MaxAttempt]
PrefRecords == [enabled : BOOLEAN, recipient : Mailboxes \cup {Nobody}, dated : BOOLEAN,
                revision : Nat]
RequestRecords == [edit : Edits, expected : Nat, open : BOOLEAN, stored : Results,
                   answer : Results, applied : 0 .. 2]
ScannerRecords == [pc : Pcs, age : Ages, to : Mailboxes \cup {Nobody}, need : SUBSET Channels,
                   late : BOOLEAN, result : {"pending", "sent", "skipped", "failed"},
                   fresh : BOOLEAN]

TypedSettings == /\ pref \in PrefRecords /\ request \in [Requests -> RequestRecords]
                 /\ pref.enabled => pref.recipient # Nobody /\ pref.dated
TypedReceipts == armed \subseteq Destinations /\ done \in [Channels -> {"open", "before", "after"}]
TypedScanner == scanner \in [Scanners -> ScannerRecords]
TypedBounds == faults \in 0 .. Faults /\ changes \in 0 .. Changes

(* The provider knows one key at most, and has mailed it.                   *)
OneKey == \/ provider.taken = {} /\ provider.mails = 0
          \/ \E m : m.key = 0 /\ provider.taken = {m} /\ provider.mails = 1

(* A request is as old as its form; what was applied is stored, what is     *)
(* stored is answered, and what conflicts once conflicts from then on.      *)
Honest(q) ==
  /\ request[q].expected <= pref.revision /\ request[q].stored # "conflict"
  /\ request[q].applied = IF request[q].stored = "ok" THEN 1 ELSE 0
  /\ request[q].answer \in {"none", "conflict", request[q].stored}
  /\ request[q].answer = "conflict" =>
       request[q].stored = "none" /\ request[q].expected < pref.revision

(* What was seen after the claim still holds unless something changed.      *)
Fresh(s) ==
  At(s, "send") /\ scanner[s].fresh =>
    Qualified /\ Needed \subseteq note.evidence /\ scanner[s].to = pref.recipient

Typed == note \in NoteRecords /\ TypedSettings /\ TypedReceipts /\ TypedScanner /\ TypedBounds
Told == \A q \in Requests : Honest(q)
Seen == \A s \in Scanners : Fresh(s)
Inv == Typed /\ OneKey /\ Told /\ Seen

-----------------------------------------------------------------------------
(* One walk moves on, to locals of its type.                                *)
Moves(s, r) == scanner' = [scanner EXCEPT ![s] = r]

(* It keeps the type, and what the other walks saw.                         *)
LEMMA MovesFacts ==
  ASSUME TypedScanner, NEW s \in Scanners, NEW r \in ScannerRecords, Moves(s, r)
  PROVE  /\ TypedScanner' /\ scanner'[s] = r
         /\ \A t \in Scanners \ {s} : scanner'[t] = scanner[t]
  BY DEF TypedScanner, Moves

(* Moving on to another place in the walk.                                *)
LEMMA GoFacts ==
  ASSUME TypedScanner, NEW s \in Scanners, NEW pc \in Pcs, Go(s, pc)
  PROVE  /\ TypedScanner' /\ scanner'[s].pc = pc
         /\ scanner'[s].to = scanner[s].to /\ scanner'[s].fresh = scanner[s].fresh
         /\ \A t \in Scanners \ {s} : scanner'[t] = scanner[t]
  <1> DEFINE r == [scanner[s] EXCEPT !.pc = pc]
  <1>1. scanner[s] \in ScannerRecords
    BY DEF TypedScanner
  <1>2. r \in ScannerRecords /\ r.pc = pc /\ r.to = scanner[s].to /\ r.fresh = scanner[s].fresh
    BY <1>1 DEF ScannerRecords
  <1>3. Moves(s, r)
    BY DEF Moves, Go
  <1> HIDE DEF r
  <1> QED
    BY <1>2, <1>3, MovesFacts

(* Time starts at zero.                                                     *)
LEMMA ShapeFacts == 0 \in Ages /\ Idle \in ScannerRecords
  BY DEF Ages, Idle, ScannerRecords, Pcs

(* A walk at rest.                                                        *)
LEMMA IdleType == Idle \in ScannerRecords /\ Idle.pc = "idle"
  BY DEF Idle, ScannerRecords, Pcs, Ages

(* Ending the walk.                                                       *)
LEMMA DoneFacts ==
  ASSUME TypedScanner, NEW s \in Scanners, Done(s)
  PROVE  /\ TypedScanner' /\ scanner'[s].pc = "idle"
         /\ \A t \in Scanners \ {s} : scanner'[t] = scanner[t]
  <1>1. Moves(s, Idle)
    BY DEF Moves, Done
  <1> QED
    BY <1>1, IdleType, MovesFacts

(* A step of a walk that sees nothing new keeps what the walks have seen.   *)
LEMMA SeenKept ==
  ASSUME Seen, UNCHANGED <<pref, armed, done>>, note.evidence \subseteq note'.evidence,
         \A s \in Scanners : scanner'[s] = scanner[s] \/ scanner'[s].pc # "send"
  PROVE  Seen'
  <1> SUFFICES ASSUME NEW s \in Scanners, scanner'[s].pc = "send", scanner'[s].fresh
               PROVE  (Qualified /\ Needed \subseteq note.evidence /\ scanner[s].to = pref.recipient)'
    BY DEF Seen, Fresh, At
  <1>1. scanner'[s] = scanner[s]
    OBVIOUS
  <1>2. Qualified /\ Needed \subseteq note.evidence /\ scanner[s].to = pref.recipient
    BY <1>1 DEF Seen, Fresh, At
  <1> QED
    BY <1>1, <1>2 DEF Qualified, Wanted, Armed, Needed

(* What leaves settings and requests alone keeps what requests were told. *)
LEMMA ToldKept ==
  ASSUME Told, UNCHANGED <<pref, request>>
  PROVE  Told'
  BY DEF Told, Honest

(* What leaves the provider alone.                                        *)
LEMMA OneKeyKept ==
  ASSUME OneKey, UNCHANGED provider
  PROVE  OneKey'
  BY DEF OneKey

(* Closing a row.                                                           *)
Closes == note' = Closed

(* A closed row keeps its evidence.                                       *)
LEMMA ClosedType ==
  ASSUME note \in NoteRecords, Closes
  PROVE  note' \in NoteRecords /\ note'.evidence = note.evidence
  BY DEF Closes, Closed, NoteRecords, Statuses

(* The walks.                                                               *)
LEMMA WalkStep ==
  ASSUME Inv, NEW s \in Scanners,
         \/ StartWalk(s) \/ Consider(s) \/ Decide(s) \/ Record(s) \/ Confirm(s) \/ Close(s)
         \/ Claim(s) \/ Mark(s) \/ Crash(s)
  PROVE  Inv'
  <1>t. /\ note \in NoteRecords /\ TypedSettings /\ TypedReceipts /\ TypedScanner /\ TypedBounds
        /\ OneKey /\ Told /\ Seen
    BY DEF Inv, Typed
  <1>n. /\ note.status \in Statuses /\ note.evidence \subseteq Channels
        /\ note.age \in Ages /\ note.attempts \in 0 .. MaxAttempt
    BY <1>t DEF NoteRecords
  <1>s. scanner[s] \in ScannerRecords
    BY <1>t DEF TypedScanner
  <1>0. ASSUME UNCHANGED <<settings, receipts, provider>>, TypedBounds',
               note' \in NoteRecords, note.evidence \subseteq note'.evidence, TypedScanner',
               scanner'[s].pc # "send",
               \A t \in Scanners \ {s} : scanner'[t] = scanner[t]
        PROVE  Inv'
    <2>1. TypedSettings' /\ TypedReceipts'
      BY <1>0, <1>t DEF TypedSettings, TypedReceipts, settings, receipts
    <2>2. Seen'
      BY <1>0, <1>t, SeenKept DEF settings, receipts
    <2> QED
      BY <1>0, <1>t, <2>1, <2>2, ToldKept, OneKeyKept DEF Inv, Typed, settings
  <1>b. UNCHANGED bounds => TypedBounds'
    BY <1>t DEF TypedBounds, bounds
  <1>1. CASE StartWalk(s)
    <2>1. UNCHANGED <<note, settings, receipts, provider, bounds>> /\ Go(s, "page")
      BY <1>1 DEF StartWalk
    <2> QED
      BY <1>0, <1>b, <2>1, <1>t, GoFacts DEF Pcs
  <1>2. CASE Consider(s)
    <2>1. /\ UNCHANGED <<settings, receipts, provider, bounds>>
          /\ Closes \/ note' = note
          /\ Go(s, "decide") \/ Done(s)
      BY <1>2 DEF Consider, Closes
    <2>2. note' \in NoteRecords /\ note.evidence \subseteq note'.evidence
      BY <2>1, <1>t, ClosedType
    <2>3. CASE Go(s, "decide")
      BY <1>0, <1>b, <2>1, <2>2, <2>3, <1>t, GoFacts DEF Pcs
    <2>4. CASE Done(s)
      BY <1>0, <1>b, <2>1, <2>2, <2>4, <1>t, DoneFacts
    <2> QED
      BY <2>1, <2>3, <2>4
  <1>3. CASE Decide(s)
    <2> DEFINE r == [scanner[s] EXCEPT !.pc = "record", !.to = pref.recipient,
                                       !.need = Needed, !.late = TRUE]
    <2>1. UNCHANGED <<settings, receipts, provider, bounds>> /\ (Closes \/ note' = note)
      BY <1>3 DEF Decide, Closes
    <2>2. note' \in NoteRecords /\ note.evidence \subseteq note'.evidence
      BY <2>1, <1>t, ClosedType
    <2>3. CASE Done(s)
      BY <1>0, <1>b, <2>1, <2>2, <2>3, <1>t, DoneFacts
    <2>4. CASE ~Done(s)
      <3>1. Moves(s, r)
        BY <1>3, <2>4 DEF Decide, Moves
      <3>2. r \in ScannerRecords /\ r.pc = "record"
        BY <1>s, <1>t, ShapeFacts DEF ScannerRecords, Pcs, Needed, TypedSettings, PrefRecords
      <3> HIDE DEF r
      <3> QED
        BY <1>0, <1>b, <2>1, <2>2, <3>1, <3>2, <1>t, MovesFacts
    <2> QED
      BY <2>3, <2>4
  <1>4. CASE Record(s)
    <2> DEFINE r == [scanner[s] EXCEPT !.pc = "confirm", !.need = {}]
    <2>1. UNCHANGED <<settings, receipts, provider, bounds>>
      BY <1>4 DEF Record
    <2>2. note' \in NoteRecords /\ note.evidence \subseteq note'.evidence
      BY <1>4, <1>n, <1>s, <1>t DEF Record, NoteRecords, ScannerRecords, Statuses
    <2>3. CASE Done(s)
      BY <1>0, <1>b, <2>1, <2>2, <2>3, <1>t, DoneFacts
    <2>4. CASE ~Done(s)
      <3>1. Moves(s, r)
        BY <1>4, <2>4 DEF Record, Moves
      <3>2. r \in ScannerRecords /\ r.pc = "confirm"
        BY <1>s, ShapeFacts DEF ScannerRecords, Pcs
      <3> HIDE DEF r
      <3> QED
        BY <1>0, <1>b, <2>1, <2>2, <3>1, <3>2, <1>t, MovesFacts
    <2> QED
      BY <2>3, <2>4
  <1>5. CASE Confirm(s)
    <2> DEFINE r == [Idle EXCEPT !.pc = "close"]
    <2>1. UNCHANGED <<note, settings, receipts, provider, bounds>>
      BY <1>5 DEF Confirm
    <2>2. Go(s, "claim") \/ Moves(s, r) \/ Done(s)
      BY <1>5 DEF Confirm, Moves
    <2>3. r \in ScannerRecords /\ r.pc = "close"
      BY ShapeFacts DEF ScannerRecords, Pcs
    <2> HIDE DEF r
    <2>4. CASE Go(s, "claim")
      BY <1>0, <1>b, <2>1, <2>4, <1>t, GoFacts DEF Pcs
    <2>5. CASE Done(s)
      BY <1>0, <1>b, <2>1, <2>5, <1>t, DoneFacts
    <2>6. CASE Moves(s, r)
      BY <1>0, <1>b, <2>1, <2>3, <2>6, <1>t, MovesFacts
    <2> QED
      BY <2>2, <2>4, <2>5, <2>6
  <1>6. CASE Close(s)
    <2>1. UNCHANGED <<settings, receipts, provider, bounds>> /\ Closes /\ Done(s)
      BY <1>6 DEF Close, Closes
    <2> QED
      BY <1>0, <1>b, <2>1, <1>t, ClosedType, DoneFacts
  <1>7. CASE Claim(s)
    <2> DEFINE r == [scanner[s] EXCEPT !.pc = "reconfirm", !.age = 0, !.fresh = TRUE]
    <2>1. UNCHANGED <<settings, receipts, provider, bounds>>
      BY <1>7 DEF Claim
    <2>2. CASE Done(s) /\ UNCHANGED note
      BY <1>0, <1>b, <2>1, <2>2, <1>t, DoneFacts
    <2>3. CASE ~(Done(s) /\ UNCHANGED note)
      <3>1. /\ Moves(s, r)
            /\ note' = [note EXCEPT !.status = "sending", !.age = scanner[s].age,
                                    !.attempts = Min2(@ + 1, MaxAttempt)]
        BY <1>7, <2>3 DEF Claim, Moves
      <3>2. r \in ScannerRecords /\ r.pc = "reconfirm"
        BY <1>s, ShapeFacts DEF ScannerRecords, Pcs
      <3>3. note' \in NoteRecords /\ note'.evidence = note.evidence
        <4>1. Min2(note.attempts + 1, MaxAttempt) \in 0 .. MaxAttempt
          BY <1>n DEF Min2, MaxAttempt
        <4>2. scanner[s].age \in Ages /\ "sending" \in Statuses
          BY <1>s DEF ScannerRecords, Statuses
        <4> HIDE DEF r
        <4> QED
          BY <1>n, <1>t, <3>1, <4>1, <4>2 DEF NoteRecords
      <3> HIDE DEF r
      <3> QED
        BY <1>0, <1>b, <2>1, <3>1, <3>2, <3>3, <1>t, MovesFacts
    <2> QED
      BY <2>2, <2>3
  <1>8. CASE Mark(s)
    <2>1. UNCHANGED <<settings, receipts, provider, bounds>> /\ Done(s)
      BY <1>8 DEF Mark
    <2>2. note' \in NoteRecords /\ note'.evidence = note.evidence
      BY <1>8, <1>n, <1>s, <1>t, ShapeFacts DEF Mark, NoteRecords, ScannerRecords, Statuses
    <2> QED
      BY <1>0, <1>b, <2>1, <2>2, <1>t, DoneFacts
  <1>9. CASE Crash(s)
    <2>1. UNCHANGED <<note, settings, receipts, provider>> /\ Done(s)
      BY <1>9 DEF Crash
    <2>2. TypedBounds'
      BY <1>9, <1>t DEF Crash, TypedBounds
    <2> QED
      BY <1>0, <2>1, <2>2, <1>t, DoneFacts
  <1> QED
    BY <1>1, <1>2, <1>3, <1>4, <1>5, <1>6, <1>7, <1>8, <1>9

(* The second look after the claim.                                         *)
LEMMA ReconfirmStep ==
  ASSUME Inv, NEW s \in Scanners, Reconfirm(s)
  PROVE  Inv'
  <1>t. /\ note \in NoteRecords /\ TypedSettings /\ TypedReceipts /\ TypedScanner /\ TypedBounds
        /\ OneKey /\ Told /\ Seen
    BY DEF Inv, Typed
  <1>1. UNCHANGED <<note, settings, receipts, provider, bounds>>
    BY DEF Reconfirm
  <1>2. note' \in NoteRecords /\ TypedSettings' /\ TypedReceipts' /\ TypedBounds'
    BY <1>1, <1>t DEF TypedSettings, TypedReceipts, TypedBounds, settings, receipts, bounds
  <1>3. OneKey' /\ Told'
    BY <1>1, <1>t, OneKeyKept, ToldKept DEF settings
  <1>4. ASSUME TypedScanner', Fresh(s)', \A t \in Scanners \ {s} : scanner'[t] = scanner[t]
        PROVE  Inv'
    <2>1. ASSUME NEW t \in Scanners, t # s PROVE Fresh(t)'
      <3>1. Fresh(t) /\ scanner'[t] = scanner[t]
        BY <1>4, <1>t, <2>1 DEF Seen
      <3> QED
        BY <1>1, <3>1 DEF Fresh, At, Qualified, Wanted, Armed, Needed, settings, receipts
    <2> QED
      BY <1>2, <1>3, <1>4, <2>1 DEF Inv, Typed, Seen
  <1>5. ASSUME NEW r \in ScannerRecords, Moves(s, r), r.pc # "send"
        PROVE  Inv'
    <2>1. /\ TypedScanner' /\ scanner'[s] = r
          /\ \A t \in Scanners \ {s} : scanner'[t] = scanner[t]
      BY <1>5, <1>t, MovesFacts
    <2>2. Fresh(s)'
      BY <1>5, <2>1 DEF Fresh, At
    <2> QED
      BY <1>4, <2>1, <2>2
  <1>6. CASE Gate(s) = "ok"
    <2>1. Go(s, "send")
      BY <1>6 DEF Reconfirm
    <2>2. /\ TypedScanner' /\ scanner'[s].pc = "send" /\ scanner'[s].to = scanner[s].to
          /\ \A t \in Scanners \ {s} : scanner'[t] = scanner[t]
      BY <1>t, <2>1, GoFacts DEF Pcs
    <2>3. Wanted /\ pref.recipient = scanner[s].to /\ Armed
          /\ Verdict = "ready" /\ Needed \subseteq note.evidence
      BY <1>6 DEF Gate
    <2>4. Qualified
      BY <2>3 DEF Verdict, Qualified
    <2>5. Fresh(s)'
      BY <1>1, <2>2, <2>3, <2>4 DEF Fresh, Qualified, Wanted, Armed, Needed, settings, receipts
    <2> QED
      BY <1>4, <2>2, <2>5
  <1>7. ASSUME NEW x \in {"skipped", "pending"}, Moves(s, [Idle EXCEPT !.pc = "mark", !.result = x])
        PROVE  Inv'
    <2> DEFINE r == [Idle EXCEPT !.pc = "mark", !.result = x]
    <2>1. r \in ScannerRecords /\ r.pc = "mark"
      BY ShapeFacts DEF ScannerRecords, Pcs
    <2>2. Moves(s, r)
      BY <1>7
    <2> HIDE DEF r
    <2> QED
      BY <1>5, <2>1, <2>2
  <1>8. ASSUME Done(s) PROVE Inv'
    BY <1>5, <1>8, IdleType DEF Done, Moves
  <1>9. CASE Gate(s) # "ok"
    <2>1. \/ Moves(s, [Idle EXCEPT !.pc = "mark", !.result = "skipped"])
          \/ Moves(s, [Idle EXCEPT !.pc = "mark", !.result = "pending"])
          \/ Done(s)
      BY <1>9 DEF Reconfirm, Moves
    <2> QED
      BY <1>7, <1>8, <2>1
  <1> QED
    BY <1>6, <1>9

(* A mail goes out under the one key, whatever the provider answers.        *)
LEMMA SendStep ==
  ASSUME Inv, NEW s \in Scanners, Send(s)
  PROVE  Inv'
  <1>t. /\ note \in NoteRecords /\ TypedSettings /\ TypedReceipts /\ TypedScanner /\ TypedBounds
        /\ OneKey /\ Told /\ Seen
    BY DEF Inv, Typed
  <1>1. UNCHANGED <<note, settings, receipts, changes>>
    BY DEF Send
  <1>2. TypedSettings' /\ TypedReceipts' /\ Told'
    BY <1>1, <1>t, ToldKept DEF TypedSettings, TypedReceipts, settings, receipts
  <1>3. TypedBounds'
    BY <1>t DEF Send, TypedBounds
  <1>4. PICK x \in {"sent", "failed", "skipped"} : Moves(s, [Idle EXCEPT !.pc = "mark", !.result = x])
    BY DEF Send, Moves
  <1> DEFINE r == [Idle EXCEPT !.pc = "mark", !.result = x]
  <1>5. r \in ScannerRecords /\ r.pc = "mark"
    BY ShapeFacts DEF ScannerRecords, Pcs
  <1>6. Moves(s, r)
    BY <1>4
  <1> HIDE DEF r
  <1>7. TypedScanner' /\ scanner'[s].pc = "mark" /\ \A t \in Scanners \ {s} : scanner'[t] = scanner[t]
    BY <1>5, <1>6, <1>t, MovesFacts
  <1>8. Seen'
    BY <1>1, <1>7, <1>t, SeenKept DEF settings, receipts
  <1>9. OneKey'
    <2>1. CASE provider' = provider
      BY <1>t, <2>1, OneKeyKept
    <2>2. CASE provider' # provider
      <3> DEFINE m == [key |-> 0, to |-> scanner[s].to]
      <3>1. /\ ~\E n \in provider.taken : n.key = 0
            /\ provider' = [taken |-> provider.taken \cup {m}, mails |-> Min2(provider.mails + 1, 2)]
        BY <2>2 DEF Send, Key
      <3>2. provider.taken = {} /\ provider.mails = 0
        BY <1>t, <3>1 DEF OneKey
      <3>3. m.key = 0
        OBVIOUS
      <3> HIDE DEF m
      <3>4. provider'.taken = {m} /\ provider'.mails = 1
        BY <3>1, <3>2 DEF Min2
      <3> QED
        BY <3>3, <3>4 DEF OneKey
    <2> QED
      BY <2>1, <2>2
  <1> QED
    BY <1>1, <1>2, <1>3, <1>7, <1>8, <1>9, <1>t DEF Inv, Typed

(* Time passes.                                                             *)
LEMMA TickStep ==
  ASSUME Inv, Tick
  PROVE  Inv'
  <1>t. /\ note \in NoteRecords /\ TypedSettings /\ TypedReceipts /\ TypedScanner /\ TypedBounds
        /\ OneKey /\ Told /\ Seen
    BY DEF Inv, Typed
  <1>1. UNCHANGED <<settings, receipts, provider, bounds>>
    BY DEF Tick
  <1>2. TypedSettings' /\ TypedReceipts' /\ TypedBounds' /\ OneKey' /\ Told'
    BY <1>1, <1>t, OneKeyKept, ToldKept
    DEF TypedSettings, TypedReceipts, TypedBounds, settings, receipts, bounds
  <1>3. ASSUME NEW a \in Ages PROVE Older(a) \in Ages
    BY DEF Older, Ages
  <1>4. note' \in NoteRecords /\ note'.evidence = note.evidence
    BY <1>3, <1>t DEF Tick, NoteRecords
  <1>5. ASSUME NEW t \in Scanners
        PROVE  /\ scanner'[t] \in ScannerRecords
               /\ scanner'[t] = scanner[t] \/ scanner'[t].pc # "send"
    <2>1. scanner[t] \in ScannerRecords /\ Older(scanner[t].age) \in Ages
      BY <1>3, <1>t DEF TypedScanner, ScannerRecords
    <2>2. scanner'[t] = IF scanner[t].pc \in Clocked
                        THEN [scanner[t] EXCEPT !.age = Older(@)] ELSE scanner[t]
      BY DEF Tick
    <2> QED
      BY <2>1, <2>2 DEF ScannerRecords, Clocked
  <1>6. TypedScanner'
    <2>1. scanner' = [t \in Scanners |-> scanner'[t]]
      BY DEF Tick
    <2> QED
      BY <1>5, <2>1 DEF TypedScanner
  <1>7. Seen'
    BY <1>1, <1>4, <1>5, <1>t, SeenKept DEF settings, receipts
  <1> QED
    BY <1>2, <1>4, <1>6, <1>7 DEF Inv, Typed

-----------------------------------------------------------------------------
(* The client's settings and receipts.                                      *)

(* A change takes from every walk what it has seen.                         *)
LEMMA DisturbedFacts ==
  ASSUME TypedScanner, scanner' = Disturbed \/ scanner' = Redated
  PROVE  TypedScanner' /\ Seen'
  <1>1. ASSUME NEW t \in Scanners
        PROVE  scanner'[t] \in ScannerRecords /\ ~scanner'[t].fresh
    <2>1. scanner[t] \in ScannerRecords
      BY DEF TypedScanner
    <2>2. \/ scanner'[t] = [scanner[t] EXCEPT !.fresh = FALSE]
          \/ scanner'[t] = [scanner[t] EXCEPT !.fresh = FALSE, !.late = FALSE]
      BY DEF Disturbed, Redated
    <2> QED
      BY <2>1, <2>2 DEF ScannerRecords
  <1>2. scanner' = [t \in Scanners |-> scanner'[t]]
    BY DEF Disturbed, Redated
  <1>3. TypedScanner'
    BY <1>1, <1>2 DEF TypedScanner
  <1>4. Seen'
    BY <1>1 DEF Seen, Fresh
  <1> QED
    BY <1>3, <1>4

(* Receipts and armed destinations.                                         *)
LEMMA ReceiptStep ==
  ASSUME Inv,
         \/ \E c \in Channels : Complete(c) \/ Reopen(c)
         \/ \E d \in Destinations : Arm(d)
  PROVE  Inv'
  <1>t. /\ note \in NoteRecords /\ TypedSettings /\ TypedReceipts /\ TypedScanner /\ TypedBounds
        /\ OneKey /\ Told /\ Seen
    BY DEF Inv, Typed
  <1>1. UNCHANGED <<note, settings, provider>> /\ scanner' = Disturbed
    BY DEF Complete, Reopen, Arm
  <1>2. TypedScanner' /\ Seen'
    BY <1>1, <1>t, DisturbedFacts
  <1>3. TypedSettings' /\ OneKey' /\ Told'
    BY <1>1, <1>t, OneKeyKept, ToldKept DEF TypedSettings, settings
  <1>4. TypedBounds'
    BY <1>t DEF TypedBounds, bounds, Complete, Reopen, Arm
  <1>5. armed' \subseteq Destinations
    BY <1>t DEF TypedReceipts, Complete, Reopen, Arm
  <1>6. done' \in [Channels -> {"open", "before", "after"}]
    BY <1>t DEF TypedReceipts, Complete, Reopen, Arm
  <1> QED
    BY <1>1, <1>2, <1>3, <1>4, <1>5, <1>6, <1>t DEF Inv, Typed, TypedReceipts

(* A form is empty.                                                         *)
LEMMA NewFacts ==
  /\ NewRequest \in RequestRecords /\ NewRequest.expected = 0 /\ NewRequest.stored = "none"
  /\ NewRequest.answer = "none" /\ NewRequest.applied = 0
  BY DEF NewRequest, RequestRecords, Results, Edits

(* An admin opens a form.                                                   *)
LEMMA PrepareStep ==
  ASSUME Inv, NEW q \in Requests, NEW edit \in Edits, Prepare(q, edit)
  PROVE  Inv'
  <1>t. /\ note \in NoteRecords /\ TypedSettings /\ TypedReceipts /\ TypedScanner /\ TypedBounds
        /\ OneKey /\ Told /\ Seen
    BY DEF Inv, Typed
  <1> DEFINE r == [NewRequest EXCEPT !.edit = edit, !.expected = pref.revision, !.open = TRUE]
  <1>1. /\ UNCHANGED <<note, pref, receipts, scanner, provider, bounds>>
        /\ request' = [request EXCEPT ![q] = r]
    BY DEF Prepare
  <1>2. pref.revision \in Nat
    BY <1>t DEF TypedSettings, PrefRecords
  <1>3. /\ r \in RequestRecords /\ r.expected = pref.revision /\ r.stored = "none"
        /\ r.answer = "none" /\ r.applied = 0
    BY <1>2, NewFacts DEF RequestRecords
  <1> HIDE DEF r
  <1>4. TypedSettings' /\ request'[q] = r /\ \A p \in Requests \ {q} : request'[p] = request[p]
    BY <1>1, <1>3, <1>t DEF TypedSettings
  <1>5. Told'
    BY <1>1, <1>2, <1>3, <1>4, <1>t DEF Told, Honest
  <1>6. TypedReceipts' /\ TypedScanner' /\ TypedBounds' /\ OneKey' /\ Seen'
    BY <1>1, <1>t, OneKeyKept, SeenKept DEF TypedReceipts, TypedScanner, TypedBounds, receipts, bounds
  <1> QED
    BY <1>1, <1>4, <1>5, <1>6, <1>t DEF Inv, Typed

(* The preference becomes what an edit makes of it.                         *)
Becomes(edit) == pref' = Edited(edit)

(* A revision only grows; what is on has an address and a date.             *)
LEMMA EditFacts ==
  ASSUME TypedSettings, NEW edit \in Edits, Becomes(edit)
  PROVE  /\ pref' \in PrefRecords /\ pref'.revision >= pref.revision
         /\ pref'.enabled => pref'.recipient # Nobody /\ pref'.dated
  <1> DEFINE Goal == /\ pref' \in PrefRecords /\ pref'.revision >= pref.revision
                     /\ pref'.enabled => pref'.recipient # Nobody /\ pref'.dated
  <1>1. /\ pref \in PrefRecords /\ pref.revision \in Nat
        /\ pref.enabled => pref.recipient # Nobody /\ pref.dated
    BY DEF TypedSettings, PrefRecords
  <1>2. PICK n \in Nat : n = pref.revision + 1
    BY <1>1
  <1>3. ASSUME pref' = pref PROVE Goal
    BY <1>1, <1>3
  <1>4. ASSUME pref.recipient # Nobody,
               pref' = [pref EXCEPT !.enabled = TRUE, !.dated = TRUE, !.revision = n]
        PROVE  Goal
    <2>1. pref' \in PrefRecords
      BY <1>1, <1>4 DEF PrefRecords
    <2>2. pref'.revision = n /\ pref'.recipient = pref.recipient /\ pref'.dated = TRUE
      BY <1>1, <1>4 DEF PrefRecords
    <2> QED
      BY <1>1, <1>2, <1>4, <2>1, <2>2
  <1>5. ASSUME pref' = [pref EXCEPT !.enabled = FALSE, !.revision = n] PROVE Goal
    <2>1. pref' \in PrefRecords
      BY <1>1, <1>5 DEF PrefRecords
    <2>2. pref'.revision = n /\ pref'.enabled = FALSE
      BY <1>1, <1>5 DEF PrefRecords
    <2> QED
      BY <1>1, <1>2, <2>1, <2>2
  <1>6. ASSUME NEW x \in Mailboxes, NEW b \in BOOLEAN, b => pref.enabled,
               pref' = [pref EXCEPT !.recipient = x, !.enabled = b, !.revision = n]
        PROVE  Goal
    <2>1. pref' \in PrefRecords
      BY <1>1, <1>6 DEF PrefRecords
    <2>2. pref'.revision = n /\ pref'.recipient = x /\ pref'.enabled = b /\ pref'.dated = pref.dated
      BY <1>1, <1>6 DEF PrefRecords
    <2>3. x # Nobody
      OBVIOUS
    <2> QED
      BY <1>1, <1>2, <1>6, <2>1, <2>2, <2>3
  <1> HIDE DEF Goal
  <1>7. CASE edit = "on"
    <2>1. \/ pref' = pref
          \/ pref.recipient # Nobody
             /\ pref' = [pref EXCEPT !.enabled = TRUE, !.dated = TRUE, !.revision = n]
      BY <1>2, <1>7 DEF Becomes, Edited
    <2>2. Goal
      BY <1>3, <1>4, <2>1
    <2> QED
      BY <2>2 DEF Goal
  <1>8. CASE edit = "off"
    <2>1. pref' = pref \/ pref' = [pref EXCEPT !.enabled = FALSE, !.revision = n]
      BY <1>2, <1>8 DEF Becomes, Edited
    <2>2. Goal
      BY <1>3, <1>5, <2>1
    <2> QED
      BY <2>2 DEF Goal
  <1>9. CASE edit \notin {"on", "off"}
    <2>1. PICK b \in BOOLEAN : b = (pref.enabled /\ pref.recipient = edit)
      OBVIOUS
    <2>2. pref' = [pref EXCEPT !.recipient = edit, !.enabled = b, !.revision = n]
      BY <1>2, <1>9, <2>1 DEF Becomes, Edited
    <2>3. edit \in Mailboxes /\ (b => pref.enabled)
      BY <1>9, <2>1 DEF Edits
    <2>4. Goal
      BY <1>6, <2>2, <2>3
    <2> QED
      BY <2>4 DEF Goal
  <1> QED
    BY <1>7, <1>8, <1>9

(* A request arrives, for the first time or again.                          *)
LEMMA ConfigureStep ==
  ASSUME Inv, NEW q \in Requests, Configure(q)
  PROVE  Inv'
  <1>t. /\ note \in NoteRecords /\ TypedSettings /\ TypedReceipts /\ TypedScanner /\ TypedBounds
        /\ OneKey /\ Told /\ Seen
    BY DEF Inv, Typed
  <1> DEFINE replayed == Replay(q) # "none"
             result == IF replayed THEN Replay(q) ELSE Result(q)
             applies == ~replayed /\ result = "ok"
             dated == pref'.enabled /\ ~pref.enabled
  <1>0. request[q] \in RequestRecords /\ Honest(q) /\ pref.revision \in Nat
    BY <1>t DEF TypedSettings, Told, PrefRecords
  <1>1. UNCHANGED <<note, armed, provider, bounds>>
    BY DEF Configure
  <1>2. IF applies THEN Becomes(request[q].edit) ELSE pref' = pref
    BY DEF Configure, Becomes
  <1>3. /\ done' = IF dated THEN [c \in Channels |-> IF done[c] = "open" THEN "open" ELSE "before"] ELSE done
        /\ scanner' = IF dated THEN Redated ELSE IF pref' # pref THEN Disturbed ELSE scanner
    BY DEF Configure
  <1>4. PICK told \in BOOLEAN : request' = [request EXCEPT
       ![q].stored = IF replayed \/ result = "conflict" THEN @ ELSE result,
       ![q].applied = IF applies THEN Min2(@ + 1, 2) ELSE @,
       ![q].answer = IF told THEN result ELSE @]
    BY DEF Configure
  <1>5. /\ pref' \in PrefRecords /\ pref'.revision >= pref.revision /\ pref'.revision \in Nat
        /\ pref'.enabled => pref'.recipient # Nobody /\ pref'.dated
    <2>1. CASE applies
      <3>1. request[q].edit \in Edits /\ Becomes(request[q].edit)
        BY <1>0, <1>2, <2>1 DEF RequestRecords
      <3>2. /\ pref' \in PrefRecords /\ pref'.revision >= pref.revision
            /\ pref'.enabled => pref'.recipient # Nobody /\ pref'.dated
        BY <1>t, <3>1, EditFacts
      <3> QED
        BY <3>2 DEF PrefRecords
    <2>2. CASE ~applies
      BY <1>0, <1>2, <1>t, <2>2 DEF TypedSettings
    <2> QED
      BY <2>1, <2>2
  <1>6. TypedScanner' /\ Seen'
    <2>1. CASE dated \/ pref' # pref
      BY <1>3, <1>t, <2>1, DisturbedFacts
    <2>2. CASE ~dated /\ pref' = pref
      BY <1>1, <1>3, <1>t, <2>2, SeenKept DEF TypedScanner
    <2> QED
      BY <2>1, <2>2
  <1>7. TypedReceipts' /\ TypedBounds' /\ OneKey'
    BY <1>1, <1>3, <1>t, OneKeyKept DEF TypedReceipts, TypedBounds, bounds
  <1>8. result \in {"ok", "conflict", "rejected"}
    BY <1>0 DEF Replay, Result, Honest, RequestRecords, Results
  <1> DEFINE r == request'[q]
  <1>9. /\ \A p \in Requests \ {q} : request'[p] = request[p]
        /\ r.edit = request[q].edit /\ r.expected = request[q].expected /\ r.open = request[q].open
        /\ r.stored = IF replayed \/ result = "conflict" THEN request[q].stored ELSE result
        /\ r.applied = IF applies THEN Min2(request[q].applied + 1, 2) ELSE request[q].applied
        /\ r.answer = IF told THEN result ELSE request[q].answer
        /\ r \in RequestRecords /\ request' \in [Requests -> RequestRecords]
    <2> HIDE DEF replayed, result
    <2>1. request \in [Requests -> RequestRecords]
      BY <1>t DEF TypedSettings
    <2>2. Min2(request[q].applied + 1, 2) \in 0 .. 2
      BY <1>0 DEF Min2, RequestRecords
    <2> QED
      BY <1>0, <1>4, <1>8, <2>1, <2>2 DEF RequestRecords, Results
  <1>10. Honest(q)'
    <2>1. CASE replayed
      BY <1>0, <1>5, <1>9, <2>1 DEF Honest, Replay, RequestRecords
    <2>2. CASE ~replayed /\ result = "conflict"
      <3>1. request[q].stored = "none" /\ request[q].expected # pref.revision
        BY <2>2 DEF Replay, Result
      <3> QED
        BY <1>0, <1>5, <1>9, <2>2, <3>1 DEF Honest, RequestRecords
    <2>3. CASE ~replayed /\ result # "conflict"
      <3>1. request[q].expected = pref.revision /\ request[q].stored = "none"
        BY <2>3 DEF Replay, Result
      <3>2. request[q].answer # "conflict"
        BY <1>0, <3>1 DEF Honest
      <3>3. request[q].applied = 0 /\ request[q].answer = "none"
        BY <1>0, <3>1, <3>2 DEF Honest
      <3>4. /\ applies <=> result = "ok"
            /\ request'[q].applied = IF result = "ok" THEN 1 ELSE 0
        BY <1>9, <2>3, <3>3 DEF Min2
      <3>5. request'[q].stored = result /\ request'[q].answer \in {"none", result}
        BY <1>9, <2>3, <3>3
      <3>6. request'[q].expected <= pref'.revision
        BY <1>0, <1>5, <1>9 DEF Honest, RequestRecords
      <3> HIDE DEF replayed, result, applies
      <3> QED
        BY <1>8, <2>3, <3>4, <3>5, <3>6 DEF Honest
    <2> QED
      BY <2>1, <2>2, <2>3
  <1>11. ASSUME NEW p \in Requests, p # q PROVE Honest(p)'
    <2>1. Honest(p) /\ request'[p] = request[p] /\ request[p] \in RequestRecords
      BY <1>9, <1>11, <1>t DEF Told, TypedSettings
    <2> QED
      BY <1>0, <1>5, <2>1 DEF Honest, RequestRecords
  <1>12. TypedSettings' /\ Told'
    BY <1>5, <1>9, <1>10, <1>11 DEF TypedSettings, Told
  <1> QED
    BY <1>1, <1>6, <1>7, <1>12, <1>t DEF Inv, Typed

(* It holds at first.                                                       *)
LEMMA InvInit == Init => Inv
  <1> SUFFICES ASSUME Init PROVE Inv
    OBVIOUS
  <1>1. note \in NoteRecords
    BY ShapeFacts DEF Init, NoteRecords, Statuses, MaxAttempt
  <1>2. pref \in PrefRecords /\ (pref.enabled => pref.recipient # Nobody /\ pref.dated)
    <2>0. ASSUME NEW b \in BOOLEAN, NEW x \in Mailboxes \cup {Nobody}, NEW d \in BOOLEAN, NEW n \in Nat
          PROVE  [enabled |-> b, recipient |-> x, dated |-> d, revision |-> n] \in PrefRecords
      BY DEF PrefRecords
    <2>1. CASE pref = [enabled |-> FALSE, recipient |-> Nobody, dated |-> FALSE, revision |-> 0]
      <3>1. pref \in PrefRecords
        BY <2>0, <2>1
      <3>2. pref.enabled = FALSE
        BY <2>1
      <3> QED
        BY <3>1, <3>2
    <2>2. CASE pref \in [enabled : {TRUE}, recipient : Recorded, dated : {TRUE}, revision : {2}]
      <3>1. pref.recipient \in Mailboxes /\ pref.dated = TRUE
        BY <2>2
      <3>2. pref = [enabled |-> TRUE, recipient |-> pref.recipient, dated |-> TRUE, revision |-> 2]
        BY <2>2
      <3>3. pref \in PrefRecords
        BY <2>0, <3>1, <3>2
      <3> QED
        BY <3>1, <3>3
    <2> QED
      BY <2>1, <2>2 DEF Init
  <1>4. TypedSettings
    BY <1>2, NewFacts DEF Init, TypedSettings
  <1>5. TypedReceipts
    BY DEF Init, TypedReceipts, Destinations
  <1>6. TypedScanner
    BY ShapeFacts DEF Init, TypedScanner
  <1>7. TypedBounds /\ OneKey
    BY DEF Init, TypedBounds, OneKey
  <1>8. Told
    BY <1>2, NewFacts DEF Init, Told, Honest, PrefRecords
  <1>9. Seen
    BY IdleType DEF Init, Seen, Fresh, At
  <1> QED
    BY <1>1, <1>4, <1>5, <1>6, <1>7, <1>8, <1>9 DEF Inv, Typed

(* No step breaks it.                                                       *)
LEMMA InvNext ==
  ASSUME Inv, [Next]_vars
  PROVE  Inv'
  <1>1. ASSUME NEW s \in Scanners, StartWalk(s) \/ Work(s) \/ Crash(s) PROVE Inv'
    BY <1>1, WalkStep, ReconfirmStep, SendStep DEF Work
  <1>2. ASSUME NEW q \in Requests, Configure(q) \/ \E edit \in Edits : Prepare(q, edit) PROVE Inv'
    BY <1>2, ConfigureStep, PrepareStep
  <1>3. ASSUME UNCHANGED vars PROVE Inv'
    BY <1>3 DEF vars, Inv, Typed, TypedSettings, TypedReceipts, TypedScanner, TypedBounds, OneKey,
                Told, Honest, Seen, Fresh, At, Qualified, Wanted, Armed, Needed
  <1> QED
    BY <1>1, <1>2, <1>3, ReceiptStep, TickStep DEF Next

(* The inductive invariant: one key, requests that say what they did, and   *)
(* what walks have seen since their claim.                                  *)
THEOREM InvHolds == Spec => []Inv
  <1>1. Inv /\ [Next]_vars => Inv'
    BY InvNext
  <1> QED
    BY <1>1, InvInit, PTL DEF Spec

(* TypeOK: rows, requests and locals keep their shape.                      *)
THEOREM TypeCorrect == Spec => []TypeOK
  <1>1. Inv => TypeOK
    BY DEF Inv, Typed, TypeOK, TypedSettings, TypedReceipts, TypedScanner, TypedBounds, OneKey,
           NoteRecords, PrefRecords, RequestRecords, ScannerRecords
  <1> QED
    BY <1>1, InvHolds, PTL

(* MailedOnce: a lead is mailed once at most, however many walks claim it   *)
(* late, die, or send again.                                                *)
THEOREM OneMail == Spec => []MailedOnce
  <1>1. Inv => MailedOnce
    BY DEF Inv, OneKey, MailedOnce
  <1> QED
    BY <1>1, InvHolds, PTL

(* AppliedIsAnswered: a request that was applied was applied once and is    *)
(* never answered otherwise, a conflict told to it included; and none is    *)
(* answered "ok" that was not applied.                                      *)
THEOREM AppliedAreTold == Spec => []AppliedIsAnswered
  <1>1. Inv => AppliedIsAnswered
    <2> SUFFICES ASSUME Inv, NEW q \in Requests
                 PROVE  /\ request[q].applied <= 1
                        /\ request[q].applied = 1 => request[q].answer \in {"none", "ok"}
                        /\ request[q].answer = "ok" => request[q].applied = 1
      BY DEF AppliedIsAnswered
    <2>1. Honest(q)
      BY DEF Inv, Told
    <2> QED
      BY <2>1 DEF Honest
  <1> QED
    BY <1>1, InvHolds, PTL

(* MailIsAuthorized: nothing is mailed that the client did not want at the  *)
(* second look, unless something changed after it.                          *)
THEOREM MailAuthorized == Spec => MailIsAuthorized
  <1> DEFINE Authorized == \A s \in Scanners :
       At(s, "send") /\ scanner[s].fresh /\ ~UNCHANGED provider
         => Qualified /\ Needed \subseteq note.evidence /\ scanner[s].to = pref.recipient
  <1>1. Inv => [Authorized]_vars
    BY DEF Inv, Seen, Fresh
  <1> QED
    BY <1>1, InvHolds, PTL DEF MailIsAuthorized

(* EndedStaysEnded: sent and skipped are final.                             *)
THEOREM EndsAreFinal == Spec => EndedStaysEnded
  <1> DEFINE Stays == note.status \in {"sent", "skipped"} => note'.status = note.status
  <1>1. Inv /\ [Next]_vars => [Stays]_vars
    <2> SUFFICES ASSUME note \in NoteRecords, Next, note.status \in {"sent", "skipped"}
                 PROVE  note'.status = note.status
      BY DEF Inv, Typed
    <2>1. ASSUME NEW s \in Scanners, Work(s) PROVE note'.status = note.status
      <3>1. Closed = note
        BY DEF Closed
      <3>2. CASE Record(s)
        BY <3>2 DEF Record, NoteRecords
      <3>3. CASE ~Record(s)
        BY <2>1, <3>1, <3>3 DEF Work, Consider, Decide, Confirm, Close, Claim, Reconfirm, Send, Mark
      <3> QED
        BY <3>2, <3>3
    <2>2. CASE Tick
      BY <2>2 DEF Tick, NoteRecords
    <2> QED
      BY <2>1, <2>2 DEF Next, StartWalk, Crash, Configure, Prepare, Complete, Reopen, Arm
  <1> QED
    BY <1>1, InvHolds, PTL DEF Spec, EndedStaysEnded

=============================================================================
