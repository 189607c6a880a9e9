------------------------ MODULE DeliveryNotification ------------------------
(***************************************************************************)
(* The e-mail that tells a client that a lead was delivered.  Walks of the *)
(* scanner look for leads that every armed destination confirmed, decide   *)
(* under the client's row locks, record one notification row per lead,     *)
(* claim it and send, asking again before and after the claim whether the  *)
(* client still wants the mail.  Admins change the client's preference by  *)
(* requests that carry an id and the revision they were made on.           *)
(*                                                                         *)
(* One client and one lead.  A completion time is told apart only by       *)
(* whether it lies strictly after the client's enabledAt.                  *)
(***************************************************************************)
EXTENDS Integers, FiniteSets

CONSTANTS
  Scanners,     \* walks of the scanner that may run at once
  Requests,     \* request ids of the admins
  Mailboxes,    \* addresses an admin may record
  Recorded,     \* bound: the address of a client that already is notified
  Nobody,       \* not an address
  Stale,        \* DELIVERY_SUCCESS_NOTIFY_STALE_CLAIM_MS in ticks
  Horizon,      \* ages are not told apart beyond this many ticks
  Faults,       \* bound: crashes of a walk and mails without a good answer
  Changes       \* bound: arming, disarming and withdrawn receipts

Channels == {"sheets", "ghl"}
Destinations == Channels \cup {"webhook"}
Statuses == {"absent", "pending", "sending", "sent", "skipped", "failed"}
Ages == 0 .. Horizon
Edits == Mailboxes \cup {"on", "off"}
MaxAttempt == 3

ASSUME NotificationAssumption ==
  /\ Nobody \notin Mailboxes /\ Mailboxes \cap {"on", "off"} = {}
  /\ Recorded \subseteq Mailboxes
  /\ Stale \in Nat /\ Horizon \in Nat /\ Faults \in Nat /\ Changes \in Nat

VARIABLES
  note,      \* DeliverySuccessNotification of the lead
  pref,      \* ClientDeliveryNotificationPreference of the client
  request,   \* the admins' requests and what is stored of them
  armed,     \* armed destinations
  done,      \* the receipt of each channel: open, or completed before or after enabledAt
  scanner,   \* locals of the walks
  provider,  \* mails the provider accepted: their keys, and how many it delivered
  faults, changes

settings == <<pref, request>>
receipts == <<armed, done>>
bounds == <<faults, changes>>
vars == <<note, pref, request, armed, done, scanner, provider, faults, changes>>

Idle == [pc |-> "idle", age |-> 0, to |-> Nobody, need |-> {}, late |-> FALSE,
         result |-> "failed", fresh |-> FALSE]
NewRequest == [edit |-> "off", expected |-> 0, open |-> FALSE, stored |-> "none",
               answer |-> "none", applied |-> 0]

At(s, pc) == scanner[s].pc = pc
Go(s, pc) == scanner' = [scanner EXCEPT ![s].pc = pc]
Done(s) == scanner' = [scanner EXCEPT ![s] = Idle]
Min2(a, b) == IF a < b THEN a ELSE b

-----------------------------------------------------------------------------
(* What a lead needs.                                                       *)

Wanted == pref.enabled /\ pref.recipient # Nobody /\ pref.dated
Needed == armed \cap Channels
Armed == Needed # {} /\ "webhook" \notin armed

(* classifyLead: the latest receipt of the armed channels counts.           *)
Verdict ==
  IF Needed = {} \/ \E c \in Needed : done[c] = "open" THEN "not_ready"
  ELSE IF \E c \in Needed : done[c] = "after" THEN "ready" ELSE "before"

(* confirmSend.                                                             *)
Gate(s) ==
  IF note.status \in {"sent", "skipped"} THEN "ended"
  ELSE IF ~Wanted \/ pref.recipient # scanner[s].to \/ ~scanner[s].late THEN "withdrawn"
  ELSE IF ~Armed THEN "wait"
  ELSE IF Verdict = "before" THEN "withdrawn"
  ELSE IF Verdict = "ready" /\ Needed \subseteq note.evidence THEN "ok" ELSE "wait"

(* Variant: a status of its own for a row that is closed unsent.            *)
BugClosed == IF note.status \in {"pending", "failed"} THEN [note EXCEPT !.status = "closed"] ELSE note

(* closeOpenNotification.                                                   *)
Closed == IF note.status \in {"pending", "failed"} THEN [note EXCEPT !.status = "skipped"] ELSE note

-----------------------------------------------------------------------------
(* A walk of the scanner.                                                   *)

StartWalk(s) ==
  /\ At(s, "idle")
  /\ Go(s, "page")
  /\ UNCHANGED <<note, settings, receipts, provider, bounds>>

(* scanOnePage and considerLeads, for the page that lists the lead.         *)
Consider(s) ==
  LET open == Wanted /\ Armed /\ note.status \notin {"sent", "skipped"} IN
  /\ At(s, "page")
  /\ note' = IF open /\ Verdict = "before" THEN Closed ELSE note
  /\ IF open /\ Verdict = "ready" THEN Go(s, "decide") ELSE Done(s)
  /\ UNCHANGED <<settings, receipts, provider, bounds>>

(* decideNotification, in a transaction that holds the client's rows.       *)
Decide(s) ==
  /\ At(s, "decide")
  /\ note' = IF ~Wanted \/ (Armed /\ Verdict = "before") THEN Closed ELSE note
  /\ IF Wanted /\ Armed /\ Verdict = "ready"
     THEN scanner' = [scanner EXCEPT ![s].pc = "record", ![s].to = pref.recipient,
                                     ![s].need = Needed, ![s].late = TRUE]
     ELSE Done(s)
  /\ UNCHANGED <<settings, receipts, provider, bounds>>

(* recordDeliverySuccessNotification: a second record only adds evidence.   *)
Record(s) ==
  /\ At(s, "record")
  /\ note' = [note EXCEPT !.status = IF @ = "absent" THEN "pending" ELSE @,
                          !.evidence = @ \cup scanner[s].need]
  /\ IF note'.status \in {"pending", "failed"}
     THEN scanner' = [scanner EXCEPT ![s].pc = "confirm", ![s].need = {}]
     ELSE Done(s)
  /\ UNCHANGED <<settings, receipts, provider, bounds>>

Confirm(s) ==
  /\ At(s, "confirm")
  /\ CASE Gate(s) = "ok" -> Go(s, "claim")
       [] Gate(s) = "withdrawn" -> scanner' = [scanner EXCEPT ![s] = [Idle EXCEPT !.pc = "close"]]
       [] OTHER -> Done(s)
  /\ UNCHANGED <<note, settings, receipts, provider, bounds>>

(* A row that is not claimed is closed for good.                            *)
Close(s) ==
  /\ At(s, "close")
  /\ note' = Closed
  /\ Done(s)
  /\ UNCHANGED <<settings, receipts, provider, bounds>>

(* Variant: a failed mail is not tried again.                               *)
BugClaim(s) ==
  /\ At(s, "claim")
  /\ IF note.status = "pending"
     THEN /\ note' = [note EXCEPT !.status = "sending", !.age = scanner[s].age,
                                  !.attempts = Min2(@ + 1, MaxAttempt)]
          /\ scanner' = [scanner EXCEPT ![s].pc = "reconfirm", ![s].age = 0, ![s].fresh = TRUE]
     ELSE Done(s) /\ UNCHANGED note
  /\ UNCHANGED <<settings, receipts, provider, bounds>>

(* claimDeliverySuccessNotification, with the clock of the walk's start.    *)
Claim(s) ==
  LET free == \/ note.status \in {"pending", "failed"}
              \/ note.status = "sending" /\ note.age - scanner[s].age > Stale
  IN
  /\ At(s, "claim")
  /\ IF free
     THEN /\ note' = [note EXCEPT !.status = "sending", !.age = scanner[s].age,
                                  !.attempts = Min2(@ + 1, MaxAttempt)]
          /\ scanner' = [scanner EXCEPT ![s].pc = "reconfirm", ![s].age = 0, ![s].fresh = TRUE]
     ELSE Done(s) /\ UNCHANGED note
  /\ UNCHANGED <<settings, receipts, provider, bounds>>

(* Variant: the claim is not followed by a second look.                     *)
BugReconfirm(s) ==
  /\ At(s, "reconfirm") /\ Go(s, "send")
  /\ UNCHANGED <<note, settings, receipts, provider, bounds>>

Reconfirm(s) ==
  /\ At(s, "reconfirm")
  /\ CASE Gate(s) = "ok" -> Go(s, "send")
       [] Gate(s) = "withdrawn" ->
            scanner' = [scanner EXCEPT ![s] = [Idle EXCEPT !.pc = "mark", !.result = "skipped"]]
       [] Gate(s) = "wait" ->
            scanner' = [scanner EXCEPT ![s] = [Idle EXCEPT !.pc = "mark", !.result = "pending"]]
       [] OTHER -> Done(s)
  /\ UNCHANGED <<note, settings, receipts, provider, bounds>>

(* Variant: every attempt has a key of its own.                             *)
BugKey(attempt) == attempt

(* deliverySuccessResendIdempotencyKey does not depend on the attempt.      *)
Key(attempt) == 0

(* sendTransactionalEmail.  The provider delivers one mail per key, and     *)
(* refuses a key it knows with another address.                             *)
Send(s) ==
  LET key == Key(note.attempts)
      to == scanner[s].to
      told(result) == scanner' = [scanner EXCEPT ![s] = [Idle EXCEPT !.pc = "mark", !.result = result]]
      taken == IF \E m \in provider.taken : m.key = key THEN provider
               ELSE [taken |-> provider.taken \cup {[key |-> key, to |-> to]},
                     mails |-> Min2(provider.mails + 1, 2)]
      fits == \A m \in provider.taken : m.key = key => m.to = to
  IN
  /\ At(s, "send")
  /\ \/ fits /\ provider' = taken /\ told("sent") /\ UNCHANGED faults
     \/ ~fits /\ told("failed") /\ UNCHANGED <<provider, faults>>
     \/ /\ faults < Faults /\ faults' = faults + 1
        /\ provider' \in {provider} \cup (IF fits THEN {taken} ELSE {})
        /\ told("failed")
     \/ /\ faults < Faults /\ faults' = faults + 1
        /\ told("skipped") /\ UNCHANGED provider
  /\ UNCHANGED <<note, settings, receipts, changes>>

(* Variant: the result is written whatever the row has become.              *)
BugMark(s) ==
  /\ At(s, "mark")
  /\ note' = [note EXCEPT !.status = scanner[s].result]
  /\ Done(s)
  /\ UNCHANGED <<settings, receipts, provider, bounds>>

(* markFromSending and releaseClaim.                                        *)
Mark(s) ==
  /\ At(s, "mark")
  /\ note' = IF note.status = "sending" THEN [note EXCEPT !.status = scanner[s].result, !.age = 0]
             ELSE note
  /\ Done(s)
  /\ UNCHANGED <<settings, receipts, provider, bounds>>

Crash(s) ==
  /\ ~At(s, "idle") /\ faults < Faults /\ faults' = faults + 1
  /\ Done(s)
  /\ UNCHANGED <<note, settings, receipts, provider, changes>>

(* While a walk still has to claim, it counts the time since its start.     *)
Clocked == {"page", "decide", "record", "confirm", "claim"}
Older(a) == IF a < Horizon THEN a + 1 ELSE a

Tick ==
  /\ note' = IF note.status = "sending" THEN [note EXCEPT !.age = Older(@)] ELSE note
  /\ scanner' = [s \in Scanners |->
       IF scanner[s].pc \in Clocked THEN [scanner[s] EXCEPT !.age = Older(@)] ELSE scanner[s]]
  /\ <<note, scanner>>' # <<note, scanner>>
  /\ UNCHANGED <<settings, receipts, provider, bounds>>

-----------------------------------------------------------------------------
(* The client's settings and receipts.  "fresh" only serves the property    *)
(* MailIsAuthorized.                                                        *)

Disturbed == [s \in Scanners |-> [scanner[s] EXCEPT !.fresh = FALSE]]
Redated == [s \in Scanners |-> [scanner[s] EXCEPT !.fresh = FALSE, !.late = FALSE]]

(* An admin opens the form and makes a request of it.                       *)
Prepare(q, edit) ==
  /\ ~request[q].open
  /\ request' = [request EXCEPT ![q] =
       [NewRequest EXCEPT !.edit = edit, !.expected = pref.revision, !.open = TRUE]]
  /\ UNCHANGED <<note, pref, receipts, scanner, provider, bounds>>

(* The preference after an edit.                                            *)
Edited(edit) ==
  CASE edit = "on" -> IF pref.enabled \/ pref.recipient = Nobody THEN pref
                      ELSE [pref EXCEPT !.enabled = TRUE, !.dated = TRUE, !.revision = @ + 1]
    [] edit = "off" -> IF ~pref.enabled THEN pref
                       ELSE [pref EXCEPT !.enabled = FALSE, !.revision = @ + 1]
    [] OTHER -> [pref EXCEPT !.recipient = edit, !.enabled = @ /\ pref.recipient = edit,
                             !.revision = @ + 1]

(* What the request is answered when it is not a replay.                    *)
Result(q) ==
  IF request[q].expected # pref.revision THEN "conflict"
  ELSE IF request[q].edit = "on" /\ pref.recipient = Nobody THEN "rejected"
  ELSE "ok"

(* Variant: a request is not recognised when it is repeated.                *)
BugReplay(q) == "none"

(* replayPrior: a conflict is not stored.                                   *)
Replay(q) == request[q].stored

(* configureDeliveryNotificationRecipient and ...Preference: a request may  *)
(* arrive again, and its answer may be lost.                                *)
Configure(q) ==
  LET replayed == Replay(q) # "none"
      result == IF replayed THEN Replay(q) ELSE Result(q)
      pref2 == IF ~replayed /\ result = "ok" THEN Edited(request[q].edit) ELSE pref
      dated == pref2.enabled /\ ~pref.enabled
  IN
  /\ request[q].open
  /\ pref' = pref2
  /\ \E told \in BOOLEAN : request' = [request EXCEPT
       ![q].stored = IF replayed \/ result = "conflict" THEN @ ELSE result,
       ![q].applied = IF ~replayed /\ result = "ok" THEN Min2(@ + 1, 2) ELSE @,
       ![q].answer = IF told THEN result ELSE @]
  /\ done' = IF dated THEN [c \in Channels |-> IF done[c] = "open" THEN "open" ELSE "before"] ELSE done
  /\ scanner' = IF dated THEN Redated ELSE IF pref2 # pref THEN Disturbed ELSE scanner
  /\ UNCHANGED <<note, armed, provider, bounds>>

(* A channel's delivery completes with a receipt that counts.               *)
Complete(c) ==
  /\ done[c] = "open"
  /\ done' = [done EXCEPT ![c] = IF pref.dated THEN "after" ELSE "before"]
  /\ scanner' = Disturbed
  /\ UNCHANGED <<note, settings, armed, provider, bounds>>

(* Another job or attempt of the lead is open again.                        *)
Reopen(c) ==
  /\ done[c] # "open" /\ changes < Changes /\ changes' = changes + 1
  /\ done' = [done EXCEPT ![c] = "open"]
  /\ scanner' = Disturbed
  /\ UNCHANGED <<note, settings, armed, provider, faults>>

(* A destination is armed or disarmed.                                      *)
Arm(d) ==
  /\ changes < Changes /\ changes' = changes + 1
  /\ armed' = IF d \in armed THEN armed \ {d} ELSE armed \cup {d}
  /\ scanner' = Disturbed
  /\ UNCHANGED <<note, settings, done, provider, faults>>

-----------------------------------------------------------------------------
Init ==
  /\ note = [status |-> "absent", evidence |-> {}, age |-> 0, attempts |-> 0]
  /\ pref \in {[enabled |-> FALSE, recipient |-> Nobody, dated |-> FALSE, revision |-> 0]}
       \cup [enabled : {TRUE}, recipient : Recorded, dated : {TRUE}, revision : {2}]
  /\ request = [q \in Requests |-> NewRequest]
  /\ armed = Channels
  /\ done = [c \in Channels |-> "open"]
  /\ scanner = [s \in Scanners |-> Idle]
  /\ provider = [taken |-> {}, mails |-> 0]
  /\ faults = 0 /\ changes = 0

Work(s) ==
  \/ Consider(s) \/ Decide(s) \/ Record(s) \/ Confirm(s) \/ Close(s)
  \/ Claim(s) \/ Reconfirm(s) \/ Send(s) \/ Mark(s)

Next ==
  \/ \E s \in Scanners : StartWalk(s) \/ Work(s) \/ Crash(s)
  \/ \E q \in Requests : Configure(q) \/ \E edit \in Edits : Prepare(q, edit)
  \/ \E c \in Channels : Complete(c) \/ Reopen(c)
  \/ \E d \in Destinations : Arm(d)
  \/ Tick

Spec == Init /\ [][Next]_vars

(* Walks are started again and again and come to their end.                 *)
FairSpec ==
  Spec /\ WF_vars(Tick) /\ \A s \in Scanners : WF_vars(StartWalk(s)) /\ WF_vars(Work(s))

-----------------------------------------------------------------------------
Pcs == {"idle", "page", "decide", "record", "confirm", "close", "claim", "reconfirm",
        "send", "mark"}
Results == {"none", "ok", "conflict", "rejected"}

(* The rows, the requests and the walks' locals have their shape.           *)
TypeOK ==
  /\ note \in [status : Statuses, evidence : SUBSET Channels, age : Ages, attempts : 0 .. MaxAttempt]
  /\ pref \in [enabled : BOOLEAN, recipient : Mailboxes \cup {Nobody}, dated : BOOLEAN, revision : Nat]
  /\ request \in [Requests -> [edit : Edits, expected : Nat, open : BOOLEAN, stored : Results,
                               answer : Results, applied : 0 .. 2]]
  /\ armed \subseteq Destinations /\ done \in [Channels -> {"open", "before", "after"}]
  /\ scanner \in [Scanners -> [pc : Pcs, age : Ages, to : Mailboxes \cup {Nobody},
       need : SUBSET Channels, late : BOOLEAN,
       result : {"pending", "sent", "skipped", "failed"}, fresh : BOOLEAN]]
  /\ provider.mails \in 0 .. 2 /\ faults \in 0 .. Faults /\ changes \in 0 .. Changes
  /\ pref.enabled => pref.recipient # Nobody /\ pref.dated

(* "A source lead produces at most one client notification", whatever was   *)
(* lost, crashed, claimed late or sent again.                               *)
MailedOnce == provider.mails <= 1

(* A request is applied once at most; one that was applied is answered      *)
(* "ok", however often it is repeated at the revision its own edit has      *)
(* passed and whichever of its answers were lost; and no other one is.      *)
AppliedIsAnswered ==
  \A q \in Requests :
    /\ request[q].applied <= 1
    /\ request[q].applied = 1 => request[q].answer \in {"none", "ok"}
    /\ request[q].answer = "ok" => request[q].applied = 1

(* "When a client notification qualifies".                                  *)
Qualified ==
  /\ Wanted /\ Armed
  /\ \A c \in Needed : done[c] # "open"
  /\ \E c \in Needed : done[c] = "after"

(* A mail goes out only to the recipient the client has verified, while the *)
(* preference is on, every armed destination has confirmed the lead after   *)
(* enabledAt and the row names their receipts, unless any of these changed  *)
(* after the row was claimed.                                               *)
MailIsAuthorized ==
  [][\A s \in Scanners :
       At(s, "send") /\ scanner[s].fresh /\ ~UNCHANGED provider
         => Qualified /\ Needed \subseteq note.evidence /\ scanner[s].to = pref.recipient]_vars

(* sent and skipped are terminal.                                           *)
EndedStaysEnded ==
  [][note.status \in {"sent", "skipped"} => note'.status = note.status]_vars

(* A lead that stays qualified is not left without a notification, or with  *)
(* one that is pending or failed.                                           *)
QualifiedIsTaken ==
  <>[]Qualified => <>[](note.status \notin {"absent", "pending", "failed"})

(* "The sender claims ... from sending older than 10 minutes": while the    *)
(* lead stays qualified, a claim that was left behind is taken over.        *)
LeftClaimIsTaken == <>[]Qualified => []<>(note.status # "sending")
=============================================================================
