---------------------------- MODULE AppendLedger ----------------------------
(***************************************************************************)
(* What Sheets delivery promises, without claims, locks, leases or holds:  *)
(* every row of a delivery reaches the tab at most once, is recorded as    *)
(* written, for good, only after it is there, and a delivery is complete   *)
(* only once all its rows are recorded.                                    *)
(***************************************************************************)
EXTENDS Naturals

CONSTANTS Jobs, Rows, JobOf

VARIABLES
  copies,    \* [Rows -> Nat], insertions of each row
  recorded,  \* the rows recorded as written
  delivered  \* the completed jobs

vars == <<copies, recorded, delivered>>

Init == copies = [r \in Rows |-> 0] /\ recorded = {} /\ delivered = {}

(* Some rows of one job are inserted, none of them for a second time.       *)
Append(j, R) ==
  /\ \A r \in R : JobOf[r] = j /\ copies[r] = 0
  /\ copies' = [r \in Rows |-> IF r \in R THEN 1 ELSE copies[r]]
  /\ UNCHANGED <<recorded, delivered>>

Record(R) ==
  /\ \A r \in R : copies[r] = 1
  /\ recorded' = recorded \cup R
  /\ UNCHANGED <<copies, delivered>>

Deliver(j) ==
  /\ {r \in Rows : JobOf[r] = j} \subseteq recorded
  /\ delivered' = delivered \cup {j}
  /\ UNCHANGED <<copies, recorded>>

(* An error after the completion puts it in doubt: the delivery is held.    *)
Doubt(j) ==
  /\ delivered' = delivered \ {j}
  /\ UNCHANGED <<copies, recorded>>

Next ==
  \/ \E j \in Jobs, R \in SUBSET Rows : Append(j, R)
  \/ \E R \in SUBSET Rows : Record(R)
  \/ \E j \in Jobs : Deliver(j) \/ Doubt(j)

Spec == Init /\ [][Next]_vars
=============================================================================
