-------------------------- MODULE MCSheetsDelivery --------------------------
(* Instances of SheetsDelivery for TLC.                                     *)
EXTENDS SheetsDelivery, TLC

CONSTANTS j1, j2, w1, w2, o1, o2

(* An aged release and a confirmed lead on one tab, one row each.           *)
TwoJobs == {j1, j2}
TwoKinds == (j1 :> "aged_release") @@ (j2 :> "lead")
OneRowEach == (1 :> j1) @@ (2 :> j2)

(* One aged release, of two rows, or of one for a reproduction in README.   *)
OneJob == {j1}
ReleaseKind == j1 :> "aged_release"
OneRow == 1 :> j1
TwoRows == (1 :> j1) @@ (2 :> j1)

(* Two aged releases, of two rows and of one.                               *)
TwoReleases == (j1 :> "aged_release") @@ (j2 :> "aged_release")
TwoRowsAndOne == (1 :> j1) @@ (2 :> j1) @@ (3 :> j2)

TwoWorkers == Permutations({w1, w2})
=============================================================================
