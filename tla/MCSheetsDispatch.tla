-------------------------- MODULE MCSheetsDispatch --------------------------
(* Instances of SheetsDispatch for TLC.                                     *)
EXTENDS SheetsDispatch, TLC

CONSTANTS d1, d2

(* An aged release and a campaign lead, or one of them.  Two leads and a    *)
(* release before two leads are for the reproductions the README names.     *)
AgedFirst == (1 :> "aged_release") @@ (2 :> "campaign_lead")
AgedThenLeads == (1 :> "aged_release") @@ (2 :> "campaign_lead") @@ (3 :> "campaign_lead")
OneRelease == 1 :> "aged_release"
OneLead == 1 :> "campaign_lead"
TwoLeads == (1 :> "campaign_lead") @@ (2 :> "campaign_lead")

TwoDrains == Permutations({d1, d2})
=============================================================================
