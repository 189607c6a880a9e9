---------------------------- MODULE MCGhlDelivery ----------------------------
(* Instances of GhlDelivery for TLC.                                        *)
EXTENDS GhlDelivery, TLC

CONSTANTS w1, w2, o1, l1

TwoWorkers == Permutations({w1, w2})
=============================================================================
