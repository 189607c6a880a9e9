----------------------- MODULE MCDeliveryNotification -----------------------
(* Instances of DeliveryNotification for TLC.                               *)
EXTENDS DeliveryNotification, TLC

CONSTANTS s1, s2, q1, m1, m2
=============================================================================
