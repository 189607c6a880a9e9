------------------------ MODULE MCFulfillmentExecution ------------------------
(* Instances of FulfillmentExecution for TLC.                               *)
EXTENDS FulfillmentExecution, TLC

CONSTANTS p1, p2, o1, o2, a1, a2, a3, i1, i2, i3, i4, s1, s2

TwoCallers == Permutations({p1, p2})

(* Two orders compete for one stocked lead; one of the allocations has two  *)
(* instructions, and its order a second allocation.                         *)
Rivals == a1 :> o1 @@ a2 :> o2 @@ a3 :> o1
Shared == a1 :> s1 @@ a2 :> s1 @@ a3 :> s2
Split == i1 :> a1 @@ i2 :> a1 @@ i3 :> a2 @@ i4 :> a3
One == [o \in Orders |-> 1]
OneRetry == i1 :> 2 @@ i2 :> 1 @@ i3 :> 1 @@ i4 :> 0
Two == [i \in Instructions |-> 2]
Zero == [o \in Orders |-> 0]

(* One allocation of one order.                                             *)
Alone == a1 :> o1
ItsSource == a1 :> s1
ItsInstruction == i1 :> a1
=============================================================================
