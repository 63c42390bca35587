--------------------------- MODULE MCOrderService ---------------------------
(* Small instances of OrderService for TLC.                                 *)
EXTENDS OrderService, TLC

CONSTANTS o1, o2, v1, r1, r2, h1

OneCent == [o \in Orders |-> 1]
ThreeCents == [o \in Orders |-> 3]
OneFree == [o \in Orders |-> IF o = o1 THEN 1 ELSE 0]
OneEach == [o \in Orders |-> [v \in Variants |-> 1]]
OneUnit == [v \in Variants |-> 1]
TwoUnits == [v \in Variants |-> 2]

RequestSymmetry == Permutations(Requests)
OrderSymmetry == RequestSymmetry \cup Permutations(Orders)
=============================================================================
