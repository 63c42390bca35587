--------------------------- MODULE MCReturnService ---------------------------
(* Small instances of ReturnService for TLC.                                *)
EXTENDS ReturnService, TLC

CONSTANTS o1, o2, v1, r1, r2, h1, x1, x2

(* o1 bought two units at two cents each, two cents off; o2 buys one.       *)
Amounts == [o \in Orders |-> IF o = o1 THEN 2 ELSE 1]
Quantities == [o \in Orders |-> [v \in Variants |-> IF o = o1 THEN 2 ELSE 1]]
SoldOut == [v \in Variants |-> 0]
OneOrTwoUnits == {[v \in Variants |-> n] : n \in 1..2}
TwoCentsEach == [v \in Variants |-> 2]
TwoOff == [o \in Orders |-> IF o = o1 THEN 2 ELSE 1]

ReturnSymmetry == Permutations(Requests)
=============================================================================
