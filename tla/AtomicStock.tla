----------------------------- MODULE AtomicStock -----------------------------
(***************************************************************************)
(* What the shop promises of stock: a paid order takes all of its units or   *)
(* none, at one moment, and is refused only when a unit it needs is sold;     *)
(* the units of a cancelled order come back together.                       *)
(***************************************************************************)
EXTENDS Naturals

CONSTANTS
  Paid,      (* the paid orders                                            *)
  Goods,     (* the variants                                               *)
  Need       (* Need[o][v]: the units of v that order o is for              *)

VARIABLES
  stock,  (* stock[v]: the units of v for sale                              *)
  state   (* state[o]: "pending", "refused" for now, "short" for good,       *)
          (* "confirmed", "cancelled" after that, or "restocked"            *)

Become(o, s) == state' = [state EXCEPT ![o] = s]

Enough(o) == \A v \in Goods : Need[o][v] <= stock[v]

AtomicInit == stock \in [Goods -> Nat] /\ state = [o \in Paid |-> "pending"]

Sell(o) ==
  /\ state[o] = "pending" /\ Enough(o)
  /\ stock' = [v \in Goods |-> stock[v] - Need[o][v]]
  /\ Become(o, "confirmed")

RunShort(o) ==
  /\ state[o] = "pending" /\ ~Enough(o)
  /\ Become(o, "refused")
  /\ UNCHANGED stock

(* The refusal may be lost, and the payment be looked at again.             *)
Retry(o) == state[o] = "refused" /\ Become(o, "pending") /\ UNCHANGED stock

GiveUp(o) == state[o] = "refused" /\ Become(o, "short") /\ UNCHANGED stock

Cancel(o) == state[o] = "confirmed" /\ Become(o, "cancelled") /\ UNCHANGED stock

Restock(o) ==
  /\ state[o] = "cancelled"
  /\ stock' = [v \in Goods |-> stock[v] + Need[o][v]]
  /\ Become(o, "restocked")

AtomicNext ==
  \E o \in Paid :
    Sell(o) \/ RunShort(o) \/ Retry(o) \/ GiveUp(o) \/ Cancel(o) \/ Restock(o)

AtomicSpec == AtomicInit /\ [][AtomicNext]_<<stock, state>>
=============================================================================
