---------------------------- MODULE ReturnService ----------------------------
(***************************************************************************)
(* Returns (modules/order/order.service.ts), composed with the refunds of  *)
(* the payment domain.  A customer of a delivered order asks to send units *)
(* back; an admin approves, which restocks and refunds them, or rejects.   *)
(* Meanwhile other customers' payments are being confirmed from the same   *)
(* stock, and other admins refund the same payment.                        *)
(***************************************************************************)
EXTENDS PaymentService, FiniteSetsExt

CONSTANTS
  Delivered,   (* the orders that arrived; the others were just paid for   *)
  Returns,     (* bound: the return requests that may be filed             *)
  ReturnItems, (* the item lists a customer may file, units per variant    *)
  UnitPrice,   (* UnitPrice[v], in cents                                   *)
  Discount,    (* Discount[o]: Order.discountTotal                         *)
  Calls        (* the API calls clients make                               *)

ASSUME DeliveredAssumption == Delivered \subseteq Orders
ASSUME ItemsAssumption == ReturnItems \subseteq [Variants -> Nat]
ASSUME PriceAssumption == UnitPrice \in [Variants -> Nat] /\ Discount \in [Orders -> Nat]
ASSUME FiniteAssumption ==
  IsFiniteSet(Orders) /\ IsFiniteSet(Variants) /\ IsFiniteSet(Returns)
ASSUME CallAssumption ==
  Calls \subseteq {"requestReturn", "approveReturn", "rejectReturn", "refund"}

VARIABLE returns   (* returns[x]: the ReturnRequest row x                   *)

returnVars == <<vars, returns>>

Null == -1         (* refundAmount of a return no refund was recorded for   *)

ReturnStatus == {"none", "REQUESTED", "APPROVED", "REJECTED"}

RETURN_ELIGIBLE == {"DELIVERED", "COMPLETED"}

(* Delivered orders were captured and took their stock; the money of the    *)
(* others has just arrived, and its webhook event is on the way.            *)
ReturnInit ==
  /\ order = [o \in Orders |-> IF o \in Delivered THEN "DELIVERED" ELSE "PENDING"]
  /\ payment = [o \in Orders |->
                  [status |-> IF o \in Delivered THEN "SUCCEEDED" ELSE "PROCESSING",
                   intentSaved |-> TRUE, refunded |-> 0]]
  /\ stock = InitialStock
  /\ redemptions = {}
  /\ stripe = [o \in Orders |->
                 [intent |-> "succeeded", refunded |-> 0, keys |-> {}]]
  /\ events = {Event("succeeded", o, 0) : o \in Orders}
  /\ processed = {Event("succeeded", o, 0) : o \in Delivered}
  /\ rq = [r \in Actors |-> Idle]
  /\ sold = [o \in Orders |-> IF o \in Delivered THEN 1 ELSE 0]
  /\ restocked = [o \in Orders |-> 0]
  /\ returns = [x \in Returns |->
                  [status |-> "none", o |-> "none",
                   items |-> [v \in Variants |-> 0], refund |-> Null]]

(* The units of v in the returns X.                                         *)
UnitsIn(X, v) == MapThenSumSet(LAMBDA x : returns[x].items[v], X)

(* The locals of a call that handles return x; a refund it makes continues  *)
(* at "record" and, when it throws, at "undo".                              *)
ReturnCall(x, pc) ==
  [pc |-> pc, o |-> returns[x].o, st |-> "none", next |-> "none",
   want |-> 0, base |-> 0, amt |-> 0,
   ok |-> "approveReturn:record", err |-> "approveReturn:undo", ret |-> x]

-----------------------------------------------------------------------------
(* requestReturn: eligibility is checked on a plain read, the quantities    *)
(* under a lock on the order row, in the transaction that inserts.          *)
RequestReturn(r, o) ==
  /\ At(r, "idle")
  /\ order[o] \in RETURN_ELIGIBLE
  /\ rq' = [rq EXCEPT ![r] = Begin(o, "requestReturn:insert")]
  /\ UNCHANGED <<order, payment, processed, stripe, events, goods, returns>>

(* Mutant: units of an approved return may be sent back again.              *)
CountsAgainst_mutant(o) ==
  {x \in Returns : returns[x].o = o /\ returns[x].status = "REQUESTED"}

(* The returns of o whose units cannot be returned again.                   *)
CountsAgainst(o) ==
  {x \in Returns : returns[x].o = o /\ returns[x].status # "REJECTED"}

Returnable(o, items) ==
  \A v \in Variants : items[v] <= Quantity[o][v] - UnitsIn(CountsAgainst(o), v)

InsertReturn(r) ==
  LET o == rq[r].o
      row(items) == [status |-> "REQUESTED", o |-> o, items |-> items, refund |-> Null]
      free == {x \in Returns : returns[x].status = "none"}
  IN
  /\ At(r, "requestReturn:insert")
  /\ \E items \in ReturnItems :
       returns' = IF Returnable(o, items) /\ free # {}
                  THEN [returns EXCEPT ![CHOOSE x \in free : TRUE] = row(items)]
                  ELSE returns
  /\ Goto(r, "idle")
  /\ UNCHANGED <<order, payment, processed, stripe, events, goods>>

-----------------------------------------------------------------------------
(* Math.round for non-negative numbers.                                     *)
Round(n, d) == (2 * n + d) \div (2 * d)

Smaller(a, b) == IF a < b THEN a ELSE b

Price(units) == MapThenSumSet(LAMBDA v : UnitPrice[v] * units[v], Variants)

(* returnRefundCents: what was paid for the units, that is their price less *)
(* their share of the discount, capped at what is left to refund.           *)
returnRefundCents(o, items) ==
  LET subtotal == Price(Quantity[o])
      gross == Price(items)
      share == IF subtotal > 0
               THEN Round(Smaller(Discount[o], subtotal) * gross, subtotal) ELSE 0
      refundable == IF payment[o].status = "SUCCEEDED" \/ payment[o].refunded > 0
                    THEN Refundable(o) ELSE 0
  IN Smaller(gross - share, refundable)

(* approveReturn: load a pending return, then its order and the payment.    *)
(* Stripe is configured: without its keys the refund would be skipped and    *)
(* the return stay approved with a refund of zero.                          *)
ApproveReturn(r, x) ==
  /\ At(r, "idle")
  /\ returns[x].status = "REQUESTED"
  /\ rq' = [rq EXCEPT ![r] = ReturnCall(x, "approveReturn:read")]
  /\ UNCHANGED <<order, payment, processed, stripe, events, goods, returns>>

ReadReturnRefund(r) ==
  LET x == rq[r].ret IN
  /\ At(r, "approveReturn:read")
  /\ rq' = [rq EXCEPT ![r].pc = "approveReturn:claim",
                      ![r].want = returnRefundCents(returns[x].o, returns[x].items)]
  /\ UNCHANGED <<order, payment, processed, stripe, events, goods, returns>>

Shelve(x, sign) ==
  stock' = [v \in Variants |-> stock[v] + sign * returns[x].items[v]]

(* Mutant: approves and restocks whatever the status is by now.             *)
ClaimReturn_mutant(r) ==
  LET x == rq[r].ret IN
  /\ At(r, "approveReturn:claim")
  /\ returns' = [returns EXCEPT ![x].status = "APPROVED"]
  /\ Shelve(x, 1)
  /\ Goto(r, IF rq[r].want > 0 THEN "processRefund:read" ELSE "approveReturn:record")
  /\ UNCHANGED <<order, payment, processed, stripe, events,
                 redemptions, sold, restocked>>

(* One transaction: the conditional update that claims, and the restock.    *)
ClaimReturn(r) ==
  LET x == rq[r].ret IN
  /\ At(r, "approveReturn:claim")
  /\ \/ /\ returns[x].status = "REQUESTED"
        /\ returns' = [returns EXCEPT ![x].status = "APPROVED"]
        /\ Shelve(x, 1)
        /\ Goto(r, IF rq[r].want > 0 THEN "processRefund:read"
                   ELSE "approveReturn:record")
     \/ /\ returns[x].status # "REQUESTED"
        /\ Goto(r, "idle")
        /\ UNCHANGED <<stock, returns>>
  /\ UNCHANGED <<order, payment, processed, stripe, events,
                 redemptions, sold, restocked>>

(* The refund failed: release the claim and undo the restock.  The database *)
(* refuses a negative stock, and with it the whole transaction.             *)
UndoApproval(r) ==
  LET x == rq[r].ret IN
  /\ At(r, "approveReturn:undo")
  /\ \/ /\ \A v \in Variants : stock[v] >= returns[x].items[v]
        /\ returns' = [returns EXCEPT ![x].status =
                         IF @ = "APPROVED" THEN "REQUESTED" ELSE @]
        /\ Shelve(x, -1)
     \/ /\ \E v \in Variants : stock[v] < returns[x].items[v]
        /\ UNCHANGED <<stock, returns>>
  /\ Goto(r, "idle")
  /\ UNCHANGED <<order, payment, processed, stripe, events,
                 redemptions, sold, restocked>>

RecordReturn(r) ==
  /\ At(r, "approveReturn:record")
  /\ returns' = [returns EXCEPT ![rq[r].ret].refund = rq[r].amt]
  /\ Goto(r, "idle")
  /\ UNCHANGED <<order, payment, processed, stripe, events, goods>>

(* rejectReturn: load a pending return, then write REJECTED by its id.      *)
RejectReturn(r, x) ==
  /\ At(r, "idle")
  /\ returns[x].status = "REQUESTED"
  /\ rq' = [rq EXCEPT ![r] = ReturnCall(x, "rejectReturn:write")]
  /\ UNCHANGED <<order, payment, processed, stripe, events, goods, returns>>

WriteRejection(r) ==
  /\ At(r, "rejectReturn:write")
  /\ returns' = [returns EXCEPT ![rq[r].ret].status = "REJECTED"]
  /\ Goto(r, "idle")
  /\ UNCHANGED <<order, payment, processed, stripe, events, goods>>

-----------------------------------------------------------------------------
ReturnRequest(r) ==
  \/ "requestReturn" \in Calls /\ \E o \in Delivered : RequestReturn(r, o)
  \/ "approveReturn" \in Calls /\ \E x \in Returns : ApproveReturn(r, x)
  \/ "rejectReturn" \in Calls /\ \E x \in Returns : RejectReturn(r, x)
  \/ /\ "refund" \in Calls
     /\ \E o \in Delivered, a \in RefundAmounts \cup {0} : Refund(r, o, a)
     /\ UNCHANGED returns

ReturnStep(r) ==
  \/ InsertReturn(r) \/ ReadReturnRefund(r) \/ ClaimReturn(r) \/ UndoApproval(r)
  \/ RecordReturn(r) \/ WriteRejection(r)

ReturnNext ==
  \/ \E r \in Requests : ReturnRequest(r) \/ ReturnStep(r)
  \/ \E r \in Actors : (PaymentStep(r) \/ Crash(r)) /\ UNCHANGED returns
  \/ \E h \in Hooks, e \in events : HandleEvent(h, e) /\ UNCHANGED returns

ReturnSpec == ReturnInit /\ [][ReturnNext]_returnVars

-----------------------------------------------------------------------------
(* Concurrent requests never claim more units than were bought, whatever    *)
(* approvals, undone approvals and rejections happen between them.          *)
ReturnsFitPurchase ==
  \A o \in Delivered, v \in Variants :
    UnitsIn({x \in CountsAgainst(o) : returns[x].status # "none"}, v) <= Quantity[o][v]

(* The units of v that returns put back on the shelf.                       *)
PutBack(v) ==
  stock[v] - InitialStock[v]
    + MapThenSumSet(LAMBDA o : sold[o] * Quantity[o][v], Orders \ Delivered)

(* An approved return's units are on the shelf or were sold again, and the  *)
(* units of one return go back at most once, however approvals, failed      *)
(* refunds and rejections of it race.                                       *)
ReturnsRestockedOnce ==
  \A v \in Variants :
    /\ UnitsIn({x \in Returns : returns[x].status = "APPROVED"}, v) <= PutBack(v)
    /\ PutBack(v) <=
         UnitsIn({x \in Returns : returns[x].status \in {"APPROVED", "REJECTED"}}, v)

-----------------------------------------------------------------------------
(* What the repository says of returns and the code does not keep.          *)

(* approveReturn: "the units are restocked and refunded exactly once": no   *)
(* more units come back than were delivered.                                *)
DeliveredUnitsReturnOnce ==
  \A v \in Variants :
    PutBack(v) <= MapThenSumSet(LAMBDA o : Quantity[o][v], Delivered)
=============================================================================
