---------------------------- MODULE OrderService ----------------------------
(***************************************************************************)
(* The order domain (modules/order/order.service.ts): checkout, the        *)
(* confirmation page's polling, cancels, the admin status changes and      *)
(* shipment tracking, composed with the payment domain they call.  Every   *)
(* call reads the order once, decides on what it read, and writes after    *)
(* one or more awaits during which anything else may have run.             *)
(***************************************************************************)
EXTENDS PaymentService, FiniteSetsExt

CONSTANTS
  Calls,   (* the API calls clients make, see CallKinds     *)
  Targets, (* the statuses an admin asks updateStatus for   *)
  MaxCancels (* bound: no further cancel once restocked[o] is this high *)

CallKinds == {"createOrder", "getOrder", "cancelOrder", "updateStatus",
              "setTracking", "refund"}

ASSUME CallAssumption == Calls \subseteq CallKinds
ASSUME MaxCancelsAssumption == MaxCancels \in Nat
ASSUME TargetAssumption == Targets \subseteq OrderStatus \ {"none"}

-----------------------------------------------------------------------------
(* order-status.ts *)
ORDER_TRANSITIONS ==
  [PENDING    |-> {"CANCELLED"},
   CONFIRMED  |-> {"PROCESSING", "SHIPPED", "CANCELLED"},
   PROCESSING |-> {"SHIPPED", "CANCELLED"},
   SHIPPED    |-> {"DELIVERED"},
   DELIVERED  |-> {"COMPLETED"},
   COMPLETED  |-> {},
   CANCELLED  |-> {},
   REFUNDED   |-> {}]

canTransition(from, to) == to \in ORDER_TRANSITIONS[from]

(* Mutant: an unpaid order cancelled as if it were paid.                    *)
PAID_CANCELLABLE_mutant == {"PENDING", "CONFIRMED", "PROCESSING"}

PAID_CANCELLABLE == {"CONFIRMED", "PROCESSING"}

CUSTOMER_CANCELLABLE == {"PENDING"}

(* Mutant: tracking may be set on an order nobody has paid.                 *)
SHIPPABLE_mutant == {"PENDING", "CONFIRMED", "PROCESSING", "SHIPPED"}

SHIPPABLE == {"CONFIRMED", "PROCESSING", "SHIPPED"}

(* A call that has read the order, its status among the locals it keeps.    *)
Loaded(o, pc) == [Begin(o, pc) EXCEPT !.st = order[o]]

-----------------------------------------------------------------------------
zeroDue(o) == Amount[o] = 0

(* createOrder: replay a known key, else build the lines from live stock.   *)
CreateOrder(r, o) ==
  /\ At(r, "idle")
  /\ \/ order[o] # "none" /\ rq' = [rq EXCEPT ![r] = Loaded(o, "replayOrder")]
     \/ /\ order[o] = "none" /\ InStock(o)
        /\ rq' = [rq EXCEPT ![r] = Begin(o, "createOrder:persist")]
  /\ UNCHANGED <<order, payment, processed, stripe, events, goods>>

(* persistOrder, one transaction.  A concurrent submit with the same key    *)
(* may have won the insert; a $0 order takes its stock here or rolls back.  *)
PersistOrder(r) ==
  LET o == rq[r].o
      row(status) == [status |-> status, intentSaved |-> FALSE, refunded |-> 0]
  IN
  /\ At(r, "createOrder:persist")
  /\ \/ /\ order[o] # "none"
        /\ rq' = [rq EXCEPT ![r] = Loaded(o, "replayOrder")]
        /\ UNCHANGED <<order, payment, goods>>
     \/ /\ order[o] = "none" /\ ~zeroDue(o)
        /\ order' = [order EXCEPT ![o] = "PENDING"]
        /\ payment' = [payment EXCEPT ![o] = row("REQUIRES_PAYMENT")]
        /\ Goto(r, "createIntent:stripe")
        /\ UNCHANGED goods
     \/ /\ order[o] = "none" /\ zeroDue(o) /\ InStock(o)
        /\ order' = [order EXCEPT ![o] = "CONFIRMED"]
        /\ payment' = [payment EXCEPT ![o] = row("SUCCEEDED")]
        /\ TakeStock(o)
        /\ RecordRedemption(o)
        /\ Goto(r, "idle")
        /\ UNCHANGED restocked
     \/ /\ order[o] = "none" /\ zeroDue(o) /\ ~InStock(o)
        /\ Goto(r, "idle")
        /\ UNCHANGED <<order, payment, goods>>
  /\ UNCHANGED <<processed, stripe, events>>

(* replayOrder: create the intent the first attempt never saved.            *)
ReplayOrder(r) ==
  LET o == rq[r].o IN
  /\ At(r, "replayOrder")
  /\ Goto(r, IF /\ rq[r].st = "PENDING"
                /\ ~payment[o].intentSaved
                /\ payment[o].status = "REQUIRES_PAYMENT"
             THEN "createIntent:stripe" ELSE "idle")
  /\ UNCHANGED <<order, payment, processed, stripe, events, goods>>

(* getOrder: polling a pending order settles it from Stripe.                *)
GetOrder(r, o) ==
  /\ At(r, "idle")
  /\ order[o] = "PENDING"
  /\ payment[o].status \in {"PROCESSING", "REQUIRES_PAYMENT"}
  /\ payment[o].intentSaved
  /\ rq' = [rq EXCEPT ![r] = Begin(o, "reconcile:stripe")]
  /\ UNCHANGED <<order, payment, processed, stripe, events, goods>>

-----------------------------------------------------------------------------
(* Cancelling an unpaid order: its intent first, then the transition.       *)
CancelUnpaid(r, o) ==
  rq' = [rq EXCEPT ![r] = [Loaded(o, "cancelOpenIntent:find")
                             EXCEPT !.ok = "transition", !.next = "CANCELLED"]]

(* The shopper's own cancel, allowed while the order it read is PENDING.    *)
CancelOrder(r, o) ==
  /\ At(r, "idle")
  /\ order[o] \in CUSTOMER_CANCELLABLE
  /\ CancelUnpaid(r, o)
  /\ UNCHANGED <<order, payment, processed, stripe, events, goods>>

(* The admin's status change; REFUNDED is not a target.                     *)
UpdateStatus(r, o, status) ==
  /\ At(r, "idle")
  /\ order[o] # "none" /\ status # "REFUNDED"
  /\ \/ /\ status = "CANCELLED" /\ order[o] \in PAID_CANCELLABLE
        /\ restocked[o] < MaxCancels
        /\ rq' = [rq EXCEPT ![r] = Loaded(o, "cancelPaidOrder:claim")]
     \/ /\ status = "CANCELLED" /\ order[o] = "PENDING"
        /\ CancelUnpaid(r, o)
     \/ /\ canTransition(order[o], status)
        /\ status # "CANCELLED"
        /\ rq' = [rq EXCEPT ![r] =
                    [Loaded(o, "transition") EXCEPT !.next = status]]
  /\ UNCHANGED <<order, payment, processed, stripe, events, goods>>

(* transition: checked against the status that was read, written whatever   *)
(* the status is by now.                                                    *)
Transition(r) ==
  LET o == rq[r].o IN
  /\ At(r, "transition")
  /\ order' = [order EXCEPT ![o] =
                 IF canTransition(rq[r].st, rq[r].next) THEN rq[r].next ELSE @]
  /\ Goto(r, "idle")
  /\ UNCHANGED <<payment, processed, stripe, events, goods>>

(* setTracking: the shipment event is always recorded; only an order that   *)
(* was not yet SHIPPED when it was read moves, so only that call is a step. *)
SetTracking(r, o) ==
  /\ At(r, "idle")
  /\ order[o] \in SHIPPABLE \ {"SHIPPED"}
  /\ rq' = [rq EXCEPT ![r] = Loaded(o, "setTracking")]
  /\ UNCHANGED <<order, payment, processed, stripe, events, goods>>

Ship(r) ==
  LET o == rq[r].o IN
  /\ At(r, "setTracking")
  /\ order' = [order EXCEPT ![o] = "SHIPPED"]
  /\ Goto(r, "idle")
  /\ UNCHANGED <<payment, processed, stripe, events, goods>>

-----------------------------------------------------------------------------
(* cancelPaidOrder: claim, refund what is still captured, then restock and  *)
(* release the coupon; a refund that throws undoes the claim.               *)
ClaimCancel(r) ==
  LET o == rq[r].o IN
  /\ At(r, "cancelPaidOrder:claim")
  /\ IF order[o] = rq[r].st
     THEN /\ order' = [order EXCEPT ![o] = "CANCELLED"]
          /\ Goto(r, "cancelPaidOrder:payment")
     ELSE Goto(r, "idle") /\ UNCHANGED order
  /\ UNCHANGED <<payment, processed, stripe, events, goods>>

(* Mutant: forgets the payments that were refunded in part.                 *)
RefundCancelled_mutant(r) ==
  LET o == rq[r].o
      captured == payment[o].status = "SUCCEEDED" /\ payment[o].intentSaved
  IN
  /\ At(r, "cancelPaidOrder:payment")
  /\ rq' = [rq EXCEPT ![r] =
              IF captured
              THEN [@ EXCEPT !.pc = "processRefund:read", !.want = 0,
                             !.ok = "cancelPaidOrder:restock",
                             !.err = "cancelPaidOrder:undo"]
              ELSE [@ EXCEPT !.pc = "cancelPaidOrder:restock"]]
  /\ UNCHANGED <<order, payment, processed, stripe, events, goods>>

RefundCancelled(r) ==
  LET o == rq[r].o
      captured == /\ payment[o].status \in {"SUCCEEDED", "PARTIALLY_REFUNDED"}
                  /\ payment[o].intentSaved
                  /\ Refundable(o) > 0
  IN
  /\ At(r, "cancelPaidOrder:payment")
  /\ rq' = [rq EXCEPT ![r] =
              IF captured
              THEN [@ EXCEPT !.pc = "processRefund:read", !.want = 0,
                             !.ok = "cancelPaidOrder:restock",
                             !.err = "cancelPaidOrder:undo"]
              ELSE [@ EXCEPT !.pc = "cancelPaidOrder:restock"]]
  /\ UNCHANGED <<order, payment, processed, stripe, events, goods>>

(* Mutant: resets the order to PENDING, not to the status it had.           *)
UndoCancel_mutant(r) ==
  LET o == rq[r].o IN
  /\ At(r, "cancelPaidOrder:undo")
  /\ order' = [order EXCEPT ![o] = IF @ = "CANCELLED" THEN "PENDING" ELSE @]
  /\ Goto(r, "idle")
  /\ UNCHANGED <<payment, processed, stripe, events, goods>>

UndoCancel(r) ==
  LET o == rq[r].o IN
  /\ At(r, "cancelPaidOrder:undo")
  /\ order' = [order EXCEPT ![o] = IF @ = "CANCELLED" THEN rq[r].st ELSE @]
  /\ Goto(r, "idle")
  /\ UNCHANGED <<payment, processed, stripe, events, goods>>

(* Mutant: takes the stock once more where it should give it back.          *)
Restock_mutant(r) ==
  LET o == rq[r].o IN
  /\ At(r, "cancelPaidOrder:restock")
  /\ stock' = [v \in Variants |-> stock[v] - Quantity[o][v]]
  /\ restocked' = [restocked EXCEPT ![o] = @ + 1]
  /\ redemptions' = redemptions \ {o}
  /\ Goto(r, "idle")
  /\ UNCHANGED <<order, payment, processed, stripe, events, sold>>

Restock(r) ==
  LET o == rq[r].o IN
  /\ At(r, "cancelPaidOrder:restock")
  /\ stock' = [v \in Variants |-> stock[v] + Quantity[o][v]]
  /\ restocked' = [restocked EXCEPT ![o] = @ + 1]
  /\ redemptions' = redemptions \ {o}
  /\ Goto(r, "idle")
  /\ UNCHANGED <<order, payment, processed, stripe, events, sold>>

-----------------------------------------------------------------------------
(* A client sends one of the calls.                                         *)
Request(r, o) ==
  \/ "createOrder"  \in Calls /\ CreateOrder(r, o)
  \/ "getOrder"     \in Calls /\ GetOrder(r, o)
  \/ "cancelOrder"  \in Calls /\ CancelOrder(r, o)
  \/ "updateStatus" \in Calls /\ \E s \in Targets : UpdateStatus(r, o, s)
  \/ "setTracking"  \in Calls /\ SetTracking(r, o)
  \/ "refund"       \in Calls /\ \E a \in RefundAmounts \cup {0} : Refund(r, o, a)

(* A call in progress takes its next step.                                  *)
OrderStep(r) ==
  \/ PersistOrder(r) \/ ReplayOrder(r)
  \/ Transition(r) \/ Ship(r)
  \/ ClaimCancel(r) \/ RefundCancelled(r) \/ UndoCancel(r) \/ Restock(r)

Progress(r) == PaymentStep(r) \/ OrderStep(r)

Next ==
  \/ \E r \in Requests, o \in Orders : Request(r, o)
  \/ \E r \in Actors : Progress(r) \/ Crash(r)
  \/ \E h \in Hooks, e \in events : HandleEvent(h, e)
  \/ \E o \in Orders : Outside(o)

Spec == Init /\ [][Next]_vars

(***************************************************************************)
(* A request that was accepted runs on (Node's event loop starves nobody), *)
(* and Stripe redelivers an event until a delivery of it is acknowledged.  *)
(* Nothing obliges a client to send a call or a shopper to pay.            *)
(***************************************************************************)
Delivery(o, type, total) == \E h \in Hooks : HandleEvent(h, Event(type, o, total))

Fairness ==
  /\ \A r \in Actors : WF_vars(Progress(r))
  /\ \A o \in Orders, type \in EventTypes : \A total \in 0..Amount[o] :
       WF_vars(Delivery(o, type, total))

FairSpec == Spec /\ Fairness

-----------------------------------------------------------------------------
(* Where a request may be suspended.                                        *)
Steps ==
  {"idle", "createOrder:persist", "replayOrder",
   "createIntent:stripe", "createIntent:save",
   "cancelOpenIntent:find", "cancelOpenIntent:stripe", "cancelOpenIntent:fail",
   "reconcile:stripe", "reconcile:succeeded", "reconcile:failed",
   "processRefund:read", "processRefund:reserve", "processRefund:stripe",
   "processRefund:release", "processRefund:record", "syncRefund:write",
   "transition", "setTracking", "cancelPaidOrder:claim",
   "cancelPaidOrder:payment", "cancelPaidOrder:restock", "cancelPaidOrder:undo"}

RequestState ==
  [pc : Steps, o : Orders \cup {"none"}, st : OrderStatus, next : OrderStatus,
   want : Nat, base : Int, amt : Nat,
   ok : {"idle", "transition", "cancelPaidOrder:restock"},
   err : {"idle", "cancelPaidOrder:undo"}]

(* Every row holds values of its columns' types, no variant's stock is ever *)
(* negative, and a request that is under way is about some order.           *)
TypeOK ==
  /\ order \in [Orders -> OrderStatus]
  /\ payment \in [Orders -> [status : PaymentStatus, intentSaved : BOOLEAN,
                             refunded : Int]]
  /\ stock \in [Variants -> Nat]
  /\ redemptions \subseteq CouponOrders
  /\ stripe \in [Orders -> [intent : IntentStatus, refunded : Nat,
                            keys : SUBSET (Int \X Nat)]]
  /\ events \subseteq [type : EventTypes, o : Orders, total : Nat]
  /\ processed \subseteq [type : EventTypes, o : Orders, total : Nat]
  /\ rq \in [Actors -> RequestState]
  /\ \A r \in Actors : rq[r].pc # "idle" => rq[r].o \in Orders
  /\ sold \in [Orders -> Nat] /\ restocked \in [Orders -> Nat]

Captured(o) == zeroDue(o) \/ stripe[o].intent = "succeeded"

(* Goods leave only against money: an order being fulfilled was captured at *)
(* Stripe (or cost nothing) and took its stock exactly once, however stale  *)
(* the status changes, retries, webhooks and restarts that led to it were.  *)
FulfilledWasPaid ==
  \A o \in Orders : order[o] \in Fulfilling => Captured(o) /\ sold[o] = 1

(* The confirmation side effects happen at most once per order and never    *)
(* before it leaves PENDING: webhook, redelivery and polling all confirm    *)
(* through markSucceeded's conditional update, and they race freely.        *)
EffectsOnce ==
  \A o \in Orders :
    /\ sold[o] <= 1
    /\ order[o] \in {"none", "PENDING"} => sold[o] = 0
    /\ o \in redemptions => sold[o] = 1

(* No interleaving of refunds, paid cancels and syncs makes the row claim   *)
(* more money returned than was captured (processRefund's reservation).     *)
RefundWithinCapture == \A o \in Orders : payment[o].refunded <= Amount[o]

(* No two calls are under way for the same order, a webhook that refunds an *)
(* orphaned payment counted; other webhooks and payments come at any time.  *)
(* What the code keeps right only then is claimed only then.                *)
OneCallPerOrder ==
  \A r, s \in Actors :
    ~At(r, "idle") /\ ~At(s, "idle") /\ rq[r].o = rq[s].o => r = s

(* When nothing is in progress the row's refunded total equals Stripe's: a  *)
(* refused refund has given its whole reservation back, an accepted one has *)
(* kept it, whatever refunds came before.                                   *)
MirrorsStripe ==
  Quiet => \A o \in Orders : payment[o].refunded = stripe[o].refunded

Units(S, v) == MapThenSumSet(LAMBDA o : Quantity[o][v], S)

(* The shop never promises units it does not have: the orders on their way  *)
(* to a customer never need more of a variant than there ever was.          *)
NeverOversold ==
  \A v \in Variants :
    Units({o \in Orders : order[o] \in Fulfilling}, v) <= InitialStock[v]

(* Only stock that an order took goes back, and goes back once, however     *)
(* many admins cancel the order at a time.                                  *)
RestockedAtMostOnce == \A o \in Orders : restocked[o] <= sold[o]

(* Money that arrived is never forgotten: once Stripe captured the payment, *)
(* the order leaves PENDING, by webhook or by polling, despite declines,    *)
(* refusals, lost answers and restarts.                                     *)
PaidOrderSettles ==
  \A o \in Orders :
    (stripe[o].intent = "succeeded") ~> (order[o] \notin {"none", "PENDING"})

(* A payment that lands on an order whose goods were sold out in the        *)
(* meantime is returned in full, and the order shows it.                    *)
OrphanRefunded ==
  \A o \in Orders :
    (stripe[o].intent = "succeeded" /\ order[o] = "CANCELLED")
      ~> (stripe[o].refunded = Amount[o] /\ order[o] = "REFUNDED")

-----------------------------------------------------------------------------
(* What the repository says of the order flow and the code does not keep.   *)

(* Order service: a cancel "never leaves money uncaptured": an order that   *)
(* ends CANCELLED after its money was captured has had the money returned.  *)
CancelledMoneyReturned ==
  Quiet /\ events = processed =>
    \A o \in Orders : order[o] = "CANCELLED" /\ stripe[o].intent = "succeeded" =>
                      stripe[o].refunded = Amount[o]

(* Order service: "cancelling a paid order refunds it and restocks it": the *)
(* goods never go back on the shelf while the shop keeps the money.         *)
RestockedMeansRefunded ==
  Quiet => \A o \in Orders :
    restocked[o] > 0 /\ stripe[o].intent = "succeeded" =>
      stripe[o].refunded = Amount[o]

(* processRefund "updates the Payment (refundedAmount + status)": at rest   *)
(* the status says REFUNDED exactly when the whole amount went back.        *)
RefundStatusMatches ==
  Quiet => \A o \in Orders :
    payment[o].status \in {"PARTIALLY_REFUNDED", "REFUNDED"} =>
      (payment[o].status = "REFUNDED" <=> payment[o].refunded = Amount[o])
=============================================================================
