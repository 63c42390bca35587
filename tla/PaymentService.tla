--------------------------- MODULE PaymentService ---------------------------
(***************************************************************************)
(* The payment domain of the backend (modules/payment/payment.service.ts)  *)
(* with the rows it shares with the order domain: one Order and one        *)
(* Payment row per checkout, the stock of the variants it sells, and the   *)
(* coupon redemptions.  Stripe is the other party: it owns a PaymentIntent *)
(* per order, its own count of the money it gave back, and a set of        *)
(* webhook events it may deliver late, repeatedly or in any order.         *)
(*                                                                         *)
(* Every HTTP request is an actor of Requests.  A request runs from one    *)
(* await to the next; a database transaction is one step, and so is a call *)
(* to Stripe.  Whatever a request read earlier it keeps in its own record  *)
(* rq[r], stale or not, exactly as the code keeps it in a local variable.  *)
(* A request that ends goes back to Idle and may serve another call, so    *)
(* the number of requests bounds concurrency and not the number of calls.  *)
(*                                                                         *)
(* An order is named by its idempotency key, which the database keeps      *)
(* unique, so Orders is the set of keys the clients ever submit.           *)
(***************************************************************************)
EXTENDS Integers, FiniteSets

CONSTANTS
  Orders,        (* checkout attempts, one per idempotency key              *)
  Variants,      (* product variants                                        *)
  Requests,      (* concurrent HTTP requests of customers and admins        *)
  Hooks,         (* concurrent webhook deliveries                           *)
  Amount,        (* Amount[o]: the grand total of o, in cents               *)
  Quantity,      (* Quantity[o][v]: units of v that o buys                  *)
  InitialStock,  (* InitialStock[v]                                         *)
  CouponOrders,  (* the orders checked out with the coupon applied          *)
  UsageLimit,    (* the usageLimit of that coupon                           *)
  RefundAmounts, (* explicit partial amounts an admin may type in           *)
  Faults         (* what may go wrong outside the code, see FaultKinds      *)

(***************************************************************************)
(* "decline": the card is declined.  "refuse": Stripe rejects a refund or  *)
(* a cancel.  "lost": Stripe acts but the answer is lost, and the SDK      *)
(* throws.  "crash": the server restarts in the middle of a request.       *)
(* "dashboard": someone refunds or cancels in the Stripe Dashboard.        *)
(***************************************************************************)
FaultKinds == {"decline", "refuse", "lost", "crash", "dashboard"}

ASSUME AmountAssumption == Amount \in [Orders -> Nat]
ASSUME QuantityAssumption == Quantity \in [Orders -> [Variants -> Nat]]
ASSUME StockAssumption == InitialStock \in [Variants -> Nat]
ASSUME CouponAssumption == CouponOrders \subseteq Orders /\ UsageLimit \in Nat
ASSUME RefundAssumption == RefundAmounts \subseteq (Nat \ {0})
ASSUME FaultAssumption == Faults \subseteq FaultKinds

VARIABLES
  order,       (* order[o]: Order.status, "none" before the row exists      *)
  payment,     (* payment[o]: the Payment row of o                          *)
  stock,       (* stock[v]: ProductVariant.stock                            *)
  redemptions, (* the orders that hold a CouponRedemption                   *)
  processed,   (* ProcessedWebhookEvent: the events handled so far          *)
  stripe,      (* stripe[o]: what Stripe knows of o                         *)
  events,      (* the webhook events Stripe has emitted                     *)
  rq,          (* rq[r]: where request r is, and what it remembers          *)
  sold,        (* history: how often the stock of o was taken               *)
  restocked    (* history: how often a cancel gave the stock of o back      *)

vars == <<order, payment, stock, redemptions, processed, stripe, events, rq,
          sold, restocked>>

(* The rows only a confirmation or a cancel of a paid order writes.         *)
goods == <<stock, redemptions, sold, restocked>>

-----------------------------------------------------------------------------
(* Mutant: forgets that a declined card can be retried on the same intent.  *)
UNPAID_STATUSES_mutant == {"REQUIRES_PAYMENT", "PROCESSING"}

UNPAID_STATUSES == {"REQUIRES_PAYMENT", "PROCESSING", "FAILED"}

PaymentStatus ==
  UNPAID_STATUSES \cup {"none", "SUCCEEDED", "PARTIALLY_REFUNDED", "REFUNDED"}

OrderStatus ==
  {"none", "PENDING", "CONFIRMED", "PROCESSING", "SHIPPED", "DELIVERED",
   "COMPLETED", "CANCELLED", "REFUNDED"}

(* The statuses of an order whose goods are on their way or delivered.      *)
Fulfilling == {"CONFIRMED", "PROCESSING", "SHIPPED", "DELIVERED", "COMPLETED"}

IntentStatus == {"none", "open", "declined", "succeeded", "canceled"}

(* A charge.refunded event carries the cumulative amount; others carry 0.   *)
Event(type, o, total) == [type |-> type, o |-> o, total |-> total]

EventTypes == {"succeeded", "failed", "canceled", "refunded"}

(***************************************************************************)
(* The locals of a request: the order it is about, the status it read, the *)
(* status it wants to write, the amount it was asked to refund (0: all     *)
(* that is left), the balance and the amount it validated, and where it    *)
(* continues when the call it is inside returns or throws.                 *)
(***************************************************************************)
Begin(o, pc) ==
  [pc |-> pc, o |-> o, st |-> "none", next |-> "none",
   want |-> 0, base |-> 0, amt |-> 0, ok |-> "idle", err |-> "idle"]

Idle == Begin("none", "idle")

Actors == Requests \cup Hooks

At(r, pc) == rq[r].pc = pc

(* Go to a step of the same call; "idle" ends the request.                  *)
Goto(r, pc) ==
  rq' = [rq EXCEPT ![r] = IF pc = "idle" THEN Idle ELSE [@ EXCEPT !.pc = pc]]

Refundable(o) == Amount[o] - payment[o].refunded

Init ==
  /\ order = [o \in Orders |-> "none"]
  /\ payment = [o \in Orders |->
                  [status |-> "none", intentSaved |-> FALSE, refunded |-> 0]]
  /\ stock = InitialStock
  /\ redemptions = {}
  /\ processed = {}
  /\ stripe = [o \in Orders |->
                 [intent |-> "none", refunded |-> 0, keys |-> {}]]
  /\ events = {}
  /\ rq = [r \in Actors |-> Idle]
  /\ sold = [o \in Orders |-> 0]
  /\ restocked = [o \in Orders |-> 0]

-----------------------------------------------------------------------------
(* createIntent.  Stripe's idempotency key makes every call for one order   *)
(* return the same intent; the row is then updated whatever it says by now. *)
CreateIntent(r) ==
  LET o == rq[r].o IN
  /\ At(r, "createIntent:stripe")
  /\ \/ /\ stripe' = [stripe EXCEPT ![o].intent = IF @ = "none" THEN "open" ELSE @]
        /\ \/ Goto(r, "createIntent:save")
           \/ "lost" \in Faults /\ Goto(r, "idle")
     \/ Goto(r, "idle") /\ UNCHANGED stripe            (* Stripe answers an error *)
  /\ UNCHANGED <<order, payment, processed, events, goods>>

SaveIntent(r) ==
  LET o == rq[r].o IN
  /\ At(r, "createIntent:save")
  /\ payment' = [payment EXCEPT ![o].intentSaved = TRUE, ![o].status = "PROCESSING"]
  /\ Goto(r, "idle")
  /\ UNCHANGED <<order, processed, stripe, events, goods>>

-----------------------------------------------------------------------------
(* cancelOpenIntent: find the unpaid payment, make its intent unpayable at  *)
(* Stripe, then mark it FAILED.  Without an unpaid payment it just returns. *)
FindOpenPayment(r) ==
  LET p == payment[rq[r].o] IN
  /\ At(r, "cancelOpenIntent:find")
  /\ Goto(r, CASE p.status \notin UNPAID_STATUSES -> rq[r].ok
               [] p.intentSaved -> "cancelOpenIntent:stripe"
               [] OTHER -> "cancelOpenIntent:fail")
  /\ UNCHANGED <<order, payment, processed, stripe, events, goods>>

CancelIntent(r) ==
  LET o == rq[r].o IN
  /\ At(r, "cancelOpenIntent:stripe")
  /\ \/ /\ stripe[o].intent \in {"open", "declined"}
        /\ stripe' = [stripe EXCEPT ![o].intent = "canceled"]
        /\ events' = events \cup {Event("canceled", o, 0)}
        /\ Goto(r, "cancelOpenIntent:fail")
     \/ /\ stripe[o].intent = "canceled"
        /\ Goto(r, "cancelOpenIntent:fail")
        /\ UNCHANGED <<stripe, events>>
     \/ /\ stripe[o].intent = "succeeded" \/ "refuse" \in Faults
        /\ stripe[o].intent # "canceled"
        /\ Goto(r, "idle")                             (* 400: being paid *)
        /\ UNCHANGED <<stripe, events>>
  /\ UNCHANGED <<order, payment, processed, goods>>

FailPayment(r) ==
  LET o == rq[r].o IN
  /\ At(r, "cancelOpenIntent:fail")
  /\ payment' = [payment EXCEPT ![o].status =
                   IF @ \in UNPAID_STATUSES THEN "FAILED" ELSE @]
  /\ Goto(r, rq[r].ok)
  /\ UNCHANGED <<order, processed, stripe, events, goods>>

-----------------------------------------------------------------------------
(* Mutant: takeStock without its "stock at least quantity" condition.       *)
InStock_mutant(o) == \A v \in Variants : stock[v] >= 0

(* takeStock for every line of o, and the give-back when one is missing.    *)
InStock(o) == \A v \in Variants : stock[v] >= Quantity[o][v]

TakeStock(o) ==
  /\ stock' = [v \in Variants |-> stock[v] - Quantity[o][v]]
  /\ sold' = [sold EXCEPT ![o] = @ + 1]

(* recordRedemption, under the lock on the coupon row: over the limit the   *)
(* order still confirms, the redemption is just not recorded.               *)
RecordRedemption(o) ==
  redemptions' = redemptions \cup
    (IF o \in CouponOrders /\ Cardinality(redemptions) < UsageLimit
     THEN {o} ELSE {})

(***************************************************************************)
(* The transaction of markSucceeded for order o; orphaned is where the     *)
(* caller goes when the money landed on an order it may not confirm.       *)
(***************************************************************************)
MarkSucceeded(r, o, orphaned) ==
  IF ~payment[o].intentSaved \/ payment[o].status \notin UNPAID_STATUSES
  THEN /\ Goto(r, "idle")
       /\ UNCHANGED <<order, payment, goods>>
  ELSE /\ payment' = [payment EXCEPT ![o].status = "SUCCEEDED"]
       /\ \/ /\ order[o] = "PENDING" /\ InStock(o)
             /\ order' = [order EXCEPT ![o] = "CONFIRMED"]
             /\ TakeStock(o)
             /\ RecordRedemption(o)
             /\ Goto(r, "idle")
             /\ UNCHANGED restocked
          \/ /\ order[o] = "PENDING" /\ ~InStock(o)
             /\ order' = [order EXCEPT ![o] = "CANCELLED"]
             /\ rq' = [rq EXCEPT ![r] = orphaned]
             /\ UNCHANGED goods
          \/ /\ order[o] # "PENDING"
             /\ rq' = [rq EXCEPT ![r] = orphaned]
             /\ UNCHANGED <<order, goods>>

(* Mutant: only logs that the money landed on a cancelled order.            *)
RefundOrphan_mutant(o) == Idle

(* refundOrphanedPayment: a full refund whose failure is only logged.       *)
RefundOrphan(o) == Begin(o, "processRefund:read")

MarkFailed(o) ==
  /\ payment' = [payment EXCEPT ![o].status =
                   IF payment[o].intentSaved /\ @ \in {"REQUIRES_PAYMENT", "PROCESSING"}
                   THEN "FAILED" ELSE @]
  /\ UNCHANGED <<order, goods>>

(***************************************************************************)
(* handleEvent.  The event id is inserted in the transaction that applies  *)
(* the event, so a redelivered event finds it there and changes nothing,   *)
(* and a concurrent delivery waits for that transaction.  Only syncRefund  *)
(* decides on an unlocked read of the row and writes in a later step.      *)
(***************************************************************************)
Delivering(h, e) ==
  At(h, "syncRefund:write") /\ e = Event("refunded", rq[h].o, rq[h].want)

HandleEvent(h, e) ==
  /\ At(h, "idle")
  /\ e \in events \ processed
  /\ \A other \in Hooks : ~Delivering(other, e)
  /\ \/ /\ e.type = "succeeded"
        /\ MarkSucceeded(h, e.o, RefundOrphan(e.o))
        /\ processed' = processed \cup {e}
     \/ /\ e.type \in {"failed", "canceled"}
        /\ MarkFailed(e.o)
        /\ processed' = processed \cup {e}
        /\ UNCHANGED rq
     \/ /\ e.type = "refunded"
        /\ ~(payment[e.o].intentSaved /\ e.total > payment[e.o].refunded)
        /\ processed' = processed \cup {e}
        /\ UNCHANGED <<order, payment, goods, rq>>
     \/ /\ e.type = "refunded"
        /\ payment[e.o].intentSaved /\ e.total > payment[e.o].refunded
        /\ rq' = [rq EXCEPT ![h] =
                    [Begin(e.o, "syncRefund:write") EXCEPT !.want = e.total]]
        /\ UNCHANGED <<order, payment, processed, goods>>
  /\ UNCHANGED <<stripe, events>>

(* syncRefund writes Stripe's cumulative total over the row's own.          *)
SyncRefund(h) ==
  LET o == rq[h].o
      full == rq[h].want >= Amount[o]
  IN
  /\ At(h, "syncRefund:write")
  /\ payment' = [payment EXCEPT ![o].refunded = rq[h].want,
                   ![o].status = IF full THEN "REFUNDED" ELSE "PARTIALLY_REFUNDED"]
  /\ order' = [order EXCEPT ![o] = IF full THEN "REFUNDED" ELSE @]
  /\ processed' = processed \cup {Event("refunded", o, rq[h].want)}
  /\ Goto(h, "idle")
  /\ UNCHANGED <<stripe, events, goods>>

(* reconcile, the fallback while a client polls: ask Stripe, then settle.   *)
Reconcile(r) ==
  LET o == rq[r].o IN
  /\ At(r, "reconcile:stripe")
  /\ Goto(r, CASE stripe[o].intent = "succeeded" -> "reconcile:succeeded"
               [] stripe[o].intent = "declined" -> "reconcile:failed"
               [] OTHER -> "idle")
  /\ UNCHANGED <<order, payment, processed, stripe, events, goods>>

ReconcileSucceeded(r) ==
  /\ At(r, "reconcile:succeeded")
  /\ MarkSucceeded(r, rq[r].o, RefundOrphan(rq[r].o))
  /\ UNCHANGED <<processed, stripe, events>>

ReconcileFailed(r) ==
  /\ At(r, "reconcile:failed")
  /\ MarkFailed(rq[r].o)
  /\ Goto(r, "idle")
  /\ UNCHANGED <<processed, stripe, events>>

-----------------------------------------------------------------------------
(* processRefund: validate against the balance, reserve the amount on the   *)
(* row, call Stripe, then write the outcome from what was read at the start *)
(* (or give the reservation back).                                          *)
ReadRefundable(r) ==
  LET o == rq[r].o
      amt == IF rq[r].want = 0 THEN Refundable(o) ELSE rq[r].want
  IN
  /\ At(r, "processRefund:read")
  /\ IF /\ payment[o].status = "SUCCEEDED" \/ payment[o].refunded > 0
        /\ payment[o].intentSaved
        /\ Refundable(o) > 0
        /\ amt <= Refundable(o)
     THEN rq' = [rq EXCEPT ![r].pc = "processRefund:reserve",
                           ![r].base = payment[o].refunded, ![r].amt = amt]
     ELSE Goto(r, rq[r].err)
  /\ UNCHANGED <<order, payment, processed, stripe, events, goods>>

(* Mutant: the reservation does not check the balance it was validated on.  *)
ReserveRefund_mutant(r) ==
  LET o == rq[r].o IN
  /\ At(r, "processRefund:reserve")
  /\ payment' = [payment EXCEPT ![o].refunded = @ + rq[r].amt]
  /\ Goto(r, "processRefund:stripe")
  /\ UNCHANGED <<order, processed, stripe, events, goods>>

ReserveRefund(r) ==
  LET o == rq[r].o IN
  /\ At(r, "processRefund:reserve")
  /\ IF payment[o].refunded = rq[r].base
     THEN /\ payment' = [payment EXCEPT ![o].refunded = @ + rq[r].amt]
          /\ Goto(r, "processRefund:stripe")
     ELSE /\ Goto(r, rq[r].err)                        (* 409: another refund *)
          /\ UNCHANGED payment
  /\ UNCHANGED <<order, processed, stripe, events, goods>>

(* Stripe moves the money at most once per idempotency key, and refuses to  *)
(* give back more than it captured.                                         *)
RefundAtStripe(r) ==
  LET o == rq[r].o
      key == <<rq[r].base, rq[r].amt>>
      total == stripe[o].refunded + rq[r].amt
      replayed == key \in stripe[o].keys
      accepted == stripe[o].intent = "succeeded" /\ total <= Amount[o]
  IN
  /\ At(r, "processRefund:stripe")
  /\ \/ /\ replayed \/ accepted
        /\ stripe' = IF replayed THEN stripe
                     ELSE [stripe EXCEPT ![o].refunded = total,
                                         ![o].keys = @ \cup {key}]
        /\ events' = IF replayed THEN events
                     ELSE events \cup {Event("refunded", o, total)}
        /\ \/ Goto(r, "processRefund:record")
           \/ "lost" \in Faults /\ Goto(r, "processRefund:release")
     \/ /\ "refuse" \in Faults \/ ~(replayed \/ accepted)
        /\ Goto(r, "processRefund:release")
        /\ UNCHANGED <<stripe, events>>
  /\ UNCHANGED <<order, payment, processed, goods>>

(* Mutants: write back the balance that was read; keep the reservation.     *)
ReleaseRefund_stale(r) ==
  /\ At(r, "processRefund:release")
  /\ payment' = [payment EXCEPT ![rq[r].o].refunded = rq[r].base]
  /\ Goto(r, rq[r].err)
  /\ UNCHANGED <<order, processed, stripe, events, goods>>

ReleaseRefund_missing(r) ==
  /\ At(r, "processRefund:release")
  /\ Goto(r, rq[r].err)
  /\ UNCHANGED <<order, payment, processed, stripe, events, goods>>

ReleaseRefund(r) ==
  LET o == rq[r].o IN
  /\ At(r, "processRefund:release")
  /\ payment' = [payment EXCEPT ![o].refunded = @ - rq[r].amt]
  /\ Goto(r, rq[r].err)
  /\ UNCHANGED <<order, processed, stripe, events, goods>>

(* Mutant: compares this refund alone with the amount that was captured.    *)
RecordRefund_mutant(r) ==
  LET o == rq[r].o
      fullyRefunded == rq[r].amt >= Amount[o]
  IN
  /\ At(r, "processRefund:record")
  /\ payment' = [payment EXCEPT ![o].status =
                   IF fullyRefunded THEN "REFUNDED" ELSE "PARTIALLY_REFUNDED"]
  /\ order' = [order EXCEPT ![o] = IF fullyRefunded THEN "REFUNDED" ELSE @]
  /\ Goto(r, rq[r].ok)
  /\ UNCHANGED <<processed, stripe, events, goods>>

RecordRefund(r) ==
  LET o == rq[r].o
      fullyRefunded == rq[r].base + rq[r].amt >= Amount[o]
  IN
  /\ At(r, "processRefund:record")
  /\ payment' = [payment EXCEPT ![o].status =
                   IF fullyRefunded THEN "REFUNDED" ELSE "PARTIALLY_REFUNDED"]
  /\ order' = [order EXCEPT ![o] = IF fullyRefunded THEN "REFUNDED" ELSE @]
  /\ Goto(r, rq[r].ok)
  /\ UNCHANGED <<processed, stripe, events, goods>>

(* POST /payments/:orderId/refund, with an amount or (0) without one.       *)
Refund(r, o, want) ==
  /\ At(r, "idle") /\ order[o] # "none"
  /\ rq' = [rq EXCEPT ![r] = [Begin(o, "processRefund:read") EXCEPT !.want = want]]
  /\ UNCHANGED <<order, payment, processed, stripe, events, goods>>

-----------------------------------------------------------------------------
(* What happens outside the backend: the shopper pays with the client       *)
(* secret, the card is declined, an operator uses the Stripe Dashboard.     *)
Pay(o) ==
  /\ stripe[o].intent \in {"open", "declined"} /\ payment[o].intentSaved
  /\ stripe' = [stripe EXCEPT ![o].intent = "succeeded"]
  /\ events' = events \cup {Event("succeeded", o, 0)}
  /\ UNCHANGED <<order, payment, processed, rq, goods>>

Decline(o) ==
  /\ "decline" \in Faults
  /\ stripe[o].intent = "open" /\ payment[o].intentSaved
  /\ stripe' = [stripe EXCEPT ![o].intent = "declined"]
  /\ events' = events \cup {Event("failed", o, 0)}
  /\ UNCHANGED <<order, payment, processed, rq, goods>>

DashboardRefund(o, amount) ==
  LET total == stripe[o].refunded + amount IN
  /\ "dashboard" \in Faults
  /\ stripe[o].intent = "succeeded" /\ total <= Amount[o]
  /\ stripe' = [stripe EXCEPT ![o].refunded = total]
  /\ events' = events \cup {Event("refunded", o, total)}
  /\ UNCHANGED <<order, payment, processed, rq, goods>>

DashboardCancel(o) ==
  /\ "dashboard" \in Faults
  /\ stripe[o].intent \in {"open", "declined"}
  /\ stripe' = [stripe EXCEPT ![o].intent = "canceled"]
  /\ events' = events \cup {Event("canceled", o, 0)}
  /\ UNCHANGED <<order, payment, processed, rq, goods>>

(* A restart: the request is gone, and no catch block of it runs.           *)
Crash(r) ==
  /\ "crash" \in Faults
  /\ ~At(r, "idle")
  /\ Goto(r, "idle")
  /\ UNCHANGED <<order, payment, processed, stripe, events, goods>>

(* The next await of a request that is inside the payment service.          *)
PaymentStep(r) ==
  \/ CreateIntent(r) \/ SaveIntent(r)
  \/ FindOpenPayment(r) \/ CancelIntent(r) \/ FailPayment(r)
  \/ Reconcile(r) \/ ReconcileSucceeded(r) \/ ReconcileFailed(r)
  \/ ReadRefundable(r) \/ ReserveRefund(r) \/ RefundAtStripe(r)
  \/ ReleaseRefund(r) \/ RecordRefund(r) \/ SyncRefund(r)

Outside(o) ==
  \/ Pay(o) \/ Decline(o) \/ DashboardCancel(o)
  \/ \E amount \in RefundAmounts : DashboardRefund(o, amount)

-----------------------------------------------------------------------------
(* No request and no webhook delivery is in progress.                       *)
Quiet == \A r \in Actors : At(r, "idle")

(* The reservation is taken before Stripe is asked, so the row never shows  *)
(* less than what Stripe gave back, and so never invites a double refund.   *)
ReservationCoversRefund ==
  \A o \in Orders : stripe[o].refunded <= payment[o].refunded
=============================================================================
