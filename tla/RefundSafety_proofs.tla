------------------------ MODULE RefundSafety_proofs ------------------------
(***************************************************************************)
(* Theorems about refunds.  The refunded total of a payment never exceeds  *)
(* what was captured: processRefund reserves with an update that only      *)
(* matches the balance it validated, so the bound it checked before its    *)
(* first await is still the bound of the row when the row is written.      *)
(* And with one call at a time for an order, the row, its status and the   *)
(* stock agree with what Stripe returned.                                  *)
(***************************************************************************)
EXTENDS OrderService_proofs

(* What a request that is about to write a refunded total has checked.      *)
Bounded(q) ==
  /\ q.pc = "processRefund:reserve" => q.base + q.amt <= Amount[q.o]
  /\ q.pc = "syncRefund:write" => q.want <= Amount[q.o]

RowsInv ==
  \A o \in Orders : payment[o].refunded <= Amount[o] /\ stripe[o].refunded <= Amount[o]

TotalsInv == \A e \in events : e.total <= Amount[e.o]

BoundedInv == \A r \in Actors : Bounded(rq[r])

RInv == TypeOK /\ RowsInv /\ TotalsInv /\ BoundedInv

-----------------------------------------------------------------------------
LEMMA UpdateBounded ==
  ASSUME RInv, NEW r \in Actors, NEW q, rq' = [rq EXCEPT ![r] = q], Bounded(q)
  PROVE  BoundedInv'
  BY DEF RInv, TypeOK, BoundedInv

LEMMA FreshBounded ==
  ASSUME NEW q, q.pc \notin {"processRefund:reserve", "syncRefund:write"}
  PROVE  Bounded(q)
  BY DEF Bounded

LEMMA GotoBounded ==
  ASSUME RInv, NEW r \in Actors, NEW pc, Goto(r, pc),
         pc \notin {"processRefund:reserve", "syncRefund:write"}
  PROVE  BoundedInv'
<1>1. CASE pc = "idle"
  BY <1>1, FreshBounded, UpdateBounded, IdleType DEF Goto
<1>2. CASE pc # "idle"
  <2>1. [rq[r] EXCEPT !.pc = pc].pc = pc
    BY DEF RInv, TypeOK, RequestState
  <2>. QED  BY <1>2, <2>1, FreshBounded, UpdateBounded DEF Goto
<1>. QED  BY <1>1, <1>2

(* A step that may change the payment's status, and no amount.              *)
LEMMA SameAmounts ==
  ASSUME RInv,
         \A o \in Orders : payment'[o].refunded = payment[o].refunded,
         \A o \in Orders : stripe'[o].refunded = stripe[o].refunded,
         \A e \in events' : e \in events \/ (e.total = 0 /\ e.o \in Orders)
  PROVE  RowsInv' /\ TotalsInv'
  BY Constants DEF RInv, RowsInv, TotalsInv, ConstantAssumptions

LEMMA IntentWrite ==
  ASSUME RInv, NEW o \in Orders, NEW status,
         stripe' = stripe \/ stripe' = [stripe EXCEPT ![o].intent = status]
  PROVE  \A p \in Orders : stripe'[p].refunded = stripe[p].refunded
  BY DEF RInv, TypeOK

LEMMA CreateIntentBound ==
  ASSUME RInv, NEW r \in Actors, CreateIntent(r)
  PROVE  RowsInv' /\ TotalsInv' /\ BoundedInv'
<1>1. rq[r] \in RequestState /\ rq[r].o \in Orders
  BY DEF CreateIntent, At, RInv, TypeOK
<1>2. RowsInv' /\ TotalsInv'
  <2>1. \A p \in Orders : stripe'[p].refunded = stripe[p].refunded
    BY <1>1, IntentWrite DEF CreateIntent
  <2>. QED  BY <2>1, SameAmounts DEF CreateIntent
<1>3. BoundedInv'
  BY <1>1, GotoBounded DEF CreateIntent, RequestState
<1>. QED  BY <1>2, <1>3

LEMMA SaveIntentBound ==
  ASSUME RInv, NEW r \in Actors, SaveIntent(r)
  PROVE  RowsInv' /\ TotalsInv' /\ BoundedInv'
<1>1. rq[r] \in RequestState /\ rq[r].o \in Orders
  BY DEF SaveIntent, At, RInv, TypeOK
<1>2. RowsInv' /\ TotalsInv'
  BY <1>1, SameAmounts DEF SaveIntent, RInv, TypeOK
<1>3. BoundedInv'
  BY <1>1, GotoBounded DEF SaveIntent, RequestState
<1>. QED  BY <1>2, <1>3

LEMMA FindOpenPaymentBound ==
  ASSUME RInv, NEW r \in Actors, FindOpenPayment(r)
  PROVE  RowsInv' /\ TotalsInv' /\ BoundedInv'
<1>1. rq[r] \in RequestState /\ rq[r].o \in Orders
  BY DEF FindOpenPayment, At, RInv, TypeOK
<1>2. RowsInv' /\ TotalsInv'
  BY <1>1, SameAmounts DEF FindOpenPayment, RInv, TypeOK
<1>3. BoundedInv'
  BY <1>1, GotoBounded DEF FindOpenPayment, RequestState
<1>. QED  BY <1>2, <1>3

LEMMA CancelIntentBound ==
  ASSUME RInv, NEW r \in Actors, CancelIntent(r)
  PROVE  RowsInv' /\ TotalsInv' /\ BoundedInv'
<1>1. rq[r] \in RequestState /\ rq[r].o \in Orders
  BY DEF CancelIntent, At, RInv, TypeOK
<1>2. RowsInv' /\ TotalsInv'
  <2>1. \A p \in Orders : stripe'[p].refunded = stripe[p].refunded
    BY <1>1, IntentWrite DEF CancelIntent
  <2>2. \A e \in events' : e \in events \/ (e.total = 0 /\ e.o \in Orders)
    BY <1>1 DEF CancelIntent, Event
  <2>. QED  BY <2>1, <2>2, SameAmounts DEF CancelIntent
<1>3. BoundedInv'
  BY <1>1, GotoBounded DEF CancelIntent, RequestState
<1>. QED  BY <1>2, <1>3

LEMMA FailPaymentBound ==
  ASSUME RInv, NEW r \in Actors, FailPayment(r)
  PROVE  RowsInv' /\ TotalsInv' /\ BoundedInv'
<1>1. rq[r] \in RequestState /\ rq[r].o \in Orders
  BY DEF FailPayment, At, RInv, TypeOK
<1>2. RowsInv' /\ TotalsInv'
  BY <1>1, SameAmounts DEF FailPayment, RInv, TypeOK
<1>3. BoundedInv'
  BY <1>1, GotoBounded DEF FailPayment, RequestState
<1>. QED  BY <1>2, <1>3

LEMMA ReconcileBound ==
  ASSUME RInv, NEW r \in Actors, Reconcile(r)
  PROVE  RowsInv' /\ TotalsInv' /\ BoundedInv'
<1>1. rq[r] \in RequestState /\ rq[r].o \in Orders
  BY DEF Reconcile, At, RInv, TypeOK
<1>2. RowsInv' /\ TotalsInv'
  BY <1>1, SameAmounts DEF Reconcile, RInv, TypeOK
<1>3. BoundedInv'
  BY <1>1, GotoBounded DEF Reconcile, RequestState
<1>. QED  BY <1>2, <1>3

LEMMA ReconcileFailedBound ==
  ASSUME RInv, NEW r \in Actors, ReconcileFailed(r)
  PROVE  RowsInv' /\ TotalsInv' /\ BoundedInv'
<1>1. rq[r] \in RequestState /\ rq[r].o \in Orders
  BY DEF ReconcileFailed, At, RInv, TypeOK
<1>2. RowsInv' /\ TotalsInv'
  BY <1>1, SameAmounts DEF ReconcileFailed, MarkFailed, RInv, TypeOK
<1>3. BoundedInv'
  BY <1>1, GotoBounded DEF ReconcileFailed, RequestState
<1>. QED  BY <1>2, <1>3

LEMMA RecordRefundBound ==
  ASSUME RInv, NEW r \in Actors, RecordRefund(r)
  PROVE  RowsInv' /\ TotalsInv' /\ BoundedInv'
<1>1. rq[r] \in RequestState /\ rq[r].o \in Orders
  BY DEF RecordRefund, At, RInv, TypeOK
<1>2. RowsInv' /\ TotalsInv'
  BY <1>1, SameAmounts DEF RecordRefund, RInv, TypeOK
<1>3. BoundedInv'
  BY <1>1, GotoBounded DEF RecordRefund, RequestState
<1>. QED  BY <1>2, <1>3

LEMMA ReplayOrderBound ==
  ASSUME RInv, NEW r \in Actors, ReplayOrder(r)
  PROVE  RowsInv' /\ TotalsInv' /\ BoundedInv'
<1>1. rq[r] \in RequestState /\ rq[r].o \in Orders
  BY DEF ReplayOrder, At, RInv, TypeOK
<1>2. RowsInv' /\ TotalsInv'
  BY <1>1, SameAmounts DEF ReplayOrder, RInv, TypeOK
<1>3. BoundedInv'
  BY <1>1, GotoBounded DEF ReplayOrder, RequestState
<1>. QED  BY <1>2, <1>3

LEMMA TransitionBound ==
  ASSUME RInv, NEW r \in Actors, Transition(r)
  PROVE  RowsInv' /\ TotalsInv' /\ BoundedInv'
<1>1. rq[r] \in RequestState /\ rq[r].o \in Orders
  BY DEF Transition, At, RInv, TypeOK
<1>2. RowsInv' /\ TotalsInv'
  BY <1>1, SameAmounts DEF Transition, RInv, TypeOK
<1>3. BoundedInv'
  BY <1>1, GotoBounded DEF Transition, RequestState
<1>. QED  BY <1>2, <1>3

LEMMA ShipBound ==
  ASSUME RInv, NEW r \in Actors, Ship(r)
  PROVE  RowsInv' /\ TotalsInv' /\ BoundedInv'
<1>1. rq[r] \in RequestState /\ rq[r].o \in Orders
  BY DEF Ship, At, RInv, TypeOK
<1>2. RowsInv' /\ TotalsInv'
  BY <1>1, SameAmounts DEF Ship, RInv, TypeOK
<1>3. BoundedInv'
  BY <1>1, GotoBounded DEF Ship, RequestState
<1>. QED  BY <1>2, <1>3

LEMMA ClaimCancelBound ==
  ASSUME RInv, NEW r \in Actors, ClaimCancel(r)
  PROVE  RowsInv' /\ TotalsInv' /\ BoundedInv'
<1>1. rq[r] \in RequestState /\ rq[r].o \in Orders
  BY DEF ClaimCancel, At, RInv, TypeOK
<1>2. RowsInv' /\ TotalsInv'
  BY <1>1, SameAmounts DEF ClaimCancel, RInv, TypeOK
<1>3. BoundedInv'
  BY <1>1, GotoBounded DEF ClaimCancel, RequestState
<1>. QED  BY <1>2, <1>3

LEMMA UndoCancelBound ==
  ASSUME RInv, NEW r \in Actors, UndoCancel(r)
  PROVE  RowsInv' /\ TotalsInv' /\ BoundedInv'
<1>1. rq[r] \in RequestState /\ rq[r].o \in Orders
  BY DEF UndoCancel, At, RInv, TypeOK
<1>2. RowsInv' /\ TotalsInv'
  BY <1>1, SameAmounts DEF UndoCancel, RInv, TypeOK
<1>3. BoundedInv'
  BY <1>1, GotoBounded DEF UndoCancel, RequestState
<1>. QED  BY <1>2, <1>3

LEMMA RestockBound ==
  ASSUME RInv, NEW r \in Actors, Restock(r)
  PROVE  RowsInv' /\ TotalsInv' /\ BoundedInv'
<1>1. rq[r] \in RequestState /\ rq[r].o \in Orders
  BY DEF Restock, At, RInv, TypeOK
<1>2. RowsInv' /\ TotalsInv'
  BY <1>1, SameAmounts DEF Restock, RInv, TypeOK
<1>3. BoundedInv'
  BY <1>1, GotoBounded DEF Restock, RequestState
<1>. QED  BY <1>2, <1>3

LEMMA ReserveRefundBound ==
  ASSUME RInv, NEW r \in Actors, ReserveRefund(r)
  PROVE  RowsInv' /\ TotalsInv' /\ BoundedInv'
<1> DEFINE o == rq[r].o
<1>1. /\ rq[r] \in RequestState /\ o \in Orders
      /\ rq[r].base + rq[r].amt <= Amount[o]
  BY DEF ReserveRefund, At, RInv, TypeOK, BoundedInv, Bounded
<1>2. RowsInv'
  <2>1. CASE UNCHANGED payment
    BY <2>1 DEF ReserveRefund, RInv, RowsInv
  <2>2. CASE /\ payment[o].refunded = rq[r].base
             /\ payment' = [payment EXCEPT ![o].refunded = @ + rq[r].amt]
    BY <1>1, <2>2 DEF ReserveRefund, RInv, TypeOK, RowsInv
  <2>. QED  BY <2>1, <2>2 DEF ReserveRefund
<1>3. TotalsInv'
  BY DEF ReserveRefund, RInv, TotalsInv
<1>4. BoundedInv'
  BY <1>1, GotoBounded DEF ReserveRefund, RequestState
<1>. QED  BY <1>2, <1>3, <1>4

LEMMA RefundAtStripeBound ==
  ASSUME RInv, NEW r \in Actors, RefundAtStripe(r)
  PROVE  RowsInv' /\ TotalsInv' /\ BoundedInv'
<1> DEFINE o == rq[r].o
           total == stripe[o].refunded + rq[r].amt
<1>1. rq[r] \in RequestState /\ o \in Orders
  BY DEF RefundAtStripe, At, RInv, TypeOK
<1>2. RowsInv' /\ TotalsInv'
  <2>1. CASE UNCHANGED <<stripe, events>>
    BY <2>1 DEF RefundAtStripe, RInv, RowsInv, TotalsInv
  <2>2. CASE /\ total <= Amount[o]
             /\ stripe' = [stripe EXCEPT ![o].refunded = total,
                           ![o].keys = @ \cup {<<rq[r].base, rq[r].amt>>}]
             /\ events' = events \cup {Event("refunded", o, total)}
    <3>1. RowsInv'
      BY <1>1, <2>2 DEF RefundAtStripe, RInv, TypeOK, RowsInv
    <3>2. TotalsInv'
      BY <1>1, <2>2 DEF RInv, TypeOK, TotalsInv, Event
    <3>. QED  BY <3>1, <3>2
  <2>. QED  BY <2>1, <2>2 DEF RefundAtStripe
<1>3. BoundedInv'
  BY <1>1, GotoBounded DEF RefundAtStripe
<1>. QED  BY <1>2, <1>3

LEMMA ReleaseRefundBound ==
  ASSUME RInv, NEW r \in Actors, ReleaseRefund(r)
  PROVE  RowsInv' /\ TotalsInv' /\ BoundedInv'
<1> DEFINE o == rq[r].o
<1>1. rq[r] \in RequestState /\ o \in Orders /\ rq[r].amt \in Nat
  BY DEF ReleaseRefund, At, RInv, TypeOK, RequestState
<1>2. /\ payment' = [payment EXCEPT ![o].refunded = payment[o].refunded - rq[r].amt]
      /\ payment[o].refunded \in Int /\ Amount[o] \in Nat
  BY <1>1, Constants DEF ReleaseRefund, RInv, TypeOK, ConstantAssumptions
<1>3. payment[o].refunded - rq[r].amt <= Amount[o]
  BY <1>1, <1>2 DEF RInv, RowsInv
<1>4. RowsInv'
  BY <1>1, <1>2, <1>3 DEF ReleaseRefund, RInv, TypeOK, RowsInv
<1>5. TotalsInv'
  BY DEF ReleaseRefund, RInv, TotalsInv
<1>6. BoundedInv'
  BY <1>1, GotoBounded DEF ReleaseRefund, RequestState
<1>. QED  BY <1>4, <1>5, <1>6

LEMMA SyncRefundBound ==
  ASSUME RInv, NEW r \in Actors, SyncRefund(r)
  PROVE  RowsInv' /\ TotalsInv' /\ BoundedInv'
<1>1. rq[r].o \in Orders /\ rq[r].want <= Amount[rq[r].o]
  BY DEF SyncRefund, At, RInv, TypeOK, BoundedInv, Bounded
<1>2. RowsInv' /\ TotalsInv'
  BY <1>1 DEF SyncRefund, RInv, TypeOK, RowsInv, TotalsInv
<1>3. BoundedInv'
  BY GotoBounded DEF SyncRefund
<1>. QED  BY <1>2, <1>3

(* The amount a refund validates fits in what is left of the payment.       *)
LEMMA ReadRefundableBound ==
  ASSUME RInv, NEW r \in Actors, ReadRefundable(r)
  PROVE  RowsInv' /\ TotalsInv' /\ BoundedInv'
<1> DEFINE o == rq[r].o
           amt == IF rq[r].want = 0 THEN Refundable(o) ELSE rq[r].want
           q == [rq[r] EXCEPT !.pc = "processRefund:reserve",
                              !.base = payment[o].refunded, !.amt = amt]
<1>1. rq[r] \in RequestState /\ o \in Orders
  BY DEF ReadRefundable, At, RInv, TypeOK
<1>2. RowsInv' /\ TotalsInv'
  BY DEF ReadRefundable, RInv, RowsInv, TotalsInv
<1>3. CASE Goto(r, rq[r].err)
  <2>1. rq[r].err \in {"idle", "cancelPaidOrder:undo"}
    BY <1>1 DEF RequestState
  <2>. HIDE DEF q, amt, o
  <2>. QED  BY <1>2, <1>3, <2>1, GotoBounded
<1>4. CASE rq' = [rq EXCEPT ![r] = q] /\ amt <= Refundable(o)
  <2>1. /\ payment[o].refunded \in Int /\ Amount[o] \in Nat /\ rq[r].want \in Nat
    BY <1>1, Constants DEF RInv, TypeOK, RequestState, ConstantAssumptions
  <2>2. payment[o].refunded + amt <= Amount[o]
    BY <1>4, <2>1 DEF Refundable
  <2>3. /\ q.pc = "processRefund:reserve" /\ q.o = o
        /\ q.base = payment[o].refunded /\ q.amt = amt
    <3>. HIDE DEF amt
    <3>. QED  BY <1>1 DEF RequestState
  <2>. HIDE DEF q, amt
  <2>4. Bounded(q)
    BY <2>2, <2>3 DEF Bounded
  <2>. QED  BY <1>2, <1>4, <2>4, UpdateBounded
<1>5. (rq' = [rq EXCEPT ![r] = q] /\ amt <= Refundable(o)) \/ Goto(r, rq[r].err)
  BY DEF ReadRefundable
<1>. QED  BY <1>2, <1>3, <1>4, <1>5

LEMMA RefundCancelledBound ==
  ASSUME RInv, NEW r \in Actors, RefundCancelled(r)
  PROVE  RowsInv' /\ TotalsInv' /\ BoundedInv'
<1> DEFINE q == [rq[r] EXCEPT !.pc = "processRefund:read", !.want = 0,
                              !.ok = "cancelPaidOrder:restock",
                              !.err = "cancelPaidOrder:undo"]
           p == [rq[r] EXCEPT !.pc = "cancelPaidOrder:restock"]
<1>1. rq[r] \in RequestState
  BY DEF RInv, TypeOK
<1>2. RowsInv' /\ TotalsInv'
  BY DEF RefundCancelled, RInv, RowsInv, TotalsInv
<1>3. q.pc = "processRefund:read" /\ p.pc = "cancelPaidOrder:restock"
  BY <1>1 DEF RequestState
<1>4. rq' = [rq EXCEPT ![r] = q] \/ rq' = [rq EXCEPT ![r] = p]
  BY DEF RefundCancelled
<1>. HIDE DEF p, q
<1>5. Bounded(q) /\ Bounded(p)
  BY <1>3, FreshBounded
<1>. QED  BY <1>2, <1>4, <1>5, UpdateBounded

(* The transaction of markSucceeded changes no amount.                      *)
LEMMA MarkSucceededBound ==
  ASSUME RInv, NEW r \in Actors, NEW o \in Orders, UNCHANGED <<stripe, events>>,
         MarkSucceeded(r, o, RefundOrphan(o))
  PROVE  RowsInv' /\ TotalsInv' /\ BoundedInv'
<1>1. RowsInv' /\ TotalsInv'
  <2>1. payment' = payment \/ payment' = [payment EXCEPT ![o].status = "SUCCEEDED"]
    BY DEF MarkSucceeded
  <2>2. payment \in [Orders -> [status : PaymentStatus, intentSaved : BOOLEAN,
                                refunded : Int]]
    BY DEF RInv, TypeOK
  <2>3. \A p \in Orders : payment'[p].refunded = payment[p].refunded
    BY <2>1, <2>2
  <2>. QED  BY <2>3, SameAmounts
<1>2. RefundOrphan(o).pc = "processRefund:read"
  BY DEF RefundOrphan, Begin
<1>3. BoundedInv'
  BY <1>2, IdleType, FreshBounded, UpdateBounded DEF MarkSucceeded, Goto
<1>. QED  BY <1>1, <1>3

LEMMA ReconcileSucceededBound ==
  ASSUME RInv, NEW r \in Actors, ReconcileSucceeded(r)
  PROVE  RowsInv' /\ TotalsInv' /\ BoundedInv'
<1>1. rq[r].o \in Orders
  BY DEF ReconcileSucceeded, At, RInv, TypeOK
<1>. QED  BY <1>1, MarkSucceededBound DEF ReconcileSucceeded

LEMMA HandleEventBound ==
  ASSUME RInv, NEW h \in Hooks, NEW e \in events, HandleEvent(h, e)
  PROVE  RowsInv' /\ TotalsInv' /\ BoundedInv'
<1>1. h \in Actors /\ e.o \in Orders /\ e.total <= Amount[e.o]
      /\ UNCHANGED <<stripe, events>>
  BY DEF Actors, RInv, TypeOK, TotalsInv, HandleEvent
<1>2. CASE MarkSucceeded(h, e.o, RefundOrphan(e.o))
  BY <1>1, <1>2, MarkSucceededBound
<1>3. CASE MarkFailed(e.o) /\ UNCHANGED rq
  <2>1. RowsInv' /\ TotalsInv'
    BY <1>1, <1>3, SameAmounts DEF MarkFailed, RInv, TypeOK
  <2>. QED  BY <1>3, <2>1 DEF RInv, BoundedInv
<1>4. CASE UNCHANGED <<order, payment, goods, rq>>
  BY <1>1, <1>4 DEF RInv, RowsInv, TotalsInv, BoundedInv
<1>5. CASE /\ rq' = [rq EXCEPT ![h] =
                      [Begin(e.o, "syncRefund:write") EXCEPT !.want = e.total]]
           /\ UNCHANGED <<order, payment, processed, goods>>
  <2>1. Bounded([Begin(e.o, "syncRefund:write") EXCEPT !.want = e.total])
    BY <1>1 DEF Bounded, Begin
  <2>2. RowsInv' /\ TotalsInv'
    BY <1>1, <1>5 DEF RInv, RowsInv, TotalsInv
  <2>. QED  BY <1>1, <1>5, <2>1, <2>2, UpdateBounded
<1>. QED  BY <1>2, <1>3, <1>4, <1>5 DEF HandleEvent

LEMMA PersistOrderBound ==
  ASSUME RInv, NEW r \in Actors, PersistOrder(r)
  PROVE  RowsInv' /\ TotalsInv' /\ BoundedInv'
<1> DEFINE o == rq[r].o
           row(status) == [status |-> status, intentSaved |-> FALSE, refunded |-> 0]
<1>1. o \in Orders /\ Amount[o] \in Nat /\ UNCHANGED <<stripe, events>>
  BY Constants DEF PersistOrder, At, RInv, TypeOK, ConstantAssumptions
<1>2. \/ payment' = payment
      \/ payment' = [payment EXCEPT ![o] = row("REQUIRES_PAYMENT")]
      \/ payment' = [payment EXCEPT ![o] = row("SUCCEEDED")]
  BY DEF PersistOrder
<1>3. RowsInv' /\ TotalsInv'
  <2>1. row("REQUIRES_PAYMENT").refunded = 0 /\ row("SUCCEEDED").refunded = 0
    OBVIOUS
  <2>. HIDE DEF row
  <2>2. \A p \in Orders : payment'[p].refunded \in {0, payment[p].refunded}
    BY <1>1, <1>2, <2>1 DEF RInv, TypeOK
  <2>3. \A p \in Orders : payment'[p].refunded <= Amount[p]
    BY <2>2, Constants DEF RInv, RowsInv, ConstantAssumptions
  <2>. QED  BY <1>1, <2>3 DEF RInv, RowsInv, TotalsInv
<1>4. BoundedInv'
  <2>1. Bounded(Loaded(o, "replayOrder"))
    BY DEF Bounded, Loaded, Begin
  <2>. QED  BY <2>1, UpdateBounded, GotoBounded DEF PersistOrder
<1>. QED  BY <1>3, <1>4

LEMMA RequestBound ==
  ASSUME RInv, NEW r \in Requests, NEW o \in Orders, Request(r, o)
  PROVE  RowsInv' /\ TotalsInv' /\ BoundedInv'
<1>1. r \in Actors /\ UNCHANGED <<payment, stripe, events>>
  BY DEF Actors, Request, CreateOrder, GetOrder, CancelOrder, UpdateStatus,
         SetTracking, Refund
<1>2. RowsInv' /\ TotalsInv'
  BY <1>1 DEF RInv, RowsInv, TotalsInv
<1>3. BoundedInv'
  <2>1. ASSUME NEW pc, pc \notin {"processRefund:reserve", "syncRefund:write"}
        PROVE  /\ Bounded(Begin(o, pc)) /\ Bounded(Loaded(o, pc))
               /\ \A x : /\ Bounded([Begin(o, pc) EXCEPT !.want = x])
                         /\ Bounded([Loaded(o, pc) EXCEPT !.next = x])
               /\ Bounded([Loaded(o, pc) EXCEPT !.ok = "transition", !.next = "CANCELLED"])
    BY <2>1 DEF Bounded, Loaded, Begin
  <2>2. CASE CreateOrder(r, o) \/ GetOrder(r, o) \/ SetTracking(r, o)
    BY <1>1, <2>1, <2>2, UpdateBounded DEF CreateOrder, GetOrder, SetTracking
  <2>3. CASE CancelUnpaid(r, o)
    BY <1>1, <2>1, <2>3, UpdateBounded DEF CancelUnpaid
  <2>4. CASE \E s \in Targets : UpdateStatus(r, o, s)
    <3>1. PICK s \in Targets : UpdateStatus(r, o, s)
      BY <2>4
    <3>2. \/ rq' = [rq EXCEPT ![r] = Loaded(o, "cancelPaidOrder:claim")]
          \/ CancelUnpaid(r, o)
          \/ rq' = [rq EXCEPT ![r] = [Loaded(o, "transition") EXCEPT !.next = s]]
      BY <3>1, Zenon DEF UpdateStatus
    <3>. QED  BY <1>1, <2>1, <2>3, <3>2, UpdateBounded
  <2>5. CASE \E a \in RefundAmounts \cup {0} : Refund(r, o, a)
    BY <1>1, <2>1, <2>5, UpdateBounded DEF Refund
  <2>. QED  BY <2>2, <2>3, <2>4, <2>5 DEF Request, CancelOrder
<1>. QED  BY <1>2, <1>3

LEMMA OutsideBound ==
  ASSUME RInv, NEW o \in Orders, Outside(o)
  PROVE  RowsInv' /\ TotalsInv' /\ BoundedInv'
<1>1. UNCHANGED <<payment, rq>>
  BY DEF Outside, Pay, Decline, DashboardRefund, DashboardCancel
<1>2. BoundedInv'
  BY <1>1 DEF RInv, BoundedInv
<1>3. CASE Pay(o) \/ Decline(o) \/ DashboardCancel(o)
  <2>1. \A p \in Orders : stripe'[p].refunded = stripe[p].refunded
    BY <1>3, IntentWrite DEF Pay, Decline, DashboardCancel
  <2>2. \A e \in events' : e \in events \/ (e.total = 0 /\ e.o \in Orders)
    BY <1>3 DEF Pay, Decline, DashboardCancel, Event
  <2>. QED  BY <1>1, <1>2, <2>1, <2>2, SameAmounts
<1>4. CASE \E amount \in RefundAmounts : DashboardRefund(o, amount)
  BY <1>1, <1>2, <1>4 DEF DashboardRefund, Event, RInv, TypeOK, RowsInv, TotalsInv
<1>. QED  BY <1>3, <1>4 DEF Outside

LEMMA ProgressBound ==
  ASSUME RInv, NEW r \in Actors, Progress(r) \/ Crash(r)
  PROVE  RowsInv' /\ TotalsInv' /\ BoundedInv'
<1>1. CASE PaymentStep(r)
  BY <1>1, CreateIntentBound, SaveIntentBound, FindOpenPaymentBound, CancelIntentBound,
     FailPaymentBound, ReconcileBound, ReconcileSucceededBound, ReconcileFailedBound,
     ReadRefundableBound, ReserveRefundBound, RefundAtStripeBound, ReleaseRefundBound,
     RecordRefundBound, SyncRefundBound DEF PaymentStep
<1>2. CASE OrderStep(r)
  BY <1>2, PersistOrderBound, ReplayOrderBound, TransitionBound, ShipBound,
     ClaimCancelBound, RefundCancelledBound, UndoCancelBound, RestockBound DEF OrderStep
<1>3. CASE Crash(r)
  <2>1. RowsInv' /\ TotalsInv'
    BY <1>3 DEF Crash, RInv, RowsInv, TotalsInv
  <2>. QED  BY <1>3, <2>1, GotoBounded DEF Crash
<1>. QED  BY <1>1, <1>2, <1>3 DEF Progress

LEMMA InitBound == Init => RInv
<1>. SUFFICES ASSUME Init PROVE RInv
  OBVIOUS
<1>1. TypeOK
  BY InitType
<1>2. RowsInv /\ TotalsInv
  BY Constants DEF Init, RowsInv, TotalsInv, ConstantAssumptions
<1>3. BoundedInv
  BY IdleType, FreshBounded DEF Init, BoundedInv
<1>. QED  BY <1>1, <1>2, <1>3 DEF RInv

LEMMA NextBound == RInv /\ [Next]_vars => RInv'
<1>. SUFFICES ASSUME RInv, [Next]_vars PROVE RowsInv' /\ TotalsInv' /\ BoundedInv'
  BY NextType DEF RInv
<1>1. CASE \E r \in Requests, o \in Orders : Request(r, o)
  BY <1>1, RequestBound
<1>2. CASE \E r \in Actors : Progress(r) \/ Crash(r)
  BY <1>2, ProgressBound
<1>3. CASE \E h \in Hooks, e \in events : HandleEvent(h, e)
  BY <1>3, HandleEventBound
<1>4. CASE \E o \in Orders : Outside(o)
  BY <1>4, OutsideBound
<1>5. CASE UNCHANGED vars
  BY <1>5 DEF vars, RInv, RowsInv, TotalsInv, BoundedInv
<1>. QED  BY <1>1, <1>2, <1>3, <1>4, <1>5 DEF Next

-----------------------------------------------------------------------------
(* No interleaving of partial refunds, paid cancels, orphan refunds, syncs, *)
(* lost answers and restarts lets a payment record more money returned than *)
(* was captured.                                                            *)
THEOREM RefundsNeverExceedCapture == Spec => []RefundWithinCapture
<1>1. RInv => RefundWithinCapture
  BY DEF RInv, RowsInv, RefundWithinCapture
<1>. QED  BY <1>1, InitBound, NextBound, PTL DEF Spec

-----------------------------------------------------------------------------
(***************************************************************************)
(* What holds of refunds and paid cancels when no two calls are under way  *)
(* for the same order, whatever webhooks come in between, and when the     *)
(* answers of Stripe arrive: the total on the row is Stripe's, the status  *)
(* agrees with it, and goods go back on the shelf with the money returned. *)
(* With two calls at once none of the three holds.                         *)
(***************************************************************************)
AnswersArrive == Faults \subseteq {"decline", "refuse"}

Returned == {"PARTIALLY_REFUNDED", "REFUNDED"}

RefundSteps ==
  {"processRefund:read", "processRefund:reserve", "processRefund:stripe",
   "processRefund:release", "processRefund:record"}

(* Payment row p of order o agrees with Stripe's record s, but for a        *)
(* reservation, and for the status while a refund is not recorded yet.      *)
Settled(pc, o, p, s) ==
  /\ pc \notin {"processRefund:stripe", "processRefund:release"} => p.refunded = s.refunded
  /\ pc # "processRefund:record" /\ p.status \in Returned =>
       (p.status = "REFUNDED" <=> s.refunded = Amount[o])

(* What a call at pc with locals q may rely on; st is the order's status.   *)
InHand(pc, q, st, p, s) ==
  /\ pc # "syncRefund:write"
  /\ pc # "createOrder:persist" => st # "none"
  /\ pc \in {"createIntent:stripe", "createIntent:save"} =>
       ~zeroDue(q.o) /\ ~p.intentSaved /\ p.status = "REQUIRES_PAYMENT"
  /\ pc \in {"processRefund:reserve", "processRefund:stripe", "processRefund:release"} =>
       q.base = s.refunded /\ q.amt > 0
  /\ pc \in {"processRefund:stripe", "processRefund:release"} =>
       p.refunded = s.refunded + q.amt
  /\ pc = "processRefund:record" => s.refunded = q.base + q.amt
  /\ pc = "cancelPaidOrder:restock" => s.refunded = Amount[q.o]
  /\ q.ok = "cancelPaidOrder:restock" =>
       /\ pc \in RefundSteps \cup {"cancelPaidOrder:restock", "cancelPaidOrder:undo"}
       /\ pc = "processRefund:read" => q.want = 0
       /\ pc \in RefundSteps \ {"processRefund:read"} => q.base + q.amt = Amount[q.o]
  /\ Settled(pc, q.o, p, s)

(* What the rows of an order say, whoever is at work on it.                 *)
Books(o, st, p, s, sd, rs) ==
  /\ st = "none" => ~p.intentSaved /\ s.refunded = 0
  /\ zeroDue(o) => ~p.intentSaved /\ p.status # "REQUIRES_PAYMENT"
  /\ sd = 1 /\ ~zeroDue(o) => p.intentSaved /\ p.status \in Returned \cup {"SUCCEEDED"}
  /\ rs > 0 => s.refunded = Amount[o]
  /\ \A k \in s.keys : k[1] + k[2] <= s.refunded /\ k[2] > 0

Busy(r, o) == rq[r].pc # "idle" /\ rq[r].o = o

CallsInv ==
  \A r \in Actors : rq[r].pc # "idle" =>
    InHand(rq[r].pc, rq[r], order[rq[r].o], payment[rq[r].o], stripe[rq[r].o])

RestInv ==
  \A o \in Orders : (\A r \in Actors : ~Busy(r, o)) => Settled("idle", o, payment[o], stripe[o])

BooksInv ==
  \A o \in Orders : Books(o, order[o], payment[o], stripe[o], sold[o], restocked[o])

RefundEvents == \A e \in events : e.type = "refunded" => e.total <= stripe[e.o].refunded

LedgerInv == CallsInv /\ RestInv /\ BooksInv /\ RefundEvents

SerialInv == RInv /\ IInv /\ LedgerInv

-----------------------------------------------------------------------------
(* A step that leaves the rows of every order but o alone.                  *)
OnlyAt(o) ==
  \A p \in Orders \ {o} :
    /\ order'[p] = order[p] /\ payment'[p] = payment[p] /\ stripe'[p] = stripe[p]
    /\ sold'[p] = sold[p] /\ restocked'[p] = restocked[p]

BooksAfter(o) ==
  Books(o, order'[o], payment'[o], stripe'[o], sold'[o], restocked'[o])

LEMMA BooksMove ==
  ASSUME BooksInv, NEW o \in Orders, OnlyAt(o), BooksAfter(o)
  PROVE  BooksInv'
<1>. SUFFICES ASSUME NEW p \in Orders
              PROVE  Books(p, order'[p], payment'[p], stripe'[p], sold'[p], restocked'[p])
  BY DEF BooksInv, Books, zeroDue
<1>1. CASE p = o
  BY <1>1 DEF BooksAfter
<1>2. CASE p # o
  BY <1>2 DEF OnlyAt, BooksInv
<1>. QED  BY <1>1, <1>2

(* One actor moves, about one order; no other is at work on that order.     *)
LEMMA CallMoves ==
  ASSUME TypeOK, TypeOK', LedgerInv, OneCallPerOrder, OneCallPerOrder',
         NEW r \in Actors, NEW o \in Orders, OnlyAt(o), BooksAfter(o),
         \A a \in Actors \ {r} : rq'[a] = rq[a],
         rq[r].pc # "idle" \/ rq'[r].pc # "idle",
         rq[r].pc # "idle" => rq[r].o = o,
         rq'[r].pc # "idle" =>
           rq'[r].o = o /\ InHand(rq'[r].pc, rq'[r], order'[o], payment'[o], stripe'[o]),
         rq'[r].pc = "idle" => Settled("idle", o, payment'[o], stripe'[o])
  PROVE  CallsInv' /\ RestInv' /\ BooksInv'
<1>1. \A a \in Actors \ {r} : ~Busy(a, o)
  BY DEF OneCallPerOrder, At, Busy
<1>2. CallsInv'
  <2>. SUFFICES ASSUME NEW a \in Actors, rq'[a].pc # "idle"
                PROVE  InHand(rq'[a].pc, rq'[a], order'[rq'[a].o], payment'[rq'[a].o],
                              stripe'[rq'[a].o])
    BY DEF CallsInv, InHand, Settled, zeroDue
  <2>1. CASE a = r
    BY <2>1
  <2>2. CASE a # r
    <3>1. rq'[a] = rq[a] /\ rq[a].o \in Orders \ {o}
      BY <1>1, <2>2 DEF Busy, TypeOK
    <3>. QED  BY <3>1 DEF LedgerInv, CallsInv, OnlyAt
  <2>. QED  BY <2>1, <2>2
<1>3. RestInv'
  <2>. SUFFICES ASSUME NEW p \in Orders, \A a \in Actors : ~Busy(a, p)'
                PROVE  Settled("idle", p, payment'[p], stripe'[p])
    BY DEF RestInv, Settled
  <2>1. CASE p = o
    BY <2>1 DEF Busy
  <2>2. CASE p # o
    <3>1. \A a \in Actors : ~Busy(a, p)
      BY <2>2 DEF Busy
    <3>. QED  BY <2>2, <3>1 DEF LedgerInv, RestInv, OnlyAt
  <2>. QED  BY <2>1, <2>2
<1>. QED  BY <1>2, <1>3, BooksMove DEF LedgerInv

(* A call takes a step.                                                     *)
LEMMA GotoMoves ==
  ASSUME TypeOK, TypeOK', LedgerInv, OneCallPerOrder, OneCallPerOrder',
         NEW r \in Actors, NEW pc, Goto(r, pc), rq[r].pc # "idle",
         OnlyAt(rq[r].o), BooksAfter(rq[r].o),
         pc # "idle" => InHand(pc, rq[r], order'[rq[r].o], payment'[rq[r].o], stripe'[rq[r].o]),
         pc = "idle" => Settled("idle", rq[r].o, payment'[rq[r].o], stripe'[rq[r].o])
  PROVE  CallsInv' /\ RestInv' /\ BooksInv'
<1>1. rq[r] \in RequestState /\ rq[r].o \in Orders /\ rq \in [Actors -> RequestState]
  BY DEF TypeOK
<1>2. \A a \in Actors \ {r} : rq'[a] = rq[a]
  BY <1>1 DEF Goto
<1>3. CASE pc = "idle"
  <2>1. rq'[r].pc = "idle"
    BY <1>1, <1>3, IdleType DEF Goto
  <2>. QED  BY <1>1, <1>2, <1>3, <2>1, CallMoves
<1>4. CASE pc # "idle"
  <2>1. rq'[r] = [rq[r] EXCEPT !.pc = pc]
    BY <1>1, <1>4 DEF Goto
  <2>2. /\ rq'[r].pc = pc /\ rq'[r].o = rq[r].o /\ rq'[r].want = rq[r].want
        /\ rq'[r].base = rq[r].base /\ rq'[r].amt = rq[r].amt /\ rq'[r].ok = rq[r].ok
    BY <1>1, <2>1 DEF RequestState
  <2>3. InHand(pc, rq'[r], order'[rq[r].o], payment'[rq[r].o], stripe'[rq[r].o])
    BY <1>4, <2>2 DEF InHand
  <2>. QED  BY <1>1, <1>2, <1>4, <2>2, <2>3, CallMoves
<1>. QED  BY <1>3, <1>4

(* An idle actor may find the order at rest and start on it.                *)
LEMMA Alone ==
  ASSUME LedgerInv, OneCallPerOrder', NEW r \in Actors, NEW o \in Orders,
         \A a \in Actors \ {r} : rq'[a] = rq[a],
         rq[r].pc = "idle", rq'[r].pc # "idle", rq'[r].o = o
  PROVE  Settled("idle", o, payment[o], stripe[o])
<1>1. \A a \in Actors : ~Busy(a, o)
  BY DEF OneCallPerOrder, At, Busy
<1>. QED  BY <1>1 DEF LedgerInv, RestInv

(* What is known of the rows when an actor takes its next step.             *)
LEMMA Facts ==
  ASSUME SerialInv, NEW r \in Actors, rq[r].pc # "idle"
  PROVE  /\ TypeOK /\ LedgerInv
         /\ rq[r] \in RequestState /\ rq[r].o \in Orders
         /\ InHand(rq[r].pc, rq[r], order[rq[r].o], payment[rq[r].o], stripe[rq[r].o])
         /\ Books(rq[r].o, order[rq[r].o], payment[rq[r].o], stripe[rq[r].o],
                  sold[rq[r].o], restocked[rq[r].o])
         /\ Justified(rq[r], sold, stripe)
         /\ payment[rq[r].o].refunded \in Int /\ payment[rq[r].o].refunded <= Amount[rq[r].o]
         /\ stripe[rq[r].o].refunded \in Nat /\ stripe[rq[r].o].refunded <= Amount[rq[r].o]
         /\ Amount[rq[r].o] \in Nat
         /\ order[rq[r].o] \in {"none", "PENDING"} => sold[rq[r].o] = 0
         /\ order[rq[r].o] \in Fulfilling => sold[rq[r].o] = 1
         /\ rq[r].want \in Nat /\ rq[r].base \in Int /\ rq[r].amt \in Nat
         /\ rq[r].ok \in {"idle", "transition", "cancelPaidOrder:restock"}
         /\ rq[r].err \in {"idle", "cancelPaidOrder:undo"}
<1>1. TypeOK /\ LedgerInv /\ TablesOK
  BY TypeSplit DEF SerialInv, IInv
<1>2. rq[r] \in RequestState /\ rq[r].o \in Orders
  BY <1>1 DEF TypeOK
<1>3. /\ rq[r].want \in Nat /\ rq[r].base \in Int /\ rq[r].amt \in Nat
      /\ rq[r].ok \in {"idle", "transition", "cancelPaidOrder:restock"}
      /\ rq[r].err \in {"idle", "cancelPaidOrder:undo"}
  BY <1>2 DEF RequestState
<1>4. /\ payment[rq[r].o].refunded \in Int /\ stripe[rq[r].o].refunded \in Nat
      /\ Amount[rq[r].o] \in Nat
  BY <1>1, <1>2, RowType
<1>5. /\ payment[rq[r].o].refunded <= Amount[rq[r].o]
      /\ stripe[rq[r].o].refunded <= Amount[rq[r].o]
  BY <1>2 DEF SerialInv, RInv, RowsInv
<1>6. /\ order[rq[r].o] \in {"none", "PENDING"} => sold[rq[r].o] = 0
      /\ order[rq[r].o] \in Fulfilling => sold[rq[r].o] = 1
      /\ Justified(rq[r], sold, stripe)
  BY <1>2 DEF SerialInv, IInv, OrdersInv, RequestsInv
<1>7. /\ InHand(rq[r].pc, rq[r], order[rq[r].o], payment[rq[r].o], stripe[rq[r].o])
      /\ Books(rq[r].o, order[rq[r].o], payment[rq[r].o], stripe[rq[r].o],
               sold[rq[r].o], restocked[rq[r].o])
  BY <1>1, <1>2 DEF LedgerInv, CallsInv, BooksInv
<1>. QED  BY <1>1, <1>2, <1>3, <1>4, <1>5, <1>6, <1>7

(* What the step of one actor has to establish.                             *)
StepInv == CallsInv' /\ RestInv' /\ BooksInv'

LEMMA CreateIntentLedger ==
  ASSUME SerialInv, TypeOK', OneCallPerOrder, OneCallPerOrder',
         NEW r \in Actors, CreateIntent(r)
  PROVE  StepInv /\ RefundEvents'
<1> DEFINE o == rq[r].o
<1>1. rq[r].pc = "createIntent:stripe"
  BY DEF CreateIntent, At
<1>2. /\ OnlyAt(o) /\ order'[o] = order[o] /\ payment'[o] = payment[o]
      /\ sold'[o] = sold[o] /\ restocked'[o] = restocked[o] /\ events' = events
      /\ \A p \in Orders :
           stripe'[p].refunded = stripe[p].refunded /\ stripe'[p].keys = stripe[p].keys
  BY <1>1, Facts DEF CreateIntent, goods, OnlyAt, TypeOK
<1>3. BooksAfter(o)
  BY <1>1, <1>2, Facts DEF BooksAfter, Books
<1>4. /\ InHand("createIntent:save", rq[r], order'[o], payment'[o], stripe'[o])
      /\ Settled("idle", o, payment'[o], stripe'[o])
  BY <1>1, <1>2, Facts DEF InHand, Settled, RefundSteps
<1>5. RefundEvents'
  BY <1>1, <1>2, Facts DEF LedgerInv, RefundEvents, TypeOK
<1>6. Goto(r, "createIntent:save") \/ Goto(r, "idle")
  BY DEF CreateIntent
<1>. QED  BY <1>1, <1>2, <1>3, <1>4, <1>5, <1>6, Facts, GotoMoves DEF StepInv

LEMMA SaveIntentLedger ==
  ASSUME SerialInv, TypeOK', OneCallPerOrder, OneCallPerOrder',
         NEW r \in Actors, SaveIntent(r)
  PROVE  StepInv
<1> DEFINE o == rq[r].o
<1>1. rq[r].pc = "createIntent:save" /\ Goto(r, "idle")
  BY DEF SaveIntent, At
<1>2. /\ OnlyAt(o) /\ order'[o] = order[o] /\ stripe'[o] = stripe[o]
      /\ payment'[o].intentSaved = TRUE /\ payment'[o].status = "PROCESSING"
      /\ payment'[o].refunded = payment[o].refunded
      /\ sold'[o] = sold[o] /\ restocked'[o] = restocked[o]
  BY <1>1, Facts DEF SaveIntent, goods, OnlyAt, TypeOK
<1>3. BooksAfter(o)
  BY <1>1, <1>2, Facts DEF BooksAfter, Books, InHand
<1>4. Settled("idle", o, payment'[o], stripe'[o])
  BY <1>1, <1>2, Facts DEF InHand, Settled, Returned
<1>. QED  BY <1>1, <1>2, <1>3, <1>4, Facts, GotoMoves DEF StepInv

LEMMA FindOpenPaymentLedger ==
  ASSUME SerialInv, TypeOK', OneCallPerOrder, OneCallPerOrder',
         NEW r \in Actors, FindOpenPayment(r)
  PROVE  StepInv
<1> DEFINE o == rq[r].o
<1>1. rq[r].pc = "cancelOpenIntent:find"
  BY DEF FindOpenPayment, At
<1>2. /\ OnlyAt(o) /\ order'[o] = order[o] /\ stripe'[o] = stripe[o]
      /\ payment'[o] = payment[o] /\ sold'[o] = sold[o] /\ restocked'[o] = restocked[o]
  BY DEF FindOpenPayment, goods, OnlyAt
<1>3. BooksAfter(o)
  BY <1>1, <1>2, Facts DEF BooksAfter
<1>4. rq[r].ok \in {"idle", "transition"}
  BY <1>1, Facts DEF InHand, RefundSteps
<1>5. ASSUME NEW pc \in {"transition", "cancelOpenIntent:stripe", "cancelOpenIntent:fail"}
      PROVE  InHand(pc, rq[r], order'[o], payment'[o], stripe'[o])
  BY <1>1, <1>2, <1>4, Facts DEF InHand, Settled
<1>6. Settled("idle", o, payment'[o], stripe'[o])
  BY <1>1, <1>2, Facts DEF InHand, Settled
<1>7. \/ Goto(r, rq[r].ok) \/ Goto(r, "cancelOpenIntent:stripe")
      \/ Goto(r, "cancelOpenIntent:fail")
  BY DEF FindOpenPayment
<1>. QED  BY <1>1, <1>2, <1>3, <1>4, <1>5, <1>6, <1>7, Facts, GotoMoves DEF StepInv

LEMMA CancelIntentLedger ==
  ASSUME SerialInv, TypeOK', OneCallPerOrder, OneCallPerOrder',
         NEW r \in Actors, CancelIntent(r)
  PROVE  StepInv /\ RefundEvents'
<1> DEFINE o == rq[r].o
<1>1. rq[r].pc = "cancelOpenIntent:stripe"
  BY DEF CancelIntent, At
<1>2. /\ OnlyAt(o) /\ order'[o] = order[o] /\ payment'[o] = payment[o]
      /\ sold'[o] = sold[o] /\ restocked'[o] = restocked[o]
      /\ \A e \in events' : e \in events \/ e.type = "canceled"
      /\ \A p \in Orders :
           stripe'[p].refunded = stripe[p].refunded /\ stripe'[p].keys = stripe[p].keys
  BY <1>1, Facts DEF CancelIntent, goods, OnlyAt, TypeOK, Event
<1>3. BooksAfter(o)
  BY <1>1, <1>2, Facts DEF BooksAfter, Books
<1>4. /\ InHand("cancelOpenIntent:fail", rq[r], order'[o], payment'[o], stripe'[o])
      /\ Settled("idle", o, payment'[o], stripe'[o])
  BY <1>1, <1>2, Facts DEF InHand, Settled, RefundSteps
<1>5. RefundEvents'
  BY <1>1, <1>2, Facts DEF LedgerInv, RefundEvents, TypeOK
<1>6. Goto(r, "cancelOpenIntent:fail") \/ Goto(r, "idle")
  BY DEF CancelIntent
<1>. QED  BY <1>1, <1>2, <1>3, <1>4, <1>5, <1>6, Facts, GotoMoves DEF StepInv

LEMMA FailPaymentLedger ==
  ASSUME SerialInv, TypeOK', OneCallPerOrder, OneCallPerOrder',
         NEW r \in Actors, FailPayment(r)
  PROVE  StepInv
<1> DEFINE o == rq[r].o
<1>1. rq[r].pc = "cancelOpenIntent:fail" /\ Goto(r, rq[r].ok)
  BY DEF FailPayment, At
<1>2. /\ OnlyAt(o) /\ order'[o] = order[o] /\ stripe'[o] = stripe[o]
      /\ payment'[o].intentSaved = payment[o].intentSaved
      /\ payment'[o].refunded = payment[o].refunded
      /\ payment'[o].status = IF payment[o].status \in UNPAID_STATUSES THEN "FAILED"
                              ELSE payment[o].status
      /\ sold'[o] = sold[o] /\ restocked'[o] = restocked[o]
  BY <1>1, Facts DEF FailPayment, goods, OnlyAt, TypeOK
<1>3. BooksAfter(o)
  BY <1>1, <1>2, Facts DEF BooksAfter, Books, UNPAID_STATUSES, Returned
<1>4. rq[r].ok \in {"idle", "transition"}
  BY <1>1, Facts DEF InHand, RefundSteps
<1>5. /\ InHand("transition", rq[r], order'[o], payment'[o], stripe'[o])
      /\ Settled("idle", o, payment'[o], stripe'[o])
  BY <1>1, <1>2, <1>4, Facts DEF InHand, Settled, Returned
<1>. QED  BY <1>1, <1>2, <1>3, <1>4, <1>5, Facts, GotoMoves DEF StepInv

LEMMA ReconcileLedger ==
  ASSUME SerialInv, TypeOK', OneCallPerOrder, OneCallPerOrder',
         NEW r \in Actors, Reconcile(r)
  PROVE  StepInv
<1> DEFINE o == rq[r].o
<1>1. rq[r].pc = "reconcile:stripe"
  BY DEF Reconcile, At
<1>2. /\ OnlyAt(o) /\ order'[o] = order[o] /\ stripe'[o] = stripe[o]
      /\ payment'[o] = payment[o] /\ sold'[o] = sold[o] /\ restocked'[o] = restocked[o]
  BY DEF Reconcile, goods, OnlyAt
<1>3. BooksAfter(o)
  BY <1>1, <1>2, Facts DEF BooksAfter
<1>4. ASSUME NEW pc \in {"reconcile:succeeded", "reconcile:failed"}
      PROVE  InHand(pc, rq[r], order'[o], payment'[o], stripe'[o])
  BY <1>1, <1>2, Facts DEF InHand, Settled, RefundSteps
<1>5. Settled("idle", o, payment'[o], stripe'[o])
  BY <1>1, <1>2, Facts DEF InHand, Settled
<1>6. Goto(r, "reconcile:succeeded") \/ Goto(r, "reconcile:failed") \/ Goto(r, "idle")
  BY DEF Reconcile
<1>. QED  BY <1>1, <1>2, <1>3, <1>4, <1>5, <1>6, Facts, GotoMoves DEF StepInv

(* What a write that settles a payment, or one that does not, leaves alone. *)
Undisturbed(o) ==
  /\ order[o] # "none" => order'[o] # "none"
  /\ payment'[o].intentSaved = payment[o].intentSaved
  /\ payment'[o].refunded = payment[o].refunded
  /\ \/ payment'[o].status = payment[o].status
     \/ payment[o].intentSaved /\ payment'[o].status \notin Returned
  /\ stripe'[o].refunded = stripe[o].refunded

LEMMA StaysInHand ==
  ASSUME NEW o, NEW pc, Undisturbed(o)
  PROVE  /\ Settled(pc, o, payment[o], stripe[o]) => Settled(pc, o, payment'[o], stripe'[o])
         /\ \A q : q.o = o /\ InHand(pc, q, order[o], payment[o], stripe[o]) =>
                   InHand(pc, q, order'[o], payment'[o], stripe'[o])
<1>1. Settled(pc, o, payment[o], stripe[o]) => Settled(pc, o, payment'[o], stripe'[o])
  BY DEF Undisturbed, Settled
<1>. QED  BY <1>1 DEF Undisturbed, InHand

LEMMA MarkFailedRows ==
  ASSUME SerialInv, NEW o \in Orders, MarkFailed(o), stripe' = stripe
  PROVE  OnlyAt(o) /\ Undisturbed(o) /\ BooksAfter(o)
<1>1. TypeOK /\ Books(o, order[o], payment[o], stripe[o], sold[o], restocked[o])
  BY DEF SerialInv, IInv, LedgerInv, BooksInv
<1>2. /\ OnlyAt(o) /\ order'[o] = order[o] /\ stripe'[o] = stripe[o]
      /\ payment'[o].intentSaved = payment[o].intentSaved
      /\ payment'[o].refunded = payment[o].refunded
      /\ payment'[o].status =
           IF payment[o].intentSaved /\ payment[o].status \in {"REQUIRES_PAYMENT", "PROCESSING"}
           THEN "FAILED" ELSE payment[o].status
      /\ sold'[o] = sold[o] /\ restocked'[o] = restocked[o]
  BY <1>1 DEF MarkFailed, goods, OnlyAt, TypeOK
<1>3. Undisturbed(o)
  BY <1>2 DEF Undisturbed, Returned
<1>4. BooksAfter(o)
  BY <1>1, <1>2 DEF BooksAfter, Books, Returned
<1>. QED  BY <1>2, <1>3, <1>4

LEMMA MarkSucceededRows ==
  ASSUME SerialInv, NEW r \in Actors, NEW o \in Orders, NEW x, MarkSucceeded(r, o, x),
         stripe' = stripe
  PROVE  OnlyAt(o) /\ Undisturbed(o) /\ BooksAfter(o)
<1>1. /\ TypeOK /\ Books(o, order[o], payment[o], stripe[o], sold[o], restocked[o])
      /\ stripe'[o] = stripe[o]
  BY DEF SerialInv, IInv, LedgerInv, BooksInv
<1>2. CASE UNCHANGED <<order, payment, goods>>
  BY <1>1, <1>2 DEF OnlyAt, Undisturbed, BooksAfter, goods
<1>3. CASE /\ payment[o].intentSaved /\ payment[o].status \in UNPAID_STATUSES
           /\ payment' = [payment EXCEPT ![o].status = "SUCCEEDED"]
           /\ restocked' = restocked
           /\ \/ /\ order[o] = "PENDING" /\ order' = [order EXCEPT ![o] = "CONFIRMED"]
                 /\ sold' = [sold EXCEPT ![o] = @ + 1]
              \/ /\ order[o] = "PENDING" /\ order' = [order EXCEPT ![o] = "CANCELLED"]
                 /\ sold' = sold
              \/ order' = order /\ sold' = sold
  <2>1. /\ OnlyAt(o) /\ payment'[o].intentSaved /\ payment'[o].refunded = payment[o].refunded
        /\ payment'[o].status = "SUCCEEDED" /\ restocked'[o] = restocked[o]
        /\ order'[o] \in {order[o], "CONFIRMED", "CANCELLED"}
    BY <1>1, <1>3 DEF OnlyAt, TypeOK
  <2>2. order[o] # "none" /\ ~zeroDue(o)
    BY <1>1, <1>3 DEF Books
  <2>3. Undisturbed(o)
    BY <1>1, <1>3, <2>1, <2>2 DEF Undisturbed, Returned
  <2>4. BooksAfter(o)
    BY <1>1, <2>1, <2>2 DEF BooksAfter, Books, Returned
  <2>. QED  BY <2>1, <2>3, <2>4
<1>. QED  BY <1>2, <1>3 DEF MarkSucceeded, TakeStock, goods

LEMMA ReconcileFailedLedger ==
  ASSUME SerialInv, TypeOK', OneCallPerOrder, OneCallPerOrder',
         NEW r \in Actors, ReconcileFailed(r)
  PROVE  StepInv
<1> DEFINE o == rq[r].o
<1>1. /\ rq[r].pc = "reconcile:failed" /\ Goto(r, "idle") /\ MarkFailed(o)
      /\ stripe' = stripe
  BY DEF ReconcileFailed, At
<1>2. OnlyAt(o) /\ Undisturbed(o) /\ BooksAfter(o)
  BY <1>1, Facts, MarkFailedRows
<1>3. Settled("idle", o, payment[o], stripe[o])
  BY <1>1, Facts DEF InHand, Settled
<1>4. Settled("idle", o, payment'[o], stripe'[o])
  BY <1>2, <1>3, StaysInHand
<1>. QED  BY <1>1, <1>2, <1>4, Facts, GotoMoves DEF StepInv

LEMMA ReconcileSucceededLedger ==
  ASSUME SerialInv, TypeOK', OneCallPerOrder, OneCallPerOrder',
         NEW r \in Actors, ReconcileSucceeded(r)
  PROVE  StepInv
<1> DEFINE o == rq[r].o
           q == RefundOrphan(o)
<1>1. /\ rq[r].pc = "reconcile:succeeded" /\ MarkSucceeded(r, o, q)
      /\ stripe' = stripe
  BY DEF ReconcileSucceeded, At
<1>2. OnlyAt(o) /\ Undisturbed(o) /\ BooksAfter(o)
  BY <1>1, Facts, MarkSucceededRows
<1>3. Settled("idle", o, payment[o], stripe[o]) /\ order[o] # "none"
  BY <1>1, Facts DEF InHand, Settled
<1>4. Settled("idle", o, payment'[o], stripe'[o]) /\ order'[o] # "none"
  BY <1>2, <1>3, StaysInHand DEF Undisturbed
<1>5. CASE Goto(r, "idle")
  BY <1>1, <1>2, <1>4, <1>5, Facts, GotoMoves DEF StepInv
<1>6. CASE rq' = [rq EXCEPT ![r] = q]
  <2>1. /\ q.pc = "processRefund:read" /\ q.o = o
        /\ InHand(q.pc, q, order'[o], payment'[o], stripe'[o])
    BY <1>4 DEF RefundOrphan, Begin, InHand, Settled
  <2>. HIDE DEF q
  <2>2. rq'[r] = q /\ \A a \in Actors \ {r} : rq'[a] = rq[a]
    BY <1>6, Facts DEF TypeOK
  <2>. QED  BY <1>1, <1>2, <2>1, <2>2, Facts, CallMoves DEF StepInv
<1>. QED  BY <1>1, <1>5, <1>6 DEF MarkSucceeded

(* processRefund, step by step.                                             *)
LEMMA ReadRefundableLedger ==
  ASSUME SerialInv, TypeOK', OneCallPerOrder, OneCallPerOrder',
         NEW r \in Actors, ReadRefundable(r)
  PROVE  StepInv
<1> DEFINE o == rq[r].o
           amt == IF rq[r].want = 0 THEN Refundable(o) ELSE rq[r].want
           q == [rq[r] EXCEPT !.pc = "processRefund:reserve",
                              !.base = payment[o].refunded, !.amt = amt]
<1>1. rq[r].pc = "processRefund:read"
  BY DEF ReadRefundable, At
<1>2. /\ OnlyAt(o) /\ order'[o] = order[o] /\ stripe'[o] = stripe[o]
      /\ payment'[o] = payment[o] /\ sold'[o] = sold[o] /\ restocked'[o] = restocked[o]
  BY DEF ReadRefundable, goods, OnlyAt
<1>3. BooksAfter(o)
  BY <1>1, <1>2, Facts DEF BooksAfter
<1>4. CASE Goto(r, rq[r].err)
  <2>1. /\ InHand("cancelPaidOrder:undo", rq[r], order'[o], payment'[o], stripe'[o])
        /\ Settled("idle", o, payment'[o], stripe'[o])
    BY <1>1, <1>2, Facts DEF InHand, Settled, RefundSteps
  <2>. QED  BY <1>1, <1>2, <1>3, <1>4, <2>1, Facts, GotoMoves DEF StepInv
<1>5. CASE rq' = [rq EXCEPT ![r] = q] /\ Refundable(o) > 0
  <2>1. amt > 0 /\ (rq[r].want = 0 => payment[o].refunded + amt = Amount[o])
    BY <1>1, <1>5, Facts DEF Refundable
  <2>2. /\ q.pc = "processRefund:reserve" /\ q.o = o /\ q.base = payment[o].refunded
        /\ q.amt = amt /\ q.want = rq[r].want /\ q.ok = rq[r].ok
    <3>. HIDE DEF amt
    <3>. QED  BY <1>1, Facts DEF RequestState
  <2>. HIDE DEF q, amt
  <2>3. InHand("processRefund:reserve", q, order'[o], payment'[o], stripe'[o])
    BY <1>1, <1>2, <2>1, <2>2, Facts DEF InHand, Settled, RefundSteps
  <2>4. rq'[r] = q /\ \A a \in Actors \ {r} : rq'[a] = rq[a]
    BY <1>1, <1>5, Facts DEF TypeOK
  <2>. QED  BY <1>1, <1>2, <1>3, <2>2, <2>3, <2>4, Facts, CallMoves DEF StepInv
<1>6. Goto(r, rq[r].err) \/ (rq' = [rq EXCEPT ![r] = q] /\ Refundable(o) > 0)
  BY DEF ReadRefundable
<1>. QED  BY <1>4, <1>5, <1>6

LEMMA ReserveRefundLedger ==
  ASSUME SerialInv, TypeOK', OneCallPerOrder, OneCallPerOrder',
         NEW r \in Actors, ReserveRefund(r)
  PROVE  StepInv
<1> DEFINE o == rq[r].o
<1>1. /\ rq[r].pc = "processRefund:reserve" /\ Goto(r, "processRefund:stripe")
      /\ payment' = [payment EXCEPT ![o].refunded = @ + rq[r].amt]
  <2>1. rq[r].pc = "processRefund:reserve"
    BY DEF ReserveRefund, At
  <2>2. payment[o].refunded = rq[r].base
    BY <2>1, Facts DEF InHand, Settled
  <2>. QED  BY <2>1, <2>2 DEF ReserveRefund
<1>2. /\ OnlyAt(o) /\ order'[o] = order[o] /\ stripe'[o] = stripe[o]
      /\ payment'[o].refunded = payment[o].refunded + rq[r].amt
      /\ payment'[o].status = payment[o].status
      /\ payment'[o].intentSaved = payment[o].intentSaved
      /\ sold'[o] = sold[o] /\ restocked'[o] = restocked[o]
  BY <1>1, Facts DEF ReserveRefund, goods, OnlyAt, TypeOK
<1>3. BooksAfter(o)
  BY <1>1, <1>2, Facts DEF BooksAfter, Books
<1>4. InHand("processRefund:stripe", rq[r], order'[o], payment'[o], stripe'[o])
  BY <1>1, <1>2, Facts DEF InHand, Settled, RefundSteps
<1>. QED  BY <1>1, <1>2, <1>3, <1>4, Facts, GotoMoves DEF StepInv

LEMMA RefundAtStripeLedger ==
  ASSUME AnswersArrive, SerialInv, TypeOK', OneCallPerOrder, OneCallPerOrder',
         NEW r \in Actors, RefundAtStripe(r)
  PROVE  StepInv /\ RefundEvents'
<1> DEFINE o == rq[r].o
           total == stripe[o].refunded + rq[r].amt
           key == <<rq[r].base, rq[r].amt>>
<1>1. /\ rq[r].pc = "processRefund:stripe"
      /\ order'[o] = order[o] /\ payment'[o] = payment[o]
      /\ sold'[o] = sold[o] /\ restocked'[o] = restocked[o]
  BY DEF RefundAtStripe, At, goods
<1>2. rq[r].base = stripe[o].refunded /\ rq[r].amt > 0
      /\ payment[o].refunded = stripe[o].refunded + rq[r].amt
  BY <1>1, Facts DEF InHand
<1>3. key \notin stripe[o].keys
  BY <1>1, <1>2, Facts DEF Books
<1>4. CASE UNCHANGED <<stripe, events>> /\ Goto(r, "processRefund:release")
  <2>1. OnlyAt(o) /\ stripe'[o] = stripe[o]
    BY <1>4 DEF RefundAtStripe, goods, OnlyAt
  <2>2. BooksAfter(o)
    BY <1>1, <2>1, Facts DEF BooksAfter
  <2>3. InHand("processRefund:release", rq[r], order'[o], payment'[o], stripe'[o])
    BY <1>1, <2>1, Facts DEF InHand, Settled, RefundSteps
  <2>4. RefundEvents'
    BY <1>1, <1>4, Facts DEF LedgerInv, RefundEvents
  <2>. QED  BY <1>1, <1>4, <2>1, <2>2, <2>3, <2>4, Facts, GotoMoves DEF StepInv
<1>5. CASE /\ total <= Amount[o] /\ Goto(r, "processRefund:record")
           /\ stripe' = [stripe EXCEPT ![o].refunded = total, ![o].keys = @ \cup {key}]
           /\ events' = events \cup {Event("refunded", o, total)}
  <2>1. /\ OnlyAt(o) /\ stripe'[o].refunded = total
        /\ stripe'[o].keys = stripe[o].keys \cup {key}
        /\ \A p \in Orders : stripe[p].refunded <= stripe'[p].refunded
    <3>1. /\ \A p \in Orders \ {o} : stripe'[p] = stripe[p]
          /\ stripe'[o].refunded = total /\ stripe'[o].keys = stripe[o].keys \cup {key}
      BY <1>1, <1>5, Facts DEF TypeOK
    <3>2. \A p \in Orders : stripe[p].refunded \in Nat
      BY <1>1, Facts, RowType, TypeSplit
    <3>3. OnlyAt(o)
      BY <3>1 DEF RefundAtStripe, goods, OnlyAt
    <3>. QED  BY <1>1, <1>2, <3>1, <3>2, <3>3, Facts
  <2>2. BooksAfter(o)
    <3>1. \A k \in stripe'[o].keys : k[1] + k[2] <= total /\ k[2] > 0
      <4>. SUFFICES ASSUME NEW k \in stripe'[o].keys PROVE k[1] + k[2] <= total /\ k[2] > 0
        OBVIOUS
      <4>1. CASE k = key
        BY <1>1, <1>2, <4>1, Facts
      <4>2. CASE k \in stripe[o].keys
        <5>1. k[1] + k[2] <= stripe[o].refunded /\ k[2] > 0
          BY <1>1, <4>2, Facts DEF Books
        <5>2. k[1] \in Int /\ k[2] \in Nat
          BY <1>1, <4>2, Facts, RowType, TypeSplit
        <5>. QED  BY <1>1, <1>2, <5>1, <5>2, Facts
      <4>. QED  BY <2>1, <4>1, <4>2
    <3>2. ~(restocked[o] > 0) /\ order[o] # "none"
      BY <1>1, <1>2, <1>5, Facts DEF Books, InHand
    <3>. QED  BY <1>1, <2>1, <3>1, <3>2, Facts DEF BooksAfter, Books
  <2>3. InHand("processRefund:record", rq[r], order'[o], payment'[o], stripe'[o])
    BY <1>1, <1>2, <2>1, Facts DEF InHand, Settled, RefundSteps
  <2>4. RefundEvents'
    <3>. SUFFICES ASSUME NEW e \in events', e.type = "refunded"
                  PROVE  e.total <= stripe'[e.o].refunded
      BY DEF RefundEvents
    <3>1. CASE e = Event("refunded", o, total)
      BY <1>1, <2>1, <3>1, Facts DEF Event
    <3>2. CASE e \in events
      <4>1. e.o \in Orders /\ e.total \in Nat /\ e.total <= stripe[e.o].refunded
        BY <1>1, <3>2, Facts DEF LedgerInv, RefundEvents, TypeOK
      <4>2. stripe[e.o].refunded \in Nat /\ stripe'[e.o].refunded \in Nat
        BY <4>1 DEF TypeOK, SerialInv, IInv
      <4>. QED  BY <2>1, <4>1, <4>2
    <3>. QED  BY <1>5, <3>1, <3>2
  <2>. QED  BY <1>1, <1>5, <2>1, <2>2, <2>3, <2>4, Facts, GotoMoves DEF StepInv
<1>. QED  BY <1>3, <1>4, <1>5 DEF RefundAtStripe, AnswersArrive

LEMMA ReleaseRefundLedger ==
  ASSUME SerialInv, TypeOK', OneCallPerOrder, OneCallPerOrder',
         NEW r \in Actors, ReleaseRefund(r)
  PROVE  StepInv
<1> DEFINE o == rq[r].o
<1>1. rq[r].pc = "processRefund:release" /\ Goto(r, rq[r].err)
  BY DEF ReleaseRefund, At
<1>2. /\ OnlyAt(o) /\ order'[o] = order[o] /\ stripe'[o] = stripe[o]
      /\ payment'[o].refunded = payment[o].refunded - rq[r].amt
      /\ payment'[o].status = payment[o].status
      /\ payment'[o].intentSaved = payment[o].intentSaved
      /\ sold'[o] = sold[o] /\ restocked'[o] = restocked[o]
  BY <1>1, Facts DEF ReleaseRefund, goods, OnlyAt, TypeOK
<1>3. BooksAfter(o)
  BY <1>1, <1>2, Facts DEF BooksAfter, Books
<1>4. payment'[o].refunded = stripe'[o].refunded
  BY <1>1, <1>2, Facts DEF InHand
<1>5. /\ InHand("cancelPaidOrder:undo", rq[r], order'[o], payment'[o], stripe'[o])
      /\ Settled("idle", o, payment'[o], stripe'[o])
  BY <1>1, <1>2, <1>4, Facts DEF InHand, Settled, RefundSteps
<1>. QED  BY <1>1, <1>2, <1>3, <1>5, Facts, GotoMoves DEF StepInv

LEMMA RecordRefundLedger ==
  ASSUME SerialInv, TypeOK', OneCallPerOrder, OneCallPerOrder',
         NEW r \in Actors, RecordRefund(r)
  PROVE  StepInv
<1> DEFINE o == rq[r].o
           full == rq[r].base + rq[r].amt >= Amount[o]
<1>1. rq[r].pc = "processRefund:record" /\ Goto(r, rq[r].ok)
  BY DEF RecordRefund, At
<1>2. /\ OnlyAt(o) /\ order'[o] \in {order[o], "REFUNDED"} /\ stripe'[o] = stripe[o]
      /\ payment'[o].refunded = payment[o].refunded
      /\ payment'[o].status = IF full THEN "REFUNDED" ELSE "PARTIALLY_REFUNDED"
      /\ payment'[o].intentSaved = payment[o].intentSaved
      /\ sold'[o] = sold[o] /\ restocked'[o] = restocked[o]
  BY <1>1, Facts DEF RecordRefund, goods, OnlyAt, TypeOK
<1>3. full <=> stripe[o].refunded = Amount[o]
  BY <1>1, Facts DEF InHand
<1>. HIDE DEF full
<1>4. order'[o] # "none"
  BY <1>1, <1>2, Facts DEF InHand
<1>5. BooksAfter(o)
  BY <1>1, <1>2, <1>4, Facts DEF BooksAfter, Books, Returned
<1>6. ASSUME NEW pc \in {"idle", "transition", "cancelPaidOrder:restock"}
      PROVE  Settled(pc, o, payment'[o], stripe'[o])
  BY <1>1, <1>2, <1>3, Facts DEF InHand, Settled, Returned
<1>7. ASSUME NEW pc \in {"transition", "cancelPaidOrder:restock"}, pc = rq[r].ok
      PROVE  InHand(pc, rq[r], order'[o], payment'[o], stripe'[o])
  BY <1>1, <1>2, <1>4, <1>6, <1>7, Facts DEF InHand, RefundSteps
<1>. QED  BY <1>1, <1>2, <1>5, <1>6, <1>7, Facts, GotoMoves DEF StepInv

(* The steps of the order service.                                          *)
LEMMA PersistOrderLedger ==
  ASSUME SerialInv, TypeOK', OneCallPerOrder, OneCallPerOrder',
         NEW r \in Actors, PersistOrder(r)
  PROVE  StepInv
<1> DEFINE o == rq[r].o
           row(status) == [status |-> status, intentSaved |-> FALSE, refunded |-> 0]
           q == Loaded(o, "replayOrder")
<1>1. /\ rq[r].pc = "createOrder:persist" /\ stripe' = stripe
  BY DEF PersistOrder, At
<1>2. Settled("idle", o, payment[o], stripe[o])
  BY <1>1, Facts DEF InHand, Settled
<1>3. rq[r].ok # "cancelPaidOrder:restock"
  BY <1>1, Facts DEF InHand, RefundSteps
<1>4. CASE order[o] # "none" /\ rq' = [rq EXCEPT ![r] = q] /\ UNCHANGED <<order, payment, goods>>
  <2>1. OnlyAt(o) /\ BooksAfter(o)
    BY <1>1, <1>4, Facts DEF OnlyAt, BooksAfter, goods
  <2>2. q.pc = "replayOrder" /\ q.o = o /\ q.ok = "idle"
    BY DEF Loaded, Begin
  <2>. HIDE DEF q
  <2>3. InHand(q.pc, q, order'[o], payment'[o], stripe'[o])
    BY <1>1, <1>2, <1>4, <2>2 DEF InHand, Settled
  <2>4. rq'[r] = q /\ \A a \in Actors \ {r} : rq'[a] = rq[a]
    BY <1>1, <1>4, Facts DEF TypeOK
  <2>. QED  BY <1>1, <2>1, <2>2, <2>3, <2>4, Facts, CallMoves DEF StepInv
<1>5. CASE UNCHANGED <<order, payment, goods>> /\ Goto(r, "idle")
  <2>1. OnlyAt(o) /\ BooksAfter(o) /\ payment'[o] = payment[o] /\ stripe'[o] = stripe[o]
    BY <1>1, <1>5, Facts DEF OnlyAt, BooksAfter, goods
  <2>. QED  BY <1>1, <1>2, <1>5, <2>1, Facts, GotoMoves DEF StepInv
<1>6. CASE /\ order[o] = "none" /\ ~zeroDue(o)
           /\ order' = [order EXCEPT ![o] = "PENDING"]
           /\ payment' = [payment EXCEPT ![o] = row("REQUIRES_PAYMENT")]
           /\ Goto(r, "createIntent:stripe") /\ UNCHANGED goods
  <2>1. /\ OnlyAt(o) /\ order'[o] = "PENDING" /\ stripe'[o] = stripe[o]
        /\ ~payment'[o].intentSaved /\ payment'[o].status = "REQUIRES_PAYMENT"
        /\ payment'[o].refunded = 0 /\ sold'[o] = sold[o] /\ restocked'[o] = restocked[o]
    BY <1>1, <1>6, Facts DEF OnlyAt, TypeOK, goods
  <2>2. sold[o] = 0 /\ stripe[o].refunded = 0
    BY <1>1, <1>6, Facts DEF Books
  <2>3. BooksAfter(o)
    BY <1>1, <1>6, <2>1, <2>2, Facts DEF BooksAfter, Books
  <2>4. InHand("createIntent:stripe", rq[r], order'[o], payment'[o], stripe'[o])
    BY <1>3, <1>6, <2>1, <2>2 DEF InHand, Settled, Returned
  <2>. QED  BY <1>1, <1>6, <2>1, <2>3, <2>4, Facts, GotoMoves DEF StepInv
<1>7. CASE /\ order[o] = "none" /\ zeroDue(o)
           /\ order' = [order EXCEPT ![o] = "CONFIRMED"]
           /\ payment' = [payment EXCEPT ![o] = row("SUCCEEDED")]
           /\ sold' = [sold EXCEPT ![o] = @ + 1]
           /\ Goto(r, "idle") /\ UNCHANGED restocked
  <2>1. /\ OnlyAt(o) /\ order'[o] = "CONFIRMED" /\ stripe'[o] = stripe[o]
        /\ ~payment'[o].intentSaved /\ payment'[o].status = "SUCCEEDED"
        /\ payment'[o].refunded = 0 /\ restocked'[o] = restocked[o]
    BY <1>1, <1>7, Facts DEF OnlyAt, TypeOK
  <2>2. stripe[o].refunded = 0
    BY <1>1, <1>7, Facts DEF Books
  <2>3. BooksAfter(o)
    BY <1>1, <1>7, <2>1, <2>2, Facts DEF BooksAfter, Books
  <2>4. Settled("idle", o, payment'[o], stripe'[o])
    BY <2>1, <2>2 DEF Settled, Returned
  <2>. QED  BY <1>1, <1>7, <2>1, <2>3, <2>4, Facts, GotoMoves DEF StepInv
<1>. QED  BY <1>1, <1>4, <1>5, <1>6, <1>7, Zenon DEF PersistOrder, TakeStock

(* A step that leaves every row alone.                                      *)
SameRows == UNCHANGED <<order, payment, stripe, sold, restocked>>

LEMMA RowsStay ==
  ASSUME LedgerInv, SameRows, NEW o \in Orders
  PROVE  /\ OnlyAt(o) /\ BooksAfter(o) /\ order'[o] = order[o]
         /\ payment'[o] = payment[o] /\ stripe'[o] = stripe[o]
  BY DEF SameRows, OnlyAt, BooksAfter, LedgerInv, BooksInv

LEMMA ReplayOrderLedger ==
  ASSUME SerialInv, TypeOK', OneCallPerOrder, OneCallPerOrder',
         NEW r \in Actors, ReplayOrder(r)
  PROVE  StepInv
<1> DEFINE o == rq[r].o
<1>1. rq[r].pc = "replayOrder" /\ SameRows
  BY DEF ReplayOrder, At, goods, SameRows
<1>2. /\ OnlyAt(o) /\ BooksAfter(o) /\ order'[o] = order[o]
      /\ payment'[o] = payment[o] /\ stripe'[o] = stripe[o]
  BY <1>1, Facts, RowsStay
<1>3. CASE Goto(r, "idle")
  <2>1. Settled("idle", o, payment'[o], stripe'[o])
    BY <1>1, <1>2, Facts DEF InHand, Settled
  <2>. QED  BY <1>1, <1>2, <1>3, <2>1, Facts, GotoMoves DEF StepInv
<1>4. CASE /\ Goto(r, "createIntent:stripe")
           /\ ~payment[o].intentSaved /\ payment[o].status = "REQUIRES_PAYMENT"
  <2>1. ~zeroDue(o)
    BY <1>1, <1>4, Facts DEF Books
  <2>2. InHand("createIntent:stripe", rq[r], order'[o], payment'[o], stripe'[o])
    BY <1>1, <1>2, <1>4, <2>1, Facts DEF InHand, Settled, RefundSteps
  <2>. QED  BY <1>1, <1>2, <1>4, <2>2, Facts, GotoMoves DEF StepInv
<1>. QED  BY <1>3, <1>4 DEF ReplayOrder

(* The writes of the order's status end the call, or go on to the refund.   *)
LEMMA StatusLedger ==
  ASSUME SerialInv, TypeOK', OneCallPerOrder, OneCallPerOrder',
         NEW r \in Actors, NEW pc \in {"idle", "cancelPaidOrder:payment"}, NEW s, s # "none",
         Goto(r, pc), rq[r].pc \in {"transition", "setTracking", "cancelPaidOrder:claim",
                                    "cancelPaidOrder:undo"},
         pc # "idle" => rq[r].pc = "cancelPaidOrder:claim",
         order' = [order EXCEPT ![rq[r].o] = s] \/ order' = order,
         UNCHANGED <<payment, stripe, sold, restocked>>
  PROVE  StepInv
<1> DEFINE o == rq[r].o
<1>1. /\ OnlyAt(o) /\ order'[o] \in {order[o], s} /\ payment'[o] = payment[o]
      /\ stripe'[o] = stripe[o] /\ sold'[o] = sold[o] /\ restocked'[o] = restocked[o]
  BY Facts DEF OnlyAt, TypeOK
<1>2. order'[o] # "none"
  BY <1>1, Facts DEF InHand
<1>3. BooksAfter(o)
  BY <1>1, <1>2, Facts DEF BooksAfter, Books
<1>4. /\ Settled("idle", o, payment'[o], stripe'[o])
      /\ pc # "idle" => InHand(pc, rq[r], order'[o], payment'[o], stripe'[o])
  BY <1>1, <1>2, Facts DEF InHand, Settled, RefundSteps
<1>. QED  BY <1>1, <1>3, <1>4, Facts, GotoMoves DEF StepInv

LEMMA StatusWritesLedger ==
  ASSUME SerialInv, TypeOK', OneCallPerOrder, OneCallPerOrder', NEW r \in Actors,
         Transition(r) \/ Ship(r) \/ ClaimCancel(r) \/ UndoCancel(r)
  PROVE  StepInv
<1> DEFINE o == rq[r].o
<1>1. CASE Transition(r)
  <2>1. rq[r].pc = "transition" /\ rq[r].next # "none" /\ o \in Orders
    BY <1>1, Facts DEF Transition, At, Justified
  <2>2. \/ order' = [order EXCEPT ![o] = rq[r].next]
        \/ order' = [order EXCEPT ![o] = @]
    BY <1>1 DEF Transition
  <2>3. order' = [order EXCEPT ![o] = rq[r].next] \/ order' = order
    BY <2>1, <2>2 DEF SerialInv, IInv, TypeOK
  <2>. QED  BY <1>1, <2>1, <2>3, StatusLedger DEF Transition, goods
<1>2. CASE Ship(r)
  BY <1>2, StatusLedger DEF Ship, At, goods
<1>3. CASE ClaimCancel(r)
  BY <1>3, StatusLedger DEF ClaimCancel, At, goods
<1>4. CASE UndoCancel(r)
  <2>1. rq[r].pc = "cancelPaidOrder:undo" /\ rq[r].st # "none" /\ o \in Orders
    BY <1>4, Facts DEF UndoCancel, At, Justified, Fulfilling
  <2>2. \/ order' = [order EXCEPT ![o] = rq[r].st]
        \/ order' = [order EXCEPT ![o] = @]
    BY <1>4 DEF UndoCancel
  <2>3. order' = [order EXCEPT ![o] = rq[r].st] \/ order' = order
    BY <2>1, <2>2 DEF SerialInv, IInv, TypeOK
  <2>. QED  BY <1>4, <2>1, <2>3, StatusLedger DEF UndoCancel, goods
<1>. QED  BY <1>1, <1>2, <1>3, <1>4

(* A cancel that finds nothing left to refund finds all of it refunded: the *)
(* order was paid, so its payment has an intent and was captured.           *)
LEMMA RefundCancelledLedger ==
  ASSUME SerialInv, TypeOK', OneCallPerOrder, OneCallPerOrder',
         NEW r \in Actors, RefundCancelled(r)
  PROVE  StepInv
<1> DEFINE o == rq[r].o
           captured == /\ payment[o].status \in {"SUCCEEDED", "PARTIALLY_REFUNDED"}
                       /\ payment[o].intentSaved
                       /\ Refundable(o) > 0
           q == [rq[r] EXCEPT !.pc = "processRefund:read", !.want = 0,
                              !.ok = "cancelPaidOrder:restock",
                              !.err = "cancelPaidOrder:undo"]
           p == [rq[r] EXCEPT !.pc = "cancelPaidOrder:restock"]
<1>1. rq[r].pc = "cancelPaidOrder:payment" /\ SameRows
  BY DEF RefundCancelled, At, goods, SameRows
<1>2. /\ OnlyAt(o) /\ BooksAfter(o) /\ order'[o] = order[o]
      /\ payment'[o] = payment[o] /\ stripe'[o] = stripe[o]
  BY <1>1, Facts, RowsStay
<1>3. /\ payment[o].refunded = stripe[o].refunded /\ order[o] # "none"
      /\ payment[o].status \in Returned =>
           (payment[o].status = "REFUNDED" <=> stripe[o].refunded = Amount[o])
      /\ rq[r].ok # "cancelPaidOrder:restock"
  BY <1>1, Facts DEF InHand, Settled, RefundSteps
<1>4. /\ \A a \in Actors \ {r} : rq'[a] = rq[a]
      /\ (captured /\ rq'[r] = q) \/ (~captured /\ rq'[r] = p)
  BY <1>1, Facts DEF RefundCancelled, TypeOK
<1>5. CASE captured /\ rq'[r] = q
  <2>1. /\ q.pc = "processRefund:read" /\ q.o = o /\ q.want = 0
        /\ q.ok = "cancelPaidOrder:restock"
    BY <1>1, Facts DEF RequestState
  <2>. HIDE DEF q
  <2>2. InHand(q.pc, q, order'[o], payment'[o], stripe'[o])
    BY <1>2, <1>3, <2>1 DEF InHand, Settled, RefundSteps
  <2>. QED  BY <1>1, <1>2, <1>4, <1>5, <2>1, <2>2, Facts, CallMoves DEF StepInv
<1>6. CASE ~captured /\ rq'[r] = p
  <2>1. p.pc = "cancelPaidOrder:restock" /\ p.o = o /\ p.ok = rq[r].ok
    BY <1>1, Facts DEF RequestState
  <2>2. stripe[o].refunded = Amount[o]
    <3>1. CASE zeroDue(o)
      BY <1>1, <3>1, Facts DEF zeroDue
    <3>2. CASE ~zeroDue(o)
      <4>1. sold[o] = 1
        BY <1>1, Facts DEF Justified
      <4>2. payment[o].intentSaved /\ payment[o].status \in Returned \cup {"SUCCEEDED"}
        BY <1>1, <3>2, <4>1, Facts DEF Books
      <4>3. CASE payment[o].status = "REFUNDED"
        BY <1>3, <4>3 DEF Returned
      <4>4. CASE ~(Refundable(o) > 0)
        BY <1>1, <1>3, <4>4, Facts DEF Refundable
      <4>. QED  BY <1>6, <4>2, <4>3, <4>4 DEF Returned
    <3>. QED  BY <3>1, <3>2
  <2>. HIDE DEF p
  <2>3. InHand(p.pc, p, order'[o], payment'[o], stripe'[o])
    BY <1>2, <1>3, <2>1, <2>2 DEF InHand, Settled
  <2>. QED  BY <1>1, <1>2, <1>4, <1>6, <2>1, <2>3, Facts, CallMoves DEF StepInv
<1>. QED  BY <1>4, <1>5, <1>6

LEMMA RestockLedger ==
  ASSUME SerialInv, TypeOK', OneCallPerOrder, OneCallPerOrder',
         NEW r \in Actors, Restock(r)
  PROVE  StepInv
<1> DEFINE o == rq[r].o
<1>1. rq[r].pc = "cancelPaidOrder:restock" /\ Goto(r, "idle")
  BY DEF Restock, At
<1>2. /\ OnlyAt(o) /\ order'[o] = order[o] /\ stripe'[o] = stripe[o]
      /\ payment'[o] = payment[o] /\ sold'[o] = sold[o]
  BY <1>1, Facts DEF Restock, OnlyAt, TypeOK
<1>3. BooksAfter(o)
  BY <1>1, <1>2, Facts DEF BooksAfter, Books, InHand
<1>4. Settled("idle", o, payment'[o], stripe'[o])
  BY <1>1, <1>2, Facts DEF InHand, Settled
<1>. QED  BY <1>1, <1>2, <1>3, <1>4, Facts, GotoMoves DEF StepInv

-----------------------------------------------------------------------------
(* A client sends a call about an order that no call is under way for.      *)
LEMMA StartMoves ==
  ASSUME SerialInv, TypeOK', OneCallPerOrder, OneCallPerOrder', SameRows,
         NEW r \in Actors, NEW o \in Orders, NEW q, rq' = [rq EXCEPT ![r] = q],
         rq[r].pc = "idle", q.o = o, q.ok # "cancelPaidOrder:restock",
         q.pc \in {"createOrder:persist", "replayOrder", "reconcile:stripe",
                   "cancelOpenIntent:find", "cancelPaidOrder:claim", "transition",
                   "setTracking", "processRefund:read"},
         q.pc # "createOrder:persist" => order[o] # "none"
  PROVE  StepInv
<1>1. TypeOK /\ LedgerInv
  BY DEF SerialInv, IInv
<1>2. rq'[r] = q /\ \A a \in Actors \ {r} : rq'[a] = rq[a]
  BY <1>1 DEF TypeOK
<1>3. Settled("idle", o, payment[o], stripe[o])
  BY <1>1, <1>2, Alone
<1>4. /\ OnlyAt(o) /\ BooksAfter(o) /\ order'[o] = order[o]
      /\ payment'[o] = payment[o] /\ stripe'[o] = stripe[o]
  BY <1>1, RowsStay
<1>5. InHand(q.pc, q, order'[o], payment'[o], stripe'[o])
  BY <1>3, <1>4 DEF InHand, Settled
<1>. QED  BY <1>1, <1>2, <1>4, <1>5, CallMoves DEF StepInv

LEMMA RequestLedger ==
  ASSUME SerialInv, TypeOK', OneCallPerOrder, OneCallPerOrder',
         NEW r \in Requests, NEW o \in Orders, Request(r, o)
  PROVE  StepInv
<1>1. r \in Actors /\ rq[r].pc = "idle" /\ SameRows
  BY DEF Actors, Request, CreateOrder, GetOrder, CancelOrder, UpdateStatus, SetTracking,
         Refund, At, goods, SameRows
<1>2. ASSUME NEW pc
      PROVE  /\ Begin(o, pc).pc = pc /\ Begin(o, pc).o = o /\ Begin(o, pc).ok = "idle"
             /\ Loaded(o, pc).pc = pc /\ Loaded(o, pc).o = o /\ Loaded(o, pc).ok = "idle"
  BY DEF Begin, Loaded
<1>3. CASE CreateOrder(r, o)
  BY <1>1, <1>2, <1>3, StartMoves DEF CreateOrder
<1>4. CASE GetOrder(r, o)
  BY <1>1, <1>2, <1>4, StartMoves DEF GetOrder
<1>5. CASE CancelUnpaid(r, o) /\ order[o] # "none"
  <2>. DEFINE q == [Loaded(o, "cancelOpenIntent:find")
                      EXCEPT !.ok = "transition", !.next = "CANCELLED"]
  <2>1. q.pc = "cancelOpenIntent:find" /\ q.o = o /\ q.ok = "transition"
    BY DEF Loaded, Begin
  <2>2. rq' = [rq EXCEPT ![r] = q]
    BY <1>5 DEF CancelUnpaid
  <2>. HIDE DEF q
  <2>. QED  BY <1>1, <1>5, <2>1, <2>2, StartMoves
<1>6. CASE CancelOrder(r, o)
  BY <1>5, <1>6 DEF CancelOrder, CUSTOMER_CANCELLABLE
<1>7. CASE \E s \in Targets : UpdateStatus(r, o, s)
  <2>1. PICK s \in Targets : UpdateStatus(r, o, s)
    BY <1>7
  <2>2. order[o] # "none"
    BY <2>1 DEF UpdateStatus
  <2>3. CASE rq' = [rq EXCEPT ![r] = Loaded(o, "cancelPaidOrder:claim")]
    BY <1>1, <1>2, <2>2, <2>3, StartMoves
  <2>4. CASE rq' = [rq EXCEPT ![r] = [Loaded(o, "transition") EXCEPT !.next = s]]
    <3>. DEFINE q == [Loaded(o, "transition") EXCEPT !.next = s]
    <3>1. q.pc = "transition" /\ q.o = o /\ q.ok = "idle"
      BY DEF Loaded, Begin
    <3>. HIDE DEF q
    <3>2. rq' = [rq EXCEPT ![r] = q]
      BY <2>4 DEF q
    <3>. QED  BY <1>1, <2>2, <3>1, <3>2, StartMoves
  <2>. QED  BY <1>5, <2>1, <2>2, <2>3, <2>4, Zenon DEF UpdateStatus
<1>8. CASE SetTracking(r, o)
  BY <1>1, <1>2, <1>8, StartMoves DEF SetTracking, SHIPPABLE
<1>9. CASE \E a \in RefundAmounts \cup {0} : Refund(r, o, a)
  <2>1. PICK a \in RefundAmounts \cup {0} : Refund(r, o, a)
    BY <1>9
  <2>. DEFINE q == [Begin(o, "processRefund:read") EXCEPT !.want = a]
  <2>2. q.pc = "processRefund:read" /\ q.o = o /\ q.ok = "idle"
    BY DEF Begin
  <2>3. rq' = [rq EXCEPT ![r] = q] /\ order[o] # "none"
    BY <2>1 DEF Refund
  <2>. HIDE DEF q
  <2>. QED  BY <1>1, <2>2, <2>3, StartMoves
<1>. QED  BY <1>3, <1>4, <1>6, <1>7, <1>8, <1>9 DEF Request

(* A webhook that is handled in one step, or a payment, comes between the    *)
(* steps of whatever call is under way for the order.                       *)
LEMMA QuietMoves ==
  ASSUME SerialInv, NEW o \in Orders, OnlyAt(o), Undisturbed(o), BooksAfter(o),
         \A a \in Actors : rq'[a] = rq[a] \/ (rq[a].pc = "idle" /\ rq'[a].pc = "idle")
  PROVE  StepInv
<1>1. TypeOK /\ LedgerInv
  BY DEF SerialInv, IInv
<1>2. CallsInv'
  <2>. SUFFICES ASSUME NEW a \in Actors, rq'[a].pc # "idle"
                PROVE  InHand(rq'[a].pc, rq'[a], order'[rq'[a].o], payment'[rq'[a].o],
                              stripe'[rq'[a].o])
    BY DEF CallsInv, InHand, Settled, zeroDue
  <2>1. rq'[a] = rq[a] /\ rq[a].o \in Orders
    BY <1>1 DEF TypeOK
  <2>2. InHand(rq[a].pc, rq[a], order[rq[a].o], payment[rq[a].o], stripe[rq[a].o])
    BY <1>1, <2>1 DEF LedgerInv, CallsInv
  <2>3. CASE rq[a].o = o
    BY <2>1, <2>2, <2>3, StaysInHand
  <2>4. CASE rq[a].o # o
    BY <2>1, <2>2, <2>4 DEF OnlyAt
  <2>. QED  BY <2>3, <2>4
<1>3. RestInv'
  <2>. SUFFICES ASSUME NEW p \in Orders, \A a \in Actors : ~Busy(a, p)'
                PROVE  Settled("idle", p, payment'[p], stripe'[p])
    BY DEF RestInv, Settled
  <2>1. \A a \in Actors : ~Busy(a, p)
    BY DEF Busy
  <2>2. Settled("idle", p, payment[p], stripe[p])
    BY <1>1, <2>1 DEF LedgerInv, RestInv
  <2>3. CASE p = o
    BY <2>2, <2>3, StaysInHand
  <2>4. CASE p # o
    BY <2>2, <2>4 DEF OnlyAt
  <2>. QED  BY <2>3, <2>4
<1>. QED  BY <1>1, <1>2, <1>3, BooksMove DEF StepInv, LedgerInv

(* The row never shows less than what Stripe gave back.                     *)
LEMMA RowCovers ==
  ASSUME SerialInv, NEW o \in Orders
  PROVE  stripe[o].refunded <= payment[o].refunded
<1>1. TypeOK /\ LedgerInv /\ stripe[o].refunded \in Nat /\ payment[o].refunded \in Int
  BY RowType, TypeSplit DEF SerialInv, IInv
<1>2. CASE \A r \in Actors : ~Busy(r, o)
  BY <1>1, <1>2 DEF LedgerInv, RestInv, Settled
<1>3. CASE \E r \in Actors : Busy(r, o)
  <2>1. PICK r \in Actors : Busy(r, o)
    BY <1>3
  <2>2. InHand(rq[r].pc, rq[r], order[o], payment[o], stripe[o]) /\ rq[r].amt \in Nat
    BY <1>1, <2>1 DEF Busy, LedgerInv, CallsInv, TypeOK, RequestState
  <2>. QED  BY <1>1, <2>2 DEF InHand, Settled
<1>. QED  BY <1>2, <1>3

LEMMA HandleEventLedger ==
  ASSUME SerialInv, TypeOK', OneCallPerOrder, OneCallPerOrder',
         NEW h \in Hooks, NEW e \in events, HandleEvent(h, e)
  PROVE  StepInv
<1> DEFINE o == e.o
           q == RefundOrphan(o)
<1>1. /\ h \in Actors /\ o \in Orders /\ rq[h].pc = "idle" /\ stripe' = stripe
      /\ TypeOK /\ LedgerInv /\ rq \in [Actors -> RequestState]
      /\ e.total \in Nat /\ stripe[o].refunded \in Nat /\ payment[o].refunded \in Int
  BY RowType, TypeSplit DEF Actors, SerialInv, IInv, TypeOK, HandleEvent, At
<1>2. CASE MarkSucceeded(h, o, q)
  <2>1. OnlyAt(o) /\ Undisturbed(o) /\ BooksAfter(o)
    BY <1>1, <1>2, MarkSucceededRows
  <2>2. CASE Goto(h, "idle")
    <3>1. \A a \in Actors : rq'[a] = rq[a] \/ (rq[a].pc = "idle" /\ rq'[a].pc = "idle")
      BY <1>1, <2>2, IdleType DEF Goto
    <3>. QED  BY <1>1, <2>1, <3>1, QuietMoves
  <2>3. CASE rq' = [rq EXCEPT ![h] = q] /\ payment[o].intentSaved
    <3>1. q.pc = "processRefund:read" /\ q.o = o /\ q.ok = "idle"
      BY DEF RefundOrphan, Begin
    <3>. HIDE DEF q
    <3>2. rq'[h] = q /\ \A a \in Actors \ {h} : rq'[a] = rq[a]
      BY <1>1, <2>3
    <3>3. Settled("idle", o, payment[o], stripe[o])
      BY <1>1, <3>1, <3>2, Alone
    <3>4. order[o] # "none"
      BY <1>1, <2>3 DEF LedgerInv, BooksInv, Books
    <3>5. Settled("idle", o, payment'[o], stripe'[o]) /\ order'[o] # "none"
      BY <2>1, <3>3, <3>4, StaysInHand DEF Undisturbed
    <3>6. InHand(q.pc, q, order'[o], payment'[o], stripe'[o])
      BY <3>1, <3>5 DEF InHand, Settled
    <3>. QED  BY <1>1, <2>1, <3>1, <3>2, <3>6, CallMoves DEF StepInv
  <2>. QED  BY <1>2, <2>2, <2>3 DEF MarkSucceeded
<1>3. CASE MarkFailed(o) /\ UNCHANGED rq
  <2>1. OnlyAt(o) /\ Undisturbed(o) /\ BooksAfter(o)
    BY <1>1, <1>3, MarkFailedRows
  <2>. QED  BY <1>1, <1>3, <2>1, QuietMoves
<1>4. CASE UNCHANGED <<order, payment, goods, rq>>
  <2>1. SameRows
    BY <1>1, <1>4 DEF SameRows, goods
  <2>2. OnlyAt(o) /\ BooksAfter(o) /\ Undisturbed(o)
    BY <1>1, <2>1, RowsStay DEF Undisturbed
  <2>. QED  BY <1>1, <1>4, <2>2, QuietMoves
<1>5. ~(e.type = "refunded" /\ e.total > payment[o].refunded)
  <2>1. e.type = "refunded" => e.total <= stripe[o].refunded
    BY <1>1 DEF LedgerInv, RefundEvents
  <2>. QED  BY <1>1, <2>1, RowCovers
<1>. QED  BY <1>2, <1>3, <1>4, <1>5 DEF HandleEvent

LEMMA OutsideLedger ==
  ASSUME AnswersArrive, SerialInv, NEW o \in Orders, Outside(o)
  PROVE  StepInv /\ RefundEvents'
<1>1. TypeOK /\ LedgerInv
  BY DEF SerialInv, IInv
<1>2. Pay(o) \/ Decline(o)
  BY DEF AnswersArrive, Outside, DashboardRefund, DashboardCancel
<1>3. /\ UNCHANGED <<order, payment, rq, sold, restocked>>
      /\ \E status : stripe' = [stripe EXCEPT ![o].intent = status]
      /\ \A e \in events' : e \in events \/ e.type # "refunded"
  BY <1>2 DEF Pay, Decline, goods, Event
<1>4. /\ \A p \in Orders \ {o} : stripe'[p] = stripe[p]
      /\ stripe'[o].refunded = stripe[o].refunded /\ stripe'[o].keys = stripe[o].keys
  BY <1>1, <1>3 DEF TypeOK
<1>5. OnlyAt(o) /\ Undisturbed(o)
  BY <1>3, <1>4 DEF OnlyAt, Undisturbed
<1>6. BooksAfter(o)
  BY <1>1, <1>3, <1>4 DEF BooksAfter, LedgerInv, BooksInv, Books
<1>7. RefundEvents'
  BY <1>1, <1>3, <1>4 DEF RefundEvents, LedgerInv, TypeOK
<1>. QED  BY <1>3, <1>5, <1>6, <1>7, QuietMoves

-----------------------------------------------------------------------------
(* The other steps add no event of a refund and take none of Stripe's back. *)
LEMMA EventsStay ==
  ASSUME SerialInv, UNCHANGED <<stripe, events>>
  PROVE  RefundEvents'
  BY DEF SerialInv, LedgerInv, RefundEvents

LEMMA ProgressLedger ==
  ASSUME AnswersArrive, SerialInv, TypeOK', OneCallPerOrder, OneCallPerOrder',
         NEW r \in Actors, Progress(r) \/ Crash(r)
  PROVE  StepInv /\ RefundEvents'
<1>1. CASE CreateIntent(r) \/ CancelIntent(r) \/ RefundAtStripe(r)
  BY <1>1, CreateIntentLedger, CancelIntentLedger, RefundAtStripeLedger
<1>2. CASE \/ SaveIntent(r) \/ FindOpenPayment(r) \/ FailPayment(r) \/ Reconcile(r)
           \/ ReconcileSucceeded(r) \/ ReconcileFailed(r)
  <2>1. UNCHANGED <<stripe, events>>
    BY <1>2 DEF SaveIntent, FindOpenPayment, FailPayment, Reconcile, ReconcileSucceeded,
                ReconcileFailed
  <2>. QED  BY <1>2, <2>1, EventsStay, SaveIntentLedger, FindOpenPaymentLedger,
               FailPaymentLedger, ReconcileLedger, ReconcileSucceededLedger,
               ReconcileFailedLedger
<1>3. CASE ReadRefundable(r) \/ ReserveRefund(r) \/ ReleaseRefund(r) \/ RecordRefund(r)
  <2>1. UNCHANGED <<stripe, events>>
    BY <1>3 DEF ReadRefundable, ReserveRefund, ReleaseRefund, RecordRefund
  <2>. QED  BY <1>3, <2>1, EventsStay, ReadRefundableLedger, ReserveRefundLedger,
               ReleaseRefundLedger, RecordRefundLedger
<1>4. ~SyncRefund(r) /\ ~Crash(r)
  BY Facts DEF SyncRefund, Crash, At, InHand, AnswersArrive
<1>5. CASE OrderStep(r)
  <2>1. UNCHANGED <<stripe, events>>
    BY <1>5 DEF OrderStep, PersistOrder, ReplayOrder, Transition, Ship, ClaimCancel,
                RefundCancelled, UndoCancel, Restock
  <2>. QED  BY <1>5, <2>1, EventsStay, PersistOrderLedger, ReplayOrderLedger,
               StatusWritesLedger, RefundCancelledLedger, RestockLedger DEF OrderStep
<1>. QED  BY <1>1, <1>2, <1>3, <1>4, <1>5 DEF Progress, PaymentStep

LEMMA InitLedger == Init => SerialInv
<1>. SUFFICES ASSUME Init PROVE LedgerInv
  BY InitBound, InitSafe DEF SerialInv
<1>1. CallsInv /\ RestInv /\ RefundEvents
  BY IdleType DEF Init, CallsInv, RestInv, RefundEvents, Settled, Returned
<1>2. BooksInv
  BY DEF Init, BooksInv, Books, Returned
<1>. QED  BY <1>1, <1>2 DEF LedgerInv

LEMMA NextLedger ==
  ASSUME AnswersArrive
  PROVE  SerialInv /\ OneCallPerOrder /\ OneCallPerOrder' /\ [Next]_vars => SerialInv'
<1>. SUFFICES ASSUME SerialInv, OneCallPerOrder, OneCallPerOrder', [Next]_vars
              PROVE  SerialInv'
  OBVIOUS
<1>1. RInv' /\ IInv' /\ TypeOK'
  BY NextBound, NextSafe DEF SerialInv, IInv
<1>2. StepInv /\ RefundEvents'
  <2>1. CASE \E r \in Requests, o \in Orders : Request(r, o)
    <3>1. PICK r \in Requests, o \in Orders : Request(r, o)
      BY <2>1
    <3>2. UNCHANGED <<stripe, events>>
      BY <3>1 DEF Request, CreateOrder, GetOrder, CancelOrder, UpdateStatus, SetTracking,
                  Refund
    <3>. QED  BY <1>1, <3>1, <3>2, RequestLedger, EventsStay
  <2>2. CASE \E r \in Actors : Progress(r) \/ Crash(r)
    BY <1>1, <2>2, ProgressLedger
  <2>3. CASE \E h \in Hooks, e \in events : HandleEvent(h, e)
    <3>1. PICK h \in Hooks, e \in events : HandleEvent(h, e)
      BY <2>3
    <3>2. UNCHANGED <<stripe, events>>
      BY <3>1 DEF HandleEvent
    <3>. QED  BY <1>1, <3>1, <3>2, HandleEventLedger, EventsStay
  <2>4. CASE \E o \in Orders : Outside(o)
    BY <2>4, OutsideLedger
  <2>5. CASE UNCHANGED vars
    BY <2>5 DEF vars, StepInv, SerialInv, LedgerInv, CallsInv, RestInv, Busy, BooksInv,
                RefundEvents
  <2>. QED  BY <2>1, <2>2, <2>3, <2>4, <2>5 DEF Next
<1>. QED  BY <1>1, <1>2 DEF StepInv, SerialInv, LedgerInv

-----------------------------------------------------------------------------
(* A refused refund has given its reservation back and an accepted one has  *)
(* kept it: with one call at a time for an order, its row and Stripe agree. *)
LEMMA AtRest ==
  ASSUME SerialInv, Quiet, NEW o \in Orders
  PROVE  Settled("idle", o, payment[o], stripe[o])
  BY DEF Quiet, At, SerialInv, LedgerInv, RestInv, Busy

THEOREM RowMirrorsStripe ==
  ASSUME AnswersArrive
  PROVE  Spec /\ []OneCallPerOrder => []MirrorsStripe
<1>1. SerialInv => MirrorsStripe
  BY AtRest DEF MirrorsStripe, Settled
<1>. QED  BY <1>1, InitLedger, NextLedger, PTL DEF Spec

(* The status of the payment says REFUNDED exactly when all of it is.       *)
THEOREM StatusFollowsRefund ==
  ASSUME AnswersArrive
  PROVE  Spec /\ []OneCallPerOrder => []RefundStatusMatches
<1>1. SerialInv => RefundStatusMatches
  BY AtRest DEF RefundStatusMatches, Settled, Returned
<1>. QED  BY <1>1, InitLedger, NextLedger, PTL DEF Spec

(* Goods go back on the shelf only when the money went back to the shopper. *)
THEOREM RestockFollowsRefund ==
  ASSUME AnswersArrive
  PROVE  Spec /\ []OneCallPerOrder => []RestockedMeansRefunded
<1>1. SerialInv => RestockedMeansRefunded
  BY DEF SerialInv, LedgerInv, BooksInv, Books, RestockedMeansRefunded
<1>. QED  BY <1>1, InitLedger, NextLedger, PTL DEF Spec
=============================================================================
