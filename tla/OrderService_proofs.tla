------------------------ MODULE OrderService_proofs -------------------------
(***************************************************************************)
(* Theorems about OrderService, for every value of its constants: types,   *)
(* goods that only leave against money, and stock that is promised once.   *)
(***************************************************************************)
EXTENDS OrderService, SumLemmas

ConstantAssumptions ==
  /\ Amount \in [Orders -> Nat]
  /\ Quantity \in [Orders -> [Variants -> Nat]]
  /\ InitialStock \in [Variants -> Nat]
  /\ CouponOrders \subseteq Orders
  /\ RefundAmounts \subseteq Nat \ {0}
  /\ Targets \subseteq OrderStatus \ {"none"}

LEMMA Constants == ConstantAssumptions
  BY AmountAssumption, QuantityAssumption, StockAssumption, CouponAssumption,
     RefundAssumption, TargetAssumption DEF ConstantAssumptions

EventRow == [type : EventTypes, o : Orders, total : Nat]

PaymentRow == [status : PaymentStatus, intentSaved : BOOLEAN, refunded : Int]

StripeRow == [intent : IntentStatus, refunded : Nat, keys : SUBSET (Int \X Nat)]

(* The state of the requests and of the tables, typed apart.                *)
RequestsOK ==
  /\ rq \in [Actors -> RequestState]
  /\ \A r \in Actors : rq[r].pc # "idle" => rq[r].o \in Orders

TablesOK ==
  /\ order \in [Orders -> OrderStatus]
  /\ payment \in [Orders -> PaymentRow]
  /\ stock \in [Variants -> Nat]
  /\ redemptions \subseteq CouponOrders
  /\ stripe \in [Orders -> StripeRow]
  /\ events \subseteq EventRow
  /\ processed \subseteq EventRow
  /\ sold \in [Orders -> Nat] /\ restocked \in [Orders -> Nat]

LEMMA TypeSplit == TypeOK <=> TablesOK /\ RequestsOK
  BY DEF TypeOK, TablesOK, RequestsOK, EventRow, PaymentRow, StripeRow

LEMMA IdleType == Idle \in RequestState /\ Idle.pc = "idle"
  BY DEF Idle, Begin, RequestState, OrderStatus, Steps

LEMMA BeginType ==
  ASSUME NEW o \in Orders, NEW pc \in Steps
  PROVE  Begin(o, pc) \in RequestState /\ Begin(o, pc).o = o
  BY DEF Begin, RequestState, OrderStatus

LEMMA RequestUpdate ==
  ASSUME RequestsOK, NEW r \in Actors, NEW q \in RequestState,
         q.pc # "idle" => q.o \in Orders,
         rq' = [rq EXCEPT ![r] = q]
  PROVE  RequestsOK'
  BY DEF RequestsOK

LEMMA GotoType ==
  ASSUME RequestsOK, NEW r \in Actors, NEW pc \in Steps,
         rq[r].pc # "idle", Goto(r, pc)
  PROVE  RequestsOK'
<1>1. CASE pc = "idle"
  BY <1>1, IdleType, RequestUpdate DEF Goto
<1>2. CASE pc # "idle"
  <2>1. rq[r] \in RequestState /\ rq[r].o \in Orders
    BY DEF RequestsOK
  <2>2. [rq[r] EXCEPT !.pc = pc] \in RequestState
    BY <2>1 DEF RequestState
  <2>3. [rq[r] EXCEPT !.pc = pc].o \in Orders
    BY <2>1 DEF RequestState
  <2>4. rq' = [rq EXCEPT ![r] = [rq[r] EXCEPT !.pc = pc]]
    BY <1>2 DEF Goto
  <2>. QED  BY <2>2, <2>3, <2>4, RequestUpdate
<1>. QED  BY <1>1, <1>2

LEMMA ActorType ==
  ASSUME RequestsOK, NEW r \in Actors
  PROVE  /\ rq[r] \in RequestState
         /\ rq[r].pc # "idle" => rq[r].o \in Orders
         /\ rq[r].st \in OrderStatus /\ rq[r].next \in OrderStatus
         /\ rq[r].want \in Nat /\ rq[r].base \in Int /\ rq[r].amt \in Nat
         /\ rq[r].ok \in Steps /\ rq[r].err \in Steps
  BY DEF RequestsOK, RequestState, Steps

LEMMA RowType ==
  ASSUME TablesOK, NEW o \in Orders
  PROVE  /\ order[o] \in OrderStatus
         /\ payment[o] \in PaymentRow
         /\ payment[o].refunded \in Int /\ payment[o].status \in PaymentStatus
         /\ stripe[o] \in StripeRow
         /\ stripe[o].intent \in IntentStatus /\ stripe[o].refunded \in Nat
         /\ stripe[o].keys \in SUBSET (Int \X Nat)
         /\ Amount[o] \in Nat
         /\ \A v \in Variants : Quantity[o][v] \in Nat /\ stock[v] \in Nat
         /\ sold[o] \in Nat /\ restocked[o] \in Nat
  BY Constants DEF TablesOK, PaymentRow, StripeRow, ConstantAssumptions

-----------------------------------------------------------------------------

(* A status write keeps the row a row.                                      *)
LEMMA StatusType ==
  ASSUME TablesOK, NEW o \in Orders, NEW s \in PaymentStatus,
         payment' = [payment EXCEPT ![o].status = s]
  PROVE  payment' \in [Orders -> PaymentRow]
<1>1. [payment[o] EXCEPT !.status = s] \in PaymentRow
  BY RowType DEF PaymentRow
<1>2. payment' = [payment EXCEPT ![o] = [payment[o] EXCEPT !.status = s]]
  BY DEF TablesOK
<1>. QED  BY <1>1, <1>2 DEF TablesOK

LEMMA CreateIntentType ==
  ASSUME TablesOK, RequestsOK, NEW r \in Actors, CreateIntent(r)
  PROVE  TablesOK' /\ RequestsOK'
<1>1. rq[r].pc # "idle" /\ rq[r].o \in Orders
  BY ActorType DEF CreateIntent, At
<1>2. TablesOK'
  <2>1. stripe' \in [Orders -> StripeRow]
    <3>1. CASE stripe' = stripe
      BY <3>1 DEF TablesOK
    <3>2. CASE stripe' = [stripe EXCEPT ![rq[r].o].intent =
                                          IF @ = "none" THEN "open" ELSE @]
      <4>. DEFINE intent ==
             IF stripe[rq[r].o].intent = "none" THEN "open" ELSE stripe[rq[r].o].intent
      <4>1. intent \in IntentStatus
        BY <1>1, RowType DEF IntentStatus
      <4>2. stripe' = [stripe EXCEPT ![rq[r].o] = [stripe[rq[r].o] EXCEPT !.intent = intent]]
        BY <1>1, <3>2 DEF TablesOK
      <4>. HIDE DEF intent
      <4>3. [stripe[rq[r].o] EXCEPT !.intent = intent] \in StripeRow
        BY <1>1, <4>1, RowType DEF StripeRow
      <4>. QED  BY <1>1, <4>2, <4>3 DEF TablesOK
    <3>. QED  BY <3>1, <3>2 DEF CreateIntent
  <2>. QED  BY <2>1 DEF CreateIntent, TablesOK, goods
<1>3. RequestsOK'
  BY <1>1, GotoType, ActorType DEF CreateIntent, Steps
<1>. QED  BY <1>2, <1>3

LEMMA SaveIntentType ==
  ASSUME TablesOK, RequestsOK, NEW r \in Actors, SaveIntent(r)
  PROVE  TablesOK' /\ RequestsOK'
<1>1. rq[r].pc # "idle" /\ rq[r].o \in Orders
  BY ActorType DEF SaveIntent, At
<1>2. TablesOK'
  <2>. DEFINE row == [payment[rq[r].o] EXCEPT !.intentSaved = TRUE, !.status = "PROCESSING"]
  <2>1. row \in PaymentRow
    BY <1>1, RowType DEF PaymentRow, PaymentStatus, UNPAID_STATUSES
  <2>2. payment' = [payment EXCEPT ![rq[r].o] = row]
    BY <1>1 DEF SaveIntent, TablesOK
  <2>. HIDE DEF row
  <2>. QED  BY <1>1, <2>1, <2>2 DEF SaveIntent, TablesOK, goods
<1>3. RequestsOK'
  BY <1>1, GotoType, ActorType DEF SaveIntent, Steps
<1>. QED  BY <1>2, <1>3

LEMMA FindOpenPaymentType ==
  ASSUME TablesOK, RequestsOK, NEW r \in Actors, FindOpenPayment(r)
  PROVE  TablesOK' /\ RequestsOK'
<1>1. rq[r].pc # "idle" /\ rq[r].o \in Orders
  BY ActorType DEF FindOpenPayment, At
<1>2. TablesOK'
  BY <1>1, ActorType, RowType
  DEF FindOpenPayment, TablesOK, goods
<1>3. RequestsOK'
  BY <1>1, GotoType, ActorType DEF FindOpenPayment, Steps
<1>. QED  BY <1>2, <1>3

LEMMA CancelIntentType ==
  ASSUME TablesOK, RequestsOK, NEW r \in Actors, CancelIntent(r)
  PROVE  TablesOK' /\ RequestsOK'
<1>1. rq[r].pc # "idle" /\ rq[r].o \in Orders
  BY ActorType DEF CancelIntent, At
<1>2. TablesOK'
  <2>1. stripe' \in [Orders -> StripeRow]
    BY <1>1, RowType DEF CancelIntent, TablesOK, StripeRow, IntentStatus
  <2>2. events' \subseteq EventRow
    BY <1>1 DEF CancelIntent, TablesOK, EventRow, EventTypes, Event
  <2>. QED  BY <2>1, <2>2 DEF CancelIntent, TablesOK, goods
<1>3. RequestsOK'
  BY <1>1, GotoType, ActorType DEF CancelIntent, Steps
<1>. QED  BY <1>2, <1>3

LEMMA FailPaymentType ==
  ASSUME TablesOK, RequestsOK, NEW r \in Actors, FailPayment(r)
  PROVE  TablesOK' /\ RequestsOK'
<1>1. rq[r].pc # "idle" /\ rq[r].o \in Orders
  BY ActorType DEF FailPayment, At
<1>2. TablesOK'
  <2>. DEFINE s == IF payment[rq[r].o].status \in UNPAID_STATUSES THEN "FAILED"
                 ELSE payment[rq[r].o].status
  <2>1. s \in PaymentStatus
    BY <1>1, RowType DEF PaymentStatus, UNPAID_STATUSES
  <2>2. payment' = [payment EXCEPT ![rq[r].o].status = s]
    BY <1>1 DEF FailPayment, TablesOK
  <2>. HIDE DEF s
  <2>3. payment' \in [Orders -> PaymentRow]
    BY <1>1, <2>1, <2>2, StatusType
  <2>. QED  BY <1>1, <2>3 DEF FailPayment, TablesOK, goods
<1>3. RequestsOK'
  BY <1>1, GotoType, ActorType DEF FailPayment, Steps
<1>. QED  BY <1>2, <1>3

LEMMA ReconcileType ==
  ASSUME TablesOK, RequestsOK, NEW r \in Actors, Reconcile(r)
  PROVE  TablesOK' /\ RequestsOK'
<1>1. rq[r].pc # "idle" /\ rq[r].o \in Orders
  BY ActorType DEF Reconcile, At
<1>2. TablesOK'
  BY <1>1, ActorType, RowType
  DEF Reconcile, TablesOK, goods
<1>3. RequestsOK'
  BY <1>1, GotoType, ActorType DEF Reconcile, Steps
<1>. QED  BY <1>2, <1>3

LEMMA ReconcileFailedType ==
  ASSUME TablesOK, RequestsOK, NEW r \in Actors, ReconcileFailed(r)
  PROVE  TablesOK' /\ RequestsOK'
<1>1. rq[r].pc # "idle" /\ rq[r].o \in Orders
  BY ActorType DEF ReconcileFailed, At
<1>2. TablesOK'
  <2>. DEFINE s == IF /\ payment[rq[r].o].intentSaved
                    /\ payment[rq[r].o].status \in {"REQUIRES_PAYMENT", "PROCESSING"}
                 THEN "FAILED" ELSE payment[rq[r].o].status
  <2>1. s \in PaymentStatus
    BY <1>1, RowType DEF PaymentStatus, UNPAID_STATUSES
  <2>2. payment' = [payment EXCEPT ![rq[r].o].status = s]
    BY <1>1 DEF ReconcileFailed, MarkFailed, TablesOK
  <2>. HIDE DEF s
  <2>3. payment' \in [Orders -> PaymentRow]
    BY <1>1, <2>1, <2>2, StatusType
  <2>. QED  BY <1>1, <2>3 DEF ReconcileFailed, MarkFailed, TablesOK, goods
<1>3. RequestsOK'
  BY <1>1, GotoType, ActorType DEF ReconcileFailed, Steps
<1>. QED  BY <1>2, <1>3

LEMMA ReserveRefundType ==
  ASSUME TablesOK, RequestsOK, NEW r \in Actors, ReserveRefund(r)
  PROVE  TablesOK' /\ RequestsOK'
<1>1. rq[r].pc # "idle" /\ rq[r].o \in Orders
  BY ActorType DEF ReserveRefund, At
<1>2. TablesOK'
  <2>1. payment[rq[r].o].refunded + rq[r].amt \in Int
    BY <1>1, ActorType, RowType
  <2>2. payment' \in [Orders -> PaymentRow]
    BY <1>1, <2>1 DEF ReserveRefund, TablesOK, PaymentRow
  <2>. QED  BY <2>2 DEF ReserveRefund, TablesOK, goods
<1>3. RequestsOK'
  BY <1>1, GotoType, ActorType DEF ReserveRefund, Steps
<1>. QED  BY <1>2, <1>3

LEMMA RefundAtStripeType ==
  ASSUME TablesOK, RequestsOK, NEW r \in Actors, RefundAtStripe(r)
  PROVE  TablesOK' /\ RequestsOK'
<1>1. rq[r].pc # "idle" /\ rq[r].o \in Orders
  BY ActorType DEF RefundAtStripe, At
<1>2. TablesOK'
  BY <1>1, ActorType, RowType
  DEF RefundAtStripe, TablesOK, goods, StripeRow, EventRow, EventTypes, Event
<1>3. RequestsOK'
  BY <1>1, GotoType, ActorType DEF RefundAtStripe, Steps
<1>. QED  BY <1>2, <1>3

LEMMA ReleaseRefundType ==
  ASSUME TablesOK, RequestsOK, NEW r \in Actors, ReleaseRefund(r)
  PROVE  TablesOK' /\ RequestsOK'
<1>1. rq[r].pc # "idle" /\ rq[r].o \in Orders
  BY ActorType DEF ReleaseRefund, At
<1>2. TablesOK'
  BY <1>1, ActorType, RowType
  DEF ReleaseRefund, TablesOK, goods, PaymentRow, PaymentStatus, UNPAID_STATUSES
<1>3. RequestsOK'
  BY <1>1, GotoType, ActorType DEF ReleaseRefund, Steps
<1>. QED  BY <1>2, <1>3

LEMMA RecordRefundType ==
  ASSUME TablesOK, RequestsOK, NEW r \in Actors, RecordRefund(r)
  PROVE  TablesOK' /\ RequestsOK'
<1>1. rq[r].pc # "idle" /\ rq[r].o \in Orders
  BY ActorType DEF RecordRefund, At
<1>2. TablesOK'
  <2>. DEFINE s == IF rq[r].base + rq[r].amt >= Amount[rq[r].o]
                 THEN "REFUNDED" ELSE "PARTIALLY_REFUNDED"
  <2>1. s \in PaymentStatus
    BY <1>1, RowType DEF PaymentStatus, UNPAID_STATUSES
  <2>2. payment' = [payment EXCEPT ![rq[r].o].status = s]
    BY <1>1 DEF RecordRefund, TablesOK
  <2>. HIDE DEF s
  <2>3. payment' \in [Orders -> PaymentRow]
    BY <1>1, <2>1, <2>2, StatusType
  <2>. QED  BY <1>1, <2>3 DEF RecordRefund, TablesOK, goods, OrderStatus
<1>3. RequestsOK'
  BY <1>1, GotoType, ActorType DEF RecordRefund, Steps
<1>. QED  BY <1>2, <1>3

LEMMA SyncRefundType ==
  ASSUME TablesOK, RequestsOK, NEW r \in Actors, SyncRefund(r)
  PROVE  TablesOK' /\ RequestsOK'
<1>1. rq[r].pc # "idle" /\ rq[r].o \in Orders
  BY ActorType DEF SyncRefund, At
<1>2. TablesOK'
  BY <1>1, ActorType, RowType
  DEF SyncRefund, TablesOK, goods, PaymentRow, PaymentStatus, UNPAID_STATUSES, OrderStatus, EventRow, EventTypes, Event
<1>3. RequestsOK'
  BY <1>1, GotoType, ActorType DEF SyncRefund, Steps
<1>. QED  BY <1>2, <1>3

LEMMA ReplayOrderType ==
  ASSUME TablesOK, RequestsOK, NEW r \in Actors, ReplayOrder(r)
  PROVE  TablesOK' /\ RequestsOK'
<1>1. rq[r].pc # "idle" /\ rq[r].o \in Orders
  BY ActorType DEF ReplayOrder, At
<1>2. TablesOK'
  BY <1>1, ActorType, RowType
  DEF ReplayOrder, TablesOK, goods
<1>3. RequestsOK'
  BY <1>1, GotoType, ActorType DEF ReplayOrder, Steps
<1>. QED  BY <1>2, <1>3

LEMMA TransitionType ==
  ASSUME TablesOK, RequestsOK, NEW r \in Actors, Transition(r)
  PROVE  TablesOK' /\ RequestsOK'
<1>1. rq[r].pc # "idle" /\ rq[r].o \in Orders
  BY ActorType DEF Transition, At
<1>2. TablesOK'
  BY <1>1, ActorType, RowType
  DEF Transition, TablesOK, goods, OrderStatus
<1>3. RequestsOK'
  BY <1>1, GotoType, ActorType DEF Transition, Steps
<1>. QED  BY <1>2, <1>3

LEMMA ShipType ==
  ASSUME TablesOK, RequestsOK, NEW r \in Actors, Ship(r)
  PROVE  TablesOK' /\ RequestsOK'
<1>1. rq[r].pc # "idle" /\ rq[r].o \in Orders
  BY ActorType DEF Ship, At
<1>2. TablesOK'
  BY <1>1, ActorType, RowType
  DEF Ship, TablesOK, goods, OrderStatus
<1>3. RequestsOK'
  BY <1>1, GotoType, ActorType DEF Ship, Steps
<1>. QED  BY <1>2, <1>3

LEMMA ClaimCancelType ==
  ASSUME TablesOK, RequestsOK, NEW r \in Actors, ClaimCancel(r)
  PROVE  TablesOK' /\ RequestsOK'
<1>1. rq[r].pc # "idle" /\ rq[r].o \in Orders
  BY ActorType DEF ClaimCancel, At
<1>2. TablesOK'
  BY <1>1, ActorType, RowType
  DEF ClaimCancel, TablesOK, goods, OrderStatus
<1>3. RequestsOK'
  BY <1>1, GotoType, ActorType DEF ClaimCancel, Steps
<1>. QED  BY <1>2, <1>3

LEMMA UndoCancelType ==
  ASSUME TablesOK, RequestsOK, NEW r \in Actors, UndoCancel(r)
  PROVE  TablesOK' /\ RequestsOK'
<1>1. rq[r].pc # "idle" /\ rq[r].o \in Orders
  BY ActorType DEF UndoCancel, At
<1>2. TablesOK'
  BY <1>1, ActorType, RowType
  DEF UndoCancel, TablesOK, goods, OrderStatus
<1>3. RequestsOK'
  BY <1>1, GotoType, ActorType DEF UndoCancel, Steps
<1>. QED  BY <1>2, <1>3

LEMMA RestockType ==
  ASSUME TablesOK, RequestsOK, NEW r \in Actors, Restock(r)
  PROVE  TablesOK' /\ RequestsOK'
<1>1. rq[r].pc # "idle" /\ rq[r].o \in Orders
  BY ActorType DEF Restock, At
<1>2. TablesOK'
  BY <1>1, ActorType, RowType
  DEF Restock, TablesOK, goods
<1>3. RequestsOK'
  BY <1>1, GotoType, ActorType DEF Restock, Steps
<1>. QED  BY <1>2, <1>3

(* The transaction of markSucceeded, wherever it sends an orphaned payment. *)
LEMMA MarkSucceededType ==
  ASSUME TablesOK, RequestsOK, NEW r \in Actors, NEW o \in Orders,
         NEW orphaned \in RequestState, orphaned.o = o,
         MarkSucceeded(r, o, orphaned)
  PROVE  /\ order' \in [Orders -> OrderStatus]
         /\ payment' \in [Orders -> PaymentRow]
         /\ stock' \in [Variants -> Nat]
         /\ redemptions' \subseteq CouponOrders
         /\ sold' \in [Orders -> Nat] /\ restocked' \in [Orders -> Nat]
         /\ RequestsOK'
<1>1. order' \in [Orders -> OrderStatus]
  BY DEF MarkSucceeded, TablesOK, OrderStatus
<1>2. payment' \in [Orders -> PaymentRow]
  BY DEF MarkSucceeded, TablesOK, PaymentRow, PaymentStatus
<1>3. stock' \in [Variants -> Nat] /\ sold' \in [Orders -> Nat]
  BY RowType DEF MarkSucceeded, TablesOK, TakeStock, InStock, goods
<1>4. redemptions' \subseteq CouponOrders /\ restocked' \in [Orders -> Nat]
  BY DEF MarkSucceeded, TablesOK, RecordRedemption, goods
<1>5. RequestsOK'
  <2>1. CASE rq' = [rq EXCEPT ![r] = Idle]
    BY <2>1, RequestUpdate, IdleType
  <2>2. CASE rq' = [rq EXCEPT ![r] = orphaned]
    BY <2>2, RequestUpdate
  <2>. QED  BY <2>1, <2>2 DEF MarkSucceeded, Goto
<1>. QED  BY <1>1, <1>2, <1>3, <1>4, <1>5

LEMMA HandleEventType ==
  ASSUME TablesOK, RequestsOK, NEW h \in Hooks, NEW e \in events, HandleEvent(h, e)
  PROVE  TablesOK' /\ RequestsOK'
<1>1. h \in Actors /\ e \in EventRow /\ e.o \in Orders /\ e.total \in Nat
  BY DEF Actors, TablesOK, EventRow
<1>2. stripe' \in [Orders -> StripeRow] /\ events' \subseteq EventRow
  BY DEF HandleEvent, TablesOK
<1>3. CASE e.type = "succeeded" /\ MarkSucceeded(h, e.o, RefundOrphan(e.o))
           /\ processed' = processed \cup {e}
  <2>1. RefundOrphan(e.o) \in RequestState /\ RefundOrphan(e.o).o = e.o
    BY <1>1, BeginType DEF RefundOrphan, Steps
  <2>. QED  BY <1>1, <1>2, <1>3, <2>1, MarkSucceededType DEF TablesOK
<1>4. CASE MarkFailed(e.o) /\ processed' = processed \cup {e} /\ UNCHANGED rq
  BY <1>1, <1>2, <1>4
  DEF TablesOK, RequestsOK, MarkFailed, goods, PaymentRow, PaymentStatus, UNPAID_STATUSES
<1>5. CASE processed' = processed \cup {e} /\ UNCHANGED <<order, payment, goods, rq>>
  BY <1>1, <1>2, <1>5 DEF TablesOK, RequestsOK, goods
<1>6. CASE /\ rq' = [rq EXCEPT ![h] =
                      [Begin(e.o, "syncRefund:write") EXCEPT !.want = e.total]]
           /\ UNCHANGED <<order, payment, processed, goods>>
  <2>1. TablesOK'
    BY <1>2, <1>6 DEF TablesOK, goods
  <2>2. [Begin(e.o, "syncRefund:write") EXCEPT !.want = e.total] \in RequestState
        /\ [Begin(e.o, "syncRefund:write") EXCEPT !.want = e.total].o = e.o
    BY <1>1 DEF Begin, RequestState, OrderStatus, Steps
  <2>. QED  BY <1>1, <1>6, <2>1, <2>2, RequestUpdate
<1>. QED  BY <1>3, <1>4, <1>5, <1>6 DEF HandleEvent

LEMMA ReconcileSucceededType ==
  ASSUME TablesOK, RequestsOK, NEW r \in Actors, ReconcileSucceeded(r)
  PROVE  TablesOK' /\ RequestsOK'
<1>1. rq[r].o \in Orders
  BY ActorType DEF ReconcileSucceeded, At
<1>2. RefundOrphan(rq[r].o) \in RequestState /\ RefundOrphan(rq[r].o).o = rq[r].o
  BY <1>1, BeginType DEF RefundOrphan, Steps
<1>. QED  BY <1>1, <1>2, MarkSucceededType DEF ReconcileSucceeded, TablesOK

LEMMA ReadRefundableType ==
  ASSUME TablesOK, RequestsOK, NEW r \in Actors, ReadRefundable(r)
  PROVE  TablesOK' /\ RequestsOK'
<1> DEFINE o == rq[r].o
           amt == IF rq[r].want = 0 THEN Refundable(o) ELSE rq[r].want
           q == [rq[r] EXCEPT !.pc = "processRefund:reserve",
                              !.base = payment[o].refunded, !.amt = amt]
<1>1. rq[r].pc # "idle" /\ o \in Orders
  BY ActorType DEF ReadRefundable, At
<1>2. TablesOK'
  BY DEF ReadRefundable, TablesOK, goods
<1>3. CASE Goto(r, rq[r].err)
  BY <1>1, <1>2, <1>3, GotoType, ActorType
<1>4. CASE rq' = [rq EXCEPT ![r] = q] /\ Refundable(o) > 0
  <2>1. amt \in Nat
    BY <1>1, <1>4, ActorType, RowType DEF Refundable
  <2>2. q \in RequestState /\ q.o = o
    <3>. HIDE DEF amt
    <3>. QED  BY <1>1, <2>1, ActorType, RowType DEF RequestState, Steps
  <2>. HIDE DEF q, o, amt
  <2>3. q.pc # "idle" => q.o \in Orders
    BY <1>1, <2>2
  <2>. QED  BY <1>2, <1>4, <2>2, <2>3, RequestUpdate
<1>5. (rq' = [rq EXCEPT ![r] = q] /\ Refundable(o) > 0) \/ Goto(r, rq[r].err)
  BY DEF ReadRefundable
<1>. QED  BY <1>3, <1>4, <1>5

(* A request that begins a call keeps only values of the right types.       *)
LEMMA CallType ==
  ASSUME TablesOK, RequestsOK, NEW r \in Actors, NEW q \in RequestState,
         q.o \in Orders, rq' = [rq EXCEPT ![r] = q],
         UNCHANGED <<order, payment, processed, stripe, events, goods>>
  PROVE  TablesOK' /\ RequestsOK'
<1>1. TablesOK'  BY DEF TablesOK, goods
<1>. QED  BY <1>1, RequestUpdate

LEMMA LoadedType ==
  ASSUME TablesOK, NEW o \in Orders, NEW pc \in Steps
  PROVE  /\ Loaded(o, pc) \in RequestState /\ Loaded(o, pc).o = o
         /\ \A next \in OrderStatus :
              LET q == [Loaded(o, pc) EXCEPT !.next = next]
                  c == [Loaded(o, pc) EXCEPT !.ok = "transition",
                                             !.next = "CANCELLED"]
              IN /\ q \in RequestState /\ q.o = o
                 /\ c \in RequestState /\ c.o = o
<1>1. order[o] \in OrderStatus
  BY RowType
<1>2. Loaded(o, pc) = [pc |-> pc, o |-> o, st |-> order[o], next |-> "none",
                       want |-> 0, base |-> 0, amt |-> 0, ok |-> "idle", err |-> "idle"]
  BY DEF Loaded, Begin
<1>3. Loaded(o, pc) \in RequestState /\ Loaded(o, pc).o = o
  BY <1>1, <1>2 DEF RequestState, OrderStatus
<1>4. ASSUME NEW next \in OrderStatus
      PROVE  LET q == [Loaded(o, pc) EXCEPT !.next = next]
             IN  q \in RequestState /\ q.o = o
  BY <1>3 DEF RequestState
<1>5. LET c == [Loaded(o, pc) EXCEPT !.ok = "transition", !.next = "CANCELLED"]
      IN  c \in RequestState /\ c.o = o
  BY <1>3 DEF RequestState, OrderStatus
<1>. QED  BY <1>3, <1>4, <1>5

LEMMA RefundType ==
  ASSUME TablesOK, RequestsOK, NEW r \in Actors, NEW o \in Orders,
         NEW want \in RefundAmounts \cup {0}, Refund(r, o, want)
  PROVE  TablesOK' /\ RequestsOK'
<1> DEFINE q == [Begin(o, "processRefund:read") EXCEPT !.want = want]
<1>1. want \in Nat
  BY Constants DEF ConstantAssumptions
<1>2. q \in RequestState /\ q.o = o
  BY <1>1 DEF Begin, RequestState, OrderStatus, Steps
<1>3. rq' = [rq EXCEPT ![r] = q]
  BY DEF Refund
<1>. HIDE DEF q
<1>. QED  BY <1>2, <1>3, CallType DEF Refund

LEMMA RequestType ==
  ASSUME TablesOK, RequestsOK, NEW r \in Requests, NEW o \in Orders, Request(r, o)
  PROVE  TablesOK' /\ RequestsOK'
<1>0. r \in Actors
  BY DEF Actors
<1>1. CASE CreateOrder(r, o)
  <2>1. Loaded(o, "replayOrder") \in RequestState /\ Loaded(o, "replayOrder").o = o
    BY LoadedType DEF Steps
  <2>2. /\ Begin(o, "createOrder:persist") \in RequestState
        /\ Begin(o, "createOrder:persist").o = o
    BY BeginType DEF Steps
  <2>. QED  BY <1>0, <1>1, <2>1, <2>2, CallType DEF CreateOrder
<1>2. CASE GetOrder(r, o)
  <2>1. Begin(o, "reconcile:stripe") \in RequestState /\ Begin(o, "reconcile:stripe").o = o
    BY BeginType DEF Steps
  <2>. QED  BY <1>0, <1>2, <2>1, CallType DEF GetOrder
<1>3. CASE CancelUnpaid(r, o)
            /\ UNCHANGED <<order, payment, processed, stripe, events, goods>>
  <2> DEFINE c == [Loaded(o, "cancelOpenIntent:find") EXCEPT !.ok = "transition",
                                                             !.next = "CANCELLED"]
  <2>1. c \in RequestState /\ c.o = o
    BY LoadedType DEF Steps, OrderStatus
  <2>2. rq' = [rq EXCEPT ![r] = c]
    BY <1>3 DEF CancelUnpaid
  <2>. HIDE DEF c
  <2>. QED  BY <1>0, <1>3, <2>1, <2>2, CallType
<1>4. CASE \E s \in Targets : UpdateStatus(r, o, s)
  <2>1. PICK s \in Targets : UpdateStatus(r, o, s)
    BY <1>4
  <2>2. CASE rq' = [rq EXCEPT ![r] = Loaded(o, "cancelPaidOrder:claim")]
    <3>1. /\ Loaded(o, "cancelPaidOrder:claim") \in RequestState
          /\ Loaded(o, "cancelPaidOrder:claim").o = o
      BY LoadedType DEF Steps
    <3>. QED  BY <1>0, <2>1, <2>2, <3>1, CallType DEF UpdateStatus
  <2>3. CASE rq' = [rq EXCEPT ![r] = [Loaded(o, "transition") EXCEPT !.next = s]]
    <3> DEFINE q == [Loaded(o, "transition") EXCEPT !.next = s]
    <3>1. s \in OrderStatus
      BY Constants DEF ConstantAssumptions
    <3>2. q \in RequestState /\ q.o = o
      BY <3>1, LoadedType DEF Steps
    <3>3. rq' = [rq EXCEPT ![r] = q]
      BY <2>3
    <3>. HIDE DEF q
    <3>. QED  BY <1>0, <2>1, <3>2, <3>3, CallType DEF UpdateStatus
  <2>4. \/ rq' = [rq EXCEPT ![r] = Loaded(o, "cancelPaidOrder:claim")]
        \/ CancelUnpaid(r, o)
        \/ rq' = [rq EXCEPT ![r] = [Loaded(o, "transition") EXCEPT !.next = s]]
    BY <2>1, Zenon DEF UpdateStatus
  <2>5. UNCHANGED <<order, payment, processed, stripe, events, goods>>
    BY <2>1 DEF UpdateStatus
  <2>. QED  BY <1>3, <2>2, <2>3, <2>4, <2>5
<1>5. CASE SetTracking(r, o)
  <2>1. Loaded(o, "setTracking") \in RequestState /\ Loaded(o, "setTracking").o = o
    BY LoadedType DEF Steps
  <2>. QED  BY <1>0, <1>5, <2>1, CallType DEF SetTracking
<1>6. CASE \E a \in RefundAmounts \cup {0} : Refund(r, o, a)
  BY <1>0, <1>6, RefundType
<1>. QED  BY <1>1, <1>2, <1>3, <1>4, <1>5, <1>6 DEF Request, CancelOrder

LEMMA PersistOrderType ==
  ASSUME TablesOK, RequestsOK, NEW r \in Actors, PersistOrder(r)
  PROVE  TablesOK' /\ RequestsOK'
<1>1. rq[r].pc # "idle" /\ rq[r].o \in Orders
  BY ActorType DEF PersistOrder, At
<1>2. RequestsOK'
  <2>1. /\ Loaded(rq[r].o, "replayOrder") \in RequestState
        /\ Loaded(rq[r].o, "replayOrder").o = rq[r].o
    BY <1>1, LoadedType DEF Steps
  <2>. QED  BY <1>1, <2>1, GotoType, RequestUpdate DEF PersistOrder, Steps
<1>3. order' \in [Orders -> OrderStatus] /\ redemptions' \subseteq CouponOrders
  BY <1>1 DEF PersistOrder, TablesOK, goods, RecordRedemption, OrderStatus
<1>5. payment' \in [Orders -> PaymentRow]
  <2> DEFINE row(status) == [status |-> status, intentSaved |-> FALSE, refunded |-> 0]
  <2>1. row("REQUIRES_PAYMENT") \in PaymentRow /\ row("SUCCEEDED") \in PaymentRow
    BY DEF PaymentRow, PaymentStatus, UNPAID_STATUSES
  <2>2. \/ payment' = payment
        \/ payment' = [payment EXCEPT ![rq[r].o] = row("REQUIRES_PAYMENT")]
        \/ payment' = [payment EXCEPT ![rq[r].o] = row("SUCCEEDED")]
    BY DEF PersistOrder
  <2>. HIDE DEF row
  <2>. QED  BY <2>1, <2>2 DEF TablesOK
<1>4. /\ stock' \in [Variants -> Nat] /\ sold' \in [Orders -> Nat]
      /\ restocked' \in [Orders -> Nat]
  <2>1. CASE UNCHANGED goods
    BY <2>1 DEF TablesOK, goods
  <2>2. CASE InStock(rq[r].o) /\ TakeStock(rq[r].o) /\ UNCHANGED restocked
    BY <1>1, <2>2, RowType DEF TablesOK, TakeStock, InStock
  <2>. QED  BY <2>1, <2>2 DEF PersistOrder
<1>. QED  BY <1>2, <1>3, <1>4, <1>5 DEF PersistOrder, TablesOK

LEMMA RefundCancelledType ==
  ASSUME TablesOK, RequestsOK, NEW r \in Actors, RefundCancelled(r)
  PROVE  TablesOK' /\ RequestsOK'
<1> DEFINE q == [rq[r] EXCEPT !.pc = "processRefund:read", !.want = 0,
                              !.ok = "cancelPaidOrder:restock",
                              !.err = "cancelPaidOrder:undo"]
           p == [rq[r] EXCEPT !.pc = "cancelPaidOrder:restock"]
<1>1. rq[r] \in RequestState /\ rq[r].o \in Orders
  BY ActorType DEF RefundCancelled, At
<1>2. q \in RequestState /\ q.o = rq[r].o
  BY <1>1 DEF RequestState, Steps
<1>3. p \in RequestState /\ p.o = rq[r].o
  BY <1>1 DEF RequestState, Steps
<1>4. rq' = [rq EXCEPT ![r] = q] \/ rq' = [rq EXCEPT ![r] = p]
  BY DEF RefundCancelled
<1>. HIDE DEF p, q
<1>. QED  BY <1>1, <1>2, <1>3, <1>4, CallType DEF RefundCancelled

LEMMA OutsideType ==
  ASSUME TablesOK, RequestsOK, NEW o \in Orders, Outside(o)
  PROVE  TablesOK' /\ RequestsOK'
<1>1. RequestsOK'
  BY DEF Outside, Pay, Decline, DashboardRefund, DashboardCancel, RequestsOK
<1>2. \A amount \in RefundAmounts : stripe[o].refunded + amount \in Nat
  <2>1. stripe[o].refunded \in Nat /\ RefundAmounts \subseteq Nat
    BY RowType, Constants DEF ConstantAssumptions
  <2>. QED  BY <2>1
<1>3. stripe' \in [Orders -> StripeRow]
  <2>1. CASE \E amount \in RefundAmounts : DashboardRefund(o, amount)
    BY <1>2, <2>1 DEF DashboardRefund, TablesOK, StripeRow
  <2>2. ASSUME NEW status \in IntentStatus,
               stripe' = [stripe EXCEPT ![o].intent = status]
        PROVE  stripe' \in [Orders -> StripeRow]
    BY <2>2 DEF TablesOK, StripeRow
  <2>. QED  BY <2>1, <2>2 DEF Outside, Pay, Decline, DashboardCancel, IntentStatus
<1>4. events' \subseteq EventRow
  BY <1>2 DEF Outside, Pay, Decline, DashboardRefund, DashboardCancel, TablesOK,
              EventRow, EventTypes, Event
<1>. QED  BY <1>1, <1>3, <1>4
     DEF Outside, Pay, Decline, DashboardRefund, DashboardCancel, TablesOK, goods

LEMMA ProgressType ==
  ASSUME TablesOK, RequestsOK, NEW r \in Actors, Progress(r) \/ Crash(r)
  PROVE  TablesOK' /\ RequestsOK'
<1>1. CASE PaymentStep(r)
  BY <1>1, CreateIntentType, SaveIntentType, FindOpenPaymentType, CancelIntentType,
     FailPaymentType, ReconcileType, ReconcileSucceededType, ReconcileFailedType,
     ReadRefundableType, ReserveRefundType, RefundAtStripeType, ReleaseRefundType,
     RecordRefundType, SyncRefundType DEF PaymentStep
<1>2. CASE OrderStep(r)
  BY <1>2, PersistOrderType, ReplayOrderType, TransitionType, ShipType,
     ClaimCancelType, RefundCancelledType, UndoCancelType, RestockType DEF OrderStep
<1>3. CASE Crash(r)
  <2>1. TablesOK'
    BY <1>3 DEF Crash, TablesOK, goods
  <2>. QED  BY <1>3, <2>1, GotoType DEF Crash, At, Steps
<1>. QED  BY <1>1, <1>2, <1>3 DEF Progress

LEMMA InitType == Init => TypeOK
<1>. SUFFICES ASSUME Init PROVE TypeOK
  OBVIOUS
<1>1. TablesOK
  BY Constants DEF Init, TablesOK, ConstantAssumptions, OrderStatus, PaymentRow,
                   PaymentStatus, StripeRow, IntentStatus
<1>2. RequestsOK
  BY IdleType DEF Init, RequestsOK
<1>. QED  BY <1>1, <1>2, TypeSplit

LEMMA NextType == TypeOK /\ [Next]_vars => TypeOK'
<1>. SUFFICES ASSUME TablesOK, RequestsOK, [Next]_vars PROVE TablesOK' /\ RequestsOK'
  BY TypeSplit DEF TypeOK, TablesOK, RequestsOK, EventRow, PaymentRow, StripeRow
<1>1. CASE \E r \in Requests, o \in Orders : Request(r, o)
  BY <1>1, RequestType
<1>2. CASE \E r \in Actors : Progress(r) \/ Crash(r)
  BY <1>2, ProgressType
<1>3. CASE \E h \in Hooks, e \in events : HandleEvent(h, e)
  BY <1>3, HandleEventType
<1>4. CASE \E o \in Orders : Outside(o)
  BY <1>4, OutsideType
<1>5. CASE UNCHANGED vars
  BY <1>5 DEF vars, TablesOK, RequestsOK
<1>. QED  BY <1>1, <1>2, <1>3, <1>4, <1>5 DEF Next

(* Type correctness: whatever the catalog, the clients and the faults, every *)
(* row keeps its columns' types and no variant's stock falls below zero,    *)
(* although checkout checks the stock long before markSucceeded takes it.   *)
THEOREM TypeCorrect == Spec => []TypeOK
<1>. QED  BY InitType, NextType, PTL DEF Spec

-----------------------------------------------------------------------------
(***************************************************************************)
(* Why goods only leave against money, and only once.  A request acts on   *)
(* the status it read, so the invariant has to say what such a snapshot is *)
(* still worth when it is used: a request that read a paid status knows    *)
(* that the order was sold, which stays true whatever happens meanwhile.   *)
(***************************************************************************)

(* What a request under way that remembers q may rely on.                   *)
Justified(q, sd, sp) == q.pc # "idle" =>
  /\ q.st \in Fulfilling \/ q.next \in Fulfilling => sd[q.o] = 1
  /\ q.pc = "transition" \/ q.ok = "transition" => q.next \notin {"none", "PENDING"}
  /\ q.pc \in {"setTracking", "cancelPaidOrder:claim",
               "cancelPaidOrder:payment", "cancelPaidOrder:undo"} =>
       q.st \in Fulfilling
  /\ q.err = "cancelPaidOrder:undo" => q.st \in Fulfilling
  /\ q.pc = "reconcile:succeeded" => sp[q.o].intent = "succeeded"

RequestsInv == \A r \in Actors : Justified(rq[r], sold, stripe)

EventsInv == \A e \in events : e.type = "succeeded" => stripe[e.o].intent = "succeeded"

OrdersInv ==
  \A o \in Orders :
    /\ sold[o] \in {0, 1}
    /\ order[o] \in {"none", "PENDING"} => sold[o] = 0
    /\ order[o] \in Fulfilling => sold[o] = 1
    /\ o \in redemptions => sold[o] = 1
    /\ sold[o] = 1 => Captured(o)

IInv == TypeOK /\ OrdersInv /\ EventsInv /\ RequestsInv

-----------------------------------------------------------------------------
LEMMA IdleJustified == \A sd, sp : Justified(Idle, sd, sp)
  BY DEF Justified, Idle, Begin, Fulfilling

LEMMA BeginJustified ==
  ASSUME NEW o, NEW pc, NEW sd, NEW sp,
         pc \notin {"transition", "setTracking", "cancelPaidOrder:claim",
                    "cancelPaidOrder:payment", "cancelPaidOrder:undo",
                    "reconcile:succeeded"}
  PROVE  Justified(Begin(o, pc), sd, sp)
  BY DEF Justified, Begin, Fulfilling

(* Sold and captured are forever, so what a request knew stays true.        *)
Stable(sd, sp) ==
  \A o \in Orders : /\ sold[o] = 1 => sd[o] = 1
                    /\ stripe[o].intent = "succeeded" => sp[o].intent = "succeeded"

LEMMA JustifiedStable ==
  ASSUME TypeOK, RequestsInv, NEW sd, NEW sp, Stable(sd, sp), NEW r \in Actors
  PROVE  Justified(rq[r], sd, sp)
  BY DEF TypeOK, RequestsInv, Justified, Stable

(* A request moves on inside its call.                                      *)
LEMMA GotoJustified ==
  ASSUME TypeOK, RequestsInv, NEW sd, NEW sp, Stable(sd, sp),
         NEW r \in Actors, NEW pc, Goto(r, pc), rq[r].pc # "idle",
         pc = "transition" => rq[r].pc = "transition" \/ rq[r].ok = "transition",
         pc = "setTracking" => FALSE,
         pc \in {"cancelPaidOrder:claim", "cancelPaidOrder:payment"} =>
           rq[r].pc = "cancelPaidOrder:claim",
         pc = "cancelPaidOrder:undo" => rq[r].err = "cancelPaidOrder:undo",
         pc = "reconcile:succeeded" => sp[rq[r].o].intent = "succeeded"
  PROVE  \A a \in Actors : Justified(rq'[a], sd, sp)
<1>1. ASSUME NEW a \in Actors PROVE Justified(rq'[a], sd, sp)
  <2>0. rq \in [Actors -> RequestState]
    BY DEF TypeOK
  <2>1. CASE a # r
    BY <2>0, <2>1, JustifiedStable DEF Goto
  <2>2. CASE a = r /\ pc = "idle"
    BY <2>0, <2>2, IdleJustified DEF Goto
  <2>3. CASE a = r /\ pc # "idle"
    <3>1. rq'[a] = [rq[r] EXCEPT !.pc = pc] /\ rq[r] \in RequestState
      BY <2>0, <2>3 DEF Goto
    <3>2. /\ rq'[a].pc = pc /\ rq'[a].o = rq[r].o /\ rq'[a].st = rq[r].st
          /\ rq'[a].next = rq[r].next /\ rq'[a].ok = rq[r].ok
          /\ rq'[a].err = rq[r].err
      BY <3>1 DEF RequestState
    <3>3. Justified(rq[r], sd, sp)
      BY JustifiedStable
    <3>. QED  BY <3>2, <3>3 DEF Justified
  <2>. QED  BY <2>1, <2>2, <2>3
<1>. QED  BY <1>1

(* A request starts over with the locals q.                                 *)
LEMMA UpdateJustified ==
  ASSUME TypeOK, RequestsInv, NEW sd, NEW sp, Stable(sd, sp), NEW r \in Actors,
         NEW q, rq' = [rq EXCEPT ![r] = q], Justified(q, sd, sp)
  PROVE  \A a \in Actors : Justified(rq'[a], sd, sp)
<1>1. rq \in [Actors -> RequestState]
  BY DEF TypeOK
<1>. QED  BY <1>1, JustifiedStable

LEMMA SameJustified ==
  ASSUME TypeOK, RequestsInv, NEW sd, NEW sp, Stable(sd, sp), UNCHANGED rq
  PROVE  \A a \in Actors : Justified(rq'[a], sd, sp)
  BY JustifiedStable

-----------------------------------------------------------------------------
(* A step that touches neither the orders nor what they took.               *)
LEMMA OrdersStable ==
  ASSUME IInv, UNCHANGED <<order, sold, redemptions>>, Stable(sold', stripe')
  PROVE  OrdersInv'
  BY DEF IInv, OrdersInv, Stable, Captured, zeroDue

LEMMA EventsStable ==
  ASSUME IInv, Stable(sold', stripe'),
         \A e \in events' : e \in events \/ e.type # "succeeded"
  PROVE  EventsInv'
  BY DEF IInv, TypeOK, EventsInv, Stable

(* A status write, stale or not.                                            *)
LEMMA StatusWrite ==
  ASSUME IInv, NEW o \in Orders, NEW s,
         order' = [order EXCEPT ![o] = s],
         s \in {"none", "PENDING"} => order[o] = s,
         s \in Fulfilling => sold[o] = 1,
         sold' = sold, redemptions' \subseteq redemptions, stripe' = stripe
  PROVE  OrdersInv'
  BY DEF IInv, TypeOK, OrdersInv, Captured, zeroDue

LEMMA CreateIntentSafe ==
  ASSUME IInv, NEW r \in Actors, CreateIntent(r)
  PROVE  OrdersInv' /\ EventsInv' /\ RequestsInv'
<1>1. rq[r].pc # "idle" /\ rq[r].o \in Orders
  BY DEF CreateIntent, At, IInv, TypeOK
<1>2. Stable(sold', stripe')
  <2>1. sold' = sold
    BY DEF CreateIntent, goods
  <2>2. CASE stripe' = stripe
    BY <2>1, <2>2 DEF Stable
  <2>3. CASE stripe' = [stripe EXCEPT ![rq[r].o].intent =
                                        IF @ = "none" THEN "open" ELSE @]
    BY <1>1, <2>1, <2>3 DEF Stable, IInv, TypeOK
  <2>. QED  BY <2>2, <2>3 DEF CreateIntent
<1>3. OrdersInv' /\ EventsInv'
  <2>1. UNCHANGED <<order, sold, redemptions>>
    BY DEF CreateIntent, goods
  <2>2. \A e \in events' : e \in events \/ e.type # "succeeded"
    BY DEF CreateIntent, goods
  <2>. QED  BY <1>2, <2>1, <2>2, OrdersStable, EventsStable
<1>4. RequestsInv'
  BY <1>1, <1>2, GotoJustified DEF CreateIntent, goods, IInv, TypeOK, RequestState, RequestsInv, At
<1>. QED  BY <1>3, <1>4

LEMMA SaveIntentSafe ==
  ASSUME IInv, NEW r \in Actors, SaveIntent(r)
  PROVE  OrdersInv' /\ EventsInv' /\ RequestsInv'
<1>1. rq[r].pc # "idle" /\ rq[r].o \in Orders
  BY DEF SaveIntent, At, IInv, TypeOK
<1>2. Stable(sold', stripe')
  BY <1>1 DEF SaveIntent, goods, Stable, IInv, TypeOK
<1>3. OrdersInv' /\ EventsInv'
  BY <1>1 DEF SaveIntent, goods, IInv, TypeOK, OrdersInv, EventsInv, Captured, zeroDue, At
<1>4. RequestsInv'
  BY <1>1, <1>2, GotoJustified DEF SaveIntent, goods, IInv, TypeOK, RequestState, RequestsInv, At
<1>. QED  BY <1>3, <1>4

LEMMA FindOpenPaymentSafe ==
  ASSUME IInv, NEW r \in Actors, FindOpenPayment(r)
  PROVE  OrdersInv' /\ EventsInv' /\ RequestsInv'
<1>1. rq[r].pc # "idle" /\ rq[r].o \in Orders
  BY DEF FindOpenPayment, At, IInv, TypeOK
<1>2. Stable(sold', stripe')
  BY <1>1 DEF FindOpenPayment, goods, Stable, IInv, TypeOK
<1>3. OrdersInv' /\ EventsInv'
  BY <1>1 DEF FindOpenPayment, goods, IInv, TypeOK, OrdersInv, EventsInv, Captured, zeroDue, At
<1>4. RequestsInv'
  BY <1>1, <1>2, GotoJustified DEF FindOpenPayment, goods, IInv, TypeOK, RequestState, RequestsInv, At
<1>. QED  BY <1>3, <1>4

LEMMA CancelIntentSafe ==
  ASSUME IInv, NEW r \in Actors, CancelIntent(r)
  PROVE  OrdersInv' /\ EventsInv' /\ RequestsInv'
<1>1. rq[r].pc # "idle" /\ rq[r].o \in Orders
  BY DEF CancelIntent, At, IInv, TypeOK
<1>2. Stable(sold', stripe')
  BY <1>1 DEF CancelIntent, goods, Stable, IInv, TypeOK
<1>3. OrdersInv' /\ EventsInv'
  <2>1. UNCHANGED <<order, sold, redemptions>>
    BY DEF CancelIntent, goods
  <2>2. \A e \in events' : e \in events \/ e.type # "succeeded"
    BY DEF CancelIntent, goods, Event
  <2>. QED  BY <1>2, <2>1, <2>2, OrdersStable, EventsStable
<1>4. RequestsInv'
  BY <1>1, <1>2, GotoJustified DEF CancelIntent, goods, IInv, TypeOK, RequestState, RequestsInv, At
<1>. QED  BY <1>3, <1>4

LEMMA FailPaymentSafe ==
  ASSUME IInv, NEW r \in Actors, FailPayment(r)
  PROVE  OrdersInv' /\ EventsInv' /\ RequestsInv'
<1>1. rq[r].pc # "idle" /\ rq[r].o \in Orders
  BY DEF FailPayment, At, IInv, TypeOK
<1>2. Stable(sold', stripe')
  BY <1>1 DEF FailPayment, goods, Stable, IInv, TypeOK
<1>3. OrdersInv' /\ EventsInv'
  BY <1>1 DEF FailPayment, goods, IInv, TypeOK, OrdersInv, EventsInv, Captured, zeroDue, At
<1>4. RequestsInv'
  BY <1>1, <1>2, GotoJustified DEF FailPayment, goods, IInv, TypeOK, RequestState, RequestsInv, At
<1>. QED  BY <1>3, <1>4

LEMMA ReconcileSafe ==
  ASSUME IInv, NEW r \in Actors, Reconcile(r)
  PROVE  OrdersInv' /\ EventsInv' /\ RequestsInv'
<1>1. rq[r].pc # "idle" /\ rq[r].o \in Orders
  BY DEF Reconcile, At, IInv, TypeOK
<1>2. Stable(sold', stripe')
  BY <1>1 DEF Reconcile, goods, Stable, IInv, TypeOK
<1>3. OrdersInv' /\ EventsInv'
  BY <1>1 DEF Reconcile, goods, IInv, TypeOK, OrdersInv, EventsInv, Captured, zeroDue, At
<1>4. RequestsInv'
  BY <1>1, <1>2, GotoJustified DEF Reconcile, goods, IInv, TypeOK, RequestState, RequestsInv, At
<1>. QED  BY <1>3, <1>4

LEMMA ReconcileFailedSafe ==
  ASSUME IInv, NEW r \in Actors, ReconcileFailed(r)
  PROVE  OrdersInv' /\ EventsInv' /\ RequestsInv'
<1>1. rq[r].pc # "idle" /\ rq[r].o \in Orders
  BY DEF ReconcileFailed, At, IInv, TypeOK
<1>2. Stable(sold', stripe')
  BY <1>1 DEF ReconcileFailed, MarkFailed, goods, Stable, IInv, TypeOK
<1>3. OrdersInv' /\ EventsInv'
  BY <1>1 DEF ReconcileFailed, goods, IInv, TypeOK, OrdersInv, EventsInv, Captured, zeroDue, At, MarkFailed
<1>4. RequestsInv'
  BY <1>1, <1>2, GotoJustified DEF ReconcileFailed, goods, IInv, TypeOK, RequestState, RequestsInv, At
<1>. QED  BY <1>3, <1>4

LEMMA ReserveRefundSafe ==
  ASSUME IInv, NEW r \in Actors, ReserveRefund(r)
  PROVE  OrdersInv' /\ EventsInv' /\ RequestsInv'
<1>1. rq[r].pc # "idle" /\ rq[r].o \in Orders
  BY DEF ReserveRefund, At, IInv, TypeOK
<1>2. Stable(sold', stripe')
  BY <1>1 DEF ReserveRefund, goods, Stable, IInv, TypeOK
<1>3. OrdersInv' /\ EventsInv'
  BY <1>1 DEF ReserveRefund, goods, IInv, TypeOK, OrdersInv, EventsInv, Captured, zeroDue, At
<1>4. RequestsInv'
  BY <1>1, <1>2, GotoJustified DEF ReserveRefund, goods, IInv, TypeOK, RequestState, RequestsInv, At
<1>. QED  BY <1>3, <1>4

LEMMA RefundAtStripeSafe ==
  ASSUME IInv, NEW r \in Actors, RefundAtStripe(r)
  PROVE  OrdersInv' /\ EventsInv' /\ RequestsInv'
<1>1. rq[r].pc # "idle" /\ rq[r].o \in Orders
  BY DEF RefundAtStripe, At, IInv, TypeOK
<1>2. Stable(sold', stripe')
  BY <1>1 DEF RefundAtStripe, goods, Stable, IInv, TypeOK
<1>3. OrdersInv' /\ EventsInv'
  BY <1>1 DEF RefundAtStripe, goods, IInv, TypeOK, OrdersInv, EventsInv, Captured, zeroDue, At, Event
<1>4. RequestsInv'
  BY <1>1, <1>2, GotoJustified DEF RefundAtStripe, goods, IInv, TypeOK, RequestState, RequestsInv, At
<1>. QED  BY <1>3, <1>4

LEMMA ReleaseRefundSafe ==
  ASSUME IInv, NEW r \in Actors, ReleaseRefund(r)
  PROVE  OrdersInv' /\ EventsInv' /\ RequestsInv'
<1>1. rq[r].pc # "idle" /\ rq[r].o \in Orders
  BY DEF ReleaseRefund, At, IInv, TypeOK
<1>2. Stable(sold', stripe')
  BY <1>1 DEF ReleaseRefund, goods, Stable, IInv, TypeOK
<1>3. OrdersInv' /\ EventsInv'
  BY <1>1 DEF ReleaseRefund, goods, IInv, TypeOK, OrdersInv, EventsInv, Captured, zeroDue, At
<1>4. RequestsInv'
  BY <1>1, <1>2, GotoJustified DEF ReleaseRefund, goods, IInv, TypeOK, RequestState, RequestsInv, At
<1>. QED  BY <1>3, <1>4

LEMMA RecordRefundSafe ==
  ASSUME IInv, NEW r \in Actors, RecordRefund(r)
  PROVE  OrdersInv' /\ EventsInv' /\ RequestsInv'
<1>1. rq[r].pc # "idle" /\ rq[r].o \in Orders
  BY DEF RecordRefund, At, IInv, TypeOK
<1>2. Stable(sold', stripe')
  BY <1>1 DEF RecordRefund, goods, Stable, IInv, TypeOK
<1>3. OrdersInv' /\ EventsInv'
  <2> DEFINE o == rq[r].o
             s == IF rq[r].base + rq[r].amt >= Amount[o] THEN "REFUNDED" ELSE order[o]
  <2>1. order' = [order EXCEPT ![o] = s]
    BY DEF RecordRefund, IInv, TypeOK
  <2>2. /\ sold' = sold /\ redemptions' = redemptions /\ stripe' = stripe
        /\ events' = events
    BY DEF RecordRefund, goods
  <2>3. /\ s \in {"none", "PENDING"} => order[o] = s
        /\ s \in Fulfilling => sold[o] = 1
    BY <1>1 DEF RecordRefund, At, IInv, OrdersInv, RequestsInv, Justified, Fulfilling
  <2>. HIDE DEF s
  <2>4. OrdersInv'
    BY <1>1, <2>1, <2>2, <2>3, StatusWrite
  <2>. QED  BY <1>2, <2>2, <2>4, EventsStable
<1>4. RequestsInv'
  BY <1>1, <1>2, GotoJustified DEF RecordRefund, goods, IInv, TypeOK, RequestState, RequestsInv, At
<1>. QED  BY <1>3, <1>4

LEMMA SyncRefundSafe ==
  ASSUME IInv, NEW r \in Actors, SyncRefund(r)
  PROVE  OrdersInv' /\ EventsInv' /\ RequestsInv'
<1>1. rq[r].pc # "idle" /\ rq[r].o \in Orders
  BY DEF SyncRefund, At, IInv, TypeOK
<1>2. Stable(sold', stripe')
  BY <1>1 DEF SyncRefund, goods, Stable, IInv, TypeOK
<1>3. OrdersInv' /\ EventsInv'
  <2> DEFINE o == rq[r].o
             s == IF rq[r].want >= Amount[o] THEN "REFUNDED" ELSE order[o]
  <2>1. order' = [order EXCEPT ![o] = s]
    BY DEF SyncRefund, IInv, TypeOK
  <2>2. /\ sold' = sold /\ redemptions' = redemptions /\ stripe' = stripe
        /\ events' = events
    BY DEF SyncRefund, goods
  <2>3. /\ s \in {"none", "PENDING"} => order[o] = s
        /\ s \in Fulfilling => sold[o] = 1
    BY <1>1 DEF SyncRefund, At, IInv, OrdersInv, RequestsInv, Justified, Fulfilling
  <2>. HIDE DEF s
  <2>4. OrdersInv'
    BY <1>1, <2>1, <2>2, <2>3, StatusWrite
  <2>. QED  BY <1>2, <2>2, <2>4, EventsStable
<1>4. RequestsInv'
  BY <1>1, <1>2, GotoJustified DEF SyncRefund, goods, IInv, TypeOK, RequestState, RequestsInv, At
<1>. QED  BY <1>3, <1>4

LEMMA ReplayOrderSafe ==
  ASSUME IInv, NEW r \in Actors, ReplayOrder(r)
  PROVE  OrdersInv' /\ EventsInv' /\ RequestsInv'
<1>1. rq[r].pc # "idle" /\ rq[r].o \in Orders
  BY DEF ReplayOrder, At, IInv, TypeOK
<1>2. Stable(sold', stripe')
  BY <1>1 DEF ReplayOrder, goods, Stable, IInv, TypeOK
<1>3. OrdersInv' /\ EventsInv'
  BY <1>1 DEF ReplayOrder, goods, IInv, TypeOK, OrdersInv, EventsInv, Captured, zeroDue, At
<1>4. RequestsInv'
  BY <1>1, <1>2, GotoJustified DEF ReplayOrder, goods, IInv, TypeOK, RequestState, RequestsInv, At
<1>. QED  BY <1>3, <1>4

LEMMA TransitionSafe ==
  ASSUME IInv, NEW r \in Actors, Transition(r)
  PROVE  OrdersInv' /\ EventsInv' /\ RequestsInv'
<1>1. rq[r].pc # "idle" /\ rq[r].o \in Orders
  BY DEF Transition, At, IInv, TypeOK
<1>2. Stable(sold', stripe')
  BY <1>1 DEF Transition, goods, Stable, IInv, TypeOK
<1>3. OrdersInv' /\ EventsInv'
  <2> DEFINE o == rq[r].o
             s == IF canTransition(rq[r].st, rq[r].next) THEN rq[r].next ELSE order[o]
  <2>1. order' = [order EXCEPT ![o] = s]
    BY DEF Transition, IInv, TypeOK
  <2>2. /\ sold' = sold /\ redemptions' = redemptions /\ stripe' = stripe
        /\ events' = events
    BY DEF Transition, goods
  <2>3. /\ s \in {"none", "PENDING"} => order[o] = s
        /\ s \in Fulfilling => sold[o] = 1
    BY <1>1 DEF Transition, At, IInv, OrdersInv, RequestsInv, Justified, Fulfilling
  <2>. HIDE DEF s
  <2>4. OrdersInv'
    BY <1>1, <2>1, <2>2, <2>3, StatusWrite
  <2>. QED  BY <1>2, <2>2, <2>4, EventsStable
<1>4. RequestsInv'
  BY <1>1, <1>2, GotoJustified DEF Transition, goods, IInv, TypeOK, RequestState, RequestsInv, At
<1>. QED  BY <1>3, <1>4

LEMMA ShipSafe ==
  ASSUME IInv, NEW r \in Actors, Ship(r)
  PROVE  OrdersInv' /\ EventsInv' /\ RequestsInv'
<1>1. rq[r].pc # "idle" /\ rq[r].o \in Orders
  BY DEF Ship, At, IInv, TypeOK
<1>2. Stable(sold', stripe')
  BY <1>1 DEF Ship, goods, Stable, IInv, TypeOK
<1>3. OrdersInv' /\ EventsInv'
  <2> DEFINE o == rq[r].o
             s == "SHIPPED"
  <2>1. order' = [order EXCEPT ![o] = s]
    BY DEF Ship, IInv, TypeOK
  <2>2. /\ sold' = sold /\ redemptions' = redemptions /\ stripe' = stripe
        /\ events' = events
    BY DEF Ship, goods
  <2>3. /\ s \in {"none", "PENDING"} => order[o] = s
        /\ s \in Fulfilling => sold[o] = 1
    BY <1>1 DEF Ship, At, IInv, OrdersInv, RequestsInv, Justified, Fulfilling
  <2>. HIDE DEF s
  <2>4. OrdersInv'
    BY <1>1, <2>1, <2>2, <2>3, StatusWrite
  <2>. QED  BY <1>2, <2>2, <2>4, EventsStable
<1>4. RequestsInv'
  BY <1>1, <1>2, GotoJustified DEF Ship, goods, IInv, TypeOK, RequestState, RequestsInv, At
<1>. QED  BY <1>3, <1>4

LEMMA ClaimCancelSafe ==
  ASSUME IInv, NEW r \in Actors, ClaimCancel(r)
  PROVE  OrdersInv' /\ EventsInv' /\ RequestsInv'
<1>1. rq[r].pc # "idle" /\ rq[r].o \in Orders
  BY DEF ClaimCancel, At, IInv, TypeOK
<1>2. Stable(sold', stripe')
  BY <1>1 DEF ClaimCancel, goods, Stable, IInv, TypeOK
<1>3. OrdersInv' /\ EventsInv'
  <2> DEFINE o == rq[r].o
             s == IF order[o] = rq[r].st THEN "CANCELLED" ELSE order[o]
  <2>1. order' = [order EXCEPT ![o] = s]
    BY DEF ClaimCancel, IInv, TypeOK
  <2>2. /\ sold' = sold /\ redemptions' = redemptions /\ stripe' = stripe
        /\ events' = events
    BY DEF ClaimCancel, goods
  <2>3. /\ s \in {"none", "PENDING"} => order[o] = s
        /\ s \in Fulfilling => sold[o] = 1
    BY <1>1 DEF ClaimCancel, At, IInv, OrdersInv, RequestsInv, Justified, Fulfilling
  <2>. HIDE DEF s
  <2>4. OrdersInv'
    BY <1>1, <2>1, <2>2, <2>3, StatusWrite
  <2>. QED  BY <1>2, <2>2, <2>4, EventsStable
<1>4. RequestsInv'
  BY <1>1, <1>2, GotoJustified DEF ClaimCancel, goods, IInv, TypeOK, RequestState, RequestsInv, At
<1>. QED  BY <1>3, <1>4

LEMMA UndoCancelSafe ==
  ASSUME IInv, NEW r \in Actors, UndoCancel(r)
  PROVE  OrdersInv' /\ EventsInv' /\ RequestsInv'
<1>1. rq[r].pc # "idle" /\ rq[r].o \in Orders
  BY DEF UndoCancel, At, IInv, TypeOK
<1>2. Stable(sold', stripe')
  BY <1>1 DEF UndoCancel, goods, Stable, IInv, TypeOK
<1>3. OrdersInv' /\ EventsInv'
  <2> DEFINE o == rq[r].o
             s == IF order[o] = "CANCELLED" THEN rq[r].st ELSE order[o]
  <2>1. order' = [order EXCEPT ![o] = s]
    BY DEF UndoCancel, IInv, TypeOK
  <2>2. /\ sold' = sold /\ redemptions' = redemptions /\ stripe' = stripe
        /\ events' = events
    BY DEF UndoCancel, goods
  <2>3. /\ s \in {"none", "PENDING"} => order[o] = s
        /\ s \in Fulfilling => sold[o] = 1
    BY <1>1 DEF UndoCancel, At, IInv, OrdersInv, RequestsInv, Justified, Fulfilling
  <2>. HIDE DEF s
  <2>4. OrdersInv'
    BY <1>1, <2>1, <2>2, <2>3, StatusWrite
  <2>. QED  BY <1>2, <2>2, <2>4, EventsStable
<1>4. RequestsInv'
  BY <1>1, <1>2, GotoJustified DEF UndoCancel, goods, IInv, TypeOK, RequestState, RequestsInv, At
<1>. QED  BY <1>3, <1>4

LEMMA RestockSafe ==
  ASSUME IInv, NEW r \in Actors, Restock(r)
  PROVE  OrdersInv' /\ EventsInv' /\ RequestsInv'
<1>1. rq[r].pc # "idle" /\ rq[r].o \in Orders
  BY DEF Restock, At, IInv, TypeOK
<1>2. Stable(sold', stripe')
  BY <1>1 DEF Restock, goods, Stable, IInv, TypeOK
<1>3. OrdersInv' /\ EventsInv'
  BY <1>1 DEF Restock, goods, IInv, TypeOK, OrdersInv, EventsInv, Captured, zeroDue, At
<1>4. RequestsInv'
  BY <1>1, <1>2, GotoJustified DEF Restock, goods, IInv, TypeOK, RequestState, RequestsInv, At
<1>. QED  BY <1>3, <1>4

(* The one transaction that sells: the order was PENDING, hence not sold,   *)
(* and the money it acts on was captured.                                   *)
LEMMA Sale ==
  ASSUME IInv, NEW o \in Orders, order[o] \in {"none", "PENDING"},
         order' = [order EXCEPT ![o] = "CONFIRMED"],
         TakeStock(o), RecordRedemption(o), stripe' = stripe, Captured(o)
  PROVE  OrdersInv' /\ Stable(sold', stripe')
<1>1. /\ sold[o] = 0 /\ sold'[o] = 1
      /\ \A p \in Orders : p # o => sold'[p] = sold[p] /\ order'[p] = order[p]
      /\ order'[o] = "CONFIRMED"
      /\ \A p \in Orders : p # o /\ p \in redemptions' => p \in redemptions
  BY DEF IInv, TypeOK, OrdersInv, TakeStock, RecordRedemption
<1>2. \A p \in Orders : Captured(p)' <=> Captured(p)
  BY DEF Captured, zeroDue
<1>. QED  BY <1>1, <1>2 DEF IInv, OrdersInv, Stable

LEMMA MarkSucceededSafe ==
  ASSUME IInv, NEW r \in Actors, NEW o \in Orders, UNCHANGED <<stripe, events>>,
         stripe[o].intent = "succeeded", MarkSucceeded(r, o, RefundOrphan(o))
  PROVE  OrdersInv' /\ EventsInv' /\ RequestsInv'
<1>1. OrdersInv' /\ Stable(sold', stripe')
  <2>1. CASE UNCHANGED <<order, goods>>
    BY <2>1, OrdersStable DEF Stable, goods
  <2>2. CASE /\ order[o] = "PENDING" /\ TakeStock(o) /\ RecordRedemption(o)
             /\ order' = [order EXCEPT ![o] = "CONFIRMED"]
    BY <2>2, Sale DEF Captured
  <2>3. CASE order' = [order EXCEPT ![o] = "CANCELLED"] /\ UNCHANGED goods
    <3>1. Stable(sold', stripe')
      BY <2>3 DEF Stable, goods
    <3>. QED  BY <2>3, <3>1, StatusWrite DEF goods, Fulfilling
  <2>. QED  BY <2>1, <2>2, <2>3 DEF MarkSucceeded
<1>2. EventsInv'
  BY <1>1, EventsStable
<1>3. RequestsInv'
  <2>1. CASE rq' = [rq EXCEPT ![r] = Idle]
    BY <1>1, <2>1, IdleJustified, UpdateJustified DEF IInv, RequestsInv
  <2>2. CASE rq' = [rq EXCEPT ![r] = RefundOrphan(o)]
    <3>1. Justified(RefundOrphan(o), sold', stripe')
      BY BeginJustified DEF RefundOrphan
    <3>. QED  BY <1>1, <2>2, <3>1, UpdateJustified DEF IInv, RequestsInv
  <2>. QED  BY <2>1, <2>2 DEF MarkSucceeded, Goto
<1>. QED  BY <1>1, <1>2, <1>3

LEMMA ReconcileSucceededSafe ==
  ASSUME IInv, NEW r \in Actors, ReconcileSucceeded(r)
  PROVE  OrdersInv' /\ EventsInv' /\ RequestsInv'
<1>1. rq[r].o \in Orders /\ stripe[rq[r].o].intent = "succeeded"
  BY DEF ReconcileSucceeded, At, IInv, TypeOK, RequestsInv, Justified
<1>. QED  BY <1>1, MarkSucceededSafe DEF ReconcileSucceeded

(* Steps that change no order, no stock and nothing Stripe succeeded in.    *)
LEMMA QuietSafe ==
  ASSUME IInv, UNCHANGED <<order, sold, redemptions, stripe, events>>,
         \/ UNCHANGED rq
         \/ \E r \in Actors : \E q : rq' = [rq EXCEPT ![r] = q] /\ Justified(q, sold, stripe)
  PROVE  OrdersInv' /\ EventsInv' /\ RequestsInv'
<1>1. Stable(sold', stripe') /\ sold' = sold /\ stripe' = stripe
  BY DEF Stable
<1>2. RequestsInv'
  BY <1>1, SameJustified, UpdateJustified DEF IInv, RequestsInv
<1>. QED  BY <1>1, <1>2, OrdersStable, EventsStable

LEMMA HandleEventSafe ==
  ASSUME IInv, NEW h \in Hooks, NEW e \in events, HandleEvent(h, e)
  PROVE  OrdersInv' /\ EventsInv' /\ RequestsInv'
<1>1. h \in Actors /\ e.o \in Orders
  BY DEF Actors, IInv, TypeOK
<1>2. CASE e.type = "succeeded" /\ MarkSucceeded(h, e.o, RefundOrphan(e.o))
  BY <1>1, <1>2, MarkSucceededSafe DEF HandleEvent, IInv, EventsInv
<1>3. CASE MarkFailed(e.o) /\ UNCHANGED rq
  BY <1>3, QuietSafe DEF HandleEvent, MarkFailed, goods
<1>4. CASE UNCHANGED <<order, payment, goods, rq>>
  BY <1>4, QuietSafe DEF HandleEvent, goods
<1>5. CASE /\ rq' = [rq EXCEPT ![h] =
                      [Begin(e.o, "syncRefund:write") EXCEPT !.want = e.total]]
           /\ UNCHANGED <<order, payment, processed, goods>>
  <2>1. Justified([Begin(e.o, "syncRefund:write") EXCEPT !.want = e.total], sold, stripe)
    BY DEF Justified, Begin, Fulfilling
  <2>. QED  BY <1>1, <1>5, <2>1, QuietSafe DEF HandleEvent, goods
<1>. QED  BY <1>2, <1>3, <1>4, <1>5 DEF HandleEvent

LEMMA ReadRefundableSafe ==
  ASSUME IInv, NEW r \in Actors, ReadRefundable(r)
  PROVE  OrdersInv' /\ EventsInv' /\ RequestsInv'
<1> DEFINE o == rq[r].o
           amt == IF rq[r].want = 0 THEN Refundable(o) ELSE rq[r].want
           q == [rq[r] EXCEPT !.pc = "processRefund:reserve",
                              !.base = payment[o].refunded, !.amt = amt]
<1>1. /\ rq[r].pc # "idle" /\ rq[r] \in RequestState
      /\ UNCHANGED <<order, sold, redemptions, stripe, events>>
  BY DEF ReadRefundable, At, goods, IInv, TypeOK
<1>2. Stable(sold', stripe') /\ sold' = sold /\ stripe' = stripe
  BY <1>1 DEF Stable
<1>3. CASE Goto(r, rq[r].err)
  <2>1. rq[r].err \in {"idle", "cancelPaidOrder:undo"}
    BY <1>1 DEF RequestState
  <2>2. RequestsInv'
    BY <1>1, <1>2, <1>3, <2>1, GotoJustified DEF IInv, RequestsInv
  <2>. QED  BY <1>1, <1>2, <2>2, OrdersStable, EventsStable
<1>4. CASE rq' = [rq EXCEPT ![r] = q]
  <2>0. Justified(rq[r], sold, stripe)
    BY DEF IInv, RequestsInv
  <2>1. /\ q.pc = "processRefund:reserve" /\ q.o = rq[r].o /\ q.st = rq[r].st
        /\ q.next = rq[r].next /\ q.ok = rq[r].ok /\ q.err = rq[r].err
    BY <1>1 DEF RequestState
  <2>. HIDE DEF q
  <2>2. Justified(q, sold, stripe)
    BY <1>1, <2>0, <2>1 DEF Justified
  <2>. QED  BY <1>1, <1>4, <2>2, QuietSafe
<1>5. rq' = [rq EXCEPT ![r] = q] \/ Goto(r, rq[r].err)
  BY DEF ReadRefundable
<1>. QED  BY <1>3, <1>4, <1>5

LEMMA RefundCancelledSafe ==
  ASSUME IInv, NEW r \in Actors, RefundCancelled(r)
  PROVE  OrdersInv' /\ EventsInv' /\ RequestsInv'
<1> DEFINE q == [rq[r] EXCEPT !.pc = "processRefund:read", !.want = 0,
                              !.ok = "cancelPaidOrder:restock",
                              !.err = "cancelPaidOrder:undo"]
           p == [rq[r] EXCEPT !.pc = "cancelPaidOrder:restock"]
<1>1. /\ rq[r].pc = "cancelPaidOrder:payment" /\ rq[r] \in RequestState
      /\ UNCHANGED <<order, sold, redemptions, stripe, events>>
  BY DEF RefundCancelled, At, goods, IInv, TypeOK
<1>2. Justified(rq[r], sold, stripe)
  BY DEF IInv, RequestsInv
<1>3. Justified(p, sold, stripe)
  <2>1. /\ p.pc = "cancelPaidOrder:restock" /\ p.o = rq[r].o /\ p.st = rq[r].st
        /\ p.next = rq[r].next /\ p.ok = rq[r].ok /\ p.err = rq[r].err
    BY <1>1 DEF RequestState
  <2>. HIDE DEF p
  <2>. QED  BY <1>1, <1>2, <2>1 DEF Justified
<1>4. Justified(q, sold, stripe)
  <2>1. /\ q.pc = "processRefund:read" /\ q.o = rq[r].o /\ q.st = rq[r].st
        /\ q.next = rq[r].next /\ q.ok = "cancelPaidOrder:restock"
    BY <1>1 DEF RequestState
  <2>. HIDE DEF q
  <2>. QED  BY <1>1, <1>2, <2>1 DEF Justified
<1>5. rq' = [rq EXCEPT ![r] = q] \/ rq' = [rq EXCEPT ![r] = p]
  BY DEF RefundCancelled
<1>. HIDE DEF p, q
<1>. QED  BY <1>1, <1>3, <1>4, <1>5, QuietSafe

LEMMA PersistOrderSafe ==
  ASSUME IInv, NEW r \in Actors, PersistOrder(r)
  PROVE  OrdersInv' /\ EventsInv' /\ RequestsInv'
<1> DEFINE o == rq[r].o
<1>1. /\ rq[r].pc = "createOrder:persist" /\ o \in Orders
      /\ stripe' = stripe /\ events' = events
  BY DEF PersistOrder, At, IInv, TypeOK
<1>2. OrdersInv' /\ Stable(sold', stripe')
  <2>1. CASE UNCHANGED <<order, payment, goods>>
    BY <1>1, <2>1, OrdersStable DEF Stable, goods
  <2>2. CASE /\ order[o] = "none" /\ UNCHANGED goods
             /\ order' = [order EXCEPT ![o] = "PENDING"]
    BY <1>1, <2>2 DEF Stable, goods, IInv, TypeOK, OrdersInv, Fulfilling, Captured, zeroDue
  <2>3. CASE /\ order[o] = "none" /\ zeroDue(o)
             /\ order' = [order EXCEPT ![o] = "CONFIRMED"]
             /\ TakeStock(o) /\ RecordRedemption(o)
    BY <1>1, <2>3, Sale DEF Captured
  <2>. QED  BY <2>1, <2>2, <2>3 DEF PersistOrder
<1>3. EventsInv'
  BY <1>1, <1>2, EventsStable
<1>4. RequestsInv'
  <2>1. CASE rq' = [rq EXCEPT ![r] = Loaded(o, "replayOrder")] /\ order[o] # "none"
             /\ UNCHANGED <<order, goods>>
    <3>1. Justified(Loaded(o, "replayOrder"), sold, stripe)
      BY <1>1 DEF Justified, Loaded, Begin, Fulfilling, IInv, OrdersInv
    <3>. QED  BY <1>1, <1>2, <2>1, <3>1, UpdateJustified DEF goods, IInv, RequestsInv
  <2>2. CASE Goto(r, "createIntent:stripe") \/ Goto(r, "idle")
    BY <1>1, <1>2, <2>2, GotoJustified DEF IInv, RequestsInv
  <2>. QED  BY <2>1, <2>2 DEF PersistOrder
<1>. QED  BY <1>2, <1>3, <1>4

(* order-status.ts: only a paid order moves to a paid status by hand.       *)
LEMMA TransitionFromPaid ==
  ASSUME NEW from \in OrderStatus \ {"none"}, NEW to \in OrderStatus, canTransition(from, to)
  PROVE  /\ to \in Fulfilling => from \in Fulfilling
         /\ to \notin {"none", "PENDING"}
  BY DEF canTransition, ORDER_TRANSITIONS, OrderStatus, Fulfilling

LEMMA RequestSafe ==
  ASSUME IInv, NEW r \in Requests, NEW o \in Orders, Request(r, o)
  PROVE  OrdersInv' /\ EventsInv' /\ RequestsInv'
<1>0. r \in Actors
  BY DEF Actors
<1>1. UNCHANGED <<order, sold, redemptions, stripe, events>>
  BY DEF Request, CreateOrder, GetOrder, CancelOrder, UpdateStatus, SetTracking,
         Refund, goods
<1>2. order[o] \in OrderStatus /\ (order[o] \in Fulfilling => sold[o] = 1)
  BY DEF IInv, TypeOK, OrdersInv
<1>3. CASE CreateOrder(r, o)
  <2>1. Justified(Loaded(o, "replayOrder"), sold, stripe)
    BY <1>2 DEF Justified, Loaded, Begin, Fulfilling
  <2>2. Justified(Begin(o, "createOrder:persist"), sold, stripe)
    BY BeginJustified
  <2>. QED  BY <1>0, <1>1, <1>3, <2>1, <2>2, QuietSafe DEF CreateOrder
<1>4. CASE GetOrder(r, o)
  <2>1. Justified(Begin(o, "reconcile:stripe"), sold, stripe)
    BY BeginJustified
  <2>. QED  BY <1>0, <1>1, <1>4, <2>1, QuietSafe DEF GetOrder
<1>5. CASE CancelUnpaid(r, o)
  <2>1. Justified([Loaded(o, "cancelOpenIntent:find") EXCEPT !.ok = "transition",
                                                            !.next = "CANCELLED"],
                  sold, stripe)
    BY <1>2 DEF Justified, Loaded, Begin, Fulfilling
  <2>. QED  BY <1>0, <1>1, <1>5, <2>1, QuietSafe DEF CancelUnpaid
<1>6. CASE \E s \in Targets : UpdateStatus(r, o, s)
  <2>1. PICK s \in Targets : UpdateStatus(r, o, s)
    BY <1>6
  <2>2. CASE /\ order[o] \in PAID_CANCELLABLE
             /\ rq' = [rq EXCEPT ![r] = Loaded(o, "cancelPaidOrder:claim")]
    <3>1. Justified(Loaded(o, "cancelPaidOrder:claim"), sold, stripe)
      BY <1>2, <2>2 DEF Justified, Loaded, Begin, Fulfilling, PAID_CANCELLABLE
    <3>. QED  BY <1>0, <1>1, <2>2, <3>1, QuietSafe
  <2>3. CASE /\ canTransition(order[o], s)
             /\ rq' = [rq EXCEPT ![r] = [Loaded(o, "transition") EXCEPT !.next = s]]
    <3>1. s \in OrderStatus /\ order[o] # "none"
      BY <2>1, Constants DEF UpdateStatus, ConstantAssumptions
    <3>2. s \notin {"none", "PENDING"} /\ (s \in Fulfilling => order[o] \in Fulfilling)
      BY <1>2, <2>3, <3>1, TransitionFromPaid
    <3>3. Justified([Loaded(o, "transition") EXCEPT !.next = s], sold, stripe)
      BY <1>2, <3>2 DEF Justified, Loaded, Begin, Fulfilling
    <3>. QED  BY <1>0, <1>1, <2>3, <3>3, QuietSafe
  <2>. QED  BY <1>5, <2>1, <2>2, <2>3, Zenon DEF UpdateStatus
<1>7. CASE SetTracking(r, o)
  <2>1. Justified(Loaded(o, "setTracking"), sold, stripe)
    BY <1>2, <1>7 DEF SetTracking, SHIPPABLE, Justified, Loaded, Begin, Fulfilling
  <2>. QED  BY <1>0, <1>1, <1>7, <2>1, QuietSafe DEF SetTracking
<1>8. CASE \E a \in RefundAmounts \cup {0} : Refund(r, o, a)
  <2>1. PICK a : Refund(r, o, a)
    BY <1>8
  <2>2. Justified([Begin(o, "processRefund:read") EXCEPT !.want = a], sold, stripe)
    BY DEF Justified, Begin, Fulfilling
  <2>. QED  BY <1>0, <1>1, <2>1, <2>2, QuietSafe DEF Refund
<1>. QED  BY <1>3, <1>4, <1>5, <1>6, <1>7, <1>8 DEF Request, CancelOrder

LEMMA OutsideSafe ==
  ASSUME IInv, NEW o \in Orders, Outside(o)
  PROVE  OrdersInv' /\ EventsInv' /\ RequestsInv'
<1>1. UNCHANGED <<order, sold, redemptions, rq>>
  BY DEF Outside, Pay, Decline, DashboardRefund, DashboardCancel, goods
<1>2. Stable(sold', stripe')
  <2>1. CASE \E amount \in RefundAmounts : DashboardRefund(o, amount)
    BY <1>1, <2>1 DEF DashboardRefund, Stable, IInv, TypeOK
  <2>2. ASSUME NEW status, stripe' = [stripe EXCEPT ![o].intent = status],
               stripe[o].intent # "succeeded"
        PROVE  Stable(sold', stripe')
    BY <1>1, <2>2 DEF Stable, IInv, TypeOK
  <2>. QED  BY <2>1, <2>2 DEF Outside, Pay, Decline, DashboardCancel
<1>3. OrdersInv' /\ RequestsInv'
  BY <1>1, <1>2, OrdersStable, SameJustified DEF IInv, RequestsInv
<1>4. EventsInv'
  <2>1. CASE Pay(o)
    <3>1. stripe'[o].intent = "succeeded"
      BY <2>1 DEF Pay, IInv, TypeOK
    <3>. QED  BY <1>2, <2>1, <3>1 DEF Pay, Event, EventsInv, Stable, IInv, TypeOK
  <2>2. CASE \A e \in events' : e \in events \/ e.type # "succeeded"
    BY <1>2, <2>2, EventsStable
  <2>. QED  BY <2>1, <2>2 DEF Outside, Decline, DashboardRefund, DashboardCancel, Event
<1>. QED  BY <1>3, <1>4

LEMMA ProgressSafe ==
  ASSUME IInv, NEW r \in Actors, Progress(r) \/ Crash(r)
  PROVE  OrdersInv' /\ EventsInv' /\ RequestsInv'
<1>1. CASE PaymentStep(r)
  BY <1>1, CreateIntentSafe, SaveIntentSafe, FindOpenPaymentSafe, CancelIntentSafe,
     FailPaymentSafe, ReconcileSafe, ReconcileSucceededSafe, ReconcileFailedSafe,
     ReadRefundableSafe, ReserveRefundSafe, RefundAtStripeSafe, ReleaseRefundSafe,
     RecordRefundSafe, SyncRefundSafe DEF PaymentStep
<1>2. CASE OrderStep(r)
  BY <1>2, PersistOrderSafe, ReplayOrderSafe, TransitionSafe, ShipSafe,
     ClaimCancelSafe, RefundCancelledSafe, UndoCancelSafe, RestockSafe DEF OrderStep
<1>3. CASE Crash(r)
  BY <1>3, IdleJustified, QuietSafe DEF Crash, Goto, goods
<1>. QED  BY <1>1, <1>2, <1>3 DEF Progress

LEMMA InitSafe == Init => IInv
<1>. SUFFICES ASSUME Init PROVE IInv
  OBVIOUS
<1>1. TypeOK
  BY InitType
<1>2. OrdersInv
  BY DEF Init, OrdersInv, Fulfilling
<1>3. EventsInv
  BY DEF Init, EventsInv
<1>4. RequestsInv
  BY IdleJustified DEF Init, RequestsInv
<1>. QED  BY <1>1, <1>2, <1>3, <1>4 DEF IInv

LEMMA NextSafe == IInv /\ [Next]_vars => IInv'
<1>. SUFFICES ASSUME IInv, [Next]_vars PROVE OrdersInv' /\ EventsInv' /\ RequestsInv'
  BY NextType DEF IInv
<1>1. CASE \E r \in Requests, o \in Orders : Request(r, o)
  BY <1>1, RequestSafe
<1>2. CASE \E r \in Actors : Progress(r) \/ Crash(r)
  BY <1>2, ProgressSafe
<1>3. CASE \E h \in Hooks, e \in events : HandleEvent(h, e)
  BY <1>3, HandleEventSafe
<1>4. CASE \E o \in Orders : Outside(o)
  BY <1>4, OutsideSafe
<1>5. CASE UNCHANGED vars
  BY <1>5, QuietSafe DEF vars
<1>. QED  BY <1>1, <1>2, <1>3, <1>4, <1>5 DEF Next

-----------------------------------------------------------------------------
(* Goods only leave against money: for any number of orders, clients and    *)
(* webhook deliveries, and under every fault the model has, an order that   *)
(* is being fulfilled was captured and took its stock exactly once.         *)
THEOREM GoodsArePaidFor == Spec => []FulfilledWasPaid
<1>1. IInv => FulfilledWasPaid
  BY DEF IInv, OrdersInv, FulfilledWasPaid
<1>. QED  BY <1>1, InitSafe, NextSafe, PTL DEF Spec

(* markSucceeded's side effects happen at most once per order, and never    *)
(* while the order is still waiting for its payment.                        *)
THEOREM EffectsHappenOnce == Spec => []EffectsOnce
<1>1. IInv => EffectsOnce
  BY DEF IInv, OrdersInv, EffectsOnce
<1>. QED  BY <1>1, InitSafe, NextSafe, PTL DEF Spec

-----------------------------------------------------------------------------
(***************************************************************************)
(* Why the shop never promises the same unit twice.  A paid cancel claims  *)
(* its order by a conditional update, so two cancels never both restock;   *)
(* what the code does not exclude is another admin's status change that    *)
(* was checked before the cancel and is written after it (run              *)
(* stale_cancel).  The theorems hold when no such write is pending while a *)
(* cancel claims the same order.                                           *)
(***************************************************************************)
Ended == {"CANCELLED", "REFUNDED"}

(* Between cancelPaidOrder's claim and its restock or its undo.             *)
HoldsClaim(q) ==
  \/ q.pc \in {"cancelPaidOrder:payment", "cancelPaidOrder:restock",
               "cancelPaidOrder:undo"}
  \/ q.pc # "idle" /\ q.ok = "cancelPaidOrder:restock"

(* About to write a status of a paid order that it validated earlier.       *)
WritesPaid(q) ==
  q.pc = "setTracking" \/ (q.pc = "transition" /\ q.next \in Fulfilling)

ClaimsRunAlone ==
  \A r, s \in Actors :
    At(r, "cancelPaidOrder:claim") /\ WritesPaid(rq[s]) => rq[r].o # rq[s].o

(* Where a call continues fits what it is doing.                            *)
Continues(q) ==
  /\ q.ok = "transition" => q.next \notin Fulfilling
  /\ q.err = "cancelPaidOrder:undo" => q.ok = "cancelPaidOrder:restock"

RestockInv ==
  \A o \in Orders :
    /\ restocked[o] \in {0, 1} /\ restocked[o] <= sold[o]
    /\ restocked[o] = 1 => order[o] \in Ended

ClaimInv ==
  \A r \in Actors :
    /\ Continues(rq[r])
    /\ HoldsClaim(rq[r]) => /\ order[rq[r].o] \in Ended
                            /\ sold[rq[r].o] = 1 /\ restocked[rq[r].o] = 0
    /\ WritesPaid(rq[r]) => restocked[rq[r].o] = 0
    /\ \A s \in Actors : HoldsClaim(rq[s]) /\ rq[r].o = rq[s].o =>
         ~WritesPaid(rq[r]) /\ (HoldsClaim(rq[r]) => r = s)

(* The orders that took their stock and still have it.                      *)
Kept == {o \in Orders : sold[o] = 1 /\ restocked[o] = 0}

Needs(v) == [o \in Orders |-> Quantity[o][v]]

(* Every unit there ever was is on the shelf or with one of them.           *)
ShelfInv ==
  /\ IsFiniteSet(Kept)
  /\ \A v \in Variants : stock[v] + SumFunctionOnSet(Needs(v), Kept) = InitialStock[v]

SInv == IInv /\ RestockInv /\ ClaimInv /\ ShelfInv

-----------------------------------------------------------------------------
(* The model's sum over lines is a sum over the function Needs(v).          *)
LEMMA UnitsAreSums ==
  ASSUME NEW v \in Variants, NEW S \in SUBSET Orders, IsFiniteSet(S)
  PROVE  Units(S, v) = SumFunctionOnSet(Needs(v), S)
<1>. DEFINE P(g) == g = [s \in SUBSET S |->
                           IF s = {} THEN 0
                           ELSE Quantity[CHOOSE x \in s : TRUE][v]
                                  + g[s \ {CHOOSE x \in s : TRUE}]]
            h == CHOOSE g : P(g)
<1>1. Units(S, v) = h[S]
  BY DEF Units, MapThenSumSet, MapThenFoldSet
<1>2. ASSUME NEW g PROVE P(g) <=> AddsUp(g, Needs(v), SUBSET S)
  <2>1. \A s \in SUBSET S : s # {} =>
          Needs(v)[CHOOSE x \in s : TRUE] = Quantity[CHOOSE x \in s : TRUE][v]
    BY DEF Needs
  <2>. QED  BY <2>1 DEF AddsUp, FirstOf
<1>3. \E g : P(g)
  <2>1. PICK g : AddsUp(g, Needs(v), SUBSET S)
    BY SumsExist
  <2>. HIDE DEF P
  <2>2. P(g)
    BY <1>2, <2>1
  <2>. QED  BY <2>2
<1>4. P(h)
  <2>. HIDE DEF P
  <2>. QED  BY <1>3
<1>. HIDE DEF h, P
<1>. QED  BY <1>1, <1>2, <1>4, SumValue

LEMMA NeedsType ==
  ASSUME NEW v \in Variants
  PROVE  \A o \in Orders : Needs(v)[o] = Quantity[o][v] /\ Needs(v)[o] \in Nat
  BY Constants DEF Needs, ConstantAssumptions

LEMMA SafeCounts ==
  ASSUME SInv
  PROVE  /\ order \in [Orders -> OrderStatus]
         /\ rq \in [Actors -> RequestState]
         /\ sold \in [Orders -> {0, 1}]
         /\ restocked \in [Orders -> {0, 1}]
         /\ stock \in [Variants -> Nat]
         /\ \A o \in Orders : order[o] \in Fulfilling => sold[o] = 1
         /\ \A r \in Actors : rq[r].pc # "idle" => rq[r].o \in Orders
  BY DEF SInv, IInv, TypeOK, OrdersInv, RestockInv

(* What a new call may do: no claim yet, and a status write only of an      *)
(* order that is being fulfilled when it is read.                           *)
RequestsLoad ==
  \A r \in Actors :
    /\ Continues(rq'[r])
    /\ HoldsClaim(rq'[r]) => HoldsClaim(rq[r]) /\ rq'[r].o = rq[r].o
    /\ WritesPaid(rq'[r]) =>
         \/ WritesPaid(rq[r]) /\ rq'[r].o = rq[r].o
         \/ rq'[r].o \in Orders /\ order[rq'[r].o] \in Fulfilling

(* What most steps of a call do: no new claim, no new status write.         *)
CalmRequests ==
  \A r \in Actors :
    /\ Continues(rq'[r])
    /\ HoldsClaim(rq'[r]) => HoldsClaim(rq[r]) /\ rq'[r].o = rq[r].o
    /\ WritesPaid(rq'[r]) => WritesPaid(rq[r]) /\ rq'[r].o = rq[r].o

(* A cancelled order stays so, unless nobody restocks it.                   *)
CalmOrders ==
  \A o \in Orders : order[o] \in Ended =>
    \/ order'[o] \in Ended
    \/ restocked[o] = 0 /\ \A s \in Actors : HoldsClaim(rq'[s]) => rq'[s].o # o

LEMMA ClaimOrder ==
  ASSUME SInv, NEW r \in Actors, HoldsClaim(rq[r]) \/ WritesPaid(rq[r])
  PROVE  rq[r].o \in Orders
  BY SafeCounts DEF HoldsClaim, WritesPaid

LEMMA CalmStep ==
  ASSUME SInv, RequestsLoad, CalmOrders, restocked' = restocked,
         \A o \in Orders : sold'[o] = sold[o] \/ (sold[o] = 0 /\ sold'[o] = 1)
  PROVE  RestockInv' /\ ClaimInv'
<1>1. RestockInv'
  <2>. SUFFICES ASSUME NEW o \in Orders
       PROVE  /\ restocked'[o] \in {0, 1} /\ restocked'[o] <= sold'[o]
              /\ restocked'[o] = 1 => order'[o] \in Ended
    BY DEF RestockInv
  <2>1. /\ restocked[o] \in {0, 1} /\ restocked[o] <= sold[o]
        /\ sold[o] \in {0, 1} /\ (restocked[o] = 1 => order[o] \in Ended)
    BY SafeCounts DEF SInv, RestockInv
  <2>. QED  BY <2>1 DEF CalmOrders
<1>2. ASSUME NEW r \in Actors
      PROVE  /\ HoldsClaim(rq'[r]) =>
                  /\ order'[rq'[r].o] \in Ended
                  /\ sold'[rq'[r].o] = 1 /\ restocked'[rq'[r].o] = 0
             /\ WritesPaid(rq'[r]) => restocked'[rq'[r].o] = 0
  <2>1. CASE HoldsClaim(rq'[r])
    <3>. DEFINE o == rq'[r].o
    <3>1. HoldsClaim(rq[r]) /\ rq[r].o = o
      BY <2>1 DEF RequestsLoad
    <3>2. o \in Orders /\ order[o] \in Ended /\ sold[o] = 1 /\ restocked[o] = 0
      BY <3>1, ClaimOrder DEF SInv, ClaimInv
    <3>3. order'[o] \in Ended
      BY <2>1, <3>2 DEF CalmOrders
    <3>4. WritesPaid(rq'[r]) => restocked'[o] = 0
      BY <3>2
    <3>. QED  BY <3>2, <3>3, <3>4
  <2>2. CASE WritesPaid(rq'[r])
    <3>1. CASE WritesPaid(rq[r]) /\ rq'[r].o = rq[r].o
      <4>1. restocked[rq'[r].o] = 0
        BY <3>1 DEF SInv, ClaimInv
      <4>. QED  BY <2>1, <4>1
    <3>2. CASE rq'[r].o \in Orders /\ order[rq'[r].o] \in Fulfilling
      <4>1. restocked[rq'[r].o] = 0
        BY <3>2 DEF SInv, RestockInv, Ended, Fulfilling
      <4>. QED  BY <2>1, <4>1
    <3>. QED  BY <2>2, <3>1, <3>2 DEF RequestsLoad
  <2>. QED  BY <2>1, <2>2
<1>3. ASSUME NEW r \in Actors, NEW s \in Actors, HoldsClaim(rq'[s]), rq'[r].o = rq'[s].o
      PROVE  ~WritesPaid(rq'[r]) /\ (HoldsClaim(rq'[r]) => r = s)
  <2>1. HoldsClaim(rq[s]) /\ rq[s].o = rq'[s].o /\ order[rq[s].o] \in Ended
    BY <1>3 DEF RequestsLoad, SInv, ClaimInv
  <2>2. HoldsClaim(rq'[r]) => r = s
    BY <1>3, <2>1 DEF RequestsLoad, SInv, ClaimInv
  <2>3. ~WritesPaid(rq'[r])
    <3>1. ~(WritesPaid(rq[r]) /\ rq'[r].o = rq[r].o)
      BY <1>3, <2>1 DEF SInv, ClaimInv
    <3>2. order[rq'[r].o] \notin Fulfilling
      BY <1>3, <2>1 DEF Ended, Fulfilling
    <3>. QED  BY <3>1, <3>2 DEF RequestsLoad
  <2>. QED  BY <2>2, <2>3
<1>. QED  BY <1>1, <1>2, <1>3 DEF ClaimInv, RequestsLoad

LEMMA ShelfUnchanged ==
  ASSUME SInv, UNCHANGED <<stock, sold, restocked>>
  PROVE  ShelfInv'
  BY DEF SInv, ShelfInv, Kept, Needs

(* Most steps.                                                              *)
LEMMA CalmSafe ==
  ASSUME SInv, CalmRequests, CalmOrders, UNCHANGED <<stock, sold, restocked>>
  PROVE  RestockInv' /\ ClaimInv' /\ ShelfInv'
<1>1. RequestsLoad
  BY DEF CalmRequests, RequestsLoad
<1>. QED  BY <1>1, CalmStep, ShelfUnchanged

-----------------------------------------------------------------------------
LEMMA KeptSum ==
  ASSUME SInv, NEW v \in Variants
  PROVE  /\ SumFunctionOnSet(Needs(v), Kept) \in Nat
         /\ stock[v] + SumFunctionOnSet(Needs(v), Kept) = InitialStock[v]
         /\ stock[v] \in Nat
<1>1. IsFiniteSet(Kept) /\ Kept \subseteq Orders
  BY DEF SInv, ShelfInv, Kept
<1>2. SumFunctionOnSet(Needs(v), Kept) \in Nat
  BY <1>1, NeedsType, SumMonotone
<1>. QED  BY <1>2, SafeCounts DEF SInv, ShelfInv

(* A sale moves the units of o from the shelf to o.                         *)
LEMMA ShelfAfterSale ==
  ASSUME SInv, NEW o \in Orders, sold[o] = 0, TakeStock(o), restocked' = restocked
  PROVE  ShelfInv'
<1>1. o \notin Kept /\ Kept' = Kept \cup {o}
  <2>1. restocked[o] = 0 /\ sold'[o] = 1
    BY SafeCounts DEF SInv, RestockInv, TakeStock
  <2>2. \A p \in Orders : p # o => sold'[p] = sold[p]
    BY SafeCounts DEF TakeStock
  <2>. QED  BY <2>1, <2>2 DEF Kept
<1>2. IsFiniteSet(Kept) /\ Kept \subseteq Orders
  BY DEF SInv, ShelfInv, Kept
<1>3. ASSUME NEW v \in Variants
      PROVE  stock'[v] + SumFunctionOnSet(Needs(v), Kept') = InitialStock[v]
  <2>1. SumFunctionOnSet(Needs(v), Kept \cup {o})
          = SumFunctionOnSet(Needs(v), Kept) + Needs(v)[o]
    <3>1. \A y \in Kept \cup {o} : Needs(v)[y] \in Int
      BY <1>2, NeedsType
    <3>. QED  BY <1>1, <1>2, <3>1, SumAdd
  <2>2. stock'[v] = stock[v] - Quantity[o][v]
    BY DEF TakeStock
  <2>3. Needs(v)[o] = Quantity[o][v] /\ Needs(v)[o] \in Nat
    BY NeedsType
  <2>. QED  BY <1>1, <2>1, <2>2, <2>3, KeptSum
<1>4. IsFiniteSet(Kept')
  BY <1>1, <1>2, FS_AddElement
<1>5. \A v : Needs(v)' = Needs(v)
  BY DEF Needs
<1>. QED  BY <1>3, <1>4, <1>5 DEF ShelfInv

(* A restock moves them back.                                               *)
LEMMA ShelfAfterRestock ==
  ASSUME SInv, NEW o \in Orders, o \in Kept, sold' = sold,
         restocked' = [restocked EXCEPT ![o] = @ + 1],
         stock' = [v \in Variants |-> stock[v] + Quantity[o][v]]
  PROVE  ShelfInv'
<1>1. Kept' = Kept \ {o}
  <2>1. \A p \in Orders : restocked'[p] = 0 <=> restocked[p] = 0 /\ p # o
    BY SafeCounts
  <2>. QED  BY <2>1 DEF Kept
<1>2. IsFiniteSet(Kept) /\ Kept \subseteq Orders
  BY DEF SInv, ShelfInv, Kept
<1>3. ASSUME NEW v \in Variants
      PROVE  stock'[v] + SumFunctionOnSet(Needs(v), Kept') = InitialStock[v]
  <2>1. /\ SumFunctionOnSet(Needs(v), Kept)
             = Needs(v)[o] + SumFunctionOnSet(Needs(v), Kept \ {o})
        /\ SumFunctionOnSet(Needs(v), Kept \ {o}) \in Int
    BY <1>2, NeedsType, SumRemove
  <2>2. stock'[v] = stock[v] + Quantity[o][v]
    OBVIOUS
  <2>3. Needs(v)[o] = Quantity[o][v] /\ Needs(v)[o] \in Nat
    BY NeedsType
  <2>. QED  BY <1>1, <2>1, <2>2, <2>3, KeptSum
<1>4. IsFiniteSet(Kept')
  BY <1>1, <1>2, FS_RemoveElement
<1>5. \A v : Needs(v)' = Needs(v)
  BY DEF Needs
<1>. QED  BY <1>3, <1>4, <1>5 DEF ShelfInv

-----------------------------------------------------------------------------
(* How each kind of step treats the requests.                               *)
LEMMA SameCalm ==
  ASSUME SInv, UNCHANGED rq
  PROVE  CalmRequests
  BY DEF SInv, ClaimInv, CalmRequests

LEMMA UpdateCalm ==
  ASSUME SInv, NEW r \in Actors, NEW q, rq' = [rq EXCEPT ![r] = q], Continues(q),
         HoldsClaim(q) => HoldsClaim(rq[r]) /\ q.o = rq[r].o,
         WritesPaid(q) => WritesPaid(rq[r]) /\ q.o = rq[r].o
  PROVE  CalmRequests
<1>1. rq'[r] = q /\ \A s \in Actors : s # r => rq'[s] = rq[s]
  BY SafeCounts
<1>2. \A s \in Actors : Continues(rq[s])
  BY DEF SInv, ClaimInv
<1>. QED  BY <1>1, <1>2 DEF CalmRequests

LEMMA IdleCalm == Continues(Idle) /\ ~HoldsClaim(Idle) /\ ~WritesPaid(Idle)
  BY DEF Continues, HoldsClaim, WritesPaid, Idle, Begin, Fulfilling

LEMMA GotoCalm ==
  ASSUME SInv, NEW r \in Actors, NEW pc, Goto(r, pc), rq[r].pc # "idle",
         pc # "setTracking",
         pc = "transition" => rq[r].ok = "transition",
         pc \in {"cancelPaidOrder:payment", "cancelPaidOrder:restock",
                 "cancelPaidOrder:undo"} => HoldsClaim(rq[r])
  PROVE  CalmRequests
<1>1. CASE pc = "idle"
  BY <1>1, IdleCalm, UpdateCalm DEF Goto
<1>2. CASE pc # "idle"
  <2>. DEFINE q == [rq[r] EXCEPT !.pc = pc]
  <2>1. rq' = [rq EXCEPT ![r] = q]
    BY <1>2 DEF Goto
  <2>2. /\ q.pc = pc /\ q.o = rq[r].o /\ q.st = rq[r].st /\ q.next = rq[r].next
        /\ q.ok = rq[r].ok /\ q.err = rq[r].err
    BY SafeCounts DEF RequestState
  <2>3. Continues(rq[r])
    BY DEF SInv, ClaimInv
  <2>. HIDE DEF q
  <2>4. Continues(q)
    BY <2>2, <2>3 DEF Continues
  <2>5. HoldsClaim(q) => HoldsClaim(rq[r]) /\ q.o = rq[r].o
    BY <2>2 DEF HoldsClaim
  <2>6. ~WritesPaid(q)
    BY <2>2, <2>3 DEF WritesPaid, Continues
  <2>. QED  BY <2>1, <2>4, <2>5, <2>6, UpdateCalm
<1>. QED  BY <1>1, <1>2

LEMMA BeginCalm ==
  ASSUME SInv, NEW r \in Actors, NEW o, NEW pc,
         rq' = [rq EXCEPT ![r] = Begin(o, pc)],
         pc \notin {"setTracking", "cancelPaidOrder:payment",
                    "cancelPaidOrder:restock", "cancelPaidOrder:undo"}
  PROVE  CalmRequests
<1>1. Continues(Begin(o, pc)) /\ ~HoldsClaim(Begin(o, pc)) /\ ~WritesPaid(Begin(o, pc))
  BY DEF Continues, HoldsClaim, WritesPaid, Begin, Fulfilling
<1>. QED  BY <1>1, UpdateCalm

-----------------------------------------------------------------------------
(* The steps that leave the stock alone.                                    *)
Calm == CalmRequests /\ CalmOrders /\ UNCHANGED <<stock, sold, restocked>>

LEMMA SameOrders ==
  ASSUME CalmRequests, UNCHANGED <<order, goods>>
  PROVE  Calm
  BY DEF Calm, CalmOrders, goods

(* Where a step of a call may go on.                                        *)
LEMMA Locals ==
  ASSUME SInv, NEW r \in Actors
  PROVE  /\ rq[r].ok \in {"idle", "transition", "cancelPaidOrder:restock"}
         /\ rq[r].err \in {"idle", "cancelPaidOrder:undo"}
         /\ rq[r].pc # "idle" /\ rq[r].ok = "cancelPaidOrder:restock" => HoldsClaim(rq[r])
         /\ rq[r].pc # "idle" /\ rq[r].err = "cancelPaidOrder:undo" => HoldsClaim(rq[r])
<1>1. rq[r] \in RequestState /\ Continues(rq[r])
  BY SafeCounts DEF SInv, ClaimInv
<1>. QED  BY <1>1 DEF RequestState, Continues, HoldsClaim

LEMMA PaymentCalm ==
  ASSUME SInv, NEW r \in Actors,
         \/ CreateIntent(r) \/ SaveIntent(r) \/ FindOpenPayment(r) \/ CancelIntent(r)
         \/ FailPayment(r) \/ Reconcile(r) \/ ReconcileFailed(r)
         \/ ReserveRefund(r) \/ RefundAtStripe(r) \/ ReleaseRefund(r) \/ ReplayOrder(r)
  PROVE  Calm
<1>1. CASE CreateIntent(r)
  <2>1. rq[r].pc # "idle" /\ UNCHANGED <<order, goods>>
    BY <1>1 DEF CreateIntent, At
  <2>2. CalmRequests
    BY <1>1, <2>1, GotoCalm, Locals DEF CreateIntent, At
  <2>. QED  BY <2>1, <2>2, SameOrders
<1>2. CASE SaveIntent(r)
  <2>1. rq[r].pc # "idle" /\ UNCHANGED <<order, goods>>
    BY <1>2 DEF SaveIntent, At
  <2>2. CalmRequests
    BY <1>2, <2>1, GotoCalm, Locals DEF SaveIntent, At
  <2>. QED  BY <2>1, <2>2, SameOrders
<1>3. CASE FindOpenPayment(r)
  <2>1. rq[r].pc # "idle" /\ UNCHANGED <<order, goods>>
    BY <1>3 DEF FindOpenPayment, At
  <2>2. CalmRequests
    BY <1>3, <2>1, GotoCalm, Locals DEF FindOpenPayment, At
  <2>. QED  BY <2>1, <2>2, SameOrders
<1>4. CASE CancelIntent(r)
  <2>1. rq[r].pc # "idle" /\ UNCHANGED <<order, goods>>
    BY <1>4 DEF CancelIntent, At
  <2>2. CalmRequests
    BY <1>4, <2>1, GotoCalm, Locals DEF CancelIntent, At
  <2>. QED  BY <2>1, <2>2, SameOrders
<1>5. CASE FailPayment(r)
  <2>1. rq[r].pc # "idle" /\ UNCHANGED <<order, goods>>
    BY <1>5 DEF FailPayment, At
  <2>2. CalmRequests
    BY <1>5, <2>1, GotoCalm, Locals DEF FailPayment, At
  <2>. QED  BY <2>1, <2>2, SameOrders
<1>6. CASE Reconcile(r)
  <2>1. rq[r].pc # "idle" /\ UNCHANGED <<order, goods>>
    BY <1>6 DEF Reconcile, At
  <2>2. CalmRequests
    BY <1>6, <2>1, GotoCalm, Locals DEF Reconcile, At
  <2>. QED  BY <2>1, <2>2, SameOrders
<1>7. CASE ReconcileFailed(r)
  <2>1. rq[r].pc # "idle" /\ UNCHANGED <<order, goods>>
    BY <1>7 DEF ReconcileFailed, MarkFailed, At
  <2>2. CalmRequests
    BY <1>7, <2>1, GotoCalm, Locals DEF ReconcileFailed, At
  <2>. QED  BY <2>1, <2>2, SameOrders
<1>8. CASE ReserveRefund(r)
  <2>1. rq[r].pc # "idle" /\ UNCHANGED <<order, goods>>
    BY <1>8 DEF ReserveRefund, At
  <2>2. CalmRequests
    BY <1>8, <2>1, GotoCalm, Locals DEF ReserveRefund, At
  <2>. QED  BY <2>1, <2>2, SameOrders
<1>9. CASE RefundAtStripe(r)
  <2>1. rq[r].pc # "idle" /\ UNCHANGED <<order, goods>>
    BY <1>9 DEF RefundAtStripe, At
  <2>2. CalmRequests
    BY <1>9, <2>1, GotoCalm, Locals DEF RefundAtStripe, At
  <2>. QED  BY <2>1, <2>2, SameOrders
<1>10. CASE ReleaseRefund(r)
  <2>1. rq[r].pc # "idle" /\ UNCHANGED <<order, goods>>
    BY <1>10 DEF ReleaseRefund, At
  <2>2. CalmRequests
    BY <1>10, <2>1, GotoCalm, Locals DEF ReleaseRefund, At
  <2>. QED  BY <2>1, <2>2, SameOrders
<1>11. CASE ReplayOrder(r)
  <2>1. rq[r].pc # "idle" /\ UNCHANGED <<order, goods>>
    BY <1>11 DEF ReplayOrder, At
  <2>2. CalmRequests
    BY <1>11, <2>1, GotoCalm, Locals DEF ReplayOrder, At
  <2>. QED  BY <2>1, <2>2, SameOrders
<1>. QED  BY <1>1, <1>2, <1>3, <1>4, <1>5, <1>6, <1>7, <1>8, <1>9, <1>10, <1>11

(* A step that writes one order's status and goes on.                       *)
LEMMA WriteCalm ==
  ASSUME SInv, CalmRequests, NEW o \in Orders, NEW s,
         order' = [order EXCEPT ![o] = s],
         order[o] \in Ended => s \in Ended,
         UNCHANGED goods
  PROVE  Calm
  BY SafeCounts DEF Calm, CalmOrders, goods

LEMMA RecordRefundCalm ==
  ASSUME SInv, NEW r \in Actors, RecordRefund(r)
  PROVE  Calm
<1>. DEFINE s == IF rq[r].base + rq[r].amt >= Amount[rq[r].o]
                 THEN "REFUNDED" ELSE order[rq[r].o]
<1>1. rq[r].pc # "idle" /\ rq[r].o \in Orders
  BY SafeCounts DEF RecordRefund, At
<1>2. CalmRequests
  BY <1>1, GotoCalm, Locals DEF RecordRefund
<1>3. order' = [order EXCEPT ![rq[r].o] = s] /\ UNCHANGED goods
  BY <1>1, SafeCounts DEF RecordRefund
<1>4. order[rq[r].o] \in Ended => s \in Ended
  BY DEF Ended
<1>. HIDE DEF s
<1>. QED  BY <1>1, <1>2, <1>3, <1>4, WriteCalm

LEMMA SyncRefundCalm ==
  ASSUME SInv, NEW r \in Actors, SyncRefund(r)
  PROVE  Calm
<1>. DEFINE s == IF rq[r].want >= Amount[rq[r].o] THEN "REFUNDED" ELSE order[rq[r].o]
<1>1. rq[r].pc # "idle" /\ rq[r].o \in Orders
  BY SafeCounts DEF SyncRefund, At
<1>2. CalmRequests
  BY <1>1, GotoCalm, Locals DEF SyncRefund
<1>3. order' = [order EXCEPT ![rq[r].o] = s] /\ UNCHANGED goods
  BY <1>1, SafeCounts DEF SyncRefund
<1>4. order[rq[r].o] \in Ended => s \in Ended
  BY DEF Ended
<1>. HIDE DEF s
<1>. QED  BY <1>1, <1>2, <1>3, <1>4, WriteCalm

LEMMA ReadRefundableCalm ==
  ASSUME SInv, NEW r \in Actors, ReadRefundable(r)
  PROVE  Calm
<1>1. rq[r].pc = "processRefund:read" /\ UNCHANGED <<order, goods>>
  BY DEF ReadRefundable, At
<1>. DEFINE amt == IF rq[r].want = 0 THEN Refundable(rq[r].o) ELSE rq[r].want
            q == [rq[r] EXCEPT !.pc = "processRefund:reserve",
                               !.base = payment[rq[r].o].refunded, !.amt = amt]
<1>2. CASE rq' = [rq EXCEPT ![r] = q]
  <2>1. /\ q.pc = "processRefund:reserve" /\ q.o = rq[r].o /\ q.next = rq[r].next
        /\ q.ok = rq[r].ok /\ q.err = rq[r].err
    BY SafeCounts DEF RequestState
  <2>2. Continues(rq[r])
    BY DEF SInv, ClaimInv
  <2>. HIDE DEF q
  <2>3. Continues(q) /\ ~WritesPaid(q) /\ (HoldsClaim(q) => HoldsClaim(rq[r]))
    BY <1>1, <2>1, <2>2 DEF Continues, WritesPaid, HoldsClaim
  <2>4. CalmRequests
    BY <1>2, <2>1, <2>3, UpdateCalm
  <2>. QED  BY <1>1, <2>4, SameOrders
<1>3. CASE Goto(r, rq[r].err)
  <2>1. CalmRequests
    BY <1>1, <1>3, GotoCalm, Locals
  <2>. QED  BY <1>1, <2>1, SameOrders
<1>. QED  BY <1>2, <1>3 DEF ReadRefundable

(* cancelPaidOrder goes on to refund or to restock under its own claim.     *)
LEMMA RefundCancelledCalm ==
  ASSUME SInv, NEW r \in Actors, RefundCancelled(r)
  PROVE  Calm
<1>. DEFINE q == [rq[r] EXCEPT !.pc = "processRefund:read", !.want = 0,
                               !.ok = "cancelPaidOrder:restock",
                               !.err = "cancelPaidOrder:undo"]
            p == [rq[r] EXCEPT !.pc = "cancelPaidOrder:restock"]
<1>1. rq[r].pc = "cancelPaidOrder:payment" /\ UNCHANGED <<order, goods>>
  BY DEF RefundCancelled, At
<1>2. HoldsClaim(rq[r]) /\ Continues(rq[r])
  BY <1>1 DEF HoldsClaim, SInv, ClaimInv
<1>3. /\ q.pc = "processRefund:read" /\ q.o = rq[r].o
      /\ q.ok = "cancelPaidOrder:restock"
      /\ p.pc = "cancelPaidOrder:restock" /\ p.o = rq[r].o /\ p.next = rq[r].next
      /\ p.ok = rq[r].ok /\ p.err = rq[r].err
  BY SafeCounts DEF RequestState
<1>4. rq' = [rq EXCEPT ![r] = q] \/ rq' = [rq EXCEPT ![r] = p]
  BY DEF RefundCancelled
<1>. HIDE DEF p, q
<1>5. Continues(q) /\ ~WritesPaid(q) /\ Continues(p) /\ ~WritesPaid(p)
  BY <1>2, <1>3 DEF Continues, WritesPaid
<1>6. CalmRequests
  BY <1>2, <1>3, <1>4, <1>5, UpdateCalm
<1>. QED  BY <1>1, <1>6, SameOrders

-----------------------------------------------------------------------------
(* A validated status write is about an order that nobody is cancelling.    *)
LEMMA FreeWrite ==
  ASSUME SInv, NEW r \in Actors, WritesPaid(rq[r]), CalmRequests, NEW s,
         order' = [order EXCEPT ![rq[r].o] = s], UNCHANGED goods
  PROVE  Calm
<1>1. rq[r].o \in Orders /\ restocked[rq[r].o] = 0
  BY ClaimOrder DEF SInv, ClaimInv
<1>2. ASSUME NEW a \in Actors, HoldsClaim(rq'[a]) PROVE rq'[a].o # rq[r].o
  BY <1>2 DEF CalmRequests, SInv, ClaimInv
<1>. QED  BY <1>1, <1>2, SafeCounts DEF Calm, CalmOrders, goods

LEMMA TransitionCalm ==
  ASSUME SInv, NEW r \in Actors, Transition(r)
  PROVE  Calm
<1>. DEFINE s == IF canTransition(rq[r].st, rq[r].next) THEN rq[r].next ELSE order[rq[r].o]
<1>1. rq[r].pc = "transition" /\ rq[r].o \in Orders
  BY SafeCounts DEF Transition, At
<1>2. CalmRequests
  BY <1>1, GotoCalm DEF Transition
<1>3. order' = [order EXCEPT ![rq[r].o] = s] /\ UNCHANGED goods
  BY <1>1, SafeCounts DEF Transition
<1>4. CASE WritesPaid(rq[r])
  BY <1>2, <1>3, <1>4, FreeWrite
<1>5. CASE ~WritesPaid(rq[r])
  <2>1. /\ rq[r].next \in OrderStatus /\ rq[r].next \notin Fulfilling
        /\ rq[r].next \notin {"none", "PENDING"}
    BY <1>1, <1>5, SafeCounts DEF WritesPaid, RequestState, SInv, IInv, RequestsInv, Justified
  <2>2. order[rq[r].o] \in Ended => s \in Ended
    BY <2>1 DEF Ended, OrderStatus, Fulfilling
  <2>. HIDE DEF s
  <2>. QED  BY <1>1, <1>2, <1>3, <2>2, WriteCalm
<1>. QED  BY <1>4, <1>5

LEMMA ShipCalm ==
  ASSUME SInv, NEW r \in Actors, Ship(r)
  PROVE  Calm
<1>1. rq[r].pc = "setTracking" /\ rq[r].o \in Orders
  BY SafeCounts DEF Ship, At
<1>2. CalmRequests
  BY <1>1, GotoCalm DEF Ship
<1>3. WritesPaid(rq[r])
  BY <1>1 DEF WritesPaid
<1>. QED  BY <1>2, <1>3, FreeWrite DEF Ship

(* The undo gives the claim back, and nobody else had it.                   *)
LEMMA UndoCancelCalm ==
  ASSUME SInv, NEW r \in Actors, UndoCancel(r)
  PROVE  Calm
<1>1. rq[r].pc = "cancelPaidOrder:undo" /\ HoldsClaim(rq[r])
  BY DEF UndoCancel, At, HoldsClaim
<1>2. rq[r].o \in Orders /\ restocked[rq[r].o] = 0
  BY <1>1, ClaimOrder DEF SInv, ClaimInv
<1>3. CalmRequests
  BY <1>1, GotoCalm DEF UndoCancel
<1>4. rq'[r] = Idle
  BY SafeCounts DEF UndoCancel, Goto
<1>5. ASSUME NEW a \in Actors, HoldsClaim(rq'[a]) PROVE rq'[a].o # rq[r].o
  <2>1. a # r
    BY <1>4, <1>5, IdleCalm
  <2>. QED  BY <1>1, <1>3, <1>5, <2>1 DEF CalmRequests, SInv, ClaimInv
<1>6. \A o \in Orders : o # rq[r].o => order'[o] = order[o]
  BY SafeCounts DEF UndoCancel
<1>. QED  BY <1>2, <1>3, <1>5, <1>6 DEF Calm, CalmOrders, UndoCancel, goods

-----------------------------------------------------------------------------
(* The claim: the order it cancels is being fulfilled, so no other cancel   *)
(* holds it and it was never restocked.  That no status write is pending on *)
(* it is what ClaimsRunAlone adds.                                          *)
LEMMA ClaimCancelKeeps ==
  ASSUME SInv, ClaimsRunAlone, NEW r \in Actors, ClaimCancel(r)
  PROVE  RestockInv' /\ ClaimInv' /\ ShelfInv'
<1>. DEFINE o == rq[r].o
<1>1. /\ rq[r].pc = "cancelPaidOrder:claim" /\ o \in Orders
      /\ UNCHANGED <<stock, sold, restocked>>
  BY SafeCounts DEF ClaimCancel, At, goods
<1>2. rq[r].st \in Fulfilling /\ Continues(rq[r])
  BY <1>1 DEF SInv, IInv, RequestsInv, Justified, ClaimInv
<1>3. CASE Goto(r, "idle") /\ UNCHANGED order
  <2>1. CalmRequests
    BY <1>1, <1>3, GotoCalm
  <2>. QED  BY <1>1, <1>3, <2>1, CalmSafe DEF CalmOrders
<1>4. CASE /\ order[o] = rq[r].st
           /\ order' = [order EXCEPT ![o] = "CANCELLED"]
           /\ Goto(r, "cancelPaidOrder:payment")
  <2>. DEFINE q == [rq[r] EXCEPT !.pc = "cancelPaidOrder:payment"]
  <2>1. rq'[r] = q /\ \A a \in Actors : a # r => rq'[a] = rq[a]
    BY <1>4, SafeCounts DEF Goto
  <2>2. /\ q.pc = "cancelPaidOrder:payment" /\ q.o = o /\ q.next = rq[r].next
        /\ q.ok = rq[r].ok /\ q.err = rq[r].err
    BY SafeCounts DEF RequestState
  <2>. HIDE DEF q
  <2>3. Continues(q) /\ ~WritesPaid(q)
    BY <1>2, <2>2 DEF Continues, WritesPaid
  <2>4. order[o] \in Fulfilling /\ order[o] \notin Ended
    BY <1>2, <1>4 DEF Ended, Fulfilling
  <2>5. sold[o] = 1 /\ restocked[o] = 0
    BY <1>1, <2>4, SafeCounts DEF SInv, RestockInv
  <2>6. order'[o] \in Ended /\ \A p \in Orders : order[p] \in Ended => order'[p] \in Ended
    BY <1>1, <1>4, SafeCounts DEF Ended
  <2>7. ASSUME NEW a \in Actors, a # r, rq[a].o = o
        PROVE  ~HoldsClaim(rq[a]) /\ ~WritesPaid(rq[a])
    <3>1. ~HoldsClaim(rq[a])
      BY <2>4, <2>7 DEF SInv, ClaimInv
    <3>2. ~WritesPaid(rq[a])
      BY <1>1, <2>7 DEF ClaimsRunAlone, At
    <3>. QED  BY <3>1, <3>2
  <2>8. RestockInv'
    BY <1>1, <2>6 DEF SInv, RestockInv
  <2>9. ASSUME NEW a \in Actors
        PROVE  /\ Continues(rq'[a])
               /\ HoldsClaim(rq'[a]) => /\ order'[rq'[a].o] \in Ended
                                        /\ sold[rq'[a].o] = 1 /\ restocked[rq'[a].o] = 0
               /\ WritesPaid(rq'[a]) => restocked[rq'[a].o] = 0
    <3>1. CASE a = r
      BY <2>1, <2>2, <2>3, <2>5, <2>6, <3>1
    <3>2. CASE a # r
      <4>1. HoldsClaim(rq[a]) => rq[a].o \in Orders
        BY ClaimOrder
      <4>. QED  BY <2>1, <2>6, <3>2, <4>1 DEF SInv, ClaimInv
    <3>. QED  BY <3>1, <3>2
  <2>10. ASSUME NEW a \in Actors, NEW b \in Actors, HoldsClaim(rq'[b]), rq'[a].o = rq'[b].o
         PROVE  ~WritesPaid(rq'[a]) /\ (HoldsClaim(rq'[a]) => a = b)
    <3>1. CASE a = r /\ b = r
      BY <2>1, <2>3, <3>1
    <3>2. CASE a = r /\ b # r
      BY <2>1, <2>2, <2>7, <2>10, <3>2
    <3>3. CASE a # r /\ b = r
      BY <2>1, <2>2, <2>7, <2>10, <3>3
    <3>4. CASE a # r /\ b # r
      BY <2>1, <2>10, <3>4 DEF SInv, ClaimInv
    <3>. QED  BY <3>1, <3>2, <3>3, <3>4
  <2>11. ClaimInv'
    BY <1>1, <2>9, <2>10 DEF ClaimInv
  <2>. QED  BY <1>1, <2>8, <2>11, ShelfUnchanged
<1>. QED  BY <1>3, <1>4 DEF ClaimCancel

(* The restock: the holder of the claim is the only one to get here.        *)
LEMMA RestockKeeps ==
  ASSUME SInv, NEW r \in Actors, Restock(r)
  PROVE  RestockInv' /\ ClaimInv' /\ ShelfInv'
<1>. DEFINE o == rq[r].o
<1>1. /\ HoldsClaim(rq[r]) /\ rq[r].pc # "idle" /\ UNCHANGED <<order, sold>>
      /\ restocked' = [restocked EXCEPT ![o] = @ + 1]
  BY DEF Restock, At, HoldsClaim
<1>2. o \in Orders /\ order[o] \in Ended /\ sold[o] = 1 /\ restocked[o] = 0
  BY <1>1, ClaimOrder DEF SInv, ClaimInv
<1>3. restocked'[o] = 1 /\ \A p \in Orders : p # o => restocked'[p] = restocked[p]
  BY <1>1, <1>2, SafeCounts
<1>4. CalmRequests
  BY <1>1, GotoCalm DEF Restock
<1>5. RestockInv'
  BY <1>1, <1>2, <1>3 DEF SInv, RestockInv
<1>6. rq'[r] = Idle /\ \A a \in Actors : a # r => rq'[a] = rq[a]
  BY SafeCounts DEF Restock, Goto
<1>7. ASSUME NEW a \in Actors, a # r, HoldsClaim(rq[a]) \/ WritesPaid(rq[a])
      PROVE  rq[a].o # o /\ restocked'[rq[a].o] = restocked[rq[a].o]
  <2>1. rq[a].o # o
    BY <1>1, <1>7 DEF SInv, ClaimInv
  <2>. QED  BY <1>3, <1>7, <2>1, ClaimOrder
<1>8. ASSUME NEW a \in Actors
      PROVE  /\ Continues(rq'[a])
             /\ HoldsClaim(rq'[a]) => /\ order[rq'[a].o] \in Ended
                                      /\ sold[rq'[a].o] = 1 /\ restocked'[rq'[a].o] = 0
             /\ WritesPaid(rq'[a]) => restocked'[rq'[a].o] = 0
  <2>1. CASE a = r
    BY <1>6, <2>1, IdleCalm
  <2>2. CASE a # r
    BY <1>6, <1>7, <2>2 DEF SInv, ClaimInv
  <2>. QED  BY <2>1, <2>2
<1>9. ASSUME NEW a \in Actors, NEW b \in Actors, HoldsClaim(rq'[b]), rq'[a].o = rq'[b].o
      PROVE  ~WritesPaid(rq'[a]) /\ (HoldsClaim(rq'[a]) => a = b)
  <2>1. b # r
    BY <1>6, <1>9, IdleCalm
  <2>2. CASE a = r
    BY <1>6, <2>1, <2>2, IdleCalm
  <2>3. CASE a # r
    BY <1>6, <1>9, <2>1, <2>3 DEF SInv, ClaimInv
  <2>. QED  BY <2>2, <2>3
<1>10. ClaimInv'
  BY <1>1, <1>8, <1>9 DEF ClaimInv
<1>11. ShelfInv'
  BY <1>1, <1>2, ShelfAfterRestock DEF Restock, Kept
<1>. QED  BY <1>5, <1>10, <1>11

-----------------------------------------------------------------------------
(* Sales: markSucceeded and a $0 checkout.                                  *)
LEMMA SaleKeeps ==
  ASSUME SInv, CalmRequests, NEW o \in Orders, order[o] \in {"none", "PENDING"},
         order' = [order EXCEPT ![o] = "CONFIRMED"], TakeStock(o),
         restocked' = restocked
  PROVE  RestockInv' /\ ClaimInv' /\ ShelfInv'
<1>1. sold[o] = 0
  BY DEF SInv, IInv, OrdersInv
<1>2. \A p \in Orders : sold'[p] = sold[p] \/ (sold[p] = 0 /\ sold'[p] = 1)
  BY <1>1, SafeCounts DEF TakeStock
<1>3. CalmOrders /\ RequestsLoad
  BY SafeCounts DEF CalmOrders, Ended, CalmRequests, RequestsLoad
<1>. QED  BY <1>1, <1>2, <1>3, CalmStep, ShelfAfterSale

LEMMA MarkSucceededKeeps ==
  ASSUME SInv, NEW r \in Actors, NEW o \in Orders, MarkSucceeded(r, o, RefundOrphan(o))
  PROVE  CalmRequests /\ RestockInv' /\ ClaimInv' /\ ShelfInv'
<1>1. CalmRequests
  <2>1. CASE rq' = [rq EXCEPT ![r] = Idle]
    BY <2>1, IdleCalm, UpdateCalm
  <2>2. CASE rq' = [rq EXCEPT ![r] = RefundOrphan(o)]
    BY <2>2, BeginCalm DEF RefundOrphan
  <2>. QED  BY <2>1, <2>2 DEF MarkSucceeded, Goto
<1>2. CASE UNCHANGED <<order, goods>>
  BY <1>1, <1>2, SameOrders, CalmSafe DEF Calm
<1>3. CASE /\ order[o] = "PENDING" /\ TakeStock(o) /\ restocked' = restocked
           /\ order' = [order EXCEPT ![o] = "CONFIRMED"]
  BY <1>1, <1>3, SaleKeeps
<1>4. CASE order' = [order EXCEPT ![o] = "CANCELLED"] /\ UNCHANGED goods
  BY <1>1, <1>4, WriteCalm, CalmSafe DEF Calm, Ended
<1>. QED  BY <1>1, <1>2, <1>3, <1>4 DEF MarkSucceeded

LEMMA PersistOrderKeeps ==
  ASSUME SInv, NEW r \in Actors, PersistOrder(r)
  PROVE  CalmRequests /\ RestockInv' /\ ClaimInv' /\ ShelfInv'
<1>. DEFINE o == rq[r].o
<1>1. rq[r].pc = "createOrder:persist" /\ o \in Orders
  BY SafeCounts DEF PersistOrder, At
<1>2. CalmRequests
  <2>1. CASE rq' = [rq EXCEPT ![r] = Loaded(o, "replayOrder")]
    <3>1. /\ Continues(Loaded(o, "replayOrder")) /\ ~HoldsClaim(Loaded(o, "replayOrder"))
          /\ ~WritesPaid(Loaded(o, "replayOrder"))
      BY DEF Continues, HoldsClaim, WritesPaid, Loaded, Begin, Fulfilling
    <3>. QED  BY <2>1, <3>1, UpdateCalm
  <2>2. CASE Goto(r, "createIntent:stripe") \/ Goto(r, "idle")
    BY <1>1, <2>2, GotoCalm
  <2>. QED  BY <2>1, <2>2 DEF PersistOrder
<1>3. CASE UNCHANGED <<order, goods>>
  BY <1>2, <1>3, SameOrders, CalmSafe DEF Calm
<1>4. CASE order[o] = "none" /\ UNCHANGED goods /\ order' = [order EXCEPT ![o] = "PENDING"]
  BY <1>1, <1>2, <1>4, WriteCalm, CalmSafe DEF Calm, Ended
<1>5. CASE /\ order[o] = "none" /\ TakeStock(o) /\ restocked' = restocked
           /\ order' = [order EXCEPT ![o] = "CONFIRMED"]
  BY <1>1, <1>2, <1>5, SaleKeeps
<1>. QED  BY <1>2, <1>3, <1>4, <1>5 DEF PersistOrder, goods

LEMMA HandleEventKeeps ==
  ASSUME SInv, NEW h \in Hooks, NEW e \in events, HandleEvent(h, e)
  PROVE  CalmRequests /\ RestockInv' /\ ClaimInv' /\ ShelfInv'
<1>1. h \in Actors /\ e.o \in Orders
  BY DEF Actors, SInv, IInv, TypeOK
<1>2. CASE MarkSucceeded(h, e.o, RefundOrphan(e.o))
  BY <1>1, <1>2, MarkSucceededKeeps
<1>3. CASE UNCHANGED <<order, goods, rq>>
  <2>1. CalmRequests
    BY <1>3, SameCalm
  <2>. QED  BY <1>3, <2>1, SameOrders, CalmSafe DEF Calm
<1>4. CASE /\ rq' = [rq EXCEPT ![h] =
                      [Begin(e.o, "syncRefund:write") EXCEPT !.want = e.total]]
           /\ UNCHANGED <<order, goods>>
  <2>. DEFINE q == [Begin(e.o, "syncRefund:write") EXCEPT !.want = e.total]
  <2>1. Continues(q) /\ ~HoldsClaim(q) /\ ~WritesPaid(q)
    BY DEF Continues, HoldsClaim, WritesPaid, Begin, Fulfilling
  <2>2. CalmRequests
    BY <1>1, <1>4, <2>1, UpdateCalm
  <2>. QED  BY <1>4, <2>2, SameOrders, CalmSafe DEF Calm
<1>. QED  BY <1>2, <1>3, <1>4 DEF HandleEvent, MarkFailed

(* A step of a call, or a restart, starts no status write.                  *)
NoNewWrites == \A r \in Actors : WritesPaid(rq'[r]) => WritesPaid(rq[r])

LEMMA ProgressKeeps ==
  ASSUME SInv, ClaimsRunAlone, NEW r \in Actors, Progress(r) \/ Crash(r)
  PROVE  RestockInv' /\ ClaimInv' /\ ShelfInv' /\ NoNewWrites
<1>0. CalmRequests => NoNewWrites
  BY DEF CalmRequests, NoNewWrites
<1>1. CASE Calm
  BY <1>0, <1>1, CalmSafe DEF Calm
<1>2. CASE ReconcileSucceeded(r)
  <2>1. rq[r].o \in Orders
    BY <1>2, SafeCounts DEF ReconcileSucceeded, At
  <2>. QED  BY <1>0, <1>2, <2>1, MarkSucceededKeeps DEF ReconcileSucceeded
<1>3. CASE PersistOrder(r)
  BY <1>0, <1>3, PersistOrderKeeps
<1>4. CASE ClaimCancel(r)
  <2>1. NoNewWrites
    <3>1. CASE Goto(r, "idle")
      BY <3>1, SafeCounts, IdleCalm DEF Goto, NoNewWrites
    <3>2. CASE Goto(r, "cancelPaidOrder:payment")
      BY <3>2, SafeCounts DEF Goto, NoNewWrites, WritesPaid, RequestState
    <3>. QED  BY <1>4, <3>1, <3>2 DEF ClaimCancel
  <2>. QED  BY <1>4, <2>1, ClaimCancelKeeps
<1>5. CASE Restock(r)
  <2>1. Goto(r, "idle")
    BY <1>5 DEF Restock
  <2>2. NoNewWrites
    BY <2>1, SafeCounts, IdleCalm DEF Goto, NoNewWrites
  <2>. QED  BY <1>5, <2>2, RestockKeeps
<1>6. CASE Crash(r)
  <2>1. CalmRequests
    BY <1>6, IdleCalm, UpdateCalm DEF Crash, Goto
  <2>. QED  BY <1>1, <1>6, <2>1, SameOrders DEF Crash
<1>7. CASE PaymentStep(r)
  BY <1>1, <1>2, <1>7, PaymentCalm, ReadRefundableCalm, RecordRefundCalm, SyncRefundCalm
  DEF PaymentStep
<1>8. CASE OrderStep(r)
  BY <1>1, <1>3, <1>4, <1>5, <1>8, PaymentCalm, TransitionCalm, ShipCalm,
     RefundCancelledCalm, UndoCancelCalm DEF OrderStep
<1>. QED  BY <1>6, <1>7, <1>8 DEF Progress

-----------------------------------------------------------------------------
(* A client's call: what it read of an order is true when it reads it.      *)
LEMMA LoadRequest ==
  ASSUME SInv, NEW r \in Requests, NEW q, rq' = [rq EXCEPT ![r] = q],
         Continues(q), ~HoldsClaim(q),
         WritesPaid(q) => q.o \in Orders /\ order[q.o] \in Fulfilling
  PROVE  RequestsLoad /\ (~WritesPaid(q) => NoNewWrites)
<1>1. rq'[r] = q /\ \A s \in Actors : s # r => rq'[s] = rq[s]
  BY SafeCounts DEF Actors
<1>2. \A s \in Actors : Continues(rq[s])
  BY DEF SInv, ClaimInv
<1>. QED  BY <1>1, <1>2 DEF RequestsLoad, NoNewWrites

OnlyCancels == Targets \subseteq {"CANCELLED"} /\ "setTracking" \notin Calls

LEMMA RequestKeeps ==
  ASSUME SInv, NEW r \in Requests, NEW o \in Orders, Request(r, o)
  PROVE  RestockInv' /\ ClaimInv' /\ ShelfInv' /\ (OnlyCancels => NoNewWrites)
<1>1. UNCHANGED <<order, goods>>
  BY DEF Request, CreateOrder, GetOrder, CancelOrder, UpdateStatus, SetTracking, Refund
<1>2. SUFFICES RequestsLoad /\ (OnlyCancels => NoNewWrites)
  BY <1>1, CalmStep, ShelfUnchanged DEF CalmOrders, goods
<1>3. CASE CreateOrder(r, o)
  <2>1. /\ Continues(Loaded(o, "replayOrder")) /\ ~HoldsClaim(Loaded(o, "replayOrder"))
        /\ ~WritesPaid(Loaded(o, "replayOrder"))
        /\ Continues(Begin(o, "createOrder:persist"))
        /\ ~HoldsClaim(Begin(o, "createOrder:persist"))
        /\ ~WritesPaid(Begin(o, "createOrder:persist"))
    BY DEF Continues, HoldsClaim, WritesPaid, Loaded, Begin, Fulfilling
  <2>. QED  BY <1>3, <2>1, LoadRequest DEF CreateOrder
<1>4. CASE GetOrder(r, o)
  <2>1. /\ Continues(Begin(o, "reconcile:stripe")) /\ ~HoldsClaim(Begin(o, "reconcile:stripe"))
        /\ ~WritesPaid(Begin(o, "reconcile:stripe"))
    BY DEF Continues, HoldsClaim, WritesPaid, Begin, Fulfilling
  <2>. QED  BY <1>4, <2>1, LoadRequest DEF GetOrder
<1>5. CASE CancelUnpaid(r, o)
  <2>. DEFINE q == [Loaded(o, "cancelOpenIntent:find") EXCEPT !.ok = "transition",
                                                            !.next = "CANCELLED"]
  <2>1. Continues(q) /\ ~HoldsClaim(q) /\ ~WritesPaid(q)
    BY DEF Continues, HoldsClaim, WritesPaid, Loaded, Begin, Fulfilling
  <2>. QED  BY <1>5, <2>1, LoadRequest DEF CancelUnpaid
<1>6. CASE \E s \in Targets : UpdateStatus(r, o, s)
  <2>1. PICK s \in Targets : UpdateStatus(r, o, s)
    BY <1>6
  <2>2. CASE rq' = [rq EXCEPT ![r] = Loaded(o, "cancelPaidOrder:claim")]
    <3>. DEFINE q == Loaded(o, "cancelPaidOrder:claim")
    <3>1. Continues(q) /\ ~HoldsClaim(q) /\ ~WritesPaid(q)
      BY DEF Continues, HoldsClaim, WritesPaid, Loaded, Begin, Fulfilling
    <3>. QED  BY <2>2, <3>1, LoadRequest
  <2>3. CASE /\ canTransition(order[o], s) /\ s # "CANCELLED"
             /\ rq' = [rq EXCEPT ![r] = [Loaded(o, "transition") EXCEPT !.next = s]]
    <3>. DEFINE q == [Loaded(o, "transition") EXCEPT !.next = s]
    <3>1. s \in OrderStatus /\ order[o] \in OrderStatus \ {"none"} /\ ~OnlyCancels
      BY <2>1, <2>3, Constants, SafeCounts DEF UpdateStatus, ConstantAssumptions, OnlyCancels
    <3>2. s \in Fulfilling => order[o] \in Fulfilling
      BY <2>3, <3>1, TransitionFromPaid
    <3>3. Continues(q) /\ ~HoldsClaim(q) /\ q.o = o /\ q.next = s
      BY DEF Continues, HoldsClaim, Loaded, Begin
    <3>4. q.pc = "transition"
      BY DEF Loaded, Begin
    <3>. HIDE DEF q
    <3>5. WritesPaid(q) => q.o \in Orders /\ order[q.o] \in Fulfilling
      BY <3>2, <3>3, <3>4 DEF WritesPaid
    <3>6. RequestsLoad
      BY <2>3, <3>3, <3>5, LoadRequest DEF q
    <3>. QED  BY <3>1, <3>6
  <2>. QED  BY <1>5, <2>1, <2>2, <2>3, Zenon DEF UpdateStatus
<1>7. CASE "setTracking" \in Calls /\ SetTracking(r, o)
  <2>. DEFINE q == Loaded(o, "setTracking")
  <2>1. Continues(q) /\ ~HoldsClaim(q) /\ q.o = o
    BY DEF Continues, HoldsClaim, Loaded, Begin
  <2>2. order[o] \in Fulfilling
    BY <1>7 DEF SetTracking, SHIPPABLE, Fulfilling
  <2>3. ~OnlyCancels
    BY <1>7 DEF OnlyCancels
  <2>. QED  BY <1>7, <2>1, <2>2, <2>3, LoadRequest DEF SetTracking
<1>8. CASE \E a \in RefundAmounts \cup {0} : Refund(r, o, a)
  <2>1. PICK a : Refund(r, o, a)
    BY <1>8
  <2>. DEFINE q == [Begin(o, "processRefund:read") EXCEPT !.want = a]
  <2>2. Continues(q) /\ ~HoldsClaim(q) /\ ~WritesPaid(q)
    BY DEF Continues, HoldsClaim, WritesPaid, Begin, Fulfilling
  <2>. QED  BY <2>1, <2>2, LoadRequest DEF Refund
<1>. QED  BY <1>3, <1>4, <1>5, <1>6, <1>7, <1>8 DEF Request, CancelOrder

LEMMA StockInit == Init => SInv
<1>. SUFFICES ASSUME Init PROVE SInv
  OBVIOUS
<1>1. IInv
  BY InitSafe
<1>2. RestockInv /\ ClaimInv
  BY IdleCalm DEF Init, RestockInv, ClaimInv
<1>3. Kept = {}
  BY DEF Init, Kept
<1>4. ShelfInv
  <2>1. \A v \in Variants : SumFunctionOnSet(Needs(v), Kept) = 0 /\ stock[v] = InitialStock[v]
    BY <1>3, SumEmpty DEF Init
  <2>2. \A v \in Variants : InitialStock[v] \in Nat
    BY Constants DEF ConstantAssumptions
  <2>3. IsFiniteSet(Kept)
    BY <1>3, FS_EmptySet
  <2>. QED  BY <2>1, <2>2, <2>3 DEF ShelfInv
<1>. QED  BY <1>1, <1>2, <1>4 DEF SInv

LEMMA StockNext ==
  /\ SInv /\ ClaimsRunAlone /\ [Next]_vars => SInv'
  /\ SInv /\ ClaimsRunAlone /\ [Next]_vars /\ OnlyCancels => NoNewWrites
<1>. SUFFICES ASSUME SInv, ClaimsRunAlone, [Next]_vars
              PROVE  SInv' /\ (OnlyCancels => NoNewWrites)
  OBVIOUS
<1>0. IInv'
  BY NextSafe DEF SInv
<1>1. SUFFICES RestockInv' /\ ClaimInv' /\ ShelfInv' /\ (OnlyCancels => NoNewWrites)
  BY <1>0 DEF SInv
<1>2. CASE \E r \in Requests, o \in Orders : Request(r, o)
  BY <1>2, RequestKeeps
<1>3. CASE \E r \in Actors : Progress(r) \/ Crash(r)
  BY <1>3, ProgressKeeps
<1>4. CASE \E h \in Hooks, e \in events : HandleEvent(h, e)
  BY <1>4, HandleEventKeeps DEF CalmRequests, NoNewWrites
<1>5. CASE UNCHANGED <<order, goods, rq>>
  <2>1. CalmRequests
    BY <1>5, SameCalm
  <2>2. Calm
    BY <1>5, <2>1, SameOrders
  <2>. QED  BY <2>1, <2>2, CalmSafe DEF Calm, CalmRequests, NoNewWrites
<1>6. CASE \E o \in Orders : Outside(o)
  BY <1>5, <1>6 DEF Outside, Pay, Decline, DashboardRefund, DashboardCancel
<1>7. CASE UNCHANGED vars
  BY <1>5, <1>7 DEF vars, goods
<1>. QED  BY <1>2, <1>3, <1>4, <1>6, <1>7 DEF Next

(* The orders on their way have their units, and the rest is not negative.  *)
LEMMA StockIsEnough == SInv => NeverOversold /\ RestockedAtMostOnce
<1>. SUFFICES ASSUME SInv PROVE NeverOversold /\ RestockedAtMostOnce
  OBVIOUS
<1>1. RestockedAtMostOnce
  BY DEF SInv, RestockInv, RestockedAtMostOnce
<1>2. ASSUME NEW v \in Variants
      PROVE  Units({o \in Orders : order[o] \in Fulfilling}, v) <= InitialStock[v]
  <2>. DEFINE S == {o \in Orders : order[o] \in Fulfilling}
  <2>1. IsFiniteSet(Kept) /\ Kept \subseteq Orders
    BY DEF SInv, ShelfInv, Kept
  <2>2. S \subseteq Kept
    BY SafeCounts DEF Kept, SInv, RestockInv, Ended, Fulfilling
  <2>3. IsFiniteSet(S) /\ S \in SUBSET Orders
    BY <2>1, <2>2, FS_Subset
  <2>4. \A o \in Kept : Needs(v)[o] \in Nat
    BY <2>1, NeedsType
  <2>. HIDE DEF S
  <2>5. Units(S, v) = SumFunctionOnSet(Needs(v), S)
    BY <2>3, UnitsAreSums
  <2>6. /\ SumFunctionOnSet(Needs(v), S) <= SumFunctionOnSet(Needs(v), Kept)
        /\ SumFunctionOnSet(Needs(v), S) \in Nat
    BY <2>1, <2>2, <2>4, SumMonotone
  <2>7. Units(S, v) <= InitialStock[v]
    BY <2>5, <2>6, KeptSum
  <2>. QED  BY <2>7 DEF S
<1>. QED  BY <1>1, <1>2 DEF NeverOversold

(* The same unit is never promised twice, and a cancel never gives back     *)
(* more than its order took, as long as no admin's status change that was   *)
(* checked before a paid cancel of the same order is written after it.      *)
THEOREM StockIsNeverOversold ==
  Spec /\ []ClaimsRunAlone => [](NeverOversold /\ RestockedAtMostOnce)
<1>. QED  BY StockInit, StockNext, StockIsEnough, PTL DEF Spec

(* With admins who only cancel that is never in the way: however many       *)
(* checkouts, payments, cancels, refunds and restarts race for the last     *)
(* unit, it is promised once.                                               *)
NoWrites == \A r \in Actors : ~WritesPaid(rq[r])

THEOREM CancelsNeverOversell ==
  ASSUME OnlyCancels
  PROVE  Spec => [](NeverOversold /\ RestockedAtMostOnce)
<1>1. Init => NoWrites
  BY IdleCalm DEF Init, NoWrites
<1>2. NoWrites => ClaimsRunAlone
  BY DEF NoWrites, ClaimsRunAlone
<1>3. SInv /\ NoWrites /\ [Next]_vars => NoWrites'
  BY <1>2, StockNext DEF NoWrites, NoNewWrites
<1>. QED  BY <1>1, <1>2, <1>3, StockInit, StockNext, StockIsEnough, PTL DEF Spec
=============================================================================
