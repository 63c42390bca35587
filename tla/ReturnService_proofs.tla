------------------------ MODULE ReturnService_proofs ------------------------
(***************************************************************************)
(* Theorems about ReturnService, for every value of its constants: the     *)
(* units that returns claim, the units that go back on the shelf, and the  *)
(* money that refunds promise, however the calls interleave.               *)
(***************************************************************************)
EXTENDS ReturnService, SumLemmas

Assumptions ==
  /\ Amount \in [Orders -> Nat]
  /\ Quantity \in [Orders -> [Variants -> Nat]]
  /\ InitialStock \in [Variants -> Nat]
  /\ RefundAmounts \subseteq Nat \ {0}
  /\ Delivered \subseteq Orders
  /\ ReturnItems \subseteq [Variants -> Nat]
  /\ UnitPrice \in [Variants -> Nat] /\ Discount \in [Orders -> Nat]
  /\ IsFiniteSet(Orders) /\ IsFiniteSet(Variants) /\ IsFiniteSet(Returns)

LEMMA ConstantFacts == Assumptions
  BY AmountAssumption, QuantityAssumption, StockAssumption, RefundAssumption,
     DeliveredAssumption, ItemsAssumption, PriceAssumption, FiniteAssumption
  DEF Assumptions

-----------------------------------------------------------------------------
(* Where a call may be suspended: payments of the other orders arrive and   *)
(* are refunded, returns are filed, approved and rejected.                  *)
Loading == {"approveReturn:read", "approveReturn:claim", "rejectReturn:write"}

Refunding == {"processRefund:read", "processRefund:reserve", "processRefund:stripe",
              "processRefund:release", "processRefund:record"}

Settling == {"approveReturn:record", "approveReturn:undo"}

PlainCall ==
  [pc : {"idle", "requestReturn:insert", "syncRefund:write"} \cup Refunding,
   o : Orders \cup {"none"},
   st : {"none"}, next : {"none"}, want : Int, base : Int, amt : Nat,
   ok : {"idle"}, err : {"idle"}]

ApprovalCall ==
  [pc : (Loading \cup Refunding) \cup Settling, o : Orders \cup {"none"},
   st : {"none"}, next : {"none"}, want : Int, base : Int, amt : Nat,
   ok : {"approveReturn:record"}, err : {"approveReturn:undo"}, ret : Returns]

(* The locals of one request.                                               *)
LocalsOK(q) ==
  /\ q \in PlainCall \/ q \in ApprovalCall
  /\ q.pc # "idle" => q.o \in Orders
  /\ q.pc \in Refunding => q.want \in Nat

RequestsOK == rq \in [Actors -> PlainCall \cup ApprovalCall] /\ \A r \in Actors : LocalsOK(rq[r])

PaymentRow == [status : PaymentStatus, intentSaved : BOOLEAN, refunded : Int]

StripeRow == [intent : {"succeeded"}, refunded : Nat, keys : SUBSET (Int \X Int)]

ReturnRow == [status : ReturnStatus, o : Orders \cup {"none"},
              items : [Variants -> Nat], refund : Int]

TablesOK ==
  /\ order \in [Orders -> OrderStatus]
  /\ payment \in [Orders -> PaymentRow]
  /\ stock \in [Variants -> Nat]
  /\ stripe \in [Orders -> StripeRow]
  /\ sold \in [Orders -> {0, 1}]
  /\ returns \in [Returns -> ReturnRow]
  /\ \A x \in Returns : returns[x].status # "none" => returns[x].o \in Orders
  /\ \A o \in Orders : order[o] = "PENDING" => sold[o] = 0 /\ o \notin Delivered

EventsOK ==
  \A e \in events :
    e.type \in {"succeeded", "refunded"} /\ e.o \in Orders /\ e.total \in Nat

(* A call that handles a return handles one that was filed.                 *)
FiledOK ==
  \A r \in Actors : rq[r] \in ApprovalCall => returns[rq[r].ret].status # "none"

TypeInv == RequestsOK /\ TablesOK /\ EventsOK /\ FiledOK

-----------------------------------------------------------------------------
(* The money: what the requests under way have reserved and not yet moved.  *)
IsReserved(q, o) == q.pc \in {"processRefund:stripe", "processRefund:release"} /\ q.o = o

Reserving(o) == {r \in Actors : IsReserved(rq[r], o)}

Amounts == [r \in Actors |-> rq[r].amt]

Reserved(o) == SumFunctionOnSet(Amounts, Reserving(o))

ReserveInv ==
  \A o \in Orders :
    /\ IsFiniteSet(Reserving(o))
    /\ stripe[o].refunded + Reserved(o) <= payment[o].refunded

(* The goods: a call that restocked return x and may still undo it.         *)
HoldsReturn(q) == q.pc \in Settling \/ (q.pc \in Refunding /\ q.ok = "approveReturn:record")

InState(S) == {x \in Returns : returns[x].status \in S}

Approved == InState({"APPROVED"})

(* Back on the shelf (B) are the approved returns and some that were        *)
(* rejected after they were approved; whoever may undo a restock undoes one *)
(* of these, and nobody else undoes the same.                               *)
ShelfInv ==
  \E B \in SUBSET InState({"APPROVED", "REJECTED"}) :
    /\ Approved \subseteq B
    /\ \A v \in Variants : PutBack(v) = UnitsIn(B, v)
    /\ \A r \in Actors : HoldsReturn(rq[r]) => rq[r].ret \in B

OneHolder ==
  \A r, s \in Actors :
    HoldsReturn(rq[r]) /\ HoldsReturn(rq[s]) /\ rq[r].ret = rq[s].ret => r = s

RInv == TypeInv /\ ReturnsFitPurchase /\ ShelfInv /\ OneHolder

(* No event announces more money than Stripe has given back, so none that   *)
(* is delivered late overwrites the row.                                    *)
NothingToSync ==
  /\ \A e \in events : e.type = "refunded" => e.total <= stripe[e.o].refunded
  /\ \A r \in Actors : rq[r].pc # "syncRefund:write"

MInv == RInv /\ ReserveInv /\ NothingToSync

-----------------------------------------------------------------------------
(* The sums of the model are sums over functions of the returns and orders. *)
Items(rows, v) == [x \in Returns |-> rows[x].items[v]]

SoldUnits(s, v) == [o \in Orders |-> s[o] * Quantity[o][v]]

LEMMA ItemSums ==
  ASSUME NEW rows, NEW v, NEW X \in SUBSET Returns
  PROVE  (CHOOSE g : g = [s \in SUBSET X |->
                            IF s = {} THEN 0
                            ELSE rows[CHOOSE x \in s : TRUE].items[v]
                                   + g[s \ {CHOOSE x \in s : TRUE}]])[X]
           = SumFunctionOnSet(Items(rows, v), X)
<1>. DEFINE P(g) == g = [s \in SUBSET X |->
                           IF s = {} THEN 0
                           ELSE rows[CHOOSE x \in s : TRUE].items[v]
                                  + g[s \ {CHOOSE x \in s : TRUE}]]
            h == CHOOSE g : P(g)
<1>0. IsFiniteSet(X)
  BY ConstantFacts, FS_Subset DEF Assumptions
<1>1. ASSUME NEW g PROVE P(g) <=> AddsUp(g, Items(rows, v), SUBSET X)
  <2>1. \A s \in SUBSET X : s # {} =>
          Items(rows, v)[CHOOSE x \in s : TRUE] = rows[CHOOSE x \in s : TRUE].items[v]
    BY DEF Items
  <2>. QED  BY <2>1 DEF AddsUp, FirstOf
<1>2. \E g : P(g)
  BY <1>0, <1>1, SumsExist
<1>3. P(h)
  BY <1>2
<1>4. h[X] = SumFunctionOnSet(Items(rows, v), X)
  <2>. HIDE DEF h, P
  <2>. QED  BY <1>0, <1>1, <1>3, SumValue
<1>. QED  BY <1>4

LEMMA UnitsInSum ==
  ASSUME NEW v, NEW X \in SUBSET Returns
  PROVE  UnitsIn(X, v) = SumFunctionOnSet(Items(returns, v), X)
  BY ItemSums DEF UnitsIn, MapThenSumSet, MapThenFoldSet

LEMMA UnitsInSumNext ==
  ASSUME NEW v, NEW X \in SUBSET Returns
  PROVE  (UnitsIn(X, v))' = SumFunctionOnSet(Items(returns', v), X)
  BY ItemSums DEF UnitsIn, MapThenSumSet, MapThenFoldSet

LEMMA SoldSums ==
  ASSUME NEW d, NEW v
  PROVE  (CHOOSE g : g = [s \in SUBSET (Orders \ Delivered) |->
                            IF s = {} THEN 0
                            ELSE d[CHOOSE x \in s : TRUE] * Quantity[CHOOSE x \in s : TRUE][v]
                                   + g[s \ {CHOOSE x \in s : TRUE}]])[Orders \ Delivered]
           = SumFunctionOnSet(SoldUnits(d, v), Orders \ Delivered)
<1>. DEFINE X == Orders \ Delivered
            P(g) == g = [s \in SUBSET X |->
                           IF s = {} THEN 0
                           ELSE d[CHOOSE x \in s : TRUE] * Quantity[CHOOSE x \in s : TRUE][v]
                                  + g[s \ {CHOOSE x \in s : TRUE}]]
            h == CHOOSE g : P(g)
<1>0. IsFiniteSet(X)
  BY ConstantFacts, FS_Subset DEF Assumptions
<1>1. ASSUME NEW g PROVE P(g) <=> AddsUp(g, SoldUnits(d, v), SUBSET X)
  <2>1. \A s \in SUBSET X : s # {} =>
          SoldUnits(d, v)[CHOOSE x \in s : TRUE]
            = d[CHOOSE x \in s : TRUE] * Quantity[CHOOSE x \in s : TRUE][v]
    BY DEF SoldUnits
  <2>. QED  BY <2>1 DEF AddsUp, FirstOf
<1>2. \E g : P(g)
  <2>. HIDE DEF X, P
  <2>1. PICK g : AddsUp(g, SoldUnits(d, v), SUBSET X)
    BY <1>0, SumsExist
  <2>. QED  BY <1>1, <2>1
<1>3. P(h)
  BY <1>2
<1>4. h[X] = SumFunctionOnSet(SoldUnits(d, v), X)
  <2>. HIDE DEF h, P, X
  <2>. QED  BY <1>0, <1>1, <1>3, SumValue
<1>. QED  BY <1>4

LEMMA PutBackSum ==
  ASSUME NEW v
  PROVE  PutBack(v) = stock[v] - InitialStock[v]
                        + SumFunctionOnSet(SoldUnits(sold, v), Orders \ Delivered)
  BY SoldSums DEF PutBack, MapThenSumSet, MapThenFoldSet

LEMMA PutBackSumNext ==
  ASSUME NEW v
  PROVE  PutBack(v)' = stock'[v] - InitialStock[v]
                         + SumFunctionOnSet(SoldUnits(sold', v), Orders \ Delivered)
  BY SoldSums DEF PutBack, MapThenSumSet, MapThenFoldSet

-----------------------------------------------------------------------------
(* The locals of a request as it moves.                                     *)
LEMMA IdleOK ==
  /\ LocalsOK(Idle) /\ ~HoldsReturn(Idle) /\ \A o : ~IsReserved(Idle, o)
  /\ Idle.pc = "idle" /\ Idle \in PlainCall /\ Idle \notin ApprovalCall
  BY DEF LocalsOK, HoldsReturn, IsReserved, Idle, Begin, PlainCall, ApprovalCall, Loading,
     Refunding, Settling

LEMMA BeginOK ==
  ASSUME NEW o \in Orders, NEW pc \in {"requestReturn:insert", "processRefund:read"}
  PROVE  LocalsOK(Begin(o, pc)) /\ ~HoldsReturn(Begin(o, pc))
         /\ \A p : ~IsReserved(Begin(o, pc), p)
  BY DEF LocalsOK, HoldsReturn, IsReserved, Begin, PlainCall, Refunding, Settling

LEMMA TypedRequest ==
  ASSUME TypeInv, NEW r \in Actors
  PROVE  /\ rq[r] \in PlainCall \/ rq[r] \in ApprovalCall
         /\ rq[r].want \in Int /\ rq[r].base \in Int /\ rq[r].amt \in Nat
         /\ rq[r].pc # "idle" => rq[r].o \in Orders
         /\ rq[r].pc \in Refunding => rq[r].want \in Nat
         /\ LocalsOK(rq[r])
  BY DEF TypeInv, RequestsOK, LocalsOK, PlainCall, ApprovalCall

(* Only a call about a return has one, and goes on as one.                  *)
LEMMA CallKind ==
  ASSUME TypeInv, NEW r \in Actors
  PROVE  /\ rq[r].pc \in Loading \cup Settling => rq[r] \in ApprovalCall
         /\ HoldsReturn(rq[r]) => rq[r] \in ApprovalCall /\ rq[r].ret \in Returns
         /\ rq[r] \in ApprovalCall =>
              /\ rq[r].ret \in Returns /\ rq[r].pc # "idle"
              /\ rq[r].ok = "approveReturn:record" /\ rq[r].err = "approveReturn:undo"
         /\ rq[r] \in PlainCall => rq[r].ok = "idle" /\ rq[r].err = "idle"
<1>1. rq[r] \in PlainCall \/ rq[r] \in ApprovalCall
  BY TypedRequest
<1>2. CASE rq[r] \in PlainCall
  <2>1. /\ rq[r].pc \in {"idle", "requestReturn:insert", "syncRefund:write"} \cup Refunding
        /\ rq[r].ok = "idle" /\ rq[r].err = "idle"
    BY <1>2 DEF PlainCall
  <2>2. rq[r] \notin ApprovalCall
    BY <2>1 DEF ApprovalCall
  <2>. QED  BY <2>1, <2>2 DEF Loading, Settling, Refunding, HoldsReturn
<1>3. CASE rq[r] \in ApprovalCall
  <2>1. /\ rq[r].pc \in (Loading \cup Refunding) \cup Settling /\ rq[r].ret \in Returns
        /\ rq[r].ok = "approveReturn:record" /\ rq[r].err = "approveReturn:undo"
    BY <1>3 DEF ApprovalCall
  <2>2. rq[r] \notin PlainCall
    BY <2>1 DEF PlainCall
  <2>. QED  BY <1>3, <2>1, <2>2 DEF Loading, Settling, Refunding, HoldsReturn
<1>. QED  BY <1>1, <1>2, <1>3

LEMMA UpdateOK ==
  ASSUME TypeInv, NEW r \in Actors, NEW q, rq' = [rq EXCEPT ![r] = q], LocalsOK(q)
  PROVE  /\ RequestsOK'
         /\ rq'[r] = q /\ \A a \in Actors : a # r => rq'[a] = rq[a]
<1>1. rq \in [Actors -> PlainCall \cup ApprovalCall] /\ q \in PlainCall \cup ApprovalCall
  BY DEF TypeInv, RequestsOK, LocalsOK
<1>2. /\ rq' \in [Actors -> PlainCall \cup ApprovalCall]
      /\ rq'[r] = q /\ \A a \in Actors : a # r => rq'[a] = rq[a]
  BY <1>1
<1>. QED  BY <1>2 DEF TypeInv, RequestsOK

(* Only r moves, and it may not undo a return it could not undo before.     *)
Turn(r) ==
  /\ RequestsOK' /\ \A a \in Actors : a # r => rq'[a] = rq[a]
  /\ HoldsReturn(rq'[r]) => HoldsReturn(rq[r]) /\ rq'[r].ret = rq[r].ret

(* r goes on with the call it is in, or ends it.                            *)
SameCall(r) ==
  /\ Turn(r)
  /\ rq'[r] \in ApprovalCall => rq[r] \in ApprovalCall /\ rq'[r].ret = rq[r].ret

(* A refund goes on inside processRefund, or returns to its caller.         *)
LEMMA RefundMoves ==
  ASSUME TypeInv, NEW r \in Actors, rq[r].pc \in Refunding,
         NEW pc, Goto(r, pc),
         pc \in Refunding \/ pc = rq[r].ok \/ pc = rq[r].err
  PROVE  /\ RequestsOK'
         /\ \A a \in Actors : a # r => rq'[a] = rq[a]
         /\ rq'[r].pc = pc
         /\ pc # "idle" => rq'[r].amt = rq[r].amt
         /\ \A o : IsReserved(rq'[r], o) <=>
              rq[r].o = o /\ pc \in {"processRefund:stripe", "processRefund:release"}
         /\ SameCall(r)
         /\ rq'[r].amt \in Int
<1>. DEFINE q == [rq[r] EXCEPT !.pc = pc]
<1>1. CASE pc = "idle"
  <2>1. rq' = [rq EXCEPT ![r] = Idle]
    BY <1>1 DEF Goto
  <2>2. Idle.amt \in Int
    BY DEF Idle, Begin
  <2>. QED  BY <1>1, <2>1, <2>2, IdleOK, UpdateOK DEF SameCall, Turn
<1>2. CASE pc # "idle" /\ rq[r] \in PlainCall
  <2>1. rq[r].o \in Orders /\ pc \in Refunding /\ rq' = [rq EXCEPT ![r] = q]
    BY <1>2, TypedRequest, CallKind DEF Goto, Refunding
  <2>2. /\ q \in PlainCall /\ q.pc = pc /\ q.o = rq[r].o /\ q.amt = rq[r].amt
        /\ q.want = rq[r].want /\ q.ok = "idle"
    BY <1>2, <2>1 DEF PlainCall
  <2>. HIDE DEF q
  <2>3. LocalsOK(q) /\ ~HoldsReturn(q) /\ q.amt \in Int
    BY <2>1, <2>2, TypedRequest DEF LocalsOK, HoldsReturn, Refunding, Settling
  <2>4. \A o : IsReserved(q, o) <=>
          rq[r].o = o /\ pc \in {"processRefund:stripe", "processRefund:release"}
    BY <2>2 DEF IsReserved
  <2>5. rq'[r] = q /\ RequestsOK' /\ \A a \in Actors : a # r => rq'[a] = rq[a]
    BY <2>1, <2>3, UpdateOK
  <2>6. q \notin ApprovalCall
    BY <2>2 DEF ApprovalCall
  <2>. QED  BY <1>2, <2>2, <2>3, <2>4, <2>5, <2>6 DEF SameCall, Turn
<1>3. CASE pc # "idle" /\ rq[r] \in ApprovalCall
  <2>1. rq[r].o \in Orders /\ pc \in Refunding \cup Settling /\ rq' = [rq EXCEPT ![r] = q]
    BY <1>3, TypedRequest, CallKind DEF Goto, Refunding, Settling
  <2>2. /\ q \in ApprovalCall /\ q.pc = pc /\ q.o = rq[r].o /\ q.amt = rq[r].amt
        /\ q.want = rq[r].want /\ q.ret = rq[r].ret
    BY <1>3, <2>1 DEF ApprovalCall
  <2>3. HoldsReturn(rq[r])
    BY <1>3, CallKind DEF HoldsReturn
  <2>. HIDE DEF q
  <2>4. LocalsOK(q) /\ q.amt \in Int
    BY <2>1, <2>2, TypedRequest DEF LocalsOK, Refunding, Settling
  <2>5. \A o : IsReserved(q, o) <=>
          rq[r].o = o /\ pc \in {"processRefund:stripe", "processRefund:release"}
    BY <2>2 DEF IsReserved
  <2>6. rq'[r] = q /\ RequestsOK' /\ \A a \in Actors : a # r => rq'[a] = rq[a]
    BY <2>1, <2>4, UpdateOK
  <2>. QED  BY <1>3, <2>2, <2>3, <2>4, <2>5, <2>6 DEF SameCall, Turn
<1>. QED  BY <1>1, <1>2, <1>3, TypedRequest

LEMMA GotoIdle ==
  ASSUME TypeInv, NEW r \in Actors, Goto(r, "idle")
  PROVE  rq'[r] = Idle /\ SameCall(r)
<1>1. rq' = [rq EXCEPT ![r] = Idle]
  BY DEF Goto
<1>. QED  BY <1>1, IdleOK, UpdateOK DEF SameCall, Turn

(* A call that is about no return begins.                                   *)
LEMMA PlainTurn ==
  ASSUME TypeInv, NEW r \in Actors, NEW q, rq' = [rq EXCEPT ![r] = q],
         LocalsOK(q), q \in PlainCall
  PROVE  rq'[r] = q /\ SameCall(r)
<1>1. /\ q.pc \in {"idle", "requestReturn:insert", "syncRefund:write"} \cup Refunding
      /\ q.ok = "idle"
  BY DEF PlainCall
<1>2. q \notin ApprovalCall /\ ~HoldsReturn(q)
  BY <1>1 DEF ApprovalCall, HoldsReturn, Refunding, Settling
<1>. QED  BY <1>2, UpdateOK DEF SameCall, Turn

-----------------------------------------------------------------------------
(* What requests reserve, with one request r that moves taken apart.        *)
LEMMA ReservedByOthers ==
  ASSUME MInv, NEW r \in Actors, RequestsOK', \A a \in Actors : a # r => rq'[a] = rq[a],
         NEW o \in Orders
  PROVE  \E rest \in Nat :
           /\ Reserved(o) = rest + (IF IsReserved(rq[r], o) THEN rq[r].amt ELSE 0)
           /\ Reserved(o)' = rest + (IF IsReserved(rq'[r], o) THEN rq'[r].amt ELSE 0)
           /\ IsFiniteSet(Reserving(o)')
<1>. DEFINE R == Reserving(o) \ {r}
            rest == SumFunctionOnSet(Amounts, R)
<1>1. IsFiniteSet(Reserving(o)) /\ IsFiniteSet(R) /\ r \notin R
  BY FS_RemoveElement DEF MInv, ReserveInv
<1>2. \A a \in Reserving(o) : Amounts[a] \in Nat /\ a \in Actors
  BY TypedRequest DEF MInv, RInv, Reserving, IsReserved, Amounts, Refunding
<1>3. rest \in Nat
  BY <1>1, <1>2, SumMonotone
<1>4. \A a \in R : Amounts'[a] = Amounts[a] /\ Amounts[a] \in Int
  BY <1>2 DEF Amounts
<1>5. SumFunctionOnSet(Amounts', R) = rest
  BY <1>1, <1>4, SumSame
<1>6. Amounts[r] = rq[r].amt /\ Amounts'[r] = rq'[r].amt /\ rq[r].amt \in Int
  BY TypedRequest DEF Amounts, MInv, RInv
<1>7. rq'[r].amt \in Int
  BY DEF RequestsOK, PlainCall, ApprovalCall
<1>8. Reserved(o) = rest + (IF IsReserved(rq[r], o) THEN rq[r].amt ELSE 0)
  <2>1. CASE IsReserved(rq[r], o)
    <3>1. Reserving(o) = R \cup {r}
      BY <2>1 DEF Reserving
    <3>2. \A a \in R \cup {r} : Amounts[a] \in Int
      BY <1>4, <1>6
    <3>3. SumFunctionOnSet(Amounts, R \cup {r}) = rest + Amounts[r]
      BY <1>1, <3>2, SumAdd
    <3>. QED  BY <1>6, <2>1, <3>1, <3>3 DEF Reserved
  <2>2. CASE ~IsReserved(rq[r], o)
    <3>1. Reserving(o) = R
      BY <2>2 DEF Reserving
    <3>. HIDE DEF R
    <3>. QED  BY <1>3, <2>2, <3>1 DEF Reserved
  <2>. QED  BY <2>1, <2>2
<1>9. /\ Reserved(o)' = rest + (IF IsReserved(rq'[r], o) THEN rq'[r].amt ELSE 0)
      /\ IsFiniteSet(Reserving(o)')
  <2>0. \A a \in Actors : a # r => (a \in Reserving(o)' <=> a \in R)
    BY DEF Reserving
  <2>1. CASE IsReserved(rq'[r], o)
    <3>1. Reserving(o)' = R \cup {r}
      BY <2>0, <2>1 DEF Reserving
    <3>2. \A a \in R \cup {r} : Amounts'[a] \in Int
      BY <1>4, <1>6, <1>7
    <3>3. SumFunctionOnSet(Amounts', R \cup {r}) = SumFunctionOnSet(Amounts', R) + Amounts'[r]
      BY <1>1, <3>2, SumAdd
    <3>4. IsFiniteSet(R \cup {r})
      BY <1>1, FS_AddElement
    <3>. QED  BY <1>5, <1>6, <2>1, <3>1, <3>3, <3>4 DEF Reserved
  <2>2. CASE ~IsReserved(rq'[r], o)
    <3>1. Reserving(o)' = R
      BY <2>0, <2>2 DEF Reserving
    <3>. HIDE DEF R
    <3>. QED  BY <1>1, <1>3, <1>5, <2>2, <3>1 DEF Reserved
  <2>. QED  BY <2>1, <2>2
<1>. HIDE DEF rest
<1>. QED  BY <1>3, <1>8, <1>9

LEMMA MoneyTypes ==
  ASSUME RInv, NEW o \in Orders
  PROVE  /\ payment[o] \in PaymentRow /\ payment[o].refunded \in Int
         /\ stripe[o] \in StripeRow /\ stripe[o].refunded \in Nat
         /\ Amount[o] \in Nat
  BY ConstantFacts DEF RInv, TypeInv, TablesOK, PaymentRow, StripeRow, Assumptions

Held(q, o) == IF IsReserved(q, o) THEN q.amt ELSE 0

LEMMA HeldType ==
  ASSUME RequestsOK, NEW r \in Actors, NEW o
  PROVE  Held(rq[r], o) \in Nat
  BY DEF Held, RequestsOK, PlainCall, ApprovalCall

(* Whatever Stripe gives back, or a request reserves, the row has counted.  *)
LEMMA ReserveMoves ==
  ASSUME MInv, NEW r \in Actors, RequestsOK', \A a \in Actors : a # r => rq'[a] = rq[a],
         \A o \in Orders :
           /\ payment'[o].refunded \in Int /\ stripe'[o].refunded \in Int
           /\ stripe'[o].refunded + Held(rq'[r], o) - payment'[o].refunded
                <= stripe[o].refunded + Held(rq[r], o) - payment[o].refunded
  PROVE  ReserveInv'
<1>. SUFFICES ASSUME NEW o \in Orders
     PROVE  /\ IsFiniteSet(Reserving(o)')
            /\ stripe'[o].refunded + Reserved(o)' <= payment'[o].refunded
  BY DEF ReserveInv
<1>1. PICK rest \in Nat :
        /\ Reserved(o) = rest + Held(rq[r], o)
        /\ Reserved(o)' = rest + Held(rq'[r], o)
        /\ IsFiniteSet(Reserving(o)')
  BY ReservedByOthers DEF Held
<1>2. stripe[o].refunded + Reserved(o) <= payment[o].refunded
  BY DEF MInv, ReserveInv
<1>3. Held(rq[r], o) \in Nat
  BY HeldType DEF MInv, RInv, TypeInv
<1>4. Held(rq'[r], o) \in Nat
  BY DEF Held, RequestsOK, PlainCall, ApprovalCall
<1>5. stripe[o].refunded \in Nat /\ payment[o].refunded \in Int
  BY MoneyTypes DEF MInv
<1>. QED  BY <1>1, <1>2, <1>3, <1>4, <1>5

(* A step that moves no money and reserves none.                            *)
LEMMA MoneyCalm ==
  ASSUME MInv, NEW r \in Actors, RequestsOK', \A a \in Actors : a # r => rq'[a] = rq[a],
         rq'[r].pc \notin {"processRefund:stripe", "processRefund:release", "syncRefund:write"},
         \A o \in Orders : payment'[o].refunded = payment[o].refunded,
         UNCHANGED <<stripe, events>>
  PROVE  ReserveInv' /\ NothingToSync'
<1>1. NothingToSync'
  BY DEF MInv, NothingToSync
<1>2. ASSUME NEW o \in Orders
      PROVE  /\ payment'[o].refunded \in Int /\ stripe'[o].refunded \in Int
             /\ stripe'[o].refunded + Held(rq'[r], o) - payment'[o].refunded
                  <= stripe[o].refunded + Held(rq[r], o) - payment[o].refunded
  <2>1. Held(rq[r], o) \in Nat
    BY HeldType DEF MInv, RInv, TypeInv
  <2>2. Held(rq'[r], o) = 0
    BY DEF Held, IsReserved
  <2>3. stripe[o].refunded \in Nat /\ payment[o].refunded \in Int
    BY MoneyTypes DEF MInv
  <2>. QED  BY <2>1, <2>2, <2>3
<1>3. ReserveInv'
  BY <1>2, ReserveMoves
<1>. QED  BY <1>1, <1>3

-----------------------------------------------------------------------------
(* The returns of o that count against what was bought.                     *)
Counted(o) == {x \in CountsAgainst(o) : returns[x].status # "none"}

LEMMA FitIsSum ==
  ASSUME NEW o, NEW v
  PROVE  /\ UnitsIn(Counted(o), v) = SumFunctionOnSet(Items(returns, v), Counted(o))
         /\ (UnitsIn(Counted(o), v))' = SumFunctionOnSet(Items(returns', v), Counted(o)')
<1>1. Counted(o) \in SUBSET Returns /\ Counted(o)' \in SUBSET Returns
  BY DEF Counted, CountsAgainst
<1>2. UnitsIn(Counted(o), v) = SumFunctionOnSet(Items(returns, v), Counted(o))
  BY <1>1, UnitsInSum
<1>3. (UnitsIn(Counted(o), v))' = SumFunctionOnSet(Items(returns', v), Counted(o)')
  BY <1>1, ItemSums DEF UnitsIn, MapThenSumSet, MapThenFoldSet
<1>. QED  BY <1>2, <1>3

LEMMA ItemTypes ==
  ASSUME TypeInv, NEW v \in Variants, NEW x \in Returns
  PROVE  returns[x].items[v] \in Nat /\ Items(returns, v)[x] = returns[x].items[v]
  BY DEF TypeInv, TablesOK, ReturnRow, Items

(* A step that files nothing and revives nothing.                           *)
LEMMA FitShrinks ==
  ASSUME RInv, \A x \in Returns : returns'[x].items = returns[x].items,
         \A o \in Delivered : Counted(o)' \subseteq Counted(o)
  PROVE  ReturnsFitPurchase'
<1>. SUFFICES ASSUME NEW o \in Delivered, NEW v \in Variants
     PROVE  (UnitsIn(Counted(o), v))' <= Quantity[o][v]
  BY DEF ReturnsFitPurchase, Counted
<1>1. UnitsIn(Counted(o), v) <= Quantity[o][v]
  BY DEF RInv, ReturnsFitPurchase, Counted
<1>2. /\ IsFiniteSet(Counted(o)) /\ Counted(o)' \subseteq Counted(o) /\ Counted(o) \subseteq Returns
      /\ IsFiniteSet(Counted(o)')
  <2>1. Counted(o) \subseteq Returns /\ Counted(o)' \subseteq Returns
    BY DEF Counted, CountsAgainst
  <2>. QED  BY <2>1, ConstantFacts, FS_Subset DEF Assumptions
<1>3. \A x \in Counted(o) : Items(returns, v)[x] \in Nat
  BY <1>2, ItemTypes DEF RInv
<1>4. \A x \in Counted(o)' : Items(returns', v)[x] = Items(returns, v)[x]
  BY <1>2 DEF Items
<1>5. SumFunctionOnSet(Items(returns', v), Counted(o)')
        = SumFunctionOnSet(Items(returns, v), Counted(o)')
  BY <1>2, <1>4, SumSame
<1>6. /\ SumFunctionOnSet(Items(returns, v), Counted(o)')
           <= SumFunctionOnSet(Items(returns, v), Counted(o))
      /\ SumFunctionOnSet(Items(returns, v), Counted(o)') \in Nat
      /\ SumFunctionOnSet(Items(returns, v), Counted(o)) \in Nat
  BY <1>2, <1>3, SumMonotone
<1>7. Quantity[o][v] \in Nat
  BY ConstantFacts DEF Assumptions
<1>. QED  BY <1>1, <1>5, <1>6, <1>7, FitIsSum

LEMMA FitSame ==
  ASSUME RInv, UNCHANGED returns
  PROVE  ReturnsFitPurchase'
<1>1. \A o : Counted(o)' = Counted(o)
  BY DEF Counted, CountsAgainst
<1>. QED  BY <1>1, FitShrinks

-----------------------------------------------------------------------------
(* The shelf after a step, with C back on it.                               *)
LEMMA ShelfStep ==
  ASSUME NEW C \in SUBSET Returns, C \subseteq InState({"APPROVED", "REJECTED"})',
         Approved' \subseteq C,
         \A v \in Variants : PutBack(v)' = SumFunctionOnSet(Items(returns', v), C),
         \A a \in Actors : HoldsReturn(rq'[a]) => rq'[a].ret \in C
  PROVE  ShelfInv'
<1>1. \A v \in Variants : PutBack(v)' = (UnitsIn(C, v))'
  BY UnitsInSumNext
<1>. QED  BY <1>1 DEF ShelfInv

LEMMA ShelfTypes ==
  ASSUME RInv, NEW v \in Variants
  PROVE  /\ stock[v] \in Nat /\ InitialStock[v] \in Nat
         /\ SumFunctionOnSet(SoldUnits(sold, v), Orders \ Delivered) \in Int
<1>1. \A o \in Orders : SoldUnits(sold, v)[o] \in Int
  BY ConstantFacts DEF RInv, TypeInv, TablesOK, SoldUnits, Assumptions
<1>2. IsFiniteSet(Orders \ Delivered)
  BY ConstantFacts, FS_Subset DEF Assumptions
<1>3. SumFunctionOnSet(SoldUnits(sold, v), Orders \ Delivered) \in Int
  BY <1>1, <1>2, SumRemove
<1>4. stock[v] \in Nat /\ InitialStock[v] \in Nat
  BY ConstantFacts DEF RInv, TypeInv, TablesOK, Assumptions
<1>. QED  BY <1>3, <1>4

(* Without a sale, PutBack moves with the stock.                            *)
LEMMA PutBackMoves ==
  ASSUME RInv, UNCHANGED sold, NEW v \in Variants, stock'[v] \in Int
  PROVE  PutBack(v)' = PutBack(v) + (stock'[v] - stock[v]) /\ PutBack(v) \in Int
<1>. DEFINE T == SumFunctionOnSet(SoldUnits(sold, v), Orders \ Delivered)
<1>1. T \in Int /\ stock[v] \in Nat /\ InitialStock[v] \in Nat
  BY ShelfTypes
<1>2. PutBack(v) = stock[v] - InitialStock[v] + T
  BY PutBackSum
<1>3. PutBack(v)' = stock'[v] - InitialStock[v] + T
  BY PutBackSumNext
<1>. HIDE DEF T
<1>. QED  BY <1>1, <1>2, <1>3

(* A sale takes its own units and no return's.                              *)
LEMMA PutBackSale ==
  ASSUME RInv, NEW o \in Orders \ Delivered, sold[o] = 0, TakeStock(o), NEW v \in Variants
  PROVE  PutBack(v)' = PutBack(v)
<1>. DEFINE S == Orders \ Delivered
            f == SoldUnits(sold, v)
            e == SoldUnits(sold', v)
<1>1. sold' = [sold EXCEPT ![o] = 1] /\ sold \in [Orders -> {0, 1}]
  BY DEF TakeStock, RInv, TypeInv, TablesOK
<1>2. /\ \A p \in S : f[p] \in Int /\ e[p] \in Int
      /\ \A p \in S : p # o => e[p] = f[p]
      /\ f[o] = 0 /\ e[o] = Quantity[o][v] /\ Quantity[o][v] \in Nat
  <2>1. \A p \in Orders : Quantity[p][v] \in Nat
    BY ConstantFacts DEF Assumptions
  <2>2. \A p \in Orders : sold[p] \in {0, 1} /\ sold'[p] \in {0, 1}
    BY <1>1
  <2>3. \A p \in Orders : f[p] = sold[p] * Quantity[p][v] /\ e[p] = sold'[p] * Quantity[p][v]
    BY DEF SoldUnits
  <2>4. sold'[o] = 1 /\ \A p \in S : p # o => sold'[p] = sold[p]
    BY <1>1
  <2>. HIDE DEF f, e
  <2>. QED  BY <2>1, <2>2, <2>3, <2>4
<1>3. IsFiniteSet(S) /\ o \in S
  BY ConstantFacts, FS_Subset DEF Assumptions
<1>. HIDE DEF S, f, e
<1>4. SumFunctionOnSet(e, S) = SumFunctionOnSet(f, S) - f[o] + e[o]
  BY <1>2, <1>3, SumUpdate
<1>5. SumFunctionOnSet(f, S) \in Int
  BY <1>2, <1>3, SumRemove
<1>6. SumFunctionOnSet(e, S) = SumFunctionOnSet(f, S) + Quantity[o][v]
  BY <1>2, <1>4, <1>5
<1>7. stock'[v] = stock[v] - Quantity[o][v] /\ stock[v] \in Nat /\ InitialStock[v] \in Nat
  BY ShelfTypes DEF TakeStock
<1>8. PutBack(v) = stock[v] - InitialStock[v] + SumFunctionOnSet(f, S)
  BY PutBackSum DEF S, f
<1>9. PutBack(v)' = stock'[v] - InitialStock[v] + SumFunctionOnSet(e, S)
  BY PutBackSumNext DEF S, e
<1>. QED  BY <1>2, <1>5, <1>6, <1>7, <1>8, <1>9

-----------------------------------------------------------------------------
(* What a step keeps of the returns.                                        *)
LEMMA FiledKept ==
  ASSUME RInv, NEW r \in Actors, Turn(r),
         rq'[r] \in ApprovalCall => returns'[rq'[r].ret].status # "none",
         \A x \in Returns : returns[x].status # "none" => returns'[x].status # "none"
  PROVE  FiledOK'
  BY CallKind DEF RInv, TypeInv, FiledOK, Turn

LEMMA SameCallFiled ==
  ASSUME RInv, NEW r \in Actors, SameCall(r),
         \A x \in Returns : returns[x].status # "none" => returns'[x].status # "none"
  PROVE  FiledOK'
<1>1. rq'[r] \in ApprovalCall => returns'[rq'[r].ret].status # "none"
  BY CallKind DEF RInv, TypeInv, FiledOK, SameCall
<1>. QED  BY <1>1, FiledKept DEF SameCall

LEMMA FitKept ==
  ASSUME RInv,
         \A x \in Returns :
           /\ returns'[x].items = returns[x].items /\ returns'[x].o = returns[x].o
           /\ returns'[x].status \notin {"none", "REJECTED"} =>
                returns[x].status \notin {"none", "REJECTED"}
  PROVE  ReturnsFitPurchase'
<1>1. \A o : Counted(o)' \subseteq Counted(o)
  BY DEF Counted, CountsAgainst
<1>. QED  BY <1>1, FitShrinks

LEMMA ShelfKept ==
  ASSUME RInv, NEW r \in Actors, Turn(r),
         \A x \in InState({"APPROVED", "REJECTED"}) :
           returns'[x].items = returns[x].items /\ returns'[x].status \in {"APPROVED", "REJECTED"},
         \A x \in Returns : returns'[x].status = "APPROVED" => returns[x].status = "APPROVED",
         \A v \in Variants : PutBack(v)' = PutBack(v)
  PROVE  ShelfInv' /\ OneHolder'
<1>1. PICK B \in SUBSET InState({"APPROVED", "REJECTED"}) :
        /\ Approved \subseteq B
        /\ \A v \in Variants : PutBack(v) = UnitsIn(B, v)
        /\ \A a \in Actors : HoldsReturn(rq[a]) => rq[a].ret \in B
  BY DEF RInv, ShelfInv
<1>2. /\ B \in SUBSET Returns /\ B \subseteq InState({"APPROVED", "REJECTED"})'
      /\ Approved' \subseteq B
  BY <1>1 DEF InState, Approved
<1>3. ASSUME NEW v \in Variants PROVE PutBack(v)' = SumFunctionOnSet(Items(returns', v), B)
  <2>1. IsFiniteSet(B)
    BY <1>2, ConstantFacts, FS_Subset DEF Assumptions
  <2>2. \A x \in B : Items(returns, v)[x] = Items(returns', v)[x]
    BY <1>1, <1>2 DEF Items
  <2>3. SumFunctionOnSet(Items(returns, v), B) = SumFunctionOnSet(Items(returns', v), B)
    BY <2>1, <2>2, SumSame
  <2>. QED  BY <1>1, <1>2, <2>3, UnitsInSum
<1>4. \A a \in Actors : HoldsReturn(rq'[a]) => HoldsReturn(rq[a]) /\ rq'[a].ret = rq[a].ret
  BY DEF Turn
<1>5. ShelfInv'
  BY <1>1, <1>2, <1>3, <1>4, ShelfStep
<1>6. OneHolder'
  BY <1>4 DEF RInv, OneHolder
<1>. QED  BY <1>5, <1>6

(* A step that only moves r.                                                *)
LEMMA Calm ==
  ASSUME RInv, NEW r \in Actors, Turn(r),
         rq'[r] \in ApprovalCall => returns'[rq'[r].ret].status # "none",
         UNCHANGED <<order, payment, stock, stripe, events, sold, returns>>
  PROVE  RInv'
<1>1. TablesOK' /\ EventsOK'
  BY DEF RInv, TypeInv, TablesOK, EventsOK
<1>2. FiledOK'
  BY FiledKept
<1>3. ReturnsFitPurchase'
  BY FitSame
<1>4. ShelfInv' /\ OneHolder'
  <2>1. \A v \in Variants : PutBack(v)' = PutBack(v)
    BY PutBackSum, PutBackSumNext
  <2>. QED  BY <2>1, ShelfKept DEF InState
<1>. QED  BY <1>1, <1>2, <1>3, <1>4 DEF RInv, TypeInv, Turn

LEMMA CalmCall ==
  ASSUME RInv, NEW r \in Actors, SameCall(r),
         UNCHANGED <<order, payment, stock, stripe, events, sold, returns>>
  PROVE  RInv'
<1>1. rq'[r] \in ApprovalCall => returns'[rq'[r].ret].status # "none"
  BY CallKind DEF RInv, TypeInv, FiledOK, SameCall
<1>. QED  BY <1>1, Calm DEF SameCall

(* A step that also writes the tables of the payment, and sells nothing.    *)
LEMMA CalmTables ==
  ASSUME RInv, NEW r \in Actors, SameCall(r), TablesOK', EventsOK',
         UNCHANGED <<stock, sold, returns>>
  PROVE  RInv'
<1>1. FiledOK'
  BY SameCallFiled
<1>2. ReturnsFitPurchase'
  BY FitSame
<1>3. ShelfInv' /\ OneHolder'
  <2>1. \A v \in Variants : PutBack(v)' = PutBack(v)
    BY PutBackSum, PutBackSumNext
  <2>. QED  BY <2>1, ShelfKept DEF InState, SameCall
<1>. QED  BY <1>1, <1>2, <1>3 DEF RInv, TypeInv, Turn, SameCall

-----------------------------------------------------------------------------
(* The calls of a customer and of an admin.                                 *)
LEMMA RequestReturnStep ==
  ASSUME RInv, NEW r \in Actors, NEW o \in Delivered, RequestReturn(r, o)
  PROVE  RInv' /\ SameCall(r) /\ rq'[r].pc = "requestReturn:insert"
<1>1. o \in Orders
  BY ConstantFacts DEF Assumptions
<1>2. /\ LocalsOK(Begin(o, "requestReturn:insert"))
      /\ Begin(o, "requestReturn:insert") \in PlainCall
  <2>1. LocalsOK(Begin(o, "requestReturn:insert"))
    BY <1>1, BeginOK
  <2>2. Begin(o, "requestReturn:insert") \in PlainCall
    BY <1>1 DEF Begin, PlainCall
  <2>. QED  BY <2>1, <2>2
<1>3. SameCall(r) /\ rq'[r] = Begin(o, "requestReturn:insert")
  BY <1>2, PlainTurn DEF RequestReturn, RInv
<1>. QED  BY <1>3, CalmCall DEF RequestReturn, goods, Begin

LEMMA RefundStep ==
  ASSUME RInv, NEW r \in Actors, NEW o \in Delivered, NEW a \in RefundAmounts \cup {0},
         Refund(r, o, a), UNCHANGED returns
  PROVE  RInv' /\ SameCall(r) /\ rq'[r].pc = "processRefund:read"
<1>. DEFINE q == [Begin(o, "processRefund:read") EXCEPT !.want = a]
<1>1. o \in Orders /\ a \in Nat
  BY ConstantFacts DEF Assumptions
<1>2. LocalsOK(q) /\ q \in PlainCall /\ q.pc = "processRefund:read"
  BY <1>1 DEF Begin, PlainCall, LocalsOK, Refunding
<1>3. SameCall(r) /\ rq'[r] = q
  BY <1>2, PlainTurn DEF Refund, RInv
<1>. QED  BY <1>2, <1>3, CalmCall DEF Refund, goods

LEMMA ReturnCallStep ==
  ASSUME RInv, NEW r \in Actors, NEW x \in Returns, returns[x].status # "none",
         NEW pc \in {"approveReturn:read", "rejectReturn:write"},
         rq' = [rq EXCEPT ![r] = ReturnCall(x, pc)],
         UNCHANGED <<order, payment, stock, stripe, events, sold, returns>>
  PROVE  RInv' /\ Turn(r) /\ rq'[r].pc = pc
<1>. DEFINE q == ReturnCall(x, pc)
<1>1. returns[x].o \in Orders
  BY DEF RInv, TypeInv, TablesOK
<1>2. q.pc = pc /\ q.o = returns[x].o /\ q.ret = x /\ q \in ApprovalCall
  BY <1>1 DEF ReturnCall, ApprovalCall, Loading
<1>. HIDE DEF q
<1>3. LocalsOK(q) /\ ~HoldsReturn(q)
  BY <1>1, <1>2 DEF LocalsOK, HoldsReturn, Refunding, Settling
<1>4. Turn(r) /\ rq'[r] = q
  BY <1>3, UpdateOK DEF RInv, Turn, q
<1>. QED  BY <1>2, <1>4, Calm

LEMMA ReadReturnRefundMove ==
  ASSUME RInv, NEW r \in Actors, At(r, "approveReturn:read"), NEW want \in Int,
         rq' = [rq EXCEPT ![r].pc = "approveReturn:claim", ![r].want = want],
         UNCHANGED <<order, payment, stock, stripe, events, sold, returns>>
  PROVE  RInv' /\ Turn(r) /\ rq'[r].pc = "approveReturn:claim"
<1>. DEFINE q == [[rq[r] EXCEPT !.pc = "approveReturn:claim"] EXCEPT !.want = want]
<1>1. rq[r] \in ApprovalCall /\ rq[r].o \in Orders
  BY CallKind, TypedRequest DEF At, Loading, RInv
<1>2. q \in ApprovalCall /\ q.pc = "approveReturn:claim" /\ q.o = rq[r].o /\ q.ret = rq[r].ret
  BY <1>1 DEF ApprovalCall, Loading
<1>3. rq' = [rq EXCEPT ![r] = q]
  BY DEF RInv, TypeInv, RequestsOK
<1>. HIDE DEF q
<1>4. LocalsOK(q) /\ ~HoldsReturn(q)
  BY <1>1, <1>2 DEF LocalsOK, HoldsReturn, Refunding, Settling
<1>5. SameCall(r) /\ rq'[r] = q
  BY <1>1, <1>2, <1>3, <1>4, UpdateOK DEF RInv, Turn, SameCall
<1>. QED  BY <1>2, <1>5, CalmCall DEF SameCall

(* A return is filed only when what was bought covers it.                   *)
LEMMA InsertReturnStep ==
  ASSUME RInv, NEW r \in Actors, InsertReturn(r)
  PROVE  RInv' /\ SameCall(r) /\ rq'[r] = Idle
<1>. DEFINE o == rq[r].o
            free == {x \in Returns : returns[x].status = "none"}
<1>1. rq'[r] = Idle /\ SameCall(r) /\ o \in Orders
  BY GotoIdle, TypedRequest DEF InsertReturn, RInv, At
<1>2. CASE UNCHANGED returns
  BY <1>1, <1>2, CalmCall DEF InsertReturn, goods
<1>3. CASE ~UNCHANGED returns
  <2>1. PICK items \in ReturnItems, x \in free :
          /\ Returnable(o, items)
          /\ returns' = [returns EXCEPT ![x] = [status |-> "REQUESTED", o |-> o,
                                               items |-> items, refund |-> Null]]
    <3>1. PICK items \in ReturnItems :
            returns' = IF Returnable(o, items) /\ free # {}
                       THEN [returns EXCEPT ![CHOOSE x \in free : TRUE] =
                               [status |-> "REQUESTED", o |-> o,
                                items |-> items, refund |-> Null]]
                       ELSE returns
      BY DEF InsertReturn
    <3>2. Returnable(o, items) /\ (CHOOSE x \in free : TRUE) \in free
      BY <1>3, <3>1
    <3>. QED  BY <1>3, <3>1, <3>2
  <2>2. /\ x \in Returns /\ returns[x].status = "none" /\ items \in [Variants -> Nat]
        /\ returns'[x].status = "REQUESTED" /\ returns'[x].o = o /\ returns'[x].items = items
        /\ \A y \in Returns : y # x => returns'[y] = returns[y]
    BY <2>1, ConstantFacts DEF RInv, TypeInv, TablesOK, Assumptions
  <2>3. TablesOK'
    <3>1. returns'[x] \in ReturnRow
      BY <1>1, <2>1, <2>2 DEF RInv, TypeInv, TablesOK, ReturnRow, ReturnStatus, Null
    <3>2. returns' \in [Returns -> ReturnRow]
      BY <2>1, <3>1 DEF RInv, TypeInv, TablesOK
    <3>. QED  BY <1>1, <2>2, <3>2 DEF InsertReturn, RInv, TypeInv, TablesOK, goods
  <2>4. EventsOK' /\ FiledOK'
    BY <1>1, <2>2, SameCallFiled DEF InsertReturn, RInv, TypeInv, EventsOK
  <2>5. ShelfInv' /\ OneHolder'
    <3>1. \A v \in Variants : PutBack(v)' = PutBack(v)
      BY PutBackSum, PutBackSumNext DEF InsertReturn, goods
    <3>. QED  BY <1>1, <2>2, <3>1, ShelfKept DEF InState, SameCall
  <2>6. ReturnsFitPurchase'
    <3>. SUFFICES ASSUME NEW p \in Delivered, NEW v \in Variants
         PROVE  (UnitsIn(Counted(p), v))' <= Quantity[p][v]
      BY DEF ReturnsFitPurchase, Counted
    <3>0. \A y \in Returns : Items(returns', v)[y] = returns'[y].items[v]
      BY DEF Items
    <3>1. /\ \A y \in Returns : Items(returns, v)[y] \in Nat /\ Items(returns', v)[y] \in Nat
          /\ \A y \in Returns : y # x => Items(returns', v)[y] = Items(returns, v)[y]
          /\ Items(returns', v)[x] = items[v] /\ items[v] \in Nat
      BY <2>2, <2>3, <3>0, ItemTypes DEF RInv, TablesOK, ReturnRow, Items
    <3>2. x \notin Counted(p) /\ Counted(p) \subseteq Returns /\ IsFiniteSet(Counted(p))
      BY <2>2, ConstantFacts, FS_Subset DEF Counted, CountsAgainst, Assumptions
    <3>3. SumFunctionOnSet(Items(returns', v), Counted(p))
            = SumFunctionOnSet(Items(returns, v), Counted(p))
      <4>1. \A y \in Counted(p) : Items(returns', v)[y] = Items(returns, v)[y]
        BY <3>1, <3>2
      <4>. QED  BY <3>2, <4>1, SumSame
    <3>4. CASE p # o
      <4>1. Counted(p)' = Counted(p)
        BY <2>2, <3>4 DEF Counted, CountsAgainst
      <4>. QED  BY <3>3, <4>1, FitIsSum DEF RInv, ReturnsFitPurchase, Counted
    <3>5. CASE p = o
      <4>1. Counted(p)' = Counted(p) \cup {x}
        BY <2>2, <3>5 DEF Counted, CountsAgainst
      <4>2. \A y \in Counted(p) \cup {x} : Items(returns', v)[y] \in Int
        BY <2>2, <3>1, <3>2
      <4>3. SumFunctionOnSet(Items(returns', v), Counted(p) \cup {x})
              = SumFunctionOnSet(Items(returns', v), Counted(p)) + Items(returns', v)[x]
        BY <3>2, <4>2, SumAdd
      <4>4. /\ IsFiniteSet(CountsAgainst(p)) /\ CountsAgainst(p) \subseteq Returns
            /\ Counted(p) \subseteq CountsAgainst(p)
        BY ConstantFacts, FS_Subset DEF Counted, CountsAgainst, Assumptions
      <4>5. \A y \in CountsAgainst(p) : Items(returns, v)[y] \in Nat
        BY <3>1, <4>4
      <4>6. /\ SumFunctionOnSet(Items(returns, v), Counted(p))
                 <= SumFunctionOnSet(Items(returns, v), CountsAgainst(p))
            /\ SumFunctionOnSet(Items(returns, v), Counted(p)) \in Nat
            /\ SumFunctionOnSet(Items(returns, v), CountsAgainst(p)) \in Nat
        BY <4>4, <4>5, SumMonotone
      <4>7. items[v] <= Quantity[p][v]
                          - SumFunctionOnSet(Items(returns, v), CountsAgainst(p))
        BY <2>1, <3>5, <4>4, UnitsInSum DEF Returnable
      <4>8. Quantity[p][v] \in Nat
        BY <1>1, <3>5, ConstantFacts DEF Assumptions
      <4>9. (UnitsIn(Counted(p), v))'
              = SumFunctionOnSet(Items(returns, v), Counted(p)) + items[v]
        BY <3>1, <3>3, <4>1, <4>3, FitIsSum
      <4>. QED  BY <3>1, <4>6, <4>7, <4>8, <4>9
    <3>. QED  BY <3>4, <3>5
  <2>. QED  BY <1>1, <2>3, <2>4, <2>5, <2>6 DEF RInv, TypeInv, SameCall, Turn
<1>. QED  BY <1>2, <1>3, <1>1

-----------------------------------------------------------------------------
(* The refund of a return is a number of cents.                             *)
LEMMA PriceSums ==
  ASSUME NEW units
  PROVE  Price(units) = SumFunctionOnSet([v \in Variants |-> UnitPrice[v] * units[v]], Variants)
<1>. DEFINE f == [v \in Variants |-> UnitPrice[v] * units[v]]
            P(g) == g = [s \in SUBSET Variants |->
                           IF s = {} THEN 0
                           ELSE UnitPrice[CHOOSE x \in s : TRUE] * units[CHOOSE x \in s : TRUE]
                                  + g[s \ {CHOOSE x \in s : TRUE}]]
            h == CHOOSE g : P(g)
<1>0. IsFiniteSet(Variants)
  BY ConstantFacts DEF Assumptions
<1>1. ASSUME NEW g PROVE P(g) <=> AddsUp(g, f, SUBSET Variants)
  <2>1. \A s \in SUBSET Variants : s # {} =>
          f[CHOOSE x \in s : TRUE]
            = UnitPrice[CHOOSE x \in s : TRUE] * units[CHOOSE x \in s : TRUE]
    OBVIOUS
  <2>. HIDE DEF f
  <2>. QED  BY <2>1 DEF AddsUp, FirstOf
<1>2. \E g : P(g)
  <2>. HIDE DEF P, f
  <2>1. PICK g : AddsUp(g, f, SUBSET Variants)
    BY <1>0, SumsExist
  <2>. QED  BY <1>1, <2>1
<1>3. P(h)
  BY <1>2
<1>4. h[Variants] = SumFunctionOnSet(f, Variants)
  <2>. HIDE DEF h, P, f
  <2>. QED  BY <1>0, <1>1, <1>3, SumValue
<1>. QED  BY <1>4 DEF Price, MapThenSumSet, MapThenFoldSet

LEMMA PriceType ==
  ASSUME NEW units \in [Variants -> Nat]
  PROVE  Price(units) \in Nat
<1>. DEFINE f == [v \in Variants |-> UnitPrice[v] * units[v]]
<1>1. IsFiniteSet(Variants) /\ UnitPrice \in [Variants -> Nat]
  BY ConstantFacts DEF Assumptions
<1>2. \A v \in Variants : f[v] \in Nat
  <2>1. \A v \in Variants : UnitPrice[v] \in Nat /\ units[v] \in Nat
    BY <1>1
  <2>. QED  BY <2>1
<1>3. Price(units) = SumFunctionOnSet(f, Variants)
  BY PriceSums
<1>. HIDE DEF f
<1>. QED  BY <1>1, <1>2, <1>3, SumMonotone

LEMMA RoundType ==
  ASSUME NEW n \in Int, NEW d \in Nat \ {0}
  PROVE  Round(n, d) \in Int
<1>1. 2 * n + d \in Int /\ 2 * d \in Int /\ 2 * d > 0
  OBVIOUS
<1>. DEFINE a == 2 * n + d  b == 2 * d
<1>. HIDE DEF a, b
<1>2. a \in Int /\ b \in Int /\ b > 0
  BY <1>1 DEF a, b
<1>3. a \div b \in Int
  BY <1>2
<1>. QED  BY <1>3 DEF Round, a, b

LEMMA RefundCents ==
  ASSUME RInv, NEW o \in Orders, NEW items \in [Variants -> Nat]
  PROVE  returnRefundCents(o, items) \in Int
<1>. DEFINE subtotal == Price(Quantity[o])
            gross == Price(items)
            share == IF subtotal > 0
                     THEN Round(Smaller(Discount[o], subtotal) * gross, subtotal) ELSE 0
            refundable == IF payment[o].status = "SUCCEEDED" \/ payment[o].refunded > 0
                          THEN Refundable(o) ELSE 0
<1>1. subtotal \in Nat /\ gross \in Nat /\ Discount[o] \in Nat
  <2>1. Quantity[o] \in [Variants -> Nat] /\ Discount[o] \in Nat
    BY ConstantFacts DEF Assumptions
  <2>. QED  BY <2>1, PriceType
<1>2. refundable \in Int
  BY MoneyTypes DEF Refundable
<1>. HIDE DEF subtotal, gross, refundable
<1>3. share \in Int
  <2>1. Smaller(Discount[o], subtotal) \in Nat
    BY <1>1 DEF Smaller
  <2>2. Smaller(Discount[o], subtotal) * gross \in Int
    BY <1>1, <2>1
  <2>. QED  BY <1>1, <2>2, RoundType
<1>. HIDE DEF share
<1>4. Smaller(gross - share, refundable) \in Int
  BY <1>1, <1>2, <1>3 DEF Smaller
<1>. QED  BY <1>4 DEF returnRefundCents, subtotal, gross, share, refundable

LEMMA ReadReturnRefundStep ==
  ASSUME RInv, NEW r \in Actors, ReadReturnRefund(r)
  PROVE  RInv' /\ Turn(r) /\ rq'[r].pc = "approveReturn:claim"
<1>. DEFINE x == rq[r].ret
<1>1. x \in Returns /\ returns[x].status # "none"
  BY CallKind DEF ReadReturnRefund, At, Loading, RInv, TypeInv, FiledOK
<1>2. returns[x].o \in Orders /\ returns[x].items \in [Variants -> Nat]
  BY <1>1 DEF RInv, TypeInv, TablesOK, ReturnRow
<1>3. returnRefundCents(returns[x].o, returns[x].items) \in Int
  BY <1>2, RefundCents
<1>. QED  BY <1>3, ReadReturnRefundMove DEF ReadReturnRefund, goods

-----------------------------------------------------------------------------
(* What approvals do to the shelf.                                          *)
LEMMA ShelveTypes ==
  ASSUME RInv, NEW x \in Returns, NEW sign \in {1, -1}, Shelve(x, sign),
         \A v \in Variants : stock[v] + sign * returns[x].items[v] >= 0
  PROVE  /\ stock' \in [Variants -> Nat]
         /\ \A v \in Variants : stock'[v] = stock[v] + sign * returns[x].items[v]
<1>1. \A v \in Variants : stock[v] \in Nat /\ returns[x].items[v] \in Nat
  BY ItemTypes DEF RInv, TypeInv, TablesOK
<1>2. \A v \in Variants : stock[v] + sign * returns[x].items[v] \in Nat
  BY <1>1
<1>. QED  BY <1>2 DEF Shelve

LEMMA StatusWrite ==
  ASSUME RInv, NEW x \in Returns, returns[x].status # "none", NEW st \in ReturnStatus \ {"none"},
         returns' = [returns EXCEPT ![x].status = st],
         stock' \in [Variants -> Nat], UNCHANGED <<order, payment, stripe, events, sold>>
  PROVE  /\ TablesOK' /\ EventsOK'
         /\ returns'[x].status = st
         /\ \A y \in Returns : /\ returns'[y].items = returns[y].items
                               /\ returns'[y].o = returns[y].o
                               /\ returns[y].status # "none" => returns'[y].status # "none"
         /\ \A y \in Returns : y # x => returns'[y].status = returns[y].status
<1>1. returns \in [Returns -> ReturnRow]
  BY DEF RInv, TypeInv, TablesOK
<1>2. /\ returns' \in [Returns -> ReturnRow]
      /\ returns'[x].status = st
      /\ \A y \in Returns : /\ returns'[y].items = returns[y].items
                            /\ returns'[y].o = returns[y].o
      /\ \A y \in Returns : y # x => returns'[y].status = returns[y].status
  BY <1>1 DEF ReturnRow
<1>3. \A y \in Returns : /\ returns[y].status # "none" => returns'[y].status # "none"
                         /\ returns'[y].status # "none" => returns[y].status # "none"
  BY <1>2
<1>4. TablesOK'
  BY <1>2, <1>3 DEF RInv, TypeInv, TablesOK
<1>. QED  BY <1>2, <1>3, <1>4 DEF RInv, TypeInv, EventsOK

(* One return y more, or one less, on the shelf.                            *)
LEMMA ShelfGains ==
  ASSUME RInv, UNCHANGED sold, NEW x \in Returns,
         stock' \in [Variants -> Nat],
         \A v \in Variants : stock'[v] = stock[v] + returns[x].items[v],
         \A y \in Returns : returns'[y].items = returns[y].items,
         NEW B \in SUBSET Returns, x \notin B, \A v \in Variants : PutBack(v) = UnitsIn(B, v),
         NEW v \in Variants
  PROVE  PutBack(v)' = SumFunctionOnSet(Items(returns', v), B \cup {x})
<1>1. IsFiniteSet(B)
  BY ConstantFacts, FS_Subset DEF Assumptions
<1>2. \A y \in B \cup {x} : Items(returns', v)[y] = Items(returns, v)[y]
                           /\ Items(returns, v)[y] \in Int
  BY ItemTypes DEF Items, RInv
<1>3. SumFunctionOnSet(Items(returns, v), B \cup {x})
        = SumFunctionOnSet(Items(returns, v), B) + Items(returns, v)[x]
  BY <1>1, <1>2, SumAdd
<1>4. SumFunctionOnSet(Items(returns', v), B \cup {x})
        = SumFunctionOnSet(Items(returns, v), B \cup {x})
  <2>1. IsFiniteSet(B \cup {x})
    BY <1>1, FS_AddElement
  <2>. QED  BY <1>2, <2>1, SumSame
<1>5. PutBack(v)' = PutBack(v) + (stock'[v] - stock[v]) /\ PutBack(v) \in Int
  BY PutBackMoves
<1>6. stock'[v] - stock[v] = returns[x].items[v]
  <2>1. stock[v] \in Nat /\ returns[x].items[v] \in Nat
    BY ItemTypes, ShelfTypes DEF RInv
  <2>. QED  BY <2>1
<1>7. PutBack(v) = SumFunctionOnSet(Items(returns, v), B)
  BY UnitsInSum
<1>. QED  BY <1>3, <1>4, <1>5, <1>6, <1>7, ItemTypes DEF RInv

LEMMA ShelfLoses ==
  ASSUME RInv, UNCHANGED sold, NEW x \in Returns,
         stock' \in [Variants -> Nat],
         \A v \in Variants : stock'[v] = stock[v] - returns[x].items[v],
         \A y \in Returns : returns'[y].items = returns[y].items,
         NEW B \in SUBSET Returns, x \in B, \A v \in Variants : PutBack(v) = UnitsIn(B, v),
         NEW v \in Variants
  PROVE  PutBack(v)' = SumFunctionOnSet(Items(returns', v), B \ {x})
<1>1. IsFiniteSet(B) /\ IsFiniteSet(B \ {x})
  BY ConstantFacts, FS_Subset DEF Assumptions
<1>2. \A y \in B : Items(returns', v)[y] = Items(returns, v)[y]
                  /\ Items(returns, v)[y] \in Int
  BY ItemTypes DEF Items, RInv
<1>3. /\ SumFunctionOnSet(Items(returns, v), B)
           = Items(returns, v)[x] + SumFunctionOnSet(Items(returns, v), B \ {x})
      /\ SumFunctionOnSet(Items(returns, v), B \ {x}) \in Int
  BY <1>1, <1>2, SumRemove
<1>4. SumFunctionOnSet(Items(returns', v), B \ {x})
        = SumFunctionOnSet(Items(returns, v), B \ {x})
  <2>1. \A y \in B \ {x} : Items(returns', v)[y] = Items(returns, v)[y]
    BY <1>2
  <2>. QED  BY <1>1, <2>1, SumSame
<1>5. PutBack(v)' = PutBack(v) + (stock'[v] - stock[v]) /\ PutBack(v) \in Int
  BY PutBackMoves
<1>6. stock'[v] - stock[v] = - returns[x].items[v] /\ returns[x].items[v] \in Nat
  <2>1. stock[v] \in Nat /\ returns[x].items[v] \in Nat
    BY ItemTypes, ShelfTypes DEF RInv
  <2>. QED  BY <2>1
<1>7. PutBack(v) = SumFunctionOnSet(Items(returns, v), B)
  BY UnitsInSum
<1>. QED  BY <1>3, <1>4, <1>5, <1>6, <1>7, ItemTypes DEF RInv

(* The claim only matches a return that is still requested, which no call   *)
(* may undo and which is not on the shelf.                                  *)
LEMMA ClaimReturnStep ==
  ASSUME RInv, NEW r \in Actors, ClaimReturn(r)
  PROVE  /\ RInv' /\ RequestsOK' /\ \A a \in Actors : a # r => rq'[a] = rq[a]
         /\ rq'[r].pc \in {"idle", "processRefund:read", "approveReturn:record"}
<1>. DEFINE x == rq[r].ret
            pc == IF rq[r].want > 0 THEN "processRefund:read" ELSE "approveReturn:record"
            q == [rq[r] EXCEPT !.pc = pc]
<1>1. rq[r] \in ApprovalCall /\ x \in Returns /\ returns[x].status # "none"
      /\ rq[r].o \in Orders /\ rq[r].want \in Int
  BY CallKind, TypedRequest DEF ClaimReturn, At, Loading, RInv, TypeInv, FiledOK
<1>2. CASE returns[x].status # "REQUESTED"
  <2>1. Goto(r, "idle") /\ UNCHANGED <<order, payment, stock, stripe, events, sold, returns>>
    BY <1>2 DEF ClaimReturn
  <2>2. rq'[r] = Idle /\ SameCall(r)
    BY <2>1, GotoIdle DEF RInv
  <2>. QED  BY <2>1, <2>2, CalmCall, IdleOK DEF SameCall, Turn
<1>3. CASE returns[x].status = "REQUESTED"
  <2>1. /\ returns' = [returns EXCEPT ![x].status = "APPROVED"]
        /\ Shelve(x, 1) /\ Goto(r, pc)
        /\ UNCHANGED <<order, payment, stripe, events, sold>>
    BY <1>3 DEF ClaimReturn
  <2>2. /\ q \in ApprovalCall /\ q.pc = pc /\ q.o = rq[r].o /\ q.ret = x
        /\ q.want = rq[r].want
    BY <1>1 DEF ApprovalCall, Refunding, Settling
  <2>3. rq' = [rq EXCEPT ![r] = q]
    BY <2>1 DEF Goto
  <2>4. pc \in {"processRefund:read", "approveReturn:record"}
        /\ (pc = "processRefund:read" => rq[r].want \in Nat)
    BY <1>1
  <2>. HIDE DEF q, pc
  <2>5. LocalsOK(q)
    BY <1>1, <2>2, <2>4 DEF LocalsOK, Refunding
  <2>6. RequestsOK' /\ rq'[r] = q /\ \A a \in Actors : a # r => rq'[a] = rq[a]
    BY <2>3, <2>5, UpdateOK DEF RInv
  <2>7. \A v \in Variants : stock[v] + 1 * returns[x].items[v] >= 0
    BY <1>1, ItemTypes, ShelfTypes DEF RInv
  <2>8. /\ stock' \in [Variants -> Nat]
        /\ \A v \in Variants : stock'[v] = stock[v] + returns[x].items[v]
    <3>1. /\ stock' \in [Variants -> Nat]
          /\ \A v \in Variants : stock'[v] = stock[v] + 1 * returns[x].items[v]
      BY <1>1, <2>1, <2>7, ShelveTypes
    <3>2. \A v \in Variants : 1 * returns[x].items[v] = returns[x].items[v]
      BY <1>1, ItemTypes DEF RInv
    <3>. QED  BY <3>1, <3>2
  <2>9. /\ TablesOK' /\ EventsOK'
        /\ returns'[x].status = "APPROVED"
        /\ \A y \in Returns : /\ returns'[y].items = returns[y].items
                              /\ returns'[y].o = returns[y].o
                              /\ returns[y].status # "none" => returns'[y].status # "none"
        /\ \A y \in Returns : y # x => returns'[y].status = returns[y].status
    <3>1. "APPROVED" \in ReturnStatus \ {"none"}
      BY DEF ReturnStatus
    <3>. QED  BY <1>1, <2>1, <2>8, <3>1, StatusWrite
  <2>10. FiledOK'
    BY <1>1, <2>2, <2>6, <2>9, CallKind DEF RInv, TypeInv, FiledOK
  <2>11. ReturnsFitPurchase'
    BY <1>3, <2>9, FitKept
  <2>12. PICK B \in SUBSET InState({"APPROVED", "REJECTED"}) :
           /\ Approved \subseteq B
           /\ \A v \in Variants : PutBack(v) = UnitsIn(B, v)
           /\ \A a \in Actors : HoldsReturn(rq[a]) => rq[a].ret \in B
    BY DEF RInv, ShelfInv
  <2>13. B \in SUBSET Returns /\ x \notin B
    BY <1>3, <2>12 DEF InState
  <2>14. ShelfInv'
    <3>1. \A v \in Variants :
            PutBack(v)' = SumFunctionOnSet(Items(returns', v), B \cup {x})
      BY <1>1, <2>1, <2>8, <2>9, <2>12, <2>13, ShelfGains
    <3>2. B \cup {x} \subseteq InState({"APPROVED", "REJECTED"})'
      BY <1>1, <2>9, <2>12, <2>13 DEF InState
    <3>3. Approved' \subseteq B \cup {x}
      BY <2>9, <2>12 DEF Approved, InState
    <3>4. \A a \in Actors : HoldsReturn(rq'[a]) => rq'[a].ret \in B \cup {x}
      BY <2>2, <2>6, <2>12
    <3>5. B \cup {x} \in SUBSET Returns
      BY <1>1, <2>13
    <3>. QED  BY <3>1, <3>2, <3>3, <3>4, <3>5, ShelfStep
  <2>15. OneHolder'
    <3>1. \A a \in Actors : a # r /\ HoldsReturn(rq'[a]) => rq'[a].ret # x
      BY <2>6, <2>12, <2>13
    <3>. QED  BY <2>2, <2>6, <3>1 DEF RInv, OneHolder
  <2>16. rq'[r].pc = pc
    BY <2>2, <2>6
  <2>. QED  BY <2>4, <2>6, <2>9, <2>10, <2>11, <2>14, <2>15, <2>16 DEF RInv, TypeInv
<1>. QED  BY <1>2, <1>3

(* An undone approval takes its own units back, once: they are on the       *)
(* shelf even when the return was rejected meanwhile.                       *)
LEMMA UndoApprovalStep ==
  ASSUME RInv, NEW r \in Actors, UndoApproval(r)
  PROVE  RInv' /\ SameCall(r) /\ rq'[r] = Idle
<1>. DEFINE x == rq[r].ret
            st == IF returns[x].status = "APPROVED" THEN "REQUESTED" ELSE returns[x].status
<1>1. HoldsReturn(rq[r]) /\ x \in Returns /\ returns[x].status # "none"
  BY CallKind DEF UndoApproval, At, Settling, HoldsReturn, RInv, TypeInv, FiledOK
<1>2. rq'[r] = Idle /\ SameCall(r) /\ UNCHANGED <<order, payment, stripe, events, sold>>
  BY GotoIdle DEF UndoApproval, RInv
<1>3. CASE UNCHANGED <<stock, returns>>
  BY <1>2, <1>3, CalmCall
<1>4. CASE ~UNCHANGED <<stock, returns>>
  <2>1. /\ \A v \in Variants : stock[v] >= returns[x].items[v]
        /\ returns' = [returns EXCEPT ![x].status = st]
        /\ Shelve(x, -1)
    BY <1>4 DEF UndoApproval
  <2>2. \A v \in Variants : stock[v] \in Nat /\ returns[x].items[v] \in Nat
    BY <1>1, ItemTypes, ShelfTypes DEF RInv
  <2>3. /\ stock' \in [Variants -> Nat]
        /\ \A v \in Variants : stock'[v] = stock[v] - returns[x].items[v]
    <3>1. \A v \in Variants : stock[v] + (-1) * returns[x].items[v] >= 0
      BY <2>1, <2>2
    <3>2. /\ stock' \in [Variants -> Nat]
          /\ \A v \in Variants : stock'[v] = stock[v] + (-1) * returns[x].items[v]
      BY <1>1, <2>1, <3>1, ShelveTypes
    <3>. QED  BY <2>2, <3>2
  <2>4. returns[x].status \in ReturnStatus
    BY <1>1 DEF RInv, TypeInv, TablesOK, ReturnRow
  <2>5. st \in ReturnStatus \ {"none"} /\ st # "APPROVED"
    BY <1>1, <2>4 DEF ReturnStatus
  <2>6. /\ TablesOK' /\ EventsOK'
        /\ returns'[x].status = st
        /\ \A y \in Returns : /\ returns'[y].items = returns[y].items
                              /\ returns'[y].o = returns[y].o
                              /\ returns[y].status # "none" => returns'[y].status # "none"
        /\ \A y \in Returns : y # x => returns'[y].status = returns[y].status
    <3>. HIDE DEF st
    <3>. QED  BY <1>1, <1>2, <2>1, <2>3, <2>5, StatusWrite
  <2>7. FiledOK'
    BY <1>2, <2>6, SameCallFiled
  <2>8. ReturnsFitPurchase'
    BY <1>1, <2>6, FitKept
  <2>9. PICK B \in SUBSET InState({"APPROVED", "REJECTED"}) :
          /\ Approved \subseteq B
          /\ \A v \in Variants : PutBack(v) = UnitsIn(B, v)
          /\ \A a \in Actors : HoldsReturn(rq[a]) => rq[a].ret \in B
    BY DEF RInv, ShelfInv
  <2>10. B \in SUBSET Returns /\ x \in B
    BY <1>1, <2>9 DEF InState
  <2>11. \A a \in Actors : HoldsReturn(rq'[a]) =>
           a # r /\ HoldsReturn(rq[a]) /\ rq'[a] = rq[a]
    BY <1>2, IdleOK DEF SameCall, Turn
  <2>12. ShelfInv'
    <3>1. \A v \in Variants :
            PutBack(v)' = SumFunctionOnSet(Items(returns', v), B \ {x})
      BY <1>1, <1>2, <2>3, <2>6, <2>9, <2>10, ShelfLoses
    <3>2. B \ {x} \subseteq InState({"APPROVED", "REJECTED"})'
      BY <2>6, <2>9, <2>10 DEF InState
    <3>3. Approved' \subseteq B \ {x}
      BY <2>5, <2>6, <2>9 DEF Approved, InState
    <3>4. \A a \in Actors : HoldsReturn(rq'[a]) => rq'[a].ret \in B \ {x}
      BY <1>1, <2>9, <2>11 DEF RInv, OneHolder
    <3>5. B \ {x} \in SUBSET Returns
      BY <2>10
    <3>. QED  BY <3>1, <3>2, <3>3, <3>4, <3>5, ShelfStep
  <2>13. OneHolder'
    BY <2>11 DEF RInv, OneHolder
  <2>. QED  BY <1>2, <2>6, <2>7, <2>8, <2>12, <2>13 DEF RInv, TypeInv, SameCall, Turn
<1>. QED  BY <1>2, <1>3, <1>4

LEMMA RecordReturnStep ==
  ASSUME RInv, NEW r \in Actors, RecordReturn(r)
  PROVE  RInv' /\ SameCall(r) /\ rq'[r] = Idle
<1>. DEFINE x == rq[r].ret
<1>1. x \in Returns /\ rq[r].amt \in Nat
  BY CallKind, TypedRequest DEF RecordReturn, At, Settling, RInv
<1>2. rq'[r] = Idle /\ SameCall(r)
  BY GotoIdle DEF RecordReturn, RInv
<1>3. /\ returns' \in [Returns -> ReturnRow]
      /\ \A y \in Returns : /\ returns'[y].items = returns[y].items
                            /\ returns'[y].o = returns[y].o
                            /\ returns'[y].status = returns[y].status
  <2>1. returns \in [Returns -> ReturnRow]
        /\ returns' = [returns EXCEPT ![x].refund = rq[r].amt]
    BY DEF RecordReturn, RInv, TypeInv, TablesOK
  <2>2. [returns[x] EXCEPT !.refund = rq[r].amt] \in ReturnRow
    BY <1>1, <2>1 DEF ReturnRow
  <2>3. returns' \in [Returns -> ReturnRow]
    BY <1>1, <2>1, <2>2
  <2>. QED  BY <1>1, <2>1, <2>3 DEF ReturnRow
<1>4. UNCHANGED <<order, payment, stock, stripe, events, sold>>
  BY DEF RecordReturn, goods
<1>5. TablesOK' /\ EventsOK'
  BY <1>3, <1>4 DEF RInv, TypeInv, TablesOK, EventsOK
<1>6. FiledOK' /\ ReturnsFitPurchase'
  BY <1>2, <1>3, SameCallFiled, FitKept
<1>7. ShelfInv' /\ OneHolder'
  <2>1. \A v \in Variants : PutBack(v)' = PutBack(v)
    BY <1>4, PutBackSum, PutBackSumNext
  <2>. QED  BY <1>2, <1>3, <2>1, ShelfKept DEF InState, SameCall
<1>. QED  BY <1>2, <1>5, <1>6, <1>7 DEF RInv, TypeInv, SameCall, Turn

(* A rejection is written whatever the status is by now: an approved return *)
(* becomes a rejected one that is on the shelf.                             *)
LEMMA WriteRejectionStep ==
  ASSUME RInv, NEW r \in Actors, WriteRejection(r)
  PROVE  RInv' /\ SameCall(r) /\ rq'[r] = Idle
<1>. DEFINE x == rq[r].ret
<1>1. x \in Returns /\ returns[x].status # "none"
  BY CallKind DEF WriteRejection, At, Loading, RInv, TypeInv, FiledOK
<1>2. rq'[r] = Idle /\ SameCall(r)
  BY GotoIdle DEF WriteRejection, RInv
<1>3. UNCHANGED <<order, payment, stock, stripe, events, sold>>
      /\ returns' = [returns EXCEPT ![x].status = "REJECTED"]
  BY DEF WriteRejection, goods
<1>4. /\ TablesOK' /\ EventsOK'
      /\ returns'[x].status = "REJECTED"
      /\ \A y \in Returns : /\ returns'[y].items = returns[y].items
                            /\ returns'[y].o = returns[y].o
                            /\ returns[y].status # "none" => returns'[y].status # "none"
      /\ \A y \in Returns : y # x => returns'[y].status = returns[y].status
  <2>1. "REJECTED" \in ReturnStatus \ {"none"} /\ stock' \in [Variants -> Nat]
    BY <1>3 DEF ReturnStatus, RInv, TypeInv, TablesOK
  <2>. QED  BY <1>1, <1>3, <2>1, StatusWrite
<1>5. FiledOK' /\ ReturnsFitPurchase'
  BY <1>2, <1>4, SameCallFiled, FitKept
<1>6. ShelfInv' /\ OneHolder'
  <2>1. \A v \in Variants : PutBack(v)' = PutBack(v)
    BY <1>3, PutBackSum, PutBackSumNext
  <2>. QED  BY <1>2, <1>4, <2>1, ShelfKept DEF InState, SameCall
<1>. QED  BY <1>2, <1>4, <1>5, <1>6 DEF RInv, TypeInv, SameCall, Turn

-----------------------------------------------------------------------------
(* What a refund does to the rows of the payment.                           *)
LEMMA PaymentWrite ==
  ASSUME RInv, NEW r \in Actors, SameCall(r), NEW o \in Orders,
         payment' \in [Orders -> PaymentRow],
         order' = order \/ order' = [order EXCEPT ![o] = "REFUNDED"],
         UNCHANGED <<stock, stripe, events, sold, returns>>
  PROVE  RInv'
<1>1. order' \in [Orders -> OrderStatus]
      /\ \A p \in Orders : order'[p] = "PENDING" => order[p] = "PENDING"
  BY DEF RInv, TypeInv, TablesOK, OrderStatus
<1>2. TablesOK' /\ EventsOK'
  BY <1>1 DEF RInv, TypeInv, TablesOK, EventsOK
<1>. QED  BY <1>2, CalmTables

LEMMA RefundRows ==
  ASSUME RInv, NEW o \in Orders
  PROVE  \A n \in Int, st \in {"REFUNDED", "PARTIALLY_REFUNDED"} :
           /\ [payment EXCEPT ![o].refunded = n] \in [Orders -> PaymentRow]
           /\ [payment EXCEPT ![o].status = st] \in [Orders -> PaymentRow]
           /\ [payment EXCEPT ![o].refunded = n, ![o].status = st] \in [Orders -> PaymentRow]
<1>. SUFFICES ASSUME NEW n \in Int, NEW st \in {"REFUNDED", "PARTIALLY_REFUNDED"}
     PROVE  /\ [payment EXCEPT ![o].refunded = n] \in [Orders -> PaymentRow]
            /\ [payment EXCEPT ![o].status = st] \in [Orders -> PaymentRow]
            /\ [payment EXCEPT ![o].refunded = n, ![o].status = st] \in [Orders -> PaymentRow]
  OBVIOUS
<1>1. payment \in [Orders -> PaymentRow] /\ payment[o] \in PaymentRow
  BY DEF RInv, TypeInv, TablesOK
<1>2. st \in PaymentStatus
  BY DEF PaymentStatus
<1>. QED  BY <1>1, <1>2 DEF PaymentRow

LEMMA ReadRefundableStep ==
  ASSUME RInv, NEW r \in Actors, ReadRefundable(r), UNCHANGED returns
  PROVE  /\ RInv' /\ SameCall(r)
         /\ rq'[r].pc \notin {"processRefund:stripe", "processRefund:release", "syncRefund:write"}
<1>. DEFINE o == rq[r].o
            amt == IF rq[r].want = 0 THEN Refundable(o) ELSE rq[r].want
            q == [[[rq[r] EXCEPT !.pc = "processRefund:reserve"]
                     EXCEPT !.base = payment[o].refunded] EXCEPT !.amt = amt]
<1>1. /\ rq[r].pc = "processRefund:read" /\ rq[r].pc \in Refunding
      /\ o \in Orders /\ rq[r].want \in Nat
      /\ UNCHANGED <<order, payment, stock, stripe, events, sold, returns>>
  BY TypedRequest DEF ReadRefundable, At, Refunding, RInv, goods
<1>2. payment[o].refunded \in Int /\ Refundable(o) \in Int
  BY <1>1, MoneyTypes DEF Refundable
<1>3. CASE Goto(r, rq[r].err)
  <2>1. SameCall(r) /\ rq'[r].pc = rq[r].err
    BY <1>1, <1>3, RefundMoves DEF RInv
  <2>2. rq[r].err \in {"idle", "approveReturn:undo"}
    BY <1>1, TypedRequest, CallKind DEF RInv
  <2>. QED  BY <1>1, <2>1, <2>2, CalmCall
<1>4. CASE ~Goto(r, rq[r].err)
  <2>1. /\ Refundable(o) > 0
        /\ rq' = [rq EXCEPT ![r].pc = "processRefund:reserve",
                            ![r].base = payment[o].refunded, ![r].amt = amt]
    BY <1>4 DEF ReadRefundable
  <2>2. amt \in Nat
    BY <1>1, <1>2, <2>1
  <2>3. rq' = [rq EXCEPT ![r] = q]
    BY <2>1 DEF RInv, TypeInv, RequestsOK
  <2>. HIDE DEF amt
  <2>4. /\ q.pc = "processRefund:reserve" /\ q.o = o /\ q.want = rq[r].want
        /\ q.ok = rq[r].ok
        /\ rq[r] \in PlainCall => q \in PlainCall
        /\ rq[r] \in ApprovalCall => q \in ApprovalCall /\ q.ret = rq[r].ret
    <3>1. CASE rq[r] \in PlainCall
      <4>1. rq[r] \notin ApprovalCall
        BY <3>1, CallKind DEF RInv, PlainCall, ApprovalCall
      <4>. QED  BY <1>2, <2>2, <3>1, <4>1 DEF PlainCall, Refunding
    <3>2. CASE rq[r] \in ApprovalCall
      <4>1. rq[r] \notin PlainCall
        BY <3>2 DEF PlainCall, ApprovalCall
      <4>. QED  BY <1>2, <2>2, <3>2, <4>1 DEF ApprovalCall, Refunding
    <3>. QED  BY <3>1, <3>2, TypedRequest DEF RInv
  <2>5. q \in ApprovalCall => rq[r] \in ApprovalCall
    <3>1. q \in PlainCall => q \notin ApprovalCall
      BY DEF PlainCall, ApprovalCall
    <3>. QED  BY <2>4, <3>1, TypedRequest DEF RInv
  <2>. HIDE DEF q
  <2>6. LocalsOK(q)
    BY <1>1, <2>4, TypedRequest DEF LocalsOK, RInv
  <2>7. RequestsOK' /\ rq'[r] = q /\ \A a \in Actors : a # r => rq'[a] = rq[a]
    BY <2>3, <2>6, UpdateOK DEF RInv
  <2>8. HoldsReturn(q) => HoldsReturn(rq[r]) /\ q.ret = rq[r].ret
    <3>1. HoldsReturn(q) => q.ok = "approveReturn:record"
      BY <2>4 DEF HoldsReturn, Settling
    <3>2. rq[r].ok = "approveReturn:record" => HoldsReturn(rq[r])
      BY <1>1 DEF HoldsReturn
    <3>. QED  BY <2>4, <3>1, <3>2, CallKind DEF RInv
  <2>9. SameCall(r)
    BY <2>4, <2>5, <2>7, <2>8 DEF SameCall, Turn
  <2>. QED  BY <1>1, <2>4, <2>7, <2>9, CalmCall
<1>. QED  BY <1>3, <1>4

LEMMA ReserveRefundStep ==
  ASSUME RInv, NEW r \in Actors, ReserveRefund(r), UNCHANGED returns
  PROVE  RInv' /\ SameCall(r)
<1>. DEFINE o == rq[r].o
<1>1. /\ rq[r].pc \in Refunding /\ o \in Orders /\ rq[r].amt \in Nat
      /\ UNCHANGED <<order, stock, stripe, events, sold, returns>>
  BY TypedRequest DEF ReserveRefund, At, Refunding, RInv, goods
<1>2. CASE payment[o].refunded # rq[r].base
  <2>1. Goto(r, rq[r].err) /\ UNCHANGED payment
    BY <1>2 DEF ReserveRefund
  <2>. QED  BY <1>1, <2>1, RefundMoves, CalmCall DEF RInv
<1>3. CASE payment[o].refunded = rq[r].base
  <2>1. /\ payment' = [payment EXCEPT ![o].refunded = payment[o].refunded + rq[r].amt]
        /\ Goto(r, "processRefund:stripe")
    BY <1>3 DEF ReserveRefund
  <2>2. SameCall(r)
    BY <1>1, <2>1, RefundMoves DEF RInv, Refunding
  <2>3. payment[o].refunded + rq[r].amt \in Int
    BY <1>1, MoneyTypes
  <2>4. payment' \in [Orders -> PaymentRow]
    BY <1>1, <2>1, <2>3, RefundRows, "REFUNDED" \in {"REFUNDED", "PARTIALLY_REFUNDED"}
  <2>. QED  BY <1>1, <2>2, <2>4, PaymentWrite
<1>. QED  BY <1>2, <1>3

LEMMA RefundAtStripeStep ==
  ASSUME RInv, NEW r \in Actors, RefundAtStripe(r), UNCHANGED returns
  PROVE  RInv' /\ SameCall(r)
<1>. DEFINE o == rq[r].o
            key == <<rq[r].base, rq[r].amt>>
            total == stripe[o].refunded + rq[r].amt
<1>1. /\ rq[r].pc \in Refunding /\ o \in Orders /\ rq[r].amt \in Nat /\ rq[r].base \in Int
      /\ UNCHANGED <<order, payment, stock, sold, returns>>
  BY TypedRequest DEF RefundAtStripe, At, Refunding, RInv, goods
<1>2. SameCall(r)
  <2>1. Goto(r, "processRefund:record") \/ Goto(r, "processRefund:release")
    BY DEF RefundAtStripe
  <2>. QED  BY <1>1, <2>1, RefundMoves DEF RInv, Refunding
<1>3. CASE UNCHANGED <<stripe, events>>
  BY <1>1, <1>2, <1>3, CalmCall
<1>4. CASE ~UNCHANGED <<stripe, events>>
  <2>1. /\ stripe' = [stripe EXCEPT ![o].refunded = total,
                                    ![o].keys = stripe[o].keys \cup {key}]
        /\ events' = events \cup {Event("refunded", o, total)}
    BY <1>4 DEF RefundAtStripe
  <2>2. total \in Nat /\ key \in Int \X Int
    BY <1>1, MoneyTypes
  <2>. HIDE DEF total, key
  <2>3. stripe' \in [Orders -> StripeRow]
    BY <1>1, <2>1, <2>2 DEF RInv, TypeInv, TablesOK, StripeRow
  <2>4. TablesOK'
    BY <1>1, <2>3 DEF RInv, TypeInv, TablesOK
  <2>5. EventsOK'
    BY <1>1, <2>1, <2>2 DEF RInv, TypeInv, EventsOK, Event
  <2>. QED  BY <1>1, <1>2, <2>4, <2>5, CalmTables
<1>. QED  BY <1>3, <1>4

LEMMA ReleaseRefundStep ==
  ASSUME RInv, NEW r \in Actors, ReleaseRefund(r), UNCHANGED returns
  PROVE  RInv' /\ SameCall(r)
<1>. DEFINE o == rq[r].o
<1>1. /\ rq[r].pc \in Refunding /\ o \in Orders /\ rq[r].amt \in Nat
      /\ UNCHANGED <<order, stock, stripe, events, sold, returns>>
      /\ Goto(r, rq[r].err)
      /\ payment' = [payment EXCEPT ![o].refunded = payment[o].refunded - rq[r].amt]
  BY TypedRequest DEF ReleaseRefund, At, Refunding, RInv, goods
<1>2. SameCall(r)
  BY <1>1, RefundMoves DEF RInv
<1>3. payment[o].refunded - rq[r].amt \in Int
  BY <1>1, MoneyTypes
<1>4. payment' \in [Orders -> PaymentRow]
  BY <1>1, <1>3, RefundRows, "REFUNDED" \in {"REFUNDED", "PARTIALLY_REFUNDED"}
<1>. QED  BY <1>1, <1>2, <1>4, PaymentWrite

LEMMA RecordRefundStep ==
  ASSUME RInv, NEW r \in Actors, RecordRefund(r), UNCHANGED returns
  PROVE  RInv' /\ SameCall(r)
<1>. DEFINE o == rq[r].o
            full == rq[r].base + rq[r].amt >= Amount[o]
            status == IF full THEN "REFUNDED" ELSE "PARTIALLY_REFUNDED"
<1>1. /\ rq[r].pc \in Refunding /\ o \in Orders
      /\ UNCHANGED <<stock, stripe, events, sold, returns>>
      /\ Goto(r, rq[r].ok)
      /\ payment' = [payment EXCEPT ![o].status = status]
      /\ order' = [order EXCEPT ![o] = IF full THEN "REFUNDED" ELSE order[o]]
  BY TypedRequest DEF RecordRefund, At, Refunding, RInv, goods
<1>2. SameCall(r)
  BY <1>1, RefundMoves DEF RInv
<1>3. order' = order \/ order' = [order EXCEPT ![o] = "REFUNDED"]
  BY <1>1 DEF RInv, TypeInv, TablesOK
<1>4. status \in {"REFUNDED", "PARTIALLY_REFUNDED"}
  OBVIOUS
<1>. HIDE DEF status, full
<1>5. payment' \in [Orders -> PaymentRow]
  BY <1>1, <1>4, RefundRows, 0 \in Int
<1>. QED  BY <1>1, <1>2, <1>3, <1>5, PaymentWrite

LEMMA SyncRefundStep ==
  ASSUME RInv, NEW r \in Actors, SyncRefund(r), UNCHANGED returns
  PROVE  RInv' /\ SameCall(r)
<1>. DEFINE o == rq[r].o
            full == rq[r].want >= Amount[o]
            status == IF full THEN "REFUNDED" ELSE "PARTIALLY_REFUNDED"
<1>1. /\ o \in Orders /\ rq[r].want \in Int
      /\ UNCHANGED <<stock, stripe, events, sold, returns>>
      /\ Goto(r, "idle")
      /\ payment' = [payment EXCEPT ![o].refunded = rq[r].want, ![o].status = status]
      /\ order' = [order EXCEPT ![o] = IF full THEN "REFUNDED" ELSE order[o]]
  BY TypedRequest DEF SyncRefund, At, RInv, goods
<1>2. SameCall(r)
  BY <1>1, GotoIdle DEF RInv
<1>3. order' = order \/ order' = [order EXCEPT ![o] = "REFUNDED"]
  BY <1>1 DEF RInv, TypeInv, TablesOK
<1>4. status \in {"REFUNDED", "PARTIALLY_REFUNDED"}
  OBVIOUS
<1>. HIDE DEF status, full
<1>5. payment' \in [Orders -> PaymentRow]
  BY <1>1, <1>4, RefundRows
<1>. QED  BY <1>1, <1>2, <1>3, <1>5, PaymentWrite

-----------------------------------------------------------------------------
(* A sale is the first of its order, and of one that was never delivered.   *)
LEMMA SaleStep ==
  ASSUME RInv, NEW r \in Actors, SameCall(r), NEW o \in Orders,
         order[o] = "PENDING", InStock(o), TakeStock(o),
         order' = [order EXCEPT ![o] = "CONFIRMED"],
         payment' = [payment EXCEPT ![o].status = "SUCCEEDED"],
         UNCHANGED <<stripe, events, returns>>
  PROVE  RInv'
<1>1. sold[o] = 0 /\ o \in Orders \ Delivered
  BY DEF RInv, TypeInv, TablesOK
<1>2. stock' \in [Variants -> Nat]
  <2>1. \A v \in Variants : stock[v] \in Nat /\ Quantity[o][v] \in Nat /\ stock[v] >= Quantity[o][v]
    BY ConstantFacts DEF RInv, TypeInv, TablesOK, InStock, Assumptions
  <2>2. \A v \in Variants : stock[v] - Quantity[o][v] \in Nat
    BY <2>1
  <2>. QED  BY <2>2 DEF TakeStock
<1>3. sold' \in [Orders -> {0, 1}] /\ \A p \in Orders : p # o => sold'[p] = sold[p]
  BY <1>1 DEF TakeStock, RInv, TypeInv, TablesOK
<1>4. order' \in [Orders -> OrderStatus]
      /\ \A p \in Orders : order'[p] = "PENDING" => p # o /\ order[p] = "PENDING"
  BY DEF RInv, TypeInv, TablesOK, OrderStatus
<1>5. payment' \in [Orders -> PaymentRow]
  <2>1. "SUCCEEDED" \in PaymentStatus
    BY DEF PaymentStatus
  <2>. QED  BY <2>1 DEF RInv, TypeInv, TablesOK, PaymentRow
<1>6. TablesOK' /\ EventsOK'
  BY <1>2, <1>3, <1>4, <1>5 DEF RInv, TypeInv, TablesOK, EventsOK
<1>7. FiledOK' /\ ReturnsFitPurchase'
  BY SameCallFiled, FitSame
<1>8. ShelfInv' /\ OneHolder'
  <2>1. \A v \in Variants : PutBack(v)' = PutBack(v)
    BY <1>1, PutBackSale
  <2>. QED  BY <2>1, ShelfKept DEF InState, SameCall
<1>. QED  BY <1>6, <1>7, <1>8 DEF RInv, TypeInv, SameCall, Turn

LEMMA MarkSucceededStep ==
  ASSUME RInv, NEW r \in Actors, NEW o \in Orders, MarkSucceeded(r, o, RefundOrphan(o)),
         UNCHANGED <<stripe, events, returns>>
  PROVE  /\ RInv' /\ SameCall(r)
         /\ rq'[r].pc \in {"idle", "processRefund:read"}
         /\ \A p \in Orders : payment'[p].refunded = payment[p].refunded
<1>1. LocalsOK(RefundOrphan(o)) /\ RefundOrphan(o) \in PlainCall
      /\ RefundOrphan(o).pc = "processRefund:read"
  BY DEF RefundOrphan, Begin, LocalsOK, PlainCall, Refunding
<1>2. /\ SameCall(r)
      /\ rq'[r].pc \in {"idle", "processRefund:read"}
  <2>1. Goto(r, "idle") \/ rq' = [rq EXCEPT ![r] = RefundOrphan(o)]
    BY DEF MarkSucceeded
  <2>2. CASE Goto(r, "idle")
    BY <2>2, GotoIdle, IdleOK DEF RInv
  <2>3. CASE rq' = [rq EXCEPT ![r] = RefundOrphan(o)]
    BY <1>1, <2>3, PlainTurn DEF RInv
  <2>. QED  BY <2>1, <2>2, <2>3
<1>3. payment \in [Orders -> PaymentRow]
  BY DEF RInv, TypeInv, TablesOK
<1>4. \A p \in Orders : payment'[p].refunded = payment[p].refunded
  BY <1>3 DEF MarkSucceeded, PaymentRow
<1>5. CASE UNCHANGED <<order, payment, goods>>
  BY <1>2, <1>5, CalmCall DEF goods
<1>6. CASE ~UNCHANGED <<order, payment, goods>>
  <2>1. payment' = [payment EXCEPT ![o].status = "SUCCEEDED"]
    BY <1>6 DEF MarkSucceeded
  <2>2. payment' \in [Orders -> PaymentRow]
    <3>1. "SUCCEEDED" \in PaymentStatus
      BY DEF PaymentStatus
    <3>. QED  BY <1>3, <2>1, <3>1 DEF PaymentRow
  <2>3. CASE order[o] = "PENDING" /\ InStock(o)
    <3>1. TakeStock(o) /\ order' = [order EXCEPT ![o] = "CONFIRMED"]
      <4>1. payment[o].intentSaved /\ payment[o].status \in UNPAID_STATUSES
        BY <1>6 DEF MarkSucceeded
      <4>. QED  BY <2>3, <4>1 DEF MarkSucceeded
    <3>. QED  BY <1>2, <1>4, <2>1, <2>3, <3>1, SaleStep
  <2>4. CASE ~(order[o] = "PENDING" /\ InStock(o))
    <3>1. UNCHANGED <<stock, sold>>
          /\ (order' = order \/ order' = [order EXCEPT ![o] = "CANCELLED"])
      BY <1>6, <2>4 DEF MarkSucceeded, goods
    <3>2. order' \in [Orders -> OrderStatus]
          /\ \A p \in Orders : order'[p] = "PENDING" => order[p] = "PENDING"
      BY <3>1 DEF RInv, TypeInv, TablesOK, OrderStatus
    <3>3. EventsOK'
      BY DEF RInv, TypeInv, EventsOK
    <3>4. TablesOK'
      BY <2>2, <3>1, <3>2 DEF RInv, TypeInv, TablesOK
    <3>. QED  BY <1>2, <1>4, <3>1, <3>3, <3>4, CalmTables
  <2>. QED  BY <2>3, <2>4
<1>. QED  BY <1>1, <1>2, <1>4, <1>5, <1>6

LEMMA HandleEventStep ==
  ASSUME RInv, NEW h \in Hooks, NEW e \in events, HandleEvent(h, e), UNCHANGED returns
  PROVE  /\ RInv' /\ SameCall(h) /\ UNCHANGED <<stripe, events>>
         /\ rq'[h].pc \in {"idle", "processRefund:read", "syncRefund:write"}
         /\ rq'[h].pc = "syncRefund:write" =>
              e.type = "refunded" /\ e.total > payment[e.o].refunded
         /\ \A p \in Orders : payment'[p].refunded = payment[p].refunded
<1>1. /\ h \in Actors /\ rq[h].pc = "idle" /\ UNCHANGED <<stripe, events, returns>>
      /\ e.type \in {"succeeded", "refunded"} /\ e.o \in Orders /\ e.total \in Nat
  BY DEF HandleEvent, At, Actors, RInv, TypeInv, EventsOK
<1>2. CASE e.type = "succeeded"
  <2>1. MarkSucceeded(h, e.o, RefundOrphan(e.o))
    BY <1>2 DEF HandleEvent
  <2>. QED  BY <1>1, <2>1, MarkSucceededStep
<1>3. CASE e.type = "refunded" /\ UNCHANGED rq
  <2>1. UNCHANGED <<order, payment, stock, sold>>
    BY <1>3 DEF HandleEvent, goods
  <2>2. SameCall(h)
    BY <1>1, <1>3 DEF SameCall, Turn, RInv, TypeInv, RequestsOK
  <2>. QED  BY <1>1, <1>3, <2>1, <2>2, CalmCall
<1>4. CASE e.type = "refunded" /\ ~UNCHANGED rq
  <2>. DEFINE q == [Begin(e.o, "syncRefund:write") EXCEPT !.want = e.total]
  <2>1. /\ e.total > payment[e.o].refunded
        /\ rq' = [rq EXCEPT ![h] = q]
        /\ UNCHANGED <<order, payment, stock, sold>>
    BY <1>4 DEF HandleEvent, goods
  <2>2. LocalsOK(q) /\ q \in PlainCall /\ q.pc = "syncRefund:write"
    BY <1>1 DEF LocalsOK, Begin, PlainCall, Refunding
  <2>. HIDE DEF q
  <2>3. rq'[h] = q /\ SameCall(h)
    BY <1>1, <2>1, <2>2, PlainTurn DEF RInv
  <2>. QED  BY <1>1, <1>4, <2>1, <2>2, <2>3, CalmCall
<1>. QED  BY <1>1, <1>2, <1>3, <1>4

LEMMA CrashStep ==
  ASSUME RInv, NEW r \in Actors, Crash(r), UNCHANGED returns
  PROVE  RInv' /\ SameCall(r) /\ rq'[r] = Idle
<1>1. SameCall(r) /\ rq'[r] = Idle
  BY GotoIdle DEF Crash, RInv
<1>. QED  BY <1>1, CalmCall DEF Crash, goods

(* No call of this module asks for an intent, cancels one or reconciles.    *)
LEMMA PaymentStepKinds ==
  ASSUME RInv, NEW r \in Actors, PaymentStep(r)
  PROVE  ReadRefundable(r) \/ ReserveRefund(r) \/ RefundAtStripe(r)
         \/ ReleaseRefund(r) \/ RecordRefund(r) \/ SyncRefund(r)
<1>1. rq[r].pc \in ({"idle", "requestReturn:insert", "syncRefund:write"} \cup Refunding)
                     \cup (Loading \cup Settling)
  <2>1. rq[r] \in PlainCall \/ rq[r] \in ApprovalCall
    BY TypedRequest DEF RInv
  <2>2. CASE rq[r] \in PlainCall
    BY <2>2 DEF PlainCall
  <2>3. CASE rq[r] \in ApprovalCall
    BY <2>3 DEF ApprovalCall
  <2>. QED  BY <2>1, <2>2, <2>3
<1>. QED
  BY <1>1 DEF PaymentStep, CreateIntent, SaveIntent, FindOpenPayment, CancelIntent,
     FailPayment, Reconcile, ReconcileSucceeded, ReconcileFailed, At, Refunding,
     Loading, Settling

-----------------------------------------------------------------------------
(* What refunds reserve, step by step, when no answer of Stripe is lost.    *)
LEMMA ReserveRefundMoney ==
  ASSUME MInv, NEW r \in Actors, ReserveRefund(r), UNCHANGED returns
  PROVE  ReserveInv' /\ NothingToSync'
<1>. DEFINE o == rq[r].o
<1>1. /\ rq[r].pc = "processRefund:reserve" /\ rq[r].pc \in Refunding
      /\ o \in Orders /\ rq[r].amt \in Nat
      /\ UNCHANGED <<stripe, events>>
  BY TypedRequest DEF ReserveRefund, At, Refunding, MInv, RInv
<1>2. CASE payment[o].refunded # rq[r].base
  <2>1. Goto(r, rq[r].err) /\ UNCHANGED payment
    BY <1>2 DEF ReserveRefund
  <2>2. SameCall(r) /\ rq'[r].pc = rq[r].err
    BY <1>1, <2>1, RefundMoves DEF MInv, RInv
  <2>3. rq[r].err \in {"idle", "approveReturn:undo"}
    BY TypedRequest, CallKind DEF MInv, RInv
  <2>. QED  BY <1>1, <2>1, <2>2, <2>3, MoneyCalm DEF SameCall, Turn
<1>3. CASE payment[o].refunded = rq[r].base
  <2>1. /\ payment' = [payment EXCEPT ![o].refunded = payment[o].refunded + rq[r].amt]
        /\ Goto(r, "processRefund:stripe")
    BY <1>3 DEF ReserveRefund
  <2>2. /\ SameCall(r) /\ rq'[r].pc = "processRefund:stripe" /\ rq'[r].amt = rq[r].amt
        /\ \A p : IsReserved(rq'[r], p) <=> o = p
    BY <1>1, <2>1, RefundMoves DEF MInv, RInv, Refunding
  <2>3. \A p : Held(rq[r], p) = 0 /\ Held(rq'[r], p) = IF p = o THEN rq[r].amt ELSE 0
    BY <1>1, <2>2 DEF Held, IsReserved
  <2>4. ASSUME NEW p \in Orders
        PROVE  /\ payment'[p].refunded \in Int /\ stripe'[p].refunded \in Int
               /\ stripe'[p].refunded + Held(rq'[r], p) - payment'[p].refunded
                    <= stripe[p].refunded + Held(rq[r], p) - payment[p].refunded
    <3>1. stripe[p].refunded \in Nat /\ payment[p].refunded \in Int
      BY MoneyTypes DEF MInv
    <3>2. payment'[p].refunded = payment[p].refunded + (IF p = o THEN rq[r].amt ELSE 0)
      BY <1>1, <2>1, <3>1 DEF MInv, RInv, TypeInv, TablesOK, PaymentRow
    <3>. QED  BY <1>1, <2>3, <3>1, <3>2
  <2>5. ReserveInv'
    BY <2>2, <2>4, ReserveMoves DEF SameCall, Turn
  <2>6. NothingToSync'
    BY <1>1, <2>2 DEF MInv, NothingToSync, SameCall, Turn
  <2>. QED  BY <2>5, <2>6
<1>. QED  BY <1>2, <1>3

LEMMA RefundAtStripeMoney ==
  ASSUME MInv, NEW r \in Actors, RefundAtStripe(r), UNCHANGED returns, "lost" \notin Faults
  PROVE  ReserveInv' /\ NothingToSync'
<1>. DEFINE o == rq[r].o
            key == <<rq[r].base, rq[r].amt>>
            total == stripe[o].refunded + rq[r].amt
<1>1. /\ rq[r].pc = "processRefund:stripe" /\ rq[r].pc \in Refunding
      /\ o \in Orders /\ rq[r].amt \in Nat
      /\ UNCHANGED payment
  BY TypedRequest DEF RefundAtStripe, At, Refunding, MInv, RInv
<1>2. PICK pc \in {"processRefund:record", "processRefund:release"} : Goto(r, pc)
  BY DEF RefundAtStripe
<1>3. /\ SameCall(r) /\ rq'[r].pc = pc /\ rq'[r].amt = rq[r].amt
      /\ \A p : IsReserved(rq'[r], p) <=> o = p /\ pc = "processRefund:release"
  BY <1>1, <1>2, RefundMoves DEF MInv, RInv, Refunding
<1>4. \A p : /\ Held(rq[r], p) = IF p = o THEN rq[r].amt ELSE 0
             /\ Held(rq'[r], p) =
                  IF p = o /\ pc = "processRefund:release" THEN rq[r].amt ELSE 0
  BY <1>1, <1>3 DEF Held, IsReserved
<1>5. CASE UNCHANGED <<stripe, events>>
  <2>1. ASSUME NEW p \in Orders
        PROVE  /\ payment'[p].refunded \in Int /\ stripe'[p].refunded \in Int
               /\ stripe'[p].refunded + Held(rq'[r], p) - payment'[p].refunded
                    <= stripe[p].refunded + Held(rq[r], p) - payment[p].refunded
    <3>1. stripe[p].refunded \in Nat /\ payment[p].refunded \in Int
      BY MoneyTypes DEF MInv
    <3>. QED  BY <1>1, <1>4, <1>5, <3>1
  <2>2. ReserveInv'
    BY <1>3, <2>1, ReserveMoves DEF SameCall, Turn
  <2>3. NothingToSync'
    BY <1>3, <1>5 DEF MInv, NothingToSync, SameCall, Turn
  <2>. QED  BY <2>2, <2>3
<1>6. CASE ~UNCHANGED <<stripe, events>>
  <2>1. /\ stripe' = [stripe EXCEPT ![o].refunded = total,
                                    ![o].keys = stripe[o].keys \cup {key}]
        /\ events' = events \cup {Event("refunded", o, total)}
        /\ Goto(r, "processRefund:record")
    BY <1>6 DEF RefundAtStripe
  <2>2. pc = "processRefund:record"
    BY <1>1, <1>3, <2>1, RefundMoves DEF MInv, RInv, Refunding
  <2>3. \A p \in Orders : /\ stripe[p].refunded \in Nat /\ payment[p].refunded \in Int
                         /\ stripe'[p].refunded = stripe[p].refunded + Held(rq[r], p)
    <3>1. \A p \in Orders : stripe[p].refunded \in Nat /\ payment[p].refunded \in Int
      BY MoneyTypes DEF MInv
    <3>. HIDE DEF key
    <3>. QED  BY <1>1, <1>4, <2>1, <3>1 DEF MInv, RInv, TypeInv, TablesOK, StripeRow
  <2>. HIDE DEF total, key
  <2>4. ASSUME NEW p \in Orders
        PROVE  /\ payment'[p].refunded \in Int /\ stripe'[p].refunded \in Int
               /\ stripe'[p].refunded + Held(rq'[r], p) - payment'[p].refunded
                    <= stripe[p].refunded + Held(rq[r], p) - payment[p].refunded
    BY <1>1, <1>4, <2>2, <2>3
  <2>5. ReserveInv'
    BY <1>3, <2>4, ReserveMoves DEF SameCall, Turn
  <2>6. NothingToSync'
    <3>1. \A e \in events : e.type = "refunded" =>
            e.o \in Orders /\ e.total \in Nat /\ e.total <= stripe[e.o].refunded
      BY DEF MInv, NothingToSync, RInv, TypeInv, EventsOK
    <3>2. \A p \in Orders : stripe[p].refunded <= stripe'[p].refunded
      BY <1>1, <1>4, <2>3
    <3>3. stripe'[o].refunded = total /\ total \in Nat
      BY <1>1, <1>4, <2>3 DEF total
    <3>4. \A e \in events' : e.type = "refunded" => e.total <= stripe'[e.o].refunded
      <4>. SUFFICES ASSUME NEW e \in events', e.type = "refunded"
           PROVE  e.total <= stripe'[e.o].refunded
        OBVIOUS
      <4>1. CASE e \in events
        <5>1. /\ stripe[e.o].refunded \in Nat /\ stripe'[e.o].refunded \in Int
              /\ e.total <= stripe[e.o].refunded /\ e.total \in Nat
              /\ stripe[e.o].refunded <= stripe'[e.o].refunded
          BY <2>3, <2>4, <3>1, <3>2, <4>1
        <5>. QED  BY <5>1
      <4>2. CASE e = Event("refunded", o, total)
        BY <3>3, <4>2 DEF Event
      <4>. QED  BY <2>1, <4>1, <4>2
    <3>5. \A a \in Actors : rq'[a].pc # "syncRefund:write"
      BY <1>3 DEF MInv, NothingToSync, SameCall, Turn
    <3>. QED  BY <3>4, <3>5 DEF NothingToSync
  <2>. QED  BY <2>5, <2>6
<1>. QED  BY <1>5, <1>6

LEMMA ReleaseRefundMoney ==
  ASSUME MInv, NEW r \in Actors, ReleaseRefund(r), UNCHANGED returns
  PROVE  ReserveInv' /\ NothingToSync'
<1>. DEFINE o == rq[r].o
<1>1. /\ rq[r].pc = "processRefund:release" /\ rq[r].pc \in Refunding
      /\ o \in Orders /\ rq[r].amt \in Nat
      /\ UNCHANGED <<stripe, events>>
      /\ Goto(r, rq[r].err)
      /\ payment' = [payment EXCEPT ![o].refunded = payment[o].refunded - rq[r].amt]
  BY TypedRequest DEF ReleaseRefund, At, Refunding, MInv, RInv
<1>2. SameCall(r) /\ rq'[r].pc = rq[r].err
  BY <1>1, RefundMoves DEF MInv, RInv
<1>3. rq[r].err \in {"idle", "approveReturn:undo"}
  BY TypedRequest, CallKind DEF MInv, RInv
<1>4. \A p : Held(rq'[r], p) = 0 /\ Held(rq[r], p) = IF p = o THEN rq[r].amt ELSE 0
  BY <1>1, <1>2, <1>3 DEF Held, IsReserved
<1>5. ASSUME NEW p \in Orders
      PROVE  /\ payment'[p].refunded \in Int /\ stripe'[p].refunded \in Int
             /\ stripe'[p].refunded + Held(rq'[r], p) - payment'[p].refunded
                  <= stripe[p].refunded + Held(rq[r], p) - payment[p].refunded
  <2>1. stripe[p].refunded \in Nat /\ payment[p].refunded \in Int
    BY MoneyTypes DEF MInv
  <2>2. payment'[p].refunded = payment[p].refunded - (IF p = o THEN rq[r].amt ELSE 0)
    BY <1>1, <2>1 DEF MInv, RInv, TypeInv, TablesOK, PaymentRow
  <2>. QED  BY <1>1, <1>4, <2>1, <2>2
<1>6. ReserveInv'
  BY <1>2, <1>5, ReserveMoves DEF SameCall, Turn
<1>7. NothingToSync'
  BY <1>1, <1>2, <1>3 DEF MInv, NothingToSync, SameCall, Turn
<1>. QED  BY <1>6, <1>7

LEMMA RecordRefundMoney ==
  ASSUME MInv, NEW r \in Actors, RecordRefund(r), UNCHANGED returns
  PROVE  ReserveInv' /\ NothingToSync'
<1>1. /\ rq[r].pc \in Refunding /\ rq[r].o \in Orders
      /\ UNCHANGED <<stripe, events>> /\ Goto(r, rq[r].ok)
  BY TypedRequest DEF RecordRefund, At, Refunding, MInv, RInv
<1>2. SameCall(r) /\ rq'[r].pc = rq[r].ok
  BY <1>1, RefundMoves DEF MInv, RInv
<1>3. rq[r].ok \in {"idle", "approveReturn:record"}
  BY TypedRequest, CallKind DEF MInv, RInv
<1>4. \A p \in Orders : payment'[p].refunded = payment[p].refunded
  BY <1>1 DEF RecordRefund, MInv, RInv, TypeInv, TablesOK, PaymentRow
<1>. QED  BY <1>1, <1>2, <1>3, <1>4, MoneyCalm DEF SameCall, Turn

-----------------------------------------------------------------------------
(* The invariants hold at the start.                                        *)
LEMMA ReturnInitOK == ReturnInit => MInv
<1>. SUFFICES ASSUME ReturnInit PROVE MInv
  OBVIOUS
<1>0. Assumptions
  BY ConstantFacts
<1>1. \A r \in Actors : rq[r] = Idle
  BY DEF ReturnInit
<1>2. RequestsOK /\ FiledOK
  <2>1. rq \in [Actors -> PlainCall \cup ApprovalCall]
    BY IdleOK DEF ReturnInit
  <2>. QED  BY <1>1, <2>1, IdleOK DEF RequestsOK, FiledOK
<1>3. TablesOK
  <2>1. order \in [Orders -> OrderStatus] /\ sold \in [Orders -> {0, 1}]
    BY DEF ReturnInit, OrderStatus
  <2>2. payment \in [Orders -> PaymentRow]
    BY DEF ReturnInit, PaymentRow, PaymentStatus, UNPAID_STATUSES
  <2>3. stock \in [Variants -> Nat] /\ stripe \in [Orders -> StripeRow]
    BY <1>0 DEF ReturnInit, StripeRow, Assumptions
  <2>4. returns \in [Returns -> ReturnRow]
    BY DEF ReturnInit, ReturnRow, ReturnStatus, Null
  <2>5. \A x \in Returns : returns[x].status = "none"
    BY DEF ReturnInit
  <2>6. \A o \in Orders : order[o] = "PENDING" => sold[o] = 0 /\ o \notin Delivered
    BY DEF ReturnInit
  <2>. QED  BY <2>1, <2>2, <2>3, <2>4, <2>5, <2>6 DEF TablesOK
<1>4. /\ EventsOK
      /\ \A e \in events : e.type # "refunded"
  BY DEF ReturnInit, EventsOK, Event
<1>5. ReturnsFitPurchase
  <2>. SUFFICES ASSUME NEW o \in Delivered, NEW v \in Variants
       PROVE  UnitsIn(Counted(o), v) <= Quantity[o][v]
    BY DEF ReturnsFitPurchase, Counted
  <2>1. Counted(o) = {} /\ Counted(o) \in SUBSET Returns
    BY DEF Counted, CountsAgainst, ReturnInit
  <2>2. UnitsIn(Counted(o), v) = 0
    BY <2>1, UnitsInSum, SumEmpty
  <2>. QED  BY <1>0, <2>2 DEF Assumptions
<1>6. ShelfInv
  <2>1. InState({"APPROVED", "REJECTED"}) = {} /\ Approved = {}
    BY DEF InState, Approved, ReturnInit
  <2>2. ASSUME NEW v \in Variants PROVE PutBack(v) = UnitsIn({}, v)
    <3>1. \A o \in Orders \ Delivered : SoldUnits(sold, v)[o] = 0
      BY <1>0 DEF ReturnInit, SoldUnits, Assumptions
    <3>2. IsFiniteSet(Orders \ Delivered)
      BY <1>0, FS_Subset DEF Assumptions
    <3>3. SumFunctionOnSet(SoldUnits(sold, v), Orders \ Delivered) = 0
      BY <3>1, <3>2, SumZero
    <3>4. stock[v] = InitialStock[v] /\ InitialStock[v] \in Nat
      BY <1>0 DEF ReturnInit, Assumptions
    <3>5. PutBack(v) = 0
      BY <3>3, <3>4, PutBackSum
    <3>6. UnitsIn({}, v) = 0
      BY UnitsInSum, SumEmpty
    <3>. QED  BY <3>5, <3>6
  <2>. QED  BY <1>1, <2>1, <2>2, IdleOK DEF ShelfInv
<1>7. OneHolder
  BY <1>1, IdleOK DEF OneHolder
<1>8. ReserveInv
  <2>. SUFFICES ASSUME NEW o \in Orders
       PROVE  IsFiniteSet(Reserving(o)) /\ stripe[o].refunded + Reserved(o) <= payment[o].refunded
    BY DEF ReserveInv
  <2>1. Reserving(o) = {}
    BY <1>1, IdleOK DEF Reserving
  <2>2. IsFiniteSet({})
    BY FS_EmptySet
  <2>3. Reserved(o) = 0
    BY <2>1, SumEmpty DEF Reserved
  <2>. QED  BY <2>1, <2>2, <2>3 DEF ReturnInit
<1>9. NothingToSync
  BY <1>1, <1>4, IdleOK DEF NothingToSync
<1>. QED  BY <1>2, <1>3, <1>4, <1>5, <1>6, <1>7, <1>8, <1>9 DEF MInv, RInv, TypeInv

LEMMA ReturnStutters ==
  ASSUME RInv, UNCHANGED returnVars
  PROVE  RInv'
<1>1. UNCHANGED <<order, payment, stock, stripe, events, sold, returns, rq>>
  BY DEF returnVars, vars
<1>2. TypeInv'
  BY <1>1 DEF RInv, TypeInv, RequestsOK, TablesOK, EventsOK, FiledOK
<1>3. ReturnsFitPurchase'
  BY <1>1, FitSame
<1>4. PICK B \in SUBSET InState({"APPROVED", "REJECTED"}) :
        /\ Approved \subseteq B
        /\ \A v \in Variants : PutBack(v) = UnitsIn(B, v)
        /\ \A a \in Actors : HoldsReturn(rq[a]) => rq[a].ret \in B
  BY DEF RInv, ShelfInv
<1>5. /\ B \in SUBSET Returns /\ B \subseteq InState({"APPROVED", "REJECTED"})'
      /\ Approved' \subseteq B
      /\ \A a \in Actors : HoldsReturn(rq'[a]) => rq'[a].ret \in B
  BY <1>1, <1>4 DEF InState, Approved
<1>6. \A v \in Variants : PutBack(v)' = SumFunctionOnSet(Items(returns', v), B)
  BY <1>1, <1>4, <1>5, PutBackSum, PutBackSumNext, UnitsInSum
<1>7. ShelfInv' /\ OneHolder'
  BY <1>1, <1>5, <1>6, ShelfStep DEF RInv, OneHolder
<1>. QED  BY <1>2, <1>3, <1>7 DEF RInv

LEMMA ReturnNextOK == RInv /\ [ReturnNext]_returnVars => RInv'
<1>. SUFFICES ASSUME RInv, [ReturnNext]_returnVars PROVE RInv'
  OBVIOUS
<1>1. ASSUME NEW r \in Requests, ReturnRequest(r) PROVE RInv'
  <2>0. r \in Actors
    BY DEF Actors
  <2>1. CASE \E o \in Delivered : RequestReturn(r, o)
    BY <2>0, <2>1, RequestReturnStep
  <2>2. CASE \E x \in Returns : ApproveReturn(r, x)
    BY <2>0, <2>2, ReturnCallStep DEF ApproveReturn, goods
  <2>3. CASE \E x \in Returns : RejectReturn(r, x)
    BY <2>0, <2>3, ReturnCallStep DEF RejectReturn, goods
  <2>4. CASE /\ \E o \in Delivered, a \in RefundAmounts \cup {0} : Refund(r, o, a)
             /\ UNCHANGED returns
    BY <2>0, <2>4, RefundStep
  <2>. QED  BY <1>1, <2>1, <2>2, <2>3, <2>4 DEF ReturnRequest
<1>2. ASSUME NEW r \in Requests, ReturnStep(r) PROVE RInv'
  <2>0. r \in Actors
    BY DEF Actors
  <2>. QED  BY <1>2, <2>0, InsertReturnStep, ReadReturnRefundStep, ClaimReturnStep,
              UndoApprovalStep, RecordReturnStep, WriteRejectionStep DEF ReturnStep
<1>3. ASSUME NEW r \in Actors, PaymentStep(r), UNCHANGED returns PROVE RInv'
  BY <1>3, PaymentStepKinds, ReadRefundableStep, ReserveRefundStep, RefundAtStripeStep,
     ReleaseRefundStep, RecordRefundStep, SyncRefundStep
<1>4. ASSUME NEW r \in Actors, Crash(r), UNCHANGED returns PROVE RInv'
  BY <1>4, CrashStep
<1>5. ASSUME NEW h \in Hooks, NEW e \in events, HandleEvent(h, e), UNCHANGED returns
      PROVE  RInv'
  BY <1>5, HandleEventStep
<1>6. CASE UNCHANGED returnVars
  BY <1>6, ReturnStutters
<1>. QED  BY <1>1, <1>2, <1>3, <1>4, <1>5, <1>6 DEF ReturnNext

LEMMA ReservedType ==
  ASSUME RInv, ReserveInv, NEW o \in Orders
  PROVE  Reserved(o) \in Nat
<1>1. \A a \in Reserving(o) : Amounts[a] \in Nat
  BY TypedRequest DEF Reserving, Amounts, RInv
<1>2. IsFiniteSet(Reserving(o))
  BY DEF ReserveInv
<1>. QED  BY <1>1, <1>2, SumMonotone DEF Reserved

LEMMA MoneyNextOK ==
  ASSUME MInv, [ReturnNext]_returnVars, "lost" \notin Faults
  PROVE  MInv'
<1>0. RInv'
  BY ReturnNextOK DEF MInv
<1>00. RInv /\ RequestsOK'
  BY <1>0 DEF MInv, RInv, TypeInv
<1>. SUFFICES ReserveInv' /\ NothingToSync'
  BY <1>0 DEF MInv
<1>1. ASSUME NEW r \in Requests, ReturnRequest(r) PROVE ReserveInv' /\ NothingToSync'
  <2>0. r \in Actors
    BY DEF Actors
  <2>1. /\ UNCHANGED <<payment, stripe, events>>
        /\ \A a \in Actors : a # r => rq'[a] = rq[a]
        /\ rq'[r].pc \in {"requestReturn:insert", "processRefund:read",
                          "approveReturn:read", "rejectReturn:write"}
    <3>1. CASE \E o \in Delivered : RequestReturn(r, o)
      BY <1>00, <2>0, <3>1, RequestReturnStep DEF RequestReturn, SameCall, Turn
    <3>2. CASE \E x \in Returns : ApproveReturn(r, x)
      BY <1>00, <2>0, <3>2, ReturnCallStep DEF ApproveReturn, goods, Turn
    <3>3. CASE \E x \in Returns : RejectReturn(r, x)
      BY <1>00, <2>0, <3>3, ReturnCallStep DEF RejectReturn, goods, Turn
    <3>4. CASE /\ \E o \in Delivered, a \in RefundAmounts \cup {0} : Refund(r, o, a)
               /\ UNCHANGED returns
      BY <1>00, <2>0, <3>4, RefundStep DEF Refund, SameCall, Turn
    <3>. QED  BY <1>1, <3>1, <3>2, <3>3, <3>4 DEF ReturnRequest
  <2>. QED  BY <1>00, <2>0, <2>1, MoneyCalm
<1>2. ASSUME NEW r \in Requests, ReturnStep(r) PROVE ReserveInv' /\ NothingToSync'
  <2>0. r \in Actors /\ UNCHANGED <<payment, stripe, events>>
    BY <1>2 DEF Actors, ReturnStep, InsertReturn, ReadReturnRefund, ClaimReturn, UndoApproval,
       RecordReturn, WriteRejection
  <2>1. /\ \A a \in Actors : a # r => rq'[a] = rq[a]
        /\ rq'[r].pc \in {"idle", "approveReturn:claim", "processRefund:read",
                          "approveReturn:record"}
    BY <1>00, <1>2, <2>0, InsertReturnStep, ReadReturnRefundStep, ClaimReturnStep,
       UndoApprovalStep, RecordReturnStep, WriteRejectionStep, IdleOK
    DEF ReturnStep, SameCall, Turn
  <2>. QED  BY <1>00, <2>0, <2>1, MoneyCalm
<1>3. ASSUME NEW r \in Actors, PaymentStep(r), UNCHANGED returns
      PROVE  ReserveInv' /\ NothingToSync'
  <2>1. CASE ReadRefundable(r)
    BY <1>00, <1>3, <2>1, ReadRefundableStep, MoneyCalm DEF ReadRefundable, SameCall, Turn
  <2>2. ~SyncRefund(r)
    BY DEF SyncRefund, At, MInv, NothingToSync
  <2>. QED  BY <1>00, <1>3, <2>1, <2>2, PaymentStepKinds, ReserveRefundMoney,
              RefundAtStripeMoney, ReleaseRefundMoney, RecordRefundMoney
<1>4. ASSUME NEW r \in Actors, Crash(r), UNCHANGED returns
      PROVE  ReserveInv' /\ NothingToSync'
  BY <1>00, <1>4, CrashStep, MoneyCalm, IdleOK DEF Crash, SameCall, Turn
<1>5. ASSUME NEW h \in Hooks, NEW e \in events, HandleEvent(h, e), UNCHANGED returns
      PROVE  ReserveInv' /\ NothingToSync'
  <2>1. /\ h \in Actors /\ UNCHANGED <<stripe, events>>
        /\ \A a \in Actors : a # h => rq'[a] = rq[a]
        /\ rq'[h].pc \in {"idle", "processRefund:read", "syncRefund:write"}
        /\ rq'[h].pc = "syncRefund:write" =>
             e.type = "refunded" /\ e.total > payment[e.o].refunded
        /\ \A p \in Orders : payment'[p].refunded = payment[p].refunded
    BY <1>00, <1>5, HandleEventStep DEF SameCall, Turn, Actors
  <2>2. e.type = "refunded" => ~(e.total > payment[e.o].refunded)
    <3>. SUFFICES ASSUME e.type = "refunded" PROVE ~(e.total > payment[e.o].refunded)
      OBVIOUS
    <3>1. e.o \in Orders /\ e.total \in Nat /\ e.total <= stripe[e.o].refunded
      BY DEF MInv, NothingToSync, RInv, TypeInv, EventsOK
    <3>2. stripe[e.o].refunded + Reserved(e.o) <= payment[e.o].refunded
      BY <3>1 DEF MInv, ReserveInv
    <3>3. Reserved(e.o) \in Nat
      BY <3>1, ReservedType DEF MInv
    <3>4. stripe[e.o].refunded \in Nat /\ payment[e.o].refunded \in Int
      BY <1>00, <3>1, MoneyTypes
    <3>. QED  BY <3>1, <3>2, <3>3, <3>4
  <2>3. rq'[h].pc \notin {"processRefund:stripe", "processRefund:release", "syncRefund:write"}
    BY <2>1, <2>2
  <2>. QED  BY <1>00, <2>1, <2>3, MoneyCalm
<1>6. CASE UNCHANGED returnVars
  BY <1>6 DEF returnVars, vars, MInv, ReserveInv, NothingToSync, Reserving, Reserved, Amounts,
     IsReserved
<1>. QED  BY <1>1, <1>2, <1>3, <1>4, <1>5, <1>6 DEF ReturnNext

(* What is on the shelf covers the approved returns, and no return twice.   *)
LEMMA ShelfMeaning == RInv => ReturnsRestockedOnce
<1>. SUFFICES ASSUME RInv, NEW v \in Variants
     PROVE  /\ UnitsIn(Approved, v) <= PutBack(v)
            /\ PutBack(v) <= UnitsIn(InState({"APPROVED", "REJECTED"}), v)
  BY DEF ReturnsRestockedOnce, Approved, InState
<1>. DEFINE S == InState({"APPROVED", "REJECTED"})
<1>1. PICK B \in SUBSET S : Approved \subseteq B /\ PutBack(v) = UnitsIn(B, v)
  BY DEF RInv, ShelfInv
<1>2. /\ S \in SUBSET Returns /\ B \in SUBSET Returns /\ Approved \in SUBSET Returns
      /\ IsFiniteSet(S) /\ IsFiniteSet(B) /\ B \subseteq S
  <2>1. S \in SUBSET Returns
    BY DEF InState
  <2>. QED  BY <1>1, <2>1, ConstantFacts, FS_Subset DEF Assumptions
<1>. HIDE DEF S
<1>3. \A x \in S : Items(returns, v)[x] \in Nat
  BY <1>2, ItemTypes DEF RInv
<1>4. /\ SumFunctionOnSet(Items(returns, v), Approved) <= SumFunctionOnSet(Items(returns, v), B)
      /\ SumFunctionOnSet(Items(returns, v), B) <= SumFunctionOnSet(Items(returns, v), S)
  <2>1. \A x \in B : Items(returns, v)[x] \in Nat
    BY <1>2, <1>3
  <2>. QED  BY <1>1, <1>2, <1>3, <2>1, SumMonotone
<1>. QED  BY <1>1, <1>2, <1>4, UnitsInSum DEF S

LEMMA ReserveMeaning == MInv => ReservationCoversRefund
<1>. SUFFICES ASSUME MInv, NEW o \in Orders PROVE stripe[o].refunded <= payment[o].refunded
  BY DEF ReservationCoversRefund
<1>1. stripe[o].refunded + Reserved(o) <= payment[o].refunded
  BY DEF MInv, ReserveInv
<1>2. Reserved(o) \in Nat
  BY ReservedType DEF MInv
<1>3. stripe[o].refunded \in Nat /\ payment[o].refunded \in Int
  BY MoneyTypes DEF MInv
<1>. QED  BY <1>1, <1>2, <1>3

-----------------------------------------------------------------------------
(* However many customers file at once, an order never has more units on    *)
(* their way back than were bought; and what goes on the shelf is at least  *)
(* the approved returns, and at most one time each return that was ever     *)
(* approved, however approvals, failed refunds and rejections race.         *)
THEOREM ReturnsAreCounted ==
  ReturnSpec => [](ReturnsFitPurchase /\ ReturnsRestockedOnce)
<1>1. ReturnInit => RInv
  BY ReturnInitOK DEF MInv
<1>2. RInv => ReturnsFitPurchase
  BY DEF RInv
<1>. QED  BY <1>1, <1>2, ReturnNextOK, ShelfMeaning, PTL DEF ReturnSpec

(* So what is put back covers every approved return, once each.             *)
THEOREM RestocksAreCounted == ReturnSpec => []ReturnsRestockedOnce
  BY ReturnsAreCounted, PTL

(* Unless an answer of Stripe is lost, the row of a payment never shows     *)
(* less than what Stripe gave back.                                         *)
THEOREM RefundsAreReserved ==
  ASSUME "lost" \notin Faults
  PROVE  ReturnSpec => []ReservationCoversRefund
<1>1. MInv /\ [ReturnNext]_returnVars => MInv'
  BY MoneyNextOK
<1>. QED  BY <1>1, ReturnInitOK, ReserveMeaning, PTL DEF ReturnSpec
=============================================================================
