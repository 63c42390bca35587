---------------------------- MODULE CouponService ----------------------------
(***************************************************************************)
(* Coupons (modules/coupon/coupon.service.ts): validated when an order is    *)
(* placed, redeemed when it is paid, released when it is cancelled, and      *)
(* changed by admins meanwhile.  Orders hold a coupon's code, not its id.    *)
(* What a coupon is worth is PricingService's.                              *)
(***************************************************************************)
EXTENDS Naturals, FiniteSets

CONSTANTS
  Coupons,    (* the ids of the Coupon rows that may ever exist             *)
  Codes,      (* the codes admins think of                                 *)
  Checkouts,  (* the orders that use a coupon                               *)
  Shoppers,   (* the signed-in customers                                    *)
  Clerks,     (* the admin calls that read a coupon before they change it   *)
  Limits,     (* the usageLimit and perCustomerLimit pairs admins set; a
                 limit that no count reaches is none                        *)
  Guest, NoCode, NoCoupon

ASSUME CouponAssumption ==
  /\ NoCoupon \notin Coupons /\ NoCode \notin Codes /\ Guest \notin Shoppers
  /\ Limits \subseteq Nat \X Nat

VARIABLES
  coupon,      (* coupon[k]: the row, with its denormalized usedCount       *)
  redemptions, (* the CouponRedemption rows <<coupon, order>>               *)
  sale,        (* sale[o]: the order, its customer and couponCode           *)
  paying,      (* paying[o]: the transaction that confirms order o          *)
  desk,        (* desk[e]: where admin call e is, and what it read          *)
  severed      (* history: the coupons taken from under an order, see
                  PersistSale and BulkDelete                              *)

couponVars == <<coupon, redemptions, sale, paying, desk, severed>>

NoRow == [code |-> NoCode, active |-> FALSE, usageLimit |-> 0,
          perCustomerLimit |-> 0, usedCount |-> 0]

(* coupon is history: the row that was validated for the order.             *)
NoSale == [status |-> "none", buyer |-> Guest, code |-> NoCode, coupon |-> NoCoupon]
NoPaying == [pc |-> "none", k |-> NoCoupon, free |-> FALSE]
NoCall == [pc |-> "idle", k |-> NoCoupon, code |-> NoCode]

-----------------------------------------------------------------------------
Exists(k) == k \in Coupons /\ coupon[k] # NoRow
WithCode(code) == {k \in Coupons : coupon[k].code = code /\ code # NoCode}

UsesOf(k) == {o \in Checkouts : <<k, o>> \in redemptions}
UsesBy(k, u) == {o \in UsesOf(k) : sale[o].buyer = u}

(* couponUsage: the redemptions, and the pending orders with the code.      *)
InUse(k) ==
  UsesOf(k) # {} \/ \E o \in Checkouts : sale[o].status = "PENDING" /\ sale[o].code = coupon[k].code

(* A confirmation holds the coupon's row lock until it commits.             *)
CouponLocked(k) == \E o \in Checkouts : paying[o].pc \in {"count", "create"} /\ paying[o].k = k

(* No limit is reached (validate and redemptionLimitReached).               *)
WithinLimits(k, u) ==
  /\ Cardinality(UsesOf(k)) < coupon[k].usageLimit
  /\ u # Guest => Cardinality(UsesBy(k, u)) < coupon[k].perCustomerLimit

-----------------------------------------------------------------------------
(* createOrder validates the code on the cart.                              *)
Validate(o, u, k) ==
  /\ sale[o].status = "none"
  /\ Exists(k) /\ coupon[k].active /\ WithinLimits(k, u)
  /\ sale' = [sale EXCEPT ![o] = [status |-> "draft", buyer |-> u,
                                  code |-> coupon[k].code, coupon |-> k]]
  /\ UNCHANGED <<coupon, redemptions, paying, desk, severed>>

(* The order is persisted with the code, whatever became of the coupon, and  *)
(* whatever an admin call has checked before it was.                        *)
PersistSale(o) ==
  LET k == sale[o].coupon IN
  /\ sale[o].status = "draft"
  /\ sale' = [sale EXCEPT ![o].status = "PENDING"]
  /\ severed' = IF coupon[k].code # sale[o].code \/ \E e \in Clerks : desk[e].k = k /\ desk[e].code # sale[o].code
                THEN severed \cup {k} ELSE severed
  /\ UNCHANGED <<coupon, redemptions, paying, desk>>

(* An unpaid order is cancelled.                                            *)
CancelUnpaid(o) ==
  /\ sale[o].status = "PENDING" /\ paying[o] = NoPaying
  /\ sale' = [sale EXCEPT ![o].status = "CANCELLED"]
  /\ UNCHANGED <<coupon, redemptions, paying, desk, severed>>

-----------------------------------------------------------------------------
Pay(o, t) == paying' = [paying EXCEPT ![o] = t]

SetConfirmed(o) ==
  /\ sale' = [sale EXCEPT ![o].status = "CONFIRMED"]
  /\ Pay(o, NoPaying)

(* recordRedemption, in the transaction that confirms the order: the coupon *)
(* is looked up by the code; without one the order is confirmed all the same.*)
FindCoupon(o) ==
  /\ sale[o].status = "PENDING" /\ paying[o] = NoPaying
  /\ \/ \E k \in WithCode(sale[o].code) :
          Pay(o, [NoPaying EXCEPT !.pc = "lock", !.k = k]) /\ UNCHANGED sale
     \/ WithCode(sale[o].code) = {} /\ SetConfirmed(o)
  /\ UNCHANGED <<coupon, redemptions, desk, severed>>

(* Mutant: the limits are read without the row lock.                        *)
LockCoupon_mutant(o) ==
  LET k == paying[o].k IN
  /\ paying[o].pc = "lock"
  /\ Pay(o, IF Exists(k) THEN [paying[o] EXCEPT !.pc = "count"] ELSE NoPaying)
  /\ UNCHANGED <<coupon, redemptions, sale, desk, severed>>

(* SELECT ... FOR UPDATE waits for the lock.  If the row is gone by then,    *)
(* no limit applies, and the redemption's foreign key aborts the transaction.*)
LockCoupon(o) ==
  LET k == paying[o].k IN
  /\ paying[o].pc = "lock" /\ ~CouponLocked(k)
  /\ Pay(o, IF Exists(k) THEN [paying[o] EXCEPT !.pc = "count"] ELSE NoPaying)
  /\ UNCHANGED <<coupon, redemptions, sale, desk, severed>>

(* The uses are counted under the lock.                                     *)
CountUses(o) ==
  LET k == paying[o].k IN
  /\ paying[o].pc = "count"
  /\ Pay(o, [paying[o] EXCEPT !.pc = "create", !.free = WithinLimits(k, sale[o].buyer)])
  /\ UNCHANGED <<coupon, redemptions, sale, desk, severed>>

(* Recorded, or skipped at a limit; the transaction commits either way.     *)
RecordRedemption(o) ==
  LET k == paying[o].k IN
  /\ paying[o].pc = "create"
  /\ \/ /\ paying[o].free /\ <<k, o>> \notin redemptions
        /\ redemptions' = redemptions \cup {<<k, o>>}
        /\ coupon' = [coupon EXCEPT ![k].usedCount = @ + 1]
     \/ /\ ~paying[o].free \/ <<k, o>> \in redemptions
        /\ UNCHANGED <<redemptions, coupon>>
  /\ SetConfirmed(o)
  /\ UNCHANGED <<desk, severed>>

(* A restart or a lost connection rolls the transaction back; the payment   *)
(* event is delivered again.                                                *)
RollBackPayment(o) ==
  /\ paying[o] # NoPaying
  /\ Pay(o, NoPaying)
  /\ UNCHANGED <<coupon, redemptions, sale, desk, severed>>

(* Mutant: the count stays.                                                 *)
CancelPaid_mutant(o) ==
  /\ sale[o].status = "CONFIRMED"
  /\ \A k \in Coupons : <<k, o>> \in redemptions => ~CouponLocked(k)
  /\ sale' = [sale EXCEPT ![o].status = "CANCELLED"]
  /\ redemptions' = {r \in redemptions : r[2] # o}
  /\ UNCHANGED <<coupon, paying, desk, severed>>

(* cancelPaidOrder releases the order's redemptions; the counts wait for    *)
(* the row locks.                                                           *)
CancelPaid(o) ==
  /\ sale[o].status = "CONFIRMED"
  /\ \A k \in Coupons : <<k, o>> \in redemptions => ~CouponLocked(k)
  /\ sale' = [sale EXCEPT ![o].status = "CANCELLED"]
  /\ redemptions' = {r \in redemptions : r[2] # o}
  /\ coupon' = [k \in Coupons |->
                  IF <<k, o>> \in redemptions /\ coupon[k].usedCount > 0
                  THEN [coupon[k] EXCEPT !.usedCount = @ - 1] ELSE coupon[k]]
  /\ UNCHANGED <<paying, desk, severed>>

-----------------------------------------------------------------------------
(* createCoupon; generateCoupons mints several with one use each.  The key   *)
(* on the code refuses a second row.                                        *)
CreateCoupon(k, code, limits) ==
  /\ ~Exists(k) /\ WithCode(code) = {}
  /\ \A o \in Checkouts : sale[o].coupon # k
  /\ coupon' = [coupon EXCEPT ![k] =
                  [code |-> code, active |-> TRUE, usageLimit |-> limits[1],
                   perCustomerLimit |-> limits[2], usedCount |-> 0]]
  /\ UNCHANGED <<redemptions, sale, paying, desk, severed>>

(* toggleCoupon, and what updateCoupon writes beside the code.              *)
UpdateCoupon(k, active, limits) ==
  /\ Exists(k) /\ ~CouponLocked(k)
  /\ coupon' = [coupon EXCEPT ![k].active = active, ![k].usageLimit = limits[1],
                              ![k].perCustomerLimit = limits[2]]
  /\ UNCHANGED <<redemptions, sale, paying, desk, severed>>

Takes(e, d) == desk' = [desk EXCEPT ![e] = d]

(* Mutant: only redemptions keep a coupon.                                  *)
CheckUsage_mutant(e, k, pc, code) ==
  /\ desk[e].pc = "idle"
  /\ Exists(k) /\ UsesOf(k) = {}
  /\ Takes(e, [pc |-> pc, k |-> k, code |-> code])
  /\ UNCHANGED <<coupon, redemptions, sale, paying, severed>>

(* deleteCoupon, and updateCoupon with a code: refused while an order        *)
(* depends on the coupon (assertCodeChangeable), unless the code is the one  *)
(* it has, which the editor sends along and the call writes all the same.   *)
CheckUsage(e, k, pc, code) ==
  /\ desk[e].pc = "idle"
  /\ Exists(k) /\ (~InUse(k) \/ code = coupon[k].code)
  /\ Takes(e, [pc |-> pc, k |-> k, code |-> code])
  /\ UNCHANGED <<coupon, redemptions, sale, paying, severed>>

(* Deleted rows take their redemptions with them.                           *)
Delete(ks) ==
  /\ coupon' = [k \in Coupons |-> IF k \in ks THEN NoRow ELSE coupon[k]]
  /\ redemptions' = {r \in redemptions : r[1] \notin ks}

DeleteCoupon(e) ==
  LET k == desk[e].k IN
  /\ desk[e].pc = "delete" /\ ~CouponLocked(k)
  /\ Delete({k})
  /\ Takes(e, NoCall)
  /\ UNCHANGED <<sale, paying, severed>>

(* The key on the code refuses one that is taken.                           *)
RenameCoupon(e) ==
  LET k == desk[e].k IN
  /\ desk[e].pc = "rename" /\ ~CouponLocked(k)
  /\ coupon' = IF Exists(k) /\ WithCode(desk[e].code) \subseteq {k}
               THEN [coupon EXCEPT ![k].code = desk[e].code] ELSE coupon
  /\ Takes(e, NoCall)
  /\ UNCHANGED <<redemptions, sale, paying, severed>>

(* bulkCouponAction, by ids or by batch: one statement, without a check.     *)
BulkDelete(ks) ==
  /\ ks # {} /\ \A k \in ks : Exists(k) /\ ~CouponLocked(k)
  /\ Delete(ks)
  /\ severed' = severed \cup {k \in ks : InUse(k)}
  /\ UNCHANGED <<sale, paying, desk>>

BulkSetActive(ks, active) ==
  /\ \A k \in ks : Exists(k) /\ ~CouponLocked(k)
  /\ coupon' = [k \in Coupons |->
                  IF k \in ks THEN [coupon[k] EXCEPT !.active = active] ELSE coupon[k]]
  /\ UNCHANGED <<redemptions, sale, paying, desk, severed>>

-----------------------------------------------------------------------------
CouponInit ==
  /\ coupon = [k \in Coupons |-> NoRow]
  /\ redemptions = {} /\ severed = {}
  /\ sale = [o \in Checkouts |-> NoSale]
  /\ paying = [o \in Checkouts |-> NoPaying]
  /\ desk = [e \in Clerks |-> NoCall]

Shop(o) ==
  \/ \E u \in Shoppers \cup {Guest}, k \in Coupons : Validate(o, u, k)
  \/ PersistSale(o) \/ CancelUnpaid(o)
  \/ FindCoupon(o) \/ LockCoupon(o) \/ CountUses(o) \/ RecordRedemption(o) \/ RollBackPayment(o)
  \/ CancelPaid(o)

Manage ==
  \/ \E k \in Coupons, code \in Codes, limits \in Limits : CreateCoupon(k, code, limits)
  \/ \E k \in Coupons, active \in BOOLEAN, limits \in Limits :
       UpdateCoupon(k, active, limits)
  \/ \E e \in Clerks, k \in Coupons : CheckUsage(e, k, "delete", NoCode)
  \/ \E e \in Clerks, k \in Coupons, code \in Codes : CheckUsage(e, k, "rename", code)
  \/ \E e \in Clerks : DeleteCoupon(e) \/ RenameCoupon(e)
  \/ \E ks \in SUBSET Coupons : BulkDelete(ks)
  \/ \E ks \in SUBSET Coupons, active \in BOOLEAN : BulkSetActive(ks, active)

CouponNext == Manage \/ \E o \in Checkouts : Shop(o)

CouponSpec == CouponInit /\ [][CouponNext]_couponVars

-----------------------------------------------------------------------------
(* usedCount is "denormalized": through redemptions, cancels and deletions,  *)
(* in whatever order they commit, it is the number of redemption rows.      *)
UsedCountIsRedemptions ==
  \A k \in Coupons : coupon[k].usedCount = Cardinality(UsesOf(k))

(* "A redemption that would exceed usageLimit or perCustomerLimit is not      *)
(* recorded" (#13), although every one of several checkouts opened before    *)
(* the first is paid passes validate.                                       *)
LimitsHold ==
  [][\A k \in Coupons : \A o \in UsesOf(k)' \ UsesOf(k) :
       /\ Cardinality(UsesOf(k)') <= coupon[k].usageLimit
       /\ sale[o].buyer # Guest
            => Cardinality(UsesBy(k, sale[o].buyer)') <= coupon[k].perCustomerLimit]_couponVars

(* "The redemption at payment time looks the coupon up by that code, so       *)
(* PENDING orders pin it" (#44): a pending order's code still leads to the    *)
(* coupon that was validated for it, unless coupons were deleted in bulk, or *)
(* the order was placed behind the check of an admin call that takes the     *)
(* code away.  A save that sends the code it read along takes none away,     *)
(* unless another call has renamed the coupon since.                        *)
PendingOrdersPinCoupon ==
  \A o \in Checkouts : sale[o].status = "PENDING" =>
    WithCode(sale[o].code) = {sale[o].coupon} \/ sale[o].coupon \in severed
=============================================================================
