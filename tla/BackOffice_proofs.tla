------------------------- MODULE BackOffice_proofs --------------------------
(***************************************************************************)
(* Theorems about what admins curate and price, for every value of the     *)
(* constants: coupons, the variants of a product, reviews, the menus, the  *)
(* category tree, and what an order costs.                                 *)
(***************************************************************************)
EXTENDS CategoryService, NavigationService, ReviewService, CouponService,
        CatalogService, PricingService, SumLemmas

-----------------------------------------------------------------------------
(***************************************************************************)
(* Why the count of a coupon is right and its limits hold, for any coupons,   *)
(* orders, customers and admins.  The count is decided before the redemption  *)
(* is written; what makes it still true then is the row lock, which the       *)
(* admins' statements wait for too.                                          *)
(***************************************************************************)

CouponRows ==
  [code : Codes \cup {NoCode}, active : BOOLEAN, usageLimit : Nat,
   perCustomerLimit : Nat, usedCount : Nat]

Sales ==
  [status : {"none", "draft", "PENDING", "CONFIRMED", "CANCELLED"},
   buyer : Shoppers \cup {Guest}, code : Codes \cup {NoCode},
   coupon : Coupons \cup {NoCoupon}]

Payings ==
  [pc : {"none", "lock", "count", "create"}, k : Coupons \cup {NoCoupon}, free : BOOLEAN]

Desks == [pc : {"idle", "delete", "rename"}, k : Coupons \cup {NoCoupon},
          code : Codes \cup {NoCode}]

CouponTypes ==
  /\ coupon \in [Coupons -> CouponRows]
  /\ redemptions \subseteq Coupons \X Checkouts
  /\ sale \in [Checkouts -> Sales]
  /\ paying \in [Checkouts -> Payings]
  /\ desk \in [Clerks -> Desks]

(* A row that exists has a code, and so does an admin's renaming.            *)
RowsInv ==
  /\ \A k \in Coupons : coupon[k] # NoRow => coupon[k].code \in Codes
  /\ \A e \in Clerks : desk[e].pc = "rename" => desk[e].code \in Codes

UsesInv ==
  /\ \A k \in Coupons : IsFiniteSet(UsesOf(k))
  /\ UsedCountIsRedemptions
  /\ \A k \in Coupons : \A o \in UsesOf(k) : sale[o].status = "CONFIRMED"

Holds(o) == paying[o].pc \in {"count", "create"}

(* What a confirmation under way may rely on: its order is not paid yet, the  *)
(* coupon it has locked exists, and the limits it found free are still free.  *)
PayingInv(o) ==
  /\ paying[o] # NoPaying => sale[o].status = "PENDING" /\ paying[o].k \in Coupons
  /\ Holds(o) => Exists(paying[o].k)
  /\ paying[o].pc = "create" /\ paying[o].free => WithinLimits(paying[o].k, sale[o].buyer)

(* A coupon's row is locked by one confirmation at a time.                   *)
LockedOnce ==
  \A o, q \in Checkouts : o # q /\ Holds(o) /\ Holds(q) => paying[o].k # paying[q].k

CouponInv ==
  /\ CouponTypes /\ RowsInv /\ UsesInv /\ LockedOnce
  /\ \A o \in Checkouts : PayingInv(o)

-----------------------------------------------------------------------------
LEMMA NoRowType == NoRow \in CouponRows /\ NoRow.code \notin Codes /\ NoRow.usedCount = 0
BY CouponAssumption DEF NoRow, CouponRows

LEMMA InitCoupon == CouponInit => CouponInv
<1> SUFFICES ASSUME CouponInit PROVE CouponInv
  OBVIOUS
<1>1. CouponTypes
  BY NoRowType DEF CouponInit, CouponTypes, Sales, Payings, Desks, NoSale, NoPaying, NoCall
<1>2. RowsInv
  BY DEF CouponInit, RowsInv, NoCall
<1>3. \A k \in Coupons : UsesOf(k) = {} /\ coupon[k].usedCount = 0
  BY NoRowType DEF CouponInit, UsesOf
<1>4. UsesInv
  BY <1>3, FS_EmptySet DEF UsesInv, UsedCountIsRedemptions
<1>5. \A o \in Checkouts : ~Holds(o) /\ PayingInv(o)
  BY DEF CouponInit, Holds, PayingInv, NoPaying
<1>6. QED
  BY <1>1, <1>2, <1>4, <1>5 DEF CouponInv, LockedOnce

(* Limits that were free stay free while nothing is added to the coupon.     *)
LEMMA StillWithin ==
  ASSUME CouponInv, NEW k \in Coupons, NEW u, WithinLimits(k, u),
         coupon'[k].usageLimit = coupon[k].usageLimit,
         coupon'[k].perCustomerLimit = coupon[k].perCustomerLimit,
         UsesOf(k)' \subseteq UsesOf(k),
         \A q \in UsesOf(k) : sale'[q].buyer = sale[q].buyer
  PROVE  WithinLimits(k, u)'
<1>1. IsFiniteSet(UsesOf(k)) /\ coupon[k] \in CouponRows
  BY DEF CouponInv, UsesInv, CouponTypes
<1>2. /\ IsFiniteSet(UsesOf(k)') /\ Cardinality(UsesOf(k)') <= Cardinality(UsesOf(k))
      /\ Cardinality(UsesOf(k)') \in Nat /\ Cardinality(UsesOf(k)) \in Nat
  BY <1>1, FS_Subset, FS_CardinalityType
<1>3. UsesBy(k, u) \subseteq UsesOf(k) /\ UsesBy(k, u)' \subseteq UsesBy(k, u)
  BY DEF UsesBy
<1>4. IsFiniteSet(UsesBy(k, u))
  BY <1>1, <1>3, FS_Subset
<1>5. /\ Cardinality(UsesBy(k, u)') <= Cardinality(UsesBy(k, u))
      /\ Cardinality(UsesBy(k, u)') \in Nat /\ Cardinality(UsesBy(k, u)) \in Nat
  BY <1>3, <1>4, FS_Subset, FS_CardinalityType
<1>6. coupon[k].usageLimit \in Nat /\ coupon[k].perCustomerLimit \in Nat
  BY <1>1 DEF CouponRows
<1>7. QED
  BY <1>2, <1>5, <1>6 DEF WithinLimits

(* A confirmation whose record and coupon are left alone.                    *)
LEMMA Undisturbed ==
  ASSUME CouponInv, NEW q \in Checkouts, paying'[q] = paying[q],
         paying[q] # NoPaying => sale'[q] = sale[q],
         Holds(q) => /\ Exists(paying[q].k)'
                     /\ coupon'[paying[q].k].usageLimit = coupon[paying[q].k].usageLimit
                     /\ coupon'[paying[q].k].perCustomerLimit
                          = coupon[paying[q].k].perCustomerLimit
                     /\ UsesOf(paying[q].k)' \subseteq UsesOf(paying[q].k)
                     /\ \A p \in UsesOf(paying[q].k) : sale'[p].buyer = sale[p].buyer
  PROVE  PayingInv(q)'
<1> PICK k : k = paying[q].k
  OBVIOUS
<1>1. PayingInv(q) /\ paying[q] \in Payings
  BY DEF CouponInv, CouponTypes
<1>2. Holds(q) => Exists(k)'
  OBVIOUS
<1>3. CASE paying[q] = NoPaying
  BY <1>3 DEF PayingInv, Holds, NoPaying
<1>4. CASE paying[q] # NoPaying
  <2> PICK u : u = sale[q].buyer
    OBVIOUS
  <2>1. paying'[q].k = k /\ sale'[q].buyer = u /\ sale'[q].status = "PENDING" /\ k \in Coupons
    BY <1>1, <1>4 DEF PayingInv
  <2>2. ASSUME paying[q].pc = "create", paying[q].free PROVE WithinLimits(k, u)'
    <3>1. WithinLimits(k, u)
      BY <1>1, <2>2 DEF PayingInv
    <3>2. Holds(q)
      BY <2>2 DEF Holds
    <3>3. QED
      BY <2>1, <3>1, <3>2, StillWithin
  <2>3. QED
    BY <1>2, <2>1, <2>2 DEF PayingInv, Holds, WithinLimits, Exists, UsesBy, UsesOf
<1>5. QED
  BY <1>3, <1>4

-----------------------------------------------------------------------------
(* A step of one checkout that leaves coupons and redemptions alone.         *)
LEMMA OwnStep ==
  ASSUME CouponInv, NEW o \in Checkouts, NEW s \in Sales, NEW t \in Payings,
         sale' = [sale EXCEPT ![o] = s], paying' = [paying EXCEPT ![o] = t],
         coupon' = coupon, redemptions' = redemptions, desk' = desk,
         sale[o].status = "CONFIRMED" => s.status = "CONFIRMED" /\ s.buyer = sale[o].buyer,
         t # NoPaying => s.status = "PENDING" /\ t.k \in Coupons,
         t.pc \in {"count", "create"} =>
           Exists(t.k) /\ \A q \in Checkouts : q # o /\ Holds(q) => paying[q].k # t.k,
         t.pc = "create" /\ t.free => WithinLimits(t.k, s.buyer)
  PROVE  CouponInv'
<1>1. /\ sale' \in [Checkouts -> Sales] /\ paying' \in [Checkouts -> Payings]
      /\ sale'[o] = s /\ paying'[o] = t
      /\ \A q \in Checkouts : q # o => sale'[q] = sale[q] /\ paying'[q] = paying[q]
  BY DEF CouponInv, CouponTypes
<1>2. CouponTypes' /\ RowsInv'
  BY <1>1 DEF CouponInv, CouponTypes, RowsInv
<1>3. \A k \in Coupons : UsesOf(k)' = UsesOf(k) /\ UsesOf(k) \subseteq Checkouts
  BY DEF UsesOf
<1>4. \A k \in Coupons : \A q \in UsesOf(k) :
        /\ q \in Checkouts /\ sale[q].status = "CONFIRMED"
        /\ sale'[q].status = "CONFIRMED" /\ sale'[q].buyer = sale[q].buyer
  BY <1>1, <1>3 DEF CouponInv, UsesInv
<1>5. UsesInv'
  BY <1>3, <1>4 DEF CouponInv, UsesInv, UsedCountIsRedemptions
<1>6. LockedOnce'
  BY <1>1 DEF CouponInv, LockedOnce, Holds
<1>7. ASSUME NEW q \in Checkouts, q # o PROVE PayingInv(q)'
  <2>1. PayingInv(q)
    BY DEF CouponInv
  <2>2. Holds(q) => /\ Exists(paying[q].k)'
                    /\ coupon'[paying[q].k].usageLimit = coupon[paying[q].k].usageLimit
                    /\ coupon'[paying[q].k].perCustomerLimit
                         = coupon[paying[q].k].perCustomerLimit
                    /\ UsesOf(paying[q].k)' \subseteq UsesOf(paying[q].k)
                    /\ \A p \in UsesOf(paying[q].k) : sale'[p].buyer = sale[p].buyer
    BY <1>1, <1>3, <1>4, <1>7, <2>1 DEF PayingInv, Exists
  <2>3. QED
    BY <1>1, <1>7, <2>2, Undisturbed
<1>8. PayingInv(o)'
  <2>1. CASE t = NoPaying
    BY <1>1, <2>1 DEF PayingInv, Holds, NoPaying
  <2>2. CASE t # NoPaying
    <3>1. \A k \in Coupons : WithinLimits(k, s.buyer) => WithinLimits(k, s.buyer)'
      BY <1>3, <1>4, StillWithin
    <3>2. QED
      BY <1>1, <2>2, <3>1 DEF PayingInv, Holds, Exists, WithinLimits, UsesBy, UsesOf
  <2>3. QED
    BY <2>1, <2>2
<1>9. QED
  BY <1>2, <1>5, <1>6, <1>7, <1>8 DEF CouponInv

(* An admin's statement: it waits for the rows that are locked; of any other  *)
(* it leaves the redemptions and their count, or deletes both.               *)
LEMMA AdminStep ==
  ASSUME CouponInv, sale' = sale, paying' = paying,
         coupon' \in [Coupons -> CouponRows], redemptions' \subseteq redemptions,
         desk' \in [Clerks -> Desks], RowsInv',
         \A k \in Coupons : CouponLocked(k) => coupon'[k] = coupon[k],
         \A k \in Coupons :
           \/ UsesOf(k)' = UsesOf(k) /\ coupon'[k].usedCount = coupon[k].usedCount
           \/ UsesOf(k)' = {} /\ coupon'[k].usedCount = 0
  PROVE  CouponInv'
<1>1. CouponTypes'
  BY DEF CouponInv, CouponTypes
<1>2. UsesInv'
  BY FS_EmptySet DEF CouponInv, UsesInv, UsedCountIsRedemptions
<1>3. LockedOnce'
  BY DEF CouponInv, LockedOnce, Holds
<1>4. ASSUME NEW q \in Checkouts PROVE PayingInv(q)'
  <2>1. PayingInv(q)
    BY DEF CouponInv
  <2>2. ASSUME Holds(q)
        PROVE  paying[q].k \in Coupons /\ coupon'[paying[q].k] = coupon[paying[q].k]
    BY <2>1, <2>2 DEF PayingInv, Holds, CouponLocked, Exists
  <2>3. \A k \in Coupons : UsesOf(k)' \subseteq UsesOf(k)
    BY DEF UsesOf
  <2>4. Holds(q) => Exists(paying[q].k)'
    BY <2>1, <2>2 DEF PayingInv, Exists
  <2>5. QED
    BY <2>2, <2>3, <2>4, Undisturbed
<1>5. QED
  BY <1>1, <1>2, <1>3, <1>4 DEF CouponInv

-----------------------------------------------------------------------------
LEMMA OwnFacts ==
  ASSUME CouponInv, NEW o \in Checkouts
  PROVE  /\ sale[o] \in Sales /\ paying[o] \in Payings /\ PayingInv(o)
         /\ sale = [sale EXCEPT ![o] = sale[o]] /\ paying = [paying EXCEPT ![o] = paying[o]]
         /\ NoPaying \in Payings /\ NoPaying.pc = "none"
BY DEF CouponInv, CouponTypes, NoPaying, Payings

(* The order changes, and no confirmation of it is under way after that.     *)
LEMMA IdleStep ==
  ASSUME CouponInv, NEW o \in Checkouts, NEW s \in Sales,
         sale' = [sale EXCEPT ![o] = s], paying' = [paying EXCEPT ![o] = NoPaying],
         coupon' = coupon, redemptions' = redemptions, desk' = desk,
         sale[o].status = "CONFIRMED" => s.status = "CONFIRMED" /\ s.buyer = sale[o].buyer
  PROVE  CouponInv'
BY OwnFacts, OwnStep

LEMMA PlacingStep ==
  ASSUME CouponInv, NEW o \in Checkouts,
         \/ \E u \in Shoppers \cup {Guest}, k \in Coupons : Validate(o, u, k)
         \/ PersistSale(o) \/ CancelUnpaid(o)
  PROVE  CouponInv'
<1>1. sale[o].status # "PENDING" => paying[o] = NoPaying
  BY OwnFacts DEF PayingInv
<1>2. paying[o] = NoPaying => paying = [paying EXCEPT ![o] = NoPaying]
  BY OwnFacts
<1>3. ASSUME NEW u \in Shoppers \cup {Guest}, NEW k \in Coupons, Validate(o, u, k)
      PROVE  CouponInv'
  <2> DEFINE s == [status |-> "draft", buyer |-> u, code |-> coupon[k].code, coupon |-> k]
  <2>1. s \in Sales
    BY DEF Sales, CouponInv, CouponTypes, CouponRows
  <2>2. /\ sale' = [sale EXCEPT ![o] = s] /\ paying' = paying /\ sale[o].status = "none"
        /\ coupon' = coupon /\ redemptions' = redemptions /\ desk' = desk
    BY <1>3 DEF Validate
  <2> HIDE DEF s
  <2>3. QED
    BY <1>1, <1>2, <2>1, <2>2, IdleStep
<1>4. CASE PersistSale(o)
  <2> DEFINE s == [sale[o] EXCEPT !.status = "PENDING"]
  <2>1. s \in Sales
    BY OwnFacts DEF Sales
  <2>2. /\ sale' = [sale EXCEPT ![o] = s] /\ paying' = paying /\ sale[o].status = "draft"
        /\ coupon' = coupon /\ redemptions' = redemptions /\ desk' = desk
    BY <1>4 DEF PersistSale
  <2> HIDE DEF s
  <2>3. QED
    BY <1>1, <1>2, <2>1, <2>2, IdleStep
<1>5. CASE CancelUnpaid(o)
  <2> DEFINE s == [sale[o] EXCEPT !.status = "CANCELLED"]
  <2>1. s \in Sales
    BY OwnFacts DEF Sales
  <2>2. /\ sale' = [sale EXCEPT ![o] = s] /\ paying' = paying /\ sale[o].status = "PENDING"
        /\ paying[o] = NoPaying
        /\ coupon' = coupon /\ redemptions' = redemptions /\ desk' = desk
    BY <1>5 DEF CancelUnpaid
  <2> HIDE DEF s
  <2>3. QED
    BY <1>2, <2>1, <2>2, IdleStep
<1>6. QED
  BY <1>3, <1>4, <1>5

(* SetConfirmed without a redemption.                                       *)
LEMMA ConfirmStep ==
  ASSUME CouponInv, NEW o \in Checkouts, SetConfirmed(o),
         coupon' = coupon, redemptions' = redemptions, desk' = desk
  PROVE  CouponInv'
<1> DEFINE s == [sale[o] EXCEPT !.status = "CONFIRMED"]
<1>1. s \in Sales /\ s.status = "CONFIRMED" /\ s.buyer = sale[o].buyer
  BY OwnFacts DEF Sales
<1>2. sale' = [sale EXCEPT ![o] = s] /\ paying' = [paying EXCEPT ![o] = NoPaying]
  BY DEF SetConfirmed, Pay
<1> HIDE DEF s
<1>3. QED
  BY <1>1, <1>2, IdleStep

LEMMA FindStep ==
  ASSUME CouponInv, NEW o \in Checkouts, FindCoupon(o)
  PROVE  CouponInv'
<1>1. /\ sale[o].status = "PENDING"
      /\ coupon' = coupon /\ redemptions' = redemptions /\ desk' = desk
  BY DEF FindCoupon
<1>2. ASSUME NEW k \in WithCode(sale[o].code),
             Pay(o, [NoPaying EXCEPT !.pc = "lock", !.k = k]), UNCHANGED sale
      PROVE  CouponInv'
  <2> DEFINE t == [NoPaying EXCEPT !.pc = "lock", !.k = k]
  <2>1. k \in Coupons
    BY DEF WithCode
  <2>2. t \in Payings /\ t.pc = "lock" /\ t.k = k
    BY <2>1 DEF Payings, NoPaying
  <2>3. paying' = [paying EXCEPT ![o] = t] /\ sale' = [sale EXCEPT ![o] = sale[o]]
    BY <1>2, OwnFacts DEF Pay
  <2> HIDE DEF t
  <2>4. QED
    BY <1>1, <2>1, <2>2, <2>3, OwnFacts, OwnStep
<1>3. CASE SetConfirmed(o)
  BY <1>1, <1>3, ConfirmStep
<1>4. QED
  BY <1>2, <1>3 DEF FindCoupon

LEMMA LockStep ==
  ASSUME CouponInv, NEW o \in Checkouts, LockCoupon(o)
  PROVE  CouponInv'
<1> DEFINE t == [paying[o] EXCEPT !.pc = "count"]
<1>1. /\ paying[o].pc = "lock" /\ ~CouponLocked(paying[o].k) /\ sale' = [sale EXCEPT ![o] = sale[o]]
      /\ coupon' = coupon /\ redemptions' = redemptions /\ desk' = desk
  BY OwnFacts DEF LockCoupon
<1>2. paying[o] # NoPaying /\ sale[o].status = "PENDING" /\ paying[o].k \in Coupons
  BY <1>1, OwnFacts DEF PayingInv
<1>3. CASE Exists(paying[o].k)
  <2>1. t \in Payings /\ t.pc = "count" /\ t.k = paying[o].k
    BY OwnFacts DEF Payings
  <2>2. paying' = [paying EXCEPT ![o] = t]
    BY <1>3 DEF LockCoupon, Pay
  <2>3. \A q \in Checkouts : Holds(q) => paying[q].k # t.k
    BY <1>1, <2>1 DEF CouponLocked, Holds
  <2> HIDE DEF t
  <2>4. QED
    BY <1>1, <1>2, <1>3, <2>1, <2>2, <2>3, OwnFacts, OwnStep
<1>4. CASE ~Exists(paying[o].k)
  <2>1. paying' = [paying EXCEPT ![o] = NoPaying]
    BY <1>4 DEF LockCoupon, Pay
  <2>2. QED
    BY <1>1, <1>2, <2>1, OwnFacts, IdleStep
<1>5. QED
  BY <1>3, <1>4

LEMMA CountStep ==
  ASSUME CouponInv, NEW o \in Checkouts, CountUses(o)
  PROVE  CouponInv'
<1> DEFINE free == WithinLimits(paying[o].k, sale[o].buyer)
           t == [paying[o] EXCEPT !.pc = "create", !.free = free]
<1>1. /\ paying[o].pc = "count" /\ sale' = [sale EXCEPT ![o] = sale[o]]
      /\ paying' = [paying EXCEPT ![o] = t]
      /\ coupon' = coupon /\ redemptions' = redemptions /\ desk' = desk
  BY OwnFacts DEF CountUses, Pay
<1>2. /\ paying[o] # NoPaying /\ sale[o].status = "PENDING" /\ paying[o].k \in Coupons
      /\ Holds(o) /\ Exists(paying[o].k)
  BY <1>1, OwnFacts DEF PayingInv, Holds
<1>3. free \in BOOLEAN
  BY DEF WithinLimits
<1>4. t \in Payings /\ t.pc = "create" /\ t.k = paying[o].k /\ t.free = free
  <2> HIDE DEF free
  <2>1. QED
    BY <1>3, OwnFacts DEF Payings
<1>5. \A q \in Checkouts : q # o /\ Holds(q) => paying[q].k # t.k
  BY <1>2, <1>4 DEF CouponInv, LockedOnce
<1>6. t.free => WithinLimits(t.k, sale[o].buyer)
  BY <1>4
<1> HIDE DEF free, t
<1>7. QED
  BY <1>1, <1>2, <1>4, <1>5, <1>6, OwnFacts, OwnStep

LEMMA RollBackPaymentStep ==
  ASSUME CouponInv, NEW o \in Checkouts, RollBackPayment(o)
  PROVE  CouponInv'
<1>1. /\ paying' = [paying EXCEPT ![o] = NoPaying] /\ sale' = [sale EXCEPT ![o] = sale[o]]
      /\ coupon' = coupon /\ redemptions' = redemptions /\ desk' = desk
  BY OwnFacts DEF RollBackPayment, Pay
<1>2. QED
  BY <1>1, OwnFacts, IdleStep

-----------------------------------------------------------------------------
(* What a recorded redemption changes.                                      *)
LEMMA Recorded ==
  ASSUME CouponInv, NEW o \in Checkouts, NEW k \in Coupons, k = paying[o].k,
         RecordRedemption(o), paying[o].free, <<k, o>> \notin redemptions
  PROVE  /\ coupon' = [coupon EXCEPT ![k].usedCount = @ + 1]
         /\ redemptions' = redemptions \cup {<<k, o>>}
         /\ WithinLimits(k, sale[o].buyer) /\ Exists(k) /\ Holds(o)
         /\ UsesOf(k)' = UsesOf(k) \cup {o} /\ o \notin UsesOf(k)
         /\ \A j \in Coupons : j # k => UsesOf(j)' = UsesOf(j) /\ coupon'[j] = coupon[j]
         /\ \A q \in Checkouts : sale'[q].buyer = sale[q].buyer
<1>1. /\ coupon' = [coupon EXCEPT ![k].usedCount = @ + 1]
      /\ redemptions' = redemptions \cup {<<k, o>>} /\ paying[o].pc = "create"
      /\ sale' = [sale EXCEPT ![o].status = "CONFIRMED"]
  BY DEF RecordRedemption, SetConfirmed
<1>2. Holds(o) /\ WithinLimits(k, sale[o].buyer) /\ Exists(k)
  BY <1>1, OwnFacts DEF PayingInv, Holds
<1>3. UsesOf(k)' = UsesOf(k) \cup {o} /\ o \notin UsesOf(k)
  BY <1>1 DEF UsesOf
<1>4. \A j \in Coupons : j # k => UsesOf(j)' = UsesOf(j) /\ coupon'[j] = coupon[j]
  BY <1>1 DEF UsesOf, CouponInv, CouponTypes
<1>5. \A q \in Checkouts : sale'[q].buyer = sale[q].buyer
  BY <1>1 DEF CouponInv, CouponTypes, Sales
<1>6. QED
  BY <1>1, <1>2, <1>3, <1>4, <1>5

LEMMA RecordStep ==
  ASSUME CouponInv, NEW o \in Checkouts, RecordRedemption(o)
  PROVE  CouponInv'
<1> PICK k : k = paying[o].k
  OBVIOUS
<1>1. /\ paying[o].pc = "create" /\ SetConfirmed(o) /\ desk' = desk
      /\ k \in Coupons /\ sale[o].status = "PENDING" /\ Exists(k)
  BY OwnFacts DEF RecordRedemption, PayingInv, Holds
<1>2. CASE coupon' = coupon /\ redemptions' = redemptions
  BY <1>1, <1>2, ConfirmStep
<1>3. CASE paying[o].free /\ <<k, o>> \notin redemptions
  <2>1. /\ coupon' = [coupon EXCEPT ![k].usedCount = @ + 1]
        /\ redemptions' = redemptions \cup {<<k, o>>} /\ Holds(o)
        /\ UsesOf(k)' = UsesOf(k) \cup {o} /\ o \notin UsesOf(k)
        /\ \A j \in Coupons : j # k => UsesOf(j)' = UsesOf(j) /\ coupon'[j] = coupon[j]
        /\ \A q \in Checkouts : sale'[q].buyer = sale[q].buyer
    BY <1>1, <1>3, Recorded
  <2>2. /\ sale' = [sale EXCEPT ![o].status = "CONFIRMED"]
        /\ paying' = [paying EXCEPT ![o] = NoPaying]
    BY <1>1 DEF SetConfirmed, Pay
  <2>3. /\ sale' \in [Checkouts -> Sales] /\ paying' \in [Checkouts -> Payings]
        /\ sale'[o].status = "CONFIRMED" /\ paying'[o] = NoPaying
        /\ \A q \in Checkouts : q # o => sale'[q] = sale[q] /\ paying'[q] = paying[q]
    <3>1. [sale[o] EXCEPT !.status = "CONFIRMED"] \in Sales
      BY OwnFacts DEF Sales
    <3>2. [sale[o] EXCEPT !.status = "CONFIRMED"].status = "CONFIRMED"
      BY OwnFacts DEF Sales
    <3>3. QED
      BY <2>2, <3>1, <3>2, OwnFacts DEF CouponInv, CouponTypes
  <2>4. /\ coupon' \in [Coupons -> CouponRows] /\ coupon[k] \in CouponRows
        /\ coupon'[k].usedCount = coupon[k].usedCount + 1 /\ coupon'[k].code = coupon[k].code
    <3>1. coupon \in [Coupons -> CouponRows]
      BY DEF CouponInv, CouponTypes
    <3>2. QED
      BY <1>1, <2>1, <3>1 DEF CouponRows
  <2>5. CouponTypes'
    BY <1>1, <2>1, <2>3, <2>4 DEF CouponInv, CouponTypes
  <2>6. coupon[k].code \in Codes
    BY <1>1 DEF CouponInv, RowsInv, Exists
  <2>7. RowsInv'
    BY <1>1, <2>1, <2>4, <2>6 DEF CouponInv, RowsInv
  <2>8. \A j \in Coupons : /\ IsFiniteSet(UsesOf(j)')
                           /\ coupon'[j].usedCount = Cardinality(UsesOf(j)')
    <3>1. \A j \in Coupons : IsFiniteSet(UsesOf(j)) /\ coupon[j].usedCount = Cardinality(UsesOf(j))
      BY DEF CouponInv, UsesInv, UsedCountIsRedemptions
    <3>2. IsFiniteSet(UsesOf(k)') /\ Cardinality(UsesOf(k)') = Cardinality(UsesOf(k)) + 1
      BY <1>1, <2>1, <3>1, FS_AddElement
    <3>3. QED
      BY <1>1, <2>1, <2>4, <3>1, <3>2
  <2>9. \A j \in Coupons : \A q \in UsesOf(j)' : sale'[q].status = "CONFIRMED"
    <3>1. \A j \in Coupons : \A q \in UsesOf(j) : q \in Checkouts /\ sale[q].status = "CONFIRMED"
      BY DEF CouponInv, UsesInv, UsesOf
    <3>2. QED
      BY <2>1, <2>3, <3>1
  <2>10. UsesInv'
    BY <2>8, <2>9 DEF UsesInv, UsedCountIsRedemptions
  <2>11. LockedOnce'
    BY <2>3 DEF CouponInv, LockedOnce, Holds, NoPaying
  <2>12. ASSUME NEW q \in Checkouts PROVE PayingInv(q)'
    <3>1. CASE q = o
      BY <2>3, <3>1 DEF PayingInv, Holds, NoPaying
    <3>2. CASE q # o
      <4>1. Holds(q) => paying[q].k # k /\ Exists(paying[q].k) /\ paying[q].k \in Coupons
        BY <2>1, <3>2 DEF CouponInv, LockedOnce, PayingInv, Exists
      <4>2. \A j \in Coupons : UsesOf(j) \subseteq Checkouts
        BY DEF UsesOf
      <4>3. QED
        BY <2>1, <2>3, <3>2, <4>1, <4>2, Undisturbed DEF Exists
    <3>3. QED
      BY <3>1, <3>2
  <2>13. QED
    BY <2>5, <2>7, <2>10, <2>11, <2>12 DEF CouponInv
<1>4. QED
  BY <1>2, <1>3 DEF RecordRedemption

LEMMA CancelPaidStep ==
  ASSUME CouponInv, NEW o \in Checkouts, CancelPaid(o)
  PROVE  CouponInv'
<1>1. /\ sale[o].status = "CONFIRMED" /\ sale' = [sale EXCEPT ![o].status = "CANCELLED"]
      /\ redemptions' = {r \in redemptions : r[2] # o}
      /\ coupon' = [k \in Coupons |->
                      IF <<k, o>> \in redemptions /\ coupon[k].usedCount > 0
                      THEN [coupon[k] EXCEPT !.usedCount = @ - 1] ELSE coupon[k]]
      /\ paying' = paying /\ desk' = desk
  BY DEF CancelPaid
<1>2. /\ sale' \in [Checkouts -> Sales]
      /\ \A q \in Checkouts : sale'[q].buyer = sale[q].buyer /\ (q # o => sale'[q] = sale[q])
  BY <1>1 DEF CouponInv, CouponTypes, Sales
<1>3. \A k \in Coupons : UsesOf(k)' = UsesOf(k) \ {o} /\ UsesOf(k) \subseteq Checkouts
  BY <1>1 DEF UsesOf
<1>4. \A k \in Coupons : /\ IsFiniteSet(UsesOf(k)) /\ coupon[k].usedCount = Cardinality(UsesOf(k))
                         /\ coupon[k] \in CouponRows
  BY DEF CouponInv, CouponTypes, UsesInv, UsedCountIsRedemptions
<1>5. ASSUME NEW k \in Coupons
      PROVE  /\ IsFiniteSet(UsesOf(k)') /\ coupon'[k].usedCount = Cardinality(UsesOf(k)')
             /\ coupon'[k] \in CouponRows /\ coupon'[k].code = coupon[k].code
             /\ coupon'[k].usageLimit = coupon[k].usageLimit
             /\ coupon'[k].perCustomerLimit = coupon[k].perCustomerLimit
  <2>1. /\ IsFiniteSet(UsesOf(k)')
        /\ Cardinality(UsesOf(k)')
             = IF o \in UsesOf(k) THEN Cardinality(UsesOf(k)) - 1 ELSE Cardinality(UsesOf(k))
    BY <1>3, <1>4, FS_RemoveElement
  <2>2. o \in UsesOf(k) <=> <<k, o>> \in redemptions
    BY DEF UsesOf
  <2>3. o \in UsesOf(k) => Cardinality(UsesOf(k)) # 0
    BY <1>4, FS_EmptySet
  <2>4. coupon[k].usedCount \in Nat
    BY <1>4 DEF CouponRows
  <2>5. o \in UsesOf(k) => coupon[k].usedCount > 0
    BY <1>4, <2>3, <2>4
  <2>6. CASE o \in UsesOf(k)
    <3>1. coupon'[k] = [coupon[k] EXCEPT !.usedCount = @ - 1]
      BY <1>1, <2>2, <2>5, <2>6
    <3>2. /\ coupon'[k].usedCount = coupon[k].usedCount - 1 /\ coupon'[k] \in CouponRows
          /\ coupon'[k].code = coupon[k].code /\ coupon'[k].usageLimit = coupon[k].usageLimit
          /\ coupon'[k].perCustomerLimit = coupon[k].perCustomerLimit
      BY <1>4, <2>4, <2>5, <2>6, <3>1 DEF CouponRows
    <3>3. QED
      BY <1>4, <2>1, <2>6, <3>2
  <2>7. CASE o \notin UsesOf(k)
    <3>1. coupon'[k] = coupon[k]
      BY <1>1, <2>2, <2>7
    <3>2. QED
      BY <1>4, <2>1, <2>7, <3>1
  <2>8. QED
    BY <2>6, <2>7
<1>6. coupon' \in [Coupons -> CouponRows]
  BY <1>1, <1>5
<1>7. CouponTypes'
  BY <1>1, <1>2, <1>6 DEF CouponInv, CouponTypes
<1>8. \A k \in Coupons : Exists(k) => Exists(k)' /\ coupon[k].code \in Codes
  BY <1>5, NoRowType DEF CouponInv, RowsInv, Exists
<1>9. RowsInv'
  <2>1. ASSUME NEW k \in Coupons, coupon'[k] # NoRow PROVE coupon'[k].code \in Codes
    <3>1. CASE coupon[k] = NoRow
      <4>1. coupon[k].usedCount = 0
        BY <3>1, NoRowType
      <4>2. coupon'[k] = coupon[k]
        BY <1>1, <4>1
      <4>3. QED
        BY <2>1, <3>1, <4>2
    <3>2. CASE coupon[k] # NoRow
      BY <1>5, <1>8, <3>2 DEF Exists
    <3>3. QED
      BY <3>1, <3>2
  <2>2. QED
    BY <1>1, <2>1 DEF CouponInv, RowsInv
<1>10. UsesInv'
  <2>1. \A k \in Coupons : \A q \in UsesOf(k)' : sale'[q].status = "CONFIRMED"
    BY <1>2, <1>3 DEF CouponInv, UsesInv
  <2>2. QED
    BY <1>5, <2>1 DEF UsesInv, UsedCountIsRedemptions
<1>11. LockedOnce'
  BY <1>1 DEF CouponInv, LockedOnce, Holds
<1>12. ASSUME NEW q \in Checkouts PROVE PayingInv(q)'
  <2>1. PayingInv(q) /\ (paying[q] # NoPaying => q # o)
    BY <1>1 DEF CouponInv, PayingInv
  <2>2. Holds(q) => paying[q].k \in Coupons /\ Exists(paying[q].k)'
    BY <1>1, <1>8, <2>1 DEF PayingInv, Exists
  <2>3. QED
    BY <1>1, <1>2, <1>3, <1>5, <2>1, <2>2, Undisturbed
<1>13. QED
  BY <1>7, <1>9, <1>10, <1>11, <1>12 DEF CouponInv

-----------------------------------------------------------------------------
LEMMA CreateStep ==
  ASSUME CouponInv, NEW k \in Coupons, NEW code \in Codes, NEW limits \in Limits,
         CreateCoupon(k, code, limits)
  PROVE  CouponInv'
<1> DEFINE row == [code |-> code, active |-> TRUE, usageLimit |-> limits[1],
                   perCustomerLimit |-> limits[2], usedCount |-> 0]
<1>1. row \in CouponRows /\ row.code \in Codes /\ row.usedCount = 0
  BY CouponAssumption DEF CouponRows
<1>2. /\ coupon[k] = NoRow /\ coupon' = [coupon EXCEPT ![k] = row]
      /\ redemptions' = redemptions /\ sale' = sale /\ paying' = paying /\ desk' = desk
  BY DEF CreateCoupon, Exists
<1> HIDE DEF row
<1>3. ~CouponLocked(k)
  BY <1>2 DEF CouponLocked, CouponInv, PayingInv, Holds, Exists
<1>4. coupon' \in [Coupons -> CouponRows] /\ coupon'[k] = row
      /\ \A j \in Coupons : j # k => coupon'[j] = coupon[j]
  BY <1>1, <1>2 DEF CouponInv, CouponTypes
<1>5. RowsInv'
  BY <1>1, <1>2, <1>4 DEF CouponInv, RowsInv
<1>6. \A j \in Coupons : UsesOf(j)' = UsesOf(j) /\ coupon'[j].usedCount = coupon[j].usedCount
  BY <1>1, <1>2, <1>4, NoRowType DEF UsesOf
<1>7. desk' \in [Clerks -> Desks]
  BY <1>2 DEF CouponInv, CouponTypes
<1>8. QED
  BY <1>2, <1>3, <1>4, <1>5, <1>6, <1>7, AdminStep

(* CouponRows that exist and are not locked get another code, limits or activity.  *)
LEMMA RowsChange ==
  ASSUME CouponInv, sale' = sale, paying' = paying, redemptions' = redemptions,
         desk' \in [Clerks -> Desks], \A e \in Clerks : desk'[e] = desk[e] \/ desk'[e] = NoCall,
         NEW new \in [Coupons -> CouponRows], coupon' = new,
         \A k \in Coupons : \/ new[k] = coupon[k]
                            \/ /\ ~CouponLocked(k) /\ new[k].code \in Codes
                               /\ new[k].usedCount = coupon[k].usedCount
  PROVE  CouponInv'
<1>1. RowsInv'
  BY DEF CouponInv, RowsInv, NoCall
<1>2. \A k \in Coupons : UsesOf(k)' = UsesOf(k)
  BY DEF UsesOf
<1>3. QED
  BY <1>1, <1>2, AdminStep

LEMMA UpdateStep ==
  ASSUME CouponInv, NEW k \in Coupons, NEW active \in BOOLEAN, NEW limits \in Limits,
         UpdateCoupon(k, active, limits)
  PROVE  CouponInv'
<1> DEFINE row == [[[coupon[k] EXCEPT !.active = active] EXCEPT !.usageLimit = limits[1]]
                                        EXCEPT !.perCustomerLimit = limits[2]]
<1>1. coupon \in [Coupons -> CouponRows] /\ coupon[k].code \in Codes
      /\ limits[1] \in Nat /\ limits[2] \in Nat
  BY CouponAssumption DEF UpdateCoupon, CouponInv, CouponTypes, RowsInv, Exists
<1>2. row \in CouponRows /\ row.code \in Codes /\ row.usedCount = coupon[k].usedCount
  BY <1>1 DEF CouponRows
<1>3. /\ ~CouponLocked(k) /\ coupon' = [coupon EXCEPT ![k] = row]
      /\ redemptions' = redemptions /\ sale' = sale /\ paying' = paying /\ desk' = desk
  BY <1>1 DEF UpdateCoupon
<1> HIDE DEF row
<1>4. QED
  BY <1>1, <1>2, <1>3, RowsChange DEF CouponInv, CouponTypes

LEMMA RenameStep ==
  ASSUME CouponInv, NEW e \in Clerks, RenameCoupon(e)
  PROVE  CouponInv'
<1> PICK k, code : k = desk[e].k /\ code = desk[e].code
  OBVIOUS
<1>1. /\ desk[e].pc = "rename" /\ ~CouponLocked(k) /\ desk' = [desk EXCEPT ![e] = NoCall]
      /\ redemptions' = redemptions /\ sale' = sale /\ paying' = paying
      /\ \/ Exists(k) /\ coupon' = [coupon EXCEPT ![k].code = code]
         \/ coupon' = coupon
  BY DEF RenameCoupon, Takes
<1>2. coupon \in [Coupons -> CouponRows] /\ desk \in [Clerks -> Desks] /\ code \in Codes
  BY <1>1 DEF CouponInv, CouponTypes, RowsInv
<1>3. NoCall \in Desks
  BY DEF NoCall, Desks
<1>4. desk' \in [Clerks -> Desks] /\ \A f \in Clerks : desk'[f] = desk[f] \/ desk'[f] = NoCall
  BY <1>1, <1>2, <1>3
<1>5. CASE coupon' = coupon
  BY <1>1, <1>2, <1>4, <1>5, RowsChange
<1>6. CASE Exists(k) /\ coupon' = [coupon EXCEPT ![k].code = code]
  <2> DEFINE row == [coupon[k] EXCEPT !.code = code]
  <2>1. k \in Coupons
    BY <1>6 DEF Exists
  <2>2. row \in CouponRows /\ row.code \in Codes /\ row.usedCount = coupon[k].usedCount
    BY <1>2, <2>1 DEF CouponRows
  <2>3. coupon' = [coupon EXCEPT ![k] = row]
    BY <1>6
  <2> HIDE DEF row
  <2>4. QED
    BY <1>1, <1>2, <1>4, <2>1, <2>2, <2>3, RowsChange
<1>7. QED
  BY <1>1, <1>5, <1>6

LEMMA BulkActiveStep ==
  ASSUME CouponInv, NEW ks \in SUBSET Coupons, NEW active \in BOOLEAN,
         BulkSetActive(ks, active)
  PROVE  CouponInv'
<1> DEFINE new == [k \in Coupons |-> IF k \in ks THEN [coupon[k] EXCEPT !.active = active]
                                     ELSE coupon[k]]
<1>1. /\ \A k \in ks : Exists(k) /\ ~CouponLocked(k)
      /\ coupon' = new
      /\ redemptions' = redemptions /\ sale' = sale /\ paying' = paying /\ desk' = desk
  BY DEF BulkSetActive
<1>2. coupon \in [Coupons -> CouponRows] /\ \A k \in ks : coupon[k].code \in Codes
  BY <1>1 DEF CouponInv, CouponTypes, RowsInv, Exists
<1>3. \A k \in Coupons : [coupon[k] EXCEPT !.active = active] \in CouponRows
  BY <1>2 DEF CouponRows
<1>4. \A k \in Coupons : /\ [coupon[k] EXCEPT !.active = active].code = coupon[k].code
                         /\ [coupon[k] EXCEPT !.active = active].usedCount = coupon[k].usedCount
  BY <1>2 DEF CouponRows
<1>5. new \in [Coupons -> CouponRows]
  BY <1>2, <1>3
<1>6. \A k \in Coupons : \/ new[k] = coupon[k]
                         \/ /\ ~CouponLocked(k) /\ new[k].code \in Codes
                            /\ new[k].usedCount = coupon[k].usedCount
  BY <1>1, <1>2, <1>4
<1> HIDE DEF new
<1>7. QED
  BY <1>1, <1>5, <1>6, RowsChange DEF CouponInv, CouponTypes

LEMMA DeleteStep ==
  ASSUME CouponInv, NEW ks, \A k \in ks : ~CouponLocked(k), Delete(ks),
         sale' = sale, paying' = paying, desk' \in [Clerks -> Desks],
         \A e \in Clerks : desk'[e] = desk[e] \/ desk'[e] = NoCall
  PROVE  CouponInv'
<1>1. /\ coupon' = [k \in Coupons |-> IF k \in ks THEN NoRow ELSE coupon[k]]
      /\ redemptions' = {r \in redemptions : r[1] \notin ks}
  BY DEF Delete
<1>2. coupon' \in [Coupons -> CouponRows] /\ redemptions' \subseteq redemptions
  BY <1>1, NoRowType DEF CouponInv, CouponTypes
<1>3. RowsInv'
  BY <1>1 DEF CouponInv, RowsInv, NoCall
<1>4. \A k \in Coupons : CouponLocked(k) => coupon'[k] = coupon[k]
  BY <1>1
<1>5. \A k \in Coupons :
        \/ UsesOf(k)' = UsesOf(k) /\ coupon'[k].usedCount = coupon[k].usedCount
        \/ UsesOf(k)' = {} /\ coupon'[k].usedCount = 0
  <2>1. ASSUME NEW k \in Coupons, k \in ks
        PROVE  UsesOf(k)' = {} /\ coupon'[k].usedCount = 0
    BY <1>1, <2>1, NoRowType DEF UsesOf
  <2>2. ASSUME NEW k \in Coupons, k \notin ks
        PROVE  UsesOf(k)' = UsesOf(k) /\ coupon'[k].usedCount = coupon[k].usedCount
    BY <1>1, <2>2 DEF UsesOf
  <2>3. QED
    BY <2>1, <2>2
<1>6. QED
  BY <1>2, <1>3, <1>4, <1>5, AdminStep

LEMMA DeskStep ==
  ASSUME CouponInv, NEW e \in Clerks, NEW k \in Coupons,
         CheckUsage(e, k, "delete", NoCode) \/ \E code \in Codes : CheckUsage(e, k, "rename", code)
  PROVE  CouponInv'
<1>1. PICK d \in Desks : /\ desk' = [desk EXCEPT ![e] = d]
                         /\ d.pc = "rename" => d.code \in Codes
  BY DEF CheckUsage, Takes, Desks
<1>2. coupon' = coupon /\ redemptions' = redemptions /\ sale' = sale /\ paying' = paying
  BY DEF CheckUsage
<1>3. desk' \in [Clerks -> Desks] /\ RowsInv'
  BY <1>1, <1>2 DEF CouponInv, CouponTypes, RowsInv
<1>4. \A j \in Coupons : UsesOf(j)' = UsesOf(j)
  BY <1>2 DEF UsesOf
<1>5. QED
  BY <1>2, <1>3, <1>4, AdminStep DEF CouponInv, CouponTypes

LEMMA ManageStep == CouponInv /\ Manage => CouponInv'
<1> SUFFICES ASSUME CouponInv, Manage PROVE CouponInv'
  OBVIOUS
<1>1. NoCall \in Desks /\ desk \in [Clerks -> Desks]
  BY DEF NoCall, Desks, CouponInv, CouponTypes
<1>2. ASSUME NEW e \in Clerks, DeleteCoupon(e) PROVE CouponInv'
  <2> PICK k : k = desk[e].k
    OBVIOUS
  <2>1. /\ ~CouponLocked(k) /\ Delete({k}) /\ sale' = sale /\ paying' = paying
        /\ desk' = [desk EXCEPT ![e] = NoCall]
    BY <1>2 DEF DeleteCoupon, Takes
  <2>2. desk' \in [Clerks -> Desks] /\ \A f \in Clerks : desk'[f] = desk[f] \/ desk'[f] = NoCall
    BY <1>1, <2>1
  <2>3. QED
    BY <2>1, <2>2, DeleteStep
<1>3. ASSUME NEW ks \in SUBSET Coupons, BulkDelete(ks) PROVE CouponInv'
  BY <1>1, <1>3, DeleteStep DEF BulkDelete
<1>4. QED
  BY <1>2, <1>3, CreateStep, UpdateStep, RenameStep, BulkActiveStep, DeskStep DEF Manage

LEMMA CouponStep == CouponInv /\ [CouponNext]_couponVars => CouponInv'
<1> SUFFICES ASSUME CouponInv, [CouponNext]_couponVars PROVE CouponInv'
  OBVIOUS
<1>1. CASE UNCHANGED couponVars
  <2>1. \A k \in Coupons : UsesOf(k)' = UsesOf(k)
    BY <1>1 DEF couponVars, UsesOf
  <2>2. RowsInv'
    BY <1>1 DEF couponVars, CouponInv, RowsInv
  <2>3. QED
    BY <1>1, <2>1, <2>2, AdminStep DEF couponVars, CouponInv, CouponTypes
<1>2. CASE Manage
  BY <1>2, ManageStep
<1>3. ASSUME NEW o \in Checkouts, Shop(o) PROVE CouponInv'
  BY <1>3, PlacingStep, FindStep, LockStep, CountStep, RecordStep, RollBackPaymentStep,
     CancelPaidStep DEF Shop
<1>4. QED
  BY <1>1, <1>2, <1>3 DEF CouponNext

-----------------------------------------------------------------------------
(* "usedCount is denormalized": whatever payments, cancels, bulk deletions    *)
(* and edits interleave, and wherever one rolls back, it is the number of the *)
(* coupon's redemption rows.                                                *)
THEOREM CountIsRight == CouponSpec => []UsedCountIsRedemptions
<1>1. CouponInv => UsedCountIsRedemptions
  BY DEF CouponInv, UsesInv
<1>2. QED
  BY <1>1, InitCoupon, CouponStep, PTL DEF CouponSpec

(* A redemption is only added by a confirmation that counted the uses under   *)
(* the lock it still holds.                                                 *)
LEMMA OnlyRecordAdds ==
  ASSUME CouponInv, [CouponNext]_couponVars, NEW k \in Coupons, NEW o \in UsesOf(k)' \ UsesOf(k)
  PROVE  /\ o \in Checkouts /\ RecordRedemption(o) /\ paying[o].k = k
         /\ paying[o].free /\ <<k, o>> \notin redemptions
<1>1. <<k, o>> \in redemptions' /\ <<k, o>> \notin redemptions /\ o \in Checkouts
  BY DEF UsesOf
<1>2. \E q \in Checkouts : RecordRedemption(q)
  BY <1>1 DEF CouponNext, Manage, Shop, couponVars, Validate, PersistSale, CancelUnpaid,
     FindCoupon, LockCoupon, CountUses, RollBackPayment, CancelPaid, CreateCoupon, UpdateCoupon,
     CheckUsage, DeleteCoupon, RenameCoupon, BulkDelete, BulkSetActive, Delete
<1>3. QED
  BY <1>1, <1>2 DEF RecordRedemption

(* "A redemption that would exceed usageLimit or perCustomerLimit is not      *)
(* recorded" (#13): with any number of orders paid at once.                  *)
THEOREM LimitsAreKept == CouponSpec => LimitsHold
<1> DEFINE Kept == \A k \in Coupons : \A o \in UsesOf(k)' \ UsesOf(k) :
             /\ Cardinality(UsesOf(k)') <= coupon[k].usageLimit
             /\ sale[o].buyer # Guest
                  => Cardinality(UsesBy(k, sale[o].buyer)') <= coupon[k].perCustomerLimit
<1>1. ASSUME CouponInv, [CouponNext]_couponVars PROVE Kept
  <2>1. SUFFICES ASSUME NEW k \in Coupons, NEW o \in UsesOf(k)' \ UsesOf(k)
                 PROVE  /\ Cardinality(UsesOf(k)') <= coupon[k].usageLimit
                        /\ sale[o].buyer # Guest
                             => Cardinality(UsesBy(k, sale[o].buyer)')
                                  <= coupon[k].perCustomerLimit
    OBVIOUS
  <2> PICK u : u = sale[o].buyer
    OBVIOUS
  <2>2. /\ o \in Checkouts /\ RecordRedemption(o) /\ paying[o].k = k
        /\ paying[o].free /\ <<k, o>> \notin redemptions
    BY <1>1, OnlyRecordAdds
  <2>3. /\ WithinLimits(k, u) /\ UsesOf(k)' = UsesOf(k) \cup {o} /\ o \notin UsesOf(k)
        /\ \A q \in Checkouts : sale'[q].buyer = sale[q].buyer
    BY <1>1, <2>2, Recorded
  <2>4. UsesBy(k, u)' = UsesBy(k, u) \cup {o} /\ o \notin UsesBy(k, u)
        /\ UsesBy(k, u) \subseteq UsesOf(k)
    BY <2>2, <2>3 DEF UsesBy, UsesOf
  <2>5. IsFiniteSet(UsesOf(k)) /\ IsFiniteSet(UsesBy(k, u)) /\ coupon[k] \in CouponRows
    BY <1>1, <2>4, FS_Subset DEF CouponInv, UsesInv, CouponTypes
  <2>6. /\ Cardinality(UsesOf(k)') = Cardinality(UsesOf(k)) + 1
        /\ Cardinality(UsesBy(k, u)') = Cardinality(UsesBy(k, u)) + 1
        /\ Cardinality(UsesOf(k)) \in Nat /\ Cardinality(UsesBy(k, u)) \in Nat
    <3>1. /\ Cardinality(UsesOf(k) \cup {o}) = Cardinality(UsesOf(k)) + 1
          /\ Cardinality(UsesOf(k)) \in Nat
      BY <2>3, <2>5, FS_AddElement, FS_CardinalityType
    <3>2. /\ Cardinality(UsesBy(k, u) \cup {o}) = Cardinality(UsesBy(k, u)) + 1
          /\ Cardinality(UsesBy(k, u)) \in Nat
      BY <2>4, <2>5, FS_AddElement, FS_CardinalityType
    <3>3. QED
      BY <2>3, <2>4, <3>1, <3>2
  <2>7. coupon[k].usageLimit \in Nat /\ coupon[k].perCustomerLimit \in Nat
    BY <2>5 DEF CouponRows
  <2>8. sale'[o].buyer = u
    BY <2>2, <2>3
  <2>9. UsesBy(k, sale[o].buyer)' = UsesBy(k, u)'
    BY <2>8 DEF UsesBy
  <2>10. QED
    BY <2>3, <2>6, <2>7, <2>9 DEF WithinLimits
<1>2. CouponInv /\ [CouponNext]_couponVars => [Kept]_couponVars
  BY <1>1
<1>3. CouponSpec => [][Kept]_couponVars
  <2> HIDE DEF Kept
  <2>1. QED
    BY <1>2, InitCoupon, CouponStep, PTL DEF CouponSpec
<1>4. QED
  BY <1>3 DEF LimitsHold

-----------------------------------------------------------------------------
(***************************************************************************)
(* Why the stock of a variant is what lies on the shelf, and why an order     *)
(* that was paid took its unit, up to what the admin screens overwrite: for   *)
(* any variants, orders and admins.                                          *)
(***************************************************************************)

(* Stock by variant, of the variants that there are at some time.            *)
Stocks == UNION {[vs -> Nat] : vs \in SUBSET Variants}

ItemRows ==
  [status : {"none", "CHECKOUT", "PENDING", "CONFIRMED", "CLOSED"},
   variant : Variants \cup {NoVariant}, took : BOOLEAN]

Screens ==
  [pc : {"closed", "shown", "save"}, saw : Stocks, drop : SUBSET Variants, write : Stocks]

CatalogTypes ==
  /\ stock \in Stocks /\ onHand \in Stocks /\ VariantRows \subseteq DOMAIN onHand
  /\ orderItem \in [Orders -> ItemRows]
  /\ screen \in [Admins -> Screens]
  /\ overwritten \in BOOLEAN /\ unlinked \in BOOLEAN

(* What a save is about to write and to drop are different rows.             *)
FormsInv == \A a \in Admins : DOMAIN screen[a].write \cap screen[a].drop = {}

(* While no open order lost its variant: none that is still to be paid has,   *)
(* the confirmed ones took their unit, and no save is about to take a variant *)
(* from under one.                                                          *)
LinkedInv == ~unlinked =>
  /\ \A o \in Orders : orderItem[o].status = "PENDING" => orderItem[o].variant \in VariantRows
  /\ \A o \in Orders : orderItem[o].status = "CONFIRMED" => orderItem[o].took
  /\ \A a \in Admins : \A v \in screen[a].drop : Needs(v) = {}

CatalogInv == CatalogTypes /\ FormsInv /\ LinkedInv /\ StockIsShelf

-----------------------------------------------------------------------------
LEMMA StocksFacts ==
  /\ \A f : f \in Stocks <=> \E vs \in SUBSET Variants : f \in [vs -> Nat]
  /\ \A f \in Stocks : DOMAIN f \in SUBSET Variants /\ f \in [DOMAIN f -> Nat]
  /\ <<>> \in Stocks /\ DOMAIN <<>> = {}
<1>1. \A f : f \in Stocks <=> \E vs \in SUBSET Variants : f \in [vs -> Nat]
  BY DEF Stocks
<1>2. \A f \in Stocks : DOMAIN f \in SUBSET Variants /\ f \in [DOMAIN f -> Nat]
  BY DEF Stocks
<1>3. DOMAIN <<>> = {} /\ <<>> \in [{} -> Nat]
  OBVIOUS
<1>4. QED
  BY <1>1, <1>2, <1>3

LEMMA NoScreenType ==
  /\ NoScreen \in Screens /\ NoScreen.drop = {} /\ DOMAIN NoScreen.write = {}
  /\ NoScreen.pc = "closed"
BY StocksFacts DEF NoScreen, Screens

LEMMA InitCatalog == CatalogInit => CatalogInv
<1> SUFFICES ASSUME CatalogInit PROVE CatalogInv
  OBVIOUS
<1>1. PICK vs \in SUBSET Variants : stock \in [vs -> 0..MaxStock] /\ onHand = stock
  BY DEF CatalogInit
<1>2. stock \in [vs -> Nat]
  BY <1>1, CatalogAssumption
<1>3. stock \in Stocks /\ onHand \in Stocks /\ VariantRows \subseteq DOMAIN onHand /\ StockIsShelf
  BY <1>1, <1>2, StocksFacts DEF VariantRows, StockIsShelf
<1>4. CatalogTypes
  BY <1>3, NoScreenType DEF CatalogInit, CatalogTypes, ItemRows
<1>5. FormsInv /\ LinkedInv
  BY NoScreenType DEF CatalogInit, FormsInv, LinkedInv, Needs
<1>6. QED
  BY <1>3, <1>4, <1>5 DEF CatalogInv

-----------------------------------------------------------------------------
(* A step of one order that leaves rows and screens alone.                   *)
LEMMA ItemStep ==
  ASSUME CatalogInv, NEW o \in Orders, NEW line \in ItemRows,
         orderItem' = [orderItem EXCEPT ![o] = line],
         stock' = stock, onHand' = onHand, screen' = screen, overwritten' = overwritten,
         unlinked' \in BOOLEAN, unlinked => unlinked',
         line.status = "PENDING" /\ ~unlinked' => line.variant \in VariantRows,
         line.status = "CONFIRMED" /\ ~unlinked' => line.took,
         line.status \in Open /\ ~unlinked' =>
           \A a \in Admins : line.variant \notin screen[a].drop
  PROVE  CatalogInv'
<1>1. /\ orderItem' \in [Orders -> ItemRows] /\ orderItem'[o] = line
      /\ \A q \in Orders : q # o => orderItem'[q] = orderItem[q]
  BY DEF CatalogInv, CatalogTypes
<1>2. CatalogTypes' /\ FormsInv' /\ StockIsShelf'
  BY <1>1 DEF CatalogInv, CatalogTypes, FormsInv, StockIsShelf, VariantRows
<1>3. ASSUME ~unlinked', NEW a \in Admins, NEW v \in screen[a].drop PROVE Needs(v)' = {}
  <2>1. Needs(v) = {}
    BY <1>3 DEF CatalogInv, LinkedInv
  <2>2. QED
    BY <1>1, <1>3, <2>1 DEF Needs
<1>4. LinkedInv'
  BY <1>1, <1>3 DEF CatalogInv, LinkedInv, VariantRows
<1>5. QED
  BY <1>2, <1>4 DEF CatalogInv

(* A screen changes, and nothing else.                                      *)
LEMMA ScreenStep ==
  ASSUME CatalogInv, NEW a \in Admins, NEW s \in Screens, Show(a, s),
         stock' = stock, onHand' = onHand, orderItem' = orderItem,
         overwritten' = overwritten, unlinked' = unlinked,
         DOMAIN s.write \cap s.drop = {}, \A v \in s.drop : Needs(v) = {}
  PROVE  CatalogInv'
<1>1. /\ screen' \in [Admins -> Screens] /\ screen'[a] = s
      /\ \A b \in Admins : b # a => screen'[b] = screen[b]
  BY DEF CatalogInv, CatalogTypes, Show
<1>2. CatalogTypes' /\ FormsInv' /\ StockIsShelf'
  BY <1>1 DEF CatalogInv, CatalogTypes, FormsInv, StockIsShelf, VariantRows
<1>3. LinkedInv'
  BY <1>1 DEF CatalogInv, LinkedInv, VariantRows, Needs
<1>4. QED
  BY <1>2, <1>3 DEF CatalogInv

-----------------------------------------------------------------------------
LEMMA ItemFacts ==
  ASSUME CatalogInv, NEW o \in Orders
  PROVE  orderItem[o] \in ItemRows
BY DEF CatalogInv, CatalogTypes

LEMMA RowFacts ==
  ASSUME CatalogInv, NEW v \in VariantRows
  PROVE  v \in Variants /\ v # NoVariant /\ stock[v] \in Nat /\ v \in DOMAIN onHand /\ onHand[v] \in Nat
<1>1. stock \in Stocks /\ onHand \in Stocks /\ VariantRows \subseteq DOMAIN onHand
  BY DEF CatalogInv, CatalogTypes
<1>2. QED
  BY <1>1, StocksFacts, CatalogAssumption DEF VariantRows

LEMMA CheckoutStep ==
  ASSUME CatalogInv, NEW o \in Orders, NEW v \in Variants, Checkout(o, v)
  PROVE  CatalogInv'
<1> DEFINE line == [[orderItem[o] EXCEPT !.status = "CHECKOUT"] EXCEPT !.variant = v]
<1>1. line \in ItemRows /\ line.status = "CHECKOUT"
  BY ItemFacts DEF ItemRows
<1>2. /\ orderItem' = [orderItem EXCEPT ![o] = line]
      /\ stock' = stock /\ onHand' = onHand /\ screen' = screen
      /\ overwritten' = overwritten /\ unlinked' = unlinked
  BY DEF Checkout
<1> HIDE DEF line
<1>3. QED
  BY <1>1, <1>2, ItemStep DEF CatalogInv, CatalogTypes, Open

LEMMA PersistStep ==
  ASSUME CatalogInv, NEW o \in Orders, PersistOrder(o)
  PROVE  CatalogInv'
<1>1. /\ stock' = stock /\ onHand' = onHand /\ screen' = screen /\ overwritten' = overwritten
      /\ unlinked' = (unlinked \/ \E a \in Admins : orderItem[o].variant \in screen[a].drop)
  BY DEF PersistOrder
<1>2. unlinked' \in BOOLEAN /\ (unlinked => unlinked')
  BY <1>1 DEF CatalogInv, CatalogTypes
<1>3. CASE orderItem[o].variant \in VariantRows
  <2> DEFINE line == [orderItem[o] EXCEPT !.status = "PENDING"]
  <2>1. line \in ItemRows /\ line.status = "PENDING" /\ line.variant = orderItem[o].variant
    BY ItemFacts DEF ItemRows
  <2>2. orderItem' = [orderItem EXCEPT ![o] = line]
    BY <1>3 DEF PersistOrder
  <2> HIDE DEF line
  <2>3. QED
    BY <1>1, <1>2, <1>3, <2>1, <2>2, ItemStep
<1>4. CASE orderItem[o].variant \notin VariantRows
  <2> DEFINE line == [[orderItem[o] EXCEPT !.status = "none"] EXCEPT !.variant = NoVariant]
  <2>1. line \in ItemRows /\ line.status = "none"
    BY ItemFacts DEF ItemRows
  <2>2. orderItem' = [orderItem EXCEPT ![o] = line]
    BY <1>4 DEF PersistOrder
  <2> HIDE DEF line
  <2>3. QED
    BY <1>1, <1>2, <2>1, <2>2, ItemStep DEF Open
<1>5. QED
  BY <1>3, <1>4

LEMMA CloseStep ==
  ASSUME CatalogInv, NEW o \in Orders,
         orderItem' = [orderItem EXCEPT ![o].status = "CLOSED"],
         stock' = stock, onHand' = onHand, screen' = screen,
         overwritten' = overwritten, unlinked' = unlinked
  PROVE  CatalogInv'
<1> DEFINE line == [orderItem[o] EXCEPT !.status = "CLOSED"]
<1>1. line \in ItemRows /\ line.status = "CLOSED"
  BY ItemFacts DEF ItemRows
<1>2. orderItem' = [orderItem EXCEPT ![o] = line]
  OBVIOUS
<1> HIDE DEF line
<1>3. QED
  BY <1>1, <1>2, ItemStep DEF CatalogInv, CatalogTypes, Open

(* The stock of a row moves; an open order may take its unit with that.      *)
LEMMA StockStep ==
  ASSUME CatalogInv, screen' = screen \/ \E a \in Admins : Show(a, NoScreen),
         orderItem' \in [Orders -> ItemRows],
         \A o \in Orders : \/ orderItem'[o] = orderItem[o]
                           \/ /\ orderItem'[o].status = "CONFIRMED" /\ orderItem'[o].took
                              /\ orderItem[o].status \in Open
                              /\ orderItem'[o].variant = orderItem[o].variant,
         overwritten' = overwritten, unlinked' = unlinked, NEW v \in VariantRows,
         NEW m \in Nat, NEW n \in Nat,
         stock' = [stock EXCEPT ![v] = m], onHand' = [onHand EXCEPT ![v] = n],
         stock[v] = onHand[v] => m = n
  PROVE  CatalogInv'
<1>1. /\ stock \in Stocks /\ onHand \in Stocks /\ VariantRows \subseteq DOMAIN onHand
      /\ v \in DOMAIN onHand
  BY DEF CatalogInv, CatalogTypes
<1>2. /\ stock' \in Stocks /\ onHand' \in Stocks
      /\ DOMAIN stock' = DOMAIN stock /\ DOMAIN onHand' = DOMAIN onHand
  BY <1>1, StocksFacts
<1>3. /\ stock'[v] = m /\ onHand'[v] = n
      /\ \A w \in VariantRows : w # v => stock'[w] = stock[w] /\ onHand'[w] = onHand[w]
  BY <1>1 DEF VariantRows
<1>4. /\ screen' \in [Admins -> Screens]
      /\ \A a \in Admins : screen'[a] = screen[a] \/ screen'[a] = NoScreen
  BY NoScreenType DEF CatalogInv, CatalogTypes, Show
<1>5. CatalogTypes' /\ FormsInv'
  BY <1>1, <1>2, <1>4, NoScreenType DEF CatalogInv, CatalogTypes, FormsInv, VariantRows
<1>6. StockIsShelf'
  BY <1>2, <1>3 DEF CatalogInv, StockIsShelf, VariantRows
<1>7. \A w : Needs(w)' \subseteq Needs(w)
  BY DEF Needs
<1>8. \A a \in Admins : screen'[a].drop \subseteq screen[a].drop
  BY <1>4, NoScreenType
<1>9. LinkedInv'
  BY <1>2, <1>7, <1>8 DEF CatalogInv, LinkedInv, VariantRows
<1>10. QED
  BY <1>5, <1>6, <1>9 DEF CatalogInv

LEMMA SellStep ==
  ASSUME CatalogInv, NEW o \in Orders, ConfirmOrder(o)
  PROVE  CatalogInv'
<1> PICK v : v = orderItem[o].variant
  OBVIOUS
<1>1. /\ orderItem[o].status = "PENDING" /\ orderItem[o] \in ItemRows
      /\ screen' = screen /\ overwritten' = overwritten /\ unlinked' = unlinked
  BY ItemFacts DEF ConfirmOrder
<1>2. ASSUME v \in VariantRows, stock[v] > 0, stock' = [stock EXCEPT ![v] = @ - 1],
             onHand' = [onHand EXCEPT ![v] = IF @ > 0 THEN @ - 1 ELSE 0],
             orderItem' = [orderItem EXCEPT ![o].status = "CONFIRMED", ![o].took = TRUE]
      PROVE  CatalogInv'
  <2> DEFINE line == [[orderItem[o] EXCEPT !.status = "CONFIRMED"] EXCEPT !.took = TRUE]
             m == stock[v] - 1
             n == IF onHand[v] > 0 THEN onHand[v] - 1 ELSE 0
  <2>1. line \in ItemRows /\ line.status = "CONFIRMED" /\ line.took /\ line.variant = v
    BY <1>1 DEF ItemRows
  <2>2. orderItem' = [orderItem EXCEPT ![o] = line] /\ orderItem \in [Orders -> ItemRows]
    BY <1>2 DEF CatalogInv, CatalogTypes
  <2>3. m \in Nat /\ n \in Nat /\ (stock[v] = onHand[v] => m = n)
    BY <1>2, RowFacts
  <2>4. stock' = [stock EXCEPT ![v] = m] /\ onHand' = [onHand EXCEPT ![v] = n]
    BY <1>2
  <2> HIDE DEF line, m, n
  <2>5. orderItem' \in [Orders -> ItemRows] /\ orderItem'[o] = line
        /\ \A q \in Orders : q # o => orderItem'[q] = orderItem[q]
    BY <2>1, <2>2
  <2>6. \A q \in Orders : \/ orderItem'[q] = orderItem[q]
                          \/ /\ orderItem'[q].status = "CONFIRMED" /\ orderItem'[q].took
                             /\ orderItem[q].status \in Open
                             /\ orderItem'[q].variant = orderItem[q].variant
    BY <1>1, <2>1, <2>5 DEF Open
  <2>7. QED
    <3>1. v \in VariantRows /\ orderItem' \in [Orders -> ItemRows]
      BY <1>2, <2>5
    <3>2. QED
      BY <1>1, <2>3, <2>4, <2>6, <3>1, StockStep
<1>3. CASE stock[v] = 0 /\ orderItem' = [orderItem EXCEPT ![o].status = "CLOSED"]
           /\ stock' = stock /\ onHand' = onHand
  BY <1>1, <1>3, CloseStep
<1>4. ASSUME v = NoVariant, stock' = stock, onHand' = onHand,
             orderItem' = [orderItem EXCEPT ![o].status = "CONFIRMED"]
      PROVE  CatalogInv'
  <2> DEFINE line == [orderItem[o] EXCEPT !.status = "CONFIRMED"]
  <2>1. line \in ItemRows /\ line.status = "CONFIRMED" /\ line.variant = NoVariant
    BY <1>1, <1>4 DEF ItemRows
  <2>2. orderItem' = [orderItem EXCEPT ![o] = line]
    BY <1>4
  <2>3. unlinked /\ \A a \in Admins : NoVariant \notin screen[a].drop
    BY <1>1, <1>4, RowFacts, CatalogAssumption
       DEF CatalogInv, LinkedInv, CatalogTypes, Screens
  <2> HIDE DEF line
  <2>4. QED
    BY <1>1, <1>4, <2>1, <2>2, <2>3, ItemStep DEF CatalogInv, CatalogTypes
<1>5. QED
  BY <1>2, <1>3, <1>4 DEF ConfirmOrder

-----------------------------------------------------------------------------
LEMMA ScreenFacts ==
  ASSUME CatalogInv, NEW a \in Admins
  PROVE  screen[a] \in Screens /\ screen[a].saw \in Stocks /\ screen[a].write \in Stocks
BY DEF CatalogInv, CatalogTypes, Screens

LEMMA ClosesScreen ==
  ASSUME CatalogInv, NEW a \in Admins, Show(a, NoScreen),
         stock' = stock, onHand' = onHand, orderItem' = orderItem,
         overwritten' = overwritten, unlinked' = unlinked
  PROVE  CatalogInv'
BY NoScreenType, ScreenStep

LEMMA OpenStep ==
  ASSUME CatalogInv, NEW a \in Admins, OpenScreen(a)
  PROVE  CatalogInv'
<1> DEFINE s == [[NoScreen EXCEPT !.pc = "shown"] EXCEPT !.saw = stock]
<1>1. s \in Screens /\ s.drop = {} /\ DOMAIN s.write = {}
  BY StocksFacts DEF NoScreen, Screens, CatalogInv, CatalogTypes
<1>2. /\ Show(a, s) /\ stock' = stock /\ onHand' = onHand /\ orderItem' = orderItem
      /\ overwritten' = overwritten /\ unlinked' = unlinked
  BY DEF OpenScreen
<1> HIDE DEF s
<1>3. QED
  BY <1>1, <1>2, ScreenStep

LEMMA AdjustStep ==
  ASSUME CatalogInv, NEW a \in Admins, NEW v \in VariantRows, NEW received \in 1..MaxStock,
         Adjust(a, v, received)
  PROVE  CatalogInv'
<1>1. Show(a, NoScreen) /\ orderItem' = orderItem /\ overwritten' = overwritten
      /\ unlinked' = unlinked /\ orderItem \in [Orders -> ItemRows]
  BY DEF Adjust, CatalogInv, CatalogTypes
<1>2. received \in Nat /\ stock[v] \in Nat /\ onHand[v] \in Nat
  BY RowFacts, CatalogAssumption
<1>3. CASE /\ stock' = [stock EXCEPT ![v] = stock[v] + received]
           /\ onHand' = [onHand EXCEPT ![v] = onHand[v] + received]
  <2>1. stock[v] + received \in Nat /\ onHand[v] + received \in Nat
    BY <1>2
  <2>2. QED
    BY <1>1, <1>3, <2>1, StockStep
<1>4. CASE stock' = stock /\ onHand' = onHand
  BY <1>1, <1>4, ClosesScreen
<1>5. QED
  BY <1>3, <1>4 DEF Adjust

LEMMA PlanStep ==
  ASSUME CatalogInv, NEW a \in Admins, NEW write \in Stocks, PlanVariantChanges(a, write)
  PROVE  CatalogInv'
<1> DEFINE drop == VariantRows \ DOMAIN write
           s == [[[screen[a] EXCEPT !.pc = "save"] EXCEPT !.drop = drop] EXCEPT !.write = write]
<1>1. /\ stock' = stock /\ onHand' = onHand /\ orderItem' = orderItem
      /\ overwritten' = overwritten /\ unlinked' = unlinked
  BY DEF PlanVariantChanges
<1>2. VariantRows \subseteq Variants
  BY StocksFacts DEF VariantRows, CatalogInv, CatalogTypes
<1>3. s \in Screens /\ s.drop = drop /\ s.write = write
  BY <1>2, ScreenFacts DEF Screens
<1>4. CASE Show(a, s) /\ \A v \in drop : Needs(v) = {}
  <2>1. DOMAIN write \cap drop = {}
    OBVIOUS
  <2> HIDE DEF drop, s
  <2>2. QED
    BY <1>1, <1>3, <1>4, <2>1, ScreenStep
<1>5. CASE Show(a, NoScreen)
  BY <1>1, <1>5, ClosesScreen
<1>6. QED
  BY <1>4, <1>5 DEF PlanVariantChanges

-----------------------------------------------------------------------------
(* The items that the deletion of some rows unlinks.                         *)
LEMMA Unlinks ==
  ASSUME CatalogInv, NEW gone, Unlink(gone)
  PROVE  /\ orderItem' \in [Orders -> ItemRows]
         /\ \A o \in Orders :
              /\ orderItem'[o].status = orderItem[o].status
              /\ orderItem'[o].took = orderItem[o].took
              /\ \/ orderItem'[o].variant = NoVariant /\ orderItem[o].variant \in gone
                    /\ orderItem[o].status # "CHECKOUT"
                 \/ orderItem'[o] = orderItem[o]
                    /\ (orderItem[o].variant \notin gone \/ orderItem[o].status = "CHECKOUT")
<1>1. \A o \in Orders :
        /\ [orderItem[o] EXCEPT !.variant = NoVariant] \in ItemRows
        /\ [orderItem[o] EXCEPT !.variant = NoVariant].variant = NoVariant
        /\ [orderItem[o] EXCEPT !.variant = NoVariant].status = orderItem[o].status
        /\ [orderItem[o] EXCEPT !.variant = NoVariant].took = orderItem[o].took
  BY ItemFacts DEF ItemRows
<1>2. QED
  BY <1>1, ItemFacts DEF Unlink

LEMMA SaveStep ==
  ASSUME CatalogInv, NEW a \in Admins, NEW new \in Stocks, DOMAIN new \cap DOMAIN onHand = {},
         SaveProduct(a, new)
  PROVE  CatalogInv'
<1> PICK saw, drop, write, kept :
      /\ saw = screen[a].saw /\ drop = screen[a].drop
      /\ write = screen[a].write /\ kept = DOMAIN write
  OBVIOUS
<1> PICK fresh : fresh = DOMAIN new
  OBVIOUS
<1>1. Show(a, NoScreen) /\ unlinked' = unlinked
  BY DEF SaveProduct
<1>2. CASE UNCHANGED <<stock, overwritten, onHand, orderItem>>
  BY <1>1, <1>2, ClosesScreen
<1>3. ASSUME kept \subseteq VariantRows,
             stock' = [v \in (VariantRows \ drop) \cup fresh |->
                         IF v \in kept THEN write[v] ELSE IF v \in fresh THEN new[v] ELSE stock[v]],
             overwritten' = (overwritten \/ \E v \in kept : stock[v] \notin {saw[v], write[v]}),
             onHand' = [v \in DOMAIN onHand \cup fresh |->
                          IF v \in {w \in kept : write[w] # saw[w]} THEN write[v]
                          ELSE IF v \in fresh THEN new[v]
                          ELSE IF v \in drop THEN 0 ELSE onHand[v]],
             Unlink(drop)
      PROVE  CatalogInv'
  <2>1. /\ stock \in Stocks /\ onHand \in Stocks /\ VariantRows \subseteq DOMAIN onHand
        /\ write \in Stocks /\ kept \cap drop = {} /\ overwritten \in BOOLEAN
    BY ScreenFacts DEF CatalogInv, CatalogTypes, FormsInv
  <2>2. /\ VariantRows \subseteq Variants /\ DOMAIN onHand \subseteq Variants /\ fresh \subseteq Variants
        /\ \A v \in VariantRows : stock[v] \in Nat
        /\ \A v \in DOMAIN onHand : onHand[v] \in Nat
        /\ \A v \in kept : write[v] \in Nat
        /\ \A v \in fresh : new[v] \in Nat
    BY <2>1, StocksFacts DEF VariantRows
  <2>3. /\ DOMAIN stock' = (VariantRows \ drop) \cup fresh
        /\ DOMAIN onHand' = DOMAIN onHand \cup fresh
    BY <1>3
  <2>4. /\ (VariantRows \ drop) \cup fresh \in SUBSET Variants
        /\ DOMAIN onHand \cup fresh \in SUBSET Variants
    BY <2>2
  <2>5. stock' \in [(VariantRows \ drop) \cup fresh -> Nat]
    BY <1>3, <2>2
  <2>6. onHand' \in [DOMAIN onHand \cup fresh -> Nat]
    BY <1>3, <2>2
  <2>7. stock' \in Stocks /\ onHand' \in Stocks
    BY <2>4, <2>5, <2>6, StocksFacts
  <2>8. overwritten' \in BOOLEAN
    BY <1>3, <2>1
  <2>9. /\ screen' \in [Admins -> Screens] /\ screen'[a] = NoScreen
        /\ \A b \in Admins : b # a => screen'[b] = screen[b]
    BY <1>1, NoScreenType DEF CatalogInv, CatalogTypes, Show
  <2>10. CatalogTypes'
    BY <1>1, <1>3, <2>1, <2>3, <2>7, <2>8, <2>9, Unlinks DEF CatalogInv, CatalogTypes, VariantRows
  <2>11. FormsInv'
    BY <2>9, NoScreenType DEF CatalogInv, FormsInv
  <2>12. StockIsShelf'
    <3>1. SUFFICES ASSUME ~overwritten', NEW v \in DOMAIN stock' PROVE stock'[v] = onHand'[v]
      BY DEF StockIsShelf, VariantRows
    <3>2. ~overwritten /\ \A w \in kept : stock[w] = saw[w] \/ stock[w] = write[w]
      BY <1>3, <3>1
    <3>3. v \in DOMAIN onHand \cup fresh /\ v \in (VariantRows \ drop) \cup fresh
      BY <2>1, <2>3, <3>1
    <3>4. kept \cap fresh = {}
      BY <1>3, <2>1
    <3>5. stock'[v] = IF v \in kept THEN write[v] ELSE IF v \in fresh THEN new[v] ELSE stock[v]
      BY <1>3, <3>3
    <3>6. onHand'[v] = IF v \in kept /\ write[v] # saw[v] THEN write[v]
                       ELSE IF v \in fresh THEN new[v] ELSE IF v \in drop THEN 0 ELSE onHand[v]
      BY <1>3, <3>3
    <3>7. v \notin fresh => v \notin drop /\ stock[v] = onHand[v]
      BY <3>2, <3>3 DEF CatalogInv, StockIsShelf
    <3>8. QED
      BY <3>2, <3>4, <3>5, <3>6, <3>7
  <2>13. LinkedInv'
    <3>1. SUFFICES ASSUME ~unlinked'
                   PROVE  /\ \A o \in Orders : orderItem'[o].status = "PENDING" =>
                                orderItem'[o].variant \in DOMAIN stock'
                          /\ \A o \in Orders : orderItem'[o].status = "CONFIRMED" =>
                                orderItem'[o].took
                          /\ \A b \in Admins : \A v \in screen'[b].drop : Needs(v)' = {}
      BY DEF LinkedInv, VariantRows
    <3>2. /\ \A o \in Orders : orderItem[o].status = "PENDING" => orderItem[o].variant \in VariantRows
          /\ \A o \in Orders : orderItem[o].status = "CONFIRMED" => orderItem[o].took
          /\ \A b \in Admins : \A v \in screen[b].drop : Needs(v) = {}
      BY <1>1, <3>1 DEF CatalogInv, LinkedInv
    <3>3. ASSUME NEW o \in Orders, orderItem'[o].status = "PENDING"
          PROVE  orderItem'[o].variant \in DOMAIN stock'
      <4>1. orderItem[o].status = "PENDING" /\ orderItem[o].variant \in VariantRows
        BY <1>3, <3>2, <3>3, Unlinks
      <4>2. o \in Needs(orderItem[o].variant)
        BY <4>1 DEF Needs, Open
      <4>3. orderItem[o].variant \notin drop
        BY <3>2, <4>2
      <4>4. QED
        BY <1>3, <2>3, <4>1, <4>3, Unlinks
    <3>4. \A o \in Orders : orderItem'[o].status = "CONFIRMED" => orderItem'[o].took
      BY <1>3, <3>2, Unlinks
    <3>5. ASSUME NEW b \in Admins, NEW v \in screen'[b].drop PROVE Needs(v)' = {}
      <4>1. v \in screen[b].drop /\ Needs(v) = {} /\ v # NoVariant
        BY <2>9, <3>2, <3>5, NoScreenType, CatalogAssumption DEF Screens
      <4>2. QED
        BY <1>3, <4>1, Unlinks DEF Needs
    <3>6. QED
      BY <3>3, <3>4, <3>5
  <2>14. QED
    BY <2>10, <2>11, <2>12, <2>13 DEF CatalogInv
<1>4. QED
  BY <1>2, <1>3 DEF SaveProduct

LEMMA RemoveStep ==
  ASSUME CatalogInv, RemoveProduct
  PROVE  CatalogInv'
<1>1. /\ stock' = <<>> /\ onHand' = [v \in DOMAIN onHand |-> 0]
      /\ unlinked' = (unlinked \/ \E v \in VariantRows : Needs(v) # {})
      /\ Unlink(VariantRows) /\ screen' = screen /\ overwritten' = overwritten
  BY DEF RemoveProduct
<1>2. onHand \in Stocks /\ DOMAIN onHand \in SUBSET Variants
  BY StocksFacts DEF CatalogInv, CatalogTypes
<1>3. onHand' \in [DOMAIN onHand -> Nat] /\ DOMAIN onHand' = DOMAIN onHand
  BY <1>1
<1>4. onHand' \in Stocks /\ stock' \in Stocks /\ DOMAIN stock' = {}
  BY <1>1, <1>2, <1>3, StocksFacts
<1>5. CatalogTypes'
  BY <1>1, <1>4, Unlinks DEF CatalogInv, CatalogTypes, VariantRows
<1>6. FormsInv' /\ StockIsShelf'
  BY <1>1, <1>4 DEF CatalogInv, FormsInv, StockIsShelf, VariantRows
<1>7. LinkedInv'
  <2>1. SUFFICES ASSUME ~unlinked'
                 PROVE  /\ \A o \in Orders : orderItem'[o].status # "PENDING"
                        /\ \A o \in Orders : orderItem'[o].status = "CONFIRMED" =>
                              orderItem'[o].took
                        /\ \A a \in Admins : \A v \in screen[a].drop : Needs(v)' = {}
    BY <1>1 DEF LinkedInv
  <2>2. /\ \A v \in VariantRows : Needs(v) = {}
        /\ \A o \in Orders : orderItem[o].status = "PENDING" => orderItem[o].variant \in VariantRows
        /\ \A o \in Orders : orderItem[o].status = "CONFIRMED" => orderItem[o].took
        /\ \A a \in Admins : \A v \in screen[a].drop : Needs(v) = {} /\ v # NoVariant
    BY <1>1, <2>1, CatalogAssumption DEF CatalogInv, LinkedInv, CatalogTypes, Screens
  <2>3. \A o \in Orders : orderItem[o].status # "PENDING"
    BY <2>2 DEF Needs, Open
  <2>4. QED
    BY <1>1, <2>2, <2>3, Unlinks DEF Needs
<1>8. QED
  BY <1>5, <1>6, <1>7 DEF CatalogInv

LEMMA CatalogStep == CatalogInv /\ [CatalogNext]_catalogVars => CatalogInv'
<1> SUFFICES ASSUME CatalogInv, [CatalogNext]_catalogVars PROVE CatalogInv'
  OBVIOUS
<1>1. CASE /\ stock' = stock /\ onHand' = onHand /\ orderItem' = orderItem /\ screen' = screen
           /\ overwritten' = overwritten /\ unlinked' = unlinked
  BY <1>1 DEF CatalogInv, CatalogTypes, FormsInv, LinkedInv, StockIsShelf, VariantRows, Needs
<1>2. ASSUME NEW o \in Orders, Sell(o) PROVE CatalogInv'
  <2>1. CASE Close(o)
    BY <2>1, CloseStep DEF Close
  <2>2. QED
    BY <1>2, <2>1, CheckoutStep, PersistStep, SellStep DEF Sell
<1>3. ASSUME NEW a \in Admins, Administer(a) PROVE CatalogInv'
  <2>1. ASSUME NEW ids \in SUBSET (Variants \ DOMAIN onHand), NEW new \in [ids -> Counts \cup {0}],
               SaveProduct(a, new)
        PROVE  CatalogInv'
    <3>1. new \in [ids -> Nat] /\ DOMAIN new = ids
      <4>1. Counts \cup {0} \subseteq Nat
        BY CatalogAssumption
      <4>2. DOMAIN new = ids /\ \A v \in ids : new[v] \in Counts \cup {0}
        OBVIOUS
      <4>3. new = [v \in ids |-> new[v]]
        OBVIOUS
      <4>4. QED
        BY <4>1, <4>2, <4>3
    <3>2. new \in Stocks
      BY <3>1, StocksFacts
    <3>3. DOMAIN new \cap DOMAIN onHand = {}
      BY <3>1
    <3>4. QED
      BY <2>1, <3>2, <3>3, SaveStep
  <2>2. ASSUME NEW keep \in SUBSET DOMAIN screen[a].saw, NEW ids \in SUBSET keep,
               NEW typed \in [ids -> Counts],
               PlanVariantChanges(a, [v \in keep |-> IF v \in ids THEN typed[v] ELSE screen[a].saw[v]])
        PROVE  CatalogInv'
    <3> DEFINE write == [v \in keep |-> IF v \in ids THEN typed[v] ELSE screen[a].saw[v]]
    <3>1. keep \in SUBSET Variants /\ \A v \in keep : screen[a].saw[v] \in Nat
      BY ScreenFacts, StocksFacts
    <3>2. write \in [keep -> Nat]
      BY <3>1, CatalogAssumption
    <3>3. write \in Stocks
      BY <3>1, <3>2, StocksFacts
    <3> HIDE DEF write
    <3>4. PlanVariantChanges(a, write)
      BY <2>2 DEF write
    <3>5. QED
      BY <3>3, <3>4, PlanStep
  <2>3. CASE OpenScreen(a)
    BY <2>3, OpenStep
  <2>4. CASE \E v \in VariantRows, n \in 1..MaxStock : Adjust(a, v, n)
    BY <2>4, AdjustStep
  <2>5. CASE \E ids \in SUBSET (Variants \ DOMAIN onHand) :
               \E new \in [ids -> Counts \cup {0}] : SaveProduct(a, new)
    BY <2>1, <2>5
  <2>6. CASE \E keep \in SUBSET DOMAIN screen[a].saw :
               \E ids \in SUBSET keep : \E typed \in [ids -> Counts] :
                 PlanVariantChanges(a, [v \in keep |->
                   IF v \in ids THEN typed[v] ELSE screen[a].saw[v]])
    BY <2>2, <2>6, Zenon
  <2>7. QED
    BY <1>3, <2>3, <2>4, <2>5, <2>6, Zenon DEF Administer
<1>4. CASE \E to \in {"ACTIVE", "ARCHIVED"} : Publish(to)
  BY <1>1, <1>4 DEF Publish
<1>5. QED
  BY <1>1, <1>2, <1>3, <1>4, RemoveStep DEF CatalogNext, catalogVars

-----------------------------------------------------------------------------
(* Sales, receipts, cancelled saves and deletions in any order: the stock of  *)
(* a row is what lies on the shelf, unless a save wrote a stock over one its  *)
(* form did not show.                                                       *)
THEOREM StockStaysShelf == CatalogSpec => []StockIsShelf
<1>1. CatalogInv => StockIsShelf
  BY DEF CatalogInv
<1>2. QED
  BY <1>1, InitCatalog, CatalogStep, PTL DEF CatalogSpec

(* A confirmed order took its unit, whatever variants admins drop meanwhile,  *)
(* unless it was placed under a save's check or the product was deleted.     *)
THEOREM ConfirmedOrdersTookStock == CatalogSpec => []ConfirmedTookStock
<1>1. CatalogInv => ConfirmedTookStock
  BY DEF CatalogInv, LinkedInv, ConfirmedTookStock, CatalogTypes
<1>2. QED
  BY <1>1, InitCatalog, CatalogStep, PTL DEF CatalogSpec
-----------------------------------------------------------------------------
(***************************************************************************)
(* Reviews: why a review counts its voters, and what a moderation that no  *)
(* other crossed makes of the product's rating.                            *)
(***************************************************************************)
ReviewRow == [status : Status \cup {"none"}, stars : Nat, helpfulCount : Nat]

Reviews ==
  /\ IsFiniteSet(Customers) /\ Stars \subseteq Nat
  /\ review \in [Customers -> ReviewRow]
  /\ votes \subseteq Customers \X Customers
  /\ DOMAIN task = Reviewing

(* A call is about a review; a moderation about one that was written.       *)
Handles(t) ==
  /\ DOMAIN t = {"pc", "by", "of", "stars", "status", "agg", "missed"}
  /\ t.pc \in {"idle", "insert", "vote", "moderate", "aggregate", "write"}
  /\ t.pc # "idle" => t.of \in Customers
  /\ t.pc = "insert" => t.stars \in Nat
  /\ t.pc = "vote" => t.by \in Customers /\ review[t.of].status # "none"
  /\ t.pc \in {"moderate", "aggregate", "write"} =>
       t.status \in {"APPROVED", "REJECTED"} /\ review[t.of].status # "none"

TasksHandle == \A r \in Reviewing : Handles(task[r])

(* A review that is not there has no votes and no stars to count.           *)
UnwrittenInv ==
  \A u \in Customers : review[u] = NoReview <=> review[u].status = "none"

Approvals(st) == {u \in Customers : st[u] = "APPROVED"}

StarsOf(rows) == [u \in Customers |-> rows[u].stars]

(* The rating in terms of who is approved and of their stars.               *)
Rating(n, total) ==
  IF n = 0 THEN Unrated ELSE [count |-> n, average |-> (200 * total + n) \div (2 * n)]

RatingFrom(rows, st) ==
  Rating(Cardinality(Approvals(st)), SumFunctionOnSet(StarsOf(rows), Approvals(st)))

Decided(c, a, st) == [c EXCEPT ![a] = st]

(* What a moderation has computed is what it would compute again, while no  *)
(* other commits.                                                           *)
AggregateInv ==
  \A r \in Reviewing :
    task[r].pc = "write" /\ ~task[r].missed =>
      task[r].agg = RatingFrom(review, Decided(Committed, task[r].of, task[r].status))

ReviewInv ==
  Reviews /\ TasksHandle /\ UnwrittenInv /\ HelpfulCountsVoters /\ AggregateInv

-----------------------------------------------------------------------------
LEMMA StarSums ==
  ASSUME IsFiniteSet(Customers), NEW rows, NEW X \in SUBSET Customers
  PROVE  (CHOOSE g : g = [s \in SUBSET X |->
                            IF s = {} THEN 0
                            ELSE rows[CHOOSE x \in s : TRUE].stars
                                   + g[s \ {CHOOSE x \in s : TRUE}]])[X]
           = SumFunctionOnSet(StarsOf(rows), X)
<1>. DEFINE P(g) == g = [s \in SUBSET X |->
                           IF s = {} THEN 0
                           ELSE rows[CHOOSE x \in s : TRUE].stars
                                  + g[s \ {CHOOSE x \in s : TRUE}]]
            h == CHOOSE g : P(g)
<1>0. IsFiniteSet(X)
  BY FS_Subset
<1>1. ASSUME NEW g PROVE P(g) <=> AddsUp(g, StarsOf(rows), SUBSET X)
  <2>1. \A s \in SUBSET X : s # {} =>
          StarsOf(rows)[CHOOSE x \in s : TRUE] = rows[CHOOSE x \in s : TRUE].stars
    BY DEF StarsOf
  <2>. QED  BY <2>1 DEF AddsUp, FirstOf
<1>2. \E g : P(g)
  BY <1>0, <1>1, SumsExist
<1>3. P(h)
  BY <1>2
<1>4. h[X] = SumFunctionOnSet(StarsOf(rows), X)
  <2>. HIDE DEF h, P
  <2>. QED  BY <1>0, <1>1, <1>3, SumValue
<1>. QED  BY <1>4

LEMMA RatingIs ==
  ASSUME IsFiniteSet(Customers), NEW st
  PROVE  RatingOf(st) = RatingFrom(review, st)
  BY StarSums DEF RatingOf, RatingFrom, Rating, Approvals, MapThenSumSet, MapThenFoldSet

LEMMA RatingCommitted ==
  ASSUME IsFiniteSet(Customers)
  PROVE  RatingOf(Committed)' = RatingFrom(review', Committed')
<1>1. Approvals(Committed') \in SUBSET Customers
  BY DEF Approvals
<1>. QED  BY <1>1, StarSums DEF RatingOf, RatingFrom, Rating, Approvals, MapThenSumSet, MapThenFoldSet

(* Only the approved reviews and their stars make the rating.               *)
LEMMA RatingSame ==
  ASSUME IsFiniteSet(Customers), NEW st, NEW tt, Approvals(tt) = Approvals(st),
         NEW rows, NEW others, \A u \in Approvals(st) : others[u].stars = rows[u].stars
  PROVE  RatingFrom(rows, st) = RatingFrom(others, tt)
<1>1. IsFiniteSet(Approvals(st))
  BY FS_Subset DEF Approvals
<1>2. \A u \in Approvals(st) : StarsOf(rows)[u] = StarsOf(others)[u]
  BY DEF StarsOf, Approvals
<1>3. SumFunctionOnSet(StarsOf(rows), Approvals(st))
        = SumFunctionOnSet(StarsOf(others), Approvals(st))
  BY <1>1, <1>2, SumSame
<1>. QED  BY <1>3 DEF RatingFrom

(* What a moderation of a has computed survives a step that leaves the      *)
(* approved reviews, and a's, as they are.                                  *)
LEMMA DecidedSame ==
  ASSUME IsFiniteSet(Customers), NEW a \in Customers, NEW st,
         \A u \in Customers : review'[u].status = "APPROVED" <=> review[u].status = "APPROVED",
         \A u \in Customers : review[u].status = "APPROVED" \/ u = a =>
                                review'[u].stars = review[u].stars
  PROVE  RatingFrom(review, Decided(Committed, a, st))
           = RatingFrom(review', Decided(Committed', a, st))
<1>1. Approvals(Decided(Committed', a, st)) = Approvals(Decided(Committed, a, st))
  BY DEF Approvals, Decided, Committed
<1>2. \A u \in Approvals(Decided(Committed, a, st)) : review'[u].stars = review[u].stars
  BY DEF Approvals, Decided, Committed
<1>. QED  BY <1>1, <1>2, RatingSame

-----------------------------------------------------------------------------
(* The tasks after a step of r that leaves the reviews' presence alone.     *)
LEMMA TaskMoves ==
  ASSUME ReviewInv, NEW r \in Reviewing, NEW t, Become(r, t), Handles(t)',
         \A u \in Customers : review[u].status # "none" => review'[u].status # "none"
  PROVE  /\ TasksHandle' /\ DOMAIN task' = Reviewing
         /\ task'[r] = t /\ \A q \in Reviewing : q # r => task'[q] = task[q]
<1>1. /\ DOMAIN task' = Reviewing
      /\ task'[r] = t /\ \A q \in Reviewing : q # r => task'[q] = task[q]
  BY DEF Become, ReviewInv, Reviews
<1>2. ASSUME NEW q \in Reviewing, q # r PROVE Handles(task[q])'
  BY <1>1, <1>2 DEF Handles, ReviewInv, TasksHandle
<1>3. (Handles(task[r]))'
  BY <1>1 DEF Handles
<1>. QED  BY <1>1, <1>2, <1>3 DEF TasksHandle, Handles

(* Computed ratings after such a step.                                      *)
LEMMA AggregateKept ==
  ASSUME ReviewInv, NEW r \in Reviewing, \A q \in Reviewing : q # r => task'[q] = task[q],
         task'[r].pc = "write" /\ ~task'[r].missed =>
           /\ task'[r].of \in Customers
           /\ task'[r].agg = RatingFrom(review, Decided(Committed, task'[r].of, task'[r].status))
           /\ review[task'[r].of].status # "none",
         \A u \in Customers : review'[u].status = "APPROVED" <=> review[u].status = "APPROVED",
         \A u \in Customers : review[u].status # "none" => review'[u].stars = review[u].stars
  PROVE  AggregateInv'
<1>. SUFFICES ASSUME NEW q \in Reviewing, task'[q].pc = "write", ~task'[q].missed,
                     NEW a, a = task'[q].of, NEW st, st = task'[q].status
     PROVE  task'[q].agg = RatingFrom(review', Decided(Committed', a, st))
  BY DEF AggregateInv
<1>1. CASE q = r
  <2>1. /\ a \in Customers /\ review[a].status # "none"
        /\ task'[q].agg = RatingFrom(review, Decided(Committed, a, st))
    BY <1>1
  <2>2. IsFiniteSet(Customers) /\ review[a].status # "none"
    BY <2>1 DEF ReviewInv, Reviews
  <2>. QED  BY <2>1, <2>2, DecidedSame
<1>2. CASE q # r
  <2>1. task'[q] = task[q] /\ Handles(task[q])
    BY <1>2 DEF ReviewInv, TasksHandle
  <2>2. /\ a \in Customers /\ review[a].status # "none"
        /\ task'[q].agg = RatingFrom(review, Decided(Committed, a, st))
    BY <2>1 DEF ReviewInv, AggregateInv, Handles
  <2>3. IsFiniteSet(Customers)
    BY DEF ReviewInv, Reviews
  <2>. QED  BY <2>2, <2>3, DecidedSame
<1>. QED  BY <1>1, <1>2

-----------------------------------------------------------------------------
(* A call that only moves its own task.                                     *)
LEMMA OnlyTask ==
  ASSUME ReviewInv, NEW r \in Reviewing, NEW t, Become(r, t), Handles(t)',
         UNCHANGED <<review, votes>>,
         t.pc = "write" /\ ~t.missed =>
           t.agg = RatingFrom(review, Decided(Committed, t.of, t.status))
  PROVE  ReviewInv'
<1>1. /\ TasksHandle' /\ DOMAIN task' = Reviewing
      /\ task'[r] = t /\ \A q \in Reviewing : q # r => task'[q] = task[q]
  BY TaskMoves
<1>2. t.pc = "write" => t.of \in Customers /\ review[t.of].status # "none"
  BY DEF Handles
<1>3. AggregateInv'
  BY <1>1, <1>2, AggregateKept
<1>. QED  BY <1>1, <1>3 DEF ReviewInv, Reviews, UnwrittenInv, HelpfulCountsVoters

LEMMA NoTaskHandles == Handles(NoTask)'
  BY DEF Handles, NoTask

LEMMA CreateReviewStep ==
  ASSUME ReviewInv, NEW r \in Reviewing, NEW u \in Customers, NEW s \in Stars,
         CreateReview(r, u, s)
  PROVE  ReviewInv'
<1>. DEFINE t == [NoTask EXCEPT !.pc = "insert", !.of = u, !.stars = s]
<1>1. Handles(t)' /\ t.pc = "insert"
  BY DEF Handles, NoTask, ReviewInv, Reviews
<1>2. Become(r, t) /\ UNCHANGED <<review, votes>>
  BY DEF CreateReview
<1>. HIDE DEF t
<1>. QED  BY <1>1, <1>2, OnlyTask

LEMMA VoteHelpfulStep ==
  ASSUME ReviewInv, NEW r \in Reviewing, NEW u \in Customers, NEW a \in Customers,
         VoteHelpful(r, u, a)
  PROVE  ReviewInv'
<1>. DEFINE t == [NoTask EXCEPT !.pc = "vote", !.by = u, !.of = a]
<1>1. Become(r, t) /\ UNCHANGED <<review, votes>> /\ review[a].status = "APPROVED"
  BY DEF VoteHelpful
<1>2. Handles(t)' /\ t.pc = "vote"
  BY <1>1 DEF Handles, NoTask
<1>. HIDE DEF t
<1>. QED  BY <1>1, <1>2, OnlyTask

LEMMA ModerateStep ==
  ASSUME ReviewInv, NEW r \in Reviewing, NEW a \in Customers,
         NEW st \in {"APPROVED", "REJECTED"}, Moderate(r, a, st)
  PROVE  ReviewInv'
<1>. DEFINE t == [NoTask EXCEPT !.pc = "moderate", !.of = a, !.status = st]
<1>1. Become(r, t) /\ UNCHANGED <<review, votes>> /\ review[a].status # "none"
  BY DEF Moderate, ReviewInv, UnwrittenInv
<1>2. Handles(t)' /\ t.pc = "moderate"
  BY <1>1 DEF Handles, NoTask
<1>. HIDE DEF t
<1>. QED  BY <1>1, <1>2, OnlyTask

LEMMA UpdateReviewStep ==
  ASSUME ReviewInv, NEW r \in Reviewing, UpdateReview(r)
  PROVE  ReviewInv'
<1>. PICK t : t = [task[r] EXCEPT !.pc = "aggregate"]
  OBVIOUS
<1>1. Become(r, t) /\ UNCHANGED <<review, votes>> /\ task[r].pc = "moderate"
  BY DEF UpdateReview
<1>2. Handles(t)' /\ t.pc = "aggregate"
  BY <1>1 DEF Handles, ReviewInv, TasksHandle
<1>. QED  BY <1>1, <1>2, OnlyTask

LEMMA AggregateStep ==
  ASSUME ReviewInv, NEW r \in Reviewing, Aggregate(r)
  PROVE  ReviewInv'
<1>. DEFINE made == RatingOf([Committed EXCEPT ![task[r].of] = task[r].status])
<1>. PICK t : t = [task[r] EXCEPT !.pc = "write", !.agg = made]
  OBVIOUS
<1>1. Become(r, t) /\ UNCHANGED <<review, votes>> /\ task[r].pc = "aggregate"
  BY DEF Aggregate
<1>2. made = RatingFrom(review, Decided(Committed, task[r].of, task[r].status))
  BY RatingIs DEF Decided, ReviewInv, Reviews
<1>. HIDE DEF made
<1>3. /\ Handles(t)' /\ t.of = task[r].of /\ t.status = task[r].status
      /\ t.agg = made
  BY <1>1 DEF Handles, ReviewInv, TasksHandle, Reviews
<1>. QED  BY <1>1, <1>2, <1>3, OnlyTask

LEMMA RollBackStep ==
  ASSUME ReviewInv, NEW r \in Reviewing, RollBack(r)
  PROVE  ReviewInv'
<1>1. Become(r, NoTask) /\ UNCHANGED <<review, votes>> /\ NoTask.pc = "idle"
  BY DEF RollBack, End, NoTask
<1>. QED  BY <1>1, NoTaskHandles, OnlyTask

(* The two steps that write a review.                                       *)
LEMMA InsertReviewStep ==
  ASSUME ReviewInv, NEW r \in Reviewing, InsertReview(r)
  PROVE  ReviewInv'
<1>. DEFINE u == task[r].of
<1>1. u \in Customers /\ task[r].stars \in Nat /\ task[r].pc = "insert"
  BY DEF InsertReview, ReviewInv, TasksHandle, Handles
<1>2. /\ \A v \in Customers : v # u \/ review[v].status # "none" => review'[v] = review[v]
      /\ review[u].status = "none" =>
           review'[u] = [status |-> "PENDING", stars |-> task[r].stars, helpfulCount |-> 0]
      /\ review' \in [Customers -> ReviewRow]
      /\ UNCHANGED votes /\ Become(r, NoTask)
  BY <1>1 DEF InsertReview, End, ReviewInv, Reviews, UnwrittenInv, NoReview, ReviewRow, Status
<1>3. review[u].status = "none" => review[u].helpfulCount = 0
  BY <1>1 DEF ReviewInv, UnwrittenInv, NoReview
<1>4. /\ TasksHandle' /\ DOMAIN task' = Reviewing
      /\ task'[r] = NoTask /\ \A q \in Reviewing : q # r => task'[q] = task[q]
  BY <1>2, NoTaskHandles, TaskMoves
<1>5. UnwrittenInv'
  BY <1>1, <1>2 DEF ReviewInv, UnwrittenInv, NoReview
<1>6. AggregateInv'
  <2>1. NoTask.pc # "write"
    BY DEF NoTask
  <2>2. \A v \in Customers : review'[v].status = "APPROVED" <=> review[v].status = "APPROVED"
    BY <1>1, <1>2
  <2>3. \A v \in Customers : review[v].status # "none" => review'[v].stars = review[v].stars
    BY <1>2
  <2>. QED  BY <1>4, <2>1, <2>2, <2>3, AggregateKept
<1>7. HelpfulCountsVoters'
  <2>1. \A v \in Customers : review'[v].helpfulCount = review[v].helpfulCount
    BY <1>1, <1>2, <1>3
  <2>. QED  BY <1>2, <2>1 DEF ReviewInv, HelpfulCountsVoters
<1>. QED  BY <1>2, <1>4, <1>5, <1>6, <1>7 DEF ReviewInv, Reviews

LEMMA CastVoteStep ==
  ASSUME ReviewInv, NEW r \in Reviewing, CastVote(r)
  PROVE  ReviewInv'
<1>. DEFINE a == task[r].of  by == task[r].by
<1>1. /\ a \in Customers /\ by \in Customers /\ review[a].status # "none"
      /\ Become(r, NoTask)
  BY DEF CastVote, End, ReviewInv, TasksHandle, Handles
<1>2. CASE UNCHANGED <<review, votes>>
  <2>1. NoTask.pc # "write"
    BY DEF NoTask
  <2>. QED  BY <1>1, <1>2, <2>1, NoTaskHandles, OnlyTask
<1>3. CASE /\ <<a, by>> \notin votes /\ votes' = votes \cup {<<a, by>>}
           /\ review' = [review EXCEPT ![a].helpfulCount = @ + 1]
  <2>. HIDE DEF a, by
  <2>1. /\ review' \in [Customers -> ReviewRow] /\ votes' \subseteq Customers \X Customers
        /\ \A v \in Customers : v # a => review'[v] = review[v]
        /\ review'[a].status = review[a].status /\ review'[a].stars = review[a].stars
        /\ review'[a].helpfulCount = review[a].helpfulCount + 1
    BY <1>1, <1>3 DEF ReviewInv, Reviews, ReviewRow
  <2>2. /\ TasksHandle' /\ DOMAIN task' = Reviewing
        /\ task'[r] = NoTask /\ \A q \in Reviewing : q # r => task'[q] = task[q]
    <3>1. \A u \in Customers : review[u].status # "none" => review'[u].status # "none"
      BY <2>1
    <3>. QED  BY <1>1, <3>1, NoTaskHandles, TaskMoves
  <2>3. UnwrittenInv'
    BY <1>1, <2>1 DEF ReviewInv, UnwrittenInv, NoReview, Reviews, ReviewRow
  <2>4. AggregateInv'
    <3>1. NoTask.pc # "write"
      BY DEF NoTask
    <3>2. \A v \in Customers : review'[v].status = "APPROVED" <=> review[v].status = "APPROVED"
      BY <2>1
    <3>3. \A v \in Customers : review[v].status # "none" => review'[v].stars = review[v].stars
      BY <2>1
    <3>. QED  BY <2>2, <3>1, <3>2, <3>3, AggregateKept
  <2>5. HelpfulCountsVoters'
    <3>1. ASSUME NEW v \in Customers, v # a
          PROVE  review'[v].helpfulCount = Cardinality({u \in Customers : <<v, u>> \in votes'})
      <4>1. {u \in Customers : <<v, u>> \in votes'} = {u \in Customers : <<v, u>> \in votes}
        BY <1>3, <3>1
      <4>. QED  BY <2>1, <3>1, <4>1 DEF ReviewInv, HelpfulCountsVoters
    <3>2. review'[a].helpfulCount = Cardinality({u \in Customers : <<a, u>> \in votes'})
      <4>. DEFINE old == {u \in Customers : <<a, u>> \in votes}
      <4>1. {u \in Customers : <<a, u>> \in votes'} = old \cup {by} /\ by \notin old
        BY <1>1, <1>3
      <4>2. IsFiniteSet(old)
        BY FS_Subset DEF ReviewInv, Reviews
      <4>3. Cardinality(old \cup {by}) = Cardinality(old) + 1
        BY <4>1, <4>2, FS_AddElement
      <4>4. review[a].helpfulCount = Cardinality(old)
        BY <1>1 DEF ReviewInv, HelpfulCountsVoters
      <4>. QED  BY <2>1, <4>1, <4>3, <4>4
    <3>. QED  BY <3>1, <3>2 DEF HelpfulCountsVoters
  <2>. QED  BY <2>1, <2>2, <2>3, <2>4, <2>5 DEF ReviewInv, Reviews
<1>. QED  BY <1>2, <1>3 DEF CastVote

(* What it writes is the rating of the reviews it leaves, when no other     *)
(* committed since it computed; those that are yet to write have then       *)
(* missed it.                                                               *)
LEMMA CommitRating ==
  ASSUME ReviewInv, NEW r \in Reviewing, CommitModeration(r), ~task[r].missed
  PROVE  rating' = RatingFrom(review', Committed')
<1>. DEFINE a == task[r].of  st == task[r].status
<1>1. a \in Customers /\ task[r].agg = RatingFrom(review, Decided(Committed, a, st))
  BY DEF CommitModeration, ReviewInv, AggregateInv, TasksHandle, Handles
<1>2. /\ rating' = RatingFrom(review, Decided(Committed, a, st))
      /\ review' = [review EXCEPT ![a].status = st]
  BY <1>1 DEF CommitModeration
<1>. HIDE DEF a, st
<1>3. Approvals(Committed') = Approvals(Decided(Committed, a, st))
  BY <1>1, <1>2 DEF Approvals, Committed, Decided, ReviewInv, Reviews, ReviewRow
<1>4. \A u \in Customers : review'[u].stars = review[u].stars
  BY <1>1, <1>2 DEF ReviewInv, Reviews, ReviewRow
<1>5. IsFiniteSet(Customers) /\ Approvals(Decided(Committed, a, st)) \subseteq Customers
  BY DEF ReviewInv, Reviews, Approvals
<1>6. RatingFrom(review, Decided(Committed, a, st)) = RatingFrom(review', Committed')
  <2>1. \A u \in Approvals(Decided(Committed, a, st)) : review'[u].stars = review[u].stars
    BY <1>4, <1>5
  <2>. QED  BY <1>3, <1>5, <2>1, RatingSame
<1>. QED  BY <1>2, <1>6

LEMMA CommitModerationStep ==
  ASSUME ReviewInv, NEW r \in Reviewing, CommitModeration(r)
  PROVE  ReviewInv'
<1>. DEFINE a == task[r].of  st == task[r].status
<1>1. /\ a \in Customers /\ st \in {"APPROVED", "REJECTED"}
      /\ review[a].status # "none"
      /\ review' = [review EXCEPT ![a].status = st] /\ UNCHANGED votes
  BY DEF CommitModeration, ReviewInv, TasksHandle, Handles
<1>2. /\ review' \in [Customers -> ReviewRow]
      /\ \A v \in Customers : v # a => review'[v] = review[v]
      /\ review'[a].status = st
      /\ \A v \in Customers : review'[v].helpfulCount = review[v].helpfulCount
  <2>. HIDE DEF a, st
  <2>. QED  BY <1>1 DEF ReviewInv, Reviews, ReviewRow, Status
<1>3. UnwrittenInv'
  BY <1>1, <1>2 DEF ReviewInv, UnwrittenInv, NoReview
<1>4. HelpfulCountsVoters'
  BY <1>1, <1>2 DEF ReviewInv, HelpfulCountsVoters
<1>5. /\ DOMAIN task' = Reviewing
      /\ \A q \in Reviewing :
           task'[q] = IF q = r THEN NoTask
                      ELSE [task[q] EXCEPT !.missed = @ \/ task[q].pc = "write"]
  BY DEF CommitModeration
<1>6. ASSUME NEW q \in Reviewing
      PROVE  Handles(task[q])' /\ (task'[q].pc = "write" => task'[q].missed)
  <2>1. CASE q = r
    BY <1>5, <2>1, NoTaskHandles DEF Handles, NoTask
  <2>2. CASE q # r
    <3>1. Handles(task[q])
      BY DEF ReviewInv, TasksHandle
    <3>. DEFINE d == task'[q]
    <3>2. d = [task[q] EXCEPT !.missed = @ \/ task[q].pc = "write"]
      BY <1>5, <2>2
    <3>3. /\ DOMAIN d = DOMAIN task[q] /\ d.pc = task[q].pc /\ d.of = task[q].of
          /\ d.by = task[q].by /\ d.stars = task[q].stars /\ d.status = task[q].status
          /\ d.missed = (task[q].missed \/ task[q].pc = "write")
      <4>. HIDE DEF d
      <4>. QED  BY <3>1, <3>2 DEF Handles
    <3>4. \A v \in Customers : review[v].status # "none" => review'[v].status # "none"
      BY <1>1, <1>2
    <3>. QED  BY <3>1, <3>3, <3>4 DEF Handles
  <2>. QED  BY <2>1, <2>2
<1>7. TasksHandle' /\ AggregateInv'
  BY <1>6 DEF TasksHandle, AggregateInv
<1>. QED  BY <1>1, <1>2, <1>3, <1>4, <1>5, <1>7 DEF ReviewInv, Reviews

-----------------------------------------------------------------------------
LEMMA ReviewInvStarts == ReviewInit => ReviewInv
<1>. SUFFICES ASSUME ReviewInit PROVE ReviewInv
  OBVIOUS
<1>1. /\ IsFiniteSet(Customers) /\ Stars \subseteq Nat
      /\ \A u \in Customers : review[u] = NoReview
      /\ review \in [Customers -> ReviewRow] /\ votes = {}
      /\ DOMAIN task = Reviewing /\ \A r \in Reviewing : task[r] = NoTask
  BY ReviewAssumption DEF ReviewInit, NoReview, ReviewRow, Status
<1>2. TasksHandle /\ AggregateInv
  BY <1>1 DEF TasksHandle, Handles, NoTask, AggregateInv
<1>3. UnwrittenInv
  BY <1>1 DEF UnwrittenInv, NoReview
<1>4. HelpfulCountsVoters
  <2>1. \A a \in Customers : {u \in Customers : <<a, u>> \in votes} = {}
    BY <1>1
  <2>2. \A a \in Customers : review[a].helpfulCount = 0
    BY <1>1 DEF NoReview
  <2>. QED  BY <2>1, <2>2, FS_EmptySet DEF HelpfulCountsVoters
<1>. QED  BY <1>1, <1>2, <1>3, <1>4 DEF ReviewInv, Reviews

LEMMA ReviewInvKept == ReviewInv /\ [ReviewNext]_reviewVars => ReviewInv'
<1>. SUFFICES ASSUME ReviewInv, [ReviewNext]_reviewVars PROVE ReviewInv'
  OBVIOUS
<1>1. CASE UNCHANGED reviewVars
  BY <1>1 DEF reviewVars, ReviewInv, Reviews, TasksHandle, Handles, UnwrittenInv,
              HelpfulCountsVoters, AggregateInv, Committed
<1>2. CASE ReviewNext
  <2>. PICK r \in Reviewing :
         \/ StepReview(r)
         \/ \E u \in Customers, s \in Stars : CreateReview(r, u, s)
         \/ \E u, a \in Customers : VoteHelpful(r, u, a)
         \/ \E a \in Customers, st \in {"APPROVED", "REJECTED"} : Moderate(r, a, st)
    BY <1>2 DEF ReviewNext
  <2>1. CASE StepReview(r)
    BY <2>1, InsertReviewStep, CastVoteStep, UpdateReviewStep, AggregateStep,
       CommitModerationStep, RollBackStep DEF StepReview
  <2>. QED  BY <2>1, CreateReviewStep, VoteHelpfulStep, ModerateStep
<1>. QED  BY <1>1, <1>2

(* A review counts each of its voters once, whatever calls of one customer  *)
(* run at once, and for any number of customers and calls.                  *)
THEOREM VotersCountOnce == ReviewSpec => []HelpfulCountsVoters
<1>1. ReviewInv => HelpfulCountsVoters
  BY DEF ReviewInv
<1>. QED  BY <1>1, ReviewInvStarts, ReviewInvKept, PTL DEF ReviewSpec

(* A moderation no other crossed leaves the product with the rating of its  *)
(* approved reviews: what recomputeAggregate reads cannot otherwise be      *)
(* stale when it is written.                                                *)
THEOREM ModerationRepairs == ReviewSpec => RatingCatchesUp
<1>1. ASSUME ReviewInv, [ReviewNext]_reviewVars
      PROVE  [\A r \in Reviewing :
                CommitModeration(r) /\ ~task[r].missed => rating' = RatingOf(Committed)']_reviewVars
  <2>. SUFFICES ASSUME NEW r \in Reviewing, CommitModeration(r), ~task[r].missed
                PROVE  rating' = RatingOf(Committed)'
    OBVIOUS
  <2>1. IsFiniteSet(Customers)
    BY <1>1 DEF ReviewInv, Reviews
  <2>. QED  BY <1>1, <2>1, CommitRating, RatingCommitted
<1>. QED  BY <1>1, ReviewInvStarts, ReviewInvKept, PTL DEF ReviewSpec, RatingCatchesUp

-----------------------------------------------------------------------------
(***************************************************************************)
(* What the proofs about trees need to know of walks: the functions by      *)
(* which CategoryService and NavigationService follow parents are given by  *)
(* their first value and by a step.                                         *)
(***************************************************************************)
Iterates(f, base, step, N) ==
  f = [n \in 0..N |-> IF n = 0 THEN base ELSE step[f[n - 1]]]

(* Induction on the natural numbers, with a set for the statement.          *)
LEMMA NatSetInduction ==
  ASSUME NEW Good, 0 \in Good, \A n \in Nat : n \in Good => n + 1 \in Good
  PROVE  Nat \subseteq Good
<1>. SUFFICES ASSUME Nat \ Good # {} PROVE FALSE
  OBVIOUS
<1>1. PICK n \in Nat \ Good : \A m \in Nat \ Good : n <= m
  BY LeastNatural
<1>2. n # 0 /\ n - 1 \in Nat /\ (n - 1) + 1 = n /\ ~(n <= n - 1)
  BY <1>1
<1>3. n - 1 \in Good
  BY <1>1, <1>2
<1>. QED  BY <1>1, <1>2, <1>3

LEMMA IteratesExist ==
  ASSUME NEW base, NEW step, NEW N \in Nat
  PROVE  \E f : Iterates(f, base, step, N)
<1>. DEFINE Good == {n \in Nat : \E f : Iterates(f, base, step, n)}
<1>1. 0 \in Good
  <2>. DEFINE f == [n \in 0..0 |-> base]
  <2>1. Iterates(f, base, step, 0)
    BY DEF Iterates
  <2>. HIDE DEF f
  <2>. QED  BY <2>1
<1>2. ASSUME NEW n \in Nat, n \in Good PROVE n + 1 \in Good
  <2>1. PICK f : Iterates(f, base, step, n)
    BY <1>2
  <2>. DEFINE h == [m \in 0..(n + 1) |-> IF m = 0 THEN base ELSE step[f[m - 1]]]
  <2>2. \A m \in 0..n : h[m] = f[m]
    BY <2>1 DEF Iterates
  <2>3. \A m \in 0..(n + 1) : m # 0 => m - 1 \in 0..n /\ h[m - 1] = f[m - 1]
    BY <2>2
  <2>4. h = [m \in 0..(n + 1) |-> IF m = 0 THEN base ELSE step[h[m - 1]]]
    BY <2>3
  <2>. HIDE DEF h
  <2>. QED  BY <2>4 DEF Iterates
<1>. HIDE DEF Good
<1>3. N \in Good
  BY <1>1, <1>2, NatSetInduction
<1>. QED  BY <1>3 DEF Good

LEMMA Iterated ==
  ASSUME NEW base, NEW step, NEW N \in Nat, NEW f, Iterates(f, base, step, N)
  PROVE  /\ DOMAIN f = 0..N /\ f[0] = base
         /\ \A n \in Nat : n + 1 \in 0..N => n \in 0..N /\ f[n + 1] = step[f[n]]
  BY DEF Iterates

-----------------------------------------------------------------------------
(* What a cascade takes: the dead, what is right below them, and only        *)
(* entries.                                                                 *)
LEMMA CascadeTakes ==
  ASSUME IsFiniteSet(Items), Entries \subseteq Items, NEW dead \in SUBSET Entries
  PROVE  /\ dead \subseteq WithSubEntries(dead) /\ WithSubEntries(dead) \subseteq Entries
         /\ \A j \in Entries : item[j].parent \in dead => j \in WithSubEntries(dead)
         /\ \A j \in WithSubEntries(dead) : j \in dead \/ item[j].parent \in Entries
<1>. DEFINE N == Cardinality(Items)
            step == [d \in SUBSET Entries |-> d \cup {j \in Entries : item[j].parent \in d}]
            P(g) == g = [n \in 0..N |-> IF n = 0 THEN dead
                                        ELSE g[n - 1] \cup {j \in Entries : item[j].parent \in g[n - 1]}]
            down == CHOOSE g : P(g)
            Q(d) == /\ d \in SUBSET Entries /\ dead \subseteq d
                    /\ \A j \in d : j \in dead \/ item[j].parent \in Entries
<1>1. N \in Nat /\ (dead # {} => N # 0)
  BY FS_CardinalityType, FS_EmptySet, FS_Subset
<1>2. \E g : P(g)
  <2>. HIDE DEF N
  <2>1. PICK it : Iterates(it, dead, step, N)
    BY <1>1, IteratesExist
  <2>2. \A d \in SUBSET Entries : step[d] \in SUBSET Entries
    OBVIOUS
  <2>3. \A n \in Nat : n \in 0..N => it[n] \in SUBSET Entries
    <3>. DEFINE Good == {n \in Nat : n \in 0..N => it[n] \in SUBSET Entries}
    <3>. HIDE DEF step
    <3>0. /\ it[0] = dead
          /\ \A n \in Nat : n + 1 \in 0..N => n \in 0..N /\ it[n + 1] = step[it[n]]
      <4>1. N \in Nat
        BY <1>1
      <4>. QED  BY <2>1, <4>1 DEF Iterates
    <3>1. 0 \in Good
      BY <3>0
    <3>2. ASSUME NEW n \in Nat, n \in Good PROVE n + 1 \in Good
      BY <2>2, <3>0, <3>2
    <3>. HIDE DEF Good
    <3>3. Nat \subseteq Good
      BY <3>1, <3>2, NatSetInduction
    <3>. QED  BY <3>3 DEF Good
  <2>4. \A n \in 0..N : n # 0 => step[it[n - 1]] =
          it[n - 1] \cup {j \in Entries : item[j].parent \in it[n - 1]}
    BY <1>1, <2>3
  <2>5. P(it)
    BY <2>1, <2>4 DEF Iterates
  <2>. QED  BY <2>5
<1>3. P(down)
  BY <1>2
<1>. HIDE DEF N, down
<1>4. down[0] = dead /\ \A n \in 0..N : n # 0 =>
        down[n] = down[n - 1] \cup {j \in Entries : item[j].parent \in down[n - 1]}
  BY <1>1, <1>3
<1>5. \A n \in Nat : n \in 0..N =>
        Q(down[n]) /\ (n # 0 => \A j \in Entries : item[j].parent \in dead => j \in down[n])
  <2>. DEFINE Good == {n \in Nat : n \in 0..N =>
                         Q(down[n]) /\ (n # 0 => \A j \in Entries :
                                          item[j].parent \in dead => j \in down[n])}
  <2>1. 0 \in Good
    BY <1>4
  <2>2. ASSUME NEW n \in Nat, n \in Good PROVE n + 1 \in Good
    <3>. SUFFICES ASSUME n + 1 \in 0..N PROVE n + 1 \in Good
      OBVIOUS
    <3>1. n \in 0..N /\ Q(down[n])
      BY <1>1, <2>2
    <3>2. down[n + 1] = down[n] \cup {j \in Entries : item[j].parent \in down[n]}
      BY <1>4
    <3>. QED  BY <3>1, <3>2
  <2>. HIDE DEF Good
  <2>3. Nat \subseteq Good
    BY <2>1, <2>2, NatSetInduction
  <2>. QED  BY <2>3 DEF Good
<1>6. Q(down[N]) /\ (N # 0 => \A j \in Entries : item[j].parent \in dead => j \in down[N])
  BY <1>1, <1>5
<1>7. WithSubEntries(dead) = down[N]
  BY DEF WithSubEntries, N, down
<1>. QED  BY <1>1, <1>6, <1>7
(***************************************************************************)
(* Menus: two levels, and one seeding of a location, unless writes cross.   *)
(***************************************************************************)
NavRow == [parent : Items \cup {Top}, location : Locations, seeded : BOOLEAN]

NavTypes ==
  /\ IsFiniteSet(Items) /\ Top \notin Items /\ Keep \notin Items \cup Locations
  /\ Entries \subseteq Items /\ item \in [Entries -> NavRow]
  /\ DOMAIN job = Managers /\ navCrossed \in BOOLEAN /\ stranded \subseteq Entries

Carries(j) ==
  /\ DOMAIN j = {"pc", "id", "to", "location", "moves", "stale"} /\ j.stale \in BOOLEAN
  /\ j.pc \in {"idle", "create", "update", "reorder", "seed", "reset"}
  /\ j.pc = "idle" => ~j.stale
  /\ j.pc = "create" => j.location \in Locations
  /\ j.pc \in {"seed", "reset"} => j.location \in Locations \cup {Keep}
  /\ j.pc = "create" => j.id \in Items /\ j.to \in Items \cup {Top}
  /\ j.pc = "update" => /\ j.id \in Items /\ j.to \in Items \cup {Top, Keep}
                         /\ j.location \in Locations \cup {Keep}

(* What the check of a call found, of the menus as they are.                *)
Checked(j) ==
  /\ j.pc = "create" => ParentValid(j.to, j.location, Top)
  /\ j.pc = "update" =>
       \/ j.to = Keep
       \/ ParentValid(j.to, IF j.location = Keep THEN item[j.id].location ELSE j.location, j.id)
  /\ j.pc = "reorder" =>
       \A i \in DOMAIN j.moves :
         j.moves[i] # Top =>
           /\ j.moves[i] # i
           /\ Top = IF j.moves[i] \in DOMAIN j.moves THEN j.moves[j.moves[i]]
                    ELSE item[j.moves[i]].parent
  /\ j.pc = "seed" => \A i \in Entries : item[i].location \notin Seeded(j.location)

JobsInv == \A m \in Managers : Carries(job[m]) /\ (job[m].stale \/ Checked(job[m]))

NavInv == NavTypes /\ JobsInv /\ EveryEntryListed /\ SeededOnce

LEMMA NoJobFits == Carries(NoJob) /\ Checked(NoJob) /\ Checked(NoJob)' /\ ~NoJob.stale
  BY DEF NoJob, Carries, Checked

LEMMA StartsNav ==
  ASSUME NavInv, NEW m \in Managers, NEW j, Carries(j), Checked(j), StartNav(m, j)
  PROVE  NavInv'
<1>1. /\ UNCHANGED <<item, navCrossed, stranded>>
      /\ DOMAIN job' = Managers
      /\ \A n \in Managers : job'[n] = IF n = m THEN j ELSE job[n]
  BY DEF StartNav, NavInv, NavTypes
<1>2. NavTypes' /\ EveryEntryListed' /\ SeededOnce'
  BY <1>1 DEF NavInv, NavTypes, EveryEntryListed, SeededOnce, Listed, Entries
<1>3. ASSUME NEW d, Checked(d) PROVE Checked(d)'
  BY <1>1, <1>3 DEF Checked, ParentValid, Entries
<1>4. JobsInv'
  <2>. SUFFICES ASSUME NEW n \in Managers
                PROVE  Carries(job'[n]) /\ (job'[n].stale \/ Checked(job[n])')
    BY DEF JobsInv, Carries
  <2>1. PICK d : d = job'[n]
    OBVIOUS
  <2>2. Carries(d) /\ (d.stale \/ Checked(d))
    BY <1>1, <2>1 DEF NavInv, JobsInv
  <2>3. d.stale \/ Checked(d)'
    BY <1>3, <2>2
  <2>. QED  BY <2>1, <2>2, <2>3 DEF Checked
<1>. QED  BY <1>2, <1>4 DEF NavInv

LEMMA FailsNav ==
  ASSUME NavInv, NEW m \in Managers, FailNav(m)
  PROVE  NavInv'
<1>1. /\ UNCHANGED <<item, navCrossed, stranded>>
      /\ DOMAIN job' = Managers
      /\ \A n \in Managers : job'[n] = IF n = m THEN NoJob ELSE job[n]
  BY DEF FailNav, NavInv, NavTypes
<1>2. NavTypes' /\ EveryEntryListed' /\ SeededOnce'
  BY <1>1 DEF NavInv, NavTypes, EveryEntryListed, SeededOnce, Listed, Entries
<1>3. ASSUME NEW d, Checked(d) PROVE Checked(d)'
  BY <1>1, <1>3 DEF Checked, ParentValid, Entries
<1>4. JobsInv'
  <2>. SUFFICES ASSUME NEW n \in Managers
                PROVE  Carries(job'[n]) /\ (job'[n].stale \/ Checked(job[n])')
    BY DEF JobsInv, Carries
  <2>1. PICK d : d = job'[n]
    OBVIOUS
  <2>2. Carries(d) /\ (d.stale \/ Checked(d))
    BY <1>1, <2>1, NoJobFits DEF NavInv, JobsInv
  <2>3. d.stale \/ Checked(d)'
    BY <1>3, <2>2
  <2>. QED  BY <2>1, <2>2, <2>3 DEF Checked
<1>. QED  BY <1>2, <1>4 DEF NavInv

(* Whatever a commit does to the menus, it makes the other checks stale.    *)
LEMMA CommitsNav ==
  ASSUME NavInv, NEW m \in Managers, CommitNav(m)
  PROVE  /\ JobsInv' /\ DOMAIN job' = Managers /\ navCrossed' \in BOOLEAN
         /\ ~navCrossed' => ~navCrossed /\ Checked(job[m])
<1>1. \A n \in Managers :
        job'[n] = IF n = m THEN NoJob ELSE [job[n] EXCEPT !.stale = job[n].pc # "idle"]
  BY DEF CommitNav
<1>2. JobsInv'
  <2>. SUFFICES ASSUME NEW n \in Managers
                PROVE  Carries(job'[n]) /\ (job'[n].stale \/ Checked(job[n])')
    BY DEF JobsInv, Carries
  <2>0. Carries(job[n])
    BY DEF NavInv, JobsInv
  <2>1. PICK d : d = job'[n]
    OBVIOUS
  <2>2. CASE n = m
    BY <1>1, <2>2, NoJobFits DEF Checked
  <2>3. CASE n # m /\ job[n].pc = "idle"
    <3>1. d.pc = "idle" /\ Carries(d)
      BY <1>1, <2>0, <2>1, <2>3 DEF Carries
    <3>2. Checked(d)'
      BY <3>1 DEF Checked
    <3>. QED  BY <2>1, <3>1, <3>2 DEF Checked
  <2>4. CASE n # m /\ job[n].pc # "idle"
    <3>1. (job[n].pc # "idle") = TRUE
      BY <2>4
    <3>2. d = [job[n] EXCEPT !.stale = TRUE]
      BY <1>1, <2>1, <2>4, <3>1
    <3>3. d.stale = TRUE /\ Carries(d)
      BY <2>0, <2>4, <3>2 DEF Carries
    <3>. QED  BY <2>1, <3>3
  <2>. QED  BY <2>2, <2>3, <2>4
<1>3. navCrossed' = (navCrossed \/ job[m].stale) /\ Carries(job[m])
  BY DEF CommitNav, NavInv, JobsInv
<1>4. job[m].stale \in BOOLEAN /\ navCrossed \in BOOLEAN
  BY <1>3 DEF Carries, NavInv, NavTypes
<1>5. job[m].stale \/ Checked(job[m])
  BY DEF NavInv, JobsInv
<1>6. DOMAIN job' = Managers
  BY DEF CommitNav
<1>. QED  BY <1>2, <1>3, <1>4, <1>5, <1>6

-----------------------------------------------------------------------------
LEMMA InsertItemStep ==
  ASSUME NavInv, NEW m \in Managers, InsertItem(m)
  PROVE  NavInv'
<1>1. CASE FailNav(m)
  BY <1>1, FailsNav
<1>2. CASE ~FailNav(m)
  <2>. DEFINE j == job[m]
  <2>1. /\ j.id \notin Entries /\ j.to \in Entries \cup {Top} /\ CommitNav(m) /\ UNCHANGED stranded
        /\ item' = [i \in Entries \cup {j.id} |->
                      IF i = j.id
                      THEN [parent |-> j.to, location |-> j.location, seeded |-> FALSE]
                      ELSE item[i]]
        /\ j.pc = "create"
    BY <1>2 DEF InsertItem
  <2>2. j.id \in Items /\ j.to \in Items \cup {Top} /\ j.location \in Locations
    BY <2>1 DEF NavInv, JobsInv, Carries
  <2>3. ~navCrossed' => ~navCrossed /\ ParentValid(j.to, j.location, Top)
    BY <2>1, CommitsNav DEF Checked
  <2>4. JobsInv' /\ DOMAIN job' = Managers /\ navCrossed' \in BOOLEAN
    BY <2>1, CommitsNav
  <2>. HIDE DEF j
  <2>5. /\ DOMAIN item' = Entries \cup {j.id}
        /\ item'[j.id] = [parent |-> j.to, location |-> j.location, seeded |-> FALSE]
        /\ \A i \in Entries : item'[i] = item[i]
    BY <2>1
  <2>6. NavTypes'
    BY <2>1, <2>2, <2>4, <2>5 DEF NavInv, NavTypes, NavRow, Entries
  <2>7. SeededOnce'
    <3>. SUFFICES ASSUME ~navCrossed' PROVE SeededOnce'
      BY DEF SeededOnce
    <3>. QED  BY <2>3, <2>5 DEF NavInv, SeededOnce, Entries
  <2>8. EveryEntryListed'
    <3>. SUFFICES ASSUME ~navCrossed', NEW i \in DOMAIN item' \ stranded PROVE Listed(i)'
      BY <2>1 DEF EveryEntryListed, Entries
    <3>1. \A e \in Entries \ stranded : Listed(e)
      BY <2>1, <2>3 DEF NavInv, EveryEntryListed
    <3>. QED  BY <2>1, <2>3, <2>5, <3>1 DEF Listed, ParentValid, Entries
  <2>. QED  BY <2>4, <2>6, <2>7, <2>8 DEF NavInv
<1>. QED  BY <1>1, <1>2
LEMMA WriteItemStep ==
  ASSUME NavInv, NEW m \in Managers, WriteItem(m)
  PROVE  NavInv'
<1>1. CASE FailNav(m)
  BY <1>1, FailsNav
<1>2. CASE ~FailNav(m)
  <2>. DEFINE j == job[m]
              l == IF j.location = Keep THEN item[j.id].location ELSE j.location
              row == [parent |-> IF j.to = Keep THEN item[j.id].parent ELSE j.to,
                      location |-> l, seeded |-> FALSE]
              moved == row.parent # item[j.id].parent \/ row.location # item[j.id].location
  <2>1. /\ j.id \in Entries /\ j.to \in Entries \cup {Top, Keep} /\ CommitNav(m)
        /\ item' = [item EXCEPT ![j.id] = row]
        /\ stranded' = {i \in Entries :
                          \/ i \in stranded /\ (i = j.id => j.to = Keep)
                          \/ moved /\ i \in SubEntries(j.id)
                          \/ moved /\ i = j.id /\ j.to = Keep /\ row.parent # Top}
        /\ j.pc = "update"
    BY <1>2 DEF WriteItem
  <2>2. j.location \in Locations \cup {Keep}
    BY <2>1 DEF NavInv, JobsInv, Carries
  <2>3. ~navCrossed' => ~navCrossed /\ (j.to = Keep \/ ParentValid(j.to, l, j.id))
    BY <2>1, CommitsNav DEF Checked
  <2>4. JobsInv' /\ DOMAIN job' = Managers /\ navCrossed' \in BOOLEAN
    BY <2>1, CommitsNav
  <2>. HIDE DEF j
  <2>5. /\ DOMAIN item' = Entries
        /\ item'[j.id] = row
        /\ \A i \in Entries : i # j.id => item'[i] = item[i]
        /\ item' \in [Entries -> NavRow]
    <3>1. item \in [Entries -> NavRow] /\ Entries \subseteq Items
      BY DEF NavInv, NavTypes
    <3>. QED  BY <2>1, <2>2, <3>1 DEF NavRow
  <2>. HIDE DEF l
  <2>6. NavTypes'
    <3>1. stranded' \subseteq Entries
      BY <2>1
    <3>. QED  BY <2>4, <2>5, <3>1 DEF NavInv, NavTypes, Entries
  <2>7. SeededOnce'
    <3>. SUFFICES ASSUME ~navCrossed', NEW a \in Entries, NEW b \in Entries,
                         item'[a].seeded, item'[b].seeded, item'[a].parent = Top,
                         item'[b].parent = Top, item'[a].location = item'[b].location
                  PROVE  a = b
      BY <2>5 DEF SeededOnce, Entries
    <3>1. item'[a] = item[a] /\ item'[b] = item[b]
      BY <2>5
    <3>. QED  BY <2>3, <3>1 DEF NavInv, SeededOnce
  <2>8. EveryEntryListed'
    <3>. SUFFICES ASSUME ~navCrossed', NEW i \in Entries, i \notin stranded' PROVE Listed(i)'
      BY <2>5 DEF EveryEntryListed, Entries
    <3>1. \A e \in Entries \ stranded : Listed(e)
      BY <2>3 DEF NavInv, EveryEntryListed
    <3>2. CASE i = j.id
      <4>1. CASE j.to = Keep
        <5>1. Listed(i) /\ (~moved \/ item[i].parent = Top)
          BY <2>1, <3>1, <3>2, <4>1
        <5>2. item[i].parent = Top \/ item[i].parent # i
          BY <5>1 DEF Listed
        <5>. QED  BY <2>5, <3>2, <4>1, <5>1, <5>2 DEF Listed, Entries
      <4>2. CASE j.to # Keep
        BY <2>3, <2>5, <3>2, <4>2 DEF Listed, ParentValid, Entries
      <4>. QED  BY <4>1, <4>2
    <3>3. CASE i # j.id
      <4>1. item'[i] = item[i] /\ Listed(i) /\ (~moved \/ item[i].parent # j.id)
        BY <2>1, <2>5, <3>1, <3>3 DEF SubEntries
      <4>2. CASE item[i].parent = j.id
        BY <2>5, <4>1, <4>2 DEF Listed, Entries
      <4>3. CASE item[i].parent # j.id
        BY <2>5, <4>1, <4>3 DEF Listed, Entries
      <4>. QED  BY <4>2, <4>3
    <3>. QED  BY <3>2, <3>3
  <2>. QED  BY <2>4, <2>6, <2>7, <2>8 DEF NavInv
<1>. QED  BY <1>1, <1>2

LEMMA WriteItemsStep ==
  ASSUME NavInv, NEW m \in Managers, WriteItems(m)
  PROVE  NavInv'
<1>1. CASE FailNav(m)
  BY <1>1, FailsNav
<1>2. CASE ~FailNav(m)
  <2>. DEFINE moves == job[m].moves
  <2>1. /\ \A i \in DOMAIN moves : i \in Entries /\ moves[i] \in Entries \cup {Top}
        /\ item' = [i \in Entries |->
                      IF i \in DOMAIN moves
                      THEN [item[i] EXCEPT !.parent = moves[i], !.seeded = FALSE] ELSE item[i]]
        /\ stranded' = {i \in Entries :
                          IF i \in DOMAIN moves
                          THEN moves[i] # Top /\ item[moves[i]].location # item[i].location
                          ELSE \/ i \in stranded
                               \/ \E p \in DOMAIN moves : moves[p] # Top /\ i \in SubEntries(p)}
        /\ CommitNav(m) /\ job[m].pc = "reorder"
    BY <1>2 DEF WriteItems
  <2>3. ~navCrossed' =>
          /\ ~navCrossed
          /\ \A i \in DOMAIN moves :
               moves[i] # Top =>
                 /\ moves[i] # i
                 /\ Top = IF moves[i] \in DOMAIN moves THEN moves[moves[i]]
                          ELSE item[moves[i]].parent
    BY <2>1, CommitsNav DEF Checked
  <2>4. JobsInv' /\ DOMAIN job' = Managers /\ navCrossed' \in BOOLEAN
    BY <2>1, CommitsNav
  <2>. HIDE DEF moves
  <2>5. /\ DOMAIN item' = Entries /\ item' \in [Entries -> NavRow]
        /\ \A i \in Entries : i \notin DOMAIN moves => item'[i] = item[i]
        /\ \A i \in DOMAIN moves :
             /\ item'[i].parent = moves[i] /\ item'[i].seeded = FALSE
             /\ item'[i].location = item[i].location
    <3>1. item \in [Entries -> NavRow] /\ Entries \subseteq Items
      BY DEF NavInv, NavTypes
    <3>. QED  BY <2>1, <3>1 DEF NavRow
  <2>6. NavTypes'
    <3>1. stranded' \subseteq Entries
      BY <2>1
    <3>. QED  BY <2>4, <2>5, <3>1 DEF NavInv, NavTypes, Entries
  <2>7. SeededOnce'
    <3>. SUFFICES ASSUME ~navCrossed', NEW a \in Entries, NEW b \in Entries,
                         item'[a].seeded, item'[b].seeded, item'[a].parent = Top,
                         item'[b].parent = Top, item'[a].location = item'[b].location
                  PROVE  a = b
      BY <2>5 DEF SeededOnce, Entries
    <3>1. item'[a] = item[a] /\ item'[b] = item[b]
      BY <2>5
    <3>. QED  BY <2>3, <3>1 DEF NavInv, SeededOnce
  <2>8. EveryEntryListed'
    <3>. SUFFICES ASSUME ~navCrossed', NEW i \in Entries, i \notin stranded' PROVE Listed(i)'
      BY <2>5 DEF EveryEntryListed, Entries
    <3>1. /\ i \in DOMAIN moves /\ moves[i] # Top => item[moves[i]].location = item[i].location
          /\ i \notin DOMAIN moves =>
               i \notin stranded /\ \A p \in DOMAIN moves : moves[p] = Top \/ i \notin SubEntries(p)
      BY <2>1
    <3>2. \A e \in Entries \ stranded : Listed(e)
      BY <2>3 DEF NavInv, EveryEntryListed
    <3>3. \A e \in Entries : item'[e].location = item[e].location
      BY <2>5
    <3>4. CASE i \in DOMAIN moves
      <4>. DEFINE p == moves[i]
      <4>1. item'[i].parent = p /\ item'[i].location = item[i].location
        BY <2>5, <3>4
      <4>2. CASE p = Top
        BY <4>1, <4>2 DEF Listed
      <4>3. CASE p # Top
        <5>1. p \in Entries /\ item[p].location = item[i].location
          BY <2>1, <3>1, <3>4, <4>3
        <5>2. item'[p].parent = Top
          <6>1. CASE p \in DOMAIN moves
            BY <2>3, <2>5, <3>4, <4>3, <6>1
          <6>2. CASE p \notin DOMAIN moves
            BY <2>3, <2>5, <3>4, <4>3, <5>1, <6>2
          <6>. QED  BY <6>1, <6>2
        <5>3. item'[p].location = item'[i].location
          BY <3>3, <4>1, <5>1
        <5>. HIDE DEF p
        <5>. QED  BY <2>5, <4>1, <5>1, <5>2, <5>3 DEF Listed, Entries
      <4>. QED  BY <4>2, <4>3
    <3>5. CASE i \notin DOMAIN moves
      <4>. DEFINE p == item[i].parent
      <4>1. item'[i] = item[i] /\ Listed(i)
        BY <2>5, <3>1, <3>2, <3>5
      <4>2. CASE p = Top
        BY <4>1, <4>2 DEF Listed
      <4>3. CASE p # Top
        <5>1. p \in Entries /\ item[p].parent = Top /\ item[p].location = item[i].location
          BY <4>1, <4>3 DEF Listed
        <5>2. item'[p].parent = Top
          BY <2>5, <3>1, <3>5, <5>1 DEF SubEntries
        <5>. QED  BY <2>5, <3>3, <4>1, <5>1, <5>2 DEF Listed, Entries
      <4>. QED  BY <4>2, <4>3
    <3>. QED  BY <3>4, <3>5
  <2>. QED  BY <2>4, <2>6, <2>7, <2>8 DEF NavInv
<1>. QED  BY <1>1, <1>2

(* What a cascade leaves is listed as it was.                               *)
LEMMA CascadeLeaves ==
  ASSUME NavInv, NEW dead \in SUBSET Entries, NEW i \in Entries \ WithSubEntries(dead),
         ~navCrossed, i \notin stranded, item[i].parent # Top
  PROVE  /\ item[i].parent \in Entries \ WithSubEntries(dead)
         /\ item[item[i].parent].parent = Top
         /\ item[item[i].parent].location = item[i].location
<1>1. Listed(i)
  BY DEF NavInv, EveryEntryListed
<1>. DEFINE p == item[i].parent
<1>2. p \in Entries /\ item[p].parent = Top /\ item[p].location = item[i].location
  BY <1>1 DEF Listed
<1>3. Top \notin Entries /\ IsFiniteSet(Items) /\ Entries \subseteq Items
  BY DEF NavInv, NavTypes
<1>. HIDE DEF p
<1>4. p \notin WithSubEntries(dead)
  <2>1. p \in WithSubEntries(dead) => p \in dead
    BY <1>2, <1>3, CascadeTakes
  <2>2. p \notin dead
    BY <1>3, CascadeTakes DEF p
  <2>. QED  BY <2>1, <2>2
<1>. QED  BY <1>2, <1>4 DEF p

LEMMA RemoveItemStep ==
  ASSUME NavInv, NEW m \in Managers, NEW i \in Entries, RemoveItem(m, i)
  PROVE  NavInv'
<1>. DEFINE kept == Entries \ WithSubEntries({i})
<1>1. item' = [j \in kept |-> item[j]] /\ CommitNav(m) /\ stranded' = stranded \cap kept
  BY DEF RemoveItem, NavInv, NavTypes
<1>2. /\ JobsInv' /\ DOMAIN job' = Managers /\ navCrossed' \in BOOLEAN
      /\ ~navCrossed' => ~navCrossed
  BY <1>1, CommitsNav
<1>3. ~navCrossed => \A j \in kept \ stranded : item[j].parent # Top =>
        /\ item[j].parent \in kept /\ item[item[j].parent].parent = Top
        /\ item[item[j].parent].location = item[j].location
  BY CascadeLeaves
<1>. HIDE DEF kept
<1>4. kept \subseteq Entries
  BY DEF kept
<1>5. NavTypes'
  BY <1>1, <1>2, <1>4 DEF NavInv, NavTypes, Entries
<1>6. SeededOnce'
  BY <1>1, <1>2, <1>4 DEF NavInv, SeededOnce, Entries
<1>7. EveryEntryListed'
  BY <1>1, <1>2, <1>3 DEF EveryEntryListed, Listed, Entries
<1>. QED  BY <1>2, <1>5, <1>6, <1>7 DEF NavInv

(* The seed of locations that are empty, or have just been emptied.          *)
LEMMA WriteSeedStep ==
  ASSUME NavInv, NEW m \in Managers, NEW columns \in SUBSET Items,
         NEW column \in Bijection(columns, Seeded(job[m].location)),
         NEW entry \in Items \ columns, NEW over \in columns, WriteSeed(m, column, entry, over)
  PROVE  NavInv'
<1>. DEFINE locations == Seeded(job[m].location)
            dead == {i \in Entries : item[i].location \in locations}
            kept == IF job[m].pc = "seed" THEN Entries ELSE Entries \ WithSubEntries(dead)
            new == SeedRows(column, entry, over)
<1>1. /\ job[m].pc \in {"seed", "reset"} /\ DOMAIN new \cap kept = {}
      /\ item' = [i \in kept \cup DOMAIN new |-> IF i \in DOMAIN new THEN new[i] ELSE item[i]]
      /\ CommitNav(m) /\ stranded' = stranded \cap kept
  BY DEF WriteSeed
<1>2. /\ JobsInv' /\ DOMAIN job' = Managers /\ navCrossed' \in BOOLEAN
      /\ ~navCrossed' => ~navCrossed /\ Checked(job[m])
  BY <1>1, CommitsNav
<1>3. locations \subseteq Locations /\ Top \notin Items
  BY <1>1 DEF NavInv, NavTypes, JobsInv, Carries, Seeded
<1>4. kept \subseteq Entries
  OBVIOUS
<1>5. ~navCrossed' => \A i \in kept : item[i].location \notin locations
  <2>1. CASE job[m].pc = "seed"
    BY <1>2, <2>1 DEF Checked
  <2>2. CASE job[m].pc # "seed"
    <3>1. dead \subseteq WithSubEntries(dead)
      BY CascadeTakes DEF NavInv, NavTypes
    <3>. QED  BY <2>2, <3>1
  <2>. QED  BY <2>1, <2>2
<1>6. ~navCrossed => \A j \in kept \ stranded : item[j].parent # Top =>
        /\ item[j].parent \in kept /\ item[item[j].parent].parent = Top
        /\ item[item[j].parent].location = item[j].location
  <2>1. CASE job[m].pc = "seed"
    BY <2>1 DEF NavInv, EveryEntryListed, Listed
  <2>2. CASE job[m].pc # "seed"
    <3>1. dead \in SUBSET Entries
      OBVIOUS
    <3>. HIDE DEF dead
    <3>. QED  BY <2>2, <3>1, CascadeLeaves
  <2>. QED  BY <2>1, <2>2
<1>7. /\ column \in [columns -> locations]
      /\ \A a, b \in columns : column[a] = column[b] => a = b
  BY DEF Bijection, Injection, IsInjective
<1>. HIDE DEF locations, kept
<1>8. /\ DOMAIN new = columns \cup {entry} /\ entry \notin columns
      /\ \A a \in columns : new[a] = [parent |-> Top, location |-> column[a], seeded |-> TRUE]
      /\ new[entry] = [parent |-> over, location |-> column[over], seeded |-> TRUE]
  BY <1>7 DEF SeedRows
<1>. HIDE DEF new
<1>9. /\ DOMAIN item' = kept \cup columns \cup {entry}
      /\ \A a \in columns : item'[a] = new[a]
      /\ item'[entry] = new[entry]
      /\ \A i \in kept : item'[i] = item[i]
      /\ entry \notin kept /\ columns \cap kept = {}
  BY <1>1, <1>8
<1>10. NavTypes'
  <2>1. item \in [Entries -> NavRow] /\ Entries \subseteq Items
    BY DEF NavInv, NavTypes
  <2>2. ASSUME NEW i \in DOMAIN item' PROVE item'[i] \in NavRow
    <3>1. CASE i \in kept
      BY <1>4, <1>9, <2>1, <3>1
    <3>2. CASE i \in columns
      <4>1. column[i] \in Locations
        BY <1>3, <1>7, <3>2
      <4>2. [parent |-> Top, location |-> column[i], seeded |-> TRUE] \in NavRow
        BY <4>1 DEF NavRow
      <4>. QED  BY <1>8, <1>9, <3>2, <4>2
    <3>3. CASE i = entry
      <4>1. column[over] \in Locations
        BY <1>3, <1>7
      <4>2. [parent |-> over, location |-> column[over], seeded |-> TRUE] \in NavRow
        BY <4>1 DEF NavRow
      <4>. QED  BY <1>8, <1>9, <3>3, <4>2
    <3>. QED  BY <1>9, <3>1, <3>2, <3>3
  <2>3. item' = [i \in DOMAIN item' |-> item'[i]]
    BY <1>1
  <2>. QED  BY <1>1, <1>2, <1>4, <1>9, <2>1, <2>2, <2>3 DEF NavInv, NavTypes, Entries
<1>11. SeededOnce'
  <2>. SUFFICES ASSUME ~navCrossed', NEW i \in kept \cup columns \cup {entry},
                       NEW j \in kept \cup columns \cup {entry},
                       item'[i].seeded, item'[j].seeded, item'[i].parent = Top,
                       item'[j].parent = Top, item'[i].location = item'[j].location
                PROVE  i = j
    BY <1>9 DEF SeededOnce, Entries
  <2>1. i \in kept \cup columns /\ j \in kept \cup columns
    BY <1>3, <1>8, <1>9
  <2>2. CASE i \in columns /\ j \in columns
    BY <1>7, <1>8, <1>9, <2>2
  <2>3. CASE (i \in kept /\ j \in columns) \/ (i \in columns /\ j \in kept)
    BY <1>5, <1>7, <1>8, <1>9, <2>3
  <2>4. CASE i \in kept /\ j \in kept
    BY <1>2, <1>4, <1>9, <2>4 DEF NavInv, SeededOnce
  <2>. QED  BY <2>1, <2>2, <2>3, <2>4
<1>12. EveryEntryListed'
  <2>. SUFFICES ASSUME ~navCrossed', NEW i \in kept \cup columns \cup {entry}, i \notin stranded'
                PROVE  Listed(i)'
    BY <1>9 DEF EveryEntryListed, Entries
  <2>1. CASE i \in kept
    BY <1>1, <1>2, <1>6, <1>9, <2>1 DEF Listed, Entries
  <2>2. CASE i \in columns
    BY <1>8, <1>9, <2>2 DEF Listed
  <2>3. CASE i = entry
    BY <1>8, <1>9, <2>3 DEF Listed, Entries
  <2>. QED  BY <2>1, <2>2, <2>3
<1>. QED  BY <1>2, <1>10, <1>11, <1>12 DEF NavInv
-----------------------------------------------------------------------------
LEMMA EditMenuStep ==
  ASSUME NavInv, NEW m \in Managers, EditMenu(m)
  PROVE  NavInv'
<1>0. Entries \subseteq Items
  BY DEF NavInv, NavTypes
<1>1. ASSUME NEW i \in Items \ Entries, NEW l \in Locations, NEW to \in Entries \cup {Top},
             CreateItem(m, i, l, to)
      PROVE  NavInv'
  <2>. PICK j : j = [NoJob EXCEPT !.pc = "create", !.id = i, !.to = to, !.location = l]
    OBVIOUS
  <2>1. Carries(j) /\ Checked(j) /\ StartNav(m, j)
    BY <1>0, <1>1 DEF CreateItem, Carries, Checked, NoJob
  <2>. QED  BY <2>1, StartsNav
<1>2. ASSUME NEW i \in Entries, NEW l \in Locations \cup {Keep},
             NEW to \in Entries \cup {Top, Keep}, UpdateItem(m, i, l, to)
      PROVE  NavInv'
  <2>. PICK j : j = [NoJob EXCEPT !.pc = "update", !.id = i, !.to = to, !.location = l]
    OBVIOUS
  <2>1. Carries(j) /\ Checked(j) /\ StartNav(m, j)
    BY <1>0, <1>2 DEF UpdateItem, Carries, Checked, NoJob
  <2>. QED  BY <2>1, StartsNav
<1>3. ASSUME NEW ids \in SUBSET Entries, NEW moves \in [ids -> Entries \cup {Top}],
             ReorderItems(m, moves)
      PROVE  NavInv'
  <2>. PICK j : j = [NoJob EXCEPT !.pc = "reorder", !.moves = moves]
    OBVIOUS
  <2>1. /\ j.pc = "reorder" /\ j.moves = moves /\ ~j.stale
        /\ DOMAIN j = {"pc", "id", "to", "location", "moves", "stale"}
        /\ j.stale \in BOOLEAN /\ StartNav(m, j)
    BY <1>3 DEF ReorderItems, NoJob
  <2>2. Carries(j) /\ Checked(j)
    BY <1>3, <2>1 DEF ReorderItems, Carries, Checked
  <2>. QED  BY <2>1, <2>2, StartsNav
<1>4. ASSUME NEW l \in Locations \cup {Keep}, NEW replace \in BOOLEAN, SeedMenu(m, l, replace)
      PROVE  NavInv'
  <2>. PICK j : j = [NoJob EXCEPT !.pc = IF replace THEN "reset" ELSE "seed", !.location = l]
    OBVIOUS
  <2>1. Carries(j) /\ Checked(j) /\ StartNav(m, j)
    BY <1>4 DEF SeedMenu, Carries, Checked, NoJob
  <2>. QED  BY <2>1, StartsNav
<1>. QED  BY <1>1, <1>2, <1>3, <1>4, RemoveItemStep DEF EditMenu

LEMMA NavInvKept == NavInv /\ [NavNext]_navVars => NavInv'
<1>. SUFFICES ASSUME NavInv, [NavNext]_navVars PROVE NavInv'
  OBVIOUS
<1>1. ASSUME NEW m \in Managers, WriteMenu(m) PROVE NavInv'
  BY <1>1, InsertItemStep, WriteItemStep, WriteItemsStep, WriteSeedStep, FailsNav
     DEF WriteMenu, AbandonNav
<1>2. CASE UNCHANGED navVars
  BY <1>2 DEF navVars, NavInv, NavTypes, Entries, JobsInv, Carries, Checked, ParentValid,
              EveryEntryListed, Listed, SeededOnce
<1>. QED  BY <1>1, <1>2, EditMenuStep DEF NavNext

LEMMA NavInvStarts == NavInit => NavInv
<1>. SUFFICES ASSUME NavInit PROVE NavInv
  OBVIOUS
<1>1. Entries = {} /\ item \in [Entries -> NavRow]
  BY DEF NavInit, Entries
<1>2. JobsInv
  BY NoJobFits DEF NavInit, JobsInv
<1>. QED  BY <1>1, <1>2, NavigationAssumption
          DEF NavInit, NavInv, NavTypes, EveryEntryListed, SeededOnce

(* Every entry is in a menu, however deep the calls interleave and for any   *)
(* number of entries and managers, unless a write crossed another or the     *)
(* entry itself is one that a call left behind, sent to the other menu, or   *)
(* nested across the menus, and that none has given a parent since: nothing  *)
(* else that create, update, reorder, remove and seed do hides an entry.     *)
THEOREM MenusStayListed == NavSpec => []EveryEntryListed
<1>1. NavInv => EveryEntryListed
  BY DEF NavInv
<1>. QED  BY <1>1, NavInvStarts, NavInvKept, PTL DEF NavSpec

(* A location is not seeded twice unless two writes crossed, with or without *)
(* replace.                                                                 *)
THEOREM SeedsDoNotDouble == NavSpec => []SeededOnce
<1>1. NavInv => SeededOnce
  BY DEF NavInv
<1>. QED  BY <1>1, NavInvStarts, NavInvKept, PTL DEF NavSpec

-----------------------------------------------------------------------------
(***************************************************************************)
(* The category tree.                                                       *)
(***************************************************************************)
Tree(g) == DOMAIN g \subseteq Categories /\ g \in [DOMAIN g -> DOMAIN g \cup {NoCategory}]

ParentIn(b, g) == IF b \in DOMAIN g THEN g[b] ELSE NoCategory

LEMMA Walks ==
  ASSUME NEW g, Tree(g), NEW c \in DOMAIN g \cup {NoCategory}
  PROVE  /\ Cardinality(Categories) \in Nat /\ DOMAIN Up(c, g) = 0..Cardinality(Categories)
         /\ Up(c, g)[0] = c
         /\ \A n \in Nat : n + 1 <= Cardinality(Categories) =>
              Up(c, g)[n + 1] = ParentIn(Up(c, g)[n], g)
         /\ \A n \in 0..Cardinality(Categories) : Up(c, g)[n] \in DOMAIN g \cup {NoCategory}
<1>. DEFINE N == Cardinality(Categories)
            U == DOMAIN g \cup {NoCategory}
            step == [b \in U |-> ParentIn(b, g)]
            P(f) == f = [n \in 0..N |->
                           IF n = 0 THEN c
                           ELSE IF f[n - 1] \in DOMAIN g THEN g[f[n - 1]] ELSE NoCategory]
            up == CHOOSE f : P(f)
<1>1. N \in Nat
  BY CategoryAssumption, FS_CardinalityType
<1>2. \A b \in U : step[b] = ParentIn(b, g) /\ step[b] \in U
  BY DEF ParentIn, Tree
<1>. HIDE DEF N, step
<1>3. PICK it : Iterates(it, c, step, N)
  BY <1>1, IteratesExist
<1>4. DOMAIN it = 0..N /\ it[0] = c
      /\ \A n \in Nat : n + 1 \in 0..N => n \in 0..N /\ it[n + 1] = step[it[n]]
  BY <1>1, <1>3 DEF Iterates
<1>5. \A n \in Nat : n \in 0..N => it[n] \in U
  <2>. DEFINE Good == {n \in Nat : n \in 0..N => it[n] \in U}
  <2>1. 0 \in Good
    BY <1>4
  <2>2. ASSUME NEW n \in Nat, n \in Good PROVE n + 1 \in Good
    BY <1>2, <1>4, <2>2
  <2>. HIDE DEF Good
  <2>3. Nat \subseteq Good
    BY <2>1, <2>2, NatSetInduction
  <2>. QED  BY <2>3 DEF Good
<1>6. P(it)
  <2>1. \A n \in 0..N : n # 0 => n - 1 \in 0..N /\ step[it[n - 1]] = ParentIn(it[n - 1], g)
    BY <1>1, <1>2, <1>5
  <2>. QED  BY <1>3, <2>1 DEF Iterates, ParentIn
<1>7. P(up)
  BY <1>6
<1>. HIDE DEF up
<1>8. /\ DOMAIN up = 0..N /\ up[0] = c
      /\ \A n \in Nat : n + 1 \in 0..N => n \in 0..N /\ up[n + 1] = ParentIn(up[n], g)
  BY <1>1, <1>7 DEF ParentIn
<1>9. \A n \in Nat : n \in 0..N => up[n] \in U
  <2>. DEFINE Good == {n \in Nat : n \in 0..N => up[n] \in U}
  <2>1. 0 \in Good
    BY <1>8
  <2>2. ASSUME NEW n \in Nat, n \in Good PROVE n + 1 \in Good
    BY <1>2, <1>8, <2>2
  <2>. HIDE DEF Good
  <2>3. Nat \subseteq Good
    BY <2>1, <2>2, NatSetInduction
  <2>. QED  BY <2>3 DEF Good
<1>10. Up(c, g) = up
  BY DEF Up, up, N
<1>. QED  BY <1>1, <1>8, <1>9, <1>10 DEF N

(* A tree has levels: the roots are on the first one.                       *)
Levels(d, g) ==
  /\ d \in [DOMAIN g -> Nat \ {0}]
  /\ \A c \in DOMAIN g : d[c] = IF g[c] = NoCategory THEN 1 ELSE d[g[c]] + 1

(* A walk goes up one level at a time, and ends.                            *)
LEMMA WalkLevels ==
  ASSUME NEW g, Tree(g), NEW d, Levels(d, g), NEW c \in DOMAIN g
  PROVE  \A n \in 0..Cardinality(Categories) :
           /\ n < d[c] => Up(c, g)[n] \in DOMAIN g /\ d[Up(c, g)[n]] = d[c] - n
           /\ n >= d[c] => Up(c, g)[n] = NoCategory
<1>. DEFINE N == Cardinality(Categories)  up == Up(c, g)
            Good == {n \in Nat : n <= N =>
                       /\ n < d[c] => up[n] \in DOMAIN g /\ d[up[n]] = d[c] - n
                       /\ n >= d[c] => up[n] = NoCategory}
<1>1. /\ N \in Nat /\ up[0] = c
      /\ \A n \in Nat : n + 1 <= N => up[n + 1] = ParentIn(up[n], g)
  BY Walks
<1>2. NoCategory \notin DOMAIN g
  BY CategoryAssumption DEF Tree
<1>3. d[c] \in Nat \ {0}
  BY DEF Levels
<1>. HIDE DEF N, up
<1>4. 0 \in Good
  BY <1>1, <1>3
<1>5. ASSUME NEW n \in Nat, n \in Good PROVE n + 1 \in Good
  <2>. SUFFICES ASSUME n + 1 <= N
                PROVE  /\ n + 1 < d[c] => up[n + 1] \in DOMAIN g /\ d[up[n + 1]] = d[c] - (n + 1)
                       /\ n + 1 >= d[c] => up[n + 1] = NoCategory
    OBVIOUS
  <2>1. up[n + 1] = ParentIn(up[n], g)
    BY <1>1
  <2>2. CASE n >= d[c]
    <3>1. up[n] = NoCategory
      BY <1>1, <1>3, <1>5, <2>2
    <3>. QED  BY <1>2, <1>3, <2>1, <2>2, <3>1 DEF ParentIn
  <2>3. CASE n < d[c]
    <3>. DEFINE b == up[n]
    <3>1. b \in DOMAIN g /\ d[b] = d[c] - n
      BY <1>1, <1>3, <1>5, <2>3
    <3>2. up[n + 1] = g[b] /\ d[b] = IF g[b] = NoCategory THEN 1 ELSE d[g[b]] + 1
      BY <2>1, <3>1 DEF ParentIn, Levels
    <3>. HIDE DEF b
    <3>3. g[b] \in DOMAIN g \cup {NoCategory}
      BY <3>1 DEF Tree
    <3>4. CASE g[b] = NoCategory
      BY <1>3, <2>3, <3>1, <3>2, <3>4
    <3>5. CASE g[b] # NoCategory
      <4>1. d[g[b]] \in Nat \ {0}
        BY <3>3, <3>5 DEF Levels
      <4>. QED  BY <1>3, <2>3, <3>1, <3>2, <3>3, <3>5, <4>1
    <3>. QED  BY <3>4, <3>5
  <2>. QED  BY <1>3, <2>2, <2>3
<1>. HIDE DEF Good
<1>6. Nat \subseteq Good
  BY <1>4, <1>5, NatSetInduction
<1>. QED  BY <1>1, <1>6 DEF Good, N, up

(* No tree has more levels than categories, so that the walks are long       *)
(* enough.                                                                  *)
LEMMA LevelsFit ==
  ASSUME NEW g, Tree(g), NEW d, Levels(d, g), NEW c \in DOMAIN g
  PROVE  d[c] \in Nat \ {0} /\ d[c] <= Cardinality(Categories)
<1>. DEFINE N == Cardinality(Categories)  up == Up(c, g)
<1>1. N \in Nat /\ d[c] \in Nat \ {0} /\ IsFiniteSet(Categories)
  BY Walks, CategoryAssumption DEF Levels
<1>2. SUFFICES ASSUME N < d[c] PROVE FALSE
  BY <1>1
<1>3. \A n \in 0..N : up[n] \in DOMAIN g /\ d[up[n]] = d[c] - n
  BY <1>1, <1>2, WalkLevels
<1>4. [n \in 0..N |-> up[n]] \in Injection(0..N, Categories)
  <2>. HIDE DEF up
  <2>1. \A m, n \in 0..N : up[m] = up[n] => m = n
    BY <1>1, <1>3
  <2>. QED  BY <1>3, <2>1 DEF Injection, IsInjective, Tree
<1>5. Cardinality(0..N) <= N /\ Cardinality(0..N) = N + 1
  BY <1>1, <1>4, FS_Injection, FS_Interval
<1>. QED  BY <1>1, <1>5

(* Where walks that end lead: a walk from a later point is the rest of it,   *)
(* and once past a root it stays there.                                     *)
LEMMA WalksGoOn ==
  ASSUME NEW g, Tree(g), NEW c \in DOMAIN g \cup {NoCategory}, NEW i \in Nat, NEW k \in Nat,
         i + k <= Cardinality(Categories)
  PROVE  Up(Up(c, g)[i], g)[k] = Up(c, g)[i + k]
<1>. DEFINE N == Cardinality(Categories)  x == Up(c, g)[i]
            Good == {n \in Nat : i + n <= N => Up(x, g)[n] = Up(c, g)[i + n]}
<1>1. N \in Nat /\ x \in DOMAIN g \cup {NoCategory}
  BY Walks
<1>. HIDE DEF N
<1>2. /\ Up(x, g)[0] = x
      /\ \A n \in Nat : n + 1 <= N => Up(x, g)[n + 1] = ParentIn(Up(x, g)[n], g)
      /\ \A n \in Nat : n + 1 <= N => Up(c, g)[n + 1] = ParentIn(Up(c, g)[n], g)
  BY <1>1, Walks DEF N
<1>3. 0 \in Good
  BY <1>2
<1>4. ASSUME NEW n \in Nat, n \in Good PROVE n + 1 \in Good
  <2>. SUFFICES ASSUME i + (n + 1) <= N PROVE Up(x, g)[n + 1] = Up(c, g)[i + (n + 1)]
    OBVIOUS
  <2>1. i + n \in Nat /\ i + (n + 1) = (i + n) + 1 /\ n + 1 <= N /\ i + n <= N
    BY <1>1
  <2>2. Up(x, g)[n] = Up(c, g)[i + n]
    BY <1>4, <2>1
  <2>. QED  BY <1>2, <2>1, <2>2
<1>. HIDE DEF Good, x
<1>5. k \in Good
  BY <1>3, <1>4, NatSetInduction
<1>. QED  BY <1>5 DEF Good, x, N

LEMMA PastTheRoot ==
  ASSUME NEW g, Tree(g), NEW n \in 0..Cardinality(Categories)
  PROVE  Up(NoCategory, g)[n] = NoCategory
<1>. DEFINE N == Cardinality(Categories)  up == Up(NoCategory, g)
            Good == {m \in Nat : m <= N => up[m] = NoCategory}
<1>1. /\ N \in Nat /\ up[0] = NoCategory
      /\ \A m \in Nat : m + 1 <= N => up[m + 1] = ParentIn(up[m], g)
  BY Walks
<1>2. ParentIn(NoCategory, g) = NoCategory
  BY CategoryAssumption DEF ParentIn, Tree
<1>. HIDE DEF N, up
<1>3. 0 \in Good
  BY <1>1
<1>4. \A m \in Nat : m \in Good => m + 1 \in Good
  BY <1>1, <1>2
<1>. HIDE DEF Good
<1>5. Nat \subseteq Good
  BY <1>3, <1>4, NatSetInduction
<1>. QED  BY <1>1, <1>5 DEF Good, N, up

(* No category above itself: what assertGraphValid asks for first.          *)
Acyclic(g) == \A c \in DOMAIN g : ~IsDescendant(c, c, g)

LEMMA Descendants ==
  ASSUME NEW g, Tree(g), NEW c, NEW x \in DOMAIN g \cup {NoCategory}
  PROVE  /\ IsDescendant(x, c, g) <=> \E n \in 1..Cardinality(Categories) : Up(x, g)[n] = c
         /\ c \in Walk(x, g) <=> c # NoCategory /\ \E n \in 0..Cardinality(Categories) : Up(x, g)[n] = c
         /\ c # x /\ ~IsDescendant(x, c, g) => c \notin Walk(x, g)
         /\ Walk(x, g) \subseteq DOMAIN g
<1>. DEFINE N == Cardinality(Categories)
<1>1. /\ N \in Nat /\ DOMAIN Up(x, g) = 0..N /\ Up(x, g)[0] = x
      /\ \A n \in 0..N : Up(x, g)[n] \in DOMAIN g \cup {NoCategory}
  BY Walks
<1>. HIDE DEF N
<1>2. IsDescendant(x, c, g) <=> \E n \in 1..N : Up(x, g)[n] = c
  BY <1>1 DEF IsDescendant, Below
<1>3. c \in Walk(x, g) <=> c # NoCategory /\ \E n \in 0..N : Up(x, g)[n] = c
  BY <1>1 DEF Walk
<1>4. c # x /\ ~IsDescendant(x, c, g) => c \notin Walk(x, g)
  BY <1>1, <1>2, <1>3
<1>5. Walk(x, g) \subseteq DOMAIN g
  BY <1>1 DEF Walk
<1>. QED  BY <1>2, <1>3, <1>4, <1>5 DEF N

(* Where there are no cycles a walk has left the tree by its end, as there    *)
(* are fewer categories than steps.                                         *)
LEMMA WalksEnd ==
  ASSUME NEW g, Tree(g), Acyclic(g), NEW c \in DOMAIN g \cup {NoCategory}
  PROVE  Up(c, g)[Cardinality(Categories)] = NoCategory
<1>. DEFINE N == Cardinality(Categories)  up == Up(c, g)
<1>1. /\ N \in Nat /\ IsFiniteSet(Categories)
      /\ \A n \in 0..N : up[n] \in DOMAIN g \cup {NoCategory}
  BY Walks, CategoryAssumption
<1>2. PICK n \in 0..N : up[n] = NoCategory
  <2>. SUFFICES ASSUME \A n \in 0..N : up[n] \in DOMAIN g PROVE FALSE
    BY <1>1
  <2>. DEFINE f == [n \in 0..N |-> up[n]]
  <2>1. f \in [0..N -> Categories]
    BY DEF Tree
  <2>2. IsFiniteSet(0..N) /\ Cardinality(0..N) = N + 1
    <3>. HIDE DEF N, up
    <3>1. 0 \in Int /\ N \in Int /\ ~(0 > N) /\ N - 0 + 1 = N + 1
      BY <1>1
    <3>. QED  BY <3>1, FS_Interval
  <2>3. N < Cardinality(0..N)
    BY <1>1, <2>2
  <2>. HIDE DEF f
  <2>4. \E i, j \in 0..N : i # j /\ f[i] = f[j]
    BY <1>1, <2>1, <2>2, <2>3, FS_PigeonHole
  <2>5. PICK i \in 0..N, j \in 0..N : i < j /\ up[i] = up[j]
    <3>. HIDE DEF N, up
    <3>1. \A n \in 0..N : f[n] = up[n]
      BY DEF f
    <3>. QED  BY <1>1, <2>4, <3>1
  <2>. DEFINE x == up[i]
  <2>6. i \in Nat /\ j - i \in Nat /\ i + (j - i) <= N /\ i + (j - i) = j
    BY <1>1, <2>5
  <2>7. Up(x, g)[j - i] = x
    BY <2>5, <2>6, WalksGoOn
  <2>8. j - i \in 1..N /\ x \in DOMAIN g
    BY <1>1, <2>5
  <2>9. IsDescendant(x, x, g)
    BY <2>7, <2>8, Descendants
  <2>. QED  BY <2>8, <2>9 DEF Acyclic
<1>3. n \in Nat /\ N - n \in Nat /\ n + (N - n) = N /\ N - n \in 0..N
  BY <1>1, <1>2
<1>4. Up(up[n], g)[N - n] = up[N]
  BY <1>3, WalksGoOn
<1>. QED  BY <1>2, <1>3, <1>4, PastTheRoot

(* A step of a walk: from c to its parent.                                  *)
LEMMA WalkStep ==
  ASSUME NEW g, Tree(g), Acyclic(g), NEW c \in DOMAIN g
  PROVE  /\ g[c] \in DOMAIN g \cup {NoCategory} /\ c \notin Walk(g[c], g)
         /\ Walk(c, g) = Walk(g[c], g) \cup {c} /\ Walk(NoCategory, g) = {}
<1>. DEFINE N == Cardinality(Categories)  p == g[c]
<1>1. p \in DOMAIN g \cup {NoCategory} /\ c # NoCategory
  BY CategoryAssumption DEF Tree
<1>2. /\ N \in Nat /\ Up(c, g)[0] = c /\ N # 0
  <2>1. IsFiniteSet(Categories) /\ Categories # {}
    BY CategoryAssumption DEF Tree
  <2>. QED  BY <2>1, Walks, FS_EmptySet
<1>3. Up(c, g)[1] = p
  BY <1>2, Walks DEF ParentIn
<1>. HIDE DEF p
<1>4. \A n \in 0..(N - 1) : Up(p, g)[n] = Up(c, g)[n + 1]
  <2>. SUFFICES ASSUME NEW n \in 0..(N - 1) PROVE Up(p, g)[n] = Up(c, g)[n + 1]
    OBVIOUS
  <2>1. n \in Nat /\ 1 \in Nat /\ 1 + n <= N /\ 1 + n = n + 1
    BY <1>2
  <2>. QED  BY <1>3, <2>1, WalksGoOn
<1>5. Up(p, g)[N] = NoCategory
  BY <1>1, WalksEnd
<1>6. c \notin Walk(p, g)
  <2>. SUFFICES ASSUME NEW n \in 0..N, Up(p, g)[n] = c PROVE FALSE
    BY <1>1, Descendants
  <2>1. n \in 0..(N - 1) /\ n + 1 \in 1..N
    BY <1>1, <1>2, <1>5
  <2>. QED  BY <1>4, <2>1, Descendants DEF Acyclic
<1>7. \A b : b \in Walk(c, g) <=> b = c \/ b \in Walk(p, g)
  <2>. SUFFICES ASSUME NEW b PROVE b \in Walk(c, g) <=> b = c \/ b \in Walk(p, g)
    OBVIOUS
  <2>. HIDE DEF N
  <2>1. /\ b \in Walk(c, g) <=> b # NoCategory /\ \E n \in 0..N : Up(c, g)[n] = b
        /\ b \in Walk(p, g) <=> b # NoCategory /\ \E n \in 0..N : Up(p, g)[n] = b
    BY <1>1, Descendants DEF N
  <2>2. \A n \in 0..N : n # 0 => n - 1 \in 0..(N - 1) /\ Up(p, g)[n - 1] = Up(c, g)[n]
    BY <1>2, <1>4
  <2>3. \A n \in 0..N : Up(p, g)[n] # NoCategory => n + 1 \in 0..N /\ Up(c, g)[n + 1] = Up(p, g)[n]
    BY <1>2, <1>4, <1>5
  <2>4. \A n \in 0..N : n - 1 \in 0..(N - 1) => n - 1 \in 0..N
    BY <1>2
  <2>. QED  BY <1>1, <1>2, <2>1, <2>2, <2>3, <2>4
<1>8. Walk(NoCategory, g) = {}
  BY PastTheRoot, Descendants
<1>. QED  BY <1>1, <1>6, <1>7, <1>8 DEF p

(* Where there are no cycles, the depth of a category is its level, and      *)
(* there are levels only where there are no cycles.                         *)
LEMMA DepthsAreLevels ==
  ASSUME NEW g, Tree(g), Acyclic(g)
  PROVE  Levels([c \in DOMAIN g |-> DepthOf(c, g)], g)
<1>. DEFINE d == [c \in DOMAIN g |-> DepthOf(c, g)]
<1>. SUFFICES ASSUME NEW c \in DOMAIN g
              PROVE  /\ DepthOf(c, g) \in Nat \ {0}
                     /\ DepthOf(c, g) = IF g[c] = NoCategory THEN 1 ELSE DepthOf(g[c], g) + 1
  <2>1. ASSUME NEW c \in DOMAIN g PROVE g[c] # NoCategory => g[c] \in DOMAIN g
    BY <2>1 DEF Tree
  <2>. QED  BY <2>1 DEF Levels
<1>1. /\ g[c] \in DOMAIN g \cup {NoCategory} /\ c \notin Walk(g[c], g)
      /\ Walk(c, g) = Walk(g[c], g) \cup {c} /\ Walk(NoCategory, g) = {}
  BY WalkStep
<1>2. IsFiniteSet(Walk(g[c], g)) /\ Cardinality(Walk(g[c], g)) \in Nat
  <2>1. Walk(g[c], g) \subseteq Categories
    BY <1>1, Descendants DEF Tree
  <2>. QED  BY <2>1, CategoryAssumption, FS_Subset, FS_CardinalityType
<1>3. DepthOf(c, g) = DepthOf(g[c], g) + 1
  BY <1>1, <1>2, FS_AddElement DEF DepthOf
<1>4. DepthOf(NoCategory, g) = 0 /\ DepthOf(g[c], g) \in Nat
  BY <1>1, <1>2, FS_EmptySet DEF DepthOf
<1>. QED  BY <1>3, <1>4

LEMMA LevelsAreDepths ==
  ASSUME NEW g, Tree(g), NEW d, Levels(d, g)
  PROVE  Acyclic(g) /\ \A c \in DOMAIN g : DepthOf(c, g) = d[c]
<1>. DEFINE N == Cardinality(Categories)
<1>1. Acyclic(g)
  <2>. SUFFICES ASSUME NEW c \in DOMAIN g, NEW n \in 1..N, Up(c, g)[n] = c PROVE FALSE
    BY Descendants DEF Acyclic
  <2>1. n \in 0..N /\ N \in Nat
    BY Walks
  <2>2. /\ n < d[c] => d[Up(c, g)[n]] = d[c] - n
        /\ n >= d[c] => Up(c, g)[n] = NoCategory
    BY <2>1, WalkLevels
  <2>3. d[c] \in Nat /\ c # NoCategory
    BY CategoryAssumption DEF Levels, Tree
  <2>. QED  BY <2>1, <2>2, <2>3
<1>2. PICK e : e = [c \in DOMAIN g |-> DepthOf(c, g)]
  OBVIOUS
<1>3. Levels(e, g)
  BY <1>1, <1>2, DepthsAreLevels
<1>. DEFINE Good == {n \in Nat : \A c \in DOMAIN g : d[c] <= n => e[c] = d[c]}
<1>4. \A c \in DOMAIN g : /\ d[c] \in Nat \ {0} /\ e[c] \in Nat \ {0}
                          /\ d[c] = IF g[c] = NoCategory THEN 1 ELSE d[g[c]] + 1
                          /\ e[c] = IF g[c] = NoCategory THEN 1 ELSE e[g[c]] + 1
                          /\ g[c] \in DOMAIN g \cup {NoCategory}
  BY <1>3 DEF Levels, Tree
<1>5. 0 \in Good
  BY <1>4
<1>6. ASSUME NEW n \in Nat, n \in Good PROVE n + 1 \in Good
  <2>. SUFFICES ASSUME NEW c \in DOMAIN g, d[c] <= n + 1 PROVE e[c] = d[c]
    OBVIOUS
  <2>1. CASE g[c] = NoCategory
    BY <1>4, <2>1
  <2>2. CASE g[c] # NoCategory
    <3>1. /\ d[g[c]] \in Nat /\ d[c] = d[g[c]] + 1 /\ e[c] = e[g[c]] + 1 /\ g[c] \in DOMAIN g
      BY <1>4, <2>2
    <3>2. d[g[c]] <= n
      BY <3>1
    <3>3. e[g[c]] = d[g[c]]
      BY <1>6, <3>1, <3>2
    <3>. QED  BY <3>1, <3>3
  <2>. QED  BY <2>1, <2>2
<1>. HIDE DEF Good
<1>7. Nat \subseteq Good
  BY <1>5, <1>6, NatSetInduction
<1>8. ASSUME NEW c \in DOMAIN g PROVE DepthOf(c, g) = d[c]
  <2>1. d[c] \in Good /\ d[c] <= d[c]
    BY <1>4, <1>7
  <2>. QED  BY <1>2, <2>1 DEF Good
<1>. QED  BY <1>1, <1>8

(* How deep a category is under another, on its walk.                       *)
LEMMA DepthsOnWalks ==
  ASSUME NEW g, Tree(g), Acyclic(g), NEW c \in DOMAIN g, NEW x \in DOMAIN g, c \in Walk(x, g)
  PROVE  /\ DepthOf(x, g) - DepthOf(c, g) \in 0..Cardinality(Categories)
         /\ DepthOf(x, g) \in Nat \ {0} /\ DepthOf(c, g) \in Nat \ {0}
         /\ x # c => DepthOf(x, g) > DepthOf(c, g)
         /\ Below(x, c, g) = {DepthOf(x, g) - DepthOf(c, g)}
<1>. DEFINE N == Cardinality(Categories)  up == Up(x, g)
<1>1. PICK d : d = [b \in DOMAIN g |-> DepthOf(b, g)]
  OBVIOUS
<1>2. Levels(d, g)
  BY <1>1, DepthsAreLevels
<1>3. /\ d[x] = DepthOf(x, g) /\ d[c] = DepthOf(c, g)
      /\ d[x] \in Nat \ {0} /\ d[c] \in Nat \ {0}
  BY <1>1, <1>2 DEF Levels
<1>4. N \in Nat /\ DOMAIN up = 0..N /\ up[0] = x /\ c # NoCategory
  BY Walks, CategoryAssumption DEF Tree
<1>5. \A n \in 0..N : /\ n < d[x] => up[n] \in DOMAIN g /\ d[up[n]] = d[x] - n
                      /\ n >= d[x] => up[n] = NoCategory
  BY <1>2, WalkLevels
<1>6. PICK n \in 0..N : up[n] = c
  BY Descendants
<1>. HIDE DEF N, up
<1>7. d[c] = d[x] - n
  BY <1>3, <1>4, <1>5, <1>6
<1>8. n = d[x] - d[c]
  BY <1>3, <1>4, <1>7
<1>9. \A m \in 0..N : up[m] = c => m = n
  BY <1>3, <1>4, <1>5, <1>7
<1>10. Below(x, c, g) = {m \in DOMAIN up : up[m] = c}
  BY DEF Below, up
<1>11. Below(x, c, g) = {n}
  BY <1>4, <1>6, <1>9, <1>10
<1>12. x # c => n # 0
  BY <1>4, <1>6
<1>. QED  BY <1>3, <1>4, <1>6, <1>8, <1>11, <1>12 DEF N

LEMMA Greatest ==
  ASSUME NEW K \in Nat, NEW S \in SUBSET (0..K), NEW s \in S
  PROVE  Max(S) \in S /\ s <= Max(S)
<1>. DEFINE T == {n \in Nat : \A y \in S : y <= n}
<1>1. K \in T
  OBVIOUS
<1>. HIDE DEF T
<1>2. PICK m \in T : \A n \in T : m <= n
  <2>1. T \subseteq Nat
    BY DEF T
  <2>. QED  BY <1>1, <2>1, LeastNatural
<1>3. m \in Nat /\ \A y \in S : y <= m
  BY <1>2 DEF T
<1>4. m \in S
  <2>. SUFFICES ASSUME m \notin S PROVE FALSE
    OBVIOUS
  <2>1. \A y \in S : y \in Nat /\ y <= m - 1
    BY <1>3
  <2>2. m - 1 \in Nat
    BY <1>3, <2>1
  <2>3. m - 1 \in T
    BY <2>1, <2>2 DEF T
  <2>. QED  BY <1>2, <1>3, <2>3
<1>5. \E x \in S : \A y \in S : x >= y
  <2>1. \A y \in S : m >= y
    BY <1>3
  <2>. QED  BY <1>4, <2>1
<1>6. Max(S) \in S /\ \A y \in S : Max(S) >= y
  BY <1>5 DEF Max
<1>. QED  BY <1>6

LEMMA Heights ==
  ASSUME NEW g, Tree(g), Acyclic(g), NEW c \in DOMAIN g, NEW x \in DOMAIN g, c \in Walk(x, g)
  PROVE  /\ HeightBelow(c, g) \in Nat
         /\ DepthOf(x, g) - DepthOf(c, g) + 1 <= HeightBelow(c, g)
<1>. DEFINE N == Cardinality(Categories)
            under == {b \in DOMAIN g : c \in Walk(b, g)}
            S == {Min(Below(b, c, g)) : b \in under}
            s == DepthOf(x, g) - DepthOf(c, g)
<1>1. N \in Nat
  BY Walks
<1>2. ASSUME NEW b \in under
      PROVE  Min(Below(b, c, g)) = DepthOf(b, g) - DepthOf(c, g) /\ Min(Below(b, c, g)) \in 0..N
  <2>. PICK n : n = DepthOf(b, g) - DepthOf(c, g)
    OBVIOUS
  <2>1. n \in 0..N /\ Below(b, c, g) = {n}
    BY DepthsOnWalks
  <2>2. \E k \in {n} : \A y \in {n} : k <= y
    BY <1>1, <2>1
  <2>3. Min({n}) = n
    BY <2>2 DEF Min
  <2>. QED  BY <2>1, <2>3
<1>3. S \subseteq 0..N /\ s \in S
  <2>1. x \in under /\ Min(Below(x, c, g)) = s
    BY <1>2
  <2>. QED  BY <1>2, <2>1
<1>4. HeightBelow(c, g) = 1 + Max(S)
  BY DEF HeightBelow
<1>. HIDE DEF S, s, N
<1>5. Max(S) \in S /\ s <= Max(S)
  BY <1>1, <1>3, Greatest
<1>6. Max(S) \in Nat /\ s \in Int
  <2>1. Max(S) \in 0..N /\ s \in 0..N
    BY <1>3, <1>5
  <2>. QED  BY <1>1, <2>1
<1>7. s + 1 <= HeightBelow(c, g) /\ HeightBelow(c, g) \in Nat
  BY <1>4, <1>5, <1>6
<1>. QED  BY <1>7 DEF s

LEMMA DepthSteps ==
  ASSUME NEW g, Tree(g), Acyclic(g)
  PROVE  /\ DepthOf(NoCategory, g) = 0 /\ Walk(NoCategory, g) = {}
         /\ \A c \in DOMAIN g : /\ g[c] \in DOMAIN g \cup {NoCategory}
                                /\ DepthOf(c, g) \in Nat \ {0}
                                /\ DepthOf(c, g) = DepthOf(g[c], g) + 1
<1>1. Walk(NoCategory, g) = {} /\ DepthOf(NoCategory, g) = 0
  BY PastTheRoot, Descendants, FS_EmptySet DEF DepthOf
<1>2. PICK d : d = [b \in DOMAIN g |-> DepthOf(b, g)]
  OBVIOUS
<1>3. Levels(d, g)
  BY <1>2, DepthsAreLevels
<1>4. ASSUME NEW c \in DOMAIN g
      PROVE  /\ g[c] \in DOMAIN g \cup {NoCategory} /\ DepthOf(c, g) \in Nat \ {0}
             /\ DepthOf(c, g) = DepthOf(g[c], g) + 1
  <2>1. /\ g[c] \in DOMAIN g \cup {NoCategory} /\ d[c] \in Nat \ {0} /\ d[c] = DepthOf(c, g)
        /\ d[c] = IF g[c] = NoCategory THEN 1 ELSE d[g[c]] + 1
    BY <1>2, <1>3 DEF Levels, Tree
  <2>2. CASE g[c] = NoCategory
    BY <1>1, <2>1, <2>2
  <2>3. CASE g[c] # NoCategory
    <3>1. d[g[c]] = DepthOf(g[c], g)
      BY <1>2, <2>1, <2>3
    <3>. QED  BY <2>1, <2>3, <3>1
  <2>. QED  BY <2>2, <2>3
<1>. QED  BY <1>1, <1>4

(* What the three writes do to the depths.  First a new category: it is one   *)
(* level below its parent.                                                  *)
LEMMA Inserted ==
  ASSUME NEW g, Tree(g), Acyclic(g), NEW c \in Categories \ DOMAIN g,
         NEW to \in DOMAIN g \cup {NoCategory}, NEW h,
         h = [x \in DOMAIN g \cup {c} |-> IF x = c THEN to ELSE g[x]]
  PROVE  /\ Tree(h) /\ Acyclic(h)
         /\ \A x \in DOMAIN g : DepthOf(x, h) = DepthOf(x, g)
         /\ DepthOf(c, h) = DepthOf(to, g) + 1
<1>1. c # NoCategory /\ NoCategory \notin DOMAIN g
  BY CategoryAssumption DEF Tree
<1>2. /\ DOMAIN h = DOMAIN g \cup {c} /\ h[c] = to
      /\ \A x \in DOMAIN g : h[x] = g[x] /\ x # c
  OBVIOUS
<1>3. Tree(h)
  BY <1>2 DEF Tree
<1>4. PICK e : e = [x \in DOMAIN g \cup {c} |-> IF x = c THEN DepthOf(to, g) + 1 ELSE DepthOf(x, g)]
  OBVIOUS
<1>5. e[c] = DepthOf(to, g) + 1 /\ \A x \in DOMAIN g : e[x] = DepthOf(x, g)
  BY <1>2, <1>4
<1>6. DepthOf(to, g) \in Nat
  BY DepthSteps
<1>7. Levels(e, h)
  <2>1. e \in [DOMAIN h -> Nat \ {0}]
    BY <1>2, <1>4, <1>6, DepthSteps
  <2>2. e[c] = IF h[c] = NoCategory THEN 1 ELSE e[h[c]] + 1
    BY <1>2, <1>5, <1>6, DepthSteps
  <2>3. ASSUME NEW x \in DOMAIN g
        PROVE  e[x] = IF h[x] = NoCategory THEN 1 ELSE e[h[x]] + 1
    <3>1. h[x] = g[x] /\ e[x] = DepthOf(g[x], g) + 1 /\ g[x] \in DOMAIN g \cup {NoCategory}
      BY <1>2, <1>5, DepthSteps
    <3>. QED  BY <1>5, <3>1, DepthSteps
  <2>. QED  BY <1>2, <2>1, <2>2, <2>3 DEF Levels
<1>. QED  BY <1>2, <1>3, <1>5, <1>7, LevelsAreDepths

(* From g to h, what is at or below c is n levels below where c has been.   *)
Shifts(h, g, c, n) ==
  \A x \in DOMAIN h :
    /\ c \notin Walk(x, g) => DepthOf(x, h) = DepthOf(x, g)
    /\ c \in Walk(x, g) => DepthOf(x, h) = DepthOf(x, g) - DepthOf(c, g) + n

(* Then a move: what is below the category moves with it.                   *)
LEMMA MovedBelow ==
  ASSUME NEW g, Tree(g), Acyclic(g), NEW c \in DOMAIN g,
         NEW to \in DOMAIN g \cup {NoCategory}, c \notin Walk(to, g), NEW h,
         h = [g EXCEPT ![c] = to]
  PROVE  Tree(h) /\ Acyclic(h) /\ Shifts(h, g, c, DepthOf(to, g) + 1)
<1>1. c # NoCategory /\ NoCategory \notin DOMAIN g
  BY CategoryAssumption DEF Tree
<1>2. DOMAIN h = DOMAIN g /\ h[c] = to /\ \A x \in DOMAIN g : x # c => h[x] = g[x]
  OBVIOUS
<1>3. Tree(h)
  BY <1>2 DEF Tree
<1>4. PICK e : e = [x \in DOMAIN g |-> IF c \in Walk(x, g)
                                       THEN DepthOf(x, g) - DepthOf(c, g) + (DepthOf(to, g) + 1)
                                       ELSE DepthOf(x, g)]
  OBVIOUS
<1>5. /\ DepthOf(to, g) \in Nat /\ DepthOf(NoCategory, g) = 0 /\ Walk(NoCategory, g) = {}
      /\ DepthOf(c, g) \in Nat \ {0}
      /\ \A x \in DOMAIN g : DepthOf(x, g) \in Nat \ {0}
  BY DepthSteps
<1>6. ASSUME NEW x \in DOMAIN g, c \in Walk(x, g)
      PROVE  e[x] = DepthOf(x, g) - DepthOf(c, g) + (DepthOf(to, g) + 1) /\ e[x] \in Nat \ {0}
  <2>1. DepthOf(x, g) - DepthOf(c, g) \in Nat
    BY <1>6, DepthsOnWalks
  <2>. QED  BY <1>4, <1>5, <1>6, <2>1
<1>7. ASSUME NEW x \in DOMAIN g, c \notin Walk(x, g)
      PROVE  e[x] = DepthOf(x, g) /\ e[x] \in Nat \ {0}
  BY <1>4, <1>5, <1>7
<1>8. c \in Walk(c, g)
  BY WalkStep
<1>9. ASSUME NEW x \in DOMAIN g
      PROVE  e[x] = IF h[x] = NoCategory THEN 1 ELSE e[h[x]] + 1
  <2>1. CASE x = c
    <3>1. e[c] = 1 + DepthOf(to, g)
      BY <1>5, <1>6, <1>8
    <3>. QED  BY <1>2, <1>5, <1>7, <2>1, <3>1
  <2>2. CASE x # c
    <3>. DEFINE p == g[x]
    <3>1. /\ h[x] = p /\ p \in DOMAIN g \cup {NoCategory} /\ DepthOf(x, g) = DepthOf(p, g) + 1
          /\ Walk(x, g) = Walk(p, g) \cup {x}
      BY <1>2, <2>2, DepthSteps, WalkStep
    <3>2. c \in Walk(x, g) <=> c \in Walk(p, g)
      BY <2>2, <3>1
    <3>. HIDE DEF p
    <3>3. CASE p = NoCategory
      BY <1>5, <1>7, <3>1, <3>2, <3>3
    <3>4. CASE p # NoCategory /\ c \in Walk(p, g)
      <4>1. p \in DOMAIN g
        BY <3>1, <3>4
      <4>2. /\ e[x] = DepthOf(x, g) - DepthOf(c, g) + (DepthOf(to, g) + 1)
            /\ e[p] = DepthOf(p, g) - DepthOf(c, g) + (DepthOf(to, g) + 1)
        BY <1>6, <3>2, <3>4, <4>1
      <4>3. DepthOf(p, g) \in Nat
        BY <1>5, <4>1
      <4>. QED  BY <1>5, <3>1, <3>4, <4>2, <4>3
    <3>5. CASE p # NoCategory /\ c \notin Walk(p, g)
      BY <1>7, <3>1, <3>2, <3>5
    <3>. QED  BY <3>3, <3>4, <3>5
  <2>. QED  BY <2>1, <2>2
<1>10. Levels(e, h)
  <2>1. \A x \in DOMAIN g : e[x] \in Nat \ {0}
    BY <1>6, <1>7
  <2>2. e \in [DOMAIN h -> Nat \ {0}]
    BY <1>2, <1>4, <2>1
  <2>. QED  BY <1>2, <1>9, <2>2 DEF Levels
<1>11. Acyclic(h) /\ \A x \in DOMAIN h : DepthOf(x, h) = e[x]
  BY <1>3, <1>10, LevelsAreDepths
<1>12. ASSUME NEW x \in DOMAIN g
       PROVE  /\ c \notin Walk(x, g) => e[x] = DepthOf(x, g)
              /\ c \in Walk(x, g) => e[x] = DepthOf(x, g) - DepthOf(c, g) + (DepthOf(to, g) + 1)
  BY <1>6, <1>7
<1>. QED  BY <1>2, <1>3, <1>11, <1>12 DEF Shifts

(* Last a removal: what was below the category comes below the other one.    *)
LEMMA Removed ==
  ASSUME NEW g, Tree(g), Acyclic(g), NEW c \in DOMAIN g,
         NEW to \in DOMAIN g \cup {NoCategory}, c \notin Walk(to, g), NEW h,
         h = [x \in DOMAIN g \ {c} |-> IF g[x] = c THEN to ELSE g[x]]
  PROVE  Tree(h) /\ Acyclic(h) /\ Shifts(h, g, c, DepthOf(to, g))
<1>1. c # NoCategory /\ NoCategory \notin DOMAIN g
  BY CategoryAssumption DEF Tree
<1>2. /\ DOMAIN h = DOMAIN g \ {c}
      /\ \A x \in DOMAIN g \ {c} : h[x] = IF g[x] = c THEN to ELSE g[x]
  OBVIOUS
<1>8. c \in Walk(c, g) /\ to # c
  BY WalkStep
<1>3. Tree(h)
  BY <1>2, <1>8 DEF Tree
<1>4. PICK e : e = [x \in DOMAIN g \ {c} |-> IF c \in Walk(x, g)
                                             THEN DepthOf(x, g) - DepthOf(c, g) + DepthOf(to, g)
                                             ELSE DepthOf(x, g)]
  OBVIOUS
<1>5. /\ DepthOf(to, g) \in Nat /\ DepthOf(NoCategory, g) = 0 /\ Walk(NoCategory, g) = {}
      /\ DepthOf(c, g) \in Nat \ {0}
      /\ \A x \in DOMAIN g : DepthOf(x, g) \in Nat \ {0}
  BY DepthSteps
<1>6. ASSUME NEW x \in DOMAIN g \ {c}, c \in Walk(x, g)
      PROVE  e[x] = DepthOf(x, g) - DepthOf(c, g) + DepthOf(to, g) /\ e[x] \in Nat \ {0}
  <2>1. DepthOf(x, g) > DepthOf(c, g) /\ DepthOf(x, g) \in Nat
    BY <1>6, DepthsOnWalks
  <2>. QED  BY <1>4, <1>5, <1>6, <2>1
<1>7. ASSUME NEW x \in DOMAIN g \ {c}, c \notin Walk(x, g)
      PROVE  e[x] = DepthOf(x, g) /\ e[x] \in Nat \ {0}
  BY <1>4, <1>5, <1>7
<1>9. ASSUME NEW x \in DOMAIN g \ {c}
      PROVE  e[x] = IF h[x] = NoCategory THEN 1 ELSE e[h[x]] + 1
  <2>. DEFINE p == g[x]
  <2>1. /\ h[x] = (IF p = c THEN to ELSE p) /\ p \in DOMAIN g \cup {NoCategory}
        /\ DepthOf(x, g) = DepthOf(p, g) + 1 /\ Walk(x, g) = Walk(p, g) \cup {x}
    BY <1>2, DepthSteps, WalkStep
  <2>2. c \in Walk(x, g) <=> c \in Walk(p, g)
    BY <2>1
  <2>. HIDE DEF p
  <2>3. CASE p = c
    <3>1. e[x] = 1 + DepthOf(to, g)
      BY <1>5, <1>6, <1>8, <2>1, <2>2, <2>3
    <3>. QED  BY <1>5, <1>7, <1>8, <2>1, <2>3, <3>1
  <2>4. CASE p = NoCategory
    BY <1>1, <1>5, <1>7, <2>1, <2>2, <2>4
  <2>5. CASE p \notin {c, NoCategory} /\ c \in Walk(p, g)
    <3>1. p \in DOMAIN g \ {c}
      BY <2>1, <2>5
    <3>2. /\ e[x] = DepthOf(x, g) - DepthOf(c, g) + DepthOf(to, g)
          /\ e[p] = DepthOf(p, g) - DepthOf(c, g) + DepthOf(to, g)
      BY <1>6, <2>2, <2>5, <3>1
    <3>3. DepthOf(p, g) \in Nat
      BY <1>5, <3>1
    <3>. QED  BY <1>5, <2>1, <2>5, <3>2, <3>3
  <2>6. CASE p \notin {c, NoCategory} /\ c \notin Walk(p, g)
    BY <1>7, <2>1, <2>2, <2>6
  <2>. QED  BY <2>3, <2>4, <2>5, <2>6
<1>10. Levels(e, h)
  <2>1. \A x \in DOMAIN g \ {c} : e[x] \in Nat \ {0}
    BY <1>6, <1>7
  <2>. QED  BY <1>2, <1>4, <1>9, <2>1 DEF Levels
<1>11. Acyclic(h) /\ \A x \in DOMAIN h : DepthOf(x, h) = e[x]
  BY <1>3, <1>10, LevelsAreDepths
<1>. QED  BY <1>2, <1>3, <1>6, <1>7, <1>11 DEF Shifts

(* update checks what it needs: a move it allows makes no cycle and none of   *)
(* the categories it moves too deep.                                        *)
LEMMA MovesFit ==
  ASSUME NEW g, Tree(g), Acyclic(g), NEW c \in DOMAIN g,
         NEW to \in DOMAIN g \cup {NoCategory}, MoveAllowed(c, to, g), NEW h,
         h = [g EXCEPT ![c] = to]
  PROVE  /\ Acyclic(h)
         /\ (\A x \in DOMAIN g : DepthOf(x, g) <= MaxDepth)
              => \A x \in DOMAIN g : DepthOf(x, h) <= MaxDepth
<1>1. /\ DepthOf(NoCategory, g) = 0 /\ Walk(NoCategory, g) = {}
      /\ \A x \in DOMAIN g : DepthOf(x, g) \in Nat \ {0}
  BY DepthSteps
<1>2. c \in Walk(c, g)
  BY WalkStep
<1>3. HeightBelow(c, g) \in Nat
  BY <1>2, Heights
<1>4. /\ c \notin Walk(to, g) /\ DepthOf(to, g) \in Nat
      /\ DepthOf(to, g) + HeightBelow(c, g) <= MaxDepth
  <2>1. CASE to = NoCategory /\ HeightBelow(c, g) <= MaxDepth
    BY <1>1, <1>3, <2>1
  <2>2. CASE /\ to \in DOMAIN g /\ to # c /\ ~IsDescendant(to, c, g)
             /\ DepthOf(to, g) + HeightBelow(c, g) <= MaxDepth
    BY <1>1, <2>2, Descendants
  <2>. QED  BY <2>1, <2>2 DEF MoveAllowed
<1>5. Acyclic(h) /\ Shifts(h, g, c, DepthOf(to, g) + 1) /\ DOMAIN h = DOMAIN g
  BY <1>4, MovedBelow
<1>6. ASSUME NEW x \in DOMAIN g, c \in Walk(x, g) PROVE DepthOf(x, h) <= MaxDepth
  <2>1. /\ DepthOf(x, g) - DepthOf(c, g) + 1 <= HeightBelow(c, g)
        /\ DepthOf(x, g) - DepthOf(c, g) \in Nat
    BY <1>6, Heights, DepthsOnWalks
  <2>2. DepthOf(x, h) = DepthOf(x, g) - DepthOf(c, g) + (DepthOf(to, g) + 1)
    BY <1>5, <1>6 DEF Shifts
  <2>. QED  BY <1>3, <1>4, <2>1, <2>2, CategoryAssumption
<1>. QED  BY <1>5, <1>6 DEF Shifts

(* And of a removal: it makes no cycle, and nothing deeper unless it hands   *)
(* children over.                                                           *)
LEMMA RemovalsFit ==
  ASSUME NEW g, Tree(g), Acyclic(g), NEW c \in DOMAIN g,
         NEW to \in DOMAIN g \cup {NoCategory}, to # c,
         to = NoCategory \/ ~IsDescendant(to, c, g), NEW h,
         h = [x \in DOMAIN g \ {c} |-> IF g[x] = c THEN to ELSE g[x]]
  PROVE  /\ Acyclic(h)
         /\ (/\ to = NoCategory \/ \A x \in DOMAIN g : g[x] # c
             /\ \A x \in DOMAIN g : DepthOf(x, g) <= MaxDepth)
              => \A x \in DOMAIN h : DepthOf(x, h) <= MaxDepth
<1>1. /\ DepthOf(NoCategory, g) = 0 /\ Walk(NoCategory, g) = {}
      /\ \A x \in DOMAIN g : DepthOf(x, g) \in Nat \ {0}
  BY DepthSteps
<1>2. c \notin Walk(to, g)
  BY <1>1, Descendants
<1>3. Acyclic(h)
  BY <1>2, Removed
<1>4. SUFFICES ASSUME to = NoCategory \/ \A x \in DOMAIN g : g[x] # c,
                      \A x \in DOMAIN g : DepthOf(x, g) <= MaxDepth, NEW x \in DOMAIN h
               PROVE  DepthOf(x, h) <= MaxDepth
  BY <1>3
<1>5. h = [y \in DOMAIN g \ {c} |-> IF g[y] = c THEN NoCategory ELSE g[y]]
  BY <1>4
<1>6. Shifts(h, g, c, 0)
  BY <1>1, <1>5, Removed
<1>7. DepthOf(x, h) = DepthOf(x, g) \/ DepthOf(x, h) = DepthOf(x, g) - DepthOf(c, g) + 0
  BY <1>4, <1>6 DEF Shifts
<1>8. x \in DOMAIN g /\ DepthOf(x, g) <= MaxDepth
  BY <1>4
<1>. QED  BY <1>1, <1>7, <1>8, CategoryAssumption

(* Without cycles and within the depth, getTree shows every category.       *)
LEMMA AllShown ==
  ASSUME NEW g, Tree(g), Acyclic(g), \A c \in DOMAIN g : DepthOf(c, g) <= MaxDepth
  PROVE  Shown(g) = DOMAIN g
<1>. DEFINE N == Cardinality(Categories)
<1>1. PICK d : d = [b \in DOMAIN g |-> DepthOf(b, g)]
  OBVIOUS
<1>2. Levels(d, g)
  BY <1>1, DepthsAreLevels
<1>3. SUFFICES ASSUME NEW c \in DOMAIN g PROVE Min(Below(c, NoCategory, g)) <= MaxDepth
  BY DEF Shown
<1>. DEFINE up == Up(c, g)
<1>4. N \in Nat /\ DOMAIN up = 0..N
  BY Walks
<1>5. d[c] \in Nat \ {0} /\ d[c] <= N /\ d[c] <= MaxDepth /\ NoCategory \notin DOMAIN g
  BY <1>1, <1>2, LevelsFit, CategoryAssumption DEF Tree
<1>6. \A n \in 0..N : up[n] = NoCategory <=> n >= d[c]
  <2>1. \A n \in 0..N : /\ n < d[c] => up[n] \in DOMAIN g
                        /\ n >= d[c] => up[n] = NoCategory
    BY <1>2, WalkLevels
  <2>. QED  BY <1>4, <1>5, <2>1
<1>7. Below(c, NoCategory, g) = {n \in DOMAIN up : up[n] = NoCategory}
  BY DEF Below
<1>. HIDE DEF N, up
<1>8. Below(c, NoCategory, g) = {n \in 0..N : n >= d[c]}
  BY <1>4, <1>6, <1>7
<1>9. Min({n \in 0..N : n >= d[c]}) = d[c]
  <2>. DEFINE S == {n \in 0..N : n >= d[c]}
  <2>1. d[c] \in S /\ \A n \in S : n \in Nat /\ d[c] <= n
    BY <1>4, <1>5
  <2>. HIDE DEF S
  <2>2. Min(S) \in S /\ \A n \in S : Min(S) <= n
    <3>1. \E x \in S : \A y \in S : x <= y
      BY <2>1
    <3>. QED  BY <3>1 DEF Min
  <2>3. Min(S) = d[c]
    BY <1>5, <2>1, <2>2
  <2>. QED  BY <2>3 DEF S
<1>. QED  BY <1>5, <1>8, <1>9

-----------------------------------------------------------------------------
(* A call of an admin carries what its writes need.                         *)
Drafts(x) ==
  /\ DOMAIN x = {"pc", "id", "to", "moves", "stale"} /\ x.stale \in BOOLEAN
  /\ x.pc = "idle" => ~x.stale
  /\ x.pc = "create" => x.id \in Categories
  /\ x.pc \in {"remove", "remove:check"} => x.to # x.id
  /\ x.pc = "remove:check" => x.to # NoCategory

(* What its check found, of the tree as it is.                              *)
Found(x) ==
  /\ x.pc = "create" /\ x.to \in Rows => DepthOf(x.to, parentId) + 1 <= MaxDepth
  /\ x.pc = "update" => parentId[x.id] = x.to \/ MoveAllowed(x.id, x.to, parentId)
  /\ x.pc = "remove" => IF x.to = NoCategory THEN Children(x.id) \cup Filed(x.id) = {}
                        ELSE ~IsDescendant(x.to, x.id, parentId)
  /\ x.pc = "reorder" => GraphValid(Moved(parentId, x.moves))

EditsInv == \A e \in Editors : Drafts(edit[e]) /\ (edit[e].stale \/ Found(edit[e]))

TreeTypes ==
  /\ Tree(parentId) /\ DOMAIN edit = Editors /\ DOMAIN categoryId = Goods
  /\ crossed \in BOOLEAN /\ reassigned \in BOOLEAN

(* A removal that hands children over does not look at their depth.          *)
DepthInv ==
  crossed \/ /\ Acyclic(parentId)
             /\ reassigned \/ \A c \in Rows : DepthOf(c, parentId) <= MaxDepth

TreeInv == TreeTypes /\ EditsInv /\ DepthInv

LEMMA NoEditFits == Drafts(NoEdit) /\ Found(NoEdit) /\ Found(NoEdit)' /\ ~NoEdit.stale
BY DEF NoEdit, Drafts, Found

LEMMA FoundStill ==
  ASSUME UNCHANGED <<parentId, categoryId>>, NEW x, Found(x)
  PROVE  Found(x)'
BY DEF Found, Rows, Children, Filed

LEMMA EditsGoOn ==
  ASSUME TreeInv, NEW e \in Editors, NEW x, Drafts(x), Found(x),
         edit' = [edit EXCEPT ![e] = x], UNCHANGED <<parentId, categoryId, history>>
  PROVE  TreeInv'
<1>1. /\ UNCHANGED <<parentId, categoryId, crossed, reassigned>>
      /\ DOMAIN edit' = Editors
      /\ \A f \in Editors : edit'[f] = IF f = e THEN x ELSE edit[f]
  BY DEF TreeInv, TreeTypes, history
<1>2. TreeTypes' /\ DepthInv'
  BY <1>1 DEF TreeInv, TreeTypes, DepthInv, Rows
<1>3. EditsInv'
  <2>. SUFFICES ASSUME NEW f \in Editors
                PROVE  Drafts(edit'[f]) /\ (edit'[f].stale \/ Found(edit[f])')
    BY DEF EditsInv, Drafts
  <2>1. PICK y : y = edit'[f]
    OBVIOUS
  <2>2. Drafts(y) /\ (y.stale \/ Found(y))
    BY <1>1, <2>1 DEF TreeInv, EditsInv
  <2>3. y.stale \/ Found(y)'
    BY <1>1, <2>2, FoundStill
  <2>. QED  BY <2>1, <2>2, <2>3 DEF Found
<1>. QED  BY <1>2, <1>3 DEF TreeInv

LEMMA Fails ==
  ASSUME TreeInv, NEW e \in Editors, Fail(e)
  PROVE  TreeInv'
BY NoEditFits, EditsGoOn DEF Fail

LEMMA Starts ==
  ASSUME TreeInv, NEW e \in Editors, NEW x, Drafts(x), Found(x), StartEdit(e, x)
  PROVE  TreeInv'
BY EditsGoOn DEF StartEdit

(* A change makes what the other calls found stale.                         *)
LEMMA OthersStale ==
  ASSUME TreeInv, NEW e,
         edit' = [f \in Editors |->
                    IF f = e THEN NoEdit ELSE [edit[f] EXCEPT !.stale = edit[f].pc # "idle"]]
  PROVE  EditsInv' /\ DOMAIN edit' = Editors
<1>1. \A f \in Editors :
        edit'[f] = IF f = e THEN NoEdit ELSE [edit[f] EXCEPT !.stale = edit[f].pc # "idle"]
  OBVIOUS
<1>2. SUFFICES ASSUME NEW f \in Editors
               PROVE  Drafts(edit'[f]) /\ (edit'[f].stale \/ Found(edit[f])')
  BY DEF EditsInv, Drafts
<1>3. Drafts(edit[f])
  BY DEF TreeInv, EditsInv
<1>4. PICK y : y = edit'[f]
  OBVIOUS
<1>5. CASE f = e
  BY <1>1, <1>5, NoEditFits DEF Found
<1>6. CASE f # e /\ edit[f].pc = "idle"
  <2>1. y.pc = "idle" /\ Drafts(y)
    BY <1>1, <1>3, <1>4, <1>6 DEF Drafts
  <2>2. Found(y)'
    BY <2>1 DEF Found
  <2>. QED  BY <1>4, <2>1, <2>2 DEF Found
<1>7. CASE f # e /\ edit[f].pc # "idle"
  <2>1. (edit[f].pc # "idle") = TRUE
    BY <1>7
  <2>2. y = [edit[f] EXCEPT !.stale = TRUE]
    BY <1>1, <1>4, <1>7, <2>1
  <2>3. y.stale = TRUE /\ Drafts(y)
    BY <1>3, <1>7, <2>2 DEF Drafts
  <2>. QED  BY <1>4, <2>3
<1>. QED  BY <1>5, <1>6, <1>7

LEMMA Commits ==
  ASSUME TreeInv, NEW e \in Editors, Commit(e)
  PROVE  /\ EditsInv' /\ DOMAIN edit' = Editors /\ crossed' \in BOOLEAN
         /\ ~crossed' => Found(edit[e]) /\ Acyclic(parentId)
         /\ ~crossed' => reassigned \/ \A c \in Rows : DepthOf(c, parentId) <= MaxDepth
<1>1. EditsInv' /\ DOMAIN edit' = Editors
  BY OthersStale DEF Commit
<1>2. crossed' = (crossed \/ edit[e].stale) /\ Drafts(edit[e]) /\ (edit[e].stale \/ Found(edit[e]))
  BY DEF Commit, TreeInv, EditsInv
<1>3. edit[e].stale \in BOOLEAN /\ crossed \in BOOLEAN
  BY <1>2 DEF Drafts, TreeInv, TreeTypes
<1>. QED  BY <1>1, <1>2, <1>3 DEF TreeInv, DepthInv

LEMMA InsertCategoryStep ==
  ASSUME TreeInv, NEW e \in Editors, InsertCategory(e)
  PROVE  TreeInv'
<1>1. CASE Fail(e)
  BY <1>1, Fails
<1>2. CASE ~Fail(e)
  <2>. DEFINE c == edit[e].id  to == edit[e].to
  <2>1. /\ c \notin Rows /\ to \in Rows \cup {NoCategory} /\ edit[e].pc = "create"
        /\ parentId' = [x \in Rows \cup {c} |-> IF x = c THEN to ELSE parentId[x]]
        /\ Commit(e) /\ UNCHANGED <<categoryId, reassigned>>
    BY <1>2 DEF InsertCategory
  <2>2. c \in Categories /\ Tree(parentId)
    BY <2>1 DEF TreeInv, TreeTypes, EditsInv, Drafts
  <2>3. /\ EditsInv' /\ DOMAIN edit' = Editors /\ crossed' \in BOOLEAN
        /\ ~crossed' => (to \in Rows => DepthOf(to, parentId) + 1 <= MaxDepth)
        /\ ~crossed' => Acyclic(parentId)
        /\ ~crossed' => reassigned \/ \A x \in Rows : DepthOf(x, parentId) <= MaxDepth
    BY <2>1, Commits DEF Found
  <2>. HIDE DEF c, to
  <2>. PICK h : h = parentId'
    OBVIOUS
  <2>4. h = [x \in DOMAIN parentId \cup {c} |-> IF x = c THEN to ELSE parentId[x]]
    BY <2>1 DEF Rows
  <2>5. Tree(h)
    BY <2>1, <2>2, <2>4 DEF Tree, Rows
  <2>6. ~crossed' => /\ Acyclic(h)
                     /\ \A x \in Rows : DepthOf(x, h) = DepthOf(x, parentId)
                     /\ DepthOf(c, h) = DepthOf(to, parentId) + 1
    BY <2>1, <2>2, <2>3, <2>4, Inserted DEF Rows
  <2>7. ~crossed' => reassigned' \/ \A x \in DOMAIN h : DepthOf(x, h) <= MaxDepth
    <3>1. ~crossed' => (to = NoCategory => DepthOf(to, parentId) + 1 <= MaxDepth)
      <4>1. 0 + 1 <= MaxDepth
        BY CategoryAssumption
      <4>. QED  BY <2>2, <2>3, <4>1, DepthSteps
    <3>2. ~crossed' => DepthOf(c, h) <= MaxDepth
      BY <2>1, <2>3, <2>6, <3>1
    <3>. QED  BY <2>1, <2>3, <2>4, <2>6, <3>2 DEF Rows
  <2>8. DepthInv'
    BY <2>6, <2>7 DEF DepthInv, Rows, Acyclic
  <2>9. TreeTypes'
    BY <2>1, <2>3, <2>5 DEF TreeInv, TreeTypes
  <2>. QED  BY <2>3, <2>8, <2>9 DEF TreeInv
<1>. QED  BY <1>1, <1>2

LEMMA WriteParentStep ==
  ASSUME TreeInv, NEW e \in Editors, WriteParent(e)
  PROVE  TreeInv'
<1>1. CASE Fail(e)
  BY <1>1, Fails
<1>2. CASE ~Fail(e)
  <2>. DEFINE c == edit[e].id  to == edit[e].to
  <2>1. /\ c \in Rows /\ to \in Rows \cup {NoCategory} /\ edit[e].pc = "update"
        /\ parentId' = [parentId EXCEPT ![c] = to]
        /\ Commit(e) /\ UNCHANGED <<categoryId, reassigned>>
    BY <1>2 DEF WriteParent
  <2>2. Tree(parentId)
    BY DEF TreeInv, TreeTypes
  <2>3. /\ EditsInv' /\ DOMAIN edit' = Editors /\ crossed' \in BOOLEAN
        /\ ~crossed' => parentId[c] = to \/ MoveAllowed(c, to, parentId)
        /\ ~crossed' => Acyclic(parentId)
        /\ ~crossed' => reassigned \/ \A x \in Rows : DepthOf(x, parentId) <= MaxDepth
    BY <2>1, Commits DEF Found
  <2>. HIDE DEF c, to
  <2>. PICK h : h = parentId'
    OBVIOUS
  <2>4. h = [parentId EXCEPT ![c] = to] /\ DOMAIN h = Rows
    BY <2>1 DEF Rows
  <2>5. Tree(h)
    BY <2>1, <2>2, <2>4 DEF Tree, Rows
  <2>6. ASSUME ~crossed'
        PROVE  Acyclic(h) /\ (reassigned' \/ \A x \in Rows : DepthOf(x, h) <= MaxDepth)
    <3>1. CASE parentId[c] = to
      <4>1. h = parentId
        BY <2>1, <2>2, <2>4, <3>1 DEF Tree, Rows
      <4>. QED  BY <2>1, <2>3, <2>6, <4>1
    <3>2. CASE MoveAllowed(c, to, parentId)
      <4>1. /\ c \in DOMAIN parentId /\ to \in DOMAIN parentId \cup {NoCategory}
            /\ Rows = DOMAIN parentId /\ Tree(parentId) /\ Acyclic(parentId)
            /\ MoveAllowed(c, to, parentId) /\ h = [parentId EXCEPT ![c] = to]
        BY <2>1, <2>2, <2>3, <2>4, <2>6, <3>2 DEF Rows
      <4>. QED  BY <2>1, <2>3, <2>6, <4>1, MovesFit
    <3>. QED  BY <2>3, <2>6, <3>1, <3>2
  <2>7. DepthInv'
    BY <2>4, <2>6 DEF DepthInv, Rows, Acyclic
  <2>8. TreeTypes'
    BY <2>1, <2>3, <2>5 DEF TreeInv, TreeTypes
  <2>. QED  BY <2>3, <2>7, <2>8 DEF TreeInv
<1>. QED  BY <1>1, <1>2

LEMMA DeleteCategoryStep ==
  ASSUME TreeInv, NEW e \in Editors, DeleteCategory(e)
  PROVE  TreeInv'
<1>1. CASE Fail(e)
  BY <1>1, Fails
<1>2. CASE ~Fail(e)
  <2>. DEFINE c == edit[e].id  to == edit[e].to
  <2>1. /\ c \in Rows /\ to \in Rows \cup {NoCategory} /\ edit[e].pc = "remove"
        /\ parentId' = [x \in Rows \ {c} |-> IF parentId[x] = c THEN to ELSE parentId[x]]
        /\ DOMAIN categoryId' = Goods
        /\ reassigned' = (reassigned \/ (to # NoCategory /\ Children(c) # {}))
        /\ Commit(e)
    BY <1>2 DEF DeleteCategory
  <2>2. Tree(parentId) /\ to # c /\ reassigned \in BOOLEAN
    BY <2>1 DEF TreeInv, TreeTypes, EditsInv, Drafts
  <2>3. /\ EditsInv' /\ DOMAIN edit' = Editors /\ crossed' \in BOOLEAN
        /\ ~crossed' => to = NoCategory \/ ~IsDescendant(to, c, parentId)
        /\ ~crossed' => Acyclic(parentId)
        /\ ~crossed' => reassigned \/ \A x \in Rows : DepthOf(x, parentId) <= MaxDepth
    BY <2>1, Commits DEF Found
  <2>4. reassigned' \in BOOLEAN /\ (~reassigned' => ~reassigned)
        /\ (~reassigned' => to = NoCategory \/ Children(c) = {})
    BY <2>1, <2>2
  <2>. HIDE DEF c, to
  <2>. PICK h : h = parentId'
    OBVIOUS
  <2>5. h = [x \in DOMAIN parentId \ {c} |-> IF parentId[x] = c THEN to ELSE parentId[x]]
    BY <2>1 DEF Rows
  <2>6. Tree(h)
    BY <2>1, <2>2, <2>5 DEF Tree, Rows
  <2>7. ASSUME ~crossed'
        PROVE  Acyclic(h) /\ (reassigned' \/ \A x \in DOMAIN h : DepthOf(x, h) <= MaxDepth)
    <3>1. /\ c \in DOMAIN parentId /\ to \in DOMAIN parentId \cup {NoCategory}
          /\ Acyclic(parentId) /\ (to = NoCategory \/ ~IsDescendant(to, c, parentId))
      BY <2>1, <2>3, <2>7 DEF Rows
    <3>2. ~reassigned' => to = NoCategory \/ \A x \in DOMAIN parentId : parentId[x] # c
      BY <2>4 DEF Children, Rows
    <3>3. ~reassigned' => \A x \in DOMAIN parentId : DepthOf(x, parentId) <= MaxDepth
      BY <2>3, <2>4, <2>7 DEF Rows
    <3>. QED  BY <2>2, <2>5, <3>1, <3>2, <3>3, RemovalsFit
  <2>8. DepthInv'
    BY <2>7 DEF DepthInv, Rows, Acyclic
  <2>9. TreeTypes'
    BY <2>1, <2>3, <2>4, <2>6 DEF TreeTypes
  <2>. QED  BY <2>3, <2>8, <2>9 DEF TreeInv
<1>. QED  BY <1>1, <1>2

LEMMA WriteOrderStep ==
  ASSUME TreeInv, NEW e \in Editors, WriteOrder(e)
  PROVE  TreeInv'
<1>1. CASE Fail(e)
  BY <1>1, Fails
<1>2. CASE ~Fail(e)
  <2>. DEFINE moves == edit[e].moves
  <2>1. /\ DOMAIN moves \subseteq Rows /\ edit[e].pc = "reorder"
        /\ \A c \in DOMAIN moves : moves[c] \in Rows \cup {NoCategory}
        /\ parentId' = Moved(parentId, moves)
        /\ Commit(e) /\ UNCHANGED <<categoryId, reassigned>>
    BY <1>2 DEF WriteOrder
  <2>2. /\ EditsInv' /\ DOMAIN edit' = Editors /\ crossed' \in BOOLEAN
        /\ ~crossed' => GraphValid(Moved(parentId, moves))
    BY <2>1, Commits DEF Found
  <2>. HIDE DEF moves
  <2>3. Tree(Moved(parentId, moves))
    BY <2>1 DEF TreeInv, TreeTypes, Tree, Moved, Rows
  <2>4. TreeTypes'
    BY <2>1, <2>2, <2>3 DEF TreeInv, TreeTypes
  <2>5. DepthInv'
    <3>. PICK h : h = parentId'
      OBVIOUS
    <3>1. ~crossed' => Acyclic(h) /\ \A c \in DOMAIN h : DepthOf(c, h) <= MaxDepth
      BY <2>1, <2>2 DEF GraphValid, Acyclic
    <3>. QED  BY <3>1 DEF DepthInv, Rows, Acyclic
  <2>. QED  BY <2>2, <2>4, <2>5 DEF TreeInv
<1>. QED  BY <1>1, <1>2

(* The second checks of update and remove, which load the graph again.      *)
LEMMA CheckMoveStep ==
  ASSUME TreeInv, NEW e \in Editors, CheckMove(e)
  PROVE  TreeInv'
<1>1. CASE edit[e].id \in Rows /\ MoveAllowed(edit[e].id, edit[e].to, parentId)
  <2>. PICK x : x = [edit[e] EXCEPT !.pc = "update", !.stale = FALSE]
    OBVIOUS
  <2>1. Drafts(edit[e])
    BY DEF TreeInv, EditsInv
  <2>2. x.pc = "update" /\ x.id = edit[e].id /\ x.to = edit[e].to /\ Drafts(x)
    BY <2>1 DEF Drafts
  <2>3. Found(x)
    BY <1>1, <2>2 DEF Found
  <2>4. edit' = [edit EXCEPT ![e] = x] /\ UNCHANGED <<parentId, categoryId, history>>
    BY <1>1 DEF CheckMove
  <2>. QED  BY <2>2, <2>3, <2>4, EditsGoOn
<1>2. CASE ~(edit[e].id \in Rows /\ MoveAllowed(edit[e].id, edit[e].to, parentId))
  BY <1>2, NoEditFits, EditsGoOn DEF CheckMove
<1>. QED  BY <1>1, <1>2

LEMMA CheckTakeoverStep ==
  ASSUME TreeInv, NEW e \in Editors, CheckTakeover(e)
  PROVE  TreeInv'
<1>1. CASE edit[e].to \in Rows /\ ~IsDescendant(edit[e].to, edit[e].id, parentId)
  <2>. PICK x : x = [edit[e] EXCEPT !.pc = "remove", !.stale = FALSE]
    OBVIOUS
  <2>1. Drafts(edit[e]) /\ edit[e].pc = "remove:check"
    BY DEF TreeInv, EditsInv, CheckTakeover
  <2>2. x.pc = "remove" /\ x.id = edit[e].id /\ x.to = edit[e].to /\ Drafts(x)
        /\ x.to # NoCategory
    BY <2>1 DEF Drafts
  <2>3. Found(x)
    BY <1>1, <2>2 DEF Found
  <2>4. edit' = [edit EXCEPT ![e] = x] /\ UNCHANGED <<parentId, categoryId, history>>
    BY <1>1 DEF CheckTakeover
  <2>. QED  BY <2>2, <2>3, <2>4, EditsGoOn
<1>2. CASE ~(edit[e].to \in Rows /\ ~IsDescendant(edit[e].to, edit[e].id, parentId))
  BY <1>2, NoEditFits, EditsGoOn DEF CheckTakeover
<1>. QED  BY <1>1, <1>2

LEMMA FileProductStep ==
  ASSUME TreeInv, NEW p \in Goods, NEW c, FileProduct(p, c)
  PROVE  TreeInv'
<1>1. PICK e : e \notin Editors
  BY NoSetContainsEverything
<1>2. /\ UNCHANGED <<parentId, crossed, reassigned>> /\ DOMAIN categoryId' = Goods
      /\ edit' = [f \in Editors |->
                    IF f = e THEN NoEdit ELSE [edit[f] EXCEPT !.stale = edit[f].pc # "idle"]]
  BY <1>1 DEF FileProduct, TreeInv, TreeTypes, history
<1>3. EditsInv' /\ DOMAIN edit' = Editors
  BY <1>2, OthersStale
<1>4. TreeTypes' /\ DepthInv'
  BY <1>2, <1>3 DEF TreeInv, TreeTypes, DepthInv, Rows
<1>. QED  BY <1>3, <1>4 DEF TreeInv

LEMMA EditTreeStep ==
  ASSUME TreeInv, NEW e \in Editors, EditTree(e)
  PROVE  TreeInv'
<1>1. ASSUME NEW c \in Categories \ Rows, NEW to \in Rows \cup {NoCategory},
             CreateCategory(e, c, to)
      PROVE  TreeInv'
  <2>. PICK x : x = [NoEdit EXCEPT !.pc = "create", !.id = c, !.to = to]
    OBVIOUS
  <2>1. Drafts(x) /\ Found(x) /\ StartEdit(e, x)
    BY <1>1 DEF CreateCategory, Drafts, Found, NoEdit
  <2>. QED  BY <2>1, Starts
<1>2. ASSUME NEW c \in Rows, NEW to \in Rows \cup {NoCategory}, UpdateCategory(e, c, to)
      PROVE  TreeInv'
  <2>. PICK x : x = [NoEdit EXCEPT !.pc = IF parentId[c] = to THEN "update" ELSE "check",
                                   !.id = c, !.to = to]
    OBVIOUS
  <2>1. Drafts(x) /\ Found(x) /\ StartEdit(e, x)
    BY <1>2 DEF UpdateCategory, Drafts, Found, NoEdit
  <2>. QED  BY <2>1, Starts
<1>3. ASSUME NEW c \in Rows, NEW to \in Rows \cup {NoCategory}, RemoveCategory(e, c, to)
      PROVE  TreeInv'
  <2>. PICK x : x = [NoEdit EXCEPT !.pc = IF to = NoCategory THEN "remove" ELSE "remove:check",
                                   !.id = c, !.to = to]
    OBVIOUS
  <2>1. Drafts(x) /\ Found(x) /\ StartEdit(e, x)
    BY <1>3 DEF RemoveCategory, Drafts, Found, NoEdit
  <2>. QED  BY <2>1, Starts
<1>4. ASSUME NEW moves, Reorder(e, moves) PROVE TreeInv'
  <2>. PICK x : x = [NoEdit EXCEPT !.pc = "reorder", !.moves = moves]
    OBVIOUS
  <2>1. x.pc = "reorder" /\ x.moves = moves /\ Drafts(x) /\ StartEdit(e, x)
    BY <1>4 DEF Reorder, Drafts, NoEdit
  <2>2. Found(x)
    BY <1>4, <2>1 DEF Reorder, Found
  <2>. QED  BY <2>1, <2>2, Starts
<1>. QED  BY <1>1, <1>2, <1>3, <1>4 DEF EditTree

LEMMA TreeInvKept == TreeInv /\ [TreeNext]_treeVars => TreeInv'
<1>. SUFFICES ASSUME TreeInv, [TreeNext]_treeVars PROVE TreeInv'
  OBVIOUS
<1>1. ASSUME NEW e \in Editors, WriteTree(e) PROVE TreeInv'
  BY <1>1, InsertCategoryStep, CheckMoveStep, WriteParentStep, CheckTakeoverStep,
     DeleteCategoryStep, WriteOrderStep DEF WriteTree
<1>2. CASE UNCHANGED treeVars
  <2>1. UNCHANGED <<parentId, categoryId, edit, crossed, reassigned>>
    BY <1>2 DEF treeVars, history
  <2>2. EditsInv'
    BY <2>1 DEF TreeInv, EditsInv, Drafts, Found, Rows, Children, Filed
  <2>. QED  BY <2>1, <2>2 DEF TreeInv, TreeTypes, DepthInv, Rows
<1>. QED  BY <1>1, <1>2, EditTreeStep, FileProductStep DEF TreeNext

LEMMA TreeInvStarts == TreeInit => TreeInv
<1>. SUFFICES ASSUME TreeInit PROVE TreeInv
  OBVIOUS
<1>1. Rows = {} /\ Tree(parentId) /\ DOMAIN parentId = {}
  BY DEF TreeInit, Rows, Tree
<1>2. EditsInv
  BY NoEditFits DEF TreeInit, EditsInv
<1>. QED  BY <1>1, <1>2 DEF TreeInit, TreeInv, TreeTypes, DepthInv, Acyclic

-----------------------------------------------------------------------------
(* No category is ever its own ancestor, for any number of categories and    *)
(* admins, unless a write crossed another: the checks of update, remove and  *)
(* reorder suffice.                                                         *)
THEOREM TreeStaysATree == TreeSpec => []CyclesNeedCrossing
<1>1. TreeInv => CyclesNeedCrossing
  BY DEF TreeInv, DepthInv, CyclesNeedCrossing, Rows, Acyclic
<1>. QED  BY <1>1, TreeInvStarts, TreeInvKept, PTL DEF TreeSpec

(* getTree shows every category, unless a write crossed another or a removal  *)
(* handed children over, whose depth it does not look at.                   *)
THEOREM CategoriesStayShown == TreeSpec => []ShownUnlessReassigned
<1>1. TreeInv => ShownUnlessReassigned
  BY AllShown DEF TreeInv, TreeTypes, DepthInv, ShownUnlessReassigned, Rows
<1>. QED  BY <1>1, TreeInvStarts, TreeInvKept, PTL DEF TreeSpec

(* A removal that was checked after the last change unfiles no product.      *)
THEOREM RemovalsKeepGoodsFiled == TreeSpec => GoodsStayFiled
<1>1. ASSUME TreeInv, NEW e \in Editors, DeleteCategory(e), ~edit[e].stale,
             NEW p \in Goods, categoryId[p] # NoCategory
      PROVE  categoryId'[p] # NoCategory
  <2>1. CASE Fail(e)
    BY <1>1, <2>1 DEF Fail
  <2>2. CASE ~Fail(e)
    <3>. DEFINE c == edit[e].id  to == edit[e].to
    <3>1. /\ edit[e].pc = "remove"
          /\ categoryId' = [q \in Goods |-> IF categoryId[q] = c THEN to ELSE categoryId[q]]
      BY <1>1, <2>2 DEF DeleteCategory
    <3>2. to = NoCategory => Filed(c) = {}
      BY <1>1, <3>1 DEF TreeInv, EditsInv, Found
    <3>3. to = NoCategory => categoryId[p] # c
      BY <3>2 DEF Filed
    <3>. QED  BY <1>1, <3>1, <3>3
  <2>. QED  BY <2>1, <2>2
<1>2. TreeInv /\ [TreeNext]_treeVars =>
        [\A e \in Editors :
           DeleteCategory(e) /\ ~edit[e].stale =>
             \A p \in Goods : categoryId[p] # NoCategory => categoryId'[p] # NoCategory]_treeVars
  BY <1>1
<1>. QED  BY <1>2, TreeInvStarts, TreeInvKept, PTL DEF TreeSpec, GoodsStayFiled

-----------------------------------------------------------------------------
(* A code leads to one coupon, and a pending order's to the one that was     *)
(* validated for it, unless that was severed.  Nor does an admin call have   *)
(* a coupon in hand that an order depends on, except to write its code again.*)
OneCode ==
  \A k, j \in Coupons : coupon[k].code = coupon[j].code /\ coupon[k].code # NoCode => k = j

Pinned(o) ==
  /\ sale[o].status \in {"draft", "PENDING"} => sale[o].code \in Codes /\ sale[o].coupon \in Coupons
  /\ sale[o].status = "PENDING" /\ sale[o].coupon \notin severed =>
       /\ coupon[sale[o].coupon].code = sale[o].code
       /\ \A e \in Clerks : desk[e].k = sale[o].coupon => desk[e].code = sale[o].code

DeletesKeepNoCode == \A e \in Clerks : desk[e].pc = "delete" => desk[e].code = NoCode

PinInv == OneCode /\ DeletesKeepNoCode /\ \A o \in Checkouts : Pinned(o)

LEMMA InitPin == CouponInit => PinInv
BY DEF CouponInit, PinInv, OneCode, DeletesKeepNoCode, Pinned, NoRow, NoSale, NoCall

(* A pending order with a coupon that is not severed keeps it in use.       *)
LEMMA PinnedInUse ==
  ASSUME PinInv, NEW o \in Checkouts, sale[o].status = "PENDING", sale[o].coupon \notin severed
  PROVE  sale[o].coupon \in Coupons /\ InUse(sale[o].coupon)
BY DEF PinInv, Pinned, InUse

(* Steps that neither place an order nor touch codes and admin calls.       *)
LEMMA CodesAlone ==
  ASSUME PinInv, desk' = desk, severed' = severed,
         \A k \in Coupons : coupon'[k].code = coupon[k].code,
         \A o \in Checkouts : sale'[o] = sale[o] \/ sale'[o].status \notin {"draft", "PENDING"}
  PROVE  PinInv'
<1>1. OneCode'
  BY DEF PinInv, OneCode
<1>2. ASSUME NEW o \in Checkouts PROVE Pinned(o)'
  BY DEF PinInv, Pinned
<1>. QED  BY <1>1, <1>2 DEF PinInv, DeletesKeepNoCode

LEMMA PinShopStep ==
  ASSUME CouponInv, PinInv, NEW o \in Checkouts, Shop(o)
  PROVE  PinInv'
<1>0. /\ sale \in [Checkouts -> Sales] /\ coupon \in [Coupons -> CouponRows]
      /\ \A k \in Coupons : coupon[k] # NoRow => coupon[k].code \in Codes
  BY DEF CouponInv, CouponTypes, RowsInv
<1>1. ASSUME NEW u \in Shoppers \cup {Guest}, NEW k \in Coupons, Validate(o, u, k)
      PROVE  PinInv'
  <2>. DEFINE s == [status |-> "draft", buyer |-> u, code |-> coupon[k].code, coupon |-> k]
  <2>1. s.status = "draft" /\ s.code \in Codes /\ s.coupon \in Coupons
    BY <1>0, <1>1 DEF Validate, Exists
  <2>2. /\ sale' = [sale EXCEPT ![o] = s]
        /\ UNCHANGED <<coupon, desk, severed>>
    BY <1>1 DEF Validate
  <2>. HIDE DEF s
  <2>3. sale'[o] = s /\ \A q \in Checkouts : q # o => sale'[q] = sale[q]
    BY <1>0, <2>2
  <2>4. ASSUME NEW q \in Checkouts PROVE Pinned(q)'
    BY <2>1, <2>2, <2>3 DEF PinInv, Pinned
  <2>. QED  BY <2>2, <2>4 DEF PinInv, OneCode, DeletesKeepNoCode
<1>2. CASE PersistSale(o)
  <2>. DEFINE k == sale[o].coupon
  <2>1. /\ sale'[o] = [sale[o] EXCEPT !.status = "PENDING"] /\ sale[o].status = "draft"
        /\ \A q \in Checkouts : q # o => sale'[q] = sale[q]
        /\ severed' = IF coupon[k].code # sale[o].code \/ \E e \in Clerks : desk[e].k = k /\ desk[e].code # sale[o].code
                      THEN severed \cup {k} ELSE severed
        /\ UNCHANGED <<coupon, desk>>
    BY <1>0, <1>2 DEF PersistSale
  <2>2. sale'[o].status = "PENDING" /\ sale'[o].code = sale[o].code /\ sale'[o].coupon = k
    BY <1>0, <2>1 DEF Sales
  <2>3. Pinned(o)'
    <3>1. k \in Coupons /\ sale[o].code \in Codes
      BY <2>1 DEF PinInv, Pinned
    <3>2. k \notin severed' =>
            /\ coupon[k].code = sale[o].code
            /\ \A e \in Clerks : desk[e].k = k => desk[e].code = sale[o].code
      BY <2>1
    <3>. HIDE DEF k
    <3>. QED  BY <2>1, <2>2, <3>1, <3>2 DEF Pinned
  <2>4. severed \subseteq severed'
    BY <2>1
  <2>5. ASSUME NEW q \in Checkouts, q # o PROVE Pinned(q)'
    BY <2>1, <2>4, <2>5 DEF PinInv, Pinned
  <2>. QED  BY <2>1, <2>3, <2>5 DEF PinInv, OneCode, DeletesKeepNoCode
<1>3. ASSUME \/ CancelUnpaid(o) \/ FindCoupon(o) \/ LockCoupon(o) \/ CountUses(o)
             \/ RecordRedemption(o) \/ RollBackPayment(o) \/ CancelPaid(o)
      PROVE  PinInv'
  <2>1. desk' = desk /\ severed' = severed
    BY <1>3 DEF CancelUnpaid, FindCoupon, LockCoupon, CountUses, RecordRedemption,
                RollBackPayment, CancelPaid
  <2>2. \A k \in Coupons : coupon'[k].code = coupon[k].code
    <3>1. CASE RecordRedemption(o)
      BY <1>0, <3>1 DEF RecordRedemption, CouponRows
    <3>2. CASE CancelPaid(o)
      BY <1>0, <3>2 DEF CancelPaid, CouponRows
    <3>3. CASE ~RecordRedemption(o) /\ ~CancelPaid(o)
      BY <1>3, <3>3 DEF CancelUnpaid, FindCoupon, LockCoupon, CountUses, RollBackPayment
    <3>. QED  BY <3>1, <3>2, <3>3
  <2>3. \/ sale' = sale \/ sale' = [sale EXCEPT ![o].status = "CONFIRMED"]
        \/ sale' = [sale EXCEPT ![o].status = "CANCELLED"]
    BY <1>3 DEF CancelUnpaid, FindCoupon, LockCoupon, CountUses, RecordRedemption,
                RollBackPayment, CancelPaid, SetConfirmed
  <2>4. ASSUME NEW q \in Checkouts
        PROVE  sale'[q] = sale[q] \/ sale'[q].status \notin {"draft", "PENDING"}
    BY <1>0, <2>3 DEF Sales
  <2>. QED  BY <2>1, <2>2, <2>4, CodesAlone
<1>. QED  BY <1>1, <1>2, <1>3 DEF Shop

LEMMA PinManageStep ==
  ASSUME CouponInv, PinInv, Manage
  PROVE  PinInv'
<1>0. /\ desk \in [Clerks -> Desks] /\ coupon \in [Coupons -> CouponRows]
      /\ NoRow.code = NoCode /\ NoCode \notin Codes /\ NoCall = [pc |-> "idle", k |-> NoCoupon, code |-> NoCode]
      /\ NoCoupon \notin Coupons
      /\ \A e \in Clerks : desk[e].pc = "rename" => desk[e].code \in Codes
  BY CouponAssumption DEF CouponInv, CouponTypes, RowsInv, NoRow, NoCall
<1>1. ASSUME NEW k \in Coupons, NEW code \in Codes, NEW limits \in Limits,
             CreateCoupon(k, code, limits)
      PROVE  PinInv'
  <2>1. /\ WithCode(code) = {} /\ UNCHANGED <<sale, desk, severed>>
        /\ \A o \in Checkouts : sale[o].coupon # k
        /\ coupon'[k].code = code
        /\ \A j \in Coupons : j # k => coupon'[j] = coupon[j]
    BY <1>0, <1>1 DEF CreateCoupon
  <2>2. \A j \in Coupons : coupon[j].code # code
    BY <1>0, <2>1 DEF WithCode
  <2>3. OneCode'
    BY <2>1, <2>2 DEF PinInv, OneCode
  <2>4. ASSUME NEW o \in Checkouts PROVE Pinned(o)'
    BY <2>1 DEF PinInv, Pinned
  <2>. QED  BY <2>1, <2>3, <2>4 DEF PinInv, DeletesKeepNoCode
<1>2. ASSUME NEW k \in Coupons, NEW active \in BOOLEAN, NEW limits \in Limits,
             UpdateCoupon(k, active, limits)
      PROVE  PinInv'
  <2>1. /\ UNCHANGED <<sale, desk, severed>>
        /\ \A j \in Coupons : coupon'[j].code = coupon[j].code
    BY <1>0, <1>2 DEF UpdateCoupon, CouponRows
  <2>. QED  BY <2>1, CodesAlone
<1>3. ASSUME NEW e \in Clerks, NEW k \in Coupons, NEW pc, NEW code,
             pc = "delete" => code = NoCode, CheckUsage(e, k, pc, code)
      PROVE  PinInv'
  <2>1. /\ ~InUse(k) \/ code = coupon[k].code
        /\ UNCHANGED <<sale, coupon, severed>>
        /\ desk'[e] = [pc |-> pc, k |-> k, code |-> code]
        /\ \A f \in Clerks : f # e => desk'[f] = desk[f]
    BY <1>0, <1>3 DEF CheckUsage, Takes
  <2>2. ASSUME NEW o \in Checkouts PROVE Pinned(o)'
    BY <2>1, PinnedInUse DEF PinInv, Pinned
  <2>3. DeletesKeepNoCode'
    BY <1>3, <2>1 DEF PinInv, DeletesKeepNoCode
  <2>. QED  BY <2>1, <2>2, <2>3 DEF PinInv, OneCode
<1>4. ASSUME NEW e \in Clerks, DeleteCoupon(e) PROVE PinInv'
  <2>1. /\ UNCHANGED <<sale, severed>>
        /\ desk'[e] = NoCall /\ \A f \in Clerks : f # e => desk'[f] = desk[f]
        /\ \A j \in Coupons : coupon'[j] = IF j = desk[e].k THEN NoRow ELSE coupon[j]
        /\ desk[e].code = NoCode
    BY <1>0, <1>4 DEF DeleteCoupon, Delete, Takes, PinInv, DeletesKeepNoCode
  <2>2. ASSUME NEW o \in Checkouts PROVE Pinned(o)'
    BY <1>0, <2>1 DEF PinInv, Pinned
  <2>3. OneCode'
    BY <1>0, <2>1 DEF PinInv, OneCode
  <2>. QED  BY <1>0, <2>1, <2>2, <2>3 DEF PinInv, DeletesKeepNoCode
<1>5. ASSUME NEW e \in Clerks, RenameCoupon(e) PROVE PinInv'
  <2>. DEFINE k == desk[e].k  code == desk[e].code
  <2>1. /\ UNCHANGED <<sale, severed>> /\ code \in Codes
        /\ desk'[e] = NoCall /\ \A f \in Clerks : f # e => desk'[f] = desk[f]
        /\ coupon' = IF Exists(k) /\ WithCode(code) \subseteq {k}
                     THEN [coupon EXCEPT ![k].code = code] ELSE coupon
    BY <1>0, <1>5 DEF RenameCoupon, Takes
  <2>2. \/ coupon' = coupon
        \/ /\ k \in Coupons /\ coupon'[k].code = code
           /\ \A j \in Coupons \ {k} : coupon[j].code # code
           /\ \A j \in Coupons : j # k => coupon'[j] = coupon[j]
    <3>1. CASE ~(Exists(k) /\ WithCode(code) \subseteq {k})
      BY <2>1, <3>1
    <3>2. CASE Exists(k) /\ WithCode(code) \subseteq {k}
      <4>1. k \in Coupons /\ \A j \in Coupons \ {k} : coupon[j].code # code
        BY <1>0, <2>1, <3>2 DEF Exists, WithCode
      <4>. HIDE DEF k, code
      <4>2. coupon' = [coupon EXCEPT ![k].code = code]
        BY <2>1, <3>2
      <4>3. coupon'[k].code = code /\ \A j \in Coupons : j # k => coupon'[j] = coupon[j]
        BY <1>0, <4>1, <4>2 DEF CouponRows
      <4>. QED  BY <4>1, <4>3
    <3>. QED  BY <3>1, <3>2
  <2>3. OneCode'
    BY <2>2 DEF PinInv, OneCode
  <2>4. ASSUME NEW o \in Checkouts PROVE Pinned(o)'
    BY <1>0, <2>1, <2>2 DEF PinInv, Pinned
  <2>. QED  BY <1>0, <2>1, <2>3, <2>4 DEF PinInv, DeletesKeepNoCode
<1>6. ASSUME NEW ks \in SUBSET Coupons, BulkDelete(ks) PROVE PinInv'
  <2>1. /\ UNCHANGED <<sale, desk>>
        /\ severed' = severed \cup {k \in ks : InUse(k)}
        /\ \A j \in Coupons : coupon'[j] = IF j \in ks THEN NoRow ELSE coupon[j]
    BY <1>6 DEF BulkDelete, Delete
  <2>2. ASSUME NEW o \in Checkouts PROVE Pinned(o)'
    <3>1. CASE sale[o].status = "PENDING" /\ sale[o].coupon \notin severed'
      <4>1. sale[o].coupon \in Coupons \ ks
        BY <2>1, <3>1, PinnedInUse
      <4>. QED  BY <2>1, <3>1, <4>1 DEF PinInv, Pinned
    <3>2. CASE ~(sale[o].status = "PENDING" /\ sale[o].coupon \notin severed')
      BY <2>1, <3>2 DEF PinInv, Pinned
    <3>. QED  BY <3>1, <3>2
  <2>3. OneCode'
    BY <1>0, <2>1 DEF PinInv, OneCode
  <2>. QED  BY <2>1, <2>2, <2>3 DEF PinInv, DeletesKeepNoCode
<1>7. ASSUME NEW ks \in SUBSET Coupons, NEW active \in BOOLEAN, BulkSetActive(ks, active)
      PROVE  PinInv'
  <2>1. /\ UNCHANGED <<sale, desk, severed>>
        /\ \A j \in Coupons : coupon'[j].code = coupon[j].code
    BY <1>0, <1>7 DEF BulkSetActive, CouponRows
  <2>. QED  BY <2>1, CodesAlone
<1>. QED  BY <1>1, <1>2, <1>3, <1>4, <1>5, <1>6, <1>7 DEF Manage

(* A pending order's code leads to the coupon that was validated for it, and  *)
(* to no other, for any coupons, codes, orders and admins, unless it was     *)
(* deleted in bulk or the order placed behind the check of an admin call     *)
(* that takes the code away.                                                *)
THEOREM OrdersPinTheirCoupon == CouponSpec => []PendingOrdersPinCoupon
<1>1. CouponInv /\ PinInv /\ [CouponNext]_couponVars => PinInv'
  <2>. SUFFICES ASSUME CouponInv, PinInv, [CouponNext]_couponVars PROVE PinInv'
    OBVIOUS
  <2>1. CASE UNCHANGED couponVars
    BY <2>1 DEF couponVars, PinInv, OneCode, DeletesKeepNoCode, Pinned
  <2>. QED  BY <2>1, PinShopStep, PinManageStep DEF CouponNext
<1>2. PinInv => PendingOrdersPinCoupon
  <2>. SUFFICES ASSUME PinInv, NEW o \in Checkouts, sale[o].status = "PENDING",
                       sale[o].coupon \notin severed
                PROVE  WithCode(sale[o].code) = {sale[o].coupon}
    BY DEF PendingOrdersPinCoupon
  <2>1. /\ sale[o].code \in Codes /\ sale[o].coupon \in Coupons
        /\ coupon[sale[o].coupon].code = sale[o].code
    BY DEF PinInv, Pinned
  <2>. QED  BY <2>1, CouponAssumption DEF PinInv, OneCode, WithCode
<1>. QED  BY <1>1, <1>2, InitCoupon, InitPin, CouponStep, PTL DEF CouponSpec

-----------------------------------------------------------------------------
(***************************************************************************)
(* Why the discounts stay in their scope and the returns of an order refund  *)
(* what was paid, for any lines, prices, promotions, rates and returns.      *)
(***************************************************************************)

(* Math.round misses the exact quotient by a half at most.                   *)
LEMMA RoundsToNearest ==
  ASSUME NEW n \in Nat, NEW d \in Nat, d > 0
  PROVE  /\ Round(n, d) \in Nat
         /\ 2 * (d * Round(n, d)) <= 2 * n + d
         /\ 2 * n <= 2 * (d * Round(n, d)) + d
<1>. DEFINE q == (2 * n + d) \div (2 * d)
            m == 2 * n + d
            k == 2 * d
<1>1. m \in Nat /\ k \in Nat /\ k > 0
  OBVIOUS
<1>. HIDE DEF m, k
<1>2. m \div k \in Nat /\ k * (m \div k) <= m /\ m < k * (m \div k) + k
  BY <1>1
<1>3. q = m \div k
  BY DEF m, k
<1>4. q \in Nat /\ (2 * d) * q <= 2 * n + d /\ 2 * n + d < (2 * d) * q + 2 * d
  BY <1>2, <1>3 DEF m, k
<1>. HIDE DEF q
<1>5. (2 * d) * q = 2 * (d * q)
  BY <1>4
<1>6. d * q \in Nat
  BY <1>4
<1>7. 2 * (d * q) <= 2 * n + d /\ 2 * n <= 2 * (d * q) + d
  BY <1>4, <1>5, <1>6
<1>. QED  BY <1>4, <1>7 DEF Round, q

LEMMA Capped ==
  ASSUME NEW n \in Nat, NEW m \in Nat
  PROVE  /\ AtMost(n, m) \in Nat /\ AtMost(n, m) <= n /\ AtMost(n, m) <= m
         /\ AtLeastZero(n, m) \in Nat /\ AtLeastZero(n, m) <= n
BY DEF AtMost, AtLeastZero

(* A refund of gross less its share misses the exact amount by half a cent.  *)
LEMMA HalfACent ==
  ASSUME NEW s \in Nat, NEW d \in Nat, NEW g \in Nat, NEW r \in Nat, s > 0, d <= s,
         2 * (s * r) <= 2 * (d * g) + s, 2 * (d * g) <= 2 * (s * r) + s
  PROVE  /\ 2 * (AtLeastZero(g, r) * s) <= 2 * (g * (s - d)) + s
         /\ 2 * (g * (s - d)) <= 2 * (AtLeastZero(g, r) * s) + s
<1>1. g * (s - d) = s * g - d * g
  OBVIOUS
<1>2. s * g \in Nat /\ d * g \in Nat /\ s * r \in Nat /\ g * (s - d) \in Nat
  OBVIOUS
<1>3. CASE g > r
  <2>1. AtLeastZero(g, r) * s = s * g - s * r
    BY <1>3 DEF AtLeastZero
  <2>. QED  BY <1>1, <1>2, <2>1
<1>4. CASE ~(g > r)
  <2>1. AtLeastZero(g, r) * s = 0
    BY <1>4 DEF AtLeastZero
  <2>2. s * g <= s * r
    BY <1>4
  <2>. QED  BY <1>1, <1>2, <2>1, <2>2
<1>. QED  BY <1>3, <1>4

-----------------------------------------------------------------------------
LEMMA LinesCost ==
  ASSUME basket \in Baskets
  PROVE  \A l \in Lines :
           /\ basket[l].qty \in Nat /\ effectivePriceCents(basket[l]) \in Nat
           /\ LineTotal[l] = effectivePriceCents(basket[l]) * basket[l].qty
           /\ LineTotal[l] \in Nat
<1>. TAKE l \in Lines
<1>1. basket[l] \in LineItems
  BY PricingAssumption
<1>2. basket[l].qty \in Nat /\ effectivePriceCents(basket[l]) \in Nat
  BY <1>1 DEF LineItems, effectivePriceCents
<1>. HIDE DEF effectivePriceCents
<1>3. LineTotal[l] = effectivePriceCents(basket[l]) * basket[l].qty
  BY DEF LineTotal
<1>. QED  BY <1>2, <1>3

LEMMA EligibleFits ==
  ASSUME basket \in Baskets, NEW c
  PROVE  /\ Subtotal \in Nat /\ eligibleSubtotal(c) \in Nat
         /\ eligibleSubtotal(c) <= Subtotal
         /\ TouchableTotal(c) = eligibleSubtotal(c)
<1>. DEFINE E == {l \in Lines : /\ isSaleActive(basket[l]) => c.appliesToSaleItems
                                /\ c.restricted => basket[l].inScope}
<1>1. /\ IsFiniteSet(Lines) /\ E \subseteq Lines /\ Lines \subseteq Lines
      /\ \A l \in Lines : LineTotal[l] \in Nat
  BY LinesCost, PricingAssumption
<1>2. eligibleSubtotal(c) = SumFunctionOnSet(LineTotal, E)
  BY DEF eligibleSubtotal
<1>3. TouchableTotal(c) = SumFunctionOnSet(LineTotal, E)
  <2>1. {l \in Lines : /\ c.restricted => basket[l].inScope
                       /\ isSaleActive(basket[l]) => c.appliesToSaleItems} = E
    OBVIOUS
  <2>. QED  BY <2>1, Zenon DEF TouchableTotal
<1>. HIDE DEF E
<1>. QED  BY <1>1, <1>2, <1>3, SumMonotone DEF Subtotal

(* Each discount is worth what it may touch at most.                         *)
LEMMA CouponFits ==
  ASSUME NEW c \in Promotions, NEW cents \in Nat
  PROVE  computeDiscount(c, cents) \in Nat /\ computeDiscount(c, cents) <= cents
<1>1. c.value \in Nat /\ c.maxDiscount \in Nat
  BY DEF Promotions
<1>2. (cents * c.value) \div 100 \in Nat
  <2>1. cents * c.value \in Nat
    BY <1>1
  <2>. DEFINE n == cents * c.value
  <2>2. n \in Nat
    BY <2>1
  <2>. HIDE DEF n
  <2>3. n \div 100 \in Nat
    BY <2>2
  <2>. QED  BY <2>3 DEF n
<1>3. AtMost((cents * c.value) \div 100, c.maxDiscount) \in Nat
  BY <1>1, <1>2, Capped
<1>4. /\ AtMost(AtMost((cents * c.value) \div 100, c.maxDiscount), cents) \in 0..cents
      /\ AtMost(c.value, cents) \in 0..cents
  <2>1. \A n, m \in Nat : AtMost(n, m) \in 0..m
    BY DEF AtMost
  <2>. QED  BY <1>1, <1>3, <2>1, Zenon
<1>5. 0 \in 0..cents
  OBVIOUS
<1>6. computeDiscount(c, cents) \in 0..cents
  BY <1>4, <1>5, Zenon DEF computeDiscount
<1>. QED  BY <1>6

LEMMA RuleFits ==
  ASSUME basket \in Baskets, NEW r \in Rules
  PROVE  RuleDiscount(r) \in Nat /\ RuleDiscount(r) <= eligibleSubtotal(r)
<1>. DEFINE e == eligibleSubtotal(r)
<1>1. e \in Nat /\ r.percentOff \in Nat /\ r.amountOff \in Nat
  BY EligibleFits DEF Rules
<1>. HIDE DEF e
<1>2. (e * r.percentOff) \div 100 \in Nat
  <2>. DEFINE n == e * r.percentOff
  <2>1. n \in Nat
    BY <1>1
  <2>. HIDE DEF n
  <2>2. n \div 100 \in Nat
    BY <2>1
  <2>. QED  BY <2>2 DEF n
<1>3. (IF r.percentOff > 0 THEN (e * r.percentOff) \div 100 ELSE r.amountOff) \in Nat
  BY <1>1, <1>2
<1>4. LET n == IF r.percentOff > 0 THEN (e * r.percentOff) \div 100 ELSE r.amountOff
      IN AtMost(n, e) \in Nat /\ AtMost(n, e) <= e
  BY <1>1, <1>3, Capped
<1>. QED  BY <1>4 DEF RuleDiscount, e

(* The first of some places of a sequence is one of them.                    *)
LEMMA FirstPlace ==
  ASSUME NEW q, NEW s \in Seq(q), NEW I, I \subseteq DOMAIN s, I # {}
  PROVE  Min(I) \in I
<1>1. I \in SUBSET Nat
  OBVIOUS
<1>2. \E x \in I : \A y \in I : x <= y
  BY <1>1, LeastNatural
<1>. QED  BY <1>2 DEF Min

LEMMA ZoneFound ==
  ASSUME NEW zones \in Seq(Zones), zones # <<>>, NEW country
  PROVE  ZoneOf(zones, country) \in Zones
<1>. DEFINE named == {i \in DOMAIN zones : country \in zones[i].countries}
            anywhere == {i \in DOMAIN zones : zones[i].countries = {}}
<1>1. 1 \in DOMAIN zones /\ \A i \in DOMAIN zones : zones[i] \in Zones
  OBVIOUS
<1>2. (named # {} => Min(named) \in DOMAIN zones) /\ (anywhere # {} => Min(anywhere) \in DOMAIN zones)
  <2>1. named \subseteq DOMAIN zones /\ anywhere \subseteq DOMAIN zones
    OBVIOUS
  <2>. HIDE DEF named, anywhere
  <2>. QED  BY <2>1, FirstPlace
<1>3. ZoneOf(zones, country)
        = zones[IF named # {} THEN Min(named) ELSE IF anywhere # {} THEN Min(anywhere) ELSE 1]
  BY Zenon DEF ZoneOf
<1>. HIDE DEF named, anywhere
<1>. QED  BY <1>1, <1>2, <1>3

-----------------------------------------------------------------------------
(* Of the units of a line no more come back than it has, and until the order *)
(* is placed nothing comes back; what is paid covers the lines at their       *)
(* discount.                                                                *)
Priced ==
  /\ basket \in Baskets
  /\ terms.coupon \in Discounts /\ terms.rules \in RuleLists /\ terms.store \in Stores
  /\ back \in [Lines -> Nat] /\ \A l \in Lines : back[l] <= basket[l].qty
  /\ refunded \in Nat /\ returns \in Nat

Charged ==
  IF bill.placed
  THEN /\ bill.subtotal = Subtotal /\ bill.discount \in Nat /\ bill.discount <= Subtotal
       /\ bill.total \in Nat /\ Subtotal - bill.discount <= bill.total
  ELSE bill = NoBill /\ returns = 0 /\ refunded = 0 /\ back = [l \in Lines |-> 0]

PricingInv == Priced /\ Charged /\ DiscountStaysInScope /\ ReturnsRefundWhatWasPaid

(* The worth of units of the lines is a sum, and no more than the subtotal   *)
(* if they are no more than what was bought.                                *)
LEMMA GrossOf ==
  ASSUME basket \in Baskets, NEW items \in [Lines -> Nat]
  PROVE  /\ Gross(items) \in Nat
         /\ (\A l \in Lines : items[l] <= basket[l].qty) => Gross(items) <= Subtotal
         /\ (\A l \in Lines : items[l] = 0) => Gross(items) = 0
<1>1. \A l \in Lines : /\ effectivePriceCents(basket[l]) \in Nat /\ basket[l].qty \in Nat
                        /\ LineTotal[l] = effectivePriceCents(basket[l]) * basket[l].qty
                        /\ LineTotal[l] \in Nat
  BY LinesCost
<1>2. \A l \in Lines : /\ Worth(items)[l] = effectivePriceCents(basket[l]) * items[l]
                        /\ Worth(items)[l] \in Nat
  <2>1. \A l \in Lines : Worth(items)[l] = effectivePriceCents(basket[l]) * items[l]
    BY DEF Worth
  <2>2. \A l \in Lines : items[l] \in Nat
    OBVIOUS
  <2>3. \A x, y \in Nat : x * y \in Nat
    OBVIOUS
  <2>. QED  BY <1>1, <2>1, <2>2, <2>3
<1>3. Gross(items) \in Nat
  <2>1. Lines \subseteq Lines
    OBVIOUS
  <2>. QED  BY <1>2, <2>1, SumMonotone, PricingAssumption DEF Gross
<1>4. ASSUME \A l \in Lines : items[l] <= basket[l].qty PROVE Gross(items) <= Subtotal
  <2>1. \A x, y, z \in Nat : y <= z => x * y <= x * z
    OBVIOUS
  <2>2. \A l \in Lines : items[l] \in Nat
    OBVIOUS
  <2>3. \A l \in Lines : Worth(items)[l] <= LineTotal[l]
    BY <1>1, <1>2, <1>4, <2>1, <2>2
  <2>4. \A l \in Lines : Worth(items)[l] \in Int /\ LineTotal[l] \in Int
    BY <1>1, <1>2
  <2>. QED  BY <2>3, <2>4, SumBounded, PricingAssumption DEF Gross, Subtotal
<1>5. ASSUME \A l \in Lines : items[l] = 0 PROVE Gross(items) = 0
  <2>1. \A l \in Lines : Worth(items)[l] = 0
    BY <1>1, <1>2, <1>5
  <2>. QED  BY <2>1, SumZero, PricingAssumption DEF Gross
<1>. QED  BY <1>3, <1>4, <1>5

LEMMA GrossAddsUp ==
  ASSUME basket \in Baskets, NEW some \in [Lines -> Nat], NEW more \in [Lines -> Nat]
  PROVE  Gross([l \in Lines |-> some[l] + more[l]]) = Gross(some) + Gross(more)
<1>. DEFINE both == [l \in Lines |-> some[l] + more[l]]
<1>1. \A x, y, z \in Nat : x * y \in Int /\ x * (y + z) = x * y + x * z
  OBVIOUS
<1>2. \A l \in Lines : /\ effectivePriceCents(basket[l]) \in Nat
                        /\ some[l] \in Nat /\ more[l] \in Nat /\ both[l] = some[l] + more[l]
  BY LinesCost
<1>. HIDE DEF both
<1>3. \A l \in Lines :
        /\ Worth(both)[l] = effectivePriceCents(basket[l]) * both[l]
        /\ Worth(some)[l] = effectivePriceCents(basket[l]) * some[l]
        /\ Worth(more)[l] = effectivePriceCents(basket[l]) * more[l]
  BY DEF Worth
<1>4. \A l \in Lines : /\ Worth(some)[l] \in Int /\ Worth(more)[l] \in Int
                        /\ Worth(both)[l] = Worth(some)[l] + Worth(more)[l]
  BY <1>1, <1>2, <1>3
<1>5. Gross(both) = Gross(some) + Gross(more)
  BY <1>4, SumPlus, PricingAssumption DEF Gross
<1>. QED  BY <1>5 DEF both

LEMMA PricingStarts == PricingInit => PricingInv
<1>. SUFFICES ASSUME PricingInit PROVE PricingInv
  OBVIOUS
<1>1. Priced
  <2>1. /\ basket \in Baskets /\ back = [l \in Lines |-> 0] /\ refunded = 0 /\ returns = 0
        /\ terms.coupon \in Discounts /\ terms.rules \in RuleLists /\ terms.store \in Stores
    BY DEF PricingInit
  <2>2. \A l \in Lines : basket[l].qty \in Nat
    BY <2>1, LinesCost
  <2>. QED  BY <2>1, <2>2 DEF Priced
<1>2. Charged
  BY DEF PricingInit, Charged, NoBill
<1>3. DiscountStaysInScope
  BY <1>1, EligibleFits DEF PricingInit, Priced, NoBill, DiscountStaysInScope
<1>4. Gross(back) = 0
  BY <1>1, GrossOf DEF PricingInit, Priced
<1>5. ReturnsRefundWhatWasPaid
  BY <1>4 DEF PricingInit, NoBill, ReturnsRefundWhatWasPaid
<1>. QED  BY <1>1, <1>2, <1>3, <1>5 DEF PricingInv

LEMMA ChargesAreWhole ==
  ASSUME Priced, NEW free \in BOOLEAN, NEW taxable \in Nat
  PROVE  calculateShipping(free) \in Nat /\ calculateTax(taxable) \in Nat
<1>1. /\ terms.store.zones \in Seq(Zones) /\ terms.store.zones # <<>>
      /\ \A c \in DOMAIN terms.store.taxRules :
           LET rule == terms.store.taxRules[c]
           IN rule.rate \in Nat /\ \A st \in DOMAIN rule.states : rule.states[st] \in Nat
  BY PricingAssumption DEF Priced
<1>2. ZoneOf(terms.store.zones, terms.address.country) \in Zones
  BY <1>1, ZoneFound
<1>3. ZoneOf(terms.store.zones, terms.address.country).rate \in Nat
  BY <1>2 DEF Zones
<1>4. calculateShipping(free) \in Nat
  BY <1>3 DEF calculateShipping
<1>5. TaxRate \in Nat
  BY <1>1 DEF TaxRate
<1>6. taxable * TaxRate \in Nat
  BY <1>5
<1>. DEFINE n == taxable * TaxRate
<1>. HIDE DEF n
<1>7. Round(n, 10000) \in Nat
  BY <1>6, RoundsToNearest DEF n
<1>. QED  BY <1>4, <1>7 DEF calculateTax, n

LEMMA PlacingKeeps ==
  ASSUME PricingInv, PlaceOrder
  PROVE  PricingInv'
<1>. DEFINE c == terms.coupon
            couponDiscount == IF Accepted(c) THEN computeDiscount(c, eligibleSubtotal(c)) ELSE 0
            autoDiscount == IF Applicable = {} THEN 0 ELSE RuleDiscount(AutomaticDiscount)
            discount == AtMost(couponDiscount + autoDiscount, Subtotal)
            free == \/ Accepted(c) /\ c.type = "FREE_SHIPPING"
                    \/ Applicable # {} /\ AutomaticDiscount.freeShipping
            shipping == calculateShipping(free)
            tax == calculateTax(AtLeastZero(Subtotal, discount))
<1>1. /\ Priced /\ ~bill.placed /\ UNCHANGED <<basket, terms, back, refunded, returns>>
      /\ bill' = [placed |-> TRUE, subtotal |-> Subtotal,
                  couponDiscount |-> couponDiscount, autoDiscount |-> autoDiscount,
                  discount |-> discount, shipping |-> shipping, tax |-> tax,
                  total |-> (Subtotal - discount) + shipping + tax]
  BY Zenon DEF PlaceOrder, PricingInv
<1>2. returns = 0 /\ refunded = 0 /\ back = [l \in Lines |-> 0]
  BY <1>1 DEF PricingInv, Charged
<1>3. basket \in Baskets /\ terms.coupon \in Promotions /\ terms.rules \in Seq(Rules)
  BY <1>1, PricingAssumption DEF Priced
<1>4. Subtotal \in Nat /\ \A r : /\ eligibleSubtotal(r) \in Nat
                                /\ TouchableTotal(r) = eligibleSubtotal(r)
  BY <1>3, EligibleFits
<1>5. couponDiscount \in Nat /\ couponDiscount <= TouchableTotal(terms.coupon)
  BY <1>3, <1>4, CouponFits
<1>6. ASSUME Applicable # {}
      PROVE  /\ AutomaticDiscount \in Rules /\ AutomaticDiscount \in ToSet(terms.rules)
             /\ autoDiscount \in Nat /\ autoDiscount <= TouchableTotal(AutomaticDiscount)
  <2>1. Applicable \subseteq DOMAIN terms.rules
    BY DEF Applicable
  <2>2. Min(Applicable) \in DOMAIN terms.rules
    BY <1>3, <1>6, <2>1, FirstPlace
  <2>3. AutomaticDiscount \in Rules /\ AutomaticDiscount \in ToSet(terms.rules)
    BY <1>3, <2>2 DEF AutomaticDiscount, ToSet
  <2>. QED  BY <1>3, <1>4, <1>6, <2>3, RuleFits
<1>7. autoDiscount \in Nat
  BY <1>6
<1>8. discount \in Nat /\ discount <= Subtotal
  <2>. HIDE DEF couponDiscount, autoDiscount
  <2>1. couponDiscount + autoDiscount \in Nat
    BY <1>5, <1>7
  <2>. QED  BY <1>4, <2>1, Capped
<1>9. shipping \in Nat /\ tax \in Nat
  <2>1. free \in BOOLEAN
    <3>1. Applicable # {} => AutomaticDiscount.freeShipping \in BOOLEAN
      BY <1>6 DEF Rules
    <3>2. Accepted(c) \in BOOLEAN
      BY DEF Accepted
    <3>. QED  BY <3>1, <3>2
  <2>2. AtLeastZero(Subtotal, discount) \in Nat
    BY <1>4, <1>8, Capped
  <2>. HIDE DEF free, discount
  <2>. QED  BY <1>1, <2>1, <2>2, ChargesAreWhole
<1>. HIDE DEF couponDiscount, autoDiscount, discount, free, shipping, tax
<1>10. /\ bill'.placed /\ bill'.subtotal = Subtotal /\ bill'.discount = discount
       /\ bill'.couponDiscount = couponDiscount /\ bill'.autoDiscount = autoDiscount
       /\ bill'.total = (Subtotal - discount) + shipping + tax
  BY <1>1
<1>11. /\ Subtotal' = Subtotal /\ Gross(back)' = Gross(back)
       /\ \A r : TouchableTotal(r)' = TouchableTotal(r)
  BY <1>1 DEF Subtotal, LineTotal, effectivePriceCents, isSaleActive, Gross, Worth, TouchableTotal
<1>12. Priced'
  BY <1>1 DEF Priced
<1>13. Charged'
  BY <1>4, <1>8, <1>9, <1>10, <1>11 DEF Charged
<1>14. DiscountStaysInScope'
  BY <1>1, <1>4, <1>5, <1>6, <1>8, <1>10, <1>11 DEF DiscountStaysInScope, autoDiscount
<1>15. ReturnsRefundWhatWasPaid'
  <2>1. Gross(back) = 0
    BY <1>2, <1>3, GrossOf
  <2>. QED  BY <1>1, <1>2, <1>4, <1>8, <1>10, <1>11, <2>1 DEF ReturnsRefundWhatWasPaid
<1>. QED  BY <1>12, <1>13, <1>14, <1>15 DEF PricingInv

LEMMA ReturningKeeps ==
  ASSUME PricingInv, NEW items \in [Lines -> UNION {0..basket[l].qty : l \in Lines}],
         ReturnUnits(items)
  PROVE  PricingInv'
<1>. DEFINE g == Gross(items)
            s == bill.subtotal
            d == bill.discount
            r == discountShare(g)
            x == AtLeastZero(g, r)
            left == Refundable
<1>1. /\ bill.placed /\ \A l \in Lines : back[l] + items[l] <= basket[l].qty
      /\ refunded' = refunded + AtMost(x, left)
      /\ back' = [l \in Lines |-> back[l] + items[l]] /\ returns' = returns + 1
      /\ UNCHANGED <<basket, terms, bill>>
  BY Zenon DEF ReturnUnits
<1>2. /\ Priced /\ s = Subtotal /\ d \in Nat /\ d <= s /\ bill.total \in Nat
      /\ s - d <= bill.total
  BY <1>1 DEF PricingInv, Charged
<1>3. basket \in Baskets /\ back \in [Lines -> Nat] /\ refunded \in Nat /\ returns \in Nat
  BY <1>2 DEF Priced
<1>4. items \in [Lines -> Nat]
  <2>1. \A l \in Lines : basket[l].qty \in Nat
    BY <1>3, LinesCost
  <2>2. UNION {0..basket[l].qty : l \in Lines} \subseteq Nat
    BY <2>1
  <2>. QED  BY <2>2
<1>5. back' \in [Lines -> Nat]
  BY <1>1, <1>3, <1>4
<1>6. /\ g \in Nat /\ s \in Nat /\ Gross(back) \in Nat /\ Gross(back') \in Nat
      /\ Gross(back') = Gross(back) + g /\ Gross(back') <= s
  <2>1. g \in Nat /\ Gross(back) \in Nat /\ s \in Nat
    BY <1>2, <1>3, <1>4, GrossOf, EligibleFits
  <2>2. \A l \in Lines : back'[l] <= basket[l].qty
    BY <1>1
  <2>3. Gross(back') \in Nat /\ Gross(back') <= s
    BY <1>2, <1>3, <1>5, <2>2, GrossOf
  <2>4. Gross([l \in Lines |-> back[l] + items[l]]) = Gross(back) + g
    BY <1>3, <1>4, GrossAddsUp
  <2>. QED  BY <1>1, <2>1, <2>3, <2>4
<1>7. Gross(back)' = Gross(back') /\ Subtotal' = Subtotal /\ \A c : TouchableTotal(c)' = TouchableTotal(c)
  BY <1>1 DEF Subtotal, LineTotal, effectivePriceCents, isSaleActive, Gross, Worth, TouchableTotal
<1>8. r \in Nat /\ (s > 0 => /\ 2 * (s * r) <= 2 * (d * g) + s
                             /\ 2 * (d * g) <= 2 * (s * r) + s)
  <2>1. CASE s = 0
    BY <2>1, <1>6 DEF discountShare
  <2>2. CASE s > 0
    <3>1. AtMost(d, s) = d
      BY <1>2, <1>6 DEF AtMost
    <3>. DEFINE n == d * g
    <3>2. n \in Nat
      BY <1>2, <1>6
    <3>3. r = Round(n, s)
      BY <2>2, <3>1 DEF discountShare
    <3>. HIDE DEF n, r, s
    <3>4. /\ Round(n, s) \in Nat /\ 2 * (s * Round(n, s)) <= 2 * n + s
          /\ 2 * n <= 2 * (s * Round(n, s)) + s
      BY <1>6, <2>2, <3>2, RoundsToNearest
    <3>. QED  BY <3>3, <3>4 DEF n
  <2>. QED  BY <1>6, <2>1, <2>2
<1>. HIDE DEF g, s, d, r
<1>9. /\ x \in Nat /\ x <= g
      /\ s > 0 => /\ 2 * (x * s) <= 2 * (g * (s - d)) + s
                  /\ 2 * (g * (s - d)) <= 2 * (x * s) + s
  BY <1>2, <1>6, <1>8, Capped, HalfACent
<1>10. left \in Nat /\ bill.total <= refunded + left
  BY <1>2, <1>3 DEF Refundable, AtLeastZero
<1>. HIDE DEF x, left
<1>11. /\ AtMost(x, left) \in Nat /\ AtMost(x, left) <= x
       /\ AtMost(x, left) = x \/ AtMost(x, left) = left
  BY <1>9, <1>10 DEF AtMost
<1>12. Priced'
  <2>1. refunded' \in Nat /\ returns' \in Nat
    BY <1>1, <1>3, <1>11
  <2>. QED  BY <1>1, <1>2, <1>5, <2>1 DEF Priced
<1>13. Charged' /\ DiscountStaysInScope'
  <2>1. Charged'
    BY <1>1, <1>7 DEF Charged, PricingInv
  <2>2. DiscountStaysInScope'
    BY <1>1, <1>7 DEF PricingInv, DiscountStaysInScope
  <2>. QED  BY <2>1, <2>2
<1>14. ReturnsRefundWhatWasPaid'
  <2>. DEFINE y == AtMost(x, left)
              e == Gross(back) * (s - d)
              f == refunded * s
  <2>. HIDE DEF y
  <2>0. /\ y \in Nat /\ s - d \in Nat
        /\ refunded' = refunded + y
    BY <1>1, <1>2, <1>6, <1>11 DEF y
  <2>1. /\ 2 * f <= 2 * e + returns * s /\ 2 * e <= 2 * f + returns * s
    BY DEF PricingInv, ReturnsRefundWhatWasPaid, s, d
  <2>2. /\ Gross(back') * (s - d) = e + g * (s - d)
        /\ refunded' * s = f + y * s
        /\ returns' * s = returns * s + s
        /\ e \in Nat /\ f \in Nat /\ g * (s - d) \in Nat /\ y * s \in Nat /\ returns * s \in Nat
    <3>1. \A a, b, c \in Nat : a * b \in Nat /\ (a + c) * b = a * b + c * b
      OBVIOUS
    <3>2. returns' * s = returns * s + s
      BY <1>1, <1>3, <1>6
    <3>3. Gross(back') * (s - d) = e + g * (s - d) /\ refunded' * s = f + y * s
      <4>1. (Gross(back) + g) * (s - d) = e + g * (s - d)
        BY <1>6, <2>0, <3>1, Zenon
      <4>2. (refunded + y) * s = f + y * s
        BY <1>3, <1>6, <2>0, <3>1, Zenon
      <4>. QED  BY <1>6, <2>0, <4>1, <4>2, Zenon
    <3>4. e \in Nat /\ f \in Nat /\ g * (s - d) \in Nat /\ y * s \in Nat /\ returns * s \in Nat
      BY <1>3, <1>6, <2>0, <3>1, Zenon
    <3>. QED  BY <3>2, <3>3, <3>4
  <2>. HIDE DEF e, f
  <2>3. 2 * (refunded' * s) <= 2 * (Gross(back') * (s - d)) + returns' * s
    <3>1. CASE s = 0
      <4>1. refunded' * s = 0 /\ Gross(back') * (s - d) \in Nat /\ returns' * s = 0
        BY <1>1, <1>3, <1>6, <2>0, <3>1
      <4>. QED  BY <4>1
    <3>2. CASE s > 0
      <4>1. y * s <= x * s /\ x * s \in Nat
        <5>1. \A a, b, c \in Nat : a <= b => a * c <= b * c /\ b * c \in Nat
          OBVIOUS
        <5>. QED  BY <1>6, <1>9, <1>11, <2>0, <5>1 DEF y
      <4>2. 2 * (y * s) <= 2 * (g * (s - d)) + s
        BY <1>9, <2>2, <3>2, <4>1, <1>6
      <4>. QED  BY <1>6, <2>1, <2>2, <4>2
    <3>. QED  BY <1>6, <3>1, <3>2
  <2>4. 2 * (Gross(back') * (s - d)) <= 2 * (refunded' * s) + returns' * s
    <3>1. CASE s = 0
      <4>1. s - d = 0
        BY <1>2, <2>0, <3>1
      <4>2. Gross(back') * (s - d) = 0 /\ refunded' * s = 0 /\ returns' * s = 0
        BY <1>1, <1>3, <1>6, <2>0, <3>1, <4>1
      <4>. QED  BY <4>2
    <3>2. CASE s > 0 /\ y = x
      BY <1>6, <1>9, <2>1, <2>2, <3>2
    <3>3. CASE y = left
      <4>1. s - d <= refunded'
        BY <1>2, <1>6, <1>10, <2>0, <3>3
      <4>2. Gross(back') * (s - d) <= s * (s - d) /\ (s - d) * s <= refunded' * s
        <5>1. \A a, b, c \in Nat : a <= b => a * c <= b * c
          OBVIOUS
        <5>2. refunded' \in Nat
          BY <1>3, <2>0
        <5>. QED  BY <1>6, <2>0, <4>1, <5>1, <5>2
      <4>3. s * (s - d) = (s - d) * s
        BY <1>6, <2>0
      <4>4. returns' * s \in Nat /\ Gross(back') * (s - d) \in Int /\ refunded' * s \in Int
            /\ s * (s - d) \in Int
        BY <1>6, <2>0, <2>2
      <4>. QED  BY <4>2, <4>3, <4>4
    <3>. QED  BY <1>6, <1>11, <3>1, <3>2, <3>3 DEF y
  <2>. QED  BY <1>1, <1>7, <2>3, <2>4 DEF ReturnsRefundWhatWasPaid, s, d
<1>. QED  BY <1>12, <1>13, <1>14 DEF PricingInv

LEMMA PricingKept == PricingInv /\ [PricingNext]_pricingVars => PricingInv'
<1>. SUFFICES ASSUME PricingInv, [PricingNext]_pricingVars PROVE PricingInv'
  OBVIOUS
<1>1. CASE UNCHANGED pricingVars
  BY <1>1 DEF pricingVars, PricingInv, Priced, Charged, DiscountStaysInScope,
     ReturnsRefundWhatWasPaid, TouchableTotal, Subtotal, LineTotal, effectivePriceCents,
     isSaleActive, Gross, Worth
<1>. QED  BY <1>1, PlacingKeeps, ReturningKeeps DEF PricingNext

-----------------------------------------------------------------------------
(* A coupon or an automatic discount is worth no more than the lines it may   *)
(* touch, and both together no more than the order, for any promotions,       *)
(* prices, scopes and sales.                                                *)
THEOREM DiscountsKeepToTheirScope == PricingSpec => []DiscountStaysInScope
<1>1. PricingInv => DiscountStaysInScope
  BY DEF PricingInv
<1>. QED  BY <1>1, PricingStarts, PricingKept, PTL DEF PricingSpec

(* The refunds of an order's returns miss the exact share of what was paid by *)
(* half a cent per return at most, however its units are spread over them.    *)
THEOREM RefundsFollowThePrice == PricingSpec => []ReturnsRefundWhatWasPaid
<1>1. PricingInv => ReturnsRefundWhatWasPaid
  BY DEF PricingInv
<1>. QED  BY <1>1, PricingStarts, PricingKept, PTL DEF PricingSpec
=============================================================================
