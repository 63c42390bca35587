--------------------------- MODULE PricingService ---------------------------
(***************************************************************************)
(* What an order costs and what its returns give back, in whole cents:       *)
(* scheduled sales (sale-pricing.ts), coupons and automatic discounts        *)
(* (coupon.service.ts), shipping and tax (pricing.service.ts), the totals of  *)
(* createOrder and returnRefundCents (order.service.ts).                    *)
(***************************************************************************)
EXTENDS Naturals, Sequences, FiniteSets, FiniteSetsExt, SequencesExt

CONSTANTS
  Lines,      (* the lines of the order                                     *)
  Baskets,    (* what may be in them                                       *)
  Discounts,  (* the coupons, "none" among them                             *)
  RuleLists,  (* the active automatic discounts, by priority                *)
  Stores,     (* shippingZones and taxRules of the settings                 *)
  Addresses   (* where orders go                                           *)

(* What the DTOs, parseZones and readRate let in: whole amounts, none of them *)
(* negative, and at least one shipping zone.  Tax rates are basis points, as  *)
(* documented; their DTO would take fractions of one.                       *)
LineItems == [price : Nat, salePrice : Nat, scheduled : BOOLEAN, qty : Nat, inScope : BOOLEAN]

Promotions ==
  [type : {"none", "PERCENT", "FIXED", "FREE_SHIPPING"}, value : Nat, maxDiscount : Nat,
   minOrder : Nat, restricted : BOOLEAN, appliesToSaleItems : BOOLEAN]

Rules ==
  [minSubtotal : Nat, minQty : Nat, percentOff : Nat, amountOff : Nat,
   freeShipping : BOOLEAN, restricted : BOOLEAN, appliesToSaleItems : BOOLEAN]

Zones == [countries : SUBSET STRING, rate : Nat, freeOver : Nat]

ASSUME PricingAssumption ==
  /\ IsFiniteSet(Lines) /\ Baskets \subseteq [Lines -> LineItems]
  /\ Discounts \subseteq Promotions /\ RuleLists \subseteq Seq(Rules)
  /\ \A s \in Stores :
       /\ s.zones \in Seq(Zones) /\ s.zones # <<>>
       /\ \A c \in DOMAIN s.taxRules :
            LET rule == s.taxRules[c]
            IN rule.rate \in Nat /\ \A st \in DOMAIN rule.states : rule.states[st] \in Nat

VARIABLES
  basket,   (* basket[l]: prices, sale and quantity of line l               *)
  terms,    (* coupon, rules, settings and address at checkout              *)
  bill,     (* the order's totals once it is placed                        *)
  back,     (* back[l]: the units of line l that were returned              *)
  refunded, (* Payment.refundedAmount                                      *)
  returns   (* history: the returns approved                               *)

pricingVars == <<basket, terms, bill, back, refunded, returns>>

NoBill == [placed |-> FALSE, subtotal |-> 0, couponDiscount |-> 0, autoDiscount |-> 0,
           discount |-> 0, shipping |-> 0, tax |-> 0, total |-> 0]

-----------------------------------------------------------------------------
AtMost(n, limit) == IF n < limit THEN n ELSE limit
AtLeastZero(n, m) == IF n > m THEN n - m ELSE 0

(* Math.round of n / d.                                                     *)
Round(n, d) == (2 * n + d) \div (2 * d)

(* A sale never "up-sells".                                                 *)
isSaleActive(i) == i.scheduled /\ i.salePrice < i.price
effectivePriceCents(i) == IF isSaleActive(i) THEN i.salePrice ELSE i.price

LineTotal == [l \in Lines |-> effectivePriceCents(basket[l]) * basket[l].qty]
Subtotal == SumFunctionOnSet(LineTotal, Lines)
ItemCount == SumFunctionOnSet([l \in Lines |-> basket[l].qty], Lines)

(* Mutant: a restricted promotion falls back to the whole cart.              *)
eligibleSubtotal_mutant(promotion) == Subtotal

(* The slice of the cart a promotion may discount; a line is in the scope of *)
(* a restricted one, or not.                                                *)
eligibleSubtotal(promotion) ==
  SumFunctionOnSet(LineTotal,
    {l \in Lines : /\ isSaleActive(basket[l]) => promotion.appliesToSaleItems
                   /\ promotion.restricted => basket[l].inScope})

computeDiscount(c, cents) ==
  CASE c.type = "PERCENT" -> AtMost(AtMost((cents * c.value) \div 100, c.maxDiscount), cents)
    [] c.type = "FIXED" -> AtMost(c.value, cents)
    [] OTHER -> 0

(* validate: the code is refused below its minimum, or if nothing in the     *)
(* cart is eligible; the order then goes without it.                        *)
Accepted(c) ==
  /\ c.type # "none" /\ Subtotal >= c.minOrder
  /\ c.type = "FREE_SHIPPING" \/ eligibleSubtotal(c) > 0

RuleDiscount(r) ==
  LET eligible == eligibleSubtotal(r) IN
  AtMost(IF r.percentOff > 0 THEN (eligible * r.percentOff) \div 100 ELSE r.amountOff, eligible)

(* evaluateAutomaticDiscounts: a rule whose gates are met and that has an     *)
(* effect; the first of them counts.                                        *)
RuleApplies(r) ==
  /\ Subtotal >= r.minSubtotal /\ ItemCount >= r.minQty
  /\ eligibleSubtotal(r) > 0 \/ r.freeShipping
  /\ RuleDiscount(r) > 0 \/ r.freeShipping

Applicable == {i \in DOMAIN terms.rules : RuleApplies(terms.rules[i])}
AutomaticDiscount == terms.rules[Min(Applicable)]

-----------------------------------------------------------------------------
(* calculateShipping: the zone of the country, else the first that is for    *)
(* anywhere, else the first.                                                *)
ZoneOf(zones, country) ==
  LET named == {i \in DOMAIN zones : country \in zones[i].countries}
      anywhere == {i \in DOMAIN zones : zones[i].countries = {}}
  IN zones[IF named # {} THEN Min(named) ELSE IF anywhere # {} THEN Min(anywhere) ELSE 1]

calculateShipping(freeShipping) ==
  LET zone == ZoneOf(terms.store.zones, terms.address.country) IN
  IF freeShipping \/ Subtotal >= zone.freeOver THEN 0 ELSE zone.rate

(* calculateTax: in basis points; a state's rate wins over its country's.    *)
TaxRate ==
  LET rules == terms.store.taxRules
      a == terms.address
  IN IF a.country \notin DOMAIN rules THEN 0
     ELSE IF a.state \in DOMAIN rules[a.country].states THEN rules[a.country].states[a.state]
     ELSE rules[a.country].rate

calculateTax(taxable) == Round(taxable * TaxRate, 10000)

(* createOrder, from the lines to the totals.                               *)
PlaceOrder ==
  LET c == terms.coupon
      couponDiscount == IF Accepted(c) THEN computeDiscount(c, eligibleSubtotal(c)) ELSE 0
      autoDiscount == IF Applicable = {} THEN 0 ELSE RuleDiscount(AutomaticDiscount)
      discount == AtMost(couponDiscount + autoDiscount, Subtotal)
      free == \/ Accepted(c) /\ c.type = "FREE_SHIPPING"
              \/ Applicable # {} /\ AutomaticDiscount.freeShipping
      shipping == calculateShipping(free)
      tax == calculateTax(AtLeastZero(Subtotal, discount))
  IN
  /\ ~bill.placed
  /\ bill' = [placed |-> TRUE, subtotal |-> Subtotal,
              couponDiscount |-> couponDiscount, autoDiscount |-> autoDiscount,
              discount |-> discount, shipping |-> shipping, tax |-> tax,
              total |-> (Subtotal - discount) + shipping + tax]
  /\ UNCHANGED <<basket, terms, back, refunded, returns>>

(* Mutant: the share of the discount is rounded down.                       *)
discountShare_mutant(gross) ==
  IF bill.subtotal = 0 THEN 0 ELSE (AtMost(bill.discount, bill.subtotal) * gross) \div bill.subtotal

discountShare(gross) ==
  IF bill.subtotal = 0 THEN 0
  ELSE Round(AtMost(bill.discount, bill.subtotal) * gross, bill.subtotal)

Refundable == AtLeastZero(bill.total, refunded)

Worth(items) == [l \in Lines |-> effectivePriceCents(basket[l]) * items[l]]
Gross(items) == SumFunctionOnSet(Worth(items), Lines)

(* returnRefundCents, and the refund an approval makes of it.               *)
ReturnUnits(items) ==
  LET gross == Gross(items) IN
  /\ bill.placed /\ \E l \in Lines : items[l] > 0
  /\ \A l \in Lines : back[l] + items[l] <= basket[l].qty
  /\ refunded' = refunded + AtMost(AtLeastZero(gross, discountShare(gross)), Refundable)
  /\ back' = [l \in Lines |-> back[l] + items[l]]
  /\ returns' = returns + 1
  /\ UNCHANGED <<basket, terms, bill>>

-----------------------------------------------------------------------------
PricingInit ==
  /\ basket \in Baskets
  /\ \E c \in Discounts, rs \in RuleLists, s \in Stores, a \in Addresses :
       terms = [coupon |-> c, rules |-> rs, store |-> s, address |-> a]
  /\ bill = NoBill
  /\ back = [l \in Lines |-> 0]
  /\ refunded = 0 /\ returns = 0

PricingNext ==
  \/ PlaceOrder
  \/ \E items \in [Lines -> UNION {0..basket[l].qty : l \in Lines}] : ReturnUnits(items)

PricingSpec == PricingInit /\ [][PricingNext]_pricingVars

-----------------------------------------------------------------------------
(* "Silently discounting the whole cart" is what eligibleSubtotal guards      *)
(* against: a restricted coupon is worth no more than the lines of its scope, *)
(* an automatic discount no more than those of the rule it came from, lines   *)
(* on sale only where the promotion says so, and both together no more than  *)
(* the order.                                                               *)
TouchableTotal(promotion) ==
  LET reached(l) == /\ promotion.restricted => basket[l].inScope
                    /\ isSaleActive(basket[l]) => promotion.appliesToSaleItems
  IN SumFunctionOnSet(LineTotal, {l \in Lines : reached(l)})

DiscountStaysInScope ==
  /\ bill.discount <= bill.subtotal
  /\ bill.couponDiscount <= TouchableTotal(terms.coupon)
  /\ bill.autoDiscount > 0 =>
       \E r \in ToSet(terms.rules) : bill.autoDiscount <= TouchableTotal(r)

(* "What the customer paid for the returned units" (#10): however the units   *)
(* are spread over returns, the refunds together miss the exact share of     *)
(* what was paid by half a cent per return at most, either way.             *)
ReturnsRefundWhatWasPaid ==
  LET exact == Gross(back) * (bill.subtotal - bill.discount)
      given == refunded * bill.subtotal
  IN /\ 2 * given <= 2 * exact + returns * bill.subtotal
     /\ 2 * exact <= 2 * given + returns * bill.subtotal

=============================================================================
