---------------------------- MODULE MCBackOffice ----------------------------
(* Small instances of what admins curate and price: the category tree, the  *)
(* menus, the reviews, the coupons, a product's variants, and what an order *)
(* costs.  They share no row here, so that each behaviour works on one of   *)
(* them, the focus, and leaves the others as they began.                    *)
EXTENDS CategoryService, NavigationService, ReviewService, CouponService,
        CatalogService, PricingService, TLC

CONSTANTS n1, n2, n3, p, u1, u2, x1, x2

VARIABLE focus

backOfficeVars == <<treeVars, navVars, reviewVars, couponVars, catalogVars, pricingVars>>

(* One use in all, or one per customer.                                     *)
SmallLimits == {<<1, 9>>, <<9, 1>>}

(* The prices, the quantities and the scope of the lines of one order.      *)
SmallItems ==
  [price : {1, 4}, salePrice : {3}, scheduled : BOOLEAN, qty : 1..2, inScope : BOOLEAN]

SmallBaskets == [Lines -> SmallItems]

Coupon(type, value, maxDiscount, minOrder) ==
  [type : {type}, value : {value}, maxDiscount : {maxDiscount}, minOrder : {minOrder},
   restricted : BOOLEAN, appliesToSaleItems : BOOLEAN]

SmallDiscounts ==
  UNION {Coupon("none", 0, 0, 0), Coupon("PERCENT", 50, 99, 5), Coupon("PERCENT", 33, 2, 0),
         Coupon("FIXED", 3, 0, 0), Coupon("FREE_SHIPPING", 0, 0, 4)}

Rule(minSubtotal, minQty, percentOff, amountOff, freeShipping, restricted) ==
  [minSubtotal |-> minSubtotal, minQty |-> minQty, percentOff |-> percentOff,
   amountOff |-> amountOff, freeShipping |-> freeShipping, restricted |-> restricted,
   appliesToSaleItems |-> FALSE]

SmallRules ==
  {<<>>, <<Rule(5, 0, 30, 0, FALSE, FALSE)>>,
   <<Rule(0, 3, 0, 7, FALSE, TRUE), Rule(0, 0, 0, 0, TRUE, FALSE)>>}

Zone(countries, rate, freeOver) == [countries |-> countries, rate |-> rate, freeOver |-> freeOver]

SmallStores ==
  {[zones |-> <<Zone({"US"}, 2, 9), Zone({}, 5, 99)>>,
    taxRules |-> ("US" :> [rate |-> 700, states |-> ("CA" :> 2500)])]}

SmallAddresses == {[country |-> "US", state |-> "CA"], [country |-> "PK", state |-> "CA"]}

(* What is not the focus begins with one variant row each, in stock, and    *)
(* with an order that costs nothing yet.                                    *)
StockedCatalog == CatalogInit /\ stock = [v \in Variants |-> MaxStock]

OnePrice ==
  /\ basket = [l \in Lines |-> CHOOSE i \in SmallItems : TRUE]
  /\ terms = [coupon |-> CHOOSE c \in Discounts : TRUE, rules |-> <<>>,
              store |-> CHOOSE s \in Stores : TRUE, address |-> CHOOSE a \in Addresses : TRUE]
  /\ bill = NoBill /\ back = [l \in Lines |-> 0] /\ refunded = 0 /\ returns = 0

-----------------------------------------------------------------------------
BackOfficeInit ==
  /\ focus \in {"categories", "menus", "reviews", "coupons", "catalog", "pricing"}
  /\ TreeInit /\ NavInit /\ ReviewInit /\ CouponInit
  /\ IF focus = "catalog" THEN CatalogInit ELSE StockedCatalog
  /\ IF focus = "pricing" THEN PricingInit ELSE OnePrice

BackOfficeNext ==
  /\ UNCHANGED focus
  /\ \/ /\ focus = "categories" /\ TreeNext
        /\ UNCHANGED <<navVars, reviewVars, couponVars, catalogVars, pricingVars>>
     \/ /\ focus = "menus" /\ NavNext
        /\ UNCHANGED <<treeVars, reviewVars, couponVars, catalogVars, pricingVars>>
     \/ /\ focus = "reviews" /\ ReviewNext
        /\ UNCHANGED <<treeVars, navVars, couponVars, catalogVars, pricingVars>>
     \/ /\ focus = "coupons" /\ CouponNext
        /\ UNCHANGED <<treeVars, navVars, reviewVars, catalogVars, pricingVars>>
     \/ /\ focus = "catalog" /\ CatalogNext
        /\ UNCHANGED <<treeVars, navVars, reviewVars, couponVars, pricingVars>>
     \/ /\ focus = "pricing" /\ PricingNext
        /\ UNCHANGED <<treeVars, navVars, reviewVars, couponVars, catalogVars>>

BackOfficeSpec == BackOfficeInit /\ [][BackOfficeNext]_<<focus, backOfficeVars>>

(* Each component is followed up to the first of the crossings that its     *)
(* properties except: a tree write that crosses another, a menu write that  *)
(* overtakes another call, a coupon or a variant taken from under an order, *)
(* a stock that a product save wrote over.                                  *)
Uncrossed ==
  /\ ~crossed /\ \A m \in Managers : ~job[m].stale
  /\ severed = {} /\ ~overwritten /\ ~unlinked

(* Rows of different tables take the same ids, calls and orders the same    *)
(* names.                                                                   *)
BackOfficeSymmetry == Permutations({n1, n2, n3}) \cup Permutations({x1, x2}) \cup Permutations({u1, u2})
=============================================================================
