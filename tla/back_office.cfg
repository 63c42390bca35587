SPECIFICATION BackOfficeSpec
CONSTANTS
  n1 = n1
  n2 = n2
  n3 = n3
  p = p
  u1 = u1
  u2 = u2
  x1 = x1
  x2 = x2
  Categories = {n1, n2, n3}
  Goods = {p}
  Editors = {x1, x2}
  MaxDepth = 2
  MaxMoves = 2
  NoCategory = NoCategory
  Items = {n1, n2, n3}
  Locations = {"HEADER", "FOOTER"}
  Managers = {x1, x2}
  MaxMenu = 2
  Top = Top
  Keep = Keep
  Customers = {u1, u2}
  Stars = {1, 4}
  Reviewing = {x1, x2}
  Coupons = {x1, x2}
  Codes = {u1, u2}
  Checkouts = {x1, x2}
  Shoppers = {p}
  Clerks = {p}
  Limits <- SmallLimits
  Guest = Guest
  NoCode = NoCode
  NoCoupon = NoCoupon
  Variants = {u1, u2}
  Orders = {x1, x2}
  Admins = {x1, x2}
  MaxStock = 2
  Counts = {1}
  NoVariant = NoVariant
  Lines = {u1, u2}
  Baskets <- SmallBaskets
  Discounts <- SmallDiscounts
  RuleLists <- SmallRules
  Stores <- SmallStores
  Addresses <- SmallAddresses
CONSTRAINT Uncrossed
SYMMETRY BackOfficeSymmetry
INVARIANTS
  CyclesNeedCrossing ShownUnlessReassigned EveryEntryListed SeededOnce
  HelpfulCountsVoters UsedCountIsRedemptions PendingOrdersPinCoupon
  StockIsShelf ConfirmedTookStock
  DiscountStaysInScope ReturnsRefundWhatWasPaid
PROPERTIES GoodsStayFiled RatingCatchesUp LimitsHold
CHECK_DEADLOCK FALSE
