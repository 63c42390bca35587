SPECIFICATION ReturnSpec
CONSTANTS
  o1 = o1
  o2 = o2
  v1 = v1
  r1 = r1
  r2 = r2
  h1 = h1
  x1 = x1
  x2 = x2
  Orders = {o1, o2}
  Variants = {v1}
  Requests = {r1, r2}
  Hooks = {h1}
  Amount <- Amounts
  Quantity <- Quantities
  InitialStock <- SoldOut
  CouponOrders = {}
  UsageLimit = 1
  RefundAmounts = {}
  Faults = {}
  Delivered = {o1}
  Returns = {x1, x2}
  ReturnItems <- OneOrTwoUnits
  UnitPrice <- TwoCentsEach
  Discount <- TwoOff
  Calls = {"requestReturn", "approveReturn", "rejectReturn"}
CHECK_DEADLOCK FALSE
INVARIANT DeliveredUnitsReturnOnce
