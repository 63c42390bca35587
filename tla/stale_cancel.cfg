SPECIFICATION Spec
CONSTANTS
  o1 = o1
  o2 = o2
  v1 = v1
  r1 = r1
  r2 = r2
  h1 = h1
  Orders = {o1}
  Variants = {v1}
  Requests = {r1}
  Hooks = {h1}
  Amount <- OneCent
  Quantity <- OneEach
  InitialStock <- OneUnit
  CouponOrders = {o1}
  UsageLimit = 1
  RefundAmounts = {1}
  Faults = {}
  Calls = {"createOrder", "cancelOrder"}
  Targets = {}
  MaxCancels = 1
CHECK_DEADLOCK FALSE
INVARIANT CancelledMoneyReturned
