SPECIFICATION FairSpec
CONSTANTS
  o1 = o1
  o2 = o2
  v1 = v1
  r1 = r1
  r2 = r2
  h1 = h1
  Orders = {o1, o2}
  Variants = {v1}
  Requests = {r1}
  Hooks = {h1}
  Amount <- OneFree
  Quantity <- OneEach
  InitialStock <- OneUnit
  CouponOrders = {o1, o2}
  UsageLimit = 1
  RefundAmounts = {1}
  Faults = {"decline"}
  Calls = {"createOrder", "getOrder"}
  Targets = {}
  MaxCancels = 1
PROPERTY OrphanRefunded
