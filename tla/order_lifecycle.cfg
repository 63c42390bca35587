SPECIFICATION Spec
CONSTANTS
  o1 = o1
  o2 = o2
  v1 = v1
  r1 = r1
  r2 = r2
  h1 = h1
  Orders = {o1}
  Variants = {v1}
  Requests = {r1, r2}
  Hooks = {h1}
  Amount <- OneCent
  Quantity <- OneEach
  InitialStock <- OneUnit
  CouponOrders = {o1}
  UsageLimit = 1
  RefundAmounts = {1}
  Faults = {"decline", "refuse", "lost", "crash", "dashboard"}
  Calls = {"createOrder", "getOrder", "cancelOrder", "updateStatus", "setTracking", "refund"}
  Targets = {"CANCELLED", "PROCESSING", "SHIPPED", "DELIVERED", "COMPLETED"}
  MaxCancels = 1
SYMMETRY RequestSymmetry
INVARIANTS TypeOK FulfilledWasPaid EffectsOnce RefundWithinCapture
