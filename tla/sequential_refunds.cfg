SPECIFICATION Spec
CONSTANTS
  o1 = o1
  o2 = o2
  v1 = v1
  r1 = r1
  r2 = r2
  h1 = h1
  Orders = {o1, o2}
  Variants = {v1}
  Requests = {r1, r2}
  Hooks = {h1}
  Amount <- ThreeCents
  Quantity <- OneEach
  InitialStock <- OneUnit
  CouponOrders = {o1, o2}
  UsageLimit = 1
  RefundAmounts = {1, 2}
  Faults = {"refuse"}
  Calls = {"createOrder", "getOrder", "cancelOrder", "updateStatus", "setTracking", "refund"}
  Targets = {"CANCELLED", "PROCESSING"}
  MaxCancels = 1
CONSTRAINT OneCallPerOrder
SYMMETRY OrderSymmetry
INVARIANTS MirrorsStripe RefundStatusMatches RestockedMeansRefunded
