SPECIFICATION BackgroundSpec
CONSTANTS
  o1 = o1
  o2 = o2
  o3 = o3
  v1 = v1
  v2 = v2
  c1 = c1
  s1 = s1
  s2 = s2
  d1 = d1
  e1 = e1
  r1 = r1
  w1 = w1
  Paid = {o1, o2, o3}
  Goods = {v1, v2}
  Need <- SmallNeed
  MaxUnits = 2
  MaxAborts = 1
  Carts = {c1}
  CartCalls = {r1}
  CartOps = {"add", "remove", "coupon"}
  Sweeps = {s1, s2}
  MaxShelf = 1
  MaxCuts = 1
  Devices = {d1}
  Sessions = {e1}
  ResetTokens = {}
  MaxToken = 1
  Tabs = 1
  Requests = {r1}
  Sweepers = {w1}
  Calls = {"login", "deletion", "setStatus"}
  SlowClients = FALSE
  NoSession = NoSession
CHECK_DEADLOCK FALSE
INVARIANT NudgesInOrder
PROPERTIES TakesAllOrNothing EveryOrderSettles RestockedUnlessCutOff FinalNudge DeletionSettles
