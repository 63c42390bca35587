SPECIFICATION StorefrontSpec
CONSTANTS
  c1 = c1
  c2 = c2
  r1 = r1
  r2 = r2
  Carts = {c1, c2}
  CartCalls = {r1, r2}
  CartOps = {"add", "merge"}
  Sweeps = {}
  MaxShelf = 1
  MaxCuts = 0
  MaxAsk = 3
  d1 = d1
  e1 = e1
  k1 = k1
  w1 = w1
  Devices = {d1}
  Sessions = {e1}
  ResetTokens = {k1}
  MaxToken = 1
  Tabs = 1
  Requests = {r1, r2}
  Sweepers = {w1}
  Calls = {"login"}
  SlowClients = FALSE
  NoSession = NoSession
  f1 = f1
  f2 = f2
  f3 = f3
  Files = {f2}
  Photos = {f2}
  Unfit = {}
  Listings = {c1}
  MediaCalls = {r1, r2}
CONSTRAINT Focused
SYMMETRY StorefrontSymmetry
PROPERTIES MergeKeepsCart
