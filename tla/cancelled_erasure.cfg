SPECIFICATION AccountSpec
CONSTANTS
  d1 = d1
  d2 = d2
  s1 = s1
  s2 = s2
  k1 = k1
  r1 = r1
  r2 = r2
  c1 = c1
  c2 = c2
  Devices = {d1}
  Sessions = {s1}
  ResetTokens = {}
  MaxToken = 2
  Tabs = 1
  Requests = {r1}
  Sweepers = {c1}
  Calls = {"login", "deletion"}
  SlowClients = FALSE
  NoSession = NoSession
PROPERTY ErasureOnlyWhenDue
