SPECIFICATION Spec
CONSTANTS
  g1 = g1
  G1 = G1
  Gateways = {g1, G1}
  Lower <- MCLower
  u1 = u1
  u2 = u2
  u3 = u3
  Uplinks = {u1, u2, u3}
  Junk = {u3}
  Lists = {f1, f2}
  Limits <- MCLimits
  NWorkers = 2
  Jobs = {j1, j2}
  Limiters = {l1, l2, l3}
  MaxFetches = 1
  FaultSets = {{"write", "expire"}, {"slow", "stored", "expire"}, {"late", "backend", "write"}, {"parallel"}, {"timeout"}, {"counter"}, {"spelling"}}
  None = None
SYMMETRY MiddlewareSymmetry
INVARIANTS KnownWasHandled WithinLimit Forgotten
