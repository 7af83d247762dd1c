SPECIFICATION RegistrySpec
CONSTANTS
  Gateways = {g1}
  Keys = {k1, k2}
  Getters = {c1, c2}
  Stores = {"redis", "memory"}
  FaultSets = {{"crash"}, {"crash", "redis"}}
  MaxWrites = 1
  None = None
INVARIANTS PersistedAgrees RestartKeeps RestoredHasKey
PROPERTIES NewKeyTakesOver HandlerReturns
