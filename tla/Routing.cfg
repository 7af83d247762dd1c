SPECIFICATION RoutingFairSpec
CONSTANTS
  Gateways = {g1, g2}
  Wildcard = any
  Acts = {a1, a2}
  RaceSets = {{}, {"connect", "disconnect"}}
  NoAct = NoAct
  NoGateway = NoGateway
INVARIANTS SendsOnTarget
PROPERTIES LoopReturnsCalm
CHECK_DEADLOCK FALSE
