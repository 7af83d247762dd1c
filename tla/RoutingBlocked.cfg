SPECIFICATION RoutingFairSpec
CONSTANTS
  Gateways = {g1}
  Wildcard = any
  Acts = {a1}
  RaceSets = {{"disconnect"}}
  NoAct = NoAct
  NoGateway = NoGateway
PROPERTIES LoopReturns
CHECK_DEADLOCK FALSE
