SPECIFICATION ServerSpec
CONSTANTS
  m1 = m1
  i1 = i1
  i2 = i2
  p1 = p1
  p2 = p2
  Macs = {m1}
  IPs = {i1, i2}
  Ports = {p1, p2}
  withPort = TRUE
  cacheTime = 2
  NoEntry = NoEntry
  Nobody = Nobody
  NoReply = NoReply
  None = None
  Bad = Bad
  MaxRXPK = 2
  Levels = {1, 2}
  MaxAntennas = 3
  Handlers = {r1, r2}
  Home <- MCHome
  TrafficSets <- MCTrafficSets
INVARIANTS RouteFollowsLease BestAntenna
PROPERTIES IsLease OwnPortsPass Acknowledged
