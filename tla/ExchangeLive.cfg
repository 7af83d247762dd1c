SPECIFICATION FairSpec
CONSTANTS
  Gateways = {g1}
  Wildcard = any
  Keys = {k1}
  NoKey = NoKey
  North = {n1}
  South = {s1}
  Workers = {w1}
  Chans = {c1, c2, c3}
  Restore = {any}
  FaultSets = {{}}
  MaxDrift = 0
  NoMsg = NoMsg
  NoTask = NoTask
  NoId = NoId
  NoChan = NoChan
PROPERTIES ConnectedIsRead ClosedEnds
