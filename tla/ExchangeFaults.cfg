SPECIFICATION Spec
CONSTANTS
  Gateways = {g1}
  Wildcard = any
  Keys = {}
  NoKey = NoKey
  North = {n1}
  South = {s1}
  Workers = {w1, w2}
  Chans = {c1, c2, c3}
  Restore = {g1}
  FaultSets = {{"auth", "middleware", "late", "parallel", "stop"},
               {"late", "parallel"}, {"late", "stop"}, {"auth", "middleware", "stop"}, {"backend", "stop"}}
  MaxDrift = 1
  NoMsg = NoMsg
  NoTask = NoTask
  NoId = NoId
  NoChan = NoChan
SYMMETRY ChanWorkerSymmetry
INVARIANTS CloseOnce Stoppable ConnectedIsServed DisconnectedIsSilent ActiveIsSubscribed GaugeExact
CHECK_DEADLOCK FALSE
