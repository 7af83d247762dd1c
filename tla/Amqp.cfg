SPECIFICATION FairSpec
CONSTANTS
  Keys = {k1, k2}
  Calls = {s1, s2}
  BufferSize = 2
  FaultSets = {{"subscribe", "cut"}, {"subscribe", "early"}, {"subscribe", "early", "blind", "giveup"}, {"subscribe", "down"}, {"subscribe", "rush"}, {"publish"}, {"publish", "early", "blind", "giveup"}}
  None = None
INVARIANTS GoneIsGone OneConsumer
PROPERTIES UnsubscribeReturns ComesToConsume BufferDrains
CHECK_DEADLOCK FALSE
