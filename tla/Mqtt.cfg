SPECIFICATION MqttFairSpec
CONSTANTS
  Topics = {t1, t2}
  Insts = {i1, i2, i3}
  Handlers = {h1, h2}
  MqttFaultSets = {{}, {"again"}, {"inhand"}}
  NoInst = NoInst
INVARIANTS RestoredUnlessLostAgain HandlesOpen
PROPERTIES ComesBack
