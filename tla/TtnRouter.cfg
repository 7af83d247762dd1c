SPECIFICATION Spec
CONSTANTS
  Gateways = {g1}
  Acts = {a1, a2}
  Workers = {w1}
  Conns = {c1, c2, c3}
  Streams = {s1, s2, s3, s4}
  FaultSets = {{}, {"late"}, {"overlap", "late"}}
  None = None
SYMMETRY RouterSymmetry
INVARIANTS StreamsAccounted DownlinkServed
