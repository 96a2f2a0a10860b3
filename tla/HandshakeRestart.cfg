SPECIFICATION Spec
CONSTANTS
  h1 = h1
  h2 = h2
  h3 = h3
  h4 = h4
  a1 = a1
  a2 = a2
  i1 = i1
  i2 = i2
  i3 = i3
  r1 = r1
  r2 = r2
  s1 = s1
  p1 = p1
  p2 = p2
  m1 = m1
  m2 = m2
  Nil = Nil
  Host = {h1, h2, h3, h4}
  Addr = {a1, a2}
  Called = {a1}
  Index = {i1, i2}
  Reader = {r1}
  Sender = {s1}
  Packet = {p1, p2}
  Stage0 = {}
  PeerOf <- NoStage0
  TimeOf <- NoTime
  Time = {1}
  Static = {}
  Gateway = {}
  Retries = 1
  MaxCachedPackets = 2
  TriggerBuffer = 0
  MaxHostInfosPerVpnIp = 1
  WrongHosts = TRUE
  MaxTimer = 1
SYMMETRY Symmetry
INVARIANT PacketsKept
