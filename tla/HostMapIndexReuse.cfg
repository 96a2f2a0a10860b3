SPECIFICATION MCSpec
CONSTANTS
  h1 = h1
  h2 = h2
  h3 = h3
  h4 = h4
  a1 = a1
  a2 = a2
  r1 = r1
  r2 = r2
  Nil = Nil
  Host = {h1, h2, h3, h4}
  Addr = {a1, a2}
  Index = {i1, i2}
  RemoteIndex = {r1, r2}
  RelayIndex = {x1, x2}
  Scopes = {"hosts"}
  VpnAddrs <- MCVpnAddrs
  RemoteIndexId <- MCRemoteIndexId
  MaxHostInfosPerVpnIp = 2
  ReuseIndexes = TRUE
INVARIANT LinkedEverywhere
SYMMETRY IndexSymmetry
