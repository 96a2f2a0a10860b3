SPECIFICATION MCSpec
CONSTANTS
  x = x
  y = y
  t1 = t1
  NoTunnel = NoTunnel
  Node = {x, y}
  Lower = x
  Tunnel = {t1}
  Outdated = {}
  Spendable = {}
  RecvErrors = {}
  DropInactive = TRUE
  MaxInFlight = 1
  MaxLosses = 3
  End = {"a", "b"}
  Initiators = {"a"}
  MaxGen = 1
  MaxNet = 9
  Replaced = {}
  MaxLoss = 0
  Party = {"a", "b"}
  Boot <- MCBoot
  Configs <- MCConfigs
  V6Peer = {}
  fipsOnly = FALSE
  MaxReload = 1
  MaxOdd = 1
 
PROPERTIES HalfOpenEnds MCRelayCarries MCTunnelsRotate
CHECK_DEADLOCK FALSE
