SPECIFICATION ManagerSpec
CONSTANTS
  x = x
  y = y
  t1 = t1
  t2 = t2
  NoTunnel = NoTunnel
  Node = {x, y}
  Lower = x
  Tunnel = {t1, t2}
  Outdated = {t2}
  Spendable = {t1}
  RecvErrors = {x}
  DropInactive = FALSE
  MaxInFlight = 1
  MaxLosses = 0
INVARIANTS TunnelsChecked DeadIsDead
PROPERTY StaysClosed
CHECK_DEADLOCK FALSE
