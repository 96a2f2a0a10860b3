SPECIFICATION FairRelaySpec
CONSTANTS
  End = {"a", "b"}
  Initiators = {"a"}
  Replaced = {}
  MaxGen = 1
  MaxNet = 9
  MaxLoss = 1
PROPERTY RelayCarries
CHECK_DEADLOCK FALSE
