INIT Init
NEXT Next
CONSTANTS
  p1 = p1
  ra = ra
  rb = rb
  r1 = r1
  r2 = r2
  i1 = i1
  i2 = i2
  Flow = {p1}
  Routine = {r1, r2}
  CachedRoutine = {r1}
  RuleTable = {ra, rb}
  Allows <- MCAllows
  Versions = 2
  MaxTimers = 2
  RawRule <- MCRawRule
  RulePacket <- MCPacket
  PeerCert <- MCCert
  Prefix <- MCPrefix
  AssignedNets = {"mine"}
  UnsafeNets = {"lnet"}
  DefaultLocalAny = FALSE
  CAName <- MCCAName
  MaxPort = 3
  MaxRules = 2
  AddrBits = 2
  MaxNets = 2
  End = {"a", "b"}
  Initiators = {"a"}
  MaxGen = 2
  MaxNet = 1
  Replaced = {"a"}
  MaxLoss = 1
  Remote = {"learned", "denied", "resolved", "v6"}
  V4Remote = {"learned", "denied", "resolved"}
  DeniedRemote = {"denied"}
  RelayAddr = {}
  Reporter = {"host"}
  Heard = {"learned"}
  Reports <- MCReports
  Answers = {{"resolved"}}
  Literal = {"learned"}
  Hostname = {"name"}
  V4Only = TRUE
  MaxRemotes = 1
  MaxResolvers = 2
  Host = {"a", "l"}
  Addrs <- MCAddrs
  V4Addr = {"a4", "l4"}
  Network <- MCNetworkOf
  V1Host = {}
  Lighthouses = {"l"}
  StaticMaps = {{"a4"}}
  Dialled = {"a6"}
  MaxLists = 2
  GoodValue = {"v1", "v2"}
  Changing = {"lighthouse.local_allow_list", "relay.relays", "firewall", "listen.port"}
  Target = {"l1", "l2"}
  AllowedTarget = {"l1"}
  Item = {i1, i2}
  QueueSize = 1
  MaxAddrs = 2
  MaxJobs = 3
INVARIANTS
  VerdictsCurrent TrackedHasTimer MatchIsSomeRule SpeaksForItself
   RemotesKept TableRight JobsConserved
 
CHECK_DEADLOCK FALSE
