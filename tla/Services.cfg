SPECIFICATION Spec
CONSTANTS
  DNSAddr = {"a1", "a2"}
  DNSHost = {"h"}
  MaxDNSReload = 2
  StatsConfig <- MCStatsConfig
  MaxStatsReload = 2
  SSHAddr = {"a1", "a2"}
  SSHKey = {"k"}
  MaxSSHReload = 2
  Reader = {"udp", "tun"}
  Caller = {"signal", "embedder"}
  MaxReloads = 1
  Interval = {0, 10}
  Lighthouse = {"l1", "l2"}
  V1Lighthouse = {"l1"}
  Relays = {"ra", "r6"}
  V6Relays = "r6"
  Addrs = {"a1"}
  MaxReload = 2
  MaxLost = 1
  Item = {a, b}
  tickDuration = 2
  wheelDuration = 3
  Timeout = {0, 2, 3, 5}
  MaxLag = 8
  Dst = {d1, d2}
  OtherFamily = {d2}
  Lens = {0, 1, 2}
  MaxBatch = 3
  MaxWriteBatch = 3
  MaxGSOSegments = 2
  MaxGSOBytes = 3
  MaxCalls = 1
PROPERTIES
  DNSSettles  SSHTornDown StopsClean 
  FiresInTime PurgedOnce BatchSent
CHECK_DEADLOCK FALSE
