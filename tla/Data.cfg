INIT MCInit
NEXT MCNext
CONSTANTS
  Reader = {r1, r2}
  Length = 4
  Seed = 2
  MaxCounter = 9
  WordBits = 2
  Lengths = {1, 2, 4, 8}
  Nil = Nil
  Sender = {s1, s2}
  MessageIndex = 2
  RejectAfterMessages = 5
  RejectHeadroom = 5
  MaxInsideOver = 2
  W32 = 14
  W64 = 21
  Word = {0, 1, 128, 16383}
  Long = {0, 127, 16384, 2097151}
  Kind = {"Addr", "V4AddrPort", "V6AddrPort", "NebulaPing", "NebulaControl", "NebulaMeta", "Payload", "H"}
  CaFlags <- MCCaFlags
  SignFlags <- MCSignFlags
  MaxTime = 5
  Packets <- MCPackets
  LocalFrames <- MCLocalFrames
  Keys <- MCKeys
  USO = TRUE
  SeqSpace = 8
  IDMod = 4
  MaxSegs = 2
  BufSize = 6
  MaxIovs = 5
  DrainCap = 2
  RxBufCap = 12
  RxBufSize = 6
  AddrBits = 4
  vpnNetworks <- MCNetworks
  Boot <- MCBoot
  Configs <- MCConfigs
  SystemDst <- MCSystemDst
  SystemVia <- MCSystemVia
  MinMTU = 500
  MaxUnderlay = 1450
  MaxInt32 = 7
  Hashes = 8
  MaxReload = 2
  MaxUpdate = 2
  MaxFail = 1
  Sent <- MCSent
  MaxExt = 3
  MaxReject = 3
INVARIANTS BitmapExact NonceOnce MCReadAsSent  
   
PROPERTY ImplementsReceiver
CHECK_DEADLOCK FALSE
