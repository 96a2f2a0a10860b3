------------------------------- MODULE MCData -------------------------------
(* Small instances of what is put on the wire and taken from it: nonces and *)
(* replay windows, messages, certificates, segmented packets, routes and    *)
(* rejections.  The parts share no state: a behaviour is one of one of      *)
(* them, the one part names, and the others stay out of it.                 *)
EXTENDS ReplayWindow, ClearRange, MessageCounter, Wire, Certificates, Offload,
        Routes, Packets

VARIABLE part

Part == {"replay", "counter", "wire", "certs", "offload", "routes", "packets"}

-----------------------------------------------------------------------------
(* cert, cmd/nebula-cert: CAs and hosts of both versions and curves, with   *)
(* networks inside and outside those of the CA.                             *)

CaBase ==
  [version |-> 2, curve |-> "25519", encrypt |-> FALSE,
   networks |-> <<Prefix(4, 2, 1)>>, unsafe |-> <<>>, groups |-> <<"a">>,
   duration |-> 4]
MCCaFlags ==
  {[CaBase EXCEPT !.networks = <<Prefix(6, 3, 2), Prefix(4, 3, 2)>>,
                  !.unsafe = <<Prefix(4, 0, 1)>>],
   [CaBase EXCEPT !.version = 1, !.curve = "P256", !.encrypt = TRUE,
                  !.groups = <<>>, !.duration = 3],
   CaBase}
SignBase ==
  [version |-> 2, networks |-> <<Prefix(6, 3, 2), Prefix(4, 3, 2)>>,
   groups |-> <<"a">>, unsafe |-> <<Prefix(6, 7, 1), Prefix(4, 1, 2)>>,
   duration |-> 2, passphrase |-> "right", inPub |-> FALSE]
MCSignFlags ==
  {SignBase,
   [SignBase EXCEPT !.networks = <<Prefix(4, 2, 1)>>,
                    !.unsafe = <<Prefix(4, 1, 2)>>],
   [SignBase EXCEPT !.version = 1, !.networks = <<Prefix(4, 3, 2)>>,
                    !.unsafe = <<Prefix(4, 1, 1)>>],
   [SignBase EXCEPT !.version = 0, !.networks = <<Prefix(4, 3, 2)>>,
                    !.unsafe = <<>>, !.groups = <<>>, !.duration = 0,
                    !.inPub = TRUE],
   [SignBase EXCEPT !.version = 0, !.unsafe = <<>>, !.passphrase = "wrong"],
   [SignBase EXCEPT !.groups = <<"a", "b">>]}

(* overlay/batch: segments of two TCP flows and of UDP, plain ones, ones    *)
(* that close a flow, and ones that must not be merged.                     *)

TCPSegment ==
  [proto |-> "tcp", v6 |-> FALSE, flow |-> "f", ip |-> 0, df |-> TRUE,
   id |-> 0, shape |-> "plain", frag |-> FALSE, off |-> 1, seq |-> 6,
   flags |-> {"ack"}, tcp |-> 0, pay |-> <<1, 2>>, csum |-> "valid"]
UDPDatagram == [TCPSegment EXCEPT !.proto = "udp", !.flags = {}, !.seq = 0]
MCPackets ==
  {TCPSegment, [TCPSegment EXCEPT !.seq = 0, !.pay = <<3, 4>>],
   [TCPSegment EXCEPT !.seq = 0, !.pay = <<3>>, !.flags = {"ack", "psh"}],
   [TCPSegment EXCEPT !.seq = 1, !.pay = <<5>>],
   [TCPSegment EXCEPT !.seq = 2, !.pay = <<>>, !.flags = {"ack", "fin"}],
   [TCPSegment EXCEPT !.seq = 2, !.pay = <<>>],
   [TCPSegment EXCEPT !.df = FALSE, !.id = 3],
   [TCPSegment EXCEPT !.df = FALSE, !.seq = 0, !.pay = <<3>>],
   [TCPSegment EXCEPT !.df = FALSE, !.seq = 0, !.id = 2, !.pay = <<7, 8>>],
   [TCPSegment EXCEPT !.frag = TRUE, !.pay = <<9>>],
   [TCPSegment EXCEPT !.flow = "g", !.v6 = TRUE, !.tcp = 1],
   UDPDatagram, [UDPDatagram EXCEPT !.pay = <<3>>],
   [UDPDatagram EXCEPT !.pay = <<>>], [UDPDatagram EXCEPT !.proto = "icmp"]}
MCLocalFrames ==
  {[vnet |-> [ValidVnetHdr EXCEPT !.needsCsum = TRUE],
    pkt |-> [TCPSegment EXCEPT !.csum = "partial"]],
   [vnet |-> [needsCsum |-> TRUE, gsoType |-> "tcpv6", gsoSize |-> 2,
              csumStart |-> 1, csumOff |-> "tcp"],
    pkt |-> TCPSegment],
   [vnet |-> [needsCsum |-> TRUE, gsoType |-> "tcpv4", gsoSize |-> 1,
              csumStart |-> 1, csumOff |-> "tcp"],
    pkt |-> [TCPSegment EXCEPT !.flags = {"ack", "cwr", "fin"},
                               !.csum = "partial"]]}
MCKeys == {<<1, 1>>, <<1, 2>>, <<2, 1>>}

(* overlay: a network of four addresses out of sixteen; configurations that *)
(* change the gateways, the metric and the MTU of a route, widen its prefix *)
(* or cannot be read; and system routes that overlap and go through nodes   *)
(* inside and outside the network.                                          *)

Net(a, n) == [addr |-> a, bits |-> n]
Via(gw, weight) == [gw |-> gw, weight |-> weight]
RouteTo(cidr, mtu) == [ok |-> TRUE, cidr |-> cidr, mtu |-> mtu]
UnsafeTo(cidr, mtu, metric, via, install) ==
  [ok |-> TRUE, cidr |-> cidr, mtu |-> mtu, metric |-> metric, via |-> via,
   install |-> install]
TunConfig(mtu, routes, unsafe) ==
  [mtu |-> mtu, routes |-> routes, unsafe |-> unsafe]
OneGateway == <<Via(1, 1)>>
TwoGateways == <<Via(1, 1), Via(2, 2)>>
MCNetworks == {Net(0, 2)}
Config1 ==
  TunConfig(1300, <<RouteTo(Net(2, 3), 800)>>,
            <<UnsafeTo(Net(8, 2), 0, 0, OneGateway, TRUE)>>)
Config2 ==
  TunConfig(1300, <<RouteTo(Net(2, 3), 900)>>,
            <<UnsafeTo(Net(9, 2), 0, 0, TwoGateways, TRUE),
              UnsafeTo(Net(8, 1), 1400, 1, OneGateway, TRUE)>>)
MCBoot == {Config1, Config2}
MCConfigs ==
  {Config1, Config2, [Config1 EXCEPT !.mtu = 1500],
   TunConfig(1400, <<>>, <<UnsafeTo(Net(8, 2), 0, 0, TwoGateways, TRUE),
                           UnsafeTo(Net(4, 2), 700, 0, OneGateway, FALSE)>>),
   TunConfig(1300, <<RouteTo(Net(2, 3), 100)>>, <<>>)}
MCSystemDst == {Net(12, 2), Net(12, 3)}
MCSystemVia == {<<Via(3, 1)>>, <<Via(1, 1), Via(3, 3), Via(9, 1)>>, <<Via(9, 1)>>}

(* outside.go, iputil: packets of both families around every length that is *)
(* tested, fragments, and chains of extension headers.                      *)

Ext(kind_, size, off) == [kind |-> kind_, size |-> size, off |-> off]
Options(size) == Ext("options", size, 0)
MCChains ==
  {<<>>, <<Options(8)>>, <<Ext("fragment", 8, 0)>>,
   <<Options(16), Ext("fragment", 8, 3)>>, <<Options(8), Ext("ah", 12, 0)>>,
   <<Options(8), Options(8), Options(8)>>, <<Options(2040)>>}
SentOf(v, ihls, lens, protos, offs, mfs, chains, types) ==
  [v : {v}, ihl : ihls, len : lens, proto : protos, off : offs, mf : mfs,
   exts : chains, src : {"a"}, dst : {"b"}, sport : {1}, dport : {2},
   icmp : types, id : {5}, flags : {{"SYN"}, {"ACK"}}]
MCSent ==
  SentOf(4, {16, 20, 24}, {19, 20, 23, 24, 26, 27, 28, 44, 60, 1200, 9002},
         {1, 6, 17, 47}, {0, 1, 4096}, BOOLEAN, {<<>>}, {0, 3, 8}) \cup
  SentOf(6, {20}, {39, 40, 44, 46, 48, 49, 56, 60, 68, 80, 1200, 9002},
         {58, 6, 17, 47}, {0}, {FALSE}, MCChains, {1, 128, 133})

-----------------------------------------------------------------------------
(* The parts that stay out of a behaviour.                                  *)

Off == 0
WireOff == kind = Off /\ msg = Off /\ wire = Off /\ wireStep = Off
CertsOff ==
  /\ now = Off /\ caKey = Off /\ caCrt = Off /\ hostKey = Off /\ hostCrt = Off
  /\ pool = Off /\ cached = Off
OffloadOff == staged = Off /\ tun = Off /\ sent = Off /\ got = Off
RoutesOff ==
  /\ conf = Off /\ Installed = Off /\ routeTree = Off /\ routesFromSystem = Off
  /\ DefaultMTU = Off /\ MaxMTU = Off /\ table = Off /\ step = Off
  /\ next = Off /\ upd = Off /\ failed = Off /\ raced = Off /\ reloads = Off
  /\ updates = Off
PacketsOff ==
  orig = Off /\ flight = Off /\ to = Off /\ answer = Off /\ rejects = Off

MCInit ==
  /\ part \in Part
  /\ Init /\ CounterInit
  /\ IF part = "wire" THEN WireInit ELSE WireOff
  /\ IF part = "certs" THEN CertInit ELSE CertsOff
  /\ IF part = "offload" THEN OffloadInit ELSE OffloadOff
  /\ IF part = "routes" THEN RoutesInit ELSE RoutesOff
  /\ IF part = "packets" THEN PacketInit ELSE PacketsOff

\* A step of part p.
Only(p) ==
  /\ part = p /\ UNCHANGED part
  /\ IF p = "replay" THEN TRUE ELSE UNCHANGED vars
  /\ IF p = "counter" THEN TRUE ELSE UNCHANGED counterVars
  /\ IF p = "wire" THEN TRUE ELSE UNCHANGED wireVars
  /\ IF p = "certs" THEN TRUE ELSE UNCHANGED certVars
  /\ IF p = "offload" THEN TRUE ELSE UNCHANGED offloadVars
  /\ IF p = "routes" THEN TRUE ELSE UNCHANGED routesVars
  /\ IF p = "packets" THEN TRUE ELSE UNCHANGED packetVars

MCNext ==
  \/ Only("replay") /\ Next
  \/ Only("counter") /\ CounterNext
  \/ Only("wire") /\ WireNext
  \/ Only("certs") /\ CertNext
  \/ Only("offload") /\ OffloadNext
  \/ Only("routes") /\ RoutesNext
  \/ Only("packets") /\ PacketNext

-----------------------------------------------------------------------------
(* The properties, of the part they are about.                             *)

\* clearRange's contract, relied on by updateSlow: from the position after the
\* cursor, for every count and every length of the bitmap, exactly the circular
\* range is cleared, nothing outside it or beyond the bitmap.  A bit already
\* cleared by an earlier word counts as unset, so the number returned by
\* clearRange, which LostExact depends on, is then right as well.
ClearsRange ==
  part = "replay" => \A length \in Lengths : \A count \in 1..length :
    Cleared(length, (current + 1) % length, count) =
      {n % length : n \in (current + 1)..(current + count)}

\* Through jumps, laps and late packets a bit of the window stands for its own
\* counter and each lost counter is counted once, and the word-wise clear they
\* rest on clears its range and nothing else: WindowExact and LostExact of
\* ReplayWindow.
BitmapExact == WindowExact /\ LostExact /\ ClearsRange

\* Messages are read as they were sent: Wire.
MCReadAsSent == part = "wire" => ReadAsSent

\* What the CA signs, a node accepts, and later gives the verdict on its kept
\* copy that a full check would give: Certificates.
MCCertificatesAgree == part = "certs" => SignedVerifies /\ CachedAgrees

\* Merging and segmenting packets changes none of them: Offload.
MCTransparent == part = "offload" => Transparent

\* The system has the routes of the configuration after every reload, and each
\* address is served by its most specific route, each flow by one gateway: Routes.
MCRoutesKept == part = "routes" => InstalledExact /\ RoutesServed /\ FlowsKept

\* An answer to a packet belongs to the packet's flow, and no rejection is
\* rejected in turn: Packets.
MCRejectsRight == part = "packets" => ReplyMatchesFlow /\ ErrorsEnd
=============================================================================
