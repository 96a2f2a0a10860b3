------------------------------ MODULE Packets -------------------------------
(***************************************************************************)
(* The packets a node makes itself and how both ends read them: newPacket  *)
(* (outside.go), which finds the flow of a packet for the firewall, and    *)
(* the reject and echo replies of iputil/packet.go.                        *)
(*                                                                         *)
(* A node sends a packet of a local application.  Its own firewall or the  *)
(* peer's drops it and answers with a rejection (rejectInside,             *)
(* rejectOutside), or the peer's disabled tun answers an echo request.  A  *)
(* rejection is a packet like any other: it travels back, is parsed, and   *)
(* may be dropped and answered in turn.                                    *)
(*                                                                         *)
(* A packet is its length in bytes and the header fields the code reads;   *)
(* a field counts only where the length covers it.  exts are the extension *)
(* headers of an IPv6 packet, [kind, size, off], none for IPv4.            *)
(***************************************************************************)
EXTENDS Naturals, Sequences, FiniteSets, SequencesExt

CONSTANTS Sent,     \* the packets applications send
          MaxExt,   \* maxIPv6ExtHeaders
          MaxReject \* rejections of one exchange

VARIABLES orig,    \* the packet the exchange began with
          flight,  \* what is on its way
          to,      \* who gets it: "peer", "sender" or "app"
          answer,  \* how flight came about: "none", "reject" or "echo"
          rejects

packetVars == <<orig, flight, to, answer, rejects>>

TCP == 6
UDP == 17
ICMP == 1
ICMPv6 == 58

Failed == [ok |-> FALSE]

-----------------------------------------------------------------------------
\* IPv6FindUpperProtocol.  Where extension header k starts:
Start(p, k) == 40 + FoldLeft(LAMBDA s, e : s + e.size, 0, SubSeq(p.exts, 1, k - 1))

Needs(e) == IF e.kind = "fragment" THEN 8 ELSE 2
Stops(e) == e.kind = "fragment" /\ e.off # 0

\* The walk ends at the first header that is no extension, or at a fragment
\* that is not the first; it looks at MaxExt headers.
IPv6FindUpperProtocol(p) ==
    LET stops == {k \in DOMAIN p.exts : Stops(p.exts[k])}
        last == IF stops = {} THEN Len(p.exts) + 1
                ELSE CHOOSE k \in stops : \A j \in stops : k <= j
        walked == 1..(IF last > Len(p.exts) THEN Len(p.exts) ELSE last)
    IN IF \/ p.len < 40
          \/ last > MaxExt
          \/ \E k \in walked : p.len < Start(p, k) + Needs(p.exts[k])
          \/ stops = {} /\ Start(p, last) > p.len
       THEN Failed
       ELSE [ok |-> TRUE, proto |-> p.proto, offset |-> Start(p, last),
             isFragment |-> stops # {}]

-----------------------------------------------------------------------------
\* newPacket: what the firewall and its connection table see.
Oriented(p, incoming, proto, frag, here, there) ==
    [ok |-> TRUE, proto |-> proto, Fragment |-> frag,
     LocalAddr |-> IF incoming THEN p.dst ELSE p.src,
     RemoteAddr |-> IF incoming THEN p.src ELSE p.dst,
     LocalPort |-> here, RemotePort |-> there]

\* Mutant of Ports: the ports in the order of the packet.
PortsUnturned(p, incoming, proto, frag) ==
    Oriented(p, incoming, proto, frag, p.sport, p.dport)

Ports(p, incoming, proto, frag) ==
    IF incoming THEN Oriented(p, incoming, proto, frag, p.dport, p.sport)
    ELSE Oriented(p, incoming, proto, frag, p.sport, p.dport)

parseV4(p, incoming) ==
    LET frag == p.off # 0
        minLen == p.ihl + (IF frag THEN 0 ELSE IF p.proto = ICMP THEN 6 ELSE 4)
    IN IF p.len < 20 \/ p.ihl < 20 \/ p.len < minLen THEN Failed
       ELSE IF frag THEN Oriented(p, incoming, p.proto, TRUE, 0, 0)
       ELSE IF p.proto = ICMP THEN Oriented(p, incoming, p.proto, FALSE, 0, p.id)
       ELSE Ports(p, incoming, p.proto, FALSE)

IsEcho6(p) == p.icmp \in {128, 129}

parseV6(p, incoming) ==
    LET up == IPv6FindUpperProtocol(p)
        has(n) == p.len >= up.offset + n
    IN IF ~up.ok THEN Failed
       ELSE IF up.isFragment THEN Oriented(p, incoming, up.proto, TRUE, 0, 0)
       ELSE IF up.proto = ICMPv6
       THEN IF ~has(IF IsEcho6(p) THEN 6 ELSE 4) THEN Failed
            ELSE Oriented(p, incoming, up.proto, FALSE, 0, IF IsEcho6(p) THEN p.id ELSE 0)
       ELSE IF up.proto \in {TCP, UDP}
       THEN IF ~has(4) THEN Failed ELSE Ports(p, incoming, up.proto, FALSE)
       ELSE Oriented(p, incoming, up.proto, FALSE, 0, 0)

newPacket(p, incoming) ==
    IF p.len < 1 THEN Failed
    ELSE IF p.v = 4 THEN parseV4(p, incoming)
    ELSE IF p.v = 6 THEN parseV6(p, incoming)
    ELSE Failed

-----------------------------------------------------------------------------
None == [v |-> 0]

\* The headers of a reply, the addresses swapped; its transport fields start
\* at zero.
Reply(p, len, proto) ==
    [p EXCEPT !.len = len, !.ihl = 20, !.proto = proto, !.off = 0, !.mf = FALSE,
              !.exts = <<>>, !.src = p.dst, !.dst = p.src,
              !.sport = 0, !.dport = 0, !.icmp = 0, !.id = 0, !.flags = {}]

\* A reset acknowledges what has no ACK of its own.
Reset(p, len) ==
    [Reply(p, len, TCP) EXCEPT
        !.sport = p.dport, !.dport = p.sport,
        !.flags = IF "ACK" \in p.flags THEN {"RST"} ELSE {"RST", "ACK"}]

ipv4CreateRejectTCPPacket(p) == IF p.len < p.ihl + 20 THEN None ELSE Reset(p, 40)

\* ICMP errors are not answered by ICMP errors.
IsError4(p) == p.proto = ICMP /\ p.len > p.ihl /\ p.icmp \in {3, 4, 5, 11, 12}

Shorter(a, b) == IF a < b THEN a ELSE b

ipv4CreateRejectICMPPacket(p) ==
    IF p.len < p.ihl \/ IsError4(p) THEN None
    ELSE [Reply(p, 28 + Shorter(p.len, p.ihl + 8), ICMP) EXCEPT !.icmp = 3]

IsError6(p, up) == up.proto = ICMPv6 /\ p.len > up.offset /\ p.icmp \in 1..4

ipv6CreateRejectICMPPacket(p, up) ==
    IF IsError6(p, up) THEN None
    ELSE [Reply(p, 48 + Shorter(p.len, 1000), ICMPv6) EXCEPT !.icmp = 1]

ipv6CreateRejectTCPPacket(p, up) ==
    IF p.len < up.offset + 20 THEN None ELSE Reset(p, 60)

ipv6CreateRejectPacket(p) ==
    LET up == IPv6FindUpperProtocol(p)
    IN IF ~up.ok THEN None
       ELSE IF up.isFragment THEN None
       ELSE IF up.proto = TCP THEN ipv6CreateRejectTCPPacket(p, up)
       ELSE ipv6CreateRejectICMPPacket(p, up)

CreateRejectPacket(p) ==
    CASE p.len < 1 -> None
      [] p.v = 4 ->
           IF p.len < 20 \/ p.off # 0 THEN None
           ELSE IF p.proto = TCP THEN ipv4CreateRejectTCPPacket(p)
           ELSE ipv4CreateRejectICMPPacket(p)
      [] p.v = 6 -> ipv6CreateRejectPacket(p)
      [] OTHER -> None

\* The test for fragments reads the low byte of the offset, the more-fragments
\* bit and four of the five high bits.
createICMPv4EchoResponse(p) ==
    IF \/ p.len \notin 28..9001 \/ p.ihl # 20 \/ p.proto # ICMP \/ p.icmp # 8
       \/ p.off % 256 # 0 \/ p.mf \/ (p.off \div 256) % 16 # 0
    THEN None
    ELSE [p EXCEPT !.src = p.dst, !.dst = p.src, !.icmp = 0]

createICMPv6EchoResponse(p) ==
    IF p.len \notin 48..9001 \/ p.exts # <<>> \/ p.proto # ICMPv6 \/ p.icmp # 128
    THEN None
    ELSE [p EXCEPT !.src = p.dst, !.dst = p.src, !.icmp = 129]

CreateICMPEchoResponse(p) ==
    CASE p.len < 1 -> None
      [] p.v = 4 -> createICMPv4EchoResponse(p)
      [] p.v = 6 -> createICMPv6EchoResponse(p)
      [] OTHER -> None

-----------------------------------------------------------------------------
\* An application's packet that consumeInsidePacket could parse.
PacketInit ==
    /\ orig \in {p \in Sent : newPacket(p, FALSE).ok}
    /\ flight = orig
    /\ to = "peer"
    /\ answer = "none"
    /\ rejects = 0

Answers(r, how, who) ==
    /\ r # None
    /\ flight' = r
    /\ answer' = how
    /\ to' = who
    /\ UNCHANGED orig

\* The sender's own firewall drops the packet and tells the application.
rejectInside ==
    /\ answer = "none"
    /\ Answers(CreateRejectPacket(orig), "reject", "app")
    /\ rejects' = rejects + 1

\* The node that gets the packet parses it, drops it and answers.
rejectOutside ==
    /\ to # "app"
    /\ rejects < MaxReject
    /\ newPacket(flight, TRUE).ok
    /\ Answers(CreateRejectPacket(flight), "reject",
               IF to = "peer" THEN "sender" ELSE "peer")
    /\ rejects' = rejects + 1

\* The peer accepts it, and its disabled tun answers an echo request.
handleICMPEchoRequest ==
    /\ to = "peer" /\ answer = "none"
    /\ newPacket(flight, TRUE).ok
    /\ Answers(CreateICMPEchoResponse(flight), "echo", "sender")
    /\ UNCHANGED rejects

PacketNext == rejectInside \/ rejectOutside \/ handleICMPEchoRequest

PacketSpec == PacketInit /\ [][PacketNext]_packetVars

-----------------------------------------------------------------------------
\* A reset or an echo reply belongs to the flow it answers: parsed on the way
\* in, by the peer that gets it, it is the entry its sender's firewall made for
\* the packet on the way out, so it passes.
ReplyMatchesFlow ==
    /\ rejects + (IF answer = "echo" THEN 1 ELSE 0) = 1
    /\ flight.proto = TCP \/ answer = "echo"
    /\ orig.off = 0
    => newPacket(flight, TRUE) = newPacket(orig, FALSE)

\* Only resets are answered again: when two nodes drop each other's packets an
\* exchange of ICMP errors is over after the first, and a later fragment, whose
\* ports are not there to read, is answered by none.
ErrorsEnd ==
    /\ rejects > 1 => flight.proto = TCP
    /\ newPacket(orig, FALSE).Fragment => answer # "reject"
=============================================================================
