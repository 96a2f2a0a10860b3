---------------------------- MODULE PeerNetworks ----------------------------
(***************************************************************************)
(* Whose addresses a tunnel may speak for: HostInfo.buildNetworks turns    *)
(* the networks of the peer's certificate into a table of prefixes, and    *)
(* Firewall.Drop looks the remote address up in it, longest prefix first,  *)
(* before it looks at any rule.  An address is a string of AddrBits bits   *)
(* and a prefix is its first address and its length, so that an unsafe     *)
(* network may lie inside, around or beside our own networks.              *)
(***************************************************************************)
EXTENDS Integers, FiniteSets

CONSTANTS AddrBits,   \* width of an address
          MaxNets     \* bound: prefixes in each list

VARIABLES myVpnNetworks, peerAddrs, peerUnsafe, networks

peerVars == <<myVpnNetworks, peerAddrs, peerUnsafe, networks>>

ASSUME PeerAssumption == AddrBits \in Nat

Address == [1..AddrBits -> {0, 1}]
IpPrefix == {p \in [addr : Address, len : 0..AddrBits] :
               \A i \in (p.len + 1)..AddrBits : p.addr[i] = 0}
Covers(p, a) == \A i \in 1..p.len : a[i] = p.addr[i]
Within(p, q) == p.len >= q.len /\ Covers(q, p.addr)
Host32(a) == [addr |-> a, len |-> AddrBits]

InNetworks(nets, a) == \E p \in nets : Covers(p, a)

\* The certificate has one address, in our networks, and nothing unsafe:
\* no table is built.
SimpleCase(mine, addrs, unsafe) ==
  Cardinality(addrs) = 1 /\ unsafe = {} /\ \A a \in addrs : InNetworks(mine, a)

\* Mutant of Overlaps: only an unsafe network inside ours is an overlap.
OverlapsInside(mine, unsafe) ==
  {n \in unsafe : \E m \in mine : Within(n, m)}

\* The parts of the unsafe networks that are in our vpn networks.
Overlaps(mine, unsafe) ==
  LET inside == {n \in unsafe : \E m \in mine : Within(n, m)}
  IN  inside \cup {m \in mine : \E n \in unsafe \ inside : Within(m, n)}

\* buildNetworks; the peer's own addresses are inserted last and win.
buildNetworks(mine, addrs, unsafe) ==
  LET own == {Host32(a) : a \in addrs}
      overlaps == Overlaps(mine, unsafe)
  IN  [p \in own \cup overlaps \cup unsafe |->
         IF p \in own
         THEN IF InNetworks(mine, p.addr) THEN "VPN" ELSE "VPNPeer"
         ELSE IF p \in overlaps THEN "UnsafeVPNOverlap" ELSE "Unsafe"]

Longest(table, a) ==
  CHOOSE p \in DOMAIN table : Covers(p, a) /\
    \A q \in DOMAIN table : Covers(q, a) => q.len <= p.len

\* The first part of Drop.
RemoteAllowed(table, a, incoming) ==
  /\ InNetworks(DOMAIN table, a)
  /\ LET type == table[Longest(table, a)]
     IN  type \in {"VPN", "Unsafe"} \/ (type = "UnsafeVPNOverlap" /\ ~incoming)

\* Drop without a table compares with the only address.
AddrAllowed(mine, addrs, unsafe, a, incoming) ==
  IF SimpleCase(mine, addrs, unsafe) THEN a \in addrs
  ELSE RemoteAllowed(networks, a, incoming)

AtMost(S, n) == {T \in SUBSET S : Cardinality(T) <= n}

PeerInit ==
  /\ myVpnNetworks \in AtMost(IpPrefix, MaxNets) \ {{}}
  /\ peerAddrs \in AtMost(Address, MaxNets) \ {{}}
  /\ peerUnsafe = {} /\ networks = << >>

\* A handshake completes: the certificate's unsafe networks are known.
CompletePeer ==
  /\ networks = << >>
  /\ peerUnsafe' \in AtMost(IpPrefix, MaxNets)
  /\ networks' = buildNetworks(myVpnNetworks, peerAddrs, peerUnsafe')
  /\ UNCHANGED <<myVpnNetworks, peerAddrs>>

PeerNext == CompletePeer

-----------------------------------------------------------------------------
\* A packet from the tunnel is accepted from an address only if it is the
\* peer's own vpn address in a network of ours, or lies in the peer's unsafe
\* networks and in none of our vpn networks, where it would be another
\* node's; and every such address is accepted unless it is the peer's own
\* address in a network we do not have.
SpeaksForItself ==
  networks # << >> =>
    \A a \in Address :
      AddrAllowed(myVpnNetworks, peerAddrs, peerUnsafe, a, TRUE) <=>
        IF a \in peerAddrs THEN InNetworks(myVpnNetworks, a)
        ELSE InNetworks(peerUnsafe, a) /\ ~InNetworks(myVpnNetworks, a)
=============================================================================
