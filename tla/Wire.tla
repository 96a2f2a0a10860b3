---- MODULE Wire ----
\* What nodes write to the wire: the lighthouse and control messages encoded by
\* the generated code of nebula.pb.go, the handshake payload of
\* handshake/payload.go and the packet header of header/header.go.  A message is
\* a record of its fields, an optional sub-message a sequence of at most one,
\* and its encoding a sequence of bytes.
EXTENDS Integers, Sequences, SequencesExt, FiniteSetsExt

CONSTANTS W32, W64,    \* widths of uint32 and uint64; 32 and 64 in the code
          Word, Long,  \* the uint32 and uint64 values of the messages checked
          Kind         \* the kinds of message checked

VARIABLES kind, msg,   \* the message a node has
          wire,        \* what it put on the wire
          wireStep

wireVars == <<kind, msg, wire, wireStep>>

Bad == [ok |-> FALSE]

----

\* sovNebula: the bytes of a varint, from the bit length of x|1.
Len64(x) == Min({n \in 0 .. W64 : x < 2 ^ n})
sovNebula(x) == (Len64(IF x = 0 THEN 1 ELSE x) + 6) \div 7

\* encodeVarintNebula: seven bits to a byte, the least significant first.
RECURSIVE encodeVarintNebula(_)
encodeVarintNebula(v) ==
    IF v >= 128 THEN <<128 + (v % 128)>> \o encodeVarintNebula(v \div 128) ELSE <<v>>

\* The loop every varint is read with, starting at byte i: at most as many bytes
\* as a uint64 has groups of seven bits, none past the end, and what does not
\* fit the width of the target is shifted out.
VarintEnd(b, i) == Min({k \in i .. Len(b) : b[k] < 128} \cup {Len(b) + 1})

VarintUpTo(b, i, width, last) ==
    IF last > Len(b) \/ 7 * (last - i) >= W64 THEN Bad
    ELSE [ok |-> TRUE, next |-> last + 1,
          val |-> FoldRight(LAMBDA x, v : (x % 128) + 128 * v, SubSeq(b, i, last), 0)
                    % 2 ^ width]

ReadVarint(b, i, width) == VarintUpTo(b, i, width, VarintEnd(b, i))

\* A length and the index after what it measures; int is signed.
LengthFits(b, r) ==
    IF ~r.ok \/ r.val >= 2 ^ (W64 - 1) \/ r.next + r.val > Len(b) + 1 THEN Bad
    ELSE [ok |-> TRUE, next |-> r.next, post |-> r.next + r.val]

ReadLength(b, i) == LengthFits(b, ReadVarint(b, i, W64))

----

\* One field of MarshalToSizedBuffer: zero values, nil messages and empty lists
\* are left out.
PutUint(tag, v) == IF v = 0 THEN <<>> ELSE <<tag>> \o encodeVarintNebula(v)
PutBytes(tag, bytes) == <<tag>> \o encodeVarintNebula(Len(bytes)) \o bytes
PutEach(tag, encoded) == FlattenSeq([j \in 1 .. Len(encoded) |-> PutBytes(tag, encoded[j])])
PutPacked(tag, vs) ==
    IF vs = <<>> THEN <<>>
    ELSE PutBytes(tag, FlattenSeq([j \in 1 .. Len(vs) |-> encodeVarintNebula(vs[j])]))

\* The same fields in Size.
SizeUint(v) == IF v = 0 THEN 0 ELSE 1 + sovNebula(v)
SizeBytes(l) == 1 + l + sovNebula(l)
SizeEach(ls) == FoldLeft(LAMBDA n, l : n + SizeBytes(l), 0, ls)
SizePacked(vs) ==
    IF vs = <<>> THEN 0
    ELSE SizeBytes(FoldLeft(LAMBDA n, v : n + sovNebula(v), 0, vs))

AddrMarshal(m) == PutUint(8, m.Hi) \o PutUint(16, m.Lo)
AddrSize(m) == SizeUint(m.Hi) + SizeUint(m.Lo)

V4AddrPortMarshal(m) == PutUint(8, m.Addr) \o PutUint(16, m.Port)
V4AddrPortSize(m) == SizeUint(m.Addr) + SizeUint(m.Port)

V6AddrPortMarshal(m) == PutUint(8, m.Hi) \o PutUint(16, m.Lo) \o PutUint(24, m.Port)
V6AddrPortSize(m) == SizeUint(m.Hi) + SizeUint(m.Lo) + SizeUint(m.Port)

NebulaPingMarshal(m) == PutUint(8, m.Type) \o PutUint(16, m.Time)
NebulaPingSize(m) == SizeUint(m.Type) + SizeUint(m.Time)

\* An operator applied to every element of a list.
Each(Op(_), s) == [j \in 1 .. Len(s) |-> Op(s[j])]

NebulaControlMarshal(m) ==
    PutUint(8, m.Type) \o PutUint(16, m.InitiatorRelayIndex)
    \o PutUint(24, m.ResponderRelayIndex) \o PutUint(32, m.OldRelayToAddr)
    \o PutUint(40, m.OldRelayFromAddr) \o PutEach(50, Each(AddrMarshal, m.RelayToAddr))
    \o PutEach(58, Each(AddrMarshal, m.RelayFromAddr))

NebulaControlSize(m) ==
    SizeUint(m.Type) + SizeUint(m.InitiatorRelayIndex) + SizeUint(m.ResponderRelayIndex)
    + SizeUint(m.OldRelayToAddr) + SizeUint(m.OldRelayFromAddr)
    + SizeEach(Each(AddrSize, m.RelayToAddr)) + SizeEach(Each(AddrSize, m.RelayFromAddr))

NebulaMetaDetailsMarshal(m) ==
    PutUint(8, m.OldVpnAddr) \o PutEach(18, Each(V4AddrPortMarshal, m.V4AddrPorts))
    \o PutUint(24, m.Counter) \o PutEach(34, Each(V6AddrPortMarshal, m.V6AddrPorts))
    \o PutPacked(42, m.OldRelayVpnAddrs) \o PutEach(50, Each(AddrMarshal, m.VpnAddr))
    \o PutEach(58, Each(AddrMarshal, m.RelayVpnAddrs))

\* Mutant of NebulaMetaDetailsSize: the packed relays without their length.
DetailsSizeShort(m) ==
    SizeUint(m.OldVpnAddr) + SizeEach(Each(V4AddrPortSize, m.V4AddrPorts))
    + SizeUint(m.Counter) + SizeEach(Each(V6AddrPortSize, m.V6AddrPorts))
    + FoldLeft(LAMBDA n, v : n + 1 + sovNebula(v), 0, m.OldRelayVpnAddrs)
    + SizeEach(Each(AddrSize, m.VpnAddr)) + SizeEach(Each(AddrSize, m.RelayVpnAddrs))

NebulaMetaDetailsSize(m) ==
    SizeUint(m.OldVpnAddr) + SizeEach(Each(V4AddrPortSize, m.V4AddrPorts))
    + SizeUint(m.Counter) + SizeEach(Each(V6AddrPortSize, m.V6AddrPorts))
    + SizePacked(m.OldRelayVpnAddrs) + SizeEach(Each(AddrSize, m.VpnAddr))
    + SizeEach(Each(AddrSize, m.RelayVpnAddrs))

NebulaMetaMarshal(m) ==
    PutUint(8, m.Type) \o PutEach(18, Each(NebulaMetaDetailsMarshal, m.Details))
NebulaMetaSize(m) ==
    SizeUint(m.Type) + SizeEach(Each(NebulaMetaDetailsSize, m.Details))

\* MarshalPayload: the details in a field of their own, empty or not.
MarshalPayload(p) ==
    PutBytes(10, (IF p.Cert = <<>> THEN <<>> ELSE PutBytes(10, p.Cert))
                 \o PutUint(16, p.InitiatorIndex) \o PutUint(24, p.ResponderIndex)
                 \o PutUint(40, p.Time) \o PutUint(64, p.CertVersion))

----

\* skipNebula from byte i: a field of any wire type, groups to their end.
RECURSIVE SkipFrom(_, _, _)
SkipOn(b, next, depth) ==
    IF depth = 0 THEN [ok |-> TRUE, next |-> next] ELSE SkipFrom(b, next, depth)

SkipVarint(b, depth, v) == IF v.ok THEN SkipOn(b, v.next, depth) ELSE Bad

SkipLength(b, depth, v) ==
    IF v.ok /\ v.val < 2 ^ (W64 - 1) THEN SkipOn(b, v.next + v.val, depth) ELSE Bad

SkipValue(b, depth, typ, at) ==
    CASE typ = 0 -> SkipVarint(b, depth, ReadVarint(b, at, W64))
      [] typ = 1 -> SkipOn(b, at + 8, depth)
      [] typ = 2 -> SkipLength(b, depth, ReadVarint(b, at, W64))
      [] typ = 3 -> SkipOn(b, at, depth + 1)
      [] typ = 4 -> IF depth = 0 THEN Bad ELSE SkipOn(b, at, depth - 1)
      [] typ = 5 -> SkipOn(b, at + 4, depth)
      [] OTHER -> Bad

SkipTagged(b, depth, tag) ==
    IF tag.ok THEN SkipValue(b, depth, tag.val % 8, tag.next) ELSE Bad

SkipFrom(b, i, depth) ==
    IF i > Len(b) THEN Bad ELSE SkipTagged(b, depth, ReadVarint(b, i, W64))

InBuffer(b, r) == IF ~r.ok \/ r.next > Len(b) + 1 THEN Bad ELSE r

skipNebula(b, i) == InBuffer(b, SkipFrom(b, i, 0))

\* The fields each Unmarshal knows, by number: how the value is read (as), and
\* of a sub-message which (of).
Field(name, as, of) == [name |-> name, as |-> as, of |-> of]
Uint32(name) == Field(name, "uint32", "")
Uint64(name) == Field(name, "uint64", "")

AddrUnmarshal == <<Uint64("Hi"), Uint64("Lo")>>
V4AddrPortUnmarshal == <<Uint32("Addr"), Uint32("Port")>>
V6AddrPortUnmarshal == <<Uint64("Hi"), Uint64("Lo"), Uint32("Port")>>
NebulaPingUnmarshal == <<Uint32("Type"), Uint64("Time")>>

ControlIndexes ==
    <<Uint32("Type"), Uint32("InitiatorRelayIndex"), Uint32("ResponderRelayIndex")>>
ControlAddrs ==
    <<Uint32("OldRelayToAddr"), Uint32("OldRelayFromAddr"),
      Field("RelayToAddr", "message", "Addr"), Field("RelayFromAddr", "message", "Addr")>>
NebulaControlUnmarshal == ControlIndexes \o ControlAddrs

DetailsAddrPorts ==
    <<Uint32("OldVpnAddr"), Field("V4AddrPorts", "repeated", "V4AddrPort"),
      Uint32("Counter"), Field("V6AddrPorts", "repeated", "V6AddrPort")>>
DetailsRelays ==
    <<Field("OldRelayVpnAddrs", "packed", ""), Field("VpnAddr", "message", "Addr"),
      Field("RelayVpnAddrs", "repeated", "Addr")>>
NebulaMetaDetailsUnmarshal == DetailsAddrPorts \o DetailsRelays

NebulaMetaUnmarshal == <<Uint32("Type"), Field("Details", "message", "NebulaMetaDetails")>>

unmarshalPayloadDetails ==
    [n \in {1, 2, 3, 5, 8} |->
        CASE n = 1 -> Field("Cert", "bytes", "")
          [] n = 2 -> Field("InitiatorIndex", "strict", "")
          [] n = 3 -> Field("ResponderIndex", "strict", "")
          [] n = 5 -> Uint64("Time")
          [] n = 8 -> Field("CertVersion", "strict", "")]

Fields(k) == CASE k = "Addr" -> AddrUnmarshal
               [] k = "V4AddrPort" -> V4AddrPortUnmarshal
               [] k = "V6AddrPort" -> V6AddrPortUnmarshal
               [] k = "NebulaPing" -> NebulaPingUnmarshal
               [] k = "NebulaControl" -> NebulaControlUnmarshal
               [] k = "NebulaMetaDetails" -> NebulaMetaDetailsUnmarshal
               [] k = "NebulaMeta" -> NebulaMetaUnmarshal
               [] k = "Payload" -> unmarshalPayloadDetails

\* The zero value of a message.
New(k) == LET fs == Fields(k)
          IN [name \in {fs[n].name : n \in DOMAIN fs} |->
                IF \E n \in DOMAIN fs : fs[n].name = name
                                        /\ fs[n].as \in {"uint32", "uint64", "strict"}
                THEN 0 ELSE <<>>]

----

\* The packed elements from byte i to post.  The generated loop reads each one
\* against the end of the whole message, not of the packed field.
RECURSIVE ReadPacked(_, _, _, _)
PackedNext(b, post, vs, v) ==
    IF v.ok THEN ReadPacked(b, v.next, post, Append(vs, v.val)) ELSE Bad

ReadPacked(b, i, post, vs) ==
    IF i >= post THEN [ok |-> TRUE, next |-> i, val |-> vs]
    ELSE PackedNext(b, post, vs, ReadVarint(b, i, W32))

RECURSIVE Unmarshal(_, _, _, _)

\* What a case does with the value it read: sets the field, or adds to it.
Set(m, f, r) == IF r.ok THEN [r EXCEPT !.val = [m EXCEPT ![f.name] = r.val]] ELSE Bad
Add(m, f, r) ==
    IF r.ok THEN [r EXCEPT !.val = [m EXCEPT ![f.name] = Append(@, r.val)]] ELSE Bad

Strict(r) == IF r.ok THEN IF r.val < 2 ^ W32 THEN r ELSE Bad ELSE Bad

BytesOf(b, l) ==
    IF l.ok THEN [ok |-> TRUE, next |-> l.post, val |-> SubSeq(b, l.next, l.post - 1)]
    ELSE Bad

PackedOf(b, l, vs) == IF l.ok THEN ReadPacked(b, l.next, l.post, vs) ELSE Bad

\* A sub-message, decoded into old.
Decoded(l, sub) == IF sub.ok THEN [ok |-> TRUE, next |-> l.next, val |-> sub.val] ELSE Bad
MessageOf(k, l, old) == IF l.ok THEN Decoded(l, Unmarshal(k, l.val, 1, old)) ELSE Bad
One(r) == IF r.ok THEN [r EXCEPT !.val = <<@>>] ELSE Bad

\* The body of one case: a wire type other than the field's own is an error, a
\* sub-message that is already there is merged into.
ReadField(b, i, m, f, typ) ==
    CASE typ = 0 /\ f.as = "uint32" -> Set(m, f, ReadVarint(b, i, W32))
      [] typ = 0 /\ f.as = "uint64" -> Set(m, f, ReadVarint(b, i, W64))
      [] typ = 0 /\ f.as = "strict" -> Set(m, f, Strict(ReadVarint(b, i, W64)))
      [] typ = 2 /\ f.as = "bytes" -> Set(m, f, BytesOf(b, ReadLength(b, i)))
      [] typ = 0 /\ f.as = "packed" -> Add(m, f, ReadVarint(b, i, W32))
      [] typ = 2 /\ f.as = "packed" ->
           Set(m, f, PackedOf(b, ReadLength(b, i), m[f.name]))
      [] typ = 2 /\ f.as = "message" ->
           Set(m, f, One(MessageOf(f.of, BytesOf(b, ReadLength(b, i)),
                                   Head(m[f.name] \o <<New(f.of)>>))))
      [] typ = 2 /\ f.as = "repeated" ->
           Add(m, f, MessageOf(f.of, BytesOf(b, ReadLength(b, i)), New(f.of)))
      [] OTHER -> Bad

Skipped(r, m) == IF r.ok THEN [ok |-> TRUE, next |-> r.next, val |-> m] ELSE Bad

\* The default case: back to the tag and over the whole field.
SkipField(b, i, next, m) == Skipped(skipNebula(b, i), m)

\* fieldNum is an int32: what does not fit is cut off, and the sign counts.
FieldNum(tag) == LET n == (tag \div 8) % 2 ^ W32
                 IN IF n >= 2 ^ (W32 - 1) THEN n - 2 ^ W32 ELSE n

\* The loop of every Unmarshal, from byte i into message m.
ReadTagged(k, b, i, m, tag, num) ==
    IF tag.val % 8 = 4 \/ num <= 0 THEN Bad
    ELSE IF num \in DOMAIN Fields(k)
    THEN ReadField(b, tag.next, m, Fields(k)[num], tag.val % 8)
    ELSE SkipField(b, i, tag.next, m)

AfterTag(k, b, i, m, tag) ==
    IF tag.ok THEN ReadTagged(k, b, i, m, tag, FieldNum(tag.val)) ELSE Bad

UnmarshalOn(k, b, r) == IF r.ok THEN Unmarshal(k, b, r.next, r.val) ELSE Bad

Unmarshal(k, b, i, m) ==
    IF i > Len(b) THEN [ok |-> TRUE, val |-> m]
    ELSE UnmarshalOn(k, b, AfterTag(k, b, i, m, ReadVarint(b, i, W64)))

\* UnmarshalPayload: the details of field 1, anything else skipped.
RECURSIVE UnmarshalPayload(_, _, _)
PayloadField(b, i, p, tag) ==
    IF ~tag.ok THEN Bad
    ELSE IF tag.val \div 8 < 1 \/ tag.val % 8 = 4 THEN Bad
    ELSE IF tag.val = 10
    THEN MessageOf("Payload", BytesOf(b, ReadLength(b, tag.next)), p)
    ELSE SkipField(b, i, tag.next, p)

PayloadOn(b, r) == IF r.ok THEN UnmarshalPayload(b, r.next, r.val) ELSE Bad

UnmarshalPayload(b, i, p) ==
    IF i > Len(b) THEN [ok |-> TRUE, val |-> p]
    ELSE PayloadOn(b, PayloadField(b, i, p, ReadVarint(b, i, W64)))

----

\* binary.BigEndian of n bytes.
BigEndian(v, n) == [k \in 1 .. n |-> IF n - k > 3 THEN 0 ELSE (v \div 256 ^ (n - k)) % 256]
FromBigEndian(bytes) == FoldLeft(LAMBDA v, b : 256 * v + b, 0, bytes)

\* header.Encode and H.Parse: 16 bytes, the reserved ones zero.
Encode(h) ==
    <<16 * h.Version + (h.Type % 16), h.Subtype>> \o BigEndian(0, 2)
    \o BigEndian(h.RemoteIndex, 4) \o BigEndian(h.MessageCounter, 8)

Parse(b) ==
    IF Len(b) < 16 THEN Bad
    ELSE [ok |-> TRUE,
          val |-> [Version |-> b[1] \div 16, Type |-> b[1] % 16, Subtype |-> b[2],
                   RemoteIndex |-> FromBigEndian(SubSeq(b, 5, 8)),
                   MessageCounter |-> FromBigEndian(SubSeq(b, 9, 16))]]

\* IsValidSubType, with the message types of header.go by number.
IsValidSubType(t, s) ==
    CASE t = 1 -> s \in {0, 1}
      [] t = 4 -> s \in {0, 1}
      [] t \in {0, 2, 3, 5, 6} -> s = 0
      [] OTHER -> FALSE

----

MarshalKind(k, m) == CASE k = "Addr" -> AddrMarshal(m)
                   [] k = "V4AddrPort" -> V4AddrPortMarshal(m)
                   [] k = "V6AddrPort" -> V6AddrPortMarshal(m)
                   [] k = "NebulaPing" -> NebulaPingMarshal(m)
                   [] k = "NebulaControl" -> NebulaControlMarshal(m)
                   [] k = "NebulaMeta" -> NebulaMetaMarshal(m)
                   [] k = "Payload" -> MarshalPayload(m)
                   [] k = "H" -> Encode(m)

\* The buffer Marshal allocates; a payload is appended to and has none.
SizeKind(k, m) == CASE k = "Addr" -> AddrSize(m)
                [] k = "V4AddrPort" -> V4AddrPortSize(m)
                [] k = "V6AddrPort" -> V6AddrPortSize(m)
                [] k = "NebulaPing" -> NebulaPingSize(m)
                [] k = "NebulaControl" -> NebulaControlSize(m)
                [] k = "NebulaMeta" -> NebulaMetaSize(m)
                [] k = "Payload" -> Len(MarshalPayload(m))
                [] k = "H" -> 16

Received(k, b) == CASE k = "H" -> Parse(b)
                    [] k = "Payload" -> UnmarshalPayload(b, 1, New(k))
                    [] OTHER -> Unmarshal(k, b, 1, New(k))

\* The messages checked: every combination of a zero and a large value, and of
\* absent, single and, for the repeated fields, double sub-messages.
Few == {0, Max(Word)}
FewLong == {0, Max(Long)}
Opt(S) == {<<>>} \cup {<<x>> : x \in S}
AddrOf(S) == [Hi : {0}, Lo : S]
Relayed == Opt(AddrOf(FewLong))

MsgsOf(k) ==
    CASE k = "Addr" -> [Hi : Long, Lo : Long]
      [] k = "V4AddrPort" -> [Addr : Word, Port : Word]
      [] k = "V6AddrPort" -> [Hi : Long, Lo : FewLong, Port : Word]
      [] k = "NebulaPing" -> [Type : 0 .. 1, Time : Long]
      [] k = "NebulaControl" ->
           [Type : 0 .. 2, InitiatorRelayIndex : Few, ResponderRelayIndex : Few,
            OldRelayToAddr : Few, OldRelayFromAddr : Few,
            RelayToAddr : Relayed, RelayFromAddr : Relayed]
      [] k = "NebulaMeta" ->
           [Type : {1}, Details : Opt(
              [OldVpnAddr : Few, V4AddrPorts : SeqOf([Addr : {1}, Port : {Max(Word)}], 2),
               Counter : {0, 3}, V6AddrPorts : Opt([Hi : {Max(Long)}, Lo : {0}, Port : {1}]),
               OldRelayVpnAddrs : SeqOf(Few, 2), VpnAddr : Relayed,
               RelayVpnAddrs : Opt(AddrOf({1}))])]
      [] k = "Payload" ->
           [Cert : {<<>>, <<7, 200>>}, InitiatorIndex : Word, ResponderIndex : Few,
            Time : FewLong, CertVersion : 0 .. 2]
      [] k = "H" ->
           {h \in [Version : {1}, Type : 0 .. 6, Subtype : 0 .. 1, RemoteIndex : Word,
                   MessageCounter : Long] : IsValidSubType(h.Type, h.Subtype)}

WireInit ==
    /\ kind \in Kind
    /\ msg \in MsgsOf(kind)
    /\ wire = <<>>
    /\ wireStep = "built"

Send ==
    /\ wireStep = "built"
    /\ wire' = MarshalKind(kind, msg)
    /\ wireStep' = "sent"
    /\ UNCHANGED <<kind, msg>>

\* A node of a later version adds a field this one does not know, of each wire
\* type, before the message, after it or after its first field; a packet has
\* its payload after the header.
UnknownField == {<<120, 200, 1>>, <<121, 0, 0, 0, 0, 0, 0, 0, 255>>, <<122, 2, 130, 1>>,
                 <<123, 8, 1, 124>>, <<125, 0, 0, 0, 200>>}

Extend ==
    /\ wireStep = "sent"
    /\ \E f \in UnknownField :
       \E i \in IF kind = "H" THEN {17}
                ELSE {1, Len(wire) + 1} \cup (IF wire = <<>> THEN {} ELSE {skipNebula(wire, 1).next}) :
          wire' = SubSeq(wire, 1, i - 1) \o f \o SubSeq(wire, i, Len(wire))
    /\ wireStep' = "extended"
    /\ UNCHANGED <<kind, msg>>

WireNext == Send \/ Extend

WireSpec == WireInit /\ [][WireNext]_wireVars

----

\* What a node sends is what its peer reads, for every message, and the buffer
\* Size asks for, which MarshalToSizedBuffer fills from the back, is filled
\* exactly.  A field the peer does not know, whatever its wire type and
\* wherever it stands, changes nothing of what it reads (the default case of
\* every Unmarshal, skipNebula).
ReadAsSent ==
    /\ wireStep = "sent" => Len(wire) = SizeKind(kind, msg)
    /\ wireStep # "built" => Received(kind, wire) = [ok |-> TRUE, val |-> msg]
====
