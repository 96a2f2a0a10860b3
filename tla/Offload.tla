------------------------------ MODULE Offload ------------------------------
(***************************************************************************)
(* The batching of plaintext packets between a tunnel and the tun device   *)
(* (overlay/batch, overlay/tio and overlay/tio/virtio).                    *)
(*                                                                         *)
(* A receive routine stages the packets it decrypts (Commit), each with    *)
(* its tunnel's epoch and its message counter.  Flush sorts the batch into *)
(* transmission order, deals it into a TCP lane, a UDP lane and a          *)
(* passthrough lane, and writes each lane to the tun.  The TCP and UDP     *)
(* lanes fold runs of packets of one flow into superpackets.  In the other *)
(* direction Read drains the tun and SegmentSuperpacket cuts superpackets  *)
(* back into packets.  The kernel, which is external, is a queue that      *)
(* hands the reader the frames it is given: a machine that routes between  *)
(* two tuns does that, and it makes the two directions each other's test.  *)
(*                                                                         *)
(* A packet is its header fields and its payload.  Lengths count units, a  *)
(* plain IP header being one unit long; the caps of the code are           *)
(* constants.  Addresses and ports are a flow, the IP fields that must     *)
(* agree along a chain are "ip" and the TCP ones (ack, window, options)    *)
(* are "tcp".  A checksum is valid or holds the pseudo-header sum only.    *)
(***************************************************************************)
EXTENDS Naturals, Sequences, FiniteSets, SequencesExt

CONSTANTS Packets,      \* the packets that may be committed
          LocalFrames,  \* the frames the kernel may send of its own accord
          Keys,         \* the sort keys <<epoch, counter>>
          USO,          \* whether the tun negotiated UDP segmentation
          SeqSpace,     \* TCP sequence numbers are modulo this
          IDMod,        \* IPv4 identifications are modulo this
          MaxSegs,      \* tcpCoalesceMaxSegs, udpCoalesceMaxSegs
          BufSize,      \* tcpCoalesceBufSize, udpCoalesceBufSize
          MaxIovs,      \* gsoMaxIovs
          DrainCap,     \* tunDrainCap
          RxBufCap,     \* tunRxBufCap
          RxBufSize     \* tunRxBufSize

VARIABLES staged,  \* MultiCoalescer.staged: [pkt, key] in order of arrival
          tun,     \* the frames in the kernel, [vnet, pkt]
          sent,    \* the packets flushed or sent by the kernel, in order
          got      \* the packets read back and segmented, in order

offloadVars == <<staged, tun, sent, got>>

IPLen == 1
UDPLen == 1
hdrLen(p) == IPLen + (IF p.proto = "tcp" THEN p.off ELSE UDPLen)
Size(p) == hdrLen(p) + Len(p.pay)

-----------------------------------------------------------------------------
(* What the two coalescers share.                                          *)

flowKey(p) == <<p.flow, p.v6>>

\* Only a plain header of a whole datagram can ride a chain: no IPv4
\* options or IPv6 extensions, no fragment, no length past the packet's end.
parseIPAt(p) == p.shape = "plain" /\ ~p.frag

ipHeadersMatch(a, b) ==
    a.ip = b.ip /\ a.v6 = b.v6 /\ a.df = b.df

ipv4CanCoalesceID(seed, next, seg) ==
    seed.df \/ next.id = (seed.id + seg) % IDMod

\* A lane: its slots in order of creation, the open slot of each flow and
\* the cached slot last (0 for none).
EmptyLane == [slots |-> <<>>, open |-> <<>>, last |-> 0]

openSlots(l, fk) == IF fk \in DOMAIN l.open THEN l.open[fk] ELSE 0

\* The cache is asked before the map.
OpenSlot(l, fk) ==
    IF l.last # 0 /\ flowKey(l.slots[l.last].raw) = fk
    THEN l.last ELSE openSlots(l, fk)

sealAllOpen(l) == [l EXCEPT !.open = <<>>, !.last = 0]

\* Mutant of sealFlow: the cached slot survives the removal from the map.
SealMapOnly(l, fk) ==
    [l EXCEPT !.open = [k \in DOMAIN l.open \ {fk} |-> l.open[k]]]

sealFlow(l, fk) ==
    IF DOMAIN l.open = {} THEN l
    ELSE [l EXCEPT !.open = [k \in DOMAIN l.open \ {fk} |-> l.open[k]],
                   !.last = IF l.last # 0 /\ flowKey(l.slots[l.last].raw) = fk
                            THEN 0 ELSE l.last]

NewSlot(p, verbatim) ==
    [verbatim |-> verbatim, raw |-> p, gsoSize |-> Len(p.pay), numSeg |-> 1,
     totalPay |-> Len(p.pay), nextSeq |-> (p.seq + Len(p.pay)) % SeqSpace,
     pays |-> <<p.pay>>]

addVerbatim(l, p) == [l EXCEPT !.slots = Append(@, NewSlot(p, TRUE))]

OpenLast(l, fk) ==
    LET n == Len(l.slots)
    IN [l EXCEPT !.open = [k \in DOMAIN l.open \cup {fk} |->
                              IF k = fk THEN n ELSE l.open[k]],
                 !.last = n]

-----------------------------------------------------------------------------
(* The TCP lane.                                                           *)

tcpSeed(l, p) ==
    IF Size(p) > BufSize THEN addVerbatim(sealFlow(l, flowKey(p)), p)
    ELSE LET m == [l EXCEPT !.slots = Append(@, NewSlot(p, FALSE))]
         IN IF "psh" \in p.flags THEN sealFlow(m, flowKey(p))
            ELSE OpenLast(m, flowKey(p))

headersMatch(a, b) ==
    ipHeadersMatch(a, b) /\ a.flow = b.flow /\ a.tcp = b.tcp

tcpCanAppend(s, p) ==
    /\ hdrLen(p) = hdrLen(s.raw)
    /\ p.seq = s.nextSeq
    /\ s.numSeg < MaxSegs
    /\ Len(p.pay) <= s.gsoSize
    /\ hdrLen(p) + s.totalPay + Len(p.pay) <= BufSize
    /\ ("ece" \in s.raw.flags) <=> ("ece" \in p.flags)
    /\ p.v6 \/ ipv4CanCoalesceID(s.raw, p, s.numSeg)
    /\ headersMatch(s.raw, p)

\* A PSH is propagated to the seed's header.
tcpAppendPayload(s, p) ==
    [s EXCEPT !.pays = Append(@, p.pay), !.numSeg = @ + 1,
              !.totalPay = @ + Len(p.pay),
              !.nextSeq = (p.seq + Len(p.pay)) % SeqSpace,
              !.raw.flags = @ \cup (p.flags \cap {"psh"})]

tcpCloses(s, p) == Len(p.pay) < s.gsoSize \/ "psh" \in p.flags

tcpAdmits(p) == "ack" \in p.flags /\ p.flags \subseteq {"ack", "psh", "ece"}

tcpCommitParsed(l, p) ==
    LET fk == flowKey(p)
        at == OpenSlot(l, fk)
        joined == [l EXCEPT !.slots[at] = tcpAppendPayload(@, p)]
    IN IF ~tcpAdmits(p) THEN addVerbatim(sealFlow(l, fk), p)
       ELSE IF p.pay = <<>> THEN addVerbatim(l, p)
       ELSE IF at = 0 THEN tcpSeed(l, p)
       ELSE IF ~tcpCanAppend(l.slots[at], p) THEN tcpSeed(sealFlow(l, fk), p)
       ELSE IF tcpCloses(l.slots[at], p) THEN sealFlow(joined, fk)
       ELSE [joined EXCEPT !.last = at]

tcpCommitStaged(l, p) ==
    IF parseIPAt(p) THEN tcpCommitParsed(l, p)
    ELSE addVerbatim(sealAllOpen(l), p)

-----------------------------------------------------------------------------
(* The UDP lane.                                                           *)

udpSeed(l, p) ==
    IF Size(p) > BufSize THEN addVerbatim(sealFlow(l, flowKey(p)), p)
    ELSE OpenLast([l EXCEPT !.slots = Append(@, NewSlot(p, FALSE))], flowKey(p))

udpHeadersMatch(a, b) == ipHeadersMatch(a, b) /\ a.flow = b.flow

udpCanAppend(s, p) ==
    /\ hdrLen(p) = hdrLen(s.raw)
    /\ s.numSeg < MaxSegs
    /\ Len(p.pay) <= s.gsoSize
    /\ hdrLen(p) + s.totalPay + Len(p.pay) <= BufSize
    /\ p.v6 \/ ipv4CanCoalesceID(s.raw, p, s.numSeg)
    /\ udpHeadersMatch(s.raw, p)

udpAppendPayload(s, p) ==
    [s EXCEPT !.pays = Append(@, p.pay), !.numSeg = @ + 1,
              !.totalPay = @ + Len(p.pay)]

udpCommitParsed(l, p) ==
    LET fk == flowKey(p)
        at == OpenSlot(l, fk)
        joined == [l EXCEPT !.slots[at] = udpAppendPayload(@, p)]
    IN IF p.pay = <<>> THEN addVerbatim(sealFlow(l, fk), p)
       ELSE IF at = 0 THEN udpSeed(l, p)
       ELSE IF ~udpCanAppend(l.slots[at], p) THEN udpSeed(sealFlow(l, fk), p)
       ELSE IF Len(p.pay) < l.slots[at].gsoSize THEN sealFlow(joined, fk)
       ELSE [joined EXCEPT !.last = at]

udpCommitStaged(l, p) ==
    IF parseIPAt(p) THEN udpCommitParsed(l, p)
    ELSE addVerbatim(sealAllOpen(l), p)

-----------------------------------------------------------------------------
(* Writing to the tun.  A frame is its virtio_net_hdr and a packet.        *)

ValidVnetHdr == [needsCsum |-> FALSE, gsoType |-> "none", gsoSize |-> 0,
                 csumStart |-> 0, csumOff |-> 0]

\* An empty packet is written nowhere.
Write(p) == <<[vnet |-> ValidVnetHdr, pkt |-> p]>>

gsoTypeFromProto(p) ==
    IF p.proto = "udp" THEN "udp_l4" ELSE IF p.v6 THEN "tcpv6" ELSE "tcpv4"

csumOffset(proto) == IF proto = "udp" THEN "udp" ELSE "tcp"

\* The geometry WriteGSO insists on; a superpacket that breaks it is
\* dropped with an error.
GeometryOK(hdr, pays) ==
    /\ 3 + Len(pays) <= MaxIovs
    /\ \A i \in DOMAIN pays :
         /\ pays[i] # <<>>
         /\ Len(pays[i]) <= Len(pays[1])
         /\ Len(pays[i]) < Len(pays[1]) => i = Len(pays)
    /\ hdrLen(hdr) + Len(FlattenSeq(pays)) <= BufSize

WriteGSO(hdr, pays) ==
    IF ~GeometryOK(hdr, pays) THEN <<>>
    ELSE LET gsoType == IF Len(pays) > 1 THEN gsoTypeFromProto(hdr) ELSE "none"
         IN <<[vnet |-> [needsCsum |-> TRUE, gsoType |-> gsoType,
                         gsoSize |-> IF gsoType = "none" THEN 0
                                     ELSE Len(pays[1]),
                         csumStart |-> IPLen, csumOff |-> csumOffset(hdr.proto)],
               pkt |-> [hdr EXCEPT !.pay = FlattenSeq(pays)]]>>

\* The superpacket carries the seed's header, its lengths patched and its
\* checksum seeded with the pseudo-header sum.
flushSlot(s) == WriteGSO([s.raw EXCEPT !.csum = "partial"], s.pays)

FlushSlot(s) == IF s.verbatim \/ s.numSeg = 1 THEN Write(s.raw) ELSE flushSlot(s)

FlushLane(l) == FlattenSeq([i \in DOMAIN l.slots |-> FlushSlot(l.slots[i])])

-----------------------------------------------------------------------------
(* The batch.                                                              *)

\* A GSO lane exists when the tun negotiated its offload; TSO always is.
SupportsGSO(proto) == proto = "tcp" \/ (proto = "udp" /\ USO)

compareStaged(a, b) ==
    a.key[1] < b.key[1] \/ (a.key[1] = b.key[1] /\ a.key[2] < b.key[2])

Sorted(batch) ==
    LET s == SortSeq(batch, compareStaged) IN [i \in DOMAIN s |-> s[i].pkt]

\* The packets of one lane, in transmission order.
dispatch(pkts, lane) ==
    LET Lane(p) == IF SupportsGSO(p.proto) THEN p.proto ELSE "pt"
        Routed(p) == Lane(p) = lane
    IN SelectSeq(pkts, Routed)

PassthroughFlush(pkts) == FlattenSeq([i \in DOMAIN pkts |-> Write(pkts[i])])

\* The lanes are flushed one after the other: TCP, UDP, passthrough.
FlushFrames(pkts) ==
    FlushLane(FoldLeft(tcpCommitStaged, EmptyLane, dispatch(pkts, "tcp")))
    \o FlushLane(FoldLeft(udpCommitStaged, EmptyLane, dispatch(pkts, "udp")))
    \o PassthroughFlush(dispatch(pkts, "pt"))

-----------------------------------------------------------------------------
(* Reading from the tun.                                                   *)

\* The kernel cuts a frame that does not fit the reader's buffer.
Truncated(f, room) ==
    [f EXCEPT !.pkt.pay =
        IF Size(f.pkt) <= room THEN @
        ELSE SubSeq(@, 1, IF room <= hdrLen(f.pkt) THEN 0
                          ELSE room - hdrLen(f.pkt))]

CheckValid(f) ==
    /\ ~(f.vnet.gsoType # "none" /\ f.vnet.gsoSize = 0)
    /\ f.vnet.gsoType = "tcpv4" => ~f.pkt.v6
    /\ f.vnet.gsoType = "tcpv6" => f.pkt.v6

\* The header's own length is read from the packet, never from the kernel:
\* hdrLen(p).  The transport header must be there.
CorrectHdrLen(f) == f.pkt.shape = "plain"

FinishChecksum(p) == [p EXCEPT !.csum = "valid"]

Decodes(f) == f.vnet.gsoType = "none" \/ (CheckValid(f) /\ CorrectHdrLen(f))

segCount(payLen, gsoSize) ==
    LET n == (payLen + gsoSize - 1) \div gsoSize IN IF n = 0 THEN 1 ELSE n

SegPay(f, i) ==
    SubSeq(f.pkt.pay, i * f.vnet.gsoSize + 1,
           IF (i + 1) * f.vnet.gsoSize <= Len(f.pkt.pay)
           THEN (i + 1) * f.vnet.gsoSize ELSE Len(f.pkt.pay))

SegID(p, i) == IF p.v6 THEN p.id ELSE (p.id + i) % IDMod

\* CWR stays on the first segment only, FIN and PSH on the last only.
SegFlags(p, i, n) ==
    p.flags \ ((IF i # 0 THEN {"cwr"} ELSE {})
               \cup (IF i # n - 1 THEN {"fin", "psh"} ELSE {}))

SegmentTCP(f) ==
    LET n == segCount(Len(f.pkt.pay), f.vnet.gsoSize)
    IN [k \in 1..n |->
          [f.pkt EXCEPT !.pay = SegPay(f, k - 1),
                        !.seq = (@ + (k - 1) * f.vnet.gsoSize) % SeqSpace,
                        !.flags = SegFlags(f.pkt, k - 1, n),
                        !.id = SegID(f.pkt, k - 1), !.csum = "valid"]]

SegmentUDP(f) ==
    [k \in 1..segCount(Len(f.pkt.pay), f.vnet.gsoSize) |->
       [f.pkt EXCEPT !.pay = SegPay(f, k - 1), !.id = SegID(f.pkt, k - 1),
                     !.csum = "valid"]]

protoFromGSOType(t) == IF t \in {"tcpv4", "tcpv6"} THEN "tcp" ELSE "udp"

\* The packets of one frame that was read.
SegmentSuperpacket(f) ==
    IF f.vnet.gsoSize = 0
    THEN <<IF f.vnet.needsCsum THEN FinishChecksum(f.pkt) ELSE f.pkt>>
    ELSE IF protoFromGSOType(f.vnet.gsoType) = "tcp" THEN SegmentTCP(f)
    ELSE SegmentUDP(f)

\* One readv and its decodeRead.  The first read of a drain is repeated
\* until a frame decodes; a bad frame later on ends the drain.
decodeRead(st, frame) ==
    LET f == Truncated(frame, RxBufCap - st.rxOff)
    IN IF Decodes(f)
       THEN [st EXCEPT !.pending = Append(@, f), !.taken = @ + 1,
                       !.rxOff = @ + Size(f.pkt)]
       ELSE [st EXCEPT !.taken = @ + 1, !.stop = st.pending # <<>>]

DrainMore(st) ==
    /\ ~st.stop
    /\ \/ st.pending = <<>>
       \/ Len(st.pending) < DrainCap /\ RxBufCap - st.rxOff >= RxBufSize

Drain(frames) ==
    LET Step(st, f) == IF DrainMore(st) THEN decodeRead(st, f)
                       ELSE [st EXCEPT !.stop = TRUE]
    IN FoldLeft(Step, [pending |-> <<>>, rxOff |-> 0, taken |-> 0,
                       stop |-> FALSE], frames)

-----------------------------------------------------------------------------
OffloadInit ==
    /\ staged = <<>>
    /\ tun = <<>>
    /\ sent = <<>>
    /\ got = <<>>

Commit(p, key) ==
    /\ staged' = Append(staged, [pkt |-> p, key |-> key])
    /\ UNCHANGED <<tun, sent, got>>

Flush ==
    /\ staged # <<>>
    /\ \E pkts \in {Sorted(staged)} : tun' = tun \o FlushFrames(pkts)
    /\ sent' = sent \o [i \in DOMAIN staged |->
                           SortSeq(staged, compareStaged)[i].pkt]
    /\ staged' = <<>>
    /\ UNCHANGED got

\* The kernel sends a frame of its own; one whose header does not fit its
\* packet stands for no packet at all.
KernelSends(f) ==
    /\ tun' = Append(tun, f)
    /\ sent' = IF Decodes(f) THEN sent \o SegmentSuperpacket(f) ELSE sent
    /\ UNCHANGED <<staged, got>>

\* One Read, and listenIn's segmentation of what it returned.
Read ==
    /\ tun # <<>>
    /\ \E st \in {Drain(tun)} :
         /\ tun' = SubSeq(tun, st.taken + 1, Len(tun))
         /\ got' = got \o FlattenSeq([i \in DOMAIN st.pending |->
                                        SegmentSuperpacket(st.pending[i])])
    /\ UNCHANGED <<staged, sent>>

\* Every key is used once, in any order of arrival; a frame of the kernel's
\* comes at most once.
UnusedKey(key) ==
    /\ \A i \in DOMAIN staged : staged[i].key # key
    /\ sent = <<>>

OffloadNext ==
    \/ \E p \in Packets, key \in Keys : UnusedKey(key) /\ Commit(p, key)
    \/ Flush
    \/ \E f \in LocalFrames : Len(tun) = 0 /\ sent = <<>> /\ KernelSends(f)
    \/ Read

OffloadSpec == OffloadInit /\ [][OffloadNext]_offloadVars

-----------------------------------------------------------------------------
\* Two packets are the same but for the identification of a datagram that
\* may not be fragmented, which carries no meaning.
Same(p, q) == [p EXCEPT !.id = 0] = [q EXCEPT !.id = 0]
              /\ (p.df \/ p.v6 \/ p.id = q.id)

PureAck(p) == p.proto = "tcp" /\ parseIPAt(p) /\ p.pay = <<>> /\ tcpAdmits(p)

\* p was sent before q and must be delivered before it.
InOrder(p, q) ==
    /\ p.proto = q.proto
    /\ \/ ~parseIPAt(p) \/ ~parseIPAt(q)
       \/ flowKey(p) = flowKey(q) /\ ~PureAck(p)

\* The packets that come out, placed among those that went in so that the
\* pairs Keeps names stay in order.
Delivered(Keeps(_, _)) ==
    \E place \in [DOMAIN sent -> DOMAIN got] :
        \A i, j \in DOMAIN sent :
            /\ Same(got[place[i]], sent[i])
            /\ i < j => place[i] # place[j]
            /\ i < j /\ Keeps(sent[i], sent[j]) => place[i] < place[j]

\* Coalescing is transparent: once everything has been read back, the
\* packets that come out are those that went in, headers, flags, sequence
\* numbers, identifications and checksums included, and the packets of a
\* flow come out in the order their sender sent them, a pure ACK excepted;
\* a packet whose flow cannot be told keeps its place among all packets of
\* its lane.
Transparent ==
    tun = <<>> => Len(got) = Len(sent) /\ Delivered(InOrder)
=============================================================================
