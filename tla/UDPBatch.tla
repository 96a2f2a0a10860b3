------------------------------ MODULE UDPBatch ------------------------------
(***************************************************************************)
(* batchWriter (udp/udp_linux_writebatch.go): one WriteBatch call sends a  *)
(* batch of datagrams with sendmmsg, packing runs of datagrams for one     *)
(* destination into entries the kernel segments (UDP_SEGMENT).             *)
(*                                                                         *)
(* WriteBatch packs a chunk of entries, hands them to the kernel, and acts *)
(* on the kernel's answer: some entries sent, or the first one refused.    *)
(* The kernel is external and may refuse any entry; a refusal for EIO or   *)
(* EMSGSIZE, EINVAL makes WriteBatch replay the entry's datagrams one by   *)
(* one.  A datagram is its length and its destination; the socket cannot   *)
(* address the destinations in OtherFamily.                                *)
(***************************************************************************)
EXTENDS Naturals, Sequences, FiniteSets, SequencesExt

CONSTANTS Dst,             \* the destinations
          OtherFamily,     \* those of another address family
          Lens,            \* the lengths of datagrams
          MaxBatch,        \* the longest batch
          MaxWriteBatch,   \* entries and iovecs of one chunk
          MaxGSOSegments,  \* maxGSOSegments
          MaxGSOBytes,     \* maxGSOBytes
          MaxCalls         \* calls of WriteBatch

VARIABLES gsoSupported,  \* whether runs are packed at all
          bufs,          \* the batch of the running call, <<>> when none runs
          i,             \* the datagrams before this one are packed
          plainUntil,    \* the datagrams before this one are packed singly
          chunk,         \* the entries packed, [first, end]
          done,          \* the entries of the chunk that are settled
          written,       \* the count WriteBatch returns
          out,           \* the datagrams the kernel accepted, in order
          failed,        \* the datagrams whose entry was refused for good
          calls

batchVars == <<gsoSupported, bufs, i, plainUntil, chunk, done, written, out,
               failed, calls>>

Datagram == [len : Lens, dst : Dst]
pkts(e) == e.end - e.first

-----------------------------------------------------------------------------
\* A run that starts at datagram s, s counted from 0, may hold n datagrams.
IsRun(s, n, budget) ==
    LET seg == bufs[s + 1].len IN
    /\ n <= budget
    /\ n <= MaxGSOSegments
    /\ s + n <= Len(bufs)
    /\ \A k \in 1..(n - 1) :
         /\ bufs[s + 1 + k].len \in 1..seg
         /\ bufs[s + 1 + k].dst = bufs[s + 1].dst
         /\ bufs[s + 1 + k].len < seg => k = n - 1
    /\ FoldLeft(LAMBDA sum, b : sum + b.len, 0, SubSeq(bufs, s + 1, s + n))
         <= MaxGSOBytes

planRun(s, budget) ==
    LET seg == bufs[s + 1].len IN
    IF ~gsoSupported \/ s < plainUntil \/ seg = 0 \/ seg > MaxGSOBytes THEN 1
    ELSE CHOOSE n \in 1..Len(bufs) :
           /\ n = 1 \/ IsRun(s, n, budget)
           /\ ~IsRun(s, n + 1, budget)

\* The packing loop: the runs from datagram s on, until the chunk is full or
\* the batch is over.  A run to another address family is skipped.
PackFrom[s \in 0..MaxBatch, iovs \in 0..MaxWriteBatch] ==
    IF s >= Len(bufs) \/ iovs = 0 THEN [entries |-> <<>>, next |-> s]
    ELSE LET n == planRun(s, iovs)
         IN IF bufs[s + 1].dst \in OtherFamily THEN PackFrom[s + n, iovs]
            ELSE LET rest == PackFrom[s + n, iovs - n]
                 IN [entries |-> <<[first |-> s, end |-> s + n]>> \o rest.entries,
                     next |-> rest.next]

-----------------------------------------------------------------------------
BatchInit ==
    /\ gsoSupported \in BOOLEAN
    /\ bufs = <<>> /\ i = 0 /\ plainUntil = 0
    /\ chunk = <<>> /\ done = 0 /\ written = 0
    /\ out = <<>> /\ failed = {} /\ calls = 0

WriteBatch(b) ==
    /\ bufs = <<>>
    /\ calls < MaxCalls
    /\ calls' = calls + 1
    /\ bufs' = b
    /\ i' = 0 /\ plainUntil' = 0 /\ chunk' = <<>> /\ done' = 0 /\ written' = 0
    /\ out' = <<>> /\ failed' = {}
    /\ UNCHANGED gsoSupported

\* Packs the next chunk once the last one is settled.
Pack ==
    /\ i < Len(bufs)
    /\ done = Len(chunk)
    /\ \E p \in {PackFrom[i, MaxWriteBatch]} :
         chunk' = p.entries /\ i' = p.next
    /\ done' = 0
    /\ UNCHANGED <<gsoSupported, bufs, plainUntil, written, out, failed, calls>>

Packets(e) == [k \in 1..pkts(e) |-> e.first + k]

\* The kernel accepts the next n entries.
Sends(n) ==
    /\ done + n <= Len(chunk)
    /\ LET some == SubSeq(chunk, done + 1, done + n)
       IN /\ out' = out \o FlattenSeq([k \in DOMAIN some |-> Packets(some[k])])
          /\ written' = written
               + FoldLeft(LAMBDA sum, e : sum + pkts(e), 0, some)
    /\ done' = done + n
    /\ UNCHANGED <<gsoSupported, bufs, i, plainUntil, chunk, failed, calls>>

\* Settles what is left of the chunk: the packing goes back to the run of
\* the refused entry.
Rewind(e) == i' = e.first /\ chunk' = <<>> /\ done' = 0

\* EIO on a superpacket: the route carries none, so packing stops for good.
RefusedEIO ==
    /\ done < Len(chunk)
    /\ gsoSupported
    /\ pkts(chunk[done + 1]) >= 2
    /\ gsoSupported' = FALSE
    /\ Rewind(chunk[done + 1])
    /\ UNCHANGED <<bufs, plainUntil, written, out, failed, calls>>

\* Mutant of PlainUntil: the replay does not remember to pack singly.
PlainForgotten(e) == plainUntil

PlainUntil(e) == e.end

\* EMSGSIZE or EINVAL on a superpacket: its datagrams are replayed singly.
RefusedSize ==
    /\ done < Len(chunk)
    /\ pkts(chunk[done + 1]) >= 2
    /\ plainUntil' = PlainUntil(chunk[done + 1])
    /\ Rewind(chunk[done + 1])
    /\ UNCHANGED <<gsoSupported, bufs, written, out, failed, calls>>

\* Any other refusal is the entry's own.
RefusedEntry ==
    /\ done < Len(chunk)
    /\ failed' = failed \cup {k \in 1..Len(bufs) :
                                k > chunk[done + 1].first /\ k <= chunk[done + 1].end}
    /\ done' = done + 1
    /\ UNCHANGED <<gsoSupported, bufs, i, plainUntil, chunk, written, out, calls>>

\* The call is over; its datagrams are the caller's again.
Ends ==
    /\ bufs' = <<>> /\ i' = 0 /\ plainUntil' = 0 /\ chunk' = <<>> /\ done' = 0
    /\ written' = 0 /\ out' = <<>> /\ failed' = {}
    /\ UNCHANGED <<gsoSupported, calls>>

Return == bufs # <<>> /\ i >= Len(bufs) /\ done = Len(chunk) /\ Ends

\* The kernel sends nothing and gives no reason: an error ends the call.
NoProgress == done < Len(chunk) /\ Ends

Proceeds ==
    \/ Pack
    \/ \E n \in 1..MaxWriteBatch : Sends(n)
    \/ RefusedEIO
    \/ RefusedSize
    \/ RefusedEntry
    \/ Return
    \/ NoProgress

Batches == UNION {[1..n -> Datagram] : n \in 1..MaxBatch}

BatchNext == Proceeds \/ \E b \in Batches : WriteBatch(b)

\* The mutex is released and the kernel answers.
BatchSpec == BatchInit /\ [][BatchNext]_batchVars /\ WF_batchVars(Proceeds)

-----------------------------------------------------------------------------
\* Whatever the kernel refuses, and however often a run is replayed, no
\* datagram goes out twice or after a later one, none that went out is
\* counted as failed, written counts those that did, and when WriteBatch
\* returns every datagram its socket can address was sent or refused.
SentOnceInOrder ==
    /\ \A j, k \in DOMAIN out : j < k => out[j] < out[k]
    /\ ToSet(out) \cap failed = {}
    /\ written = Len(out)
    /\ i >= Len(bufs) /\ done = Len(chunk) =>
         \A k \in DOMAIN bufs :
            bufs[k].dst \in OtherFamily \/ k \in ToSet(out) \cup failed

\* Every call returns: a refused run is replayed at most once.
BatchEnds == []<>(bufs = <<>>)

\* WriteBatch returns, with every datagram sent once or refused.
BatchSent == []SentOnceInOrder /\ BatchEnds
=============================================================================
