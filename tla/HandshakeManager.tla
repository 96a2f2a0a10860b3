-------------------------- MODULE HandshakeManager --------------------------
(***************************************************************************)
(* The handshake manager of a node (handshake_manager.go): the pending     *)
(* hostmap (vpnIps and indexes), the retry timer, the lighthouse trigger,  *)
(* the packets cached for a handshake, and the up/down marks of the ECMP   *)
(* gateways.                                                               *)
(*                                                                         *)
(* Who runs: one handshake goroutine (Run), the outside readers that       *)
(* handle handshake answers, first messages and recv_errors, and the       *)
(* inside readers that start handshakes and cache packets.  A step is one  *)
(* critical section of hm's lock (with or without the hostmap lock around  *)
(* it); hh.Lock, which spans several of them, is the field `lock'.         *)
(*                                                                         *)
(* A hostinfo and its HandshakeHostInfo are one object here, with one vpn  *)
(* address (HostMap has the objects with several).  The contents of the    *)
(* messages, hence the Noise machine's verdict on one, are a choice.       *)
(***************************************************************************)
EXTENDS Integers, Sequences, FiniteSets

CONSTANTS
  Host,              \* HandshakeHostInfo / HostInfo objects
  Addr,              \* vpn addresses
  Called,            \* the addresses that traffic of this node goes to
  Index,             \* values generateIndex can return
  Reader,            \* goroutines that process handshake answers
  Sender,            \* goroutines that call GetOrHandshake
  Packet,            \* packets the senders may cache
  Stage0,            \* first handshake messages that peers have sent us
  PeerOf,            \* the address in the certificate of such a message
  TimeOf,            \* the time in its payload
  Time,              \* the times an answer's payload can carry
  Static,            \* addresses with static or calculated remotes
  Gateway,           \* addresses that routes with several gateways use
  Retries,           \* handshakes.retries
  MaxCachedPackets,  \* DefaultMaxCachedPackets
  TriggerBuffer,     \* handshakes.trigger_buffer
  MaxHostInfosPerVpnIp,
  WrongHosts,        \* may a host other than the one called answer?
  MaxTimer,          \* bound: no new handshake while an address has more
                     \* timer entries than this
  Nil

ASSUME HandshakeAssumption ==
  /\ PeerOf \in [Stage0 -> Addr] /\ TimeOf \in [Stage0 -> Time]
  /\ Time \subseteq Nat /\ Static \subseteq Addr
  /\ Called \subseteq Addr /\ Gateway \subseteq Addr
  /\ Retries \in Nat \ {0} /\ MaxCachedPackets \in Nat
  /\ TriggerBuffer \in Nat /\ MaxHostInfosPerVpnIp \in Nat \ {0}
  /\ WrongHosts \in BOOLEAN /\ MaxTimer \in Nat \ {0}
  /\ "out" \notin Reader \cup {Nil}
  /\ Nil \notin Host \cup Addr \cup Index \cup Reader \cup Stage0

VARIABLES
  vpnIps,   \* pending: address -> hostinfo
  indexes,  \* pending: local index -> hostinfo
  hosts,    \* main hostmap: address -> its hostinfos, primary first
  hh,       \* the objects
  timer,    \* OutboundHandshakeTimer: entries per address
  trigger,  \* the trigger channel: a queue of addresses
  ecmp,     \* ecmpGateways.up
  owed,     \* packets cached and neither sent nor discarded with a handshake
  out,      \* the handshake goroutine, inside handleOutbound
  rd,       \* the readers, inside continueHandshake
  snd,      \* the senders, inside GetOrHandshake
  rerr      \* the hostinfo of a handleRecvError between its two deletions

pending == <<vpnIps, indexes>>
queues == <<timer, trigger>>
procs == <<out, rd, snd, rerr>>
vars == <<vpnIps, indexes, hosts, hh, timer, trigger, ecmp, owed,
          out, rd, snd, rerr>>

\* counter, ready, packetStore and lock belong to the HandshakeHostInfo, the
\* other fields to the HostInfo.
Blank == [addr |-> Nil, index |-> Nil, counter |-> 0, ready |-> FALSE,
          packetStore |-> {}, lock |-> Nil, initiator |-> TRUE,
          stage0 |-> Nil, time |-> 0]

Idle == [pc |-> "idle", host |-> Nil, addr |-> Nil, triggered |-> FALSE]
Waiting == [pc |-> "idle", host |-> Nil]
Quiet == [pc |-> "idle", addr |-> Nil, packet |-> Nil]

Objects ==
  [addr : Addr \cup {Nil}, index : Index \cup {Nil}, counter : 0..Retries,
   ready : BOOLEAN, packetStore : SUBSET Packet,
   lock : Reader \cup {Nil, "out"}, initiator : BOOLEAN,
   stage0 : Stage0 \cup {Nil}, time : Time \cup {0}]

Members(list) == {list[k] : k \in DOMAIN list}

InMain(h) == \E a \in Addr : h \in Members(hosts[a])

\* An index of the main hostmap, which allocateIndex does not give out again.
MainIndex(i) == \E a \in Addr : \E h \in Members(hosts[a]) : hh[h].index = i

\* Somebody can still reach h.
Referenced(h) ==
  \/ \E a \in Addr : vpnIps[a] = h
  \/ \E i \in Index : indexes[i] = h
  \/ InMain(h) \/ out.host = h \/ rerr = h
  \/ \E r \in Reader : rd[r].host = h

Unused == {h \in Host : hh[h] = Blank}

\* One unused object per reader is kept for the restart in continueHandshake.
CanCreate == Cardinality(Unused) > Cardinality(Reader)

Init ==
  /\ vpnIps = [a \in Addr |-> Nil] /\ indexes = [i \in Index |-> Nil]
  /\ hosts = [a \in Addr |-> <<>>] /\ hh = [h \in Host |-> Blank]
  /\ timer = [a \in Addr |-> 0] /\ trigger = <<>>
  /\ ecmp = [a \in Addr |-> "untracked"] /\ owed = {}
  /\ out = Idle /\ rd = [r \in Reader |-> Waiting]
  /\ snd = [s \in Sender |-> Quiet] /\ rerr = Nil

-----------------------------------------------------------------------------
(* Pieces shared by the actions.                                           *)

markDown(a) == [ecmp EXCEPT ![a] = IF @ = "untracked" THEN @ ELSE "down"]
markUp(a) == [ecmp EXCEPT ![a] = IF @ = "untracked" THEN @ ELSE "up"]

\* A send on the trigger channel that gives up when the channel is full.
Triggered(a) == IF Len(trigger) < TriggerBuffer
                THEN Append(trigger, a) ELSE trigger

\* unlockedDeleteHostInfo: an address is released only if it is still this
\* hostinfo's; its index is released whoever has it.
unlockedDeleteHostInfo(h) ==
  /\ vpnIps' = [a \in Addr |-> IF a = hh[h].addr /\ vpnIps[a] = h
                               THEN Nil ELSE vpnIps[a]]
  /\ indexes' = [i \in Index |-> IF i = hh[h].index THEN Nil ELSE indexes[i]]

\* unlockedAddHostInfo: the new hostinfo is the primary and the oldest one
\* beyond the limit goes.
Added(h, a) ==
  LET list == <<h>> \o hosts[a]
  IN  [hosts EXCEPT ![a] = IF Len(list) > MaxHostInfosPerVpnIp
                           THEN SubSeq(list, 1, MaxHostInfosPerVpnIp)
                           ELSE list]

\* The list, which has no entry twice, without its entry for h.
Without(list, h) ==
  LET k == CHOOSE k \in DOMAIN list : list[k] = h
  IN  IF h \notin Members(list) THEN list
      ELSE [i \in 1..(Len(list) - 1) |-> IF i < k THEN list[i] ELSE list[i + 1]]

\* DeleteHostInfo of the main hostmap.
Removed(h) == [a \in Addr |-> Without(hosts[a], h)]

\* The packet store that StartHandshake(a, cb) hands to cb.
PendingStore(a) == IF vpnIps[a] = Nil THEN {} ELSE hh[vpnIps[a]].packetStore

\* StartHandshake(a, cb), where cb leaves the packet store as `store' and the
\* caller has left the objects as `objs'.
StartHandshake(a, objs, store) ==
  /\ UNCHANGED indexes
  /\ \/ /\ vpnIps[a] # Nil
        /\ hh' = [objs EXCEPT ![vpnIps[a]].packetStore = store]
        /\ UNCHANGED <<vpnIps, timer, trigger>>
     \/ /\ vpnIps[a] = Nil
        /\ \E h \in Unused :
             /\ vpnIps' = [vpnIps EXCEPT ![a] = h]
             /\ hh' = [objs EXCEPT ![h] = [Blank EXCEPT !.addr = a,
                                             !.packetStore = store]]
        /\ timer' = [timer EXCEPT ![a] = @ + 1]
        /\ trigger' = IF a \in Static THEN Triggered(a) ELSE trigger

\* A value generateIndex may return: any one, but the improbable draw of a
\* value that an object in neither hostmap still carries is left out (the
\* object may be on its way into unlockedDeleteHostInfo; see HostMapIndexReuse).
Drawn(i) ==
  \A h \in Host : hh[h].index = i => indexes[i] = h \/ InMain(h)

-----------------------------------------------------------------------------
(* The handshake goroutine: Run and handleOutbound.                        *)

\* A timer entry expires (NextOutboundHandshakeTimerTick) or a trigger is
\* received; queryVpnIp finds the pending hostinfo or there is none.
handleOutbound(a, triggered) ==
  /\ out.pc = "idle"
  /\ IF triggered
     THEN /\ trigger # <<>> /\ Head(trigger) = a
          /\ trigger' = Tail(trigger) /\ UNCHANGED timer
     ELSE /\ timer[a] > 0
          /\ timer' = [timer EXCEPT ![a] = @ - 1] /\ UNCHANGED trigger
  /\ out' = IF vpnIps[a] = Nil THEN Idle
            ELSE [pc |-> "lock", host |-> vpnIps[a], addr |-> a,
                  triggered |-> triggered]
  /\ UNCHANGED <<pending, hosts, hh, ecmp, owed, rd, snd, rerr>>

outOfTries(h) == hh[h].counter >= Retries

\* hh.Lock, and the test for being out of tries.  Whether the hostinfo is
\* still pending is not looked at again.
outboundLock ==
  LET h == out.host
  IN  /\ out.pc = "lock" /\ hh[h].lock = Nil
      /\ hh' = [hh EXCEPT ![h].lock = "out"]
      /\ out' = [out EXCEPT !.pc = IF outOfTries(h)
                                   THEN "expire" ELSE "attempt"]
      /\ UNCHANGED <<pending, hosts, queues, ecmp, owed, rd, snd, rerr>>

outboundMarkDown ==
  /\ out.pc = "expire"
  /\ ecmp' = markDown(out.addr)
  /\ out' = [out EXCEPT !.pc = "delete"]
  /\ UNCHANGED <<pending, hosts, hh, queues, owed, rd, snd, rerr>>

\* The handshake is given up, with the packets cached for it.
outboundDelete ==
  /\ out.pc = "delete"
  /\ unlockedDeleteHostInfo(out.host)
  /\ hh' = [hh EXCEPT ![out.host].packetStore = {}, ![out.host].lock = Nil]
  /\ owed' = owed \ hh[out.host].packetStore
  /\ out' = Idle
  /\ UNCHANGED <<hosts, queues, ecmp, rd, snd, rerr>>

\* buildStage0Packet, if there is no message yet: allocateIndex takes a value
\* that neither hostmap uses.  The object is otherwise left as `tried'.
buildStage0Packet(h, tried) ==
  \/ /\ tried.ready
     /\ hh' = [hh EXCEPT ![h] = tried] /\ UNCHANGED indexes
  \/ /\ ~tried.ready
     /\ \E i \in Index :
          /\ indexes[i] = Nil /\ ~MainIndex(i) /\ Drawn(i)
          /\ indexes' = [indexes EXCEPT ![i] = h]
          /\ hh' = [hh EXCEPT ![h] = [tried EXCEPT !.index = i,
                                                   !.ready = TRUE]]

\* Mutant of retryTimer: only an attempt that sent something is repeated.
RetryIfSent(built) ==
  IF out.triggered \/ ~built THEN timer
  ELSE [timer EXCEPT ![out.addr] = @ + 1]

\* The timer after an attempt: a triggered one leaves it alone, unless it
\* could not build the message.
retryTimer(built) ==
  IF out.triggered /\ built THEN timer
  ELSE [timer EXCEPT ![out.addr] = @ + 1]

\* Mutant of nextTry: the tries are not counted.
NextTryUncounted(h) == [hh[h] EXCEPT !.lock = Nil]

nextTry(h) == [hh[h] EXCEPT !.counter = @ + 1, !.lock = Nil]

\* One try.  It may fail to build the message (no certificate, no index).
\* Whether a triggered one is cut short, because the remotes have not changed,
\* makes no difference to the state.
outboundAttempt ==
  LET h == out.host
  IN  /\ out.pc = "attempt"
      /\ \/ /\ ~hh[h].ready
            /\ hh' = [hh EXCEPT ![h] = nextTry(h)]
            /\ timer' = retryTimer(FALSE) /\ UNCHANGED indexes
         \/ buildStage0Packet(h, nextTry(h)) /\ timer' = retryTimer(TRUE)
      /\ out' = Idle
      /\ UNCHANGED <<vpnIps, hosts, trigger, ecmp, owed, rd, snd, rerr>>

-----------------------------------------------------------------------------
(* The outside readers: HandleIncoming and continueHandshake.              *)

\* HandleIncoming: queryIndex finds the pending hostinfo of an answer.
HandleIncoming(r, i) ==
  /\ rd[r].pc = "idle" /\ indexes[i] # Nil
  /\ rd' = [rd EXCEPT ![r] = [pc |-> "lock", host |-> indexes[i]]]
  /\ UNCHANGED <<pending, hosts, hh, queues, ecmp, owed, out, snd, rerr>>

\* Mutant of stillPending: what queryIndex found is trusted.
TrustedPending(h) == TRUE

stillPending(h) == indexes[hh[h].index] = h

\* hh.Lock, and the test that the hostinfo is still pending.
continueLock(r) ==
  LET h == rd[r].host
  IN  /\ rd[r].pc = "lock" /\ hh[h].lock = Nil
      /\ IF stillPending(h)
         THEN /\ hh' = [hh EXCEPT ![h].lock = r]
              /\ rd' = [rd EXCEPT ![r].pc = "process"]
         ELSE /\ rd' = [rd EXCEPT ![r] = Waiting] /\ UNCHANGED hh
      /\ UNCHANGED <<pending, hosts, queues, ecmp, owed, out, snd, rerr>>

\* The address is not allowed, or the machine finds the packet unusable and
\* goes on waiting for another.
continueIgnore(r) ==
  /\ rd[r].pc = "process"
  /\ hh' = [hh EXCEPT ![rd[r].host].lock = Nil]
  /\ rd' = [rd EXCEPT ![r] = Waiting]
  /\ UNCHANGED <<pending, hosts, queues, ecmp, owed, out, snd, rerr>>

\* The machine has failed, the result is unusable, or it was our own answer.
continueAbandon(r) ==
  LET h == rd[r].host
  IN  /\ rd[r].pc = "process"
      /\ unlockedDeleteHostInfo(h)
      /\ hh' = [hh EXCEPT ![h].packetStore = {}, ![h].lock = Nil]
      /\ owed' = owed \ hh[h].packetStore
      /\ rd' = [rd EXCEPT ![r] = Waiting]
      /\ UNCHANGED <<hosts, queues, ecmp, out, snd, rerr>>

\* Complete: from the pending to the main hostmap in one critical section.
Complete(r, t) ==
  LET h == rd[r].host
  IN  /\ rd[r].pc = "process"
      /\ unlockedDeleteHostInfo(h)
      /\ hosts' = Added(h, hh[h].addr)
      /\ ecmp' = markUp(hh[h].addr)
      /\ hh' = [hh EXCEPT ![h].time = t]
      /\ rd' = [rd EXCEPT ![r].pc = "flush"]
      /\ UNCHANGED <<queues, owed, out, snd, rerr>>

\* The cached packets are sent.  Nothing reads the store afterwards.
continueFlush(r) ==
  LET h == rd[r].host
  IN  /\ rd[r].pc = "flush"
      /\ hh' = [hh EXCEPT ![h].packetStore = {}, ![h].lock = Nil]
      /\ owed' = owed \ hh[h].packetStore
      /\ rd' = [rd EXCEPT ![r] = Waiting]
      /\ UNCHANGED <<pending, hosts, queues, ecmp, out, snd, rerr>>

\* Another host has answered: the handshake is deleted ...
continueWrongHost(r) ==
  /\ rd[r].pc = "process" /\ WrongHosts
  /\ timer[hh[rd[r].host].addr] < MaxTimer
  /\ unlockedDeleteHostInfo(rd[r].host)
  /\ rd' = [rd EXCEPT ![r].pc = "restart"]
  /\ UNCHANGED <<hosts, hh, queues, ecmp, owed, out, snd, rerr>>

\* ... and a new one started, which takes over the packets; the old hostinfo
\* then gets the address of the host b that did answer.
continueRestart(r, b) ==
  LET h == rd[r].host
      a == hh[h].addr
  IN  /\ rd[r].pc = "restart" /\ b # a
      /\ StartHandshake(a, [hh EXCEPT ![h].packetStore = {}, ![h].lock = Nil,
                                      ![h].addr = b],
                        hh[h].packetStore)
      /\ rd' = [rd EXCEPT ![r] = Waiting]
      /\ UNCHANGED <<hosts, ecmp, owed, out, snd, rerr>>

-----------------------------------------------------------------------------
(* The outside readers: beginHandshake and handleRecvError.                *)

\* Mutant of alreadySeen: only the primary is looked at.
SeenByPrimary(m) ==
  LET a == PeerOf[m]
  IN  hosts[a] # <<>> /\ hh[hosts[a][1]].stage0 = m

alreadySeen(m) ==
  LET a == PeerOf[m]
  IN  \E h \in Members(hosts[a]) : hh[h].stage0 = m

\* CheckAndComplete for the first message m, with the drawn local index i.
beginHandshake(m, i) ==
  LET a == PeerOf[m]
      newer == hosts[a] # <<>> => \/ hh[hosts[a][1]].time < TimeOf[m]
                                  \/ hh[hosts[a][1]].initiator
  IN  /\ ~alreadySeen(m) /\ newer /\ Drawn(i)
      /\ ~MainIndex(i) /\ indexes[i] = Nil
      /\ CanCreate
      /\ \E h \in Unused :
           /\ hh' = [hh EXCEPT ![h] = [Blank EXCEPT !.addr = a, !.index = i,
                       !.initiator = FALSE, !.stage0 = m, !.time = TimeOf[m]]]
           /\ hosts' = Added(h, a)
      /\ ecmp' = markUp(a)
      /\ UNCHANGED <<pending, queues, owed, procs>>

\* handleRecvError closes the tunnel in the main hostmap ...
handleRecvError(h) ==
  /\ rerr = Nil /\ InMain(h)
  /\ hosts' = Removed(h)
  /\ rerr' = h
  /\ UNCHANGED <<pending, hh, queues, ecmp, owed, out, rd, snd>>

\* ... and then deletes the same hostinfo from the pending one.
recvErrorDelete ==
  /\ rerr # Nil
  /\ unlockedDeleteHostInfo(rerr)
  /\ rerr' = Nil
  /\ UNCHANGED <<hosts, hh, queues, ecmp, owed, out, rd, snd>>

-----------------------------------------------------------------------------
(* The inside readers, and what the other parts of the node do.            *)

\* GetOrHandshake finds no tunnel, under the hostmap's read lock ...
GetOrHandshake(s, a, p) ==
  /\ snd[s].pc = "idle" /\ hosts[a] = <<>>
  /\ \A h \in Host : p \notin hh[h].packetStore
  /\ \A t \in Sender : snd[t].packet # p
  /\ snd' = [snd EXCEPT ![s] = [pc |-> "start", addr |-> a, packet |-> p]]
  /\ UNCHANGED <<pending, hosts, hh, queues, ecmp, owed, out, rd, rerr>>

\* cachePacket: a packet that finds the store full is dropped.
cachePacket(store, p) ==
  IF Cardinality(store) < MaxCachedPackets THEN store \cup {p} ELSE store

\* ... and calls StartHandshake with cachePacket as the callback.
senderStart(s) ==
  LET a == snd[s].addr
      p == snd[s].packet
      store == cachePacket(PendingStore(a), p)
  IN  /\ snd[s].pc = "start"
      /\ vpnIps[a] # Nil \/ (CanCreate /\ timer[a] < MaxTimer)
      /\ StartHandshake(a, hh, store)
      /\ owed' = owed \cup (store \cap {p})
      /\ snd' = [snd EXCEPT ![s] = Quiet]
      /\ UNCHANGED <<hosts, ecmp, out, rd, rerr>>

\* startRehandshake: a handshake while there is a tunnel, with no packet.
startRehandshake(a) ==
  /\ hosts[a] # <<>> /\ vpnIps[a] = Nil /\ CanCreate /\ timer[a] < MaxTimer
  /\ StartHandshake(a, hh, PendingStore(a))
  /\ UNCHANGED <<hosts, ecmp, owed, procs>>

\* The lighthouse answers a query for an address.
handleHostQueryReply(a) ==
  /\ Triggered(a) # trigger
  /\ trigger' = Triggered(a)
  /\ UNCHANGED <<pending, hosts, hh, timer, ecmp, owed, procs>>

\* A route with several gateways asks for the state of one.
isUp(a) ==
  /\ a \in Gateway /\ ecmp[a] = "untracked"
  /\ ecmp' = [ecmp EXCEPT ![a] = "up"]
  /\ UNCHANGED <<pending, hosts, hh, queues, owed, procs>>

\* The connection manager finds a tunnel dead: the primary takes its gateway
\* down with it.
deleteTunnel(h) ==
  /\ InMain(h)
  /\ hosts' = Removed(h)
  /\ ecmp' = IF hosts[hh[h].addr][1] = h THEN markDown(hh[h].addr) ELSE ecmp
  /\ UNCHANGED <<pending, hh, queues, owed, procs>>

\* MakePrimary.
swapsPrimary(h) ==
  LET a == hh[h].addr
  IN  /\ InMain(h) /\ hosts[a][1] # h
      /\ hosts' = [hosts EXCEPT ![a] = <<h>> \o Removed(h)[a]]
      /\ UNCHANGED <<pending, hh, queues, ecmp, owed, procs>>

\* Go's collector: an object nobody can reach can be reused.
Collect(h) ==
  /\ hh[h] # Blank /\ ~Referenced(h)
  /\ hh' = [hh EXCEPT ![h] = Blank]
  /\ UNCHANGED <<pending, hosts, queues, ecmp, owed, procs>>

-----------------------------------------------------------------------------
Outbound ==
  \/ \E a \in Addr, b \in BOOLEAN : handleOutbound(a, b)
  \/ outboundLock \/ outboundMarkDown \/ outboundDelete \/ outboundAttempt

Continue(r) ==
  \/ continueLock(r) \/ continueIgnore(r) \/ continueAbandon(r)
  \/ \E t \in Time : Complete(r, t)
  \/ continueFlush(r) \/ continueWrongHost(r)
  \/ \E b \in Addr : continueRestart(r, b)

Next ==
  \/ Outbound
  \/ \E r \in Reader : Continue(r) \/ \E i \in Index : HandleIncoming(r, i)
  \/ \E m \in Stage0, i \in Index : beginHandshake(m, i)
  \/ \E h \in Host : handleRecvError(h) \/ deleteTunnel(h) \/ swapsPrimary(h)
                     \/ Collect(h)
  \/ recvErrorDelete
  \/ \E s \in Sender : \/ \E a \in Called, p \in Packet : GetOrHandshake(s, a, p)
                       \/ senderStart(s)
  \/ \E a \in Called : startRehandshake(a) \/ handleHostQueryReply(a) \/ isUp(a)

Spec == Init /\ [][Next]_vars

\* The handshake goroutine keeps serving its timer and channel, and a reader
\* that has taken hh.Lock runs to the end of its handler.
HandshakeFairSpec ==
  /\ Spec
  /\ WF_vars(outboundMarkDown \/ outboundDelete \/ outboundAttempt)
  /\ SF_vars(outboundLock)
  /\ \A a \in Addr : SF_vars(handleOutbound(a, FALSE))
  /\ \A r \in Reader : WF_vars(Continue(r))
  /\ \A h \in Host : WF_vars(Collect(h))

-----------------------------------------------------------------------------
(* Properties.                                                             *)

TypeOK ==
  /\ vpnIps \in [Addr -> Host \cup {Nil}]
  /\ indexes \in [Index -> Host \cup {Nil}]
  /\ \A a \in Addr : \A k \in DOMAIN hosts[a] : hosts[a][k] \in Host
  /\ hh \in [Host -> Objects]
  /\ timer \in [Addr -> Nat]
  /\ trigger \in Seq(Addr) /\ Len(trigger) <= TriggerBuffer
  /\ ecmp \in [Addr -> {"untracked", "up", "down"}]
  /\ owed \subseteq Packet
  /\ out.pc \in {"idle", "lock", "expire", "delete", "attempt"}
  /\ \A r \in Reader : rd[r].pc \in {"idle", "lock", "process", "flush",
                                     "restart"}

\* A pending handshake always has a timer entry, or handleOutbound is at work
\* on its address and will add one or delete it: no interleaving of timeouts,
\* answers, triggers and restarts leaves one that is never tried again.
PendingHasTimer ==
  \A a \in Addr : vpnIps[a] # Nil =>
    timer[a] > 0 \/ (out.pc # "idle" /\ out.addr = a /\ ~out.triggered)

\* The two pending maps agree: an index leads to a hostinfo that has this
\* index and is pending for its address, a pending hostinfo with a message is
\* found by its index, and no tunnel of the main hostmap has that index.  An
\* entry that nobody deletes, or an answer that is not found, breaks it.
PendingMapsAgree ==
  /\ \A i \in Index : indexes[i] # Nil =>
       /\ hh[indexes[i]].index = i
       /\ vpnIps[hh[indexes[i]].addr] = indexes[i]
       /\ ~MainIndex(i)
  /\ \A a \in Addr : vpnIps[a] # Nil =>
       /\ hh[vpnIps[a]].addr = a
       /\ hh[vpnIps[a]].ready => indexes[hh[vpnIps[a]].index] = vpnIps[a]

\* No pending handshake is forgotten: it is in both maps and will be tried
\* again.
PendingKept == TypeOK /\ PendingHasTimer /\ PendingMapsAgree

\* The comment in continueHandshake: after it holds hh.Lock and has found the
\* hostinfo pending, no other deleter takes it away while it is processed.
VerifiedStaysPending ==
  \A r \in Reader : rd[r].pc = "process" =>
    indexes[hh[rd[r].host].index] = rd[r].host

\* A first message that arrives again (a duplicate, a retransmission) never
\* makes a second tunnel: CheckAndComplete compares it with every hostinfo of
\* the address, whichever is the primary by then.
SeenOnce ==
  \A a \in Addr : \A j, k \in DOMAIN hosts[a] :
    j # k /\ hh[hosts[a][j]].stage0 # Nil =>
      hh[hosts[a][j]].stage0 # hh[hosts[a][k]].stage0

\* Packets cached for a handshake stay in the store of a hostinfo that is
\* pending, or that a reader is about to flush or to restart, until they are
\* sent or the handshake is given up.
PacketsKept ==
  \A p \in owed : \E h \in Host :
    /\ p \in hh[h].packetStore
    /\ \/ vpnIps[hh[h].addr] = h
       \/ \E r \in Reader : rd[r].host = h /\ rd[r].pc \in {"flush", "restart"}

\* Every handshake ends: it completes, fails or runs out of tries.
HandshakeEnds ==
  \A a \in Addr, h \in Host : []<>(vpnIps[a] # h)

\* Every cached packet is in the end sent, or dropped with its handshake.
PacketSettled == \A p \in Packet : []<>(p \notin owed)

\* What is begun comes to an end: handshakes, and the packets that wait for
\* them without being lost on the way.
HandshakesSettle == HandshakeEnds /\ []PacketsKept /\ PacketSettled

\* ecmpGateways: "A gateway is down once a handshake with it times out ...,
\* and up again once a handshake with it completes".  A handshake that has
\* completed does not time out afterwards and put the gateway down again.
CompletedStaysUp ==
  [][\A a \in Addr : ecmp[a] = "up" /\ ecmp'[a] = "down" =>
       hosts' # hosts \/ ~InMain(out.host)]_vars
=============================================================================
