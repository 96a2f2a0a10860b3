----------------------------- MODULE LightHouse -----------------------------
(***************************************************************************)
(* One node's table of remote lists (lighthouse.go) and the tunnels that   *)
(* hold on to its entries (handshake_manager.go, outside.go closeTunnel).  *)
(*                                                                         *)
(* A host may have several overlay addresses; the table maps each to a     *)
(* list, hostinfos keep a pointer to the list they were given, and the     *)
(* table's entries go when the last tunnel does.  As a lighthouse the node *)
(* takes update notifications and answers queries from the lists, as a     *)
(* client it stores the replies of its lighthouses.  An underlay address   *)
(* is abstracted to the host it belongs to; RemoteList has the list        *)
(* itself.                                                                 *)
(***************************************************************************)
EXTENDS Naturals, Sequences, Functions

CONSTANTS
  Host,         \* the peers
  Addrs,        \* host -> its overlay addresses, in certificate order
  V4Addr,       \* the overlay addresses that are IPv4
  Network,      \* overlay address -> the network it is in
  V1Host,       \* hosts with a version 1 certificate
  Lighthouses,  \* the hosts in lighthouse.hosts
  Dialled,      \* inputs: the addresses this node starts handshakes with
  StaticMaps,   \* inputs: the static_host_map a configuration may have
  MaxLists      \* bound: RemoteList objects ever made

VARIABLES
  amLighthouse,
  addrMap,     \* LightHouse.addrMap: address -> list, 0 for none
  lists,       \* every RemoteList made
  staticList,  \* LightHouse.staticList
  staticLoad,  \* the reload of static_host_map in progress
  pending,     \* address -> the list of its pending handshake, 0 for none
  responding,  \* host -> the list a response to it is being built with
  tunnels,     \* host -> the lists of its tunnels
  deleting,    \* host -> closeTunnel has passed the static check
  out,         \* the messages the last step sent
  updated      \* auxiliary: hosts whose update is in the table

lhVars == <<amLighthouse, addrMap, lists, staticList, staticLoad, pending,
            responding, tunnels, deleting, out, updated>>
handshakes == <<pending, responding, tunnels, deleting>>
statics == <<staticList, staticLoad>>

VpnAddr == UNION {Range(Addrs[h]) : h \in Host}
HostOf(v) == CHOOSE h \in Host : v \in Range(Addrs[h])
Primary(h) == Addrs[h][1]

\* A certificate has an address, and no two hosts have the same one.
ASSUME LightHouseAssumption ==
  /\ \A h \in Host : Addrs[h] \in Seq(VpnAddr) /\ Addrs[h] # <<>>
  /\ \A g, h \in Host : Range(Addrs[g]) \cap Range(Addrs[h]) # {} => g = h
  /\ Dialled \subseteq VpnAddr
  /\ \A map \in StaticMaps : map \subseteq VpnAddr

Nothing == [v \in VpnAddr |-> {}]
NewRemoteList(vpnAddrs) ==
  [vpnAddrs |-> vpnAddrs, learned |-> Nothing, reported |-> Nothing]

LightHouseInit ==
  /\ amLighthouse \in BOOLEAN
  /\ addrMap = [v \in VpnAddr |-> 0]
  /\ lists = <<>>
  /\ staticList = {}
  /\ staticLoad = [pc |-> "idle"]
  /\ pending = [v \in VpnAddr |-> 0]
  /\ responding = [h \in Host |-> 0]
  /\ tunnels = [h \in Host |-> {}]
  /\ deleting = [h \in Host |-> FALSE]
  /\ out = {}
  /\ updated = {}

-----------------------------------------------------------------------------
(* The table.                                                              *)

Known(addrs) == {i \in 1..Len(addrs) : addrMap[addrs[i]] # 0}

\* unlockedGetRemoteList: the index of the list, and the table with it.
ListFor(addrs) ==
  IF Known(addrs) = {} THEN Len(lists) + 1
  ELSE addrMap[addrs[CHOOSE i \in Known(addrs) :
                       \A j \in Known(addrs) : i <= j]]

MapWith(addrs) ==
  IF Known(addrs) = {}
  THEN [v \in VpnAddr |-> IF v \in Range(addrs) THEN Len(lists) + 1
                          ELSE addrMap[v]]
  ELSE [addrMap EXCEPT ![addrs[1]] = ListFor(addrs)]

ListsWith(addrs) ==
  IF Known(addrs) = {} THEN Append(lists, NewRemoteList(addrs)) ELSE lists

Room(addrs) == Known(addrs) # {} \/ Len(lists) < MaxLists

GetRemoteList(addrs) ==
  /\ Room(addrs)
  /\ addrMap' = MapWith(addrs)
  /\ lists' = ListsWith(addrs)

Report(addrs, owner, content) ==
  /\ Room(addrs)
  /\ addrMap' = MapWith(addrs)
  /\ lists' = [ListsWith(addrs) EXCEPT
                 ![ListFor(addrs)].reported[owner] = content]

\* DeleteVpnAddrs after its check: the entries that are the first one's list.
Deleted(addrs) ==
  [v \in VpnAddr |-> IF v \in Range(addrs) /\ addrMap[v] = addrMap[addrs[1]]
                     THEN 0 ELSE addrMap[v]]

-----------------------------------------------------------------------------
(* Handshakes and tunnels.                                                 *)

\* StartHandshake: QueryCache of the one address, and any calculated remotes.
StartHandshake(v) ==
  /\ pending[v] = 0
  /\ GetRemoteList(<<v>>)
  /\ pending' = [pending EXCEPT ![v] = ListFor(<<v>>)]
  /\ out' = {}
  /\ UNCHANGED <<updated, amLighthouse, statics, responding, tunnels, deleting>>

LearnedFrom(l, owner, h) == [lists EXCEPT ![l].learned[owner] = {h}]

\* continueHandshake: the answer teaches the address, then the certificate
\* says whose it is.  Complete and RefreshFromHandshake.
HandshakeCompletes(v) ==
  LET h == HostOf(v)
  IN /\ pending[v] # 0 /\ ~deleting[h]
     /\ lists' = [LearnedFrom(pending[v], v, h)
                    EXCEPT ![pending[v]].vpnAddrs = Addrs[h]]
     /\ tunnels' = [tunnels EXCEPT ![h] = @ \cup {pending[v]}]
     /\ pending' = [pending EXCEPT ![v] = 0]
     /\ out' = {}
     /\ UNCHANGED <<updated, amLighthouse, addrMap, statics, responding, deleting>>

\* The wrong host answers: it is learned, then blocked, and the handshake
\* starts again.
WrongHostResponds(v, h) ==
  /\ pending[v] # 0 /\ h # HostOf(v)
  /\ LET learned == LearnedFrom(pending[v], v, h)
     IN IF addrMap[v] # 0
        THEN /\ lists' = learned
             /\ pending' = [pending EXCEPT ![v] = addrMap[v]]
             /\ UNCHANGED addrMap
        ELSE /\ Len(lists) < MaxLists
             /\ lists' = Append(learned, NewRemoteList(<<v>>))
             /\ pending' = [pending EXCEPT ![v] = Len(lists) + 1]
             /\ addrMap' = [addrMap EXCEPT ![v] = Len(lists) + 1]
  /\ out' = {}
  /\ UNCHANGED <<updated, amLighthouse, statics, responding, tunnels, deleting>>

HandshakeTimesOut(v) ==
  /\ pending[v] # 0
  /\ pending' = [pending EXCEPT ![v] = 0]
  /\ out' = {}
  /\ UNCHANGED <<updated, amLighthouse, addrMap, lists, statics, responding, tunnels,
                 deleting>>

\* beginHandshake up to SetRemote; the table is asked outside the hostmap's
\* lock.
BeginHandshake(h) ==
  /\ responding[h] = 0
  /\ Room(Addrs[h])
  /\ addrMap' = MapWith(Addrs[h])
  /\ lists' = [ListsWith(Addrs[h]) EXCEPT
                 ![ListFor(Addrs[h])].learned[Primary(h)] = {h}]
  /\ responding' = [responding EXCEPT ![h] = ListFor(Addrs[h])]
  /\ out' = {}
  /\ UNCHANGED <<updated, amLighthouse, statics, pending, tunnels, deleting>>

\* CheckAndComplete under the hostmap's lock, or it refuses; then
\* RefreshFromHandshake.
CheckAndComplete(h, accepted) ==
  /\ responding[h] # 0
  /\ responding' = [responding EXCEPT ![h] = 0]
  /\ IF accepted
     THEN /\ ~deleting[h]
          /\ tunnels' = [tunnels EXCEPT ![h] = @ \cup {responding[h]}]
          /\ lists' = [lists EXCEPT ![responding[h]].vpnAddrs = Addrs[h]]
     ELSE UNCHANGED <<tunnels, lists>>
  /\ out' = {}
  /\ UNCHANGED <<updated, amLighthouse, addrMap, statics, pending, deleting>>

\* handleHostRoaming: SetRemote on the tunnel's list.
Roam(h, l) ==
  /\ l \in tunnels[h]
  /\ lists' = LearnedFrom(l, Primary(h), h)
  /\ out' = {}
  /\ UNCHANGED <<updated, amLighthouse, addrMap, statics, handshakes>>

\* closeTunnel: the last tunnel of the host goes on to DeleteVpnAddrs, which
\* stops at a static host.
closeTunnel(h, l) ==
  /\ l \in tunnels[h] /\ ~deleting[h]
  /\ tunnels' = [tunnels EXCEPT ![h] = @ \ {l}]
  /\ deleting' = [deleting EXCEPT ![h] =
       tunnels'[h] = {} /\ Range(Addrs[h]) \cap staticList = {}]
  /\ out' = {}
  /\ UNCHANGED <<updated, amLighthouse, addrMap, lists, statics, pending, responding>>

\* The rest of DeleteVpnAddrs, after it has the lighthouse's lock.
DeleteVpnAddrs(h) ==
  /\ deleting[h]
  /\ addrMap' = IF addrMap[Primary(h)] = 0 THEN addrMap
                ELSE Deleted(Addrs[h])
  /\ deleting' = [deleting EXCEPT ![h] = FALSE]
  /\ updated' = updated \ {h}
  /\ out' = {}
  /\ UNCHANGED <<amLighthouse, lists, statics, pending, responding, tunnels>>

-----------------------------------------------------------------------------
(* Messages.                                                               *)

\* queryAndPrepMessage: which owner's entry answers for an address.
CacheOwner(v) ==
  LET l == lists[addrMap[v]]
  IN IF v \in Range(l.vpnAddrs) THEN l.vpnAddrs[1] ELSE v

Found(v) ==
  /\ addrMap[v] # 0
  /\ LET l == lists[addrMap[v]]
     IN l.learned[CacheOwner(v)] \cup l.reported[CacheOwner(v)] # {}

\* coalesceAnswers
Answer(v) ==
  [learned |-> lists[addrMap[v]].learned[CacheOwner(v)],
   reported |-> lists[addrMap[v]].reported[CacheOwner(v)]]

\* findNetworkUnion of the target's networks and the querier's addresses
Shared(target, from) ==
  {s \in (1..Len(Addrs[target])) \X (1..Len(Addrs[from])) :
     Network[Addrs[target][s[1]]] = Network[Addrs[from][s[2]]]}
WhereToPunch(target, from) ==
  IF tunnels[target] = {} \/ Shared(target, from) = {} THEN Primary(from)
  ELSE LET s == CHOOSE s \in Shared(target, from) :
             \A t \in Shared(target, from) :
               s[1] < t[1] \/ (s[1] = t[1] /\ s[2] <= t[2])
       IN Addrs[from][s[2]]

\* sendHostPunchNotification: tells the host asked about where to punch.
Punch(about, from) ==
  LET where == WhereToPunch(HostOf(about), from)
  IN IF Found(Primary(from))
          /\ ~(HostOf(about) \in V1Host /\ where \notin V4Addr)
     THEN {[type |-> "HostPunchNotification", to |-> about, about |-> where,
            answer |-> Answer(Primary(from))]}
     ELSE {}

\* handleHostQuery
handleHostQuery(from, v) ==
  /\ amLighthouse /\ tunnels[from] # {}
  /\ out' = IF Found(v)
            THEN {[type |-> "HostQueryReply", to |-> Primary(from),
                   about |-> v, answer |-> Answer(v)]} \cup Punch(v, from)
            ELSE {}
  /\ UNCHANGED <<updated, amLighthouse, addrMap, lists, statics, handshakes>>

\* Mutant of handleHostUpdateNotification: stored under the address the
\* message names.
UpdateByDetails(from, details) ==
  /\ amLighthouse /\ tunnels[from] # {}
  /\ LET addrs == IF details = {} THEN Addrs[from]
                  ELSE <<CHOOSE v \in details : TRUE>>
     IN Report(addrs, addrs[1], {from})
  /\ out' = {}
  /\ UNCHANGED <<updated, amLighthouse, statics, handshakes>>

\* handleHostUpdateNotification: an address in the message, which is
\* optional, has to be one of the sender's.
handleHostUpdateNotification(from, details) ==
  /\ amLighthouse /\ tunnels[from] # {}
  /\ details \subseteq Range(Addrs[from])
  /\ Report(Addrs[from], Primary(from), {from})
  /\ updated' = updated \cup {from}
  /\ out' = {[type |-> "HostUpdateNotificationAck", to |-> Primary(from)]}
  /\ UNCHANGED <<amLighthouse, statics, handshakes>>

\* handleHostQueryReply: only from a lighthouse, which speaks of v's host.
handleHostQueryReply(from, v) ==
  /\ ~amLighthouse /\ from \in Lighthouses /\ tunnels[from] # {}
  /\ Report(<<v>>, Primary(from), {HostOf(v)})
  /\ out' = {}
  /\ UNCHANGED <<updated, amLighthouse, statics, handshakes>>

-----------------------------------------------------------------------------
(* The reload of static_host_map.                                          *)

StartStaticLoad(map) ==
  /\ staticLoad.pc = "idle"
  /\ map # staticList
  /\ staticLoad' = [pc |-> "load", map |-> map, todo |-> map]
  /\ out' = {}
  /\ UNCHANGED <<updated, amLighthouse, addrMap, lists, staticList, handshakes>>

addStaticRemotesOf(v) ==
  /\ staticLoad.pc = "load" /\ v \in staticLoad.todo
  /\ GetRemoteList(<<v>>)
  /\ staticLoad' = [staticLoad EXCEPT !.todo = @ \ {v}]
  /\ out' = {}
  /\ UNCHANGED <<updated, amLighthouse, staticList, handshakes>>

StoreStaticList ==
  /\ staticLoad.pc = "load" /\ staticLoad.todo = {}
  /\ staticList' = staticLoad.map
  /\ staticLoad' = [pc |-> "idle"]
  /\ out' = {}
  /\ UNCHANGED <<updated, amLighthouse, addrMap, lists, handshakes>>

-----------------------------------------------------------------------------

LightHouseNext ==
  \/ \E v \in Dialled :
       \/ StartHandshake(v) \/ HandshakeCompletes(v) \/ HandshakeTimesOut(v)
       \/ \E h \in Host : WrongHostResponds(v, h)
  \/ \E h \in Host :
       \/ BeginHandshake(h)
       \/ \E accepted \in BOOLEAN : CheckAndComplete(h, accepted)
       \/ \E l \in tunnels[h] : Roam(h, l) \/ closeTunnel(h, l)
       \/ DeleteVpnAddrs(h)
       \/ \E v \in VpnAddr : handleHostQuery(h, v) \/ handleHostQueryReply(h, v)
       \/ \E d \in {{}} \cup {{v} : v \in VpnAddr} :
            handleHostUpdateNotification(h, d)
  \/ \E map \in StaticMaps : StartStaticLoad(map)
  \/ \E v \in VpnAddr : addStaticRemotesOf(v)
  \/ StoreStaticList

LightHouseSpec == LightHouseInit /\ [][LightHouseNext]_lhVars

-----------------------------------------------------------------------------

ListType ==
  [vpnAddrs : Seq(VpnAddr), learned : [VpnAddr -> SUBSET Host],
   reported : [VpnAddr -> SUBSET Host]]

LightHouseTypeOK ==
  /\ lists \in Seq(ListType)
  /\ addrMap \in [VpnAddr -> 0..Len(lists)]
  /\ pending \in [VpnAddr -> 0..Len(lists)]
  /\ responding \in [Host -> 0..Len(lists)]
  /\ tunnels \in [Host -> SUBSET (1..Len(lists))]
  /\ deleting \in [Host -> BOOLEAN]
  /\ staticList \subseteq VpnAddr
  /\ staticLoad \in [pc : {"idle"}] \cup
       [pc : {"load"}, map : SUBSET VpnAddr, todo : SUBSET VpnAddr]

\* The lists of two hosts are never mixed: what the table holds for an
\* address was made for its host, and what a lighthouse answers about an
\* address, in a reply or a punch notification, was reported by its host.
\* And what a host last told the lighthouse is found under its first address
\* until its last tunnel is closed, whatever handshakes, under whichever of
\* its addresses, made or renamed the lists.
AnswersRight ==
  /\ \A v \in VpnAddr : addrMap[v] # 0 =>
       Range(lists[addrMap[v]].vpnAddrs) \subseteq Range(Addrs[HostOf(v)])
  /\ \A m \in out : m.type # "HostUpdateNotificationAck" =>
       m.answer.reported \subseteq {HostOf(m.about)}
  /\ \A h \in updated :
       Found(Primary(h)) /\ h \in Answer(Primary(h)).reported

\* The address map of a lighthouse or a client, well formed and right about
\* every host, whatever the order of handshakes, updates and deletions.
TableRight == LightHouseTypeOK /\ AnswersRight
=============================================================================
