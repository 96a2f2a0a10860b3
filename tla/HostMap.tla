------------------------------- MODULE HostMap -------------------------------
(***************************************************************************)
(* The main hostmap of a node (hostmap.go): which tunnels (HostInfo        *)
(* objects) exist, which of them is the primary for each vpn address, and  *)
(* by which local, remote and relay index they are found.                  *)
(*                                                                         *)
(* Every mutator runs under the hostmap write lock.  unlockedAddHostInfo   *)
(* is the only one whose effect on one address depends on what it did to   *)
(* the previous one (it may evict a hostinfo that holds both), so it is    *)
(* modelled as one step per address with the lock held in `adding'; all    *)
(* other mutators are one step.                                            *)
(*                                                                         *)
(* A caller may hold a pointer to a hostinfo for as long as it likes: it   *)
(* queries under the read lock and calls DeleteHostInfo, MakePrimary or    *)
(* AddRelay later (connection manager, control API, per-batch receive      *)
(* cache).  So those actions are enabled for every hostinfo that was ever  *)
(* added, the deleted ones included.                                       *)
(***************************************************************************)
EXTENDS Integers, Sequences, FiniteSets

CONSTANTS
  Host,                  \* HostInfo objects
  Addr,                  \* vpn addresses
  Index,                 \* values generateIndex can return for a tunnel
  RemoteIndex,           \* index values chosen by the peers
  RelayIndex,            \* values generateIndex can return for a relay
  VpnAddrs,              \* hostinfo.vpnAddrs, fixed when the hostinfo is made
  RemoteIndexId,         \* hostinfo.remoteIndexId, chosen by the peer
  MaxHostInfosPerVpnIp,  \* 5 in hostmap.go
  ReuseIndexes,          \* may a random draw repeat an index that a deleted
                         \* hostinfo still carries?
  Nil                    \* an absent map entry

ASSUME HostMapAssumption ==
  /\ VpnAddrs \in [Host -> Seq(Addr)]
  /\ \A h \in Host : Len(VpnAddrs[h]) > 0
  /\ RemoteIndexId \in [Host -> RemoteIndex]
  /\ MaxHostInfosPerVpnIp \in Nat \ {0}
  /\ ReuseIndexes \in BOOLEAN
  /\ Nil \notin Host /\ Nil \notin Index

VARIABLES
  Hosts,           \* address -> primary hostinfo
  moreHosts,       \* address -> all its hostinfos, primary first; <<>> if < 2
  Indexes,         \* local index -> hostinfo
  RemoteIndexes,   \* remote index -> hostinfo
  Relays,          \* local relay index -> hostinfo of the relay peer
  localIndexId,    \* hostinfo.localIndexId, Nil before the hostinfo is added
  relayForByAddr,  \* hostinfo.relayState.relayForByAddr
  relayForByIdx,   \* hostinfo.relayState.relayForByIdx
  relays,          \* hostinfo.relayState.relays
  adding,          \* hostinfo whose unlockedAddHostInfo holds the lock, or Nil
  pos              \* position in its vpnAddrs the loop has reached

lists == <<Hosts, moreHosts>>
relayState == <<relayForByAddr, relayForByIdx, relays>>
vars == <<Hosts, moreHosts, Indexes, RemoteIndexes, Relays, localIndexId,
          relayForByAddr, relayForByIdx, relays, adding, pos>>

RelayType == {"Forwarding", "Terminal"}
RelayStatus == {"Requested", "PeerRequested", "Established", "Disestablished"}

\* A relay's RemoteIndex never decides anything in this file and is left out.
Relay == [Type : RelayType, State : RelayStatus,
          LocalIndex : RelayIndex, PeerAddr : Addr]

NoRelay == [Type |-> "None"]

Addrs(h) == {VpnAddrs[h][i] : i \in DOMAIN VpnAddrs[h]}

-----------------------------------------------------------------------------
(* Host lists.                                                             *)

\* unlockedGetHostList
HostList(a) == IF moreHosts[a] # <<>> THEN moreHosts[a]
               ELSE IF Hosts[a] # Nil THEN <<Hosts[a]>> ELSE <<>>

HostLists == [a \in Addr |-> HostList(a)]

Members(list) == {list[i] : i \in DOMAIN list}

NoDuplicates(list) ==
  \A i, j \in DOMAIN list : list[i] = list[j] => i = j

\* Mutant of removeHostInfo: the last entry is swapped into the gap.
SwapRemoveHostInfo(list, h) ==
  IF h \notin Members(list) THEN list
  ELSE [i \in 1..(Len(list) - 1) |->
          IF list[i] = h THEN list[Len(list)] ELSE list[i]]

\* The list without its first occurrence of h, order preserved; the list
\* itself if h is absent.
removeHostInfo(list, h) ==
  IF h \notin Members(list) THEN list
  ELSE LET k == CHOOSE k \in DOMAIN list :
                  list[k] = h /\ \A j \in 1..(k - 1) : list[j] # h
       IN  [i \in 1..(Len(list) - 1) |->
              IF i < k THEN list[i] ELSE list[i + 1]]

Prepend(h, list) ==
  [i \in 1..(Len(list) + 1) |-> IF i = 1 THEN h ELSE list[i - 1]]

\* h moved to, or put at, the front.
ToFront(list, h) == Prepend(h, removeHostInfo(list, h))

\* unlockedSetHostsForAddr(a, L[a]) for every a in A.
SetHostsForAddr(A, L) ==
  /\ Hosts' = [a \in Addr |-> IF a \notin A THEN Hosts[a]
                              ELSE IF L[a] = <<>> THEN Nil ELSE L[a][1]]
  /\ moreHosts' = [a \in Addr |-> IF a \notin A THEN moreHosts[a]
                                  ELSE IF Len(L[a]) > 1 THEN L[a] ELSE <<>>]

-----------------------------------------------------------------------------
(* Relay state of a hostinfo.  A *Relay is immutable: an update stores the *)
(* new copy in both maps.                                                  *)

\* Store relay r[h] in both maps of every hostinfo h of H.
StoreRelay(H, r) ==
  /\ relayForByAddr' = [h \in Host |-> IF h \notin H THEN relayForByAddr[h]
                          ELSE [relayForByAddr[h] EXCEPT ![r[h].PeerAddr] = r[h]]]
  /\ relayForByIdx' = [h \in Host |-> IF h \notin H THEN relayForByIdx[h]
                          ELSE [relayForByIdx[h] EXCEPT ![r[h].LocalIndex] = r[h]]]

\* unlockedDisestablishVpnAddrRelayFor(h), where L[a] is the host list of a
\* once h is out of it: every hop towards h must be requested again.
Disestablish(h, L) ==
  LET hops == relays[h] \cup
              {relayForByIdx[h][i].PeerAddr : i \in
                 {j \in RelayIndex : relayForByIdx[h][j].Type = "Forwarding"}}
      peer == VpnAddrs[h][1]
      H == {g \in UNION {Members(L[a]) : a \in hops} :
              relayForByAddr[g][peer] # NoRelay}
  IN  StoreRelay(H, [g \in H |-> [relayForByAddr[g][peer] EXCEPT
                                     !.State = "Disestablished"]])

-----------------------------------------------------------------------------
(* Deleting.                                                               *)

\* Mutant of StillLinked: promote whatever pointer the caller holds.
NotChecked(h) == TRUE

\* The hostinfo may be unlinked already: a caller holds a stale pointer.
StillLinked(h) == Indexes[localIndexId[h]] = h

\* Mutant of ReclaimRelays: relay indexes outlive their hostinfo.
LeakRelays(h) == UNCHANGED Relays

ReclaimRelays(h) ==
  Relays' = [i \in RelayIndex |->
               IF relayForByIdx[h][i] # NoRelay THEN Nil ELSE Relays[i]]

\* Mutant of DropIndexes: the remote index goes whoever holds it now.
DropIndexesBlindly(h) ==
  /\ RemoteIndexes' = [RemoteIndexes EXCEPT ![RemoteIndexId[h]] = Nil]
  /\ Indexes' = [Indexes EXCEPT ![localIndexId[h]] = Nil]

\* The remote index only if it still points to h; the local one regardless.
DropIndexes(h) ==
  /\ RemoteIndexes' = [RemoteIndexes EXCEPT ![RemoteIndexId[h]] =
                         IF @ = h THEN Nil ELSE @]
  /\ Indexes' = [Indexes EXCEPT ![localIndexId[h]] = Nil]

\* unlockedDeleteHostInfo(h) when the host lists are L.  A is the set of
\* addresses whose list the caller changed before the call.
unlockedDeleteHostInfo(h, A, L) ==
  LET Left == [a \in Addr |-> IF a \in Addrs(h)
                               THEN removeHostInfo(L[a], h) ELSE L[a]]
      final == \A a \in Addrs(h) : Left[a] = <<>>
  IN  /\ SetHostsForAddr(A \cup Addrs(h), Left)
      /\ DropIndexes(h)
      /\ IF final THEN Disestablish(h, Left)
                  ELSE UNCHANGED <<relayForByAddr, relayForByIdx>>
      /\ ReclaimRelays(h)

\* A pointer to h can be held by some goroutine.
Known(h) == localIndexId[h] # Nil

DeleteHostInfo(h) ==
  /\ adding = Nil /\ Known(h)
  /\ unlockedDeleteHostInfo(h, {}, HostLists)
  /\ UNCHANGED <<localIndexId, relays, adding, pos>>

-----------------------------------------------------------------------------
(* Adding: CheckAndComplete and Complete of the handshake manager call     *)
(* unlockedAddHostInfo once per hostinfo, with an index that no hostinfo   *)
(* in Indexes uses.                                                        *)

AddHostInfoBegin(h, i) ==
  /\ adding = Nil /\ ~Known(h)
  /\ Indexes[i] = Nil
  /\ ReuseIndexes \/ \A g \in Host : localIndexId[g] # i
  /\ localIndexId' = [localIndexId EXCEPT ![h] = i]
  /\ adding' = h /\ pos' = 1
  /\ UNCHANGED <<lists, Indexes, RemoteIndexes, Relays, relayState>>

OverCap(list) == Len(list) > MaxHostInfosPerVpnIp

\* unlockedInnerAddHostInfo for the address the loop has reached.
InnerAddHostInfo ==
  /\ adding # Nil /\ pos <= Len(VpnAddrs[adding])
  /\ LET addr == VpnAddrs[adding][pos]
         list == ToFront(HostList(addr), adding)
         L == [HostLists EXCEPT ![addr] = list]
     IN  \/ /\ Hosts[addr] = Nil
            /\ Hosts' = [Hosts EXCEPT ![addr] = adding]
            /\ UNCHANGED <<moreHosts, Indexes, RemoteIndexes, Relays,
                           relayForByAddr, relayForByIdx>>
         \/ /\ Hosts[addr] # Nil /\ ~OverCap(list)
            /\ SetHostsForAddr({addr}, L)
            /\ UNCHANGED <<Indexes, RemoteIndexes, Relays,
                           relayForByAddr, relayForByIdx>>
         \/ /\ Hosts[addr] # Nil /\ OverCap(list)
            /\ unlockedDeleteHostInfo(list[Len(list)], {addr}, L)
  /\ pos' = pos + 1
  /\ UNCHANGED <<localIndexId, relays, adding>>

AddHostInfoEnd ==
  /\ adding # Nil /\ pos > Len(VpnAddrs[adding])
  /\ Indexes' = [Indexes EXCEPT ![localIndexId[adding]] = adding]
  /\ RemoteIndexes' = [RemoteIndexes EXCEPT ![RemoteIndexId[adding]] = adding]
  /\ adding' = Nil /\ pos' = 0
  /\ UNCHANGED <<lists, Relays, localIndexId, relayState>>

-----------------------------------------------------------------------------
(* Promotion and relays.                                                   *)

\* unlockedMakePrimary past its membership test.
unlockedMakePrimary(h) ==
  LET A == {a \in Addrs(h) : Hosts[a] # h}
  IN  SetHostsForAddr(A, [a \in Addr |-> ToFront(HostList(a), h)])

MakePrimary(h) ==
  /\ adding = Nil /\ Known(h)
  /\ StillLinked(h)
  /\ unlockedMakePrimary(h)
  /\ UNCHANGED <<Indexes, RemoteIndexes, Relays, localIndexId, relayState,
                 adding, pos>>

\* The four ways the relay and connection managers call AddRelay.
RelayRequests ==
  {<<"Terminal", "Requested">>, <<"Terminal", "Established">>,
   <<"Forwarding", "Requested">>, <<"Forwarding", "PeerRequested">>}

\* AddRelay: promotes the relay peer's hostinfo and registers a relay on it;
\* fails without effect when the hostinfo is gone.
AddRelay(h, i, peer, req) ==
  /\ adding = Nil /\ Known(h)
  /\ Relays[i] = Nil
  /\ ReuseIndexes \/ \A g \in Host : relayForByIdx[g][i] = NoRelay
  /\ StillLinked(h)
  /\ unlockedMakePrimary(h)
  /\ Relays' = [Relays EXCEPT ![i] = h]
  /\ StoreRelay({h}, [g \in {h} |->
       [Type |-> req[1], State |-> req[2], LocalIndex |-> i, PeerAddr |-> peer]])
  /\ UNCHANGED <<Indexes, RemoteIndexes, localIndexId, relays, adding, pos>>

\* UpdateRelayForByIpState and CompleteRelayByIP; only the relay state's own
\* lock is taken.
UpdateRelayForByIpState(h, peer, s) ==
  /\ Known(h) /\ relayForByAddr[h][peer] # NoRelay
  /\ StoreRelay({h}, [g \in {h} |-> [relayForByAddr[h][peer] EXCEPT !.State = s]])
  /\ UNCHANGED <<lists, Indexes, RemoteIndexes, Relays, localIndexId, relays,
                 adding, pos>>

\* UpdateRelayForByIdxState and CompleteRelayByIdx.
UpdateRelayForByIdxState(h, i) ==
  /\ Known(h) /\ relayForByIdx[h][i] # NoRelay
  /\ StoreRelay({h}, [g \in {h} |->
                         [relayForByIdx[h][i] EXCEPT !.State = "Established"]])
  /\ UNCHANGED <<lists, Indexes, RemoteIndexes, Relays, localIndexId, relays,
                 adding, pos>>

\* Which relays lead to h: learned from the handshake, dropped when a send
\* through one fails.
InsertRelayTo(h, a) ==
  /\ Known(h) /\ a \notin relays[h]
  /\ relays' = [relays EXCEPT ![h] = @ \cup {a}]
  /\ UNCHANGED <<lists, Indexes, RemoteIndexes, Relays, localIndexId,
                 relayForByAddr, relayForByIdx, adding, pos>>

DeleteRelay(h, a) ==
  /\ Known(h) /\ a \in relays[h]
  /\ relays' = [relays EXCEPT ![h] = @ \ {a}]
  /\ UNCHANGED <<lists, Indexes, RemoteIndexes, Relays, localIndexId,
                 relayForByAddr, relayForByIdx, adding, pos>>

-----------------------------------------------------------------------------
Init ==
  /\ Hosts = [a \in Addr |-> Nil]
  /\ moreHosts = [a \in Addr |-> <<>>]
  /\ Indexes = [i \in Index |-> Nil]
  /\ RemoteIndexes = [i \in RemoteIndex |-> Nil]
  /\ Relays = [i \in RelayIndex |-> Nil]
  /\ localIndexId = [h \in Host |-> Nil]
  /\ relayForByAddr = [h \in Host |-> [a \in Addr |-> NoRelay]]
  /\ relayForByIdx = [h \in Host |-> [i \in RelayIndex |-> NoRelay]]
  /\ relays = [h \in Host |-> {}]
  /\ adding = Nil /\ pos = 0

Next ==
  \/ InnerAddHostInfo
  \/ AddHostInfoEnd
  \/ \E h \in Host :
       \/ \E i \in Index : AddHostInfoBegin(h, i)
       \/ DeleteHostInfo(h)
       \/ MakePrimary(h)
       \/ \E i \in RelayIndex, peer \in Addr, req \in RelayRequests :
            AddRelay(h, i, peer, req)
       \/ \E peer \in Addr, s \in {"Requested", "Established"} :
            UpdateRelayForByIpState(h, peer, s)
       \/ \E i \in RelayIndex : UpdateRelayForByIdxState(h, i)
       \/ \E a \in Addr : InsertRelayTo(h, a) \/ DeleteRelay(h, a)

Spec == Init /\ [][Next]_vars

-----------------------------------------------------------------------------
(* Properties.                                                             *)

\* The shape of the maps.
TypeOK ==
  /\ Hosts \in [Addr -> Host \cup {Nil}]
  /\ moreHosts \in [Addr -> Seq(Host)]
  /\ Indexes \in [Index -> Host \cup {Nil}]
  /\ RemoteIndexes \in [RemoteIndex -> Host \cup {Nil}]
  /\ Relays \in [RelayIndex -> Host \cup {Nil}]
  /\ localIndexId \in [Host -> Index \cup {Nil}]
  /\ relayForByAddr \in [Host -> [Addr -> Relay \cup {NoRelay}]]
  /\ relayForByIdx \in [Host -> [RelayIndex -> Relay \cup {NoRelay}]]
  /\ relays \in [Host -> SUBSET Addr]
  /\ adding \in Host \cup {Nil}
  /\ pos \in Nat

Live(h) == Known(h) /\ Indexes[localIndexId[h]] = h

\* The addresses whose list must hold h: all of its addresses once it is in
\* Indexes, and while it is being added those the loop has passed.
Held(h) == IF Live(h) THEN Addrs(h)
           ELSE IF adding = h
                THEN {VpnAddrs[h][i] : i \in {j \in DOMAIN VpnAddrs[h] : j < pos}}
                ELSE {}

\* hostmap.go:58-66: moreHosts holds an address only while it has at least
\* two hostinfos, its first entry is the primary in Hosts, and (the reason
\* removeHostInfo runs before every prepend) no hostinfo is in it twice.
ListsWellFormed ==
  \A a \in Addr : moreHosts[a] # <<>> =>
    /\ Len(moreHosts[a]) >= 2
    /\ moreHosts[a][1] = Hosts[a]
    /\ NoDuplicates(moreHosts[a])

\* A hostinfo is in the list of an address exactly when it owns the address
\* and is linked: no delete leaves a dangling pointer behind in another
\* address's list, no MakePrimary or AddRelay on a stale pointer brings a
\* deleted hostinfo back, and every live hostinfo can be reached by each of
\* its addresses and by its local index.
LinkedEverywhere ==
  \A h \in Host, a \in Addr : h \in Members(HostList(a)) <=> a \in Held(h)

\* unlockedInnerAddHostInfo: an address never has more than
\* MaxHostInfosPerVpnIp hostinfos, whatever mix of adds, promotions and
\* deletes of hostinfos that share only some addresses came before.
Capped == \A a \in Addr : Len(HostList(a)) <= MaxHostInfosPerVpnIp

\* What the hostmap's comments promise of the lists of an address: in step with
\* the primary, linked everywhere or nowhere, and bounded.
ListsAgree == ListsWellFormed /\ LinkedEverywhere /\ Capped

\* relay_manager.go:244-250: a Relays entry belongs to a hostinfo that is in
\* the hostmap and lists the index among its relays, so that deleting the
\* hostinfo reclaims the entry; and every relay of a live hostinfo has one.
RelaysReclaimable ==
  \A i \in RelayIndex, h \in Host :
    Relays[i] = h <=> (Live(h) /\ relayForByIdx[h][i] # NoRelay)

\* hostmap.go:74-77: the two relay maps of a hostinfo never disagree on the
\* state of a relay, although they are updated by address on one path and by
\* index on another, and two indexes may have been drawn for one peer.
RelayMapsAgree ==
  \A h \in Host :
    /\ \A a \in Addr : LET r == relayForByAddr[h][a] IN
         r # NoRelay => r.PeerAddr = a /\ relayForByIdx[h][r.LocalIndex] = r
    /\ \A i \in RelayIndex : LET r == relayForByIdx[h][i] IN
         r # NoRelay => r.LocalIndex = i /\ relayForByAddr[h][r.PeerAddr] # NoRelay

\* Relays are reclaimed with their hostinfo, and a relay has one state.
RelaysConsistent == RelaysReclaimable /\ RelayMapsAgree

\* A packet whose remote index is looked up never reaches an unlinked
\* hostinfo.
RemoteIndexesLive ==
  \A i \in RemoteIndex : RemoteIndexes[i] # Nil =>
    Live(RemoteIndexes[i]) /\ RemoteIndexId[RemoteIndexes[i]] = i

\* Remote indexes are chosen by the peers and may collide: deleting one
\* hostinfo must not hide another, live, one that holds the same value.
RemoteIndexKept ==
  [][\A i \in RemoteIndex, h \in Host :
       RemoteIndexes[i] = h /\ Live(h)' => RemoteIndexes'[i] # Nil]_vars

\* A remote index leads to a live hostinfo or to none, and no delete hides the
\* live one.
RemoteIndexesRight == []RemoteIndexesLive /\ RemoteIndexKept

\* A step that deletes a hostinfo promotes the next one of the list and no
\* other: the primary of an address is replaced by a hostinfo that is being
\* added or promoted, or by the successor of one that is gone.
PrimarySuccession ==
  [][\A a \in Addr : Hosts'[a] # Hosts[a] =>
       \/ Hosts'[a] = adding
       \/ Hosts'[a] # Nil /\ Hosts[a] \in Members(HostList(a)')
       \/ /\ Hosts[a] \notin Members(HostList(a)')
          /\ Hosts'[a] = IF Len(HostList(a)) = 1 THEN Nil
                          ELSE HostList(a)[2]]_vars
=============================================================================
