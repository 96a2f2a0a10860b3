----------------------------- MODULE HostMapProof -----------------------------
(***************************************************************************)
(* Proofs about HostMap for every set of hostinfos, addresses and indexes  *)
(* and every cap, under the assumption that a random draw does not repeat  *)
(* the index of a deleted hostinfo (ReuseIndexes = FALSE): what the        *)
(* operators on lists, indexes and relays do, the inductive invariant, its *)
(* preservation by the loop of unlockedAddHostInfo over the addresses of a *)
(* new hostinfo, and then one lemma per action.                            *)
(***************************************************************************)
EXTENDS HostMap, SequenceTheorems, TLAPS

-----------------------------------------------------------------------------
(* Lists.                                                                  *)

\* removeHostInfo cuts one entry out of a list without duplicates and keeps
\* the others.
LEMMA RemoveFacts ==
  ASSUME NEW s \in Seq(Host), NEW h \in Host, NoDuplicates(s)
  PROVE  LET r == removeHostInfo(s, h) IN
         /\ r \in Seq(Host)
         /\ NoDuplicates(r)
         /\ Members(r) = Members(s) \ {h}
         /\ Len(r) <= Len(s)
         /\ h \in Members(s) => Len(r) = Len(s) - 1
         /\ h \notin Members(s) => r = s
<1> DEFINE r == removeHostInfo(s, h)
<1>1. CASE h \notin Members(s)
  BY <1>1 DEF removeHostInfo, Members
<1>2. CASE h \in Members(s)
  <2> DEFINE P(k) == k \in DOMAIN s /\ s[k] = h /\ \A j \in 1..(k - 1) : s[j] # h
  <2> DEFINE kk == CHOOSE k \in DOMAIN s : s[k] = h /\ \A j \in 1..(k - 1) : s[j] # h
  <2>1. PICK k0 \in DOMAIN s : s[k0] = h
    BY Zenon, <1>2 DEF Members
  <2>2. P(k0)
    BY <2>1 DEF NoDuplicates
  <2>3. kk \in 1..Len(s) /\ s[kk] = h
    BY <2>2
  <2>4. r = [i \in 1..(Len(s) - 1) |-> IF i < kk THEN s[i] ELSE s[i + 1]]
    BY Zenon, <1>2 DEF removeHostInfo
  <2> HIDE DEF kk, r
  <2>5. Len(s) \in Nat /\ Len(s) >= 1
    BY <2>3
  <2>6. /\ r \in Seq(Host) /\ Len(r) = Len(s) - 1
        /\ DOMAIN r = 1..(Len(s) - 1) /\ DOMAIN s = 1..Len(s)
    BY <2>3, <2>4, <2>5
  <2>7. NoDuplicates(r)
    <3>1. SUFFICES ASSUME NEW i \in 1..(Len(s) - 1), NEW j \in 1..(Len(s) - 1),
                          r[i] = r[j]
                   PROVE  i = j
      BY Zenon, <2>6 DEF NoDuplicates
    <3> DEFINE up(x) == IF x < kk THEN x ELSE x + 1
    <3>2. /\ up(i) \in DOMAIN s /\ up(j) \in DOMAIN s
          /\ s[up(i)] = s[up(j)]
      BY <2>3, <2>4, <2>5, <2>6, <3>1
    <3>3. up(i) = up(j)
      BY Zenon, <3>2 DEF NoDuplicates
    <3> QED BY <3>3, <2>3, <2>5
  <2>8. Members(r) \subseteq Members(s) \ {h}
    BY <2>3, <2>4, <2>5, <2>6 DEF Members, NoDuplicates
  <2>9. ASSUME NEW g \in Members(s) \ {h} PROVE g \in Members(r)
    <3>1. PICK i \in 1..Len(s) : s[i] = g
      BY DEF Members
    <3>2. CASE i < kk
      <4>1. i \in 1..(Len(s) - 1) /\ r[i] = g
        BY <2>3, <2>4, <2>5, <3>1, <3>2
      <4> QED BY Zenon, <4>1, <2>6 DEF Members
    <3>3. CASE i > kk
      <4>1. i - 1 \in 1..(Len(s) - 1) /\ r[i - 1] = g
        BY <2>3, <2>4, <2>5, <3>1, <3>3
      <4> QED BY Zenon, <4>1, <2>6 DEF Members
    <3> QED BY <2>3, <3>1, <3>2, <3>3
  <2> QED BY <1>2, <2>5, <2>6, <2>7, <2>8, <2>9 DEF r
<1> QED BY Zenon, <1>1, <1>2

\* Putting a hostinfo at the front of a list without duplicates.
LEMMA ToFrontFacts ==
  ASSUME NEW s \in Seq(Host), NEW h \in Host, NoDuplicates(s)
  PROVE  LET t == ToFront(s, h) IN
         /\ t \in Seq(Host)
         /\ NoDuplicates(t)
         /\ Members(t) = Members(s) \cup {h}
         /\ Len(t) >= 1
         /\ t[1] = h
         /\ h \in Members(s) => Len(t) = Len(s)
         /\ h \notin Members(s) => Len(t) = Len(s) + 1
<1> DEFINE r == removeHostInfo(s, h)
           t == ToFront(s, h)
<1>1. /\ r \in Seq(Host) /\ NoDuplicates(r)
      /\ Members(r) = Members(s) \ {h}
      /\ h \in Members(s) => Len(r) = Len(s) - 1
      /\ h \notin Members(s) => r = s
  BY Zenon, RemoveFacts
<1>2. t = [i \in 1..(Len(r) + 1) |-> IF i = 1 THEN h ELSE r[i - 1]]
  BY Zenon DEF ToFront, Prepend
<1> HIDE DEF r, t
<1>3. /\ t \in Seq(Host) /\ Len(t) = Len(r) + 1 /\ t[1] = h
      /\ DOMAIN t = 1..(Len(r) + 1) /\ DOMAIN r = 1..Len(r) /\ Len(r) \in Nat
  BY <1>1, <1>2
<1>4. h \notin Members(r)
  BY Zenon, <1>1
<1>5. NoDuplicates(t)
  BY <1>1, <1>2, <1>3, <1>4 DEF NoDuplicates, Members
<1>6. Members(t) = Members(r) \cup {h}
  <2>1. Members(t) \subseteq Members(r) \cup {h}
    BY <1>1, <1>2, <1>3 DEF Members
  <2>2. ASSUME NEW g \in Members(r) PROVE g \in Members(t)
    <3>1. PICK i \in 1..Len(r) : r[i] = g
      BY <1>1 DEF Members
    <3>2. i + 1 \in 1..(Len(r) + 1) /\ t[i + 1] = g
      BY <1>1, <1>2, <3>1
    <3> QED BY Zenon, <3>2, <1>1, <1>3 DEF Members
  <2>3. h \in Members(t)
    BY <1>1, <1>3 DEF Members
  <2> QED BY Zenon, <2>1, <2>2, <2>3
<1> QED BY <1>1, <1>3, <1>5, <1>6 DEF t

-----------------------------------------------------------------------------
(* The inductive invariant.  LinkedEverywhere alone is not inductive: that *)
(* a delete through a stale pointer cannot unlink another hostinfo needs   *)
(* that no two hostinfos carry one index, that Indexes is consistent with  *)
(* the indexes the hostinfos carry, and that the index of the hostinfo     *)
(* being added is still free.                                              *)

IndexesAgree ==
  \A i \in Index : Indexes[i] # Nil => localIndexId[Indexes[i]] = i

DistinctIndexes ==
  \A g, h \in Host : Known(g) /\ localIndexId[g] = localIndexId[h] => g = h

AddingReserved ==
  adding # Nil => /\ Known(adding)
                  /\ Indexes[localIndexId[adding]] = Nil
                  /\ pos \in 1..(Len(VpnAddrs[adding]) + 1)

LinkInv ==
  /\ TypeOK
  /\ IndexesAgree
  /\ DistinctIndexes
  /\ AddingReserved
  /\ ListsWellFormed
  /\ LinkedEverywhere
  /\ Capped

-----------------------------------------------------------------------------
(* What the operators on lists do to the state.                            *)

LEMMA HostListFacts ==
  ASSUME TypeOK, ListsWellFormed, NEW a \in Addr
  PROVE  /\ HostList(a) \in Seq(Host)
         /\ NoDuplicates(HostList(a))
         /\ HostList(a) = <<>> <=> Hosts[a] = Nil
         /\ HostList(a) # <<>> => HostList(a)[1] = Hosts[a]
<1>1. CASE moreHosts[a] # <<>>
  <2>1. HostList(a) = moreHosts[a]
    BY Zenon, <1>1 DEF HostList
  <2>2. moreHosts[a] \in Seq(Host) /\ Len(moreHosts[a]) >= 2
    BY Zenon, <1>1 DEF TypeOK, ListsWellFormed
  <2>3. moreHosts[a][1] \in Host
    BY <2>2
  <2> QED BY Zenon, <1>1, <2>1, <2>2, <2>3, HostMapAssumption DEF ListsWellFormed
<1>2. CASE moreHosts[a] = <<>> /\ Hosts[a] # Nil
  <2>1. HostList(a) = <<Hosts[a]>> /\ Hosts[a] \in Host
    BY Zenon, <1>2 DEF HostList, TypeOK
  <2>2. NoDuplicates(<<Hosts[a]>>)
    BY DEF NoDuplicates
  <2>3. <<Hosts[a]>> \in Seq(Host) /\ <<Hosts[a]>> # <<>> /\ <<Hosts[a]>>[1] = Hosts[a]
    BY <2>1
  <2> QED BY Zenon, <1>2, <2>1, <2>2, <2>3
<1>3. CASE moreHosts[a] = <<>> /\ Hosts[a] = Nil
  <2>1. HostList(a) = <<>>
    BY Zenon, <1>3 DEF HostList
  <2> QED BY <1>3, <2>1 DEF NoDuplicates
<1> QED BY Zenon, <1>1, <1>2, <1>3

\* unlockedSetHostsForAddr makes the host lists what it is told to and keeps
\* Hosts and moreHosts in step.
LEMMA SetHostsFacts ==
  ASSUME TypeOK, ListsWellFormed,
         NEW A, NEW L \in [Addr -> Seq(Host)],
         \A a \in Addr : NoDuplicates(L[a]),
         SetHostsForAddr(A, L)
  PROVE  /\ Hosts' \in [Addr -> Host \cup {Nil}]
         /\ moreHosts' \in [Addr -> Seq(Host)]
         /\ ListsWellFormed'
         /\ \A a \in Addr : HostList(a)' = IF a \in A THEN L[a] ELSE HostList(a)
<1> USE DEF SetHostsForAddr
<1>0. ASSUME NEW a \in Addr PROVE L[a] \in Seq(Host) /\ (L[a] # <<>> => L[a][1] \in Host /\ Len(L[a]) >= 1)
  <2>1. L[a] \in Seq(Host)
    OBVIOUS
  <2> QED BY <2>1
<1>1. Hosts' \in [Addr -> Host \cup {Nil}] /\ moreHosts' \in [Addr -> Seq(Host)]
  BY <1>0 DEF TypeOK
<1>2. ASSUME NEW a \in Addr PROVE HostList(a)' = IF a \in A THEN L[a] ELSE HostList(a)
  <2>1. CASE a \notin A
    BY Zenon, <2>1 DEF HostList
  <2>2. CASE a \in A /\ L[a] = <<>>
    BY Zenon, <2>2 DEF HostList
  <2>3. CASE a \in A /\ L[a] # <<>> /\ Len(L[a]) > 1
    BY Zenon, <2>3 DEF HostList
  <2>4. CASE a \in A /\ L[a] # <<>> /\ Len(L[a]) = 1
    <3> DEFINE x == L[a][1]
    <3>1. x # Nil
      BY Zenon, <2>4, <1>0, HostMapAssumption
    <3>2. Hosts'[a] = x
      BY Zenon, <2>4
    <3>4. ~(Len(L[a]) > 1)
      BY <2>4
    <3>5. moreHosts'[a] = <<>>
      BY ZenonT(60), <2>4, <3>4
    <3>3. L[a] = <<x>>
      BY <2>4, <1>0
    <3> HIDE DEF x
    <3> QED BY Zenon, <2>4, <3>1, <3>2, <3>3, <3>5 DEF HostList
  <2>5. L[a] = <<>> \/ Len(L[a]) > 1 \/ Len(L[a]) = 1
    <3> DEFINE n == Len(L[a])
    <3>1. L[a] # <<>> => n \in Nat \ {0}
      BY <1>0, EmptySeq, Zenon
    <3> HIDE DEF n
    <3>2. n \in Nat \ {0} => n > 1 \/ n = 1
      OBVIOUS
    <3> QED BY <3>1, <3>2, Zenon DEF n
  <2> HIDE DEF SetHostsForAddr
  <2> QED BY Zenon, <2>1, <2>2, <2>3, <2>4, <2>5
<1>3. ListsWellFormed'
  <2> SUFFICES ASSUME NEW a \in Addr, moreHosts'[a] # <<>>
               PROVE  /\ Len(moreHosts'[a]) >= 2
                      /\ moreHosts'[a][1] = Hosts'[a]
                      /\ NoDuplicates(moreHosts'[a])
    BY Zenon DEF ListsWellFormed
  <2>1. CASE a \notin A
    <3>1. moreHosts'[a] = moreHosts[a] /\ Hosts'[a] = Hosts[a]
      BY Zenon, <2>1
    <3> QED BY Zenon, <3>1 DEF ListsWellFormed
  <2>2. CASE a \in A
    <3>1. moreHosts'[a] = L[a] /\ Len(L[a]) > 1 /\ L[a] # <<>> /\ Hosts'[a] = L[a][1]
      BY Zenon, <2>2, <1>0
    <3> QED BY <3>1, <1>0
  <2> QED BY Zenon, <2>1, <2>2
<1> QED BY Zenon, <1>1, <1>2, <1>3

LEMMA StoreRelayTypes ==
  ASSUME TypeOK, NEW H \in SUBSET Host, NEW r \in [H -> Relay], StoreRelay(H, r)
  PROVE  /\ relayForByAddr' \in [Host -> [Addr -> Relay \cup {NoRelay}]]
         /\ relayForByIdx' \in [Host -> [RelayIndex -> Relay \cup {NoRelay}]]
<1>1. \A h \in H : r[h] \in Relay /\ r[h].PeerAddr \in Addr /\ r[h].LocalIndex \in RelayIndex
  BY Zenon DEF Relay
<1> QED BY Zenon, <1>1 DEF StoreRelay, TypeOK

LEMMA AddrsType == \A h \in Host : Addrs(h) \subseteq Addr /\ VpnAddrs[h][1] \in Addr
<1> SUFFICES ASSUME NEW h \in Host
             PROVE  Addrs(h) \subseteq Addr /\ VpnAddrs[h][1] \in Addr
  OBVIOUS
<1> DEFINE v == VpnAddrs[h]
<1>1. v \in Seq(Addr) /\ Len(v) > 0
  BY Zenon, HostMapAssumption
<1>2. Addrs(h) = {v[i] : i \in DOMAIN v}
  BY Zenon DEF Addrs
<1> HIDE DEF v
<1>3. (\A i \in DOMAIN v : v[i] \in Addr) /\ v[1] \in Addr
  BY <1>1
<1> QED BY Zenon, <1>2, <1>3 DEF v

LEMMA DisestablishTypes ==
  ASSUME TypeOK, NEW h \in Host, NEW L \in [Addr -> Seq(Host)], Disestablish(h, L)
  PROVE  /\ relayForByAddr' \in [Host -> [Addr -> Relay \cup {NoRelay}]]
         /\ relayForByIdx' \in [Host -> [RelayIndex -> Relay \cup {NoRelay}]]
<1> DEFINE hops == relays[h] \cup
                   {relayForByIdx[h][i].PeerAddr : i \in
                      {j \in RelayIndex : relayForByIdx[h][j].Type = "Forwarding"}}
           peer == VpnAddrs[h][1]
           H == {g \in UNION {Members(L[a]) : a \in hops} :
                   relayForByAddr[g][peer] # NoRelay}
           r == [g \in H |-> [relayForByAddr[g][peer] EXCEPT !.State = "Disestablished"]]
<1>1. hops \subseteq Addr
  <2>1. \A i \in RelayIndex : relayForByIdx[h][i].Type = "Forwarding" =>
          relayForByIdx[h][i].PeerAddr \in Addr
    BY DEF TypeOK, Relay, NoRelay
  <2> QED BY <2>1 DEF TypeOK
<1>2. ASSUME NEW a \in hops PROVE Members(L[a]) \subseteq Host
  <2>1. L[a] \in Seq(Host)
    BY Zenon, <1>1
  <2> QED BY <2>1, ElementOfSeq, LenProperties DEF Members
<1>3. H \in SUBSET Host
  BY Zenon, <1>2
<1>4. r \in [H -> Relay]
  <2>1. ASSUME NEW g \in H PROVE r[g] \in Relay
    <3>1. relayForByAddr[g][peer] \in Relay
      BY <1>3, AddrsType DEF TypeOK
    <3> QED BY ZenonT(60), <3>1 DEF Relay, RelayStatus
  <2> QED BY ZenonT(60), <2>1
<1>5. StoreRelay(H, r)
  BY Zenon DEF Disestablish
<1> HIDE DEF H, r, hops, peer
<1> QED BY ZenonT(60), <1>3, <1>4, <1>5, StoreRelayTypes

\* What unlockedDeleteHostInfo does to the lists and to Indexes.
LEMMA DeleteFacts ==
  ASSUME TypeOK, ListsWellFormed, NEW h \in Host, Known(h),
         NEW A, NEW L \in [Addr -> Seq(Host)],
         \A a \in Addr : NoDuplicates(L[a]),
         \A a \in Addr : a \notin A => L[a] = HostList(a),
         unlockedDeleteHostInfo(h, A, L)
  PROVE  /\ Hosts' \in [Addr -> Host \cup {Nil}]
         /\ moreHosts' \in [Addr -> Seq(Host)]
         /\ RemoteIndexes' \in [RemoteIndex -> Host \cup {Nil}]
         /\ Relays' \in [RelayIndex -> Host \cup {Nil}]
         /\ relayForByAddr' \in [Host -> [Addr -> Relay \cup {NoRelay}]]
         /\ relayForByIdx' \in [Host -> [RelayIndex -> Relay \cup {NoRelay}]]
         /\ Indexes' = [Indexes EXCEPT ![localIndexId[h]] = Nil]
         /\ ListsWellFormed'
         /\ \A a \in Addr : HostList(a)' = IF a \in Addrs(h)
                                           THEN removeHostInfo(L[a], h) ELSE L[a]
<1> DEFINE Left == [a \in Addr |-> IF a \in Addrs(h)
                                  THEN removeHostInfo(L[a], h) ELSE L[a]]
<1>1. ASSUME NEW a \in Addr PROVE Left[a] \in Seq(Host) /\ NoDuplicates(Left[a])
  <2>1. L[a] \in Seq(Host)
    OBVIOUS
  <2> QED BY Zenon, <2>1, RemoveFacts
<1>2. Left \in [Addr -> Seq(Host)]
  BY Zenon, <1>1
<1>3. SetHostsForAddr(A \cup Addrs(h), Left)
  BY Zenon DEF unlockedDeleteHostInfo
<1>4. /\ DropIndexes(h) /\ ReclaimRelays(h)
      /\ \/ Disestablish(h, Left)
         \/ UNCHANGED <<relayForByAddr, relayForByIdx>>
  BY Zenon DEF unlockedDeleteHostInfo
<1>5. \A a \in Addr : HostList(a)' = IF a \in A \cup Addrs(h) THEN Left[a] ELSE HostList(a)
  <2> HIDE DEF Left
  <2> QED BY Zenon, <1>1, <1>2, <1>3, SetHostsFacts
<1>6. /\ Hosts' \in [Addr -> Host \cup {Nil}]
      /\ moreHosts' \in [Addr -> Seq(Host)]
      /\ ListsWellFormed'
  <2> HIDE DEF Left
  <2> QED BY Zenon, <1>1, <1>2, <1>3, SetHostsFacts
<1>7. /\ relayForByAddr' \in [Host -> [Addr -> Relay \cup {NoRelay}]]
      /\ relayForByIdx' \in [Host -> [RelayIndex -> Relay \cup {NoRelay}]]
  <2> HIDE DEF Left
  <2>1. CASE Disestablish(h, Left)
    BY Zenon, <2>1, <1>2, DisestablishTypes
  <2>2. CASE UNCHANGED <<relayForByAddr, relayForByIdx>>
    BY Zenon, <2>2 DEF TypeOK
  <2> QED BY Zenon, <1>4, <2>1, <2>2
<1>8. /\ RemoteIndexes' \in [RemoteIndex -> Host \cup {Nil}]
      /\ Relays' \in [RelayIndex -> Host \cup {Nil}]
      /\ Indexes' = [Indexes EXCEPT ![localIndexId[h]] = Nil]
  BY Zenon, <1>4, HostMapAssumption DEF DropIndexes, ReclaimRelays, TypeOK
<1>9. \A a \in Addr : HostList(a)' = Left[a]
  BY Zenon, <1>5
<1> QED BY Zenon, <1>6, <1>7, <1>8, <1>9

LEMMA SameLists ==
  ASSUME UNCHANGED lists
  PROVE  /\ \A a \in Addr : HostList(a)' = HostList(a)
         /\ ListsWellFormed => ListsWellFormed'
         /\ Capped => Capped'
<1>1. \A a \in Addr : HostList(a)' = HostList(a)
  BY Zenon DEF lists, HostList
<1> QED BY Zenon, <1>1 DEF lists, ListsWellFormed, Capped

\* The lists as the other lemmas want them.
LEMMA HostListsFacts ==
  ASSUME TypeOK, ListsWellFormed
  PROVE  /\ HostLists \in [Addr -> Seq(Host)]
         /\ \A a \in Addr : NoDuplicates(HostLists[a]) /\ HostLists[a] = HostList(a)
BY Zenon, HostListFacts DEF HostLists

\* Unlinking h when it is linked, or when no other hostinfo has its index.
LEMMA UnlinkedHeld ==
  ASSUME TypeOK, IndexesAgree, DistinctIndexes, NEW h \in Host, Known(h),
         Indexes' = [Indexes EXCEPT ![localIndexId[h]] = Nil],
         UNCHANGED localIndexId
  PROVE  /\ Indexes' \in [Index -> Host \cup {Nil}]
         /\ IndexesAgree' /\ DistinctIndexes'
         /\ ~Live(h)'
         /\ \A g \in Host : g # h => (Live(g)' <=> Live(g))
<1>1. localIndexId[h] \in Index
  BY Zenon DEF TypeOK, Known
<1>2. \A g \in Host : g # h /\ Known(g) => localIndexId[g] # localIndexId[h]
  BY Zenon DEF DistinctIndexes, Known
<1>3. Indexes' \in [Index -> Host \cup {Nil}] /\ IndexesAgree' /\ DistinctIndexes'
  BY Zenon, <1>1 DEF TypeOK, IndexesAgree, DistinctIndexes, Known
<1>4. ~Live(h)'
  BY Zenon, <1>1, HostMapAssumption DEF Live, TypeOK
<1>5. ASSUME NEW g \in Host, g # h PROVE Live(g)' <=> Live(g)
  BY Zenon, <1>1, <1>2, <1>5, HostMapAssumption DEF Live, Known, TypeOK
<1> QED BY Zenon, <1>3, <1>4, <1>5

-----------------------------------------------------------------------------
(* unlockedAddHostInfo.                                                    *)

\* unlockedInnerAddHostInfo: the first tunnel for the address, one more, or
\* one more and the oldest retired.
LEMMA InnerAddStep ==
  ASSUME LinkInv, InnerAddHostInfo
  PROVE  LinkInv'
<1> USE DEF LinkInv
<1>a. PICK h \in Host : h = adding
  BY Zenon DEF InnerAddHostInfo, TypeOK
<1>b. PICK v \in Seq(Addr) : v = VpnAddrs[h]
  BY Zenon, HostMapAssumption
<1>1. /\ Known(h) /\ Indexes[localIndexId[h]] = Nil
      /\ Len(v) \in Nat /\ DOMAIN v = 1..Len(v)
      /\ pos \in 1..Len(v)
  <2>1. Known(h) /\ Indexes[localIndexId[h]] = Nil
    BY Zenon, <1>a DEF InnerAddHostInfo, AddingReserved, TypeOK
  <2>3. Len(v) \in Nat /\ DOMAIN v = 1..Len(v)
    BY Zenon, LenProperties
  <2>4. pos <= Len(VpnAddrs[adding]) /\ pos \in 1..(Len(VpnAddrs[adding]) + 1)
    BY Zenon DEF InnerAddHostInfo, AddingReserved, TypeOK
  <2> QED BY <1>a, <1>b, <2>1, <2>3, <2>4
<1>c. PICK addr \in Addr : addr = v[pos]
  BY Zenon, <1>1, ElementOfSeq
<1>7. ASSUME NEW a \in Addr
      PROVE  HostList(a) \in Seq(Host) /\ NoDuplicates(HostList(a))
  BY Zenon, HostListFacts
<1>d. PICK list \in Seq(Host) : list = ToFront(HostList(addr), h)
  BY Zenon, <1>7, ToFrontFacts
<1>e. PICK L \in [Addr -> Seq(Host)] : L = [HostLists EXCEPT ![addr] = list]
  BY ZenonT(60), HostListsFacts
<1>2. pos' = pos + 1 /\ UNCHANGED <<localIndexId, relays, adding>>
  BY Zenon DEF InnerAddHostInfo
<1>3. \/ /\ Hosts[addr] = Nil
         /\ Hosts' = [Hosts EXCEPT ![addr] = h]
         /\ UNCHANGED <<moreHosts, Indexes, RemoteIndexes, Relays,
                        relayForByAddr, relayForByIdx>>
      \/ /\ Hosts[addr] # Nil /\ ~OverCap(list)
         /\ SetHostsForAddr({addr}, L)
         /\ UNCHANGED <<Indexes, RemoteIndexes, Relays,
                        relayForByAddr, relayForByIdx>>
      \/ /\ Hosts[addr] # Nil /\ OverCap(list)
         /\ unlockedDeleteHostInfo(list[Len(list)], {addr}, L)
  BY Zenon, <1>a, <1>b, <1>c, <1>d, <1>e DEF InnerAddHostInfo
<1>4. ~Live(h)
  BY Zenon, <1>1, HostMapAssumption DEF Live
<1>5. ASSUME ~Live(h)' PROVE Held(h)' = Held(h) \cup {addr}
  <2>1. Held(h) = {v[k] : k \in {j \in 1..Len(v) : j < pos}}
    BY Zenon, <1>a, <1>b, <1>1, <1>4 DEF Held
  <2>2. Held(h)' = {v[k] : k \in {j \in 1..Len(v) : j < pos + 1}}
    BY Zenon, <1>a, <1>b, <1>1, <1>2, <1>5 DEF Held
  <2>3. {j \in 1..Len(v) : j < pos + 1} = {j \in 1..Len(v) : j < pos} \cup {pos}
    BY <1>1
  <2> QED BY ZenonT(60), <1>c, <2>1, <2>2, <2>3
<1>6. AddingReserved' \/ Indexes'[localIndexId[h]] # Nil
  <2>1. pos' \in 1..(Len(v) + 1)
    BY SMTT(60), <1>1, <1>2
  <2> QED BY Zenon, <1>a, <1>b, <1>1, <1>2, <2>1 DEF AddingReserved, Known
<1>8. /\ NoDuplicates(list)
      /\ Members(list) = Members(HostList(addr)) \cup {h}
      /\ Len(list) >= 1 /\ list[1] = h
      /\ Len(list) \in Nat /\ DOMAIN list = 1..Len(list)
  BY ZenonT(60), <1>7, <1>d, ToFrontFacts, LenProperties
<1>9. /\ \A a \in Addr : NoDuplicates(L[a])
      /\ \A a \in Addr : L[a] = IF a = addr THEN list ELSE HostList(a)
  BY Zenon, <1>8, <1>e, HostListsFacts
<1>10. CASE /\ Hosts[addr] = Nil
            /\ Hosts' = [Hosts EXCEPT ![addr] = h]
            /\ UNCHANGED <<moreHosts, Indexes, RemoteIndexes, Relays,
                           relayForByAddr, relayForByIdx>>
  <2>1. HostList(addr) = <<>> /\ moreHosts[addr] = <<>>
    <3>1. HostList(addr) = <<>>
      BY Zenon, <1>1, <1>10, HostListFacts
    <3> QED BY Zenon, <3>1 DEF HostList
  <2>2. /\ HostList(addr)' = <<h>>
        /\ \A a \in Addr : a # addr => HostList(a)' = HostList(a)
    BY Zenon, <1>1, <1>10, <2>1, HostMapAssumption DEF HostList, TypeOK
  <2>3. TypeOK'
    BY SMTT(60), <1>1, <1>2, <1>10 DEF TypeOK
  <2>4. ListsWellFormed'
    <3> SUFFICES ASSUME NEW a \in Addr, moreHosts'[a] # <<>>
                 PROVE  /\ Len(moreHosts'[a]) >= 2
                        /\ moreHosts'[a][1] = Hosts'[a]
                        /\ NoDuplicates(moreHosts'[a])
      BY Zenon DEF ListsWellFormed
    <3>1. a # addr
      BY Zenon, <1>10, <2>1
    <3> QED BY Zenon, <1>1, <1>10, <3>1 DEF ListsWellFormed, TypeOK
  <2>5. IndexesAgree' /\ DistinctIndexes'
    BY Zenon, <1>2, <1>10 DEF IndexesAgree, DistinctIndexes, Known
  <2>6. AddingReserved' /\ ~Live(h)'
    BY Zenon, <1>1, <1>2, <1>4, <1>6, <1>10 DEF Live, Known
  <2>7. \A g \in Host : Held(g)' = IF g = h THEN Held(g) \cup {addr} ELSE Held(g)
    <3>1. \A g \in Host : g # h => Held(g)' = Held(g)
      BY Zenon, <1>a, <1>2, <1>10 DEF Held, Live, Known, Addrs
    <3> QED BY Zenon, <1>5, <2>6, <3>1
  <2>8. Members(HostList(addr)') = {h} /\ Members(HostList(addr)) = {}
    BY <2>1, <2>2 DEF Members
  <2>9. LinkedEverywhere'
    <3> SUFFICES ASSUME NEW g \in Host, NEW a \in Addr
                 PROVE  g \in Members(HostList(a)') <=> a \in Held(g)'
      BY Zenon DEF LinkedEverywhere
    <3>1. g \in Members(HostList(a)) <=> a \in Held(g)
      BY Zenon DEF LinkedEverywhere
    <3>2. CASE a = addr
      BY ZenonT(60), <2>8, <2>2, <2>7, <3>1, <3>2
    <3>3. CASE a # addr
      BY ZenonT(60), <2>2, <2>7, <3>1, <3>3
    <3> QED BY Zenon, <3>2, <3>3
  <2>10. Capped'
    <3>1. Len(<<h>>) <= MaxHostInfosPerVpnIp
      BY HostMapAssumption
    <3> QED BY ZenonT(60), <2>2, <3>1 DEF Capped
  <2> QED BY Zenon, <2>3, <2>4, <2>5, <2>6, <2>9, <2>10
<1>11. CASE /\ Hosts[addr] # Nil /\ ~OverCap(list)
            /\ SetHostsForAddr({addr}, L)
            /\ UNCHANGED <<Indexes, RemoteIndexes, Relays,
                           relayForByAddr, relayForByIdx>>
  <2>1. /\ Hosts' \in [Addr -> Host \cup {Nil}]
        /\ moreHosts' \in [Addr -> Seq(Host)]
        /\ ListsWellFormed'
        /\ \A a \in Addr : HostList(a)' = IF a \in {addr} THEN L[a] ELSE HostList(a)
    BY Zenon, <1>9, <1>11, SetHostsFacts
  <2>2. \A a \in Addr : HostList(a)' = IF a = addr THEN list ELSE HostList(a)
    BY Zenon, <1>9, <2>1
  <2>3. TypeOK'
    BY SMTT(60), <1>1, <1>2, <1>11, <2>1 DEF TypeOK
  <2>5. IndexesAgree' /\ DistinctIndexes'
    BY ZenonT(60), <1>2, <1>11 DEF IndexesAgree, DistinctIndexes, Known
  <2>6. AddingReserved' /\ ~Live(h)'
    BY Zenon, <1>1, <1>2, <1>4, <1>6, <1>11 DEF Live, Known
  <2>7. \A g \in Host : Held(g)' = IF g = h THEN Held(g) \cup {addr} ELSE Held(g)
    <3>1. \A g \in Host : g # h => Held(g)' = Held(g)
      BY Zenon, <1>a, <1>2, <1>11 DEF Held, Live, Known, Addrs
    <3> QED BY Zenon, <1>5, <2>6, <3>1
  <2>9. LinkedEverywhere'
    <3> SUFFICES ASSUME NEW g \in Host, NEW a \in Addr
                 PROVE  g \in Members(HostList(a)') <=> a \in Held(g)'
      BY Zenon DEF LinkedEverywhere
    <3>1. g \in Members(HostList(a)) <=> a \in Held(g)
      BY Zenon DEF LinkedEverywhere
    <3>2. CASE a = addr
      BY Zenon, <1>8, <2>2, <2>7, <3>1, <3>2
    <3>3. CASE a # addr
      BY Zenon, <2>2, <2>7, <3>1, <3>3
    <3> QED BY Zenon, <3>2, <3>3
  <2>10. Capped'
    <3>1. Len(list) <= MaxHostInfosPerVpnIp
      BY <1>8, <1>11, HostMapAssumption DEF OverCap
    <3> QED BY ZenonT(60), <2>2, <3>1 DEF Capped
  <2> QED BY Zenon, <2>1, <2>3, <2>5, <2>6, <2>9, <2>10
<1>12. CASE /\ Hosts[addr] # Nil /\ OverCap(list)
            /\ unlockedDeleteHostInfo(list[Len(list)], {addr}, L)
  <2>m. MaxHostInfosPerVpnIp \in Nat
    BY Zenon, HostMapAssumption
  <2>0. PICK e \in Host : e = list[Len(list)]
    BY <1>8, ElementOfSeq
  <2>1. Len(list) >= 2 /\ e # h /\ e \in Members(list)
    <3>1. Len(list) >= 2
      BY <1>8, <1>12, HostMapAssumption DEF OverCap
    <3>2. e # h
      BY SMTT(60), <1>8, <2>0, <3>1 DEF NoDuplicates
    <3>3. Len(list) \in DOMAIN list
      BY <1>8
    <3>4. e \in Members(list)
      BY Zenon, <2>0, <3>3 DEF Members
    <3> QED BY Zenon, <3>1, <3>2, <3>4
  <2>2. addr \in Held(e)
    BY Zenon, <1>8, <2>1 DEF LinkedEverywhere
  <2>3. Live(e) /\ addr \in Addrs(e)
    BY Zenon, <1>a, <2>1, <2>2 DEF Held
  <2>4. Known(e)
    BY Zenon, <2>3 DEF Live
  <2>5. unlockedDeleteHostInfo(e, {addr}, L)
    BY Zenon, <1>12, <2>0
  <2>6. /\ Hosts' \in [Addr -> Host \cup {Nil}]
        /\ moreHosts' \in [Addr -> Seq(Host)]
        /\ RemoteIndexes' \in [RemoteIndex -> Host \cup {Nil}]
        /\ Relays' \in [RelayIndex -> Host \cup {Nil}]
        /\ relayForByAddr' \in [Host -> [Addr -> Relay \cup {NoRelay}]]
        /\ relayForByIdx' \in [Host -> [RelayIndex -> Relay \cup {NoRelay}]]
        /\ Indexes' = [Indexes EXCEPT ![localIndexId[e]] = Nil]
        /\ ListsWellFormed'
        /\ \A a \in Addr : HostList(a)' = IF a \in Addrs(e)
                           THEN removeHostInfo(L[a], e) ELSE L[a]
    <3>1. \A a \in Addr : a \notin {addr} => L[a] = HostList(a)
      BY Zenon, <1>9
    <3> QED BY <1>9, <2>4, <2>5, <3>1, DeleteFacts
  <2>7. /\ Indexes' \in [Index -> Host \cup {Nil}]
        /\ IndexesAgree' /\ DistinctIndexes'
        /\ ~Live(e)'
        /\ \A g \in Host : g # e => (Live(g)' <=> Live(g))
    BY ZenonT(60), <1>2, <2>4, <2>6, UnlinkedHeld
  <2>8. TypeOK'
    BY SMTT(60), <1>1, <1>2, <2>6, <2>7 DEF TypeOK
  <2>9. AddingReserved'
    <3>1. Indexes'[localIndexId[h]] = Nil
      BY Zenon, <1>1, <2>4, <2>6 DEF TypeOK, Known
    <3> QED BY Zenon, <1>6, <3>1
  <2>10. \A g \in Host : Held(g)' = IF g = e THEN {}
                                    ELSE IF g = h THEN Held(g) \cup {addr} ELSE Held(g)
    <3>1. Held(e)' = {}
      BY Zenon, <1>a, <1>2, <2>1, <2>7 DEF Held
    <3>2. Held(h)' = Held(h) \cup {addr}
      BY Zenon, <1>4, <1>5, <2>1, <2>7
    <3>3. \A g \in Host : g # e /\ g # h => Held(g)' = Held(g)
      BY Zenon, <1>a, <1>2, <2>7 DEF Held, Addrs
    <3> QED BY Zenon, <3>1, <3>2, <3>3
  <2>11. Held(e) = Addrs(e)
    BY Zenon, <2>3 DEF Held
  <2>12. ASSUME NEW a \in Addr
         PROVE  /\ Members(HostList(a)') = Members(L[a]) \ {e}
                /\ Len(HostList(a)') <= MaxHostInfosPerVpnIp
    <3>1. L[a] \in Seq(Host) /\ NoDuplicates(L[a])
      BY Zenon, <1>9
    <3>2. PICK r \in Seq(Host) : r = removeHostInfo(L[a], e)
      BY Zenon, <3>1, RemoveFacts
    <3>3. /\ Members(r) = Members(L[a]) \ {e}
          /\ Len(r) <= Len(L[a])
          /\ e \in Members(L[a]) => Len(r) = Len(L[a]) - 1
          /\ e \notin Members(L[a]) => r = L[a]
      BY ZenonT(60), <3>1, <3>2, RemoveFacts
    <3>4. Len(r) \in Nat /\ Len(L[a]) \in Nat
      BY Zenon, <3>1, LenProperties
    <3>5. CASE a = addr
      <4>1. HostList(a)' = r /\ L[a] = list
        BY Zenon, <1>9, <2>3, <2>6, <3>2, <3>5
      <4>2. Len(r) = Len(list) - 1
        BY Zenon, <2>1, <3>3, <4>1
      <4>3. Members(HostList(addr)) \cup {h} = Members(list)
        BY Zenon, <1>8
      <4>4. Len(list) <= MaxHostInfosPerVpnIp + 1
        <5>1. Len(HostList(addr)) <= MaxHostInfosPerVpnIp /\ Len(HostList(addr)) \in Nat
          BY Zenon, <1>7, LenProperties DEF Capped
        <5>2. Len(list) = Len(HostList(addr)) \/ Len(list) = Len(HostList(addr)) + 1
          BY ZenonT(60), <1>7, <1>d, ToFrontFacts
        <5> DEFINE m == Len(HostList(addr))
                   n == Len(list)
        <5>3. m \in Nat /\ n \in Nat /\ m <= MaxHostInfosPerVpnIp /\ (n = m \/ n = m + 1)
          BY ZenonT(60), <1>8, <5>1, <5>2
        <5> HIDE DEF m, n
        <5>4. n <= MaxHostInfosPerVpnIp + 1
          BY <2>m, <5>3
        <5> QED BY Zenon, <5>4 DEF n
      <4>5. Len(r) <= MaxHostInfosPerVpnIp
        BY SMTT(60), <1>8, <2>m, <3>4, <4>2, <4>4
      <4> QED BY Zenon, <3>3, <4>1, <4>5
    <3>6. CASE a # addr
      <4>1. L[a] = HostList(a)
        BY Zenon, <1>9, <3>6
      <4>2. Len(L[a]) <= MaxHostInfosPerVpnIp
        BY Zenon, <4>1 DEF Capped
      <4>3. CASE a \in Addrs(e)
        <5>1. Len(r) <= MaxHostInfosPerVpnIp
          BY SMTT(60), <2>m, <3>3, <3>4, <4>2
        <5> QED BY Zenon, <2>6, <3>2, <3>3, <4>3, <5>1
      <4>4. CASE a \notin Addrs(e)
        <5>1. e \notin Members(L[a])
          BY Zenon, <2>11, <4>1, <4>4 DEF LinkedEverywhere
        <5> QED BY Zenon, <2>6, <4>2, <4>4, <5>1
      <4> QED BY Zenon, <4>3, <4>4
    <3> QED BY Zenon, <3>5, <3>6
  <2>13. LinkedEverywhere'
    <3> SUFFICES ASSUME NEW g \in Host, NEW a \in Addr
                 PROVE  g \in Members(HostList(a)') <=> a \in Held(g)'
      BY Zenon DEF LinkedEverywhere
    <3>1. g \in Members(HostList(a)) <=> a \in Held(g)
      BY Zenon DEF LinkedEverywhere
    <3>2. g \in Members(HostList(a)') <=> g \in Members(L[a]) /\ g # e
      BY Zenon, <2>12
    <3>3. CASE a = addr
      BY Zenon, <1>8, <1>9, <2>1, <2>10, <3>1, <3>2, <3>3
    <3>4. CASE a # addr
      BY Zenon, <1>9, <2>1, <2>10, <3>1, <3>2, <3>4
    <3> QED BY Zenon, <3>3, <3>4
  <2>14. Capped'
    BY Zenon, <2>12 DEF Capped
  <2> QED BY ZenonT(60), <2>6, <2>7, <2>8, <2>9, <2>13, <2>14
<1> QED BY Zenon, <1>3, <1>10, <1>11, <1>12

-----------------------------------------------------------------------------
(* One lemma per action that touches the lists or Indexes.                 *)

LEMMA BeginStep ==
  ASSUME LinkInv, ReuseIndexes = FALSE, NEW h \in Host, NEW i \in Index,
         AddHostInfoBegin(h, i)
  PROVE  LinkInv'
<1> USE DEF LinkInv
<1>1. /\ adding = Nil /\ localIndexId[h] = Nil /\ Indexes[i] = Nil
      /\ \A g \in Host : localIndexId[g] # i
      /\ localIndexId' = [localIndexId EXCEPT ![h] = i]
      /\ adding' = h /\ pos' = 1
      /\ UNCHANGED <<lists, Indexes, RemoteIndexes, Relays, relayState>>
  BY Zenon DEF AddHostInfoBegin, Known
<1>2. TypeOK'
  BY Zenon, <1>1 DEF TypeOK, lists, relayState
<1>3. IndexesAgree'
  BY Zenon, <1>1, HostMapAssumption DEF IndexesAgree, TypeOK
<1>4. DistinctIndexes'
  BY Zenon, <1>1 DEF DistinctIndexes, Known, TypeOK
<1>5. AddingReserved'
  <2>1. Len(VpnAddrs[h]) \in Nat
    BY Zenon, HostMapAssumption, LenProperties
  <2> QED BY <1>1, <2>1, HostMapAssumption DEF AddingReserved, Known, TypeOK
<1>6. ASSUME NEW g \in Host PROVE Held(g)' = Held(g)
  <2>1. CASE g = h
    <3>1. ~Live(g) /\ ~Live(g)'
      BY Zenon, <1>1, <2>1, HostMapAssumption DEF Live, Known, TypeOK
    <3>2. {j \in DOMAIN VpnAddrs[g] : j < 1} = {}
      <4>1. VpnAddrs[g] \in Seq(Addr)
        BY Zenon, HostMapAssumption
      <4> QED BY <4>1, LenProperties
    <3> QED BY Zenon, <1>1, <2>1, <3>1, <3>2, HostMapAssumption DEF Held
  <2>2. CASE g # h
    <3>1. Live(g)' <=> Live(g)
      BY Zenon, <1>1, <2>2 DEF Live, Known, TypeOK
    <3> QED BY Zenon, <1>1, <2>2, <3>1, HostMapAssumption DEF Held
  <2> QED BY Zenon, <2>1, <2>2
<1>7. ListsWellFormed' /\ Capped' /\ \A a \in Addr : HostList(a)' = HostList(a)
  BY Zenon, <1>1, SameLists
<1>8. LinkedEverywhere'
  BY Zenon, <1>6, <1>7 DEF LinkedEverywhere
<1> QED BY Zenon, <1>2, <1>3, <1>4, <1>5, <1>7, <1>8

LEMMA EndStep ==
  ASSUME LinkInv, AddHostInfoEnd
  PROVE  LinkInv'
<1> USE DEF LinkInv
<1> DEFINE h == adding
           i == localIndexId[adding]
<1>1. /\ h \in Host /\ i \in Index /\ Indexes[i] = Nil
      /\ pos = Len(VpnAddrs[h]) + 1 /\ Len(VpnAddrs[h]) \in Nat
      /\ Indexes' = [Indexes EXCEPT ![i] = h]
      /\ RemoteIndexes' = [RemoteIndexes EXCEPT ![RemoteIndexId[h]] = h]
      /\ adding' = Nil /\ pos' = 0
      /\ UNCHANGED <<lists, Relays, localIndexId, relayState>>
  <2>1. h \in Host /\ i \in Index
    BY Zenon DEF AddHostInfoEnd, AddingReserved, Known, TypeOK
  <2>2. Len(VpnAddrs[h]) \in Nat
    BY Zenon, <2>1, HostMapAssumption, LenProperties
  <2> QED BY <2>1, <2>2 DEF AddHostInfoEnd, AddingReserved, TypeOK
<1>2. TypeOK'
  BY Zenon, <1>1, HostMapAssumption DEF TypeOK, lists, relayState
<1>3. IndexesAgree' /\ DistinctIndexes'
  BY Zenon, <1>1 DEF IndexesAgree, DistinctIndexes, Known, TypeOK
<1>4. AddingReserved'
  BY Zenon, <1>1 DEF AddingReserved
<1>6. ASSUME NEW g \in Host PROVE Held(g)' = Held(g)
  <2>1. CASE g = h
    <3>1. Live(g)' /\ ~Live(g)
      BY Zenon, <1>1, <2>1, HostMapAssumption DEF Live, Known, TypeOK
    <3>2. {j \in DOMAIN VpnAddrs[g] : j < pos} = DOMAIN VpnAddrs[g]
      <4>1. VpnAddrs[g] \in Seq(Addr)
        BY Zenon, HostMapAssumption
      <4>2. DOMAIN VpnAddrs[g] = 1..Len(VpnAddrs[g])
        BY Zenon, <4>1, LenProperties
      <4> QED BY <1>1, <2>1, <4>2
    <3>3. Held(g)' = Addrs(g)
      BY Zenon, <3>1 DEF Held, Addrs
    <3>4. Held(g) = {VpnAddrs[g][k] : k \in {j \in DOMAIN VpnAddrs[g] : j < pos}}
      BY Zenon, <3>1, <2>1 DEF Held
    <3> QED BY Zenon, <3>2, <3>3, <3>4 DEF Addrs
  <2>2. CASE g # h
    <3>1. Live(g)' <=> Live(g)
      BY Zenon, <1>1, <2>2, HostMapAssumption DEF Live, Known, TypeOK
    <3> QED BY Zenon, <1>1, <2>2, <3>1, HostMapAssumption DEF Held, Addrs
  <2> QED BY Zenon, <2>1, <2>2
<1>7. ListsWellFormed' /\ Capped' /\ \A a \in Addr : HostList(a)' = HostList(a)
  BY Zenon, <1>1, SameLists
<1>8. LinkedEverywhere'
  BY Zenon, <1>6, <1>7 DEF LinkedEverywhere
<1> QED BY Zenon, <1>2, <1>3, <1>4, <1>7, <1>8

LEMMA DeleteStep ==
  ASSUME LinkInv, NEW h \in Host, DeleteHostInfo(h)
  PROVE  LinkInv'
<1> USE DEF LinkInv
<1>1. /\ adding = Nil /\ Known(h)
      /\ unlockedDeleteHostInfo(h, {}, HostLists)
      /\ UNCHANGED <<localIndexId, relays, adding, pos>>
  BY Zenon DEF DeleteHostInfo
<1>2. /\ HostLists \in [Addr -> Seq(Host)]
      /\ \A a \in Addr : NoDuplicates(HostLists[a]) /\ HostLists[a] = HostList(a)
  BY Zenon, HostListsFacts
<1>3. /\ Hosts' \in [Addr -> Host \cup {Nil}]
      /\ moreHosts' \in [Addr -> Seq(Host)]
      /\ RemoteIndexes' \in [RemoteIndex -> Host \cup {Nil}]
      /\ Relays' \in [RelayIndex -> Host \cup {Nil}]
      /\ relayForByAddr' \in [Host -> [Addr -> Relay \cup {NoRelay}]]
      /\ relayForByIdx' \in [Host -> [RelayIndex -> Relay \cup {NoRelay}]]
      /\ Indexes' = [Indexes EXCEPT ![localIndexId[h]] = Nil]
      /\ ListsWellFormed'
      /\ \A a \in Addr : HostList(a)' = IF a \in Addrs(h)
                         THEN removeHostInfo(HostLists[a], h) ELSE HostLists[a]
  <2> DEFINE L == HostLists
  <2>1. /\ L \in [Addr -> Seq(Host)] /\ unlockedDeleteHostInfo(h, {}, L) /\ Known(h)
        /\ \A a \in Addr : NoDuplicates(L[a])
        /\ \A a \in Addr : a \notin {} => L[a] = HostList(a)
    BY Zenon, <1>1, <1>2
  <2> HIDE DEF L
  <2>2. /\ Hosts' \in [Addr -> Host \cup {Nil}]
        /\ moreHosts' \in [Addr -> Seq(Host)]
        /\ RemoteIndexes' \in [RemoteIndex -> Host \cup {Nil}]
        /\ Relays' \in [RelayIndex -> Host \cup {Nil}]
        /\ relayForByAddr' \in [Host -> [Addr -> Relay \cup {NoRelay}]]
        /\ relayForByIdx' \in [Host -> [RelayIndex -> Relay \cup {NoRelay}]]
        /\ Indexes' = [Indexes EXCEPT ![localIndexId[h]] = Nil]
        /\ ListsWellFormed'
        /\ \A a \in Addr : HostList(a)' = IF a \in Addrs(h)
                           THEN removeHostInfo(L[a], h) ELSE L[a]
    BY ZenonT(60), <2>1, DeleteFacts
  <2> QED BY Zenon, <2>2 DEF L
<1>4. /\ Indexes' \in [Index -> Host \cup {Nil}]
      /\ IndexesAgree' /\ DistinctIndexes'
      /\ ~Live(h)'
      /\ \A g \in Host : g # h => (Live(g)' <=> Live(g))
  BY ZenonT(60), <1>1, <1>3, UnlinkedHeld
<1>5. TypeOK'
  BY Zenon, <1>1, <1>3, <1>4 DEF TypeOK
<1>6. AddingReserved'
  BY Zenon, <1>1 DEF AddingReserved
<1>7. ASSUME NEW g \in Host PROVE Held(g)' = IF g = h THEN {} ELSE Held(g)
  BY Zenon, <1>1, <1>4, HostMapAssumption DEF Held, Addrs
<1>8. ASSUME NEW a \in Addr
      PROVE  /\ Members(HostList(a)') = Members(HostList(a)) \ {h}
             /\ Len(HostList(a)') <= MaxHostInfosPerVpnIp
  <2>1. HostList(a) \in Seq(Host) /\ NoDuplicates(HostList(a))
        /\ Len(HostList(a)) <= MaxHostInfosPerVpnIp
    BY Zenon, HostListFacts DEF Capped
  <2>2. CASE a \in Addrs(h)
    <3> DEFINE r == removeHostInfo(HostList(a), h)
    <3>1. HostList(a)' = r
      BY Zenon, <1>2, <1>3, <2>2
    <3>2. Members(r) = Members(HostList(a)) \ {h} /\ Len(r) <= Len(HostList(a)) /\ r \in Seq(Host)
      BY Zenon, <2>1, RemoveFacts
    <3>3. Len(r) \in Nat /\ Len(HostList(a)) \in Nat
      BY Zenon, <2>1, <3>2, LenProperties
    <3> HIDE DEF r
    <3> QED BY <2>1, <3>1, <3>2, <3>3, HostMapAssumption
  <2>3. CASE a \notin Addrs(h)
    <3>1. HostList(a)' = HostList(a)
      BY Zenon, <1>2, <1>3, <2>3
    <3>2. h \notin Members(HostList(a))
      BY Zenon, <1>1, <2>3, HostMapAssumption DEF LinkedEverywhere, Held
    <3> QED BY Zenon, <2>1, <3>1, <3>2
  <2> QED BY Zenon, <2>2, <2>3
<1>9. LinkedEverywhere' /\ Capped'
  BY Zenon, <1>7, <1>8 DEF LinkedEverywhere, Capped
<1> QED BY Zenon, <1>3, <1>4, <1>5, <1>6, <1>9

\* unlockedMakePrimary of a live hostinfo only reorders the lists.
LEMMA PrimaryFacts ==
  ASSUME LinkInv, NEW h \in Host, Live(h), unlockedMakePrimary(h), adding = Nil
  PROVE  /\ Hosts' \in [Addr -> Host \cup {Nil}]
         /\ moreHosts' \in [Addr -> Seq(Host)]
         /\ ListsWellFormed' /\ Capped'
         /\ \A a \in Addr : Members(HostList(a)') = Members(HostList(a))
<1> USE DEF LinkInv
<1> DEFINE A == {a \in Addrs(h) : Hosts[a] # h}
           L == [a \in Addr |-> ToFront(HostList(a), h)]
<1>1. ASSUME NEW a \in Addr
      PROVE  /\ HostList(a) \in Seq(Host) /\ NoDuplicates(HostList(a))
             /\ L[a] \in Seq(Host) /\ NoDuplicates(L[a])
             /\ Members(L[a]) = Members(HostList(a)) \cup {h}
             /\ h \in Members(HostList(a)) => Len(L[a]) = Len(HostList(a))
  BY Zenon, HostListFacts, ToFrontFacts
<1>2. L \in [Addr -> Seq(Host)]
  BY Zenon, <1>1
<1>3. SetHostsForAddr(A, L)
  BY Zenon DEF unlockedMakePrimary
<1>4. \A a \in A : h \in Members(HostList(a))
  BY Zenon, AddrsType DEF LinkedEverywhere, Held
<1> HIDE DEF A, L
<1>5. /\ Hosts' \in [Addr -> Host \cup {Nil}]
      /\ moreHosts' \in [Addr -> Seq(Host)]
      /\ ListsWellFormed'
      /\ \A a \in Addr : HostList(a)' = IF a \in A THEN L[a] ELSE HostList(a)
  BY Zenon, <1>1, <1>2, <1>3, SetHostsFacts
<1>6. \A a \in Addr : Members(HostList(a)') = Members(HostList(a))
  BY ZenonT(60), <1>1, <1>4, <1>5
<1>7. Capped'
  BY Zenon, <1>1, <1>4, <1>5 DEF Capped
<1> QED BY Zenon, <1>5, <1>6, <1>7

\* A step that keeps Indexes, the indexes of the hostinfos and the lock
\* preserves the invariant if it keeps the members of every list.
LEMMA SameMembersStep ==
  ASSUME LinkInv, TypeOK', ListsWellFormed', Capped',
         UNCHANGED <<Indexes, localIndexId, adding, pos>>,
         \A a \in Addr : Members(HostList(a)') = Members(HostList(a))
  PROVE  LinkInv'
<1>1. IndexesAgree' /\ DistinctIndexes' /\ AddingReserved'
  BY Zenon DEF LinkInv, IndexesAgree, DistinctIndexes, AddingReserved, Known
<1>2. \A g \in Host : Held(g)' = Held(g)
  BY Zenon DEF Held, Live, Known, Addrs
<1>3. LinkedEverywhere'
  BY Zenon, <1>2 DEF LinkInv, LinkedEverywhere
<1> QED BY Zenon, <1>1, <1>3 DEF LinkInv

LEMMA PrimaryStep ==
  ASSUME LinkInv, NEW h \in Host, MakePrimary(h)
  PROVE  LinkInv'
<1>1. /\ adding = Nil /\ Live(h) /\ unlockedMakePrimary(h)
      /\ UNCHANGED <<Indexes, RemoteIndexes, Relays, localIndexId, relayState, adding, pos>>
  BY Zenon DEF MakePrimary, Live, StillLinked
<1>2. /\ Hosts' \in [Addr -> Host \cup {Nil}]
      /\ moreHosts' \in [Addr -> Seq(Host)]
      /\ ListsWellFormed' /\ Capped'
      /\ \A a \in Addr : Members(HostList(a)') = Members(HostList(a))
  BY Zenon, <1>1, PrimaryFacts
<1>3. TypeOK'
  BY Zenon, <1>1, <1>2 DEF LinkInv, TypeOK, relayState
<1> QED BY Zenon, <1>1, <1>2, <1>3, SameMembersStep

LEMMA AddRelayStep ==
  ASSUME LinkInv, NEW h \in Host, NEW i \in RelayIndex, NEW peer \in Addr,
         NEW req \in RelayRequests, AddRelay(h, i, peer, req)
  PROVE  LinkInv'
<1> DEFINE r == [g \in {h} |-> [Type |-> req[1], State |-> req[2],
                               LocalIndex |-> i, PeerAddr |-> peer]]
<1>1. /\ adding = Nil /\ Live(h) /\ unlockedMakePrimary(h)
      /\ Relays' = [Relays EXCEPT ![i] = h]
      /\ StoreRelay({h}, r)
      /\ UNCHANGED <<Indexes, RemoteIndexes, localIndexId, relays, adding, pos>>
  BY ZenonT(60) DEF AddRelay, Live, StillLinked
<1>2. /\ Hosts' \in [Addr -> Host \cup {Nil}]
      /\ moreHosts' \in [Addr -> Seq(Host)]
      /\ ListsWellFormed' /\ Capped'
      /\ \A a \in Addr : Members(HostList(a)') = Members(HostList(a))
  BY Zenon, <1>1, PrimaryFacts
<1>3. r \in [{h} -> Relay]
  BY DEF RelayRequests, Relay, RelayType, RelayStatus
<1> HIDE DEF r
<1>4. /\ relayForByAddr' \in [Host -> [Addr -> Relay \cup {NoRelay}]]
      /\ relayForByIdx' \in [Host -> [RelayIndex -> Relay \cup {NoRelay}]]
  BY ZenonT(60), <1>1, <1>3, StoreRelayTypes DEF LinkInv
<1>5. TypeOK'
  BY Zenon, <1>1, <1>2, <1>4 DEF LinkInv, TypeOK
<1> QED BY Zenon, <1>1, <1>2, <1>5, SameMembersStep

\* The steps under the relay state's own lock.
LEMMA RelayStateStep ==
  ASSUME LinkInv, NEW h \in Host,
         \/ \E peer \in Addr, s \in {"Requested", "Established"} :
              UpdateRelayForByIpState(h, peer, s)
         \/ \E i \in RelayIndex : UpdateRelayForByIdxState(h, i)
         \/ \E a \in Addr : InsertRelayTo(h, a) \/ DeleteRelay(h, a)
  PROVE  LinkInv'
<1>1. UNCHANGED <<lists, Indexes, RemoteIndexes, Relays, localIndexId, adding, pos>>
  BY Zenon DEF UpdateRelayForByIpState, UpdateRelayForByIdxState, InsertRelayTo, DeleteRelay
<1>2. TypeOK'
  <2>1. ASSUME NEW peer \in Addr, NEW s \in {"Requested", "Established"},
               UpdateRelayForByIpState(h, peer, s)
        PROVE  TypeOK'
    <3> DEFINE r == [g \in {h} |-> [relayForByAddr[h][peer] EXCEPT !.State = s]]
    <3>1. relayForByAddr[h][peer] \in Relay
      BY <2>1 DEF UpdateRelayForByIpState, LinkInv, TypeOK
    <3>2. r \in [{h} -> Relay]
      BY Zenon, <3>1 DEF Relay, RelayStatus
    <3>3. StoreRelay({h}, r)
      BY Zenon, <2>1 DEF UpdateRelayForByIpState
    <3> HIDE DEF r
    <3>4. /\ relayForByAddr' \in [Host -> [Addr -> Relay \cup {NoRelay}]]
          /\ relayForByIdx' \in [Host -> [RelayIndex -> Relay \cup {NoRelay}]]
      BY Zenon, <3>2, <3>3, StoreRelayTypes DEF LinkInv
    <3> QED BY Zenon, <1>1, <2>1, <3>4 DEF UpdateRelayForByIpState, LinkInv, TypeOK, lists
  <2>2. ASSUME NEW i \in RelayIndex, UpdateRelayForByIdxState(h, i)
        PROVE  TypeOK'
    <3> DEFINE r == [g \in {h} |-> [relayForByIdx[h][i] EXCEPT !.State = "Established"]]
    <3>1. relayForByIdx[h][i] \in Relay
      BY <2>2 DEF UpdateRelayForByIdxState, LinkInv, TypeOK
    <3>2. r \in [{h} -> Relay]
      BY Zenon, <3>1 DEF Relay, RelayStatus
    <3>3. StoreRelay({h}, r)
      BY Zenon, <2>2 DEF UpdateRelayForByIdxState
    <3> HIDE DEF r
    <3>4. /\ relayForByAddr' \in [Host -> [Addr -> Relay \cup {NoRelay}]]
          /\ relayForByIdx' \in [Host -> [RelayIndex -> Relay \cup {NoRelay}]]
      BY Zenon, <3>2, <3>3, StoreRelayTypes DEF LinkInv
    <3> QED BY Zenon, <1>1, <2>2, <3>4 DEF UpdateRelayForByIdxState, LinkInv, TypeOK, lists
  <2>3. ASSUME NEW a \in Addr, InsertRelayTo(h, a) \/ DeleteRelay(h, a)
        PROVE  TypeOK'
    <3>1. relays' \in [Host -> SUBSET Addr]
      <4>1. relays \in [Host -> SUBSET Addr]
        BY Zenon DEF LinkInv, TypeOK
      <4>2. CASE InsertRelayTo(h, a)
        <5>1. relays' = [relays EXCEPT ![h] = relays[h] \cup {a}]
          BY Zenon, <4>2 DEF InsertRelayTo
        <5>2. relays[h] \cup {a} \in SUBSET Addr
          BY Zenon, <4>1
        <5> QED BY Zenon, <4>1, <5>1, <5>2
      <4>3. CASE DeleteRelay(h, a)
        <5>1. relays' = [relays EXCEPT ![h] = relays[h] \ {a}]
          BY Zenon, <4>3 DEF DeleteRelay
        <5>2. relays[h] \ {a} \in SUBSET Addr
          BY Zenon, <4>1
        <5> QED BY Zenon, <4>1, <5>1, <5>2
      <4> QED BY Zenon, <2>3, <4>2, <4>3
    <3>2. UNCHANGED <<relayForByAddr, relayForByIdx>>
      BY Zenon, <2>3 DEF InsertRelayTo, DeleteRelay
    <3> QED BY Zenon, <1>1, <3>1, <3>2 DEF LinkInv, TypeOK, lists
  <2> QED BY Zenon, <2>1, <2>2, <2>3
<1>3. ListsWellFormed' /\ Capped' /\ \A a \in Addr : HostList(a)' = HostList(a)
  BY Zenon, <1>1, SameLists DEF LinkInv
<1> QED BY Zenon, <1>1, <1>2, <1>3, SameMembersStep

-----------------------------------------------------------------------------
LEMMA LinkInit == Init => LinkInv
<1> SUFFICES ASSUME Init PROVE LinkInv
  OBVIOUS
<1> USE DEF Init
<1>1. TypeOK
  BY DEF TypeOK
<1>2. \A a \in Addr : HostList(a) = <<>>
  BY Zenon DEF HostList
<1>3. ListsWellFormed /\ Capped
  BY SMTT(60), <1>2, HostMapAssumption DEF ListsWellFormed, Capped
<1>4. IndexesAgree /\ DistinctIndexes /\ AddingReserved
  BY Zenon DEF IndexesAgree, DistinctIndexes, AddingReserved, Known
<1>5. \A h \in Host : Held(h) = {}
  BY Zenon, HostMapAssumption DEF Held, Live, Known
<1>6. Members(<<>>) = {}
  BY DEF Members
<1>7. LinkedEverywhere
  BY Zenon, <1>2, <1>5, <1>6 DEF LinkedEverywhere
<1> QED BY Zenon, <1>1, <1>3, <1>4, <1>7 DEF LinkInv

LEMMA LinkNext ==
  ASSUME ReuseIndexes = FALSE, LinkInv, [Next]_vars
  PROVE  LinkInv'
<1>1. CASE UNCHANGED vars
  <2>1. UNCHANGED lists /\ TypeOK'
    BY Zenon, <1>1 DEF vars, lists, LinkInv, TypeOK
  <2> QED BY Zenon, <1>1, <2>1, SameLists, SameMembersStep DEF vars, LinkInv
<1>2. CASE InnerAddHostInfo
  BY Zenon, <1>2, InnerAddStep
<1>3. CASE AddHostInfoEnd
  BY Zenon, <1>3, EndStep
<1>4. ASSUME NEW h \in Host, NEW i \in Index, AddHostInfoBegin(h, i)
      PROVE  LinkInv'
  BY ZenonT(60), <1>4, BeginStep
<1>5. ASSUME NEW h \in Host, DeleteHostInfo(h) PROVE LinkInv'
  BY Zenon, <1>5, DeleteStep
<1>6. ASSUME NEW h \in Host, MakePrimary(h) PROVE LinkInv'
  BY Zenon, <1>6, PrimaryStep
<1>7. ASSUME NEW h \in Host, NEW i \in RelayIndex, NEW peer \in Addr,
             NEW req \in RelayRequests, AddRelay(h, i, peer, req)
      PROVE  LinkInv'
  BY Zenon, <1>7, AddRelayStep
<1>8. ASSUME NEW h \in Host,
             \/ \E peer \in Addr, s \in {"Requested", "Established"} :
                  UpdateRelayForByIpState(h, peer, s)
             \/ \E i \in RelayIndex : UpdateRelayForByIdxState(h, i)
             \/ \E a \in Addr : InsertRelayTo(h, a) \/ DeleteRelay(h, a)
      PROVE  LinkInv'
  BY Zenon, <1>8, RelayStateStep
<1> QED BY Zenon, <1>1, <1>2, <1>3, <1>4, <1>5, <1>6, <1>7, <1>8 DEF Next

LEMMA LinkAlways == ReuseIndexes = FALSE => (Spec => []LinkInv)
<1> SUFFICES ASSUME ReuseIndexes = FALSE PROVE Spec => []LinkInv
  BY Zenon
<1>1. Init => LinkInv
  BY Zenon, LinkInit
<1>2. LinkInv /\ [Next]_vars => LinkInv'
  BY ZenonT(60), LinkNext
<1> QED BY <1>1, <1>2, PTL DEF Spec

\* The hostmap's maps are well typed in every reachable state.
THEOREM HostMapTyped == ReuseIndexes = FALSE => (Spec => []TypeOK)
<1>1. LinkInv => TypeOK
  BY Zenon DEF LinkInv
<1> QED BY <1>1, LinkAlways, PTL

\* In every reachable state a hostinfo is found through an address exactly
\* when it owns the address and is registered under its local index: stale
\* deletes, promotions and relay registrations never dangle or resurrect.
THEOREM HostMapLinked == ReuseIndexes = FALSE => (Spec => []LinkedEverywhere)
<1>1. LinkInv => LinkedEverywhere
  BY Zenon DEF LinkInv
<1> QED BY <1>1, LinkAlways, PTL

\* Hosts and moreHosts stay in step, primary first and without duplicates,
\* linked where the hostinfo is registered, and no address exceeds
\* MaxHostInfosPerVpnIp hostinfos, whatever the cap is.
THEOREM HostMapListsAgree == ReuseIndexes = FALSE => (Spec => []ListsAgree)
<1>1. LinkInv => ListsAgree
  BY Zenon DEF LinkInv, ListsAgree
<1> QED BY <1>1, LinkAlways, PTL

-----------------------------------------------------------------------------
(* Succession: what the first entry of a list becomes.                     *)

\* What PrimarySuccession says of one address.
Succession(a) ==
  Hosts'[a] # Hosts[a] =>
    \/ Hosts'[a] = adding
    \/ Hosts'[a] # Nil /\ Hosts[a] \in Members(HostList(a)')
    \/ /\ Hosts[a] \notin Members(HostList(a)')
       /\ Hosts'[a] = IF Len(HostList(a)) = 1 THEN Nil ELSE HostList(a)[2]

\* removeHostInfo keeps the first entry, or makes the second one the first.
LEMMA RemoveHead ==
  ASSUME NEW s \in Seq(Host), NEW h \in Host, NoDuplicates(s), s # <<>>
  PROVE  LET r == removeHostInfo(s, h) IN
         /\ s[1] # h => r # <<>> /\ r[1] = s[1]
         /\ s[1] = h /\ Len(s) = 1 => r = <<>>
         /\ s[1] = h /\ Len(s) # 1 => r # <<>> /\ r[1] = s[2]
<1> DEFINE r == removeHostInfo(s, h)
<1>0. Len(s) \in Nat /\ Len(s) >= 1 /\ DOMAIN s = 1..Len(s)
  BY EmptySeq, LenProperties
<1>1. CASE h \notin Members(s)
  <2>1. s[1] # h
    BY <1>0, <1>1 DEF Members
  <2>2. r = s
    BY Zenon, <1>1 DEF removeHostInfo
  <2> QED BY Zenon, <2>1, <2>2
<1>2. CASE h \in Members(s)
  <2> DEFINE kk == CHOOSE k \in DOMAIN s : s[k] = h /\ \A j \in 1..(k - 1) : s[j] # h
  <2>1. PICK k0 \in DOMAIN s : s[k0] = h
    BY Zenon, <1>2 DEF Members
  <2>2. \A j \in 1..(k0 - 1) : s[j] # h
    BY <1>0, <2>1 DEF NoDuplicates
  <2>3. kk \in 1..Len(s) /\ s[kk] = h
    BY Zenon, <1>0, <2>1, <2>2
  <2>4. r = [i \in 1..(Len(s) - 1) |-> IF i < kk THEN s[i] ELSE s[i + 1]]
    BY Zenon, <1>2 DEF removeHostInfo
  <2> HIDE DEF kk, r
  <2>5. CASE s[1] # h
    <3>1. kk > 1 /\ 1 \in 1..(Len(s) - 1)
      BY <1>0, <2>3, <2>5
    <3>2. r[1] = s[1] /\ DOMAIN r = 1..(Len(s) - 1)
      BY Zenon, <2>4, <3>1
    <3>3. r # <<>>
      BY <3>1, <3>2
    <3> QED BY Zenon, <2>5, <3>2, <3>3 DEF r
  <2>6. CASE s[1] = h
    <3>1. kk = 1
      BY <1>0, <2>3, <2>6 DEF NoDuplicates
    <3>2. CASE Len(s) = 1
      <4>1. r = <<>>
        BY <2>4, <3>2
      <4> QED BY Zenon, <2>6, <3>2, <4>1 DEF r
    <3>3. CASE Len(s) # 1
      <4>1. 1 \in 1..(Len(s) - 1)
        BY <1>0, <3>3
      <4>2. r[1] = s[2] /\ DOMAIN r = 1..(Len(s) - 1)
        BY <2>4, <3>1, <4>1
      <4>3. r # <<>>
        BY <4>1, <4>2
      <4> QED BY Zenon, <2>6, <3>3, <4>2, <4>3 DEF r
    <3> QED BY Zenon, <3>2, <3>3
  <2> QED BY Zenon, <2>5, <2>6
<1> QED BY Zenon, <1>1, <1>2

\* The primary after a step is the first entry of the list after it.
LEMMA HeadNext ==
  ASSUME TypeOK', ListsWellFormed', NEW a \in Addr
  PROVE  /\ HostList(a)' = <<>> => Hosts'[a] = Nil
         /\ HostList(a)' # <<>> => Hosts'[a] = HostList(a)'[1] /\ Hosts'[a] # Nil
<1>1. CASE moreHosts'[a] # <<>>
  <2>1. HostList(a)' = moreHosts'[a]
    BY Zenon, <1>1 DEF HostList
  <2>2. /\ moreHosts'[a] \in Seq(Host) /\ Len(moreHosts'[a]) >= 2
        /\ moreHosts'[a][1] = Hosts'[a]
    BY Zenon, <1>1 DEF TypeOK, ListsWellFormed
  <2>3. moreHosts'[a][1] \in Host
    BY <2>2
  <2> QED BY Zenon, <1>1, <2>1, <2>2, <2>3, HostMapAssumption
<1>2. CASE moreHosts'[a] = <<>> /\ Hosts'[a] # Nil
  <2>1. HostList(a)' = <<Hosts'[a]>>
    BY Zenon, <1>2 DEF HostList
  <2>2. <<Hosts'[a]>> # <<>> /\ <<Hosts'[a]>>[1] = Hosts'[a]
    OBVIOUS
  <2> QED BY Zenon, <1>2, <2>1, <2>2
<1>3. CASE moreHosts'[a] = <<>> /\ Hosts'[a] = Nil
  <2>1. HostList(a)' = <<>>
    BY Zenon, <1>3 DEF HostList
  <2> QED BY Zenon, <1>3, <2>1
<1> QED BY Zenon, <1>1, <1>2, <1>3

\* A list that stays keeps its primary.
LEMMA SameHead ==
  ASSUME LinkInv, LinkInv', NEW a \in Addr, HostList(a)' = HostList(a)
  PROVE  Hosts'[a] = Hosts[a]
<1>1. /\ HostList(a) = <<>> => Hosts'[a] = Nil
      /\ HostList(a) # <<>> => Hosts'[a] = HostList(a)[1]
  BY Zenon, HeadNext DEF LinkInv
<1>2. /\ HostList(a) = <<>> => Hosts[a] = Nil
      /\ HostList(a) # <<>> => Hosts[a] = HostList(a)[1]
  BY Zenon, HostListFacts DEF LinkInv
<1> QED BY Zenon, <1>1, <1>2

\* A list that loses one hostinfo is headed by the successor.
LEMMA CutHead ==
  ASSUME LinkInv, LinkInv', NEW a \in Addr, NEW h \in Host,
         HostList(a)' = removeHostInfo(HostList(a), h)
  PROVE  Succession(a)
<1> DEFINE s == HostList(a)
           r == removeHostInfo(s, h)
<1>1. /\ s \in Seq(Host) /\ NoDuplicates(s)
      /\ s # <<>> => s[1] = Hosts[a]
  BY Zenon, HostListFacts DEF LinkInv
<1>2. CASE s = <<>>
  <2>1. h \notin Members(s)
    BY <1>2 DEF Members
  <2>2. r = s
    BY Zenon, <1>1, <2>1, RemoveFacts
  <2>3. Hosts'[a] = Hosts[a]
    BY Zenon, <2>2, SameHead
  <2> QED BY Zenon, <2>3 DEF Succession
<1>3. CASE s # <<>>
  <2>1. /\ s[1] # h => r # <<>> /\ r[1] = s[1]
        /\ s[1] = h /\ Len(s) = 1 => r = <<>>
        /\ s[1] = h /\ Len(s) # 1 => r # <<>> /\ r[1] = s[2]
    BY Zenon, <1>1, <1>3, RemoveHead
  <2>2. Members(r) = Members(s) \ {h}
    BY Zenon, <1>1, RemoveFacts
  <2>3. /\ r = <<>> => Hosts'[a] = Nil
        /\ r # <<>> => Hosts'[a] = r[1]
    BY Zenon, HeadNext DEF LinkInv
  <2>4. Members(HostList(a)') = Members(s) \ {h}
    BY Zenon, <2>2
  <2> HIDE DEF r
  <2>5. CASE s[1] = h
    BY ZenonT(60), <1>1, <1>3, <2>1, <2>3, <2>4, <2>5 DEF Succession
  <2>6. CASE s[1] # h
    BY ZenonT(60), <1>1, <1>3, <2>1, <2>3, <2>6 DEF Succession
  <2> QED BY Zenon, <2>5, <2>6
<1> QED BY Zenon, <1>2, <1>3

\* A promotion keeps the former primary in the list.
LEMMA PromotedHead ==
  ASSUME LinkInv, NEW h \in Host, Live(h), unlockedMakePrimary(h), adding = Nil,
         NEW a \in Addr
  PROVE  Succession(a)
<1> SUFFICES ASSUME Hosts'[a] # Hosts[a]
             PROVE  Hosts'[a] # Nil /\ Hosts[a] \in Members(HostList(a)')
  BY Zenon DEF Succession
<1> DEFINE s == HostList(a)
           t == ToFront(s, h)
<1>1. /\ s \in Seq(Host) /\ NoDuplicates(s)
      /\ s # <<>> => s[1] = Hosts[a]
  BY Zenon, HostListFacts DEF LinkInv
<1>2. t[1] = h /\ Len(t) >= 1
  BY Zenon, <1>1, ToFrontFacts
<1>3. t # <<>>
  BY <1>2
<1>4. a \in Addrs(h) /\ Hosts'[a] = IF t = <<>> THEN Nil ELSE t[1]
  BY Zenon DEF unlockedMakePrimary, SetHostsForAddr
<1>5. Hosts'[a] = h /\ h # Nil
  BY Zenon, <1>2, <1>3, <1>4, HostMapAssumption
<1>6. h \in Members(s)
  BY Zenon, <1>4 DEF LinkInv, LinkedEverywhere, Held
<1>7. s # <<>> /\ s[1] \in Members(s)
  BY <1>1, <1>6 DEF Members
<1>8. Members(HostList(a)') = Members(s)
  BY Zenon, PrimaryFacts
<1> QED BY Zenon, <1>1, <1>5, <1>7, <1>8

\* A delete promotes the next hostinfo at every address it empties the front of.
LEMMA DeletedHead ==
  ASSUME LinkInv, LinkInv', NEW h \in Host, DeleteHostInfo(h), NEW a \in Addr
  PROVE  Succession(a)
<1> DEFINE L == HostLists
<1>1. /\ L \in [Addr -> Seq(Host)] /\ unlockedDeleteHostInfo(h, {}, L) /\ Known(h)
      /\ \A b \in Addr : NoDuplicates(L[b])
      /\ \A b \in Addr : L[b] = HostList(b)
      /\ \A b \in Addr : b \notin {} => L[b] = HostList(b)
  BY Zenon, HostListsFacts DEF LinkInv, DeleteHostInfo
<1> HIDE DEF L
<1>2. HostList(a)' = IF a \in Addrs(h) THEN removeHostInfo(L[a], h) ELSE L[a]
  BY ZenonT(60), <1>1, DeleteFacts DEF LinkInv
<1>3. CASE a \in Addrs(h)
  BY Zenon, <1>1, <1>2, <1>3, CutHead
<1>4. CASE a \notin Addrs(h)
  BY Zenon, <1>1, <1>2, <1>4, SameHead DEF Succession
<1> QED BY Zenon, <1>3, <1>4

\* The hostinfo being added heads the list of its address; the oldest one,
\* which the cap evicts, was the head of no list whose successor is skipped.
LEMMA AddedHead ==
  ASSUME LinkInv, LinkInv', InnerAddHostInfo, NEW a \in Addr
  PROVE  Succession(a)
<1>1. PICK h \in Host : h = adding
  BY Zenon DEF InnerAddHostInfo, LinkInv, TypeOK
<1>2. PICK v \in Seq(Addr) : v = VpnAddrs[h]
  BY Zenon, HostMapAssumption
<1>3. /\ Known(h) /\ Indexes[localIndexId[h]] = Nil /\ pos \in 1..Len(v)
      /\ h # Nil
  <2>1. Known(h) /\ Indexes[localIndexId[h]] = Nil
    BY Zenon, <1>1 DEF InnerAddHostInfo, LinkInv, AddingReserved
  <2>2. pos <= Len(v) /\ pos \in 1..(Len(v) + 1) /\ Len(v) \in Nat
    BY Zenon, <1>1, <1>2, LenProperties DEF InnerAddHostInfo, LinkInv, AddingReserved
  <2> QED BY <2>1, <2>2, HostMapAssumption
<1>4. PICK addr \in Addr : addr = v[pos]
  BY Zenon, <1>3, ElementOfSeq
<1>5. HostList(addr) \in Seq(Host) /\ NoDuplicates(HostList(addr))
  BY Zenon, HostListFacts DEF LinkInv
<1>6. PICK list \in Seq(Host) : list = ToFront(HostList(addr), h)
  BY Zenon, <1>5, ToFrontFacts
<1>7. /\ NoDuplicates(list) /\ Len(list) >= 1 /\ list[1] = h
      /\ Members(list) = Members(HostList(addr)) \cup {h}
      /\ Len(list) \in Nat /\ DOMAIN list = 1..Len(list)
  BY ZenonT(60), <1>5, <1>6, ToFrontFacts, LenProperties
<1>8. list # <<>>
  BY <1>7
<1>9. PICK L \in [Addr -> Seq(Host)] : L = [HostLists EXCEPT ![addr] = list]
  <2>1. HostLists \in [Addr -> Seq(Host)]
    BY Zenon, HostListsFacts DEF LinkInv
  <2>2. [HostLists EXCEPT ![addr] = list] \in [Addr -> Seq(Host)]
    BY Zenon, <2>1
  <2> QED BY Zenon, <2>2
<1>10. /\ \A b \in Addr : NoDuplicates(L[b])
       /\ \A b \in Addr : L[b] = IF b = addr THEN list ELSE HostList(b)
  BY Zenon, <1>7, <1>9, HostListsFacts DEF LinkInv
<1>11. \/ Hosts[addr] = Nil /\ Hosts' = [Hosts EXCEPT ![addr] = h]
       \/ SetHostsForAddr({addr}, L)
       \/ OverCap(list) /\ unlockedDeleteHostInfo(list[Len(list)], {addr}, L)
  BY Zenon, <1>1, <1>2, <1>4, <1>6, <1>9 DEF InnerAddHostInfo
<1>12. CASE Hosts' = [Hosts EXCEPT ![addr] = h]
  BY Zenon, <1>1, <1>12 DEF Succession, LinkInv, TypeOK
<1>13. CASE SetHostsForAddr({addr}, L)
  <2>1. Hosts'[a] = IF a # addr THEN Hosts[a]
                    ELSE IF L[a] = <<>> THEN Nil ELSE L[a][1]
    BY Zenon, <1>13 DEF SetHostsForAddr
  <2> QED BY Zenon, <1>1, <1>7, <1>8, <1>10, <2>1 DEF Succession
<1>14. CASE OverCap(list) /\ unlockedDeleteHostInfo(list[Len(list)], {addr}, L)
  <2>1. PICK e \in Host : e = list[Len(list)]
    BY <1>7, ElementOfSeq
  <2>2. Len(list) >= 2
    BY <1>7, <1>14, HostMapAssumption DEF OverCap
  <2>3. e # h /\ e \in Members(list)
    <3>1. Len(list) \in DOMAIN list /\ 1 \in DOMAIN list /\ Len(list) # 1
      BY SMTT(60), <1>7, <2>2
    <3> QED BY Zenon, <1>7, <2>1, <3>1 DEF NoDuplicates, Members
  <2>4. Known(e)
    <3>1. addr \in Held(e)
      BY Zenon, <1>7, <2>3 DEF LinkInv, LinkedEverywhere
    <3> QED BY Zenon, <1>1, <2>3, <3>1 DEF Held, Live
  <2>5. unlockedDeleteHostInfo(e, {addr}, L)
    BY Zenon, <1>14, <2>1
  <2>6. \A b \in Addr : HostList(b)' = IF b \in Addrs(e)
                        THEN removeHostInfo(L[b], e) ELSE L[b]
    <3>1. \A b \in Addr : b \notin {addr} => L[b] = HostList(b)
      BY Zenon, <1>10
    <3> QED BY ZenonT(60), <1>10, <2>4, <2>5, <3>1, DeleteFacts DEF LinkInv
  <2>7. CASE a = addr
    <3>1. removeHostInfo(list, e) # <<>> /\ removeHostInfo(list, e)[1] = h
      BY Zenon, <1>7, <1>8, <2>3, RemoveHead
    <3>2. HostList(a)' # <<>> /\ HostList(a)'[1] = h
      BY Zenon, <1>7, <1>8, <1>10, <2>6, <2>7, <3>1
    <3>3. Hosts'[a] = h
      BY Zenon, <3>2, HeadNext DEF LinkInv
    <3> QED BY Zenon, <1>1, <3>3 DEF Succession
  <2>8. CASE a # addr /\ a \in Addrs(e)
    BY Zenon, <1>10, <2>6, <2>8, CutHead
  <2>9. CASE a # addr /\ a \notin Addrs(e)
    BY Zenon, <1>10, <2>6, <2>9, SameHead DEF Succession
  <2> QED BY Zenon, <2>7, <2>8, <2>9
<1> QED BY Zenon, <1>11, <1>12, <1>13, <1>14

\* A step that leaves Hosts alone.
LEMMA KeptHead ==
  ASSUME Hosts' = Hosts, NEW a \in Addr
  PROVE  Succession(a)
BY Zenon DEF Succession

LEMMA SuccessionNext ==
  ASSUME LinkInv, LinkInv', Next, NEW a \in Addr
  PROVE  Succession(a)
<1>1. CASE InnerAddHostInfo
  BY Zenon, <1>1, AddedHead
<1>2. CASE AddHostInfoEnd
  <2>1. Hosts' = Hosts
    BY Zenon, <1>2 DEF AddHostInfoEnd, lists
  <2> QED BY Zenon, <2>1, KeptHead
<1>3. ASSUME NEW h \in Host, DeleteHostInfo(h) PROVE Succession(a)
  BY Zenon, <1>3, DeletedHead
<1>4. ASSUME NEW h \in Host, MakePrimary(h) PROVE Succession(a)
  <2>1. Live(h) /\ unlockedMakePrimary(h) /\ adding = Nil
    BY Zenon, <1>4 DEF MakePrimary, Live, StillLinked
  <2> QED BY Zenon, <2>1, PromotedHead
<1>5. ASSUME NEW h \in Host, NEW i \in RelayIndex, NEW peer \in Addr,
             NEW req \in RelayRequests, AddRelay(h, i, peer, req)
      PROVE  Succession(a)
  <2>1. Live(h) /\ unlockedMakePrimary(h) /\ adding = Nil
    BY Zenon, <1>5 DEF AddRelay, Live, StillLinked
  <2> QED BY Zenon, <2>1, PromotedHead
<1>6. ASSUME NEW h \in Host,
             \/ \E i \in Index : AddHostInfoBegin(h, i)
             \/ \E peer \in Addr, s \in {"Requested", "Established"} :
                  UpdateRelayForByIpState(h, peer, s)
             \/ \E i \in RelayIndex : UpdateRelayForByIdxState(h, i)
             \/ \E b \in Addr : InsertRelayTo(h, b) \/ DeleteRelay(h, b)
      PROVE  Succession(a)
  <2>1. Hosts' = Hosts
    BY Zenon, <1>6 DEF AddHostInfoBegin, UpdateRelayForByIpState, UpdateRelayForByIdxState,
                InsertRelayTo, DeleteRelay, lists
  <2> QED BY Zenon, <2>1, KeptHead
<1> QED BY Zenon, <1>1, <1>2, <1>3, <1>4, <1>5, <1>6 DEF Next

\* The primary of an address is replaced by the hostinfo being added, by one
\* that is promoted while the former stays in the list, or, when it goes, by
\* its successor in the list and by no other.
THEOREM HostMapSuccession == ReuseIndexes = FALSE => (Spec => PrimarySuccession)
<1> SUFFICES ASSUME ReuseIndexes = FALSE PROVE Spec => PrimarySuccession
  BY Zenon
<1>1. LinkInv /\ LinkInv' /\ [Next]_vars => [\A a \in Addr : Succession(a)]_vars
  BY Zenon, SuccessionNext
<1>2. Spec => []LinkInv
  BY Zenon, LinkAlways
<1>3. [\A a \in Addr : Succession(a)]_vars =>
      [\A a \in Addr : Hosts'[a] # Hosts[a] =>
       \/ Hosts'[a] = adding
       \/ Hosts'[a] # Nil /\ Hosts[a] \in Members(HostList(a)')
       \/ /\ Hosts[a] \notin Members(HostList(a)')
          /\ Hosts'[a] = IF Len(HostList(a)) = 1 THEN Nil
                          ELSE HostList(a)[2]]_vars
  BY Zenon DEF Succession
<1> QED BY <1>1, <1>2, <1>3, PTL DEF Spec, PrimarySuccession

-----------------------------------------------------------------------------
(* The relay maps and the remote indexes.  Besides what the properties say, *)
(* the induction needs that a relay index belongs to one hostinfo and that  *)
(* a hostinfo has no relays before it is registered, or registering it      *)
(* would leave relays that Relays does not have.                            *)

Has(h, i) == relayForByIdx[h][i] # NoRelay

\* Indexes are not reused: a relay index is in the state of one hostinfo.
OneOwner ==
  \A g, h \in Host, i \in RelayIndex : Has(g, i) /\ Has(h, i) => g = h

\* AddRelay needs a registered hostinfo.
NoneBefore ==
  \A h \in Host : ~Known(h) \/ adding = h => \A i \in RelayIndex : ~Has(h, i)

RelayInv ==
  RelaysConsistent /\ RemoteIndexesLive /\ OneOwner /\ NoneBefore

\* The step hides no live hostinfo behind its remote index.
Kept ==
  \A i \in RemoteIndex, h \in Host :
    RemoteIndexes[i] = h /\ Live(h)' => RemoteIndexes'[i] # Nil

-----------------------------------------------------------------------------
(* Storing relays.                                                         *)

\* A relay stored over one with the same index and peer: no relay appears or
\* goes, and the two maps agree again.
LEMMA RestateKeeps ==
  ASSUME TypeOK, RelayMapsAgree, NEW H \in SUBSET Host, NEW r,
         \A g \in H : /\ r[g] \in Relay
                      /\ Has(g, r[g].LocalIndex)
                      /\ relayForByIdx[g][r[g].LocalIndex].PeerAddr = r[g].PeerAddr,
         StoreRelay(H, r)
  PROVE  /\ RelayMapsAgree'
         /\ \A g \in Host, i \in RelayIndex : Has(g, i)' <=> Has(g, i)
<1>1. \A g \in H : /\ r[g].PeerAddr \in Addr /\ r[g].LocalIndex \in RelayIndex
                   /\ r[g] # NoRelay
  BY DEF Relay, NoRelay, RelayType
<1>2. \A g \in Host, a \in Addr :
        relayForByAddr'[g][a] = IF g \in H /\ a = r[g].PeerAddr THEN r[g]
                                ELSE relayForByAddr[g][a]
  BY Zenon, <1>1 DEF StoreRelay, TypeOK
<1>3. \A g \in Host, i \in RelayIndex :
        relayForByIdx'[g][i] = IF g \in H /\ i = r[g].LocalIndex THEN r[g]
                               ELSE relayForByIdx[g][i]
  BY Zenon, <1>1 DEF StoreRelay, TypeOK
<1>4. \A g \in Host, i \in RelayIndex : Has(g, i)' <=> Has(g, i)
  BY <1>1, <1>3 DEF Has
<1>5. \A g \in Host : \A a \in Addr :
         relayForByAddr[g][a] # NoRelay => relayForByAddr[g][a].LocalIndex \in RelayIndex
  BY DEF TypeOK, Relay
<1>6. \A g \in Host : \A i \in RelayIndex :
         relayForByIdx[g][i] # NoRelay => relayForByIdx[g][i].PeerAddr \in Addr
  BY DEF TypeOK, Relay
<1>7. ASSUME NEW g \in Host, NEW a \in Addr, relayForByAddr'[g][a] # NoRelay
      PROVE  /\ relayForByAddr'[g][a].PeerAddr = a
             /\ relayForByIdx'[g][relayForByAddr'[g][a].LocalIndex] = relayForByAddr'[g][a]
  <2>1. CASE g \in H /\ a = r[g].PeerAddr
    BY <1>1, <1>2, <1>3, <2>1
  <2>2. CASE ~(g \in H /\ a = r[g].PeerAddr)
    <3>1. relayForByAddr'[g][a] = relayForByAddr[g][a]
      BY Zenon, <1>2, <2>2
    <3>2. /\ relayForByAddr[g][a].PeerAddr = a
          /\ relayForByIdx[g][relayForByAddr[g][a].LocalIndex] = relayForByAddr[g][a]
          /\ relayForByAddr[g][a].LocalIndex \in RelayIndex
      BY Zenon, <1>5, <1>7, <3>1 DEF RelayMapsAgree
    <3>3. ~(g \in H /\ relayForByAddr[g][a].LocalIndex = r[g].LocalIndex)
      BY Zenon, <2>2, <3>2
    <3> QED BY ZenonT(60), <1>3, <3>1, <3>2, <3>3
  <2> QED BY Zenon, <2>1, <2>2
<1>8. ASSUME NEW g \in Host, NEW i \in RelayIndex, relayForByIdx'[g][i] # NoRelay
      PROVE  /\ relayForByIdx'[g][i].LocalIndex = i
             /\ relayForByAddr'[g][relayForByIdx'[g][i].PeerAddr] # NoRelay
  <2>1. CASE g \in H /\ i = r[g].LocalIndex
    BY <1>1, <1>2, <1>3, <2>1
  <2>2. CASE ~(g \in H /\ i = r[g].LocalIndex)
    <3>1. relayForByIdx'[g][i] = relayForByIdx[g][i]
      BY Zenon, <1>3, <2>2
    <3>2. /\ relayForByIdx[g][i].LocalIndex = i
          /\ relayForByAddr[g][relayForByIdx[g][i].PeerAddr] # NoRelay
          /\ relayForByIdx[g][i].PeerAddr \in Addr
      BY Zenon, <1>6, <1>8, <3>1 DEF RelayMapsAgree
    <3> QED BY <1>1, <1>2, <3>1, <3>2
  <2> QED BY Zenon, <2>1, <2>2
<1>9. RelayMapsAgree'
  BY Zenon, <1>7, <1>8 DEF RelayMapsAgree
<1> QED BY Zenon, <1>4, <1>9

\* A relay in another state.
LEMMA Restated ==
  ASSUME NEW o \in Relay, NEW s \in RelayStatus, NEW q, q = [o EXCEPT !.State = s]
  PROVE  q \in Relay /\ q.LocalIndex = o.LocalIndex /\ q.PeerAddr = o.PeerAddr
<1>1. q \in Relay
  BY ZenonT(60) DEF Relay
<1> QED BY Zenon, <1>1 DEF Relay

\* Disestablishing the hops towards h changes states only.
LEMMA DisestablishKeeps ==
  ASSUME TypeOK, RelayMapsAgree, NEW h \in Host,
         NEW L \in [Addr -> Seq(Host)], Disestablish(h, L)
  PROVE  /\ RelayMapsAgree'
         /\ \A g \in Host, i \in RelayIndex : Has(g, i)' <=> Has(g, i)
<1> DEFINE hops == relays[h] \cup
                   {relayForByIdx[h][i].PeerAddr : i \in
                      {j \in RelayIndex : relayForByIdx[h][j].Type = "Forwarding"}}
           peer == VpnAddrs[h][1]
           H == {g \in UNION {Members(L[a]) : a \in hops} :
                   relayForByAddr[g][peer] # NoRelay}
           r == [g \in H |-> [relayForByAddr[g][peer] EXCEPT !.State = "Disestablished"]]
<1>1. hops \subseteq Addr
  <2>1. \A i \in RelayIndex : relayForByIdx[h][i].Type = "Forwarding" =>
          relayForByIdx[h][i].PeerAddr \in Addr
    BY DEF TypeOK, Relay, NoRelay
  <2> QED BY <2>1 DEF TypeOK
<1>2. ASSUME NEW a \in hops PROVE Members(L[a]) \subseteq Host
  <2>1. L[a] \in Seq(Host)
    BY Zenon, <1>1
  <2> QED BY <2>1, ElementOfSeq, LenProperties DEF Members
<1>3. H \in SUBSET Host
  BY Zenon, <1>2
<1>4. StoreRelay(H, r)
  BY Zenon DEF Disestablish
<1>5. \A g \in H : r[g] = [relayForByAddr[g][peer] EXCEPT !.State = "Disestablished"]
  OBVIOUS
<1>6. \A g \in H : relayForByAddr[g][peer] # NoRelay
  OBVIOUS
<1>7. peer \in Addr /\ "Disestablished" \in RelayStatus
  BY Zenon, AddrsType DEF RelayStatus
<1> HIDE DEF H, r, hops, peer
<1>8. \A g \in H : /\ r[g] \in Relay
                   /\ Has(g, r[g].LocalIndex)
                   /\ relayForByIdx[g][r[g].LocalIndex].PeerAddr = r[g].PeerAddr
  <2> SUFFICES ASSUME NEW g \in H
               PROVE  /\ r[g] \in Relay
                      /\ Has(g, r[g].LocalIndex)
                      /\ relayForByIdx[g][r[g].LocalIndex].PeerAddr = r[g].PeerAddr
    OBVIOUS
  <2>1. g \in Host /\ relayForByAddr[g][peer] # NoRelay
    BY Zenon, <1>3, <1>6
  <2>2. PICK o \in Relay : o = relayForByAddr[g][peer]
    BY <1>7, <2>1 DEF TypeOK
  <2>3. relayForByIdx[g][o.LocalIndex] = o /\ o # NoRelay
    BY Zenon, <1>7, <2>1, <2>2 DEF RelayMapsAgree
  <2>4. r[g] = [o EXCEPT !.State = "Disestablished"]
    BY Zenon, <1>5, <2>2
  <2>5. r[g] \in Relay /\ r[g].LocalIndex = o.LocalIndex /\ r[g].PeerAddr = o.PeerAddr
    BY <1>7, <2>4, Restated
  <2> QED BY Zenon, <2>3, <2>5 DEF Has
<1> QED BY Zenon, <1>3, <1>4, <1>8, RestateKeeps

-----------------------------------------------------------------------------
(* One lemma per action.                                                   *)

\* A step that leaves registration alone, adds or drops no relay and does not
\* touch Relays and RemoteIndexes.
LEMMA QuietStep ==
  ASSUME RelayInv, RelayMapsAgree',
         \A g \in Host, i \in RelayIndex : Has(g, i)' <=> Has(g, i),
         UNCHANGED <<Indexes, RemoteIndexes, Relays, localIndexId, adding>>
  PROVE  RelayInv' /\ Kept
<1>1. \A g \in Host : (Live(g)' <=> Live(g)) /\ (Known(g)' <=> Known(g))
  BY Zenon DEF Live, Known
<1>2. RelaysReclaimable'
  BY ZenonT(60), <1>1 DEF RelayInv, RelaysConsistent, RelaysReclaimable, Has
<1>3. RemoteIndexesLive'
  BY Zenon DEF RelayInv, RemoteIndexesLive, Live, Known
<1>4. OneOwner'
  BY Zenon DEF RelayInv, OneOwner
<1>5. NoneBefore'
  BY Zenon, <1>1 DEF RelayInv, NoneBefore
<1>6. Kept
  <2> SUFFICES ASSUME NEW i \in RemoteIndex, NEW h \in Host, RemoteIndexes[i] = h
               PROVE  RemoteIndexes'[i] # Nil
    BY Zenon DEF Kept
  <2> QED BY Zenon, HostMapAssumption
<1> QED BY Zenon, <1>2, <1>3, <1>4, <1>5, <1>6 DEF RelayInv, RelaysConsistent

\* unlockedDeleteHostInfo reclaims the relays of h and of nobody else.
LEMMA UnlinkStep ==
  ASSUME LinkInv, RelayInv, NEW h \in Host, Known(h),
         NEW A, NEW L \in [Addr -> Seq(Host)],
         \A a \in Addr : NoDuplicates(L[a]),
         unlockedDeleteHostInfo(h, A, L),
         UNCHANGED <<localIndexId, adding>>
  PROVE  RelayInv' /\ Kept
<1> DEFINE Left == [a \in Addr |-> IF a \in Addrs(h)
                                  THEN removeHostInfo(L[a], h) ELSE L[a]]
<1>1. Left \in [Addr -> Seq(Host)]
  <2>1. ASSUME NEW a \in Addr PROVE Left[a] \in Seq(Host)
    <3>1. L[a] \in Seq(Host)
      OBVIOUS
    <3> QED BY Zenon, <3>1, RemoveFacts
  <2> QED BY Zenon, <2>1
<1>2. /\ DropIndexes(h) /\ ReclaimRelays(h)
      /\ \/ Disestablish(h, Left)
         \/ UNCHANGED <<relayForByAddr, relayForByIdx>>
  BY Zenon DEF unlockedDeleteHostInfo
<1> HIDE DEF Left
<1>3. /\ TypeOK /\ IndexesAgree /\ DistinctIndexes /\ RelayMapsAgree
      /\ RelaysReclaimable /\ RemoteIndexesLive /\ OneOwner /\ NoneBefore
  BY Zenon DEF LinkInv, RelayInv, RelaysConsistent
<1>4. /\ RelayMapsAgree'
      /\ \A g \in Host, i \in RelayIndex : Has(g, i)' <=> Has(g, i)
  <2>1. CASE Disestablish(h, Left)
    BY ZenonT(60), <1>1, <1>3, <2>1, DisestablishKeeps
  <2>2. CASE UNCHANGED <<relayForByAddr, relayForByIdx>>
    BY <1>3, <2>2 DEF RelayMapsAgree, Has
  <2> QED BY Zenon, <1>2, <2>1, <2>2
<1>5. /\ Indexes' = [Indexes EXCEPT ![localIndexId[h]] = Nil]
      /\ \A i \in RelayIndex : Relays'[i] = IF Has(h, i) THEN Nil ELSE Relays[i]
      /\ \A i \in RemoteIndex :
           RemoteIndexes'[i] = IF i = RemoteIndexId[h] /\ RemoteIndexes[i] = h
                               THEN Nil ELSE RemoteIndexes[i]
  BY Zenon, <1>2, <1>3 DEF DropIndexes, ReclaimRelays, TypeOK, Has
<1>6. ~Live(h)' /\ \A g \in Host : g # h => (Live(g)' <=> Live(g))
  BY ZenonT(60), <1>3, <1>5, UnlinkedHeld
<1>7. RelaysReclaimable'
  <2> SUFFICES ASSUME NEW i \in RelayIndex, NEW g \in Host
               PROVE  Relays'[i] = g <=> (Live(g)' /\ Has(g, i)')
    BY Zenon DEF RelaysReclaimable, Has
  <2>1. Relays[i] = g <=> (Live(g) /\ Has(g, i))
    BY Zenon, <1>3 DEF RelaysReclaimable, Has
  <2>2. Has(g, i) /\ Has(h, i) => g = h
    BY Zenon, <1>3 DEF OneOwner
  <2>3. g # Nil
    BY Zenon, HostMapAssumption
  <2> QED BY Zenon, <1>4, <1>5, <1>6, <2>1, <2>2, <2>3
<1>8. RemoteIndexesLive'
  <2> SUFFICES ASSUME NEW i \in RemoteIndex, RemoteIndexes'[i] # Nil
               PROVE  (Live(RemoteIndexes[i]) /\ RemoteIndexId[RemoteIndexes[i]] = i)'
    BY Zenon DEF RemoteIndexesLive
  <2>1. RemoteIndexes'[i] = RemoteIndexes[i] /\ RemoteIndexes[i] \in Host
    BY Zenon, <1>3, <1>5 DEF TypeOK
  <2>2. Live(RemoteIndexes[i]) /\ RemoteIndexId[RemoteIndexes[i]] = i
    BY Zenon, <1>3, <2>1 DEF RemoteIndexesLive
  <2>3. RemoteIndexes[i] # h
    BY Zenon, <1>5, <2>1, <2>2, HostMapAssumption
  <2>4. PICK g \in Host : g = RemoteIndexes[i]
    BY Zenon, <2>1
  <2>5. Live(g)'
    BY Zenon, <1>6, <2>2, <2>3, <2>4
  <2> QED BY Zenon, <2>1, <2>2, <2>4, <2>5 DEF Live, Known
<1>9. OneOwner' /\ NoneBefore'
  BY Zenon, <1>3, <1>4 DEF OneOwner, NoneBefore, Known
<1>10. Kept
  <2> SUFFICES ASSUME NEW i \in RemoteIndex, NEW g \in Host,
                      RemoteIndexes[i] = g, Live(g)'
               PROVE  RemoteIndexes'[i] # Nil
    BY Zenon DEF Kept
  <2> QED BY Zenon, <1>5, <1>6, HostMapAssumption
<1> QED BY Zenon, <1>4, <1>7, <1>8, <1>9, <1>10 DEF RelayInv, RelaysConsistent

\* The loop of unlockedAddHostInfo: it may evict a registered hostinfo.
LEMMA InnerAddRelays ==
  ASSUME LinkInv, RelayInv, InnerAddHostInfo
  PROVE  RelayInv' /\ Kept
<1> USE DEF LinkInv
<1>a. PICK h \in Host : h = adding
  BY Zenon DEF InnerAddHostInfo, TypeOK
<1>b. PICK v \in Seq(Addr) : v = VpnAddrs[h]
  BY Zenon, HostMapAssumption
<1>1. Known(h) /\ pos \in 1..Len(v)
  <2>1. Known(h) /\ pos <= Len(VpnAddrs[adding]) /\ pos \in 1..(Len(VpnAddrs[adding]) + 1)
    BY Zenon, <1>a DEF InnerAddHostInfo, AddingReserved, TypeOK
  <2>2. Len(v) \in Nat
    BY Zenon, LenProperties
  <2> QED BY <1>a, <1>b, <2>1, <2>2
<1>c. PICK addr \in Addr : addr = v[pos]
  BY Zenon, <1>1, ElementOfSeq
<1>2. HostList(addr) \in Seq(Host) /\ NoDuplicates(HostList(addr))
  BY Zenon, HostListFacts
<1>d. PICK list \in Seq(Host) : list = ToFront(HostList(addr), h)
  BY Zenon, <1>2, ToFrontFacts
<1>e. PICK L \in [Addr -> Seq(Host)] : L = [HostLists EXCEPT ![addr] = list]
  BY ZenonT(60), HostListsFacts
<1>3. \/ UNCHANGED <<Indexes, RemoteIndexes, Relays, relayForByAddr, relayForByIdx>>
      \/ unlockedDeleteHostInfo(list[Len(list)], {addr}, L)
  BY Zenon, <1>a, <1>b, <1>c, <1>d, <1>e DEF InnerAddHostInfo
<1>4. UNCHANGED <<localIndexId, adding>>
  BY Zenon DEF InnerAddHostInfo
<1>5. CASE UNCHANGED <<Indexes, RemoteIndexes, Relays, relayForByAddr, relayForByIdx>>
  <2>1. RelayMapsAgree' /\ \A g \in Host, i \in RelayIndex : Has(g, i)' <=> Has(g, i)
    BY <1>5 DEF RelayInv, RelaysConsistent, RelayMapsAgree, Has
  <2> QED BY Zenon, <1>4, <1>5, <2>1, QuietStep
<1>6. CASE unlockedDeleteHostInfo(list[Len(list)], {addr}, L)
  <2>1. /\ NoDuplicates(list) /\ Len(list) >= 1
        /\ Members(list) = Members(HostList(addr)) \cup {h}
        /\ Len(list) \in Nat /\ DOMAIN list = 1..Len(list)
    BY ZenonT(60), <1>2, <1>d, ToFrontFacts, LenProperties
  <2>2. \A a \in Addr : NoDuplicates(L[a])
    BY Zenon, <1>e, <2>1, HostListsFacts
  <2>3. Len(list) \in DOMAIN list
    BY <2>1
  <2>4. PICK g \in Host : g = list[Len(list)]
    BY Zenon, <2>3, ElementOfSeq, <2>1
  <2>5. g \in Members(HostList(addr)) \/ g = h
    BY Zenon, <2>1, <2>3, <2>4 DEF Members
  <2>6. Known(g)
    <3>1. g \in Members(HostList(addr)) => addr \in Held(g)
      BY Zenon DEF LinkedEverywhere
    <3>2. addr \in Held(g) => Live(g) \/ adding = g
      BY Zenon DEF Held
    <3> QED BY Zenon, <1>1, <1>a, <2>5, <3>1, <3>2 DEF Live
  <2>7. unlockedDeleteHostInfo(g, {addr}, L)
    BY Zenon, <1>6, <2>4
  <2> QED BY ZenonT(60), <1>4, <2>2, <2>6, <2>7, UnlinkStep
<1> QED BY Zenon, <1>3, <1>5, <1>6

\* Drawing the index of a new hostinfo, which has no relays.
LEMMA BeginRelays ==
  ASSUME LinkInv, RelayInv, ReuseIndexes = FALSE, NEW h \in Host, NEW i \in Index,
         AddHostInfoBegin(h, i)
  PROVE  RelayInv' /\ Kept
<1>1. /\ adding = Nil /\ localIndexId[h] = Nil /\ Indexes[i] = Nil
      /\ localIndexId' = [localIndexId EXCEPT ![h] = i] /\ adding' = h
      /\ UNCHANGED <<Indexes, RemoteIndexes, Relays, relayForByAddr, relayForByIdx>>
  BY Zenon DEF AddHostInfoBegin, Known, relayState
<1>2. TypeOK /\ RelaysReclaimable /\ RelayMapsAgree /\ RemoteIndexesLive
      /\ OneOwner /\ NoneBefore
  BY Zenon DEF LinkInv, RelayInv, RelaysConsistent
<1>3. \A g \in Host : Live(g)' <=> Live(g)
  BY Zenon, <1>1, <1>2, HostMapAssumption DEF Live, Known, TypeOK
<1>4. \A g \in Host : \A j \in RelayIndex : Has(g, j)' <=> Has(g, j)
  BY Zenon, <1>1 DEF Has
<1>5. RelaysReclaimable' /\ RelayMapsAgree' /\ OneOwner'
  BY <1>1, <1>2, <1>3 DEF RelaysReclaimable, RelayMapsAgree, OneOwner, Has
<1>6. RemoteIndexesLive'
  <2> SUFFICES ASSUME NEW j \in RemoteIndex, RemoteIndexes'[j] # Nil
               PROVE  (Live(RemoteIndexes[j]) /\ RemoteIndexId[RemoteIndexes[j]] = j)'
    BY Zenon DEF RemoteIndexesLive
  <2>1. PICK g \in Host : g = RemoteIndexes[j]
    BY Zenon, <1>1, <1>2 DEF TypeOK
  <2>2. Live(g)' /\ RemoteIndexId[g] = j
    BY Zenon, <1>1, <1>2, <1>3, <2>1 DEF RemoteIndexesLive
  <2> QED BY Zenon, <1>1, <2>1, <2>2 DEF Live, Known
<1>7. NoneBefore'
  <2> SUFFICES ASSUME NEW g \in Host, ~Known(g)' \/ adding' = g
               PROVE  \A j \in RelayIndex : ~Has(g, j)
    BY Zenon, <1>4 DEF NoneBefore
  <2>1. ~Known(g)
    BY Zenon, <1>1, <1>2, HostMapAssumption DEF Known, TypeOK
  <2> QED BY Zenon, <1>2, <2>1 DEF NoneBefore
<1>8. Kept
  BY Zenon, <1>1, HostMapAssumption DEF Kept
<1> QED BY Zenon, <1>5, <1>6, <1>7, <1>8 DEF RelayInv, RelaysConsistent

\* The new hostinfo is registered, and takes over its remote index.
LEMMA EndRelays ==
  ASSUME LinkInv, RelayInv, AddHostInfoEnd
  PROVE  RelayInv' /\ Kept
<1>1. TypeOK /\ RelaysReclaimable /\ RelayMapsAgree /\ RemoteIndexesLive
      /\ OneOwner /\ NoneBefore /\ AddingReserved
  BY Zenon DEF LinkInv, RelayInv, RelaysConsistent
<1>2. PICK h \in Host : h = adding
  BY Zenon, <1>1 DEF AddHostInfoEnd, TypeOK
<1>3. /\ Known(h) /\ localIndexId[h] \in Index /\ Indexes[localIndexId[h]] = Nil
      /\ Indexes' = [Indexes EXCEPT ![localIndexId[h]] = h]
      /\ RemoteIndexes' = [RemoteIndexes EXCEPT ![RemoteIndexId[h]] = h]
      /\ adding' = Nil
      /\ UNCHANGED <<Relays, localIndexId, relayForByAddr, relayForByIdx>>
  BY Zenon, <1>1, <1>2 DEF AddHostInfoEnd, AddingReserved, Known, TypeOK, relayState
<1>4. Live(h)' /\ ~Live(h) /\ \A g \in Host : g # h => (Live(g)' <=> Live(g))
  BY Zenon, <1>1, <1>3, HostMapAssumption DEF Live, Known, TypeOK
<1>5. \A g \in Host : \A j \in RelayIndex : Has(g, j)' <=> Has(g, j)
  BY Zenon, <1>3 DEF Has
<1>6. \A j \in RelayIndex : ~Has(h, j)
  BY Zenon, <1>1, <1>2 DEF NoneBefore
<1>7. RelaysReclaimable'
  <2> SUFFICES ASSUME NEW i \in RelayIndex, NEW g \in Host
               PROVE  Relays[i] = g <=> (Live(g)' /\ Has(g, i))
    BY Zenon, <1>3, <1>5 DEF RelaysReclaimable, Has
  <2>1. Relays[i] = g <=> (Live(g) /\ Has(g, i))
    BY Zenon, <1>1 DEF RelaysReclaimable, Has
  <2> QED BY Zenon, <1>4, <1>6, <2>1
<1>8. RelayMapsAgree' /\ OneOwner'
  BY <1>1, <1>3 DEF RelayMapsAgree, OneOwner, Has
<1>9. RemoteIndexesLive'
  <2> SUFFICES ASSUME NEW j \in RemoteIndex, RemoteIndexes'[j] # Nil
               PROVE  (Live(RemoteIndexes[j]) /\ RemoteIndexId[RemoteIndexes[j]] = j)'
    BY Zenon DEF RemoteIndexesLive
  <2>1. CASE j = RemoteIndexId[h]
    <3>1. RemoteIndexes'[j] = h
      BY Zenon, <1>1, <1>3, <2>1 DEF TypeOK
    <3> QED BY Zenon, <1>4, <2>1, <3>1 DEF Live, Known
  <2>2. CASE j # RemoteIndexId[h]
    <3>1. RemoteIndexes'[j] = RemoteIndexes[j]
      BY Zenon, <1>1, <1>3, <2>2 DEF TypeOK
    <3>2. PICK g \in Host : g = RemoteIndexes[j]
      BY Zenon, <1>1, <3>1 DEF TypeOK
    <3>3. Live(g) /\ RemoteIndexId[g] = j
      BY Zenon, <1>1, <3>1, <3>2 DEF RemoteIndexesLive
    <3>4. Live(g)'
      BY Zenon, <1>4, <3>3
    <3> QED BY Zenon, <3>1, <3>2, <3>3, <3>4 DEF Live, Known
  <2> QED BY Zenon, <2>1, <2>2
<1>10. NoneBefore'
  <2> SUFFICES ASSUME NEW g \in Host, ~Known(g)' \/ adding' = g
               PROVE  \A j \in RelayIndex : ~Has(g, j)
    BY Zenon, <1>5 DEF NoneBefore
  <2>1. ~Known(g)
    BY Zenon, <1>3, HostMapAssumption DEF Known
  <2> QED BY Zenon, <1>1, <2>1 DEF NoneBefore
<1>11. Kept
  BY Zenon, <1>1, <1>3, HostMapAssumption DEF Kept, TypeOK
<1> QED BY Zenon, <1>7, <1>8, <1>9, <1>10, <1>11 DEF RelayInv, RelaysConsistent

\* The index of a new relay is in nobody's maps, so its entry in Relays and
\* those of the hostinfo appear together.
LEMMA AddRelayRelays ==
  ASSUME LinkInv, RelayInv, ReuseIndexes = FALSE,
         NEW h \in Host, NEW i \in RelayIndex, NEW peer \in Addr,
         NEW req \in RelayRequests, AddRelay(h, i, peer, req)
  PROVE  RelayInv' /\ Kept
<1> DEFINE q == [Type |-> req[1], State |-> req[2], LocalIndex |-> i, PeerAddr |-> peer]
<1>1. /\ adding = Nil /\ Live(h) /\ \A g \in Host : ~Has(g, i)
      /\ Relays' = [Relays EXCEPT ![i] = h]
      /\ StoreRelay({h}, [g \in {h} |-> q])
      /\ UNCHANGED <<Indexes, RemoteIndexes, localIndexId, adding>>
  BY Zenon DEF AddRelay, Live, StillLinked, Has
<1>2. q.LocalIndex = i /\ q.PeerAddr = peer /\ q # NoRelay
  BY Zenon DEF RelayRequests, NoRelay
<1>3. TypeOK /\ RelaysReclaimable /\ RelayMapsAgree /\ RemoteIndexesLive
      /\ OneOwner /\ NoneBefore
  BY Zenon DEF LinkInv, RelayInv, RelaysConsistent
<1> HIDE DEF q
<1>4. \A g \in Host, a \in Addr :
        relayForByAddr'[g][a] = IF g = h /\ a = peer THEN q ELSE relayForByAddr[g][a]
  BY Zenon, <1>1, <1>2, <1>3 DEF StoreRelay, TypeOK
<1>5. \A g \in Host, j \in RelayIndex :
        relayForByIdx'[g][j] = IF g = h /\ j = i THEN q ELSE relayForByIdx[g][j]
  BY Zenon, <1>1, <1>2, <1>3 DEF StoreRelay, TypeOK
<1>6. \A g \in Host, j \in RelayIndex : Has(g, j)' <=> (Has(g, j) \/ (g = h /\ j = i))
  BY Zenon, <1>2, <1>5 DEF Has
<1>7. \A g \in Host : (Live(g)' <=> Live(g)) /\ (Known(g)' <=> Known(g))
  BY Zenon, <1>1 DEF Live, Known
<1>8. RelaysReclaimable'
  <2> SUFFICES ASSUME NEW j \in RelayIndex, NEW g \in Host
               PROVE  Relays'[j] = g <=> (Live(g)' /\ Has(g, j)')
    BY Zenon DEF RelaysReclaimable, Has
  <2>1. Relays[j] = g <=> (Live(g) /\ Has(g, j))
    BY Zenon, <1>3 DEF RelaysReclaimable, Has
  <2>2. Relays'[j] = IF j = i THEN h ELSE Relays[j]
    BY Zenon, <1>1, <1>3 DEF TypeOK
  <2> QED BY Zenon, <1>1, <1>6, <1>7, <2>1, <2>2
<1>9. RelayMapsAgree'
  <2>1. ASSUME NEW g \in Host, NEW a \in Addr, relayForByAddr'[g][a] # NoRelay
        PROVE  /\ relayForByAddr'[g][a].PeerAddr = a
               /\ relayForByIdx'[g][relayForByAddr'[g][a].LocalIndex] = relayForByAddr'[g][a]
    <3>1. CASE g = h /\ a = peer
      BY <1>2, <1>4, <1>5, <3>1
    <3>2. CASE ~(g = h /\ a = peer)
      <4>1. relayForByAddr'[g][a] = relayForByAddr[g][a]
        BY Zenon, <1>4, <3>2
      <4>2. PICK o \in Relay : o = relayForByAddr[g][a]
        BY <2>1, <4>1, <1>3 DEF TypeOK
      <4>3. o # NoRelay /\ o.PeerAddr = a /\ relayForByIdx[g][o.LocalIndex] = o
            /\ o.LocalIndex \in RelayIndex
        BY <1>3, <2>1, <4>1, <4>2 DEF RelayMapsAgree, Relay
      <4>4. o.LocalIndex # i
        BY Zenon, <1>1, <4>3 DEF Has
      <4> QED BY Zenon, <1>5, <4>1, <4>2, <4>3, <4>4
    <3> QED BY Zenon, <3>1, <3>2
  <2>2. ASSUME NEW g \in Host, NEW j \in RelayIndex, relayForByIdx'[g][j] # NoRelay
        PROVE  /\ relayForByIdx'[g][j].LocalIndex = j
               /\ relayForByAddr'[g][relayForByIdx'[g][j].PeerAddr] # NoRelay
    <3>1. CASE g = h /\ j = i
      BY ZenonT(60), <1>2, <1>4, <1>5, <3>1
    <3>2. CASE ~(g = h /\ j = i)
      <4>1. relayForByIdx'[g][j] = relayForByIdx[g][j]
        BY Zenon, <1>5, <3>2
      <4>2. PICK o \in Relay : o = relayForByIdx[g][j]
        BY <2>2, <4>1, <1>3 DEF TypeOK
      <4>3. o.LocalIndex = j /\ relayForByAddr[g][o.PeerAddr] # NoRelay
            /\ o.PeerAddr \in Addr
        BY Zenon, <1>3, <2>2, <4>1, <4>2 DEF RelayMapsAgree, Relay
      <4> QED BY <1>2, <1>4, <4>1, <4>2, <4>3
    <3> QED BY Zenon, <3>1, <3>2
  <2> QED BY Zenon, <2>1, <2>2 DEF RelayMapsAgree
<1>10. RemoteIndexesLive'
  BY Zenon, <1>1, <1>3 DEF RemoteIndexesLive, Live, Known
<1>11. OneOwner' /\ NoneBefore'
  <2>1. OneOwner'
    BY <1>1, <1>3, <1>6 DEF OneOwner
  <2>2. Known(h) /\ adding # h /\ adding' = adding
    BY Zenon, <1>1, HostMapAssumption DEF Live
  <2>3. NoneBefore'
    BY Zenon, <1>3, <1>6, <1>7, <2>2 DEF NoneBefore
  <2> QED BY Zenon, <2>1, <2>3
<1>12. Kept
  BY Zenon, <1>1, HostMapAssumption DEF Kept
<1> QED BY Zenon, <1>8, <1>9, <1>10, <1>11, <1>12 DEF RelayInv, RelaysConsistent

\* The state of one relay changes under the relay state's own lock.
LEMMA RestateStep ==
  ASSUME LinkInv, RelayInv, NEW h \in Host, NEW o \in Relay,
         relayForByIdx[h][o.LocalIndex] = o, o # NoRelay,
         NEW s \in RelayStatus,
         StoreRelay({h}, [g \in {h} |-> [o EXCEPT !.State = s]]),
         UNCHANGED <<Indexes, RemoteIndexes, Relays, localIndexId, adding>>
  PROVE  RelayInv' /\ Kept
<1> DEFINE r == [g \in {h} |-> [o EXCEPT !.State = s]]
<1>1. StoreRelay({h}, r) /\ r[h] = [o EXCEPT !.State = s]
  OBVIOUS
<1> HIDE DEF r
<1>2. r[h] \in Relay /\ r[h].LocalIndex = o.LocalIndex /\ r[h].PeerAddr = o.PeerAddr
  BY <1>1, Restated
<1>3. Has(h, r[h].LocalIndex) /\ relayForByIdx[h][r[h].LocalIndex].PeerAddr = r[h].PeerAddr
  BY Zenon, <1>2 DEF Has
<1>4. /\ RelayMapsAgree'
      /\ \A g \in Host, i \in RelayIndex : Has(g, i)' <=> Has(g, i)
  <2>1. TypeOK /\ RelayMapsAgree /\ {h} \in SUBSET Host
    BY Zenon DEF LinkInv, RelayInv, RelaysConsistent
  <2>2. \A g \in {h} : /\ r[g] \in Relay
                        /\ Has(g, r[g].LocalIndex)
                        /\ relayForByIdx[g][r[g].LocalIndex].PeerAddr = r[g].PeerAddr
    BY Zenon, <1>2, <1>3
  <2> QED BY Zenon, <1>1, <2>1, <2>2, RestateKeeps
<1> QED BY Zenon, <1>4, QuietStep

-----------------------------------------------------------------------------
LEMMA RelayInit == Init => RelayInv
<1> SUFFICES ASSUME Init PROVE RelayInv
  OBVIOUS
<1>1. \A h \in Host : ~Known(h) /\ \A i \in RelayIndex : ~Has(h, i)
  BY Zenon DEF Init, Known, Has
<1>2. RelaysReclaimable
  BY Zenon, <1>1, HostMapAssumption DEF Init, RelaysReclaimable, Live
<1>3. RelayMapsAgree
  BY Zenon DEF Init, RelayMapsAgree
<1>4. RemoteIndexesLive
  BY Zenon DEF Init, RemoteIndexesLive
<1>5. OneOwner /\ NoneBefore
  BY Zenon, <1>1 DEF OneOwner, NoneBefore
<1> QED BY Zenon, <1>2, <1>3, <1>4, <1>5 DEF RelayInv, RelaysConsistent

\* Every step preserves the invariant and hides no live hostinfo.
LEMMA RelayNext ==
  ASSUME ReuseIndexes = FALSE, LinkInv, RelayInv, [Next]_vars
  PROVE  RelayInv' /\ Kept
<1>1. ASSUME UNCHANGED <<Indexes, RemoteIndexes, Relays, localIndexId,
                         relayForByAddr, relayForByIdx, adding>>
      PROVE  RelayInv' /\ Kept
  <2>1. RelayMapsAgree' /\ \A g \in Host, i \in RelayIndex : Has(g, i)' <=> Has(g, i)
    BY ZenonT(60), <1>1 DEF RelayInv, RelaysConsistent, RelayMapsAgree, Has
  <2> QED BY Zenon, <1>1, <2>1, QuietStep
<1>2. CASE UNCHANGED vars
  BY Zenon, <1>1, <1>2 DEF vars
<1>3. CASE InnerAddHostInfo
  BY Zenon, <1>3, InnerAddRelays
<1>4. CASE AddHostInfoEnd
  BY Zenon, <1>4, EndRelays
<1>5. ASSUME NEW h \in Host, NEW i \in Index, AddHostInfoBegin(h, i)
      PROVE  RelayInv' /\ Kept
  BY ZenonT(60), <1>5, BeginRelays
<1>6. ASSUME NEW h \in Host, DeleteHostInfo(h) PROVE RelayInv' /\ Kept
  <2>1. /\ HostLists \in [Addr -> Seq(Host)]
        /\ \A a \in Addr : NoDuplicates(HostLists[a])
    BY Zenon, HostListsFacts DEF LinkInv
  <2>2. /\ Known(h) /\ unlockedDeleteHostInfo(h, {}, HostLists)
        /\ UNCHANGED <<localIndexId, adding>>
    BY Zenon, <1>6 DEF DeleteHostInfo
  <2> QED BY ZenonT(60), <2>1, <2>2, UnlinkStep
<1>7. ASSUME NEW h \in Host, MakePrimary(h) PROVE RelayInv' /\ Kept
  BY Zenon, <1>1, <1>7 DEF MakePrimary, relayState
<1>8. ASSUME NEW h \in Host, NEW i \in RelayIndex, NEW peer \in Addr,
             NEW req \in RelayRequests, AddRelay(h, i, peer, req)
      PROVE  RelayInv' /\ Kept
  BY ZenonT(60), <1>8, AddRelayRelays
<1>9. ASSUME NEW h \in Host, NEW peer \in Addr, NEW s \in {"Requested", "Established"},
             UpdateRelayForByIpState(h, peer, s)
      PROVE  RelayInv' /\ Kept
  <2>1. PICK o \in Relay : o = relayForByAddr[h][peer]
    BY <1>9 DEF UpdateRelayForByIpState, LinkInv, TypeOK
  <2>2. o # NoRelay /\ relayForByIdx[h][o.LocalIndex] = o
    BY Zenon, <1>9, <2>1 DEF UpdateRelayForByIpState, RelayInv, RelaysConsistent, RelayMapsAgree
  <2>3. /\ StoreRelay({h}, [g \in {h} |-> [o EXCEPT !.State = s]])
        /\ UNCHANGED <<Indexes, RemoteIndexes, Relays, localIndexId, adding>>
    BY ZenonT(60), <1>9, <2>1 DEF UpdateRelayForByIpState
  <2>4. s \in RelayStatus
    BY Zenon DEF RelayStatus
  <2> QED BY ZenonT(60), <2>2, <2>3, <2>4, RestateStep
<1>10. ASSUME NEW h \in Host, NEW i \in RelayIndex, UpdateRelayForByIdxState(h, i)
       PROVE  RelayInv' /\ Kept
  <2>1. PICK o \in Relay : o = relayForByIdx[h][i]
    BY <1>10 DEF UpdateRelayForByIdxState, LinkInv, TypeOK
  <2>2. o # NoRelay /\ relayForByIdx[h][o.LocalIndex] = o
    BY Zenon, <1>10, <2>1 DEF UpdateRelayForByIdxState, RelayInv, RelaysConsistent, RelayMapsAgree
  <2>3. /\ StoreRelay({h}, [g \in {h} |-> [o EXCEPT !.State = "Established"]])
        /\ UNCHANGED <<Indexes, RemoteIndexes, Relays, localIndexId, adding>>
    BY ZenonT(60), <1>10, <2>1 DEF UpdateRelayForByIdxState
  <2>4. "Established" \in RelayStatus
    BY Zenon DEF RelayStatus
  <2> QED BY ZenonT(60), <2>2, <2>3, <2>4, RestateStep
<1>11. ASSUME NEW h \in Host, NEW a \in Addr, InsertRelayTo(h, a) \/ DeleteRelay(h, a)
       PROVE  RelayInv' /\ Kept
  BY Zenon, <1>1, <1>11 DEF InsertRelayTo, DeleteRelay
<1> QED BY ZenonT(60), <1>2, <1>3, <1>4, <1>5, <1>6, <1>7, <1>8, <1>9, <1>10, <1>11 DEF Next

LEMMA RelayAlways == ReuseIndexes = FALSE => (Spec => [](LinkInv /\ RelayInv))
<1> SUFFICES ASSUME ReuseIndexes = FALSE PROVE Spec => [](LinkInv /\ RelayInv)
  BY Zenon
<1>1. Init => LinkInv /\ RelayInv
  BY Zenon, LinkInit, RelayInit
<1>2. (LinkInv /\ RelayInv) /\ [Next]_vars => (LinkInv /\ RelayInv)'
  BY ZenonT(60), LinkNext, RelayNext
<1> QED BY <1>1, <1>2, PTL DEF Spec

\* Deleting a hostinfo reclaims its relay indexes and no other's, every relay
\* of a registered hostinfo can be found by its index, and the two maps of a
\* hostinfo give a relay the same state.
THEOREM HostMapRelays == ReuseIndexes = FALSE => (Spec => []RelaysConsistent)
<1>1. LinkInv /\ RelayInv => RelaysConsistent
  BY Zenon DEF RelayInv
<1> QED BY <1>1, RelayAlways, PTL

\* A remote index leads to a registered hostinfo or to none, and deleting one
\* of two hostinfos with the same remote index does not hide the other.
THEOREM HostMapRemoteIndexes == ReuseIndexes = FALSE => (Spec => RemoteIndexesRight)
<1> SUFFICES ASSUME ReuseIndexes = FALSE PROVE Spec => RemoteIndexesRight
  BY Zenon
<1>1. Init => LinkInv /\ RelayInv
  BY Zenon, LinkInit, RelayInit
<1>2. (LinkInv /\ RelayInv) /\ [Next]_vars => (LinkInv /\ RelayInv)'
  BY ZenonT(60), LinkNext, RelayNext
<1>3. (LinkInv /\ RelayInv) /\ [Next]_vars =>
        [\A i \in RemoteIndex, h \in Host :
           RemoteIndexes[i] = h /\ Live(h)' => RemoteIndexes'[i] # Nil]_vars
  BY ZenonT(60), RelayNext DEF Kept
<1>4. LinkInv /\ RelayInv => RemoteIndexesLive
  BY Zenon DEF RelayInv
<1> QED BY <1>1, <1>2, <1>3, <1>4, PTL DEF Spec, RemoteIndexesRight, RemoteIndexKept
=============================================================================
