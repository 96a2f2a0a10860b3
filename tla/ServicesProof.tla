---------------------------- MODULE ServicesProof ---------------------------
(***************************************************************************)
(* Proofs about what a node runs beside its tunnels.  The lighthouse's     *)
(* table keeps the hosts apart, answers about a host with what the host    *)
(* reported, and finds an update until the host is gone.  Wait returns     *)
(* from a node with everything closed.  The timer wheel lets go of an item *)
(* in time.                                                                *)
(***************************************************************************)
EXTENDS LightHouse, Lifecycle, TimerWheel, WellFoundedInduction, TLAPS

\* A list that was made for host h: its addresses are the host's, or the one
\* that was dialled, and all that was reported in it is the host's.
Owns(L, h) ==
  /\ L.vpnAddrs = Addrs[h] \/ \E v \in Range(Addrs[h]) : L.vpnAddrs = <<v>>
  /\ \A v \in VpnAddr : L.reported[v] \subseteq {h}

\* Table, pending handshakes and answers being built hold lists of their host.
TableOwned ==
  \A v \in VpnAddr : addrMap[v] # 0 => Owns(lists[addrMap[v]], HostOf(v))
PendingOwned ==
  \A v \in VpnAddr : pending[v] # 0 => Owns(lists[pending[v]], HostOf(v))
RespondingOwned ==
  \A h \in Host : responding[h] # 0 => Owns(lists[responding[h]], h)

\* An update that was taken is in the list the host's first address leads to.
UpdatesKept ==
  /\ updated \subseteq Host
  /\ \A h \in updated :
       /\ amLighthouse /\ addrMap[Primary(h)] # 0
       /\ h \in lists[addrMap[Primary(h)]].reported[Primary(h)]

\* The messages of the last step say of an address what its host reported.
OutRight ==
  \A m \in out : m.type # "HostUpdateNotificationAck" =>
    m.answer.reported \subseteq {HostOf(m.about)}

TableInv ==
  LightHouseTypeOK /\ TableOwned /\ PendingOwned /\ RespondingOwned /\ UpdatesKept /\ OutRight

-----------------------------------------------------------------------------
(* Hosts, addresses and lists.                                             *)

\* Hosts and addresses: no two hosts share one.
LEMMA HostFacts ==
  /\ \A h \in Host : /\ Primary(h) \in Range(Addrs[h])
                     /\ \A v \in Range(Addrs[h]) : v \in VpnAddr /\ HostOf(v) = h
  /\ \A v \in VpnAddr : HostOf(v) \in Host /\ v \in Range(Addrs[HostOf(v)])
<1>1. ASSUME NEW h \in Host
      PROVE  Primary(h) \in Range(Addrs[h])
  BY LightHouseAssumption DEF Primary, Range
<1>2. ASSUME NEW h \in Host, NEW v \in Range(Addrs[h])
      PROVE  v \in VpnAddr
  BY Zenon DEF VpnAddr
<1>3. ASSUME NEW v \in VpnAddr
      PROVE  HostOf(v) \in Host /\ v \in Range(Addrs[HostOf(v)])
  <2>1. \E h \in Host : v \in Range(Addrs[h])
    BY Zenon DEF VpnAddr
  <2> QED
    BY Zenon, <2>1 DEF HostOf
<1>4. ASSUME NEW h \in Host, NEW v \in Range(Addrs[h])
      PROVE  HostOf(v) = h
  <2>1. HostOf(v) \in Host /\ v \in Range(Addrs[HostOf(v)])
    BY Zenon, <1>2, <1>3
  <2> QED
    BY Zenon, <2>1, LightHouseAssumption
<1> QED
  BY Zenon, <1>1, <1>2, <1>3, <1>4

\* A list is of one host.
LEMMA OwnerUnique ==
  ASSUME NEW L, NEW g \in Host, NEW h \in Host, Owns(L, g), Owns(L, h)
  PROVE  g = h
<1>1. \A k \in Host : Owns(L, k) => L.vpnAddrs[1] \in Range(Addrs[k])
  <2> SUFFICES ASSUME NEW k \in Host, Owns(L, k)
               PROVE  L.vpnAddrs[1] \in Range(Addrs[k])
    OBVIOUS
  <2>1. CASE L.vpnAddrs = Addrs[k]
    BY Zenon, <2>1, HostFacts DEF Primary
  <2>2. CASE \E v \in Range(Addrs[k]) : L.vpnAddrs = <<v>>
    BY <2>2
  <2> QED
    BY Zenon, <2>1, <2>2 DEF Owns
<1> QED
  BY Zenon, <1>1, HostFacts

\* A sequence with one place changed, lists that stay their hosts', reports
\* that stay.
Changes(ls, new, n, L, h) ==
  /\ ls \in Seq(ListType) /\ n \in 1..Len(ls) /\ L \in ListType /\ h \in Host
  /\ Owns(ls[n], h) /\ Owns(L, h)
  /\ new = [ls EXCEPT ![n] = L]
OthersSame(ls, new, n, L) ==
  new[n] = L /\ \A l \in 1..Len(ls) : l # n => new[l] = ls[l]
OwnersKept(ls, new) ==
  /\ new \in Seq(ListType) /\ Len(new) = Len(ls)
  /\ \A l \in 1..Len(ls), k \in Host : Owns(ls[l], k) => Owns(new[l], k)
ReportsGrow(ls, new) ==
  \A l \in 1..Len(ls), u \in VpnAddr : ls[l].reported[u] \subseteq new[l].reported[u]

\* What changing one place does.
LEMMA OneChanged ==
  ASSUME NEW ls \in Seq(ListType), NEW n \in 1..Len(ls), NEW L \in ListType,
         NEW new, new = [ls EXCEPT ![n] = L]
  PROVE  /\ new \in Seq(ListType) /\ Len(new) = Len(ls) /\ new[n] = L
         /\ \A l \in 1..Len(ls) : l # n => new[l] = ls[l]
OBVIOUS

\* A list changes to another of the same host.
LEMMA ListChanges ==
  ASSUME NEW ls, NEW new, NEW n, NEW L, NEW h, Changes(ls, new, n, L, h)
  PROVE  OwnersKept(ls, new) /\ OthersSame(ls, new, n, L)
<1>1. /\ new \in Seq(ListType) /\ Len(new) = Len(ls) /\ new[n] = L
      /\ \A l \in 1..Len(ls) : l # n => new[l] = ls[l]
  <2>1. /\ ls \in Seq(ListType) /\ n \in 1..Len(ls) /\ L \in ListType
        /\ new = [ls EXCEPT ![n] = L]
    BY Zenon DEF Changes
  <2> QED
    BY <2>1, OneChanged
<1>2. ASSUME NEW l \in 1..Len(ls), NEW g \in Host, Owns(ls[l], g)
      PROVE  Owns(new[l], g)
  <2>1. CASE l = n
    BY Zenon, <1>1, <1>2, <2>1, OwnerUnique DEF Changes
  <2>2. CASE l # n
    BY Zenon, <1>1, <1>2, <2>2
  <2> QED
    BY Zenon, <2>1, <2>2
<1> QED
  BY Zenon, <1>1, <1>2 DEF OwnersKept, OthersSame

\* The three ways a list changes: an address is learned, a report is stored,
\* the certificate says whose it is.
Learned(ls, n, v, h) == [ls EXCEPT ![n].learned[v] = {h}]
Reported(ls, n, v, h) == [ls EXCEPT ![n].reported[v] = {h}]
Renamed(ls, n, h) == [ls EXCEPT ![n].vpnAddrs = Addrs[h]]
Learns(ls, new, n, v, h) == new = Learned(ls, n, v, h)
Reports(ls, new, n, v, h) ==
  /\ ls \in Seq(ListType) /\ n \in 1..Len(ls) /\ v \in VpnAddr /\ h \in Host
  /\ Owns(ls[n], h)
  /\ new = Reported(ls, n, v, h)

\* Learning leaves the list what it was to its host.
LEMMA ListLearns ==
  ASSUME NEW ls \in Seq(ListType), NEW n \in 1..Len(ls), NEW v \in VpnAddr,
         NEW h \in Host, NEW new, Learns(ls, new, n, v, h)
  PROVE  /\ new \in Seq(ListType) /\ Len(new) = Len(ls)
         /\ \A l \in 1..Len(ls) : new[l].reported = ls[l].reported
         /\ \A l \in 1..Len(ls), k \in Host : Owns(ls[l], k) => Owns(new[l], k)
<1>1. ls[n] \in ListType
  OBVIOUS
<1>2. PICK L : L = [ls[n] EXCEPT !.learned = [@ EXCEPT ![v] = {h}]]
  BY Zenon
<1>3. /\ L \in ListType /\ L.vpnAddrs = ls[n].vpnAddrs /\ L.reported = ls[n].reported
  BY Zenon, <1>1, <1>2 DEF ListType
<1>4. new = [ls EXCEPT ![n] = L]
  BY Zenon, <1>2 DEF Learns, Learned
<1>5. /\ new \in Seq(ListType) /\ Len(new) = Len(ls) /\ new[n] = L
      /\ \A l \in 1..Len(ls) : l # n => new[l] = ls[l]
  <2>1. L \in ListType
    BY Zenon, <1>3
  <2>2. \A new2 : new2 = [ls EXCEPT ![n] = L] =>
          /\ new2 \in Seq(ListType) /\ Len(new2) = Len(ls) /\ new2[n] = L
          /\ \A l \in 1..Len(ls) : l # n => new2[l] = ls[l]
    BY <2>1, OneChanged
  <2> QED
    BY Zenon, <1>4, <2>2
<1>6. \A l \in 1..Len(ls) : /\ new[l].reported = ls[l].reported
                            /\ new[l].vpnAddrs = ls[l].vpnAddrs
  BY Zenon, <1>3, <1>5
<1> QED
  BY Zenon, <1>5, <1>6 DEF Owns

\* So does a report of the host itself.
LEMMA ListReports ==
  ASSUME NEW ls, NEW new, NEW n, NEW v, NEW h, Reports(ls, new, n, v, h)
  PROVE  OwnersKept(ls, new) /\ ReportsGrow(ls, new) /\ new[n].reported[v] = {h}
<1>0. /\ ls \in Seq(ListType) /\ n \in 1..Len(ls) /\ v \in VpnAddr /\ h \in Host
      /\ Owns(ls[n], h)
  BY Zenon DEF Reports
<1>1. ls[n] \in ListType
  BY <1>0
<1>2. PICK L : L = [ls[n] EXCEPT !.reported = [@ EXCEPT ![v] = {h}]]
  BY Zenon
<1>3. /\ L \in ListType /\ L.vpnAddrs = ls[n].vpnAddrs /\ L.reported[v] = {h}
      /\ \A u \in VpnAddr : u # v => L.reported[u] = ls[n].reported[u]
  BY Zenon, <1>0, <1>1, <1>2 DEF ListType
<1>4. Owns(L, h) /\ ls[n].reported[v] \subseteq {h}
  BY Zenon, <1>0, <1>3 DEF Owns
<1>5. Changes(ls, new, n, L, h)
  BY Zenon, <1>0, <1>2, <1>3, <1>4 DEF Reports, Reported, Changes
<1>6. OwnersKept(ls, new) /\ OthersSame(ls, new, n, L)
  BY Zenon, <1>5, ListChanges
<1>7. ReportsGrow(ls, new)
  BY Zenon, <1>0, <1>3, <1>4, <1>6 DEF ReportsGrow, OthersSame
<1> QED
  BY Zenon, <1>3, <1>6, <1>7 DEF OthersSame

\* And so does the certificate of the host it was made for.
LEMMA ListRenamed ==
  ASSUME NEW ls \in Seq(ListType), NEW n \in 1..Len(ls), NEW h \in Host, Owns(ls[n], h),
         NEW new, new = Renamed(ls, n, h)
  PROVE  /\ new \in Seq(ListType) /\ Len(new) = Len(ls)
         /\ \A l \in 1..Len(ls) : new[l].reported = ls[l].reported
         /\ \A l \in 1..Len(ls), k \in Host : Owns(ls[l], k) => Owns(new[l], k)
<1>1. ls[n] \in ListType
  OBVIOUS
<1>2. PICK L : L = [ls[n] EXCEPT !.vpnAddrs = Addrs[h]]
  BY Zenon
<1>3. /\ L \in ListType /\ L.vpnAddrs = Addrs[h] /\ L.reported = ls[n].reported
  BY Zenon, <1>1, <1>2, LightHouseAssumption DEF ListType
<1>4. Owns(L, h)
  BY Zenon, <1>3 DEF Owns
<1>5. Changes(ls, new, n, L, h)
  BY Zenon, <1>2, <1>3, <1>4 DEF Renamed, Changes
<1>6. OwnersKept(ls, new) /\ OthersSame(ls, new, n, L)
  BY Zenon, <1>5, ListChanges
<1> QED
  BY Zenon, <1>3, <1>6 DEF OwnersKept, OthersSame

\* A new list for some or all addresses of a host.
LEMMA NewListOwned ==
  ASSUME NEW h \in Host, NEW addrs,
         addrs = Addrs[h] \/ \E v \in Range(Addrs[h]) : addrs = <<v>>
  PROVE  NewRemoteList(addrs) \in ListType /\ Owns(NewRemoteList(addrs), h)
<1>1. addrs \in Seq(VpnAddr)
  <2>1. CASE addrs = Addrs[h]
    BY Zenon, <2>1, LightHouseAssumption
  <2>2. ASSUME NEW v \in Range(Addrs[h]), addrs = <<v>>
        PROVE  addrs \in Seq(VpnAddr)
    <3>1. v \in VpnAddr
      BY Zenon, HostFacts
    <3> QED
      BY <2>2, <3>1
  <2> QED
    BY Zenon, <2>1, <2>2
<1>2. Nothing \in [VpnAddr -> SUBSET Host] /\ \A v \in VpnAddr : Nothing[v] = {}
  BY Zenon DEF Nothing
<1> QED
  BY Zenon, <1>1, <1>2 DEF NewRemoteList, ListType, Owns

\* A set of numbers has a least one.
LEMMA Least ==
  ASSUME NEW T \in SUBSET Nat, T # {}
  PROVE  \E i \in T : \A j \in T : i <= j
<1>1. IsWellFoundedOn(OpToRel(<, Nat), Nat)
  BY Zenon, NatLessThanWellFounded
<1>2. PICK i \in T : \A j \in T : ~(<<j, i>> \in OpToRel(<, Nat))
  BY Zenon, <1>1, WFMin
<1>3. \A j \in T : <<j, i>> \in Nat \X Nat /\ i \in Nat /\ j \in Nat
  OBVIOUS
<1>4. \A j \in T : ~(j < i)
  BY Zenon, <1>2, <1>3 DEF OpToRel
<1>5. ASSUME NEW j \in T
      PROVE  i <= j
  <2>1. i \in Nat /\ j \in Nat /\ ~(j < i)
    BY Zenon, <1>3, <1>4
  <2> QED
    BY <2>1
<1> QED
  BY Zenon, <1>5

\* unlockedGetRemoteList returns a list of the host asked for, its table
\* differs only where there was no entry, and no list is lost.
LEMMA GetFacts ==
  ASSUME TableInv, NEW h \in Host, NEW addrs,
         addrs = Addrs[h] \/ \E v \in Range(Addrs[h]) : addrs = <<v>>
  PROVE  /\ ListsWith(addrs) \in Seq(ListType) /\ Len(lists) <= Len(ListsWith(addrs))
         /\ \A l \in 1..Len(lists) : ListsWith(addrs)[l] = lists[l]
         /\ ListFor(addrs) \in 1..Len(ListsWith(addrs))
         /\ Owns(ListsWith(addrs)[ListFor(addrs)], h)
         /\ MapWith(addrs) \in [VpnAddr -> 0..Len(ListsWith(addrs))]
         /\ MapWith(addrs)[addrs[1]] = ListFor(addrs)
         /\ \A v \in VpnAddr : \/ MapWith(addrs)[v] = addrMap[v]
                               \/ v \in Range(Addrs[h]) /\ MapWith(addrs)[v] = ListFor(addrs)
         /\ \A v \in VpnAddr : addrMap[v] # 0 => MapWith(addrs)[v] = addrMap[v]
<1>1. /\ addrs \in Seq(VpnAddr) /\ addrs # <<>> /\ Len(addrs) \in Nat \ {0}
      /\ \A i \in 1..Len(addrs) : addrs[i] \in Range(Addrs[h]) /\ addrs[i] \in VpnAddr
      /\ \A v \in Range(addrs) : v \in Range(Addrs[h])
  <2>1. CASE addrs = Addrs[h]
    BY <2>1, LightHouseAssumption DEF Range
  <2>2. ASSUME NEW v \in Range(Addrs[h]), addrs = <<v>>
        PROVE  /\ addrs \in Seq(VpnAddr) /\ addrs # <<>> /\ Len(addrs) \in Nat \ {0}
               /\ \A i \in 1..Len(addrs) : addrs[i] \in Range(Addrs[h]) /\ addrs[i] \in VpnAddr
               /\ \A u \in Range(addrs) : u \in Range(Addrs[h])
    <3>1. v \in VpnAddr
      BY Zenon, HostFacts
    <3>2. \A u \in Range(addrs) : u = v
      BY <2>2 DEF Range
    <3> QED
      BY <2>2, <3>1, <3>2
  <2> QED
    BY Zenon, <2>1, <2>2
<1>2. /\ lists \in Seq(ListType) /\ addrMap \in [VpnAddr -> 0..Len(lists)] /\ Len(lists) \in Nat
  BY DEF TableInv, LightHouseTypeOK
<1>3. CASE Known(addrs) = {}
  <2>1. PICK L : L = NewRemoteList(addrs)
    OBVIOUS
  <2>2. L \in ListType /\ Owns(L, h)
    BY Zenon, <2>1, NewListOwned
  <2>3. /\ ListsWith(addrs) = Append(lists, L) /\ ListFor(addrs) = Len(lists) + 1
        /\ MapWith(addrs) = [v \in VpnAddr |-> IF v \in Range(addrs) THEN Len(lists) + 1
                                               ELSE addrMap[v]]
    BY Zenon, <1>3, <2>1 DEF ListsWith, ListFor, MapWith
  <2>4. /\ Append(lists, L) \in Seq(ListType) /\ Len(Append(lists, L)) = Len(lists) + 1
        /\ \A l \in 1..Len(lists) : Append(lists, L)[l] = lists[l]
        /\ Append(lists, L)[Len(lists) + 1] = L
    BY <1>2, <2>2
  <2>5. \A v \in Range(addrs) : v \in VpnAddr /\ addrMap[v] = 0
    BY <1>1, <1>3 DEF Known, Range
  <2>6. addrs[1] \in Range(addrs)
    BY <1>1 DEF Range
  <2>7. Len(lists) + 1 \in 1..Len(lists) + 1 /\ 0..Len(lists) \subseteq 0..Len(lists) + 1
    BY <1>2
  <2>8. MapWith(addrs) \in [VpnAddr -> 0..Len(ListsWith(addrs))]
    BY <1>2, <2>3, <2>4, <2>7
  <2> QED
    BY <1>1, <1>2, <2>2, <2>3, <2>4, <2>5, <2>6, <2>7, <2>8
<1>4. CASE Known(addrs) # {}
  <2>2. \E i \in Known(addrs) : \A j \in Known(addrs) : i <= j
    <3>1. Known(addrs) \subseteq Nat
      BY <1>1 DEF Known
    <3> QED
      BY Zenon, <1>4, <3>1, Least
  <2>3. PICK c \in Known(addrs) : /\ \A j \in Known(addrs) : c <= j
                                  /\ ListFor(addrs) = addrMap[addrs[c]]
    <3>1. ListFor(addrs) = addrMap[addrs[CHOOSE k \in Known(addrs) :
                                           \A j \in Known(addrs) : k <= j]]
      BY Zenon, <1>4 DEF ListFor
    <3> QED
      BY Zenon, <2>2, <3>1
  <2>4. c \in 1..Len(addrs) /\ addrMap[addrs[c]] # 0
    BY Zenon DEF Known
  <2>5. ListFor(addrs) \in 1..Len(lists) /\ ListsWith(addrs) = lists
    BY <1>1, <1>2, <1>4, <2>3, <2>4 DEF ListsWith
  <2>6. Owns(lists[ListFor(addrs)], h)
    <3>1. HostOf(addrs[c]) = h
      BY Zenon, <1>1, <2>4, HostFacts
    <3> QED
      BY Zenon, <1>1, <2>3, <2>4, <3>1 DEF TableInv, TableOwned
  <2>7. addrMap[addrs[1]] # 0 => ListFor(addrs) = addrMap[addrs[1]]
    <3>1. addrMap[addrs[1]] # 0 => 1 \in Known(addrs)
      BY <1>1 DEF Known
    <3> QED
      BY <2>3, <2>4, <3>1
  <2>8. MapWith(addrs) = [addrMap EXCEPT ![addrs[1]] = ListFor(addrs)]
    BY Zenon, <1>4 DEF MapWith
  <2>9. addrs[1] \in VpnAddr /\ addrs[1] \in Range(Addrs[h])
    BY <1>1
  <2>10. ListFor(addrs) \in 0..Len(lists)
    BY <1>2, <2>5
  <2> QED
    BY <1>2, <2>5, <2>6, <2>7, <2>8, <2>9, <2>10
<1> QED
  BY Zenon, <1>3, <1>4

-----------------------------------------------------------------------------
(* The steps.                                                              *)

\* Lists are added and keep their host.
OwnersStay ==
  /\ lists' \in Seq(ListType) /\ Len(lists) <= Len(lists')
  /\ \A l \in 1..Len(lists), k \in Host : Owns(lists[l], k) => Owns(lists'[l], k)

\* Nothing that was reported is taken back.
ReportsStay ==
  \A l \in 1..Len(lists), v \in VpnAddr : lists[l].reported[v] \subseteq lists'[l].reported[v]

\* What the other parts of the node point at stays what it was.
LEMMA PointersStay ==
  ASSUME TableInv, OwnersStay
  PROVE  /\ \A v \in VpnAddr : pending[v] # 0 => Owns(lists'[pending[v]], HostOf(v))
         /\ \A v \in VpnAddr : addrMap[v] # 0 => Owns(lists'[addrMap[v]], HostOf(v))
         /\ \A h \in Host : responding[h] # 0 => Owns(lists'[responding[h]], h)
         /\ addrMap \in [VpnAddr -> 0..Len(lists')]
         /\ pending \in [VpnAddr -> 0..Len(lists')]
         /\ responding \in [Host -> 0..Len(lists')]
         /\ tunnels \in [Host -> SUBSET (1..Len(lists'))]
<1>1. /\ Len(lists) \in Nat /\ Len(lists') \in Nat /\ Len(lists) <= Len(lists')
      /\ addrMap \in [VpnAddr -> 0..Len(lists)]
      /\ pending \in [VpnAddr -> 0..Len(lists)]
      /\ responding \in [Host -> 0..Len(lists)]
      /\ tunnels \in [Host -> SUBSET (1..Len(lists))]
  BY DEF TableInv, LightHouseTypeOK, OwnersStay
<1>2. 0..Len(lists) \subseteq 0..Len(lists') /\ 1..Len(lists) \subseteq 1..Len(lists')
  BY <1>1
<1>3. /\ \A v \in VpnAddr : pending[v] # 0 => pending[v] \in 1..Len(lists)
      /\ \A v \in VpnAddr : addrMap[v] # 0 => addrMap[v] \in 1..Len(lists)
      /\ \A h \in Host : responding[h] # 0 => responding[h] \in 1..Len(lists)
  BY <1>1
<1>4. /\ \A v \in VpnAddr : pending[v] # 0 => Owns(lists'[pending[v]], HostOf(v))
      /\ \A v \in VpnAddr : addrMap[v] # 0 => Owns(lists'[addrMap[v]], HostOf(v))
  BY Zenon, <1>3, HostFacts DEF TableInv, PendingOwned, TableOwned, OwnersStay
<1>5. \A h \in Host : responding[h] # 0 => Owns(lists'[responding[h]], h)
  BY Zenon, <1>3 DEF TableInv, RespondingOwned, OwnersStay
<1>6. /\ addrMap \in [VpnAddr -> 0..Len(lists')]
      /\ pending \in [VpnAddr -> 0..Len(lists')]
      /\ responding \in [Host -> 0..Len(lists')]
  BY Zenon, <1>1, <1>2
<1>7. tunnels \in [Host -> SUBSET (1..Len(lists'))]
  BY Zenon, <1>1, <1>2
<1> QED
  BY Zenon, <1>4, <1>5, <1>6, <1>7

\* Updates stay found where the table's entries and the reports stay.
LEMMA UpdatesStay ==
  ASSUME TableInv, ReportsStay,
         NEW U \in SUBSET updated, \A h \in U : addrMap'[Primary(h)] = addrMap[Primary(h)]
  PROVE  /\ U \subseteq Host
         /\ \A h \in U : /\ amLighthouse /\ addrMap'[Primary(h)] # 0
                         /\ h \in lists'[addrMap'[Primary(h)]].reported[Primary(h)]
<1> SUFFICES ASSUME NEW h \in U
             PROVE  /\ h \in Host /\ amLighthouse /\ addrMap'[Primary(h)] # 0
                    /\ h \in lists'[addrMap'[Primary(h)]].reported[Primary(h)]
  OBVIOUS
<1>1. /\ h \in Host /\ amLighthouse /\ addrMap[Primary(h)] # 0
      /\ h \in lists[addrMap[Primary(h)]].reported[Primary(h)]
  BY Zenon DEF TableInv, UpdatesKept
<1>2. Primary(h) \in VpnAddr
  BY Zenon, <1>1, HostFacts
<1>3. addrMap[Primary(h)] \in 1..Len(lists)
  BY <1>1, <1>2 DEF TableInv, LightHouseTypeOK
<1> QED
  BY Zenon, <1>1, <1>2, <1>3 DEF ReportsStay

\* A step that takes a list from the table, and may then change it.
LEMMA GetKeeps ==
  ASSUME TableInv, NEW h \in Host, NEW addrs,
         addrs = Addrs[h] \/ \E v \in Range(Addrs[h]) : addrs = <<v>>,
         addrMap' = MapWith(addrs),
         lists' \in Seq(ListType), Len(lists') = Len(ListsWith(addrs)),
         \A l \in 1..Len(lists'), k \in Host :
           Owns(ListsWith(addrs)[l], k) => Owns(lists'[l], k)
  PROVE  /\ OwnersStay /\ TableOwned' /\ addrMap' \in [VpnAddr -> 0..Len(lists')]
         /\ ListFor(addrs) \in 1..Len(lists') /\ Owns(lists'[ListFor(addrs)], h)
         /\ \A v \in VpnAddr : addrMap[v] # 0 => addrMap'[v] = addrMap[v]
<1>1. /\ ListsWith(addrs) \in Seq(ListType) /\ Len(lists) <= Len(lists')
      /\ \A l \in 1..Len(lists) : ListsWith(addrs)[l] = lists[l]
      /\ ListFor(addrs) \in 1..Len(lists')
      /\ Owns(ListsWith(addrs)[ListFor(addrs)], h)
      /\ addrMap' \in [VpnAddr -> 0..Len(lists')]
      /\ \A v \in VpnAddr : \/ addrMap'[v] = addrMap[v]
                            \/ v \in Range(Addrs[h]) /\ addrMap'[v] = ListFor(addrs)
      /\ \A v \in VpnAddr : addrMap[v] # 0 => addrMap'[v] = addrMap[v]
  <2>1. /\ ListsWith(addrs) \in Seq(ListType) /\ Len(lists) <= Len(ListsWith(addrs))
        /\ \A l \in 1..Len(lists) : ListsWith(addrs)[l] = lists[l]
        /\ ListFor(addrs) \in 1..Len(ListsWith(addrs))
        /\ Owns(ListsWith(addrs)[ListFor(addrs)], h)
        /\ MapWith(addrs) \in [VpnAddr -> 0..Len(ListsWith(addrs))]
        /\ \A v \in VpnAddr : \/ MapWith(addrs)[v] = addrMap[v]
                              \/ v \in Range(Addrs[h]) /\ MapWith(addrs)[v] = ListFor(addrs)
        /\ \A v \in VpnAddr : addrMap[v] # 0 => MapWith(addrs)[v] = addrMap[v]
    BY GetFacts
  <2> QED
    BY Zenon, <2>1
<1>2. Len(lists) \in Nat /\ Len(lists') \in Nat
  BY DEF TableInv, LightHouseTypeOK
<1>3. 1..Len(lists) \subseteq 1..Len(lists')
  BY <1>1, <1>2
<1>4. OwnersStay
  BY Zenon, <1>1, <1>3 DEF OwnersStay
<1>5. Owns(lists'[ListFor(addrs)], h)
  BY Zenon, <1>1
<1>6. TableOwned'
  <2> SUFFICES ASSUME NEW v \in VpnAddr, addrMap'[v] # 0
               PROVE  Owns(lists'[addrMap'[v]], HostOf(v))
    BY Zenon DEF TableOwned, Owns, HostOf, VpnAddr
  <2>1. CASE addrMap'[v] = addrMap[v]
    BY Zenon, <1>4, <2>1, PointersStay
  <2>2. CASE v \in Range(Addrs[h]) /\ addrMap'[v] = ListFor(addrs)
    BY Zenon, <1>5, <2>2, HostFacts
  <2> QED
    BY Zenon, <1>1, <2>1, <2>2
<1> QED
  BY Zenon, <1>1, <1>4, <1>5, <1>6

\* The table as it is, or one that only fills gaps, keeps the updates found.
LEMMA GapsFilled ==
  ASSUME TableInv, ReportsStay, amLighthouse' = amLighthouse, updated' = updated,
         \A v \in VpnAddr : addrMap[v] # 0 => addrMap'[v] = addrMap[v]
  PROVE  UpdatesKept'
<1>1. \A h \in updated : h \in Host /\ Primary(h) \in VpnAddr /\ addrMap[Primary(h)] # 0
  BY Zenon, HostFacts DEF TableInv, UpdatesKept
<1>2. \A h \in updated : addrMap'[Primary(h)] = addrMap[Primary(h)]
  BY Zenon, <1>1
<1>3. /\ updated \subseteq Host
      /\ \A h \in updated : /\ amLighthouse /\ addrMap'[Primary(h)] # 0
                            /\ h \in lists'[addrMap'[Primary(h)]].reported[Primary(h)]
  BY Zenon, <1>2, UpdatesStay
<1> QED
  BY Zenon, <1>3 DEF UpdatesKept, Primary

\* A function's values are in a smaller set.
LEMMA ValuesIn ==
  ASSUME NEW D, NEW R, NEW S, NEW f \in [D -> R], \A x \in D : f[x] \in S
  PROVE  f \in [D -> S]
OBVIOUS

\* What a step has to show of each part: the lists it lets pending handshakes
\* and answers point to are of their hosts, and the rest is typed.
PendingStep ==
  /\ pending' \in [VpnAddr -> Nat]
  /\ \A v \in VpnAddr : \/ pending'[v] \in {0, pending[v]}
                        \/ pending'[v] <= Len(lists') /\ Owns(lists'[pending'[v]], HostOf(v))
RespondingStep ==
  /\ responding' \in [Host -> Nat]
  /\ \A h \in Host : \/ responding'[h] \in {0, responding[h]}
                     \/ responding'[h] <= Len(lists') /\ Owns(lists'[responding'[h]], h)
TunnelsStep ==
  tunnels' \in [Host -> SUBSET (1..Len(lists'))] /\ deleting' \in [Host -> BOOLEAN]
StaticParts ==
  /\ staticList \subseteq VpnAddr
  /\ staticLoad \in [pc : {"idle"}] \cup
       [pc : {"load"}, map : SUBSET VpnAddr, todo : SUBSET VpnAddr]
StaticStep ==
  /\ staticList' \subseteq VpnAddr
  /\ staticLoad' \in [pc : {"idle"}] \cup
       [pc : {"load"}, map : SUBSET VpnAddr, todo : SUBSET VpnAddr]
TableStep ==
  OwnersStay /\ TableOwned' /\ addrMap' \in [VpnAddr -> 0..Len(lists')]

\* The parts together.
LEMMA StepKeeps ==
  ASSUME TableInv, TableStep, PendingStep, RespondingStep, TunnelsStep, StaticStep,
         UpdatesKept', OutRight'
  PROVE  TableInv'
<1>1. /\ \A v \in VpnAddr : pending[v] # 0 => Owns(lists'[pending[v]], HostOf(v))
      /\ \A h \in Host : responding[h] # 0 => Owns(lists'[responding[h]], h)
      /\ pending \in [VpnAddr -> 0..Len(lists')]
      /\ responding \in [Host -> 0..Len(lists')]
  BY Zenon, PointersStay DEF TableStep
<1>2. lists' \in Seq(ListType) /\ Len(lists') \in Nat
  BY DEF TableStep, OwnersStay
<1>3. \A v \in VpnAddr : /\ pending'[v] \in 0..Len(lists')
                         /\ pending'[v] # 0 => Owns(lists'[pending'[v]], HostOf(v))
  BY <1>1, <1>2 DEF PendingStep
<1>4. \A h \in Host : /\ responding'[h] \in 0..Len(lists')
                      /\ responding'[h] # 0 => Owns(lists'[responding'[h]], h)
  BY <1>1, <1>2 DEF RespondingStep
<1>5. pending' \in [VpnAddr -> 0..Len(lists')]
  BY Zenon, <1>3, ValuesIn DEF PendingStep
<1>6. responding' \in [Host -> 0..Len(lists')]
  BY Zenon, <1>4, ValuesIn DEF RespondingStep
<1>7. LightHouseTypeOK'
  BY Zenon, <1>2, <1>5, <1>6
     DEF LightHouseTypeOK, ListType, VpnAddr, TableStep, TunnelsStep, StaticStep
<1>8. PendingOwned'
  BY Zenon, <1>3 DEF PendingOwned, Owns, HostOf, VpnAddr
<1>9. RespondingOwned'
  BY Zenon, <1>4 DEF RespondingOwned, Owns, VpnAddr
<1> QED
  BY Zenon, <1>7, <1>8, <1>9 DEF TableInv, TableStep

\* The parts a step leaves alone.
LEMMA PartsStay ==
  ASSUME TableInv, OwnersStay
  PROVE  /\ UNCHANGED pending => PendingStep
         /\ UNCHANGED responding => RespondingStep
         /\ UNCHANGED <<tunnels, deleting>> => TunnelsStep
         /\ UNCHANGED <<staticList, staticLoad>> => StaticStep
         /\ UNCHANGED addrMap => TableStep
         /\ out' = {} => OutRight'
<1>1. /\ pending \in [VpnAddr -> 0..Len(lists')]
      /\ responding \in [Host -> 0..Len(lists')]
      /\ tunnels \in [Host -> SUBSET (1..Len(lists'))]
      /\ addrMap \in [VpnAddr -> 0..Len(lists')]
      /\ \A v \in VpnAddr : addrMap[v] # 0 => Owns(lists'[addrMap[v]], HostOf(v))
  BY Zenon, PointersStay
<1>2. pending \in [VpnAddr -> Nat] /\ responding \in [Host -> Nat]
  BY <1>1
<1>3. deleting \in [Host -> BOOLEAN] /\ StaticParts
  BY Zenon DEF TableInv, LightHouseTypeOK, StaticParts
<1>4. UNCHANGED addrMap => TableOwned'
  <2> SUFFICES ASSUME UNCHANGED addrMap, NEW v \in VpnAddr, addrMap'[v] # 0
               PROVE  Owns(lists'[addrMap'[v]], HostOf(v))
    BY Zenon DEF TableOwned, Owns, HostOf, VpnAddr
  <2> QED
    BY Zenon, <1>1
<1>5. UNCHANGED pending => PendingStep
  BY Zenon, <1>2 DEF PendingStep
<1>6. UNCHANGED responding => RespondingStep
  BY Zenon, <1>2 DEF RespondingStep
<1>7. UNCHANGED <<tunnels, deleting>> => TunnelsStep
  BY Zenon, <1>1, <1>3 DEF TunnelsStep
<1>8. UNCHANGED <<staticList, staticLoad>> => StaticStep
  BY Zenon, <1>3 DEF StaticStep, StaticParts
<1>9. UNCHANGED addrMap => TableStep
  BY Zenon, <1>1, <1>4 DEF TableStep
<1>10. out' = {} => OutRight'
  BY Zenon DEF OutRight
<1> QED
  BY Zenon, <1>5, <1>6, <1>7, <1>8, <1>9, <1>10

\* A step that takes a list for a host from the table.
LEMMA GetStep ==
  ASSUME TableInv, NEW h \in Host, NEW addrs,
         addrs = Addrs[h] \/ \E v \in Range(Addrs[h]) : addrs = <<v>>,
         addrMap' = MapWith(addrs), lists' = ListsWith(addrs)
  PROVE  /\ TableStep
         /\ ListFor(addrs) \in Nat /\ ListFor(addrs) <= Len(lists')
         /\ Owns(lists'[ListFor(addrs)], h)
         /\ ReportsStay
         /\ \A u \in VpnAddr : addrMap[u] # 0 => addrMap'[u] = addrMap[u]
<1>1. /\ lists' \in Seq(ListType) /\ Len(lists') = Len(ListsWith(addrs))
      /\ \A l \in 1..Len(lists) : lists'[l] = lists[l]
  BY Zenon, GetFacts
<1>2. /\ OwnersStay /\ TableOwned' /\ addrMap' \in [VpnAddr -> 0..Len(lists')]
      /\ ListFor(addrs) \in 1..Len(lists') /\ Owns(lists'[ListFor(addrs)], h)
      /\ \A u \in VpnAddr : addrMap[u] # 0 => addrMap'[u] = addrMap[u]
  BY Zenon, <1>1, GetKeeps
<1>3. ListFor(addrs) \in Nat /\ ListFor(addrs) <= Len(lists')
  BY <1>1, <1>2
<1>4. ReportsStay
  BY Zenon, <1>1 DEF ReportsStay
<1> QED
  BY Zenon, <1>2, <1>3, <1>4 DEF TableStep

\* StartHandshake dials with a list of the address's host.
LEMMA StartHandshakeKeeps ==
  ASSUME TableInv, NEW v \in VpnAddr, StartHandshake(v)
  PROVE  TableInv'
<1>1. PICK h \in Host : h = HostOf(v) /\ v \in Range(Addrs[h])
  BY Zenon, HostFacts
<1>2. PICK addrs : addrs = <<v>>
  BY Zenon
<1>3. /\ addrMap' = MapWith(addrs) /\ lists' = ListsWith(addrs)
      /\ pending' = [pending EXCEPT ![v] = ListFor(addrs)] /\ out' = {}
      /\ UNCHANGED <<updated, amLighthouse, staticList, staticLoad, responding, tunnels, deleting>>
  BY Zenon, <1>2 DEF StartHandshake, GetRemoteList, statics
<1>4. addrs = Addrs[h] \/ \E u \in Range(Addrs[h]) : addrs = <<u>>
  BY Zenon, <1>1, <1>2
<1>5. /\ TableStep /\ ReportsStay
      /\ ListFor(addrs) \in Nat /\ ListFor(addrs) <= Len(lists')
      /\ Owns(lists'[ListFor(addrs)], h)
      /\ \A u \in VpnAddr : addrMap[u] # 0 => addrMap'[u] = addrMap[u]
  BY Zenon, <1>3, <1>4, GetStep
<1>6. UpdatesKept'
  BY Zenon, <1>3, <1>5, GapsFilled
<1>7. RespondingStep /\ TunnelsStep /\ StaticStep /\ OutRight'
  BY Zenon, <1>3, <1>5, PartsStay DEF TableStep
<1>8. pending \in [VpnAddr -> Nat]
  BY DEF TableInv, LightHouseTypeOK
<1>9. PendingStep
  BY Zenon, <1>1, <1>3, <1>5, <1>8 DEF PendingStep
<1> QED
  BY Zenon, <1>5, <1>6, <1>7, <1>9, StepKeeps

\* A static host gets a list of its own.
LEMMA addStaticRemotesOfKeeps ==
  ASSUME TableInv, NEW v \in VpnAddr, addStaticRemotesOf(v)
  PROVE  TableInv'
<1>1. PICK h \in Host : h = HostOf(v) /\ v \in Range(Addrs[h])
  BY Zenon, HostFacts
<1>2. PICK addrs : addrs = <<v>>
  BY Zenon
<1>3. /\ addrMap' = MapWith(addrs) /\ lists' = ListsWith(addrs)
      /\ staticLoad.pc = "load" /\ staticLoad' = [staticLoad EXCEPT !.todo = @ \ {v}] /\ out' = {}
      /\ UNCHANGED <<updated, amLighthouse, staticList, pending, responding, tunnels, deleting>>
  BY Zenon, <1>2 DEF addStaticRemotesOf, GetRemoteList, handshakes
<1>4. addrs = Addrs[h] \/ \E u \in Range(Addrs[h]) : addrs = <<u>>
  BY Zenon, <1>1, <1>2
<1>5. /\ TableStep /\ ReportsStay
      /\ \A u \in VpnAddr : addrMap[u] # 0 => addrMap'[u] = addrMap[u]
  BY Zenon, <1>3, <1>4, GetStep
<1>6. UpdatesKept'
  BY Zenon, <1>3, <1>5, GapsFilled
<1>7. PendingStep /\ RespondingStep /\ TunnelsStep /\ OutRight'
  BY Zenon, <1>3, <1>5, PartsStay DEF TableStep
<1>8. StaticParts
  BY Zenon DEF TableInv, LightHouseTypeOK, StaticParts
<1>9. StaticStep
  BY Zenon, <1>3, <1>8 DEF StaticParts, StaticStep
<1> QED
  BY Zenon, <1>5, <1>6, <1>7, <1>9, StepKeeps

\* A change inside the lists alone.
LEMMA ListsOnly ==
  ASSUME TableInv, lists' \in Seq(ListType), Len(lists') = Len(lists),
         \A l \in 1..Len(lists) : lists'[l].reported = lists[l].reported,
         \A l \in 1..Len(lists), k \in Host : Owns(lists[l], k) => Owns(lists'[l], k)
  PROVE  /\ OwnersStay /\ ReportsStay
         /\ UNCHANGED addrMap => TableStep
         /\ UNCHANGED <<addrMap, amLighthouse, updated>> => UpdatesKept'
<1>1. OwnersStay
  BY DEF OwnersStay, TableInv, LightHouseTypeOK
<1>2. ReportsStay
  BY Zenon DEF ReportsStay
<1>3. UNCHANGED addrMap => TableStep
  BY Zenon, <1>1, PartsStay
<1>4. UNCHANGED <<addrMap, amLighthouse, updated>> => UpdatesKept'
  BY Zenon, <1>2, GapsFilled
<1> QED
  BY Zenon, <1>1, <1>2, <1>3, <1>4

\* The lists as they are.
LEMMA ListsStay ==
  ASSUME TableInv, UNCHANGED lists
  PROVE  /\ OwnersStay /\ ReportsStay
         /\ UNCHANGED addrMap => TableStep
         /\ UNCHANGED <<addrMap, amLighthouse, updated>> => UpdatesKept'
<1>1. lists \in Seq(ListType)
  BY Zenon DEF TableInv, LightHouseTypeOK
<1> QED
  BY Zenon, <1>1, ListsOnly

\* The handshake that completes is the dialled host's.
LEMMA HandshakeCompletesKeeps ==
  ASSUME TableInv, NEW v \in VpnAddr, HandshakeCompletes(v)
  PROVE  TableInv'
<1>1. PICK h \in Host : h = HostOf(v) /\ v \in Range(Addrs[h])
  BY Zenon, HostFacts
<1>2. PICK n : n = pending[v]
  OBVIOUS
<1>3. PICK mid : mid = Learned(lists, n, v, h)
  OBVIOUS
<1>4. /\ n # 0 /\ lists' = Renamed(mid, n, h)
      /\ tunnels' = [tunnels EXCEPT ![h] = @ \cup {n}]
      /\ pending' = [pending EXCEPT ![v] = 0] /\ out' = {}
      /\ UNCHANGED <<updated, amLighthouse, addrMap, staticList, staticLoad, responding, deleting>>
  BY Zenon, <1>1, <1>2, <1>3 DEF HandshakeCompletes, LearnedFrom, Learned, Renamed, statics
<1>5. /\ lists \in Seq(ListType) /\ n \in 1..Len(lists) /\ Owns(lists[n], h)
      /\ pending \in [VpnAddr -> 0..Len(lists)]
  BY <1>1, <1>2, <1>4 DEF TableInv, LightHouseTypeOK, PendingOwned
<1>6. /\ mid \in Seq(ListType) /\ Len(mid) = Len(lists)
      /\ \A l \in 1..Len(lists) : mid[l].reported = lists[l].reported
      /\ \A l \in 1..Len(lists), k \in Host : Owns(lists[l], k) => Owns(mid[l], k)
  <2>1. lists \in Seq(ListType) /\ n \in 1..Len(lists)
    BY Zenon, <1>5
  <2>2. Learns(lists, mid, n, v, h)
    BY Zenon, <1>3 DEF Learns
  <2> QED
    BY Zenon, <2>1, <2>2, ListLearns
<1>7. n \in 1..Len(mid) /\ Owns(mid[n], h)
  BY Zenon, <1>5, <1>6
<1>8. /\ lists' \in Seq(ListType) /\ Len(lists') = Len(mid)
      /\ \A l \in 1..Len(mid) : lists'[l].reported = mid[l].reported
      /\ \A l \in 1..Len(mid), k \in Host : Owns(mid[l], k) => Owns(lists'[l], k)
  BY <1>4, <1>6, <1>7, ListRenamed
<1>9. OwnersStay /\ TableStep /\ UpdatesKept'
  BY Zenon, <1>4, <1>6, <1>8, ListsOnly
<1>10. RespondingStep /\ StaticStep /\ OutRight'
  BY Zenon, <1>4, <1>9, PartsStay
<1>11. PendingStep
  BY <1>4, <1>5 DEF PendingStep
<1>12. TunnelsStep
  <2>1. /\ tunnels \in [Host -> SUBSET (1..Len(lists))] /\ deleting \in [Host -> BOOLEAN]
        /\ Len(lists') = Len(lists)
    BY Zenon, <1>6, <1>8 DEF TableInv, LightHouseTypeOK
  <2> QED
    BY Zenon, <1>4, <1>5, <2>1 DEF TunnelsStep
<1> QED
  BY Zenon, <1>9, <1>10, <1>11, <1>12, StepKeeps

\* A handshake that times out lets go of its list.
LEMMA HandshakeTimesOutKeeps ==
  ASSUME TableInv, NEW v \in VpnAddr, HandshakeTimesOut(v)
  PROVE  TableInv'
<1>1. /\ pending' = [pending EXCEPT ![v] = 0] /\ out' = {}
      /\ UNCHANGED <<updated, amLighthouse, addrMap, lists, staticList, staticLoad, responding,
                     tunnels, deleting>>
  BY Zenon DEF HandshakeTimesOut, statics
<1>2. OwnersStay /\ TableStep /\ UpdatesKept'
  BY Zenon, <1>1, ListsStay
<1>3. RespondingStep /\ TunnelsStep /\ StaticStep /\ OutRight'
  BY Zenon, <1>1, <1>2, PartsStay
<1>4. pending \in [VpnAddr -> 0..Len(lists)] /\ Len(lists) \in Nat
  BY DEF TableInv, LightHouseTypeOK
<1>5. PendingStep
  BY <1>1, <1>4 DEF PendingStep
<1> QED
  BY Zenon, <1>2, <1>3, <1>5, StepKeeps

\* The wrong host is learned, but in a list that stays the right host's.
LEMMA WrongHostKeeps ==
  ASSUME TableInv, NEW v \in VpnAddr, NEW g \in Host, WrongHostResponds(v, g)
  PROVE  TableInv'
<1>1. PICK h \in Host : h = HostOf(v) /\ v \in Range(Addrs[h])
  BY Zenon, HostFacts
<1>2. PICK n : n = pending[v]
  OBVIOUS
<1>3. PICK mid : mid = Learned(lists, n, v, g)
  OBVIOUS
<1>4. /\ n # 0 /\ out' = {}
      /\ UNCHANGED <<updated, amLighthouse, staticList, staticLoad, responding, tunnels, deleting>>
      /\ IF addrMap[v] # 0
         THEN lists' = mid /\ pending' = [pending EXCEPT ![v] = addrMap[v]] /\ UNCHANGED addrMap
         ELSE /\ lists' = Append(mid, NewRemoteList(<<v>>))
              /\ pending' = [pending EXCEPT ![v] = Len(lists) + 1]
              /\ addrMap' = [addrMap EXCEPT ![v] = Len(lists) + 1]
  BY Zenon, <1>2, <1>3 DEF WrongHostResponds, LearnedFrom, Learned, statics
<1>5. /\ lists \in Seq(ListType) /\ n \in 1..Len(lists) /\ Len(lists) \in Nat
      /\ pending \in [VpnAddr -> 0..Len(lists)] /\ addrMap \in [VpnAddr -> 0..Len(lists)]
  BY <1>2, <1>4 DEF TableInv, LightHouseTypeOK
<1>6. /\ mid \in Seq(ListType) /\ Len(mid) = Len(lists)
      /\ \A l \in 1..Len(lists) : mid[l].reported = lists[l].reported
      /\ \A l \in 1..Len(lists), k \in Host : Owns(lists[l], k) => Owns(mid[l], k)
  <2>1. Learns(lists, mid, n, v, g)
    BY Zenon, <1>3 DEF Learns
  <2>2. lists \in Seq(ListType) /\ n \in 1..Len(lists)
    BY Zenon, <1>5
  <2> QED
    BY Zenon, <2>1, <2>2, ListLearns
<1>7. CASE addrMap[v] # 0
  <2>1. OwnersStay /\ TableStep /\ UpdatesKept'
    BY Zenon, <1>4, <1>6, <1>7, ListsOnly
  <2>2. RespondingStep /\ TunnelsStep /\ StaticStep /\ OutRight'
    BY Zenon, <1>4, <2>1, PartsStay
  <2>3. addrMap[v] \in Nat /\ addrMap[v] <= Len(lists') /\ Owns(lists'[addrMap[v]], HostOf(v))
    <3>1. addrMap[v] \in 0..Len(lists) /\ Len(lists') = Len(lists)
      BY Zenon, <1>4, <1>5, <1>6, <1>7
    <3> QED
      BY <1>5, <1>7, <2>1, <3>1, PointersStay
  <2>4. PendingStep
    BY <1>4, <1>5, <1>7, <2>3 DEF PendingStep
  <2> QED
    BY Zenon, <2>1, <2>2, <2>4, StepKeeps
<1>8. CASE addrMap[v] = 0
  <2>1. PICK L : L = NewRemoteList(<<v>>)
    OBVIOUS
  <2>2. L \in ListType /\ Owns(L, h)
    BY Zenon, <1>1, <2>1, NewListOwned
  <2>3. lists' = Append(mid, L) /\ addrMap' = [addrMap EXCEPT ![v] = Len(lists) + 1]
        /\ pending' = [pending EXCEPT ![v] = Len(lists) + 1]
    BY Zenon, <1>4, <1>8, <2>1
  <2>4. /\ lists' \in Seq(ListType) /\ Len(lists') = Len(lists) + 1 /\ lists'[Len(lists) + 1] = L
        /\ \A l \in 1..Len(lists) : lists'[l] = mid[l]
    <3>1. mid \in Seq(ListType) /\ L \in ListType /\ Len(mid) = Len(lists)
      BY Zenon, <1>6, <2>2
    <3>2. /\ Append(mid, L) \in Seq(ListType) /\ Len(Append(mid, L)) = Len(mid) + 1
          /\ Append(mid, L)[Len(mid) + 1] = L
          /\ \A l \in 1..Len(mid) : Append(mid, L)[l] = mid[l]
      BY <3>1
    <3> QED
      BY Zenon, <2>3, <3>1, <3>2
  <2>5. OwnersStay /\ ReportsStay
    <3>1. Len(lists) <= Len(lists')
      BY <1>5, <2>4
    <3>2. \A l \in 1..Len(lists), k \in Host : Owns(lists[l], k) => Owns(lists'[l], k)
      BY Zenon, <1>6, <2>4
    <3>3. \A l \in 1..Len(lists) : lists'[l].reported = lists[l].reported
      BY Zenon, <1>6, <2>4
    <3> QED
      BY Zenon, <2>4, <3>1, <3>2, <3>3 DEF OwnersStay, ReportsStay
  <2>6. RespondingStep /\ TunnelsStep /\ StaticStep /\ OutRight'
    BY Zenon, <1>4, <2>5, PartsStay
  <2>7. PendingStep
    BY <1>1, <1>5, <2>2, <2>3, <2>4 DEF PendingStep
  <2>8. UpdatesKept'
    <3>1. \A u \in VpnAddr : addrMap[u] # 0 => addrMap'[u] = addrMap[u]
      BY Zenon, <1>5, <1>8, <2>3
    <3> QED
      BY Zenon, <1>4, <2>5, <3>1, GapsFilled
  <2>9. TableStep
    <3>1. addrMap' \in [VpnAddr -> 0..Len(lists')]
      BY <1>5, <2>3, <2>4
    <3>2. \A u \in VpnAddr : addrMap'[u] # 0 => Owns(lists'[addrMap'[u]], HostOf(u))
      <4>1. \A u \in VpnAddr : addrMap[u] # 0 => Owns(lists'[addrMap[u]], HostOf(u))
        BY Zenon, <2>5, PointersStay
      <4> QED
        BY Zenon, <1>1, <1>5, <2>2, <2>3, <2>4, <4>1
    <3>3. TableOwned'
      BY Zenon, <3>2 DEF TableOwned, Owns, HostOf, VpnAddr
    <3> QED
      BY Zenon, <2>5, <3>1, <3>3 DEF TableStep
  <2> QED
    BY Zenon, <2>6, <2>7, <2>8, <2>9, StepKeeps
<1> QED
  BY Zenon, <1>7, <1>8

\* The responder answers with a list of the host that called.
LEMMA BeginHandshakeKeeps ==
  ASSUME TableInv, NEW h \in Host, BeginHandshake(h)
  PROVE  TableInv'
<1>1. PICK addrs, ls, n : addrs = Addrs[h] /\ ls = ListsWith(addrs) /\ n = ListFor(addrs)
  OBVIOUS
<1>2. /\ addrMap' = MapWith(addrs) /\ lists' = Learned(ls, n, Primary(h), h)
      /\ responding' = [responding EXCEPT ![h] = n] /\ out' = {}
      /\ UNCHANGED <<updated, amLighthouse, staticList, staticLoad, pending, tunnels, deleting>>
  BY Zenon, <1>1 DEF BeginHandshake, Learned, statics
<1>3. /\ ls \in Seq(ListType) /\ Len(lists) <= Len(ls) /\ n \in 1..Len(ls)
      /\ \A l \in 1..Len(lists) : ls[l] = lists[l]
  BY Zenon, <1>1, GetFacts
<1>4. Primary(h) \in VpnAddr
  BY Zenon, HostFacts
<1>5. /\ lists' \in Seq(ListType) /\ Len(lists') = Len(ls)
      /\ \A l \in 1..Len(ls) : lists'[l].reported = ls[l].reported
      /\ \A l \in 1..Len(ls), k \in Host : Owns(ls[l], k) => Owns(lists'[l], k)
  <2>1. Learns(ls, lists', n, Primary(h), h)
    BY Zenon, <1>2 DEF Learns
  <2> QED
    BY Zenon, <1>3, <1>4, <2>1, ListLearns
<1>6. /\ OwnersStay /\ TableOwned' /\ addrMap' \in [VpnAddr -> 0..Len(lists')]
      /\ n \in 1..Len(lists') /\ Owns(lists'[n], h)
      /\ \A v \in VpnAddr : addrMap[v] # 0 => addrMap'[v] = addrMap[v]
  BY Zenon, <1>1, <1>2, <1>5, GetKeeps
<1>7. ReportsStay
  <2>1. Len(lists) \in Nat /\ Len(ls) \in Nat
    BY <1>3 DEF TableInv, LightHouseTypeOK
  <2> QED
    BY <1>3, <1>5, <2>1 DEF ReportsStay
<1>8. UpdatesKept'
  BY Zenon, <1>2, <1>6, <1>7, GapsFilled
<1>9. PendingStep /\ TunnelsStep /\ StaticStep /\ OutRight'
  BY Zenon, <1>2, <1>6, PartsStay
<1>10. RespondingStep
  <2>1. responding \in [Host -> Nat] /\ n \in Nat /\ n <= Len(lists')
    BY <1>5, <1>6 DEF TableInv, LightHouseTypeOK
  <2> QED
    BY Zenon, <1>2, <1>6, <2>1 DEF RespondingStep
<1> QED
  BY Zenon, <1>6, <1>8, <1>9, <1>10, StepKeeps DEF TableStep

\* The list of the answer becomes that of the tunnel.
LEMMA CheckAndCompleteKeeps ==
  ASSUME TableInv, NEW h \in Host, NEW accepted \in BOOLEAN, CheckAndComplete(h, accepted)
  PROVE  TableInv'
<1>1. PICK n : n = responding[h]
  OBVIOUS
<1>2. /\ n # 0 /\ responding' = [responding EXCEPT ![h] = 0] /\ out' = {}
      /\ UNCHANGED <<updated, amLighthouse, addrMap, staticList, staticLoad, pending, deleting>>
      /\ \/ tunnels' = [tunnels EXCEPT ![h] = @ \cup {n}] /\ lists' = Renamed(lists, n, h)
         \/ UNCHANGED <<tunnels, lists>>
  BY Zenon, <1>1 DEF CheckAndComplete, Renamed, statics
<1>3. /\ lists \in Seq(ListType) /\ n \in 1..Len(lists) /\ Owns(lists[n], h)
      /\ responding \in [Host -> 0..Len(lists)]
  BY <1>1, <1>2 DEF TableInv, LightHouseTypeOK, RespondingOwned
<1>4. RespondingStep
  BY <1>2, <1>3 DEF RespondingStep
<1>5. CASE UNCHANGED <<tunnels, lists>>
  <2>1. OwnersStay /\ TableStep /\ UpdatesKept'
    BY Zenon, <1>2, <1>5, ListsStay
  <2>2. PendingStep /\ TunnelsStep /\ StaticStep /\ OutRight'
    BY Zenon, <1>2, <1>5, <2>1, PartsStay
  <2> QED
    BY Zenon, <1>4, <2>1, <2>2, StepKeeps
<1>6. CASE tunnels' = [tunnels EXCEPT ![h] = @ \cup {n}] /\ lists' = Renamed(lists, n, h)
  <2>1. /\ lists' \in Seq(ListType) /\ Len(lists') = Len(lists)
        /\ \A l \in 1..Len(lists) : lists'[l].reported = lists[l].reported
        /\ \A l \in 1..Len(lists), k \in Host : Owns(lists[l], k) => Owns(lists'[l], k)
    <3>1. lists' = Renamed(lists, n, h)
      BY Zenon, <1>6
    <3>2. lists \in Seq(ListType) /\ n \in 1..Len(lists) /\ Owns(lists[n], h)
      BY Zenon, <1>3
    <3> QED
      BY <3>1, <3>2, ListRenamed
  <2>2. OwnersStay /\ TableStep /\ UpdatesKept'
    BY Zenon, <1>2, <2>1, ListsOnly
  <2>3. PendingStep /\ StaticStep /\ OutRight'
    BY Zenon, <1>2, <2>2, PartsStay
  <2>4. TunnelsStep
    <3>1. tunnels \in [Host -> SUBSET (1..Len(lists))] /\ deleting \in [Host -> BOOLEAN]
      BY Zenon DEF TableInv, LightHouseTypeOK
    <3> QED
      BY Zenon, <1>2, <1>3, <1>6, <2>1, <3>1 DEF TunnelsStep
  <2> QED
    BY Zenon, <1>4, <2>2, <2>3, <2>4, StepKeeps
<1> QED
  BY Zenon, <1>2, <1>5, <1>6

\* Roaming only learns.
LEMMA RoamKeeps ==
  ASSUME TableInv, NEW h \in Host, NEW l \in tunnels[h], Roam(h, l)
  PROVE  TableInv'
<1>1. /\ lists' = Learned(lists, l, Primary(h), h) /\ out' = {}
      /\ UNCHANGED <<updated, amLighthouse, addrMap, staticList, staticLoad, pending, responding,
                     tunnels, deleting>>
  BY Zenon DEF Roam, LearnedFrom, Learned, statics, handshakes
<1>2. lists \in Seq(ListType) /\ l \in 1..Len(lists) /\ Primary(h) \in VpnAddr
  BY Zenon, HostFacts DEF TableInv, LightHouseTypeOK
<1>3. /\ lists' \in Seq(ListType) /\ Len(lists') = Len(lists)
      /\ \A k \in 1..Len(lists) : lists'[k].reported = lists[k].reported
      /\ \A k \in 1..Len(lists), g \in Host : Owns(lists[k], g) => Owns(lists'[k], g)
  <2>1. Learns(lists, lists', l, Primary(h), h)
    BY Zenon, <1>1 DEF Learns
  <2> QED
    BY Zenon, <1>2, <2>1, ListLearns
<1>4. OwnersStay /\ TableStep /\ UpdatesKept'
  BY Zenon, <1>1, <1>3, ListsOnly
<1>5. PendingStep /\ RespondingStep /\ TunnelsStep /\ StaticStep /\ OutRight'
  BY Zenon, <1>1, <1>4, PartsStay
<1> QED
  BY Zenon, <1>4, <1>5, StepKeeps

\* Closing a tunnel leaves the table alone.
LEMMA closeTunnelKeeps ==
  ASSUME TableInv, NEW h \in Host, NEW l \in tunnels[h], closeTunnel(h, l)
  PROVE  TableInv'
<1>1. /\ tunnels' = [tunnels EXCEPT ![h] = @ \ {l}]
      /\ deleting' = [deleting EXCEPT ![h] =
           tunnels'[h] = {} /\ Range(Addrs[h]) \cap staticList = {}]
      /\ out' = {}
      /\ UNCHANGED <<updated, amLighthouse, addrMap, lists, staticList, staticLoad, pending,
                     responding>>
  BY Zenon DEF closeTunnel, statics
<1>2. OwnersStay /\ TableStep /\ UpdatesKept'
  BY Zenon, <1>1, ListsStay
<1>3. PendingStep /\ RespondingStep /\ StaticStep /\ OutRight'
  BY Zenon, <1>1, <1>2, PartsStay
<1>4. TunnelsStep
  <2>1. tunnels \in [Host -> SUBSET (1..Len(lists))] /\ deleting \in [Host -> BOOLEAN]
    BY Zenon DEF TableInv, LightHouseTypeOK
  <2>2. tunnels' \in [Host -> SUBSET (1..Len(lists'))]
    BY Zenon, <1>1, <2>1
  <2>3. deleting' \in [Host -> BOOLEAN]
    BY Zenon, <1>1, <2>1
  <2> QED
    BY Zenon, <2>2, <2>3 DEF TunnelsStep
<1> QED
  BY Zenon, <1>2, <1>3, <1>4, StepKeeps

\* Only the host's own entries go, and with them the update it is known by.
LEMMA DeleteVpnAddrsKeeps ==
  ASSUME TableInv, NEW h \in Host, DeleteVpnAddrs(h)
  PROVE  TableInv'
<1>1. /\ addrMap' = IF addrMap[Primary(h)] = 0 THEN addrMap ELSE Deleted(Addrs[h])
      /\ deleting' = [deleting EXCEPT ![h] = FALSE] /\ updated' = updated \ {h} /\ out' = {}
      /\ UNCHANGED <<amLighthouse, lists, staticList, staticLoad, pending, responding, tunnels>>
  BY Zenon DEF DeleteVpnAddrs, statics
<1>2. addrMap \in [VpnAddr -> 0..Len(lists)] /\ Len(lists) \in Nat /\ 0 \in 0..Len(lists)
  BY DEF TableInv, LightHouseTypeOK
<1>3. OwnersStay /\ ReportsStay
  BY Zenon, <1>1, ListsStay
<1>4. /\ addrMap' \in [VpnAddr -> 0..Len(lists)]
      /\ \A v \in VpnAddr : addrMap'[v] \in {0, addrMap[v]}
      /\ \A v \in VpnAddr : v \notin Range(Addrs[h]) => addrMap'[v] = addrMap[v]
  <2>1. CASE addrMap[Primary(h)] = 0
    BY Zenon, <1>1, <1>2, <2>1
  <2>2. CASE addrMap[Primary(h)] # 0
    <3>1. addrMap' = [v \in VpnAddr |->
            IF v \in Range(Addrs[h]) /\ addrMap[v] = addrMap[Addrs[h][1]] THEN 0 ELSE addrMap[v]]
      BY Zenon, <1>1, <2>2 DEF Deleted
    <3> QED
      BY Zenon, <1>2, <3>1
  <2> QED
    BY Zenon, <2>1, <2>2
<1>5. TableStep
  <2>1. \A v \in VpnAddr : addrMap[v] # 0 => Owns(lists'[addrMap[v]], HostOf(v))
    BY Zenon, <1>3, PointersStay
  <2>2. \A v \in VpnAddr : addrMap'[v] # 0 => Owns(lists'[addrMap'[v]], HostOf(v))
    BY Zenon, <1>4, <2>1
  <2>3. TableOwned'
    BY Zenon, <2>2 DEF TableOwned, Owns, HostOf, VpnAddr
  <2> QED
    BY Zenon, <1>1, <1>3, <1>4, <2>3 DEF TableStep
<1>6. UpdatesKept'
  <2>1. \A g \in updated : g \in Host
    BY Zenon DEF TableInv, UpdatesKept
  <2>2. \A g \in updated \ {h} : Primary(g) \in VpnAddr /\ Primary(g) \notin Range(Addrs[h])
    BY Zenon, <2>1, HostFacts
  <2>3. \A g \in updated \ {h} : addrMap'[Primary(g)] = addrMap[Primary(g)]
    BY Zenon, <1>4, <2>2
  <2>4. PICK U : U = updated \ {h} /\ U \in SUBSET updated
    BY Zenon
  <2>5. /\ U \subseteq Host
        /\ \A g \in U : /\ amLighthouse /\ addrMap'[Primary(g)] # 0
                        /\ g \in lists'[addrMap'[Primary(g)]].reported[Primary(g)]
    BY Zenon, <1>3, <2>3, <2>4, UpdatesStay
  <2> QED
    BY Zenon, <1>1, <2>4, <2>5 DEF UpdatesKept, Primary
<1>7. PendingStep /\ RespondingStep /\ StaticStep /\ OutRight'
  BY Zenon, <1>1, <1>3, PartsStay
<1>8. TunnelsStep
  <2>1. tunnels \in [Host -> SUBSET (1..Len(lists))] /\ deleting \in [Host -> BOOLEAN]
    BY Zenon DEF TableInv, LightHouseTypeOK
  <2> QED
    BY Zenon, <1>1, <2>1 DEF TunnelsStep
<1> QED
  BY Zenon, <1>5, <1>6, <1>7, <1>8, StepKeeps

\* A step that finds or makes the list of addrs, addresses of host h, and puts
\* a report of h in it.
ReportsFor(h, addrs, owner) ==
  /\ addrs = Addrs[h] \/ \E v \in Range(Addrs[h]) : addrs = <<v>>
  /\ addrMap' = MapWith(addrs)
  /\ lists' = Reported(ListsWith(addrs), ListFor(addrs), owner, h)

\* A report that is stored is of the host whose list it goes to.
LEMMA ReportStep ==
  ASSUME TableInv, NEW h \in Host, NEW addrs, NEW owner \in VpnAddr,
         ReportsFor(h, addrs, owner)
  PROVE  /\ TableStep /\ ReportsStay
         /\ \A v \in VpnAddr : addrMap[v] # 0 => addrMap'[v] = addrMap[v]
         /\ lists'[ListFor(addrs)].reported[owner] = {h}
<1>1. PICK ls, n : ls = ListsWith(addrs) /\ n = ListFor(addrs)
  OBVIOUS
<1>2. /\ ls \in Seq(ListType) /\ Len(lists) <= Len(ls) /\ n \in 1..Len(ls)
      /\ \A l \in 1..Len(lists) : ls[l] = lists[l]
      /\ Owns(ls[n], h)
  BY Zenon, <1>1, GetFacts DEF ReportsFor
<1>3. /\ lists' \in Seq(ListType) /\ Len(lists') = Len(ls)
      /\ lists'[n].reported[owner] = {h}
      /\ \A l \in 1..Len(ls), u \in VpnAddr : ls[l].reported[u] \subseteq lists'[l].reported[u]
      /\ \A l \in 1..Len(ls), k \in Host : Owns(ls[l], k) => Owns(lists'[l], k)
  <2>1. Reports(ls, lists', n, owner, h)
    BY Zenon, <1>1, <1>2 DEF ReportsFor, Reports
  <2>2. /\ OwnersKept(ls, lists') /\ ReportsGrow(ls, lists')
        /\ lists'[n].reported[owner] = {h}
    BY Zenon, <2>1, ListReports
  <2> QED BY Zenon, <2>2 DEF OwnersKept, ReportsGrow
<1>4. /\ OwnersStay /\ TableOwned' /\ addrMap' \in [VpnAddr -> 0..Len(lists')]
      /\ \A v \in VpnAddr : addrMap[v] # 0 => addrMap'[v] = addrMap[v]
  BY Zenon, <1>1, <1>3, GetKeeps DEF ReportsFor
<1>5. ReportsStay
  <2>1. Len(lists) \in Nat /\ Len(ls) \in Nat
    BY <1>2 DEF TableInv, LightHouseTypeOK
  <2>2. \A l \in 1..Len(lists) : l \in 1..Len(ls) /\ ls[l] = lists[l]
    BY <1>2, <2>1
  <2> QED
    BY Zenon, <1>3, <2>2 DEF ReportsStay
<1> QED
  BY Zenon, <1>1, <1>3, <1>4, <1>5 DEF TableStep

\* The update is found under the first address at once.
LEMMA UpdateKeeps ==
  ASSUME TableInv, NEW from \in Host, NEW details, handleHostUpdateNotification(from, details)
  PROVE  TableInv'
<1>1. PICK addrs : addrs = Addrs[from]
  OBVIOUS
<1>2. Primary(from) \in VpnAddr /\ Primary(from) = addrs[1]
  BY Zenon, <1>1, HostFacts DEF Primary
<1>3. /\ amLighthouse /\ addrMap' = MapWith(addrs)
      /\ lists' = Reported(ListsWith(addrs), ListFor(addrs), Primary(from), from)
      /\ updated' = updated \cup {from}
      /\ out' = {[type |-> "HostUpdateNotificationAck", to |-> Primary(from)]}
      /\ UNCHANGED <<amLighthouse, staticList, staticLoad, pending, responding, tunnels, deleting>>
  BY Zenon, <1>1 DEF handleHostUpdateNotification, Report, Reported, statics, handshakes
<1>4. /\ TableStep /\ ReportsStay
      /\ \A v \in VpnAddr : addrMap[v] # 0 => addrMap'[v] = addrMap[v]
      /\ lists'[ListFor(addrs)].reported[Primary(from)] = {from}
  <2>1. ReportsFor(from, addrs, Primary(from))
    BY Zenon, <1>1, <1>3 DEF ReportsFor
  <2>2. Primary(from) \in VpnAddr
    BY Zenon, <1>2
  <2> QED BY Zenon, <2>1, <2>2, ReportStep
<1>5. PendingStep /\ RespondingStep /\ TunnelsStep /\ StaticStep
  BY Zenon, <1>3, <1>4, PartsStay DEF TableStep
<1>6. OutRight'
  <2>1. \A m \in out' : m.type = "HostUpdateNotificationAck"
    <3>1. out' = {[type |-> "HostUpdateNotificationAck", to |-> Primary(from)]}
      BY Zenon, <1>3
    <3> QED BY <3>1
  <2> QED BY Zenon, <2>1 DEF OutRight
<1>7. UpdatesKept'
  <2>1. addrMap'[Primary(from)] = ListFor(addrs) /\ ListFor(addrs) # 0
    <3>1. /\ MapWith(addrs)[addrs[1]] = ListFor(addrs)
          /\ ListFor(addrs) \in 1..Len(ListsWith(addrs)) /\ ListsWith(addrs) \in Seq(ListType)
      BY Zenon, <1>1, GetFacts
    <3> QED
      <4>1. ListFor(addrs) # 0
        BY <3>1
      <4> QED BY Zenon, <1>2, <1>3, <3>1, <4>1
  <2>2. \A h \in updated : h \in Host /\ Primary(h) \in VpnAddr /\ addrMap[Primary(h)] # 0
    BY Zenon, HostFacts DEF TableInv, UpdatesKept
  <2>3. \A h \in updated : addrMap'[Primary(h)] = addrMap[Primary(h)]
    BY Zenon, <1>4, <2>2
  <2>4. \A h \in updated : /\ amLighthouse /\ addrMap'[Primary(h)] # 0
                           /\ h \in lists'[addrMap'[Primary(h)]].reported[Primary(h)]
    BY Zenon, <1>4, <2>3, UpdatesStay
  <2>5. \A h \in updated' : /\ h \in Host /\ amLighthouse' /\ addrMap'[Primary(h)] # 0
                            /\ h \in lists'[addrMap'[Primary(h)]].reported[Primary(h)]
    BY Zenon, <1>3, <1>4, <2>1, <2>2, <2>4
  <2> QED
    BY Zenon, <2>5 DEF UpdatesKept, Primary
<1> QED
  BY Zenon, <1>4, <1>5, <1>6, <1>7, StepKeeps

\* A lighthouse's reply goes to a list of the host it speaks of.
LEMMA QueryReplyKeeps ==
  ASSUME TableInv, NEW from \in Host, NEW v \in VpnAddr, handleHostQueryReply(from, v)
  PROVE  TableInv'
<1>1. PICK h \in Host : h = HostOf(v) /\ v \in Range(Addrs[h])
  BY Zenon, HostFacts
<1>2. PICK addrs : addrs = <<v>>
  BY Zenon
<1>3. Primary(from) \in VpnAddr
  BY Zenon, HostFacts
<1>4. /\ addrMap' = MapWith(addrs) /\ out' = {}
      /\ lists' = Reported(ListsWith(addrs), ListFor(addrs), Primary(from), h)
      /\ UNCHANGED <<updated, amLighthouse, staticList, staticLoad, pending, responding, tunnels,
                     deleting>>
  BY Zenon, <1>1, <1>2 DEF handleHostQueryReply, Report, Reported, statics, handshakes
<1>5. addrs = Addrs[h] \/ \E u \in Range(Addrs[h]) : addrs = <<u>>
  BY Zenon, <1>1, <1>2
<1>6. /\ TableStep /\ ReportsStay
      /\ \A u \in VpnAddr : addrMap[u] # 0 => addrMap'[u] = addrMap[u]
  <2>1. ReportsFor(h, addrs, Primary(from))
    BY Zenon, <1>4, <1>5 DEF ReportsFor
  <2> QED
    BY Zenon, <1>3, <2>1, ReportStep
<1>7. UpdatesKept'
  BY Zenon, <1>4, <1>6, GapsFilled
<1>8. PendingStep /\ RespondingStep /\ TunnelsStep /\ StaticStep /\ OutRight'
  BY Zenon, <1>4, <1>6, PartsStay DEF TableStep
<1> QED
  BY Zenon, <1>6, <1>7, <1>8, StepKeeps

\* The ends of a reload leave the table alone.
LEMMA StaticLoadKeeps ==
  ASSUME TableInv, StoreStaticList \/ \E map \in StaticMaps : StartStaticLoad(map)
  PROVE  TableInv'
<1>1. /\ out' = {}
      /\ UNCHANGED <<updated, amLighthouse, addrMap, lists, pending, responding, tunnels, deleting>>
  BY Zenon DEF StoreStaticList, StartStaticLoad, handshakes
<1>2. OwnersStay /\ TableStep /\ UpdatesKept'
  BY Zenon, <1>1, ListsStay
<1>3. PendingStep /\ RespondingStep /\ TunnelsStep /\ OutRight'
  BY Zenon, <1>1, <1>2, PartsStay
<1>4. StaticParts
  BY Zenon DEF TableInv, LightHouseTypeOK, StaticParts
<1>5. StaticStep
  <2>1. CASE StoreStaticList
    BY Zenon, <1>4, <2>1 DEF StoreStaticList, StaticParts, StaticStep
  <2>2. ASSUME NEW map \in StaticMaps, StartStaticLoad(map)
        PROVE  StaticStep
    <3>1. map \subseteq VpnAddr
      BY Zenon, LightHouseAssumption
    <3> QED
      BY Zenon, <1>4, <2>2, <3>1 DEF StartStaticLoad, StaticParts, StaticStep
  <2> QED
    BY Zenon, <2>1, <2>2
<1> QED
  BY Zenon, <1>2, <1>3, <1>5, StepKeeps

\* The owner a query is answered from, and what it is answered.
LEMMA AnswerOwned ==
  ASSUME TableInv, NEW v \in VpnAddr, addrMap[v] # 0
  PROVE  Answer(v).reported \subseteq {HostOf(v)}
<1>1. PICK L : L = lists[addrMap[v]]
  OBVIOUS
<1>2. L \in ListType /\ Owns(L, HostOf(v))
  BY <1>1 DEF TableInv, LightHouseTypeOK, TableOwned
<1>3. CacheOwner(v) = IF v \in Range(L.vpnAddrs) THEN L.vpnAddrs[1] ELSE v
  BY Zenon, <1>1 DEF CacheOwner
<1>4. L.vpnAddrs[1] \in VpnAddr
  <2>1. CASE L.vpnAddrs = Addrs[HostOf(v)]
    BY ZenonT(60), <2>1, HostFacts DEF Primary
  <2>2. CASE \E u \in Range(Addrs[HostOf(v)]) : L.vpnAddrs = <<u>>
    BY <2>2, HostFacts
  <2> QED
    BY Zenon, <1>2, <2>1, <2>2 DEF Owns
<1>5. CacheOwner(v) \in VpnAddr
  BY Zenon, <1>3, <1>4
<1>6. Answer(v).reported = L.reported[CacheOwner(v)]
  BY Zenon, <1>1 DEF Answer
<1> QED
  BY Zenon, <1>2, <1>5, <1>6 DEF Owns

\* The address told to punch to is one of the querier's.
LEMMA PunchAddress ==
  ASSUME NEW target \in Host, NEW from \in Host
  PROVE  WhereToPunch(target, from) \in Range(Addrs[from])
<1>1. CASE tunnels[target] = {} \/ Shared(target, from) = {}
  BY Zenon, <1>1, HostFacts DEF WhereToPunch
<1>2. CASE ~(tunnels[target] = {} \/ Shared(target, from) = {})
  <2> DEFINE First(s) == \A t \in Shared(target, from) :
               s[1] < t[1] \/ (s[1] = t[1] /\ s[2] <= t[2])
  <2>1. \E s \in Shared(target, from) : First(s)
    <3>1. PICK D : D = {i \in 1..Len(Addrs[target]) : \E s \in Shared(target, from) : s[1] = i}
      BY Zenon
    <3>2. /\ Len(Addrs[target]) \in Nat /\ Len(Addrs[from]) \in Nat
          /\ \A s \in Shared(target, from) : s[1] \in Nat /\ s[2] \in Nat /\ s[1] \in D
      <4>1. Addrs[target] \in Seq(VpnAddr) /\ Addrs[from] \in Seq(VpnAddr)
        BY Zenon, LightHouseAssumption
      <4>2. Len(Addrs[target]) \in Nat /\ Len(Addrs[from]) \in Nat
        BY <4>1
      <4>3. \A s \in Shared(target, from) :
              s[1] \in 1..Len(Addrs[target]) /\ s[2] \in 1..Len(Addrs[from])
        BY Zenon DEF Shared
      <4>4. 1..Len(Addrs[target]) \subseteq Nat /\ 1..Len(Addrs[from]) \subseteq Nat
        BY <4>2
      <4> QED BY Zenon, <3>1, <4>2, <4>3, <4>4
    <3>3. D \subseteq Nat /\ D # {}
      BY Zenon, <1>2, <3>1, <3>2
    <3>4. PICK i \in D : \A j \in D : i <= j
      BY Zenon, <3>3, Least
    <3>5. PICK E : E = {j \in Nat : \E s \in Shared(target, from) : s[1] = i /\ s[2] = j}
      BY Zenon
    <3>6. E \subseteq Nat /\ E # {}
      BY Zenon, <3>1, <3>2, <3>5
    <3>7. PICK j \in E : \A k \in E : j <= k
      BY Zenon, <3>6, Least
    <3>8. PICK s \in Shared(target, from) : s[1] = i /\ s[2] = j
      BY Zenon, <3>5
    <3>9. ASSUME NEW t \in Shared(target, from)
          PROVE  s[1] < t[1] \/ (s[1] = t[1] /\ s[2] <= t[2])
      <4>1. t[1] \in Nat /\ t[2] \in Nat /\ i \in Nat /\ i <= t[1]
        BY Zenon, <3>2, <3>3, <3>4
      <4>2. t[1] = i => j <= t[2]
        BY Zenon, <3>5, <3>7, <4>1
      <4> QED
        BY <3>8, <4>1, <4>2
    <3> QED
      BY Zenon, <3>9
  <2>2. PICK s \in Shared(target, from) : WhereToPunch(target, from) = Addrs[from][s[2]]
    BY Zenon, <1>2, <2>1 DEF WhereToPunch
  <2>3. s[2] \in 1..Len(Addrs[from])
    BY Zenon DEF Shared
  <2> QED
    BY <2>2, <2>3, LightHouseAssumption DEF Range
<1> QED
  BY Zenon, <1>1, <1>2

\* The reply and the punch notification say of an address what its host
\* reported.
LEMMA QueryKeeps ==
  ASSUME TableInv, NEW from \in Host, NEW v \in VpnAddr, handleHostQuery(from, v)
  PROVE  TableInv'
<1>1. UNCHANGED <<updated, amLighthouse, addrMap, lists, staticList, staticLoad, pending,
                  responding, tunnels, deleting>>
  BY Zenon DEF handleHostQuery, statics, handshakes
<1>2. OwnersStay /\ TableStep /\ UpdatesKept'
  BY Zenon, <1>1, ListsStay
<1>3. PendingStep /\ RespondingStep /\ TunnelsStep /\ StaticStep
  BY Zenon, <1>1, <1>2, PartsStay
<1>4. ASSUME NEW m \in out'
      PROVE  m.answer.reported \subseteq {HostOf(m.about)}
  <2>1. Found(v) /\ (\/ m = [type |-> "HostQueryReply", to |-> Primary(from),
                            about |-> v, answer |-> Answer(v)]
                     \/ m \in Punch(v, from))
    BY Zenon DEF handleHostQuery
  <2>2. CASE m = [type |-> "HostQueryReply", to |-> Primary(from),
                  about |-> v, answer |-> Answer(v)]
    <3>1. addrMap[v] # 0
      BY Zenon, <2>1 DEF Found
    <3>2. Answer(v).reported \subseteq {HostOf(v)}
      BY Zenon, <3>1, AnswerOwned
    <3> QED
      BY Zenon, <2>2, <3>2
  <2>3. CASE m \in Punch(v, from)
    <3>1. PICK where : where = WhereToPunch(HostOf(v), from)
      OBVIOUS
    <3>2. /\ Found(Primary(from))
          /\ m = [type |-> "HostPunchNotification", to |-> v, about |-> where,
                  answer |-> Answer(Primary(from))]
      BY Zenon, <2>3, <3>1 DEF Punch
    <3>3. where \in Range(Addrs[from])
      BY Zenon, <3>1, HostFacts, PunchAddress
    <3>4. HostOf(where) = from /\ HostOf(Primary(from)) = from /\ Primary(from) \in VpnAddr
      BY Zenon, <3>3, HostFacts
    <3>5. addrMap[Primary(from)] # 0
      BY Zenon, <3>2 DEF Found
    <3>6. Answer(Primary(from)).reported \subseteq {from}
      BY Zenon, <3>4, <3>5, AnswerOwned
    <3> QED
      BY Zenon, <3>2, <3>4, <3>6
  <2> QED
    BY Zenon, <2>1, <2>2, <2>3
<1>5. OutRight'
  BY Zenon, <1>4 DEF OutRight, HostOf
<1> QED
  BY Zenon, <1>2, <1>3, <1>5, StepKeeps

-----------------------------------------------------------------------------

\* The empty table.
LEMMA TableInit == LightHouseInit => TableInv
<1> SUFFICES ASSUME LightHouseInit
             PROVE  TableInv
  OBVIOUS
<1>1. lists \in Seq(ListType) /\ Len(lists) = 0 /\ 0 \in 0..Len(lists)
  BY DEF LightHouseInit
<1>2. LightHouseTypeOK
  BY Zenon, <1>1 DEF LightHouseInit, LightHouseTypeOK
<1> QED
  BY Zenon, <1>2 DEF LightHouseInit, TableInv, TableOwned, PendingOwned, RespondingOwned, UpdatesKept,
              OutRight

\* Every step of table, tunnels and messages keeps the invariant.
LEMMA TableNext == TableInv /\ [LightHouseNext]_lhVars => TableInv'
<1> SUFFICES ASSUME TableInv, [LightHouseNext]_lhVars
             PROVE  TableInv'
  OBVIOUS
<1>1. ASSUME NEW v \in Dialled,
             \/ StartHandshake(v) \/ HandshakeCompletes(v) \/ HandshakeTimesOut(v)
             \/ \E h \in Host : WrongHostResponds(v, h)
      PROVE  TableInv'
  <2>1. v \in VpnAddr
    BY Zenon, LightHouseAssumption
  <2> QED
    BY Zenon, <1>1, <2>1, StartHandshakeKeeps, HandshakeCompletesKeeps, HandshakeTimesOutKeeps,
       WrongHostKeeps
<1>2. ASSUME NEW h \in Host,
             \/ BeginHandshake(h) \/ \E accepted \in BOOLEAN : CheckAndComplete(h, accepted)
             \/ \E l \in tunnels[h] : Roam(h, l) \/ closeTunnel(h, l)
             \/ DeleteVpnAddrs(h)
      PROVE  TableInv'
  BY Zenon, <1>2, BeginHandshakeKeeps, CheckAndCompleteKeeps, RoamKeeps, closeTunnelKeeps,
     DeleteVpnAddrsKeeps
<1>3. ASSUME NEW h \in Host,
             \/ \E v \in VpnAddr : handleHostQuery(h, v) \/ handleHostQueryReply(h, v)
             \/ \E d \in {{}} \cup {{v} : v \in VpnAddr} : handleHostUpdateNotification(h, d)
      PROVE  TableInv'
  BY Zenon, <1>3, QueryKeeps, QueryReplyKeeps, UpdateKeeps
<1>4. CASE \E v \in VpnAddr : addStaticRemotesOf(v)
  BY Zenon, <1>4, addStaticRemotesOfKeeps
<1>5. CASE StoreStaticList \/ \E map \in StaticMaps : StartStaticLoad(map)
  BY Zenon, <1>5, StaticLoadKeeps
<1>6. CASE UNCHANGED lhVars
  <2>1. UNCHANGED <<amLighthouse, addrMap, lists, staticList, staticLoad, pending, responding,
                    tunnels, deleting, out, updated>>
    BY Zenon, <1>6 DEF lhVars
  <2>2. OwnersStay /\ TableStep /\ UpdatesKept'
    BY Zenon, <2>1, ListsStay
  <2>3. PendingStep /\ RespondingStep /\ TunnelsStep /\ StaticStep
    BY Zenon, <2>1, <2>2, PartsStay
  <2>4. OutRight'
    BY Zenon, <2>1 DEF TableInv, OutRight, HostOf
  <2> QED
    BY Zenon, <2>2, <2>3, <2>4, StepKeeps
<1> QED
  BY Zenon, <1>1, <1>2, <1>3, <1>4, <1>5, <1>6 DEF LightHouseNext

\* The invariant implies the property: what a host reported is found because
\* its first address leads to the entry it was stored in.
LEMMA TableInvRight == TableInv => TableRight
<1> SUFFICES ASSUME TableInv
             PROVE  TableRight
  OBVIOUS
<1>1. ASSUME NEW v \in VpnAddr, addrMap[v] # 0
      PROVE  Range(lists[addrMap[v]].vpnAddrs) \subseteq Range(Addrs[HostOf(v)])
  <2>1. Owns(lists[addrMap[v]], HostOf(v))
    BY Zenon, <1>1 DEF TableInv, TableOwned
  <2> QED
    <3>1. ASSUME NEW u PROVE Range(<<u>>) = {u}
      BY DEF Range
    <3> QED BY Zenon, <2>1, <3>1 DEF Owns
<1>2. ASSUME NEW h \in updated
      PROVE  Found(Primary(h)) /\ h \in Answer(Primary(h)).reported
  <2>1. /\ h \in Host /\ Primary(h) \in VpnAddr /\ HostOf(Primary(h)) = h
        /\ addrMap[Primary(h)] # 0
        /\ h \in lists[addrMap[Primary(h)]].reported[Primary(h)]
    BY Zenon, HostFacts DEF TableInv, UpdatesKept
  <2>2. PICK L : L = lists[addrMap[Primary(h)]]
    BY Zenon
  <2>3. Owns(L, h)
    BY Zenon, <2>1, <2>2 DEF TableInv, TableOwned
  <2>4. Primary(h) \in Range(L.vpnAddrs) => L.vpnAddrs[1] = Primary(h)
    <3>1. CASE L.vpnAddrs = Addrs[h]
      BY Zenon, <3>1 DEF Primary
    <3>2. CASE \E u \in Range(Addrs[h]) : L.vpnAddrs = <<u>>
      BY <3>2 DEF Range
    <3> QED
      BY Zenon, <2>3, <3>1, <3>2 DEF Owns
  <2>5. CacheOwner(Primary(h)) = Primary(h)
    BY Zenon, <2>2, <2>4 DEF CacheOwner
  <2>6. h \in L.reported[CacheOwner(Primary(h))]
    BY Zenon, <2>1, <2>2, <2>5
  <2> QED
    BY Zenon, <2>1, <2>2, <2>6 DEF Found, Answer
<1> QED
  BY Zenon, <1>1, <1>2 DEF TableInv, TableRight, AnswersRight, OutRight

\* The lists of two hosts are never mixed, a lighthouse answers with what the
\* host itself reported, and an update is found until the host's last tunnel
\* is closed (unlockedGetRemoteList, queryAndPrepMessage, DeleteVpnAddrs), for
\* any hosts, addresses, static maps and number of lists.
THEOREM LightHouseAnswers == LightHouseSpec => []TableRight
<1>1. LightHouseInit => TableInv
  BY Zenon, TableInit
<1>2. TableInv /\ [LightHouseNext]_lhVars => TableInv'
  BY Zenon, TableNext
<1>3. TableInv => TableRight
  BY Zenon, TableInvRight
<1> QED
  BY <1>1, <1>2, <1>3, PTL DEF LightHouseSpec

-----------------------------------------------------------------------------
(* The end of a node.                                                      *)

\* hostDNS and the interface are records that keep their fields.
HostDNSRecord ==
  [state : {"New", "Started", "Stopped"}, enabled : BOOLEAN, goal : {"clear", "set", "closed"}]
InterfaceRecord ==
  [closed : BOOLEAN, woken : BOOLEAN, released : BOOLEAN, token : BOOLEAN]

LifecycleTyped ==
  /\ hostDNS \in HostDNSRecord /\ iface \in InterfaceRecord
  /\ DOMAIN stops = Stopper

\* Where a Stop is about to close the interface, or does.
Closing == {"relock", "close", "wait"}

\* Nobody closes the interface before the context is cancelled.
CancelledFirst ==
  /\ starting = "close" => ctxDone
  /\ \A c \in Stopper : stops[c] \in Closing => ctxDone
  /\ ~iface.token => ctxDone

\* The host's DNS is started only by a Start that succeeds, and it points to
\* the tunnel only as long as it is started.
StartedByStart ==
  /\ dnsStart # "none" => starting = "done"
  /\ hostDNS.state = "Started" => dnsStart # "none"
  /\ hostDNS.goal = "set" => hostDNS.state = "Started"

\* Nor does anybody close the interface before the host's DNS is restored, or
\* cannot be started any more.
RestoredFirst ==
  /\ \A c \in Stopper :
       stops[c] \in {"cancel"} \cup Closing => hostDNS.state = "Stopped"
  /\ iface.released => hostDNS.state = "Stopped" \/ starting = "error"

LifecycleInv == LifecycleTyped /\ CancelledFirst /\ StartedByStart /\ RestoredFirst

LEMMA LifecycleStarts == LifecycleInit => LifecycleInv
<1> SUFFICES ASSUME LifecycleInit PROVE LifecycleInv
  BY Zenon
<1>1. LifecycleTyped
  BY DEF LifecycleInit, LifecycleTyped, HostDNSRecord, InterfaceRecord
<1>2. CancelledFirst
  BY DEF LifecycleInit, CancelledFirst, Closing
<1>3. StartedByStart
  BY DEF LifecycleInit, StartedByStart
<1>4. RestoredFirst
  BY DEF LifecycleInit, RestoredFirst, Closing
<1> QED BY Zenon, <1>1, <1>2, <1>3, <1>4 DEF LifecycleInv

\* What a step may do to the parts that CleanWait depends on.
LEMMA LifecycleStep ==
  ASSUME LifecycleInv, LifecycleTyped',
         ctxDone => ctxDone',
         starting' = "close" => starting = "close" \/ ctxDone',
         starting = "done" => starting' = "done",
         starting = "error" => starting' = "error",
         \A c \in Stopper :
           /\ stops'[c] \in Closing => stops[c] \in Closing \/ ctxDone'
           /\ stops'[c] \in {"cancel"} \cup Closing =>
                stops[c] \in {"cancel"} \cup Closing \/ hostDNS'.state = "Stopped",
         ~iface'.token => ~iface.token \/ ctxDone',
         dnsStart' # "none" => dnsStart # "none" \/ starting' = "done",
         dnsStart # "none" => dnsStart' # "none",
         hostDNS'.state = "Started" => hostDNS.state = "Started" \/ dnsStart' # "none",
         hostDNS.state = "Stopped" => hostDNS'.state = "Stopped",
         hostDNS'.goal = "set" => \/ hostDNS.goal = "set" /\ hostDNS'.state = hostDNS.state
                                  \/ hostDNS'.state = "Started",
         iface'.released => iface.released \/ hostDNS'.state = "Stopped" \/ starting' = "error"
  PROVE  LifecycleInv'
<1>1. CancelledFirst'
  BY Zenon DEF LifecycleInv, CancelledFirst, Stopper
<1>2. StartedByStart'
  BY Zenon DEF LifecycleInv, StartedByStart
<1>3. RestoredFirst'
  BY Zenon DEF LifecycleInv, RestoredFirst, Stopper
<1> QED BY Zenon, <1>1, <1>2, <1>3 DEF LifecycleInv

LEMMA HostDNSFields ==
  ASSUME NEW h \in HostDNSRecord
  PROVE  /\ [h EXCEPT !.state = "Started"] \in HostDNSRecord
         /\ [h EXCEPT !.state = "Started"].state = "Started"
         /\ Restored(h) \in HostDNSRecord
         /\ Restored(h).state = "Stopped" /\ Restored(h).goal = "closed"
         /\ \A b \in BOOLEAN : /\ [h EXCEPT !.enabled = b] \in HostDNSRecord
                             /\ [h EXCEPT !.enabled = b].state = h.state
                             /\ [h EXCEPT !.enabled = b].goal = h.goal
BY Zenon DEF HostDNSRecord, Restored

\* convergeLocked changes nothing but the goal, and only of a started DNS.
LEMMA ConvergedFacts ==
  ASSUME NEW h \in HostDNSRecord
  PROVE  /\ Converged(h) \in HostDNSRecord /\ Converged(h).state = h.state
         /\ h.state # "Started" => Converged(h) = h
BY DEF Converged, HostDNSRecord

LEMMA HostDNSKeeps ==
  ASSUME LifecycleInv, HostDNSStart \/ \E enabled \in BOOLEAN : HostDNSReload(enabled)
  PROVE  LifecycleInv'
<1>1. stops' = stops /\ starting' = starting /\ iface' = iface /\ ctxDone' = ctxDone
  BY Zenon DEF HostDNSStart, HostDNSReload, control_, interface_
<1>2. PICK h \in HostDNSRecord : h = hostDNS
  BY Zenon DEF LifecycleInv, LifecycleTyped
<1>3. /\ dnsStart' = dnsStart \/ (dnsStart = "go" /\ dnsStart' = "done")
      /\ hostDNS' \in HostDNSRecord
      /\ h.state = "Stopped" => hostDNS'.state = "Stopped"
      /\ hostDNS'.state = "Started" => h.state = "Started" \/ dnsStart' = "done"
      /\ hostDNS'.goal = "set" => \/ h.goal = "set" /\ hostDNS'.state = h.state
                                  \/ hostDNS'.state = "Started"
  <2>1. CASE HostDNSStart
    <3>1. PICK g \in HostDNSRecord :
            /\ g = IF h.state = "New" THEN [h EXCEPT !.state = "Started"] ELSE h
            /\ h.state = "Stopped" => g.state = "Stopped"
            /\ g.state # "Started" => g = h
      BY Zenon, HostDNSFields
    <3>2. hostDNS' = Converged(g) /\ dnsStart = "go" /\ dnsStart' = "done"
      BY Zenon, <1>2, <2>1, <3>1 DEF HostDNSStart
    <3> QED BY Zenon, <1>2, <3>1, <3>2, ConvergedFacts
  <2>2. CASE \E enabled \in BOOLEAN : HostDNSReload(enabled)
    <3>1. PICK b \in BOOLEAN : HostDNSReload(b)
      BY Zenon, <2>2
    <3>2. PICK g \in HostDNSRecord :
            g = [h EXCEPT !.enabled = b] /\ g.state = h.state /\ g.goal = h.goal
      BY Zenon, HostDNSFields
    <3>3. hostDNS' = Converged(g) /\ dnsStart' = dnsStart
      BY Zenon, <1>2, <3>1, <3>2 DEF HostDNSReload
    <3> QED BY Zenon, <1>2, <3>2, <3>3, ConvergedFacts
  <2> QED BY Zenon, <2>1, <2>2
<1> QED BY Zenon, <1>1, <1>2, <1>3, LifecycleStep DEF LifecycleInv, LifecycleTyped

LEMMA InterfaceFields ==
  ASSUME NEW f \in InterfaceRecord
  PROVE  /\ [f EXCEPT !.closed = TRUE, !.woken = TRUE] \in InterfaceRecord
         /\ [f EXCEPT !.closed = TRUE, !.woken = TRUE].token = f.token
         /\ [f EXCEPT !.closed = TRUE, !.woken = TRUE].released = f.released
         /\ [f EXCEPT !.released = TRUE, !.token = FALSE] \in InterfaceRecord
BY Zenon DEF InterfaceRecord

LEMMA StartKeeps ==
  ASSUME LifecycleInv, StartLocks \/ StartSteps
  PROVE  LifecycleInv'
<1>1. stops' = stops /\ hostDNS' = hostDNS
  BY Zenon DEF StartLocks, StartSteps, StartRuns, StartFails, StartCloses, dns_
<1>2. CASE StartLocks
  <2>1. /\ iface' = iface /\ ctxDone' = ctxDone /\ dnsStart' = dnsStart
        /\ starting = "idle" /\ starting' \in {"activate", "error"}
    BY Zenon, <1>2 DEF StartLocks, interface_, dns_
  <2> QED BY Zenon, <1>1, <2>1, LifecycleStep DEF LifecycleInv, LifecycleTyped
<1>3. CASE StartRuns
  <2>1. /\ iface' = iface /\ ctxDone' = ctxDone /\ dnsStart' = "go"
        /\ starting = "activate" /\ starting' = "done"
    BY Zenon, <1>3 DEF StartRuns
  <2> QED BY Zenon, <1>1, <2>1, LifecycleStep DEF LifecycleInv, LifecycleTyped
<1>4. CASE StartFails
  <2>1. /\ iface' = iface /\ ctxDone' = TRUE /\ dnsStart' = dnsStart
        /\ starting = "activate" /\ starting' = "close"
    BY Zenon, <1>4 DEF StartFails, dns_
  <2> QED BY Zenon, <1>1, <2>1, LifecycleStep DEF LifecycleInv, LifecycleTyped
<1>5. CASE StartCloses
  <2>1. /\ iface' \in InterfaceRecord /\ ctxDone' = ctxDone /\ dnsStart' = dnsStart
        /\ starting = "close" /\ starting' = "error"
    BY <1>5 DEF StartCloses, dns_, InterfaceRecord
  <2>2. ctxDone
    BY Zenon, <2>1 DEF LifecycleInv, CancelledFirst
  <2> QED BY Zenon, <1>1, <2>1, <2>2, LifecycleStep DEF LifecycleInv, LifecycleTyped
<1> QED BY Zenon, <1>2, <1>3, <1>4, <1>5 DEF StartSteps

\* What a step of Stop, or the first failing reader, may do.
LEMMA StopStep ==
  ASSUME LifecycleInv, NEW c \in Stopper, NEW pc, stops' = [stops EXCEPT ![c] = pc],
         starting' = starting, dnsStart' = dnsStart, ctxDone => ctxDone',
         iface' \in InterfaceRecord,
         hostDNS' = hostDNS \/ hostDNS' = Restored(hostDNS),
         pc \in Closing => stops[c] \in Closing \/ ctxDone',
         pc \in {"cancel"} \cup Closing =>
           stops[c] \in {"cancel"} \cup Closing \/ hostDNS' = Restored(hostDNS),
         ~iface'.token => ~iface.token \/ ctxDone',
         iface'.released => iface.released \/ stops[c] \in Closing
  PROVE  LifecycleInv'
<1>1. /\ hostDNS' \in HostDNSRecord
      /\ \/ hostDNS' = hostDNS
         \/ hostDNS'.state = "Stopped" /\ hostDNS'.goal = "closed"
      /\ hostDNS' = Restored(hostDNS) => hostDNS'.state = "Stopped"
  BY Zenon, HostDNSFields DEF LifecycleInv, LifecycleTyped
<1>2. LifecycleTyped'
  BY Zenon, <1>1 DEF LifecycleInv, LifecycleTyped, Stopper
<1>3. \A k \in Stopper :
        /\ stops'[k] \in Closing => stops[k] \in Closing \/ ctxDone'
        /\ stops'[k] \in {"cancel"} \cup Closing =>
             stops[k] \in {"cancel"} \cup Closing \/ hostDNS'.state = "Stopped"
  <2> SUFFICES ASSUME NEW k \in Stopper
               PROVE  /\ stops'[k] \in Closing => stops[k] \in Closing \/ ctxDone'
                      /\ stops'[k] \in {"cancel"} \cup Closing =>
                           stops[k] \in {"cancel"} \cup Closing \/ hostDNS'.state = "Stopped"
    BY Zenon
  <2>1. stops'[k] = IF k = c THEN pc ELSE stops[k]
    BY Zenon DEF LifecycleInv, LifecycleTyped
  <2> QED BY Zenon, <1>1, <2>1
<1>4. hostDNS.state = "Stopped" => hostDNS'.state = "Stopped"
  BY Zenon, <1>1
<1>5. hostDNS'.state = "Started" => hostDNS.state = "Started"
  BY Zenon, <1>1
<1>6. hostDNS'.goal = "set" => hostDNS.goal = "set" /\ hostDNS'.state = hostDNS.state
  BY Zenon, <1>1
<1>7. iface'.released => iface.released \/ hostDNS'.state = "Stopped"
  BY Zenon, <1>4 DEF LifecycleInv, RestoredFirst
<1> QED BY Zenon, <1>2, <1>3, <1>4, <1>5, <1>6, <1>7, LifecycleStep

LEMMA StopKeeps ==
  ASSUME LifecycleInv, NEW c \in Stopper, CallStop(c) \/ StopSteps(c)
  PROVE  LifecycleInv'
<1>1. starting' = starting /\ dnsStart' = dnsStart
  BY Zenon DEF CallStop, StopSteps, StopLocks, StopRestores, StopCancels, StopRelocks,
               Close, CloseReleases, StopUnlocks, Goto, dns_
<1>2. iface \in InterfaceRecord
  BY Zenon DEF LifecycleInv, LifecycleTyped
<1>3. CASE CallStop(c)
  <2>1. /\ stops' = [stops EXCEPT ![c] = "lock"] /\ iface' = iface
        /\ ctxDone' = ctxDone /\ hostDNS' = hostDNS
    BY Zenon, <1>3 DEF CallStop, Goto, interface_, dns_
  <2>2. "lock" \notin {"cancel"} \cup Closing
    BY Zenon DEF Closing
  <2> QED BY Zenon, <1>1, <1>2, <2>1, <2>2, StopStep
<1>4. CASE StopLocks(c)
  <2>1. iface' = iface
    BY Zenon, <1>4 DEF StopLocks
  <2>2. CASE control.state = "Started"
    <3>1. /\ stops' = [stops EXCEPT ![c] = "restore"]
          /\ ctxDone' = ctxDone /\ hostDNS' = hostDNS
      BY Zenon, <1>4, <2>2 DEF StopLocks, Goto
    <3>2. "restore" \notin {"cancel"} \cup Closing
      BY Zenon DEF Closing
    <3> QED BY Zenon, <1>1, <1>2, <2>1, <3>1, <3>2, StopStep
  <2>3. CASE control.state = "Ready"
    <3>1. /\ stops' = [stops EXCEPT ![c] = "close"]
          /\ ctxDone' = TRUE /\ hostDNS' = Restored(hostDNS)
      BY Zenon, <1>4, <2>3 DEF StopLocks, Goto
    <3> QED BY Zenon, <1>1, <1>2, <2>1, <3>1, StopStep
  <2>4. CASE control.state \notin {"Started", "Ready"}
    <3>1. /\ stops' = [stops EXCEPT ![c] = "done"]
          /\ ctxDone' = ctxDone /\ hostDNS' = hostDNS
      BY Zenon, <1>4, <2>4 DEF StopLocks, Goto
    <3>2. "done" \notin {"cancel"} \cup Closing
      BY Zenon DEF Closing
    <3> QED BY Zenon, <1>1, <1>2, <2>1, <3>1, <3>2, StopStep
  <2> QED BY Zenon, <2>2, <2>3, <2>4
<1>5. CASE StopRestores(c)
  <2>1. /\ stops' = [stops EXCEPT ![c] = "cancel"] /\ iface' = iface
        /\ ctxDone' = ctxDone /\ hostDNS' = Restored(hostDNS)
    BY Zenon, <1>5 DEF StopRestores, Goto, interface_
  <2>2. "cancel" \notin Closing
    BY Zenon DEF Closing
  <2> QED BY Zenon, <1>1, <1>2, <2>1, <2>2, StopStep
<1>6. CASE StopCancels(c)
  <2>1. /\ stops' = [stops EXCEPT ![c] = "relock"] /\ iface' = iface /\ stops[c] = "cancel"
        /\ ctxDone' = TRUE /\ hostDNS' = hostDNS
    BY Zenon, <1>6 DEF StopCancels, Goto, dns_
  <2> QED BY Zenon, <1>1, <1>2, <2>1, StopStep
<1>7. CASE StopRelocks(c)
  <2>1. /\ stops' = [stops EXCEPT ![c] = "close"] /\ iface' = iface /\ stops[c] = "relock"
        /\ ctxDone' = ctxDone /\ hostDNS' = hostDNS
    BY Zenon, <1>7 DEF StopRelocks, Goto, interface_, dns_
  <2>2. "relock" \in Closing
    BY Zenon DEF Closing
  <2> QED BY Zenon, <1>1, <1>2, <2>1, <2>2, StopStep
<1>8. CASE Close(c)
  <2>1. PICK pc : /\ stops' = [stops EXCEPT ![c] = pc] /\ stops[c] = "close"
                  /\ iface' = [iface EXCEPT !.closed = TRUE, !.woken = TRUE]
                  /\ ctxDone' = ctxDone /\ hostDNS' = hostDNS
    BY Zenon, <1>8 DEF Close, Goto, dns_
  <2>2. "close" \in Closing
    BY Zenon DEF Closing
  <2>3. /\ iface' \in InterfaceRecord
        /\ iface'.token = iface.token /\ iface'.released = iface.released
    BY Zenon, <1>2, <2>1, InterfaceFields
  <2> QED BY Zenon, <1>1, <2>1, <2>2, <2>3, StopStep
<1>9. CASE CloseReleases(c)
  <2>1. /\ stops' = [stops EXCEPT ![c] = "unlock"] /\ stops[c] = "wait"
        /\ iface' = [iface EXCEPT !.released = TRUE, !.token = FALSE]
        /\ ctxDone' = ctxDone /\ hostDNS' = hostDNS
    BY Zenon, <1>9 DEF CloseReleases, Goto, dns_
  <2>2. "wait" \in Closing /\ "unlock" \notin {"cancel"} \cup Closing
    BY Zenon DEF Closing
  <2>3. iface' \in InterfaceRecord
    BY Zenon, <1>2, <2>1, InterfaceFields
  <2>4. ctxDone
    BY Zenon, <2>1, <2>2 DEF LifecycleInv, CancelledFirst
  <2> QED BY Zenon, <1>1, <2>1, <2>2, <2>3, <2>4, StopStep
<1>10. CASE StopUnlocks(c)
  <2>1. /\ stops' = [stops EXCEPT ![c] = "done"] /\ iface' = iface
        /\ ctxDone' = ctxDone /\ hostDNS' = hostDNS
    BY Zenon, <1>10 DEF StopUnlocks, Goto, interface_, dns_
  <2>2. "done" \notin {"cancel"} \cup Closing
    BY Zenon DEF Closing
  <2> QED BY Zenon, <1>1, <1>2, <2>1, <2>2, StopStep
<1> QED BY Zenon, <1>3, <1>4, <1>5, <1>6, <1>7, <1>8, <1>9, <1>10 DEF StopSteps

LEMMA ReaderKeeps ==
  ASSUME LifecycleInv, NEW r \in Reader, ReaderFails(r) \/ ReaderExits(r)
  PROVE  LifecycleInv'
<1>1. /\ starting' = starting /\ dnsStart' = dnsStart /\ iface' = iface
      /\ ctxDone' = ctxDone /\ hostDNS' = hostDNS
  BY Zenon DEF ReaderFails, ReaderExits, control_, dns_
<1>2. stops' = stops \/ stops' = [stops EXCEPT !["onFatal"] = "lock"]
  BY Zenon DEF ReaderFails, ReaderExits, control_, Goto
<1>3. CASE stops' = stops
  BY Zenon, <1>1, <1>3, LifecycleStep DEF LifecycleInv, LifecycleTyped
<1>4. CASE stops' = [stops EXCEPT !["onFatal"] = "lock"]
  <2>1. "lock" \notin {"cancel"} \cup Closing /\ "onFatal" \in Stopper
    BY Zenon DEF Closing, Stopper
  <2>2. iface' \in InterfaceRecord
    BY Zenon, <1>1 DEF LifecycleInv, LifecycleTyped
  <2> QED BY Zenon, <1>1, <1>4, <2>1, <2>2, StopStep
<1> QED BY Zenon, <1>2, <1>3, <1>4

LEMMA LifecycleKeeps == LifecycleInv /\ [LifecycleNext]_lcVars => LifecycleInv'
<1> SUFFICES ASSUME LifecycleInv, [LifecycleNext]_lcVars PROVE LifecycleInv'
  BY Zenon
<1>1. CASE UNCHANGED lcVars
  BY Zenon, <1>1, LifecycleStep DEF lcVars, LifecycleInv, LifecycleTyped
<1>2. CASE LifecycleNext
  BY Zenon, <1>2, StartKeeps, HostDNSKeeps, StopKeeps, ReaderKeeps DEF LifecycleNext
<1> QED BY Zenon, <1>1, <1>2

\* Control.Start, Stop and Wait, for any number of readers, calls of Stop and
\* reloads: whoever returns from Wait finds the context cancelled, and an
\* interface that was released is one the host's DNS does not point to.
THEOREM WaitIsClean == LifecycleSpec => []CleanWait
<1>1. LifecycleInv => CleanWait
  BY Zenon DEF LifecycleInv, CancelledFirst, StartedByStart, RestoredFirst, CleanWait, WaitReturns
<1> QED BY <1>1, LifecycleStarts, LifecycleKeeps, PTL DEF LifecycleSpec

-----------------------------------------------------------------------------
(* The timer wheel.                                                        *)
(*                                                                         *)
(* The d-th slot after the current one is passed over d ticks from now, so *)
(* that age - lag + d * tickDuration, the age an item will have then, does *)
(* not change while the item waits (InTime).  Add makes it larger than     *)
(* what was asked for and smaller than two ticks more.                     *)

\* The slot that the d-th tick from now passes over.
Ahead(d) == (current + d) % wheelLen

WheelTyped ==
  /\ lag \in Nat
  /\ current \in Slot
  /\ wheel \in [Slot -> Seq(Item)]
  /\ asked \in [Item -> Nat] /\ age \in [Item -> Nat] /\ DOMAIN prompt = Item

\* An item waits in one slot only.
OneSlot ==
  \A v \in Item, i, j \in Slot : v \in Range(wheel[i]) /\ v \in Range(wheel[j]) => i = j

\* When the slot of an item is passed over it will be neither early nor late.
InTime ==
  \A v \in Item, d \in 1..wheelLen : v \in Range(wheel[Ahead(d)]) =>
    /\ age[v] - lag + d * tickDuration < asked[v] + 2 * tickDuration
    /\ prompt[v] => age[v] - lag + d * tickDuration > asked[v]

WheelInv == WheelTyped /\ OneSlot /\ InTime

\* Division with remainder.
LEMMA DivideTicks ==
  ASSUME NEW L \in Nat \ {0}, NEW n \in Nat
  PROVE  /\ n = L * (n \div L) + (n % L)
         /\ n % L \in 0..(L - 1)
         /\ n \div L \in Nat
BY Z3

LEMMA ProductGrows ==
  ASSUME NEW L \in Nat, NEW a \in Nat, NEW b \in Nat, a <= b
  PROVE  L * a <= L * b /\ L * a \in Nat /\ L * b \in Nat
<1>1. PICK k \in Nat : b = a + k
  OBVIOUS
<1>2. L * b = L * a + L * k
  BY <1>1
<1>3. L * k \in Nat /\ L * a \in Nat
  BY Z3
<1> QED BY <1>2, <1>3

\* Less than two turns leave a remainder that one subtraction finds.
LEMMA Turn ==
  ASSUME NEW L \in Nat \ {0}, NEW n \in Nat, n < 2 * L
  PROVE  n % L = IF n < L THEN n ELSE n - L
<1>1. PICK q \in Nat, r \in 0..(L - 1) : n = L * q + r /\ r = n % L
  BY Zenon, DivideTicks
<1>2. q < 2
  <2>1. SUFFICES ASSUME q >= 2 PROVE FALSE
    OBVIOUS
  <2>2. L * 2 <= L * q
    BY <2>1, ProductGrows
  <2> QED BY <1>1, <2>2
<1>3. CASE q = 0
  BY <1>1, <1>3
<1>4. CASE q = 1
  BY <1>1, <1>4
<1> QED BY <1>2, <1>3, <1>4

\* The wheel has at least two slots.
LEMMA WheelLength ==
  /\ tickDuration \in Nat \ {0} /\ wheelDuration \in Nat \ {0} /\ Timeout \subseteq Nat
  /\ wheelLen \in Nat \ {0} /\ wheelLen >= 2
<1>1. tickDuration \in Nat \ {0} /\ wheelDuration \in Nat \ {0} /\ Timeout \subseteq Nat
  BY Zenon, WheelAssumption
<1>2. wheelDuration \div tickDuration \in Nat
  BY Zenon, <1>1, DivideTicks
<1> QED BY <1>1, <1>2 DEF wheelLen

\* The slots ahead are all slots, each of them once.
LEMMA AheadFacts ==
  ASSUME NEW c \in Slot, NEW d \in 1..wheelLen
  PROVE  /\ (c + d) % wheelLen \in Slot
         /\ (c + d) % wheelLen = IF c + d < wheelLen THEN c + d ELSE c + d - wheelLen
<1>1. wheelLen \in Nat \ {0}
  BY Zenon, WheelLength
<1>2. PICK L \in Nat \ {0} : L = wheelLen
  BY Zenon, <1>1
<1>3. c \in 0..(L - 1) /\ d \in 1..L
  BY Zenon, <1>2 DEF Slot
<1>4. PICK n \in Nat : n = c + d /\ n < 2 * L
  BY <1>3
<1>5. (c + d) % L = IF c + d < L THEN c + d ELSE c + d - L
  <2>1. n % L = IF n < L THEN n ELSE n - L
    BY Zenon, <1>4, Turn
  <2>2. (c + d) % L = n % L
    BY Zenon, <1>4
  <2>3. (IF n < L THEN n ELSE n - L) = IF c + d < L THEN c + d ELSE c + d - L
    BY <1>3, <1>4
  <2> QED BY Zenon, <2>1, <2>2, <2>3
<1>6. (c + d) % L \in 0..(L - 1)
  BY <1>3, <1>5
<1> QED BY Zenon, <1>2, <1>5, <1>6 DEF Slot

LEMMA AheadApart ==
  ASSUME NEW c \in Slot, NEW d \in 1..wheelLen, NEW e \in 1..wheelLen,
         (c + d) % wheelLen = (c + e) % wheelLen
  PROVE  d = e
<1>1. PICK L \in Nat \ {0} : L = wheelLen
  BY Zenon, WheelLength
<1>2. c \in 0..(L - 1) /\ d \in 1..L /\ e \in 1..L
  BY Zenon, <1>1 DEF Slot
<1>3. /\ (c + d) % wheelLen = IF c + d < L THEN c + d ELSE c + d - L
      /\ (c + e) % wheelLen = IF c + e < L THEN c + e ELSE c + e - L
  BY Zenon, <1>1, AheadFacts
<1> QED BY <1>2, <1>3

LEMMA EverySlotAhead ==
  ASSUME NEW c \in Slot, NEW i \in Slot
  PROVE  \E d \in 1..wheelLen : i = (c + d) % wheelLen
<1>1. PICK L \in Nat \ {0} : L = wheelLen
  BY Zenon, WheelLength
<1>2. c \in 0..(L - 1) /\ i \in 0..(L - 1)
  BY Zenon, <1>1 DEF Slot
<1>3. PICK d \in 1..L : d = IF i > c THEN i - c ELSE i - c + L
  BY <1>2
<1>4. (c + d) % L = IF c + d < L THEN c + d ELSE c + d - L
  BY Zenon, <1>1, AheadFacts
<1>5. i = (c + d) % L
  BY <1>2, <1>3, <1>4
<1> QED BY Zenon, <1>1, <1>5

\* Add looks Delay(c) ticks ahead, within the wheel, and rounds up.
Delay(c) == ((c - 1) \div tickDuration) + 2

LEMMA DelayFacts ==
  ASSUME NEW t \in Timeout, NEW c, c = Clamp(t)
  PROVE  /\ c \in Nat /\ Delay(c) \in 1..wheelLen
         /\ Delay(c) * tickDuration >= c + tickDuration
         /\ Delay(c) * tickDuration < c + 2 * tickDuration
<1>1. PICK T \in Nat \ {0}, W \in Nat \ {0} :
        /\ T = tickDuration /\ W = wheelDuration /\ wheelLen = (W \div T) + 2 /\ t \in Nat
  BY Zenon, WheelLength DEF wheelLen
<1>2. c \in Nat \ {0} /\ (c = T \/ c <= W)
  BY <1>1 DEF Clamp
<1>3. PICK e \in Nat : e = c - 1
  BY <1>2
<1>4. PICK q \in Nat, r \in 0..(T - 1) : e = T * q + r /\ q = e \div T
  BY Zenon, DivideTicks
<1>5. PICK p \in Nat, s \in 0..(T - 1) : W = T * p + s /\ p = W \div T
  BY Zenon, DivideTicks
<1>6. Delay(c) = q + 2
  BY Zenon, <1>1, <1>3, <1>4 DEF Delay
<1>7. q <= p
  <2> SUFFICES ASSUME p + 1 <= q PROVE FALSE
    OBVIOUS
  <2>1. T * (p + 1) <= T * q /\ T * p \in Nat
    BY ProductGrows
  <2>2. T * (p + 1) = T * p + T
    OBVIOUS
  <2>3. W < e
    BY <1>4, <1>5, <2>1, <2>2
  <2>4. e < T
    BY <1>2, <1>3, <2>3
  <2>5. T * q >= T
    BY <2>1, <2>2
  <2> QED BY <1>4, <2>4, <2>5
<1>8. (q + 2) * T = T * q + 2 * T
  OBVIOUS
<1>9. (q + 2) * T >= c + T /\ (q + 2) * T < c + 2 * T
  BY <1>2, <1>3, <1>4, <1>8
<1>10. q + 2 \in 1..(p + 2)
  BY <1>7
<1> QED BY Zenon, <1>1, <1>2, <1>5, <1>6, <1>9, <1>10

LEMMA FindsAhead ==
  ASSUME current \in Slot, NEW t \in Timeout
  PROVE  findWheel(t) = Ahead(Delay(Clamp(t)))
<1>1. PICK c : c = Clamp(t)
  BY Zenon
<1>2. PICK L \in Nat \ {0}, d \in 1..wheelLen : L = wheelLen /\ d = Delay(c)
  BY Zenon, <1>1, WheelLength, DelayFacts
<1>3. (current + d) % L = IF current + d < L THEN current + d ELSE current + d - L
  BY Zenon, <1>2, AheadFacts
<1>4. current \in 0..(L - 1)
  BY Zenon, <1>2 DEF Slot
<1>5. PICK q \in Nat : q = (c - 1) \div tickDuration /\ d = q + 2
  <2>1. PICK e \in Nat : e = c - 1
    BY <1>1, WheelLength DEF Clamp
  <2>2. PICK q \in Nat : q = e \div tickDuration
    BY Zenon, DivideTicks, WheelLength
  <2> QED BY Zenon, <1>2, <2>1, <2>2 DEF Delay
<1>6. findWheel(t) = IF q + 1 + current + 1 >= L THEN q + 1 + current + 1 - L
                     ELSE q + 1 + current + 1
  BY <1>1, <1>2, <1>4, <1>5 DEF findWheel
<1>7. findWheel(t) = (current + d) % L
  BY <1>3, <1>4, <1>5, <1>6
<1> QED BY Zenon, <1>1, <1>2, <1>7 DEF Ahead

-----------------------------------------------------------------------------
LEMMA WheelStarts == WheelInit => WheelInv
<1> SUFFICES ASSUME WheelInit PROVE WheelInv
  OBVIOUS
<1>1. wheelLen \in Nat \ {0}
  BY Zenon, WheelLength
<1>2. 0 \in Slot
  BY <1>1 DEF Slot
<1>3. \A i \in Slot, v \in Item : ~v \in Range(wheel[i])
  BY <1>1 DEF WheelInit, Range
<1>4. WheelTyped
  BY <1>2 DEF WheelInit, WheelTyped
<1>5. \A d \in 1..wheelLen : Ahead(d) \in Slot
  BY Zenon, <1>4, AheadFacts DEF Ahead, WheelTyped
<1> QED BY Zenon, <1>3, <1>4, <1>5 DEF WheelInv, OneSlot, InTime

\* What one more item at the end of a list changes.
LEMMA Appended ==
  ASSUME NEW s \in Seq(Item), NEW v \in Item
  PROVE  /\ Append(s, v) \in Seq(Item)
         /\ Range(Append(s, v)) = Range(s) \cup {v}
<1>1. PICK n \in Nat : n = Len(s)
  OBVIOUS
<1>2. /\ DOMAIN s = 1..n
      /\ DOMAIN Append(s, v) = 1..(n + 1)
      /\ \A i \in 1..n : Append(s, v)[i] = s[i]
      /\ Append(s, v)[n + 1] = v
      /\ Append(s, v) \in Seq(Item)
  BY <1>1
<1>3. 1..(n + 1) = (1..n) \cup {n + 1}
  OBVIOUS
<1>4. Range(Append(s, v)) = Range(s) \cup {v}
  BY Zenon, <1>2, <1>3 DEF Range
<1> QED BY <1>2, <1>4

LEMMA AddKeeps ==
  ASSUME WheelInv, NEW v \in Item, NEW t \in Timeout, Add(v, t)
  PROVE  WheelInv'
<1>1. PICK c : c = Clamp(t)
  BY Zenon
<1>2. PICK T \in Nat \ {0}, e \in 1..wheelLen :
        /\ T = tickDuration /\ e = Delay(c) /\ c \in Nat
        /\ e * T >= c + T /\ e * T < c + 2 * T
  BY Zenon, <1>1, WheelLength, DelayFacts
<1>3. PICK k \in Slot : k = Ahead(e) /\ k = findWheel(t)
  BY Zenon, <1>1, <1>2, FindsAhead, AheadFacts DEF WheelInv, WheelTyped, Ahead
<1>4. PICK s \in Seq(Item) : s = Append(wheel[k], v)
  BY Zenon, Appended DEF WheelInv, WheelTyped
<1>5. /\ wheel' = [wheel EXCEPT ![k] = s]
      /\ asked' = [asked EXCEPT ![v] = c]
      /\ age' = [age EXCEPT ![v] = 0]
      /\ prompt' = [prompt EXCEPT ![v] = lag < tickDuration]
      /\ lag' = lag /\ current' = current
      /\ \A i \in Slot : ~v \in Range(wheel[i])
  BY Zenon, <1>1, <1>3, <1>4 DEF Add, Queued, InWheel
<1>6. \A i \in Slot, w \in Item :
        w \in Range(wheel'[i]) <=> w \in Range(wheel[i]) \/ (i = k /\ w = v)
  <2>1. Range(s) = Range(wheel[k]) \cup {v}
    BY Zenon, <1>4, Appended DEF WheelInv, WheelTyped
  <2>2. \A i \in Slot : wheel'[i] = IF i = k THEN s ELSE wheel[i]
    BY Zenon, <1>5 DEF WheelInv, WheelTyped
  <2> QED BY Zenon, <2>1, <2>2
<1>7. WheelTyped'
  <2>1. lag' \in Nat /\ current' \in Slot
    BY Zenon, <1>5 DEF WheelInv, WheelTyped
  <2>2. wheel' \in [Slot -> Seq(Item)]
    BY Zenon, <1>4, <1>5 DEF WheelInv, WheelTyped
  <2>3. 0 \in Nat
    OBVIOUS
  <2>4. asked' \in [Item -> Nat] /\ age' \in [Item -> Nat]
    BY Zenon, <1>2, <1>5, <2>3 DEF WheelInv, WheelTyped
  <2>5. DOMAIN prompt' = Item
    BY Zenon, <1>5 DEF WheelInv, WheelTyped
  <2> QED BY Zenon, <2>1, <2>2, <2>4, <2>5 DEF WheelTyped, Slot, wheelLen
<1>8. OneSlot'
  <2> SUFFICES ASSUME NEW w \in Item, NEW i \in Slot, NEW j \in Slot,
                      w \in Range(wheel'[i]), w \in Range(wheel'[j])
               PROVE  i = j
    BY Zenon DEF OneSlot, Slot, wheelLen
  <2>1. CASE w = v
    BY Zenon, <1>5, <1>6, <2>1
  <2>2. CASE w # v
    BY Zenon, <1>6, <2>2 DEF WheelInv, OneSlot
  <2> QED BY Zenon, <2>1, <2>2
<1>9. InTime'
  <2> SUFFICES ASSUME NEW w \in Item, NEW d \in 1..wheelLen, w \in Range(wheel'[Ahead(d)'])
               PROVE  /\ age'[w] - lag' + d * tickDuration < asked'[w] + 2 * tickDuration
                      /\ prompt'[w] => age'[w] - lag' + d * tickDuration > asked'[w]
    BY Zenon DEF InTime
  <2>1. Ahead(d)' = Ahead(d) /\ Ahead(d) \in Slot
    BY Zenon, <1>5, AheadFacts DEF Ahead, WheelInv, WheelTyped
  <2>2. CASE w # v
    <3>1. w \in Range(wheel[Ahead(d)])
      BY Zenon, <1>6, <2>1, <2>2
    <3>2. age'[w] = age[w] /\ asked'[w] = asked[w] /\ prompt'[w] = prompt[w] /\ lag' = lag
      BY Zenon, <1>5, <2>2 DEF WheelInv, WheelTyped
    <3> QED BY Zenon, <3>1, <3>2 DEF WheelInv, InTime
  <2>3. CASE w = v
    <3>1. Ahead(d) = Ahead(e)
      BY Zenon, <1>3, <1>5, <1>6, <2>1, <2>3
    <3>2. d = e
      BY Zenon, <3>1, AheadApart DEF Ahead, WheelInv, WheelTyped
    <3>3. age'[w] = 0 /\ asked'[w] = c /\ lag' = lag /\ lag \in Nat
      BY Zenon, <1>5, <2>3 DEF WheelInv, WheelTyped
    <3>4. prompt'[w] => lag < T
      BY Zenon, <1>2, <1>5, <2>3 DEF WheelInv, WheelTyped
    <3>5. /\ 0 - lag + e * T < c + 2 * T
          /\ prompt'[w] => 0 - lag + e * T > c
      BY <1>2, <3>3, <3>4
    <3> QED BY Zenon, <1>2, <3>2, <3>3, <3>5
  <2> QED BY Zenon, <2>2, <2>3
<1> QED BY Zenon, <1>7, <1>8, <1>9 DEF WheelInv

\* Advance passes over the slots that were due, at most all of them.
LEMMA TicksFacts ==
  ASSUME WheelInv
  PROVE  /\ Ticks \in Nat /\ Ticks <= wheelLen
         /\ Ticks * tickDuration <= lag
         /\ Ticks < wheelLen => Remainder = lag - Ticks * tickDuration
         /\ Remainder \in Nat
<1>1. PICK T \in Nat \ {0}, L \in Nat \ {0} : T = tickDuration /\ L = wheelLen
  BY Zenon, WheelLength
<1>2. lag \in Nat
  BY Zenon DEF WheelInv, WheelTyped
<1>3. PICK q \in Nat, r \in 0..(T - 1) : lag = T * q + r /\ q = lag \div T /\ r = lag % T
  BY Zenon, <1>2, DivideTicks
<1>4. PICK m \in Nat : m = IF q > L THEN L ELSE q
  OBVIOUS
<1>5. Ticks = m /\ Remainder = r
  BY Zenon, <1>1, <1>3, <1>4 DEF Ticks, Remainder
<1>6. m <= L /\ m <= q /\ (m < L => m = q)
  BY <1>4
<1>7. T * m <= T * q
  BY Zenon, <1>6, ProductGrows
<1>8. m * T = T * m /\ T * m \in Int /\ T * q \in Int
  OBVIOUS
<1>9. m * T <= lag
  BY <1>3, <1>7, <1>8
<1>10. m < L => r = lag - m * T
  BY <1>3, <1>6, <1>8
<1>11. r \in Nat
  BY <1>3
<1> QED BY Zenon, <1>1, <1>4, <1>5, <1>6, <1>9, <1>10, <1>11

\* What is left in the wheel after an Advance.
LEMMA LeftAhead ==
  ASSUME WheelInv, Advance, NEW v \in Item, NEW d \in 1..wheelLen,
         v \in Range(wheel'[Ahead(d)'])
  PROVE  /\ d + Ticks \in 1..wheelLen
         /\ Ahead(d)' = Ahead(d + Ticks)
         /\ v \in Range(wheel[Ahead(d + Ticks)])
         /\ Ticks < wheelLen
         /\ ~PassedOver(v)
<1>1. PICK L \in Nat \ {0} : L = wheelLen
  BY Zenon, WheelLength
<1>2. PICK k \in 0..L : k = Ticks
  BY <1>1, TicksFacts
<1>3. PICK c \in 0..(L - 1) : c = current
  BY Zenon, <1>1 DEF WheelInv, WheelTyped, Slot
<1>4. PICK c2 \in 0..(L - 1) : c2 = current' /\ c2 = IF c + k < L THEN c + k ELSE c + k - L
  <2>1. PICK n \in Nat : n = c + k /\ n < 2 * L
    OBVIOUS
  <2>2. n % L = IF n < L THEN n ELSE n - L
    BY Zenon, <2>1, Turn
  <2>3. current' = n % L
    BY Zenon, <1>1, <1>2, <1>3, <2>1 DEF Advance
  <2> QED BY <2>1, <2>2, <2>3
<1>5. d \in 1..L
  BY Zenon, <1>1
<1>6. PICK i \in Slot : i = Ahead(d)' /\ i = IF c2 + d < L THEN c2 + d ELSE c2 + d - L
  <2>1. c2 \in Slot
    BY Zenon, <1>1 DEF Slot
  <2>2. Ahead(d)' = (c2 + d) % wheelLen
    BY Zenon, <1>4 DEF Ahead, wheelLen
  <2> QED BY Zenon, <1>1, <2>1, <2>2, AheadFacts
<1>7. \A e \in 1..L : Ahead(e) = IF c + e < L THEN c + e ELSE c + e - L
  BY Zenon, <1>1, <1>3, AheadFacts DEF Ahead, WheelInv, WheelTyped
<1>8. Range(Passed) = {Ahead(e) : e \in 1..k}
  BY Zenon, <1>2 DEF Range, Passed, Ahead
<1>9. /\ i \notin Range(Passed)
      /\ wheel'[i] = wheel[i]
  <2>1. wheel'[i] = IF i \in Range(Passed) THEN <<>> ELSE wheel[i]
    BY Zenon DEF Advance, Emptied
  <2>2. v \notin Range(<<>>)
    BY DEF Range
  <2> QED BY Zenon, <1>6, <2>1, <2>2
<1>10. d + k <= L
  <2> SUFFICES ASSUME d + k > L PROVE FALSE
    OBVIOUS
  <2>1. PICK e \in 1..k : e = d + k - L
    BY <1>2, <1>5
  <2>2. Ahead(e) = i
    BY <1>2, <1>4, <1>5, <1>6, <1>7, <2>1
  <2> QED BY Zenon, <1>8, <1>9, <2>2
<1>11. /\ d + k \in 1..L
       /\ k < L
  BY <1>5, <1>10
<1>12. Ahead(d + k) = i
  BY <1>3, <1>4, <1>5, <1>6, <1>7, <1>11
<1>13. v \in Range(wheel[i])
  BY Zenon, <1>6, <1>9
<1>14. ~PassedOver(v)
  <2> SUFFICES ASSUME NEW j \in Range(Passed), v \in Range(wheel[j]) PROVE FALSE
    BY Zenon DEF PassedOver
  <2>1. PICK e \in 1..k : j = Ahead(e)
    BY Zenon, <1>8
  <2>2. e \in 1..wheelLen
    BY <1>1, <1>11, <2>1
  <2>3. j \in Slot
    BY Zenon, <2>1, <2>2, AheadFacts DEF Ahead, WheelInv, WheelTyped
  <2>4. j = i
    BY Zenon, <1>13, <2>3 DEF WheelInv, OneSlot
  <2> QED BY Zenon, <1>9, <2>4
<1> QED BY Zenon, <1>1, <1>2, <1>6, <1>11, <1>12, <1>13, <1>14

LEMMA AdvanceKeeps ==
  ASSUME WheelInv, Advance
  PROVE  /\ WheelInv'
         /\ \A v \in Item : InWheel(v) /\ ~InWheel(v)' /\ prompt[v] => age[v] >= asked[v]
<1>1. PICK T \in Nat \ {0}, L \in Nat \ {0} : T = tickDuration /\ L = wheelLen
  BY Zenon, WheelLength
<1>2. PICK k \in 0..L : /\ k = Ticks /\ k * T <= lag
                        /\ k < L => lag' = lag - k * T
                        /\ lag' \in Nat
  <2>1. lag' = Remainder
    BY Zenon DEF Advance
  <2>2. Ticks \in Nat /\ Ticks <= L
    BY Zenon, <1>1, TicksFacts
  <2>3. Ticks \in 0..L
    BY <2>2
  <2> QED BY Zenon, <1>1, <2>1, <2>3, TicksFacts
<1>3. lag \in Nat /\ current \in 0..(L - 1)
  BY Zenon, <1>1 DEF WheelInv, WheelTyped, Slot
<1>4. current' \in Slot
  <2>1. PICK n \in Nat : n = current + k
    BY <1>3
  <2>2. n % L \in 0..(L - 1)
    BY Zenon, DivideTicks
  <2>3. current' = n % L
    BY Zenon, <1>1, <1>2, <2>1 DEF Advance
  <2> QED BY Zenon, <1>1, <2>2, <2>3 DEF Slot
<1>5. wheel' \in [Slot -> Seq(Item)]
  <2>1. <<>> \in Seq(Item)
    OBVIOUS
  <2> QED BY Zenon, <2>1 DEF Advance, Emptied, WheelInv, WheelTyped
<1>6. asked' \in [Item -> Nat] /\ age' \in [Item -> Nat] /\ DOMAIN prompt' = Item
  <2>1. 0 \in Nat
    OBVIOUS
  <2>2. asked' \in [Item -> Nat] /\ age' \in [Item -> Nat]
    BY Zenon, <2>1 DEF Advance, WheelInv, WheelTyped
  <2>3. DOMAIN prompt' = Item
    BY Zenon DEF Advance
  <2> QED BY Zenon, <2>2, <2>3
<1>7. WheelTyped'
  BY Zenon, <1>2, <1>4, <1>5, <1>6 DEF WheelTyped, Slot, wheelLen
<1>8. OneSlot'
  <2> SUFFICES ASSUME NEW v \in Item, NEW i \in Slot, NEW j \in Slot,
                      v \in Range(wheel'[i]), v \in Range(wheel'[j])
               PROVE  i = j
    BY Zenon DEF OneSlot, Slot, wheelLen
  <2>1. v \notin Range(<<>>)
    BY DEF Range
  <2>2. v \in Range(wheel[i]) /\ v \in Range(wheel[j])
    BY Zenon, <2>1 DEF Advance, Emptied
  <2> QED BY Zenon, <2>2 DEF WheelInv, OneSlot
<1>9. InTime'
  <2> SUFFICES ASSUME NEW v \in Item, NEW d \in 1..L, v \in Range(wheel'[Ahead(d)'])
               PROVE  /\ age'[v] - lag' + d * T < asked'[v] + 2 * T
                      /\ prompt'[v] => age'[v] - lag' + d * T > asked'[v]
    BY Zenon, <1>1 DEF InTime, wheelLen
  <2>1. PICK e \in 1..L : /\ e = d + k /\ v \in Range(wheel[Ahead(e)]) /\ k < L
                          /\ ~PassedOver(v)
    BY Zenon, <1>1, <1>2, LeftAhead
  <2>2. PICK a \in Nat, b \in Nat : a = age[v] /\ b = asked[v]
    BY Zenon DEF WheelInv, WheelTyped
  <2>3. /\ a - lag + e * T < b + 2 * T
        /\ prompt[v] => a - lag + e * T > b
    BY Zenon, <1>1, <2>1, <2>2 DEF WheelInv, InTime
  <2>4. age'[v] = a /\ asked'[v] = b /\ (prompt'[v] => prompt[v])
    BY Zenon, <2>1, <2>2 DEF Advance
  <2>5. e * T = d * T + k * T /\ d * T \in Int /\ k * T \in Int
    BY <2>1
  <2>6. lag' = lag - k * T
    BY Zenon, <1>2, <2>1
  <2>7. a - lag' + d * T = a - lag + e * T
    BY <1>3, <2>5, <2>6
  <2> QED BY Zenon, <2>3, <2>4, <2>7
<1>10. ASSUME NEW v \in Item, InWheel(v), ~InWheel(v)', prompt[v]
       PROVE  age[v] >= asked[v]
  <2>1. PICK i \in Slot : v \in Range(wheel[i])
    BY Zenon, <1>10 DEF InWheel
  <2>2. ~v \in Range(wheel'[i])
    BY Zenon, <1>10 DEF InWheel, Slot, wheelLen
  <2>3. i \in Range(Passed)
    BY Zenon, <2>1, <2>2 DEF Advance, Emptied
  <2>4. PICK e \in 1..k : i = Ahead(e)
    BY Zenon, <1>2, <2>3 DEF Range, Passed, Ahead
  <2>5. e \in 1..L
    OBVIOUS
  <2>6. PICK a \in Nat, b \in Nat : a = age[v] /\ b = asked[v]
    BY Zenon DEF WheelInv, WheelTyped
  <2>7. a - lag + e * T > b
    BY Zenon, <1>1, <1>10, <2>1, <2>4, <2>5, <2>6 DEF WheelInv, InTime
  <2>8. e * T <= k * T
    BY ProductGrows
  <2>9. e * T \in Int /\ k * T \in Int
    OBVIOUS
  <2>10. a >= b
    BY <1>2, <1>3, <2>7, <2>8, <2>9
  <2> QED BY Zenon, <2>6, <2>10
<1> QED BY Zenon, <1>7, <1>8, <1>9, <1>10 DEF WheelInv

LEMMA PassKeeps ==
  ASSUME WheelInv, Pass
  PROVE  WheelInv'
<1>1. /\ lag' = lag + 1 /\ current' = current /\ wheel' = wheel
      /\ asked' = asked /\ prompt' = prompt
      /\ age' = [v \in Item |-> IF InWheel(v) THEN age[v] + 1 ELSE age[v]]
  BY Zenon DEF Pass
<1>2. WheelTyped'
  <2>1. lag' \in Nat
    BY <1>1 DEF WheelInv, WheelTyped
  <2>2. \A n \in Nat : n + 1 \in Nat
    OBVIOUS
  <2>3. age' \in [Item -> Nat]
    BY Zenon, <1>1, <2>2 DEF WheelInv, WheelTyped
  <2> QED BY Zenon, <1>1, <2>1, <2>3 DEF WheelInv, WheelTyped, Slot, wheelLen
<1>3. OneSlot'
  BY Zenon, <1>1 DEF WheelInv, OneSlot, Slot, wheelLen
<1>4. InTime'
  <2> SUFFICES ASSUME NEW v \in Item, NEW d \in 1..wheelLen, v \in Range(wheel'[Ahead(d)'])
               PROVE  /\ age'[v] - lag' + d * tickDuration < asked'[v] + 2 * tickDuration
                      /\ prompt'[v] => age'[v] - lag' + d * tickDuration > asked'[v]
    BY Zenon DEF InTime, wheelLen
  <2>1. Ahead(d)' = Ahead(d) /\ Ahead(d) \in Slot
    BY Zenon, <1>1, AheadFacts DEF Ahead, wheelLen, WheelInv, WheelTyped
  <2>2. v \in Range(wheel[Ahead(d)]) /\ InWheel(v)
    BY Zenon, <1>1, <2>1 DEF InWheel
  <2>3. PICK a \in Nat, b \in Nat, T \in Nat : a = age[v] /\ b = asked[v] /\ T = tickDuration
    BY Zenon, WheelLength DEF WheelInv, WheelTyped
  <2>4. /\ a - lag + d * T < b + 2 * T
        /\ prompt[v] => a - lag + d * T > b
    BY Zenon, <2>2, <2>3 DEF WheelInv, InTime
  <2>5. age'[v] = a + 1 /\ asked'[v] = b /\ prompt'[v] = prompt[v]
    BY Zenon, <1>1, <2>2, <2>3
  <2>6. age'[v] - lag' + d * tickDuration = a - lag + d * T
    BY <1>1, <2>3, <2>5, WheelLength DEF WheelInv, WheelTyped
  <2>7. asked'[v] + 2 * tickDuration = b + 2 * T
    BY Zenon, <2>3, <2>5
  <2> QED BY Zenon, <2>4, <2>5, <2>6, <2>7
<1> QED BY Zenon, <1>2, <1>3, <1>4 DEF WheelInv

\* A step that moves no time and no item.
LEMMA WheelStill ==
  ASSUME WheelInv, UNCHANGED <<lag, current, wheel, asked, age, prompt>>
  PROVE  WheelInv'
<1>1. /\ lag' = lag /\ current' = current /\ wheel' = wheel
      /\ asked' = asked /\ age' = age /\ prompt' = prompt
  BY Zenon
<1>2. WheelTyped'
  BY Zenon, <1>1 DEF WheelInv, WheelTyped, Slot, wheelLen
<1>3. OneSlot'
  BY Zenon, <1>1 DEF WheelInv, OneSlot, Slot, wheelLen
<1>4. InTime'
  BY Zenon, <1>1 DEF WheelInv, InTime, Ahead, wheelLen
<1> QED BY Zenon, <1>2, <1>3, <1>4 DEF WheelInv

LEMMA WheelKeeps ==
  ASSUME WheelInv, [WheelNext]_wheelVars
  PROVE  /\ WheelInv'
         /\ \A v \in Item : InWheel(v) /\ ~InWheel(v)' /\ prompt[v] => age[v] >= asked[v]
<1>1. CASE Advance
  BY Zenon, <1>1, AdvanceKeeps
<1>2. ASSUME ~Advance PROVE WheelInv'
  <2>1. CASE \E v \in Item, t \in Timeout : Add(v, t)
    BY Zenon, <2>1, AddKeeps
  <2>2. CASE Purge
    BY Zenon, <2>2, WheelStill DEF Purge
  <2>3. CASE Pass
    BY Zenon, <2>3, PassKeeps
  <2>4. CASE UNCHANGED wheelVars
    BY Zenon, <2>4, WheelStill DEF wheelVars
  <2> QED BY Zenon, <1>2, <2>1, <2>2, <2>3, <2>4 DEF WheelNext
<1>3. ASSUME ~Advance, NEW v \in Item, InWheel(v) PROVE InWheel(v)'
  <2>1. CASE \E w \in Item, t \in Timeout : Add(w, t)
    <3>1. PICK w \in Item, t \in Timeout : Add(w, t)
      BY Zenon, <2>1
    <3>2. PICK i \in Slot : v \in Range(wheel[i])
      BY Zenon, <1>3 DEF InWheel
    <3>3. wheel' = [wheel EXCEPT ![findWheel(t)] = Append(@, w)]
      BY Zenon, <3>1 DEF Add
    <3>4. wheel \in [Slot -> Seq(Item)]
      BY Zenon DEF WheelInv, WheelTyped
    <3>5. wheel'[i] = wheel[i] \/ wheel'[i] = Append(wheel[i], w)
      BY Zenon, <3>3, <3>4
    <3>6. v \in Range(Append(wheel[i], w))
      BY Zenon, <3>2, <3>4, Appended
    <3> QED BY Zenon, <3>2, <3>5, <3>6 DEF InWheel, Slot, wheelLen
  <2>2. CASE wheel' = wheel
    BY Zenon, <1>3, <2>2 DEF InWheel, Slot, wheelLen
  <2> QED BY Zenon, <1>3, <2>1, <2>2 DEF WheelNext, Purge, Pass, wheelVars
<1> QED BY Zenon, <1>1, <1>2, <1>3

LEMMA WheelImplies == WheelInv => NeverLate
<1> SUFFICES ASSUME WheelInv, NEW v \in Item, InWheel(v)
             PROVE  age[v] - lag < asked[v] + 2 * tickDuration
  BY Zenon DEF NeverLate
<1>1. PICK i \in Slot : v \in Range(wheel[i])
  BY Zenon DEF InWheel
<1>2. PICK d \in 1..wheelLen : i = Ahead(d)
  BY Zenon, EverySlotAhead DEF Ahead, WheelInv, WheelTyped
<1>3. PICK a \in Nat, b \in Nat, l \in Nat, T \in Nat :
        a = age[v] /\ b = asked[v] /\ l = lag /\ T = tickDuration
  BY Zenon, WheelLength DEF WheelInv, WheelTyped
<1>4. a - l + d * T < b + 2 * T
  BY Zenon, <1>1, <1>2, <1>3 DEF WheelInv, InTime
<1>5. d \in Nat /\ d * T \in Nat
  <2>1. d \in Nat
    BY WheelLength
  <2> QED BY <2>1, ProductGrows
<1>6. a - l < b + 2 * T
  BY <1>4, <1>5
<1> QED BY Zenon, <1>3, <1>6

\* The timer wheel of timeout.go, for every tick, every length of the wheel,
\* any timeouts and items: a timeout that was added to a wheel less than a
\* tick behind never fires early, however far Advance jumps, and none is
\* passed over more than two ticks after it is due.
THEOREM WheelInTime == WheelSpec => FiresInTime
<1>1. WheelInv /\ [WheelNext]_wheelVars => WheelInv'
  BY Zenon, WheelKeeps
<1>2. WheelInv /\ [WheelNext]_wheelVars =>
        [\A v \in Item : InWheel(v) /\ ~InWheel(v)' /\ prompt[v] => age[v] >= asked[v]]_wheelVars
  BY Zenon, WheelKeeps
<1> QED BY <1>1, <1>2, WheelStarts, WheelImplies, PTL DEF WheelSpec, FiresInTime, NeverEarly

-----------------------------------------------------------------------------
(* Nothing is lost or copied.                                              *)
(*                                                                         *)
(* Advance appends the lists of the slots it passes over one by one.  That *)
(* the loop builds a list at all, what is in it and that nothing is in it  *)
(* twice are shown by going up to the number of ticks (Climb).             *)

\* What holds at 0 and, where it holds, one further, holds up to n.
LEMMA Climb ==
  ASSUME NEW n \in Nat, NEW G, 0 \in G, \A i \in 1..n : i - 1 \in G => i \in G
  PROVE  0..n \subseteq G
<1> SUFFICES ASSUME (0..n) \ G # {} PROVE FALSE
  BY Zenon
<1>1. (0..n) \ G \in SUBSET Nat
  OBVIOUS
<1>2. PICK i \in (0..n) \ G : \A j \in (0..n) \ G : i <= j
  BY Zenon, <1>1, Least
<1>3. i # 0
  BY Zenon, <1>2
<1>4. i \in 1..n /\ i - 1 \in 0..n /\ ~(i <= i - 1)
  BY <1>2, <1>3
<1>5. i - 1 \in G
  BY Zenon, <1>2, <1>4
<1> QED BY Zenon, <1>2, <1>4, <1>5

Distinct(s) == \A k, l \in DOMAIN s : s[k] = s[l] => k = l

\* f builds a list from s by appending the n lists of part.
Joins(f, s, part, n) ==
  /\ f \in [0..n -> Seq(Item)] /\ f[0] = s
  /\ \A i \in 1..n : f[i] = f[i - 1] \o part[i]

Gathers(f, s, part, i) ==
  \A v : v \in Range(f[i]) <=> v \in Range(s) \/ \E j \in 1..i : v \in Range(part[j])

\* Appending one list to another.
LEMMA Joined ==
  ASSUME NEW s \in Seq(Item), NEW t \in Seq(Item)
  PROVE  /\ s \o t \in Seq(Item)
         /\ Range(s \o t) = Range(s) \cup Range(t)
         /\ Distinct(s) /\ Distinct(t) /\ Range(s) \cap Range(t) = {} => Distinct(s \o t)
<1>1. PICK m \in Nat, n \in Nat, u \in Seq(Item) :
        /\ u = s \o t /\ DOMAIN s = 1..m /\ DOMAIN t = 1..n /\ DOMAIN u = 1..(m + n)
        /\ \A k \in 1..m : u[k] = s[k]
        /\ \A k \in 1..n : u[m + k] = t[k]
  <2>1. /\ Len(s) \in Nat /\ Len(t) \in Nat /\ s \o t \in Seq(Item)
        /\ DOMAIN s = 1..Len(s) /\ DOMAIN t = 1..Len(t)
    OBVIOUS
  <2>2. DOMAIN (s \o t) = 1..(Len(s) + Len(t))
    OBVIOUS
  <2>3. \A k \in 1..Len(s) : (s \o t)[k] = s[k]
    OBVIOUS
  <2>4. \A k \in 1..Len(t) : (s \o t)[Len(s) + k] = t[k]
    OBVIOUS
  <2> QED BY Zenon, <2>1, <2>2, <2>3, <2>4
<1>2. /\ \A k \in 1..m : k \in 1..(m + n)
      /\ \A k \in 1..n : m + k \in 1..(m + n)
      /\ \A k \in 1..(m + n) : k \in 1..m \/ \E l \in 1..n : k = m + l
  <2>1. ASSUME NEW k \in 1..(m + n), k \notin 1..m PROVE \E l \in 1..n : k = m + l
    <3>1. k - m \in 1..n /\ k = m + (k - m)
      BY <2>1
    <3> QED BY Zenon, <3>1
  <2> QED BY <2>1
<1>3. Range(u) = Range(s) \cup Range(t)
  <2>1. ASSUME NEW x \in Range(u) PROVE x \in Range(s) \cup Range(t)
    <3>1. PICK k \in 1..(m + n) : x = u[k]
      BY Zenon, <1>1 DEF Range
    <3>2. CASE k \in 1..m
      BY Zenon, <1>1, <3>1, <3>2 DEF Range
    <3>3. ASSUME NEW l \in 1..n, k = m + l PROVE x \in Range(t)
      BY Zenon, <1>1, <3>1, <3>3 DEF Range
    <3> QED BY Zenon, <1>2, <3>2, <3>3
  <2>2. ASSUME NEW k \in 1..m PROVE s[k] \in Range(u)
    BY Zenon, <1>1, <1>2 DEF Range
  <2>3. ASSUME NEW k \in 1..n PROVE t[k] \in Range(u)
    <3>1. u[m + k] = t[k] /\ m + k \in DOMAIN u
      BY Zenon, <1>1, <1>2
    <3> QED BY Zenon, <3>1 DEF Range
  <2>4. Range(s) = {s[k] : k \in 1..m} /\ Range(t) = {t[k] : k \in 1..n}
    BY Zenon, <1>1 DEF Range
  <2> QED BY Zenon, <2>1, <2>2, <2>3, <2>4
<1>4. ASSUME Distinct(s), Distinct(t), Range(s) \cap Range(t) = {}
      PROVE  Distinct(u)
  <2> SUFFICES ASSUME NEW k \in 1..(m + n), NEW l \in 1..(m + n), u[k] = u[l]
               PROVE  k = l
    BY Zenon, <1>1 DEF Distinct
  <2>1. CASE k \in 1..m /\ l \in 1..m
    BY Zenon, <1>1, <1>4, <2>1 DEF Distinct
  <2>2. ASSUME NEW i \in 1..n, NEW j \in 1..n, u[m + i] = u[m + j] PROVE i = j
    <3>1. u[m + i] = t[i] /\ u[m + j] = t[j]
      BY Zenon, <1>1
    <3>2. t[i] = t[j]
      BY Zenon, <2>2, <3>1
    <3> QED BY Zenon, <1>1, <1>4, <3>2 DEF Distinct
  <2>3. ASSUME NEW a \in 1..m, NEW b \in 1..n, u[a] = u[m + b] PROVE FALSE
    <3>1. u[a] = s[a] /\ u[m + b] = t[b]
      BY Zenon, <1>1
    <3>2. s[a] = t[b]
      BY Zenon, <2>3, <3>1
    <3>3. s[a] \in Range(s) /\ t[b] \in Range(t)
      BY Zenon, <1>1 DEF Range
    <3> QED BY Zenon, <1>4, <3>2, <3>3
  <2> QED BY Zenon, <1>2, <2>1, <2>2, <2>3
<1> QED BY Zenon, <1>1, <1>3, <1>4

\* There is such an f.
LEMMA JoinExists ==
  ASSUME NEW s \in Seq(Item), NEW n \in Nat, NEW part \in [1..n -> Seq(Item)]
  PROVE  \E f : Joins(f, s, part, n)
<1>1. PICK G : G = {i \in 0..n : \E f : Joins(f, s, part, i)}
  BY Zenon
<1>2. 0 \in G
  <2>1. PICK f : f = [i \in 0..0 |-> s]
    BY Zenon
  <2>2. 0 \in 0..0 /\ 1..0 = {} /\ 0 \in 0..n
    OBVIOUS
  <2>3. f \in [0..0 -> Seq(Item)] /\ f[0] = s
    BY Zenon, <2>1, <2>2
  <2>4. Joins(f, s, part, 0)
    BY Zenon, <2>2, <2>3 DEF Joins
  <2> QED BY Zenon, <1>1, <2>2, <2>4
<1>3. ASSUME NEW i \in 1..n, i - 1 \in G
      PROVE  i \in G
  <2>1. PICK g : Joins(g, s, part, i - 1)
    BY Zenon, <1>1, <1>3
  <2>2. /\ i - 1 \in 0..(i - 1) /\ i \in 0..n /\ i \notin 0..(i - 1) /\ 0 \in 0..(i - 1)
        /\ 0..i = (0..(i - 1)) \cup {i} /\ 1..i = (1..(i - 1)) \cup {i}
        /\ \A k \in 1..i : k - 1 \in 0..(i - 1)
        /\ \A k \in 1..(i - 1) : k \in 0..(i - 1)
    OBVIOUS
  <2>3. PICK h \in Seq(Item) : h = g[i - 1] \o part[i]
    BY Zenon, <2>1, <2>2, Joined DEF Joins
  <2>4. PICK f : f = [k \in 0..i |-> IF k = i THEN h ELSE g[k]]
    BY Zenon
  <2>5. f[i] = h /\ \A k \in 0..(i - 1) : f[k] = g[k]
    BY Zenon, <2>2, <2>4
  <2>6. f \in [0..i -> Seq(Item)]
    BY Zenon, <2>1, <2>2, <2>4 DEF Joins
  <2>7. \A k \in 1..i : f[k] = f[k - 1] \o part[k]
    BY Zenon, <2>1, <2>2, <2>3, <2>5 DEF Joins
  <2>8. f[0] = s
    BY Zenon, <2>1, <2>2, <2>5 DEF Joins
  <2> QED BY Zenon, <1>1, <2>2, <2>6, <2>7, <2>8 DEF Joins
<1>4. 0..n \subseteq G
  BY Zenon, <1>2, <1>3, Climb
<1>5. n \in 0..n
  OBVIOUS
<1> QED BY Zenon, <1>1, <1>4, <1>5

\* What is in it.
LEMMA JoinRange ==
  ASSUME NEW s, NEW n \in Nat, NEW part \in [1..n -> Seq(Item)], NEW f, Joins(f, s, part, n)
  PROVE  \A i \in 0..n : Gathers(f, s, part, i)
<1>1. PICK G : G = {i \in 0..n : Gathers(f, s, part, i)}
  BY Zenon
<1>2. 0 \in G
  <2>1. 1..0 = {} /\ 0 \in 0..n
    OBVIOUS
  <2>2. Gathers(f, s, part, 0)
    BY Zenon, <2>1 DEF Joins, Gathers
  <2> QED BY Zenon, <1>1, <2>1, <2>2
<1>3. ASSUME NEW i \in 1..n, i - 1 \in G
      PROVE  i \in G
  <2>1. i - 1 \in 0..n /\ i \in 0..n /\ 1..i = (1..(i - 1)) \cup {i}
    OBVIOUS
  <2>2. f[i] = f[i - 1] \o part[i] /\ f[i - 1] \in Seq(Item) /\ part[i] \in Seq(Item)
    BY Zenon, <2>1 DEF Joins
  <2>3. Range(f[i]) = Range(f[i - 1]) \cup Range(part[i])
    BY Zenon, <2>2, Joined
  <2>4. Gathers(f, s, part, i - 1)
    BY Zenon, <1>1, <1>3
  <2>5. Gathers(f, s, part, i)
    BY Zenon, <2>1, <2>3, <2>4 DEF Gathers
  <2> QED BY Zenon, <1>1, <2>1, <2>5
<1>4. 0..n \subseteq G
  BY Zenon, <1>2, <1>3, Climb
<1> QED BY Zenon, <1>1, <1>4

\* Nothing is in it twice.
LEMMA JoinDistinct ==
  ASSUME NEW s, NEW n \in Nat, NEW part \in [1..n -> Seq(Item)], NEW f, Joins(f, s, part, n),
         Distinct(s),
         \A j \in 1..n : Distinct(part[j]) /\ Range(s) \cap Range(part[j]) = {},
         \A i, j \in 1..n : i # j => Range(part[i]) \cap Range(part[j]) = {}
  PROVE  Distinct(f[n])
<1>1. PICK G : G = {i \in 0..n : Distinct(f[i])}
  BY Zenon
<1>2. 0 \in G
  <2>1. 0 \in 0..n
    OBVIOUS
  <2> QED BY Zenon, <1>1, <2>1 DEF Joins
<1>3. ASSUME NEW i \in 1..n, i - 1 \in G
      PROVE  i \in G
  <2>1. i - 1 \in 0..n /\ i \in 0..n /\ \A j \in 1..(i - 1) : j \in 1..n /\ j # i
    OBVIOUS
  <2>2. f[i] = f[i - 1] \o part[i] /\ f[i - 1] \in Seq(Item) /\ part[i] \in Seq(Item)
    BY Zenon, <2>1 DEF Joins
  <2>3. Gathers(f, s, part, i - 1)
    BY Zenon, <2>1, JoinRange
  <2>4. Range(f[i - 1]) \cap Range(part[i]) = {}
    BY Zenon, <2>1, <2>3 DEF Gathers
  <2>5. Distinct(f[i - 1]) /\ Distinct(part[i])
    BY Zenon, <1>1, <1>3
  <2>6. Distinct(f[i])
    BY Zenon, <2>2, <2>4, <2>5, Joined
  <2> QED BY Zenon, <1>1, <2>1, <2>6
<1>4. 0..n \subseteq G
  BY Zenon, <1>2, <1>3, Climb
<1>5. n \in 0..n
  OBVIOUS
<1> QED BY Zenon, <1>1, <1>4, <1>5

\* A list of items holds items.
LEMMA Within ==
  ASSUME NEW s \in Seq(Item)
  PROVE  Range(s) \subseteq Item
BY DEF Range

LEMMA PassedSlots ==
  ASSUME WheelInv
  PROVE  Range(Passed) \subseteq Slot
<1>1. PICK n \in Nat : n = Ticks /\ n <= wheelLen
  BY Zenon, TicksFacts
<1>2. \A j \in 1..n : j \in 1..wheelLen
  BY <1>1, WheelLength
<1>3. \A j \in 1..n : Passed[j] \in Slot
  BY Zenon, <1>1, <1>2, AheadFacts DEF Passed, WheelInv, WheelTyped
<1> QED BY Zenon, <1>1, <1>3 DEF Range, Passed

\* An item is in one list only, and there once.
OnceInv ==
  /\ expired \in Seq(Item) /\ Distinct(expired)
  /\ \A i \in Slot : Distinct(wheel[i]) /\ Range(expired) \cap Range(wheel[i]) = {}

\* The loop of Advance.
Loops(f) == f = [i \in 0..Ticks |-> IF i = 0 THEN expired ELSE f[i - 1] \o wheel[Passed[i]]]

LEMMA ExpireLoops ==
  ASSUME NEW f, Loops(f)
  PROVE  \E g : Loops(g) /\ Expire = g[Ticks]
BY Zenon DEF Loops, Expire

\* What Advance makes of the expired list.
LEMMA ExpireFacts ==
  ASSUME WheelInv, OnceInv
  PROVE  /\ Expire \in Seq(Item) /\ Distinct(Expire)
         /\ \A v : v \in Range(Expire) <=> v \in Range(expired) \/ PassedOver(v)
<1>1. PICK n \in Nat : n = Ticks /\ n <= wheelLen
  BY Zenon, TicksFacts
<1>2. \A j \in 1..n : j \in 1..wheelLen
  BY <1>1, WheelLength
<1>3. PICK s \in Seq(Item) : s = expired /\ Distinct(s)
  BY Zenon DEF OnceInv
<1>4. \A j \in 1..n : Passed[j] \in Slot
  BY Zenon, <1>1, <1>2, AheadFacts DEF Passed, WheelInv, WheelTyped
<1>5. PICK part : part = [j \in 1..n |-> wheel[Passed[j]]]
  BY Zenon
<1>6. part \in [1..n -> Seq(Item)]
  BY Zenon, <1>4, <1>5 DEF WheelInv, WheelTyped
<1>7. \A i \in 1..n : i \in 0..n /\ i # 0 /\ i - 1 \in 0..n
  OBVIOUS
<1>8. 0 \in 0..n /\ n \in 0..n /\ \A i \in 0..n : i = 0 \/ i \in 1..n
  OBVIOUS
<1>9. PICK g : Loops(g) /\ Expire = g[n]
  <2>1. PICK f : Joins(f, s, part, n)
    BY Zenon, <1>6, JoinExists
  <2>2. f = [i \in 0..n |-> IF i = 0 THEN s ELSE f[i - 1] \o wheel[Passed[i]]]
    <3>1. f = [i \in 0..n |-> f[i]]
      BY Zenon, <2>1 DEF Joins
    <3>2. \A i \in 0..n : f[i] = IF i = 0 THEN s ELSE f[i - 1] \o wheel[Passed[i]]
      BY Zenon, <1>5, <1>7, <1>8, <2>1 DEF Joins
    <3> QED BY Zenon, <3>1, <3>2
  <2>3. Loops(f)
    BY Zenon, <1>1, <1>3, <2>2 DEF Loops
  <2> QED BY Zenon, <1>1, <2>3, ExpireLoops
<1>10. /\ g = [i \in 0..n |-> g[i]]
       /\ g[0] = s
       /\ \A i \in 1..n : g[i] = g[i - 1] \o part[i]
  <2>1. g = [i \in 0..n |-> IF i = 0 THEN s ELSE g[i - 1] \o wheel[Passed[i]]]
    BY Zenon, <1>1, <1>3, <1>9 DEF Loops
  <2> HIDE <1>9
  <2>2. \A i \in 0..n : g[i] = IF i = 0 THEN s ELSE g[i - 1] \o wheel[Passed[i]]
    BY Zenon, <2>1
  <2>3. g = [i \in 0..n |-> g[i]]
    BY Zenon, <2>1
  <2> QED BY Zenon, <1>5, <1>7, <1>8, <2>2, <2>3
<1>11. Joins(g, s, part, n)
  <2>1. PICK G : G = {i \in 0..n : g[i] \in Seq(Item)}
    BY Zenon
  <2>2. 0 \in G
    BY Zenon, <1>8, <1>10, <2>1
  <2>3. ASSUME NEW i \in 1..n, i - 1 \in G PROVE i \in G
    <3>1. g[i - 1] \in Seq(Item) /\ part[i] \in Seq(Item)
      BY Zenon, <1>6, <2>1, <2>3
    <3>2. g[i - 1] \o part[i] \in Seq(Item)
      BY Zenon, <3>1, Joined
    <3> QED BY Zenon, <1>7, <1>10, <2>1, <3>2
  <2>4. 0..n \subseteq G
    BY Zenon, <2>2, <2>3, Climb
  <2>5. g \in [0..n -> Seq(Item)]
    BY Zenon, <1>10, <2>1, <2>4
  <2> QED BY Zenon, <1>10, <2>5 DEF Joins
<1>12. \A v : v \in Range(Expire) <=> v \in Range(expired) \/ PassedOver(v)
  <2>1. Gathers(g, s, part, n)
    BY Zenon, <1>6, <1>8, <1>11, JoinRange
  <2>2. Range(Passed) = {Passed[j] : j \in 1..n}
    BY Zenon, <1>1 DEF Range, Passed
  <2>3. \A v : PassedOver(v) <=> \E j \in 1..n : v \in Range(part[j])
    BY Zenon, <1>5, <2>2 DEF PassedOver
  <2> QED BY Zenon, <1>3, <1>9, <2>1, <2>3 DEF Gathers
<1>13. Distinct(Expire)
  <2>1. \A j \in 1..n : Distinct(part[j]) /\ Range(s) \cap Range(part[j]) = {}
    BY Zenon, <1>3, <1>4, <1>5 DEF OnceInv
  <2>2. ASSUME NEW i \in 1..n, NEW j \in 1..n, i # j
        PROVE  Range(part[i]) \cap Range(part[j]) = {}
    <3>1. Passed[i] # Passed[j] /\ Passed[i] \in Slot /\ Passed[j] \in Slot
      BY Zenon, <1>1, <1>2, <1>4, <2>2, AheadApart DEF Passed, WheelInv, WheelTyped
    <3>2. \A v \in Item : ~(v \in Range(wheel[Passed[i]]) /\ v \in Range(wheel[Passed[j]]))
      BY Zenon, <3>1 DEF WheelInv, OneSlot
    <3>3. Range(part[i]) \subseteq Item
      BY Zenon, <1>6, Within
    <3> QED BY Zenon, <1>5, <3>2, <3>3
  <2>3. Distinct(g[n])
    BY Zenon, <1>3, <1>6, <1>11, <2>1, <2>2, JoinDistinct
  <2> QED BY Zenon, <1>9, <2>3
<1>14. Expire \in Seq(Item)
  BY Zenon, <1>8, <1>9, <1>11 DEF Joins
<1> QED BY Zenon, <1>12, <1>13, <1>14

\* Taking the first item of a list.
LEMMA Shortened ==
  ASSUME NEW s \in Seq(Item), s # <<>>
  PROVE  /\ Tail(s) \in Seq(Item)
         /\ Distinct(s) => Distinct(Tail(s))
         /\ Range(Tail(s)) \subseteq Range(s)
         /\ \A v \in Range(s) : v \in Range(Tail(s)) \/ v = Head(s)
<1>1. PICK n \in Nat, u \in Seq(Item) :
        /\ u = Tail(s) /\ DOMAIN s = 1..(n + 1) /\ DOMAIN u = 1..n
        /\ \A k \in 1..n : u[k] = s[k + 1]
        /\ Head(s) = s[1]
  <2>1. /\ Len(s) - 1 \in Nat /\ Len(s) = (Len(s) - 1) + 1 /\ Tail(s) \in Seq(Item)
        /\ DOMAIN s = 1..Len(s) /\ Head(s) = s[1]
    OBVIOUS
  <2>2. DOMAIN Tail(s) = 1..(Len(s) - 1)
    OBVIOUS
  <2>3. \A k \in 1..(Len(s) - 1) : Tail(s)[k] = s[k + 1]
    OBVIOUS
  <2> QED BY Zenon, <2>1, <2>2, <2>3
<1>2. /\ \A k \in 1..n : k + 1 \in 1..(n + 1)
      /\ \A k, l \in 1..n : k + 1 = l + 1 => k = l
  OBVIOUS
<1>3. \A k \in 1..(n + 1) : k = 1 \/ \E l \in 1..n : k = l + 1
  <2> SUFFICES ASSUME NEW k \in 1..(n + 1), k # 1 PROVE \E l \in 1..n : k = l + 1
    BY Zenon
  <2>1. k - 1 \in 1..n /\ k = (k - 1) + 1
    OBVIOUS
  <2> QED BY Zenon, <2>1
<1>4. Distinct(s) => Distinct(u)
  <2> SUFFICES ASSUME Distinct(s), NEW k \in 1..n, NEW l \in 1..n, u[k] = u[l]
               PROVE  k = l
    BY Zenon, <1>1 DEF Distinct
  <2>1. s[k + 1] = s[l + 1]
    BY Zenon, <1>1
  <2>2. k + 1 = l + 1
    BY Zenon, <1>1, <1>2, <2>1 DEF Distinct
  <2> QED BY Zenon, <1>2, <2>2
<1>5. ASSUME NEW k \in 1..n PROVE u[k] \in Range(s)
  <2>1. u[k] = s[k + 1] /\ k + 1 \in DOMAIN s
    BY Zenon, <1>1, <1>2
  <2> QED BY Zenon, <2>1 DEF Range
<1>6. Range(u) \subseteq Range(s)
  BY Zenon, <1>1, <1>5 DEF Range
<1>7. ASSUME NEW l \in 1..n PROVE s[l + 1] \in Range(u)
  <2>1. u[l] = s[l + 1] /\ l \in DOMAIN u
    BY Zenon, <1>1
  <2> QED BY Zenon, <2>1 DEF Range
<1>8. ASSUME NEW v \in Range(s) PROVE v \in Range(u) \/ v = s[1]
  <2>1. PICK k \in 1..(n + 1) : v = s[k]
    BY Zenon, <1>1 DEF Range
  <2> QED BY Zenon, <1>3, <1>7, <2>1
<1> QED BY Zenon, <1>1, <1>4, <1>6, <1>8

\* One more item at the end of a list that does not have it.
LEMMA Lengthened ==
  ASSUME NEW s \in Seq(Item), NEW v \in Item, Distinct(s), v \notin Range(s)
  PROVE  Distinct(Append(s, v))
<1>1. PICK n \in Nat, u \in Seq(Item) :
        /\ u = Append(s, v) /\ DOMAIN s = 1..n /\ DOMAIN u = 1..(n + 1)
        /\ \A k \in 1..n : u[k] = s[k]
        /\ u[n + 1] = v
  <2>1. /\ Append(s, v) \in Seq(Item)
        /\ Len(s) \in Nat /\ DOMAIN s = 1..Len(s) /\ DOMAIN Append(s, v) = 1..(Len(s) + 1)
        /\ \A k \in 1..Len(s) : Append(s, v)[k] = s[k]
        /\ Append(s, v)[Len(s) + 1] = v
    OBVIOUS
  <2> QED BY Zenon, <2>1
<1>2. \A k \in 1..(n + 1) : k \in 1..n \/ k = n + 1
  OBVIOUS
<1>3. \A k \in 1..n : u[k] \in Range(s)
  BY Zenon, <1>1 DEF Range
<1>4. ASSUME NEW k \in 1..(n + 1), NEW l \in 1..(n + 1), u[k] = u[l]
      PROVE  k = l
  <2>1. CASE k \in 1..n /\ l \in 1..n
    BY Zenon, <1>1, <1>4, <2>1 DEF Distinct
  <2>2. CASE k = n + 1
    BY Zenon, <1>1, <1>2, <1>3, <1>4, <2>2
  <2>3. CASE l = n + 1
    BY Zenon, <1>1, <1>2, <1>3, <1>4, <2>3
  <2> QED BY Zenon, <1>2, <2>1, <2>2, <2>3
<1> QED BY Zenon, <1>1, <1>4 DEF Distinct

LEMMA OnceStarts == WheelInit => OnceInv
<1> SUFFICES ASSUME WheelInit PROVE OnceInv
  BY Zenon
<1>1. <<>> \in Seq(Item) /\ Distinct(<<>>) /\ Range(<<>>) = {}
  BY DEF Distinct, Range
<1>2. expired = <<>> /\ \A i \in Slot : wheel[i] = <<>>
  BY Zenon DEF WheelInit
<1> QED BY Zenon, <1>1, <1>2 DEF OnceInv

LEMMA OnceKeeps ==
  ASSUME WheelInv, OnceInv, [WheelNext]_wheelVars
  PROVE  /\ OnceInv'
         /\ \A v \in Item : Queued(v) /\ ~Queued(v)' => expired # <<>> /\ v = Head(expired)
<1>0. Slot' = Slot /\ wheel \in [Slot -> Seq(Item)]
  BY Zenon DEF Slot, wheelLen, WheelInv, WheelTyped
<1>1. ASSUME NEW v \in Item, NEW t \in Timeout, Add(v, t)
      PROVE  OnceInv' /\ \A w \in Item : Queued(w) => Queued(w)'
  <2>1. PICK k : k = findWheel(t)
    BY Zenon
  <2>2. /\ expired' = expired /\ v \notin Range(expired)
        /\ \A i \in Slot : v \notin Range(wheel[i])
        /\ \A i \in Slot : wheel'[i] = wheel[i] \/ wheel'[i] = Append(wheel[i], v)
    BY Zenon, <1>0, <1>1, <2>1 DEF Add, Queued, InWheel
  <2>3. \A i \in Slot : Range(wheel'[i]) = Range(wheel[i]) \/ Range(wheel'[i]) = Range(wheel[i]) \cup {v}
    BY Zenon, <1>0, <2>2, Appended
  <2>4. \A i \in Slot : Distinct(wheel'[i])
    BY Zenon, <1>0, <2>2, Lengthened DEF OnceInv
  <2>5. \A i \in Slot : Range(expired') \cap Range(wheel'[i]) = {}
    BY Zenon, <2>2, <2>3 DEF OnceInv
  <2>6. OnceInv'
    BY Zenon, <1>0, <2>2, <2>4, <2>5 DEF OnceInv
  <2> QED BY Zenon, <1>0, <2>2, <2>3, <2>6 DEF Queued, InWheel
<1>2. ASSUME Purge
      PROVE  /\ OnceInv'
             /\ \A w \in Item : Queued(w) /\ ~Queued(w)' => expired # <<>> /\ w = Head(expired)
  <2>1. wheel' = wheel /\ expired # <<>> /\ expired' = Tail(expired) /\ expired \in Seq(Item)
    BY Zenon, <1>2 DEF Purge, OnceInv
  <2>2. /\ expired' \in Seq(Item) /\ Distinct(expired')
        /\ Range(expired') \subseteq Range(expired)
        /\ \A v \in Range(expired) : v \in Range(expired') \/ v = Head(expired)
    BY Zenon, <2>1, Shortened DEF OnceInv
  <2>3. OnceInv'
    BY Zenon, <1>0, <2>1, <2>2 DEF OnceInv
  <2> QED BY Zenon, <1>0, <2>1, <2>2, <2>3 DEF Queued, InWheel
<1>3. ASSUME Advance
      PROVE  OnceInv' /\ \A w \in Item : Queued(w) => Queued(w)'
  <2>1. expired' = Expire /\ \A i \in Slot : wheel'[i] = IF i \in Range(Passed) THEN <<>> ELSE wheel[i]
    BY Zenon, <1>3 DEF Advance, Emptied
  <2>2. /\ expired' \in Seq(Item) /\ Distinct(expired')
        /\ \A v : v \in Range(expired') <=> v \in Range(expired) \/ PassedOver(v)
    BY Zenon, <2>1, ExpireFacts
  <2>3. Distinct(<<>>) /\ Range(<<>>) = {}
    BY DEF Distinct, Range
  <2>4. ASSUME NEW i \in Slot
        PROVE  Distinct(wheel'[i]) /\ Range(expired') \cap Range(wheel'[i]) = {}
    <3>1. CASE i \in Range(Passed)
      BY Zenon, <2>1, <2>3, <3>1
    <3>2. CASE i \notin Range(Passed)
      <4>1. wheel'[i] = wheel[i] /\ Distinct(wheel[i]) /\ Range(expired) \cap Range(wheel[i]) = {}
        BY Zenon, <2>1, <3>2 DEF OnceInv
      <4>2. Range(wheel[i]) \subseteq Item
        BY Zenon, <1>0, Within
      <4>3. Range(Passed) \subseteq Slot
        BY Zenon, PassedSlots
      <4>4. ASSUME NEW v \in Range(wheel[i]) PROVE ~PassedOver(v)
        BY Zenon, <3>2, <4>2, <4>3, <4>4 DEF PassedOver, WheelInv, OneSlot
      <4> QED BY Zenon, <2>2, <4>1, <4>4
    <3> QED BY Zenon, <3>1, <3>2
  <2>5. OnceInv'
    BY Zenon, <1>0, <2>2, <2>4 DEF OnceInv
  <2>6. ASSUME NEW w \in Item, Queued(w) PROVE Queued(w)'
    <3>1. CASE w \in Range(expired)
      BY Zenon, <2>2, <3>1 DEF Queued
    <3>2. ASSUME NEW i \in Slot, w \in Range(wheel[i]) PROVE Queued(w)'
      <4>1. CASE i \in Range(Passed)
        BY Zenon, <2>2, <3>2, <4>1 DEF Queued, PassedOver
      <4>2. CASE i \notin Range(Passed)
        BY Zenon, <1>0, <2>1, <3>2, <4>2 DEF Queued, InWheel
      <4> QED BY Zenon, <4>1, <4>2
    <3> QED BY Zenon, <2>6, <3>1, <3>2 DEF Queued, InWheel
  <2> QED BY Zenon, <2>5, <2>6
<1>4. ASSUME wheel' = wheel, expired' = expired
      PROVE  OnceInv' /\ \A w \in Item : Queued(w) => Queued(w)'
  BY Zenon, <1>0, <1>4 DEF OnceInv, Queued, InWheel
<1>5. Pass \/ UNCHANGED wheelVars => wheel' = wheel /\ expired' = expired
  BY Zenon DEF Pass, wheelVars
<1> QED BY Zenon, <1>1, <1>2, <1>3, <1>4, <1>5 DEF WheelNext

LEMMA OnceImplies == WheelInv /\ OnceInv => EachOnce
<1> SUFFICES ASSUME WheelInv, OnceInv, NEW i \in 0..wheelLen, NEW j \in 0..wheelLen,
                    NEW k \in DOMAIN ListAt(i), NEW l \in DOMAIN ListAt(j),
                    ListAt(i)[k] = ListAt(j)[l]
             PROVE  i = j /\ k = l
  BY Zenon DEF EachOnce
<1>1. \A m \in 0..wheelLen : m = wheelLen \/ (m # wheelLen /\ m \in Slot)
  BY WheelLength DEF Slot
<1>2. /\ ListAt(wheelLen) = expired
      /\ \A m \in Slot : m # wheelLen => ListAt(m) = wheel[m]
  BY Zenon DEF ListAt
<1>3. PICK v : v = ListAt(i)[k] /\ v \in Range(ListAt(i)) /\ v \in Range(ListAt(j))
  BY Zenon DEF Range
<1>4. i = j
  <2>1. \A m \in Slot : Range(wheel[m]) \subseteq Item
    BY Zenon, Within DEF WheelInv, WheelTyped
  <2> QED BY Zenon, <1>1, <1>2, <1>3, <2>1 DEF WheelInv, OneSlot, OnceInv
<1>5. Distinct(ListAt(i))
  BY Zenon, <1>1, <1>2 DEF OnceInv
<1> QED BY Zenon, <1>4, <1>5 DEF Distinct

\* The timer wheel of timeout.go, for every tick, every length of the wheel,
\* any timeouts and items, and however far Advance jumps: an item is at one
\* place of one list, and nothing but Purge takes an item away, from the head
\* of the expired list.
THEOREM WheelKeepsItems == WheelSpec => []EachOnce /\ LeavesByPurge
<1>1. WheelInv /\ OnceInv /\ [WheelNext]_wheelVars => WheelInv' /\ OnceInv'
  BY Zenon, WheelKeeps, OnceKeeps
<1>2. WheelInv /\ OnceInv /\ [WheelNext]_wheelVars =>
        [\A v \in Item : Queued(v) /\ ~Queued(v)' => expired # <<>> /\ v = Head(expired)]_wheelVars
  BY Zenon, OnceKeeps
<1> QED BY <1>1, <1>2, WheelStarts, OnceStarts, OnceImplies, PTL DEF WheelSpec, LeavesByPurge
=============================================================================
