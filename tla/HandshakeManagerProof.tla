----------------------- MODULE HandshakeManagerProof ------------------------
(***************************************************************************)
(* Proofs about HandshakeManager for any number of hostinfos, addresses,   *)
(* indexes, readers and senders.                                           *)
(*                                                                         *)
(* None of the properties is inductive.  Those about the pending hostmap   *)
(* rest on the index of an object being its own, on who holds hh.Lock, and *)
(* on what each goroutine may still rely on about the object it found      *)
(* before it took the lock.                                                *)
(***************************************************************************)
EXTENDS HandshakeManager, TLAPS

Distinct(list) == \A j, k \in DOMAIN list : list[j] = list[k] => j = k

Triggers == {q \in Seq(Addr) : Len(q) <= TriggerBuffer}

Outbounds ==
  [pc : {"idle", "lock", "expire", "delete", "attempt"},
   host : Host \cup {Nil}, addr : Addr \cup {Nil}, triggered : BOOLEAN]
Readings ==
  [pc : {"idle", "lock", "process", "flush", "restart"}, host : Host \cup {Nil}]

Sendings ==
  [pc : {"idle", "start"}, addr : Addr \cup {Nil}, packet : Packet \cup {Nil}]

\* The variables have their types, and a goroutine at work has its arguments.
Typed ==
  /\ vpnIps \in [Addr -> Host \cup {Nil}]
  /\ indexes \in [Index -> Host \cup {Nil}]
  /\ hosts \in [Addr -> Seq(Host)] /\ hh \in [Host -> Objects]
  /\ timer \in [Addr -> Nat] /\ trigger \in Triggers
  /\ ecmp \in [Addr -> {"untracked", "up", "down"}] /\ owed \in SUBSET Packet
  /\ out \in Outbounds /\ rd \in [Reader -> Readings]
  /\ rerr \in Host \cup {Nil}
  /\ snd \in [Sender -> Sendings]
  /\ \A s \in Sender : snd[s].pc = "start" =>
       snd[s].addr \in Addr /\ snd[s].packet \in Packet

\* A tunnel of the main hostmap is listed under its address, and is no longer
\* pending.
MainLinked ==
  \A a \in Addr : \A h \in Members(hosts[a]) :
    /\ hh[h].addr = a /\ vpnIps[a] # h
    /\ hh[h].index \in Index /\ indexes[hh[h].index] = Nil

ListsDistinct == \A a \in Addr : Distinct(hosts[a])

\* A pending hostinfo is found by its address and, once it has a message, by
\* its index; it is an initiator's.
PendingLinked ==
  \A a \in Addr : vpnIps[a] # Nil =>
    /\ hh[vpnIps[a]].addr = a /\ hh[vpnIps[a]].stage0 = Nil
    /\ IF hh[vpnIps[a]].ready
       THEN hh[vpnIps[a]].index \in Index /\ indexes[hh[vpnIps[a]].index] = vpnIps[a]
       ELSE hh[vpnIps[a]].index = Nil

IndexLinked ==
  \A i \in Index : indexes[i] # Nil =>
    /\ hh[indexes[i]].index = i /\ hh[indexes[i]].addr \in Addr
    /\ vpnIps[hh[indexes[i]].addr] = indexes[i]

\* No two objects have the same index, even when they are in neither hostmap.
IndexOwn ==
  \A g, h \in Host : hh[g].index # Nil /\ hh[g].index = hh[h].index => g = h

\* Two tunnels of an address were not made by the same first message.
SeenDistinct ==
  \A a \in Addr : \A g, h \in Members(hosts[a]) :
    g # h /\ hh[g].stage0 # Nil => hh[g].stage0 # hh[h].stage0

\* handleOutbound's hostinfo may have left the pending hostmap, but not before
\* it has a message.
OutWorks ==
  out.pc # "idle" =>
    /\ out.host \in Host /\ out.addr \in Addr /\ hh[out.host].addr \in Addr
    /\ ~hh[out.host].ready => vpnIps[out.addr] = out.host
    /\ out.pc # "lock" => hh[out.host].lock = "out"
    /\ out.pc = "attempt" => hh[out.host].counter < Retries

\* Nor may continueHandshake's while it is verified, or come back while it is
\* being replaced.
ReaderOk(r) ==
  rd[r].pc # "idle" =>
    /\ rd[r].host \in Host
    /\ hh[rd[r].host].index \in Index /\ hh[rd[r].host].addr \in Addr
    /\ rd[r].pc # "lock" => hh[rd[r].host].lock = r
    /\ rd[r].pc = "process" => indexes[hh[rd[r].host].index] = rd[r].host
    /\ rd[r].pc = "restart" =>
         /\ vpnIps[hh[rd[r].host].addr] # rd[r].host /\ ~InMain(rd[r].host)
         /\ indexes[hh[rd[r].host].index] # rd[r].host

ReaderWorks == \A r \in Reader : ReaderOk(r)

\* The hostinfo of a recv_error is not pending.
RecvErrorWorks ==
  rerr # Nil =>
    /\ hh[rerr].index \in Index /\ indexes[hh[rerr].index] # rerr
    /\ hh[rerr].addr \in Addr /\ vpnIps[hh[rerr].addr] # rerr

\* A pending handshake has a timer entry, or is the one being tried.
Timed ==
  \A a \in Addr : vpnIps[a] # Nil =>
    \/ timer[a] > 0
    \/ /\ out.pc # "idle" /\ ~out.triggered
       /\ out.addr = a /\ out.host = vpnIps[a]

MapInv == /\ MainLinked /\ ListsDistinct /\ PendingLinked /\ IndexLinked
          /\ IndexOwn /\ SeenDistinct
WorkInv == OutWorks /\ ReaderWorks /\ RecvErrorWorks /\ Timed
HandshakeInv == Typed /\ MapInv /\ WorkInv

-----------------------------------------------------------------------------
(* Lists of hostinfos.                                                     *)

\* Without cuts one entry out of a list without duplicates and keeps the
\* others.
LEMMA WithoutFacts ==
  ASSUME NEW s \in Seq(Host), NEW h, Distinct(s)
  PROVE  /\ Without(s, h) \in Seq(Host)
         /\ Distinct(Without(s, h))
         /\ Members(Without(s, h)) = Members(s) \ {h}
<1> DEFINE r == Without(s, h)
<1>1. CASE h \notin Members(s)
  BY Zenon, <1>1 DEF Without
<1>2. CASE h \in Members(s)
  <2> DEFINE kk == CHOOSE k \in DOMAIN s : s[k] = h
  <2>1. kk \in 1..Len(s) /\ s[kk] = h
    BY <1>2 DEF Members
  <2>2. r = [i \in 1..(Len(s) - 1) |-> IF i < kk THEN s[i] ELSE s[i + 1]]
    BY Zenon, <1>2 DEF Without
  <2> HIDE DEF kk, r
  <2>3. Len(s) \in Nat /\ Len(s) >= 1
    BY <2>1
  <2>4. /\ r \in Seq(Host) /\ DOMAIN r = 1..(Len(s) - 1)
        /\ DOMAIN s = 1..Len(s)
    BY <2>1, <2>2, <2>3
  <2>5. Distinct(r)
    <3>1. SUFFICES ASSUME NEW i \in 1..(Len(s) - 1), NEW j \in 1..(Len(s) - 1),
                          r[i] = r[j]
                   PROVE  i = j
      BY Zenon, <2>4 DEF Distinct
    <3> DEFINE up(x) == IF x < kk THEN x ELSE x + 1
    <3>2. /\ up(i) \in DOMAIN s /\ up(j) \in DOMAIN s
          /\ s[up(i)] = s[up(j)]
      BY <2>1, <2>2, <2>3, <2>4, <3>1
    <3>3. up(i) = up(j)
      BY Zenon, <3>2 DEF Distinct
    <3> QED BY <3>3, <2>1, <2>3
  <2>6. Members(r) \subseteq Members(s) \ {h}
    BY <2>1, <2>2, <2>3, <2>4 DEF Members, Distinct
  <2>7. ASSUME NEW u \in Members(s) \ {h} PROVE u \in Members(r)
    <3>1. PICK i \in 1..Len(s) : s[i] = u
      BY DEF Members
    <3>2. CASE i < kk
      <4>1. i \in 1..(Len(s) - 1) /\ r[i] = u
        BY <2>1, <2>2, <2>3, <3>1, <3>2
      <4> QED BY Zenon, <4>1, <2>4 DEF Members
    <3>3. CASE i > kk
      <4>1. i - 1 \in 1..(Len(s) - 1) /\ r[i - 1] = u
        BY <2>1, <2>2, <2>3, <3>1, <3>3
      <4> QED BY Zenon, <4>1, <2>4 DEF Members
    <3> QED BY <2>1, <3>1, <3>2, <3>3
  <2> QED BY Zenon, <2>4, <2>5, <2>6, <2>7 DEF r
<1> QED BY Zenon, <1>1, <1>2

\* A new entry at the front of a list.
LEMMA FrontFacts ==
  ASSUME NEW s \in Seq(Host), NEW h \in Host, Distinct(s), h \notin Members(s)
  PROVE  /\ <<h>> \o s \in Seq(Host)
         /\ Distinct(<<h>> \o s)
         /\ Members(<<h>> \o s) = Members(s) \cup {h}
<1> DEFINE r == <<h>> \o s
<1>1. /\ r \in Seq(Host) /\ Len(s) \in Nat /\ DOMAIN s = 1..Len(s)
      /\ DOMAIN r = 1..(Len(s) + 1)
      /\ r[1] = h
      /\ \A i \in 1..Len(s) : r[i + 1] = s[i]
  OBVIOUS
<1> HIDE DEF r
<1>2. \A i \in DOMAIN r : i = 1 \/ (i - 1 \in DOMAIN s /\ r[i] = s[i - 1])
  <2>1. TAKE i \in DOMAIN r
  <2>2. CASE i # 1
    <3>1. i - 1 \in 1..Len(s) /\ r[(i - 1) + 1] = s[i - 1]
      BY <1>1, <2>2
    <3> QED BY <3>1, <1>1
  <2> QED BY Zenon, <2>2
<1>3. Distinct(r)
  BY <1>1, <1>2 DEF Distinct, Members
<1>4. Members(r) \subseteq Members(s) \cup {h}
  BY <1>1, <1>2 DEF Members
<1>5. ASSUME NEW u \in Members(s) PROVE u \in Members(r)
  <2>1. PICK i \in 1..Len(s) : s[i] = u
    BY Zenon, <1>1 DEF Members
  <2>2. i + 1 \in DOMAIN r /\ r[i + 1] = u
    BY <1>1, <2>1
  <2> QED BY Zenon, <2>2 DEF Members
<1>6. h \in Members(r)
  BY <1>1 DEF Members
<1> QED BY Zenon, <1>1, <1>3, <1>4, <1>5, <1>6 DEF r

\* The front of a list, up to a limit.
LEMMA CutFacts ==
  ASSUME NEW s \in Seq(Host), NEW n \in Nat, n <= Len(s), Distinct(s)
  PROVE  /\ SubSeq(s, 1, n) \in Seq(Host)
         /\ Distinct(SubSeq(s, 1, n))
         /\ Members(SubSeq(s, 1, n)) \subseteq Members(s)
<1> DEFINE r == SubSeq(s, 1, n)
<1>1. /\ r \in Seq(Host) /\ DOMAIN r = 1..n /\ DOMAIN s = 1..Len(s)
      /\ \A i \in 1..n : r[i] = s[i]
  OBVIOUS
<1>2. Len(s) \in Nat
  OBVIOUS
<1> HIDE DEF r
<1>3. \A i \in 1..n : i \in DOMAIN s
  BY <1>1, <1>2
<1>4. Distinct(r) /\ Members(r) \subseteq Members(s)
  BY Zenon, <1>1, <1>3 DEF Distinct, Members
<1> QED BY Zenon, <1>1, <1>4 DEF r

\* unlockedAddHostInfo lists the new hostinfo once and lists nothing else anew.
LEMMA AddedFacts ==
  ASSUME Typed, ListsDistinct, NEW a \in Addr, NEW h \in Host,
         h \notin Members(hosts[a]), hosts' = Added(h, a)
  PROVE  /\ hosts' \in [Addr -> Seq(Host)] /\ ListsDistinct'
         /\ Members(hosts'[a]) \subseteq Members(hosts[a]) \cup {h}
         /\ \A b \in Addr \ {a} : hosts'[b] = hosts[b]
<1> DEFINE list == <<h>> \o hosts[a]
           n == MaxHostInfosPerVpnIp
<1>1. hosts[a] \in Seq(Host) /\ Distinct(hosts[a]) /\ hosts \in [Addr -> Seq(Host)]
  BY Zenon DEF Typed, ListsDistinct
<1>2. /\ list \in Seq(Host) /\ Distinct(list)
      /\ Members(list) = Members(hosts[a]) \cup {h}
  BY Zenon, <1>1, FrontFacts
<1>3. PICK new : new = IF Len(list) > n THEN SubSeq(list, 1, n) ELSE list
  BY Zenon
<1>4. hosts' = [hosts EXCEPT ![a] = new]
  BY Zenon, <1>3 DEF Added
<1> HIDE DEF list
<1>5. new \in Seq(Host) /\ Distinct(new) /\ Members(new) \subseteq Members(list)
  <2>1. CASE Len(list) > n
    <3>1. n \in Nat /\ n <= Len(list)
      BY <1>2, <2>1, HandshakeAssumption
    <3> QED BY Zenon, <3>1, <1>2, <1>3, <2>1, CutFacts
  <2> QED BY Zenon, <1>2, <1>3, <2>1
<1>6. /\ hosts' \in [Addr -> Seq(Host)] /\ hosts'[a] = new
      /\ \A b \in Addr \ {a} : hosts'[b] = hosts[b]
  BY Zenon, <1>1, <1>4, <1>5
<1>7. ListsDistinct'
  BY Zenon, <1>5, <1>6 DEF ListsDistinct
<1> QED BY Zenon, <1>2, <1>5, <1>6, <1>7

\* DeleteHostInfo takes the hostinfo out of the lists and keeps the others.
LEMMA RemovedFacts ==
  ASSUME Typed, ListsDistinct, NEW h \in Host
  PROVE  /\ Removed(h) \in [Addr -> Seq(Host)]
         /\ \A a \in Addr : /\ Distinct(Removed(h)[a])
                            /\ Members(Removed(h)[a]) = Members(hosts[a]) \ {h}
<1>1. \A a \in Addr : hosts[a] \in Seq(Host) /\ Distinct(hosts[a])
  BY Zenon DEF Typed, ListsDistinct
<1>2. \A a \in Addr : Removed(h)[a] = Without(hosts[a], h)
  BY Zenon DEF Removed
<1>3. \A a \in Addr : /\ Without(hosts[a], h) \in Seq(Host)
                      /\ Distinct(Without(hosts[a], h))
                      /\ Members(Without(hosts[a], h)) = Members(hosts[a]) \ {h}
  BY Zenon, <1>1, WithoutFacts
<1>4. Removed(h) \in [Addr -> Seq(Host)]
  BY Zenon, <1>3 DEF Removed
<1> QED BY Zenon, <1>2, <1>3, <1>4

-----------------------------------------------------------------------------
(* The two hostmaps: what a step does to them, and that they stay linked.  *)

Mapped(h) == InMain(h) \/ \E a \in Addr : vpnIps[a] = h

\* The fields that the hostmaps depend on.
SameId(h) ==
  /\ hh'[h].addr = hh[h].addr /\ hh'[h].index = hh[h].index
  /\ hh'[h].ready = hh[h].ready /\ hh'[h].stage0 = hh[h].stage0

\* A step may change them in an object that is in neither hostmap.
Kept(h) == (Mapped(h) => SameId(h)) /\ hh'[h].index \in {hh[h].index, Nil}

\* The listed hostinfos are objects.
LEMMA ListedHosts ==
  ASSUME Typed
  PROVE  \A a \in Addr : Members(hosts[a]) \subseteq Host
<1>1. \A a \in Addr : hosts[a] \in Seq(Host)
  BY Zenon DEF Typed
<1>2. \A s \in Seq(Host) : Members(s) \subseteq Host
  BY DEF Members
<1> QED BY Zenon, <1>1, <1>2

\* Nil is none of the things it stands in for.
LEMMA NilFacts == /\ Nil \notin Host /\ Nil \notin Addr /\ Nil \notin Index
                  /\ Nil \notin Reader /\ Nil \notin Stage0 /\ "out" \notin Reader
BY Zenon, HandshakeAssumption

\* An object in a hostmap has an address, one reached by its index is pending.
LEMMA MappedFacts ==
  ASSUME Typed, MapInv
  PROVE  /\ \A h \in Host : Mapped(h) => hh[h].addr \in Addr
         /\ \A h \in Host : hh[h].index # Nil => hh[h].index \in Index
         /\ \A i \in Index : indexes[i] # Nil => Mapped(indexes[i])
         /\ \A i \in Index : indexes[i] # Nil => indexes[i] \in Host
         /\ \A a \in Addr : vpnIps[a] # Nil => Mapped(vpnIps[a]) /\ vpnIps[a] \in Host
         /\ \A a \in Addr : \A h \in Members(hosts[a]) : Mapped(h) /\ h \in Host
<1>1. \A h \in Host : Mapped(h) => hh[h].addr \in Addr
  BY NilFacts DEF Mapped, InMain, MapInv, MainLinked, PendingLinked
<1>2. \A h \in Host : hh[h].index \in Index \cup {Nil}
  BY Zenon DEF Typed, Objects
<1>3. \A i \in Index : indexes[i] # Nil => Mapped(indexes[i])
  BY Zenon DEF Mapped, MapInv, IndexLinked
<1>4. \A i \in Index : indexes[i] # Nil => indexes[i] \in Host
  BY Zenon DEF Typed
<1>5. \A a \in Addr : vpnIps[a] # Nil => Mapped(vpnIps[a]) /\ vpnIps[a] \in Host
  BY Zenon DEF Typed, Mapped
<1>6. \A a \in Addr : \A h \in Members(hosts[a]) : Mapped(h) /\ h \in Host
  BY Zenon, ListedHosts DEF Mapped, InMain
<1> QED BY Zenon, <1>1, <1>2, <1>3, <1>4, <1>5, <1>6

\* A step that leaves the hostmaps alone.
LEMMA MapStays ==
  ASSUME Typed, MapInv, UNCHANGED <<vpnIps, indexes, hosts>>,
         \A g \in Host : Kept(g)
  PROVE  MapInv'
<1>1. /\ vpnIps' = vpnIps /\ indexes' = indexes /\ hosts' = hosts
  OBVIOUS
<1>2. \A a \in Addr : \A h \in Members(hosts[a]) : SameId(h)
  BY Zenon, MappedFacts DEF Kept
<1>3. \A a \in Addr : vpnIps[a] # Nil => SameId(vpnIps[a])
  BY Zenon, MappedFacts DEF Kept
<1>4. \A i \in Index : indexes[i] # Nil => SameId(indexes[i])
  BY Zenon, MappedFacts DEF Kept
<1>5. MainLinked' /\ ListsDistinct' /\ SeenDistinct'
  BY <1>1, <1>2 DEF MapInv, MainLinked, ListsDistinct, SeenDistinct, SameId
<1>6. PendingLinked'
  BY <1>1, <1>3 DEF MapInv, PendingLinked, SameId
<1>7. IndexLinked'
  BY <1>1, <1>4 DEF MapInv, IndexLinked, SameId
<1>8. IndexOwn'
  BY Zenon DEF MapInv, IndexOwn, Kept
<1> QED BY Zenon, <1>5, <1>6, <1>7, <1>8 DEF MapInv

\* What unlockedDeleteHostInfo releases is the object's own.
Released(h) ==
  /\ vpnIps' \in [Addr -> Host \cup {Nil}] /\ indexes' \in [Index -> Host \cup {Nil}]
  /\ \A a \in Addr : /\ vpnIps[a] = h => vpnIps'[a] = Nil
                     /\ vpnIps[a] # h => vpnIps'[a] = vpnIps[a]
  /\ \A i \in Index : /\ indexes[i] = h => indexes'[i] = Nil
                      /\ indexes[i] # h => indexes'[i] = indexes[i]

\* unlockedDeleteHostInfo releases an index without looking whose it is; it
\* never takes away another hostinfo's.
LEMMA ReleasedFacts ==
  ASSUME Typed, MapInv, NEW h \in Host, unlockedDeleteHostInfo(h)
  PROVE  Released(h)
<1>1. /\ vpnIps' = [a \in Addr |-> IF a = hh[h].addr /\ vpnIps[a] = h
                                   THEN Nil ELSE vpnIps[a]]
      /\ indexes' = [i \in Index |-> IF i = hh[h].index THEN Nil ELSE indexes[i]]
  BY Zenon DEF unlockedDeleteHostInfo
<1>2. \A a \in Addr : vpnIps[a] = h => a = hh[h].addr
  BY Zenon, NilFacts DEF MapInv, PendingLinked
<1>3. \A i \in Index : indexes[i] = h => i = hh[h].index
  BY Zenon, NilFacts DEF MapInv, IndexLinked
<1>4. \A i \in Index : i = hh[h].index /\ indexes[i] # h => indexes[i] = Nil
  BY NilFacts, MappedFacts DEF MapInv, IndexLinked, IndexOwn
<1>5. /\ vpnIps \in [Addr -> Host \cup {Nil}] /\ indexes \in [Index -> Host \cup {Nil}]
  BY Zenon DEF Typed
<1>6. /\ vpnIps' \in [Addr -> Host \cup {Nil}] /\ indexes' \in [Index -> Host \cup {Nil}]
  BY Zenon, <1>1, <1>5
<1>7. \A a \in Addr : /\ vpnIps[a] = h => vpnIps'[a] = Nil
                      /\ vpnIps[a] # h => vpnIps'[a] = vpnIps[a]
  BY Zenon, <1>1, <1>2
<1>8. \A i \in Index : /\ indexes[i] = h => indexes'[i] = Nil
                       /\ indexes[i] # h => indexes'[i] = indexes[i]
  BY Zenon, <1>1, <1>3, <1>4
<1> QED BY Zenon, <1>6, <1>7, <1>8 DEF Released

\* A step that deletes a hostinfo from the pending hostmap.
LEMMA MapDeletes ==
  ASSUME Typed, MapInv, NEW h \in Host, Released(h), hosts' = hosts,
         \A g \in Host : Kept(g)
  PROVE  MapInv'
<1>1. \A a \in Addr : \A g \in Members(hosts[a]) : SameId(g)
  BY Zenon, MappedFacts DEF Kept
<1>2. \A a \in Addr : vpnIps[a] # Nil => SameId(vpnIps[a])
  BY Zenon, MappedFacts DEF Kept
<1>3. \A i \in Index : indexes[i] # Nil => SameId(indexes[i])
  BY Zenon, MappedFacts DEF Kept
<1>4. ListsDistinct' /\ SeenDistinct'
  BY <1>1 DEF MapInv, ListsDistinct, SeenDistinct, SameId
<1>5. MainLinked'
  <2> SUFFICES ASSUME NEW a \in Addr, NEW g \in Members(hosts[a])
               PROVE  /\ hh'[g].addr = a /\ vpnIps'[a] # g
                      /\ hh'[g].index \in Index /\ indexes'[hh'[g].index] = Nil
    BY Zenon DEF MainLinked
  <2>1. /\ hh[g].addr = a /\ vpnIps[a] # g
        /\ hh[g].index \in Index /\ indexes[hh[g].index] = Nil /\ g # Nil
    BY ZenonT(60), NilFacts, ListedHosts DEF MapInv, MainLinked
  <2> QED BY ZenonT(60), <1>1, <2>1 DEF Released, SameId
<1>6. PendingLinked'
  <2> SUFFICES ASSUME NEW a \in Addr, vpnIps'[a] # Nil
               PROVE  /\ hh'[vpnIps'[a]].addr = a /\ hh'[vpnIps'[a]].stage0 = Nil
                      /\ IF hh'[vpnIps'[a]].ready
                         THEN /\ hh'[vpnIps'[a]].index \in Index
                              /\ indexes'[hh'[vpnIps'[a]].index] = vpnIps'[a]
                         ELSE hh'[vpnIps'[a]].index = Nil
    BY Zenon DEF PendingLinked
  <2>1. vpnIps'[a] = vpnIps[a] /\ vpnIps[a] # Nil /\ vpnIps[a] # h
    BY Zenon DEF Released
  <2> QED BY <1>2, <2>1 DEF Released, SameId, MapInv, PendingLinked
<1>7. IndexLinked'
  <2> SUFFICES ASSUME NEW i \in Index, indexes'[i] # Nil
               PROVE  /\ hh'[indexes'[i]].index = i /\ hh'[indexes'[i]].addr \in Addr
                      /\ vpnIps'[hh'[indexes'[i]].addr] = indexes'[i]
    BY Zenon DEF IndexLinked
  <2>1. indexes'[i] = indexes[i] /\ indexes[i] # Nil /\ indexes[i] # h
    BY Zenon DEF Released
  <2> QED BY <1>3, <2>1 DEF Released, SameId, MapInv, IndexLinked
<1>8. IndexOwn'
  BY Zenon DEF MapInv, IndexOwn, Kept
<1> QED BY Zenon, <1>4, <1>5, <1>6, <1>7, <1>8 DEF MapInv

\* A step that moves a hostinfo from the pending to the main hostmap.
LEMMA MapCompletes ==
  ASSUME Typed, MapInv, NEW h \in Host, Released(h),
         hh[h].index \in Index, indexes[hh[h].index] = h,
         hosts' = Added(h, hh[h].addr), \A g \in Host : Kept(g)
  PROVE  MapInv' /\ hosts' \in [Addr -> Seq(Host)]
<1> DEFINE a == hh[h].addr
<1>1. a \in Addr /\ vpnIps[a] = h /\ hh[h].stage0 = Nil /\ Mapped(h)
  BY NilFacts, MappedFacts DEF MapInv, IndexLinked, PendingLinked
<1>2. \A b \in Addr : h \notin Members(hosts[b])
  BY Zenon, <1>1, NilFacts DEF MapInv, MainLinked
<1>3. /\ hosts' \in [Addr -> Seq(Host)] /\ ListsDistinct'
      /\ Members(hosts'[a]) \subseteq Members(hosts[a]) \cup {h}
      /\ \A b \in Addr \ {a} : hosts'[b] = hosts[b]
  BY Zenon, <1>1, <1>2, AddedFacts DEF MapInv
<1> HIDE DEF a
<1>4. \A b \in Addr : \A g \in Members(hosts'[b]) :
        (g = h /\ b = a) \/ g \in Members(hosts[b])
  BY Zenon, <1>3
<1>5. /\ \A g \in Host : Mapped(g) => SameId(g)
      /\ SameId(h)
  BY Zenon, <1>1 DEF Kept
<1>6. MainLinked'
  <2> SUFFICES ASSUME NEW b \in Addr, NEW g \in Members(hosts'[b])
               PROVE  /\ hh'[g].addr = b /\ vpnIps'[b] # g
                      /\ hh'[g].index \in Index /\ indexes'[hh'[g].index] = Nil
    BY Zenon DEF MainLinked
  <2>1. CASE g = h /\ b = a
    BY Zenon, <1>1, <1>5, <2>1, NilFacts DEF Released, SameId, a
  <2>2. CASE g \in Members(hosts[b])
    <3>1. /\ hh[g].addr = b /\ vpnIps[b] # g /\ SameId(g) /\ g # Nil
          /\ hh[g].index \in Index /\ indexes[hh[g].index] = Nil
      BY ZenonT(60), <1>5, <2>2, NilFacts, MappedFacts DEF MapInv, MainLinked
    <3> QED BY Zenon, <3>1, NilFacts DEF Released, SameId
  <2> QED BY Zenon, <1>4, <2>1, <2>2
<1>7. PendingLinked'
  <2> SUFFICES ASSUME NEW b \in Addr, vpnIps'[b] # Nil
               PROVE  /\ hh'[vpnIps'[b]].addr = b /\ hh'[vpnIps'[b]].stage0 = Nil
                      /\ IF hh'[vpnIps'[b]].ready
                         THEN /\ hh'[vpnIps'[b]].index \in Index
                              /\ indexes'[hh'[vpnIps'[b]].index] = vpnIps'[b]
                         ELSE hh'[vpnIps'[b]].index = Nil
    BY Zenon DEF PendingLinked
  <2>1. vpnIps'[b] = vpnIps[b] /\ vpnIps[b] # Nil /\ vpnIps[b] # h
    BY Zenon DEF Released
  <2>2. SameId(vpnIps[b])
    BY Zenon, <1>5, <2>1, MappedFacts
  <2> QED BY <2>2, <2>1 DEF Released, SameId, MapInv, PendingLinked
<1>8. IndexLinked'
  <2> SUFFICES ASSUME NEW i \in Index, indexes'[i] # Nil
               PROVE  /\ hh'[indexes'[i]].index = i /\ hh'[indexes'[i]].addr \in Addr
                      /\ vpnIps'[hh'[indexes'[i]].addr] = indexes'[i]
    BY Zenon DEF IndexLinked
  <2>1. indexes'[i] = indexes[i] /\ indexes[i] # Nil /\ indexes[i] # h
    BY Zenon DEF Released
  <2>2. SameId(indexes[i])
    BY Zenon, <1>5, <2>1, MappedFacts
  <2> QED BY <2>1, <2>2 DEF Released, SameId, MapInv, IndexLinked
<1>9. IndexOwn'
  BY Zenon DEF MapInv, IndexOwn, Kept
<1>10. SeenDistinct'
  <2> SUFFICES ASSUME NEW b \in Addr, NEW f \in Members(hosts'[b]),
                      NEW g \in Members(hosts'[b]), f # g, hh'[f].stage0 # Nil
               PROVE  hh'[f].stage0 # hh'[g].stage0
    BY ZenonT(60) DEF SeenDistinct
  <2>1. \A x \in Members(hosts[b]) : SameId(x)
    BY Zenon, <1>5, MappedFacts
  <2>2. hh'[h].stage0 = Nil
    BY Zenon, <1>1, <1>5 DEF SameId
  <2>3. f \in Members(hosts[b]) /\ (g = h \/ g \in Members(hosts[b]))
    BY Zenon, <1>4, <2>2
  <2> QED BY <2>1, <2>2, <2>3 DEF MapInv, SeenDistinct, SameId
<1> QED BY Zenon, <1>3, <1>6, <1>7, <1>8, <1>9, <1>10 DEF MapInv

\* A value that allocateIndex takes is no object's index.
LEMMA FreshIndex ==
  ASSUME Typed, MapInv, NEW i \in Index, indexes[i] = Nil, ~MainIndex(i), Drawn(i)
  PROVE  \A g \in Host : hh[g].index # i
BY Zenon, NilFacts DEF Drawn, MainIndex, InMain

\* An index that is no object's can become one's own.
LEMMA FreshOwn ==
  ASSUME MapInv, NEW h \in Host, \A g \in Host \ {h} : Kept(g),
         \A g \in Host : hh[g].index # hh'[h].index
  PROVE  IndexOwn'
<1> SUFFICES ASSUME NEW f \in Host, NEW g \in Host, hh'[f].index # Nil,
                    hh'[f].index = hh'[g].index
             PROVE  f = g
  BY Zenon DEF IndexOwn
<1>1. CASE f # h /\ g # h
  <2>1. hh'[f].index = hh[f].index /\ hh'[g].index = hh[g].index
    BY Zenon, <1>1 DEF Kept
  <2> QED BY Zenon, <2>1 DEF MapInv, IndexOwn
<1>2. CASE f = h /\ g # h
  <2>1. hh'[g].index = hh[g].index
    BY Zenon, <1>2 DEF Kept
  <2> QED BY Zenon, <1>2, <2>1
<1>3. CASE f # h /\ g = h
  <2>1. hh'[f].index = hh[f].index
    BY Zenon, <1>3 DEF Kept
  <2> QED BY Zenon, <1>3, <2>1
<1> QED BY Zenon, <1>1, <1>2, <1>3

\* A step that gives a pending hostinfo its index.
LEMMA MapBuilds ==
  ASSUME Typed, MapInv, NEW h \in Host, NEW i \in Index,
         hh[h].addr \in Addr, vpnIps[hh[h].addr] = h, ~hh[h].ready,
         indexes[i] = Nil, ~MainIndex(i), Drawn(i),
         UNCHANGED <<vpnIps, hosts>>, indexes' = [indexes EXCEPT ![i] = h],
         hh'[h].addr = hh[h].addr, hh'[h].stage0 = hh[h].stage0,
         hh'[h].index = i, hh'[h].ready = TRUE,
         \A g \in Host \ {h} : Kept(g)
  PROVE  MapInv'
<1>1. /\ indexes'[i] = h
      /\ \A j \in Index \ {i} : indexes'[j] = indexes[j]
      /\ vpnIps' = vpnIps /\ hosts' = hosts
  BY Zenon DEF Typed
<1>2. \A g \in Host : hh[g].index # i
  BY Zenon, FreshIndex
<1>3. /\ hh[h].index = Nil /\ hh[h].stage0 = Nil
      /\ \A a \in Addr : h \notin Members(hosts[a])
      /\ \A a \in Addr : vpnIps[a] = h => a = hh[h].addr
      /\ \A j \in Index : indexes[j] # h
  BY NilFacts DEF MapInv, PendingLinked, MainLinked, IndexLinked
<1>4. \A g \in Host \ {h} : Mapped(g) => SameId(g)
  BY Zenon DEF Kept
<1>5. \A a \in Addr : \A g \in Members(hosts[a]) : SameId(g) /\ g \in Host /\ g # h
  BY Zenon, <1>3, <1>4, MappedFacts
<1>6. ListsDistinct' /\ SeenDistinct'
  BY <1>1, <1>5 DEF MapInv, ListsDistinct, SeenDistinct, SameId
<1>7. MainLinked'
  <2> SUFFICES ASSUME NEW a \in Addr, NEW g \in Members(hosts[a])
               PROVE  /\ hh'[g].addr = a /\ vpnIps[a] # g
                      /\ hh'[g].index \in Index /\ indexes'[hh'[g].index] = Nil
    BY <1>1 DEF MainLinked
  <2>1. /\ hh[g].addr = a /\ vpnIps[a] # g /\ SameId(g) /\ hh[g].index # i
        /\ hh[g].index \in Index /\ indexes[hh[g].index] = Nil
    BY <1>2, <1>5 DEF MapInv, MainLinked
  <2> QED BY <1>1, <2>1 DEF SameId
<1>8. PendingLinked'
  <2> SUFFICES ASSUME NEW a \in Addr, vpnIps[a] # Nil
               PROVE  /\ hh'[vpnIps[a]].addr = a /\ hh'[vpnIps[a]].stage0 = Nil
                      /\ IF hh'[vpnIps[a]].ready
                         THEN /\ hh'[vpnIps[a]].index \in Index
                              /\ indexes'[hh'[vpnIps[a]].index] = vpnIps[a]
                         ELSE hh'[vpnIps[a]].index = Nil
    BY <1>1 DEF PendingLinked
  <2>1. CASE vpnIps[a] = h
    BY Zenon, <1>1, <1>3, <2>1
  <2>2. CASE vpnIps[a] # h
    <3>1. SameId(vpnIps[a]) /\ vpnIps[a] \in Host
      BY Zenon, <1>4, <2>2, MappedFacts
    <3>2. hh[vpnIps[a]].index # i
      BY Zenon, <1>2, <3>1
    <3> QED BY <1>1, <3>1, <3>2 DEF SameId, MapInv, PendingLinked
  <2> QED BY Zenon, <2>1, <2>2
<1>9. IndexLinked'
  <2> SUFFICES ASSUME NEW j \in Index, indexes'[j] # Nil
               PROVE  /\ hh'[indexes'[j]].index = j /\ hh'[indexes'[j]].addr \in Addr
                      /\ vpnIps[hh'[indexes'[j]].addr] = indexes'[j]
    BY ZenonT(60), <1>1 DEF IndexLinked
  <2>1. CASE j = i
    BY <1>1, <2>1
  <2>2. CASE j # i
    <3>1. indexes'[j] = indexes[j] /\ indexes[j] # h
      BY Zenon, <1>1, <1>3, <2>2
    <3>2. SameId(indexes[j])
      BY Zenon, <1>4, <3>1, MappedFacts
    <3> QED BY <3>1, <3>2 DEF SameId, MapInv, IndexLinked
  <2> QED BY Zenon, <2>1, <2>2
<1>10. IndexOwn'
  BY Zenon, <1>2, FreshOwn
<1> QED BY Zenon, <1>6, <1>7, <1>8, <1>9, <1>10 DEF MapInv

\* A step that makes an unused object pending for an address.
LEMMA MapStarts ==
  ASSUME Typed, MapInv, NEW h \in Unused, NEW a \in Addr, vpnIps[a] = Nil,
         UNCHANGED <<indexes, hosts>>, vpnIps' = [vpnIps EXCEPT ![a] = h],
         hh'[h].addr = a, hh'[h].index = Nil, hh'[h].ready = FALSE,
         hh'[h].stage0 = Nil, \A g \in Host \ {h} : Kept(g)
  PROVE  MapInv'
<1>1. /\ vpnIps'[a] = h
      /\ \A b \in Addr \ {a} : vpnIps'[b] = vpnIps[b]
      /\ indexes' = indexes /\ hosts' = hosts
  BY Zenon DEF Typed
<1>2. h \in Host /\ hh[h].addr = Nil /\ hh[h].index = Nil
  BY DEF Unused, Blank
<1>3. /\ ~Mapped(h) /\ \A b \in Addr : h \notin Members(hosts[b])
      /\ \A b \in Addr : vpnIps[b] # h
      /\ \A j \in Index : indexes[j] # h
  BY <1>2, NilFacts, MappedFacts DEF Mapped, InMain
<1>4. \A g \in Host \ {h} : Mapped(g) => SameId(g)
  BY Zenon DEF Kept
<1>5. \A b \in Addr : \A g \in Members(hosts[b]) : SameId(g) /\ g # h
  BY Zenon, <1>3, <1>4, MappedFacts
<1>6. ListsDistinct' /\ SeenDistinct'
  BY <1>1, <1>5 DEF MapInv, ListsDistinct, SeenDistinct, SameId
<1>7. MainLinked'
  <2> SUFFICES ASSUME NEW b \in Addr, NEW g \in Members(hosts[b])
               PROVE  /\ hh'[g].addr = b /\ vpnIps'[b] # g
                      /\ hh'[g].index \in Index /\ indexes[hh'[g].index] = Nil
    BY <1>1 DEF MainLinked
  <2>1. /\ hh[g].addr = b /\ vpnIps[b] # g /\ SameId(g) /\ g # h
        /\ hh[g].index \in Index /\ indexes[hh[g].index] = Nil
    BY Zenon, <1>5 DEF MapInv, MainLinked
  <2> QED BY Zenon, <1>1, <2>1 DEF SameId
<1>8. PendingLinked'
  <2> SUFFICES ASSUME NEW b \in Addr, vpnIps'[b] # Nil
               PROVE  /\ hh'[vpnIps'[b]].addr = b /\ hh'[vpnIps'[b]].stage0 = Nil
                      /\ IF hh'[vpnIps'[b]].ready
                         THEN /\ hh'[vpnIps'[b]].index \in Index
                              /\ indexes[hh'[vpnIps'[b]].index] = vpnIps'[b]
                         ELSE hh'[vpnIps'[b]].index = Nil
    BY ZenonT(60), <1>1 DEF PendingLinked
  <2>1. CASE b = a
    BY Zenon, <1>1, <2>1
  <2>2. CASE b # a
    <3>1. vpnIps'[b] = vpnIps[b] /\ SameId(vpnIps[b])
      BY Zenon, <1>1, <1>3, <1>4, <2>2, MappedFacts
    <3> QED BY <3>1 DEF SameId, MapInv, PendingLinked
  <2> QED BY Zenon, <2>1, <2>2
<1>9. IndexLinked'
  <2> SUFFICES ASSUME NEW j \in Index, indexes[j] # Nil
               PROVE  /\ hh'[indexes[j]].index = j /\ hh'[indexes[j]].addr \in Addr
                      /\ vpnIps'[hh'[indexes[j]].addr] = indexes[j]
    BY Zenon, <1>1 DEF IndexLinked
  <2>1. SameId(indexes[j])
    BY Zenon, <1>3, <1>4, MappedFacts
  <2>2. /\ hh[indexes[j]].index = j /\ hh[indexes[j]].addr \in Addr
        /\ vpnIps[hh[indexes[j]].addr] = indexes[j]
    BY Zenon DEF MapInv, IndexLinked
  <2>3. hh[indexes[j]].addr # a
    BY Zenon, <2>2
  <2> QED BY Zenon, <1>1, <2>1, <2>2, <2>3 DEF SameId
<1>10. IndexOwn'
  BY Zenon, NilFacts DEF MapInv, IndexOwn, Kept
<1> QED BY Zenon, <1>6, <1>7, <1>8, <1>9, <1>10 DEF MapInv

\* A step that puts an unused object into the main hostmap, for the first
\* message m.
LEMMA MapBegins ==
  ASSUME Typed, MapInv, NEW h \in Unused, NEW m \in Stage0, NEW i \in Index,
         ~alreadySeen(m), indexes[i] = Nil, ~MainIndex(i), Drawn(i),
         UNCHANGED <<vpnIps, indexes>>, hosts' = Added(h, PeerOf[m]),
         hh'[h].addr = PeerOf[m], hh'[h].index = i, hh'[h].stage0 = m,
         \A g \in Host \ {h} : Kept(g)
  PROVE  MapInv' /\ hosts' \in [Addr -> Seq(Host)]
<1> DEFINE a == PeerOf[m]
<1>1. a \in Addr /\ vpnIps' = vpnIps /\ indexes' = indexes
  BY Zenon, HandshakeAssumption
<1>2. h \in Host /\ hh[h].addr = Nil /\ hh[h].index = Nil
  <2>1. Blank.addr = Nil /\ Blank.index = Nil
    BY Zenon DEF Blank
  <2> QED BY Zenon, <2>1 DEF Unused
<1>3. /\ ~Mapped(h) /\ \A b \in Addr : h \notin Members(hosts[b])
      /\ \A b \in Addr : vpnIps[b] # h
      /\ \A j \in Index : indexes[j] # h
  BY <1>2, NilFacts, MappedFacts DEF Mapped, InMain
<1>4. /\ hosts' \in [Addr -> Seq(Host)] /\ ListsDistinct'
      /\ Members(hosts'[a]) \subseteq Members(hosts[a]) \cup {h}
      /\ \A b \in Addr \ {a} : hosts'[b] = hosts[b]
  BY Zenon, <1>1, <1>2, <1>3, AddedFacts DEF MapInv
<1>5. \A g \in Host : hh[g].index # i
  BY Zenon, FreshIndex
<1>6. \A g \in Members(hosts[a]) : hh[g].stage0 # m
  BY Zenon DEF alreadySeen
<1> HIDE DEF a
<1>7. \A b \in Addr : \A g \in Members(hosts'[b]) :
        (g = h /\ b = a) \/ g \in Members(hosts[b])
  BY Zenon, <1>4
<1>8. \A g \in Host \ {h} : Mapped(g) => SameId(g)
  BY Zenon DEF Kept
<1>9. MainLinked'
  <2> SUFFICES ASSUME NEW b \in Addr, NEW g \in Members(hosts'[b])
               PROVE  /\ hh'[g].addr = b /\ vpnIps[b] # g
                      /\ hh'[g].index \in Index /\ indexes[hh'[g].index] = Nil
    BY <1>1 DEF MainLinked
  <2>1. CASE g = h /\ b = a
    BY Zenon, <1>3, <2>1 DEF a
  <2>2. CASE g \in Members(hosts[b])
    <3>1. /\ hh[g].addr = b /\ vpnIps[b] # g /\ SameId(g)
          /\ hh[g].index \in Index /\ indexes[hh[g].index] = Nil
      BY <1>3, <1>8, <2>2, MappedFacts DEF MapInv, MainLinked
    <3> QED BY Zenon, <3>1 DEF SameId
  <2> QED BY Zenon, <1>7, <2>1, <2>2
<1>10. PendingLinked'
  <2> SUFFICES ASSUME NEW b \in Addr, vpnIps[b] # Nil
               PROVE  /\ hh'[vpnIps[b]].addr = b /\ hh'[vpnIps[b]].stage0 = Nil
                      /\ IF hh'[vpnIps[b]].ready
                         THEN /\ hh'[vpnIps[b]].index \in Index
                              /\ indexes[hh'[vpnIps[b]].index] = vpnIps[b]
                         ELSE hh'[vpnIps[b]].index = Nil
    BY ZenonT(60), <1>1 DEF PendingLinked
  <2>1. SameId(vpnIps[b])
    BY Zenon, <1>3, <1>8, MappedFacts
  <2> QED BY <2>1 DEF SameId, MapInv, PendingLinked
<1>11. IndexLinked'
  <2> SUFFICES ASSUME NEW j \in Index, indexes[j] # Nil
               PROVE  /\ hh'[indexes[j]].index = j /\ hh'[indexes[j]].addr \in Addr
                      /\ vpnIps[hh'[indexes[j]].addr] = indexes[j]
    BY Zenon, <1>1 DEF IndexLinked
  <2>1. SameId(indexes[j])
    BY Zenon, <1>3, <1>8, MappedFacts
  <2> QED BY Zenon, <2>1 DEF SameId, MapInv, IndexLinked
<1>12. IndexOwn'
  BY Zenon, <1>2, <1>5, FreshOwn
<1>13. SeenDistinct'
  <2> SUFFICES ASSUME NEW b \in Addr, NEW f \in Members(hosts'[b]),
                      NEW g \in Members(hosts'[b]), f # g, hh'[f].stage0 # Nil
               PROVE  hh'[f].stage0 # hh'[g].stage0
    BY DEF SeenDistinct
  <2>1. \A x \in Members(hosts[b]) : SameId(x)
    BY Zenon, <1>3, <1>8, MappedFacts
  <2>2. CASE f \in Members(hosts[b]) /\ g \in Members(hosts[b])
    BY <2>1, <2>2 DEF MapInv, SeenDistinct, SameId
  <2>3. CASE f = h /\ b = a /\ g \in Members(hosts[b])
    BY Zenon, <1>6, <2>1, <2>3 DEF SameId
  <2>4. CASE g = h /\ b = a /\ f \in Members(hosts[b])
    BY Zenon, <1>6, <2>1, <2>4 DEF SameId
  <2> QED BY Zenon, <1>7, <2>2, <2>3, <2>4
<1> QED BY Zenon, <1>4, <1>9, <1>10, <1>11, <1>12, <1>13 DEF MapInv

\* A step that takes a hostinfo out of the main hostmap, or reorders a list.
LEMMA MapShrinks ==
  ASSUME Typed, MapInv, UNCHANGED <<vpnIps, indexes, hh>>, ListsDistinct',
         \A a \in Addr : Members(hosts'[a]) \subseteq Members(hosts[a])
  PROVE  MapInv'
<1>1. vpnIps' = vpnIps /\ indexes' = indexes /\ hh' = hh
  OBVIOUS
<1>2. MainLinked' /\ SeenDistinct'
  BY <1>1 DEF MapInv, MainLinked, SeenDistinct
<1>3. PendingLinked' /\ IndexLinked' /\ IndexOwn'
  BY <1>1 DEF MapInv, PendingLinked, IndexLinked, IndexOwn
<1> QED BY Zenon, <1>2, <1>3 DEF MapInv

-----------------------------------------------------------------------------
(* The goroutine of handleOutbound.                                        *)

\* The trigger channel holds no more than its capacity.
LEMMA TriggerFits ==
  ASSUME Typed, NEW a \in Addr
  PROVE  Triggered(a) \in Triggers
<1>1. trigger \in Seq(Addr) /\ Len(trigger) <= TriggerBuffer /\ TriggerBuffer \in Nat
  BY Zenon, HandshakeAssumption DEF Typed, Triggers
<1>2. CASE Len(trigger) < TriggerBuffer
  <2>1. /\ Append(trigger, a) \in Seq(Addr)
        /\ Len(Append(trigger, a)) = Len(trigger) + 1 /\ Len(trigger) \in Nat
    BY <1>1
  <2> QED BY <1>1, <1>2, <2>1 DEF Triggered, Triggers
<1> QED BY Zenon, <1>1, <1>2 DEF Triggered, Triggers

\* A step that changes no more of the objects than the lock and the packets
\* of h.
Touched(h) ==
  /\ hh' \in [Host -> Objects]
  /\ \A g \in Host : SameId(g) /\ hh'[g].counter = hh[g].counter
  /\ \A g \in Host \ {h} : hh'[g] = hh[g]

\* hh.Lock and hh.Unlock, the latter with or without emptying the packets.
LEMMA LockTouches ==
  ASSUME Typed, NEW h \in Host, NEW x \in Reader \cup {Nil, "out"}
  PROVE  /\ hh' = [hh EXCEPT ![h].lock = x] => Touched(h) /\ hh'[h].lock = x
         /\ hh' = [hh EXCEPT ![h].packetStore = {}, ![h].lock = x]
              => Touched(h) /\ hh'[h].lock = x
<1>1. hh \in [Host -> Objects]
  BY Zenon DEF Typed
<1>2. ASSUME hh' = [hh EXCEPT ![h].lock = x]
      PROVE  Touched(h) /\ hh'[h].lock = x
  BY <1>1, <1>2 DEF Touched, Objects, SameId
<1>3. ASSUME hh' = [hh EXCEPT ![h].packetStore = {}, ![h].lock = x]
      PROVE  Touched(h) /\ hh'[h].lock = x
  <2>1. PICK o : o = [hh[h] EXCEPT !.packetStore = {}, !.lock = x]
    OBVIOUS
  <2>2. hh[h] \in Objects
    BY Zenon, <1>1
  <2>3. /\ o \in Objects /\ o.addr = hh[h].addr /\ o.index = hh[h].index
        /\ o.ready = hh[h].ready /\ o.stage0 = hh[h].stage0
        /\ o.counter = hh[h].counter /\ o.lock = x
    BY Zenon, <2>1, <2>2 DEF Objects
  <2>4. hh' = [hh EXCEPT ![h] = o]
    BY Zenon, <1>1, <1>3, <2>1
  <2>5. hh' \in [Host -> Objects] /\ hh'[h] = o /\ \A g \in Host \ {h} : hh'[g] = hh[g]
    BY Zenon, <1>1, <2>3, <2>4
  <2> QED BY Zenon, <2>3, <2>5 DEF Touched, SameId
<1> QED BY Zenon, <1>2, <1>3

\* Such a step keeps what the hostmaps depend on.
LEMMA TouchedKept ==
  ASSUME NEW h \in Host, Touched(h)
  PROVE  \A g \in Host : Kept(g)
BY Zenon DEF Touched, Kept, SameId

\* A step that changes nothing of the objects.
LEMMA SameTouched ==
  ASSUME Typed, NEW h \in Host, hh' = hh
  PROVE  Touched(h) /\ \A g \in Host : Kept(g)
BY Zenon DEF Touched, Kept, SameId, Typed

\* What a step on the object h leaves to the goroutines that do not hold h's
\* lock: it may release h's entries in the pending hostmap and list h.
LEMMA OthersKeep ==
  ASSUME HandshakeInv, NEW h \in Host, Touched(h),
         \A a \in Addr : vpnIps'[a] = vpnIps[a] \/ (vpnIps[a] = h /\ vpnIps'[a] = Nil),
         \A i \in Index : indexes'[i] = indexes[i] \/ (indexes[i] = h /\ indexes'[i] = Nil),
         \A a \in Addr : Members(hosts'[a]) \subseteq Members(hosts[a]) \cup {h}
  PROVE  /\ \A r \in Reader :
              rd'[r] = rd[r] /\ (rd[r].pc \in {"idle", "lock"} \/ rd[r].host # h)
                => ReaderOk(r)'
         /\ rerr' \in {rerr, Nil} => RecvErrorWorks'
         /\ /\ out' = out /\ (out.pc \in {"idle", "lock"} \/ out.host # h)
            /\ hh[h].ready \/ vpnIps' = vpnIps
            => OutWorks'
         /\ out' = out /\ timer' = timer => Timed'
<1>1. Typed /\ MapInv /\ WorkInv /\ rerr \in Host \cup {Nil}
  BY Zenon DEF HandshakeInv, Typed
<1>2. ASSUME NEW r \in Reader, rd'[r] = rd[r], rd[r].pc # "idle",
             rd[r].pc = "lock" \/ rd[r].host # h
      PROVE  ReaderOk(r)'
  <2> DEFINE g == rd[r].host
  <2>1. ReaderOk(r)
    BY Zenon, <1>1 DEF WorkInv, ReaderWorks
  <2>2. /\ g \in Host /\ hh'[g].index = hh[g].index /\ hh'[g].addr = hh[g].addr
        /\ hh[g].index \in Index /\ hh[g].addr \in Addr /\ g # Nil
    BY Zenon, <2>1, <1>2, NilFacts DEF ReaderOk, Touched, SameId
  <2>3. g # h => hh'[g] = hh[g]
    BY Zenon, <2>2 DEF Touched
  <2>4. rd[r].pc = "restart" => ~InMain(g)'
    BY Zenon, <1>2, <2>1 DEF ReaderOk, InMain
  <2> QED BY ZenonT(60), <1>2, <2>1, <2>2, <2>3, <2>4, NilFacts DEF ReaderOk
<1>3. ASSUME NEW r \in Reader, rd'[r] = rd[r], rd[r].pc = "idle"
      PROVE  ReaderOk(r)'
  BY Zenon, <1>3 DEF ReaderOk
<1>4. ASSUME rerr' \in {rerr, Nil} PROVE RecvErrorWorks'
  BY <1>1, <1>4, NilFacts DEF WorkInv, RecvErrorWorks, Touched, SameId
<1>5. ASSUME out' = out, out.pc \in {"idle", "lock"} \/ out.host # h,
             hh[h].ready \/ vpnIps' = vpnIps
      PROVE  OutWorks'
  <2>1. CASE out.pc = "idle"
    BY Zenon, <1>5, <2>1 DEF OutWorks
  <2>2. CASE out.pc # "idle"
    <3> DEFINE g == out.host
    <3>1. /\ g \in Host /\ SameId(g) /\ hh'[g].counter = hh[g].counter
          /\ g # h => hh'[g] = hh[g]
      BY Zenon, <1>1, <2>2 DEF WorkInv, OutWorks, Touched
    <3>2. ~hh[g].ready => vpnIps'[out.addr] = g
      BY Zenon, <1>1, <1>5, <2>2 DEF WorkInv, OutWorks
    <3> QED BY Zenon, <1>1, <1>5, <2>2, <3>1, <3>2 DEF WorkInv, OutWorks, SameId
  <2> QED BY Zenon, <2>1, <2>2
<1>6. ASSUME out' = out, timer' = timer PROVE Timed'
  BY Zenon, <1>1, <1>6 DEF WorkInv, Timed
<1> QED BY Zenon, <1>2, <1>3, <1>4, <1>5, <1>6

LEMMA handleOutboundKeeps ==
  ASSUME HandshakeInv, NEW a \in Addr, NEW b \in BOOLEAN, handleOutbound(a, b)
  PROVE  HandshakeInv'
<1>1. Typed /\ MapInv /\ WorkInv
  BY Zenon DEF HandshakeInv
<1>2. /\ out.pc = "idle" /\ vpnIps' = vpnIps /\ indexes' = indexes /\ hosts' = hosts
      /\ hh' = hh /\ ecmp' = ecmp /\ owed' = owed /\ rd' = rd /\ snd' = snd
      /\ rerr' = rerr
      /\ out' = IF vpnIps[a] = Nil THEN Idle
                ELSE [pc |-> "lock", host |-> vpnIps[a], addr |-> a, triggered |-> b]
  BY Zenon DEF handleOutbound, pending
<1>3. /\ timer' \in [Addr -> Nat] /\ trigger' \in Triggers
      /\ \A c \in Addr : timer'[c] = timer[c] \/ (c = a /\ ~b)
  <2>1. timer \in [Addr -> Nat] /\ trigger \in Triggers /\ TriggerBuffer \in Nat
    BY Zenon, <1>1, HandshakeAssumption DEF Typed
  <2>2. CASE b
    <3>1. timer' = timer /\ trigger # <<>> /\ trigger' = Tail(trigger)
      BY Zenon, <2>2 DEF handleOutbound
    <3>2. /\ Tail(trigger) \in Seq(Addr) /\ Len(Tail(trigger)) = Len(trigger) - 1
          /\ Len(trigger) \in Nat
      BY <2>1, <3>1 DEF Triggers
    <3> QED BY <2>1, <3>1, <3>2 DEF Triggers
  <2>3. CASE ~b
    <3>1. trigger' = trigger /\ timer[a] > 0 /\ timer' = [timer EXCEPT ![a] = @ - 1]
      BY Zenon, <2>3 DEF handleOutbound
    <3> QED BY <2>1, <2>3, <3>1
  <2> QED BY Zenon, <2>2, <2>3
<1>4. out' \in Outbounds
  BY Zenon, <1>1, <1>2 DEF Typed, Outbounds, Idle
<1>5. Typed'
  BY Zenon, <1>1, <1>2, <1>3, <1>4 DEF Typed
<1>6. MapInv'
  <2>1. \A g \in Host : Kept(g)
    BY Zenon, <1>2 DEF Kept, SameId
  <2> QED BY Zenon, <1>1, <1>2, <2>1, MapStays
<1>7. OutWorks'
  <2>1. CASE vpnIps[a] = Nil
    BY Zenon, <1>2, <2>1 DEF OutWorks, Idle
  <2>2. CASE vpnIps[a] # Nil
    <3>1. vpnIps[a] \in Host /\ hh[vpnIps[a]].addr = a
      BY Zenon, <1>1, <2>2, MappedFacts DEF MapInv, PendingLinked
    <3>2. out'.pc = "lock" /\ out'.host = vpnIps[a] /\ out'.addr = a
      BY Zenon, <1>2, <2>2
    <3> QED BY Zenon, <1>2, <3>1, <3>2 DEF OutWorks
  <2> QED BY Zenon, <2>1, <2>2
<1>8. ReaderWorks' /\ RecvErrorWorks'
  BY Zenon, <1>1, <1>2 DEF WorkInv, ReaderWorks, ReaderOk, RecvErrorWorks, InMain
<1>9. Timed'
  <2> SUFFICES ASSUME NEW c \in Addr, vpnIps[c] # Nil
               PROVE  \/ timer'[c] > 0
                      \/ /\ out'.pc # "idle" /\ ~out'.triggered
                         /\ out'.addr = c /\ out'.host = vpnIps[c]
    BY Zenon, <1>2 DEF Timed
  <2>1. timer[c] > 0
    BY Zenon, <1>1, <1>2 DEF WorkInv, Timed
  <2>2. CASE c = a /\ ~b
    BY Zenon, <1>2, <2>2
  <2> QED BY Zenon, <1>3, <2>1, <2>2
<1> QED BY Zenon, <1>5, <1>6, <1>7, <1>8, <1>9 DEF HandshakeInv, WorkInv

LEMMA outboundLockKeeps ==
  ASSUME HandshakeInv, outboundLock
  PROVE  HandshakeInv'
<1> DEFINE h == out.host
<1>1. Typed /\ MapInv /\ WorkInv
  BY Zenon DEF HandshakeInv
<1>2. /\ out.pc = "lock" /\ hh[h].lock = Nil
      /\ vpnIps' = vpnIps /\ indexes' = indexes /\ hosts' = hosts
      /\ timer' = timer /\ trigger' = trigger /\ ecmp' = ecmp /\ owed' = owed
      /\ rd' = rd /\ snd' = snd /\ rerr' = rerr
      /\ hh' = [hh EXCEPT ![h].lock = "out"]
      /\ out' = [out EXCEPT !.pc = IF outOfTries(h) THEN "expire" ELSE "attempt"]
  BY Zenon DEF outboundLock, pending, queues
<1>3. /\ h \in Host /\ out.addr \in Addr /\ hh[h].addr \in Addr
      /\ ~hh[h].ready => vpnIps[out.addr] = h
  BY Zenon, <1>1, <1>2 DEF WorkInv, OutWorks
<1> HIDE DEF h
<1>4. Touched(h) /\ hh'[h].lock = "out"
  BY Zenon, <1>1, <1>2, <1>3, LockTouches
<1>5. /\ out' \in Outbounds /\ out'.host = h /\ out'.addr = out.addr
      /\ out'.triggered = out.triggered /\ out'.pc \in {"expire", "attempt"}
      /\ out'.pc = "attempt" => ~outOfTries(h)
  BY Zenon, <1>1, <1>2 DEF Typed, Outbounds, h
<1>6. Typed'
  BY Zenon, <1>1, <1>2, <1>4, <1>5 DEF Typed, Touched
<1>7. MapInv'
  BY Zenon, <1>1, <1>2, <1>3, <1>4, MapStays, TouchedKept
<1>8. OutWorks'
  <2>1. hh[h].counter \in Nat /\ Retries \in Nat
    BY <1>1, <1>3, HandshakeAssumption DEF Typed, Objects
  <2>2. out'.pc = "attempt" => hh'[h].counter < Retries
    BY <2>1, <1>3, <1>4, <1>5 DEF Touched, outOfTries
  <2> QED BY ZenonT(60), <1>2, <1>3, <1>4, <1>5, <2>2 DEF OutWorks, Touched, SameId
<1>9. ReaderWorks' /\ RecvErrorWorks'
  <2>1. \A r \in Reader : rd[r].pc \notin {"idle", "lock"} => rd[r].host # h
    BY Zenon, <1>1, <1>2, NilFacts DEF WorkInv, ReaderWorks, ReaderOk
  <2> QED BY Zenon, <1>2, <1>3, <1>4, <2>1, OthersKeep DEF ReaderWorks
<1>10. Timed'
  BY Zenon, <1>1, <1>2, <1>5 DEF WorkInv, Timed, h
<1> QED BY Zenon, <1>6, <1>7, <1>8, <1>9, <1>10 DEF HandshakeInv, WorkInv

LEMMA outboundMarkDownKeeps ==
  ASSUME HandshakeInv, outboundMarkDown
  PROVE  HandshakeInv'
<1>1. Typed /\ MapInv /\ WorkInv
  BY Zenon DEF HandshakeInv
<1>2. /\ out.pc = "expire" /\ ecmp' = markDown(out.addr)
      /\ out' = [out EXCEPT !.pc = "delete"]
      /\ vpnIps' = vpnIps /\ indexes' = indexes /\ hosts' = hosts /\ hh' = hh
      /\ timer' = timer /\ trigger' = trigger /\ owed' = owed
      /\ rd' = rd /\ snd' = snd /\ rerr' = rerr
  BY Zenon DEF outboundMarkDown, pending, queues
<1>3. ecmp' \in [Addr -> {"untracked", "up", "down"}]
  BY Zenon, <1>1, <1>2 DEF Typed, markDown
<1>4. /\ out' \in Outbounds /\ out'.host = out.host /\ out'.addr = out.addr
      /\ out'.triggered = out.triggered /\ out'.pc = "delete"
  BY Zenon, <1>1, <1>2 DEF Typed, Outbounds
<1>5. Typed'
  BY Zenon, <1>1, <1>2, <1>3, <1>4 DEF Typed
<1>6. MapInv'
  <2>1. \A g \in Host : Kept(g)
    BY Zenon, <1>2 DEF Kept, SameId
  <2> QED BY Zenon, <1>1, <1>2, <2>1, MapStays
<1>7. OutWorks' /\ Timed'
  BY Zenon, <1>1, <1>2, <1>4 DEF WorkInv, OutWorks, Timed
<1>8. ReaderWorks' /\ RecvErrorWorks'
  BY Zenon, <1>1, <1>2 DEF WorkInv, ReaderWorks, ReaderOk, RecvErrorWorks, InMain
<1> QED BY Zenon, <1>5, <1>6, <1>7, <1>8 DEF HandshakeInv, WorkInv

LEMMA outboundDeleteKeeps ==
  ASSUME HandshakeInv, outboundDelete
  PROVE  HandshakeInv'
<1> DEFINE h == out.host
<1>1. Typed /\ MapInv /\ WorkInv
  BY Zenon DEF HandshakeInv
<1>2. /\ out.pc = "delete" /\ unlockedDeleteHostInfo(h) /\ out' = Idle
      /\ hh' = [hh EXCEPT ![h].packetStore = {}, ![h].lock = Nil]
      /\ owed' = owed \ hh[h].packetStore
      /\ hosts' = hosts /\ timer' = timer /\ trigger' = trigger /\ ecmp' = ecmp
      /\ rd' = rd /\ snd' = snd /\ rerr' = rerr
  BY Zenon DEF outboundDelete, queues
<1>3. h \in Host /\ hh[h].lock = "out"
  BY Zenon, <1>1, <1>2 DEF WorkInv, OutWorks
<1>4. Released(h)
  BY Zenon, <1>1, <1>2, <1>3, ReleasedFacts
<1> HIDE DEF h
<1>5. Touched(h)
  BY Zenon, <1>1, <1>2, <1>3, LockTouches
<1>6. out' \in Outbounds /\ out'.pc = "idle" /\ owed' \in SUBSET Packet
  BY Zenon, <1>1, <1>2 DEF Outbounds, Idle, Typed
<1>7. Typed'
  BY Zenon, <1>1, <1>2, <1>4, <1>5, <1>6 DEF Typed, Touched, Released
<1>8. MapInv'
  BY Zenon, <1>1, <1>2, <1>3, <1>4, <1>5, MapDeletes, TouchedKept
<1>9. OutWorks'
  BY Zenon, <1>6 DEF OutWorks
<1>10. ReaderWorks' /\ RecvErrorWorks'
  <2>1. \A r \in Reader : rd[r].pc \notin {"idle", "lock"} => rd[r].host # h
    BY Zenon, <1>1, <1>3, NilFacts DEF WorkInv, ReaderWorks, ReaderOk
  <2> QED BY Zenon, <1>2, <1>3, <1>4, <1>5, <2>1, OthersKeep DEF ReaderWorks, Released
<1>11. Timed'
  BY Zenon, <1>1, <1>2, <1>4 DEF WorkInv, Timed, Released, h
<1> QED BY Zenon, <1>7, <1>8, <1>9, <1>10, <1>11 DEF HandshakeInv, WorkInv

\* The retry timer only gains entries, and after a try that was not triggered
\* the address has one.
LEMMA RetryFacts ==
  ASSUME Typed, out.addr \in Addr, NEW built \in BOOLEAN, timer' = retryTimer(built)
  PROVE  /\ timer' \in [Addr -> Nat]
         /\ \A a \in Addr : timer[a] > 0 => timer'[a] > 0
         /\ ~out.triggered => timer'[out.addr] > 0
BY DEF Typed, retryTimer

\* A try counts, and is within the limit; it gives hh.Lock back.
LEMMA TryFacts ==
  ASSUME Typed, NEW h \in Host, hh[h].counter < Retries
  PROVE  /\ nextTry(h) \in Objects /\ nextTry(h).addr = hh[h].addr
         /\ nextTry(h).index = hh[h].index /\ nextTry(h).ready = hh[h].ready
         /\ nextTry(h).stage0 = hh[h].stage0
<1>1. hh[h] \in Objects /\ Retries \in Nat
  BY Zenon, HandshakeAssumption DEF Typed
<1>2. hh[h].counter + 1 \in 0..Retries
  BY <1>1 DEF Objects
<1> QED BY Zenon, <1>1, <1>2 DEF nextTry, Objects

LEMMA outboundAttemptKeeps ==
  ASSUME HandshakeInv, outboundAttempt
  PROVE  HandshakeInv'
<1> DEFINE h == out.host
           o == nextTry(h)
<1>1. Typed /\ MapInv /\ WorkInv /\ hh \in [Host -> Objects]
  BY Zenon DEF HandshakeInv, Typed
<1>2. /\ out.pc = "attempt" /\ out' = Idle
      /\ vpnIps' = vpnIps /\ hosts' = hosts /\ trigger' = trigger /\ ecmp' = ecmp
      /\ owed' = owed /\ rd' = rd /\ snd' = snd /\ rerr' = rerr
  BY Zenon DEF outboundAttempt
<1>3. /\ h \in Host /\ hh[h].lock = "out" /\ out.addr \in Addr
      /\ hh[h].counter < Retries
      /\ ~hh[h].ready => vpnIps[out.addr] = h
  BY Zenon, <1>1, <1>2 DEF WorkInv, OutWorks
<1>4. \/ /\ hh' = [hh EXCEPT ![h] = o] /\ indexes' = indexes
         /\ \E b \in BOOLEAN : timer' = retryTimer(b)
      \/ buildStage0Packet(h, o) /\ timer' = retryTimer(TRUE)
  BY Zenon DEF outboundAttempt
<1>5. /\ timer' \in [Addr -> Nat] /\ out' \in Outbounds /\ out'.pc = "idle"
      /\ \A a \in Addr : timer[a] > 0 => timer'[a] > 0
      /\ ~out.triggered => timer'[out.addr] > 0
  <2>1. \E b \in BOOLEAN : timer' = retryTimer(b)
    BY Zenon, <1>4
  <2>2. out' \in Outbounds /\ out'.pc = "idle"
    BY Zenon, <1>2 DEF Outbounds, Idle
  <2> QED BY Zenon, <1>1, <1>3, <2>1, <2>2, RetryFacts
<1>6. OutWorks' /\ Timed'
  BY Zenon, <1>1, <1>2, <1>5 DEF OutWorks, Timed, WorkInv
<1>7. /\ o \in Objects /\ o.addr = hh[h].addr /\ o.index = hh[h].index
      /\ o.ready = hh[h].ready /\ o.stage0 = hh[h].stage0
  BY Zenon, <1>1, <1>3, TryFacts
<1>8. \A r \in Reader : rd[r].pc \notin {"idle", "lock"} => rd[r].host # h
  BY Zenon, <1>1, <1>3, NilFacts DEF WorkInv, ReaderWorks, ReaderOk
<1> HIDE DEF h, o
<1>9. CASE hh' = [hh EXCEPT ![h] = o] /\ indexes' = indexes
  <2>1. /\ hh' \in [Host -> Objects] /\ hh'[h] = o
        /\ \A g \in Host \ {h} : hh'[g] = hh[g]
    BY Zenon, <1>1, <1>3, <1>7, <1>9
  <2>2. \A g \in Host : SameId(g)
    BY Zenon, <1>7, <2>1 DEF SameId
  <2>3. Typed'
    BY Zenon, <1>1, <1>2, <1>5, <1>9, <2>1 DEF Typed
  <2>4. MapInv'
    BY Zenon, <1>1, <1>2, <1>9, <2>2, MapStays DEF Kept, SameId
  <2>5. ReaderWorks'
    <3> SUFFICES ASSUME NEW r \in Reader PROVE ReaderOk(r)'
      BY Zenon DEF ReaderWorks
    <3>1. ReaderOk(r)
      BY Zenon, <1>1 DEF WorkInv, ReaderWorks
    <3> QED BY Zenon, <1>2, <1>8, <1>9, <2>1, <2>2, <3>1 DEF ReaderOk, SameId, InMain
  <2>6. RecvErrorWorks'
    BY Zenon, <1>1, <1>2, <1>9, <2>2 DEF WorkInv, RecvErrorWorks, SameId, Typed
  <2> QED BY Zenon, <1>6, <2>3, <2>4, <2>5, <2>6 DEF HandshakeInv, WorkInv
<1>10. CASE ~o.ready /\ buildStage0Packet(h, o)
  <2>1. PICK i \in Index :
          /\ indexes[i] = Nil /\ ~MainIndex(i) /\ Drawn(i)
          /\ indexes' = [indexes EXCEPT ![i] = h]
          /\ hh' = [hh EXCEPT ![h] = [o EXCEPT !.index = i, !.ready = TRUE]]
    BY Zenon, <1>10 DEF buildStage0Packet
  <2>2. PICK new : new = [o EXCEPT !.index = i, !.ready = TRUE]
    OBVIOUS
  <2>3. /\ new \in Objects /\ new.addr = hh[h].addr /\ new.stage0 = hh[h].stage0
        /\ new.index = i /\ new.ready = TRUE
    BY Zenon, <1>7, <2>2 DEF Objects
  <2>4. /\ hh' \in [Host -> Objects] /\ hh'[h] = new
        /\ \A g \in Host \ {h} : hh'[g] = hh[g]
    BY Zenon, <1>1, <1>3, <2>1, <2>2, <2>3
  <2>5. /\ indexes' \in [Index -> Host \cup {Nil}]
        /\ \A j \in Index \ {i} : indexes'[j] = indexes[j]
    BY Zenon, <1>1, <1>3, <2>1 DEF Typed
  <2>6. Typed'
    BY Zenon, <1>1, <1>2, <1>5, <2>4, <2>5 DEF Typed
  <2>7. /\ ~hh[h].ready /\ vpnIps[out.addr] = h /\ hh[h].addr = out.addr
        /\ hh[h].index = Nil
    BY Zenon, <1>1, <1>3, <1>7, <1>10, NilFacts DEF MapInv, PendingLinked
  <2>8. \A g \in Host \ {h} : SameId(g) /\ Kept(g)
    BY Zenon, <2>4 DEF SameId, Kept
  <2>9. MapInv'
    BY ZenonT(60), <1>1, <1>2, <1>3, <2>1, <2>3, <2>4, <2>7, <2>8, MapBuilds
  <2>10. \A g \in Host : hh[g].index # i
    BY Zenon, <1>1, <2>1, FreshIndex
  <2>11. ReaderWorks'
    <3> SUFFICES ASSUME NEW r \in Reader, rd[r].pc # "idle" PROVE ReaderOk(r)'
      BY Zenon, <1>2 DEF ReaderWorks, ReaderOk
    <3>1. ReaderOk(r)
      BY Zenon, <1>1 DEF WorkInv, ReaderWorks
    <3>2. rd[r].host \in Host \ {h}
      BY Zenon, <2>7, <3>1, NilFacts DEF ReaderOk
    <3>3. /\ hh'[rd[r].host] = hh[rd[r].host] /\ hh[rd[r].host].index \in Index \ {i}
      BY Zenon, <2>4, <2>10, <3>1, <3>2 DEF ReaderOk
    <3> QED BY Zenon, <1>2, <2>5, <3>1, <3>3 DEF ReaderOk, InMain
  <2>12. RecvErrorWorks'
    <3> SUFFICES ASSUME rerr # Nil PROVE RecvErrorWorks'
      BY Zenon, <1>2 DEF RecvErrorWorks
    <3>1. rerr \in Host \ {h} /\ hh[rerr].index \in Index \ {i}
      BY Zenon, <1>1, <2>7, <2>10, NilFacts DEF WorkInv, RecvErrorWorks, Typed
    <3> QED BY Zenon, <1>1, <1>2, <2>4, <2>5, <3>1 DEF WorkInv, RecvErrorWorks
  <2> QED BY Zenon, <1>6, <2>6, <2>9, <2>11, <2>12 DEF HandshakeInv, WorkInv
<1> QED BY Zenon, <1>4, <1>9, <1>10 DEF buildStage0Packet

-----------------------------------------------------------------------------
(* The outside readers.                                                    *)

\* A reader's step changes its own state only.
LEMMA ReaderStep ==
  ASSUME Typed, NEW r \in Reader
  PROVE  /\ \A x \in Readings : rd' = [rd EXCEPT ![r] = x] =>
              /\ rd' \in [Reader -> Readings] /\ rd'[r] = x
              /\ \A q \in Reader \ {r} : rd'[q] = rd[q]
         /\ \A x \in {"idle", "lock", "process", "flush", "restart"} :
              rd' = [rd EXCEPT ![r].pc = x] =>
                /\ rd' \in [Reader -> Readings]
                /\ rd'[r].pc = x /\ rd'[r].host = rd[r].host
                /\ \A q \in Reader \ {r} : rd'[q] = rd[q]
         /\ Waiting \in Readings /\ Waiting.pc = "idle"
<1>1. rd \in [Reader -> Readings]
  BY Zenon DEF Typed
<1>2. ASSUME NEW x \in Readings, rd' = [rd EXCEPT ![r] = x]
      PROVE  /\ rd' \in [Reader -> Readings] /\ rd'[r] = x
             /\ \A q \in Reader \ {r} : rd'[q] = rd[q]
  BY Zenon, <1>1, <1>2
<1>3. ASSUME NEW x \in {"idle", "lock", "process", "flush", "restart"},
             rd' = [rd EXCEPT ![r].pc = x]
      PROVE  /\ rd' \in [Reader -> Readings]
             /\ rd'[r].pc = x /\ rd'[r].host = rd[r].host
             /\ \A q \in Reader \ {r} : rd'[q] = rd[q]
  BY Zenon, <1>1, <1>3 DEF Readings
<1>4. Waiting \in Readings /\ Waiting.pc = "idle"
  BY Zenon DEF Waiting, Readings
<1> QED BY Zenon, <1>2, <1>3, <1>4

LEMMA HandleIncomingKeeps ==
  ASSUME HandshakeInv, NEW r \in Reader, NEW i \in Index, HandleIncoming(r, i)
  PROVE  HandshakeInv'
<1> DEFINE x == [pc |-> "lock", host |-> indexes[i]]
<1>1. Typed /\ MapInv /\ WorkInv
  BY Zenon DEF HandshakeInv
<1>2. /\ rd' = [rd EXCEPT ![r] = x] /\ indexes[i] # Nil
      /\ vpnIps' = vpnIps /\ indexes' = indexes /\ hosts' = hosts /\ hh' = hh
      /\ timer' = timer /\ trigger' = trigger /\ ecmp' = ecmp /\ owed' = owed
      /\ out' = out /\ snd' = snd /\ rerr' = rerr
  BY Zenon DEF HandleIncoming, pending, queues
<1>3. /\ indexes[i] \in Host /\ hh[indexes[i]].index = i
      /\ hh[indexes[i]].addr \in Addr
  BY Zenon, <1>1, <1>2, MappedFacts DEF MapInv, IndexLinked
<1>4. x \in Readings /\ x.pc = "lock" /\ x.host = indexes[i]
  BY Zenon, <1>3 DEF Readings
<1> HIDE DEF x
<1>5. /\ rd' \in [Reader -> Readings] /\ rd'[r] = x
      /\ \A q \in Reader \ {r} : rd'[q] = rd[q]
  BY Zenon, <1>1, <1>2, <1>4, ReaderStep
<1>6. Typed'
  BY Zenon, <1>1, <1>2, <1>5 DEF Typed
<1>7. MapInv' /\ OutWorks' /\ Timed' /\ RecvErrorWorks'
  <2>1. MainLinked' /\ ListsDistinct'
    BY Zenon, <1>1, <1>2 DEF MapInv, MainLinked, ListsDistinct
  <2>2. PendingLinked'
    BY Zenon, <1>1, <1>2 DEF MapInv, PendingLinked
  <2>3. IndexLinked' /\ IndexOwn'
    BY Zenon, <1>1, <1>2 DEF MapInv, IndexLinked, IndexOwn
  <2>4. SeenDistinct'
    BY Zenon, <1>1, <1>2 DEF MapInv, SeenDistinct
  <2>5. OutWorks'
    BY Zenon, <1>1, <1>2 DEF WorkInv, OutWorks
  <2>6. Timed' /\ RecvErrorWorks'
    BY Zenon, <1>1, <1>2 DEF WorkInv, Timed, RecvErrorWorks
  <2> QED BY Zenon, <2>1, <2>2, <2>3, <2>4, <2>5, <2>6 DEF MapInv
<1>8. ReaderWorks'
  <2>1. ReaderOk(r)'
    BY Zenon, <1>2, <1>3, <1>4, <1>5 DEF ReaderOk
  <2>2. \A q \in Reader \ {r} : ReaderOk(q)'
    BY Zenon, <1>1, <1>2, <1>5 DEF WorkInv, ReaderWorks, ReaderOk, InMain
  <2> QED BY Zenon, <2>1, <2>2 DEF ReaderWorks
<1> QED BY Zenon, <1>6, <1>7, <1>8 DEF HandshakeInv, WorkInv

LEMMA continueLockKeeps ==
  ASSUME HandshakeInv, NEW r \in Reader, continueLock(r)
  PROVE  HandshakeInv'
<1> DEFINE h == rd[r].host
<1>1. Typed /\ MapInv /\ WorkInv
  BY Zenon DEF HandshakeInv
<1>2. /\ rd[r].pc = "lock" /\ hh[h].lock = Nil
      /\ vpnIps' = vpnIps /\ indexes' = indexes /\ hosts' = hosts
      /\ timer' = timer /\ trigger' = trigger /\ ecmp' = ecmp /\ owed' = owed
      /\ out' = out /\ snd' = snd /\ rerr' = rerr
  BY Zenon DEF continueLock, pending, queues
<1>3. h \in Host /\ hh[h].index \in Index /\ hh[h].addr \in Addr
  BY Zenon, <1>1, <1>2 DEF WorkInv, ReaderWorks, ReaderOk
<1>4. /\ stillPending(h) => hh' = [hh EXCEPT ![h].lock = r]
                            /\ rd' = [rd EXCEPT ![r].pc = "process"]
      /\ ~stillPending(h) => hh' = hh /\ rd' = [rd EXCEPT ![r] = Waiting]
  BY Zenon DEF continueLock
<1>5. /\ \A q \in Reader : rd[q].pc \notin {"idle", "lock"} => rd[q].host # h
      /\ out.pc \notin {"idle", "lock"} => out.host # h
  <2> HIDE DEF h
  <2>1. \A q \in Reader : ReaderOk(q) /\ q # Nil
    BY Zenon, <1>1, NilFacts DEF WorkInv, ReaderWorks
  <2>2. \A q \in Reader : rd[q].pc \notin {"idle", "lock"} => rd[q].host # h
    BY Zenon, <1>2, <2>1 DEF ReaderOk
  <2>3. out.pc \notin {"idle", "lock"} => out.host # h
    <3>1. "out" # Nil
      BY Zenon, HandshakeAssumption
    <3> QED BY Zenon, <1>1, <1>2, <3>1 DEF WorkInv, OutWorks
  <2> QED BY Zenon, <2>2, <2>3
<1> HIDE DEF h
<1>6. Touched(h)
  BY Zenon, <1>1, <1>3, <1>4, LockTouches, SameTouched
<1>7. /\ rd' \in [Reader -> Readings]
      /\ \A q \in Reader \ {r} : rd'[q] = rd[q]
  BY Zenon, <1>1, <1>4, ReaderStep
<1>8. Typed'
  BY Zenon, <1>1, <1>2, <1>6, <1>7 DEF Typed, Touched
<1>9. MapInv'
  BY Zenon, <1>1, <1>2, <1>3, <1>6, TouchedKept, MapStays
<1>10. /\ OutWorks' /\ Timed' /\ RecvErrorWorks'
       /\ \A q \in Reader \ {r} : ReaderOk(q)'
  BY Zenon, <1>2, <1>3, <1>5, <1>6, <1>7, OthersKeep
<1>11. ReaderOk(r)'
  <2>1. CASE stillPending(h)
    <3>1. rd'[r].pc = "process" /\ rd'[r].host = h
      BY Zenon, <1>1, <1>4, <2>1, ReaderStep DEF h
    <3>2. hh'[h].lock = r
      BY Zenon, <1>1, <1>3, <1>4, <2>1, LockTouches
    <3> QED BY Zenon, <1>2, <1>3, <1>6, <2>1, <3>1, <3>2
            DEF ReaderOk, stillPending, Touched, SameId
  <2>2. CASE ~stillPending(h)
    BY Zenon, <1>1, <1>4, <2>2, ReaderStep DEF ReaderOk
  <2> QED BY Zenon, <2>1, <2>2
<1> QED BY Zenon, <1>8, <1>9, <1>10, <1>11 DEF HandshakeInv, WorkInv, ReaderWorks

\* What a reader that holds hh.Lock knows of its hostinfo.
LEMMA HolderFacts ==
  ASSUME HandshakeInv, NEW r \in Reader, rd[r].pc \in {"process", "flush", "restart"}
  PROVE  /\ rd[r].host \in Host /\ hh[rd[r].host].index \in Index
         /\ hh[rd[r].host].addr \in Addr
         /\ \A q \in Reader \ {r} : rd[q].pc \notin {"idle", "lock"} =>
                                      rd[q].host # rd[r].host
         /\ out.pc \notin {"idle", "lock"} => out.host # rd[r].host
         /\ rd[r].pc = "process" => /\ indexes[hh[rd[r].host].index] = rd[r].host
                                    /\ vpnIps[hh[rd[r].host].addr] = rd[r].host
                                    /\ hh[rd[r].host].ready
<1>1. Typed /\ MapInv /\ WorkInv
  BY Zenon DEF HandshakeInv
<1>2. ReaderOk(r) /\ \A q \in Reader : ReaderOk(q)
  BY Zenon, <1>1 DEF WorkInv, ReaderWorks
<1> DEFINE h == rd[r].host
<1>3. /\ h \in Host /\ hh[h].index \in Index /\ hh[h].addr \in Addr
      /\ hh[h].lock = r /\ h # Nil
      /\ rd[r].pc = "process" => indexes[hh[h].index] = h
  BY Zenon, <1>2, NilFacts DEF ReaderOk
<1>4. \A q \in Reader \ {r} : rd[q].pc \notin {"idle", "lock"} => rd[q].host # h
  BY Zenon, <1>2, <1>3 DEF ReaderOk
<1>5. out.pc \notin {"idle", "lock"} => out.host # h
  BY Zenon, <1>1, <1>3, NilFacts DEF WorkInv, OutWorks
<1>6. rd[r].pc = "process" => vpnIps[hh[h].addr] = h /\ hh[h].ready
  <2> HIDE DEF h
  <2>1. rd[r].pc = "process" => vpnIps[hh[h].addr] = h
    BY Zenon, <1>1, <1>3 DEF MapInv, IndexLinked
  <2> QED BY Zenon, <1>1, <1>3, <2>1, NilFacts DEF MapInv, PendingLinked
<1> QED BY Zenon, <1>3, <1>4, <1>5, <1>6

LEMMA continueIgnoreKeeps ==
  ASSUME HandshakeInv, NEW r \in Reader, continueIgnore(r)
  PROVE  HandshakeInv'
<1> DEFINE h == rd[r].host
<1>1. Typed /\ MapInv /\ WorkInv
  BY Zenon DEF HandshakeInv
<1>2. /\ rd[r].pc = "process" /\ rd' = [rd EXCEPT ![r] = Waiting]
      /\ hh' = [hh EXCEPT ![h].lock = Nil]
      /\ vpnIps' = vpnIps /\ indexes' = indexes /\ hosts' = hosts
      /\ timer' = timer /\ trigger' = trigger /\ ecmp' = ecmp /\ owed' = owed
      /\ out' = out /\ snd' = snd /\ rerr' = rerr
  BY Zenon DEF continueIgnore, pending, queues
<1>3. /\ h \in Host
      /\ \A q \in Reader \ {r} : rd[q].pc \notin {"idle", "lock"} => rd[q].host # h
      /\ out.pc \notin {"idle", "lock"} => out.host # h
  BY Zenon, <1>2, HolderFacts
<1> HIDE DEF h
<1>4. Touched(h)
  BY Zenon, <1>1, <1>2, <1>3, LockTouches
<1>5. /\ rd' \in [Reader -> Readings] /\ rd'[r].pc = "idle"
      /\ \A q \in Reader \ {r} : rd'[q] = rd[q]
  BY Zenon, <1>1, <1>2, ReaderStep
<1>6. Typed'
  BY Zenon, <1>1, <1>2, <1>4, <1>5 DEF Typed, Touched
<1>7. MapInv'
  BY Zenon, <1>1, <1>2, <1>3, <1>4, TouchedKept, MapStays
<1>8. /\ OutWorks' /\ Timed' /\ RecvErrorWorks'
      /\ \A q \in Reader \ {r} : ReaderOk(q)'
  BY Zenon, <1>2, <1>3, <1>4, <1>5, OthersKeep
<1>9. ReaderOk(r)'
  BY Zenon, <1>5 DEF ReaderOk
<1> QED BY Zenon, <1>6, <1>7, <1>8, <1>9 DEF HandshakeInv, WorkInv, ReaderWorks

LEMMA continueAbandonKeeps ==
  ASSUME HandshakeInv, NEW r \in Reader, continueAbandon(r)
  PROVE  HandshakeInv'
<1> DEFINE h == rd[r].host
<1>1. Typed /\ MapInv /\ WorkInv
  BY Zenon DEF HandshakeInv
<1>2. /\ rd[r].pc = "process" /\ rd' = [rd EXCEPT ![r] = Waiting]
      /\ unlockedDeleteHostInfo(h)
      /\ hh' = [hh EXCEPT ![h].packetStore = {}, ![h].lock = Nil]
      /\ owed' = owed \ hh[h].packetStore
      /\ hosts' = hosts /\ timer' = timer /\ trigger' = trigger /\ ecmp' = ecmp
      /\ out' = out /\ snd' = snd /\ rerr' = rerr
  BY Zenon DEF continueAbandon, queues
<1>3. /\ h \in Host /\ hh[h].ready
      /\ \A q \in Reader \ {r} : rd[q].pc \notin {"idle", "lock"} => rd[q].host # h
      /\ out.pc \notin {"idle", "lock"} => out.host # h
  BY Zenon, <1>2, HolderFacts
<1> HIDE DEF h
<1>4. Touched(h) /\ Released(h)
  BY Zenon, <1>1, <1>2, <1>3, LockTouches, ReleasedFacts
<1>5. /\ rd' \in [Reader -> Readings] /\ rd'[r].pc = "idle"
      /\ \A q \in Reader \ {r} : rd'[q] = rd[q]
  BY Zenon, <1>1, <1>2, ReaderStep
<1>6. Typed'
  BY Zenon, <1>1, <1>2, <1>4, <1>5 DEF Typed, Touched, Released
<1>7. MapInv'
  BY Zenon, <1>1, <1>2, <1>3, <1>4, TouchedKept, MapDeletes
<1>8. /\ OutWorks' /\ Timed' /\ RecvErrorWorks'
      /\ \A q \in Reader \ {r} : ReaderOk(q)'
  BY ZenonT(60), <1>2, <1>3, <1>4, <1>5, OthersKeep DEF Released
<1>9. ReaderOk(r)'
  BY Zenon, <1>5 DEF ReaderOk
<1> QED BY Zenon, <1>6, <1>7, <1>8, <1>9 DEF HandshakeInv, WorkInv, ReaderWorks

LEMMA CompleteKeeps ==
  ASSUME HandshakeInv, NEW r \in Reader, NEW t \in Time, Complete(r, t)
  PROVE  HandshakeInv'
<1> DEFINE h == rd[r].host
<1>1. Typed /\ MapInv /\ WorkInv
  BY Zenon DEF HandshakeInv
<1>2. /\ rd[r].pc = "process" /\ rd' = [rd EXCEPT ![r].pc = "flush"]
      /\ unlockedDeleteHostInfo(h) /\ hosts' = Added(h, hh[h].addr)
      /\ ecmp' = markUp(hh[h].addr) /\ hh' = [hh EXCEPT ![h].time = t]
      /\ timer' = timer /\ trigger' = trigger /\ owed' = owed
      /\ out' = out /\ snd' = snd /\ rerr' = rerr
  BY Zenon DEF Complete, queues
<1>3. /\ h \in Host /\ hh[h].ready /\ hh[h].index \in Index /\ hh[h].addr \in Addr
      /\ indexes[hh[h].index] = h
      /\ \A q \in Reader \ {r} : rd[q].pc \notin {"idle", "lock"} => rd[q].host # h
      /\ out.pc \notin {"idle", "lock"} => out.host # h
  BY Zenon, <1>2, HolderFacts
<1>4. hh[h].lock = r
  BY Zenon, <1>1, <1>2 DEF WorkInv, ReaderWorks, ReaderOk
<1>5. rd'[r].pc = "flush" /\ rd'[r].host = h
  BY Zenon, <1>1, <1>2, ReaderStep
<1> HIDE DEF h
<1>6. Touched(h) /\ hh'[h].lock = hh[h].lock
  <2>1. PICK o : o = [hh[h] EXCEPT !.time = t]
    BY Zenon
  <2>2. hh \in [Host -> Objects] /\ hh[h] \in Objects
    BY Zenon, <1>1, <1>3 DEF Typed
  <2>3. /\ o \in Objects /\ o.addr = hh[h].addr /\ o.index = hh[h].index
        /\ o.ready = hh[h].ready /\ o.stage0 = hh[h].stage0
        /\ o.counter = hh[h].counter /\ o.lock = hh[h].lock
    BY Zenon, <2>1, <2>2 DEF Objects
  <2>4. hh' = [hh EXCEPT ![h] = o]
    BY Zenon, <1>2, <2>1, <2>2
  <2>5. hh' \in [Host -> Objects] /\ hh'[h] = o /\ \A g \in Host \ {h} : hh'[g] = hh[g]
    BY Zenon, <1>3, <2>2, <2>3, <2>4
  <2> QED BY Zenon, <2>3, <2>5 DEF Touched, SameId
<1>7. Released(h)
  BY Zenon, <1>1, <1>2, <1>3, ReleasedFacts
<1>8. /\ rd' \in [Reader -> Readings]
      /\ \A q \in Reader \ {r} : rd'[q] = rd[q]
  BY Zenon, <1>1, <1>2, ReaderStep
<1>9. MapInv' /\ hosts' \in [Addr -> Seq(Host)]
  BY Zenon, <1>1, <1>2, <1>3, <1>6, <1>7, TouchedKept, MapCompletes
<1>10. ecmp' \in [Addr -> {"untracked", "up", "down"}]
  BY Zenon, <1>1, <1>2 DEF Typed, markUp
<1>11. Typed'
  BY Zenon, <1>1, <1>2, <1>6, <1>7, <1>8, <1>9, <1>10 DEF Typed, Touched, Released
<1>12. \A a \in Addr : Members(hosts'[a]) \subseteq Members(hosts[a]) \cup {h}
  <2>1. h \notin Members(hosts[hh[h].addr])
    BY ZenonT(60), <1>1, <1>3, NilFacts DEF MapInv, MainLinked
  <2> QED BY Zenon, <1>1, <1>2, <1>3, <2>1, AddedFacts DEF MapInv
<1>13. /\ OutWorks' /\ Timed' /\ RecvErrorWorks'
       /\ \A q \in Reader \ {r} : ReaderOk(q)'
  BY ZenonT(60), <1>2, <1>3, <1>6, <1>7, <1>8, <1>12, OthersKeep DEF Released
<1>14. ReaderOk(r)'
  BY ZenonT(60), <1>3, <1>4, <1>5, <1>6 DEF ReaderOk, Touched, SameId
<1> QED BY Zenon, <1>9, <1>11, <1>13, <1>14 DEF HandshakeInv, WorkInv, ReaderWorks

LEMMA continueFlushKeeps ==
  ASSUME HandshakeInv, NEW r \in Reader, continueFlush(r)
  PROVE  HandshakeInv'
<1> DEFINE h == rd[r].host
<1>1. Typed /\ MapInv /\ WorkInv
  BY Zenon DEF HandshakeInv
<1>2. /\ rd[r].pc = "flush" /\ rd' = [rd EXCEPT ![r] = Waiting]
      /\ hh' = [hh EXCEPT ![h].packetStore = {}, ![h].lock = Nil]
      /\ owed' = owed \ hh[h].packetStore
      /\ vpnIps' = vpnIps /\ indexes' = indexes /\ hosts' = hosts
      /\ timer' = timer /\ trigger' = trigger /\ ecmp' = ecmp
      /\ out' = out /\ snd' = snd /\ rerr' = rerr
  BY Zenon DEF continueFlush, pending, queues
<1>3. /\ h \in Host
      /\ \A q \in Reader \ {r} : rd[q].pc \notin {"idle", "lock"} => rd[q].host # h
      /\ out.pc \notin {"idle", "lock"} => out.host # h
  BY Zenon, <1>2, HolderFacts
<1> HIDE DEF h
<1>4. Touched(h)
  BY Zenon, <1>1, <1>2, <1>3, LockTouches
<1>5. /\ rd' \in [Reader -> Readings] /\ rd'[r].pc = "idle"
      /\ \A q \in Reader \ {r} : rd'[q] = rd[q]
  BY Zenon, <1>1, <1>2, ReaderStep
<1>6. Typed'
  BY Zenon, <1>1, <1>2, <1>4, <1>5 DEF Typed, Touched
<1>7. MapInv'
  BY Zenon, <1>1, <1>2, <1>3, <1>4, TouchedKept, MapStays
<1>8. /\ OutWorks' /\ Timed' /\ RecvErrorWorks'
      /\ \A q \in Reader \ {r} : ReaderOk(q)'
  BY Zenon, <1>2, <1>3, <1>4, <1>5, OthersKeep
<1>9. ReaderOk(r)'
  BY Zenon, <1>5 DEF ReaderOk
<1> QED BY Zenon, <1>6, <1>7, <1>8, <1>9 DEF HandshakeInv, WorkInv, ReaderWorks

LEMMA continueWrongHostKeeps ==
  ASSUME HandshakeInv, NEW r \in Reader, continueWrongHost(r)
  PROVE  HandshakeInv'
<1> DEFINE h == rd[r].host
<1>1. Typed /\ MapInv /\ WorkInv
  BY Zenon DEF HandshakeInv
<1>2. /\ rd[r].pc = "process" /\ rd' = [rd EXCEPT ![r].pc = "restart"]
      /\ unlockedDeleteHostInfo(h) /\ hh' = hh
      /\ hosts' = hosts /\ timer' = timer /\ trigger' = trigger /\ ecmp' = ecmp
      /\ owed' = owed /\ out' = out /\ snd' = snd /\ rerr' = rerr
  BY Zenon DEF continueWrongHost, queues
<1>3. /\ h \in Host /\ hh[h].ready /\ hh[h].index \in Index /\ hh[h].addr \in Addr
      /\ indexes[hh[h].index] = h /\ vpnIps[hh[h].addr] = h
      /\ \A q \in Reader \ {r} : rd[q].pc \notin {"idle", "lock"} => rd[q].host # h
      /\ out.pc \notin {"idle", "lock"} => out.host # h
  BY Zenon, <1>2, HolderFacts
<1>4. hh[h].lock = r
  BY Zenon, <1>1, <1>2 DEF WorkInv, ReaderWorks, ReaderOk
<1>5. rd'[r].pc = "restart" /\ rd'[r].host = h
  BY Zenon, <1>1, <1>2, ReaderStep
<1> HIDE DEF h
<1>6. Touched(h) /\ Released(h)
  BY Zenon, <1>1, <1>2, <1>3, SameTouched, ReleasedFacts
<1>7. /\ rd' \in [Reader -> Readings]
      /\ \A q \in Reader \ {r} : rd'[q] = rd[q]
  BY Zenon, <1>1, <1>2, ReaderStep
<1>8. Typed'
  BY Zenon, <1>1, <1>2, <1>6, <1>7 DEF Typed, Released
<1>9. MapInv'
  BY Zenon, <1>1, <1>2, <1>3, <1>6, TouchedKept, MapDeletes
<1>10. /\ OutWorks' /\ Timed' /\ RecvErrorWorks'
       /\ \A q \in Reader \ {r} : ReaderOk(q)'
  BY Zenon, <1>2, <1>3, <1>6, <1>7, OthersKeep DEF Released
<1>11. \A a \in Addr : h \notin Members(hosts[a])
  BY ZenonT(60), <1>1, <1>3, NilFacts DEF MapInv, MainLinked
<1>12. indexes'[hh[h].index] = Nil /\ vpnIps'[hh[h].addr] = Nil /\ h # Nil
  BY Zenon, <1>3, <1>6, NilFacts DEF Released
<1>13. ReaderOk(r)'
  BY Zenon, <1>2, <1>3, <1>4, <1>5, <1>11, <1>12 DEF ReaderOk, InMain
<1> QED BY Zenon, <1>8, <1>9, <1>10, <1>13 DEF HandshakeInv, WorkInv, ReaderWorks

\* What StartHandshake does: nothing is lost, and what becomes pending is an
\* unused object that has a timer entry.
Started(objs) ==
  /\ vpnIps' \in [Addr -> Host \cup {Nil}] /\ hh' \in [Host -> Objects]
  /\ timer' \in [Addr -> Nat] /\ trigger' \in Triggers
  /\ indexes' = indexes
  /\ \A g \in Host \ Unused :
       /\ hh'[g].addr = objs[g].addr /\ hh'[g].lock = objs[g].lock
       /\ hh'[g].index = hh[g].index /\ hh'[g].ready = hh[g].ready
       /\ hh'[g].counter = hh[g].counter
  /\ \A a \in Addr : \/ vpnIps'[a] = vpnIps[a]
                     \/ /\ vpnIps[a] = Nil /\ vpnIps'[a] \in Unused
                        /\ timer'[a] > 0
  /\ \A a \in Addr : timer[a] > 0 => timer'[a] > 0

\* The caller of StartHandshake may have unlocked h and, if it is in neither
\* hostmap, given it another address.
LEMMA StartFacts ==
  ASSUME Typed, MapInv, NEW a \in Addr, NEW objs \in [Host -> Objects],
         NEW store \in SUBSET Packet, StartHandshake(a, objs, store), hosts' = hosts,
         \A g \in Host : /\ objs[g].index = hh[g].index /\ objs[g].ready = hh[g].ready
                         /\ objs[g].stage0 = hh[g].stage0
                         /\ objs[g].counter = hh[g].counter
                         /\ Mapped(g) => objs[g].addr = hh[g].addr
  PROVE  Started(objs) /\ MapInv'
<1>1. CASE vpnIps[a] # Nil
  <2> DEFINE p == vpnIps[a]
  <2>1. /\ vpnIps' = vpnIps /\ indexes' = indexes /\ timer' = timer
        /\ trigger' = trigger /\ hh' = [objs EXCEPT ![p].packetStore = store]
    BY Zenon, <1>1 DEF StartHandshake
  <2>2. p \in Host /\ objs[p] \in Objects
    BY Zenon, <1>1, MappedFacts
  <2> HIDE DEF p
  <2>3. PICK o : o = [objs[p] EXCEPT !.packetStore = store]
    BY Zenon
  <2>4. /\ o \in Objects /\ o.addr = objs[p].addr /\ o.index = objs[p].index
        /\ o.ready = objs[p].ready /\ o.stage0 = objs[p].stage0
        /\ o.counter = objs[p].counter /\ o.lock = objs[p].lock
    BY Zenon, <2>2, <2>3 DEF Objects
  <2>5. hh' = [objs EXCEPT ![p] = o]
    BY Zenon, <2>1, <2>2, <2>3
  <2>6. /\ hh' \in [Host -> Objects] /\ hh'[p] = o
        /\ \A g \in Host \ {p} : hh'[g] = objs[g]
    BY Zenon, <2>2, <2>4, <2>5
  <2>7. \A g \in Host : /\ hh'[g].addr = objs[g].addr /\ hh'[g].lock = objs[g].lock
                        /\ hh'[g].index = hh[g].index /\ hh'[g].ready = hh[g].ready
                        /\ hh'[g].counter = hh[g].counter
                        /\ hh'[g].stage0 = hh[g].stage0
    <3>1. TAKE g \in Host
    <3>2. CASE g = p
      BY Zenon, <2>4, <2>6, <3>2
    <3>3. CASE g # p
      BY Zenon, <2>6, <3>3
    <3> QED BY Zenon, <3>2, <3>3
  <2>8. Started(objs)
    BY Zenon, <2>1, <2>6, <2>7 DEF Started, Typed
  <2>9. \A g \in Host : Kept(g)
    BY Zenon, <2>7 DEF Kept, SameId
  <2> QED BY Zenon, <2>1, <2>8, <2>9, MapStays
<1>2. CASE vpnIps[a] = Nil
  <2>1. PICK h \in Unused :
          /\ vpnIps' = [vpnIps EXCEPT ![a] = h]
          /\ hh' = [objs EXCEPT ![h] = [Blank EXCEPT !.addr = a,
                                          !.packetStore = store]]
    BY Zenon, <1>2 DEF StartHandshake
  <2>2. /\ indexes' = indexes /\ timer' = [timer EXCEPT ![a] = @ + 1]
        /\ trigger' = IF a \in Static THEN Triggered(a) ELSE trigger
    BY Zenon, <1>2 DEF StartHandshake
  <2>3. PICK o : o = [Blank EXCEPT !.addr = a, !.packetStore = store]
    OBVIOUS
  <2>4. /\ o \in Objects /\ o.addr = a /\ o.index = Nil /\ o.ready = FALSE
        /\ o.stage0 = Nil
    <3>1. o = [addr |-> a, index |-> Nil, counter |-> 0, ready |-> FALSE,
               packetStore |-> store, lock |-> Nil, initiator |-> TRUE,
               stage0 |-> Nil, time |-> 0]
      BY Zenon, <2>3 DEF Blank
    <3>2. 0 \in 0..Retries
      BY HandshakeAssumption
    <3> QED BY Zenon, <3>1, <3>2 DEF Objects
  <2>5. h \in Host
    BY Zenon DEF Unused
  <2>6. /\ hh' \in [Host -> Objects] /\ hh'[h] = o
        /\ \A g \in Host \ {h} : hh'[g] = objs[g]
    BY Zenon, <2>1, <2>3, <2>4, <2>5
  <2>7. /\ vpnIps' \in [Addr -> Host \cup {Nil}] /\ vpnIps'[a] = h
        /\ \A b \in Addr \ {a} : vpnIps'[b] = vpnIps[b]
    BY Zenon, <2>1, <2>5 DEF Typed
  <2>8. /\ timer' \in [Addr -> Nat] /\ timer'[a] > 0
        /\ \A b \in Addr : timer[b] > 0 => timer'[b] > 0
    BY <2>2 DEF Typed
  <2>9. trigger' \in Triggers
    BY Zenon, <2>2, TriggerFits DEF Typed
  <2>10. Started(objs)
    <3>1. \A g \in Host \ Unused :
            /\ hh'[g].addr = objs[g].addr /\ hh'[g].lock = objs[g].lock
            /\ hh'[g].index = hh[g].index /\ hh'[g].ready = hh[g].ready
            /\ hh'[g].counter = hh[g].counter
      BY Zenon, <2>6
    <3>2. \A b \in Addr : \/ vpnIps'[b] = vpnIps[b]
                          \/ /\ vpnIps[b] = Nil /\ vpnIps'[b] \in Unused
                             /\ timer'[b] > 0
      BY Zenon, <1>2, <2>7, <2>8
    <3> QED BY Zenon, <2>2, <2>6, <2>7, <2>8, <2>9, <3>1, <3>2 DEF Started
  <2>11. \A g \in Host \ {h} : Kept(g)
    BY ZenonT(60), <2>6 DEF Kept, SameId
  <2>12. MapInv'
    BY Zenon, <1>2, <2>1, <2>2, <2>4, <2>6, <2>11, MapStarts
  <2> QED BY Zenon, <2>10, <2>12
<1> QED BY Zenon, <1>1, <1>2

\* The goroutines after a StartHandshake by one that holds no lock, or that
\* gives back the lock of h.
LEMMA StartOthers ==
  ASSUME HandshakeInv, NEW h, NEW objs \in [Host -> Objects], Started(objs),
         hosts' = hosts, out' = out, rerr' = rerr,
         \A g \in Host \ {h} : objs[g] = hh[g], objs[h].addr \in Addr \cup {hh[h].addr},
         out.pc \notin {"idle", "lock"} => out.host # h \/ objs[h] = hh[h],
         \A b \in Addr : vpnIps[b] # h \/ objs[h] = hh[h]
  PROVE  /\ OutWorks' /\ Timed' /\ RecvErrorWorks'
         /\ \A r \in Reader :
              /\ rd'[r] = rd[r]
              /\ rd[r].pc \in {"idle", "lock"} \/ rd[r].host # h \/ objs[h] = hh[h]
              => ReaderOk(r)'
<1>1. Typed /\ MapInv /\ WorkInv /\ indexes' = indexes
  BY Zenon DEF HandshakeInv, Started
<1>2. \A g \in Host : hh[g].addr # Nil => g \notin Unused
  <2>1. Blank.addr = Nil
    BY Zenon DEF Blank
  <2> QED BY Zenon, <2>1 DEF Unused
<1>3. \A g \in Host : hh[g].addr \in Addr =>
        /\ hh'[g].addr \in Addr /\ hh'[g].index = hh[g].index
        /\ hh'[g].ready = hh[g].ready /\ hh'[g].counter = hh[g].counter
        /\ g # h \/ objs[h] = hh[h] =>
             hh'[g].addr = hh[g].addr /\ hh'[g].lock = hh[g].lock
        /\ \A b \in Addr : vpnIps'[b] = g => vpnIps[b] = g
  <2> SUFFICES ASSUME NEW g \in Host, hh[g].addr \in Addr
               PROVE  /\ hh'[g].addr \in Addr /\ hh'[g].index = hh[g].index
                      /\ hh'[g].ready = hh[g].ready /\ hh'[g].counter = hh[g].counter
                      /\ g # h \/ objs[h] = hh[h] =>
                           hh'[g].addr = hh[g].addr /\ hh'[g].lock = hh[g].lock
                      /\ \A b \in Addr : vpnIps'[b] = g => vpnIps[b] = g
    BY Zenon
  <2>1. Nil \notin Addr
    BY Zenon, NilFacts
  <2>2. g \notin Unused
    BY Zenon, <1>2, <2>1
  <2>3. /\ hh'[g].addr = objs[g].addr /\ hh'[g].lock = objs[g].lock
        /\ hh'[g].index = hh[g].index /\ hh'[g].ready = hh[g].ready
        /\ hh'[g].counter = hh[g].counter
    BY Zenon, <2>2 DEF Started
  <2>4. g # h \/ objs[h] = hh[h] => objs[g] = hh[g]
    BY Zenon
  <2>5. objs[g].addr \in Addr
    BY Zenon, <2>4
  <2>6. \A b \in Addr : vpnIps'[b] = g => vpnIps[b] = g
    BY Zenon, <2>2 DEF Started
  <2> QED BY Zenon, <2>3, <2>4, <2>5, <2>6
<1>4. OutWorks'
  <2>1. CASE out.pc = "idle"
    BY Zenon, <2>1 DEF OutWorks
  <2>2. CASE out.pc # "idle"
    <3>1. /\ out.host \in Host /\ out.addr \in Addr /\ hh[out.host].addr \in Addr
          /\ ~hh[out.host].ready => vpnIps[out.addr] = out.host
          /\ out.pc # "lock" => hh[out.host].lock = "out"
          /\ out.pc = "attempt" => hh[out.host].counter < Retries
      BY Zenon, <1>1, <2>2 DEF WorkInv, OutWorks
    <3>2. ~hh'[out.host].ready => vpnIps'[out.addr] = out.host
      <4>1. ~hh'[out.host].ready => ~hh[out.host].ready
        BY Zenon, <1>3, <3>1
      <4>2. ~hh[out.host].ready => vpnIps[out.addr] # Nil
        BY Zenon, <3>1, NilFacts
      <4>3. vpnIps[out.addr] # Nil => vpnIps'[out.addr] = vpnIps[out.addr]
        BY Zenon, <3>1 DEF Started
      <4> QED BY Zenon, <3>1, <4>1, <4>2, <4>3
    <3> QED BY Zenon, <1>3, <2>2, <3>1, <3>2 DEF OutWorks
  <2> QED BY Zenon, <2>1, <2>2
<1>5. Timed'
  <2> SUFFICES ASSUME NEW c \in Addr, vpnIps'[c] # Nil
               PROVE  \/ timer'[c] > 0
                      \/ /\ out.pc # "idle" /\ ~out.triggered
                         /\ out.addr = c /\ out.host = vpnIps'[c]
    BY Zenon DEF Timed
  <2> QED BY Zenon, <1>1 DEF WorkInv, Timed, Started
<1>6. RecvErrorWorks'
  <2>1. CASE rerr = Nil
    BY Zenon, <2>1 DEF RecvErrorWorks
  <2>2. CASE rerr # Nil
    <3>1. /\ rerr \in Host /\ hh[rerr].index \in Index /\ indexes[hh[rerr].index] # rerr
          /\ hh[rerr].addr \in Addr /\ vpnIps[hh[rerr].addr] # rerr
      BY Zenon, <1>1, <2>2 DEF WorkInv, RecvErrorWorks, Typed
    <3>2. \A b \in Addr : vpnIps[b] # rerr
      BY Zenon, <1>1, <2>2, <3>1 DEF MapInv, PendingLinked
    <3> QED BY Zenon, <1>1, <1>3, <3>1, <3>2 DEF RecvErrorWorks
  <2> QED BY Zenon, <2>1, <2>2
<1>7. ASSUME NEW r \in Reader, rd'[r] = rd[r],
             rd[r].pc \in {"idle", "lock"} \/ rd[r].host # h \/ objs[h] = hh[h]
      PROVE  ReaderOk(r)'
  <2>1. CASE rd[r].pc = "idle"
    BY Zenon, <1>7, <2>1 DEF ReaderOk
  <2>2. CASE rd[r].pc # "idle"
    <3> DEFINE g == rd[r].host
    <3>1. ReaderOk(r) /\ g \in Host /\ hh[g].index \in Index /\ hh[g].addr \in Addr
      BY Zenon, <1>1, <2>2 DEF WorkInv, ReaderWorks, ReaderOk
    <3>2. /\ hh'[g].addr \in Addr /\ hh'[g].index = hh[g].index
          /\ \A b \in Addr : vpnIps'[b] = g => vpnIps[b] = g
      BY Zenon, <1>3, <3>1
    <3>3. rd[r].pc # "lock" => g # h \/ objs[h] = hh[h]
      BY Zenon, <1>7, <2>2
    <3>4. rd[r].pc # "lock" => hh'[g].addr = hh[g].addr /\ hh'[g].lock = hh[g].lock
      BY Zenon, <1>3, <3>1, <3>3
    <3>5. rd[r].pc # "lock" => hh'[g].lock = r
      BY Zenon, <2>2, <3>1, <3>4 DEF ReaderOk
    <3>6. rd[r].pc = "process" => indexes'[hh'[g].index] = g
      BY Zenon, <1>1, <2>2, <3>1, <3>2 DEF ReaderOk
    <3>7. rd[r].pc = "restart" =>
            /\ vpnIps'[hh'[g].addr] # g /\ indexes'[hh'[g].index] # g
            /\ ~(\E a \in Addr : g \in Members(hosts'[a]))
      BY Zenon, <1>1, <2>2, <3>1, <3>2, <3>4 DEF ReaderOk, InMain
    <3> HIDE DEF g
    <3>8. rd'[r].host = g /\ rd'[r].pc = rd[r].pc
      BY Zenon, <1>7 DEF g
    <3> QED BY Zenon, <3>1, <3>2, <3>5, <3>6, <3>7, <3>8 DEF ReaderOk, InMain
  <2> QED BY Zenon, <2>1, <2>2
<1> QED BY Zenon, <1>4, <1>5, <1>6, <1>7

LEMMA continueRestartKeeps ==
  ASSUME HandshakeInv, NEW r \in Reader, NEW b \in Addr, continueRestart(r, b)
  PROVE  HandshakeInv'
<1> DEFINE h == rd[r].host
           objs == [hh EXCEPT ![h].packetStore = {}, ![h].lock = Nil, ![h].addr = b]
<1>1. Typed /\ MapInv /\ WorkInv /\ hh \in [Host -> Objects]
  BY Zenon DEF HandshakeInv, Typed
<1>2. /\ rd[r].pc = "restart" /\ StartHandshake(hh[h].addr, objs, hh[h].packetStore)
      /\ rd' = [rd EXCEPT ![r] = Waiting]
      /\ hosts' = hosts /\ ecmp' = ecmp /\ owed' = owed /\ out' = out /\ snd' = snd
      /\ rerr' = rerr
  BY Zenon DEF continueRestart
<1>3. /\ h \in Host /\ hh[h].addr \in Addr
      /\ \A q \in Reader \ {r} : rd[q].pc \notin {"idle", "lock"} => rd[q].host # h
      /\ out.pc \notin {"idle", "lock"} => out.host # h
  BY Zenon, <1>2, HolderFacts
<1>4. ~InMain(h) /\ vpnIps[hh[h].addr] # h
  BY Zenon, <1>1, <1>2 DEF WorkInv, ReaderWorks, ReaderOk
<1> HIDE DEF h
<1>5. PICK o : o = [hh[h] EXCEPT !.packetStore = {}, !.lock = Nil, !.addr = b]
  OBVIOUS
<1>6. hh[h] \in Objects
  BY Zenon, <1>1, <1>3
<1>7. /\ o \in Objects /\ o.addr = b /\ o.index = hh[h].index
      /\ o.ready = hh[h].ready /\ o.stage0 = hh[h].stage0
      /\ o.counter = hh[h].counter
  BY Zenon, <1>5, <1>6 DEF Objects
<1>8. objs = [hh EXCEPT ![h] = o]
  BY Zenon, <1>1, <1>3, <1>5
<1>9. /\ objs \in [Host -> Objects] /\ objs[h] = o
      /\ \A g \in Host \ {h} : objs[g] = hh[g]
  BY Zenon, <1>1, <1>3, <1>7, <1>8
<1> HIDE DEF objs
<1>10. ~Mapped(h) /\ \A c \in Addr : vpnIps[c] # h
  BY ZenonT(60), <1>1, <1>3, <1>4, NilFacts DEF Mapped, MapInv, PendingLinked
<1>11. hh[h].packetStore \in SUBSET Packet
  BY Zenon, <1>6 DEF Objects
<1>12. Started(objs) /\ MapInv'
  <2>1. \A g \in Host : /\ objs[g].index = hh[g].index /\ objs[g].ready = hh[g].ready
                        /\ objs[g].stage0 = hh[g].stage0
                        /\ objs[g].counter = hh[g].counter
                        /\ Mapped(g) => objs[g].addr = hh[g].addr
    BY Zenon, <1>7, <1>9, <1>10
  <2> QED BY Zenon, <1>1, <1>2, <1>3, <1>9, <1>11, <2>1, StartFacts
<1>13. /\ rd' \in [Reader -> Readings] /\ rd'[r].pc = "idle"
       /\ \A q \in Reader \ {r} : rd'[q] = rd[q]
  BY Zenon, <1>1, <1>2, ReaderStep
<1>14. Typed'
  BY Zenon, <1>1, <1>2, <1>12, <1>13 DEF Typed, Started
<1>15. /\ OutWorks' /\ Timed' /\ RecvErrorWorks'
       /\ \A q \in Reader \ {r} : ReaderOk(q)'
  <2>1. objs[h].addr \in Addr \cup {hh[h].addr}
    BY Zenon, <1>7, <1>9
  <2> QED BY ZenonT(60), <1>2, <1>3, <1>9, <1>10, <1>12, <1>13, <2>1, StartOthers
<1>16. ReaderOk(r)'
  BY Zenon, <1>13 DEF ReaderOk
<1> QED BY Zenon, <1>12, <1>14, <1>15, <1>16 DEF HandshakeInv, WorkInv, ReaderWorks

LEMMA beginHandshakeKeeps ==
  ASSUME HandshakeInv, NEW m \in Stage0, NEW i \in Index, beginHandshake(m, i)
  PROVE  HandshakeInv'
<1>1. Typed /\ MapInv /\ WorkInv /\ hh \in [Host -> Objects]
  BY Zenon DEF HandshakeInv, Typed
<1>2. /\ ~alreadySeen(m) /\ Drawn(i) /\ ~MainIndex(i) /\ indexes[i] = Nil
      /\ ecmp' = markUp(PeerOf[m])
      /\ vpnIps' = vpnIps /\ indexes' = indexes /\ timer' = timer
      /\ trigger' = trigger /\ owed' = owed /\ out' = out /\ rd' = rd
      /\ snd' = snd /\ rerr' = rerr
  BY Zenon DEF beginHandshake, pending, queues, procs
<1>3. PICK h \in Unused :
        /\ hh' = [hh EXCEPT ![h] = [Blank EXCEPT !.addr = PeerOf[m], !.index = i,
                    !.initiator = FALSE, !.stage0 = m, !.time = TimeOf[m]]]
        /\ hosts' = Added(h, PeerOf[m])
  BY Zenon DEF beginHandshake
<1>4. PICK o : o = [Blank EXCEPT !.addr = PeerOf[m], !.index = i,
                     !.initiator = FALSE, !.stage0 = m, !.time = TimeOf[m]]
  OBVIOUS
<1>5. o \in Objects /\ o.addr = PeerOf[m] /\ o.index = i /\ o.stage0 = m
  <2>1. o = [addr |-> PeerOf[m], index |-> i, counter |-> 0, ready |-> FALSE,
             packetStore |-> {}, lock |-> Nil, initiator |-> FALSE,
             stage0 |-> m, time |-> TimeOf[m]]
    BY Zenon, <1>4 DEF Blank
  <2>2. 0 \in 0..Retries /\ PeerOf[m] \in Addr /\ TimeOf[m] \in Time
    BY HandshakeAssumption
  <2> QED BY Zenon, <2>1, <2>2 DEF Objects
<1>6. h \in Host /\ hh[h].addr = Nil /\ hh[h].index = Nil
  <2>1. Blank.addr = Nil /\ Blank.index = Nil
    BY Zenon DEF Blank
  <2> QED BY Zenon, <2>1 DEF Unused
<1>7. /\ hh' \in [Host -> Objects] /\ hh'[h] = o
      /\ \A g \in Host \ {h} : hh'[g] = hh[g]
  BY Zenon, <1>1, <1>3, <1>4, <1>5, <1>6
<1>8. MapInv' /\ hosts' \in [Addr -> Seq(Host)]
  <2>1. \A g \in Host \ {h} : Kept(g)
    BY Zenon, <1>7 DEF Kept, SameId
  <2> QED BY Zenon, <1>1, <1>2, <1>3, <1>5, <1>7, <2>1, MapBegins
<1>9. ecmp' \in [Addr -> {"untracked", "up", "down"}]
  BY Zenon, <1>1, <1>2 DEF Typed, markUp
<1>10. Typed'
  BY Zenon, <1>1, <1>2, <1>7, <1>8, <1>9 DEF Typed
<1>11. \A a \in Addr : Members(hosts'[a]) \subseteq Members(hosts[a]) \cup {h}
  <2>1. PeerOf[m] \in Addr
    BY Zenon, HandshakeAssumption
  <2>2. h \notin Members(hosts[PeerOf[m]])
    <3>1. Nil \notin Addr
      BY Zenon, NilFacts
    <3>2. h \in Members(hosts[PeerOf[m]]) => hh[h].addr = PeerOf[m]
      BY Zenon, <1>1, <2>1 DEF MapInv, MainLinked
    <3> QED BY Zenon, <1>6, <2>1, <3>1, <3>2
  <2> QED BY Zenon, <1>1, <1>3, <1>6, <2>1, <2>2, AddedFacts DEF MapInv
<1>12. OutWorks' /\ Timed'
  <2>1. out.pc # "idle" => out.host \in Host \ {h}
    BY Zenon, <1>1, <1>6, NilFacts DEF WorkInv, OutWorks
  <2> QED BY Zenon, <1>1, <1>2, <1>7, <2>1 DEF WorkInv, OutWorks, Timed
<1>13. RecvErrorWorks'
  <2>1. rerr # Nil => rerr \in Host \ {h}
    BY Zenon, <1>1, <1>6, NilFacts DEF WorkInv, RecvErrorWorks, Typed
  <2> QED BY Zenon, <1>1, <1>2, <1>7, <2>1 DEF WorkInv, RecvErrorWorks
<1>14. ReaderWorks'
  <2> SUFFICES ASSUME NEW r \in Reader, rd[r].pc # "idle" PROVE ReaderOk(r)'
    BY Zenon, <1>2 DEF ReaderWorks, ReaderOk
  <2>1. ReaderOk(r)
    BY Zenon, <1>1 DEF WorkInv, ReaderWorks
  <2>2. rd[r].host \in Host \ {h}
    BY Zenon, <1>6, <2>1, NilFacts DEF ReaderOk
  <2> QED BY Zenon, <1>2, <1>7, <1>11, <2>1, <2>2 DEF ReaderOk, InMain
<1> QED BY Zenon, <1>8, <1>10, <1>12, <1>13, <1>14 DEF HandshakeInv, WorkInv

\* The goroutines after a step that only takes hostinfos out of the main
\* hostmap, or reorders a list.
LEMMA ShrinkOthers ==
  ASSUME HandshakeInv, \A a \in Addr : Members(hosts'[a]) \subseteq Members(hosts[a]),
         vpnIps' = vpnIps, indexes' = indexes, hh' = hh, timer' = timer,
         out' = out, rd' = rd
  PROVE  /\ OutWorks' /\ Timed' /\ ReaderWorks'
         /\ rerr' = rerr => RecvErrorWorks'
<1>1. WorkInv
  BY Zenon DEF HandshakeInv
<1>2. OutWorks' /\ Timed' /\ (rerr' = rerr => RecvErrorWorks')
  BY Zenon, <1>1 DEF WorkInv, OutWorks, Timed, RecvErrorWorks
<1>3. ReaderWorks'
  BY Zenon, <1>1 DEF WorkInv, ReaderWorks, ReaderOk, InMain
<1> QED BY Zenon, <1>2, <1>3

\* DeleteHostInfo of the main hostmap, in handleRecvError and deleteTunnel.
LEMMA RemoveKeeps ==
  ASSUME HandshakeInv, NEW h \in Host, hosts' = Removed(h), vpnIps' = vpnIps,
         indexes' = indexes, hh' = hh
  PROVE  /\ hosts' \in [Addr -> Seq(Host)] /\ MapInv'
         /\ \A a \in Addr : Members(hosts'[a]) \subseteq Members(hosts[a])
<1>1. Typed /\ MapInv
  BY Zenon DEF HandshakeInv
<1>2. /\ hosts' \in [Addr -> Seq(Host)]
      /\ \A a \in Addr : Distinct(hosts'[a]) /\ Members(hosts'[a]) = Members(hosts[a]) \ {h}
  BY Zenon, <1>1, RemovedFacts DEF MapInv
<1>3. ListsDistinct'
  BY Zenon, <1>2 DEF ListsDistinct
<1>4. \A a \in Addr : Members(hosts'[a]) \subseteq Members(hosts[a])
  BY Zenon, <1>2
<1> QED BY Zenon, <1>1, <1>2, <1>3, <1>4, MapShrinks

LEMMA handleRecvErrorKeeps ==
  ASSUME HandshakeInv, NEW h \in Host, handleRecvError(h)
  PROVE  HandshakeInv'
<1>1. Typed /\ MapInv /\ WorkInv
  BY Zenon DEF HandshakeInv
<1>2. /\ InMain(h) /\ hosts' = Removed(h) /\ rerr' = h
      /\ vpnIps' = vpnIps /\ indexes' = indexes /\ hh' = hh /\ timer' = timer
      /\ trigger' = trigger /\ ecmp' = ecmp /\ owed' = owed /\ out' = out
      /\ rd' = rd /\ snd' = snd
  BY Zenon DEF handleRecvError, pending, queues
<1>3. /\ hosts' \in [Addr -> Seq(Host)] /\ MapInv'
      /\ \A a \in Addr : Members(hosts'[a]) \subseteq Members(hosts[a])
  BY Zenon, <1>2, RemoveKeeps
<1>4. Typed'
  BY Zenon, <1>1, <1>2, <1>3 DEF Typed
<1>5. OutWorks' /\ Timed' /\ ReaderWorks'
  BY Zenon, <1>2, <1>3, ShrinkOthers
<1>6. RecvErrorWorks'
  <2>1. PICK a \in Addr : h \in Members(hosts[a])
    BY Zenon, <1>2 DEF InMain
  <2>2. /\ hh[h].addr = a /\ vpnIps[a] # h
        /\ hh[h].index \in Index /\ indexes[hh[h].index] = Nil
    BY Zenon, <1>1, <2>1 DEF MapInv, MainLinked
  <2>3. h # Nil
    BY Zenon, NilFacts
  <2> QED BY Zenon, <1>2, <2>1, <2>2, <2>3 DEF RecvErrorWorks
<1> QED BY Zenon, <1>3, <1>4, <1>5, <1>6 DEF HandshakeInv, WorkInv

LEMMA recvErrorDeleteKeeps ==
  ASSUME HandshakeInv, recvErrorDelete
  PROVE  HandshakeInv'
<1>1. Typed /\ MapInv /\ WorkInv
  BY Zenon DEF HandshakeInv
<1>2. /\ rerr # Nil /\ unlockedDeleteHostInfo(rerr) /\ rerr' = Nil
      /\ hosts' = hosts /\ hh' = hh /\ timer' = timer
      /\ trigger' = trigger /\ ecmp' = ecmp /\ owed' = owed /\ out' = out
      /\ rd' = rd /\ snd' = snd
  BY Zenon DEF recvErrorDelete, queues
<1>3. /\ rerr \in Host /\ hh[rerr].index \in Index /\ indexes[hh[rerr].index] # rerr
      /\ hh[rerr].addr \in Addr /\ vpnIps[hh[rerr].addr] # rerr
  BY Zenon, <1>1, <1>2 DEF WorkInv, RecvErrorWorks, Typed
<1>4. Released(rerr)
  BY Zenon, <1>1, <1>2, <1>3, ReleasedFacts
<1>5. /\ \A a \in Addr : vpnIps[a] # rerr
      /\ \A i \in Index : indexes[i] # rerr
  <2>1. \A a \in Addr : vpnIps[a] = rerr => hh[rerr].addr = a
    BY Zenon, <1>1, <1>2 DEF MapInv, PendingLinked
  <2>2. \A i \in Index : indexes[i] = rerr => hh[rerr].index = i
    BY Zenon, <1>1, <1>2 DEF MapInv, IndexLinked
  <2> QED BY Zenon, <1>3, <2>1, <2>2
<1>6. vpnIps' = vpnIps /\ indexes' = indexes
  <2>1. /\ vpnIps \in [Addr -> Host \cup {Nil}] /\ vpnIps' \in [Addr -> Host \cup {Nil}]
        /\ \A a \in Addr : vpnIps'[a] = vpnIps[a]
    BY Zenon, <1>1, <1>4, <1>5 DEF Typed, Released
  <2>2. /\ indexes \in [Index -> Host \cup {Nil}] /\ indexes' \in [Index -> Host \cup {Nil}]
        /\ \A i \in Index : indexes'[i] = indexes[i]
    BY Zenon, <1>1, <1>4, <1>5 DEF Typed, Released
  <2> QED BY <2>1, <2>2
<1>7. Typed'
  BY Zenon, <1>1, <1>2, <1>6 DEF Typed
<1>8. MapInv'
  BY Zenon, <1>1, <1>2, <1>3, <1>6, SameTouched, MapStays
<1>9. OutWorks' /\ Timed' /\ ReaderWorks'
  BY Zenon, <1>2, <1>6, ShrinkOthers
<1>10. RecvErrorWorks'
  BY Zenon, <1>2 DEF RecvErrorWorks
<1> QED BY Zenon, <1>7, <1>8, <1>9, <1>10 DEF HandshakeInv, WorkInv

LEMMA deleteTunnelKeeps ==
  ASSUME HandshakeInv, NEW h \in Host, deleteTunnel(h)
  PROVE  HandshakeInv'
<1>1. Typed /\ MapInv /\ WorkInv
  BY Zenon DEF HandshakeInv
<1>2. /\ hosts' = Removed(h) /\ ecmp' \in {ecmp, markDown(hh[h].addr)}
      /\ vpnIps' = vpnIps /\ indexes' = indexes /\ hh' = hh /\ timer' = timer
      /\ trigger' = trigger /\ owed' = owed /\ out' = out
      /\ rd' = rd /\ snd' = snd /\ rerr' = rerr
  BY Zenon DEF deleteTunnel, pending, queues, procs
<1>3. /\ hosts' \in [Addr -> Seq(Host)] /\ MapInv'
      /\ \A a \in Addr : Members(hosts'[a]) \subseteq Members(hosts[a])
  BY Zenon, <1>2, RemoveKeeps
<1>4. ecmp' \in [Addr -> {"untracked", "up", "down"}]
  BY Zenon, <1>1, <1>2 DEF Typed, markDown
<1>5. Typed'
  BY Zenon, <1>1, <1>2, <1>3, <1>4 DEF Typed
<1>6. OutWorks' /\ Timed' /\ ReaderWorks' /\ RecvErrorWorks'
  BY Zenon, <1>2, <1>3, ShrinkOthers
<1> QED BY Zenon, <1>3, <1>5, <1>6 DEF HandshakeInv, WorkInv

LEMMA swapsPrimaryKeeps ==
  ASSUME HandshakeInv, NEW h \in Host, swapsPrimary(h)
  PROVE  HandshakeInv'
<1> DEFINE a == hh[h].addr
           new == <<h>> \o Removed(h)[a]
<1>1. Typed /\ MapInv /\ WorkInv
  BY Zenon DEF HandshakeInv
<1>2. /\ InMain(h) /\ hosts' = [hosts EXCEPT ![a] = new] /\ ecmp' = ecmp
      /\ vpnIps' = vpnIps /\ indexes' = indexes /\ hh' = hh /\ timer' = timer
      /\ trigger' = trigger /\ owed' = owed /\ out' = out
      /\ rd' = rd /\ snd' = snd /\ rerr' = rerr
  BY Zenon DEF swapsPrimary, pending, queues, procs
<1>3. a \in Addr /\ h \in Members(hosts[a])
  BY Zenon, <1>1, <1>2 DEF InMain, MapInv, MainLinked
<1>4. /\ Removed(h)[a] \in Seq(Host) /\ Distinct(Removed(h)[a])
      /\ Members(Removed(h)[a]) = Members(hosts[a]) \ {h}
  BY Zenon, <1>1, <1>3, RemovedFacts DEF MapInv
<1>5. /\ new \in Seq(Host) /\ Distinct(new)
      /\ Members(new) = (Members(hosts[a]) \ {h}) \cup {h}
  BY Zenon, <1>4, FrontFacts
<1> HIDE DEF a, new
<1>6. /\ hosts' \in [Addr -> Seq(Host)] /\ hosts'[a] = new
      /\ \A b \in Addr \ {a} : hosts'[b] = hosts[b]
  BY Zenon, <1>1, <1>2, <1>3, <1>5 DEF Typed
<1>7. \A b \in Addr : Members(hosts'[b]) \subseteq Members(hosts[b])
  BY Zenon, <1>3, <1>5, <1>6
<1>8. ListsDistinct'
  BY Zenon, <1>1, <1>5, <1>6 DEF MapInv, ListsDistinct
<1>9. MapInv'
  BY Zenon, <1>1, <1>2, <1>7, <1>8, MapShrinks
<1>10. Typed'
  BY Zenon, <1>1, <1>2, <1>6 DEF Typed
<1>11. OutWorks' /\ Timed' /\ ReaderWorks' /\ RecvErrorWorks'
  BY Zenon, <1>2, <1>7, ShrinkOthers
<1> QED BY Zenon, <1>9, <1>10, <1>11 DEF HandshakeInv, WorkInv

LEMMA CollectKeeps ==
  ASSUME HandshakeInv, NEW h \in Host, Collect(h)
  PROVE  HandshakeInv'
<1>1. Typed /\ MapInv /\ WorkInv /\ hh \in [Host -> Objects]
  BY Zenon DEF HandshakeInv, Typed
<1>2. /\ ~Referenced(h) /\ hh' = [hh EXCEPT ![h] = Blank]
      /\ vpnIps' = vpnIps /\ indexes' = indexes /\ hosts' = hosts /\ ecmp' = ecmp
      /\ timer' = timer /\ trigger' = trigger /\ owed' = owed /\ out' = out
      /\ rd' = rd /\ snd' = snd /\ rerr' = rerr
  BY Zenon DEF Collect, pending, queues, procs
<1>3. Blank \in Objects /\ Blank.index = Nil
  <2>1. 0 \in 0..Retries
    BY HandshakeAssumption
  <2> QED BY Zenon, <2>1 DEF Objects, Blank
<1>4. /\ hh' \in [Host -> Objects] /\ hh'[h] = Blank
      /\ \A g \in Host \ {h} : hh'[g] = hh[g]
  BY Zenon, <1>1, <1>2, <1>3
<1>5. /\ ~Mapped(h) /\ out.host # h /\ rerr # h
      /\ \A r \in Reader : rd[r].host # h
  BY Zenon, <1>2 DEF Referenced, Mapped
<1>6. MapInv'
  <2>1. \A g \in Host : Kept(g)
    BY Zenon, <1>3, <1>4, <1>5 DEF Kept, SameId
  <2> QED BY Zenon, <1>1, <1>2, <2>1, MapStays
<1>7. Typed'
  BY Zenon, <1>1, <1>2, <1>4 DEF Typed
<1>8. OutWorks' /\ Timed'
  BY Zenon, <1>1, <1>2, <1>4, <1>5 DEF WorkInv, OutWorks, Timed
<1>9. RecvErrorWorks'
  <2>1. rerr # Nil => rerr \in Host
    BY Zenon, <1>1 DEF Typed
  <2> QED BY Zenon, <1>1, <1>2, <1>4, <1>5, <2>1 DEF WorkInv, RecvErrorWorks
<1>10. ReaderWorks'
  <2> SUFFICES ASSUME NEW r \in Reader, rd[r].pc # "idle" PROVE ReaderOk(r)'
    BY Zenon, <1>2 DEF ReaderWorks, ReaderOk
  <2>1. ReaderOk(r)
    BY Zenon, <1>1 DEF WorkInv, ReaderWorks
  <2> QED BY Zenon, <1>2, <1>4, <1>5, <2>1 DEF ReaderOk, InMain
<1> QED BY Zenon, <1>6, <1>7, <1>8, <1>9, <1>10 DEF HandshakeInv, WorkInv

-----------------------------------------------------------------------------
(* The inside readers, and what the other parts of the node do.            *)

\* A step that touches only the queues, the gateways' states and the senders.
LEMMA AsideKeeps ==
  ASSUME HandshakeInv, vpnIps' = vpnIps, indexes' = indexes, hosts' = hosts, hh' = hh,
         timer' = timer, out' = out, rd' = rd, rerr' = rerr, Typed'
  PROVE  HandshakeInv'
<1>1. Typed /\ MapInv
  BY Zenon DEF HandshakeInv
<1>2. MapInv'
  <2>1. \A g \in Host : Kept(g)
    BY Zenon DEF Kept, SameId
  <2> QED BY Zenon, <1>1, <2>1, MapStays
<1>3. OutWorks' /\ Timed' /\ ReaderWorks' /\ RecvErrorWorks'
  BY Zenon, ShrinkOthers
<1> QED BY Zenon, <1>2, <1>3 DEF HandshakeInv, WorkInv

LEMMA GetOrHandshakeKeeps ==
  ASSUME HandshakeInv, NEW s \in Sender, NEW a \in Called, NEW p \in Packet,
         GetOrHandshake(s, a, p)
  PROVE  HandshakeInv'
<1> DEFINE x == [pc |-> "start", addr |-> a, packet |-> p]
<1>1. Typed /\ a \in Addr /\ snd \in [Sender -> Sendings]
  BY Zenon, HandshakeAssumption DEF HandshakeInv, Typed
<1>2. /\ snd' = [snd EXCEPT ![s] = x]
      /\ vpnIps' = vpnIps /\ indexes' = indexes /\ hosts' = hosts /\ hh' = hh
      /\ timer' = timer /\ trigger' = trigger /\ ecmp' = ecmp /\ owed' = owed
      /\ out' = out /\ rd' = rd /\ rerr' = rerr
  BY Zenon DEF GetOrHandshake, pending, queues
<1>3. x \in Sendings /\ x.addr \in Addr /\ x.packet \in Packet
  BY Zenon, <1>1 DEF Sendings
<1> HIDE DEF x
<1>4. /\ snd' \in [Sender -> Sendings] /\ snd'[s] = x
      /\ \A t \in Sender \ {s} : snd'[t] = snd[t]
  BY Zenon, <1>1, <1>2, <1>3
<1>5. Typed'
  BY Zenon, <1>1, <1>2, <1>3, <1>4 DEF Typed
<1> QED BY Zenon, <1>2, <1>5, AsideKeeps

LEMMA handleHostQueryReplyKeeps ==
  ASSUME HandshakeInv, NEW a \in Called, handleHostQueryReply(a)
  PROVE  HandshakeInv'
<1>1. Typed /\ a \in Addr
  BY Zenon, HandshakeAssumption DEF HandshakeInv
<1>2. /\ trigger' = Triggered(a)
      /\ vpnIps' = vpnIps /\ indexes' = indexes /\ hosts' = hosts /\ hh' = hh
      /\ timer' = timer /\ ecmp' = ecmp /\ owed' = owed
      /\ out' = out /\ rd' = rd /\ rerr' = rerr /\ snd' = snd
  BY Zenon DEF handleHostQueryReply, pending, procs
<1>3. Typed'
  BY Zenon, <1>1, <1>2, TriggerFits DEF Typed
<1> QED BY Zenon, <1>2, <1>3, AsideKeeps

LEMMA isUpKeeps ==
  ASSUME HandshakeInv, NEW a \in Called, isUp(a)
  PROVE  HandshakeInv'
<1>1. Typed /\ a \in Addr
  BY Zenon, HandshakeAssumption DEF HandshakeInv
<1>2. /\ ecmp' = [ecmp EXCEPT ![a] = "up"]
      /\ vpnIps' = vpnIps /\ indexes' = indexes /\ hosts' = hosts /\ hh' = hh
      /\ timer' = timer /\ trigger' = trigger /\ owed' = owed
      /\ out' = out /\ rd' = rd /\ rerr' = rerr /\ snd' = snd
  BY Zenon DEF isUp, pending, queues, procs
<1>3. ecmp' \in [Addr -> {"untracked", "up", "down"}]
  BY Zenon, <1>1, <1>2 DEF Typed
<1>4. Typed'
  BY Zenon, <1>1, <1>2, <1>3 DEF Typed
<1> QED BY Zenon, <1>2, <1>4, AsideKeeps

\* A StartHandshake whose caller has left the objects alone.
LEMMA PlainStart ==
  ASSUME HandshakeInv, NEW a \in Addr, NEW store \in SUBSET Packet,
         StartHandshake(a, hh, store), hosts' = hosts, out' = out, rd' = rd,
         rerr' = rerr
  PROVE  Started(hh) /\ MapInv' /\ WorkInv'
<1>1. Typed /\ MapInv /\ hh \in [Host -> Objects]
  BY Zenon DEF HandshakeInv, Typed
<1>2. Started(hh) /\ MapInv'
  BY Zenon, <1>1, StartFacts
<1>3. OutWorks' /\ Timed' /\ RecvErrorWorks' /\ \A r \in Reader : ReaderOk(r)'
  BY Zenon, <1>1, <1>2, StartOthers
<1> QED BY Zenon, <1>2, <1>3 DEF WorkInv, ReaderWorks

\* The packets of a pending handshake are packets.
LEMMA StoreFacts ==
  ASSUME Typed, NEW a \in Addr
  PROVE  PendingStore(a) \in SUBSET Packet
<1>1. vpnIps[a] # Nil => hh[vpnIps[a]] \in Objects
  BY Zenon DEF Typed
<1> QED BY Zenon, <1>1 DEF PendingStore, Objects

LEMMA senderStartKeeps ==
  ASSUME HandshakeInv, NEW s \in Sender, senderStart(s)
  PROVE  HandshakeInv'
<1> DEFINE a == snd[s].addr
           p == snd[s].packet
           store == cachePacket(PendingStore(a), p)
<1>1. Typed /\ snd \in [Sender -> Sendings]
  BY Zenon DEF HandshakeInv, Typed
<1>2. /\ snd[s].pc = "start" /\ StartHandshake(a, hh, store)
      /\ owed' = owed \cup (store \cap {p}) /\ snd' = [snd EXCEPT ![s] = Quiet]
      /\ hosts' = hosts /\ ecmp' = ecmp /\ out' = out /\ rd' = rd /\ rerr' = rerr
  BY Zenon DEF senderStart
<1>3. a \in Addr /\ p \in Packet
  BY Zenon, <1>1, <1>2 DEF Typed
<1>4. store \in SUBSET Packet
  BY Zenon, <1>1, <1>3, StoreFacts DEF cachePacket
<1> HIDE DEF store
<1>5. Started(hh) /\ MapInv' /\ WorkInv'
  BY Zenon, <1>2, <1>3, <1>4, PlainStart
<1>6. Quiet \in Sendings /\ Quiet.pc = "idle"
  BY Zenon DEF Quiet, Sendings
<1>7. /\ snd' \in [Sender -> Sendings] /\ snd'[s] = Quiet
      /\ \A t \in Sender \ {s} : snd'[t] = snd[t]
  BY Zenon, <1>1, <1>2, <1>6
<1>8. owed' \in SUBSET Packet
  BY Zenon, <1>1, <1>2, <1>4 DEF Typed
<1>9. Typed'
  BY Zenon, <1>1, <1>2, <1>5, <1>6, <1>7, <1>8 DEF Typed, Started
<1> QED BY Zenon, <1>5, <1>9 DEF HandshakeInv

LEMMA startRehandshakeKeeps ==
  ASSUME HandshakeInv, NEW a \in Called, startRehandshake(a)
  PROVE  HandshakeInv'
<1>1. Typed /\ a \in Addr
  BY Zenon, HandshakeAssumption DEF HandshakeInv
<1>2. /\ StartHandshake(a, hh, PendingStore(a))
      /\ hosts' = hosts /\ ecmp' = ecmp /\ out' = out /\ rd' = rd /\ rerr' = rerr
      /\ snd' = snd /\ owed' = owed
  BY Zenon DEF startRehandshake, procs
<1>3. Started(hh) /\ MapInv' /\ WorkInv'
  BY Zenon, <1>1, <1>2, StoreFacts, PlainStart
<1>4. Typed'
  BY Zenon, <1>1, <1>2, <1>3 DEF Typed, Started
<1> QED BY Zenon, <1>3, <1>4 DEF HandshakeInv

-----------------------------------------------------------------------------
(* The theorems.                                                           *)

LEMMA InitKeeps ==
  ASSUME Init
  PROVE  HandshakeInv
<1>1. Blank \in Objects /\ Blank.index = Nil
  <2>1. 0 \in 0..Retries
    BY HandshakeAssumption
  <2> QED BY Zenon, <2>1 DEF Objects, Blank
<1>2. /\ Idle \in Outbounds /\ Idle.pc = "idle" /\ Waiting \in Readings
      /\ Waiting.pc = "idle" /\ Quiet \in Sendings /\ Quiet.pc = "idle"
  BY Zenon DEF Idle, Outbounds, Waiting, Readings, Quiet, Sendings
<1>3. /\ vpnIps = [a \in Addr |-> Nil] /\ indexes = [i \in Index |-> Nil]
      /\ hosts = [a \in Addr |-> <<>>] /\ hh = [h \in Host |-> Blank]
      /\ timer = [a \in Addr |-> 0] /\ trigger = <<>>
      /\ ecmp = [a \in Addr |-> "untracked"] /\ owed = {}
      /\ out = Idle /\ rd = [r \in Reader |-> Waiting]
      /\ snd = [s \in Sender |-> Quiet] /\ rerr = Nil
  BY Zenon DEF Init
<1>4. Typed
  <2>1. /\ vpnIps \in [Addr -> Host \cup {Nil}] /\ indexes \in [Index -> Host \cup {Nil}]
        /\ hosts \in [Addr -> Seq(Host)] /\ timer \in [Addr -> Nat]
        /\ ecmp \in [Addr -> {"untracked", "up", "down"}]
    BY <1>3
  <2>2. /\ hh \in [Host -> Objects] /\ rd \in [Reader -> Readings] /\ snd \in [Sender -> Sendings]
        /\ \A s \in Sender : snd[s] = Quiet
    BY Zenon, <1>1, <1>2, <1>3
  <2>3. trigger \in Triggers
    BY <1>3, HandshakeAssumption DEF Triggers
  <2> QED BY Zenon, <1>2, <1>3, <2>1, <2>2, <2>3 DEF Typed
<1>5. \A a \in Addr : Members(hosts[a]) = {} /\ Distinct(hosts[a])
  BY <1>3 DEF Members, Distinct
<1>6. MapInv
  BY Zenon, <1>1, <1>3, <1>5 DEF MapInv, MainLinked, ListsDistinct, PendingLinked, IndexLinked,
     IndexOwn, SeenDistinct
<1>7. WorkInv
  BY Zenon, <1>2, <1>3 DEF WorkInv, OutWorks, ReaderWorks, ReaderOk, RecvErrorWorks, Timed
<1> QED BY Zenon, <1>4, <1>6, <1>7 DEF HandshakeInv

LEMMA NextKeeps ==
  ASSUME HandshakeInv, [Next]_vars
  PROVE  HandshakeInv'
<1>1. ASSUME Outbound PROVE HandshakeInv'
  BY Zenon, <1>1, handleOutboundKeeps, outboundLockKeeps, outboundMarkDownKeeps,
     outboundDeleteKeeps, outboundAttemptKeeps DEF Outbound
<1>2. ASSUME NEW r \in Reader, Continue(r) PROVE HandshakeInv'
  BY Zenon, <1>2, continueLockKeeps, continueIgnoreKeeps, continueAbandonKeeps,
     CompleteKeeps, continueFlushKeeps, continueWrongHostKeeps, continueRestartKeeps
     DEF Continue
<1>3. ASSUME NEW h \in Host,
             handleRecvError(h) \/ deleteTunnel(h) \/ swapsPrimary(h) \/ Collect(h)
      PROVE  HandshakeInv'
  BY Zenon, <1>3, handleRecvErrorKeeps, deleteTunnelKeeps, swapsPrimaryKeeps,
     CollectKeeps
<1>4. ASSUME NEW a \in Called, startRehandshake(a) \/ handleHostQueryReply(a) \/ isUp(a)
      PROVE  HandshakeInv'
  BY Zenon, <1>4, startRehandshakeKeeps, handleHostQueryReplyKeeps, isUpKeeps
<1>5. CASE UNCHANGED vars
  <2>1. /\ vpnIps' = vpnIps /\ indexes' = indexes /\ hosts' = hosts /\ hh' = hh
        /\ timer' = timer /\ trigger' = trigger /\ ecmp' = ecmp /\ owed' = owed
        /\ out' = out /\ rd' = rd /\ snd' = snd /\ rerr' = rerr
    BY Zenon, <1>5 DEF vars
  <2>2. Typed'
    BY Zenon, <2>1 DEF HandshakeInv, Typed
  <2> QED BY Zenon, <2>1, <2>2, AsideKeeps
<1> QED BY Zenon, <1>1, <1>2, <1>3, <1>4, <1>5, HandleIncomingKeeps,
        beginHandshakeKeeps, recvErrorDeleteKeeps, GetOrHandshakeKeeps, senderStartKeeps
        DEF Next

\* The inductive invariant of the handshake manager.
THEOREM HandshakeInvariant == Spec => []HandshakeInv
<1>1. Init => HandshakeInv
  BY Zenon, InitKeeps
<1>2. HandshakeInv /\ [Next]_vars => HandshakeInv'
  BY Zenon, NextKeeps
<1> QED BY <1>1, <1>2, PTL DEF Spec

\* No pending handshake is forgotten: it is found by its address and, once it
\* has a message, by its index, no tunnel has that index, and handleOutbound
\* will try it again.
THEOREM HandshakePendingKept == Spec => []PendingKept
<1>1. HandshakeInv => PendingKept
  <2> SUFFICES ASSUME HandshakeInv PROVE PendingKept
    OBVIOUS
  <2>1. Typed /\ MapInv /\ WorkInv
    BY Zenon DEF HandshakeInv
  <2>2. TypeOK
    <3>1. \A a \in Addr : \A k \in DOMAIN hosts[a] : hosts[a][k] \in Host
      BY <2>1 DEF Typed
    <3>2. out.pc \in {"idle", "lock", "expire", "delete", "attempt"}
      BY Zenon, <2>1 DEF Typed, Outbounds
    <3>3. \A r \in Reader : rd[r].pc \in {"idle", "lock", "process", "flush", "restart"}
      BY Zenon, <2>1 DEF Typed, Readings
    <3> QED BY Zenon, <2>1, <3>1, <3>2, <3>3 DEF Typed, Triggers, TypeOK
  <2>3. PendingHasTimer
    BY Zenon, <2>1 DEF WorkInv, Timed, PendingHasTimer
  <2>4. PendingMapsAgree
    <3>1. \A i \in Index : indexes[i] # Nil => ~MainIndex(i)
      <4> SUFFICES ASSUME NEW i \in Index, NEW a \in Addr, NEW h \in Members(hosts[a]),
                          hh[h].index = i
                   PROVE  indexes[i] = Nil
        BY Zenon DEF MainIndex
      <4> QED BY Zenon, <2>1 DEF MapInv, MainLinked
    <3>2. \A i \in Index : indexes[i] # Nil =>
            hh[indexes[i]].index = i /\ vpnIps[hh[indexes[i]].addr] = indexes[i]
      BY Zenon, <2>1 DEF MapInv, IndexLinked
    <3>3. \A a \in Addr : vpnIps[a] # Nil =>
            /\ hh[vpnIps[a]].addr = a
            /\ hh[vpnIps[a]].ready => indexes[hh[vpnIps[a]].index] = vpnIps[a]
      BY Zenon, <2>1 DEF MapInv, PendingLinked
    <3> QED BY Zenon, <3>1, <3>2, <3>3 DEF PendingMapsAgree
  <2> QED BY Zenon, <2>2, <2>3, <2>4 DEF PendingKept
<1> QED BY <1>1, HandshakeInvariant, PTL

\* What continueHandshake has verified under hh.Lock stays so while it
\* processes the answer: no deleter takes the hostinfo away.
THEOREM HandshakeVerified == Spec => []VerifiedStaysPending
<1>1. HandshakeInv => VerifiedStaysPending
  BY Zenon DEF HandshakeInv, WorkInv, ReaderWorks, ReaderOk, VerifiedStaysPending
<1> QED BY <1>1, HandshakeInvariant, PTL

\* CheckAndComplete makes at most one tunnel for a first message.
THEOREM HandshakeSeenOnce == Spec => []SeenOnce
<1>1. HandshakeInv => SeenOnce
  <2> SUFFICES ASSUME HandshakeInv, NEW a \in Addr, NEW j \in DOMAIN hosts[a],
                      NEW k \in DOMAIN hosts[a], j # k,
                      hh[hosts[a][j]].stage0 # Nil
               PROVE  hh[hosts[a][j]].stage0 # hh[hosts[a][k]].stage0
    BY Zenon DEF SeenOnce
  <2>1. hosts[a][j] # hosts[a][k]
    BY Zenon DEF HandshakeInv, MapInv, ListsDistinct, Distinct
  <2>2. hosts[a][j] \in Members(hosts[a]) /\ hosts[a][k] \in Members(hosts[a])
    BY Zenon DEF Members
  <2> QED BY Zenon, <2>1, <2>2 DEF HandshakeInv, MapInv, SeenDistinct
<1> QED BY <1>1, HandshakeInvariant, PTL
=============================================================================
