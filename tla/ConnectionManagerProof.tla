----------------------- MODULE ConnectionManagerProof ------------------------
(***************************************************************************)
(* Proofs about ConnectionManager for any set of tunnels, any number of    *)
(* losses and any amount of traffic in flight.                             *)
(*                                                                         *)
(* Neither TunnelsChecked nor DeadIsDead is inductive.  The first needs    *)
(* that no tunnel is listed before, or listed again after, its handshake.  *)
(* The second needs to follow a test packet: as long as the peer has the   *)
(* tunnel, the test, its answer or other traffic is on the way, or has     *)
(* arrived since the flags were last cleared.                              *)
(***************************************************************************)
EXTENDS ConnectionManager, FiniteSetTheorems, TLAPS

Distinct(list) == \A j, k \in DOMAIN list : list[j] = list[k] => j = k

Decisions ==
  [what : {"doNothing", "deleteTunnel", "closeTunnel", "swapPrimary",
           "sendTestPacket"},
   tunnel : Tunnel \cup {NoTunnel}, primary : Tunnel \cup {NoTunnel}]

\* The variables have their types, and a decision is about a tunnel.
ManagerTyped ==
  /\ tunnels \in [Node -> Seq(Tunnel)]
  /\ stateIn \in [Node -> SUBSET Tunnel] /\ stateOut \in [Node -> SUBSET Tunnel]
  /\ pendingDeletion \in [Node -> SUBSET Tunnel]
  /\ trafficTimer \in [Node -> SUBSET Tunnel] /\ tested \in [Node -> SUBSET Tunnel]
  /\ decision \in [Node -> Decisions] /\ net \in SUBSET Message
  /\ answered \in [Tunnel -> Node \cup {"no", "done"}]
  /\ losses \in 0..MaxLosses
  /\ \A n \in Node : decision[n].what # "doNothing" => decision[n].tunnel \in Tunnel

\* A tunnel is listed once.
ListedOnce == \A n \in Node : Distinct(tunnels[n])

\* It is not listed before its handshake is answered, nor by the peer before
\* it is completed.
ListedAfterHandshake ==
  \A t \in Tunnel :
    /\ answered[t] = "no" => \A n \in Node : t \notin Members(tunnels[n])
    /\ answered[t] \in Node => t \notin Members(tunnels[Peer(answered[t])])

\* Only listed tunnels have flags.
FlagsListed ==
  \A n \in Node :
    /\ stateIn[n] \subseteq Members(tunnels[n])
    /\ stateOut[n] \subseteq Members(tunnels[n])
    /\ pendingDeletion[n] \subseteq Members(tunnels[n])
    /\ tested[n] \subseteq Members(tunnels[n])

Checked ==
  \A n \in Node : \A t \in Members(tunnels[n]) :
    \/ t \in trafficTimer[n]
    \/ /\ decision[n].tunnel = t
       /\ decision[n].what \in {"closeTunnel", "deleteTunnel"}

\* A tunnel is tested when its handshake is over on both sides.
TestedAfterHandshake ==
  \A n \in Node :
    /\ \A t \in tested[n] : answered[t] = "done"
    /\ decision[n].what = "sendTestPacket" => answered[decision[n].tunnel] = "done"

\* Traffic that will set the tunnel's inbound flag at n if the peer has it.
Coming(n, t) ==
  \E m \in net : /\ m.tunnel = t
                 /\ \/ m.to = Peer(n) /\ m.kind = "test"
                    \/ m.to = n /\ m.kind \in {"data", "test"}

\* A tunnel that was tested and that the peer has was heard, or will be.
TestHeard ==
  losses = 0 =>
    \A n \in Node : \A t \in tested[n] :
      t \in Members(tunnels[Peer(n)]) => t \in stateIn[n] \/ Coming(n, t)

Dead ==
  losses = 0 =>
    \A n \in Node :
      /\ decision[n].what = "deleteTunnel"
      /\ decision[n].tunnel \in tested[n] \ Spendable
      => decision[n].tunnel \notin Members(tunnels[Peer(n)])

ListInv ==
  /\ ManagerTyped /\ ListedOnce /\ ListedAfterHandshake /\ FlagsListed /\ Checked

TestInv == TestedAfterHandshake /\ TestHeard /\ Dead

-----------------------------------------------------------------------------
(* Lists, and the two nodes.                                               *)

\* Without cuts one entry out of a list without duplicates and keeps the
\* others.
LEMMA WithoutFacts ==
  ASSUME NEW s \in Seq(Tunnel), NEW t, Distinct(s)
  PROVE  /\ Without(s, t) \in Seq(Tunnel)
         /\ Distinct(Without(s, t))
         /\ Members(Without(s, t)) = Members(s) \ {t}
<1> DEFINE r == Without(s, t)
<1>1. CASE t \notin Members(s)
  BY Zenon, <1>1 DEF Without
<1>2. CASE t \in Members(s)
  <2> DEFINE kk == CHOOSE k \in DOMAIN s : s[k] = t
  <2>1. kk \in 1..Len(s) /\ s[kk] = t
    BY <1>2 DEF Members
  <2>2. r = [i \in 1..(Len(s) - 1) |-> IF i < kk THEN s[i] ELSE s[i + 1]]
    BY Zenon, <1>2 DEF Without
  <2> HIDE DEF kk, r
  <2>3. Len(s) \in Nat /\ Len(s) >= 1
    BY <2>1
  <2>4. /\ r \in Seq(Tunnel) /\ DOMAIN r = 1..(Len(s) - 1)
        /\ DOMAIN s = 1..Len(s)
    BY <2>1, <2>2, <2>3
  <2>5. Distinct(r)
    <3>1. SUFFICES ASSUME NEW i \in 1..(Len(s) - 1), NEW j \in 1..(Len(s) - 1),
                          r[i] = r[j]
                   PROVE  i = j
      BY Zenon, <2>4 DEF Distinct
    <3> DEFINE up(x) == IF x < kk THEN x ELSE x + 1
    <3>2. /\ up(i) \in DOMAIN s /\ up(j) \in DOMAIN s
          /\ s[up(i)] = s[up(j)]
      BY <2>1, <2>2, <2>3, <2>4, <3>1
    <3>3. up(i) = up(j)
      BY Zenon, <3>2 DEF Distinct
    <3> QED BY <3>3, <2>1, <2>3
  <2>6. Members(r) \subseteq Members(s) \ {t}
    BY <2>1, <2>2, <2>3, <2>4 DEF Members, Distinct
  <2>7. ASSUME NEW u \in Members(s) \ {t} PROVE u \in Members(r)
    <3>1. PICK i \in 1..Len(s) : s[i] = u
      BY DEF Members
    <3>2. CASE i < kk
      <4>1. i \in 1..(Len(s) - 1) /\ r[i] = u
        BY <2>1, <2>2, <2>3, <3>1, <3>2
      <4> QED BY Zenon, <4>1, <2>4 DEF Members
    <3>3. CASE i > kk
      <4>1. i - 1 \in 1..(Len(s) - 1) /\ r[i - 1] = u
        BY <2>1, <2>2, <2>3, <3>1, <3>3
      <4> QED BY Zenon, <4>1, <2>4 DEF Members
    <3> QED BY <2>1, <3>1, <3>2, <3>3
  <2> QED BY Zenon, <2>4, <2>5, <2>6, <2>7 DEF r
<1> QED BY Zenon, <1>1, <1>2

\* A new entry at the front of a list.
LEMMA FrontFacts ==
  ASSUME NEW s \in Seq(Tunnel), NEW t \in Tunnel, Distinct(s), t \notin Members(s)
  PROVE  /\ <<t>> \o s \in Seq(Tunnel)
         /\ Distinct(<<t>> \o s)
         /\ Members(<<t>> \o s) = Members(s) \cup {t}
<1> DEFINE r == <<t>> \o s
<1>1. /\ r \in Seq(Tunnel) /\ Len(s) \in Nat /\ DOMAIN s = 1..Len(s)
      /\ DOMAIN r = 1..(Len(s) + 1)
      /\ r[1] = t
      /\ \A i \in 1..Len(s) : r[i + 1] = s[i]
  OBVIOUS
<1> HIDE DEF r
<1>2. \A i \in DOMAIN r : i = 1 \/ (i - 1 \in DOMAIN s /\ r[i] = s[i - 1])
  <2>1. TAKE i \in DOMAIN r
  <2>2. CASE i # 1
    <3>1. i - 1 \in 1..Len(s) /\ r[(i - 1) + 1] = s[i - 1]
      BY <1>1, <2>2
    <3> QED BY <3>1, <1>1
  <2> QED BY Zenon, <2>2
<1>3. Distinct(r)
  BY <1>1, <1>2 DEF Distinct, Members
<1>4. Members(r) \subseteq Members(s) \cup {t}
  BY <1>1, <1>2 DEF Members
<1>5. ASSUME NEW u \in Members(s) PROVE u \in Members(r)
  <2>1. PICK i \in 1..Len(s) : s[i] = u
    BY Zenon, <1>1 DEF Members
  <2>2. i + 1 \in DOMAIN r /\ r[i + 1] = u
    BY <1>1, <2>1
  <2> QED BY Zenon, <2>2 DEF Members
<1>6. t \in Members(r)
  BY <1>1 DEF Members
<1> QED BY Zenon, <1>1, <1>3, <1>4, <1>5, <1>6 DEF r

\* A list without duplicates is as long as the set of its entries is large.
LEMMA DistinctLength ==
  ASSUME NEW s \in Seq(Tunnel), Distinct(s)
  PROVE  Len(s) = Cardinality(Members(s))
<1>1. Len(s) \in Nat /\ DOMAIN s = 1..Len(s)
  OBVIOUS
<1>2. s \in Bijection(1..Len(s), Members(s))
  BY <1>1 DEF Bijection, Injection, Surjection, IsInjective, Distinct, Members
<1> QED BY Zenon, <1>1, <1>2, FS_CountingElements DEF ExistsBijection

\* Each of the two nodes is the other's peer.
LEMMA PeerFacts ==
  \A n \in Node : /\ Peer(n) \in Node /\ Peer(n) # n /\ Peer(Peer(n)) = n
                  /\ \A m \in Node : m = n \/ m = Peer(n)
<1>1. ASSUME NEW n \in Node PROVE \E m : Node \ {n} = {m}
  <2>1. IsFiniteSet(Node \ {n}) /\ Cardinality(Node \ {n}) = 1
    <3>1. IsFiniteSet(Node) /\ Cardinality(Node) = 2
      BY Zenon, ConnectionAssumption
    <3>2. IsFiniteSet(Node \ {n}) /\ Cardinality(Node \ {n}) = Cardinality(Node) - 1
      BY Zenon, <3>1, FS_RemoveElement
    <3> QED BY <3>1, <3>2
  <2> QED BY Zenon, <2>1, FS_Singleton
<1>2. ASSUME NEW n \in Node
      PROVE  Peer(n) \in Node /\ Peer(n) # n /\ \A m \in Node : m = n \/ m = Peer(n)
  <2>1. PICK m : Node \ {n} = {m}
    BY Zenon, <1>1
  <2>2. m \in Node /\ m # n
    BY Zenon, <2>1
  <2>3. Peer(n) \in Node /\ Peer(n) # n
    BY Zenon, <2>2 DEF Peer
  <2> QED BY <2>1, <2>3
<1> QED BY Zenon, <1>2

-----------------------------------------------------------------------------
(* What the steps do to the lists.                                         *)

LEMMA ListUnchanged ==
  ASSUME ListInv, UNCHANGED tunnels
  PROVE  /\ tunnels' \in [Node -> Seq(Tunnel)] /\ ListedOnce'
         /\ \A m \in Node : Members(tunnels'[m]) = Members(tunnels[m])
BY Zenon DEF ListInv, ManagerTyped, ListedOnce

LEMMA ListAdded ==
  ASSUME ListInv, NEW n \in Node, NEW t \in Tunnel, t \notin Members(tunnels[n]),
         addTunnel(n, t)
  PROVE  /\ tunnels' \in [Node -> Seq(Tunnel)] /\ ListedOnce'
         /\ Members(tunnels'[n]) = Members(tunnels[n]) \cup {t}
         /\ \A m \in Node \ {n} : Members(tunnels'[m]) = Members(tunnels[m])
<1>1. /\ tunnels[n] \in Seq(Tunnel) /\ Distinct(tunnels[n])
      /\ tunnels' = [tunnels EXCEPT ![n] = <<t>> \o tunnels[n]]
  BY Zenon DEF ListInv, ManagerTyped, ListedOnce, addTunnel
<1>2. PICK r : r = <<t>> \o tunnels[n]
  BY Zenon
<1>3. r \in Seq(Tunnel) /\ Distinct(r) /\ Members(r) = Members(tunnels[n]) \cup {t}
  BY Zenon, <1>1, <1>2, FrontFacts
<1> QED BY Zenon, <1>1, <1>2, <1>3 DEF ListInv, ManagerTyped, ListedOnce

LEMMA ListRemoved ==
  ASSUME ListInv, NEW n \in Node, NEW t \in Tunnel, closeTunnel(n, t)
  PROVE  /\ tunnels' \in [Node -> Seq(Tunnel)] /\ ListedOnce'
         /\ Members(tunnels'[n]) = Members(tunnels[n]) \ {t}
         /\ \A m \in Node \ {n} : Members(tunnels'[m]) = Members(tunnels[m])
<1>1. /\ tunnels[n] \in Seq(Tunnel) /\ Distinct(tunnels[n])
      /\ tunnels' = [tunnels EXCEPT ![n] = Without(tunnels[n], t)]
  BY Zenon DEF ListInv, ManagerTyped, ListedOnce, closeTunnel
<1>2. PICK r : r = Without(tunnels[n], t)
  OBVIOUS
<1>3. r \in Seq(Tunnel) /\ Distinct(r) /\ Members(r) = Members(tunnels[n]) \ {t}
  BY Zenon, <1>1, <1>2, WithoutFacts
<1> QED BY Zenon, <1>1, <1>2, <1>3 DEF ListInv, ManagerTyped, ListedOnce

LEMMA ListSwapped ==
  ASSUME ListInv, NEW n \in Node, swapPrimary(n)
  PROVE  /\ tunnels' \in [Node -> Seq(Tunnel)] /\ ListedOnce'
         /\ \A m \in Node : Members(tunnels'[m]) = Members(tunnels[m])
<1> DEFINE t == decision[n].tunnel
<1>1. CASE UNCHANGED tunnels
  BY Zenon, <1>1, ListUnchanged
<1>2. CASE /\ t \in Members(tunnels[n])
           /\ tunnels' = [tunnels EXCEPT ![n] = <<t>> \o Without(tunnels[n], t)]
  <2>1. tunnels[n] \in Seq(Tunnel) /\ Distinct(tunnels[n]) /\ t \in Tunnel
    BY Zenon, <1>2 DEF ListInv, ManagerTyped, ListedOnce, swapPrimary
  <2>2. PICK w : w = Without(tunnels[n], t)
    OBVIOUS
  <2>3. w \in Seq(Tunnel) /\ Distinct(w) /\ Members(w) = Members(tunnels[n]) \ {t}
    BY Zenon, <2>1, <2>2, WithoutFacts
  <2>4. PICK r : r = <<t>> \o w
    BY Zenon
  <2>5. r \in Seq(Tunnel) /\ Distinct(r) /\ Members(r) = Members(w) \cup {t}
    BY Zenon, <2>1, <2>3, <2>4, FrontFacts
  <2>6. Members(r) = Members(tunnels[n])
    BY Zenon, <1>2, <2>3, <2>5
  <2> QED BY Zenon, <1>2, <2>2, <2>4, <2>5, <2>6 DEF ListInv, ManagerTyped, ListedOnce
<1> QED BY Zenon, <1>1, <1>2 DEF swapPrimary, Has

\* A decision to delete stays right while the peer does not get the tunnel.
LEMMA DeadKept ==
  ASSUME TestInv, losses' = 0 => losses = 0,
         \A m \in Node :
           /\ decision'[m].what = "deleteTunnel" => decision'[m] = decision[m]
           /\ tested'[m] \subseteq tested[m]
           /\ \A u \in tested[m] : u \in Members(tunnels'[Peer(m)]) =>
                                    u \in Members(tunnels[Peer(m)])
  PROVE  Dead'
BY Zenon DEF TestInv, Dead

\* Nor is a tested tunnel any less heard when nothing that concerns it is
\* taken off the wire.
LEMMA HeardKept ==
  ASSUME TestInv, losses' = 0 => losses = 0,
         \A m \in Node :
           /\ tested'[m] \subseteq tested[m]
           /\ \A u \in tested'[m] :
                /\ u \in Members(tunnels'[Peer(m)]) => u \in Members(tunnels[Peer(m)])
                /\ u \in stateIn[m] => u \in stateIn'[m],
         \A x \in net : x \in net' \/ x.kind \notin {"data", "test"}
  PROVE  TestHeard'
<1> SUFFICES ASSUME losses' = 0, NEW n \in Node, NEW u \in tested'[n],
                    u \in Members(tunnels'[Peer(n)]), u \notin stateIn'[n]
             PROVE  Coming(n, u)'
  BY Zenon DEF TestHeard
<1>1. Coming(n, u)
  BY Zenon DEF TestInv, TestHeard
<1>2. PICK x \in net : /\ x.tunnel = u
                       /\ \/ x.to = Peer(n) /\ x.kind = "test"
                          \/ x.to = n /\ x.kind \in {"data", "test"}
  BY Zenon, <1>1 DEF Coming
<1>3. x \in net'
  BY Zenon, <1>2
<1> QED BY Zenon, <1>2, <1>3 DEF Coming, Peer

-----------------------------------------------------------------------------
(* Handshakes.                                                             *)

\* A tunnel that a node adds was on no list of that node.
LEMMA AnswerKeeps ==
  ASSUME ListInv, TestInv, NEW n \in Node, NEW t \in Tunnel, answerHandshake(n, t)
  PROVE  ListInv' /\ TestInv'
<1>1. /\ answered[t] = "no" /\ addTunnel(n, t)
      /\ answered' = [answered EXCEPT ![t] = n]
      /\ UNCHANGED <<stateIn, pendingDeletion, decision, net, losses, tested>>
      /\ stateOut' = [stateOut EXCEPT ![n] = stateOut[n] \cup {t}]
      /\ trafficTimer' = [trafficTimer EXCEPT ![n] = trafficTimer[n] \cup {t}]
  BY Zenon DEF answerHandshake, addTunnel, Marked
<1>2. \A m \in Node : t \notin Members(tunnels[m])
  BY Zenon, <1>1 DEF ListInv, ListedAfterHandshake
<1>3. /\ tunnels' \in [Node -> Seq(Tunnel)] /\ ListedOnce'
      /\ Members(tunnels'[n]) = Members(tunnels[n]) \cup {t}
      /\ \A m \in Node \ {n} : Members(tunnels'[m]) = Members(tunnels[m])
  BY Zenon, <1>1, <1>2, ListAdded
<1>4. ManagerTyped'
  BY ZenonT(60), <1>1, <1>3 DEF ListInv, ManagerTyped
<1>5. ListedAfterHandshake'
  <2> SUFFICES ASSUME NEW u \in Tunnel
               PROVE  /\ answered'[u] = "no" =>
                           \A m \in Node : u \notin Members(tunnels'[m])
                      /\ answered'[u] \in Node =>
                           u \notin Members(tunnels'[Peer(answered'[u])])
    BY Zenon DEF ListedAfterHandshake
  <2>1. CASE u = t
    <3>1. answered'[u] = n /\ n # "no" /\ Peer(n) \in Node \ {n}
      BY ZenonT(60), <1>1, <2>1, PeerFacts, ConnectionAssumption DEF ListInv, ManagerTyped
    <3> QED BY Zenon, <1>2, <1>3, <2>1, <3>1
  <2>2. CASE u # t
    <3>1. answered'[u] = answered[u]
      BY Zenon, <1>1, <2>2 DEF ListInv, ManagerTyped
    <3> QED BY <1>3, <2>2, <3>1, PeerFacts DEF ListInv, ListedAfterHandshake
  <2> QED BY Zenon, <2>1, <2>2
<1>6. FlagsListed'
  BY Zenon, <1>1, <1>3 DEF ListInv, FlagsListed, ManagerTyped
<1>7. Checked'
  BY Zenon, <1>1, <1>3 DEF ListInv, Checked, ManagerTyped
<1>8. TestedAfterHandshake'
  BY Zenon, <1>1 DEF ListInv, ManagerTyped, TestInv, TestedAfterHandshake
<1>9. \A m \in Node : t \notin tested[m]
  BY Zenon, <1>1 DEF TestInv, TestedAfterHandshake
<1>10. TestHeard'
  <2>1. stateIn' = stateIn /\ net' = net /\ losses' = losses /\ tested' = tested
    BY Zenon, <1>1
  <2>2. \A m \in Node : \A u \in tested'[m] :
          u \in Members(tunnels'[Peer(m)]) => u \in Members(tunnels[Peer(m)])
    <3>1. \A k \in Node : Members(tunnels'[k]) \subseteq Members(tunnels[k]) \cup {t}
      BY Zenon, <1>3
    <3>2. \A m \in Node : t \notin tested'[m]
      BY Zenon, <1>9, <2>1
    <3>3. \A m \in Node : Peer(m) \in Node
      BY Zenon, PeerFacts
    <3> QED BY Zenon, <3>1, <3>2, <3>3
  <2> QED BY Zenon, <2>1, <2>2, HeardKept
<1>11. Dead'
  <2>1. UNCHANGED <<decision, losses, tested>>
    BY Zenon, <1>1
  <2> QED BY <1>3, <1>9, <2>1, PeerFacts, DeadKept
<1> QED BY Zenon, <1>3, <1>4, <1>5, <1>6, <1>7, <1>8, <1>10, <1>11 DEF ListInv, TestInv

LEMMA CompleteKeeps ==
  ASSUME ListInv, TestInv, NEW t \in Tunnel, completeHandshake(t)
  PROVE  ListInv' /\ TestInv'
<1>1. PICK n \in Node : n = Peer(answered[t])
  BY Zenon, PeerFacts DEF completeHandshake
<1>2. /\ answered[t] \in Node /\ answered[t] # "done" /\ addTunnel(n, t)
      /\ answered' = [answered EXCEPT ![t] = "done"]
      /\ UNCHANGED <<stateIn, pendingDeletion, decision, net, losses, tested>>
      /\ stateOut' = [stateOut EXCEPT ![n] = stateOut[n] \cup {t}]
      /\ trafficTimer' = [trafficTimer EXCEPT ![n] = trafficTimer[n] \cup {t}]
  BY Zenon, <1>1, ConnectionAssumption DEF completeHandshake, addTunnel, Marked
<1>3. t \notin Members(tunnels[n])
  BY Zenon, <1>1, <1>2 DEF ListInv, ListedAfterHandshake
<1>4. /\ tunnels' \in [Node -> Seq(Tunnel)] /\ ListedOnce'
      /\ Members(tunnels'[n]) = Members(tunnels[n]) \cup {t}
      /\ \A m \in Node \ {n} : Members(tunnels'[m]) = Members(tunnels[m])
  BY Zenon, <1>2, <1>3, ListAdded
<1>5. ManagerTyped'
  BY ZenonT(60), <1>2, <1>4 DEF ListInv, ManagerTyped
<1>6. ListedAfterHandshake'
  <2> SUFFICES ASSUME NEW u \in Tunnel
               PROVE  /\ answered'[u] = "no" =>
                           \A m \in Node : u \notin Members(tunnels'[m])
                      /\ answered'[u] \in Node =>
                           u \notin Members(tunnels'[Peer(answered'[u])])
    BY Zenon DEF ListedAfterHandshake
  <2>1. CASE u = t
    BY Zenon, <1>2, <2>1, ConnectionAssumption DEF ListInv, ManagerTyped
  <2>2. CASE u # t
    <3>1. answered'[u] = answered[u]
      BY Zenon, <1>2, <2>2 DEF ListInv, ManagerTyped
    <3> QED BY <1>4, <2>2, <3>1, PeerFacts DEF ListInv, ListedAfterHandshake
  <2> QED BY Zenon, <2>1, <2>2
<1>7. FlagsListed'
  BY Zenon, <1>2, <1>4 DEF ListInv, FlagsListed, ManagerTyped
<1>8. Checked'
  BY ZenonT(60), <1>2, <1>4 DEF ListInv, Checked, ManagerTyped
<1>9. TestedAfterHandshake'
  BY Zenon, <1>2 DEF ListInv, ManagerTyped, TestInv, TestedAfterHandshake
<1>10. \A m \in Node : t \notin tested[m]
  BY Zenon, <1>2 DEF TestInv, TestedAfterHandshake
<1>11. TestHeard'
  <2>1. stateIn' = stateIn /\ net' = net /\ losses' = losses /\ tested' = tested
    BY Zenon, <1>2
  <2>2. \A m \in Node : \A u \in tested'[m] :
          u \in Members(tunnels'[Peer(m)]) => u \in Members(tunnels[Peer(m)])
    <3>1. \A k \in Node : Members(tunnels'[k]) \subseteq Members(tunnels[k]) \cup {t}
      BY Zenon, <1>4
    <3>2. \A m \in Node : t \notin tested'[m]
      BY Zenon, <1>10, <2>1
    <3>3. \A m \in Node : Peer(m) \in Node
      BY Zenon, PeerFacts
    <3> QED BY Zenon, <3>1, <3>2, <3>3
  <2> QED BY Zenon, <2>1, <2>2, HeardKept
<1>12. Dead'
  <2>1. UNCHANGED <<decision, losses, tested>>
    BY Zenon, <1>2
  <2> QED BY <1>4, <1>10, <2>1, PeerFacts, DeadKept
<1> QED BY Zenon, <1>4, <1>5, <1>6, <1>7, <1>8, <1>9, <1>11, <1>12 DEF ListInv, TestInv

LEMMA TimeOutKeeps ==
  ASSUME ListInv, TestInv, NEW t \in Tunnel, timeOutHandshake(t)
  PROVE  ListInv' /\ TestInv'
<1>1. /\ answered[t] \in Node
      /\ answered' = [answered EXCEPT ![t] = "done"]
      /\ UNCHANGED <<tunnels, stateIn, stateOut, pendingDeletion, trafficTimer,
                     decision, net, losses, tested>>
  BY Zenon DEF timeOutHandshake, bits
<1>2. ManagerTyped' /\ ListedOnce' /\ ListedAfterHandshake'
  BY Zenon, <1>1, ConnectionAssumption
  DEF ListInv, ManagerTyped, ListedOnce, ListedAfterHandshake
<1>3. FlagsListed' /\ Checked'
  BY Zenon, <1>1 DEF ListInv, FlagsListed, Checked
<1>4. TestedAfterHandshake' /\ TestHeard' /\ Dead'
  BY <1>1 DEF ListInv, ManagerTyped, TestInv, TestedAfterHandshake, TestHeard, Coming, Dead
<1> QED BY Zenon, <1>2, <1>3, <1>4 DEF ListInv, TestInv

-----------------------------------------------------------------------------
(* makeTrafficDecision.                                                    *)

\* What concerns only the lists and the handshakes.
LEMMA ListsKept ==
  ASSUME ListInv, UNCHANGED <<tunnels, answered>>
  PROVE  ListedOnce' /\ ListedAfterHandshake'
BY Zenon DEF ListInv, ListedOnce, ListedAfterHandshake

\* A check forgets that traffic was heard only together with the test.
LEMMA ForgottenTogether ==
  ASSUME TestInv, UNCHANGED <<tunnels, net, losses>>,
         \A m \in Node : /\ tested'[m] \subseteq tested[m]
                         /\ stateIn[m] \cap tested'[m] \subseteq stateIn'[m]
  PROVE  TestHeard'
<1> SUFFICES ASSUME losses' = 0, NEW n \in Node, NEW t \in tested'[n],
                    t \in Members(tunnels[Peer(n)])'
             PROVE  t \in stateIn'[n] \/ Coming(n, t)'
  BY Zenon DEF TestHeard
<1>1. losses = 0 /\ t \in tested[n] /\ t \in Members(tunnels[Peer(n)])
  BY Zenon DEF Members
<1>2. t \in stateIn[n] \/ Coming(n, t)
  BY Zenon, <1>1 DEF TestInv, TestHeard
<1>3. CASE t \in stateIn[n]
  <2>1. t \in stateIn[n] \cap tested'[n]
    BY Zenon, <1>3
  <2> QED BY Zenon, <2>1
<1>4. CASE Coming(n, t)
  BY Zenon, <1>4 DEF Coming
<1> QED BY Zenon, <1>2, <1>3, <1>4

\* A tunnel that is checked in time has its handshake behind it, and nothing
\* of its traffic is on the way.
LEMMA TimelyFacts ==
  ASSUME ListInv, NEW n \in Node, NEW t \in Tunnel, t \in Has(n), Timely(t)
  PROVE  answered[t] = "done" /\ ~Coming(n, t)
BY Zenon DEF ListInv, ManagerTyped, ListedAfterHandshake, Has, Timely, Coming

\* A node that is not at work on a decision has a timer entry for each tunnel.
LEMMA AllTimed ==
  ASSUME ListInv, NEW n \in Node, decision[n].what \notin {"closeTunnel", "deleteTunnel"}
  PROVE  Members(tunnels[n]) \subseteq trafficTimer[n]
BY Zenon DEF ListInv, Checked

LEMMA GoneKeeps ==
  ASSUME ListInv, TestInv, NEW n \in Node, NEW t \in Tunnel, checkGone(n, t),
         UNCHANGED <<tunnels, net, answered, losses>>
  PROVE  ListInv' /\ TestInv'
<1>1. /\ t \notin Members(tunnels[n])
      /\ trafficTimer' = [trafficTimer EXCEPT ![n] = trafficTimer[n] \ {t}]
      /\ UNCHANGED <<stateIn, stateOut, pendingDeletion, tested, decision>>
  BY Zenon DEF checkGone, Has, Cleared, bits
<1>2. ManagerTyped'
  BY Zenon, <1>1 DEF ListInv, ManagerTyped
<1>3. FlagsListed' /\ Checked'
  BY <1>1 DEF ListInv, ManagerTyped, FlagsListed, Checked
<1>4. TestedAfterHandshake' /\ TestHeard' /\ Dead'
  BY Zenon, <1>1, ForgottenTogether, DeadKept DEF TestInv, TestedAfterHandshake
<1> QED BY Zenon, <1>2, <1>3, <1>4, ListsKept DEF ListInv, TestInv

LEMMA SpentKeeps ==
  ASSUME ListInv, TestInv, NEW n \in Node, NEW t \in Tunnel, checkSpent(n, t),
         decision[n] = NoDecision, UNCHANGED <<tunnels, net, answered, losses>>
  PROVE  ListInv' /\ TestInv'
<1>1. PICK what \in {"closeTunnel", "deleteTunnel"} :
        /\ t \in Spendable
        /\ decision' = [decision EXCEPT ![n] = Decide(what, t, NoTunnel)]
        /\ trafficTimer' = [trafficTimer EXCEPT ![n] = trafficTimer[n] \ {t}]
        /\ UNCHANGED <<stateIn, stateOut, pendingDeletion, tested>>
  BY Zenon DEF checkSpent, Has, Cleared, bits
<1>2. /\ decision'[n].what = what /\ decision'[n].tunnel = t
      /\ \A m \in Node \ {n} : decision'[m] = decision[m]
      /\ decision' \in [Node -> Decisions]
  BY Zenon, <1>1 DEF ListInv, ManagerTyped, Decide, Decisions
<1>3. ManagerTyped'
  BY Zenon, <1>1, <1>2 DEF ListInv, ManagerTyped
<1>4. FlagsListed'
  BY Zenon, <1>1 DEF ListInv, FlagsListed
<1>5. Checked'
  BY <1>1, <1>2 DEF ListInv, ManagerTyped, Checked, NoDecision
<1>6. TestedAfterHandshake' /\ TestHeard'
  BY Zenon, <1>1, <1>2, ForgottenTogether DEF TestInv, TestedAfterHandshake
<1>7. Dead'
  BY Zenon, <1>1, <1>2 DEF TestInv, Dead
<1> QED BY Zenon, <1>3, <1>4, <1>5, <1>6, <1>7, ListsKept DEF ListInv, TestInv

LEMMA AliveKeeps ==
  ASSUME ListInv, TestInv, NEW n \in Node, NEW t \in Tunnel, checkAlive(n, t),
         t \in Has(n), decision[n] = NoDecision,
         UNCHANGED <<tunnels, net, answered, losses>>
  PROVE  ListInv' /\ TestInv'
<1>1. /\ stateIn' = [stateIn EXCEPT ![n] = stateIn[n] \ {t}]
      /\ stateOut' = [stateOut EXCEPT ![n] = stateOut[n] \ {t}]
      /\ pendingDeletion' = [pendingDeletion EXCEPT ![n] = pendingDeletion[n] \ {t}]
      /\ tested' = [tested EXCEPT ![n] = tested[n] \ {t}]
      /\ UNCHANGED trafficTimer
  BY Zenon DEF checkAlive, Cleared
<1>2. tunnels[n][1] \in Tunnel
  BY DEF ListInv, ManagerTyped, Has, Members
<1>3. /\ decision' \in [Node -> Decisions]
      /\ decision'[n] = decision[n] \/ (decision'[n].what = "swapPrimary"
                                        /\ decision'[n].tunnel = t)
      /\ \A m \in Node \ {n} : decision'[m] = decision[m]
  BY Zenon, <1>2 DEF ListInv, ManagerTyped, checkAlive, Decide, Decisions
<1>4. ManagerTyped'
  BY Zenon, <1>1, <1>3 DEF ListInv, ManagerTyped
<1>5. FlagsListed'
  BY Zenon, <1>1 DEF ListInv, ManagerTyped, FlagsListed
<1>6. Checked'
  <2>1. Members(tunnels[n]) \subseteq trafficTimer[n]
    BY AllTimed DEF NoDecision
  <2> QED BY <1>1, <1>3, <2>1 DEF ListInv, Checked
<1>7. TestedAfterHandshake'
  BY ZenonT(60), <1>1, <1>3 DEF ListInv, ManagerTyped, TestInv, TestedAfterHandshake
<1>8. /\ \A m \in Node : tested'[m] \subseteq tested[m]
      /\ \A m \in Node : stateIn[m] \cap tested'[m] \subseteq stateIn'[m]
  BY Zenon, <1>1 DEF ListInv, ManagerTyped
<1>9. TestHeard' /\ Dead'
  BY Zenon, <1>3, <1>8, ForgottenTogether, DeadKept
<1> QED BY Zenon, <1>4, <1>5, <1>6, <1>7, <1>9, ListsKept DEF ListInv, TestInv

\* The tunnel was tested, nothing was heard and nothing is on the way: the
\* peer does not have it.
LEMMA DeadKeeps ==
  ASSUME ListInv, TestInv, NEW n \in Node, NEW t \in Tunnel, checkDead(n, t),
         t \in Has(n), Timely(t), decision[n] = NoDecision,
         UNCHANGED <<tunnels, net, answered, losses>>
  PROVE  ListInv' /\ TestInv'
<1>1. /\ t \notin stateIn[n]
      /\ stateOut' = [stateOut EXCEPT ![n] = stateOut[n] \ {t}]
      /\ decision' = [decision EXCEPT ![n] = Decide("deleteTunnel", t, NoTunnel)]
      /\ trafficTimer' = [trafficTimer EXCEPT ![n] = trafficTimer[n] \ {t}]
      /\ UNCHANGED <<stateIn, pendingDeletion, tested>>
  BY Zenon DEF checkDead, Cleared
<1>2. /\ decision'[n].what = "deleteTunnel" /\ decision'[n].tunnel = t
      /\ \A m \in Node \ {n} : decision'[m] = decision[m]
      /\ decision' \in [Node -> Decisions]
  BY Zenon, <1>1 DEF ListInv, ManagerTyped, Decide, Decisions
<1>3. ManagerTyped'
  BY Zenon, <1>1, <1>2 DEF ListInv, ManagerTyped
<1>4. FlagsListed'
  BY Zenon, <1>1 DEF ListInv, ManagerTyped, FlagsListed
<1>5. Checked'
  BY <1>1, <1>2 DEF ListInv, ManagerTyped, Checked, NoDecision
<1>6. TestedAfterHandshake' /\ TestHeard'
  BY Zenon, <1>1, <1>2, ForgottenTogether DEF TestInv, TestedAfterHandshake
<1>7. losses = 0 /\ t \in tested[n] => t \notin Members(tunnels[Peer(n)])
  BY Zenon, <1>1, TimelyFacts DEF TestInv, TestHeard
<1>8. Dead'
  BY Zenon, <1>1, <1>2, <1>7 DEF TestInv, Dead
<1> QED BY Zenon, <1>3, <1>4, <1>5, <1>6, <1>8, ListsKept DEF ListInv, TestInv

LEMMA UnusedKeeps ==
  ASSUME ListInv, TestInv, NEW n \in Node, NEW t \in Tunnel, checkUnused(n, t),
         decision[n] = NoDecision, UNCHANGED <<tunnels, net, answered, losses>>
  PROVE  ListInv' /\ TestInv'
<1>1. UNCHANGED <<stateIn, stateOut, pendingDeletion, tested>>
  BY Zenon DEF checkUnused, bits
<1>2. CASE UNCHANGED <<decision, trafficTimer>>
  <2>1. ManagerTyped'
    BY Zenon, <1>1, <1>2 DEF ListInv, ManagerTyped
  <2>2. FlagsListed' /\ Checked'
    BY Zenon, <1>1, <1>2 DEF ListInv, FlagsListed, Checked
  <2>3. TestedAfterHandshake' /\ TestHeard' /\ Dead'
    BY Zenon, <1>1, <1>2, ForgottenTogether, DeadKept DEF TestInv, TestedAfterHandshake
  <2> QED BY Zenon, <2>1, <2>2, <2>3, ListsKept DEF ListInv, TestInv
<1>3. CASE /\ decision' = [decision EXCEPT ![n] = Decide("closeTunnel", t, NoTunnel)]
           /\ trafficTimer' = [trafficTimer EXCEPT ![n] = trafficTimer[n] \ {t}]
  <2>1. /\ decision'[n].what = "closeTunnel" /\ decision'[n].tunnel = t
        /\ \A m \in Node \ {n} : decision'[m] = decision[m]
        /\ decision' \in [Node -> Decisions]
    BY Zenon, <1>3 DEF ListInv, ManagerTyped, Decide, Decisions
  <2>2. ManagerTyped'
    BY Zenon, <1>1, <1>3, <2>1 DEF ListInv, ManagerTyped
  <2>3. FlagsListed'
    BY Zenon, <1>1 DEF ListInv, FlagsListed
  <2>4. Checked'
    BY <1>3, <2>1 DEF ListInv, ManagerTyped, Checked, NoDecision
  <2>5. TestedAfterHandshake' /\ TestHeard' /\ Dead'
    BY Zenon, <1>1, <2>1, ForgottenTogether, DeadKept DEF TestInv, TestedAfterHandshake
  <2> QED BY Zenon, <2>2, <2>3, <2>4, <2>5, ListsKept DEF ListInv, TestInv
<1> QED BY Zenon, <1>2, <1>3 DEF checkUnused, Cleared

LEMMA UnheardKeeps ==
  ASSUME ListInv, TestInv, NEW n \in Node, NEW t \in Tunnel, checkUnheard(n, t),
         t \in Has(n), Timely(t), decision[n] = NoDecision,
         UNCHANGED <<tunnels, net, answered, losses>>
  PROVE  ListInv' /\ TestInv'
<1>1. /\ stateOut' = [stateOut EXCEPT ![n] = stateOut[n] \ {t}]
      /\ pendingDeletion' = [pendingDeletion EXCEPT ![n] = pendingDeletion[n] \cup {t}]
      /\ UNCHANGED <<stateIn, trafficTimer, tested>>
  BY Zenon DEF checkUnheard, Cleared, Marked
<1>2. /\ decision' \in [Node -> Decisions]
      /\ decision'[n] = decision[n] \/ (decision'[n].what = "sendTestPacket"
                                        /\ decision'[n].tunnel = t)
      /\ \A m \in Node \ {n} : decision'[m] = decision[m]
  BY Zenon DEF ListInv, ManagerTyped, checkUnheard, Decide, Decisions
<1>3. ManagerTyped'
  BY Zenon, <1>1, <1>2 DEF ListInv, ManagerTyped
<1>4. FlagsListed'
  BY Zenon, <1>1 DEF ListInv, ManagerTyped, FlagsListed, Has
<1>5. Checked'
  <2>1. Members(tunnels[n]) \subseteq trafficTimer[n]
    BY AllTimed DEF NoDecision
  <2> QED BY <1>1, <1>2, <2>1 DEF ListInv, Checked
<1>6. TestedAfterHandshake'
  <2>1. answered[t] = "done" /\ decision[n].what # "sendTestPacket"
    BY SMTT(30), TimelyFacts DEF NoDecision
  <2> QED BY ZenonT(60), <1>1, <1>2, <2>1 DEF TestInv, TestedAfterHandshake
<1>7. TestHeard' /\ Dead'
  BY Zenon, <1>1, <1>2, ForgottenTogether, DeadKept
<1> QED BY Zenon, <1>3, <1>4, <1>5, <1>6, <1>7, ListsKept DEF ListInv, TestInv

\* Every way through makeTrafficDecision.
LEMMA MakeDecisionKeeps ==
  ASSUME ListInv, TestInv, NEW n \in Node, NEW t \in Tunnel, makeTrafficDecision(n, t)
  PROVE  ListInv' /\ TestInv'
BY Zenon, GoneKeeps, SpentKeeps, AliveKeeps, DeadKeeps, UnusedKeeps, UnheardKeeps
DEF makeTrafficDecision

-----------------------------------------------------------------------------
(* doTrafficCheck.                                                         *)

LEMMA DecisionDone ==
  ASSUME ListInv, NEW n \in Node, decision' = [decision EXCEPT ![n] = NoDecision]
  PROVE  /\ decision' \in [Node -> Decisions]
         /\ decision'[n].what = "doNothing"
         /\ \A m \in Node \ {n} : decision'[m] = decision[m]
         /\ \A m \in Node : decision'[m].what # "doNothing" => decision'[m].tunnel \in Tunnel
BY Zenon DEF ListInv, ManagerTyped, NoDecision, Decisions

\* The swap reorders the list.
LEMMA SwapKeeps ==
  ASSUME ListInv, TestInv, NEW n \in Node, swapPrimary(n),
         decision' = [decision EXCEPT ![n] = NoDecision],
         UNCHANGED <<trafficTimer, answered, losses>>
  PROVE  ListInv' /\ TestInv'
<1>1. /\ decision[n].what = "swapPrimary"
      /\ UNCHANGED <<stateIn, stateOut, pendingDeletion, net, tested>>
  BY Zenon DEF swapPrimary, bits
<1>2. /\ tunnels' \in [Node -> Seq(Tunnel)] /\ ListedOnce'
      /\ \A m \in Node : Members(tunnels'[m]) = Members(tunnels[m])
  BY Zenon, ListSwapped
<1>3. ManagerTyped'
  BY Zenon, <1>1, <1>2, DecisionDone DEF ListInv, ManagerTyped
<1>4. ListedAfterHandshake'
  BY Zenon, <1>2, PeerFacts DEF ListInv, ListedAfterHandshake
<1>5. FlagsListed'
  BY Zenon, <1>1, <1>2 DEF ListInv, FlagsListed
<1>6. Checked'
  <2>1. Members(tunnels[n]) \subseteq trafficTimer[n]
    BY Zenon, <1>1, AllTimed
  <2> QED BY ZenonT(60), <1>2, <2>1, DecisionDone DEF ListInv, Checked
<1>7. TestedAfterHandshake'
  <2>1. /\ decision'[n].what # "sendTestPacket"
        /\ \A m \in Node \ {n} : decision'[m] = decision[m]
    BY Zenon, DecisionDone
  <2> QED BY ZenonT(60), <1>1, <2>1 DEF TestInv, TestedAfterHandshake
<1>8. TestHeard'
  BY <1>1, <1>2, PeerFacts DEF TestInv, TestHeard, Coming
<1>9. Dead'
  BY Zenon, <1>1, <1>2, DecisionDone, PeerFacts, DeadKept
<1> QED BY Zenon, <1>2, <1>3, <1>4, <1>5, <1>6, <1>7, <1>8, <1>9 DEF ListInv, TestInv

LEMMA SendTestKeeps ==
  ASSUME ListInv, TestInv, NEW n \in Node, sendTestPacket(n),
         decision' = [decision EXCEPT ![n] = NoDecision],
         UNCHANGED <<trafficTimer, answered, losses>>
  PROVE  ListInv' /\ TestInv'
<1>1. PICK t \in Tunnel : t = decision[n].tunnel
  BY Zenon DEF ListInv, ManagerTyped, sendTestPacket
<1>2. /\ decision[n].what = "sendTestPacket"
      /\ net' = net \cup {[kind |-> "test", to |-> Peer(n), tunnel |-> t]}
      /\ UNCHANGED <<tunnels, stateIn, pendingDeletion>>
  BY Zenon, <1>1 DEF sendTestPacket, Send
<1>3. /\ stateOut' \in [Node -> SUBSET Tunnel] /\ tested' \in [Node -> SUBSET Tunnel]
      /\ stateOut'[n] \subseteq stateOut[n] \cup ({t} \cap Members(tunnels[n]))
      /\ tested'[n] \subseteq tested[n] \cup ({t} \cap Members(tunnels[n]))
      /\ \A m \in Node \ {n} : stateOut'[m] = stateOut[m] /\ tested'[m] = tested[m]
  BY Zenon, <1>1 DEF ListInv, ManagerTyped, sendTestPacket, Marked, Has
<1>4. ManagerTyped'
  <2>1. net' \in SUBSET Message
    BY <1>2, PeerFacts DEF ListInv, ManagerTyped, Message
  <2> QED BY Zenon, <1>2, <1>3, <2>1, DecisionDone DEF ListInv, ManagerTyped
<1>5. FlagsListed'
  BY Zenon, <1>2, <1>3 DEF ListInv, FlagsListed
<1>6. Checked'
  <2>1. Members(tunnels[n]) \subseteq trafficTimer[n]
    BY Zenon, <1>2, AllTimed
  <2> QED BY ZenonT(60), <1>2, <2>1, DecisionDone DEF ListInv, Checked
<1>7. TestedAfterHandshake'
  <2>1. /\ decision'[n].what # "sendTestPacket"
        /\ \A m \in Node \ {n} : decision'[m] = decision[m]
    BY Zenon, DecisionDone
  <2> QED BY <1>1, <1>2, <1>3, <2>1 DEF TestInv, TestedAfterHandshake
<1>8. TestHeard'
  <2> SUFFICES ASSUME losses = 0, NEW m \in Node, NEW u \in tested'[m],
                      u \in Members(tunnels[Peer(m)]), u \notin stateIn[m]
               PROVE  Coming(m, u)'
    BY Zenon, <1>2 DEF TestHeard
  <2>1. CASE u \in tested[m]
    BY <1>2, <2>1 DEF TestInv, TestHeard, Coming
  <2>2. CASE u \notin tested[m]
    <3>1. m = n /\ u = t
      BY Zenon, <1>3, <2>2
    <3> DEFINE x == [kind |-> "test", to |-> Peer(n), tunnel |-> t]
    <3>2. x \in net' /\ x.tunnel = t /\ x.to = Peer(n) /\ x.kind = "test"
      BY Zenon, <1>2
    <3> HIDE DEF x
    <3> QED BY Zenon, <3>1, <3>2 DEF Coming
  <2> QED BY Zenon, <2>1, <2>2
<1>9. Dead'
  BY Zenon, <1>2, <1>3, DecisionDone DEF TestInv, Dead
<1> QED BY Zenon, <1>2, <1>4, <1>5, <1>6, <1>7, <1>8, <1>9, ListsKept DEF ListInv, TestInv

\* What closing a tunnel at n does to the flags, and to what follows from them
\* when no traffic for another tunnel, or for the peer, is taken off the wire.
LEMMA CloseKeeps ==
  ASSUME ListInv, TestInv, NEW n \in Node, NEW t \in Tunnel, closeTunnel(n, t),
         UNCHANGED <<trafficTimer, answered, losses>>, net' \in SUBSET Message,
         decision' \in [Node -> Decisions],
         \A m \in Node : decision'[m].what # "doNothing" => decision'[m] = decision[m],
         \A m \in Node \ {n} : decision'[m] = decision[m],
         \A u \in Tunnel \ {t} : u \in Members(tunnels[n]) => u \in trafficTimer[n]
                                 \/ decision'[n] = decision[n],
         \A m \in net : m \in net' \/ (m.tunnel = t /\ m.kind \in {"close", "recvError"})
  PROVE  ListInv' /\ TestInv'
<1>1. /\ stateIn' = [stateIn EXCEPT ![n] = stateIn[n] \ {t}]
      /\ stateOut' = [stateOut EXCEPT ![n] = stateOut[n] \ {t}]
      /\ pendingDeletion' = [pendingDeletion EXCEPT ![n] = pendingDeletion[n] \ {t}]
      /\ tested' = [tested EXCEPT ![n] = tested[n] \ {t}]
  BY Zenon DEF closeTunnel, Cleared
<1>2. /\ tunnels' \in [Node -> Seq(Tunnel)] /\ ListedOnce'
      /\ Members(tunnels'[n]) = Members(tunnels[n]) \ {t}
      /\ \A m \in Node \ {n} : Members(tunnels'[m]) = Members(tunnels[m])
  BY Zenon, ListRemoved
<1>3. ManagerTyped'
  BY Zenon, <1>1, <1>2 DEF ListInv, ManagerTyped
<1>4. ListedAfterHandshake'
  BY Zenon, <1>2, PeerFacts DEF ListInv, ListedAfterHandshake
<1>5. FlagsListed'
  BY Zenon, <1>1, <1>2 DEF ListInv, ManagerTyped, FlagsListed
<1>6. Checked'
  <2> SUFFICES ASSUME NEW m \in Node, NEW u \in Members(tunnels'[m])
               PROVE  \/ u \in trafficTimer[m]
                      \/ /\ decision'[m].tunnel = u
                         /\ decision'[m].what \in {"closeTunnel", "deleteTunnel"}
    BY Zenon DEF Checked
  <2>1. u \in Members(tunnels[m]) /\ (m = n => u \in Tunnel \ {t})
    <3>1. Members(tunnels[n]) \subseteq Tunnel
      BY DEF ListInv, ManagerTyped, Members
    <3> QED BY Zenon, <1>2, <3>1
  <2> QED BY ZenonT(60), <2>1 DEF ListInv, Checked
<1>7. /\ \A m \in Node : tested'[m] \subseteq tested[m]
      /\ \A m \in Node : stateIn[m] \cap tested'[m] \subseteq stateIn'[m]
      /\ \A m \in Node : Members(tunnels'[m]) \subseteq Members(tunnels[m])
  BY Zenon, <1>1, <1>2 DEF ListInv, ManagerTyped
<1>8. TestedAfterHandshake'
  BY Zenon, <1>7 DEF TestInv, TestedAfterHandshake
<1>9. TestHeard'
  <2>1. \A x \in net : x \in net' \/ x.kind \notin {"data", "test"}
    BY Zenon
  <2>2. \A m \in Node : \A u \in tested'[m] :
          /\ u \in Members(tunnels'[Peer(m)]) => u \in Members(tunnels[Peer(m)])
          /\ u \in stateIn[m] => u \in stateIn'[m]
    BY Zenon, <1>7, PeerFacts
  <2> QED BY Zenon, <1>7, <2>1, <2>2, HeardKept
<1>10. Dead'
  BY Zenon, <1>7, PeerFacts, DeadKept
<1> QED BY Zenon, <1>2, <1>3, <1>4, <1>5, <1>6, <1>8, <1>9, <1>10 DEF ListInv, TestInv

\* The decision to remove a tunnel is carried out.
LEMMA RemoveKeeps ==
  ASSUME ListInv, TestInv, NEW n \in Node, removeTunnel(n),
         decision' = [decision EXCEPT ![n] = NoDecision],
         UNCHANGED <<trafficTimer, answered, losses>>
  PROVE  ListInv' /\ TestInv'
<1>1. PICK t \in Tunnel : t = decision[n].tunnel
  BY Zenon DEF ListInv, ManagerTyped, removeTunnel
<1>2. /\ decision[n].what \in {"closeTunnel", "deleteTunnel"} /\ closeTunnel(n, t)
      /\ net' = net \/ net' = net \cup {[kind |-> "close", to |-> Peer(n), tunnel |-> t]}
  BY Zenon, <1>1 DEF removeTunnel, Send
<1>3. net' \in SUBSET Message /\ net \subseteq net'
  BY <1>2, PeerFacts DEF ListInv, ManagerTyped, Message
<1>4. \A u \in Tunnel \ {t} : u \in Members(tunnels[n]) => u \in trafficTimer[n]
  BY Zenon, <1>1 DEF ListInv, Checked
<1>5. /\ decision' \in [Node -> Decisions]
      /\ \A m \in Node : decision'[m].what # "doNothing" => decision'[m] = decision[m]
      /\ \A m \in Node \ {n} : decision'[m] = decision[m]
  BY Zenon, DecisionDone
<1> QED BY Zenon, <1>2, <1>3, <1>4, <1>5, CloseKeeps

-----------------------------------------------------------------------------
(* Traffic.                                                                *)

LEMMA SendTrafficKeeps ==
  ASSUME ListInv, TestInv, NEW n \in Node, sendTraffic(n)
  PROVE  ListInv' /\ TestInv'
<1>1. PICK t : t = tunnels[n][1]
  OBVIOUS
<1>2. t \in Tunnel /\ t \in Members(tunnels[n])
  BY <1>1 DEF ListInv, ManagerTyped, sendTraffic, Members
<1>3. /\ stateOut' = [stateOut EXCEPT ![n] = stateOut[n] \cup {t}]
      /\ net' = net \cup {[kind |-> "data", to |-> Peer(n), tunnel |-> t]}
      /\ UNCHANGED <<tunnels, stateIn, pendingDeletion, trafficTimer, decision,
                     answered, losses, tested>>
  BY Zenon, <1>1 DEF sendTraffic, Marked, Send
<1>4. ManagerTyped'
  <2>1. net' \in SUBSET Message
    BY <1>2, <1>3, PeerFacts DEF ListInv, ManagerTyped, Message
  <2> QED BY Zenon, <1>2, <1>3, <2>1 DEF ListInv, ManagerTyped
<1>5. FlagsListed' /\ Checked'
  BY ZenonT(60), <1>2, <1>3 DEF ListInv, ManagerTyped, FlagsListed, Checked
<1>6. TestedAfterHandshake' /\ TestHeard' /\ Dead'
  <2>1. net \subseteq net'
    BY Zenon, <1>3
  <2>2. UNCHANGED <<tunnels, stateIn, decision, answered, losses, tested>>
    BY Zenon, <1>3
  <2> QED BY <2>1, <2>2 DEF TestInv, TestedAfterHandshake, TestHeard, Coming, Dead
<1> QED BY Zenon, <1>3, <1>4, <1>5, <1>6, ListsKept DEF ListInv, TestInv

\* Nobody waits for an answer to what a node does not know.
LEMMA UnknownKeeps ==
  ASSUME ListInv, TestInv, NEW m \in net, receiveUnknown(m),
         UNCHANGED <<trafficTimer, decision, answered, losses>>
  PROVE  ListInv' /\ TestInv'
<1>1. /\ m \in Message /\ m.to \in Node /\ m.tunnel \in Tunnel
      /\ m.tunnel \notin Members(tunnels[m.to])
      /\ UNCHANGED <<tunnels, stateIn, stateOut, pendingDeletion, tested>>
  BY Zenon DEF ListInv, ManagerTyped, Message, receiveUnknown, Has, bits
<1>2. net' \in SUBSET Message /\ net \ {m} \subseteq net'
  <2>1. Peer(m.to) \in Node
    BY Zenon, <1>1, PeerFacts
  <2>2. net' = net \ {m} \/
        net' = (net \cup {[kind |-> "recvError", to |-> Peer(m.to),
                           tunnel |-> m.tunnel]}) \ {m}
    BY Zenon DEF receiveUnknown, Send
  <2> QED BY <1>1, <2>1, <2>2 DEF ListInv, ManagerTyped, Message
<1>3. ManagerTyped'
  BY Zenon, <1>1, <1>2 DEF ListInv, ManagerTyped
<1>4. FlagsListed' /\ Checked'
  BY Zenon, <1>1 DEF ListInv, FlagsListed, Checked
<1>5. TestedAfterHandshake' /\ Dead'
  BY Zenon, <1>1 DEF TestInv, TestedAfterHandshake, Dead
<1>6. TestHeard'
  <2> SUFFICES ASSUME losses = 0, NEW n \in Node, NEW u \in tested[n],
                      u \in Members(tunnels[Peer(n)]), u \notin stateIn[n]
               PROVE  Coming(n, u)'
    BY Zenon, <1>1 DEF TestHeard
  <2>1. u \in Members(tunnels[n])
    BY Zenon DEF ListInv, FlagsListed
  <2>2. PICK x \in net : /\ x.tunnel = u
                         /\ \/ x.to = Peer(n) /\ x.kind = "test"
                            \/ x.to = n /\ x.kind \in {"data", "test"}
    BY DEF TestInv, TestHeard, Coming
  <2>3. x # m
    BY Zenon, <1>1, <2>1, <2>2
  <2> QED BY Zenon, <1>2, <2>2, <2>3 DEF Coming
<1> QED BY Zenon, <1>1, <1>3, <1>4, <1>5, <1>6, ListsKept DEF ListInv, TestInv

\* Traffic that is taken off the wire has set the inbound flag, or is a test
\* that was answered.
LEMMA TrafficKeeps ==
  ASSUME ListInv, TestInv, NEW m \in net, receiveTraffic(m),
         UNCHANGED <<trafficTimer, decision, answered, losses>>
  PROVE  ListInv' /\ TestInv'
<1>1. /\ m \in Message /\ m.to \in Node /\ m.tunnel \in Tunnel
      /\ m.tunnel \in Members(tunnels[m.to]) /\ m.kind \in {"data", "test"}
      /\ stateIn' = [stateIn EXCEPT ![m.to] = stateIn[m.to] \cup {m.tunnel}]
      /\ UNCHANGED <<tunnels, pendingDeletion, tested>>
  BY Zenon DEF ListInv, ManagerTyped, Message, receiveTraffic, Has, Marked
<1> DEFINE answer == [kind |-> "data", to |-> Peer(m.to), tunnel |-> m.tunnel]
<1>2. /\ m.kind = "test" => net' = (net \cup {answer}) \ {m}
      /\ m.kind = "data" => net' = net \ {m}
      /\ \/ UNCHANGED stateOut
         \/ stateOut' = [stateOut EXCEPT ![m.to] = stateOut[m.to] \cup {m.tunnel}]
  BY Zenon, <1>1 DEF receiveTraffic, Send, Marked
<1>3. /\ answer \in Message /\ answer.kind = "data"
      /\ answer.to = Peer(m.to) /\ answer.tunnel = m.tunnel
  BY Zenon, <1>1, PeerFacts DEF Message
<1> HIDE DEF answer
<1>4. /\ net' \in SUBSET Message /\ net \ {m} \subseteq net'
      /\ m.kind = "test" => answer \in net'
  BY Zenon, <1>1, <1>2, <1>3 DEF ListInv, ManagerTyped
<1>5. /\ stateIn' \in [Node -> SUBSET Tunnel]
      /\ \A n \in Node : stateIn'[n] \subseteq Members(tunnels[n])
  BY Zenon, <1>1 DEF ListInv, ManagerTyped, FlagsListed
<1>6. /\ stateOut' \in [Node -> SUBSET Tunnel]
      /\ \A n \in Node : stateOut'[n] \subseteq Members(tunnels[n])
  <2>1. CASE UNCHANGED stateOut
    BY Zenon, <2>1 DEF ListInv, ManagerTyped, FlagsListed
  <2>2. CASE stateOut' = [stateOut EXCEPT ![m.to] = stateOut[m.to] \cup {m.tunnel}]
    BY Zenon, <1>1, <2>2 DEF ListInv, ManagerTyped, FlagsListed
  <2> QED BY Zenon, <1>2, <2>1, <2>2
<1>7. ManagerTyped' /\ FlagsListed' /\ Checked'
  <2>1. UNCHANGED <<tunnels, pendingDeletion, tested>>
    BY Zenon, <1>1
  <2>2. ManagerTyped'
    BY Zenon, <1>4, <1>5, <1>6, <2>1 DEF ListInv, ManagerTyped
  <2> QED BY Zenon, <1>5, <1>6, <2>1, <2>2 DEF ListInv, FlagsListed, Checked
<1>8. TestedAfterHandshake' /\ Dead'
  BY Zenon, <1>1 DEF TestInv, TestedAfterHandshake, Dead
<1>9. TestHeard'
  <2> SUFFICES ASSUME losses = 0, NEW n \in Node, NEW u \in tested[n],
                      u \in Members(tunnels[Peer(n)]), u \notin stateIn'[n]
               PROVE  Coming(n, u)'
    BY Zenon, <1>1 DEF TestHeard
  <2>1. u \notin stateIn[n] /\ (m.to = n => m.tunnel # u)
    BY Zenon, <1>1 DEF ListInv, ManagerTyped
  <2>2. PICK x \in net : /\ x.tunnel = u
                         /\ \/ x.to = Peer(n) /\ x.kind = "test"
                            \/ x.to = n /\ x.kind \in {"data", "test"}
    BY <2>1 DEF TestInv, TestHeard, Coming
  <2>3. CASE x # m
    BY Zenon, <1>4, <2>2, <2>3 DEF Coming
  <2>4. CASE x = m
    <3>1. m.to = Peer(n) /\ m.kind = "test" /\ Peer(m.to) = n
      BY Zenon, <2>1, <2>2, <2>4, PeerFacts
    <3> QED BY Zenon, <1>3, <1>4, <2>2, <2>4, <3>1 DEF Coming
  <2> QED BY Zenon, <2>3, <2>4
<1> QED BY Zenon, <1>1, <1>7, <1>8, <1>9, ListsKept DEF ListInv, TestInv

\* A close message or a recv_error for a tunnel that the node has.
LEMMA ReceiveCloseKeeps ==
  ASSUME ListInv, TestInv, NEW m \in net, receiveClose(m),
         UNCHANGED <<trafficTimer, decision, answered, losses>>
  PROVE  ListInv' /\ TestInv'
<1>1. /\ m.to \in Node /\ m.tunnel \in Tunnel /\ m.kind \in {"close", "recvError"}
      /\ closeTunnel(m.to, m.tunnel) /\ net' = net \ {m}
  BY Zenon DEF ListInv, ManagerTyped, Message, receiveClose
<1>2. /\ net' \in SUBSET Message /\ decision' \in [Node -> Decisions]
      /\ \A n \in Node : decision'[n] = decision[n]
      /\ \A x \in net : x \in net' \/ (x.tunnel = m.tunnel
                                       /\ x.kind \in {"close", "recvError"})
  BY Zenon, <1>1 DEF ListInv, ManagerTyped
<1> QED BY Zenon, <1>1, <1>2, CloseKeeps

\* After a loss nothing is claimed about tests any more.
LEMMA LoseKeeps ==
  ASSUME ListInv, TestInv, NEW m \in net, lose(m)
  PROVE  ListInv' /\ TestInv'
<1>1. /\ net' = net \ {m} /\ losses < MaxLosses /\ losses' = losses + 1
      /\ UNCHANGED <<tunnels, stateIn, stateOut, pendingDeletion, trafficTimer,
                     decision, answered, tested>>
  BY Zenon DEF lose, bits
<1>2. ManagerTyped' /\ losses' # 0
  BY <1>1, ConnectionAssumption DEF ListInv, ManagerTyped
<1>3. FlagsListed' /\ Checked'
  BY Zenon, <1>1 DEF ListInv, FlagsListed, Checked
<1>4. TestedAfterHandshake' /\ TestHeard' /\ Dead'
  BY Zenon, <1>1, <1>2 DEF TestInv, TestedAfterHandshake, TestHeard, Dead
<1> QED BY Zenon, <1>1, <1>2, <1>3, <1>4, ListsKept DEF ListInv, TestInv

-----------------------------------------------------------------------------
(* The theorems.                                                           *)

LEMMA ManagerInitially == ManagerInit => ListInv /\ TestInv
<1> SUFFICES ASSUME ManagerInit PROVE ListInv /\ TestInv
  OBVIOUS
<1>1. Members(<<>>) = {} /\ Distinct(<<>>)
  BY DEF Members, Distinct
<1>2. \A n \in Node : tunnels[n] = <<>>
  BY Zenon DEF ManagerInit
<1>3. ManagerTyped
  BY ConnectionAssumption DEF ManagerInit, ManagerTyped, NoDecision, Decisions
<1>4. ListedOnce /\ FlagsListed /\ Checked
  BY Zenon, <1>1, <1>2 DEF ManagerInit, ListedOnce, FlagsListed, Checked
<1>5. ListedAfterHandshake
  BY Zenon, <1>1, <1>2, PeerFacts DEF ListedAfterHandshake
<1>6. TestedAfterHandshake /\ TestHeard /\ Dead
  BY Zenon, <1>1, <1>2, PeerFacts
  DEF ManagerInit, NoDecision, TestedAfterHandshake, TestHeard, Dead
<1> QED BY Zenon, <1>3, <1>4, <1>5, <1>6 DEF ListInv, TestInv

\* Both invariants hold in every state: one lemma per handler.
THEOREM ManagerInvariant == ManagerSpec => [](ListInv /\ TestInv)
<1>1. ListInv /\ TestInv /\ [ManagerNext]_cmVars => (ListInv /\ TestInv)'
  <2> SUFFICES ASSUME ListInv, TestInv, [ManagerNext]_cmVars PROVE ListInv' /\ TestInv'
    OBVIOUS
  <2>1. ASSUME NEW n \in Node, NEW t \in Tunnel,
               answerHandshake(n, t) \/ makeTrafficDecision(n, t)
        PROVE  ListInv' /\ TestInv'
    BY Zenon, <2>1, AnswerKeeps, MakeDecisionKeeps
  <2>2. ASSUME NEW t \in Tunnel, completeHandshake(t) \/ timeOutHandshake(t)
        PROVE  ListInv' /\ TestInv'
    BY Zenon, <2>2, CompleteKeeps, TimeOutKeeps
  <2>3. ASSUME NEW n \in Node, doTrafficCheck(n) PROVE ListInv' /\ TestInv'
    BY Zenon, <2>3, SwapKeeps, SendTestKeeps, RemoveKeeps DEF doTrafficCheck
  <2>4. ASSUME NEW n \in Node, sendTraffic(n) PROVE ListInv' /\ TestInv'
    BY Zenon, <2>4, SendTrafficKeeps
  <2>5. ASSUME NEW m \in net, readOutsidePackets(m) PROVE ListInv' /\ TestInv'
    BY Zenon, <2>5, UnknownKeeps, TrafficKeeps, ReceiveCloseKeeps DEF readOutsidePackets
  <2>6. ASSUME NEW m \in net, lose(m) PROVE ListInv' /\ TestInv'
    BY Zenon, <2>6, LoseKeeps
  <2>7. CASE UNCHANGED cmVars
    <3>1. ManagerTyped' /\ FlagsListed' /\ Checked'
      BY Zenon, <2>7 DEF ListInv, cmVars, ManagerTyped, FlagsListed, Checked
    <3>2. TestedAfterHandshake' /\ TestHeard' /\ Dead'
      BY <2>7 DEF TestInv, cmVars, TestedAfterHandshake, TestHeard, Coming, Dead
    <3> QED BY Zenon, <2>7, <3>1, <3>2, ListsKept DEF ListInv, TestInv, cmVars
  <2> QED BY Zenon, <2>1, <2>2, <2>3, <2>4, <2>5, <2>6, <2>7 DEF ManagerNext
<1> QED BY <1>1, ManagerInitially, PTL DEF ManagerSpec

\* Every tunnel is listed once, has flags only while it is listed, and is
\* checked again: whatever messages are lost and however the handlers of both
\* nodes interleave, no tunnel is left that nobody looks at any more.
THEOREM ManagerChecks == ManagerSpec => []TunnelsChecked
<1>1. ListInv => TunnelsChecked
  <2> SUFFICES ASSUME ListInv PROVE TunnelsChecked
    OBVIOUS
  <2>1. ASSUME NEW n \in Node
        PROVE  /\ Members(tunnels[n]) \subseteq Tunnel
               /\ Len(tunnels[n]) = Cardinality(Members(tunnels[n]))
    <3>1. tunnels[n] \in Seq(Tunnel) /\ Distinct(tunnels[n])
      BY Zenon DEF ListInv, ManagerTyped, ListedOnce
    <3> QED BY <3>1, DistinctLength DEF Members
  <2>2. ManagerTypeOK
    BY Zenon, <2>1 DEF ManagerTypeOK, Has, ListInv, ManagerTyped, FlagsListed
  <2>3. CheckedAgain
    BY Zenon DEF CheckedAgain, Has, ListInv, Checked
  <2> QED BY Zenon, <2>2, <2>3 DEF TunnelsChecked
<1> QED BY <1>1, ManagerInvariant, PTL

\* While nothing is lost, a tunnel that was tested and is deleted as dead is
\* one the peer does not have, for any number of tunnels and any amount of
\* traffic in flight.
THEOREM ManagerDeadIsDead == ManagerSpec => []DeadIsDead
<1>1. TestInv => DeadIsDead
  BY Zenon DEF TestInv, Dead, DeadIsDead, Has
<1> QED BY <1>1, ManagerInvariant, PTL

\* A tunnel is put on a list only by its handshake: a late swap or a late
\* message never brings a closed one back.
THEOREM ManagerStaysClosed == ManagerSpec => StaysClosed
<1> DEFINE A == \A n \in Node, t \in Tunnel :
                  t \in Has(n)' \ Has(n) => answered'[t] # answered[t]
<1>1. ListInv /\ [ManagerNext]_cmVars => [A]_cmVars
  <2> SUFFICES ASSUME ListInv, ManagerNext PROVE A
    OBVIOUS
  <2>1. ASSUME NEW p \in Node, NEW u \in Tunnel, addTunnel(p, u),
               u \notin Members(tunnels[p]), answered'[u] # answered[u]
        PROVE  A
    <3>1. /\ Members(tunnels'[p]) = Members(tunnels[p]) \cup {u}
          /\ \A m \in Node \ {p} : Members(tunnels'[m]) = Members(tunnels[m])
      BY Zenon, <2>1, ListAdded
    <3> QED BY Zenon, <2>1, <3>1 DEF Has
  <2>2. ASSUME NEW n \in Node, NEW t \in Tunnel, answerHandshake(n, t) PROVE A
    <3>1. answered[t] = "no" /\ answered'[t] = n /\ n # "no" /\ addTunnel(n, t)
      BY Zenon, <2>2, ConnectionAssumption DEF answerHandshake, ListInv, ManagerTyped
    <3> QED BY Zenon, <2>1, <3>1 DEF ListInv, ListedAfterHandshake
  <2>3. ASSUME NEW t \in Tunnel, completeHandshake(t) PROVE A
    <3>1. /\ answered[t] \in Node /\ answered'[t] = "done" /\ answered[t] # "done"
          /\ addTunnel(Peer(answered[t]), t) /\ Peer(answered[t]) \in Node
      BY ZenonT(60), <2>3, ConnectionAssumption, PeerFacts DEF completeHandshake, ListInv, ManagerTyped
    <3> QED BY Zenon, <2>1, <3>1 DEF ListInv, ListedAfterHandshake
  <2>4. ASSUME UNCHANGED tunnels PROVE A
    BY Zenon, <2>4 DEF Has
  <2>5. ASSUME NEW p \in Node, NEW u \in Tunnel, closeTunnel(p, u) PROVE A
    BY Zenon, <2>5, ListRemoved DEF Has
  <2>6. ASSUME NEW n \in Node, doTrafficCheck(n) PROVE A
    <3>1. CASE swapPrimary(n)
      BY Zenon, <3>1, ListSwapped DEF Has
    <3>2. CASE sendTestPacket(n)
      BY Zenon, <2>4, <3>2 DEF sendTestPacket
    <3>3. CASE removeTunnel(n)
      BY Zenon, <2>5, <3>3 DEF removeTunnel, ListInv, ManagerTyped
    <3> QED BY Zenon, <2>6, <3>1, <3>2, <3>3 DEF doTrafficCheck
  <2>7. ASSUME NEW m \in net, readOutsidePackets(m) PROVE A
    <3>1. m.to \in Node /\ m.tunnel \in Tunnel
      BY Zenon DEF ListInv, ManagerTyped, Message
    <3> QED BY Zenon, <2>4, <2>5, <2>7, <3>1
            DEF readOutsidePackets, receiveUnknown, receiveTraffic, receiveClose
  <2> HIDE DEF A
  <2> QED BY Zenon, <2>2, <2>3, <2>4, <2>6, <2>7
          DEF ManagerNext, makeTrafficDecision, timeOutHandshake, sendTraffic, lose
<1> QED BY <1>1, ManagerInvariant, PTL DEF ManagerSpec, StaysClosed
=============================================================================
