---------------------------- MODULE FirewallProof ----------------------------
(***************************************************************************)
(* Which packets pass, and how a running node is told otherwise: the       *)
(* connection table (Firewall), the rule tables (FirewallRules), the       *)
(* networks of a peer (PeerNetworks) and reloads (ConfigReload).           *)
(*                                                                         *)
(* The connection table, for every set of flows, routines and rule tables, *)
(* every number of versions and any number of reloads: VerdictsCurrent     *)
(* is not inductive: a routine may hold a firewall that was replaced, and  *)
(* write into the table with it.  What saves the table is that versions    *)
(* only grow as long as the table lives, so that nothing a late routine    *)
(* writes can carry the running version, and that a wrap of the version    *)
(* leaves the table and its late routines behind.                          *)
(***************************************************************************)
EXTENDS Firewall, FirewallRules, PeerNetworks, ConfigReload, WellFoundedInduction, TLAPS

\* A routine on the running table holds the running firewall or an older one.
HeldIsOlder ==
  \A r \in Routine :
    routine[r] # Idle /\ routine[r].fw.ct = firewall.ct =>
      /\ routine[r].fw.version <= firewall.version
      /\ routine[r].fw.version = firewall.version =>
           routine[r].fw.rules = firewall.rules

\* No entry of the running table is from a later version.
EntriesOlder ==
  \A p \in Flow : Conns[firewall.ct][p].tracked =>
    Conns[firewall.ct][p].version <= firewall.version

\* Who adds a connection was told so by the rules of the firewall it holds.
AddsAllowed ==
  \A r \in Routine : routine[r].pc = "addConn" =>
    <<routine[r].flow, routine[r].incoming>> \in Allows[routine[r].fw.rules]

\* A routine whose cache was emptied after the reload works on the running
\* firewall.
FilledIsCurrent ==
  \A r \in Routine : filledSince[r] /\ routine[r] # Idle =>
    routine[r].fw = firewall

FirewallInv ==
  /\ FirewallTypeOK /\ HeldIsOlder /\ EntriesOlder /\ AddsAllowed
  /\ FilledIsCurrent /\ VerdictsCurrent /\ TrackedHasTimer

-----------------------------------------------------------------------------
(* The operators.                                                          *)

\* evict takes an entry's timer only together with the entry, and changes no
\* entry it keeps.
LEMMA EvictKeepsTimers ==
  ASSUME NEW conns \in [Flow -> Conn \cup {NoConn}],
         NEW timers \in [Flow -> Nat],
         \A q \in Flow : conns[q].tracked => timers[q] > 0,
         NEW p \in Flow, timers[p] > 0
  PROVE  LET s == evict(conns, timers, p)
         IN  /\ s.conns \in [Flow -> Conn \cup {NoConn}]
             /\ s.timers \in [Flow -> Nat]
             /\ \A q \in Flow : s.conns[q] = conns[q] \/ s.conns[q] = NoConn
             /\ \A q \in Flow : s.conns[q].tracked => s.timers[q] > 0
<1>1. timers[p] - 1 \in Nat
  OBVIOUS
<1>2. NoConn.tracked = FALSE
  BY Zenon DEF NoConn
<1>3. CASE ~conns[p].tracked
  BY Zenon, <1>1, <1>2, <1>3 DEF evict
<1>4. CASE conns[p].tracked /\ ~conns[p].expired
  BY Zenon, <1>4 DEF evict
<1>5. CASE conns[p].tracked /\ conns[p].expired
  BY Zenon, <1>1, <1>2, <1>5 DEF evict
<1> QED
  BY Zenon, <1>3, <1>4, <1>5

\* So does the purge that inConns begins with.
LEMMA PurgeKeepsTimers ==
  ASSUME FirewallTypeOK, TrackedHasTimer,
         NEW ct \in {0, 1}, NEW s \in AfterPurge(ct)
  PROVE  /\ s.conns \in [Flow -> Conn \cup {NoConn}]
         /\ s.timers \in [Flow -> Nat]
         /\ \A q \in Flow : s.conns[q] = Conns[ct][q] \/ s.conns[q] = NoConn
         /\ \A q \in Flow : s.conns[q].tracked => s.timers[q] > 0
<1>1. /\ Conns[ct] \in [Flow -> Conn \cup {NoConn}]
      /\ wheel[ct] \in [Flow -> Nat]
      /\ \A q \in Flow : Conns[ct][q].tracked => wheel[ct][q] > 0
  BY Zenon DEF FirewallTypeOK, TrackedHasTimer
<1>2. CASE s = [conns |-> Conns[ct], timers |-> wheel[ct]]
  BY Zenon, <1>1, <1>2
<1>3. ASSUME NEW p \in Flow, wheel[ct][p] > 0,
             s = evict(Conns[ct], wheel[ct], p)
      PROVE  /\ s.conns \in [Flow -> Conn \cup {NoConn}]
             /\ s.timers \in [Flow -> Nat]
             /\ \A q \in Flow : s.conns[q] = Conns[ct][q] \/ s.conns[q] = NoConn
             /\ \A q \in Flow : s.conns[q].tracked => s.timers[q] > 0
  BY Zenon, <1>1, <1>3, EvictKeepsTimers
<1> QED
  BY Zenon, <1>2, <1>3 DEF AfterPurge

\* Revalidate drops the entry, or stamps it with the version of fw and then
\* fw's rules allow it unless it had that version already.
LEMMA RevalidateAsks ==
  ASSUME NEW conns \in [Flow -> Conn \cup {NoConn}],
         NEW fw \in Fw, NEW p \in Flow, NEW in \in BOOLEAN, conns[p].tracked
  PROVE  LET c == Revalidate(fw, conns, p, in)
         IN  /\ c \in [Flow -> Conn \cup {NoConn}]
             /\ \A q \in Flow \ {p} : c[q] = conns[q]
             /\ c[p].tracked =>
                  /\ c[p].version = fw.version
                  /\ c[p].incoming = conns[p].incoming
                  /\ \/ conns[p].version = fw.version
                     \/ <<p, c[p].incoming>> \in Allows[fw.rules]
<1>1. NoConn.tracked = FALSE
  BY Zenon DEF NoConn
<1>2. conns[p] \in Conn
  BY DEF NoConn
<1>3. CASE conns[p].version # fw.version /\ ~StillAllowed(fw, conns[p], p, in)
  BY Zenon, <1>1, <1>3 DEF Revalidate
<1>4. CASE ~(conns[p].version # fw.version /\ ~StillAllowed(fw, conns[p], p, in))
  <2> DEFINE e == [conns[p] EXCEPT !.version = fw.version, !.expired = FALSE]
  <2>1. /\ e \in Conn /\ e.version = fw.version
        /\ e.incoming = conns[p].incoming
    BY Zenon, <1>2 DEF Conn, Fw
  <2>2. Revalidate(fw, conns, p, in) = [conns EXCEPT ![p] = e]
    BY Zenon, <1>4 DEF Revalidate
  <2> HIDE DEF e
  <2>3. \/ conns[p].version = fw.version
        \/ <<p, conns[p].incoming>> \in Allows[fw.rules]
    BY Zenon, <1>4 DEF StillAllowed
  <2> QED
    BY Zenon, <2>1, <2>2, <2>3
<1> QED
  BY Zenon, <1>3, <1>4

\* The next version is one more, or zero.
LEMMA NextVersion ==
  ASSUME NEW v \in 0..(Versions - 1)
  PROVE  (v + 1) % Versions = IF v + 1 = Versions THEN 0 ELSE v + 1
<1>1. Versions \in Nat /\ Versions > 0
  BY FirewallAssumption
<1>2. CASE v + 1 = Versions
  <2>1. Versions % Versions = 0
    BY <1>1
  <2> QED
    BY Zenon, <1>2, <2>1
<1>3. CASE v + 1 < Versions
  BY <1>1, <1>3
<1> QED
  BY <1>1, <1>2, <1>3

-----------------------------------------------------------------------------
(* The invariant.                                                          *)

\* It holds of the tables NewFirewall makes.
LEMMA FirewallInitInv == FirewallInit => FirewallInv
<1> SUFFICES ASSUME FirewallInit PROVE FirewallInv
  OBVIOUS
<1> USE FirewallAssumption DEF FirewallInit, NoConns, NoTimers, NoConn, Idle
<1>1. FirewallTypeOK
  <2>1. firewall \in Fw
    BY DEF Fw
  <2>2. Conns \in [{0, 1} -> [Flow -> Conn \cup {NoConn}]]
    BY Zenon DEF NoConns
  <2>3. wheel \in [{0, 1} -> [Flow -> Nat]]
    BY Zenon DEF NoTimers
  <2>4. routine \in [Routine -> Working \cup {Idle}]
    OBVIOUS
  <2> QED
    BY Zenon, <2>1, <2>2, <2>3, <2>4 DEF FirewallTypeOK
<1>2. HeldIsOlder /\ FilledIsCurrent /\ AddsAllowed
  BY Zenon DEF HeldIsOlder, FilledIsCurrent, AddsAllowed
<1>3. EntriesOlder
  BY Zenon DEF EntriesOlder
<1>4. VerdictsCurrent /\ TrackedHasTimer
  BY Zenon DEF VerdictsCurrent, CurrentIsAllowed, CacheSettles, TrackedHasTimer
<1> QED
  BY Zenon, <1>1, <1>2, <1>3, <1>4 DEF FirewallInv

\* A call reads the running firewall; a cache is emptied before it counts.
LEMMA CallDropInv ==
  ASSUME FirewallInv, NEW r \in Routine, NEW p \in Flow, NEW in \in BOOLEAN,
         CallDrop(r, p, in)
  PROVE  FirewallInv'
<1> DEFINE w == [pc |-> "inConns", fw |-> firewall, flow |-> p, incoming |-> in]
<1> USE DEF FirewallInv
<1>1. /\ w \in Working /\ w # Idle /\ w.pc = "inConns" /\ w.fw = firewall
      /\ routine' = [routine EXCEPT ![r] = w]
      /\ UNCHANGED <<firewall, Conns, wheel, settled>>
  BY Zenon DEF CallDrop, Working, Idle, FirewallTypeOK
<1> HIDE DEF w
<1>2. /\ cache' \in [Routine -> SUBSET Flow]
      /\ ticked' \in [Routine -> BOOLEAN]
      /\ filledSince' \in [Routine -> BOOLEAN]
      /\ \A q \in Routine : \/ cache'[q] = {}
                            \/ cache'[q] = cache[q] /\ filledSince'[q] = filledSince[q]
      /\ \A q \in Routine \ {r} : filledSince'[q] = filledSince[q]
  BY ZenonT(60) DEF CallDrop, Get, FirewallTypeOK
<1>3. FirewallTypeOK'
  BY Zenon, <1>1, <1>2 DEF FirewallTypeOK
<1>4. \A q \in Routine : routine'[q] = IF q = r THEN w ELSE routine[q]
  BY Zenon, <1>1 DEF FirewallTypeOK
<1>5. HeldIsOlder'
  <2>1. firewall.version <= firewall.version
    BY FirewallAssumption DEF FirewallTypeOK, Fw
  <2> QED
    BY <1>1, <1>4, <2>1 DEF HeldIsOlder
<1>6. EntriesOlder' /\ TrackedHasTimer' /\ CurrentIsAllowed'
  BY Zenon, <1>1 DEF EntriesOlder, TrackedHasTimer, CurrentIsAllowed, VerdictsCurrent
<1>7. AddsAllowed'
  BY Zenon, <1>1, <1>4 DEF AddsAllowed
<1>8. FilledIsCurrent'
  BY <1>1, <1>2, <1>4 DEF FilledIsCurrent
<1>9. CacheSettles'
  BY Zenon, <1>1, <1>2 DEF CacheSettles, VerdictsCurrent
<1> QED
  BY Zenon, <1>3, <1>5, <1>6, <1>7, <1>8, <1>9 DEF VerdictsCurrent

\* inCache ends the call; Expire touches no version and no timer; a tick only
\* moves the ticker.
LEMMA QuietInv ==
  ASSUME FirewallInv,
         \/ \E r \in Routine : inCache(r)
         \/ \E p \in Flow : Expire(p)
         \/ CacheTick
         \/ UNCHANGED fwVars
  PROVE  FirewallInv'
<1> USE DEF FirewallInv
<1>1. ASSUME NEW r \in Routine, inCache(r) PROVE FirewallInv'
  <2>1. /\ routine' = [routine EXCEPT ![r] = Idle]
        /\ UNCHANGED <<firewall, Conns, wheel, cache, ticked, settled, filledSince>>
    BY Zenon, <1>1 DEF inCache, Finished
  <2>2. \A q \in Routine : routine'[q] = IF q = r THEN Idle ELSE routine[q]
    BY Zenon, <2>1 DEF FirewallTypeOK
  <2>3. FirewallTypeOK'
    BY Zenon, <2>1 DEF FirewallTypeOK
  <2>4. HeldIsOlder' /\ FilledIsCurrent' /\ AddsAllowed'
    BY SMTT(60), <2>1, <2>2 DEF HeldIsOlder, FilledIsCurrent, AddsAllowed, Idle
  <2>5. EntriesOlder' /\ TrackedHasTimer' /\ VerdictsCurrent'
    BY Zenon, <2>1 DEF EntriesOlder, TrackedHasTimer, VerdictsCurrent, CurrentIsAllowed, CacheSettles
  <2> QED
    BY Zenon, <2>3, <2>4, <2>5
<1>2. ASSUME NEW p \in Flow, Expire(p) PROVE FirewallInv'
  <2> DEFINE c == Conns[firewall.ct][p]
             e == [c EXCEPT !.expired = TRUE]
  <2>1. c \in Conn /\ firewall.ct \in {0, 1}
    BY SMTT(60), <1>2 DEF FirewallTypeOK, Expire, NoConn, Fw
  <2>2. /\ e \in Conn /\ e.tracked = c.tracked /\ e.version = c.version
        /\ e.incoming = c.incoming
    BY Zenon, <2>1 DEF Conn
  <2>3. /\ Conns' = [Conns EXCEPT ![firewall.ct] = [@ EXCEPT ![p] = e]]
        /\ UNCHANGED <<firewall, wheel, cache, ticked, routine, settled, filledSince>>
    BY Zenon, <1>2 DEF Expire
  <2> HIDE DEF e
  <2>4. \A t \in {0, 1}, q \in Flow :
          Conns'[t][q] = IF t = firewall.ct /\ q = p THEN e ELSE Conns[t][q]
    BY Zenon, <2>1, <2>3 DEF FirewallTypeOK
  <2>5. FirewallTypeOK'
    BY Zenon, <2>1, <2>2, <2>3 DEF FirewallTypeOK
  <2>6. HeldIsOlder' /\ FilledIsCurrent' /\ AddsAllowed' /\ CacheSettles'
    BY Zenon, <2>3 DEF HeldIsOlder, FilledIsCurrent, AddsAllowed, CacheSettles, VerdictsCurrent
  <2> DEFINE Kept(t, q) == /\ Conns'[t][q].tracked = Conns[t][q].tracked
                           /\ Conns'[t][q].version = Conns[t][q].version
                           /\ Conns'[t][q].incoming = Conns[t][q].incoming
  <2>7. \A t \in {0, 1}, q \in Flow : Kept(t, q)
    BY Zenon, <2>2, <2>4
  <2>8. \A q \in Flow : Kept(firewall.ct, q)
    BY Zenon, <2>1, <2>7
  <2>f. firewall' = firewall
    BY Zenon, <2>3
  <2>9. EntriesOlder'
    <3> SUFFICES ASSUME NEW q \in Flow, Conns'[firewall.ct][q].tracked
                 PROVE  Conns'[firewall.ct][q].version <= firewall.version
      BY Zenon, <2>f DEF EntriesOlder
    <3> QED BY Zenon, <2>8 DEF EntriesOlder
  <2>10. TrackedHasTimer'
    BY Zenon, <2>3, <2>7 DEF TrackedHasTimer
  <2>11. CurrentIsAllowed'
    <3> SUFFICES ASSUME NEW q \in Flow, Conns'[firewall.ct][q].tracked,
                        Conns'[firewall.ct][q].version = firewall.version
                 PROVE  <<q, Conns'[firewall.ct][q].incoming>> \in Allows[firewall.rules]
      BY Zenon, <2>f DEF CurrentIsAllowed
    <3> QED BY Zenon, <2>8 DEF CurrentIsAllowed, VerdictsCurrent
  <2> QED
    BY Zenon, <2>5, <2>6, <2>9, <2>10, <2>11 DEF VerdictsCurrent
<1>3. CASE CacheTick
  <2>1. FirewallTypeOK'
    BY Zenon, <1>3 DEF CacheTick, FirewallTypeOK
  <2> QED
    BY Zenon, <1>3, <2>1 DEF CacheTick, HeldIsOlder, FilledIsCurrent, AddsAllowed,
       EntriesOlder, TrackedHasTimer, VerdictsCurrent, CurrentIsAllowed, CacheSettles
<1>4. CASE UNCHANGED fwVars
  BY Zenon, <1>4 DEF fwVars, FirewallTypeOK, HeldIsOlder, FilledIsCurrent, AddsAllowed,
     EntriesOlder, TrackedHasTimer, VerdictsCurrent, CurrentIsAllowed, CacheSettles
<1> QED
  BY Zenon, <1>1, <1>2, <1>3, <1>4

\* A routine that is in Drop.
LEMMA WorkingFacts ==
  ASSUME FirewallTypeOK, NEW r \in Routine, routine[r].pc # "idle"
  PROVE  routine[r] \in Working /\ routine[r] # Idle
<1>1. routine[r] \in Working \cup {Idle}
  BY Zenon DEF FirewallTypeOK
<1>2. Idle.pc = "idle"
  BY Zenon DEF Idle
<1> QED
  BY Zenon, <1>1, <1>2

\* addConn writes an entry its own firewall allows: with the running version
\* it is the running firewall, with an older one it does not count.
LEMMA AddConnInv ==
  ASSUME FirewallInv, NEW r \in Routine, addConn(r)
  PROVE  FirewallInv'
<1> DEFINE fw == routine[r].fw
           p == routine[r].flow
           e == [tracked |-> TRUE, incoming |-> routine[r].incoming,
                 version |-> fw.version, expired |-> FALSE]
<1> USE DEF FirewallInv
<1>1. routine[r] \in Working /\ routine[r] # Idle
  <2>1. routine[r].pc = "addConn" /\ FirewallTypeOK
    BY Zenon DEF addConn
  <2> QED
    BY Zenon, <2>1, WorkingFacts
<1>2. /\ fw \in Fw /\ p \in Flow /\ routine[r].incoming \in BOOLEAN
      /\ fw.ct \in {0, 1}
  BY Zenon, <1>1 DEF Working, Fw
<1>3. /\ e \in Conn /\ e.tracked /\ e.version = fw.version
      /\ <<p, e.incoming>> \in Allows[fw.rules]
  BY Zenon, <1>1, <1>2 DEF Conn, Fw, AddsAllowed, addConn
<1>4. /\ Conns' = [Conns EXCEPT ![fw.ct] = [@ EXCEPT ![p] = e]]
      /\ routine' = [routine EXCEPT ![r] = Idle]
      /\ UNCHANGED <<firewall, cache, ticked, settled, filledSince>>
  BY Zenon DEF addConn, Finished
<1> DEFINE n == wheel[fw.ct][p] + 1
<1>timer. wheel' = IF ~Conns[fw.ct][p].tracked
               THEN [wheel EXCEPT ![fw.ct] = [@ EXCEPT ![p] = n]]
               ELSE wheel
  BY Zenon DEF addConn
<1>nat. n \in Nat /\ n > 0
  BY SMTT(60), <1>2 DEF FirewallTypeOK
<1> HIDE DEF e, fw, p, n
<1>5. \A t \in {0, 1}, q \in Flow :
        Conns'[t][q] = IF t = fw.ct /\ q = p THEN e ELSE Conns[t][q]
  BY Zenon, <1>2, <1>4 DEF FirewallTypeOK
<1>6. wheel' \in [{0, 1} -> [Flow -> Nat]] /\ TrackedHasTimer'
  <2>1. CASE ~Conns[fw.ct][p].tracked
    <3>1. \A t \in {0, 1}, q \in Flow :
            wheel'[t][q] = IF t = fw.ct /\ q = p THEN n ELSE wheel[t][q]
      BY Zenon, <1>2, <1>timer, <2>1 DEF FirewallTypeOK
    <3>2. wheel' \in [{0, 1} -> [Flow -> Nat]]
      BY Zenon, <1>2, <1>timer, <1>nat, <2>1 DEF FirewallTypeOK
    <3> QED
      BY <1>nat, <1>5, <3>1, <3>2 DEF TrackedHasTimer
  <2>2. CASE Conns[fw.ct][p].tracked
    BY ZenonT(60), <1>2, <1>5, <1>timer, <2>2 DEF TrackedHasTimer, FirewallTypeOK
  <2> QED
    BY Zenon, <2>1, <2>2
<1>7. FirewallTypeOK'
  <2>1. Conns' \in [{0, 1} -> [Flow -> Conn \cup {NoConn}]]
    BY Zenon, <1>2, <1>3, <1>4 DEF FirewallTypeOK
  <2> QED
    BY Zenon, <1>4, <1>6, <2>1 DEF FirewallTypeOK
<1>8. \A q \in Routine : routine'[q] = IF q = r THEN Idle ELSE routine[q]
  BY Zenon, <1>4 DEF FirewallTypeOK
<1>9. HeldIsOlder' /\ FilledIsCurrent' /\ AddsAllowed' /\ CacheSettles'
  <2>1. Idle.pc # "addConn"
    BY Zenon DEF Idle
  <2>2. HeldIsOlder' /\ FilledIsCurrent'
    BY ZenonT(60), <1>4, <1>8 DEF HeldIsOlder, FilledIsCurrent
  <2>3. AddsAllowed'
    BY ZenonT(60), <1>4, <1>8, <2>1 DEF AddsAllowed
  <2>4. CacheSettles'
    BY Zenon, <1>4 DEF CacheSettles, VerdictsCurrent
  <2> QED
    BY Zenon, <2>2, <2>3, <2>4
<1>10. fw.ct = firewall.ct =>
         /\ fw.version <= firewall.version
         /\ fw.version = firewall.version => fw.rules = firewall.rules
  BY Zenon, <1>1 DEF HeldIsOlder, fw
<1>11. EntriesOlder' /\ CurrentIsAllowed'
  <2>1. firewall.ct \in {0, 1}
    BY Zenon DEF FirewallTypeOK, Fw
  <2>2. firewall' = firewall
    BY Zenon, <1>4
  <2>3. ASSUME NEW q \in Flow, Conns'[firewall.ct][q].tracked
        PROVE  /\ Conns'[firewall.ct][q].version <= firewall.version
               /\ Conns'[firewall.ct][q].version = firewall.version =>
                    <<q, Conns'[firewall.ct][q].incoming>> \in Allows[firewall.rules]
    <3>1. CASE firewall.ct = fw.ct /\ q = p
      <4>1. Conns'[firewall.ct][q] = e
        BY Zenon, <1>5, <2>1, <3>1
      <4> QED
        BY Zenon, <1>3, <1>10, <3>1, <4>1
    <3>2. CASE ~(firewall.ct = fw.ct /\ q = p)
      <4>1. Conns'[firewall.ct][q] = Conns[firewall.ct][q]
        BY Zenon, <1>5, <2>1, <3>2
      <4> QED
        BY Zenon, <2>3, <4>1 DEF EntriesOlder, CurrentIsAllowed, VerdictsCurrent
    <3> QED
      BY Zenon, <3>1, <3>2
  <2> QED
    BY Zenon, <2>2, <2>3 DEF EntriesOlder, CurrentIsAllowed
<1> QED
  BY Zenon, <1>6, <1>7, <1>9, <1>11 DEF VerdictsCurrent

\* What inConns leaves in the table, and whether the packet passes.
LEMMA InConnsTable ==
  ASSUME FirewallInv, NEW r \in Routine, inConns(r)
  PROVE  LET fw == routine[r].fw
             p == routine[r].flow
         IN  /\ fw \in Fw /\ p \in Flow /\ fw.ct \in {0, 1}
             /\ routine[r] \in Working /\ routine[r] # Idle
             /\ \E conns \in [Flow -> Conn \cup {NoConn}], timers \in [Flow -> Nat] :
                  /\ \A q \in Flow : conns[q].tracked => timers[q] > 0
                  /\ \A q \in Flow \ {p} : conns[q] = Conns[fw.ct][q] \/ conns[q] = NoConn
                  /\ conns[p].tracked =>
                       /\ Conns[fw.ct][p].tracked
                       /\ conns[p].version = fw.version
                       /\ conns[p].incoming = Conns[fw.ct][p].incoming
                       /\ \/ Conns[fw.ct][p].version = fw.version
                          \/ <<p, conns[p].incoming>> \in Allows[fw.rules]
                  /\ Conns' = [Conns EXCEPT ![fw.ct] = conns]
                  /\ wheel' = [wheel EXCEPT ![fw.ct] = timers]
                  /\ IF conns[p].tracked THEN Pass(r, p)
                     ELSE AskRules(r, fw, p, routine[r].incoming)
<1> DEFINE fw == routine[r].fw
           p == routine[r].flow
           in == routine[r].incoming
<1> USE DEF FirewallInv
<1>1. routine[r] \in Working /\ routine[r] # Idle
  <2>1. routine[r].pc = "inConns" /\ FirewallTypeOK
    BY Zenon DEF inConns
  <2> QED
    BY Zenon, <2>1, WorkingFacts
<1>2. fw \in Fw /\ p \in Flow /\ in \in BOOLEAN /\ fw.ct \in {0, 1}
  BY Zenon, <1>1 DEF Working, Fw
<1>3. PICK s \in AfterPurge(fw.ct) :
        LET conns == IF s.conns[p].tracked THEN Revalidate(fw, s.conns, p, in)
                     ELSE s.conns
        IN  /\ Conns' = [Conns EXCEPT ![fw.ct] = conns]
            /\ wheel' = [wheel EXCEPT ![fw.ct] = s.timers]
            /\ IF conns[p].tracked THEN Pass(r, p) ELSE AskRules(r, fw, p, in)
  BY Zenon DEF inConns
<1> HIDE DEF fw, p, in
<1>4. /\ s.conns \in [Flow -> Conn \cup {NoConn}]
      /\ s.timers \in [Flow -> Nat]
      /\ \A q \in Flow : s.conns[q] = Conns[fw.ct][q] \/ s.conns[q] = NoConn
      /\ \A q \in Flow : s.conns[q].tracked => s.timers[q] > 0
  BY Zenon, <1>2, PurgeKeepsTimers
<1>5. NoConn.tracked = FALSE
  BY Zenon DEF NoConn
<1> DEFINE conns == IF s.conns[p].tracked THEN Revalidate(fw, s.conns, p, in)
                    ELSE s.conns
<1>6. /\ conns \in [Flow -> Conn \cup {NoConn}]
      /\ \A q \in Flow \ {p} : conns[q] = s.conns[q]
      /\ conns[p].tracked =>
           /\ s.conns[p].tracked
           /\ conns[p].version = fw.version
           /\ conns[p].incoming = s.conns[p].incoming
           /\ \/ s.conns[p].version = fw.version
              \/ <<p, conns[p].incoming>> \in Allows[fw.rules]
  <2>1. CASE s.conns[p].tracked
    BY SMTT(60), <1>2, <1>4, <2>1, RevalidateAsks
  <2>2. CASE ~s.conns[p].tracked
    BY Zenon, <1>4, <2>2
  <2> QED
    BY Zenon, <2>1, <2>2
<1>7. /\ Conns' = [Conns EXCEPT ![fw.ct] = conns]
      /\ wheel' = [wheel EXCEPT ![fw.ct] = s.timers]
      /\ IF conns[p].tracked THEN Pass(r, p) ELSE AskRules(r, fw, p, in)
  BY Zenon, <1>3
<1> HIDE DEF conns
<1>8. \A q \in Flow : conns[q].tracked => s.timers[q] > 0
  BY Zenon, <1>4, <1>6
<1>9. \A q \in Flow \ {p} : conns[q] = Conns[fw.ct][q] \/ conns[q] = NoConn
  BY Zenon, <1>4, <1>6
<1>10. conns[p].tracked =>
         /\ Conns[fw.ct][p].tracked
         /\ conns[p].version = fw.version
         /\ conns[p].incoming = Conns[fw.ct][p].incoming
         /\ \/ Conns[fw.ct][p].version = fw.version
            \/ <<p, conns[p].incoming>> \in Allows[fw.rules]
  BY Zenon, <1>2, <1>4, <1>5, <1>6
<1> QED
  BY Zenon, <1>1, <1>2, <1>4, <1>6, <1>7, <1>8, <1>9, <1>10 DEF fw, p, in

-----------------------------------------------------------------------------
(* The two steps that matter most: inConns and the reload.                 *)

\* inConns passes a packet, and caches its flow, only with an entry that the
\* rules it holds allow; what it stamps with an older version does not count.
LEMMA InConnsInv ==
  ASSUME FirewallInv, NEW r \in Routine, inConns(r)
  PROVE  FirewallInv'
<1> DEFINE fw == routine[r].fw
           p == routine[r].flow
<1> USE DEF FirewallInv
<1>1. /\ fw \in Fw /\ p \in Flow /\ fw.ct \in {0, 1}
      /\ routine[r] \in Working /\ routine[r] # Idle
  BY Zenon, InConnsTable
<1>2. PICK conns \in [Flow -> Conn \cup {NoConn}], timers \in [Flow -> Nat] :
        /\ \A q \in Flow : conns[q].tracked => timers[q] > 0
        /\ \A q \in Flow \ {p} : conns[q] = Conns[fw.ct][q] \/ conns[q] = NoConn
        /\ conns[p].tracked =>
             /\ Conns[fw.ct][p].tracked
             /\ conns[p].version = fw.version
             /\ conns[p].incoming = Conns[fw.ct][p].incoming
             /\ \/ Conns[fw.ct][p].version = fw.version
                \/ <<p, conns[p].incoming>> \in Allows[fw.rules]
        /\ Conns' = [Conns EXCEPT ![fw.ct] = conns]
        /\ wheel' = [wheel EXCEPT ![fw.ct] = timers]
        /\ IF conns[p].tracked THEN Pass(r, p)
           ELSE AskRules(r, fw, p, routine[r].incoming)
  BY Zenon, InConnsTable
<1>3. UNCHANGED <<firewall, ticked, settled, filledSince>>
  BY Zenon DEF inConns
<1>4. fw.ct = firewall.ct =>
        /\ fw.version <= firewall.version
        /\ fw.version = firewall.version => fw.rules = firewall.rules
  BY Zenon, <1>1 DEF HeldIsOlder
<1>5. filledSince[r] => fw = firewall
  BY Zenon, <1>1 DEF FilledIsCurrent
<1>6. \/ /\ routine' = [routine EXCEPT ![r] = Idle]
         /\ cache' = cache
      \/ /\ conns[p].tracked
         /\ routine' = [routine EXCEPT ![r] = Idle]
         /\ cache' = [cache EXCEPT ![r] = @ \cup {p}]
      \/ /\ <<p, routine[r].incoming>> \in Allows[fw.rules]
         /\ routine' = [routine EXCEPT ![r] = [@ EXCEPT !.pc = "addConn"]]
         /\ cache' = cache
  <2>1. CASE conns[p].tracked /\ r \in CachedRoutine
    BY Zenon, <1>2, <2>1 DEF Pass, Finished
  <2>2. CASE conns[p].tracked /\ r \notin CachedRoutine
    BY ZenonT(60), <1>2, <2>2 DEF Pass, Finished, FirewallTypeOK
  <2>3. CASE ~conns[p].tracked
    BY Zenon, <1>2, <2>3 DEF AskRules, Finished
  <2> QED
    BY Zenon, <2>1, <2>2, <2>3
<1> DEFINE w == [routine[r] EXCEPT !.pc = "addConn"]
<1>7. /\ w \in Working /\ w.fw = fw /\ w.flow = p
      /\ w.incoming = routine[r].incoming
  BY Zenon, <1>1 DEF Working
<1>8. /\ cache' \in [Routine -> SUBSET Flow]
      /\ routine' \in [Routine -> Working \cup {Idle}]
      /\ \A q \in Routine \ {r} : routine'[q] = routine[q] /\ cache'[q] = cache[q]
      /\ \/ routine'[r] = Idle
         \/ routine'[r] = w /\ <<p, w.incoming>> \in Allows[fw.rules]
      /\ cache'[r] = cache[r] \/ (cache'[r] = cache[r] \cup {p} /\ conns[p].tracked)
  <2> HIDE DEF w
  <2>1. \/ routine' = [routine EXCEPT ![r] = Idle]
        \/ /\ routine' = [routine EXCEPT ![r] = w]
           /\ <<p, w.incoming>> \in Allows[fw.rules]
    BY Zenon, <1>6, <1>7 DEF w
  <2>2. \/ cache' = cache
        \/ cache' = [cache EXCEPT ![r] = @ \cup {p}] /\ conns[p].tracked
    BY Zenon, <1>6
  <2>3. /\ routine' \in [Routine -> Working \cup {Idle}]
        /\ \A q \in Routine \ {r} : routine'[q] = routine[q]
        /\ \/ routine'[r] = Idle
           \/ routine'[r] = w /\ <<p, w.incoming>> \in Allows[fw.rules]
    BY ZenonT(60), <1>7, <2>1 DEF FirewallTypeOK
  <2>4. /\ cache' \in [Routine -> SUBSET Flow]
        /\ \A q \in Routine \ {r} : cache'[q] = cache[q]
        /\ cache'[r] = cache[r] \/ (cache'[r] = cache[r] \cup {p} /\ conns[p].tracked)
    BY SMTT(60), <1>1, <2>2 DEF FirewallTypeOK
  <2> QED
    BY Zenon, <2>3, <2>4
<1> HIDE DEF fw, p, w
<1>9. \A t \in {0, 1}, q \in Flow :
        /\ Conns'[t][q] = IF t = fw.ct THEN conns[q] ELSE Conns[t][q]
        /\ wheel'[t][q] = IF t = fw.ct THEN timers[q] ELSE wheel[t][q]
  BY Zenon, <1>1, <1>2 DEF FirewallTypeOK
<1>10. FirewallTypeOK'
  BY Zenon, <1>1, <1>2, <1>3, <1>8 DEF FirewallTypeOK
<1>11. TrackedHasTimer'
  BY SMTT(60), <1>2, <1>9 DEF TrackedHasTimer
<1>12. HeldIsOlder' /\ FilledIsCurrent'
  BY SMTT(60), <1>3, <1>4, <1>5, <1>7, <1>8 DEF HeldIsOlder, FilledIsCurrent
<1>13. AddsAllowed'
  <2>1. Idle.pc # "addConn"
    BY Zenon DEF Idle
  <2> QED
    BY ZenonT(60), <1>7, <1>8, <2>1 DEF AddsAllowed
<1>14. NoConn.tracked = FALSE /\ firewall.ct \in {0, 1}
  BY Zenon DEF NoConn, FirewallTypeOK, Fw
<1>15. EntriesOlder'
  BY SMTT(60), <1>1, <1>2, <1>3, <1>4, <1>9, <1>14 DEF EntriesOlder
<1>16. CurrentIsAllowed'
  <2> SUFFICES ASSUME NEW q \in Flow, Conns'[firewall.ct][q].tracked,
                      Conns'[firewall.ct][q].version = firewall.version
               PROVE  <<q, Conns'[firewall.ct][q].incoming>> \in Allows[firewall.rules]
    BY Zenon, <1>3 DEF CurrentIsAllowed
  <2>1. CASE fw.ct = firewall.ct /\ q = p
    <3>1. Conns'[firewall.ct][q] = conns[p] /\ conns[p].tracked
      BY ZenonT(60), <1>9, <1>14, <2>1
    <3>2. fw.version = firewall.version /\ fw.rules = firewall.rules
      BY Zenon, <1>2, <1>4, <2>1, <3>1
    <3>3. CASE Conns[fw.ct][p].version = fw.version
      BY ZenonT(60), <1>1, <1>2, <2>1, <3>1, <3>2, <3>3 DEF CurrentIsAllowed, VerdictsCurrent
    <3> QED
      BY Zenon, <1>2, <2>1, <3>1, <3>2, <3>3
  <2>2. CASE ~(fw.ct = firewall.ct /\ q = p)
    <3>1. Conns'[firewall.ct][q] = Conns[firewall.ct][q]
      BY SMTT(60), <1>2, <1>9, <1>14, <2>2
    <3> QED
      BY Zenon, <3>1 DEF CurrentIsAllowed, VerdictsCurrent
  <2> QED
    BY Zenon, <2>1, <2>2
<1>17. CacheSettles'
  <2>1. ASSUME filledSince[r], conns[p].tracked
        PROVE  \E in \in BOOLEAN : <<p, in>> \in Allows[firewall.rules]
    <3>1. fw = firewall /\ Conns'[firewall.ct][p] = conns[p]
      BY ZenonT(60), <1>1, <1>5, <1>9, <1>14, <2>1
    <3>2. <<p, conns[p].incoming>> \in Allows[firewall.rules]
      BY ZenonT(60), <1>1, <1>2, <1>3, <1>16, <2>1, <3>1 DEF CurrentIsAllowed
    <3>3. conns[p] \in Conn
      BY Zenon, <1>1, <1>14, <2>1
    <3> QED
      BY Zenon, <3>2, <3>3 DEF Conn
  <2> QED
    BY ZenonT(60), <1>3, <1>8, <2>1 DEF CacheSettles, VerdictsCurrent
<1> QED
  BY Zenon, <1>10, <1>11, <1>12, <1>13, <1>15, <1>16, <1>17 DEF VerdictsCurrent

\* A reload makes the version larger than any in the table, or starts another
\* table that is empty and that no routine works on.
LEMMA ReloadInv ==
  ASSUME FirewallInv, NEW table \in RuleTable, reloadFirewall(table)
  PROVE  FirewallInv'
<1> DEFINE v == (firewall.version + 1) % Versions
<1> USE DEF FirewallInv
<1>1. /\ firewall.version \in 0..(Versions - 1) /\ firewall.ct \in {0, 1}
      /\ firewall.version \in Int /\ Versions \in Int
  BY FirewallAssumption DEF FirewallTypeOK, Fw
<1>2. v = (IF firewall.version + 1 = Versions THEN 0 ELSE firewall.version + 1)
      /\ v \in 0..(Versions - 1)
  BY <1>1, NextVersion
<1>3. PICK ct \in {0, 1} : firewall' = [version |-> v, rules |-> table, ct |-> ct]
  BY Zenon DEF reloadFirewall
<1>4. /\ firewall' \in Fw /\ firewall'.version = v /\ firewall'.rules = table
      /\ firewall'.ct = ct
  BY Zenon, <1>2, <1>3 DEF Fw
<1>5. /\ NextConntrack(v) /\ settled' = FALSE
      /\ filledSince' = [q \in Routine |-> FALSE]
      /\ UNCHANGED <<cache, ticked, routine>>
  BY Zenon DEF reloadFirewall
<1> HIDE DEF v
<1>6. FilledIsCurrent' /\ CacheSettles' /\ AddsAllowed'
  BY Zenon, <1>5 DEF FilledIsCurrent, CacheSettles, AddsAllowed
<1>7. CASE v = 0
  <2>1. /\ \A q \in Routine : routine[q] # Idle => routine[q].fw.ct = firewall.ct
        /\ ct = 1 - firewall.ct
        /\ Conns' = [Conns EXCEPT ![1 - firewall.ct] = NoConns]
        /\ wheel' = [wheel EXCEPT ![1 - firewall.ct] = NoTimers]
    BY Zenon, <1>4, <1>5, <1>7 DEF NextConntrack
  <2>2. ct \in {0, 1} /\ ct # firewall.ct
    BY SMTT(60), <1>1, <2>1
  <2>3. /\ NoConns \in [Flow -> Conn \cup {NoConn}]
        /\ NoTimers \in [Flow -> Nat]
        /\ \A q \in Flow : NoConns[q].tracked = FALSE
    BY Zenon DEF NoConns, NoTimers, NoConn
  <2>4. /\ Conns' = [Conns EXCEPT ![ct] = NoConns]
        /\ wheel' = [wheel EXCEPT ![ct] = NoTimers]
    BY Zenon, <2>1
  <2>5. FirewallTypeOK'
    BY Zenon, <1>4, <1>5, <2>3, <2>4 DEF FirewallTypeOK
  <2>6. \A q \in Flow : Conns'[ct][q].tracked = FALSE
    BY Zenon, <2>2, <2>3, <2>4 DEF FirewallTypeOK
  <2>7. EntriesOlder' /\ CurrentIsAllowed'
    BY Zenon, <1>4, <2>6 DEF EntriesOlder, CurrentIsAllowed
  <2>8. HeldIsOlder'
    BY Zenon, <1>4, <1>5, <2>1, <2>2 DEF HeldIsOlder
  <2>9. TrackedHasTimer'
    <3>1. \A t \in {0, 1} \ {ct} : Conns'[t] = Conns[t] /\ wheel'[t] = wheel[t]
      BY Zenon, <2>2, <2>4 DEF FirewallTypeOK
    <3> QED
      BY Zenon, <2>2, <2>6, <3>1 DEF TrackedHasTimer
  <2> QED
    BY Zenon, <1>6, <2>5, <2>7, <2>8, <2>9 DEF VerdictsCurrent
<1>8. CASE v # 0
  <2>1. UNCHANGED <<Conns, wheel>> /\ ct = firewall.ct
    BY Zenon, <1>4, <1>5, <1>8 DEF NextConntrack, conntrack
  <2>2. v = firewall.version + 1
    BY Zenon, <1>2, <1>8
  <2>3. FirewallTypeOK'
    BY Zenon, <1>4, <1>5, <2>1 DEF FirewallTypeOK
  <2>4. TrackedHasTimer'
    BY Zenon, <2>1 DEF TrackedHasTimer
  <2>5. \A q \in Routine : routine[q] # Idle => routine[q].fw.version \in Int
    BY SMTT(60) DEF FirewallTypeOK, Working, Fw
  <2>6. \A q \in Flow : Conns[firewall.ct][q].tracked => Conns[firewall.ct][q].version \in Int
    <3> SUFFICES ASSUME NEW q \in Flow, Conns[firewall.ct][q].tracked
                 PROVE  Conns[firewall.ct][q].version \in Int
      OBVIOUS
    <3>1. NoConn.tracked = FALSE
      BY Zenon DEF NoConn
    <3>2. Conns[firewall.ct][q] \in Conn
      BY SMTT(60), <1>1, <3>1 DEF FirewallTypeOK
    <3>3. Conns[firewall.ct][q].version \in 0..(Versions - 1)
      BY Zenon, <3>2 DEF Conn
    <3> QED
      BY SMTT(60), <1>1, <3>3
  <2>7. HeldIsOlder'
    BY SMTT(60), <1>1, <1>4, <1>5, <2>1, <2>2, <2>5 DEF HeldIsOlder
  <2>8. EntriesOlder' /\ CurrentIsAllowed'
    BY SMTT(60), <1>1, <1>4, <2>1, <2>2, <2>6 DEF EntriesOlder, CurrentIsAllowed
  <2> QED
    BY Zenon, <1>6, <2>3, <2>4, <2>7, <2>8 DEF VerdictsCurrent
<1> QED
  BY Zenon, <1>7, <1>8

-----------------------------------------------------------------------------
(* The theorems.                                                           *)

\* FirewallInv holds in every state: one lemma per step of
\* Drop, of the deadlines, the tick and the reload.
THEOREM FirewallInvariant == FirewallSpec => []FirewallInv
<1>1. FirewallInv /\ [FirewallNext]_fwVars => FirewallInv'
  <2> SUFFICES ASSUME FirewallInv, [FirewallNext]_fwVars PROVE FirewallInv'
    OBVIOUS
  <2>1. ASSUME NEW r \in Routine, NEW p \in Flow, NEW in \in BOOLEAN, CallDrop(r, p, in)
        PROVE  FirewallInv'
    BY Zenon, <2>1, CallDropInv
  <2>2. ASSUME NEW r \in Routine, inConns(r) PROVE FirewallInv'
    BY Zenon, <2>2, InConnsInv
  <2>3. ASSUME NEW r \in Routine, addConn(r) PROVE FirewallInv'
    BY Zenon, <2>3, AddConnInv
  <2>4. ASSUME NEW table \in RuleTable, reloadFirewall(table) PROVE FirewallInv'
    BY Zenon, <2>4, ReloadInv
  <2> QED
    BY Zenon, <2>1, <2>2, <2>3, <2>4, QuietInv DEF FirewallNext
<1> QED
  BY FirewallInitInv, <1>1, PTL DEF FirewallSpec

\* A packet passes without a match only where the running rules let it
\* through: an entry of the running version was allowed by the running rules,
\* and a cache emptied at a tick after the reload holds only allowed flows
\* (inConns, addConn, reloadFirewall and the caches of the routines), however
\* often the version wraps.
THEOREM FirewallVerdicts == FirewallSpec => []VerdictsCurrent
<1>1. FirewallInv => VerdictsCurrent
  BY Zenon DEF FirewallInv
<1> QED
  BY <1>1, FirewallInvariant, PTL

\* Every tracked connection has a timer that can evict it, although reloads
\* leave timers of dropped connections behind (addConn, evict).
THEOREM FirewallTimers == FirewallSpec => []TrackedHasTimer
<1>1. FirewallInv => TrackedHasTimer
  BY Zenon DEF FirewallInv
<1> QED
  BY <1>1, FirewallInvariant, PTL

-----------------------------------------------------------------------------
(* The merged tables decide as the rules do one by one (FirewallRules):    *)
(* at every level of the tables, what the added rule lets through is added *)
(* to what was let through before.                                         *)

LocalFields == {"Any", "nets"}
RuleFields == {"Any", "Groups", "Hosts", "CIDR"}
CAFields == {"Any", "CANames", "CAShas"}
Protocols == {"any", "tcp", "udp", "icmp"}

IsLocal(f) == DOMAIN f = LocalFields
LocalMap(m) == \A k \in DOMAIN m : IsLocal(m[k])
IsRule(f) == DOMAIN f = RuleFields /\ IsLocal(f.Any) /\ LocalMap(f.Hosts) /\ LocalMap(f.CIDR)
RuleMap(m) == \A k \in DOMAIN m : IsRule(m[k])
IsCA(f) == DOMAIN f = CAFields /\ IsRule(f.Any) /\ RuleMap(f.CANames) /\ RuleMap(f.CAShas)
CAMap(m) == \A k \in DOMAIN m : IsCA(m[k])
IsTable(f) == DOMAIN f = Protocols /\ \A proto \in Protocols : CAMap(f[proto])

\* What a rule that was read says, level by level.
LocalSays(l, p) ==
  \/ l = "any" \/ (l = "" /\ (UnsafeNets = {} \/ DefaultLocalAny))
  \/ l = "" /\ In(p.LocalAddr, AssignedNets)
  \/ l # "" /\ In(p.LocalAddr, {l})

PeerSays(r, p, c) ==
  \/ isAny(r)
  \/ r.groups # <<>> /\ Names(r.groups) \subseteq c.groups
  \/ r.host # "" /\ r.host = c.name
  \/ r.cidr # "" /\ p.RemoteAddr \in Prefix[r.cidr]

RuleSays(r, p, c) == LocalSays(r.localCidr, p) /\ PeerSays(r, p, c)

CASays(r, p, c) ==
  /\ \/ r.caSha = "" /\ r.caName = ""
     \/ r.caSha # "" /\ r.caSha = c.issuer
     \/ r.caName # "" /\ c.issuer \in DOMAIN CAName /\ r.caName = CAName[c.issuer]
  /\ RuleSays(r, p, c)

LooksAt(p, in) == {PortAny} \cup (IF p.Protocol = "icmp" THEN {} ELSE {PortOf(p, in)})

PortSays(r, p, in, c) ==
  (\E i \in LooksAt(p, in) : i \in r.start..r.end) /\ CASays(r, p, c)

Says(r, p, in, c) == r.proto \in {"any", p.Protocol} /\ PortSays(r, p, in, c)

LEMMA EmptyFacts == DOMAIN EmptyMap = {}
BY DEF EmptyMap

-----------------------------------------------------------------------------

LocalGrows(g, f, l, p) ==
  IsLocal(g) /\ (LocalCIDRMatch(g, p) <=> LocalCIDRMatch(f, p) \/ LocalSays(l, p))

LEMMA LocalAdded ==
  ASSUME NEW f, IsLocal(f), NEW l, NEW p
  PROVE  LocalGrows(LocalCIDRAddRule(f, l), f, l, p)
<1> DEFINE any == l = "any" \/ (l = "" /\ (UnsafeNets = {} \/ DefaultLocalAny))
           g == LocalCIDRAddRule(f, l)
<1>0. "Any" \in LocalFields /\ "nets" \in LocalFields
  BY DEF LocalFields
<1>1. CASE any
  <2>1. g = [f EXCEPT !.Any = TRUE]
    BY Zenon, <1>1 DEF LocalCIDRAddRule
  <2>2. DOMAIN g = LocalFields /\ g.Any
    BY <1>0, <2>1 DEF IsLocal
  <2> QED BY Zenon, <1>1, <2>2 DEF LocalGrows, IsLocal, LocalCIDRMatch, LocalSays
<1>2. CASE ~any /\ l = ""
  <2>1. g = [f EXCEPT !.nets = @ \cup AssignedNets]
    BY Zenon, <1>2 DEF LocalCIDRAddRule
  <2>2. DOMAIN g = LocalFields /\ g.Any = f.Any /\ g.nets = f.nets \cup AssignedNets
    BY <1>0, <2>1 DEF IsLocal
  <2> QED BY Zenon, <1>2, <2>2 DEF LocalGrows, IsLocal, LocalCIDRMatch, LocalSays, In
<1>3. CASE ~any /\ l # ""
  <2>1. g = [f EXCEPT !.nets = @ \cup {l}]
    BY Zenon, <1>3 DEF LocalCIDRAddRule
  <2>2. DOMAIN g = LocalFields /\ g.Any = f.Any /\ g.nets = f.nets \cup {l}
    BY <1>0, <2>1 DEF IsLocal
  <2> QED BY Zenon, <1>3, <2>2 DEF LocalGrows, IsLocal, LocalCIDRMatch, LocalSays, In
<1> QED BY Zenon, <1>1, <1>2, <1>3

LEMMA LocalNone ==
  ASSUME NEW p PROVE IsLocal(NewLocalCIDR) /\ ~LocalCIDRMatch(NewLocalCIDR, p)
<1>1. DOMAIN NewLocalCIDR = LocalFields /\ NewLocalCIDR.nets = {} /\ ~NewLocalCIDR.Any
  BY DEF NewLocalCIDR, LocalFields
<1> QED BY Zenon, <1>1 DEF IsLocal, LocalCIDRMatch, In

-----------------------------------------------------------------------------

\* A host or a network gets the rule.
LocalPut(m, key, l) ==
  IF key = "" THEN m
  ELSE Put(m, key, LocalCIDRAddRule(Get0(m, key, NewLocalCIDR), l))

LocalAt(m, k, p) == k \in DOMAIN m /\ LocalCIDRMatch(m[k], p)

LEMMA LocalPutAdded ==
  ASSUME NEW m, LocalMap(m), NEW key, NEW l, NEW p
  PROVE  /\ LocalMap(LocalPut(m, key, l))
         /\ \A k : LocalAt(LocalPut(m, key, l), k, p) <=>
                     \/ LocalAt(m, k, p)
                     \/ key # "" /\ k = key /\ LocalSays(l, p)
<1>1. CASE key = ""
  BY Zenon, <1>1 DEF LocalPut
<1>2. CASE key # ""
  <2> DEFINE old == Get0(m, key, NewLocalCIDR)
             new == LocalCIDRAddRule(old, l)
             n == Put(m, key, new)
  <2>1. LocalPut(m, key, l) = n
    BY Zenon, <1>2 DEF LocalPut
  <2>2. IsLocal(old) /\ (LocalCIDRMatch(old, p) <=> LocalAt(m, key, p))
    BY Zenon, LocalNone DEF Get0, LocalMap, LocalAt
  <2>3. LocalGrows(new, old, l, p)
    BY Zenon, <2>2, LocalAdded
  <2>4. /\ DOMAIN n = DOMAIN m \cup {key} /\ n[key] = new
        /\ \A k \in DOMAIN m : k # key => n[k] = m[k]
    <3> HIDE DEF new
    <3> QED BY DEF Put
  <2> HIDE DEF n, new, old
  <2>5. LocalMap(n)
    BY Zenon, <2>3, <2>4 DEF LocalMap, LocalGrows
  <2>6. ASSUME NEW k
        PROVE  LocalAt(n, k, p) <=> LocalAt(m, k, p) \/ (k = key /\ LocalSays(l, p))
    <3>1. CASE k = key
      BY Zenon, <2>2, <2>3, <2>4, <3>1 DEF LocalAt, LocalGrows
    <3>2. CASE k # key
      BY Zenon, <2>4, <3>2 DEF LocalAt
    <3> QED BY Zenon, <3>1, <3>2
  <2> QED BY Zenon, <1>2, <2>1, <2>5, <2>6
<1> QED BY Zenon, <1>1, <1>2

RuleGrows(g, f, r, p, c) ==
  IsRule(g) /\ (RuleMatch(g, p, c) <=> RuleMatch(f, p, c) \/ RuleSays(r, p, c))

LEMMA RuleAdded ==
  ASSUME NEW f, IsRule(f), NEW r, NEW p, NEW c
  PROVE  RuleGrows(RuleAddRule(f, r), f, r, p, c)
<1> DEFINE g == RuleAddRule(f, r)
<1>0. /\ "Any" \in RuleFields /\ "Groups" \in RuleFields
      /\ "Hosts" \in RuleFields /\ "CIDR" \in RuleFields
  BY DEF RuleFields
<1>1. CASE isAny(r)
  <2> DEFINE a == LocalCIDRAddRule(f.Any, r.localCidr)
  <2>1. g = [f EXCEPT !.Any = a]
    BY Zenon, <1>1 DEF RuleAddRule
  <2>2. /\ DOMAIN g = RuleFields /\ g.Any = a /\ g.Groups = f.Groups
        /\ g.Hosts = f.Hosts /\ g.CIDR = f.CIDR
    <3> HIDE DEF a
    <3> QED BY <1>0, <2>1 DEF IsRule
  <2>3. LocalGrows(a, f.Any, r.localCidr, p)
    BY Zenon, LocalAdded DEF IsRule
  <2>4. IsRule(g)
    BY Zenon, <2>2, <2>3 DEF IsRule, LocalGrows
  <2>5. RuleMatch(g, p, c) <=> RuleMatch(f, p, c) \/ LocalSays(r.localCidr, p)
    BY Zenon, <2>2, <2>3 DEF RuleMatch, LocalGrows
  <2> QED BY Zenon, <1>1, <2>4, <2>5 DEF RuleGrows, RuleSays, PeerSays
<1>2. CASE ~isAny(r)
  <2> DEFINE own == [groups |-> r.groups,
                     local |-> LocalCIDRAddRule(NewLocalCIDR, r.localCidr)]
             groups == IF r.groups = <<>> THEN f.Groups ELSE f.Groups \cup {own}
             hosts == LocalPut(f.Hosts, r.host, r.localCidr)
             nets == LocalPut(f.CIDR, r.cidr, r.localCidr)
  <2>1. g = [f EXCEPT !.Groups = groups, !.Hosts = hosts, !.CIDR = nets]
    BY Zenon, <1>2 DEF RuleAddRule, LocalPut
  <2>2. /\ DOMAIN g = RuleFields /\ g.Any = f.Any /\ g.Groups = groups
        /\ g.Hosts = hosts /\ g.CIDR = nets
    <3> HIDE DEF groups, hosts, nets
    <3> QED BY <1>0, <2>1 DEF IsRule
  <2>3. /\ LocalMap(hosts)
        /\ \A k : LocalAt(hosts, k, p) <=>
             LocalAt(f.Hosts, k, p) \/ (r.host # "" /\ k = r.host /\ LocalSays(r.localCidr, p))
    BY Zenon, LocalPutAdded DEF IsRule
  <2>4. /\ LocalMap(nets)
        /\ \A k : LocalAt(nets, k, p) <=>
             LocalAt(f.CIDR, k, p) \/ (r.cidr # "" /\ k = r.cidr /\ LocalSays(r.localCidr, p))
    BY Zenon, LocalPutAdded DEF IsRule
  <2>5. own.groups = r.groups /\ (LocalCIDRMatch(own.local, p) <=> LocalSays(r.localCidr, p))
    <3>1. own.groups = r.groups /\ own.local = LocalCIDRAddRule(NewLocalCIDR, r.localCidr)
      OBVIOUS
    <3> QED BY Zenon, <3>1, LocalNone, LocalAdded DEF LocalGrows
  <2> DEFINE InGroup(G) == \E e \in G : /\ Names(e.groups) \subseteq c.groups
                                        /\ LocalCIDRMatch(e.local, p)
             InHost(m) == LocalAt(m, c.name, p)
             InNet(m) == \E n : LocalAt(m, n, p) /\ p.RemoteAddr \in Prefix[n]
  <2>6. InGroup(groups) <=> \/ InGroup(f.Groups)
                            \/ /\ r.groups # <<>> /\ Names(r.groups) \subseteq c.groups
                               /\ LocalSays(r.localCidr, p)
    <3> HIDE DEF own
    <3> QED BY Zenon, <2>5
  <2>7. InHost(hosts) <=> \/ InHost(f.Hosts)
                          \/ r.host # "" /\ r.host = c.name /\ LocalSays(r.localCidr, p)
    BY Zenon, <2>3
  <2>8. InNet(nets) <=> \/ InNet(f.CIDR)
                        \/ /\ r.cidr # "" /\ p.RemoteAddr \in Prefix[r.cidr]
                           /\ LocalSays(r.localCidr, p)
    <3> HIDE DEF nets
    <3> QED BY Zenon, <2>4
  <2>9. \A h : RuleMatch(h, p, c) <=> \/ LocalCIDRMatch(h.Any, p) \/ InGroup(h.Groups)
                                      \/ InHost(h.Hosts) \/ InNet(h.CIDR)
    BY Zenon DEF RuleMatch, LocalAt
  <2> HIDE DEF InGroup, InHost, InNet, groups, hosts, nets, g
  <2>10. IsRule(g)
    BY Zenon, <2>2, <2>3, <2>4 DEF IsRule
  <2>11. RuleMatch(g, p, c) <=> \/ LocalCIDRMatch(f.Any, p) \/ InGroup(groups)
                                \/ InHost(hosts) \/ InNet(nets)
    BY Zenon, <2>2, <2>9
  <2>12. RuleMatch(f, p, c) <=> \/ LocalCIDRMatch(f.Any, p) \/ InGroup(f.Groups)
                                \/ InHost(f.Hosts) \/ InNet(f.CIDR)
    BY Zenon, <2>9
  <2> DEFINE local == LocalSays(r.localCidr, p)
             byGroup == r.groups # <<>> /\ Names(r.groups) \subseteq c.groups
             byHost == r.host # "" /\ r.host = c.name
             byNet == r.cidr # "" /\ p.RemoteAddr \in Prefix[r.cidr]
  <2>13. RuleSays(r, p, c) <=> local /\ (byGroup \/ byHost \/ byNet)
    BY Zenon, <1>2 DEF RuleSays, PeerSays
  <2>14. /\ InGroup(groups) <=> InGroup(f.Groups) \/ (byGroup /\ local)
         /\ InHost(hosts) <=> InHost(f.Hosts) \/ (byHost /\ local)
         /\ InNet(nets) <=> InNet(f.CIDR) \/ (byNet /\ local)
    BY Zenon, <2>6, <2>7, <2>8
  <2> HIDE DEF local, byGroup, byHost, byNet
  <2>15. RuleGrows(g, f, r, p, c)
    BY Zenon, <2>10, <2>11, <2>12, <2>13, <2>14 DEF RuleGrows
  <2> QED BY Zenon, <2>15 DEF g
<1> QED BY Zenon, <1>1, <1>2

LEMMA RuleNone ==
  ASSUME NEW p, NEW c PROVE IsRule(NewRule) /\ ~RuleMatch(NewRule, p, c)
<1>1. /\ DOMAIN NewRule = RuleFields /\ NewRule.Any = NewLocalCIDR /\ NewRule.Groups = {}
      /\ NewRule.Hosts = EmptyMap /\ NewRule.CIDR = EmptyMap
  BY DEF NewRule, RuleFields
<1> QED BY Zenon, <1>1, EmptyFacts, LocalNone DEF IsRule, LocalMap, RuleMatch

-----------------------------------------------------------------------------

\* A CA gets the rule.
RulePut(m, key, r) ==
  IF key = "" THEN m ELSE Put(m, key, RuleAddRule(Get0(m, key, NewRule), r))

RuleAt(m, k, p, c) == k \in DOMAIN m /\ RuleMatch(m[k], p, c)

LEMMA RulePutAdded ==
  ASSUME NEW m, RuleMap(m), NEW key, NEW r, NEW p, NEW c
  PROVE  /\ RuleMap(RulePut(m, key, r))
         /\ \A k : RuleAt(RulePut(m, key, r), k, p, c) <=>
                     \/ RuleAt(m, k, p, c)
                     \/ key # "" /\ k = key /\ RuleSays(r, p, c)
<1>1. CASE key = ""
  BY Zenon, <1>1 DEF RulePut
<1>2. CASE key # ""
  <2> DEFINE old == Get0(m, key, NewRule)
             new == RuleAddRule(old, r)
             n == Put(m, key, new)
  <2>1. RulePut(m, key, r) = n
    BY Zenon, <1>2 DEF RulePut
  <2>2. IsRule(old) /\ (RuleMatch(old, p, c) <=> RuleAt(m, key, p, c))
    BY Zenon, RuleNone DEF Get0, RuleMap, RuleAt
  <2>3. RuleGrows(new, old, r, p, c)
    BY Zenon, <2>2, RuleAdded
  <2>4. /\ DOMAIN n = DOMAIN m \cup {key} /\ n[key] = new
        /\ \A k \in DOMAIN m : k # key => n[k] = m[k]
    <3> HIDE DEF new
    <3> QED BY DEF Put
  <2> HIDE DEF n, new, old
  <2>5. RuleMap(n)
    BY Zenon, <2>3, <2>4 DEF RuleMap, RuleGrows
  <2>6. ASSUME NEW k
        PROVE  RuleAt(n, k, p, c) <=> RuleAt(m, k, p, c) \/ (k = key /\ RuleSays(r, p, c))
    <3>1. CASE k = key
      BY Zenon, <2>2, <2>3, <2>4, <3>1 DEF RuleAt, RuleGrows
    <3>2. CASE k # key
      BY Zenon, <2>4, <3>2 DEF RuleAt
    <3> QED BY Zenon, <3>1, <3>2
  <2> QED BY Zenon, <1>2, <2>1, <2>5, <2>6
<1> QED BY Zenon, <1>1, <1>2

CAGrows(g, f, r, p, c) ==
  IsCA(g) /\ (CAMatch(g, p, c) <=> CAMatch(f, p, c) \/ CASays(r, p, c))

LEMMA CAAdded ==
  ASSUME NEW f, IsCA(f), NEW r, NEW p, NEW c
  PROVE  CAGrows(CAAddRule(f, r), f, r, p, c)
<1> DEFINE g == CAAddRule(f, r)
           says == RuleSays(r, p, c)
           ByName(m) == c.issuer \in DOMAIN CAName /\ RuleAt(m, CAName[c.issuer], p, c)
           named == r.caName # "" /\ c.issuer \in DOMAIN CAName /\ r.caName = CAName[c.issuer]
           signed == r.caSha # "" /\ r.caSha = c.issuer
<1>0. "Any" \in CAFields /\ "CANames" \in CAFields /\ "CAShas" \in CAFields
  BY DEF CAFields
<1>1. \A h : CAMatch(h, p, c) <=> \/ RuleMatch(h.Any, p, c)
                                  \/ RuleAt(h.CAShas, c.issuer, p, c) \/ ByName(h.CANames)
  BY Zenon DEF CAMatch, RuleAt
<1>2. CASE r.caSha = "" /\ r.caName = ""
  <2> DEFINE a == RuleAddRule(f.Any, r)
  <2>1. g = [f EXCEPT !.Any = a]
    BY Zenon, <1>2 DEF CAAddRule
  <2>2. DOMAIN g = CAFields /\ g.Any = a /\ g.CANames = f.CANames /\ g.CAShas = f.CAShas
    <3> HIDE DEF a
    <3> QED BY <1>0, <2>1 DEF IsCA
  <2>3. RuleGrows(a, f.Any, r, p, c)
    BY Zenon, RuleAdded DEF IsCA
  <2>4. IsCA(g)
    BY Zenon, <2>2, <2>3 DEF IsCA, RuleGrows
  <2>5. CASays(r, p, c) <=> says
    BY Zenon, <1>2 DEF CASays
  <2> HIDE DEF ByName, g, a, says
  <2>6. CAMatch(g, p, c) <=> CAMatch(f, p, c) \/ RuleSays(r, p, c)
    BY Zenon, <1>1, <2>2, <2>3 DEF RuleGrows
  <2> QED BY Zenon, <2>4, <2>5, <2>6 DEF CAGrows, g, says
<1>3. CASE ~(r.caSha = "" /\ r.caName = "")
  <2> DEFINE shas == RulePut(f.CAShas, r.caSha, r)
             names == RulePut(f.CANames, r.caName, r)
  <2>1. g = [f EXCEPT !.CAShas = shas, !.CANames = names]
    BY Zenon, <1>3 DEF CAAddRule, RulePut
  <2>2. DOMAIN g = CAFields /\ g.Any = f.Any /\ g.CANames = names /\ g.CAShas = shas
    <3> HIDE DEF shas, names
    <3> QED BY <1>0, <2>1 DEF IsCA
  <2>3. /\ RuleMap(shas)
        /\ \A k : RuleAt(shas, k, p, c) <=>
             RuleAt(f.CAShas, k, p, c) \/ (r.caSha # "" /\ k = r.caSha /\ says)
    BY Zenon, RulePutAdded DEF IsCA
  <2>4. /\ RuleMap(names)
        /\ \A k : RuleAt(names, k, p, c) <=>
             RuleAt(f.CANames, k, p, c) \/ (r.caName # "" /\ k = r.caName /\ says)
    BY Zenon, RulePutAdded DEF IsCA
  <2> HIDE DEF shas, names, says
  <2>5. RuleAt(shas, c.issuer, p, c) <=> RuleAt(f.CAShas, c.issuer, p, c) \/ (signed /\ says)
    BY Zenon, <2>3
  <2>6. ByName(names) <=> ByName(f.CANames) \/ (named /\ says)
    BY Zenon, <2>4
  <2>7. CASays(r, p, c) <=> (signed \/ named) /\ says
    BY Zenon, <1>3 DEF CASays, says
  <2> HIDE DEF ByName, signed, named, g
  <2>8. IsCA(g)
    BY Zenon, <2>2, <2>3, <2>4 DEF IsCA
  <2>9. CAMatch(g, p, c) <=> \/ RuleMatch(f.Any, p, c)
                             \/ RuleAt(shas, c.issuer, p, c) \/ ByName(names)
    BY Zenon, <1>1, <2>2
  <2>10. CAGrows(g, f, r, p, c)
    BY Zenon, <1>1, <2>5, <2>6, <2>7, <2>8, <2>9 DEF CAGrows
  <2> QED BY Zenon, <2>10 DEF g
<1> QED BY Zenon, <1>2, <1>3

LEMMA CANone ==
  ASSUME NEW p, NEW c PROVE IsCA(NewCA) /\ ~CAMatch(NewCA, p, c)
<1>1. /\ DOMAIN NewCA = CAFields /\ NewCA.Any = NewRule
      /\ NewCA.CANames = EmptyMap /\ NewCA.CAShas = EmptyMap
  BY DEF NewCA, CAFields
<1> QED BY Zenon, <1>1, EmptyFacts, RuleNone DEF IsCA, RuleMap, CAMatch

-----------------------------------------------------------------------------

PortGrows(g, f, r, p, in, c) ==
  CAMap(g) /\ (PortMatch(g, p, in, c) <=> PortMatch(f, p, in, c) \/ PortSays(r, p, in, c))

LEMMA PortAdded ==
  ASSUME NEW f, CAMap(f), NEW r, NEW p, NEW in, NEW c
  PROVE  PortGrows(PortAddRule(f, r), f, r, p, in, c)
<1> DEFINE g == PortAddRule(f, r)
           ports == r.start..r.end
           new(i) == CAAddRule(Get0(f, i, NewCA), r)
           At(m, i) == i \in DOMAIN m /\ CAMatch(m[i], p, c)
<1>1. g = [i \in DOMAIN f \cup ports |-> IF i \in ports THEN new(i) ELSE f[i]]
  BY Zenon DEF PortAddRule
<1>2. /\ DOMAIN g = DOMAIN f \cup ports
      /\ \A i \in ports : g[i] = new(i)
      /\ \A i \in DOMAIN f : i \notin ports => g[i] = f[i]
  <2> HIDE DEF ports, new, g
  <2> QED BY Zenon, <1>1
<1> HIDE DEF ports, g
<1>3. ASSUME NEW i \in ports
      PROVE  IsCA(new(i)) /\ (CAMatch(new(i), p, c) <=> At(f, i) \/ CASays(r, p, c))
  <2> DEFINE old == Get0(f, i, NewCA)
  <2>1. IsCA(old) /\ (CAMatch(old, p, c) <=> At(f, i))
    BY Zenon, CANone DEF Get0, CAMap
  <2>2. CAGrows(CAAddRule(old, r), old, r, p, c)
    BY Zenon, <2>1, CAAdded
  <2> QED BY Zenon, <2>1, <2>2 DEF CAGrows
<1> HIDE DEF new
<1>4. CAMap(g)
  BY Zenon, <1>2, <1>3 DEF CAMap
<1>5. ASSUME NEW i
      PROVE  At(g, i) <=> At(f, i) \/ (i \in ports /\ CASays(r, p, c))
  <2>1. CASE i \in ports
    BY Zenon, <1>2, <1>3, <2>1
  <2>2. CASE i \notin ports
    BY Zenon, <1>2, <2>2
  <2> QED BY Zenon, <2>1, <2>2
<1>6. \A m : PortMatch(m, p, in, c) <=> \E i \in LooksAt(p, in) : At(m, i)
  BY Zenon DEF PortMatch, LooksAt
<1>7. PortSays(r, p, in, c) <=> \E i \in LooksAt(p, in) : i \in ports /\ CASays(r, p, c)
  BY Zenon DEF PortSays, ports
<1> HIDE DEF At
<1>8. PortGrows(g, f, r, p, in, c)
  BY Zenon, <1>4, <1>5, <1>6, <1>7 DEF PortGrows
<1> QED BY Zenon, <1>8 DEF g

TableGrows(g, f, r, p, in, c) ==
  IsTable(g) /\ (match(g, p, in, c) <=> match(f, p, in, c) \/ Says(r, p, in, c))

LEMMA TableAdded ==
  ASSUME NEW f, IsTable(f), NEW r, r.proto \in Protocols, NEW p, NEW in, NEW c
  PROVE  TableGrows(AddRule(f, r), f, r, p, in, c)
<1> DEFINE g == AddRule(f, r)
           new == PortAddRule(f[r.proto], r)
<1>1. g = [f EXCEPT ![r.proto] = new]
  BY Zenon DEF AddRule
<1>2. DOMAIN g = Protocols /\ g[r.proto] = new
      /\ \A proto \in Protocols : proto # r.proto => g[proto] = f[proto]
  <2> HIDE DEF new, g
  <2> QED BY Zenon, <1>1 DEF IsTable
<1>3. PortGrows(new, f[r.proto], r, p, in, c)
  BY Zenon, PortAdded DEF IsTable
<1> HIDE DEF new, g
<1>4. IsTable(g)
  BY Zenon, <1>2, <1>3 DEF IsTable, PortGrows
<1>5. ASSUME NEW proto \in Protocols
      PROVE  PortMatch(g[proto], p, in, c) <=>
               PortMatch(f[proto], p, in, c) \/ (proto = r.proto /\ PortSays(r, p, in, c))
  <2>1. CASE proto = r.proto
    BY Zenon, <1>2, <1>3, <2>1 DEF PortGrows
  <2>2. CASE proto # r.proto
    BY Zenon, <1>2, <2>2
  <2> QED BY Zenon, <2>1, <2>2
<1>6. match(g, p, in, c) <=> match(f, p, in, c) \/ Says(r, p, in, c)
  <2>1. match(g, p, in, c) <=> \E proto \in {"any", p.Protocol} :
                                 proto \in Protocols /\ PortMatch(g[proto], p, in, c)
    BY Zenon, <1>2 DEF match
  <2>2. match(f, p, in, c) <=> \E proto \in {"any", p.Protocol} :
                                 proto \in Protocols /\ PortMatch(f[proto], p, in, c)
    BY Zenon DEF match, IsTable
  <2> QED BY Zenon, <1>5, <2>1, <2>2 DEF Says
<1> QED BY Zenon, <1>4, <1>6 DEF TableGrows, g

LEMMA TableNone ==
  ASSUME NEW p, NEW in, NEW c PROVE IsTable(NewTable) /\ ~match(NewTable, p, in, c)
<1>1. DOMAIN NewTable = Protocols /\ \A proto \in Protocols : NewTable[proto] = EmptyMap
  BY Zenon DEF NewTable, Protocols
<1> QED BY Zenon, <1>1, EmptyFacts DEF IsTable, CAMap, match, PortMatch

-----------------------------------------------------------------------------
(* What was read says what the text of the rule says.                      *)

LEMMA NamesFacts ==
  ASSUME NEW s \in Seq(STRING)
  PROVE  s = <<>> <=> Names(s) = {}
<1>1. s = <<>> <=> Len(s) = 0
  OBVIOUS
<1>2. Len(s) \in Nat /\ DOMAIN s = 1..Len(s)
  OBVIOUS
<1>3. Len(s) # 0 => 1 \in DOMAIN s
  BY <1>2
<1>4. Len(s) = 0 => DOMAIN s = {}
  BY <1>2
<1> QED BY Zenon, <1>1, <1>3, <1>4 DEF Names

GroupText(g) == IF Given(g) THEN Names(g.names) \ {""} ELSE {}
GroupsText(g) == IF Given(g) THEN Names(g.names) ELSE {}

LEMMA SingleFacts ==
  ASSUME NEW g, g.names \in Seq(STRING), ~SingleGroup(g).err
  PROVE  /\ SingleGroup(g).groups \in Seq(STRING)
         /\ Names(SingleGroup(g).groups) = GroupText(g)
<1>0. <<>> \in Seq(STRING) /\ Names(<<>>) = {}
  <2>1. <<>> \in Seq(STRING)
    OBVIOUS
  <2> QED BY Zenon, <2>1, NamesFacts
<1>1. CASE ~Given(g)
  <2>1. SingleGroup(g).groups = <<>>
    BY <1>1 DEF SingleGroup
  <2> QED BY Zenon, <1>0, <1>1, <2>1 DEF GroupText
<1>2. CASE Given(g)
  <2>1. Len(g.names) = 1
    BY <1>2 DEF SingleGroup, Error
  <2>2. DOMAIN g.names = {1}
    BY <2>1
  <2>3. Names(g.names) = {g.names[1]}
    BY Zenon, <2>2 DEF Names
  <2>4. SingleGroup(g).groups = IF g.names[1] = "" THEN <<>> ELSE g.names
    BY Zenon, <1>2 DEF SingleGroup, Error
  <2> QED BY Zenon, <1>0, <1>2, <2>3, <2>4 DEF GroupText
<1> QED BY Zenon, <1>1, <1>2

LEMMA ManyFacts ==
  ASSUME NEW g, g.names \in Seq(STRING), ~ManyGroups(g).err
  PROVE  /\ ManyGroups(g).groups \in Seq(STRING)
         /\ Names(ManyGroups(g).groups) = GroupsText(g)
<1>0. <<>> \in Seq(STRING) /\ Names(<<>>) = {}
  <2>1. <<>> \in Seq(STRING)
    OBVIOUS
  <2> QED BY Zenon, <2>1, NamesFacts
<1>1. CASE ~Given(g)
  <2>1. ManyGroups(g).groups = <<>>
    BY <1>1 DEF ManyGroups
  <2> QED BY Zenon, <1>0, <1>1, <2>1 DEF GroupsText
<1>2. CASE Given(g)
  <2>1. ManyGroups(g).groups = g.names
    BY <1>2 DEF ManyGroups, Error
  <2> QED BY Zenon, <1>2, <2>1 DEF GroupsText
<1> QED BY Zenon, <1>1, <1>2

LEMMA ConcatEmpty ==
  ASSUME NEW s \in Seq(STRING)
  PROVE  s \o <<>> = s /\ <<>> \o s = s
OBVIOUS

\* A list of groups that was read has the names of the text.
ReadsGroups(groups, raw) ==
  /\ Names(groups) = GroupsOf(raw)
  /\ groups = <<>> <=> GroupsOf(raw) = {}
  /\ ~(/\ groups = <<>> /\ raw.host = "" /\ raw.cidr = ""
       /\ "null" \in {raw.group.form, raw.groups.form})

LEMMA ConvertFacts ==
  ASSUME NEW raw \in RawRule, ~convertRule(raw).err
  PROVE  ReadsGroups(convertRule(raw).groups, raw)
<1> DEFINE one == SingleGroup(raw.group)
           many == ManyGroups(raw.groups)
           groups == one.groups \o many.groups
<1>0. convertRule(raw) =
        IF one.err \/ many.err THEN Error
        ELSE IF one.groups # <<>> /\ many.groups # <<>> THEN Error
        ELSE IF /\ groups = <<>> /\ raw.host = "" /\ raw.cidr = ""
                /\ "null" \in {raw.group.form, raw.groups.form} THEN Error
        ELSE [err |-> FALSE, groups |-> groups]
  BY Zenon DEF convertRule
<1>1. Error.err
  BY DEF Error
<1> HIDE DEF one, many, groups
<1>2. /\ ~one.err /\ ~many.err
      /\ one.groups = <<>> \/ many.groups = <<>>
      /\ ~(/\ groups = <<>> /\ raw.host = "" /\ raw.cidr = ""
           /\ "null" \in {raw.group.form, raw.groups.form})
  BY Zenon, <1>0, <1>1
<1>3. convertRule(raw).groups = groups
  <2>1. convertRule(raw) = [err |-> FALSE, groups |-> groups]
    BY Zenon, <1>0, <1>2
  <2> QED BY <2>1
<1>4. /\ one.groups \in Seq(STRING) /\ Names(one.groups) = GroupText(raw.group)
      /\ many.groups \in Seq(STRING) /\ Names(many.groups) = GroupsText(raw.groups)
  BY Zenon, <1>2, RulesAssumption, SingleFacts, ManyFacts DEF one, many
<1>5. GroupsOf(raw) = GroupText(raw.group) \cup GroupsText(raw.groups)
  BY Zenon DEF GroupsOf, GroupText, GroupsText
<1>6. groups = IF one.groups = <<>> THEN many.groups ELSE one.groups
  <2>1. CASE one.groups = <<>>
    BY Zenon, <1>4, <2>1, ConcatEmpty DEF groups
  <2>2. CASE one.groups # <<>>
    BY Zenon, <1>2, <1>4, <2>2, ConcatEmpty DEF groups
  <2> QED BY Zenon, <2>1, <2>2
<1>7. groups \in Seq(STRING) /\ Names(groups) = GroupsOf(raw)
  <2>1. CASE one.groups = <<>>
    <3>1. Names(one.groups) = {}
      BY Zenon, <1>4, <2>1, NamesFacts
    <3> QED BY Zenon, <1>4, <1>5, <1>6, <2>1, <3>1
  <2>2. CASE one.groups # <<>>
    <3>1. Names(many.groups) = {}
      BY Zenon, <1>2, <1>4, <2>2, NamesFacts
    <3> QED BY Zenon, <1>4, <1>5, <1>6, <2>2, <3>1
  <2> QED BY Zenon, <2>1, <2>2
<1>8. groups = <<>> <=> GroupsOf(raw) = {}
  BY Zenon, <1>7, NamesFacts
<1> QED BY Zenon, <1>2, <1>3, <1>7, <1>8 DEF ReadsGroups

SpecOf(raw) == IF raw.code.form # "absent" THEN raw.code ELSE raw.port
PortsOf(raw) == IF raw.proto = "icmp"
                THEN [err |-> FALSE, start |-> PortAny, end |-> PortAny]
                ELSE parsePort(SpecOf(raw))

\* A rule that was read, by its fields.
ReadAs(r, raw) ==
  /\ r.proto = raw.proto /\ r.proto \in Protocols
  /\ r.start = PortsOf(raw).start /\ r.end = PortsOf(raw).end /\ ~PortsOf(raw).err
  /\ ReadsGroups(r.groups, raw)
  /\ r.host = raw.host /\ r.cidr = raw.cidr /\ r.localCidr = raw.local_cidr
  /\ r.caName = raw.ca_name /\ r.caSha = raw.ca_sha
  /\ ParsesCidr(raw.cidr) /\ ParsesCidr(raw.local_cidr)

LEMMA ReadFacts ==
  ASSUME NEW raw \in RawRule, ~ReadRule(raw).err
  PROVE  ReadAs(ReadRule(raw), raw)
<1> DEFINE r == convertRule(raw)
           ports == PortsOf(raw)
           bad == \/ raw.code.form # "absent" /\ raw.port.form # "absent"
                  \/ /\ raw.host = "" /\ r.groups = <<>> /\ raw.cidr = ""
                     /\ raw.local_cidr = "" /\ raw.ca_name = "" /\ raw.ca_sha = ""
                  \/ raw.proto \notin {"any", "tcp", "udp", "icmp"}
                  \/ ports.err
                  \/ ~ParsesCidr(raw.cidr) \/ ~ParsesCidr(raw.local_cidr)
                  \/ ports.start > ports.end
           read == [err |-> FALSE, proto |-> raw.proto, start |-> ports.start,
                    end |-> ports.end, groups |-> r.groups, host |-> raw.host,
                    cidr |-> raw.cidr, localCidr |-> raw.local_cidr,
                    caName |-> raw.ca_name, caSha |-> raw.ca_sha]
<1>1. ReadRule(raw) = IF r.err THEN Error ELSE IF bad THEN Error ELSE read
  BY Zenon DEF ReadRule, PortsOf, SpecOf
<1>2. Error.err
  BY DEF Error
<1>3. ~r.err /\ ~bad /\ ReadRule(raw) = read
  <2> HIDE DEF r, bad, read
  <2> QED BY Zenon, <1>1, <1>2
<1>4. ReadsGroups(r.groups, raw)
  BY Zenon, <1>3, ConvertFacts
<1>5. /\ read.proto = raw.proto /\ read.start = ports.start /\ read.end = ports.end
      /\ read.groups = r.groups /\ read.host = raw.host /\ read.cidr = raw.cidr
      /\ read.localCidr = raw.local_cidr /\ read.caName = raw.ca_name
      /\ read.caSha = raw.ca_sha
  <2> HIDE DEF r, ports
  <2> QED OBVIOUS
<1>6. raw.proto \in Protocols /\ ~ports.err /\ ParsesCidr(raw.cidr) /\ ParsesCidr(raw.local_cidr)
  BY Zenon, <1>3 DEF Protocols
<1> HIDE DEF r, ports, bad, read
<1> QED BY Zenon, <1>3, <1>4, <1>5, <1>6 DEF ReadAs, ports

LEMMA LocalAsText ==
  ASSUME NEW raw, NEW p, ParsesCidr(raw.local_cidr)
  PROVE  LocalSays(raw.local_cidr, p) <=> SelectsLocal(raw, p)
<1> DEFINE l == raw.local_cidr
<1>1. CASE l = ""
  BY Zenon, <1>1 DEF LocalSays, SelectsLocal
<1>2. CASE l = "any"
  BY Zenon, <1>2 DEF LocalSays, SelectsLocal
<1>3. CASE l # "" /\ l # "any"
  <2>1. {l} \cap DOMAIN Prefix = {l}
    BY Zenon, <1>3 DEF ParsesCidr
  <2> QED BY Zenon, <1>3, <2>1 DEF LocalSays, SelectsLocal
<1> QED BY Zenon, <1>1, <1>2, <1>3

LEMMA PeerAsText ==
  ASSUME NEW r, NEW raw, NEW p, NEW c, ReadAs(r, raw)
  PROVE  PeerSays(r, p, c) <=> SelectsPeer(raw, p, c)
<1> DEFINE G == GroupsOf(raw)
<1>1. /\ Names(r.groups) = G /\ (r.groups = <<>> <=> G = {})
      /\ r.host = raw.host /\ r.cidr = raw.cidr
      /\ ~(/\ G = {} /\ raw.host = "" /\ raw.cidr = ""
           /\ "null" \in {raw.group.form, raw.groups.form})
  BY Zenon DEF ReadAs, ReadsGroups
<1>2. raw.cidr \in DOMAIN Prefix \/ raw.cidr = "" \/ raw.cidr = "any"
  BY Zenon DEF ReadAs, ParsesCidr
<1>3. "" \notin DOMAIN Prefix
  BY Zenon, RulesAssumption
<1> DEFINE none == G = {} /\ raw.host = "" /\ raw.cidr = ""
           any == "any" \in G \/ raw.host = "any" \/ raw.cidr = "any"
           grp == G # {} /\ G \subseteq c.groups
           hst == raw.host # "" /\ raw.host = c.name
           net == raw.cidr \in DOMAIN Prefix /\ p.RemoteAddr \in Prefix[raw.cidr]
<1>4. isAny(r) <=> none \/ any
  BY Zenon, <1>1 DEF isAny
<1>5. PeerSays(r, p, c) <=>
        none \/ any \/ grp \/ hst \/ (raw.cidr # "" /\ p.RemoteAddr \in Prefix[raw.cidr])
  BY Zenon, <1>1, <1>4 DEF PeerSays
<1>6. SelectsPeer(raw, p, c) <=> none \/ any \/ grp \/ hst \/ net
  BY Zenon, <1>1 DEF SelectsPeer
<1> QED BY Zenon, <1>2, <1>3, <1>5, <1>6

LEMMA CAAsText ==
  ASSUME NEW r, NEW raw, NEW p, NEW c, ReadAs(r, raw)
  PROVE  CASays(r, p, c) <=> SelectsCA(raw, c) /\ SelectsPeer(raw, p, c) /\ SelectsLocal(raw, p)
<1>1. r.caSha = raw.ca_sha /\ r.caName = raw.ca_name
  BY Zenon DEF ReadAs
<1>2. RuleSays(r, p, c) <=> SelectsPeer(raw, p, c) /\ SelectsLocal(raw, p)
  BY Zenon, LocalAsText, PeerAsText DEF RuleSays, ReadAs
<1> QED BY Zenon, <1>1, <1>2 DEF CASays, SelectsCA

LEMMA PortAsText ==
  ASSUME NEW r, NEW raw \in RawRule, NEW p \in RulePacket, NEW in, ReadAs(r, raw),
         raw.proto \in {"any", p.Protocol}
  PROVE  (\E i \in LooksAt(p, in) : i \in r.start..r.end) <=> SelectsPort(raw, p, in)
<1> DEFINE s == SpecOf(raw)
           at == PortOf(p, in)
           numbered == s.form \in {"number", "range"}
<1>1. s.lo \in Nat /\ s.hi \in Nat
  BY Zenon, RulesAssumption DEF SpecOf
<1>2. IF p.Fragment THEN at = -1 ELSE at \in Nat
  BY Zenon, RulesAssumption DEF PortOf, PortFragment
<1>3. SelectsPort(raw, p, in) <=>
        \/ s.form = "any" \/ (numbered /\ s.lo = 0)
        \/ p.Protocol = "icmp" /\ raw.proto = "icmp"
        \/ p.Protocol # "icmp" /\ s.form = "fragment" /\ p.Fragment
        \/ /\ p.Protocol # "icmp" /\ numbered /\ ~p.Fragment
           /\ at \in s.lo..s.hi
  BY Zenon DEF SelectsPort, SpecOf
<1>4. (\E i \in LooksAt(p, in) : i \in r.start..r.end) <=>
        0 \in r.start..r.end \/ (p.Protocol # "icmp" /\ at \in r.start..r.end)
  BY Zenon DEF LooksAt, PortAny
<1> HIDE DEF s, at
<1>5. CASE raw.proto = "icmp"
  <2>1. p.Protocol = "icmp"
    BY <1>5
  <2>2. r.start = 0 /\ r.end = 0
    BY <1>5 DEF ReadAs, PortsOf, PortAny
  <2>3. 0 \in r.start..r.end
    BY <2>2
  <2> QED BY Zenon, <1>3, <1>4, <1>5, <2>1, <2>3
<1>6. CASE raw.proto # "icmp"
  <2> DEFINE ports == parsePort(s)
  <2>1. r.start = ports.start /\ r.end = ports.end /\ ~ports.err
    BY Zenon, <1>6 DEF ReadAs, PortsOf, s
  <2>2. CASE s.form = "any"
    <3>1. r.start = 0 /\ r.end = 0
      BY <2>1, <2>2 DEF parsePort, PortAny
    <3>2. 0 \in r.start..r.end
      BY <3>1
    <3> QED BY Zenon, <1>3, <1>4, <2>2, <3>2
  <2>3. CASE s.form = "fragment"
    <3>1. r.start = -1 /\ r.end = -1
      BY <2>1, <2>3 DEF parsePort, PortFragment
    <3>2. ~(0 \in r.start..r.end) /\ (at \in r.start..r.end <=> p.Fragment)
      BY <1>2, <3>1
    <3>3. s.form # "any" /\ ~numbered
      BY <2>3
    <3> QED BY Zenon, <1>3, <1>4, <1>6, <2>3, <3>2, <3>3
  <2>4. CASE numbered
    <3>1. r.start = s.lo /\ r.end = IF s.lo = 0 THEN 0 ELSE s.hi
      BY <2>1, <2>4 DEF parsePort, PortAny, Error
    <3>2. 0 \in r.start..r.end <=> s.lo = 0
      BY <1>1, <3>1
    <3>3. s.lo # 0 => (at \in r.start..r.end <=> ~p.Fragment /\ at \in s.lo..s.hi)
      BY <1>1, <1>2, <3>1
    <3>4. s.form # "any" /\ s.form # "fragment"
      BY <2>4
    <3> QED BY Zenon, <1>3, <1>4, <1>6, <2>4, <3>2, <3>3, <3>4
  <2>5. CASE s.form # "any" /\ s.form # "fragment" /\ ~numbered
    <3>1. ports.err
      BY <2>5 DEF parsePort, Error
    <3> QED BY Zenon, <2>1, <3>1
  <2> QED BY Zenon, <2>2, <2>3, <2>4, <2>5
<1> QED BY Zenon, <1>5, <1>6

LEMMA SaysAsText ==
  ASSUME NEW r, NEW raw \in RawRule, NEW p \in RulePacket, NEW in, NEW c, ReadAs(r, raw)
  PROVE  Says(r, p, in, c) <=> Selects(raw, p, in, c)
<1>1. CASE raw.proto \in {"any", p.Protocol}
  BY Zenon, <1>1, PortAsText, CAAsText DEF Says, Selects, PortSays, ReadAs
<1>2. CASE raw.proto \notin {"any", p.Protocol}
  BY Zenon, <1>2 DEF Says, Selects, ReadAs
<1> QED BY Zenon, <1>1, <1>2

-----------------------------------------------------------------------------

\* A direction's table lets through what one of its rules does.
Decided(table, rules, in) ==
  /\ IsTable(table)
  /\ \A p \in RulePacket, c \in PeerCert :
       match(table, p, in, c) <=> \E i \in DOMAIN rules : Selects(rules[i], p, in, c)

RulesInv ==
  /\ source \in [BOOLEAN -> Seq(RawRule)] /\ DOMAIN tables = BOOLEAN
  /\ ~refused => \A in \in BOOLEAN : Decided(tables[in], source[in], in)

LEMMA AppendFacts ==
  ASSUME NEW rules \in Seq(RawRule), NEW raw \in RawRule
  PROVE  /\ Append(rules, raw) \in Seq(RawRule)
         /\ DOMAIN Append(rules, raw) = DOMAIN rules \cup {Len(rules) + 1}
         /\ Append(rules, raw)[Len(rules) + 1] = raw
         /\ \A i \in DOMAIN rules : Append(rules, raw)[i] = rules[i]
OBVIOUS

LEMMA RuleDecided ==
  ASSUME NEW table, NEW rules \in Seq(RawRule), NEW in, Decided(table, rules, in),
         NEW raw \in RawRule, ~ReadRule(raw).err
  PROVE  Decided(AddRule(table, ReadRule(raw)), Append(rules, raw), in)
<1> DEFINE r == ReadRule(raw)
           g == AddRule(table, r)
           more == Append(rules, raw)
<1>1. ReadAs(r, raw)
  BY Zenon, ReadFacts
<1>2. r.proto \in Protocols /\ IsTable(table)
  BY Zenon, <1>1 DEF ReadAs, Decided
<1>3. \A p, c : TableGrows(g, table, r, p, in, c)
  BY Zenon, <1>2, TableAdded
<1>4. IsTable(g)
  BY Zenon, <1>3 DEF TableGrows
<1>5. ASSUME NEW p \in RulePacket, NEW c \in PeerCert
      PROVE  match(g, p, in, c) <=> \E i \in DOMAIN more : Selects(more[i], p, in, c)
  <2>1. match(g, p, in, c) <=> match(table, p, in, c) \/ Selects(raw, p, in, c)
    BY Zenon, <1>1, <1>3, SaysAsText DEF TableGrows
  <2>2. match(table, p, in, c) <=> \E i \in DOMAIN rules : Selects(rules[i], p, in, c)
    BY Zenon DEF Decided
  <2>3. /\ DOMAIN more = DOMAIN rules \cup {Len(rules) + 1} /\ more[Len(rules) + 1] = raw
        /\ \A i \in DOMAIN rules : more[i] = rules[i]
    BY Zenon, AppendFacts
  <2> HIDE DEF more, g
  <2> QED BY Zenon, <2>1, <2>2, <2>3
<1> QED BY Zenon, <1>4, <1>5 DEF Decided

LEMMA RulesStart == RulesInit => RulesInv
<1> SUFFICES ASSUME RulesInit PROVE RulesInv
  OBVIOUS
<1>1. <<>> \in Seq(RawRule) /\ DOMAIN <<>> = {}
  OBVIOUS
<1>2. /\ source \in [BOOLEAN -> Seq(RawRule)] /\ DOMAIN tables = BOOLEAN
      /\ \A in \in BOOLEAN : source[in] = <<>> /\ tables[in] = NewTable
  BY <1>1 DEF RulesInit
<1>3. \A in : Decided(NewTable, <<>>, in)
  BY Zenon, <1>1, TableNone DEF Decided
<1> QED BY Zenon, <1>2, <1>3 DEF RulesInv

LEMMA RuleAddStep ==
  ASSUME RulesInv, NEW incoming \in BOOLEAN, NEW raw \in RawRule,
         AddFirewallRule(incoming, raw)
  PROVE  RulesInv'
<1> DEFINE r == ReadRule(raw)
           more == Append(source[incoming], raw)
           table == AddRule(tables[incoming], r)
<1>1. /\ ~refused /\ refused' = r.err
      /\ source' = [source EXCEPT ![incoming] = more]
      /\ tables' = IF r.err THEN tables ELSE [tables EXCEPT ![incoming] = table]
  BY Zenon DEF AddFirewallRule
<1>2. /\ source \in [BOOLEAN -> Seq(RawRule)] /\ DOMAIN tables = BOOLEAN
      /\ source[incoming] \in Seq(RawRule)
      /\ \A in \in BOOLEAN : Decided(tables[in], source[in], in)
  BY Zenon, <1>1 DEF RulesInv
<1>3. more \in Seq(RawRule)
  BY Zenon, <1>2, AppendFacts
<1>4. ~r.err => Decided(table, more, incoming)
  BY Zenon, <1>2, RuleDecided
<1> HIDE DEF r, more, table
<1>5. source' \in [BOOLEAN -> Seq(RawRule)] /\ DOMAIN tables' = BOOLEAN
  BY <1>1, <1>2, <1>3
<1>6. ASSUME ~refused', NEW in \in BOOLEAN PROVE Decided(tables'[in], source'[in], in)
  <2>0. ~r.err
    BY Zenon, <1>1, <1>6
  <2>1. CASE in = incoming
    <3>1. tables'[in] = table /\ source'[in] = more
      BY Zenon, <1>1, <1>2, <2>0, <2>1
    <3> QED BY Zenon, <1>4, <2>0, <2>1, <3>1
  <2>2. CASE in # incoming
    <3>1. tables'[in] = tables[in] /\ source'[in] = source[in]
      BY Zenon, <1>1, <1>2, <2>0, <2>2
    <3> QED BY Zenon, <1>2, <3>1
  <2> QED BY Zenon, <2>1, <2>2
<1> QED BY Zenon, <1>5, <1>6 DEF RulesInv

\* The merged tables let a packet through exactly when one of the rules does
\* so by itself, for any rules, packets and certificates.
THEOREM RulesDecideAlone == RulesInit /\ [][RulesNext]_ruleVars => []MatchIsSomeRule
<1>1. RulesInv /\ [RulesNext]_ruleVars => RulesInv'
  <2> SUFFICES ASSUME RulesInv, [RulesNext]_ruleVars PROVE RulesInv'
    OBVIOUS
  <2>1. CASE RulesNext
    BY Zenon, <2>1, RuleAddStep DEF RulesNext
  <2>2. CASE UNCHANGED ruleVars
    <3>1. source' = source /\ tables' = tables /\ refused' = refused
      BY Zenon, <2>2 DEF ruleVars
    <3> QED BY Zenon, <3>1 DEF RulesInv
  <2> QED BY Zenon, <2>1, <2>2
<1>2. RulesInv => MatchIsSomeRule
  BY Zenon DEF RulesInv, MatchIsSomeRule, Decided
<1> QED BY RulesStart, <1>1, <1>2, PTL

----------------------------------------------------------------------------
(* Whose addresses a tunnel may speak for.                                 *)

LEMMA SameAddress ==
  ASSUME NEW a \in Address, NEW b \in Address, \A i \in 1..AddrBits : a[i] = b[i]
  PROVE  a = b
<1> DEFINE S == 1..AddrBits
           T == {0, 1}
<1>1. a \in [S -> T] /\ b \in [S -> T] /\ \A i \in S : a[i] = b[i]
  BY Zenon DEF Address
<1> HIDE DEF S, T
<1> QED BY SMTT(60), <1>1

LEMMA PrefixFacts ==
  ASSUME NEW p \in IpPrefix
  PROVE  /\ p.addr \in Address /\ p.len \in 0..AddrBits /\ p.len \in Nat
         /\ p = [addr |-> p.addr, len |-> p.len]
         /\ \A i \in (p.len + 1)..AddrBits : p.addr[i] = 0
BY PeerAssumption DEF IpPrefix

\* Of two prefixes that cover an address one is inside the other.
LEMMA Nested ==
  ASSUME NEW p \in IpPrefix, NEW q \in IpPrefix, NEW a \in Address,
         Covers(p, a), Covers(q, a), p.len >= q.len
  PROVE  Within(p, q)
<1>1. p.len \in Nat /\ q.len \in Nat
  BY PrefixFacts
<1>2. \A i \in 1..q.len : i \in 1..p.len
  BY <1>1
<1>3. \A i \in 1..q.len : p.addr[i] = q.addr[i]
  BY Zenon, <1>2 DEF Covers
<1> QED BY Zenon, <1>3 DEF Within, Covers

LEMMA WithinCovers ==
  ASSUME NEW p \in IpPrefix, NEW q \in IpPrefix, NEW a \in Address,
         Within(p, q), Covers(p, a)
  PROVE  Covers(q, a)
<1>1. p.len \in Nat /\ q.len \in Nat /\ p.len >= q.len
  BY PrefixFacts DEF Within
<1>2. \A i \in 1..q.len : i \in 1..p.len
  BY <1>1
<1> QED BY Zenon, <1>2 DEF Within, Covers

\* Two prefixes of one length that cover an address are the same.
LEMMA SameLength ==
  ASSUME NEW p \in IpPrefix, NEW q \in IpPrefix, NEW a \in Address,
         Covers(p, a), Covers(q, a), p.len = q.len
  PROVE  p = q
<1>1. /\ p.addr \in Address /\ q.addr \in Address /\ p.len \in Nat
      /\ p = [addr |-> p.addr, len |-> p.len] /\ q = [addr |-> q.addr, len |-> q.len]
      /\ \A i \in (p.len + 1)..AddrBits : p.addr[i] = 0
      /\ \A i \in (q.len + 1)..AddrBits : q.addr[i] = 0
  BY Zenon, PrefixFacts
<1>2. \A i \in 1..AddrBits : i \in 1..p.len \/ i \in (p.len + 1)..AddrBits
  BY <1>1, PeerAssumption
<1>3. \A i \in 1..AddrBits : p.addr[i] = q.addr[i]
  BY Zenon, <1>1, <1>2 DEF Covers
<1>4. p.addr = q.addr
  BY Zenon, <1>1, <1>3, SameAddress
<1> QED BY Zenon, <1>1, <1>4

LEMMA HostFacts ==
  ASSUME NEW b \in Address
  PROVE  /\ Host32(b) \in IpPrefix /\ Host32(b).len = AddrBits /\ Host32(b).addr = b
         /\ \A a \in Address : Covers(Host32(b), a) <=> a = b
<1> DEFINE h == Host32(b)
<1>1. h.len = AddrBits /\ h.addr = b /\ h \in [addr : Address, len : 0..AddrBits]
  BY PeerAssumption DEF Host32
<1>2. \A i \in (h.len + 1)..AddrBits : FALSE
  BY <1>1, PeerAssumption
<1>3. h \in IpPrefix
  BY Zenon, <1>1, <1>2 DEF IpPrefix
<1>4. ASSUME NEW a \in Address, Covers(h, a) PROVE a = b
  <2>1. \A i \in 1..AddrBits : a[i] = b[i]
    BY Zenon, <1>1, <1>4 DEF Covers
  <2> QED BY Zenon, <1>4, <2>1, SameAddress
<1>5. ASSUME NEW a \in Address, a = b PROVE Covers(h, a)
  BY Zenon, <1>1, <1>5 DEF Covers
<1> QED BY Zenon, <1>1, <1>3, <1>4, <1>5

\* The longest prefix of a table that covers an address is one of them.
LEMMA LongestFacts ==
  ASSUME NEW table, DOMAIN table \subseteq IpPrefix, NEW a \in Address,
         InNetworks(DOMAIN table, a)
  PROVE  /\ Longest(table, a) \in DOMAIN table /\ Covers(Longest(table, a), a)
         /\ \A q \in DOMAIN table : Covers(q, a) => q.len <= Longest(table, a).len
<1> DEFINE S == {p \in DOMAIN table : Covers(p, a)}
           T == {AddrBits - p.len : p \in S}
<1>1. \A p \in S : p.len \in Nat /\ AddrBits - p.len \in Nat
  BY PrefixFacts, PeerAssumption
<1>2. T \subseteq Nat /\ T # {}
  BY Zenon, <1>1 DEF InNetworks
<1>3. PICK i \in T : \A j \in T : ~(<<j, i>> \in OpToRel(<, Nat))
  BY Zenon, <1>2, NatLessThanWellFounded, WFMin
<1>4. PICK p \in S : i = AddrBits - p.len
  BY Zenon
<1>5. ASSUME NEW q \in S PROVE q.len <= p.len
  <2> DEFINE j == AddrBits - q.len
  <2>1. j \in T /\ j \in Nat /\ i \in Nat
    BY Zenon, <1>1, <1>2
  <2>2. ~(j < i)
    BY Zenon, <1>3, <2>1 DEF OpToRel
  <2> QED BY <1>1, <1>4, <2>1, <2>2, PeerAssumption
<1>6. \E r \in DOMAIN table : Covers(r, a) /\
        \A q \in DOMAIN table : Covers(q, a) => q.len <= r.len
  BY Zenon, <1>5
<1> QED BY Zenon, <1>6 DEF Longest

\* Whether the table lets an address through, by the prefix that decides.
Decides(table, mine, addrs, unsafe, a) ==
  RemoteAllowed(table, a, TRUE) <=>
    IF a \in addrs THEN InNetworks(mine, a)
    ELSE InNetworks(unsafe, a) /\ ~InNetworks(mine, a)

LEMMA TableFacts ==
  ASSUME NEW mine \in SUBSET IpPrefix, NEW addrs \in SUBSET Address,
         NEW unsafe \in SUBSET IpPrefix, NEW a \in Address
  PROVE  Decides(buildNetworks(mine, addrs, unsafe), mine, addrs, unsafe, a)
<1> DEFINE own == {Host32(b) : b \in addrs}
           inside == {n \in unsafe : \E m \in mine : Within(n, m)}
           overlaps == Overlaps(mine, unsafe)
           table == buildNetworks(mine, addrs, unsafe)
           P == Longest(table, a)
<1> SUFFICES RemoteAllowed(table, a, TRUE) <=>
               IF a \in addrs THEN InNetworks(mine, a)
               ELSE InNetworks(unsafe, a) /\ ~InNetworks(mine, a)
  BY Zenon DEF Decides
<1>1. /\ DOMAIN table = own \cup overlaps \cup unsafe
      /\ \A p \in DOMAIN table : table[p] =
           IF p \in own
           THEN IF InNetworks(mine, p.addr) THEN "VPN" ELSE "VPNPeer"
           ELSE IF p \in overlaps THEN "UnsafeVPNOverlap" ELSE "Unsafe"
  BY Zenon DEF buildNetworks
<1>2. overlaps = inside \cup {m \in mine : \E n \in unsafe \ inside : Within(m, n)}
  BY Zenon DEF Overlaps
<1> HIDE DEF overlaps, table
<1>3. own \subseteq IpPrefix /\ overlaps \subseteq IpPrefix /\ DOMAIN table \subseteq IpPrefix
  <2>1. own \subseteq IpPrefix
    <3>1. \A b \in addrs : Host32(b) \in IpPrefix
      <4> SUFFICES ASSUME NEW b \in addrs PROVE Host32(b) \in IpPrefix
        OBVIOUS
      <4>1. b \in Address
        BY Zenon
      <4> QED BY Zenon, <4>1, HostFacts
    <3> QED BY Zenon, <3>1
  <2>2. overlaps \subseteq IpPrefix
    BY Zenon, <1>2
  <2> QED BY Zenon, <1>1, <2>1, <2>2
<1>4. ASSUME InNetworks(DOMAIN table, a)
      PROVE  /\ P \in DOMAIN table /\ Covers(P, a)
             /\ \A q \in DOMAIN table : Covers(q, a) => q.len <= P.len
  BY Zenon, <1>3, <1>4, LongestFacts
<1> HIDE DEF P
<1>5. RemoteAllowed(table, a, TRUE) <=>
        InNetworks(DOMAIN table, a) /\ table[P] \in {"VPN", "Unsafe"}
  BY DEF RemoteAllowed, P
<1>6. CASE a \in addrs
  <2> DEFINE h == Host32(a)
  <2>1. /\ h \in own /\ h \in IpPrefix /\ h.len = AddrBits /\ h.addr = a /\ Covers(h, a)
    BY Zenon, <1>6, HostFacts
  <2> HIDE DEF h
  <2>2. InNetworks(DOMAIN table, a)
    BY Zenon, <1>1, <2>1 DEF InNetworks
  <2>3. P = h
    <3>1. P \in IpPrefix /\ Covers(P, a) /\ h.len <= P.len
      BY Zenon, <1>1, <1>3, <1>4, <2>1, <2>2
    <3>2. P.len = h.len
      BY <2>1, <3>1, PrefixFacts, PeerAssumption
    <3> QED BY Zenon, <2>1, <3>1, <3>2, SameLength
  <2>4. table[P] = IF InNetworks(mine, a) THEN "VPN" ELSE "VPNPeer"
    BY Zenon, <1>1, <2>1, <2>3
  <2>5. table[P] \in {"VPN", "Unsafe"} <=> InNetworks(mine, a)
    BY <2>4
  <2> QED BY Zenon, <1>5, <1>6, <2>2, <2>5
<1>7. CASE a \notin addrs
  <2>1. \A p \in own : ~Covers(p, a)
    <3> SUFFICES ASSUME NEW b \in addrs PROVE ~Covers(Host32(b), a)
      BY Zenon
    <3>1. b \in Address /\ a # b
      BY Zenon, <1>7
    <3> QED BY Zenon, <3>1, HostFacts
  <2>2. \A p \in overlaps : Covers(p, a) => InNetworks(mine, a) /\ InNetworks(unsafe, a)
    <3>1. \A p \in inside : Covers(p, a) => InNetworks(mine, a) /\ InNetworks(unsafe, a)
      BY Zenon, WithinCovers DEF InNetworks
    <3>2. \A m \in mine, n \in unsafe : Within(m, n) /\ Covers(m, a)
            => InNetworks(mine, a) /\ InNetworks(unsafe, a)
      BY Zenon, WithinCovers DEF InNetworks
    <3> QED BY Zenon, <1>2, <3>1, <3>2
  <2>3. CASE ~InNetworks(unsafe, a)
    <3>1. ~InNetworks(DOMAIN table, a)
      BY Zenon, <1>1, <2>1, <2>2, <2>3 DEF InNetworks
    <3> QED BY Zenon, <1>5, <1>7, <2>3, <3>1
  <2>4. CASE InNetworks(unsafe, a)
    <3>1. InNetworks(DOMAIN table, a)
      BY Zenon, <1>1, <2>4 DEF InNetworks
    <3>2. P \notin own /\ P \in DOMAIN table /\ Covers(P, a)
      BY Zenon, <1>4, <2>1, <3>1
    <3>3. CASE ~InNetworks(mine, a)
      <4>1. P \notin overlaps
        BY Zenon, <2>2, <3>2, <3>3
      <4>2. table[P] = "Unsafe"
        BY Zenon, <1>1, <3>2, <4>1
      <4> QED BY Zenon, <1>5, <1>7, <2>4, <3>1, <3>3, <4>2
    <3>4. CASE InNetworks(mine, a)
      <4>1. PICK m \in mine : Covers(m, a)
        BY Zenon, <3>4 DEF InNetworks
      <4>2. P \in overlaps
        <5> SUFFICES ASSUME P \notin overlaps PROVE FALSE
          BY Zenon
        <5>1. P \in unsafe /\ P \notin inside
          BY Zenon, <1>1, <1>2, <3>2
        <5>2. ~(P.len >= m.len)
          BY Zenon, <3>2, <4>1, <5>1, Nested
        <5>3. P.len \in Nat /\ m.len \in Nat
          BY Zenon, <4>1, <5>1, PrefixFacts
        <5>4. m.len >= P.len /\ ~(m.len <= P.len)
          BY <5>2, <5>3
        <5>5. m \in overlaps
          BY Zenon, <1>2, <3>2, <4>1, <5>1, <5>4, Nested
        <5> QED BY Zenon, <1>1, <1>4, <3>1, <4>1, <5>4, <5>5
      <4>3. table[P] = "UnsafeVPNOverlap"
        BY Zenon, <1>1, <3>2, <4>2
      <4>4. table[P] \notin {"VPN", "Unsafe"}
        BY <4>3
      <4> QED BY Zenon, <1>5, <1>7, <3>4, <4>4
    <3> QED BY Zenon, <3>3, <3>4
  <2> QED BY Zenon, <2>3, <2>4
<1> QED BY Zenon, <1>6, <1>7

PeerInv ==
  /\ myVpnNetworks \in SUBSET IpPrefix /\ peerAddrs \in SUBSET Address
  /\ peerUnsafe \in SUBSET IpPrefix
  /\ networks = << >> \/ networks = buildNetworks(myVpnNetworks, peerAddrs, peerUnsafe)

LEMMA PeerSpeaks == PeerInv => SpeaksForItself
<1> SUFFICES ASSUME PeerInv, networks # << >>, NEW a \in Address
             PROVE  AddrAllowed(myVpnNetworks, peerAddrs, peerUnsafe, a, TRUE) <=>
                      IF a \in peerAddrs THEN InNetworks(myVpnNetworks, a)
                      ELSE InNetworks(peerUnsafe, a) /\ ~InNetworks(myVpnNetworks, a)
  BY Zenon DEF SpeaksForItself
<1>1. RemoteAllowed(networks, a, TRUE) <=>
        IF a \in peerAddrs THEN InNetworks(myVpnNetworks, a)
        ELSE InNetworks(peerUnsafe, a) /\ ~InNetworks(myVpnNetworks, a)
  <2>1. /\ myVpnNetworks \in SUBSET IpPrefix /\ peerAddrs \in SUBSET Address
        /\ peerUnsafe \in SUBSET IpPrefix
        /\ networks = buildNetworks(myVpnNetworks, peerAddrs, peerUnsafe)
    BY Zenon DEF PeerInv
  <2>2. Decides(buildNetworks(myVpnNetworks, peerAddrs, peerUnsafe),
                myVpnNetworks, peerAddrs, peerUnsafe, a)
    BY Zenon, <2>1, TableFacts
  <2> QED BY Zenon, <2>1, <2>2 DEF Decides
<1>2. CASE SimpleCase(myVpnNetworks, peerAddrs, peerUnsafe)
  BY Zenon, <1>2 DEF AddrAllowed, SimpleCase, InNetworks
<1>3. CASE ~SimpleCase(myVpnNetworks, peerAddrs, peerUnsafe)
  BY Zenon, <1>1, <1>3 DEF AddrAllowed
<1> QED BY Zenon, <1>2, <1>3

\* A tunnel speaks for its own vpn addresses and its unsafe networks, never
\* for an address in our networks that is another node's (buildNetworks,
\* Drop), for every width of addresses and every overlap of networks.
THEOREM PeersSpeakForThemselves == PeerInit /\ [][PeerNext]_peerVars => []SpeaksForItself
<1>1. PeerInit => PeerInv
  BY Zenon DEF PeerInit, PeerInv, AtMost
<1>2. PeerInv /\ [PeerNext]_peerVars => PeerInv'
  BY Zenon DEF PeerInv, PeerNext, CompletePeer, peerVars, AtMost
<1> QED BY <1>1, <1>2, PeerSpeaks, PTL

-----------------------------------------------------------------------------
(* A reload that could not apply a change says so (ConfigReload).          *)

\* Only the local API's sections keep quiet about a bad value.
SpeaksUp(section) == section.bad = "quiet" => section.keys \subseteq QuietKeys

AllSpeakUp(callback) == \A i \in 1..Len(callback) : SpeaksUp(callback[i])

LEMMA OneCallbackEach ==
  /\ AllSpeakUp(LoggingSections) /\ AllSpeakUp(PKISections)
  /\ AllSpeakUp(HostMapSections) /\ AllSpeakUp(PunchySections)
  /\ AllSpeakUp(ConnectionManagerSections) /\ AllSpeakUp(LightHouseSections)
  /\ AllSpeakUp(RelayManagerSections) /\ AllSpeakUp(TunSections)
  /\ AllSpeakUp(HostDNSSections) /\ AllSpeakUp(FirewallSections)
  /\ AllSpeakUp(InterfaceSections) /\ AllSpeakUp(UDPSections)
  /\ AllSpeakUp(StatsSections) /\ AllSpeakUp(DNSServerSections)
  /\ AllSpeakUp(LocalAPISections)
<1> USE DEF AllSpeakUp, SpeaksUp, Section, QuietKeys
<1>1. AllSpeakUp(LoggingSections) BY DEF LoggingSections
<1>2. AllSpeakUp(PKISections) BY DEF PKISections
<1>3. AllSpeakUp(HostMapSections) BY DEF HostMapSections
<1>4. AllSpeakUp(PunchySections) BY DEF PunchySections
<1>5. AllSpeakUp(ConnectionManagerSections) BY DEF ConnectionManagerSections
<1>6. AllSpeakUp(LightHouseSections)
  BY DEF LightHouseSections, StaticMapSection, LighthousesSection, RelaysForMeSection
<1>7. AllSpeakUp(RelayManagerSections) BY DEF RelayManagerSections
<1>8. AllSpeakUp(TunSections) BY DEF TunSections
<1>9. AllSpeakUp(HostDNSSections) BY DEF HostDNSSections
<1>10. AllSpeakUp(FirewallSections) BY DEF FirewallSections
<1>11. AllSpeakUp(InterfaceSections) BY DEF InterfaceSections
<1>12. AllSpeakUp(UDPSections) BY DEF UDPSections
<1>13. AllSpeakUp(StatsSections) BY DEF StatsSections
<1>14. AllSpeakUp(DNSServerSections) BY DEF DNSServerSections
<1>15. AllSpeakUp(LocalAPISections) BY DEF LocalAPISections
<1> QED BY ZenonT(60), <1>1, <1>2, <1>3, <1>4, <1>5, <1>6, <1>7, <1>8, <1>9, <1>10,
           <1>11, <1>12, <1>13, <1>14, <1>15

LEMMA CallbacksSpeakUp ==
  \A c \in 1..Len(Callbacks) : AllSpeakUp(Callbacks[c])
<1>1. Len(Callbacks) = 15
  BY DEF Callbacks
<1>2. \A c \in 1..15 : AllSpeakUp(Callbacks[c])
  BY OneCallbackEach DEF Callbacks
<1> QED BY Zenon, <1>1, <1>2

\* Either the callback gets to the section or one before it fails aloud.
LEMMA FirstStop ==
  ASSUME NEW old, NEW new, NEW c \in 1..Len(Callbacks),
         NEW i \in 1..Len(Callbacks[c]), ~Reaches(old, new, Callbacks[c], i)
  PROVE  \E j \in 1..Len(Callbacks[c]) :
           /\ Reaches(old, new, Callbacks[c], j)
           /\ Touched(old, new, Callbacks[c][j])
           /\ Fails(new, Callbacks[c][j])
<1> DEFINE Stops(j) == /\ Touched(old, new, Callbacks[c][j])
                       /\ Broken(new, Callbacks[c][j])
                       /\ Callbacks[c][j].bad = "stop"
           T == {j \in 1..i - 1 : Stops(j)}
<1>1. i \in Nat /\ T \subseteq Nat /\ T # {}
  <2>1. i \in Nat /\ 1..i - 1 \subseteq Nat
    OBVIOUS
  <2> QED BY Zenon, <2>1 DEF Reaches
<1>2. PICK m \in T : \A j \in T : ~(<<j, m>> \in OpToRel(<, Nat))
  BY Zenon, <1>1, NatLessThanWellFounded, WFMin
<1>3. m \in Nat /\ m \in 1..i - 1 /\ Stops(m)
  BY Zenon, <1>1
<1>4. ASSUME NEW j \in 1..m - 1 PROVE ~Stops(j)
  <2>1. j \in Nat /\ j < m /\ j \in 1..i - 1
    BY <1>1, <1>3
  <2>2. j \notin T
    BY Zenon, <1>2, <1>3, <2>1 DEF OpToRel
  <2> QED BY Zenon, <2>1, <2>2
<1>5. Reaches(old, new, Callbacks[c], m)
  BY Zenon, <1>4 DEF Reaches
<1>6. m \in 1..Len(Callbacks[c])
  BY <1>1, <1>3
<1>7. Fails(new, Callbacks[c][m])
  <2>1. "stop" # "quiet"
    OBVIOUS
  <2> QED BY Zenon, <1>3, <2>1 DEF Fails
<1> QED BY Zenon, <1>3, <1>5, <1>6, <1>7

LEMMA ReachedRuns ==
  ASSUME NEW old, NEW new, NEW c \in InPlay, NEW j \in 1..Len(Callbacks[c]),
         Reaches(old, new, Callbacks[c], j), Touched(old, new, Callbacks[c][j])
  PROVE  Callbacks[c][j] \in Runs(old, new)
<1> DEFINE Of(d) == {Callbacks[d][i] : i \in {h \in 1..Len(Callbacks[d]) :
                       Reaches(old, new, Callbacks[d], h)
                         /\ Touched(old, new, Callbacks[d][h])}}
<1>1. Callbacks[c][j] \in Of(c)
  BY Zenon
<1>2. Of(c) \in {Of(d) : d \in InPlay}
  BY Zenon
<1>3. Runs(old, new) = UNION {Of(d) : d \in InPlay}
  BY DEF Runs
<1> HIDE DEF Of
<1> QED BY Zenon, <1>1, <1>2, <1>3

\* A key that changed is taken over, fails aloud, or is one of startup.
LEMMA TakenOrTold ==
  ASSUME NEW old, NEW new, NEW k \in Changing \ QuietKeys,
         HasChanged(old, new, k), k \notin StartupKeys
  PROVE  \/ \E s \in Runs(old, new) : TakesOver(new, s) /\ k \in s.keys
         \/ \E s \in Runs(old, new) : Fails(new, s)
<1>0. PICK c \in 1..Len(Callbacks) :
        \E i \in 1..Len(Callbacks[c]) : k \in Callbacks[c][i].keys
  <2> DEFINE Of(c) == UNION {Callbacks[c][i].keys : i \in 1..Len(Callbacks[c])}
  <2>1. k \in UNION {Of(c) : c \in 1..Len(Callbacks)}
    <3>1. Key = StartupKeys \cup UNION {Of(c) : c \in 1..Len(Callbacks)}
      BY DEF Key
    <3> HIDE DEF Of
    <3>2. k \in Key
      BY Zenon, ConfigAssumption
    <3> QED BY <3>1, <3>2
  <2>2. PICK c \in 1..Len(Callbacks) : k \in Of(c)
    <3> HIDE DEF Of
    <3> QED BY Zenon, <2>1
  <2>3. \E i \in 1..Len(Callbacks[c]) : k \in Callbacks[c][i].keys
    BY Zenon, <2>2
  <2> QED BY Zenon, <2>3
<1>1. PICK i \in 1..Len(Callbacks[c]) : k \in Callbacks[c][i].keys
  BY Zenon, <1>0
<1> DEFINE s == Callbacks[c][i]
<1>2. c \in InPlay
  BY Zenon, <1>1 DEF InPlay
<1>3. CASE ~Reaches(old, new, Callbacks[c], i)
  BY Zenon, <1>2, <1>3, FirstStop, ReachedRuns
<1>4. CASE Reaches(old, new, Callbacks[c], i)
  <2>1. Touched(old, new, s)
    BY Zenon, <1>1 DEF Touched
  <2>2. s \in Runs(old, new)
    BY Zenon, <1>2, <1>4, <2>1, ReachedRuns
  <2>3. SpeaksUp(s)
    BY Zenon, CallbacksSpeakUp DEF AllSpeakUp
  <2>4. s.bad # "quiet"
    BY Zenon, <1>1, <2>3 DEF SpeaksUp
  <2> QED BY Zenon, <1>1, <2>2, <2>4 DEF TakesOver, Fails
<1> QED BY Zenon, <1>3, <1>4

LEMMA ReloadTells ==
  ASSUME NEW new, ReloadConfig(new), NEW k \in Changing \ QuietKeys,
         settings'[k] # settings[k], running'[k] # settings'[k]
  PROVE  result' # "complete"
<1> DEFINE runs == Runs(settings, new)
           taken == UNION {s.keys : s \in {r \in runs : TakesOver(new, r)}}
           restart == \E x \in StartupKeys \cap Changing : HasChanged(settings, new, x)
<1>1. /\ settings' = new
      /\ running' = [x \in Changing |-> IF x \in taken THEN new[x] ELSE running[x]]
      /\ needsRestart' = (needsRestart \/ restart)
      /\ result' = CASE \E s \in runs : Fails(new, s) -> "completed with errors"
                     [] needsRestart' -> "requires a restart"
                     [] OTHER -> "complete"
  BY Zenon DEF ReloadConfig
<1>2. HasChanged(settings, new, k)
  BY Zenon, <1>1 DEF HasChanged
<1>3. k \notin taken
  BY Zenon, <1>1
<1>4. restart \/ \E s \in runs : Fails(new, s)
  BY Zenon, <1>2, <1>3, TakenOrTold
<1> DEFINE fails == \E s \in runs : Fails(new, s)
<1>5. /\ needsRestart' = (needsRestart \/ restart)
      /\ result' = CASE fails -> "completed with errors"
                     [] needsRestart' -> "requires a restart"
                     [] OTHER -> "complete"
      /\ restart \/ fails
  BY Zenon, <1>1, <1>4
<1> HIDE DEF fails, restart
<1> QED BY Zenon, <1>5

\* What a reload was asked to change and could not is reported by that
\* reload, in any set of keys that change, after any sequence of reloads.
THEOREM ReloadsReported == ConfigSpec => ChangeReported
<1> DEFINE Told == \A k \in Changing \ QuietKeys :
                     settings'[k] # settings[k] /\ running'[k] # settings'[k] =>
                       result' # "complete"
<1>1. ASSUME [ConfigNext]_crVars PROVE [Told]_crVars
  <2>1. CASE \E vs \in [Changing -> GoodValue \cup {"bad"}] : ReloadConfig(vs)
    BY Zenon, <2>1, ReloadTells
  <2>2. CASE LoadFails
    BY Zenon, <2>2 DEF LoadFails
  <2>3. CASE UNCHANGED crVars
    BY Zenon, <2>3
  <2> QED BY Zenon, <1>1, <2>1, <2>2, <2>3 DEF ConfigNext
<1> QED BY <1>1, PTL DEF ConfigSpec, ChangeReported
=============================================================================
