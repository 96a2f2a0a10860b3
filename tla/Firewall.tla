------------------------------ MODULE Firewall ------------------------------
(***************************************************************************)
(* The connection tracking of the firewall (firewall.go), shared by the    *)
(* packet routines, their private caches (firewall/cache.go) and the       *)
(* reload that replaces the rules under them (Interface.reloadFirewall).   *)
(*                                                                         *)
(* Drop reads the firewall pointer and the routine's cache once, then      *)
(* enters the conntrack lock twice, in inConns and in addConn; a reload    *)
(* may come between any two of these.  The rules are abstracted to which   *)
(* flows they let in or out (FirewallRules has the matching itself), the   *)
(* timer wheel to how many entries it holds for a flow (TimerWheel has the *)
(* wheel), and a deadline to whether it has passed.                        *)
(***************************************************************************)
EXTENDS Integers, FiniteSets

CONSTANTS
  Flow,           \* firewall.Packet values
  Routine,        \* packet routines
  CachedRoutine,  \* the routines that pass a cache to Drop
  RuleTable,      \* what a configuration can say
  Allows,         \* table -> the <<flow, incoming>> its rules match
  Versions,       \* values of rulesVersion, 2^16 in firewall.go
  MaxTimers       \* bound: wheel entries per flow

ASSUME FirewallAssumption ==
  /\ CachedRoutine \subseteq Routine
  /\ Allows \in [RuleTable -> SUBSET (Flow \X BOOLEAN)]
  /\ Versions \in Nat \ {0}
  /\ MaxTimers \in Nat \ {0}

VARIABLES
  firewall,    \* Interface.firewall: version, rules and which conntrack
  Conns,       \* the two latest conntracks: flow -> its entry
  wheel,       \* their wheels: flow -> how many entries
  cache,       \* the routine's ConntrackCache
  ticked,      \* the cache ticker moved since the routine's last Get
  routine,     \* where the routine is in Drop, and on what
  settled,     \* the cache ticker moved since the last reload
  filledSince  \* the routine's cache was emptied after that

conntrack == <<Conns, wheel>>
fwVars == <<firewall, Conns, wheel, cache, ticked, routine, settled,
            filledSince>>

Fw == [version : 0..(Versions - 1), rules : RuleTable, ct : {0, 1}]
NoConn == [tracked |-> FALSE]
Conn == [tracked : {TRUE}, incoming : BOOLEAN, version : 0..(Versions - 1),
         expired : BOOLEAN]
Idle == [pc |-> "idle"]
Working == [pc : {"inConns", "addConn"}, fw : Fw, flow : Flow,
            incoming : BOOLEAN]

FirewallTypeOK ==
  /\ firewall \in Fw
  /\ Conns \in [{0, 1} -> [Flow -> Conn \cup {NoConn}]]
  /\ wheel \in [{0, 1} -> [Flow -> Nat]]
  /\ cache \in [Routine -> SUBSET Flow]
  /\ ticked \in [Routine -> BOOLEAN]
  /\ routine \in [Routine -> Working \cup {Idle}]
  /\ settled \in BOOLEAN
  /\ filledSince \in [Routine -> BOOLEAN]

NoConns == [p \in Flow |-> NoConn]
NoTimers == [p \in Flow |-> 0]

FirewallInit ==
  /\ firewall \in [version : {0}, rules : RuleTable, ct : {0}]
  /\ Conns = [c \in {0, 1} |-> NoConns]
  /\ wheel = [c \in {0, 1} |-> NoTimers]
  /\ cache = [r \in Routine |-> {}]
  /\ ticked = [r \in Routine |-> FALSE]
  /\ routine = [r \in Routine |-> Idle]
  /\ settled = FALSE
  /\ filledSince = [r \in Routine |-> FALSE]

-----------------------------------------------------------------------------
(* The routine caches.                                                     *)

\* ConntrackCacheTicker.Get: the cache is emptied when the tick has moved.
Get(r) ==
  IF ticked[r] /\ r \in CachedRoutine
  THEN /\ cache' = [cache EXCEPT ![r] = {}]
       /\ ticked' = [ticked EXCEPT ![r] = FALSE]
       /\ filledSince' = [filledSince EXCEPT ![r] = settled]
  ELSE UNCHANGED <<cache, ticked, filledSince>>

\* ConntrackCacheTicker.tick
CacheTick ==
  /\ ticked' = [r \in Routine |-> TRUE]
  /\ settled' = TRUE
  /\ UNCHANGED <<firewall, Conns, wheel, cache, routine, filledSince>>

-----------------------------------------------------------------------------
(* Drop.                                                                   *)

\* The call: the pointer is read, and the cache that goes with this batch.
CallDrop(r, p, incoming) ==
  /\ routine[r] = Idle
  /\ routine' = [routine EXCEPT ![r] =
       [pc |-> "inConns", fw |-> firewall, flow |-> p, incoming |-> incoming]]
  /\ Get(r)
  /\ UNCHANGED <<firewall, Conns, wheel, settled>>

\* Mutant of evict: an entry that is still in use is not put back.
EvictForgets(conns, timers, p) ==
  IF ~conns[p].tracked \/ ~conns[p].expired
  THEN [conns |-> conns, timers |-> [timers EXCEPT ![p] = @ - 1]]
  ELSE [conns |-> [conns EXCEPT ![p] = NoConn],
        timers |-> [timers EXCEPT ![p] = @ - 1]]

\* evict(p), for a p the wheel has just given up.
evict(conns, timers, p) ==
  IF ~conns[p].tracked
  THEN [conns |-> conns, timers |-> [timers EXCEPT ![p] = @ - 1]]
  ELSE IF ~conns[p].expired
  THEN [conns |-> conns, timers |-> timers]      \* added again
  ELSE [conns |-> [conns EXCEPT ![p] = NoConn],
        timers |-> [timers EXCEPT ![p] = @ - 1]]

\* What the wheel's Purge may leave: no entry was due, or one of them.
AfterPurge(ct) ==
  {[conns |-> Conns[ct], timers |-> wheel[ct]]} \cup
  {evict(Conns[ct], wheel[ct], p) : p \in {q \in Flow : wheel[ct][q] > 0}}

\* The connection as the rules of fw see it.
StillAllowed(fw, c, p, incoming) == <<p, c.incoming>> \in Allows[fw.rules]

Finished(r) == routine' = [routine EXCEPT ![r] = Idle]

Pass(r, p) ==
  /\ Finished(r)
  /\ cache' = [cache EXCEPT ![r] =
                 IF r \in CachedRoutine THEN @ \cup {p} ELSE @]

\* No tracked connection: Drop asks the rules.
AskRules(r, fw, p, incoming) ==
  /\ IF <<p, incoming>> \in Allows[fw.rules]
     THEN routine' = [routine EXCEPT ![r].pc = "addConn"]
     ELSE Finished(r)
  /\ UNCHANGED cache

\* Mutant of Revalidate: the entry is accepted without asking the rules.
AcceptStale(fw, conns, p, incoming) ==
  [conns EXCEPT ![p] = [@ EXCEPT !.version = fw.version, !.expired = FALSE]]

\* What inConns makes of a tracked entry: one of another rules version is
\* dropped, or stamped with this one; one that stays is refreshed.
Revalidate(fw, conns, p, incoming) ==
  IF conns[p].version # fw.version /\ ~StillAllowed(fw, conns[p], p, incoming)
  THEN [conns EXCEPT ![p] = NoConn]
  ELSE [conns EXCEPT ![p] = [@ EXCEPT !.version = fw.version,
                                      !.expired = FALSE]]

\* inConns after the cache, and the match that follows it.
inConns(r) ==
  /\ routine[r].pc = "inConns"
  /\ LET fw == routine[r].fw
         p == routine[r].flow
         in == routine[r].incoming
     IN  /\ p \notin cache[r]
         /\ \E s \in AfterPurge(fw.ct) :
              LET conns == IF s.conns[p].tracked
                           THEN Revalidate(fw, s.conns, p, in)
                           ELSE s.conns
              IN  /\ Conns' = [Conns EXCEPT ![fw.ct] = conns]
                  /\ wheel' = [wheel EXCEPT ![fw.ct] = s.timers]
                  /\ IF conns[p].tracked THEN Pass(r, p)
                     ELSE AskRules(r, fw, p, in)
  /\ UNCHANGED <<firewall, ticked, settled, filledSince>>

\* inConns when the routine's cache knows the flow: the table is not read.
inCache(r) ==
  /\ routine[r].pc = "inConns"
  /\ routine[r].flow \in cache[r]
  /\ Finished(r)
  /\ UNCHANGED <<firewall, Conns, wheel, cache, ticked, settled, filledSince>>

\* addConn: an entry another routine added meanwhile is overwritten.
addConn(r) ==
  /\ routine[r].pc = "addConn"
  /\ LET fw == routine[r].fw
         p == routine[r].flow
         new == ~Conns[fw.ct][p].tracked
     IN  /\ new => wheel[fw.ct][p] < MaxTimers
         /\ wheel' = IF new THEN [wheel EXCEPT ![fw.ct][p] = @ + 1] ELSE wheel
         /\ Conns' = [Conns EXCEPT ![fw.ct][p] =
              [tracked |-> TRUE, incoming |-> routine[r].incoming,
               version |-> fw.version, expired |-> FALSE]]
  /\ Finished(r)
  /\ UNCHANGED <<firewall, cache, ticked, settled, filledSince>>

\* The deadline of an entry passes.
Expire(p) ==
  /\ Conns[firewall.ct][p].tracked
  /\ ~Conns[firewall.ct][p].expired
  /\ Conns' = [Conns EXCEPT ![firewall.ct][p].expired = TRUE]
  /\ UNCHANGED <<firewall, wheel, cache, ticked, routine, settled, filledSince>>

-----------------------------------------------------------------------------
(* The reload.                                                             *)

\* After 2^16 reloads an entry could carry the new version by accident: the
\* new firewall starts with an empty conntrack.
NextConntrack(version) ==
  IF version = 0
  THEN /\ \A r \in Routine : routine[r] # Idle => routine[r].fw.ct = firewall.ct
       /\ firewall'.ct = 1 - firewall.ct
       /\ Conns' = [Conns EXCEPT ![1 - firewall.ct] = NoConns]
       /\ wheel' = [wheel EXCEPT ![1 - firewall.ct] = NoTimers]
  ELSE UNCHANGED conntrack /\ firewall'.ct = firewall.ct

\* reloadFirewall, for a configuration that differs from the running one and
\* builds; one that does not leaves everything as it was.
reloadFirewall(table) ==
  LET version == (firewall.version + 1) % Versions
  IN  /\ table # firewall.rules
      /\ \E ct \in {0, 1} :
           firewall' = [version |-> version, rules |-> table, ct |-> ct]
      /\ NextConntrack(version)
      /\ settled' = FALSE
      /\ filledSince' = [r \in Routine |-> FALSE]
      /\ UNCHANGED <<cache, ticked, routine>>

FirewallNext ==
  \/ \E r \in Routine, p \in Flow, in \in BOOLEAN : CallDrop(r, p, in)
  \/ \E r \in Routine : inConns(r) \/ inCache(r) \/ addConn(r)
  \/ \E p \in Flow : Expire(p)
  \/ CacheTick
  \/ \E table \in RuleTable : reloadFirewall(table)

FirewallSpec == FirewallInit /\ [][FirewallNext]_fwVars

-----------------------------------------------------------------------------
(* Properties.                                                             *)

\* An entry that carries the running rules version was let through by the
\* running rules, whatever reloads, wraps of the version, and routines that
\* still hold an older firewall came before: inConns may skip the match.
CurrentIsAllowed ==
  \A p \in Flow :
    LET c == Conns[firewall.ct][p]
    IN  c.tracked /\ c.version = firewall.version
          => <<p, c.incoming>> \in Allows[firewall.rules]

\* A routine's cache is asked before the table, so it may pass a flow that a
\* reload has just forbidden; but a cache that was emptied at a tick after
\* the reload holds only flows the running rules let through.
CacheSettles ==
  \A r \in Routine : filledSince[r] =>
    \A p \in cache[r] : \E in \in BOOLEAN : <<p, in>> \in Allows[firewall.rules]

\* A packet is let through without asking the rules only where the running
\* rules let it through, in the table and, after a tick, in the caches.
VerdictsCurrent == CurrentIsAllowed /\ CacheSettles

\* Every tracked connection has an entry in the timer wheel, so it can be
\* evicted; a connection that a reload dropped and a packet opened again has
\* two, and the older one finding it must not leave it without any.
TrackedHasTimer ==
  \A c \in {0, 1}, p \in Flow : Conns[c][p].tracked => wheel[c][p] > 0
=============================================================================
