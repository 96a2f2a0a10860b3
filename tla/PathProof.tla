----------------------------- MODULE PathProof ------------------------------
(***************************************************************************)
(* The way to a host and the packets sent on it: a list of remotes lacks   *)
(* no address it could use, the hole punching scheduler loses and doubles  *)
(* no job, the counter gives no nonce twice, and the replay window of the  *)
(* receiver lets no counter through twice.                                 *)
(***************************************************************************)
EXTENDS RemoteList, Punchy, ReplayWindow, MessageCounter, FiniteSetTheorems, TLAPS

-----------------------------------------------------------------------------
(* The list of remotes.                                                    *)

\* A resolver whose news the list has still to be told.
Changed(g) ==
  \/ resolver[g].pc = "onUpdate"
  \/ /\ resolver[g].pc = "publish"
     /\ Resolved(resolver[g].names, resolver[g].known) # resolver[g].ips
Quiet == ~rl.shouldRebuild /\ \A g \in 1..Len(resolver) : ~Changed(g)

\* The list's resolver is that of the static_host_map entry.
StaticResolved ==
  static # {} => rl.hr # 0 /\ resolver[rl.hr].names = static

\* A resolver always has its literals, and has published what it knows except
\* between a lookup and the swap of its addresses.
Published ==
  \A g \in 1..Len(resolver) :
    /\ resolver[g].names \cap Literal \subseteq resolver[g].ips
    /\ resolver[g].pc # "publish" =>
         resolver[g].ips = Resolved(resolver[g].names, resolver[g].known)

\* NothingMissing, also while lookups that change nothing are on their way.
Built ==
  /\ Quiet => Collected \ rl.addrs \subseteq unblocked
  /\ ~rl.shouldRebuild => /\ rl.addrs \cap rl.bad = {}
                          /\ rl.addrs \subseteq Usable
                          /\ rl.relays = CollectedRelays

RemotesInv ==
  RemoteListTypeOK /\ StaticResolved /\ Published /\ Built /\ LiteralKept

Fields == {"cache", "bad", "addrs", "relays", "shouldRebuild", "hr"}

-----------------------------------------------------------------------------

\* A step that marks the list and leaves resolvers and configuration alone.
LEMMA MarkKeeps ==
  ASSUME RemotesInv, UNCHANGED <<resolver, reloading, static>>,
         DOMAIN rl' = Fields, rl'.shouldRebuild = TRUE, rl'.hr = rl.hr,
         rl'.addrs = rl.addrs
  PROVE  RemotesInv'
<1>1. RemoteListTypeOK'
  BY Zenon DEF RemotesInv, RemoteListTypeOK, Fields
<1>2. StaticResolved' /\ Published'
  BY Zenon DEF RemotesInv, StaticResolved, Published
<1>3. Built' /\ LiteralKept'
  BY Zenon DEF Built, Quiet, LiteralKept
<1> QED
  BY Zenon, <1>1, <1>2, <1>3 DEF RemotesInv

\* Rebuild collects everything.
LEMMA RebuildKeeps == RemotesInv /\ Rebuild => RemotesInv'
<1> SUFFICES ASSUME RemotesInv, Rebuild PROVE RemotesInv'
  OBVIOUS
<1>1. /\ DOMAIN rl' = Fields /\ rl'.cache = rl.cache /\ rl'.bad = rl.bad
      /\ rl'.addrs = Collected /\ rl'.relays = CollectedRelays
      /\ rl'.shouldRebuild = FALSE /\ rl'.hr = rl.hr
      /\ unblocked' = {} /\ UNCHANGED <<resolver, reloading, static>>
  BY Zenon DEF RemotesInv, RemoteListTypeOK, Rebuild, Fields
<1>2. Collected' = Collected /\ CollectedRelays' = CollectedRelays
  BY Zenon, <1>1 DEF Collected, CollectedRelays, GetAddrs
<1>3. Collected \subseteq Usable /\ Collected \cap rl.bad = {} /\ Usable \subseteq Remote
  BY Zenon, RemoteAssumption DEF Collected, Usable
<1>4. RemoteListTypeOK'
  BY Zenon, <1>1, <1>3 DEF RemotesInv, RemoteListTypeOK, Fields
<1>5. StaticResolved' /\ Published'
  BY Zenon, <1>1 DEF RemotesInv, StaticResolved, Published
<1>6. Built'
  BY Zenon, <1>1, <1>2, <1>3 DEF Built
<1>7. LiteralKept'
  <2>1. CASE static = {}
    BY Zenon, <1>1, <2>1 DEF LiteralKept
  <2>2. CASE static # {}
    <3>1. /\ rl.hr # 0 /\ resolver[rl.hr].names = static /\ rl.hr \in 1..Len(resolver)
      BY <2>2 DEF RemotesInv, StaticResolved, RemoteListTypeOK
    <3>2. static \cap Literal \subseteq GetAddrs(rl.hr)
      BY Zenon, <3>1 DEF RemotesInv, Published, GetAddrs
    <3> QED
      BY Zenon, <1>1, <3>2 DEF LiteralKept, Collected
  <2> QED
    BY Zenon, <2>1, <2>2
<1> QED
  BY Zenon, <1>4, <1>5, <1>6, <1>7 DEF RemotesInv

\* RefreshFromHandshake remembers what it let go.
LEMMA RefreshKeeps == RemotesInv /\ RefreshFromHandshake => RemotesInv'
<1> SUFFICES ASSUME RemotesInv, RefreshFromHandshake PROVE RemotesInv'
  OBVIOUS
<1>1. /\ DOMAIN rl' = Fields /\ rl'.cache = rl.cache /\ rl'.bad = {}
      /\ rl'.addrs = rl.addrs /\ rl'.relays = rl.relays
      /\ rl'.shouldRebuild = rl.shouldRebuild /\ rl'.hr = rl.hr
      /\ unblocked' = unblocked \cup rl.bad
      /\ UNCHANGED <<resolver, reloading, static>>
  BY Zenon DEF RemotesInv, RemoteListTypeOK, RefreshFromHandshake, Fields
<1>2. Collected' \subseteq Collected \cup rl.bad /\ CollectedRelays' = CollectedRelays
  BY Zenon, <1>1 DEF Collected, CollectedRelays, GetAddrs
<1>3. RemoteListTypeOK'
  BY Zenon, <1>1 DEF RemotesInv, RemoteListTypeOK, Fields
<1>4. StaticResolved' /\ Published'
  BY Zenon, <1>1 DEF RemotesInv, StaticResolved, Published
<1>5. Quiet' <=> Quiet
  BY Zenon, <1>1 DEF Quiet, Changed
<1>6. Built'
  BY Zenon, <1>1, <1>2, <1>5 DEF RemotesInv, Built
<1>7. LiteralKept'
  BY Zenon, <1>1 DEF RemotesInv, LiteralKept
<1> QED
  BY Zenon, <1>3, <1>4, <1>6, <1>7 DEF RemotesInv

-----------------------------------------------------------------------------
(* Resolvers.                                                              *)

\* A turn of a resolver that leaves the list alone: if the list's resolver
\* publishes other addresses, it goes on to tell the list.
LEMMA TurnKeeps ==
  ASSUME RemotesInv, NEW g \in 1..Len(resolver), NEW r \in Resolver,
         resolver' = [resolver EXCEPT ![g] = r],
         UNCHANGED <<rl, reloading, static, unblocked>>,
         r.names = resolver[g].names,
         r.names \cap Literal \subseteq r.ips,
         r.pc # "publish" => r.ips = Resolved(r.names, r.known),
         r.ips # resolver[g].ips => r.pc = "onUpdate",
         Changed(g) => Changed(g)'
  PROVE  RemotesInv'
<1>1. /\ resolver' \in Seq(Resolver) /\ Len(resolver') = Len(resolver)
      /\ resolver'[g] = r
      /\ \A k \in 1..Len(resolver) : k # g => resolver'[k] = resolver[k]
  BY DEF RemotesInv, RemoteListTypeOK
<1>2. RemoteListTypeOK'
  BY Zenon, <1>1 DEF RemotesInv, RemoteListTypeOK
<1>3. StaticResolved'
  <2>1. rl.hr # 0 => rl.hr \in 1..Len(resolver)
    BY DEF RemotesInv, RemoteListTypeOK
  <2> QED
    BY Zenon, <1>1, <2>1 DEF RemotesInv, StaticResolved
<1>4. Published'
  BY ZenonT(60), <1>1 DEF RemotesInv, Published
<1>5. Quiet' => Quiet
  BY Zenon, <1>1 DEF Quiet, Changed
<1>6. Quiet' => r.ips = resolver[g].ips
  BY Zenon, <1>1 DEF Quiet, Changed
<1>7. Quiet' => GetAddrs(rl.hr)' = GetAddrs(rl.hr)
  <2>1. rl.hr # 0 => rl.hr \in 1..Len(resolver)
    BY DEF RemotesInv, RemoteListTypeOK
  <2> QED
    BY <1>1, <1>6, <2>1 DEF GetAddrs
<1>8. Built'
  <2>1. CollectedRelays' = CollectedRelays
    BY Zenon DEF CollectedRelays
  <2>2. Quiet' => Collected' = Collected
    BY Zenon, <1>7 DEF Collected
  <2> QED
    BY Zenon, <1>5, <2>1, <2>2 DEF RemotesInv, Built
<1>9. LiteralKept'
  BY Zenon DEF RemotesInv, LiteralKept
<1> QED
  BY Zenon, <1>2, <1>3, <1>4, <1>8, <1>9 DEF RemotesInv

\* A lookup is a turn of one resolver.
LEMMA ResolveKeeps ==
  ASSUME RemotesInv, NEW g \in 1..Len(resolver), NEW answer \in [Hostname -> Lookup],
         Resolve(g, answer)
  PROVE  RemotesInv'
<1> DEFINE old == resolver[g]
           known == [n \in Hostname |->
             IF n \in old.names THEN applyLookup(old.known[n], answer[n]) ELSE {}]
<1>1. old \in Resolver
  BY DEF RemotesInv, RemoteListTypeOK
<1>2. known \in [Hostname -> SUBSET Remote]
  <2> SUFFICES ASSUME NEW n \in Hostname
               PROVE  applyLookup(old.known[n], answer[n]) \subseteq Remote
    OBVIOUS
  <2>1. answer[n] \in Lookup /\ old.known[n] \subseteq Remote
    BY Zenon, <1>1 DEF Resolver
  <2> QED
    BY Zenon, <2>1, RemoteAssumption DEF applyLookup, Lookup
<1>3. PICK r : r = [names |-> old.names, known |-> known, ips |-> old.ips,
                    cancelled |-> old.cancelled, pc |-> "publish"]
  BY Zenon
<1> HIDE DEF known
<1>4. /\ r \in Resolver /\ r.names = old.names /\ r.ips = old.ips /\ r.pc = "publish"
  BY Zenon, <1>1, <1>2, <1>3 DEF Resolver
<1>5. /\ resolver[g].pc = "resolve"
      /\ resolver' = [resolver EXCEPT ![g] = r]
      /\ UNCHANGED <<rl, reloading, static, unblocked>>
  <2>1. resolver' = [resolver EXCEPT ![g].known = known, ![g].pc = "publish"]
    BY Zenon DEF Resolve, known
  <2>2. old = [names |-> old.names, known |-> old.known, ips |-> old.ips,
               cancelled |-> old.cancelled, pc |-> old.pc]
    BY Zenon, <1>1 DEF Resolver
  <2> HIDE DEF old
  <2>3. PICK mid : mid = [old EXCEPT !.known = known]
    BY Zenon
  <2>4. mid = [names |-> old.names, known |-> known,
               ips |-> old.ips, cancelled |-> old.cancelled, pc |-> old.pc]
    BY Zenon, <2>2, <2>3
  <2>5. [mid EXCEPT !.pc = "publish"] = r
    BY <1>3, <2>4
  <2>6. resolver' = [resolver EXCEPT ![g] = [[old EXCEPT !.known = known] EXCEPT !.pc = "publish"]]
    BY Zenon, <2>1 DEF old
  <2> QED
    BY Zenon, <2>3, <2>5, <2>6 DEF Resolve, old
<1>6. r.names \cap Literal \subseteq r.ips
  BY Zenon, <1>4 DEF RemotesInv, Published
<1>7. ~Changed(g)
  BY Zenon, <1>5 DEF Changed
<1> QED
  BY Zenon, <1>4, <1>5, <1>6, <1>7, TurnKeeps

\* So is the swap of its addresses.
LEMMA PublishKeeps ==
  ASSUME RemotesInv, NEW g \in 1..Len(resolver), Publish(g)
  PROVE  RemotesInv'
<1> DEFINE old == resolver[g]
           ips == Resolved(old.names, old.known)
           stage == IF ips # old.ips THEN "onUpdate" ELSE "wait"
<1>1. old \in Resolver
  BY DEF RemotesInv, RemoteListTypeOK
<1>2. ips \subseteq Remote
  BY <1>1, RemoteAssumption DEF Resolved, Resolver
<1>3. PICK r : r = [names |-> old.names, known |-> old.known, ips |-> ips,
                    cancelled |-> old.cancelled, pc |-> stage]
  BY Zenon
<1>4. /\ r \in Resolver /\ r.names = old.names /\ r.known = old.known
      /\ r.ips = ips /\ r.pc = stage
  BY Zenon, <1>1, <1>2, <1>3 DEF Resolver
<1>5. /\ old.pc = "publish"
      /\ resolver' = [resolver EXCEPT ![g] = r]
      /\ UNCHANGED <<rl, reloading, static, unblocked>>
  <2>1. resolver' = [resolver EXCEPT ![g].ips = ips, ![g].pc = stage]
    BY Zenon DEF Publish
  <2>2. old = [names |-> old.names, known |-> old.known, ips |-> old.ips,
               cancelled |-> old.cancelled, pc |-> old.pc]
    BY Zenon, <1>1 DEF Resolver
  <2> HIDE DEF old
  <2>3. PICK mid : mid = [old EXCEPT !.ips = ips]
    BY Zenon
  <2>4. mid = [names |-> old.names, known |-> old.known,
               ips |-> ips, cancelled |-> old.cancelled, pc |-> old.pc]
    BY Zenon, <2>2, <2>3
  <2>5. [mid EXCEPT !.pc = stage] = r
    BY <1>3, <2>4
  <2>6. resolver' = [resolver EXCEPT ![g] = [[old EXCEPT !.ips = ips] EXCEPT !.pc = stage]]
    BY Zenon, <2>1 DEF old
  <2> QED
    BY Zenon, <2>3, <2>5, <2>6 DEF Publish, old
<1>6. r.names \cap Literal \subseteq r.ips /\ r.ips = Resolved(r.names, r.known)
  BY Zenon, <1>4 DEF Resolved
<1>7. Changed(g) => Changed(g)'
  <2>1. resolver'[g] = r
    BY <1>5 DEF RemotesInv, RemoteListTypeOK
  <2> QED
    BY Zenon, <2>1, <1>4, <1>5 DEF Changed
<1> QED
  BY Zenon, <1>4, <1>5, <1>6, <1>7, TurnKeeps

\* ResolveAgain and ResolverEnds.
LEMMA WaitEnds ==
  ASSUME RemotesInv, NEW g \in 1..Len(resolver), ResolveAgain(g) \/ ResolverEnds(g)
  PROVE  RemotesInv'
<1> DEFINE old == resolver[g]
<1>1. old \in Resolver
  BY DEF RemotesInv, RemoteListTypeOK
<1>2. PICK stage \in {"resolve", "done"} :
        /\ old.pc = "wait" /\ resolver' = [resolver EXCEPT ![g].pc = stage]
        /\ UNCHANGED <<rl, reloading, static, unblocked>>
  BY Zenon DEF ResolveAgain, ResolverEnds
<1>3. PICK r : r = [old EXCEPT !.pc = stage]
  BY Zenon
<1>4. /\ r \in Resolver /\ r.names = old.names /\ r.known = old.known
      /\ r.ips = old.ips /\ r.pc = stage
  BY Zenon, <1>1, <1>3 DEF Resolver
<1>5. resolver' = [resolver EXCEPT ![g] = r]
  BY Zenon, <1>2, <1>3
<1>6. r.names \cap Literal \subseteq r.ips /\ r.ips = Resolved(r.names, r.known)
  BY Zenon, <1>2, <1>4 DEF RemotesInv, Published
<1>7. ~Changed(g)
  BY Zenon, <1>2 DEF Changed
<1> QED
  BY Zenon, <1>2, <1>4, <1>5, <1>6, <1>7, TurnKeeps

\* The callback marks the list.
LEMMA onUpdateKeeps ==
  ASSUME RemotesInv, NEW g \in 1..Len(resolver), onUpdate(g)
  PROVE  RemotesInv'
<1>1. /\ DOMAIN rl' = Fields /\ rl'.addrs = rl.addrs /\ rl'.hr = rl.hr
      /\ rl'.shouldRebuild = TRUE /\ UNCHANGED <<reloading, static, unblocked>>
  BY Zenon DEF RemotesInv, RemoteListTypeOK, onUpdate, Fields
<1>2. PICK r : r = [resolver[g] EXCEPT !.pc = "wait"]
  BY Zenon
<1>3. /\ r \in Resolver /\ r.names = resolver[g].names
      /\ r.known = resolver[g].known /\ r.ips = resolver[g].ips
  <2>1. resolver[g] \in Resolver
    BY DEF RemotesInv, RemoteListTypeOK
  <2> QED
    BY Zenon, <1>2, <2>1 DEF Resolver
<1>4. resolver' = [resolver EXCEPT ![g] = r] /\ resolver[g].pc = "onUpdate"
  BY Zenon, <1>2 DEF onUpdate
<1>5. /\ resolver' \in Seq(Resolver) /\ Len(resolver') = Len(resolver)
      /\ resolver'[g] = r
      /\ \A k \in 1..Len(resolver) : k # g => resolver'[k] = resolver[k]
  BY <1>3, <1>4 DEF RemotesInv, RemoteListTypeOK
<1>6. RemoteListTypeOK'
  BY Zenon, <1>1, <1>5 DEF RemotesInv, RemoteListTypeOK, Fields
<1>7. StaticResolved'
  <2>1. rl.hr # 0 => rl.hr \in 1..Len(resolver)
    BY DEF RemotesInv, RemoteListTypeOK
  <2> QED
    BY Zenon, <1>1, <1>3, <1>5, <2>1 DEF RemotesInv, StaticResolved
<1>8. Published'
  BY <1>3, <1>4, <1>5 DEF RemotesInv, Published
<1>9. Built' /\ LiteralKept'
  BY Zenon, <1>1 DEF Built, Quiet, LiteralKept
<1> QED
  BY Zenon, <1>6, <1>7, <1>8, <1>9 DEF RemotesInv

-----------------------------------------------------------------------------
(* Reloads.                                                                *)

\* Cancel changes nothing but a flag.
LEMMA CancelFacts ==
  ASSUME RemotesInv, NEW rs, rs = Cancel(rl.hr, resolver)
  PROVE  /\ rs \in Seq(Resolver) /\ Len(rs) = Len(resolver)
         /\ \A g \in 1..Len(resolver) :
              /\ rs[g].names = resolver[g].names /\ rs[g].known = resolver[g].known
              /\ rs[g].ips = resolver[g].ips /\ rs[g].pc = resolver[g].pc
<1>1. resolver \in Seq(Resolver) /\ rl.hr \in 0..Len(resolver)
  BY Zenon DEF RemotesInv, RemoteListTypeOK
<1>2. CASE rl.hr = 0
  BY Zenon, <1>1, <1>2 DEF Cancel
<1>3. CASE rl.hr # 0
  <2>1. rl.hr \in 1..Len(resolver) /\ resolver[rl.hr] \in Resolver
    BY <1>1, <1>3
  <2>2. PICK r : r = [resolver[rl.hr] EXCEPT !.cancelled = TRUE]
    BY Zenon
  <2>3. /\ r \in Resolver /\ r.names = resolver[rl.hr].names
        /\ r.known = resolver[rl.hr].known
        /\ r.ips = resolver[rl.hr].ips /\ r.pc = resolver[rl.hr].pc
    BY Zenon, <2>1, <2>2 DEF Resolver
  <2>4. rs = [resolver EXCEPT ![rl.hr] = r]
    BY Zenon, <1>3, <2>2 DEF Cancel
  <2> QED
    BY <1>1, <2>1, <2>3, <2>4
<1> QED
  BY Zenon, <1>2, <1>3

\* ResetForOwner, whether or not the host was static.
LEMMA ResetKeeps ==
  ASSUME RemotesInv, NEW listed \in SUBSET (Literal \cup Hostname), NEW same \in BOOLEAN,
         ResetForOwner(listed, same)
  PROVE  RemotesInv'
<1>1. reloading' \in Reload /\ UNCHANGED <<static, unblocked>>
  BY Zenon DEF ResetForOwner, Reload
<1>2. CASE static = {}
  <2>1. UNCHANGED <<rl, resolver>>
    BY Zenon, <1>2 DEF ResetForOwner
  <2> QED
    BY <1>1, <2>1 DEF RemotesInv, RemoteListTypeOK, StaticResolved, Published, Built,
                      Quiet, Changed, Collected, CollectedRelays, GetAddrs, LiteralKept
<1>3. CASE static # {}
  <2>1. /\ DOMAIN rl' = Fields /\ rl'.addrs = rl.addrs /\ rl'.hr = rl.hr
        /\ rl'.shouldRebuild = TRUE /\ resolver' = Cancel(rl.hr, resolver)
    BY Zenon, <1>3 DEF RemotesInv, RemoteListTypeOK, ResetForOwner, Fields
  <2>2. /\ resolver' \in Seq(Resolver) /\ Len(resolver') = Len(resolver)
        /\ \A g \in 1..Len(resolver) :
             /\ resolver'[g].names = resolver[g].names
             /\ resolver'[g].known = resolver[g].known
             /\ resolver'[g].ips = resolver[g].ips /\ resolver'[g].pc = resolver[g].pc
    BY Zenon, <2>1, CancelFacts
  <2>3. RemoteListTypeOK'
    BY Zenon, <1>1, <2>1, <2>2 DEF RemotesInv, RemoteListTypeOK, Fields
  <2>4. StaticResolved'
    <3>1. rl.hr # 0 => rl.hr \in 1..Len(resolver)
      BY DEF RemotesInv, RemoteListTypeOK
    <3> QED
      BY Zenon, <1>1, <2>1, <2>2, <3>1 DEF RemotesInv, StaticResolved
  <2>5. Published'
    BY Zenon, <2>2 DEF RemotesInv, Published
  <2>6. Built' /\ LiteralKept'
    BY Zenon, <2>1 DEF Built, Quiet, LiteralKept
  <2> QED
    BY Zenon, <2>3, <2>4, <2>5, <2>6 DEF RemotesInv
<1> QED
  BY Zenon, <1>2, <1>3

\* The host is no longer static.
LEMMA ClearKeeps == RemotesInv /\ ClearHostnameResults => RemotesInv'
<1> SUFFICES ASSUME RemotesInv, ClearHostnameResults PROVE RemotesInv'
  OBVIOUS
<1>1. /\ DOMAIN rl' = Fields /\ rl'.addrs = rl.addrs /\ rl'.hr = 0
      /\ rl'.shouldRebuild = TRUE /\ resolver' = Cancel(rl.hr, resolver)
      /\ static' = {} /\ reloading' = [pc |-> "idle"]
  BY Zenon DEF RemotesInv, RemoteListTypeOK, ClearHostnameResults, Fields
<1>2. /\ resolver' \in Seq(Resolver) /\ Len(resolver') = Len(resolver)
      /\ \A g \in 1..Len(resolver) :
           /\ resolver'[g].names = resolver[g].names
           /\ resolver'[g].known = resolver[g].known
           /\ resolver'[g].ips = resolver[g].ips /\ resolver'[g].pc = resolver[g].pc
  BY <1>1, CancelFacts
<1>3. RemoteListTypeOK'
  <2>1. 0 \in 0..Len(resolver')
    BY <1>2
  <2>2. [pc |-> "idle"] \in Reload
    BY Zenon DEF Reload
  <2> QED
    BY Zenon, <1>1, <1>2, <2>1, <2>2 DEF RemotesInv, RemoteListTypeOK, Fields
<1>4. StaticResolved' /\ Published'
  BY <1>1, <1>2 DEF RemotesInv, Published, StaticResolved
<1>5. Built' /\ LiteralKept'
  BY Zenon, <1>1 DEF Built, Quiet, LiteralKept
<1> QED
  BY Zenon, <1>3, <1>4, <1>5 DEF RemotesInv

\* A resolver that replaces another starts with addresses the other had
\* published, literals apart.
LEMMA NewResolver ==
  ASSUME RemotesInv, NEW listed \in SUBSET (Literal \cup Hostname), NEW same \in BOOLEAN,
         NEW r, r = NewHostnameResults(listed, rl.hr, same)
  PROVE  /\ r \in Resolver /\ r.names = listed /\ r.pc \in {"done", "resolve"}
         /\ r.ips = Resolved(r.names, r.known)
         /\ Quiet => r.ips \subseteq (listed \cap Literal) \cup GetAddrs(rl.hr)
<1> DEFINE known == [n \in Hostname |->
      IF n \in listed /\ rl.hr # 0 /\ same /\ n \in resolver[rl.hr].names
      THEN resolver[rl.hr].known[n] ELSE {}]
<1>1. r = [names |-> listed, known |-> known, ips |-> Resolved(listed, known),
           cancelled |-> FALSE,
           pc |-> IF listed \cap Hostname = {} THEN "done" ELSE "resolve"]
  BY Zenon DEF NewHostnameResults
<1>2. rl.hr # 0 => rl.hr \in 1..Len(resolver) /\ resolver[rl.hr] \in Resolver
  BY DEF RemotesInv, RemoteListTypeOK
<1>3. known \in [Hostname -> SUBSET Remote]
  BY Zenon, <1>2 DEF Resolver
<1>4. Resolved(listed, known) \subseteq Remote
  BY <1>3, RemoteAssumption DEF Resolved
<1>5. ASSUME Quiet
      PROVE  Resolved(listed, known) \subseteq (listed \cap Literal) \cup GetAddrs(rl.hr)
  <2>1. CASE rl.hr = 0
    BY Zenon, <2>1 DEF Resolved
  <2>2. CASE rl.hr # 0
    <3>1. resolver[rl.hr].ips = Resolved(resolver[rl.hr].names, resolver[rl.hr].known)
      BY Zenon, <1>2, <1>5, <2>2 DEF RemotesInv, Published, Quiet, Changed
    <3>2. \A n \in Hostname : known[n] \subseteq resolver[rl.hr].known[n]
      BY Zenon, <2>2
    <3>3. \A n \in Hostname : resolver[rl.hr].known[n] \subseteq resolver[rl.hr].ips
      BY Zenon, <3>1 DEF Resolved
    <3> HIDE DEF known
    <3>4. \A n \in Hostname : known[n] \subseteq GetAddrs(rl.hr)
      BY Zenon, <2>2, <3>2, <3>3 DEF GetAddrs
    <3> QED
      BY Zenon, <3>4 DEF Resolved
  <2> QED
    BY Zenon, <2>1, <2>2
<1> HIDE DEF known
<1> QED
  BY <1>1, <1>3, <1>4, <1>5 DEF Resolver

\* The new resolver replaces the old one, and knows its literals at once.
LEMMA addStaticKeeps == RemotesInv /\ addStaticRemotes => RemotesInv'
<1> SUFFICES ASSUME RemotesInv, addStaticRemotes PROVE RemotesInv'
  OBVIOUS
<1> DEFINE listed == reloading.entry
           literals == (listed \cap Literal) \ DeniedRemote
<1>1. listed \in SUBSET (Literal \cup Hostname) /\ listed # {} /\ reloading.sameNetwork \in BOOLEAN
  BY Zenon DEF RemotesInv, RemoteListTypeOK, Reload, addStaticRemotes
<1>2. PICK n : n = Len(resolver) + 1
  OBVIOUS
<1>3. resolver \in Seq(Resolver) /\ Len(resolver) \in Nat /\ n \in Nat /\ n # 0
      /\ n \notin 1..Len(resolver) /\ rl.hr \in 0..Len(resolver)
  BY <1>2 DEF RemotesInv, RemoteListTypeOK
<1>4. /\ DOMAIN rl' = Fields /\ rl'.addrs = rl.addrs /\ rl'.hr = n
      /\ rl'.bad = rl.bad /\ rl'.relays = rl.relays
      /\ rl'.shouldRebuild \in BOOLEAN
      /\ ~rl'.shouldRebuild => literals = {} /\ ~rl.shouldRebuild /\ rl'.cache = rl.cache
  BY Zenon, <1>2 DEF RemotesInv, RemoteListTypeOK, addStaticRemotes, Fields
<1>5. static' = listed /\ reloading' = [pc |-> "idle"] /\ unblocked' = unblocked
  BY Zenon DEF addStaticRemotes
<1>6. PICK r : r = NewHostnameResults(listed, rl.hr, reloading.sameNetwork)
  OBVIOUS
<1>7. PICK rs : rs = Cancel(rl.hr, resolver)
  OBVIOUS
<1>8. /\ rs \in Seq(Resolver) /\ Len(rs) = Len(resolver)
      /\ \A g \in 1..Len(resolver) :
           /\ rs[g].names = resolver[g].names /\ rs[g].known = resolver[g].known
           /\ rs[g].ips = resolver[g].ips /\ rs[g].pc = resolver[g].pc
  BY Zenon, <1>7, CancelFacts
<1>9. /\ r \in Resolver /\ r.names = listed /\ r.pc \in {"done", "resolve"}
      /\ r.ips = Resolved(r.names, r.known)
      /\ Quiet => r.ips \subseteq (listed \cap Literal) \cup GetAddrs(rl.hr)
  BY <1>1, <1>6, NewResolver
<1>10. resolver' = Append(rs, r)
  BY Zenon, <1>6, <1>7 DEF addStaticRemotes
<1>11. /\ resolver' \in Seq(Resolver) /\ Len(resolver') = n /\ resolver'[n] = r
       /\ \A g \in 1..Len(resolver) : resolver'[g] = rs[g]
       /\ \A g \in 1..n : g \in 1..Len(resolver) \/ g = n
       /\ \A g \in 1..Len(resolver) : g \in 1..n
  BY <1>2, <1>3, <1>8, <1>9, <1>10
<1>12. RemoteListTypeOK'
  BY <1>1, <1>3, <1>4, <1>5, <1>11 DEF RemotesInv, RemoteListTypeOK, Fields, Reload
<1>13. StaticResolved'
  BY Zenon, <1>3, <1>4, <1>5, <1>9, <1>11 DEF StaticResolved
<1>14. Published'
  <2> SUFFICES ASSUME NEW g \in 1..n
               PROVE  /\ resolver'[g].names \cap Literal \subseteq resolver'[g].ips
                      /\ resolver'[g].pc # "publish" =>
                           resolver'[g].ips = Resolved(resolver'[g].names, resolver'[g].known)
    BY Zenon, <1>11 DEF Published
  <2>1. CASE g = n
    BY <2>1, <1>9, <1>11 DEF Resolved
  <2>2. CASE g \in 1..Len(resolver)
    BY <2>2, <1>8, <1>11 DEF RemotesInv, Published
  <2> QED
    BY Zenon, <2>1, <2>2, <1>11
<1>15. Quiet' => Quiet
  <2>1. \A g \in 1..Len(resolver) : Changed(g)' <=> Changed(g)
    BY Zenon, <1>8, <1>11 DEF Changed
  <2> QED
    BY Zenon, <1>4, <1>11, <2>1 DEF Quiet
<1>16. Built'
  <2>1. ~rl'.shouldRebuild => CollectedRelays' = CollectedRelays
    BY Zenon, <1>4 DEF CollectedRelays
  <2>2. Quiet' => Collected' \subseteq Collected
    <3> SUFFICES ASSUME Quiet' PROVE Collected' \subseteq Collected
      OBVIOUS
    <3>1. ~rl'.shouldRebuild
      BY Zenon DEF Quiet
    <3>2. listed \cap Literal \subseteq DeniedRemote /\ rl'.cache = rl.cache
      BY Zenon, <1>4, <3>1
    <3>3. r.ips \ DeniedRemote \subseteq GetAddrs(rl.hr) \ DeniedRemote
      BY Zenon, <1>9, <1>15, <3>2
    <3>4. GetAddrs(rl.hr)' = r.ips
      BY Zenon, <1>3, <1>4, <1>11 DEF GetAddrs
    <3> QED
      BY Zenon, <1>4, <3>2, <3>3, <3>4 DEF Collected
  <2> QED
    BY Zenon, <1>4, <1>5, <1>15, <2>1, <2>2 DEF RemotesInv, Built
<1>17. LiteralKept'
  BY Zenon, <1>4, <1>5 DEF LiteralKept
<1> QED
  BY Zenon, <1>12, <1>13, <1>14, <1>16, <1>17 DEF RemotesInv

-----------------------------------------------------------------------------

\* Every step of list, resolvers and reload keeps the invariant.
LEMMA RemotesNext == RemotesInv /\ [RemoteListNext]_rlVars => RemotesInv'
<1> SUFFICES ASSUME RemotesInv, [RemoteListNext]_rlVars PROVE RemotesInv'
  OBVIOUS
<1>1. CASE UNCHANGED rlVars \/ StaticLoadFails
  <2>1. UNCHANGED <<rl, resolver, static, unblocked>> /\ reloading' \in Reload
    BY <1>1 DEF rlVars, StaticLoadFails, Reload, RemotesInv, RemoteListTypeOK
  <2> QED
    BY <2>1 DEF RemotesInv, RemoteListTypeOK, StaticResolved, Published, Built,
                Quiet, Changed, Collected, CollectedRelays, GetAddrs, LiteralKept
<1>2. CASE \E r \in Heard : LearnRemote(r) \/ BlockRemote(r)
  <2>1. /\ DOMAIN rl' = Fields /\ rl'.shouldRebuild = TRUE /\ rl'.hr = rl.hr
        /\ rl'.addrs = rl.addrs /\ UNCHANGED <<resolver, reloading, static>>
    BY Zenon, <1>2 DEF LearnRemote, BlockRemote, SetCache, RemotesInv, RemoteListTypeOK, Fields
  <2> QED
    BY Zenon, <2>1, MarkKeeps
<1>3. CASE \/ \E o \in Reporter, to \in Reports, v \in SUBSET RelayAddr : Reported(o, to, v)
           \/ \E f \in Family, to \in Reports : Calculated(f, to)
  <2>1. PICK cache : /\ SetCache(cache) /\ UNCHANGED <<resolver, reloading, static>>
    BY Zenon, <1>3 DEF Reported, Calculated
  <2>2. /\ DOMAIN rl' = Fields /\ rl'.shouldRebuild = TRUE /\ rl'.hr = rl.hr
        /\ rl'.addrs = rl.addrs
    BY Zenon, <2>1 DEF SetCache, RemotesInv, RemoteListTypeOK, Fields
  <2> QED
    BY Zenon, <2>1, <2>2, MarkKeeps
<1>4. CASE \E g \in 1..Len(resolver) :
             \/ \E answer \in [Hostname -> Lookup] : Resolve(g, answer)
             \/ Publish(g) \/ onUpdate(g) \/ ResolveAgain(g) \/ ResolverEnds(g)
  BY Zenon, <1>4, ResolveKeeps, PublishKeeps, onUpdateKeeps, WaitEnds
<1>5. CASE \E listed \in SUBSET (Literal \cup Hostname), same \in BOOLEAN :
             ResetForOwner(listed, same)
  BY Zenon, <1>5, ResetKeeps
<1> QED
  BY Zenon, <1>1, <1>2, <1>3, <1>4, <1>5, RebuildKeeps, RefreshKeeps, addStaticKeeps, ClearKeeps
  DEF RemoteListNext

\* A new list has nothing to miss.
LEMMA RemotesInit == RemoteListInit => RemotesInv
<1> SUFFICES ASSUME RemoteListInit PROVE RemotesInv
  OBVIOUS
<1>1. RemoteListTypeOK /\ StaticResolved /\ Published /\ LiteralKept
  BY DEF RemoteListInit, RemoteListTypeOK, Reload, StaticResolved, Published, LiteralKept
<1>2. CollectedRelays = {} /\ Collected = {}
  BY DEF RemoteListInit, CollectedRelays, Collected, NoCache, CachedAddrs, GetAddrs, Range
<1> QED
  BY Zenon, <1>1, <1>2 DEF RemotesInv, Built, RemoteListInit

\* The remotes of a host, for every set of addresses, names and reporters.
THEOREM RemotesComplete == RemoteListSpec => []RemotesKept
<1>1. RemotesInv => NothingMissing
  BY Zenon DEF RemotesInv, Built, NothingMissing, Quiet, Changed, Reporting
<1>2. RemotesInv => RemotesKept
  BY Zenon, <1>1 DEF RemotesInv, RemotesKept
<1>3. RemoteListSpec => []RemotesInv
  BY RemotesInit, RemotesNext, PTL DEF RemoteListSpec
<1> QED
  BY <1>2, <1>3, PTL

-----------------------------------------------------------------------------
(* Hole punching.                                                          *)

\* The types of the scheduler's state.
PunchTyped ==
  /\ items \in [Item -> [val : Nat, timer : {"pooled", "armed", "fired", "cleared"}]]
  /\ queue \in Seq(Nat)
  /\ scheduled \in Seq({PunchTo(t) : t \in Target \cup {Peer}})
  /\ sent \in Seq(Nat)
  /\ notified \in Seq(Target \cup {Peer})

Armed(i) == items[i].timer = "armed"
Jobs == 1 .. Len(scheduled)

\* What is armed, queued or sent was scheduled.
InRange ==
  /\ \A i \in Item : Armed(i) => items[i].val \in Jobs
  /\ \A q \in 1 .. Len(queue) : queue[q] \in Jobs
  /\ \A s \in 1 .. Len(sent) : sent[s] \in Jobs

\* No job is in two places.
OnePlace ==
  /\ \A i, k \in Item : Armed(i) /\ Armed(k) /\ items[i].val = items[k].val => i = k
  /\ \A q, r \in 1 .. Len(queue) : queue[q] = queue[r] => q = r
  /\ \A s, r \in 1 .. Len(sent) : sent[s] = sent[r] => s = r
  /\ \A i \in Item, q \in 1 .. Len(queue) : Armed(i) => items[i].val # queue[q]
  /\ \A i \in Item, s \in 1 .. Len(sent) : Armed(i) => items[i].val # sent[s]
  /\ \A q \in 1 .. Len(queue), s \in 1 .. Len(sent) : queue[q] # sent[s]

\* Until the node stops every job is in some place.
SomePlace ==
  \A j \in Jobs :
    \/ punchDone
    \/ \E i \in Item : Armed(i) /\ items[i].val = j
    \/ \E q \in 1 .. Len(queue) : queue[q] = j
    \/ \E s \in 1 .. Len(sent) : sent[s] = j

JobsInv == PunchTyped /\ InRange /\ OnePlace /\ SomePlace

\* A scheduler that only fires, clears or pools items that are not armed, or
\* changes nothing but the handler, keeps the invariant.
LEMMA JobsStay ==
  ASSUME JobsInv, PunchTyped', UNCHANGED <<queue, scheduled, sent>>,
         punchDone => punchDone',
         \A i \in Item : /\ Armed(i)' <=> Armed(i)
                         /\ Armed(i) => items'[i].val = items[i].val
  PROVE  JobsInv'
<1>1. InRange'
  BY Zenon DEF JobsInv, InRange, Jobs, Armed
<1>2. OnePlace'
  BY DEF JobsInv, OnePlace, Armed
<1>3. SomePlace'
  BY ZenonT(60) DEF JobsInv, SomePlace, Jobs, Armed
<1> QED
  BY Zenon, <1>1, <1>2, <1>3 DEF JobsInv

\* Schedule arms a free item with the next position.
LEMMA ScheduleKeeps ==
  ASSUME JobsInv, NEW t \in Target \cup {Peer}, Schedule(PunchTo(t)),
         notified' \in Seq(Target \cup {Peer}),
         UNCHANGED <<queue, sent, punchDone>>
  PROVE  JobsInv'
<1> DEFINE n == Len(scheduled) + 1
<1>1. PICK i \in Item : /\ items[i].timer = "pooled"
                        /\ scheduled' = Append(scheduled, PunchTo(t))
                        /\ items' = [items EXCEPT ![i] = [val |-> n, timer |-> "armed"]]
  BY Zenon DEF Schedule, Free
<1>2. scheduled \in Seq({PunchTo(u) : u \in Target \cup {Peer}}) /\ Len(scheduled) \in Nat
  BY DEF JobsInv, PunchTyped
<1>3. scheduled' \in Seq({PunchTo(u) : u \in Target \cup {Peer}}) /\ Len(scheduled') = n
  BY <1>1, <1>2
<1>4. PunchTyped'
  BY <1>1, <1>2, <1>3 DEF JobsInv, PunchTyped
<1>5. /\ items'[i] = [val |-> n, timer |-> "armed"]
      /\ \A k \in Item : k # i => items'[k] = items[k]
      /\ ~Armed(i)
  BY Zenon, <1>1 DEF JobsInv, PunchTyped, Armed
<1>6. n \in Jobs' /\ n \notin Jobs /\ Jobs \subseteq Jobs'
      /\ \A j \in Jobs' : j \in Jobs \/ j = n
  BY <1>2, <1>3 DEF Jobs
<1>7. InRange'
  BY <1>5, <1>6 DEF JobsInv, InRange, Armed
<1>8. OnePlace'
  <2>1. \A k \in Item : Armed(k) => items[k].val # n
    BY Zenon, <1>6 DEF JobsInv, InRange
  <2>2. \A q \in 1 .. Len(queue) : queue[q] # n
    BY Zenon, <1>6 DEF JobsInv, InRange
  <2>3. \A s \in 1 .. Len(sent) : sent[s] # n
    BY Zenon, <1>6 DEF JobsInv, InRange
  <2> QED
    BY <1>5, <2>1, <2>2, <2>3 DEF JobsInv, OnePlace, Armed
<1>9. SomePlace'
  <2> SUFFICES ASSUME NEW j \in Jobs', ~punchDone
               PROVE  \/ \E k \in Item : Armed(k)' /\ items'[k].val = j
                      \/ \E q \in 1 .. Len(queue) : queue[q] = j
                      \/ \E s \in 1 .. Len(sent) : sent[s] = j
    BY Zenon DEF SomePlace
  <2>1. CASE j = n
    <3> HIDE DEF n
    <3>1. items'[i].timer = "armed" /\ items'[i].val = n
      BY <1>5
    <3> QED BY Zenon, <2>1, <3>1 DEF Armed
  <2>2. CASE j \in Jobs
    <3>1. \/ \E k \in Item : Armed(k) /\ items[k].val = j
          \/ \E q \in 1 .. Len(queue) : queue[q] = j
          \/ \E s \in 1 .. Len(sent) : sent[s] = j
      BY Zenon, <2>2 DEF JobsInv, SomePlace
    <3>2. ASSUME NEW k \in Item, Armed(k) PROVE items'[k] = items[k]
      BY Zenon, <1>5, <3>2
    <3> QED BY Zenon, <3>1, <3>2 DEF Armed
  <2> QED BY Zenon, <1>6, <2>1, <2>2
<1> QED
  BY Zenon, <1>4, <1>7, <1>8, <1>9 DEF JobsInv

\* One turn of the notification handler's loop.
LEMMA scheduleNextKeeps == JobsInv /\ scheduleNext => JobsInv'
<1> SUFFICES ASSUME JobsInv, scheduleNext PROVE JobsInv'
  OBVIOUS
<1>1. Head(notified) \in Target \cup {Peer} /\ notified' \in Seq(Target \cup {Peer})
  BY DEF JobsInv, PunchTyped, scheduleNext
<1>2. CASE Schedule(PunchTo(Head(notified)))
  BY Zenon, <1>1, <1>2, ScheduleKeeps DEF scheduleNext
<1>3. CASE UNCHANGED <<items, scheduled>>
  <2>1. PunchTyped'
    BY Zenon, <1>1, <1>3 DEF JobsInv, PunchTyped, scheduleNext
  <2> QED
    BY Zenon, <1>3, <2>1, JobsStay DEF scheduleNext, Armed
<1> QED
  BY Zenon, <1>2, <1>3 DEF scheduleNext

\* A timer that fires moves its job to the queue, or drops it when the node
\* stops.
LEMMA FireDeliversKeeps ==
  ASSUME JobsInv, NEW i \in Item, FireDelivers(i)
  PROVE  JobsInv'
<1>1. /\ items[i].timer = "armed"
      /\ items' = [items EXCEPT ![i].timer = "fired"]
      /\ UNCHANGED <<scheduled, sent, notified, punchDone>>
  BY Zenon DEF FireDelivers
<1>2. /\ ~Armed(i)'
      /\ \A k \in Item : k # i => items'[k] = items[k]
  BY Zenon, <1>1 DEF JobsInv, PunchTyped, Armed
<1>3. Armed(i) /\ items[i].val \in Nat
  BY Zenon, <1>1 DEF Armed, JobsInv, PunchTyped
<1>4. queue' \in Seq(Nat)
  <2>1. queue \in Seq(Nat)
    BY Zenon DEF JobsInv, PunchTyped
  <2>2. queue' = Append(queue, items[i].val) \/ queue' = queue
    BY Zenon DEF FireDelivers
  <2> QED
    BY SMTT(30), <1>3, <2>1, <2>2
<1>5. PunchTyped'
  BY Zenon, <1>1, <1>4 DEF JobsInv, PunchTyped
<1>6. CASE queue' = Append(queue, items[i].val)
  <2>1. /\ queue \in Seq(Nat) /\ Len(queue) \in Nat
        /\ Len(queue') = Len(queue) + 1
        /\ queue'[Len(queue) + 1] = items[i].val
        /\ \A q \in 1 .. Len(queue) : queue'[q] = queue[q]
    BY <1>3, <1>6 DEF JobsInv, PunchTyped
  <2>2. \A q \in 1 .. Len(queue') : q \in 1 .. Len(queue) \/ q = Len(queue) + 1
    BY <2>1
  <2>3. InRange'
    BY Zenon, <1>1, <1>2, <1>3, <2>1, <2>2 DEF JobsInv, InRange, Armed, Jobs
  <2>4. OnePlace'
    <3>1. \A k, l \in Item : Armed(k)' /\ Armed(l)' /\ items'[k].val = items'[l].val => k = l
      BY ZenonT(60), <1>2 DEF JobsInv, OnePlace, Armed
    <3>2. \A q \in 1 .. Len(queue) : queue[q] # items[i].val
      BY Zenon, <1>3 DEF JobsInv, OnePlace
    <3>3. \A q, r \in 1 .. Len(queue') : queue'[q] = queue'[r] => q = r
      <4> SUFFICES ASSUME NEW q \in 1 .. Len(queue'), NEW r \in 1 .. Len(queue'),
                          queue'[q] = queue'[r]
                   PROVE  q = r
        BY Zenon
      <4>1. CASE q \in 1 .. Len(queue) /\ r \in 1 .. Len(queue)
        BY Zenon, <2>1, <4>1 DEF JobsInv, OnePlace
      <4>2. CASE q \in 1 .. Len(queue) /\ r = Len(queue) + 1
        BY Zenon, <2>1, <3>2, <4>2
      <4>3. CASE q = Len(queue) + 1 /\ r \in 1 .. Len(queue)
        BY Zenon, <2>1, <3>2, <4>3
      <4> QED BY Zenon, <2>2, <4>1, <4>2, <4>3
    <3>4. \A s, r \in 1 .. Len(sent') : sent'[s] = sent'[r] => s = r
      BY Zenon, <1>1 DEF JobsInv, OnePlace
    <3>5. \A k \in Item, q \in 1 .. Len(queue') : Armed(k)' => items'[k].val # queue'[q]
      <4> SUFFICES ASSUME NEW k \in Item, NEW q \in 1 .. Len(queue'), Armed(k)'
                   PROVE  items'[k].val # queue'[q]
        BY Zenon
      <4>1. k # i /\ items'[k] = items[k] /\ Armed(k)
        BY Zenon, <1>2 DEF Armed
      <4>2. CASE q \in 1 .. Len(queue)
        BY ZenonT(60), <2>1, <4>1, <4>2 DEF JobsInv, OnePlace
      <4>3. CASE q = Len(queue) + 1
        BY Zenon, <1>3, <2>1, <4>1, <4>3 DEF JobsInv, OnePlace
      <4> QED BY Zenon, <2>2, <4>2, <4>3
    <3>6. \A k \in Item, s \in 1 .. Len(sent') : Armed(k)' => items'[k].val # sent'[s]
      BY <1>1, <1>2 DEF JobsInv, OnePlace, Armed
    <3>7. \A q \in 1 .. Len(queue'), s \in 1 .. Len(sent') : queue'[q] # sent'[s]
      BY <1>1, <1>3, <2>1, <2>2 DEF JobsInv, OnePlace
    <3> QED
      BY Zenon, <3>1, <3>3, <3>4, <3>5, <3>6, <3>7 DEF OnePlace
  <2>5. SomePlace'
    <3> SUFFICES ASSUME NEW j \in Jobs, ~punchDone
                 PROVE  \/ \E k \in Item : Armed(k)' /\ items'[k].val = j
                        \/ \E q \in 1 .. Len(queue') : queue'[q] = j
                        \/ \E s \in 1 .. Len(sent) : sent[s] = j
      BY Zenon, <1>1 DEF SomePlace, Jobs, Armed
    <3>1. CASE \E k \in Item : Armed(k) /\ items[k].val = j
      <4>1. PICK k \in Item : Armed(k) /\ items[k].val = j
        BY Zenon, <3>1
      <4>2. CASE k = i
        BY <4>1, <4>2, <2>1
      <4>3. CASE k # i
        BY Zenon, <4>1, <4>3, <1>2 DEF Armed
      <4> QED
        BY Zenon, <4>2, <4>3
    <3>2. CASE \E q \in 1 .. Len(queue) : queue[q] = j
      BY <3>2, <2>1
    <3> QED
      BY Zenon, <3>1, <3>2 DEF JobsInv, SomePlace
  <2> QED
    BY Zenon, <1>5, <2>3, <2>4, <2>5 DEF JobsInv
<1>7. CASE punchDone /\ UNCHANGED queue
  <2>1. InRange'
    BY Zenon, <1>1, <1>2, <1>7 DEF JobsInv, InRange, Armed, Jobs
  <2>2. OnePlace'
    BY <1>1, <1>2, <1>7 DEF JobsInv, OnePlace, Armed
  <2>3. SomePlace'
    BY Zenon, <1>1, <1>7 DEF SomePlace
  <2> QED
    BY Zenon, <1>5, <2>1, <2>2, <2>3 DEF JobsInv
<1> QED
  BY Zenon, <1>6, <1>7 DEF FireDelivers

\* The worker takes the first job of the queue.
LEMMA RunKeeps == JobsInv /\ Run => JobsInv'
<1> SUFFICES ASSUME JobsInv, Run PROVE JobsInv'
  OBVIOUS
<1>1. /\ queue \in Seq(Nat) /\ sent \in Seq(Nat) /\ queue # <<>>
      /\ sent' = Append(sent, Head(queue)) /\ queue' = Tail(queue)
      /\ UNCHANGED <<items, scheduled, notified, punchDone>>
  BY Zenon DEF Run, JobsInv, PunchTyped
<1>2. /\ Len(queue) \in Nat /\ Len(queue) > 0 /\ Head(queue) = queue[1]
      /\ Len(queue') = Len(queue) - 1
      /\ \A q \in 1 .. Len(queue') : queue'[q] = queue[q + 1]
      /\ queue' \in Seq(Nat) /\ queue[1] \in Nat
  BY <1>1
<1>3. /\ Len(sent) \in Nat /\ Len(sent') = Len(sent) + 1
      /\ sent'[Len(sent) + 1] = queue[1]
      /\ \A s \in 1 .. Len(sent) : sent'[s] = sent[s]
      /\ sent' \in Seq(Nat)
  BY <1>1, <1>2
<1>4. /\ \A s \in 1 .. Len(sent') : s \in 1 .. Len(sent) \/ s = Len(sent) + 1
      /\ \A q \in 1 .. Len(queue') : q + 1 \in 1 .. Len(queue) /\ q + 1 # 1
      /\ 1 \in 1 .. Len(queue)
  BY <1>2, <1>3
<1>5. PunchTyped'
  BY Zenon, <1>1, <1>2, <1>3 DEF JobsInv, PunchTyped
<1>6. InRange'
  BY Zenon, <1>1, <1>2, <1>3, <1>4 DEF JobsInv, InRange, Armed, Jobs
<1>7. OnePlace'
  <2>1. \A i, k \in Item : Armed(i)' /\ Armed(k)' /\ items'[i].val = items'[k].val => i = k
    BY Zenon, <1>1 DEF JobsInv, OnePlace, Armed
  <2>2. \A q, r \in 1 .. Len(queue') : queue'[q] = queue'[r] => q = r
    <3> SUFFICES ASSUME NEW q \in 1 .. Len(queue'), NEW r \in 1 .. Len(queue'),
                        queue'[q] = queue'[r]
                 PROVE  q = r
      OBVIOUS
    <3>1. /\ q + 1 \in 1 .. Len(queue) /\ r + 1 \in 1 .. Len(queue)
          /\ queue[q + 1] = queue[r + 1]
      BY Zenon, <1>2, <1>4
    <3>2. \A x, y \in 1 .. Len(queue) : queue[x] = queue[y] => x = y
      BY Zenon DEF JobsInv, OnePlace
    <3>3. q + 1 = r + 1
      BY Zenon, <3>1, <3>2
    <3> QED
      BY <3>3, <1>2
  <2>3. \A s, r \in 1 .. Len(sent') : sent'[s] = sent'[r] => s = r
    <3>1. \A s \in 1 .. Len(sent) : sent[s] # queue[1]
      BY Zenon, <1>4 DEF JobsInv, OnePlace
    <3>2. \A s, r \in 1 .. Len(sent) : sent[s] = sent[r] => s = r
      BY Zenon DEF JobsInv, OnePlace
    <3> QED
      BY Zenon, <1>3, <1>4, <3>1, <3>2
  <2>4. \A i \in Item, q \in 1 .. Len(queue') : Armed(i)' => items'[i].val # queue'[q]
    BY <1>1, <1>2, <1>4 DEF JobsInv, OnePlace, Armed
  <2>5. \A i \in Item, s \in 1 .. Len(sent') : Armed(i)' => items'[i].val # sent'[s]
    BY SMTT(30), <1>1, <1>3, <1>4 DEF JobsInv, OnePlace, Armed
  <2>6. \A q \in 1 .. Len(queue'), s \in 1 .. Len(sent') : queue'[q] # sent'[s]
    <3> SUFFICES ASSUME NEW q \in 1 .. Len(queue'), NEW s \in 1 .. Len(sent')
                 PROVE  queue'[q] # sent'[s]
      OBVIOUS
    <3>0. q + 1 \in 1 .. Len(queue) /\ queue'[q] = queue[q + 1] /\ q + 1 # 1
      BY Zenon, <1>2, <1>4
    <3>1. CASE s = Len(sent) + 1
      <4>1. sent'[s] = queue[1] /\ 1 \in 1 .. Len(queue)
        BY Zenon, <1>3, <1>4, <3>1
      <4> QED
        BY Zenon, <3>0, <4>1 DEF JobsInv, OnePlace
    <3>2. CASE s \in 1 .. Len(sent)
      <4>1. sent'[s] = sent[s]
        BY Zenon, <1>3, <3>2
      <4> QED
        BY Zenon, <3>0, <3>2, <4>1 DEF JobsInv, OnePlace
    <3> QED
      BY Zenon, <3>1, <3>2, <1>4
  <2> QED
    BY Zenon, <2>1, <2>2, <2>3, <2>4, <2>5, <2>6 DEF OnePlace
<1>8. SomePlace'
  <2> SUFFICES ASSUME NEW j \in Jobs, ~punchDone,
                      ~\E i \in Item : Armed(i) /\ items[i].val = j
               PROVE  \/ \E q \in 1 .. Len(queue') : queue'[q] = j
                      \/ \E s \in 1 .. Len(sent') : sent'[s] = j
    BY Zenon, <1>1 DEF SomePlace, Jobs, Armed
  <2>1. CASE \E q \in 1 .. Len(queue) : queue[q] = j
    <3>1. PICK q \in 1 .. Len(queue) : queue[q] = j
      BY Zenon, <2>1
    <3>2. CASE q = 1
      BY <3>1, <3>2, <1>3
    <3>3. CASE q # 1
      <4>1. q - 1 \in 1 .. Len(queue') /\ (q - 1) + 1 = q
        BY <3>3, <1>2
      <4> QED
        BY Zenon, <4>1, <3>1, <1>2
    <3> QED
      BY Zenon, <3>2, <3>3
  <2>2. CASE \E s \in 1 .. Len(sent) : sent[s] = j
    BY <2>2, <1>3
  <2> QED
    BY Zenon, <2>1, <2>2 DEF JobsInv, SomePlace
<1> QED
  BY Zenon, <1>5, <1>6, <1>7, <1>8 DEF JobsInv

\* Every step of the scheduler keeps the invariant.
LEMMA JobsNext == JobsInv /\ [PunchNext]_punchVars => JobsInv'
<1> SUFFICES ASSUME JobsInv, [PunchNext]_punchVars PROVE JobsInv'
  OBVIOUS
<1>1. CASE UNCHANGED punchVars
  <2>1. PunchTyped'
    BY Zenon, <1>1 DEF JobsInv, PunchTyped, punchVars
  <2> QED
    BY Zenon, <1>1, <2>1, JobsStay DEF punchVars, Armed
<1>2. CASE Start \/ reload \/ Cancelled
  <2>1. UNCHANGED <<items, queue, scheduled, sent, notified>> /\ (punchDone => punchDone')
    BY <1>2 DEF Start, reload, Cancelled
  <2>2. PunchTyped'
    BY Zenon, <2>1 DEF JobsInv, PunchTyped
  <2> QED
    BY Zenon, <2>1, <2>2, JobsStay DEF Armed
<1>3. CASE \E n \in 0 .. MaxAddrs : \E addrs \in [1 .. n -> Target] :
             handleHostPunchNotification(addrs)
  <2>1. PICK m \in 0 .. MaxAddrs :
               \E addrs \in [1 .. m -> Target] : handleHostPunchNotification(addrs)
    BY Zenon, <1>3
  <2>2. PICK addrs \in [1 .. m -> Target] : handleHostPunchNotification(addrs)
    BY Zenon, <2>1
  <2>3. addrs \in Seq(Target)
    BY PunchAssumption
  <2>4. notified' \in Seq(Target \cup {Peer})
    BY <2>2, <2>3 DEF handleHostPunchNotification
  <2>5. PunchTyped'
    BY Zenon, <2>2, <2>4 DEF JobsInv, PunchTyped, handleHostPunchNotification
  <2> QED
    BY Zenon, <2>2, <2>5, JobsStay DEF handleHostPunchNotification, Armed
<1>4. CASE \E i \in Item : FireClears(i) \/ FirePuts(i)
  <2>1. PICK i \in Item : FireClears(i) \/ FirePuts(i)
    BY Zenon, <1>4
  <2>2. /\ UNCHANGED <<queue, scheduled, sent, notified, punchDone>>
        /\ items[i].timer # "armed" /\ items'[i].timer # "armed"
        /\ \A k \in Item : k # i => items'[k] = items[k]
    BY Zenon, <2>1 DEF FireClears, FirePuts, JobsInv, PunchTyped
  <2>3. PunchTyped'
    BY <2>1, <2>2 DEF FireClears, FirePuts, JobsInv, PunchTyped, Zero
  <2>4. \A k \in Item : /\ Armed(k)' <=> Armed(k)
                        /\ Armed(k) => items'[k].val = items[k].val
    BY Zenon, <2>2 DEF Armed
  <2> QED
    BY Zenon, <2>2, <2>3, <2>4, JobsStay
<1> QED
  BY Zenon, <1>1, <1>2, <1>3, <1>4, scheduleNextKeeps, RunKeeps, FireDeliversKeeps DEF PunchNext

\* A new scheduler has no job.
LEMMA JobsInit == NewScheduler => JobsInv
<1> SUFFICES ASSUME NewScheduler PROVE JobsInv
  OBVIOUS
<1>1. /\ items = [i \in Item |-> [val |-> Zero, timer |-> "pooled"]]
      /\ queue = <<>> /\ scheduled = <<>> /\ sent = <<>> /\ notified = <<>>
  BY Zenon DEF NewScheduler
<1>2. PunchTyped
  BY <1>1 DEF PunchTyped, Zero
<1>3. InRange /\ OnePlace /\ SomePlace
  BY <1>1 DEF InRange, OnePlace, SomePlace, Jobs, Armed
<1> QED
  BY Zenon, <1>2, <1>3 DEF JobsInv

\* The number of places is the number of kinds of places.
LEMMA PlacesCounted == JobsInv => JobsConserved
<1> SUFFICES ASSUME JobsInv, NEW j \in 1 .. Len(scheduled)
             PROVE  Places(j) = 1 \/ (punchDone /\ Places(j) = 0)
  BY Zenon DEF JobsConserved
<1> DEFINE I == {i \in Item : items[i].timer = "armed" /\ items[i].val = j}
           Q == {q \in 1 .. Len(queue) : queue[q] = j}
           S == {s \in 1 .. Len(sent) : sent[s] = j}
<1>1. /\ I = {} \/ \E x : I = {x}
      /\ Q = {} \/ \E x : Q = {x}
      /\ S = {} \/ \E x : S = {x}
  <2>1. \A x, y \in I : x = y
    BY Zenon DEF JobsInv, OnePlace, Armed
  <2>2. \A x, y \in Q : x = y
    BY Zenon DEF JobsInv, OnePlace
  <2>3. \A x, y \in S : x = y
    BY Zenon DEF JobsInv, OnePlace
  <2>4. I = {} \/ \E x : I = {x}
    BY Zenon, <2>1
  <2>5. Q = {} \/ \E x : Q = {x}
    BY Zenon, <2>2
  <2>6. S = {} \/ \E x : S = {x}
    BY Zenon, <2>3
  <2> QED
    BY Zenon, <2>4, <2>5, <2>6
<1>2. /\ I = {} \/ Q = {}
      /\ I = {} \/ S = {}
      /\ Q = {} \/ S = {}
  BY Zenon DEF JobsInv, OnePlace, Armed
<1>3. punchDone \/ I # {} \/ Q # {} \/ S # {}
  BY Zenon DEF JobsInv, SomePlace, Armed, Jobs
<1>4. /\ Cardinality(I) = IF I = {} THEN 0 ELSE 1
      /\ Cardinality(Q) = IF Q = {} THEN 0 ELSE 1
      /\ Cardinality(S) = IF S = {} THEN 0 ELSE 1
  <2> HIDE DEF I, Q, S
  <2> QED
    BY Zenon, <1>1, FS_EmptySet, FS_Singleton
<1>5. Places(j) = Cardinality(I) + Cardinality(Q) + Cardinality(S)
  BY Zenon DEF Places
<1> HIDE DEF I, Q, S
<1> QED
  BY <1>2, <1>3, <1>4, <1>5

\* Until the node stops every job of the hole punching scheduler is in exactly
\* one place, armed, queued or sent, and never in two (Scheduler.Schedule,
\* schedItem.fire, Scheduler.Run), whatever the numbers of items and addresses
\* and the size of the queue.
THEOREM PunchesConserved == PunchSpec => []JobsConserved
<1>1. PunchSpec => []JobsInv
  BY JobsInit, JobsNext, PTL DEF PunchSpec
<1> QED
  BY <1>1, PlacesCounted, PTL

-----------------------------------------------------------------------------
(***************************************************************************)
(* The replay window lets no counter through twice, for every window       *)
(* length, any number of readers and any number of packets.  The argument: *)
(* counters less than a window apart have different positions (PosApart),  *)
(* so a bit inside the window can only mean its own counter (WindowExact), *)
(* and a jump beyond the window clears every position (PosCovers).         *)
(***************************************************************************)

\* Division with remainder, the facts about % and \div used below.
LEMMA DivMod ==
  ASSUME NEW L \in Nat \ {0}, NEW i \in Nat
  PROVE  /\ i = L * (i \div L) + (i % L)
         /\ i % L \in 0..(L - 1)
         /\ i \div L \in Nat
BY Z3

\* A positive multiple of L is at least L.
LEMMA MultipleBound ==
  ASSUME NEW L \in Nat \ {0}, NEW k \in Nat \ {0}
  PROVE  L * k >= L
BY Z3

\* Two numbers with the same remainder are equal or at least L apart.
LEMMA SameRemainder ==
  ASSUME NEW L \in Nat \ {0}, NEW i \in Nat, NEW j \in Nat,
         NEW a \in Nat, NEW b \in Nat, NEW r \in Nat,
         i = L * a + r, j = L * b + r, i < j
  PROVE  j >= i + L
<1>1. CASE b = a BY <1>1
<1>2. CASE b > a
  <2>1. PICK k \in Nat \ {0} : b = a + k BY <1>2
  <2>2. j = L * a + L * k + r BY <2>1
  <2>3. L * k >= L BY Zenon, MultipleBound
  <2> QED BY <2>2, <2>3
<1>3. CASE b < a
  <2>1. PICK k \in Nat \ {0} : a = b + k BY <1>3
  <2>2. i = L * b + L * k + r BY <2>1
  <2>3. L * k >= L BY Zenon, MultipleBound
  <2> QED BY <2>2, <2>3
<1> QED BY <1>1, <1>2, <1>3

\* The slots of bits.go are shared only by counters a whole window apart.
LEMMA PosApart ==
  ASSUME NEW i \in Nat, NEW j \in Nat, i < j, j < i + Length
  PROVE  pos(i) # pos(j)
<1>1. Length \in Nat \ {0} BY Zenon, WindowAssumption
<1>2. SUFFICES ASSUME i % Length = j % Length PROVE FALSE BY Zenon DEF pos
<1>3. PICK r \in Nat : r = i % Length BY DivMod, <1>1
<1>4. PICK a \in Nat : i = Length * a + r BY ZenonT(60), DivMod, <1>1, <1>3
<1>5. PICK b \in Nat : j = Length * b + r BY ZenonT(60), DivMod, <1>1, <1>2, <1>3
<1> QED BY SameRemainder, <1>1, <1>4, <1>5

\* Any Length consecutive counters use every slot.
LEMMA PosCovers ==
  ASSUME NEW c \in Nat, NEW j \in Nat, j > c
  PROVE  \E n \in (c + 1)..(c + Length) : pos(n) = pos(j)
<1>1. Length \in Nat \ {0} BY Zenon, WindowAssumption
<1>2. PICK d \in Nat : j = c + 1 + d OBVIOUS
<1>3. PICK q \in Nat, r \in 0..(Length - 1) : d = Length * q + r
  BY ZenonT(60), DivMod, <1>1
<1>4. PICK n \in Nat : n = c + 1 + r OBVIOUS
<1>5. n \in (c + 1)..(c + Length) BY <1>1, <1>3, <1>4
<1>6. j = n + Length * q BY <1>2, <1>3, <1>4, <1>1
<1>7. PICK a \in Nat, s \in 0..(Length - 1) : n = Length * a + s /\ s = n % Length
  BY ZenonT(60), DivMod, <1>1
<1>8. PICK b \in Nat, t \in 0..(Length - 1) : j = Length * b + t /\ t = j % Length
  BY ZenonT(60), DivMod, <1>1
<1>9. j = Length * (a + q) + s BY <1>6, <1>7, <1>1
<1>10. s = t
  <2>1. PICK e \in Nat : e = a + q OBVIOUS
  <2>2. Length * e + s = Length * b + t BY Zenon, <1>8, <1>9, <2>1
  <2>3. CASE e = b BY <2>2, <2>3, <1>1
  <2>4. CASE e > b
    <3>1. PICK k \in Nat \ {0} : e = b + k BY <2>4
    <3>2. Length * b + Length * k + s = Length * b + t BY <2>2, <3>1, <1>1
    <3>3. Length * k >= Length BY Zenon, MultipleBound, <1>1
    <3> QED BY <3>2, <3>3, <1>1
  <2>5. CASE e < b
    <3>1. PICK k \in Nat \ {0} : b = e + k BY <2>5
    <3>2. Length * e + s = Length * e + Length * k + t BY <2>2, <3>1, <1>1
    <3>3. Length * k >= Length BY Zenon, MultipleBound, <1>1
    <3> QED BY <3>2, <3>3, <1>1
  <2> QED BY <2>3, <2>4, <2>5
<1> QED BY ZenonT(60), <1>5, <1>7, <1>8, <1>10 DEF pos

LEMMA PosRange ==
  ASSUME NEW i \in Nat
  PROVE  pos(i) \in 0..(Length - 1)
BY Zenon, DivMod, WindowAssumption DEF pos

-----------------------------------------------------------------------------
\* The inductive invariant: AtMostOnce alone is not inductive, a wrong bit
\* would break it in the next step.
WindowInv == TypeOK /\ AtMostOnce /\ WindowExact

LEMMA LostTypes ==
  ASSUME TypeOK, NEW i \in Counter, i > current
  PROVE  FastLost(i) \in Nat /\ JumpLost(i) \in Nat
<1>1. FastLost(i) \in Nat BY Zenon DEF FastLost
<1>2. PICK e \in Int : e = Min2(i, current + Length)
  BY WindowAssumption DEF TypeOK, Min2, Counter
<1>3. DEFINE S == {n \in (current + 1)..e : n > Length /\ ~get(n)}
<1>4. Cardinality(S) \in Nat
  <2>1. IsFiniteSet((current + 1)..e)
    BY FS_Interval, <1>2, WindowAssumption DEF TypeOK
  <2>2. IsFiniteSet(S) BY ZenonT(60), <2>1, FS_Subset
  <2> QED BY Zenon, <2>2, FS_CardinalityType
<1>5. PICK k \in Nat : k = IF i > current + Length THEN i - current - Length ELSE 0
  <2>1. current \in Int /\ i \in Int /\ Length \in Int
    BY WindowAssumption DEF TypeOK, Counter
  <2>2. (IF i > current + Length THEN i - current - Length ELSE 0) \in Nat BY <2>1
  <2> QED BY Zenon, <2>2
<1>6. JumpLost(i) = Cardinality(S) + k BY Zenon, <1>2, <1>5 DEF JumpLost
<1>7. JumpLost(i) \in Nat
  <2> HIDE DEF S
  <2> QED BY <1>4, <1>6
<1> QED BY Zenon, <1>1, <1>7

LEMMA UpdateNextStep ==
  ASSUME WindowInv, NEW i \in Counter, UpdateNext(i),
         packet' \in [Reader -> Counter \cup {Nil}]
  PROVE  WindowInv'
<1> USE WindowAssumption DEF Counter
<1>1. i = current + 1 /\ current' = i /\ bits' = bits \cup {pos(i)}
  BY Zenon DEF UpdateNext
<1>2. current \in Nat /\ delivered \in [Counter -> Nat] /\ current \in 0..MaxCounter
  BY DEF WindowInv, TypeOK
<1>3. delivered' = [delivered EXCEPT ![i] = @ + 1] BY Zenon DEF UpdateNext, Deliver
<1>4. delivered[i] = 0 BY <1>1, <1>2 DEF WindowInv, WindowExact
<1>5. TypeOK'
  <2>1. lost' \in Nat
    BY LostTypes, <1>1, <1>2 DEF UpdateNext, WindowInv, TypeOK
  <2>2. bits' \subseteq 0..(Length - 1)
    <3>1. bits \subseteq 0..(Length - 1) BY Zenon DEF WindowInv, TypeOK
    <3>2. pos(i) \in 0..(Length - 1) BY PosRange
    <3> QED BY ZenonT(60), <1>1, <3>1, <3>2
  <2>3. current' \in 0..MaxCounter BY <1>1
  <2>4. delivered' \in [Counter -> Nat] BY <1>2, <1>3
  <2> QED BY Zenon, <2>1, <2>2, <2>3, <2>4 DEF TypeOK
<1>6. AtMostOnce' BY <1>2, <1>3, <1>4 DEF WindowInv, AtMostOnce
<1>7. ASSUME NEW j \in Counter, j <= current', j > current' - Length
      PROVE  (pos(j) \in bits') <=> delivered'[j] = 1
  <2>1. CASE j = i BY <2>1, <1>1, <1>2, <1>3, <1>4
  <2>2. CASE j # i
    <3>1. j <= current /\ j > current - Length BY <1>1, <1>2, <1>7, <2>2
    <3>2. pos(j) # pos(i) BY PosApart, <1>1, <1>2, <1>7, <2>2
    <3>3. (pos(j) \in bits) <=> delivered[j] = 1
      BY Zenon, <3>1 DEF WindowInv, WindowExact, get
    <3>4. delivered'[j] = delivered[j] BY Zenon, <1>2, <1>3, <2>2
    <3> QED BY Zenon, <1>1, <3>2, <3>3, <3>4
  <2> QED BY Zenon, <2>1, <2>2
<1>8. ASSUME NEW j \in Counter, j > current'
      PROVE  delivered'[j] = 0
  <2>1. j > current /\ j # i BY <1>1, <1>2, <1>8
  <2>2. delivered[j] = 0 BY Zenon, <2>1 DEF WindowInv, WindowExact
  <2> QED BY Zenon, <1>2, <1>3, <2>1, <2>2
<1>9. WindowExact' BY Zenon, <1>7, <1>8 DEF WindowExact, get
<1> QED BY Zenon, <1>5, <1>6, <1>9 DEF WindowInv

LEMMA UpdateJumpStep ==
  ASSUME WindowInv, NEW i \in Counter, UpdateJump(i),
         packet' \in [Reader -> Counter \cup {Nil}]
  PROVE  WindowInv'
<1> USE WindowAssumption DEF Counter
<1>1. i > current + 1 /\ current' = i /\ bits' = JumpClear(i) \cup {pos(i)}
  BY Zenon DEF UpdateJump
<1>2. current \in Nat /\ delivered \in [Counter -> Nat] /\ current \in 0..MaxCounter
  BY DEF WindowInv, TypeOK
<1>3. delivered' = [delivered EXCEPT ![i] = @ + 1] BY Zenon DEF UpdateJump, Deliver
<1>4. delivered[i] = 0 BY <1>1, <1>2 DEF WindowInv, WindowExact
<1>5. PICK e \in Nat : e = Min2(i, current + Length) BY <1>2 DEF Min2
<1>6. JumpClear(i) = bits \ {pos(n) : n \in (current + 1)..e}
  BY <1>2, <1>5 DEF JumpClear, clearRange
<1>7. TypeOK'
  <2>1. lost' \in Nat
    BY LostTypes, <1>1, <1>2 DEF UpdateJump, WindowInv, TypeOK
  <2>2. bits' \subseteq 0..(Length - 1)
    <3>1. bits \subseteq 0..(Length - 1) BY Zenon DEF WindowInv, TypeOK
    <3>2. pos(i) \in 0..(Length - 1) BY PosRange
    <3> QED BY ZenonT(60), <1>1, <1>6, <3>1, <3>2
  <2>3. current' \in 0..MaxCounter BY <1>1
  <2>4. delivered' \in [Counter -> Nat] BY <1>2, <1>3
  <2> QED BY Zenon, <2>1, <2>2, <2>3, <2>4 DEF TypeOK
<1>8. AtMostOnce' BY <1>2, <1>3, <1>4 DEF WindowInv, AtMostOnce
<1>9. ASSUME NEW j \in Counter, j <= current', j > current' - Length
      PROVE  (pos(j) \in bits') <=> delivered'[j] = 1
  <2>1. CASE j = i BY <2>1, <1>1, <1>2, <1>3, <1>4
  <2>2. CASE j # i /\ j <= current
    \* An old counter that stays in the window keeps its bit.
    <3>1. j > current - Length BY <1>1, <1>2, <1>9, <2>2
    <3>2. pos(j) # pos(i) BY PosApart, <1>1, <1>2, <1>9, <2>2
    <3>3. ASSUME NEW n \in (current + 1)..e PROVE pos(j) # pos(n)
      <4>1. n \in Nat /\ j < n BY <1>2, <2>2
      <4>2. e <= i BY <1>2, <1>5 DEF Min2
      <4>3. n < j + Length BY <1>1, <1>2, <1>9, <4>2
      <4> QED BY PosApart, <4>1, <4>3
    <3>4. (pos(j) \in bits) <=> delivered[j] = 1
      BY Zenon, <2>2, <3>1 DEF WindowInv, WindowExact, get
    <3>5. delivered'[j] = delivered[j] BY Zenon, <1>2, <1>3, <2>2
    <3> QED BY Zenon, <1>1, <1>6, <3>2, <3>3, <3>4, <3>5
  <2>3. CASE j # i /\ j > current
    \* A counter passed over has not arrived, and its slot is cleared.
    <3>1. pos(j) # pos(i) BY PosApart, <1>1, <1>2, <1>9, <2>3
    <3>2. \E n \in (current + 1)..e : pos(n) = pos(j)
      <4>1. CASE e = i
        <5>1. j \in (current + 1)..e BY <4>1, <1>1, <1>2, <1>9, <2>3
        <5> QED BY Zenon, <5>1
      <4>2. CASE e # i
        <5>1. e = current + Length BY Zenon, <4>2, <1>5 DEF Min2
        <5>2. j \in Nat /\ j > current BY <2>3
        <5>3. \E n \in (current + 1)..(current + Length) : pos(n) = pos(j)
          BY ZenonT(60), PosCovers, <5>2, <1>2
        <5> QED BY Zenon, <5>1, <5>3
      <4> QED BY Zenon, <4>1, <4>2
    <3>3. pos(j) \notin bits' BY <1>1, <1>6, <3>1, <3>2
    <3>4. delivered[j] = 0 BY Zenon, <2>3 DEF WindowInv, WindowExact
    <3>5. delivered'[j] = 0 BY Zenon, <1>2, <1>3, <2>3, <3>4
    <3> QED BY <3>3, <3>5
  <2> QED BY <1>2, <2>1, <2>2, <2>3
<1>10. ASSUME NEW j \in Counter, j > current'
       PROVE  delivered'[j] = 0
  <2>1. j > current /\ j # i BY <1>1, <1>2, <1>10
  <2>2. delivered[j] = 0 BY Zenon, <2>1 DEF WindowInv, WindowExact
  <2> QED BY Zenon, <1>2, <1>3, <2>1, <2>2
<1>11. WindowExact' BY Zenon, <1>9, <1>10 DEF WindowExact, get
<1> QED BY Zenon, <1>7, <1>8, <1>11 DEF WindowInv

LEMMA UpdateBackfillStep ==
  ASSUME WindowInv, NEW i \in Counter, UpdateBackfill(i),
         packet' \in [Reader -> Counter \cup {Nil}]
  PROVE  WindowInv'
<1> USE WindowAssumption DEF Counter
<1>1. i <= current /\ current' = current /\ lost' = lost /\ bits' = bits \cup {pos(i)}
  BY Zenon DEF UpdateBackfill
<1>2. current \in Nat /\ delivered \in [Counter -> Nat] /\ current \in 0..MaxCounter
  BY DEF WindowInv, TypeOK
<1>3. delivered' = [delivered EXCEPT ![i] = @ + 1] BY Zenon DEF UpdateBackfill, Deliver
<1>4. i > current - Length BY <1>1, <1>2 DEF UpdateBackfill, strictlyWithinWindow
<1>5. delivered[i] = 0
  <2>1. delivered[i] # 1
    BY Zenon, <1>1, <1>4 DEF UpdateBackfill, Duplicate, WindowInv, WindowExact
  <2> QED BY <1>2, <2>1 DEF WindowInv, AtMostOnce
<1>6. TypeOK'
  <2>1. bits \subseteq 0..(Length - 1) /\ lost \in Nat BY Zenon DEF WindowInv, TypeOK
  <2>2. pos(i) \in 0..(Length - 1) BY PosRange
  <2>3. bits' \subseteq 0..(Length - 1) BY ZenonT(60), <1>1, <2>1, <2>2
  <2>4. delivered' \in [Counter -> Nat] BY <1>2, <1>3
  <2> QED BY Zenon, <1>1, <1>2, <2>1, <2>3, <2>4 DEF TypeOK
<1>7. AtMostOnce' BY <1>2, <1>3, <1>5 DEF WindowInv, AtMostOnce
<1>8. ASSUME NEW j \in Counter, j <= current', j > current' - Length
      PROVE  (pos(j) \in bits') <=> delivered'[j] = 1
  <2>1. CASE j = i BY <2>1, <1>1, <1>2, <1>3, <1>5
  <2>2. CASE j # i
    <3>1. pos(j) # pos(i)
      <4>1. CASE j < i BY PosApart, <4>1, <1>1, <1>2, <1>8
      <4>2. CASE i < j BY PosApart, <4>2, <1>1, <1>2, <1>4, <1>8
      <4> QED BY <2>2, <4>1, <4>2
    <3>2. (pos(j) \in bits) <=> delivered[j] = 1
      BY ZenonT(60), <1>1, <1>8 DEF WindowInv, WindowExact, get
    <3>3. delivered'[j] = delivered[j] BY Zenon, <1>2, <1>3, <2>2
    <3> QED BY Zenon, <1>1, <3>1, <3>2, <3>3
  <2> QED BY Zenon, <2>1, <2>2
<1>9. ASSUME NEW j \in Counter, j > current'
      PROVE  delivered'[j] = 0
  <2>1. j > current /\ j # i BY <1>1, <1>2, <1>9
  <2>2. delivered[j] = 0 BY Zenon, <2>1 DEF WindowInv, WindowExact
  <2> QED BY Zenon, <1>2, <1>3, <2>1, <2>2
<1>10. WindowExact' BY Zenon, <1>8, <1>9 DEF WindowExact, get
<1> QED BY Zenon, <1>6, <1>7, <1>10 DEF WindowInv

\* A step that leaves the window alone.
LEMMA SameWindowStep ==
  ASSUME WindowInv, UNCHANGED <<current, bits, lost, delivered>>,
         packet' \in [Reader -> Counter \cup {Nil}]
  PROVE  WindowInv'
BY Zenon DEF WindowInv, TypeOK, AtMostOnce, WindowExact, get

LEMMA WindowInit == Init => WindowInv
<1> USE WindowAssumption DEF Counter
<1> SUFFICES ASSUME Init PROVE WindowInv OBVIOUS
<1>1. TypeOK BY DEF Init, TypeOK
<1>2. AtMostOnce BY DEF Init, AtMostOnce
<1>3. ASSUME NEW i \in Counter, i <= current
      PROVE  pos(i) \in bits /\ delivered[i] = 1
  <2>1. i \in 1..Seed /\ i < Length BY <1>3 DEF Init
  <2>2. i % Length = i BY <2>1
  <2> QED BY <2>1, <2>2 DEF Init, pos
<1>4. ASSUME NEW i \in Counter, i > current
      PROVE  delivered[i] = 0
  BY <1>4 DEF Init
<1>5. WindowExact BY Zenon, <1>3, <1>4 DEF WindowExact, get
<1> QED BY Zenon, <1>1, <1>2, <1>5 DEF WindowInv

LEMMA WindowNext == WindowInv /\ [Next]_vars => WindowInv'
<1> SUFFICES ASSUME WindowInv, [Next]_vars PROVE WindowInv' OBVIOUS
<1>0. packet \in [Reader -> Counter \cup {Nil}] BY Zenon DEF WindowInv, TypeOK
<1>1. CASE UNCHANGED vars BY Zenon, <1>0, <1>1, SameWindowStep DEF vars
<1>2. ASSUME NEW r \in Reader, NEW i \in Counter, DecryptCheck(r, i) PROVE WindowInv'
  BY Zenon, <1>0, <1>2, SameWindowStep DEF DecryptCheck
<1>3. ASSUME NEW r \in Reader, NEW i \in Counter, DecryptDrop(r, i) PROVE WindowInv'
  BY Zenon, <1>0, <1>3, SameWindowStep DEF DecryptDrop, vars
<1>4. ASSUME NEW r \in Reader, DecryptFails(r) PROVE WindowInv'
  BY Zenon, <1>0, <1>4, SameWindowStep DEF DecryptFails
<1>5. ASSUME NEW r \in Reader, DecryptUpdate(r) PROVE WindowInv'
  <2>1. packet' \in [Reader -> Counter \cup {Nil}] BY Zenon, <1>0, <1>5 DEF DecryptUpdate
  <2>2. PICK i \in Counter : i = packet[r] BY Zenon, <1>0, <1>5 DEF DecryptUpdate
  <2>3. CASE UpdateNext(i) BY Zenon, <2>1, <2>3, UpdateNextStep
  <2>4. CASE UpdateJump(i) BY Zenon, <2>1, <2>4, UpdateJumpStep
  <2>5. CASE UpdateBackfill(i) BY Zenon, <2>1, <2>5, UpdateBackfillStep
  <2>6. CASE UpdateReject(i) BY Zenon, <2>1, <2>6, SameWindowStep DEF UpdateReject
  <2> QED BY Zenon, <1>5, <2>2, <2>3, <2>4, <2>5, <2>6 DEF DecryptUpdate
<1> QED BY Zenon, <1>1, <1>2, <1>3, <1>4, <1>5 DEF Next

\* Decrypt and VerifyRelay let no counter through twice: for every window
\* length, any number of packet readers between the two critical sections and
\* any order, loss and repetition of the peer's packets.
THEOREM ReplayAtMostOnce == Spec => []AtMostOnce
<1>1. WindowInv => AtMostOnce BY Zenon DEF WindowInv
<1> QED BY <1>1, WindowInit, WindowNext, PTL DEF Spec

\* Inside the window Bits remembers exactly the counters let through, so a
\* reordered packet inside the window is neither refused nor repeated.
THEOREM ReplayWindowExact == Spec => []WindowExact
<1>1. WindowInv => WindowExact BY Zenon DEF WindowInv
<1> QED BY <1>1, WindowInit, WindowNext, PTL DEF Spec

-----------------------------------------------------------------------------
(* The refinement: each branch of Update is an Accept or leaves the        *)
(* receiver alone.                                                         *)

LEMMA AcceptAbove ==
  ASSUME WindowInv, NEW i \in Counter, i > current, current' = i, Deliver(i)
  PROVE  Promised!Accept(i)
<1> USE WindowAssumption DEF Counter
<1>1. current \in Nat /\ delivered \in [Counter -> Nat] BY DEF WindowInv, TypeOK
<1>2. delivered[i] = 0 BY Zenon DEF WindowInv, WindowExact
<1>3. delivered' = [delivered EXCEPT ![i] = 1] BY <1>1, <1>2 DEF Deliver
<1>4. i > current - Length BY <1>1
<1> QED BY Zenon, <1>2, <1>3, <1>4 DEF Promised!Accept

LEMMA AcceptWithin ==
  ASSUME WindowInv, NEW i \in Counter, UpdateBackfill(i)
  PROVE  Promised!Accept(i)
<1> USE WindowAssumption DEF Counter
<1>1. current \in Nat /\ delivered \in [Counter -> Nat] BY DEF WindowInv, TypeOK
<1>2. i <= current /\ current' = current BY Zenon DEF UpdateBackfill
<1>3. i > current - Length BY <1>1, <1>2 DEF UpdateBackfill, strictlyWithinWindow
<1>4. delivered[i] = 0
  <2>1. delivered[i] # 1
    BY Zenon, <1>2, <1>3 DEF UpdateBackfill, Duplicate, WindowInv, WindowExact
  <2> QED BY <1>1, <2>1 DEF WindowInv, AtMostOnce
<1>5. delivered' = [delivered EXCEPT ![i] = 1]
  BY <1>1, <1>4 DEF UpdateBackfill, Deliver
<1> QED BY <1>1, <1>2, <1>3, <1>4, <1>5 DEF Promised!Accept

LEMMA WindowSteps ==
  ASSUME WindowInv, [Next]_vars
  PROVE  [\E n \in Counter : Promised!Accept(n)]_(Promised!receiverVars)
<1> USE DEF Promised!receiverVars
<1>1. CASE UNCHANGED <<current, delivered>> BY Zenon, <1>1
<1>2. CASE \E r \in Reader : DecryptUpdate(r)
  <2>1. PICK r \in Reader : DecryptUpdate(r) BY Zenon, <1>2
  <2>2. PICK i \in Counter : i = packet[r] BY Zenon, <2>1 DEF DecryptUpdate, WindowInv, TypeOK
  <2>3. current \in Nat /\ i \in Nat BY WindowAssumption DEF WindowInv, TypeOK, Counter
  <2>4. CASE UpdateNext(i) BY <2>3, <2>4, AcceptAbove DEF UpdateNext
  <2>5. CASE UpdateJump(i) BY <2>3, <2>5, AcceptAbove DEF UpdateJump
  <2>6. CASE UpdateBackfill(i) BY Zenon, <2>6, AcceptWithin
  <2>7. CASE UpdateReject(i) BY Zenon, <2>7 DEF UpdateReject
  <2> QED BY Zenon, <2>1, <2>2, <2>4, <2>5, <2>6, <2>7 DEF DecryptUpdate
<1> QED BY Zenon, <1>1, <1>2 DEF Next, vars, DecryptCheck, DecryptDrop, DecryptFails

\* The bitmap, the warmup and the readers between their two critical sections
\* implement the receiver of Receiver.tla, which accepts each number at most
\* once and none that is a window behind: for every window length and any
\* number of readers.
THEOREM ReplayImplementsReceiver == Spec => ImplementsReceiver
<1>1. Init => Promised!ReceiverInit BY Zenon DEF Init, Promised!ReceiverInit
<1>2. WindowInv /\ [Next]_vars =>
        [\E n \in Counter : Promised!Accept(n)]_(Promised!receiverVars)
  BY ZenonT(60), WindowSteps
<1> QED BY <1>1, <1>2, WindowInit, WindowNext, PTL
        DEF Spec, ImplementsReceiver, Promised!ReceiverSpec

-----------------------------------------------------------------------------
(***************************************************************************)
(* No nonce is used twice, for every ceiling, headroom and finite set of   *)
(* senders, as long as the senders and the inside packets drawn past the   *)
(* ceiling fit into the headroom.  The counter never wraps because every   *)
(* step above the ceiling is paid for by a sender that has yet to pin it   *)
(* or by an inside packet (Headroom); below the ceiling it only grows, so  *)
(* what has been drawn is below it and distinct (Drawn).                   *)
(***************************************************************************)

Pinning == {s \in Sender : pc[s] = "pin"}

Headroom == messageCounter <= RejectAfterMessages + insideOver + Cardinality(Pinning)

\* Nonces above the counter are unused.
Unused ==
  \A n \in Nonce : n > messageCounter /\ n < RejectAfterMessages => sealed[n] = 0

Holds(s, n) == pc[s] = "encrypt" /\ nonce[s] = n

\* A nonce about to be used is at most the counter, unused and nobody else's.
Drawn ==
  \A s \in Sender, n \in Nonce :
    Holds(s, n) /\ n < RejectAfterMessages =>
      /\ n <= messageCounter
      /\ sealed[n] = 0
      /\ \A t \in Sender : Holds(t, n) => t = s

CounterInv == CounterTypeOK /\ Headroom /\ Unused /\ Drawn /\ NonceOnce

\* Senders that have yet to pin are counted like any finite set.
LEMMA PinningFinite ==
  /\ IsFiniteSet(Pinning) /\ Cardinality(Pinning) \in Nat
  /\ \A s \in Sender : s \notin Pinning => Cardinality(Pinning) + 1 <= Cardinality(Sender)
<1>1. IsFiniteSet(Sender) /\ Cardinality(Sender) \in Nat
  BY Zenon, CounterAssumption, FS_CardinalityType
<1>2. IsFiniteSet(Pinning) /\ Cardinality(Pinning) \in Nat
  BY Zenon, <1>1, FS_Subset, FS_CardinalityType DEF Pinning
<1>3. ASSUME NEW s \in Sender, s \notin Pinning
      PROVE  Cardinality(Pinning) + 1 <= Cardinality(Sender)
  <2>0. Cardinality(Pinning \cup {s}) =
          IF s \in Pinning THEN Cardinality(Pinning) ELSE Cardinality(Pinning) + 1
    BY Zenon, <1>2, FS_AddElement
  <2>1. Cardinality(Pinning \cup {s}) = Cardinality(Pinning) + 1
    BY Zenon, <1>3, <2>0
  <2>2. Pinning \cup {s} \subseteq Sender BY Zenon DEF Pinning
  <2>3. Cardinality(Pinning \cup {s}) <= Cardinality(Sender)
    BY Zenon, <1>1, <2>2, FS_Subset
  <2> QED BY Zenon, <2>1, <2>3
<1> QED BY Zenon, <1>2, <1>3

\* Drawing the next nonce: s, idle before, holds c + 1 or is about to pin.
LEMMA DrawStep ==
  ASSUME CounterInv, NEW s \in Sender, pc[s] = "idle",
         NEW q \in {"pin", "encrypt"}, NEW c \in Nonce, c = messageCounter,
         c + 1 \in Nonce,
         messageCounter' = c + 1, sealed' = sealed,
         nonce' = [nonce EXCEPT ![s] = c + 1],
         pc' = [pc EXCEPT ![s] = q],
         insideOver' \in 0..MaxInsideOver, Headroom'
  PROVE  CounterInv'
<1> USE CounterAssumption DEF Nonce
<1>1. CounterTypeOK' BY Zenon DEF CounterInv, CounterTypeOK
<1>2. Unused' BY DEF CounterInv, Unused
<1>3. NonceOnce' BY Zenon DEF CounterInv, NonceOnce
<1>4. ASSUME NEW t \in Sender, NEW n \in Nonce, Holds(t, n)', n < RejectAfterMessages
      PROVE  /\ n <= messageCounter' /\ sealed'[n] = 0
             /\ \A u \in Sender : Holds(u, n)' => u = t
  <2>0. pc \in [Sender -> {"idle", "pin", "encrypt"}] /\ nonce \in [Sender -> Nonce]
    BY Zenon DEF CounterInv, CounterTypeOK
  <2>1. \A u \in Sender : u # s => (Holds(u, n)' <=> Holds(u, n))
    BY Zenon, <2>0 DEF Holds
  <2>2. CASE t = s
    <3>1. n = c + 1 BY Zenon, <1>4, <2>0, <2>2 DEF Holds
    <3>2. sealed'[n] = 0 BY <3>1, <1>4 DEF CounterInv, Unused
    <3>3. ASSUME NEW u \in Sender, Holds(u, n)' PROVE u = t
      <4>1. CASE u # s
        <5>1. Holds(u, n) BY Zenon, <2>1, <3>3, <4>1
        <5>2. n <= messageCounter BY Zenon, <5>1, <1>4 DEF CounterInv, Drawn
        <5> QED BY <5>2, <3>1
      <4> QED BY Zenon, <4>1, <2>2
    <3> QED BY <3>1, <3>2, <3>3
  <2>3. CASE t # s
    <3>1. Holds(t, n) BY Zenon, <1>4, <2>1, <2>3
    <3>2. /\ n <= messageCounter /\ sealed[n] = 0
          /\ \A u \in Sender : Holds(u, n) => u = t
      BY Zenon, <1>4, <3>1 DEF CounterInv, Drawn
    <3>3. ~Holds(s, n)' BY <2>0, <3>2 DEF Holds
    <3> QED BY <2>1, <3>2, <3>3
  <2> QED BY Zenon, <2>2, <2>3
<1>5. Drawn' BY Zenon, <1>4 DEF Drawn
<1> QED BY Zenon, <1>1, <1>2, <1>3, <1>5 DEF CounterInv

\* The add of NextMessageCounter does not wrap, and is paid for by s when it
\* ends at or above the ceiling.
LEMMA NextCounterStep ==
  ASSUME CounterInv, NEW s \in Sender, NextMessageCounter(s)
  PROVE  CounterInv' /\ messageCounter' = messageCounter + 1
<1> USE CounterAssumption DEF Nonce
<1>1. PICK c \in Nonce : c = messageCounter BY Zenon DEF CounterInv, CounterTypeOK
<1>2. pc \in [Sender -> {"idle", "pin", "encrypt"}] /\ pc[s] = "idle"
      /\ insideOver \in 0..MaxInsideOver
  BY Zenon DEF CounterInv, CounterTypeOK, NextMessageCounter
<1>3. PICK k \in Nat : k = Cardinality(Pinning) BY Zenon, PinningFinite
<1>4. s \notin Pinning BY Zenon, <1>2 DEF Pinning
<1>5. k + 1 <= Cardinality(Sender) BY Zenon, <1>3, <1>4, PinningFinite
<1>6. c <= RejectAfterMessages + insideOver + k BY Zenon, <1>1, <1>3 DEF CounterInv, Headroom
<1>7. Cardinality(Sender) \in Nat BY Zenon, FS_CardinalityType
<1>8. c < RejectAfterMessages + RejectHeadroom BY <1>2, <1>5, <1>6, <1>7
<1>9. Add1(c) = c + 1 /\ c + 1 \in Nonce BY <1>8 DEF Add1
<1>10. PICK q \in {"pin", "encrypt"} :
         q = IF Refused(c + 1) THEN "pin" ELSE "encrypt"
  OBVIOUS
<1>11. /\ messageCounter' = c + 1 /\ sealed' = sealed /\ insideOver' = insideOver
       /\ nonce' = [nonce EXCEPT ![s] = c + 1] /\ pc' = [pc EXCEPT ![s] = q]
  BY Zenon, <1>1, <1>9, <1>10 DEF NextMessageCounter
<1>12. Headroom'
  <2>1. CASE q = "pin"
    <3>1. Pinning' = Pinning \cup {s} BY Zenon, <1>2, <1>11, <2>1 DEF Pinning
    <3>2. Cardinality(Pinning') = k + 1
      BY ZenonT(60), <1>3, <1>4, <3>1, PinningFinite, FS_AddElement
    <3> QED BY <1>2, <1>6, <1>11, <3>2 DEF Headroom
  <2>2. CASE q = "encrypt"
    <3>1. Pinning' = Pinning BY Zenon, <1>2, <1>11, <2>2 DEF Pinning
    <3>2. c + 1 < RejectAfterMessages BY <1>10, <2>2 DEF Refused
    <3> QED BY <1>2, <1>3, <1>11, <3>1, <3>2 DEF Headroom
  <2> QED BY Zenon, <2>1, <2>2
<1>13. CounterInv' BY ZenonT(60), <1>1, <1>2, <1>9, <1>11, <1>12, DrawStep
<1> QED BY Zenon, <1>1, <1>11, <1>13

LEMMA InsideStep ==
  ASSUME CounterInv, NEW s \in Sender, SendInsideEncrypt(s)
  PROVE  CounterInv' /\ messageCounter' = messageCounter + 1
<1> USE CounterAssumption DEF Nonce
<1>1. PICK c \in Nonce : c = messageCounter BY Zenon DEF CounterInv, CounterTypeOK
<1>2. pc \in [Sender -> {"idle", "pin", "encrypt"}] /\ pc[s] = "idle"
      /\ insideOver \in 0..MaxInsideOver
  BY Zenon DEF CounterInv, CounterTypeOK, SendInsideEncrypt
<1>3. PICK k \in Nat : k = Cardinality(Pinning) BY Zenon, PinningFinite
<1>4. k + 1 <= Cardinality(Sender) BY Zenon, <1>2, <1>3, PinningFinite DEF Pinning
<1>5. c <= RejectAfterMessages + insideOver + k BY Zenon, <1>1, <1>3 DEF CounterInv, Headroom
<1>6. Cardinality(Sender) \in Nat BY Zenon, FS_CardinalityType
<1>7. c < RejectAfterMessages - 1 \/ insideOver < MaxInsideOver
  BY Zenon, <1>1 DEF SendInsideEncrypt
<1>8. c < RejectAfterMessages + RejectHeadroom BY <1>2, <1>4, <1>5, <1>6, <1>7
<1>9. Add1(c) = c + 1 /\ c + 1 \in Nonce BY <1>8 DEF Add1
<1>10. /\ messageCounter' = c + 1 /\ sealed' = sealed
       /\ insideOver' = IF c < RejectAfterMessages - 1 THEN insideOver ELSE insideOver + 1
       /\ nonce' = [nonce EXCEPT ![s] = c + 1] /\ pc' = [pc EXCEPT ![s] = "encrypt"]
  BY Zenon, <1>1, <1>9 DEF SendInsideEncrypt
<1>11. insideOver' \in 0..MaxInsideOver BY <1>2, <1>7, <1>10
<1>12. Pinning' = Pinning BY Zenon, <1>2, <1>10 DEF Pinning
<1>13. Headroom' BY <1>2, <1>3, <1>5, <1>10, <1>12 DEF Headroom
<1>14. CounterInv' BY ZenonT(60), <1>1, <1>2, <1>9, <1>10, <1>11, <1>13, DrawStep
<1> QED BY Zenon, <1>1, <1>10, <1>14

LEMMA PinStep ==
  ASSUME CounterInv, NEW s \in Sender, Pin(s)
  PROVE  CounterInv' /\ messageCounter' = RejectAfterMessages
<1> USE CounterAssumption DEF Nonce
<1>1. messageCounter' = RejectAfterMessages /\ pc' = [pc EXCEPT ![s] = "idle"]
      /\ nonce' = nonce /\ sealed' = sealed /\ insideOver' = insideOver
  BY Zenon DEF Pin, Pinned
<1>2. CounterTypeOK' BY <1>1 DEF CounterInv, CounterTypeOK
<1>3. Headroom'
  <2>1. Cardinality(Pinning') \in Nat
    <3>1. IsFiniteSet(Pinning') BY Zenon, FS_Subset DEF Pinning
    <3> QED BY Zenon, <3>1, FS_CardinalityType
  <2> QED BY <1>1, <1>2, <2>1 DEF Headroom, CounterTypeOK
<1>4. Unused' BY <1>1 DEF Unused
<1>5. \A t \in Sender, n \in Nonce : Holds(t, n)' => Holds(t, n)
  BY Zenon, <1>1 DEF Holds, CounterInv, CounterTypeOK
<1>6. Drawn' BY <1>1, <1>5 DEF CounterInv, Drawn
<1>7. NonceOnce' BY Zenon, <1>1 DEF CounterInv, NonceOnce
<1> QED BY Zenon, <1>1, <1>2, <1>3, <1>4, <1>6, <1>7 DEF CounterInv

LEMMA EncryptStep ==
  ASSUME CounterInv, NEW s \in Sender, EncryptDanger(s)
  PROVE  CounterInv' /\ messageCounter' = messageCounter
<1> USE CounterAssumption DEF Nonce
<1>1. PICK m \in Nonce : m = nonce[s] BY Zenon DEF CounterInv, CounterTypeOK
<1>2. /\ pc' = [pc EXCEPT ![s] = "idle"] /\ Holds(s, m)
      /\ UNCHANGED <<messageCounter, nonce, insideOver>>
      /\ sealed' = IF m < RejectAfterMessages THEN [sealed EXCEPT ![m] = @ + 1] ELSE sealed
  BY Zenon, <1>1 DEF EncryptDanger, Holds, Sealable
<1>3. /\ pc \in [Sender -> {"idle", "pin", "encrypt"}] /\ sealed \in [Nonce -> Nat]
      /\ messageCounter \in Nonce
  BY Zenon DEF CounterInv, CounterTypeOK
<1>4. sealed' \in [Nonce -> Nat] BY <1>2, <1>3
<1>5. CounterTypeOK' BY Zenon, <1>2, <1>3, <1>4 DEF CounterInv, CounterTypeOK
<1>6. Headroom'
  <2>1. Pinning' = Pinning BY Zenon, <1>2, <1>3 DEF Pinning, Holds
  <2> QED BY Zenon, <1>2, <2>1 DEF CounterInv, Headroom
<1>7. m < RejectAfterMessages => m <= messageCounter /\ sealed[m] = 0
  BY Zenon, <1>2 DEF CounterInv, Drawn
<1>8. Unused' BY <1>2, <1>3, <1>7 DEF CounterInv, Unused
<1>9. NonceOnce' BY <1>2, <1>3, <1>7 DEF CounterInv, NonceOnce
<1>10. ASSUME NEW t \in Sender, NEW n \in Nonce, Holds(t, n)', n < RejectAfterMessages
       PROVE  /\ n <= messageCounter' /\ sealed'[n] = 0
              /\ \A u \in Sender : Holds(u, n)' => u = t
  <2>1. \A u \in Sender : Holds(u, n)' => Holds(u, n) /\ u # s
    BY Zenon, <1>2, <1>3 DEF Holds
  <2>2. /\ n <= messageCounter /\ sealed[n] = 0
        /\ \A u \in Sender : Holds(u, n) => u = t
    BY Zenon, <1>10, <2>1 DEF CounterInv, Drawn
  <2>3. n # m BY Zenon, <1>2, <1>10, <2>1, <2>2
  <2> QED BY Zenon, <1>2, <1>3, <2>1, <2>2, <2>3
<1>11. Drawn' BY Zenon, <1>10 DEF Drawn
<1> QED BY ZenonT(60), <1>2, <1>5, <1>6, <1>8, <1>9, <1>11 DEF CounterInv

LEMMA InitHolds == CounterInit => CounterInv
<1> USE CounterAssumption DEF Nonce
<1> SUFFICES ASSUME CounterInit PROVE CounterInv OBVIOUS
<1>1. CounterTypeOK BY DEF CounterInit, CounterTypeOK
<1>2. Headroom BY PinningFinite DEF CounterInit, Headroom
<1>3. Unused BY Zenon DEF CounterInit, Unused
<1>4. Drawn BY Zenon DEF CounterInit, Drawn, Holds
<1>5. NonceOnce BY DEF CounterInit, NonceOnce
<1> QED BY Zenon, <1>1, <1>2, <1>3, <1>4, <1>5 DEF CounterInv

LEMMA NextHolds ==
  CounterInv /\ [CounterNext]_counterVars =>
    /\ CounterInv'
    /\ messageCounter >= RejectAfterMessages => messageCounter' >= RejectAfterMessages
<1> SUFFICES ASSUME CounterInv, [CounterNext]_counterVars
             PROVE  /\ CounterInv'
                    /\ messageCounter >= RejectAfterMessages =>
                         messageCounter' >= RejectAfterMessages
  OBVIOUS
<1>0. messageCounter \in Nat /\ RejectAfterMessages \in Nat
  BY CounterAssumption DEF CounterInv, CounterTypeOK, Nonce
<1>1. CASE UNCHANGED counterVars
  BY Zenon, <1>1 DEF counterVars, CounterInv, CounterTypeOK, Headroom, Pinning, Unused, Drawn, Holds, NonceOnce
<1>2. ASSUME NEW s \in Sender, NextMessageCounter(s)
      PROVE  CounterInv' /\ messageCounter' = messageCounter + 1
  BY Zenon, <1>2, NextCounterStep
<1>3. ASSUME NEW s \in Sender, SendInsideEncrypt(s)
      PROVE  CounterInv' /\ messageCounter' = messageCounter + 1
  BY Zenon, <1>3, InsideStep
<1>4. ASSUME NEW s \in Sender, Pin(s)
      PROVE  CounterInv' /\ messageCounter' = RejectAfterMessages
  BY Zenon, <1>4, PinStep
<1>5. ASSUME NEW s \in Sender, EncryptDanger(s)
      PROVE  CounterInv' /\ messageCounter' = messageCounter
  BY Zenon, <1>5, EncryptStep
<1> QED BY <1>0, <1>1, <1>2, <1>3, <1>4, <1>5 DEF CounterNext

\* No nonce is used twice with a tunnel's key and none at or above the ceiling,
\* for every ceiling and headroom, although NextMessageCounter pins in a second
\* atomic step and sendInsideEncrypt does not pin at all.
THEOREM NoncesUnique == CounterSpec => []NonceOnce
<1>1. CounterInv => NonceOnce BY Zenon DEF CounterInv
<1>2. CounterInv /\ [CounterNext]_counterVars => CounterInv' BY Zenon, NextHolds
<1> QED BY <1>1, <1>2, InitHolds, PTL DEF CounterSpec

\* A counter that reached the ceiling never falls below it, so the exhausted
\* tunnel is seen as such by every later makeTrafficDecision.
THEOREM ExhaustionStays == CounterSpec => StaysExhausted
<1>1. CounterInv /\ [CounterNext]_counterVars => CounterInv' BY Zenon, NextHolds
<1>2. CounterInv /\ [CounterNext]_counterVars =>
        [messageCounter >= RejectAfterMessages =>
           messageCounter' >= RejectAfterMessages]_counterVars
  BY Zenon, NextHolds
<1> QED BY <1>1, <1>2, InitHolds, PTL DEF CounterSpec, StaysExhausted
=============================================================================
