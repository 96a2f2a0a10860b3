----------------------------- MODULE RemoteList -----------------------------
(***************************************************************************)
(* The underlay addresses of one host (remote_list.go): what lighthouses,  *)
(* the host itself and the configuration say of it, the list built from    *)
(* that when the list is marked dirty, and the goroutines that resolve its *)
(* static_host_map names while reloads replace them.                       *)
(*                                                                         *)
(* Every operation holds the list's lock and is one step, except the       *)
(* resolver, which publishes without the lock and marks the list in a      *)
(* callback that takes it, and a reload, which drops the lock between its  *)
(* two passes.  addrs is a set: unlockedSort orders and deduplicates what  *)
(* unlockedCollect gathers (RemoteOrder has the sort).                     *)
(***************************************************************************)
EXTENDS Naturals, Sequences, FiniteSets, Functions

CONSTANTS
  Remote,        \* underlay address and port pairs
  V4Remote,      \* the IPv4 ones
  DeniedRemote,  \* those the remote allow list or our own networks exclude
  RelayAddr,     \* relays a host may name
  Literal,       \* static_host_map entries that are addresses
  Hostname,      \* and those that are names
  V4Only,        \* our socket is IPv4
  MaxRemotes,    \* 10 in hostmap.go
  Reporter,      \* who reports of the host: itself, or lighthouses
  Heard,         \* inputs: where a peer may be heard
  Reports,       \* inputs: sequences of addresses told of the host
  Answers,       \* inputs: what a lookup may find
  MaxResolvers   \* bound: static configurations loaded

ASSUME RemoteAssumption ==
  /\ Literal \cup V4Remote \subseteq Remote
  /\ \A answer \in Answers : answer \subseteq Remote

VARIABLES
  rl,         \* the RemoteList
  resolver,   \* every hostnamesResults made, with its goroutine
  reloading,  \* the reload in progress
  static,     \* the static_host_map entry in force, {} for none
  unblocked   \* auxiliary: unblocked since the last collection

rlVars == <<rl, resolver, reloading, static, unblocked>>

\* Who told us: ourselves (the configuration), the host, a lighthouse.
Owner == {"ourselves", "host"} \cup Reporter
Family == {"v4", "v6"}
Of(family) == IF family = "v4" THEN V4Remote ELSE Remote \ V4Remote

NoCache == [learned |-> [f \in Family |-> {}],
            reported |-> [f \in Family |-> <<>>],
            relay |-> {}]

\* NewRemoteList
RemoteListInit ==
  /\ rl = [cache |-> [o \in Owner |-> NoCache], bad |-> {}, addrs |-> {},
           relays |-> {}, shouldRebuild |-> FALSE, hr |-> 0]
  /\ resolver = <<>>
  /\ reloading = [pc |-> "idle"]
  /\ static = {}
  /\ unblocked = {}

-----------------------------------------------------------------------------
(* The cache.                                                              *)

\* LearnRemote: one learned address for each family.
Learn(cache, o, r) ==
  LET f == CHOOSE g \in Family : r \in Of(g)
  IN [cache EXCEPT ![o].learned[f] = {r}]

FirstOf(s, n) == SubSeq(s, 1, IF Len(s) < n THEN Len(s) ELSE n)

\* What is told of a family: filtered first, then cut.
SetReported(cache, o, f, to) ==
  [cache EXCEPT ![o].reported[f] = FirstOf(
    SelectSeq(to, LAMBDA r : r \in Of(f) \ DeniedRemote), MaxRemotes)]

unlockedSetV4(cache, o, to) == SetReported(cache, o, "v4", to)
unlockedSetV6(cache, o, to) == SetReported(cache, o, "v6", to)

\* The literals of an entry as a list, in one order that is not told apart.
Listed(literals) == CHOOSE s \in Bijection(1..Cardinality(literals), literals) : TRUE

\* unlockedPrependV4 and unlockedPrependV6, of one literal after another
Prepended(cache, o, literals) ==
  [cache EXCEPT ![o].reported = [f \in Family |->
     FirstOf(Listed(literals \cap Of(f)) \o @[f], MaxRemotes)]]

-----------------------------------------------------------------------------
(* The list.                                                               *)

Usable == IF V4Only THEN V4Remote ELSE Remote

\* hostnamesResults.GetAddrs, of no resolver too
GetAddrs(hr) == IF hr = 0 THEN {} ELSE resolver[hr].ips

CachedAddrs(cache) ==
  UNION {cache[o].learned[f] \cup Range(cache[o].reported[f]) :
           o \in Owner, f \in Family}

\* unlockedCollect, with what unlockedSort makes of it
Collected ==
  (Usable \cap (CachedAddrs(rl.cache) \cup (GetAddrs(rl.hr) \ DeniedRemote)))
    \ rl.bad
CollectedRelays == UNION {rl.cache[o].relay : o \in Owner}

\* Rebuild, by Len, ForEach and CopyAddrs: collects when there is something
\* new.
Rebuild ==
  /\ rl.shouldRebuild
  /\ rl' = [rl EXCEPT !.addrs = Collected, !.relays = CollectedRelays,
                      !.shouldRebuild = FALSE]
  /\ unblocked' = {}
  /\ UNCHANGED <<resolver, reloading, static>>

SetCache(cache) == rl' = [rl EXCEPT !.cache = cache, !.shouldRebuild = TRUE]

\* LearnRemote, from SetRemote: the host is heard at a new address.
LearnRemote(r) ==
  /\ rl.cache["host"].learned[CHOOSE f \in Family : r \in Of(f)] # {r}
  /\ SetCache(Learn(rl.cache, "host", r))
  /\ UNCHANGED <<resolver, reloading, static, unblocked>>

\* handleHostQueryReply, handleHostUpdateNotification: both families and the
\* relays of one owner.
Reported(o, to, relay) ==
  /\ SetCache([unlockedSetV6(unlockedSetV4(rl.cache, o, to), o, to)
                 EXCEPT ![o].relay = relay])
  /\ UNCHANGED <<resolver, reloading, static, unblocked>>

\* addCalculatedRemotes: only the family of the overlay address.
Calculated(f, to) ==
  /\ \A k \in 1..Len(to) : to[k] \in Of(f)
  /\ SetCache(IF f = "v4" THEN unlockedSetV4(rl.cache, "ourselves", to)
                          ELSE unlockedSetV6(rl.cache, "ourselves", to))
  /\ UNCHANGED <<resolver, reloading, static, unblocked>>

\* Mutant of BlockRemote: the list is not marked.
BlockQuietly(r) ==
  /\ r \notin rl.bad
  /\ rl' = [rl EXCEPT !.bad = @ \cup {r}]
  /\ unblocked' = unblocked \ {r}
  /\ UNCHANGED <<resolver, reloading, static>>

\* BlockRemote: the wrong host answered there.
BlockRemote(r) ==
  /\ r \notin rl.bad
  /\ rl' = [rl EXCEPT !.bad = @ \cup {r}, !.shouldRebuild = TRUE]
  /\ unblocked' = unblocked \ {r}
  /\ UNCHANGED <<resolver, reloading, static>>

\* RefreshFromHandshake: the block list goes, the list is not marked.
RefreshFromHandshake ==
  /\ rl.bad # {}
  /\ rl' = [rl EXCEPT !.bad = {}]
  /\ unblocked' = unblocked \cup rl.bad
  /\ UNCHANGED <<resolver, reloading, static>>

-----------------------------------------------------------------------------
(* The names of a static host.                                             *)

\* The addresses of a resolver: its literals and what it knows of its names.
Resolved(names, known) ==
  (names \cap Literal) \cup UNION {known[n] : n \in Hostname}

\* NewHostnameResults: literals at once, names with what the resolver before
\* it knew if it asked for the same kind of address.
NewHostnameResults(names, prev, sameNetwork) ==
  LET known == [n \in Hostname |->
        IF n \in names /\ prev # 0 /\ sameNetwork
             /\ n \in resolver[prev].names
        THEN resolver[prev].known[n] ELSE {}]
  IN [names |-> names, known |-> known,
      ips |-> Resolved(names, known),
      cancelled |-> FALSE,
      pc |-> IF names \cap Hostname = {} THEN "done" ELSE "resolve"]

\* hostnamesResults.Cancel, of no resolver too
Cancel(hr, rs) ==
  IF hr = 0 THEN rs ELSE [rs EXCEPT ![hr].cancelled = TRUE]

\* applyLookup: only a not found answer clears, an error keeps.
applyLookup(prev, answer) ==
  CASE answer.err = "other"    -> prev
    [] answer.err = "notFound" -> {}
    [] answer.err = "nil"      -> answer.addrs

\* resolve and storeKnown: every name is looked up.
Resolve(g, answer) ==
  /\ resolver[g].pc = "resolve"
  /\ LET r == resolver[g]
     IN resolver' = [resolver EXCEPT
          ![g].known = [n \in Hostname |->
             IF n \in r.names THEN applyLookup(r.known[n], answer[n]) ELSE {}],
          ![g].pc = "publish"]
  /\ UNCHANGED <<rl, reloading, static, unblocked>>

\* The rest of the turn: the addresses are swapped if they changed.
Publish(g) ==
  /\ resolver[g].pc = "publish"
  /\ LET r == resolver[g]
         ips == Resolved(r.names, r.known)
     IN resolver' = [resolver EXCEPT
          ![g].ips = ips,
          ![g].pc = IF ips # r.ips THEN "onUpdate" ELSE "wait"]
  /\ UNCHANGED <<rl, reloading, static, unblocked>>

\* The callback takes the list's lock.
onUpdate(g) ==
  /\ resolver[g].pc = "onUpdate"
  /\ resolver' = [resolver EXCEPT ![g].pc = "wait"]
  /\ rl' = [rl EXCEPT !.shouldRebuild = TRUE]
  /\ UNCHANGED <<reloading, static, unblocked>>

\* The ticker or ResolveNow; a cancelled goroutine may take this turn too.
ResolveAgain(g) ==
  /\ resolver[g].pc = "wait"
  /\ resolver' = [resolver EXCEPT ![g].pc = "resolve"]
  /\ UNCHANGED <<rl, reloading, static, unblocked>>

ResolverEnds(g) ==
  /\ resolver[g].pc = "wait" /\ resolver[g].cancelled
  /\ resolver' = [resolver EXCEPT ![g].pc = "done"]
  /\ UNCHANGED <<rl, reloading, static, unblocked>>

-----------------------------------------------------------------------------
(* LightHouse.reload of static_host_map, for this host.                    *)

\* ResetForOwner, on hosts that were static
ResetForOwner(entry, sameNetwork) ==
  /\ reloading.pc = "idle" /\ Len(resolver) < MaxResolvers
  /\ static # {} \/ entry # {}
  /\ reloading' = [pc |-> "load", entry |-> entry, sameNetwork |-> sameNetwork]
  /\ IF static = {} THEN UNCHANGED <<rl, resolver>>
     ELSE /\ rl' = [rl EXCEPT !.cache["ourselves"].reported =
                                  [f \in Family |-> <<>>],
                              !.shouldRebuild = TRUE]
          /\ resolver' = Cancel(rl.hr, resolver)
  /\ UNCHANGED <<static, unblocked>>

\* loadStaticMap fails on this or an earlier entry: the old list stays.
StaticLoadFails ==
  /\ reloading.pc = "load"
  /\ reloading' = [pc |-> "idle"]
  /\ UNCHANGED <<rl, resolver, static, unblocked>>

\* addStaticRemotes, and the new static list: only literals mark the list.
addStaticRemotes ==
  /\ reloading.pc = "load" /\ reloading.entry # {}
  /\ LET literals == (reloading.entry \cap Literal) \ DeniedRemote
     IN IF literals = {} THEN rl' = [rl EXCEPT !.hr = Len(resolver) + 1]
        ELSE rl' = [rl EXCEPT !.cache = Prepended(@, "ourselves", literals),
                              !.shouldRebuild = TRUE,
                              !.hr = Len(resolver) + 1]
  /\ resolver' = Append(Cancel(rl.hr, resolver), NewHostnameResults(
                          reloading.entry, rl.hr, reloading.sameNetwork))
  /\ static' = reloading.entry
  /\ reloading' = [pc |-> "idle"]
  /\ UNCHANGED unblocked

\* ClearHostnameResults: the host is no longer static.
ClearHostnameResults ==
  /\ reloading.pc = "load" /\ reloading.entry = {}
  /\ rl' = [rl EXCEPT !.hr = 0, !.shouldRebuild = TRUE]
  /\ resolver' = Cancel(rl.hr, resolver)
  /\ static' = {}
  /\ reloading' = [pc |-> "idle"]
  /\ UNCHANGED unblocked

-----------------------------------------------------------------------------

Lookup == [err : {"other", "notFound"}, addrs : {{}}]
            \cup [err : {"nil"}, addrs : Answers]

RemoteListNext ==
  \/ Rebuild
  \/ RefreshFromHandshake
  \/ \E r \in Heard : LearnRemote(r) \/ BlockRemote(r)
  \/ \E o \in Reporter, to \in Reports, v \in SUBSET RelayAddr :
       Reported(o, to, v)
  \/ \E f \in Family, to \in Reports : Calculated(f, to)
  \/ \E g \in 1..Len(resolver) :
       \/ \E answer \in [Hostname -> Lookup] : Resolve(g, answer)
       \/ Publish(g) \/ onUpdate(g) \/ ResolveAgain(g) \/ ResolverEnds(g)
  \/ \E entry \in SUBSET (Literal \cup Hostname), same \in BOOLEAN :
       ResetForOwner(entry, same)
  \/ StaticLoadFails
  \/ addStaticRemotes
  \/ ClearHostnameResults

RemoteListSpec == RemoteListInit /\ [][RemoteListNext]_rlVars

-----------------------------------------------------------------------------

\* A hostnamesResults and its goroutine, and a reload.
Resolver ==
  [names : SUBSET (Literal \cup Hostname), known : [Hostname -> SUBSET Remote],
   ips : SUBSET Remote, cancelled : BOOLEAN,
   pc : {"resolve", "publish", "onUpdate", "wait", "done"}]
Reload ==
  [pc : {"idle"}] \cup
  [pc : {"load"}, entry : SUBSET (Literal \cup Hostname), sameNetwork : BOOLEAN]

RemoteListTypeOK ==
  /\ DOMAIN rl = {"cache", "bad", "addrs", "relays", "shouldRebuild", "hr"}
  /\ rl.addrs \subseteq Remote
  /\ rl.shouldRebuild \in BOOLEAN
  /\ rl.hr \in 0..Len(resolver)
  /\ resolver \in Seq(Resolver)
  /\ reloading \in Reload
  /\ static \subseteq Literal \cup Hostname

\* A resolver has learned something it has not yet reported to the list.
Reporting(g) == resolver[g].pc \in {"publish", "onUpdate"}

\* A list that is not marked dirty lacks no address it could use, whatever
\* reloads and lookups were in flight, except one that was blocked and let
\* go again since the list was built (RefreshFromHandshake marks nothing).
\* And it holds no address that is blocked or that the socket cannot send to.
NothingMissing ==
  (~rl.shouldRebuild /\ \A g \in 1..Len(resolver) : ~Reporting(g)) =>
    /\ Collected \ rl.addrs \subseteq unblocked
    /\ rl.addrs \cap rl.bad = {}
    /\ rl.addrs \subseteq Usable
    /\ rl.relays = CollectedRelays

\* A host whose static_host_map entry has a literal that may be used has it
\* in every built list, through failed reloads, calculated remotes (which
\* overwrite the same slots) and lookups, unless it was blocked.
LiteralKept ==
  ~rl.shouldRebuild =>
    ((static \cap Literal \cap Usable) \ DeniedRemote)
      \ (rl.bad \cup unblocked) \subseteq rl.addrs

\* What Rebuild leaves: a list that is not marked for a rebuild lacks no
\* remote that may be used, nor a literal of the configuration.
RemotesKept == RemoteListTypeOK /\ NothingMissing /\ LiteralKept
=============================================================================
