------------------------------- MODULE Routes -------------------------------
(***************************************************************************)
(* The routes of the tun device (overlay/route.go, overlay/tun.go,         *)
(* overlay/tun_linux.go) and the choice among the gateways of one route    *)
(* (routing/gateway.go, routing/balance.go).                               *)
(*                                                                         *)
(* Two goroutines change the route tree that RoutesFor reads: a config     *)
(* reload replaces it, and the watcher of the system's route table stores  *)
(* a changed clone of it for every update.  The steps are the accesses of  *)
(* the shared state: the routesFromSystem map, under its lock, and the     *)
(* loads and stores of the tree.  A reload then brings the system's table  *)
(* in line; only it writes there, so its calls are one step, of which any  *)
(* may fail.                                                               *)
(*                                                                         *)
(* An address is a number of AddrBits bits and a prefix is one with a      *)
(* length.  The system's table is external: it holds one entry per prefix  *)
(* and metric, a replace overwrites it and a delete removes it.            *)
(***************************************************************************)
EXTENDS Integers, Sequences, FiniteSets, SequencesExt, Functions

CONSTANTS AddrBits,
          vpnNetworks,  \* the networks of the certificate, prefixes
          Boot,         \* the config the device is created with
          Configs,      \* the configs reloads find, [mtu, routes, unsafe]
          SystemDst,    \* destinations of routes others put in the system table
          SystemVia,    \* their paths, sequences of [gw, weight]
          MinMTU,       \* the smallest MTU of a route, 500 in the code
          MaxUnderlay,  \* overlay.MaxMTU
          MaxInt32,     \* the largest metric and weight
          Hashes,       \* hashPacket returns 0..Hashes - 1, 2^31 in the code
          MaxReload, MaxUpdate, MaxFail

VARIABLES conf,              \* the config last read
          Installed,         \* tun.Routes
          routeTree,         \* what RoutesFor looks up
          routesFromSystem,  \* learned by the watcher
          DefaultMTU, MaxMTU,
          table,             \* the system's entries for the device
          step,              \* where the goroutine of reloads is
          next,              \* what the running reload has built
          upd,               \* the update the watcher is applying
          failed,            \* a call to the system failed
          raced,             \* an update overlapped a reload
          reloads, updates

routesVars == <<conf, Installed, routeTree, routesFromSystem, DefaultMTU,
                MaxMTU, table, step, next, upd, failed, raced, reloads, updates>>

-----------------------------------------------------------------------------
\* Prefixes.
Masked(p) == [p EXCEPT !.addr = (@ \div 2^(AddrBits - p.bits))
                                  * 2^(AddrBits - p.bits)]
Within(p, a) == a \div 2^(AddrBits - p.bits) = p.addr \div 2^(AddrBits - p.bits)

-----------------------------------------------------------------------------
\* A gateway's bucket ends where its share of the hashes does.

loopWeight(gws, k) == FoldLeft(LAMBDA s, g : s + g.weight, 0, SubSeq(gws, 1, k))

divideAndRound(v, d) == (v + d \div 2) \div d

CalculateBucketsForGateways(gws) ==
    [k \in DOMAIN gws |->
        [gw |-> gws[k].gw, weight |-> gws[k].weight,
         bucketUpperBound |->
            divideAndRound(loopWeight(gws, k) * Hashes,
                           loopWeight(gws, Len(gws))) - 1]]

\* The gateway of a packet whose ports hash to h, and whether the buckets
\* told it.
BalancePacket(h, gws) ==
    LET fits == {k \in DOMAIN gws : h <= gws[k].bucketUpperBound}
    IN IF fits = {} THEN [addr |-> gws[(h % Len(gws)) + 1].gw, ok |-> FALSE]
       ELSE [addr |-> gws[CHOOSE k \in fits : \A j \in fits : k <= j].gw,
             ok |-> TRUE]

\* What becomes of a packet to an address outside the mesh: the gateway it is
\* sent to, or kept for until its handshake ends, and the gateways that a
\* handshake is asked with.  ready are the gateways with a tunnel, later those
\* with one at the last look, and up those not known to be down.
getOrHandshakeConsiderRouting(h, gws, ready, later, up) ==
    LET chosen == IF Len(gws) = 1 THEN gws[1].gw ELSE BalancePacket(h, gws).addr
        others == SelectSeq(gws, LAMBDA g : g.gw # chosen)
        found == {k \in DOMAIN others : others[k].gw \in ready}
        waits == [host |-> chosen, ready |-> chosen \in later, asked |-> {chosen}]
    IN IF Len(gws) > 1 /\ chosen \in ready
         THEN [host |-> chosen, ready |-> TRUE, asked |-> {chosen}]
       ELSE IF Len(gws) = 1 \/ chosen \in up THEN waits
       ELSE IF found = {} THEN [waits EXCEPT !.asked = {g.gw : g \in Range(gws)}]
       ELSE LET k == CHOOSE k \in found : \A j \in found : k <= j
            IN [host |-> others[k].gw, ready |-> TRUE,
                asked |-> {chosen} \cup {others[j].gw : j \in 1..k}]

-----------------------------------------------------------------------------
\* Parsing.  A raw entry is [ok, cidr, mtu, metric, via, install]; ok is
\* whether its fields are present and have their types.
RouteParses(r) ==
    /\ r.ok
    /\ r.mtu >= MinMTU
    /\ \E n \in vpnNetworks : Within(n, r.cidr.addr) /\ r.cidr.bits >= n.bits

GatewaysParse(via) == \A k \in DOMAIN via : via[k].weight \in 1..MaxInt32

UnsafeNumbersParse(r) ==
    /\ r.mtu = 0 \/ r.mtu >= MinMTU
    /\ r.metric \in 0..MaxInt32

UnsafeOutside(r) == \A n \in vpnNetworks : ~Within(n, r.cidr.addr)

UnsafeRouteParses(r) ==
    /\ r.ok
    /\ UnsafeNumbersParse(r)
    /\ GatewaysParse(r.via)
    /\ UnsafeOutside(r)

parseRoutes(c) ==
    [k \in DOMAIN c.routes |->
        [cidr |-> c.routes[k].cidr, mtu |-> c.routes[k].mtu, metric |-> 0,
         via |-> <<>>, install |-> TRUE]]

parseUnsafeRoutes(c) ==
    [k \in DOMAIN c.unsafe |->
        [cidr |-> c.unsafe[k].cidr, mtu |-> c.unsafe[k].mtu,
         metric |-> c.unsafe[k].metric, via |-> c.unsafe[k].via,
         install |-> c.unsafe[k].install]]

Parses(c) ==
    /\ \A k \in DOMAIN c.routes : RouteParses(c.routes[k])
    /\ \A k \in DOMAIN c.unsafe : UnsafeRouteParses(c.unsafe[k])

Least(a, b) == IF a < b THEN a ELSE b

getAllRoutesFromConfig(c) ==
    LET all == parseRoutes(c) \o parseUnsafeRoutes(c)
    IN [k \in DOMAIN all |-> [all[k] EXCEPT !.mtu = Least(@, MaxUnderlay)]]

RouteChange(c, old) == c.routes # old.routes \/ c.unsafe # old.unsafe

getMTU(c) == Least(c.mtu, MaxUnderlay)

\* The last entry of a prefix is the one used.
makeRouteTree(rs) ==
    LET with == {k \in DOMAIN rs : rs[k].via # <<>>}
        last(p) == CHOOSE k \in with :
                      /\ Masked(rs[k].cidr) = p
                      /\ \A j \in with : Masked(rs[j].cidr) = p => j <= k
    IN [p \in {Masked(rs[k].cidr) : k \in with} |->
           CalculateBucketsForGateways(rs[last(p)].via)]

\* g inserted into, or overwriting, f.
Over(f, g) ==
    [x \in DOMAIN f \cup DOMAIN g |-> IF x \in DOMAIN g THEN g[x] ELSE f[x]]

\* Routes without an MTU of their own take the default.
WithDefault(rs, default) ==
    [k \in DOMAIN rs |-> IF rs[k].mtu = 0 THEN [rs[k] EXCEPT !.mtu = default]
                         ELSE rs[k]]

LargestMTU(rs, default) ==
    LET all == {default} \cup {rs[k].mtu : k \in DOMAIN rs}
    IN CHOOSE m \in all : \A n \in all : n <= m

\* RoutesFor: the longest matching prefix.
RoutesFor(tree, a) ==
    LET match == {p \in DOMAIN tree : Within(p, a)}
    IN IF match = {} THEN <<>>
       ELSE tree[CHOOSE p \in match : \A q \in match : q.bits <= p.bits]

-----------------------------------------------------------------------------
\* The system's table.
Equal(r, t) == /\ r.cidr = t.cidr /\ r.metric = t.metric
               /\ r.mtu = t.mtu /\ r.install = t.install

findRemovedRoutes(new, old) ==
    SelectSeq(old, LAMBDA o : \A k \in DOMAIN new : ~Equal(new[k], o))

advMSS(mtu, default, max) ==
    LET m == IF mtu = 0 THEN default ELSE mtu IN IF m # max THEN m - 40 ELSE 0

Key(r) == <<Masked(r.cidr), r.metric>>

RouteReplace(t, k, v) == Over(t, [x \in {k} |-> v])
RouteDel(t, k) == Restrict(t, DOMAIN t \ {k})

\* The routes of a list that the system is asked about.
Asked(rs) == SelectSeq(rs, LAMBDA r : r.install)

setDefaultRoutes(t, default, max, bad) ==
    Over(t, [k \in {<<Masked(n), 0>> : n \in vpnNetworks \ bad} |->
                [mtu |-> default, adv |-> advMSS(0, default, max)]])

addRoutes(t, rs, default, max, bad) ==
    FoldLeft(LAMBDA u, r : IF r \in bad THEN u
                           ELSE RouteReplace(u, Key(r),
                                  [mtu |-> r.mtu,
                                   adv |-> advMSS(r.mtu, default, max)]),
             t, Asked(rs))

removeRoutes(t, rs, bad) ==
    FoldLeft(LAMBDA u, r : IF r \in bad THEN u ELSE RouteDel(u, Key(r)),
             t, Asked(rs))

\* Mutant of Refresh: the wanted routes are added first.
RefreshAddsFirst(t, new, old, default, max, badDel, badAdd) ==
    removeRoutes(addRoutes(t, new, default, max, badAdd),
                 findRemovedRoutes(new, old), badDel)

\* Routes that are gone are removed first, then all wanted ones are added.
Refresh(t, new, old, default, max, badDel, badAdd) ==
    addRoutes(removeRoutes(t, findRemovedRoutes(new, old), badDel),
              new, default, max, badAdd)

-----------------------------------------------------------------------------
Nothing == [dst |-> "none"]

\* newTun has run the initial reload.
RoutesInit ==
    /\ conf \in Boot
    /\ LET rs == getAllRoutesFromConfig(conf)
       IN /\ Installed = WithDefault(rs, getMTU(conf))
          /\ routeTree = makeRouteTree(rs)
          /\ DefaultMTU = getMTU(conf)
          /\ MaxMTU = LargestMTU(rs, getMTU(conf))
    /\ routesFromSystem = [p \in {} |-> <<>>]
    /\ table = [k \in {} |-> 0]
    /\ step = "new"
    /\ next = Nothing
    /\ upd = [at |-> "idle"]
    /\ failed = FALSE /\ raced = FALSE
    /\ reloads = 0 /\ updates = 0

\* Activate starts the watcher and sets up the system's table; a failure is
\* returned and the node does not start.
Activate ==
    /\ step = "new"
    /\ table' = addRoutes(setDefaultRoutes(table, DefaultMTU, MaxMTU, {}),
                          Installed, DefaultMTU, MaxMTU, {})
    /\ step' = "idle"
    /\ UNCHANGED <<conf, Installed, routeTree, routesFromSystem, DefaultMTU,
                   MaxMTU, next, upd, failed, raced, reloads, updates>>

ActivateFails ==
    /\ step = "new"
    /\ step' = "stopped"
    /\ failed' = TRUE
    /\ UNCHANGED <<conf, Installed, routeTree, routesFromSystem, DefaultMTU,
                   MaxMTU, table, next, upd, raced, reloads, updates>>

\* A reload that finds a config it cannot parse, or nothing new, ends here.
\* HasChanged compares with the config before, parsed or not.
ReloadReturns(c) ==
    /\ step = "idle"
    /\ reloads < MaxReload
    /\ \/ RouteChange(c, conf) /\ ~Parses(c)
       \/ ~RouteChange(c, conf) /\ c.mtu = conf.mtu
       \/ ~RouteChange(c, conf) /\ c.mtu # conf.mtu /\ ~Parses(c)
    /\ conf' = c
    /\ reloads' = reloads + 1
    /\ UNCHANGED <<Installed, routeTree, routesFromSystem, DefaultMTU, MaxMTU,
                   table, step, next, upd, failed, raced, updates>>

\* Brings along what was learned, under the lock.
BuiltTree(rs) == Over(makeRouteTree(rs), routesFromSystem)

ReloadBuilds(c) ==
    /\ step = "idle"
    /\ reloads < MaxReload
    /\ RouteChange(c, conf) \/ c.mtu # conf.mtu
    /\ Parses(c)
    /\ conf' = c
    /\ reloads' = reloads + 1
    /\ \E rs \in {getAllRoutesFromConfig(c)} :
         next' = [routes |-> WithDefault(rs, getMTU(c)), tree |-> BuiltTree(rs),
                  old |-> Installed, default |-> getMTU(c),
                  max |-> LargestMTU(rs, getMTU(c)),
                  oldDefault |-> DefaultMTU]
    /\ step' = "store"
    /\ raced' = (raced \/ upd.at # "idle")
    /\ UNCHANGED <<Installed, routeTree, routesFromSystem, DefaultMTU, MaxMTU,
                   table, upd, failed, updates>>

\* The routes and the tree are replaced.
ReloadStores ==
    /\ step = "store"
    /\ Installed' = next.routes
    /\ routeTree' = next.tree
    /\ DefaultMTU' = next.default
    /\ MaxMTU' = next.max
    /\ step' = "refresh"
    /\ UNCHANGED <<conf, routesFromSystem, table, next, upd, failed, raced,
                   reloads, updates>>

\* The calls to the system: the default routes when their MTU changed, then
\* removals, then additions.  Each may fail; the others are still made.
ReloadRefreshes ==
    /\ step = "refresh"
    /\ \E badNets \in SUBSET vpnNetworks,
          badDel \in SUBSET ToSet(next.old), badAdd \in SUBSET ToSet(next.routes) :
         /\ Cardinality(badNets) + Cardinality(badDel) + Cardinality(badAdd)
              <= IF failed THEN 0 ELSE MaxFail
         /\ failed' = (failed \/ badNets \cup badDel \cup badAdd # {})
         /\ \E t \in {IF next.oldDefault # DefaultMTU
                      THEN setDefaultRoutes(table, DefaultMTU, MaxMTU, badNets)
                      ELSE table} :
              table' = Refresh(t, next.routes, next.old, DefaultMTU, MaxMTU,
                               badDel, badAdd)
    /\ step' = "idle"
    /\ next' = Nothing
    /\ UNCHANGED <<conf, Installed, routeTree, routesFromSystem, DefaultMTU,
                   MaxMTU, upd, raced, reloads, updates>>

-----------------------------------------------------------------------------
\* The watcher.  A path counts when its gateway is in a VPN network.
isGatewayInVpnNetworks(a) == \E n \in vpnNetworks : Within(n, a)

getGatewaysFromRoute(via) ==
    CalculateBucketsForGateways(
        SelectSeq(via, LAMBDA g : isGatewayInVpnNetworks(g.gw)))

\* An update with no path of ours is ignored; for another the tree is cloned.
UpdateLoads(new, dst, via) ==
    /\ step \notin {"new", "stopped"}
    /\ upd.at = "idle"
    /\ updates < MaxUpdate
    /\ getGatewaysFromRoute(via) # <<>>
    /\ updates' = updates + 1
    /\ upd' = [at |-> "loaded", new |-> new, dst |-> dst,
               gateways |-> getGatewaysFromRoute(via), tree |-> routeTree]
    /\ raced' = (raced \/ step = "store")
    /\ UNCHANGED <<conf, Installed, routeTree, routesFromSystem, DefaultMTU,
                   MaxMTU, table, step, next, failed, reloads>>

\* The map and the clone change under the lock.
UpdateApplies ==
    /\ upd.at = "loaded"
    /\ \E g \in {[p \in {upd.dst} |-> upd.gateways]} :
         IF upd.new
         THEN /\ routesFromSystem' = Over(routesFromSystem, g)
              /\ upd' = [at |-> "applied", tree |-> Over(upd.tree, g)]
         ELSE /\ routesFromSystem' =
                   Restrict(routesFromSystem, DOMAIN routesFromSystem \ {upd.dst})
              /\ upd' = [at |-> "applied",
                         tree |-> Restrict(upd.tree, DOMAIN upd.tree \ {upd.dst})]
    /\ UNCHANGED <<conf, Installed, routeTree, DefaultMTU, MaxMTU, table, step,
                   next, failed, raced, reloads, updates>>

UpdateStores ==
    /\ upd.at = "applied"
    /\ routeTree' = upd.tree
    /\ upd' = [at |-> "idle"]
    /\ UNCHANGED <<conf, Installed, routesFromSystem, DefaultMTU, MaxMTU, table,
                   step, next, failed, raced, reloads, updates>>

RoutesNext ==
    \/ Activate
    \/ ActivateFails
    \/ \E c \in Configs : ReloadReturns(c) \/ ReloadBuilds(c)
    \/ ReloadStores
    \/ ReloadRefreshes
    \/ \E new \in BOOLEAN, dst \in SystemDst, via \in SystemVia :
          UpdateLoads(new, dst, via)
    \/ UpdateApplies
    \/ UpdateStores

RoutesSpec == RoutesInit /\ [][RoutesNext]_routesVars

-----------------------------------------------------------------------------
\* When a reload is over and no call to the system has failed, the system's
\* table holds the wanted routes, with the MTU and the MSS they are to have,
\* the routes of the VPN networks, and no other entry, whatever reloads came
\* before: entries that changed their MTU, metric or spelling included.
InstalledExact ==
    step = "idle" /\ ~failed =>
        LET own == {<<Masked(n), 0>> : n \in vpnNetworks}
            wanted == addRoutes([k \in {} |-> 0], Installed, DefaultMTU, MaxMTU, {})
        IN /\ DOMAIN table = own \cup DOMAIN wanted
           /\ \A k \in DOMAIN wanted : table[k] = wanted[k]
           /\ \A k \in own \ DOMAIN wanted : table[k].mtu = DefaultMTU

\* Where updates and reloads have not overlapped, every address is routed by
\* the longest match among the configured and the learned routes, and every
\* packet to it goes to one of the route's gateways that its buckets name,
\* each getting its share of the hashes to the nearest one.
RoutesServed ==
    step \notin {"store"} /\ upd.at = "idle" /\ ~raced =>
        /\ routeTree = Over(makeRouteTree(Installed), routesFromSystem)
        /\ \A a \in 0..(2^AddrBits - 1) :
             LET gws == RoutesFor(routeTree, a)
                 hit(g) == {h \in 0..(Hashes - 1) : BalancePacket(h, gws).addr = g.gw}
                 total == loopWeight(gws, Len(gws))
             IN gws # <<>> =>
                  /\ \A h \in 0..(Hashes - 1) : BalancePacket(h, gws).ok
                  /\ \A k \in DOMAIN gws :
                       LET off == Cardinality(hit(gws[k])) * total
                                    - gws[k].weight * Hashes
                       IN off <= total /\ -off <= total

\* A flow stays with the gateway its hash names unless that one has no tunnel
\* and is known to be down; it then goes to one that has a tunnel, if any has,
\* and its packets are never kept for any other.  The gateway of the hash is
\* asked in every case, so that one which is down is tried again.
FlowsKept ==
    \A via \in SystemVia, h \in 0..(Hashes - 1) :
        LET gws == CalculateBucketsForGateways(via)
            Gw == {g.gw : g \in Range(via)}
            own == BalancePacket(h, gws).addr
        IN \A ready, later, up \in SUBSET Gw :
             LET r == getOrHandshakeConsiderRouting(h, gws, ready, later, up)
             IN /\ own \in r.asked
                /\ r.host # own => r.ready /\ own \notin ready \cup up
                /\ ready # {} /\ own \notin up => r.host \in ready \/ Len(via) = 1
                /\ r.ready => r.host \in ready \cup later
=============================================================================
