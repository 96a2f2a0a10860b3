------------------------------ MODULE MCNetwork ------------------------------
(* Small instances of the tables that packets, control messages and         *)
(* reloads go through.  The parts share no state: a behaviour is one of one *)
(* of them, the one part names, and the others stay where they started.     *)
EXTENDS Firewall, FirewallRules, PeerNetworks, Relay, RemoteList, LightHouse,
        ConfigReload, Punchy

CONSTANTS p1, ra, rb, r1, r2, i1, i2

VARIABLE part

Part == {"firewall", "rules", "peer", "relay", "remotes", "lighthouse",
         "config", "punchy"}

-----------------------------------------------------------------------------
(* firewall.go: one flow, two routines of which one caches, and tables that *)
(* allow the flow in one direction each.                                    *)

MCAllows == [t \in RuleTable |-> {<<p1, t = ra>>}]

(* firewall.go: every kind of rule text next to a plain one.                *)

Port(form, lo, hi) == [form |-> form, lo |-> lo, hi |-> hi]
Text(form, names) == [form |-> form, names |-> names]
NoPort == Port("absent", 0, 0)
NoText == Text("absent", <<>>)
PlainRule ==
  [port |-> Port("any", 0, 0), code |-> NoPort, proto |-> "any",
   host |-> "h1", group |-> NoText, groups |-> NoText, cidr |-> "",
   local_cidr |-> "", ca_name |-> "", ca_sha |-> ""]
MCPorts ==
  {Port(f, 0, 0) : f \in {"any", "fragment", "text", "number"}} \cup
  {Port("number", 1, 1), Port("number", 9, 9)} \cup
  {Port("range", 1, 2), Port("range", 2, 1), Port("range", 0, 1)}
MCGroups ==
  {NoText, Text("null", <<>>), Text("array", <<>>),
   Text("array", <<"g1", "g2">>), Text("array", <<"any", "g2">>)} \cup
  {Text("value", <<g>>) : g \in {"g1", "any", "<date>", ""}}
MCRawRule ==
  {[PlainRule EXCEPT !.port = p] : p \in MCPorts} \cup
  {[PlainRule EXCEPT !.port = p, !.proto = pr] :
     p \in {NoPort, Port("number", 1, 1)}, pr \in {"tcp", "icmp", "x"}} \cup
  {[PlainRule EXCEPT !.port = NoPort, !.code = Port("number", 1, 1),
                     !.proto = "tcp"],
   [PlainRule EXCEPT !.code = Port("number", 1, 1)]} \cup
  {[PlainRule EXCEPT !.group = a, !.groups = b, !.host = ""] :
     a \in MCGroups,
     b \in {NoText, Text("null", <<>>), Text("array", <<"g1", "g2">>)}} \cup
  {[PlainRule EXCEPT !.groups = Text("value", <<"g1">>), !.host = h,
                     !.cidr = c] :
     h \in {"", "h1", "any"}, c \in {"", "rnet", "any", "junk"}} \cup
  {[PlainRule EXCEPT !.local_cidr = l, !.cidr = "rnet", !.host = ""] :
     l \in {"", "lnet", "any", "junk"}} \cup
  {[PlainRule EXCEPT !.ca_name = n, !.ca_sha = s] :
     n \in {"", "ca1"}, s \in {"", "s1", "s2"}}
MCPacket ==
  [Protocol : {"tcp", "icmp"}, LocalPort : {1, 2}, RemotePort : {2},
   Fragment : {FALSE}, RemoteAddr : {"r1", "r2"}, LocalAddr : {"l1", "l2"}] \cup
  [Protocol : {"tcp"}, LocalPort : {0}, RemotePort : {0},
   Fragment : {TRUE}, RemoteAddr : {"r1"}, LocalAddr : {"l1"}]
MCCert ==
  [name : {"h1"}, groups : {{}, {"g1"}, {"g1", "g2"}}, issuer : {"s1"}] \cup
  [name : {"h2"}, groups : {{"g2"}}, issuer : {"s1", "s2"}]
MCPrefix == [rnet |-> {"r1"}, lnet |-> {"l1"}, mine |-> {"l2"}]
MCCAName == [s1 |-> "ca1"]

(* hostmap.go: all lists of prefixes over two address bits.                 *)

(* relay_manager.go: one end asks for the other; its tunnel to the relay is *)
(* replaced once and a message is lost.                                     *)

(* remote_list.go: an address of each kind, a name, and a list that is full *)
(* with one address.                                                        *)

MCReports == {<<"denied", "resolved">>}

(* lighthouse.go: a peer with an address of each family and a lighthouse.   *)

MCAddrs == [a |-> <<"a4", "a6">>, l |-> <<"l4">>]
MCNetworkOf == [a4 |-> "n4", l4 |-> "n4", a6 |-> "n6"]

(* config.go: a key of four sections, two good values.                      *)

(* punchy.go: more jobs than items and queue hold.                          *)

-----------------------------------------------------------------------------

\* A part that begins with one of many inputs stays out of the others.
PeerOff ==
  /\ myVpnNetworks = {} /\ peerAddrs = {} /\ peerUnsafe = {}
  /\ networks = << >>

Init ==
  /\ part \in Part
  /\ FirewallInit /\ (part = "firewall" \/ firewall.rules = ra)
  /\ RulesInit
  /\ IF part = "peer" THEN PeerInit ELSE PeerOff
  /\ RelayInit
  /\ RemoteListInit
  /\ LightHouseInit /\ (part = "lighthouse" \/ amLighthouse)
  /\ ConfigInit /\ (part = "config" \/ settings["firewall"] = "v1")
  /\ NewScheduler /\ (part = "punchy" \/ respond)

\* A step of part p.
Only(p) ==
  /\ part = p /\ UNCHANGED part
  /\ IF p = "firewall" THEN TRUE ELSE UNCHANGED fwVars
  /\ IF p = "rules" THEN TRUE ELSE UNCHANGED ruleVars
  /\ IF p = "peer" THEN TRUE ELSE UNCHANGED peerVars
  /\ IF p = "relay" THEN TRUE ELSE UNCHANGED relayVars
  /\ IF p = "remotes" THEN TRUE ELSE UNCHANGED rlVars
  /\ IF p = "lighthouse" THEN TRUE ELSE UNCHANGED lhVars
  /\ IF p = "config" THEN TRUE ELSE UNCHANGED crVars
  /\ IF p = "punchy" THEN TRUE ELSE UNCHANGED punchVars

Next ==
  \/ Only("firewall") /\ FirewallNext
  \/ Only("rules") /\ RulesNext
  \/ Only("peer") /\ PeerNext
  \/ Only("relay") /\ RelayNext
  \/ Only("remotes") /\ RemoteListNext
  \/ Only("lighthouse") /\ LightHouseNext
  \/ Only("config") /\ ConfigNext
  \/ Only("punchy") /\ PunchNext
=============================================================================
