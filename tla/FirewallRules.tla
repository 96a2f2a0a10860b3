---------------------------- MODULE FirewallRules ----------------------------
(***************************************************************************)
(* From the rules of the configuration to the decision about a packet      *)
(* (firewall.go): convertRule and AddFirewallRulesFromConfig read a rule,  *)
(* AddRule merges it into the nested tables protocol -> port -> CA ->      *)
(* group, host or network -> local network, and match walks them.  The     *)
(* tables are maps of shared objects, so what one rule adds is found by    *)
(* packets of another; the reference says what one rule means, on its own. *)
(*                                                                         *)
(* Text is parsed by what it means: a port specification is a record of    *)
(* its form and numbers, a network is the set of its addresses by name.    *)
(***************************************************************************)
EXTENDS Integers, Sequences

CONSTANTS
  RawRule,         \* rules the configuration may hold
  RulePacket,      \* packets
  PeerCert,        \* certificates of the peer
  Prefix,          \* name of a network -> its addresses
  AssignedNets,    \* networks of our own certificate
  UnsafeNets,      \* its unsafe networks
  DefaultLocalAny, \* firewall.default_local_cidr_any
  CAName,          \* issuer -> name of the CA, for the issuers in the pool
  MaxPort,         \* 65535
  MaxRules         \* bound: rules

VARIABLES
  source,   \* direction -> rules read so far
  tables,   \* direction -> FirewallTable
  refused   \* the configuration was refused

ruleVars == <<source, tables, refused>>

ASSUME RulesAssumption ==
  /\ \A raw \in RawRule :
       /\ raw.group.names \in Seq(STRING) /\ raw.groups.names \in Seq(STRING)
       /\ raw.port.lo \in Nat /\ raw.port.hi \in Nat
       /\ raw.code.lo \in Nat /\ raw.code.hi \in Nat
  /\ \A p \in RulePacket : p.LocalPort \in Nat /\ p.RemotePort \in Nat
  /\ "" \notin DOMAIN Prefix

PortAny == 0
PortFragment == -1
Error == [err |-> TRUE]
EmptyMap == << >>

-----------------------------------------------------------------------------
(* Reading a rule.                                                         *)

\* parsePort and parsePortValue; a form is any, fragment, number, range or
\* text, which is what has no number where one is needed.
parsePort(s) ==
  CASE s.form = "any" -> [err |-> FALSE, start |-> PortAny, end |-> PortAny]
    [] s.form = "fragment" ->
         [err |-> FALSE, start |-> PortFragment, end |-> PortFragment]
    [] s.form \in {"number", "range"} /\ s.lo <= MaxPort /\ s.hi <= MaxPort ->
         [err |-> FALSE, start |-> s.lo,
          end |-> IF s.lo = PortAny THEN PortAny ELSE s.hi]
    [] OTHER -> Error

\* groupName: strings, ints and bools are names; null, arrays, maps and
\* what YAML read as something else are not.
groupName(v) == IF v \in {"<null>", "<array>", "<map>", "<date>"}
                THEN Error ELSE [err |-> FALSE, name |-> v]

Given(g) == g.form \notin {"absent", "null"}

\* The value of `group': <<>> when there is none.
SingleGroup(g) ==
  IF ~Given(g) THEN [err |-> FALSE, groups |-> <<>>]
  ELSE IF Len(g.names) # 1 \/ groupName(g.names[1]).err THEN Error
  ELSE [err |-> FALSE, groups |-> IF g.names[1] = "" THEN <<>> ELSE g.names]

\* The value of `groups'; a scalar is a list of one.
ManyGroups(g) ==
  IF ~Given(g) THEN [err |-> FALSE, groups |-> <<>>]
  ELSE IF \E i \in DOMAIN g.names : groupName(g.names[i]).err THEN Error
  ELSE [err |-> FALSE, groups |-> g.names]

\* convertRule: group and groups flattened, a null one refused where it
\* would leave the rule without a selector.
convertRule(raw) ==
  LET one == SingleGroup(raw.group)
      many == ManyGroups(raw.groups)
      groups == one.groups \o many.groups
  IN  IF one.err \/ many.err THEN Error
      ELSE IF one.groups # <<>> /\ many.groups # <<>> THEN Error
      ELSE IF /\ groups = <<>> /\ raw.host = "" /\ raw.cidr = ""
              /\ "null" \in {raw.group.form, raw.groups.form} THEN Error
      ELSE [err |-> FALSE, groups |-> groups]

ParsesCidr(s) == s \in {"", "any"} \cup DOMAIN Prefix

\* One rule of AddFirewallRulesFromConfig up to AddRule: the arguments of
\* the call, or the error.
ReadRule(raw) ==
  LET r == convertRule(raw)
      spec == IF raw.code.form # "absent" THEN raw.code ELSE raw.port
      ports == IF raw.proto = "icmp"
               THEN [err |-> FALSE, start |-> PortAny, end |-> PortAny]
               ELSE parsePort(spec)
  IN  IF r.err THEN Error
      ELSE IF \/ raw.code.form # "absent" /\ raw.port.form # "absent"
              \/ /\ raw.host = "" /\ r.groups = <<>> /\ raw.cidr = ""
                 /\ raw.local_cidr = "" /\ raw.ca_name = "" /\ raw.ca_sha = ""
              \/ raw.proto \notin {"any", "tcp", "udp", "icmp"}
              \/ ports.err
              \/ ~ParsesCidr(raw.cidr) \/ ~ParsesCidr(raw.local_cidr)
              \/ ports.start > ports.end
      THEN Error
      ELSE [err |-> FALSE, proto |-> raw.proto, start |-> ports.start,
            end |-> ports.end, groups |-> r.groups, host |-> raw.host,
            cidr |-> raw.cidr, localCidr |-> raw.local_cidr,
            caName |-> raw.ca_name, caSha |-> raw.ca_sha]

Names(groups) == {groups[i] : i \in DOMAIN groups}

-----------------------------------------------------------------------------
(* The tables.                                                             *)

NewLocalCIDR == [Any |-> FALSE, nets |-> {}]
NewRule == [Any |-> NewLocalCIDR, Groups |-> {}, Hosts |-> EmptyMap,
            CIDR |-> EmptyMap]
NewCA == [Any |-> NewRule, CANames |-> EmptyMap, CAShas |-> EmptyMap]
NewTable == [proto \in {"any", "tcp", "udp", "icmp"} |-> EmptyMap]

Get0(map, key, zero) == IF key \in DOMAIN map THEN map[key] ELSE zero
Put(map, key, value) ==
  [k \in DOMAIN map \cup {key} |-> IF k = key THEN value ELSE map[k]]

\* firewallLocalCIDR.addRule
LocalCIDRAddRule(flc, localCidr) ==
  IF localCidr = "any" \/
     (localCidr = "" /\ (UnsafeNets = {} \/ DefaultLocalAny))
  THEN [flc EXCEPT !.Any = TRUE]
  ELSE IF localCidr = "" THEN [flc EXCEPT !.nets = @ \cup AssignedNets]
  ELSE [flc EXCEPT !.nets = @ \cup {localCidr}]

\* FirewallRule.isAny
isAny(r) == \/ r.groups = <<>> /\ r.host = "" /\ r.cidr = ""
            \/ "any" \in Names(r.groups) \/ r.host = "any" \/ r.cidr = "any"

\* FirewallRule.addRule: a group list gets an entry of its own, a host or a
\* network shares the one it has.
RuleAddRule(fr, r) ==
  IF isAny(r) THEN [fr EXCEPT !.Any = LocalCIDRAddRule(@, r.localCidr)]
  ELSE [fr EXCEPT
    !.Groups = IF r.groups = <<>> THEN @
               ELSE @ \cup {[groups |-> r.groups,
                             local |-> LocalCIDRAddRule(NewLocalCIDR,
                                                        r.localCidr)]},
    !.Hosts = IF r.host = "" THEN @
              ELSE Put(@, r.host, LocalCIDRAddRule(
                     Get0(@, r.host, NewLocalCIDR), r.localCidr)),
    !.CIDR = IF r.cidr = "" THEN @
             ELSE Put(@, r.cidr, LocalCIDRAddRule(
                    Get0(@, r.cidr, NewLocalCIDR), r.localCidr))]

\* FirewallCA.addRule: both CA selectors get the rule.
CAAddRule(fc, r) ==
  IF r.caSha = "" /\ r.caName = ""
  THEN [fc EXCEPT !.Any = RuleAddRule(@, r)]
  ELSE [fc EXCEPT
    !.CAShas = IF r.caSha = "" THEN @
               ELSE Put(@, r.caSha, RuleAddRule(Get0(@, r.caSha, NewRule), r)),
    !.CANames = IF r.caName = "" THEN @
                ELSE Put(@, r.caName,
                         RuleAddRule(Get0(@, r.caName, NewRule), r))]

\* firewallPort.addRule
PortAddRule(fp, r) ==
  [i \in DOMAIN fp \cup r.start..r.end |->
     IF i \in r.start..r.end THEN CAAddRule(Get0(fp, i, NewCA), r) ELSE fp[i]]

\* Firewall.AddRule
AddRule(ft, r) == [ft EXCEPT ![r.proto] = PortAddRule(@, r)]

-----------------------------------------------------------------------------
(* The match.                                                              *)

In(addr, nets) == \E n \in nets : addr \in Prefix[n]

\* firewallLocalCIDR.match
LocalCIDRMatch(flc, p) == flc.Any \/ In(p.LocalAddr, flc.nets)

\* FirewallRule.match
RuleMatch(fr, p, c) ==
  \/ LocalCIDRMatch(fr.Any, p)
  \/ \E g \in fr.Groups : /\ Names(g.groups) \subseteq c.groups
                          /\ LocalCIDRMatch(g.local, p)
  \/ c.name \in DOMAIN fr.Hosts /\ LocalCIDRMatch(fr.Hosts[c.name], p)
  \/ \E n \in DOMAIN fr.CIDR : /\ p.RemoteAddr \in Prefix[n]
                               /\ LocalCIDRMatch(fr.CIDR[n], p)

\* FirewallCA.match; a name is looked up only for an issuer in the pool.
CAMatch(fc, p, c) ==
  \/ RuleMatch(fc.Any, p, c)
  \/ c.issuer \in DOMAIN fc.CAShas /\ RuleMatch(fc.CAShas[c.issuer], p, c)
  \/ /\ c.issuer \in DOMAIN CAName
     /\ CAName[c.issuer] \in DOMAIN fc.CANames
     /\ RuleMatch(fc.CANames[CAName[c.issuer]], p, c)

PortOf(p, incoming) ==
  IF p.Fragment THEN PortFragment
  ELSE IF incoming THEN p.LocalPort ELSE p.RemotePort

\* Mutant of PortMatch: a packet of ICMP is matched by its port fields.
PortMatchAll(fp, p, incoming, c) ==
  \E i \in {PortAny, PortOf(p, incoming)} :
    i \in DOMAIN fp /\ CAMatch(fp[i], p, c)

\* firewallPort.match
PortMatch(fp, p, incoming, c) ==
  \E i \in {PortAny} \cup (IF p.Protocol = "icmp" THEN {}
                           ELSE {PortOf(p, incoming)}) :
    i \in DOMAIN fp /\ CAMatch(fp[i], p, c)

\* FirewallTable.match
match(ft, p, incoming, c) ==
  \E proto \in {"any", p.Protocol} :
    proto \in DOMAIN ft /\ PortMatch(ft[proto], p, incoming, c)

-----------------------------------------------------------------------------
(* Loading a configuration.                                                *)

RulesInit ==
  /\ source = [d \in BOOLEAN |-> <<>>]
  /\ tables = [d \in BOOLEAN |-> NewTable]
  /\ refused = FALSE

Read == Len(source[TRUE]) + Len(source[FALSE])

\* The next rule of a direction; the outbound ones are read first.
AddFirewallRule(incoming, raw) ==
  LET r == ReadRule(raw)
  IN  /\ ~refused
      /\ Read < MaxRules
      /\ ~incoming => source[TRUE] = <<>>
      /\ refused' = r.err
      /\ source' = [source EXCEPT ![incoming] = Append(@, raw)]
      /\ tables' = IF r.err THEN tables
                   ELSE [tables EXCEPT ![incoming] = AddRule(@, r)]

RulesNext ==
  \E incoming \in BOOLEAN, raw \in RawRule : AddFirewallRule(incoming, raw)

-----------------------------------------------------------------------------
(* What a rule says, on its own: the reference.                            *)

SelectsPort(raw, p, incoming) ==
  LET s == IF raw.code.form = "absent" THEN raw.port ELSE raw.code
      numbered == s.form \in {"number", "range"}
  IN  \/ s.form = "any" \/ (numbered /\ s.lo = 0)
      \/ p.Protocol = "icmp" /\ raw.proto = "icmp"
      \/ p.Protocol # "icmp" /\ s.form = "fragment" /\ p.Fragment
      \/ /\ p.Protocol # "icmp" /\ numbered /\ ~p.Fragment
         /\ PortOf(p, incoming) \in s.lo..s.hi

GroupsOf(raw) ==
  (IF Given(raw.group) THEN Names(raw.group.names) \ {""} ELSE {}) \cup
  (IF Given(raw.groups) THEN Names(raw.groups.names) ELSE {})

SelectsPeer(raw, p, c) ==
  LET groups == GroupsOf(raw)
  IN  \/ groups = {} /\ raw.host = "" /\ raw.cidr = ""
         /\ "null" \notin {raw.group.form, raw.groups.form}
      \/ "any" \in groups \cup {raw.host, raw.cidr}
      \/ groups # {} /\ groups \subseteq c.groups
      \/ raw.host # "" /\ raw.host = c.name
      \/ raw.cidr \in DOMAIN Prefix /\ p.RemoteAddr \in Prefix[raw.cidr]

SelectsCA(raw, c) ==
  \/ raw.ca_sha = "" /\ raw.ca_name = ""
  \/ raw.ca_sha # "" /\ raw.ca_sha = c.issuer
  \/ /\ raw.ca_name # ""
     /\ c.issuer \in DOMAIN CAName /\ raw.ca_name = CAName[c.issuer]

SelectsLocal(raw, p) ==
  \/ raw.local_cidr = "any"
  \/ raw.local_cidr = "" /\ (UnsafeNets = {} \/ DefaultLocalAny)
  \/ In(p.LocalAddr, IF raw.local_cidr = "" THEN AssignedNets
                     ELSE {raw.local_cidr} \cap DOMAIN Prefix)

\* "port AND proto AND (ca_sha OR ca_name) AND (host OR group OR groups OR
\* cidr) AND local_cidr"
Selects(raw, p, incoming, c) ==
  /\ raw.proto \in {"any", p.Protocol}
  /\ SelectsPort(raw, p, incoming) /\ SelectsCA(raw, c)
  /\ SelectsPeer(raw, p, c) /\ SelectsLocal(raw, p)

-----------------------------------------------------------------------------
(* Properties.                                                             *)

\* The merged tables let a packet through exactly when one of the rules
\* does so by itself: no two rules combine into one nobody wrote, and the
\* order of the rules does not matter.
MatchIsSomeRule ==
  ~refused /\ Read # 0 => \A in \in BOOLEAN, p \in RulePacket, c \in PeerCert :
    match(tables[in], p, in, c) <=>
      \E i \in DOMAIN source[in] : Selects(source[in][i], p, in, c)
=============================================================================
