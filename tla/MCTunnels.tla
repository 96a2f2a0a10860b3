------------------------------ MODULE MCTunnels ------------------------------
(* Small instances of what keeps, relays and replaces tunnels, for what     *)
(* eventually happens to them.  The parts share no state: a behaviour is    *)
(* one of one of them, the one part names, and the others stay where they   *)
(* started.                                                                 *)
EXTENDS ConnectionManager, Relay, PKI

CONSTANTS x, y, t1

VARIABLE part

Part == {"connection", "relay", "pki"}

mcVars == <<part, cmVars, relayVars, pkiVars>>

\* pki.go: a has a version 1 certificate and may get a new one, one of both
\* versions, other networks, or a key that does not fit; b has both versions.
Crt(id, v, key, nets) ==
  [id |-> id, version |-> v, curve |-> "25519", key |-> key, nets |-> nets,
   issuer |-> "ca", expired |-> FALSE, ca |-> FALSE]
Conf(key, blocks, init) ==
  [key |-> [kind |-> "pem", curve |-> "25519", pub |-> key], blocks |-> blocks,
   initiating |-> init, cipher |-> "aes", ca |-> Some({"ca"})]
A1 == Crt("a1", 1, "ka", <<"n1">>)
A1r == Crt("a1r", 1, "kr", <<"n1">>)
A2 == Crt("a2", 2, "ka", <<"n1">>)
A2m == Crt("a2m", 2, "ka", <<"n1", "n2">>)
A3 == Crt("a3", 2, "ka", <<"n3">>)
B1 == Crt("b1", 1, "kb", <<"m1">>)
B2 == Crt("b2", 2, "kb", <<"m1">>)
MCBoot == [a |-> Conf("ka", <<A1>>, 0), b |-> Conf("kb", <<B1, B2>>, 0)]
MCConfigs ==
  [a |-> {Conf("kr", <<A1r>>, 0), Conf("ka", <<A1, A2>>, 0),
          Conf("ka", <<A2m>>, 0), Conf("ka", <<A3>>, 0), Conf("kr", <<A1>>, 0)},
   b |-> {Conf("kb", <<B1, B2>>, 2),
          [Conf("kb", <<B1>>, 0) EXCEPT !.cipher = "chachapoly"]}]

-----------------------------------------------------------------------------

MCInit == part \in Part /\ ManagerInit /\ RelayInit /\ PKIInit

\* A step of part p.
Only(p) ==
  /\ part = p /\ UNCHANGED part
  /\ IF p = "connection" THEN TRUE ELSE UNCHANGED cmVars
  /\ IF p = "relay" THEN TRUE ELSE UNCHANGED relayVars
  /\ IF p = "pki" THEN TRUE ELSE UNCHANGED pkiVars

MCNext ==
  \/ Only("connection") /\ ManagerNext
  \/ Only("relay") /\ RelayNext
  \/ Only("pki") /\ PKINext

-----------------------------------------------------------------------------
(* The fairness of each part.  Only one of them takes steps, so that a      *)
(* formula may be about an action of each.                                  *)

MCNode == <<x, y>>
MCEnd == <<"a", "b">>

Served(k) ==
  \/ Only("connection") /\ doTrafficCheck(MCNode[k])
  \/ Only("relay") /\ StartRelays(MCEnd[k])

MCSpec ==
  /\ MCInit /\ [][MCNext]_mcVars
  /\ \A k \in 1..2 : WF_mcVars(Served(k))
  /\ \A n \in Node : SF_mcVars(Only("connection") /\ sendTraffic(n))
  /\ \A n \in Node, t \in Tunnel : SF_mcVars(Only("connection") /\ makeTrafficDecision(n, t))
  /\ WF_mcVars(Only("connection") /\ \E t \in Tunnel : completeHandshake(t) \/ timeOutHandshake(t))
  /\ \A m \in Message : WF_mcVars(Only("connection") /\ readOutsidePackets(m))
  /\ \A m \in RelayMessage : WF_mcVars(Only("relay") /\ m \in wire /\ Receive(m))
  /\ []<>(part = "pki" => AtRest) \/ []<><<TRUE>>_pkiVars

-----------------------------------------------------------------------------
(* The properties, of the part they are about.                             *)

\* RelayCarries of Relay: an end that keeps trying gets its handshake through.
MCRelayCarries == \A e \in Initiators : []<>(part = "relay" => linked[e])

\* A reload that changes the networks of a node is reported, and tunnels end up
\* with current certificates: NetworksChangeTold and TunnelsRotate of PKI.
MCTunnelsRotate ==
  []NetworksChangeTold /\ \A n \in Party : <>[](part = "pki" => CertCurrent(n))
=============================================================================
