-------------------------- MODULE ConnectionManager --------------------------
(***************************************************************************)
(* The connection managers (connection_manager.go) of two nodes that have  *)
(* tunnels with each other, and the messages that keep a tunnel alive or   *)
(* end it (outside.go).                                                    *)
(*                                                                         *)
(* Each node checks each of its tunnels when its timer entry expires.  The *)
(* decision is made under the hostmap's read lock and carried out after    *)
(* it, so it is a state of its own here.  The nodes may have several       *)
(* tunnels, because both may start a handshake at once, and may disagree   *)
(* about which one is primary; the managers are to bring them back to one. *)
(*                                                                         *)
(* A tunnel has the same name on both nodes.  Relay migration is the relay *)
(* manager's; a punch has no effect here.                                  *)
(***************************************************************************)
EXTENDS Integers, Sequences, FiniteSets

CONSTANTS
  Node,        \* the two nodes
  Lower,       \* the one with the lower vpn address
  Tunnel,
  Outdated,    \* tunnels whose certificate the lower node has since replaced,
               \* or whose counter is past the rehandshake threshold
  Spendable,   \* tunnels whose certificate may become invalid, or whose
               \* counter may be exhausted, before any check
  RecvErrors,  \* the nodes that send recv_errors
  DropInactive,\* tunnels.drop_inactive
  MaxLosses,   \* bound: so many messages may get lost
  MaxInFlight, \* bound: no new traffic while so many messages are on the way
  NoTunnel

ASSUME ConnectionAssumption ==
  /\ IsFiniteSet(Node) /\ Cardinality(Node) = 2 /\ Lower \in Node
  /\ {"no", "done"} \cap Node = {}
  /\ Outdated \subseteq Tunnel /\ Spendable \subseteq Tunnel
  /\ RecvErrors \subseteq Node /\ DropInactive \in BOOLEAN
  /\ MaxLosses \in Nat
  /\ MaxInFlight \in Nat \ {0} /\ NoTunnel \notin Tunnel

VARIABLES
  tunnels,   \* per node: hostmap, the tunnels with the peer, primary first
  stateIn, stateOut, \* per node: tunnels with those bits set
  pendingDeletion,   \* per node: tunnels with statePendingDeletion set
  trafficTimer,      \* per node: tunnels with an entry in it
  decision,  \* per node: the decision that doTrafficCheck is carrying out
  net,       \* messages on their way
  answered,  \* per tunnel: the node that has answered its handshake, or "no"
             \* before that, or "done"
  losses,    \* messages lost so far
  tested     \* history: per node, tunnels a test packet was sent on since
             \* traffic was last seen

bits == <<stateIn, stateOut, pendingDeletion>>
cmVars == <<tunnels, stateIn, stateOut, pendingDeletion, trafficTimer, decision,
            net, answered, losses, tested>>

Peer(n) == CHOOSE m \in Node : m # n

Members(list) == {list[k] : k \in DOMAIN list}
Has(n) == Members(tunnels[n])
IsPrimary(n, t) == tunnels[n] # <<>> /\ tunnels[n][1] = t

\* The list, which has no entry twice, without its entry for t.
Without(list, t) ==
  LET k == CHOOSE k \in DOMAIN list : list[k] = t
  IN  IF t \notin Members(list) THEN list
      ELSE [i \in 1..(Len(list) - 1) |-> IF i < k THEN list[i] ELSE list[i + 1]]

NoDecision == [what |-> "doNothing", tunnel |-> NoTunnel, primary |-> NoTunnel]
Decide(what, t, p) == [what |-> what, tunnel |-> t, primary |-> p]

Message == [kind : {"data", "test", "close", "recvError"}, to : Node,
            tunnel : Tunnel]

\* A test reply does to the receiver what any data does.
Send(kind, to, t) == net \cup {[kind |-> kind, to |-> to, tunnel |-> t]}

ManagerInit ==
  /\ tunnels = [n \in Node |-> <<>>]
  /\ stateIn = [n \in Node |-> {}] /\ stateOut = [n \in Node |-> {}]
  /\ pendingDeletion = [n \in Node |-> {}] /\ trafficTimer = [n \in Node |-> {}]
  /\ decision = [n \in Node |-> NoDecision]
  /\ net = {} /\ answered = [t \in Tunnel |-> "no"]
  /\ losses = 0 /\ tested = [n \in Node |-> {}]

Marked(set, n, t) == [set EXCEPT ![n] = @ \cup {t}]
Cleared(set, n, t) == [set EXCEPT ![n] = @ \ {t}]

-----------------------------------------------------------------------------
(* The hostmap and the handshakes, as far as they matter here.             *)

\* unlockedAddHostInfo: the new tunnel is the primary, counts as used and
\* gets its timer entry.
addTunnel(n, t) ==
  /\ tunnels' = [tunnels EXCEPT ![n] = <<t>> \o @]
  /\ stateOut' = Marked(stateOut, n, t)
  /\ trafficTimer' = Marked(trafficTimer, n, t)

\* A node answers a handshake of its peer, which has one under way at most ...
answerHandshake(n, t) ==
  /\ answered[t] = "no" /\ \A u \in Tunnel : answered[u] # n
  /\ addTunnel(n, t)
  /\ answered' = [answered EXCEPT ![t] = n]
  /\ UNCHANGED <<stateIn, pendingDeletion, decision, net, losses, tested>>

\* ... and the peer completes it when the answer arrives ...
completeHandshake(t) ==
  /\ answered[t] \in Node
  /\ addTunnel(Peer(answered[t]), t)
  /\ answered' = [answered EXCEPT ![t] = "done"]
  /\ UNCHANGED <<stateIn, pendingDeletion, decision, net, losses, tested>>

\* ... or gives up when it does not.
timeOutHandshake(t) ==
  /\ answered[t] \in Node
  /\ answered' = [answered EXCEPT ![t] = "done"]
  /\ UNCHANGED <<tunnels, bits, trafficTimer, decision, net, losses, tested>>

\* closeTunnel; what the object's flags say is of no interest afterwards.
closeTunnel(n, t) ==
  /\ tunnels' = [tunnels EXCEPT ![n] = Without(@, t)]
  /\ stateIn' = Cleared(stateIn, n, t) /\ stateOut' = Cleared(stateOut, n, t)
  /\ pendingDeletion' = Cleared(pendingDeletion, n, t) /\ tested' = Cleared(tested, n, t)

-----------------------------------------------------------------------------
(* doTrafficCheck.                                                         *)

\* Only the node with the lower address swaps, and not back to an outdated
\* tunnel.
shouldSwapPrimary(n, t) == n = Lower /\ t \notin Outdated

\* The intervals are longer than a round trip: a tunnel is checked when the
\* answer to its handshake, and what was sent on it, has arrived or is lost.
Timely(t) == answered[t] \notin Node /\ ~\E m \in net : m.tunnel = t

\* makeTrafficDecision: the tunnel is gone ...
checkGone(n, t) ==
  /\ t \notin Has(n)
  /\ trafficTimer' = Cleared(trafficTimer, n, t)
  /\ UNCHANGED <<bits, tested, decision>>

\* ... or its certificate is invalid (the peer is told) or its counter
\* exhausted (the peer cannot be told).
checkSpent(n, t) ==
  /\ t \in Has(n) \cap Spendable
  /\ \E what \in {"closeTunnel", "deleteTunnel"} :
       decision' = [decision EXCEPT ![n] = Decide(what, t, NoTunnel)]
  /\ trafficTimer' = Cleared(trafficTimer, n, t)
  /\ UNCHANGED <<bits, tested>>

\* Mutant of checkAlive: the tunnel stays marked for deletion.
AliveStillPending(n, t) ==
  /\ t \in stateIn[n]
  /\ stateIn' = Cleared(stateIn, n, t) /\ stateOut' = Cleared(stateOut, n, t)
  /\ UNCHANGED <<pendingDeletion, tested, decision, trafficTimer>>

\* There was inbound traffic.  The rehandshake that may follow is one of the
\* handshakes that can start at any time.
checkAlive(n, t) ==
  /\ t \in stateIn[n]
  /\ stateIn' = Cleared(stateIn, n, t) /\ stateOut' = Cleared(stateOut, n, t)
  /\ pendingDeletion' = Cleared(pendingDeletion, n, t) /\ tested' = Cleared(tested, n, t)
  /\ decision' = IF ~IsPrimary(n, t) /\ shouldSwapPrimary(n, t)
                 THEN [decision EXCEPT ![n] =
                         Decide("swapPrimary", t, tunnels[n][1])]
                 ELSE decision
  /\ UNCHANGED trafficTimer

checkDead(n, t) ==
  /\ t \notin stateIn[n] /\ t \in pendingDeletion[n]
  /\ stateOut' = Cleared(stateOut, n, t)
  /\ decision' = [decision EXCEPT ![n] = Decide("deleteTunnel", t, NoTunnel)]
  /\ trafficTimer' = Cleared(trafficTimer, n, t)
  /\ UNCHANGED <<stateIn, pendingDeletion, tested>>

\* Mutant of checkUnused: returns before the timer entry is added.
UnusedForgotten(n, t) ==
  /\ IsPrimary(n, t) /\ t \notin stateIn[n] \cup stateOut[n] \cup pendingDeletion[n]
  /\ trafficTimer' = Cleared(trafficTimer, n, t)
  /\ UNCHANGED <<bits, tested, decision>>

\* An unused primary is kept, unless inactive tunnels are dropped.
checkUnused(n, t) ==
  /\ IsPrimary(n, t) /\ t \notin stateIn[n] \cup stateOut[n] \cup pendingDeletion[n]
  /\ \/ UNCHANGED <<decision, trafficTimer>>
     \/ /\ DropInactive
        /\ decision' = [decision EXCEPT ![n] = Decide("closeTunnel", t, NoTunnel)]
        /\ trafficTimer' = Cleared(trafficTimer, n, t)
  /\ UNCHANGED <<bits, tested>>

\* Mutant of checkUnheard: tests, and forgets that it did.
TestsForever(n, t) ==
  /\ t \notin stateIn[n] \cup pendingDeletion[n] /\ (IsPrimary(n, t) => t \in stateOut[n])
  /\ stateOut' = Cleared(stateOut, n, t)
  /\ decision' = IF IsPrimary(n, t)
                 THEN [decision EXCEPT ![n] = Decide("sendTestPacket", t, NoTunnel)]
                 ELSE decision
  /\ UNCHANGED <<stateIn, pendingDeletion, trafficTimer, tested>>

\* Nothing was heard: the primary is tested, another one just waits.
checkUnheard(n, t) ==
  /\ t \notin stateIn[n] \cup pendingDeletion[n] /\ (IsPrimary(n, t) => t \in stateOut[n])
  /\ stateOut' = Cleared(stateOut, n, t) /\ pendingDeletion' = Marked(pendingDeletion, n, t)
  /\ decision' = IF IsPrimary(n, t)
                 THEN [decision EXCEPT ![n] = Decide("sendTestPacket", t, NoTunnel)]
                 ELSE decision
  /\ UNCHANGED <<stateIn, trafficTimer, tested>>

makeTrafficDecision(n, t) ==
  /\ decision[n] = NoDecision /\ t \in trafficTimer[n]
  /\ \/ checkGone(n, t) \/ checkSpent(n, t)
     \/ /\ t \in Has(n) /\ Timely(t)
        /\ \/ checkAlive(n, t) \/ checkDead(n, t)
           \/ checkUnused(n, t) \/ checkUnheard(n, t)
  /\ UNCHANGED <<tunnels, net, answered, losses>>

\* Mutant of swapPrimary: a tunnel closed since the decision is put back.
SwapClosedBack(n) ==
  LET d == decision[n]
  IN  /\ d.what = "swapPrimary"
      /\ tunnels' = IF IsPrimary(n, d.primary)
                    THEN [tunnels EXCEPT ![n] =
                            <<d.tunnel>> \o Without(@, d.tunnel)]
                    ELSE tunnels
      /\ UNCHANGED <<bits, net, tested>>

\* swapPrimary: only if the primary is still the one the decision saw.
swapPrimary(n) ==
  LET d == decision[n]
  IN  /\ d.what = "swapPrimary"
      /\ tunnels' = IF IsPrimary(n, d.primary) /\ d.tunnel \in Has(n)
                    THEN [tunnels EXCEPT ![n] =
                            <<d.tunnel>> \o Without(@, d.tunnel)]
                    ELSE tunnels
      /\ UNCHANGED <<bits, net, tested>>

sendTestPacket(n) ==
  LET t == decision[n].tunnel
  IN  /\ decision[n].what = "sendTestPacket"
      /\ net' = Send("test", Peer(n), t)
      /\ stateOut' = IF t \in Has(n) THEN Marked(stateOut, n, t) ELSE stateOut
      /\ tested' = IF t \in Has(n) THEN Marked(tested, n, t) ELSE tested
      /\ UNCHANGED <<tunnels, stateIn, pendingDeletion>>

removeTunnel(n) ==
  LET d == decision[n]
  IN  /\ d.what \in {"closeTunnel", "deleteTunnel"}
      /\ net' = IF d.what = "closeTunnel" THEN Send("close", Peer(n), d.tunnel)
                ELSE net
      /\ closeTunnel(n, d.tunnel)

doTrafficCheck(n) ==
  /\ swapPrimary(n) \/ sendTestPacket(n) \/ removeTunnel(n)
  /\ decision' = [decision EXCEPT ![n] = NoDecision]
  /\ UNCHANGED <<trafficTimer, answered, losses>>

-----------------------------------------------------------------------------
(* Traffic.                                                                *)

\* A packet of the node's user goes out on the primary.
sendTraffic(n) ==
  /\ tunnels[n] # <<>> /\ Cardinality(net) < MaxInFlight
  /\ stateOut' = Marked(stateOut, n, tunnels[n][1])
  /\ net' = Send("data", Peer(n), tunnels[n][1])
  /\ UNCHANGED <<tunnels, stateIn, pendingDeletion, trafficTimer, decision, answered, losses,
                 tested>>

\* readOutsidePackets.
receiveUnknown(m) ==
  LET n == m.to
  IN  /\ m.tunnel \notin Has(n)
      /\ net' = IF n \in RecvErrors /\ m.kind # "recvError"
                THEN Send("recvError", Peer(n), m.tunnel) \ {m} ELSE net \ {m}
      /\ UNCHANGED <<tunnels, bits, tested>>

receiveTraffic(m) ==
  LET n == m.to
  IN  /\ m.tunnel \in Has(n) /\ m.kind \in {"data", "test"}
      /\ stateIn' = Marked(stateIn, n, m.tunnel)
      /\ IF m.kind = "test"
         THEN /\ net' = Send("data", Peer(n), m.tunnel) \ {m}
              /\ stateOut' = Marked(stateOut, n, m.tunnel)
         ELSE net' = net \ {m} /\ UNCHANGED stateOut
      /\ UNCHANGED <<tunnels, pendingDeletion, tested>>

receiveClose(m) ==
  /\ m.tunnel \in Has(m.to) /\ m.kind \in {"close", "recvError"}
  /\ closeTunnel(m.to, m.tunnel)
  /\ net' = net \ {m}

readOutsidePackets(m) ==
  /\ m \in net
  /\ receiveUnknown(m) \/ receiveTraffic(m) \/ receiveClose(m)
  /\ UNCHANGED <<trafficTimer, decision, answered, losses>>

lose(m) ==
  /\ m \in net /\ losses < MaxLosses
  /\ net' = net \ {m} /\ losses' = losses + 1
  /\ UNCHANGED <<tunnels, bits, trafficTimer, decision, answered, tested>>

-----------------------------------------------------------------------------
ManagerNext ==
  \/ \E n \in Node, t \in Tunnel :
       answerHandshake(n, t) \/ makeTrafficDecision(n, t)
  \/ \E t \in Tunnel :
       completeHandshake(t) \/ timeOutHandshake(t)
  \/ \E n \in Node : doTrafficCheck(n) \/ sendTraffic(n)
  \/ \E m \in net : readOutsidePackets(m) \/ lose(m)

ManagerSpec == ManagerInit /\ [][ManagerNext]_cmVars

\* Both managers keep running, messages that are not lost arrive, handshakes
\* end, and both nodes have traffic for each other.
ManagerFairSpec ==
  /\ ManagerSpec
  /\ \A n \in Node : /\ WF_cmVars(doTrafficCheck(n)) /\ SF_cmVars(sendTraffic(n))
                     /\ \A t \in Tunnel : SF_cmVars(makeTrafficDecision(n, t))
  /\ \A m \in Message : WF_cmVars(readOutsidePackets(m))
  /\ WF_cmVars(\E t \in Tunnel : completeHandshake(t) \/ timeOutHandshake(t))

-----------------------------------------------------------------------------
(* Properties.                                                             *)

ManagerTypeOK ==
  /\ \A n \in Node : /\ Has(n) \subseteq Tunnel
                     /\ Len(tunnels[n]) = Cardinality(Has(n))
  /\ \A f \in {stateIn, stateOut, pendingDeletion, tested} :
       \A n \in Node : f[n] \subseteq Has(n)
  /\ trafficTimer \in [Node -> SUBSET Tunnel] /\ net \subseteq Message
  /\ losses \in 0..MaxLosses

\* Every tunnel in the hostmap is checked again: it has a timer entry, or a
\* decision to remove it is being carried out.  No way through
\* makeTrafficDecision leaves a tunnel that nobody looks at any more.
CheckedAgain ==
  \A n \in Node : \A t \in Has(n) :
    \/ t \in trafficTimer[n]
    \/ /\ decision[n].tunnel = t
       /\ decision[n].what \in {"closeTunnel", "deleteTunnel"}

\* The tunnels are listed once, have flags only while they are listed, and are
\* each looked at again.
TunnelsChecked == ManagerTypeOK /\ CheckedAgain

\* A tunnel that was removed does not come back: the decision to make it the
\* primary may be carried out after a close message has ended it.
StaysClosed ==
  [][\A n \in Node, t \in Tunnel :
       t \in Has(n)' \ Has(n) => answered'[t] # answered[t]]_cmVars

\* When no message gets lost, a tunnel that was tested and is found dead is
\* one that the peer does not have: the answer to the test, or other traffic,
\* is never overlooked between clearing the flags and setting them.
DeadIsDead ==
  \A n \in Node :
    LET t == decision[n].tunnel
    IN  decision[n].what = "deleteTunnel" /\ t \in tested[n] \ Spendable
          /\ losses = 0 => t \notin Has(Peer(n))

\* Once no more handshakes are made, and while both sides have something to
\* send, no tunnel stays half open: the side that still has it notices.
HalfOpenEnds == <>[](\A n \in Node : Has(n) = Has(Peer(n)))
=============================================================================
