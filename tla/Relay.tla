------------------------------- MODULE Relay -------------------------------
(***************************************************************************)
(* Two nodes that talk to each other through a third (relay_manager.go,    *)
(* handleOutsideRelayPacket, migrateRelayUsed, and the relay side of the   *)
(* handshake manager).  Each end has a tunnel to the relay; a rehandshake  *)
(* gives it a new one while the old one lives on.  On a tunnel each side   *)
(* keeps one relay entry for the other end, so the index of an entry is    *)
(* known by the tunnel and the side, and what is left of RemoteIndex is    *)
(* whether it was ever set.                                                *)
(*                                                                         *)
(* Control messages and relayed packets may overtake each other and be     *)
(* lost.  The address formats of the certificate versions are left out.    *)
(***************************************************************************)
EXTENDS Integers, FiniteSets

CONSTANTS
  End,         \* the two ends
  Initiators,  \* the ends that want to reach the other one
  Replaced,    \* the ends whose tunnel to the relay is replaced or lost
  MaxGen,      \* bound: tunnels an end and the relay make
  MaxNet,      \* bound: messages in flight for a new one to be sent
  MaxLoss      \* bound: lost messages

ASSUME RelayAssumption ==
  /\ \E a, b \in End : a # b /\ End = {a, b}
  /\ MaxGen \in Nat \ {0}
  /\ MaxNet \in Nat /\ MaxLoss \in Nat
  /\ Initiators \subseteq End

VARIABLES
  entry,    \* side -> end -> tunnel -> the relay entry there
  primary,  \* side -> end -> the primary tunnel, 0 for none
  wire,      \* messages in flight
  made,     \* end -> tunnels it made with the relay so far
  linked,   \* end -> its tunnel to the other end uses the relay
  relayLosses

relayVars == <<entry, primary, made, wire, linked, relayLosses>>

Side == {"end", "relay"}
Gen == 1..MaxGen
Other(e) == CHOOSE o \in End : o # e

\* State "gone": there is no hostinfo; "none": it has no relay entry.
Gone == [state |-> "gone", known |-> FALSE]
NoEntry == [state |-> "none", known |-> FALSE]
Entry == [state : {"gone", "none", "Requested", "PeerRequested",
                   "Established", "Disestablished"}, known : BOOLEAN]
RelayMessage == [kind : {"Request", "Response", "Packet", "Reply"},
            to : Side, end : End, gen : Gen, from : End, known : BOOLEAN]

RelayTypeOK ==
  /\ entry \in [Side -> [End -> [Gen -> Entry]]]
  /\ primary \in [Side -> [End -> 0..MaxGen]]
  /\ made \in [End -> Gen]
  /\ wire \subseteq RelayMessage
  /\ linked \in [End -> BOOLEAN]
  /\ relayLosses \in 0..MaxLoss

Live(s, e, g) == entry[s][e][g].state # "gone"
HasTunnel(s, e, g) == entry[s][e][g].state \notin {"gone", "none"}
Msg(kind, to, e, g, from, known) ==
  [kind |-> kind, to |-> to, end |-> e, gen |-> g, from |-> from,
   known |-> known]

RelayInit ==
  /\ entry = [s \in Side |-> [e \in End |->
                [g \in Gen |-> IF g = 1 THEN NoEntry ELSE Gone]]]
  /\ primary = [s \in Side |-> [e \in End |-> 1]]
  /\ made = [e \in End |-> 1]
  /\ wire = {}
  /\ linked = [e \in End |-> FALSE]
  /\ relayLosses = 0

-----------------------------------------------------------------------------
(* Relay entries.                                                          *)

\* Set, and updates of a set of entries at once.
With(E, s, e, g, v) == [E EXCEPT ![s][e][g] = v]
WithState(E, s, e, g, state) ==
  IF E[s][e][g].state \in {"gone", "none"} THEN E
  ELSE [E EXCEPT ![s][e][g].state = state]

\* AddRelay makes the tunnel the primary one of its address.
AddRelay(E, s, e, g, state, known) ==
  With(E, s, e, g, [state |-> state, known |-> known])

\* CompleteRelayByIdx and CompleteRelayByIP
CompleteRelay(E, s, e, g) == With(E, s, e, g, [state |-> "Established", known |-> TRUE])

Take(m) == wire \ {m}

-----------------------------------------------------------------------------
(* StartRelays, on every attempt of a handshake with the other end.        *)

\* Mutant of StartRelays: only the first attempt sends a request.
StartRelaysOnce(e) ==
  LET g == primary["end"][e]
      r == entry["end"][e][g]
  IN  /\ e \in Initiators /\ ~linked[e] /\ g > 0
      /\ Cardinality(wire) < MaxNet
      /\ \/ /\ r.state = "none"
            /\ entry' = AddRelay(entry, "end", e, g, "Requested", FALSE)
            /\ wire' = wire \cup {Msg("Request", "relay", e, g, e, TRUE)}
         \/ /\ r.state = "Established"
            /\ wire' = wire \cup {Msg("Packet", "relay", e, g, e, r.known)}
            /\ UNCHANGED entry
      /\ UNCHANGED <<made, primary, linked, relayLosses>>

StartRelays(e) ==
  LET g == primary["end"][e]
      r == entry["end"][e][g]
  IN  /\ e \in Initiators /\ ~linked[e] /\ g > 0
      /\ Cardinality(wire) < MaxNet
      /\ \/ /\ r.state = "none"
            /\ entry' = AddRelay(entry, "end", e, g, "Requested", FALSE)
            /\ wire' = wire \cup {Msg("Request", "relay", e, g, e, TRUE)}
         \/ /\ r.state \in {"Requested", "Disestablished"}
            /\ entry' = WithState(entry, "end", e, g, "Requested")
            /\ wire' = wire \cup {Msg("Request", "relay", e, g, e, TRUE)}
         \/ /\ r.state = "Established"
            /\ wire' = wire \cup {Msg("Packet", "relay", e, g, e, r.known)}
            /\ UNCHANGED entry
      /\ UNCHANGED <<made, primary, linked, relayLosses>>

-----------------------------------------------------------------------------
(* handleCreateRelayRequest.                                               *)

\* The entry after a request that is for me.
Terminate(r) ==
  IF r.state = "PeerRequested" THEN r
  ELSE [state |-> "Established", known |-> TRUE]

\* An entry that a packet established before it learned an index does not
\* have the request's and refuses it.
Mismatch(r) == r.state \in {"Established", "Disestablished"} /\ ~r.known

\* The target is me.
requestForMe(m) ==
  LET e == m.end
      g == m.gen
      r == entry["end"][e][g]
  IN  /\ m.kind = "Request" /\ m.to = "end" /\ Live("end", e, g)
      /\ m.from # e
      /\ IF Mismatch(r)
         THEN wire' = Take(m) /\ UNCHANGED <<entry, primary>>
         ELSE /\ entry' = With(entry, "end", e, g, Terminate(r))
              /\ primary' = IF r.state = "none"
                            THEN [primary EXCEPT !["end"][e] = g] ELSE primary
              /\ wire' = Take(m) \cup {Msg("Response", "relay", e, g, m.from, TRUE)}
      /\ UNCHANGED <<made, linked, relayLosses>>

\* The target is not me: create a relay to the target, from me, and track
\* the half-created one the request came for.  Without a tunnel to the
\* target the relay starts a handshake and forgets the request.
requestToForward(m) ==
  LET e == m.end
      g == m.gen
      o == Other(e)
      p == primary["relay"][o]
      target == entry["relay"][o][p]
      E1 == IF target.state = "none"
            THEN AddRelay(entry, "relay", o, p, "Requested", FALSE)
            ELSE WithState(entry, "relay", o, p, "Requested")
      half == E1["relay"][e][g].state = "none"
  IN  /\ m.kind = "Request" /\ m.to = "relay" /\ Live("relay", e, g)
      /\ m.from = e
      /\ IF p = 0
         THEN wire' = Take(m) /\ UNCHANGED <<entry, primary>>
         ELSE /\ entry' = IF half
                          THEN AddRelay(E1, "relay", e, g, "PeerRequested", TRUE)
                          ELSE E1
              /\ primary' = IF half THEN [primary EXCEPT !["relay"][e] = g]
                            ELSE primary
              /\ wire' = Take(m) \cup {Msg("Request", "end", o, p, e, TRUE)}
      /\ UNCHANGED <<made, linked, relayLosses>>

-----------------------------------------------------------------------------
(* handleCreateRelayResponse.                                              *)

\* At an end: EstablishRelay, and nothing else for a terminal relay.
responseForMe(m) ==
  /\ m.kind = "Response" /\ m.to = "end" /\ Live("end", m.end, m.gen)
  /\ entry' = IF m.known /\ HasTunnel("end", m.end, m.gen)
              THEN CompleteRelay(entry, "end", m.end, m.gen) ELSE entry
  /\ wire' = Take(m)
  /\ UNCHANGED <<made, primary, linked, relayLosses>>

\* Mutant of responseToForward: the initiator is told without waiting for
\* its own answer.
ResponseAtOnce(m) ==
  LET o == Other(m.end)
      p == primary["relay"][o]
      peer == entry["relay"][o][p]
      E1 == CompleteRelay(entry, "relay", m.end, m.gen)
  IN  /\ m.kind = "Response" /\ m.to = "relay" /\ Live("relay", m.end, m.gen)
      /\ IF ~HasTunnel("relay", m.end, m.gen) \/ p = 0
         THEN wire' = Take(m) /\ UNCHANGED entry
         ELSE /\ entry' = E1
              /\ wire' = Take(m) \cup {Msg("Response", "end", o, p, o, TRUE)}
      /\ UNCHANGED <<made, primary, linked, relayLosses>>

\* In the middle: the relay tells the initiator, unless it waits for an
\* answer from there as well.
responseToForward(m) ==
  LET o == Other(m.end)
      p == primary["relay"][o]
      peer == entry["relay"][o][p]
      E1 == CompleteRelay(entry, "relay", m.end, m.gen)
  IN  /\ m.kind = "Response" /\ m.to = "relay" /\ Live("relay", m.end, m.gen)
      /\ IF ~HasTunnel("relay", m.end, m.gen)
         THEN wire' = Take(m) /\ UNCHANGED entry
         ELSE IF p = 0 \/ peer.state \in {"none", "Requested"}
         THEN wire' = Take(m) /\ entry' = E1
         ELSE /\ entry' = WithState(E1, "relay", o, p, "Established")
              /\ wire' = Take(m) \cup
                          {Msg("Response", "end", o, p, o, peer.known)}
      /\ UNCHANGED <<made, primary, linked, relayLosses>>

-----------------------------------------------------------------------------
(* Relayed packets.                                                        *)

\* The tunnel to o with an established entry, the primary one first.
CarryingTunnels(o) ==
  LET est == {g \in Gen : entry["relay"][o][g].state = "Established"}
  IN  IF primary["relay"][o] \in est THEN {primary["relay"][o]} ELSE est

\* handleOutsideRelayPacket, ForwardingType; without an established relay
\* to the target the packet is dropped.
forward(m) ==
  LET o == Other(m.end)
  IN  /\ m.kind \in {"Packet", "Reply"} /\ m.to = "relay"
      /\ m.known /\ HasTunnel("relay", m.end, m.gen) /\ primary["relay"][o] > 0
      /\ IF CarryingTunnels(o) = {} THEN wire' = Take(m)
         ELSE \E g \in CarryingTunnels(o) :
                wire' = Take(m) \cup {Msg(m.kind, "end", o, g, m.from,
                                         entry["relay"][o][g].known)}
      /\ UNCHANGED <<made, entry, primary, linked, relayLosses>>

\* TerminalType: the handshake inside.  The responder notes the relay, marks
\* it established and answers through it; the initiator notes it.
terminal(m) ==
  /\ m.kind \in {"Packet", "Reply"} /\ m.to = "end"
  /\ m.known /\ HasTunnel("end", m.end, m.gen)
  /\ linked' = [linked EXCEPT ![m.end] = TRUE]
  /\ IF m.kind = "Packet"
     THEN /\ entry' = WithState(entry, "end", m.end, m.gen, "Established")
          /\ wire' = Take(m) \cup
                      {Msg("Reply", "relay", m.end, m.gen, m.end,
                           entry["end"][m.end][m.gen].known)}
     ELSE wire' = Take(m) /\ UNCHANGED entry
  /\ UNCHANGED <<made, primary, relayLosses>>

\* What reaches a tunnel or an index that is not there.
discard(m) ==
  /\ \/ ~Live(m.to, m.end, m.gen)
     \/ m.kind \in {"Packet", "Reply"} /\
          (~m.known \/ ~HasTunnel(m.to, m.end, m.gen) \/
           (m.to = "relay" /\ primary["relay"][Other(m.end)] = 0))
  /\ wire' = Take(m)
  /\ UNCHANGED <<made, entry, primary, linked, relayLosses>>

loseMessage(m) ==
  /\ relayLosses < MaxLoss
  /\ relayLosses' = relayLosses + 1
  /\ wire' = Take(m)
  /\ UNCHANGED <<made, entry, primary, linked>>

-----------------------------------------------------------------------------
(* Tunnels to the relay come and go.                                       *)

\* A handshake between an end and the relay completes.
rehandshake(e) ==
  LET g == made[e] + 1
  IN  /\ e \in Replaced /\ g <= MaxGen
      /\ made' = [made EXCEPT ![e] = g]
      /\ entry' = [s \in Side |-> [entry[s] EXCEPT ![e][g] = NoEntry]]
      /\ primary' = [s \in Side |-> [primary[s] EXCEPT ![e] = g]]
      /\ UNCHANGED <<wire, linked, relayLosses>>

\* The next in the host list.
NextPrimary(s, e, g) ==
  LET rest == {h \in Gen : h # g /\ Live(s, e, h)}
  IN  IF primary[s][e] # g THEN primary[s][e]
      ELSE IF rest = {} THEN 0
      ELSE CHOOSE h \in rest : \A k \in rest : k <= h

\* A side deletes its hostinfo.  When it was the relay's last one for this
\* end, the entries that forward to it are disestablished.
deleteRelays(s, e, g) ==
  LET E1 == With(entry, s, e, g, Gone)
      last == \A h \in Gen : E1[s][e][h].state = "gone"
      o == Other(e)
  IN  /\ Live(s, e, g)
      /\ e \in Replaced
      /\ primary' = [primary EXCEPT ![s][e] = NextPrimary(s, e, g)]
      /\ entry' = IF s = "relay" /\ last /\ HasTunnel(s, e, g)
                  THEN [E1 EXCEPT !["relay"][o] = [h \in Gen |->
                          IF HasTunnel("relay", o, h)
                          THEN [@[h] EXCEPT !.state = "Disestablished"]
                          ELSE @[h]]]
                  ELSE E1
      /\ UNCHANGED <<made, wire, linked, relayLosses>>

\* An end deletes its last tunnel to the other end, which used the relay.
unlink(e) ==
  /\ linked[e]
  /\ linked' = [linked EXCEPT ![e] = FALSE]
  /\ entry' = [entry EXCEPT !["end"][e] = [g \in Gen |->
                 IF HasTunnel("end", e, g)
                 THEN [@[g] EXCEPT !.state = "Disestablished"] ELSE @[g]]]
  /\ UNCHANGED <<made, primary, wire, relayLosses>>

\* relayFrom of a migrated relay: me at an end, the peer at the relay.
MigratedFrom(s, e) == IF s = "end" THEN e ELSE Other(e)

\* migrateRelayUsed, from an older tunnel to the primary one; the relay is
\* carried over if it was used, which any relay may have been.
migrateRelayUsed(s, e, g) ==
  LET p == primary[s][e]
      r == entry[s][e][p]
  IN  /\ HasTunnel(s, e, g) /\ p \notin {0, g}
      /\ Cardinality(wire) < MaxNet
      /\ r.state \in {"none", "Requested"}
      /\ entry' = IF r.state = "none"
                  THEN AddRelay(entry, s, e, p, "Requested", FALSE)
                  ELSE entry
      /\ wire' = wire \cup {Msg("Request", IF s = "end" THEN "relay" ELSE "end",
                              e, p, MigratedFrom(s, e), TRUE)}
      /\ UNCHANGED <<made, primary, linked, relayLosses>>

Receive(m) ==
  \/ requestForMe(m) \/ requestToForward(m)
  \/ responseForMe(m) \/ responseToForward(m)
  \/ forward(m) \/ terminal(m) \/ discard(m)

RelayNext ==
  \/ \E e \in End : StartRelays(e) \/ rehandshake(e) \/ unlink(e)
  \/ \E m \in wire : Receive(m) \/ loseMessage(m)
  \/ \E s \in Side, e \in End, g \in Gen :
       deleteRelays(s, e, g) \/ migrateRelayUsed(s, e, g)

\* The handshake manager retries for as long as there are packets to send,
\* and the readers handle what arrives.
RelayFairness ==
  /\ \A e \in End : WF_relayVars(StartRelays(e))
  /\ \A m \in RelayMessage : WF_relayVars(m \in wire /\ Receive(m))

RelaySpec == RelayInit /\ [][RelayNext]_relayVars
FairRelaySpec == RelaySpec /\ RelayFairness

-----------------------------------------------------------------------------
(* Properties.                                                             *)

\* Nobody is asked to create a relay from itself: "This should never happen,
\* but did happen due to an issue migrating relays".
NeverFromMyself ==
  \A m \in wire : m.kind = "Request" =>
    IF m.to = "end" THEN m.from # m.end ELSE m.from = m.end

Undisturbed == /\ relayLosses = 0
               /\ \A s \in Side, e \in End : primary[s][e] = 1
               /\ \A e \in End : made[e] = 1

OneAsks == \A e, o \in Initiators : e = o

\* When no message is on its way, none was lost and no tunnel was replaced,
\* an end that takes its relay for established can use it in both
\* directions: the relay has both halves established, and the indexes to
\* send with.  Not so when both ends ask: a packet that overtakes the
\* response establishes an entry without an index, which refuses the request
\* of the other end (handleCreateRelayRequest) and leaves a half requested.
EstablishedCarries ==
  OneAsks /\ wire = {} /\ Undisturbed =>
    \A e \in End :
      entry["end"][e][1].state = "Established" =>
        \A o \in End : entry["relay"][o][1].state = "Established" /\
                       entry["relay"][o][1].known

\* The relay manager of each node: an established relay can be used in both
\* directions, and handleCreateRelayRequest never sees a request from itself.
RelaysRight == RelayTypeOK /\ EstablishedCarries /\ NeverFromMyself

\* An end that keeps trying gets its handshake through the relay.
RelayCarries == \A e \in Initiators : []<>linked[e]
=============================================================================
