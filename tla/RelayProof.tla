----------------------------- MODULE RelayProof -----------------------------
(***************************************************************************)
(* An established relay carries packets in both directions.                *)
(*                                                                         *)
(* That a relay carries is not inductive.  While one end asks and nothing  *)
(* is lost or replaced, the four entries of a relay depend on one another  *)
(* and on the messages on their way (Carrying): a half that was asked for  *)
(* has its answer coming, and an end has its entry established only after  *)
(* the relay has asked for the other half.                                 *)
(***************************************************************************)
EXTENDS Relay, WellFoundedInduction, TLAPS

\* The other end is the only other one.
LEMMA OtherEnd ==
  ASSUME NEW e \in End
  PROVE  /\ Other(e) \in End /\ Other(e) # e
         /\ \A x \in End : x = e \/ x = Other(e)
  BY RelayAssumption DEF Other

EntryMap == [Side -> [End -> [Gen -> Entry]]]

\* What an update of an entry leaves where, and that it keeps the type.
LEMMA WithFacts ==
  ASSUME NEW E \in EntryMap, NEW s \in Side, NEW e \in End, NEW g \in Gen,
         NEW v \in Entry
  PROVE  /\ With(E, s, e, g, v) \in EntryMap
         /\ With(E, s, e, g, v)[s][e][g] = v
         /\ \A t \in Side, x \in End, h \in Gen : ~(t = s /\ x = e /\ h = g) =>
              With(E, s, e, g, v)[t][x][h] = E[t][x][h]
  BY DEF With, EntryMap

Restated == {"Requested", "Established", "Disestablished"}

\* What a change of state leaves where.
LEMMA WithStateFacts ==
  ASSUME NEW E \in EntryMap, NEW s \in Side, NEW e \in End, NEW g \in Gen,
         NEW st \in Restated
  PROVE  /\ WithState(E, s, e, g, st) \in EntryMap
         /\ WithState(E, s, e, g, st)[s][e][g].state =
              IF E[s][e][g].state \in {"gone", "none"} THEN E[s][e][g].state
              ELSE st
         /\ WithState(E, s, e, g, st)[s][e][g].known = E[s][e][g].known
         /\ \A t \in Side, x \in End, h \in Gen : ~(t = s /\ x = e /\ h = g) =>
              WithState(E, s, e, g, st)[t][x][h] = E[t][x][h]
<1>1. CASE E[s][e][g].state \in {"gone", "none"}
  BY Zenon, <1>1 DEF WithState
<1>2. CASE E[s][e][g].state \notin {"gone", "none"}
  <2> DEFINE v == [state |-> st, known |-> E[s][e][g].known]
  <2>1. E[s][e][g] \in Entry
    BY DEF EntryMap
  <2>2. WithState(E, s, e, g, st) = [E EXCEPT ![s][e][g].state = st]
    BY Zenon, <1>2 DEF WithState
  <2>3. [E[s][e][g] EXCEPT !.state = st] = v
    BY <2>1 DEF Entry, Restated
  <2>4. v \in Entry /\ v.state = st /\ v.known = E[s][e][g].known
    BY Zenon, <2>1 DEF Entry, Restated
  <2>5. WithState(E, s, e, g, st) = With(E, s, e, g, v)
    BY Zenon, <2>2, <2>3 DEF With
  <2> HIDE DEF v
  <2> QED BY <1>2, <2>4, <2>5, WithFacts
<1> QED BY Zenon, <1>1, <1>2

-----------------------------------------------------------------------------

\* A tunnel that is there was made and the primary one is there, on each
\* side; what is sent on a tunnel is sent after it was made.
Placed ==
  /\ \A s \in Side, e \in End :
       /\ \A g \in Gen : Live(s, e, g) => g <= made[e] /\ primary[s][e] # 0
       /\ primary[s][e] # 0 => Live(s, e, primary[s][e])
  /\ \A m \in wire : m.gen <= made[m.end]

RelayInv == RelayTypeOK /\ Placed /\ NeverFromMyself

\* The types of what the entries, primaries and counters hold.
LEMMA TypeFacts ==
  ASSUME RelayTypeOK
  PROVE  /\ entry \in EntryMap
         /\ \A s \in Side, e \in End, g \in Gen :
              /\ entry[s][e][g] \in Entry
              /\ entry[s][e][g].known \in BOOLEAN
         /\ \A s \in Side, e \in End : primary[s][e] \in 0..MaxGen
         /\ \A e \in End : made[e] \in Gen
         /\ 1 \in Gen /\ Gen \subseteq Nat /\ MaxGen \in Nat
  BY RelayAssumption DEF RelayTypeOK, EntryMap, Gen, Entry

\* A message on a tunnel that is there, and from the right end.
Proper(m) ==
  /\ m \in RelayMessage
  /\ \E s \in Side : Live(s, m.end, m.gen)
  /\ m.kind = "Request" =>
       IF m.to = "end" THEN m.from # m.end ELSE m.from = m.end

Kinds == {"Request", "Response", "Packet", "Reply"}

\* The fields of a message.
LEMMA MsgFields ==
  ASSUME NEW kind, NEW to, NEW e, NEW g, NEW from, NEW known
  PROVE  /\ Msg(kind, to, e, g, from, known).kind = kind
         /\ Msg(kind, to, e, g, from, known).to = to
         /\ Msg(kind, to, e, g, from, known).end = e
         /\ Msg(kind, to, e, g, from, known).gen = g
         /\ Msg(kind, to, e, g, from, known).from = from
         /\ Msg(kind, to, e, g, from, known).known = known
  BY Zenon DEF Msg

\* When a message that is made is a proper one.
LEMMA MsgProper ==
  ASSUME NEW kind \in Kinds, NEW to \in Side, NEW e \in End, NEW g \in Gen,
         NEW from \in End, NEW known \in BOOLEAN,
         NEW s \in Side, Live(s, e, g),
         kind = "Request" => IF to = "end" THEN from # e ELSE from = e
  PROVE  Proper(Msg(kind, to, e, g, from, known))
  BY Zenon, MsgFields DEF Msg, RelayMessage, Proper, Kinds

\* The same hostinfos exist.
SameLive(E, F) ==
  \A s \in Side, e \in End, g \in Gen :
    E[s][e][g].state = "gone" <=> F[s][e][g].state = "gone"

\* Updates of entries make and delete no hostinfo.
LEMMA SameLiveFacts ==
  ASSUME NEW E \in EntryMap, NEW s \in Side, NEW e \in End, NEW g \in Gen
  PROVE  /\ SameLive(E, E)
         /\ \A v \in Entry : E[s][e][g].state # "gone" /\ v.state # "gone" =>
              SameLive(E, With(E, s, e, g, v))
         /\ \A st \in Restated :
              SameLive(E, WithState(E, s, e, g, st))
<1>1. SameLive(E, E)
  BY Zenon DEF SameLive
<1>2. ASSUME NEW v \in Entry, E[s][e][g].state # "gone", v.state # "gone"
      PROVE  SameLive(E, With(E, s, e, g, v))
  BY <1>2, WithFacts DEF SameLive
<1>3. ASSUME NEW st \in Restated
      PROVE  SameLive(E, WithState(E, s, e, g, st))
  <2> DEFINE W == WithState(E, s, e, g, st)
  <2>1. /\ W[s][e][g].state =
             IF E[s][e][g].state \in {"gone", "none"} THEN E[s][e][g].state ELSE st
        /\ \A t \in Side, x \in End, h \in Gen : ~(t = s /\ x = e /\ h = g) =>
              W[t][x][h] = E[t][x][h]
    BY <1>3, WithStateFacts
  <2>2. st # "gone"
    BY Zenon, <1>3 DEF Restated
  <2> HIDE DEF W
  <2>3. SameLive(E, W)
    BY <2>1, <2>2 DEF SameLive
  <2> QED BY Zenon, <2>3 DEF W
<1> QED BY Zenon, <1>1, <1>2, <1>3

\* And so do several of them.
LEMMA SameLiveTrans ==
  ASSUME NEW E, NEW F, NEW H, SameLive(E, F), SameLive(F, H)
  PROVE  SameLive(E, H)
  BY Zenon DEF SameLive

\* What such a step keeps.
Steady == RelayInv' /\ SameLive(entry, entry') /\ UNCHANGED <<made, relayLosses>>

\* A step that makes and deletes no hostinfo: tunnels it makes primary are
\* there, and messages it sends are sent on tunnels that are there.
LEMMA SamePlaces ==
  ASSUME RelayInv, entry' \in EntryMap, SameLive(entry, entry'),
         UNCHANGED <<made, relayLosses>>,
         linked' \in [End -> BOOLEAN],
         \/ UNCHANGED primary
         \/ \E s \in Side, e \in End, g \in Gen :
              Live(s, e, g) /\ primary' = [primary EXCEPT ![s][e] = g],
         \A m \in wire' : m \in wire \/ Proper(m)
  PROVE  Steady
<1>1. RelayTypeOK'
  <2>1. primary' \in [Side -> [End -> 0..MaxGen]]
    <3>1. CASE UNCHANGED primary
      BY Zenon, <3>1 DEF RelayInv, RelayTypeOK
    <3>2. CASE \E t \in Side, x \in End, g \in Gen :
                 primary' = [primary EXCEPT ![t][x] = g]
      <4>1. PICK t \in Side, x \in End, g \in Gen :
                 primary' = [primary EXCEPT ![t][x] = g]
        BY Zenon, <3>2
      <4>2. g \in 0..MaxGen
        BY RelayAssumption DEF Gen
      <4> QED BY Zenon, <4>1, <4>2 DEF RelayInv, RelayTypeOK
    <3> QED BY Zenon, <3>1, <3>2
  <2>2. wire' \subseteq RelayMessage
    BY Zenon DEF RelayInv, RelayTypeOK, Proper
  <2> QED BY Zenon, <2>1, <2>2 DEF RelayInv, RelayTypeOK, EntryMap
<1>2. \A s \in Side, e \in End, g \in Gen : Live(s, e, g)' <=> Live(s, e, g)
  BY Zenon DEF SameLive, Live
<1>3. Placed'
  <2>1. ASSUME NEW m \in wire'
        PROVE  m.gen <= made'[m.end]
    <3>1. CASE m \in wire
      BY Zenon, <3>1 DEF RelayInv, Placed
    <3>2. CASE m \notin wire
      <4>1. PICK s \in Side : Live(s, m.end, m.gen)
        BY Zenon, <2>1, <3>2 DEF Proper
      <4>2. m.end \in End /\ m.gen \in Gen
        BY Zenon, <2>1, <3>2 DEF RelayMessage, Proper
      <4> QED BY Zenon, <4>1, <4>2 DEF RelayInv, Placed
    <3> QED BY Zenon, <3>1, <3>2
  <2>2. ASSUME NEW s \in Side, NEW e \in End
        PROVE  /\ primary'[s][e] # 0 => Live(s, e, primary'[s][e])
               /\ primary[s][e] # 0 => primary'[s][e] # 0
    <3>1. CASE UNCHANGED primary
      BY Zenon, <3>1 DEF RelayInv, Placed
    <3>2. CASE \E t \in Side, x \in End, g \in Gen :
                 Live(t, x, g) /\ primary' = [primary EXCEPT ![t][x] = g]
      <4>1. PICK t \in Side, x \in End, g \in Gen :
                 Live(t, x, g) /\ primary' = [primary EXCEPT ![t][x] = g]
        BY Zenon, <3>2
      <4>2. g # 0
        BY DEF Gen
      <4>3. primary'[s][e] = IF s = t /\ e = x THEN g ELSE primary[s][e]
        BY Zenon, <4>1 DEF RelayInv, RelayTypeOK
      <4> QED BY Zenon, <4>1, <4>2, <4>3 DEF RelayInv, Placed
    <3> QED BY Zenon, <3>1, <3>2
  <2>3. \A s \in Side, e \in End : primary'[s][e] # 0 => primary'[s][e] \in Gen
    BY <1>1, RelayAssumption DEF RelayTypeOK, Gen
  <2> QED BY Zenon, <1>2, <2>1, <2>2, <2>3 DEF RelayInv, Placed
<1>4. NeverFromMyself'
  BY Zenon DEF RelayInv, NeverFromMyself, Proper
<1> QED BY Zenon, <1>1, <1>3, <1>4 DEF RelayInv, Steady

\* The states that UpdateRelayForByIpState is called with.
LEMMA Restating == /\ "Requested" \in Restated
                   /\ "Established" \in Restated
                   /\ "Disestablished" \in Restated
  BY Zenon DEF Restated

\* The records written into an entry.
Fresh(st) == [state |-> st, known |-> FALSE]
Indexed(st) == [state |-> st, known |-> TRUE]

\* They are entries.
LEMMA Written ==
  /\ Fresh("Requested") \in Entry /\ Fresh("Requested").state = "Requested"
  /\ Indexed("PeerRequested") \in Entry
  /\ Indexed("PeerRequested").state = "PeerRequested"
  /\ Indexed("PeerRequested").known = TRUE
  /\ Indexed("Established") \in Entry
  /\ Indexed("Established").state = "Established"
  /\ Indexed("Established").known = TRUE
  BY Zenon DEF Fresh, Indexed, Entry

\* StartRelays asks, asks again or sends on the primary tunnel.
LEMMA StartRelaysKeeps ==
  ASSUME RelayInv, NEW e \in End, StartRelays(e)
  PROVE  Steady
<1> DEFINE g == primary["end"][e]
<1>1. /\ g \in Gen /\ Live("end", e, g) /\ "end" \in Side
      /\ entry \in EntryMap /\ entry["end"][e][g].known \in BOOLEAN
  <2>1. RelayTypeOK /\ Placed /\ "end" \in Side
    BY Zenon DEF RelayInv, Side
  <2>2. g \in 0..MaxGen /\ g > 0 /\ MaxGen \in Nat
    BY Zenon, <2>1, TypeFacts DEF StartRelays
  <2>3. g \in Gen /\ g # 0
    <3> HIDE DEF g
    <3> QED BY <2>2 DEF Gen
  <2>4. Live("end", e, g)
    BY Zenon, <2>1, <2>3 DEF Placed
  <2> QED BY Zenon, <2>1, <2>3, <2>4, TypeFacts
<1>2. /\ entry' \in EntryMap /\ SameLive(entry, entry')
      /\ \E kind \in Kinds, known \in BOOLEAN :
           wire' = wire \cup {Msg(kind, "relay", e, g, e, known)}
  <2>1. CASE /\ entry["end"][e][g].state = "none"
             /\ entry' = AddRelay(entry, "end", e, g, "Requested", FALSE)
             /\ wire' = wire \cup {Msg("Request", "relay", e, g, e, TRUE)}
    <3>1. entry' = With(entry, "end", e, g, Fresh("Requested"))
      BY Zenon, <2>1 DEF AddRelay, Fresh
    <3>2. entry["end"][e][g].state # "gone"
      BY Zenon, <2>1
    <3>3. entry' \in EntryMap /\ SameLive(entry, entry')
      BY Zenon, <1>1, <3>1, <3>2, Written, WithFacts, SameLiveFacts
    <3> QED BY Zenon, <2>1, <3>3 DEF Kinds
  <2>2. CASE /\ entry' = WithState(entry, "end", e, g, "Requested")
             /\ wire' = wire \cup {Msg("Request", "relay", e, g, e, TRUE)}
    <3>1. entry' \in EntryMap /\ SameLive(entry, entry')
      BY Zenon, <1>1, <2>2, Restating, WithStateFacts, SameLiveFacts
    <3> QED BY Zenon, <2>2, <3>1 DEF Kinds
  <2>3. CASE /\ entry' = entry
             /\ wire' = wire \cup
                   {Msg("Packet", "relay", e, g, e, entry["end"][e][g].known)}
    BY Zenon, <1>1, <2>3, SameLiveFacts DEF Kinds
  <2> QED BY Zenon, <2>1, <2>2, <2>3 DEF StartRelays
<1>3. PICK kind \in Kinds, known \in BOOLEAN :
        wire' = wire \cup {Msg(kind, "relay", e, g, e, known)}
  BY Zenon, <1>2
<1>4. UNCHANGED <<made, primary, linked, relayLosses>> /\ linked \in [End -> BOOLEAN]
  BY Zenon DEF StartRelays, RelayInv, RelayTypeOK
<1> HIDE DEF g
<1>5. Proper(Msg(kind, "relay", e, g, e, known))
  BY Zenon, <1>1, MsgProper DEF Side
<1> QED BY Zenon, <1>2, <1>3, <1>4, <1>5, SamePlaces

\* A closed tunnel disestablishes relays and deletes none.
LEMMA unlinkKeeps ==
  ASSUME RelayInv, NEW e \in End, unlink(e)
  PROVE  Steady
<1>1. entry \in EntryMap /\ "end" \in Side
  BY Zenon, TypeFacts DEF RelayInv, Side
<1>2. \A g \in Gen : entry["end"][e][g] \in Entry /\
        [entry["end"][e][g] EXCEPT !.state = "Disestablished"] \in Entry /\
        [entry["end"][e][g] EXCEPT !.state = "Disestablished"].state # "gone"
  BY <1>1 DEF EntryMap, Entry
<1>3. entry' \in EntryMap
  BY Zenon, <1>1, <1>2 DEF EntryMap, unlink
<1>4. SameLive(entry, entry')
  BY <1>1, <1>2 DEF EntryMap, SameLive, unlink, HasTunnel
<1>5. UNCHANGED <<made, primary, relayLosses, wire>> /\ linked' \in [End -> BOOLEAN]
  BY Zenon DEF unlink, RelayInv, RelayTypeOK
<1> QED BY Zenon, <1>3, <1>4, <1>5, SamePlaces

\* The target of a request answers on the tunnel it came by.
LEMMA forMeKeeps ==
  ASSUME RelayInv, NEW m \in wire, requestForMe(m)
  PROVE  Steady
<1> DEFINE e == m.end
           g == m.gen
           r == entry["end"][e][g]
<1>1. /\ m \in RelayMessage /\ e \in End /\ g \in Gen /\ m.from \in End
      /\ "end" \in Side /\ "relay" \in Side /\ entry \in EntryMap
      /\ r \in Entry /\ r.state # "gone" /\ Live("end", e, g)
  BY Zenon, TypeFacts DEF RelayInv, RelayTypeOK, RelayMessage, Side, requestForMe, Live
<1>2. UNCHANGED <<made, linked, relayLosses>> /\ linked \in [End -> BOOLEAN]
  BY Zenon DEF requestForMe, RelayInv, RelayTypeOK
<1>3. CASE Mismatch(r)
  BY Zenon, <1>1, <1>2, <1>3, SameLiveFacts, SamePlaces DEF requestForMe, Take
<1>4. CASE ~Mismatch(r)
  <2>1. Terminate(r) \in Entry /\ Terminate(r).state # "gone"
    BY Zenon, <1>1 DEF Terminate, Entry
  <2>2. entry' = With(entry, "end", e, g, Terminate(r))
    BY Zenon, <1>4 DEF requestForMe
  <2>3. entry' \in EntryMap /\ SameLive(entry, entry')
    BY Zenon, <1>1, <2>1, <2>2, WithFacts, SameLiveFacts
  <2>4. \/ UNCHANGED primary
        \/ primary' = [primary EXCEPT !["end"][e] = g]
    BY Zenon, <1>4 DEF requestForMe
  <2>5. wire' = (wire \ {m}) \cup {Msg("Response", "relay", e, g, m.from, TRUE)}
    BY Zenon, <1>4 DEF requestForMe, Take
  <2> HIDE DEF e, g
  <2>6. Proper(Msg("Response", "relay", e, g, m.from, TRUE))
    BY Zenon, <1>1, MsgProper DEF Kinds
  <2> QED BY Zenon, <1>1, <1>2, <2>3, <2>4, <2>5, <2>6, SamePlaces
<1> QED BY Zenon, <1>3, <1>4

\* The entries while a request is forwarded: first the target's half.
Asked(E, o, p) ==
  IF E["relay"][o][p].state = "none"
  THEN AddRelay(E, "relay", o, p, "Requested", FALSE)
  ELSE WithState(E, "relay", o, p, "Requested")

\* What asking changes.
LEMMA AskedFacts ==
  ASSUME NEW E \in EntryMap, NEW o \in End, NEW p \in Gen,
         E["relay"][o][p].state # "gone"
  PROVE  /\ Asked(E, o, p) \in EntryMap /\ SameLive(E, Asked(E, o, p))
         /\ Asked(E, o, p)["relay"][o][p].state = "Requested"
         /\ \A t \in Side, x \in End, h \in Gen :
              ~(t = "relay" /\ x = o /\ h = p) =>
                Asked(E, o, p)[t][x][h] = E[t][x][h]
<1>1. "relay" \in Side
  BY Zenon DEF Side
<1>2. CASE E["relay"][o][p].state = "none"
  <2> DEFINE v == Fresh("Requested")
  <2>1. Asked(E, o, p) = With(E, "relay", o, p, v)
    BY Zenon, <1>2 DEF Asked, AddRelay, Fresh
  <2>2. v \in Entry /\ v.state = "Requested"
    BY Zenon, Written
  <2> HIDE DEF v
  <2>3. SameLive(E, With(E, "relay", o, p, v))
    BY Zenon, <1>1, <2>2, SameLiveFacts
  <2>4. /\ With(E, "relay", o, p, v) \in EntryMap
        /\ With(E, "relay", o, p, v)["relay"][o][p] = v
        /\ \A t \in Side, x \in End, h \in Gen :
             ~(t = "relay" /\ x = o /\ h = p) =>
               With(E, "relay", o, p, v)[t][x][h] = E[t][x][h]
    BY <1>1, <2>2, WithFacts
  <2>5. Asked(E, o, p)["relay"][o][p].state = "Requested"
    BY Zenon, <2>1, <2>2, <2>4
  <2> DEFINE W == With(E, "relay", o, p, v)
  <2>6. /\ Asked(E, o, p) = W /\ W \in EntryMap /\ SameLive(E, W)
        /\ \A t \in Side, x \in End, h \in Gen :
             ~(t = "relay" /\ x = o /\ h = p) => W[t][x][h] = E[t][x][h]
    BY Zenon, <2>1, <2>3, <2>4
  <2> HIDE DEF W
  <2> QED BY Zenon, <2>5, <2>6
<1>3. CASE E["relay"][o][p].state # "none"
  <2> DEFINE W == WithState(E, "relay", o, p, "Requested")
  <2>1. Asked(E, o, p) = W
    BY Zenon, <1>3 DEF Asked
  <2>2. SameLive(E, W)
    BY Zenon, <1>1, Restating, SameLiveFacts
  <2>3. W \in EntryMap
    BY Zenon, <1>1, Restating, WithStateFacts
  <2>4. W["relay"][o][p].state = "Requested"
    BY <1>1, <1>3, Restating, WithStateFacts
  <2>5. \A t \in Side, x \in End, h \in Gen :
             ~(t = "relay" /\ x = o /\ h = p) => W[t][x][h] = E[t][x][h]
    BY <1>1, Restating, WithStateFacts
  <2> HIDE DEF W
  <2> QED BY Zenon, <2>1, <2>2, <2>3, <2>4, <2>5
<1> QED BY Zenon, <1>2, <1>3

\* Then the half-created one of the end that asks, if there is none.
Tracked(E, e, g) ==
  IF E["relay"][e][g].state = "none"
  THEN AddRelay(E, "relay", e, g, "PeerRequested", TRUE) ELSE E

\* What tracking changes.
LEMMA TrackedFacts ==
  ASSUME NEW E \in EntryMap, NEW e \in End, NEW g \in Gen
  PROVE  /\ Tracked(E, e, g) \in EntryMap /\ SameLive(E, Tracked(E, e, g))
         /\ E["relay"][e][g].state # "none" => Tracked(E, e, g) = E
         /\ E["relay"][e][g].state = "none" =>
              Tracked(E, e, g)["relay"][e][g] = Indexed("PeerRequested")
         /\ \A t \in Side, x \in End, h \in Gen :
              ~(t = "relay" /\ x = e /\ h = g) =>
                Tracked(E, e, g)[t][x][h] = E[t][x][h]
<1>1. "relay" \in Side
  BY Zenon DEF Side
<1>2. CASE E["relay"][e][g].state = "none"
  <2> DEFINE v == Indexed("PeerRequested")
  <2> DEFINE W == With(E, "relay", e, g, v)
  <2>1. Tracked(E, e, g) = W
    BY Zenon, <1>2 DEF Tracked, AddRelay, Indexed
  <2>2. v \in Entry /\ v.state = "PeerRequested"
    BY Zenon, Written
  <2> HIDE DEF v
  <2>3. SameLive(E, W)
    BY Zenon, <1>1, <1>2, <2>2, SameLiveFacts
  <2>4. W \in EntryMap /\ W["relay"][e][g] = v
    BY <1>1, <2>2, WithFacts
  <2>5. \A t \in Side, x \in End, h \in Gen :
          ~(t = "relay" /\ x = e /\ h = g) => W[t][x][h] = E[t][x][h]
    BY <1>1, <2>2, WithFacts
  <2>6. W["relay"][e][g] = Indexed("PeerRequested")
    BY Zenon, <2>4 DEF v
  <2> HIDE DEF W
  <2> QED BY Zenon, <1>2, <2>1, <2>3, <2>4, <2>5, <2>6
<1>3. CASE E["relay"][e][g].state # "none"
  <2>1. Tracked(E, e, g) = E
    BY Zenon, <1>3 DEF Tracked
  <2>2. SameLive(E, E)
    BY Zenon DEF SameLive
  <2> QED BY Zenon, <1>3, <2>1, <2>2
<1> QED BY Zenon, <1>2, <1>3

\* A request that is forwarded, in these terms.
LEMMA ForwardEffect ==
  ASSUME RelayInv, NEW m \in wire, requestToForward(m)
  PROVE  /\ m.end \in End /\ m.gen \in Gen /\ Live("relay", m.end, m.gen)
         /\ m.kind = "Request" /\ m.to = "relay"
         /\ UNCHANGED <<made, linked, relayLosses>>
         /\ LET o == Other(m.end)
                p == primary["relay"][o]
                E == Asked(entry, o, p)
            IN  \/ p = 0 /\ wire' = Take(m) /\ UNCHANGED <<entry, primary>>
                \/ /\ p \in Gen /\ entry["relay"][o][p].state # "gone"
                   /\ entry' = Tracked(E, m.end, m.gen)
                   /\ \/ UNCHANGED primary
                      \/ primary' = [primary EXCEPT !["relay"][m.end] = m.gen]
                   /\ wire' = Take(m) \cup {Msg("Request", "end", o, p, m.end, TRUE)}
<1> DEFINE o == Other(m.end)
           p == primary["relay"][o]
<1>1. m \in RelayMessage /\ m.end \in End /\ m.gen \in Gen
  BY Zenon DEF RelayInv, RelayTypeOK, RelayMessage
<1>2. o \in End /\ "relay" \in Side
  BY Zenon, <1>1, OtherEnd DEF Side
<1>3. p # 0 => p \in Gen /\ entry["relay"][o][p].state # "gone"
  BY <1>2, TypeFacts DEF RelayInv, Placed, Live, Gen
<1> HIDE DEF p, o
<1>4. p = 0 => wire' = Take(m) /\ UNCHANGED <<entry, primary>>
  BY Zenon DEF requestToForward, p, o
<1>5. p # 0 => /\ entry' = Tracked(Asked(entry, o, p), m.end, m.gen)
               /\ \/ UNCHANGED primary
                  \/ primary' = [primary EXCEPT !["relay"][m.end] = m.gen]
               /\ wire' = Take(m) \cup {Msg("Request", "end", o, p, m.end, TRUE)}
  BY Zenon DEF requestToForward, p, o, Asked, Tracked
<1>6. /\ Live("relay", m.end, m.gen) /\ m.kind = "Request" /\ m.to = "relay"
      /\ UNCHANGED <<made, linked, relayLosses>>
  BY Zenon DEF requestToForward
<1> QED BY Zenon, <1>1, <1>3, <1>4, <1>5, <1>6 DEF p, o

\* A relay asks the target on the primary tunnel to it.
LEMMA toForwardKeeps ==
  ASSUME RelayInv, NEW m \in wire, requestToForward(m)
  PROVE  Steady
<1> DEFINE o == Other(m.end)
           p == primary["relay"][o]
           E == Asked(entry, o, p)
<1>1. /\ m.end \in End /\ m.gen \in Gen /\ Live("relay", m.end, m.gen)
      /\ UNCHANGED <<made, linked, relayLosses>>
      /\ entry \in EntryMap /\ linked \in [End -> BOOLEAN]
      /\ o \in End /\ o # m.end /\ "relay" \in Side /\ "end" \in Side
  BY Zenon, ForwardEffect, TypeFacts, OtherEnd DEF RelayInv, RelayTypeOK, Side
<1>2. CASE p = 0 /\ wire' = Take(m) /\ UNCHANGED <<entry, primary>>
  BY Zenon, <1>1, <1>2, SameLiveFacts, SamePlaces DEF Take
<1>3. CASE /\ p \in Gen /\ entry["relay"][o][p].state # "gone"
           /\ entry' = Tracked(E, m.end, m.gen)
           /\ \/ UNCHANGED primary
              \/ primary' = [primary EXCEPT !["relay"][m.end] = m.gen]
           /\ wire' = Take(m) \cup {Msg("Request", "end", o, p, m.end, TRUE)}
  <2>1. E \in EntryMap /\ SameLive(entry, E)
    BY Zenon, <1>1, <1>3, AskedFacts
  <2> HIDE DEF E, o
  <2>2. entry' \in EntryMap /\ SameLive(E, entry')
    BY Zenon, <1>1, <1>3, <2>1, TrackedFacts
  <2>3. SameLive(entry, entry')
    BY Zenon, <2>1, <2>2, SameLiveTrans
  <2>4. Live("relay", o, p)
    BY Zenon, <1>3 DEF Live
  <2>5. Proper(Msg("Request", "end", o, p, m.end, TRUE))
    BY Zenon, <1>1, <1>3, <2>4, MsgProper DEF Kinds
  <2> QED BY Zenon, <1>1, <1>3, <2>2, <2>3, <2>5, SamePlaces DEF Take
<1> QED BY Zenon, <1>2, <1>3, ForwardEffect

\* CompleteRelayByIdx changes one entry.
LEMMA CompleteFacts ==
  ASSUME NEW E \in EntryMap, NEW s \in Side, NEW e \in End, NEW g \in Gen,
         E[s][e][g].state # "gone"
  PROVE  /\ CompleteRelay(E, s, e, g) \in EntryMap
         /\ SameLive(E, CompleteRelay(E, s, e, g))
         /\ CompleteRelay(E, s, e, g)[s][e][g] = Indexed("Established")
         /\ \A t \in Side, x \in End, h \in Gen : ~(t = s /\ x = e /\ h = g) =>
              CompleteRelay(E, s, e, g)[t][x][h] = E[t][x][h]
<1> DEFINE v == Indexed("Established")
           W == With(E, s, e, g, v)
<1>1. CompleteRelay(E, s, e, g) = W
  BY Zenon DEF CompleteRelay, Indexed
<1>2. v \in Entry /\ v.state # "gone"
  BY Zenon, Written
<1> HIDE DEF v
<1>3. SameLive(E, W)
  BY Zenon, <1>2, SameLiveFacts
<1>4. /\ W \in EntryMap /\ W[s][e][g] = v
      /\ \A t \in Side, x \in End, h \in Gen : ~(t = s /\ x = e /\ h = g) =>
           W[t][x][h] = E[t][x][h]
  BY <1>2, WithFacts
<1> HIDE DEF W
<1> QED BY Zenon, <1>1, <1>3, <1>4 DEF v

\* A message is read: it is one, and its tunnel may be there.
LEMMA ReadFacts ==
  ASSUME RelayInv, NEW m \in wire
  PROVE  /\ m \in RelayMessage /\ m.end \in End /\ m.gen \in Gen
         /\ m.to \in Side /\ m.from \in End /\ m.known \in BOOLEAN
         /\ m.kind \in Kinds
         /\ "end" \in Side /\ "relay" \in Side
         /\ entry \in EntryMap /\ linked \in [End -> BOOLEAN]
         /\ SameLive(entry, entry)
  BY Zenon, TypeFacts, SameLiveFacts
     DEF RelayInv, RelayTypeOK, RelayMessage, Side, Kinds, SameLive

\* EstablishRelay at an end.
LEMMA responseForMeKeeps ==
  ASSUME RelayInv, NEW m \in wire, responseForMe(m)
  PROVE  Steady
<1>1. entry' \in EntryMap /\ SameLive(entry, entry')
  <2>1. CASE m.known /\ HasTunnel("end", m.end, m.gen)
    <3>1. entry' = CompleteRelay(entry, "end", m.end, m.gen)
      BY Zenon, <2>1 DEF responseForMe
    <3>2. entry["end"][m.end][m.gen].state # "gone"
      BY Zenon, <2>1 DEF HasTunnel
    <3> QED BY Zenon, <3>1, <3>2, ReadFacts, CompleteFacts
  <2>2. CASE ~(m.known /\ HasTunnel("end", m.end, m.gen))
    BY Zenon, <2>2, ReadFacts DEF responseForMe
  <2> QED BY Zenon, <2>1, <2>2
<1>2. /\ wire' = wire \ {m} /\ UNCHANGED <<made, primary, linked, relayLosses>>
  BY Zenon DEF responseForMe, Take
<1> QED BY Zenon, <1>1, <1>2, ReadFacts, SamePlaces

\* The entries after a response in the middle.
LEMMA ResponseEffect ==
  ASSUME RelayInv, NEW m \in wire, responseToForward(m)
  PROVE  /\ m.kind = "Response" /\ m.to = "relay" /\ Live("relay", m.end, m.gen)
         /\ UNCHANGED <<made, primary, linked, relayLosses>>
         /\ LET o == Other(m.end)
                p == primary["relay"][o]
                peer == entry["relay"][o][p]
                E == CompleteRelay(entry, "relay", m.end, m.gen)
            IN  \/ ~HasTunnel("relay", m.end, m.gen) /\ wire' = Take(m) /\ entry' = entry
                \/ /\ HasTunnel("relay", m.end, m.gen)
                   /\ p = 0 \/ peer.state \in {"none", "Requested"}
                   /\ wire' = Take(m) /\ entry' = E
                \/ /\ HasTunnel("relay", m.end, m.gen)
                   /\ p \in Gen /\ peer.state \notin {"gone", "none", "Requested"}
                   /\ peer.known \in BOOLEAN
                   /\ entry' = WithState(E, "relay", o, p, "Established")
                   /\ wire' = Take(m) \cup
                               {Msg("Response", "end", o, p, o, peer.known)}
<1> DEFINE o == Other(m.end)
           p == primary["relay"][o]
<1>1. o \in End /\ "relay" \in Side
  BY Zenon, ReadFacts, OtherEnd
<1>2. p # 0 => /\ p \in Gen /\ entry["relay"][o][p].state # "gone"
               /\ entry["relay"][o][p].known \in BOOLEAN
  BY <1>1, TypeFacts DEF RelayInv, Placed, Live, Gen
<1> QED BY Zenon, <1>2 DEF responseToForward

\* handleCreateRelayResponse in the middle.
LEMMA responseToForwardKeeps ==
  ASSUME RelayInv, NEW m \in wire, responseToForward(m)
  PROVE  Steady
<1> DEFINE o == Other(m.end)
           p == primary["relay"][o]
           peer == entry["relay"][o][p]
           E == CompleteRelay(entry, "relay", m.end, m.gen)
<1>0. o \in End
  BY Zenon, ReadFacts, OtherEnd
<1>1. HasTunnel("relay", m.end, m.gen) => E \in EntryMap /\ SameLive(entry, E)
  BY Zenon, ReadFacts, CompleteFacts DEF HasTunnel
<1>2. UNCHANGED <<made, primary, linked, relayLosses>>
  BY Zenon, ResponseEffect
<1>3. CASE wire' = Take(m) /\ entry' = entry
  BY Zenon, <1>2, <1>3, ReadFacts, SamePlaces DEF Take
<1>4. CASE HasTunnel("relay", m.end, m.gen) /\ wire' = Take(m) /\ entry' = E
  BY Zenon, <1>1, <1>2, <1>4, ReadFacts, SamePlaces DEF Take
<1>5. CASE /\ HasTunnel("relay", m.end, m.gen)
           /\ p \in Gen /\ peer.state \notin {"gone", "none", "Requested"}
           /\ peer.known \in BOOLEAN
           /\ entry' = WithState(E, "relay", o, p, "Established")
           /\ wire' = Take(m) \cup {Msg("Response", "end", o, p, o, peer.known)}
  <2>1. E \in EntryMap /\ SameLive(entry, E)
    BY Zenon, <1>1, <1>5
  <2>2. Live("relay", o, p)
    BY Zenon, <1>5 DEF Live
  <2> HIDE DEF E, o, p
  <2>3. entry' \in EntryMap /\ SameLive(E, entry')
    BY Zenon, <1>0, <1>5, <2>1, ReadFacts, Restating, WithStateFacts, SameLiveFacts
  <2>4. SameLive(entry, entry')
    BY Zenon, <2>1, <2>3, SameLiveTrans
  <2>5. Proper(Msg("Response", "end", o, p, o, peer.known))
    BY Zenon, <1>0, <1>5, <2>2, ReadFacts, MsgProper DEF Kinds
  <2> QED BY Zenon, <1>2, <1>5, <2>3, <2>4, <2>5, ReadFacts, SamePlaces DEF Take
<1> QED BY Zenon, <1>3, <1>4, <1>5, ResponseEffect

\* A packet is forwarded on a tunnel with an established relay.
LEMMA forwardKeeps ==
  ASSUME RelayInv, NEW m \in wire, forward(m)
  PROVE  Steady
<1> DEFINE o == Other(m.end)
<1>0. o \in End
  BY Zenon, ReadFacts, OtherEnd
<1>1. UNCHANGED <<made, entry, primary, linked, relayLosses>>
  BY Zenon DEF forward
<1>2. CASE wire' = Take(m)
  BY Zenon, <1>1, <1>2, ReadFacts, SamePlaces DEF Take
<1>3. ASSUME NEW g \in CarryingTunnels(o),
             wire' = Take(m) \cup
               {Msg(m.kind, "end", o, g, m.from, entry["relay"][o][g].known)}
      PROVE  Steady
  <2>1. g \in Gen /\ entry["relay"][o][g].state = "Established"
    BY Zenon, <1>3 DEF CarryingTunnels
  <2>2. Live("relay", o, g) /\ entry["relay"][o][g].known \in BOOLEAN
    BY Zenon, <1>0, <2>1, ReadFacts, TypeFacts DEF Live, RelayInv
  <2>3. m.kind # "Request"
    BY Zenon DEF forward
  <2> HIDE DEF o
  <2>4. Proper(Msg(m.kind, "end", o, g, m.from, entry["relay"][o][g].known))
    BY Zenon, <1>0, <2>1, <2>2, <2>3, ReadFacts, MsgProper
  <2> QED BY Zenon, <1>1, <1>3, <2>4, ReadFacts, SamePlaces DEF Take
<1> QED BY Zenon, <1>2, <1>3 DEF forward

\* A packet for me is answered on the tunnel it came by.
LEMMA terminalKeeps ==
  ASSUME RelayInv, NEW m \in wire, terminal(m)
  PROVE  Steady
<1>1. /\ UNCHANGED <<made, primary, relayLosses>>
      /\ linked' \in [End -> BOOLEAN]
  BY Zenon, ReadFacts DEF terminal
<1>2. CASE m.kind = "Packet"
  <2> DEFINE known == entry["end"][m.end][m.gen].known
  <2>1. /\ entry' = WithState(entry, "end", m.end, m.gen, "Established")
        /\ wire' = Take(m) \cup {Msg("Reply", "relay", m.end, m.gen, m.end, known)}
        /\ Live("end", m.end, m.gen)
    BY Zenon, <1>2 DEF terminal, HasTunnel, Live
  <2>2. known \in BOOLEAN
    BY Zenon, ReadFacts, TypeFacts DEF RelayInv
  <2> HIDE DEF known
  <2>3. entry' \in EntryMap /\ SameLive(entry, entry')
    BY Zenon, <2>1, ReadFacts, Restating, WithStateFacts, SameLiveFacts
  <2>4. Proper(Msg("Reply", "relay", m.end, m.gen, m.end, known))
    BY Zenon, <2>1, <2>2, ReadFacts, MsgProper DEF Kinds
  <2> QED BY Zenon, <1>1, <2>1, <2>3, <2>4, SamePlaces DEF Take
<1>3. CASE m.kind # "Packet"
  BY Zenon, <1>1, <1>3, ReadFacts, SamePlaces DEF terminal, Take
<1> QED BY Zenon, <1>2, <1>3

\* A packet that is dropped.
LEMMA discardKeeps ==
  ASSUME RelayInv, NEW m \in wire, discard(m)
  PROVE  Steady
  BY Zenon, ReadFacts, SamePlaces DEF discard, Take

\* A message that is lost.
LEMMA loseKeeps ==
  ASSUME RelayInv, NEW m \in wire, loseMessage(m)
  PROVE  RelayInv'
<1>1. /\ wire' \subseteq wire /\ UNCHANGED <<made, entry, primary, linked>>
      /\ relayLosses' \in 0..MaxLoss
  BY RelayAssumption DEF RelayInv, RelayTypeOK, loseMessage, Take
<1>2. RelayTypeOK'
  BY Zenon, <1>1 DEF RelayInv, RelayTypeOK
<1>3. Placed'
  BY Zenon, <1>1 DEF RelayInv, Placed, Live
<1>4. NeverFromMyself'
  BY Zenon, <1>1 DEF RelayInv, NeverFromMyself
<1> QED BY Zenon, <1>2, <1>3, <1>4 DEF RelayInv

\* A new tunnel to the relay is the primary one on both sides.
LEMMA rehandshakeKeeps ==
  ASSUME RelayInv, NEW e \in End, rehandshake(e)
  PROVE  RelayInv'
<1> DEFINE g == made[e] + 1
<1>1. /\ g \in Gen /\ g > made[e] /\ g # 0
      /\ \A x \in End : made[x] \in Nat
  BY TypeFacts DEF RelayInv, rehandshake, Gen
<1>2. /\ made' = [made EXCEPT ![e] = g]
      /\ entry' = [s \in Side |-> [entry[s] EXCEPT ![e][g] = NoEntry]]
      /\ primary' = [s \in Side |-> [primary[s] EXCEPT ![e] = g]]
      /\ UNCHANGED <<wire, linked, relayLosses>>
  BY Zenon DEF rehandshake
<1>3. NoEntry \in Entry /\ NoEntry.state # "gone"
  BY Zenon DEF NoEntry, Entry
<1> HIDE DEF g
<1>4. entry \in EntryMap
  BY Zenon, TypeFacts DEF RelayInv
<1>5. entry' \in EntryMap
  BY Zenon, <1>1, <1>2, <1>3, <1>4 DEF EntryMap
<1>6. \A s \in Side, x \in End, h \in Gen :
        entry'[s][x][h] = IF x = e /\ h = g THEN NoEntry ELSE entry[s][x][h]
  BY <1>1, <1>2, <1>4 DEF EntryMap
<1>7. primary' \in [Side -> [End -> 0..MaxGen]]
  <2>1. g \in 0..MaxGen
    BY <1>1, RelayAssumption DEF Gen
  <2> QED BY Zenon, <1>2, <2>1 DEF RelayInv, RelayTypeOK
<1>8. \A s \in Side, x \in End :
        primary'[s][x] = IF x = e THEN g ELSE primary[s][x]
  BY Zenon, <1>2 DEF RelayInv, RelayTypeOK
<1>9. made' \in [End -> Gen] /\ \A x \in End : made'[x] = IF x = e THEN g ELSE made[x]
  BY Zenon, <1>1, <1>2 DEF RelayInv, RelayTypeOK
<1>10. RelayTypeOK'
  BY Zenon, <1>2, <1>5, <1>7, <1>9 DEF RelayInv, RelayTypeOK, EntryMap
<1>11. Placed'
  <2>1. ASSUME NEW s \in Side, NEW x \in End, NEW h \in Gen, Live(s, x, h)'
        PROVE  h <= made'[x] /\ primary'[s][x] # 0
    <3>1. CASE x = e /\ h = g
      BY <1>1, <1>8, <1>9, <3>1 DEF Gen
    <3>2. CASE ~(x = e /\ h = g)
      <4>1. Live(s, x, h)
        BY Zenon, <1>6, <2>1, <3>2 DEF Live
      <4>2. h <= made[x] /\ primary[s][x] # 0
        BY Zenon, <4>1 DEF RelayInv, Placed
      <4> QED BY <1>1, <1>8, <1>9, <4>2 DEF Gen
    <3> QED BY Zenon, <3>1, <3>2
  <2>2. ASSUME NEW s \in Side, NEW x \in End, primary'[s][x] # 0
        PROVE  Live(s, x, primary[s][x])'
    <3>1. CASE x = e
      BY ZenonT(60), <1>1, <1>3, <1>6, <1>8, <3>1 DEF Live
    <3>2. CASE x # e
      <4>1. primary'[s][x] = primary[s][x] /\ primary[s][x] \in Gen
        BY <1>8, <2>2, <3>2, TypeFacts DEF RelayInv, Gen
      <4> QED BY <1>6, <2>2, <3>2, <4>1 DEF RelayInv, Placed, Live
    <3> QED BY Zenon, <3>1, <3>2
  <2>3. ASSUME NEW m \in wire'
        PROVE  m.gen <= made'[m.end]
    <3>1. m \in wire /\ m.gen <= made[m.end] /\ m.end \in End /\ m.gen \in Gen
      BY Zenon, <1>2, <2>3 DEF RelayInv, Placed, RelayTypeOK, RelayMessage
    <3> QED BY <1>1, <1>9, <3>1 DEF Gen
  <2> QED BY Zenon, <2>1, <2>2, <2>3 DEF Placed
<1>12. NeverFromMyself'
  BY Zenon, <1>2 DEF RelayInv, NeverFromMyself
<1> QED BY Zenon, <1>10, <1>11, <1>12 DEF RelayInv

\* migrateRelayUsed asks on the primary tunnel, never for the one it asks.
LEMMA migrateKeeps ==
  ASSUME RelayInv, NEW s \in Side, NEW e \in End, NEW g \in Gen,
         migrateRelayUsed(s, e, g)
  PROVE  Steady
<1> DEFINE p == primary[s][e]
           to == IF s = "end" THEN "relay" ELSE "end"
           from == MigratedFrom(s, e)
<1>1. /\ p \in Gen /\ Live(s, e, p) /\ entry \in EntryMap
      /\ linked \in [End -> BOOLEAN]
  BY TypeFacts DEF RelayInv, RelayTypeOK, migrateRelayUsed, Placed, Gen
<1>2. entry' \in EntryMap /\ SameLive(entry, entry')
  <2>1. CASE entry[s][e][p].state = "none"
    <3>1. entry' = With(entry, s, e, p, Fresh("Requested"))
      BY Zenon, <2>1 DEF migrateRelayUsed, AddRelay, Fresh
    <3>2. entry[s][e][p].state # "gone"
      BY Zenon, <2>1
    <3> QED BY Zenon, <1>1, <3>1, <3>2, Written, WithFacts, SameLiveFacts
  <2>2. CASE entry[s][e][p].state # "none"
    BY Zenon, <1>1, <2>2 DEF migrateRelayUsed, SameLive
  <2> QED BY Zenon, <2>1, <2>2
<1>3. /\ to \in Side /\ from \in End
      /\ IF to = "end" THEN from # e ELSE from = e
  BY Zenon, OtherEnd DEF Side, MigratedFrom
<1>4. /\ wire' = wire \cup {Msg("Request", to, e, p, from, TRUE)}
      /\ UNCHANGED <<made, primary, linked, relayLosses>>
  BY Zenon DEF migrateRelayUsed
<1> HIDE DEF p, to, from
<1>5. Proper(Msg("Request", to, e, p, from, TRUE))
  BY Zenon, <1>1, <1>3, MsgProper DEF Kinds
<1> QED BY Zenon, <1>1, <1>2, <1>4, <1>5, SamePlaces

\* A delete takes one hostinfo and may disestablish others' entries.
LEMMA DeleteEffect ==
  ASSUME RelayInv, NEW s \in Side, NEW e \in End, NEW g \in Gen,
         deleteRelays(s, e, g)
  PROVE  /\ entry' \in EntryMap
         /\ \A t \in Side, x \in End, h \in Gen :
              entry'[t][x][h].state = "gone" <=>
                entry[t][x][h].state = "gone" \/ (t = s /\ x = e /\ h = g)
<1> DEFINE E == With(entry, s, e, g, Gone)
           o == Other(e)
<1>1. /\ entry \in EntryMap /\ "relay" \in Side
      /\ o \in End /\ o # e
  BY Zenon, TypeFacts, OtherEnd DEF RelayInv, Side
<1>2. Gone \in Entry /\ Gone.state = "gone"
  BY Zenon DEF Gone, Entry
<1>3. /\ E \in EntryMap /\ E[s][e][g] = Gone
      /\ \A t \in Side, x \in End, h \in Gen : ~(t = s /\ x = e /\ h = g) =>
           E[t][x][h] = entry[t][x][h]
  BY <1>1, <1>2, WithFacts
<1>4. CASE entry' = E
  BY Zenon, <1>2, <1>3, <1>4
<1>5. CASE entry' = [E EXCEPT !["relay"][o] = [h \in Gen |->
                       IF HasTunnel("relay", o, h)
                       THEN [@[h] EXCEPT !.state = "Disestablished"]
                       ELSE @[h]]]
  <2> DEFINE F == [h \in Gen |-> IF HasTunnel("relay", o, h)
                       THEN [E["relay"][o][h] EXCEPT !.state = "Disestablished"]
                       ELSE E["relay"][o][h]]
  <2>1. entry' = [E EXCEPT !["relay"][o] = F]
    BY Zenon, <1>5
  <2>2. \A h \in Gen : E["relay"][o][h] = entry["relay"][o][h]
    BY Zenon, <1>1, <1>3
  <2> HIDE DEF E, o
  <2>3. \A h \in Gen : /\ E["relay"][o][h] \in Entry
                       /\ F[h] \in Entry
                       /\ F[h].state = "gone" <=> entry["relay"][o][h].state = "gone"
    <3> SUFFICES ASSUME NEW h \in Gen
                 PROVE  /\ E["relay"][o][h] \in Entry /\ F[h] \in Entry
                        /\ F[h].state = "gone" <=> entry["relay"][o][h].state = "gone"
      OBVIOUS
    <3> DEFINE r == entry["relay"][o][h]
    <3>1. r \in Entry /\ E["relay"][o][h] = r
      BY <1>1, <2>2 DEF EntryMap
    <3>2. F[h] = IF HasTunnel("relay", o, h)
                 THEN [r EXCEPT !.state = "Disestablished"] ELSE r
      BY Zenon, <3>1
    <3>3. /\ [r EXCEPT !.state = "Disestablished"] \in Entry
          /\ [r EXCEPT !.state = "Disestablished"].state = "Disestablished"
      BY Zenon, <3>1 DEF Entry
    <3> QED BY Zenon, <3>1, <3>2, <3>3 DEF HasTunnel
  <2>4. F \in [Gen -> Entry]
    <3>1. F = [h \in Gen |-> F[h]]
      OBVIOUS
    <3> HIDE DEF F
    <3> QED BY Zenon, <2>3, <3>1
  <2> HIDE DEF F
  <2>5. entry' \in EntryMap
    BY Zenon, <1>1, <1>3, <2>1, <2>4 DEF EntryMap
  <2>6. \A t \in Side, x \in End, h \in Gen :
          entry'[t][x][h] = IF t = "relay" /\ x = o THEN F[h] ELSE E[t][x][h]
    BY Zenon, <1>1, <1>3, <2>1, <2>4 DEF EntryMap
  <2>7. ASSUME NEW t \in Side, NEW x \in End, NEW h \in Gen
        PROVE  entry'[t][x][h].state = "gone" <=>
                 entry[t][x][h].state = "gone" \/ (t = s /\ x = e /\ h = g)
    <3>1. CASE t = "relay" /\ x = o
      <4>1. entry'[t][x][h] = F[h] /\ x # e
        BY Zenon, <1>1, <2>6, <3>1
      <4>2. F[h].state = "gone" <=> entry[t][x][h].state = "gone"
        BY Zenon, <2>3, <3>1
      <4> QED BY Zenon, <4>1, <4>2
    <3>2. CASE ~(t = "relay" /\ x = o)
      BY <1>2, <1>3, <2>6, <3>2
    <3> QED BY Zenon, <3>1, <3>2
  <2> QED BY Zenon, <2>5, <2>7
<1> QED BY Zenon, <1>4, <1>5 DEF deleteRelays

\* A set of numbers has a least one.
LEMMA Least ==
  ASSUME NEW T \in SUBSET Nat, T # {}
  PROVE  \E i \in T : \A j \in T : i <= j
<1>1. IsWellFoundedOn(OpToRel(<, Nat), Nat)
  BY Zenon, NatLessThanWellFounded
<1>2. PICK i \in T : \A j \in T : ~(<<j, i>> \in OpToRel(<, Nat))
  BY Zenon, <1>1, WFMin
<1>3. \A j \in T : <<j, i>> \in Nat \X Nat /\ i \in Nat /\ j \in Nat
  OBVIOUS
<1>4. \A j \in T : ~(j < i)
  BY Zenon, <1>2, <1>3 DEF OpToRel
<1>5. ASSUME NEW j \in T
      PROVE  i <= j
  <2>1. i \in Nat /\ j \in Nat /\ ~(j < i)
    BY Zenon, <1>3, <1>4
  <2> QED
    BY <2>1
<1> QED
  BY Zenon, <1>5

\* So has a set of tunnels a latest one.
LEMMA Latest ==
  ASSUME NEW T \in SUBSET Gen, T # {}
  PROVE  \E h \in T : \A k \in T : k <= h
<1>1. MaxGen \in Nat /\ \A h \in T : h \in Nat /\ h <= MaxGen
  BY RelayAssumption DEF Gen
<1> DEFINE D == {MaxGen - h : h \in T}
<1>2. D \in SUBSET Nat /\ D # {}
  BY <1>1
<1>3. PICK d \in D : \A c \in D : d <= c
  <2> HIDE DEF D
  <2> QED BY Zenon, <1>2, Least
<1>4. PICK h \in T : d = MaxGen - h
  BY Zenon, <1>3
<1>5. ASSUME NEW k \in T
      PROVE  k <= h
  <2>1. MaxGen - k \in D
    OBVIOUS
  <2>2. MaxGen - h <= MaxGen - k
    BY Zenon, <1>3, <1>4, <2>1
  <2> QED BY <1>1, <2>2
<1> QED BY Zenon, <1>5

\* After a delete the next tunnel of the list is the primary one.
LEMMA deleteKeeps ==
  ASSUME RelayInv, NEW s \in Side, NEW e \in End, NEW g \in Gen,
         deleteRelays(s, e, g)
  PROVE  RelayInv'
<1> DEFINE n == NextPrimary(s, e, g)
           rest == {h \in Gen : h # g /\ Live(s, e, h)}
<1>1. UNCHANGED <<made, wire, linked, relayLosses>>
      /\ primary' = [primary EXCEPT ![s][e] = n]
  BY Zenon DEF deleteRelays
<1>2. \A t \in Side, x \in End, h \in Gen :
        Live(t, x, h)' <=> Live(t, x, h) /\ ~(t = s /\ x = e /\ h = g)
  BY DeleteEffect DEF Live
<1>3. \/ n = 0 /\ rest = {} /\ primary[s][e] = g
      \/ n \in rest /\ primary[s][e] = g
      \/ n = primary[s][e] /\ n # g
  <2>1. CASE primary[s][e] # g
    BY Zenon, <2>1 DEF NextPrimary
  <2>2. CASE primary[s][e] = g /\ rest = {}
    BY Zenon, <2>2 DEF NextPrimary
  <2>3. CASE primary[s][e] = g /\ rest # {}
    <3>1. n = CHOOSE h \in rest : \A k \in rest : k <= h
      BY Zenon, <2>3 DEF NextPrimary
    <3>2. \E h \in rest : \A k \in rest : k <= h
      BY Zenon, <2>3, Latest
    <3> QED BY Zenon, <2>3, <3>1, <3>2
  <2> QED BY Zenon, <2>1, <2>2, <2>3
<1>4. \A m \in rest : m \in Gen /\ m # g /\ Live(s, e, m)
  OBVIOUS
<1> HIDE DEF n
<1>5. primary' \in [Side -> [End -> 0..MaxGen]]
      /\ \A t \in Side, x \in End :
           primary'[t][x] = IF t = s /\ x = e THEN n ELSE primary[t][x]
  <2>1. n \in 0..MaxGen
    BY <1>3, <1>4, TypeFacts DEF RelayInv, Gen
  <2> QED BY Zenon, <1>1, <2>1 DEF RelayInv, RelayTypeOK
<1>6. RelayTypeOK'
  BY Zenon, <1>1, <1>5, DeleteEffect DEF RelayInv, RelayTypeOK, EntryMap
<1>7. ASSUME NEW t \in Side, NEW x \in End, NEW h \in Gen, Live(t, x, h)'
      PROVE  h <= made'[x] /\ primary'[t][x] # 0
  <2>1. Live(t, x, h) /\ ~(t = s /\ x = e /\ h = g)
    BY Zenon, <1>2, <1>7
  <2>2. h <= made[x] /\ primary[t][x] # 0
    BY Zenon, <2>1 DEF RelayInv, Placed
  <2>3. CASE t = s /\ x = e
    <3>1. h \in rest
      BY Zenon, <2>1, <2>3
    <3>2. n # 0
      BY <1>3, <1>4, <2>2, <2>3, <3>1 DEF Gen
    <3> QED BY Zenon, <1>1, <1>5, <2>2, <2>3, <3>2
  <2>4. CASE ~(t = s /\ x = e)
    BY Zenon, <1>1, <1>5, <2>2, <2>4
  <2> QED BY Zenon, <2>3, <2>4
<1>8. ASSUME NEW t \in Side, NEW x \in End, primary'[t][x] # 0
      PROVE  Live(t, x, primary[t][x])'
  <2>1. CASE t = s /\ x = e
    <3>1. n \in Gen /\ n # g /\ Live(s, e, n)
      BY <1>3, <1>4, <1>5, <1>8, <2>1, TypeFacts DEF RelayInv, Placed, Gen
    <3> QED BY Zenon, <1>2, <1>5, <2>1, <3>1
  <2>2. CASE ~(t = s /\ x = e)
    <3>1. primary'[t][x] = primary[t][x] /\ primary[t][x] \in Gen
      BY <1>5, <1>8, <2>2, TypeFacts DEF RelayInv, Gen
    <3> QED BY Zenon, <1>2, <1>8, <2>2, <3>1 DEF RelayInv, Placed
  <2> QED BY Zenon, <2>1, <2>2
<1>9. Placed'
  BY Zenon, <1>1, <1>7, <1>8 DEF RelayInv, Placed
<1>10. NeverFromMyself'
  BY Zenon, <1>1 DEF RelayInv, NeverFromMyself
<1> QED BY Zenon, <1>6, <1>9, <1>10 DEF RelayInv

-----------------------------------------------------------------------------
(* While no tunnel is replaced and nothing is lost.                        *)

\* Tunnels are then the first ones.
LEMMA Calm ==
  ASSUME RelayInv, Undisturbed
  PROVE  /\ \A m \in wire : m.gen = 1
         /\ \A s \in Side, e \in End : primary[s][e] = 1 /\ Live(s, e, 1)
         /\ \A s \in Side, e \in End, g \in Gen : Live(s, e, g) => g = 1
         /\ 1 \in Gen
<1>1. 1 \in Gen /\ \A g \in Gen : g \in Nat /\ g >= 1
  BY RelayAssumption DEF Gen
<1>2. \A m \in wire : m.gen \in Gen /\ m.end \in End /\ m.gen <= made[m.end]
  BY Zenon DEF RelayInv, RelayTypeOK, RelayMessage, Placed
<1>3. \A m \in wire : m.gen = 1
  BY <1>1, <1>2 DEF Undisturbed
<1>4. \A s \in Side, e \in End : primary[s][e] = 1 /\ Live(s, e, 1)
  BY DEF RelayInv, Placed, Undisturbed
<1>5. \A s \in Side, e \in End, g \in Gen : Live(s, e, g) => g = 1
  BY <1>1 DEF RelayInv, Placed, Undisturbed
<1> QED BY Zenon, <1>1, <1>3, <1>4, <1>5

\* A disturbance is never undone.
LEMMA SteadyBefore ==
  ASSUME RelayInv, Steady, Undisturbed'
  PROVE  Undisturbed
<1>0. 1 \in Gen /\ \A g \in Gen : g \in Nat /\ g >= 1
  BY RelayAssumption DEF Gen
<1>1. relayLosses = 0 /\ \A e \in End : made[e] = 1
  BY Zenon DEF Steady, Undisturbed
<1>2. ASSUME NEW s \in Side, NEW e \in End
      PROVE  primary[s][e] = 1
  <2>1. Live(s, e, 1)'
    BY DEF Undisturbed, Steady, RelayInv, Placed
  <2>2. Live(s, e, 1)
    BY Zenon, <1>0, <2>1 DEF Live, SameLive, Steady
  <2>3. primary[s][e] # 0
    BY Zenon, <1>0, <2>2 DEF RelayInv, Placed
  <2>4. primary[s][e] \in Gen /\ primary[s][e] <= 1
    BY <1>1, <2>3, TypeFacts DEF RelayInv, Placed, Gen
  <2> QED BY <1>0, <2>4
<1> QED BY Zenon, <1>1, <1>2 DEF Undisturbed

\* The invariant is kept, and without a disturbance the ends only ask,
\* receive and close.
LEMMA RelayStep ==
  ASSUME RelayInv, RelayNext
  PROVE  /\ RelayInv'
         /\ Undisturbed' =>
              /\ Undisturbed
              /\ \/ \E e \in End : StartRelays(e) \/ unlink(e)
                 \/ \E m \in wire : Receive(m)
<1>1. ASSUME NEW e \in End, StartRelays(e) \/ unlink(e)
      PROVE  Steady
  BY Zenon, <1>1, StartRelaysKeeps, unlinkKeeps
<1>2. ASSUME NEW m \in wire, Receive(m)
      PROVE  Steady
  BY Zenon, <1>2, forMeKeeps, toForwardKeeps, responseForMeKeeps,
     responseToForwardKeeps, forwardKeeps, terminalKeeps, discardKeeps DEF Receive
<1>3. ASSUME NEW e \in End, rehandshake(e)
      PROVE  RelayInv' /\ ~Undisturbed'
  <2>1. made' = [made EXCEPT ![e] = made[e] + 1] /\ made[e] \in Gen
    BY Zenon, <1>3, TypeFacts DEF rehandshake, RelayInv
  <2>2. made'[e] = made[e] + 1 /\ made[e] >= 1
    BY <2>1 DEF Gen, RelayInv, RelayTypeOK
  <2>3. made'[e] # 1
    BY <2>1, <2>2 DEF Gen
  <2> QED BY Zenon, <1>3, <2>3, rehandshakeKeeps DEF Undisturbed
<1>4. ASSUME NEW m \in wire, loseMessage(m)
      PROVE  RelayInv' /\ ~Undisturbed'
  <2>1. relayLosses' = relayLosses + 1 /\ relayLosses \in Nat
    BY <1>4, RelayAssumption DEF loseMessage, RelayInv, RelayTypeOK
  <2> QED BY <1>4, <2>1, loseKeeps DEF Undisturbed
<1>5. ASSUME NEW s \in Side, NEW e \in End, NEW g \in Gen, deleteRelays(s, e, g)
      PROVE  RelayInv' /\ ~Undisturbed'
  <2>1. RelayInv'
    BY Zenon, <1>5, deleteKeeps
  <2> SUFFICES ASSUME Undisturbed'
               PROVE  FALSE
    BY Zenon, <2>1
  <2>2. Live(s, e, 1)' /\ made'[e] = 1
    BY <2>1 DEF Undisturbed, RelayInv, Placed
  <2>3. made[e] = 1 /\ Live(s, e, g)
    BY Zenon, <1>5, <2>2 DEF deleteRelays
  <2>4. g = 1
    BY <2>3, TypeFacts DEF RelayInv, Placed, Gen
  <2> QED BY <1>5, <2>2, <2>4, DeleteEffect DEF Live
<1>6. ASSUME NEW s \in Side, NEW e \in End, NEW g \in Gen,
             migrateRelayUsed(s, e, g)
      PROVE  RelayInv' /\ ~Undisturbed'
  <2>1. Steady
    BY Zenon, <1>6, migrateKeeps
  <2> SUFFICES ASSUME Undisturbed'
               PROVE  FALSE
    BY Zenon, <2>1 DEF Steady
  <2>2. Undisturbed
    BY Zenon, <2>1, SteadyBefore
  <2>3. Live(s, e, g) /\ g # primary[s][e]
    BY Zenon, <1>6 DEF migrateRelayUsed, HasTunnel, Live
  <2> QED BY Zenon, <2>2, <2>3, Calm
<1> QED
  BY Zenon, <1>1, <1>2, <1>3, <1>4, <1>5, <1>6, SteadyBefore DEF RelayNext, Steady

-----------------------------------------------------------------------------
(* With one asker.                                                         *)

\* With one asker, a, the relay's two entries and those of the ends.
Flies(kind, to, e) == \E m \in wire : m.kind = kind /\ m.to = to /\ m.end = e

Oriented(a, b) ==
  \A m \in wire :
    m.end = IF m.to = "relay"
            THEN IF m.kind \in {"Request", "Packet"} THEN a ELSE b
            ELSE IF m.kind \in {"Request", "Packet"} THEN b ELSE a

Half(e) == entry["relay"][e][1]
Terminal(e) == entry["end"][e][1]

\* The half of the target is asked for with that of the asker, an answer
\* establishes both, and a half that was asked for has its answer coming.
RelayHalves(a, b) ==
  /\ Half(b).state \in {"none", "Requested", "Established"}
  /\ Half(b).state = "none" => Half(a).state = "none"
  /\ Half(b).state # "none" =>
       Half(a).state \in {"PeerRequested", "Established"} /\ Half(a).known
  /\ Half(b).state = "Established" =>
       Half(b).known /\ Half(a).state = "Established"
  /\ Half(b).state = "Requested" =>
       Flies("Request", "end", b) \/ Flies("Response", "relay", b)

EndHalves(a, b) ==
  /\ Terminal(b).state \in {"none", "Established", "Disestablished"}
  /\ Terminal(b).state # "none" => Terminal(b).known /\ Half(b).state # "none"
  /\ Terminal(a).state = "Established" => Half(b).state # "none"
  /\ Flies("Request", "end", b) => Half(b).state # "none"
  /\ Flies("Response", "end", a) => Half(b).state # "none"
  /\ Flies("Response", "relay", b) => Terminal(b).state # "none"

Carrying(a) ==
  LET b == Other(a)
  IN  Oriented(a, b) /\ RelayHalves(a, b) /\ EndHalves(a, b)

\* The asker asks or sends; no half changes.
LEMMA StartRelaysCarries ==
  ASSUME RelayInv, Undisturbed, NEW a \in End, Initiators \subseteq {a},
         Carrying(a), NEW e \in End, StartRelays(e)
  PROVE  Carrying(a)'
<1> DEFINE b == Other(a)
           r == Terminal(a)
<1>1. /\ e = a /\ b \in End /\ b # a /\ 1 \in Gen /\ primary["end"][a] = 1
      /\ "end" \in Side /\ "relay" \in Side /\ entry \in EntryMap
  BY Zenon, OtherEnd, Calm, TypeFacts DEF StartRelays, RelayInv, Side
<1> HIDE DEF b
<1>2. PICK n : /\ wire' = wire \cup {n} /\ n.to = "relay" /\ n.end = a
               /\ n.kind \in {"Request", "Packet"}
  <2> DEFINE known == entry["end"][a][1].known
  <2>1. \/ wire' = wire \cup {Msg("Request", "relay", a, 1, a, TRUE)}
        \/ wire' = wire \cup {Msg("Packet", "relay", a, 1, a, known)}
    BY Zenon, <1>1 DEF StartRelays
  <2> HIDE DEF known
  <2>2. CASE wire' = wire \cup {Msg("Request", "relay", a, 1, a, TRUE)}
    <3> DEFINE q == Msg("Request", "relay", a, 1, a, TRUE)
    <3>1. q.to = "relay" /\ q.end = a /\ q.kind \in {"Request", "Packet"}
      BY Zenon DEF Msg
    <3>2. wire' = wire \cup {q}
      BY Zenon, <2>2
    <3> HIDE DEF q
    <3> QED BY Zenon, <3>1, <3>2
  <2>3. CASE wire' = wire \cup {Msg("Packet", "relay", a, 1, a, known)}
    <3> DEFINE q == Msg("Packet", "relay", a, 1, a, known)
    <3>1. q.to = "relay" /\ q.end = a /\ q.kind \in {"Request", "Packet"}
      BY Zenon DEF Msg
    <3>2. wire' = wire \cup {q}
      BY Zenon, <2>3
    <3> HIDE DEF q
    <3> QED BY Zenon, <3>1, <3>2
  <2> QED BY Zenon, <2>1, <2>2, <2>3
<1>3. /\ Half(a)' = Half(a) /\ Half(b)' = Half(b) /\ Terminal(b)' = Terminal(b)
      /\ Terminal(a)'.state = "Established" => r.state = "Established"
  <2>1. CASE r.state = "none" /\ entry' = AddRelay(entry, "end", a, 1, "Requested", FALSE)
    <3>1. entry' = With(entry, "end", a, 1, Fresh("Requested"))
      BY Zenon, <2>1 DEF AddRelay, Fresh
    <3> QED BY <1>1, <3>1, Written, WithFacts DEF Half, Terminal
  <2>2. CASE entry' = WithState(entry, "end", a, 1, "Requested")
    BY SMTT(30), <1>1, <2>2, Restating, WithStateFacts DEF Half, Terminal
  <2>3. CASE entry' = entry
    BY Zenon, <2>3 DEF Half, Terminal
  <2> QED BY Zenon, <1>1, <2>1, <2>2, <2>3 DEF StartRelays, Terminal
<1>4. Oriented(a, b)'
  BY Zenon, <1>1, <1>2 DEF Oriented, Carrying, b
<1>5. /\ \A k, t, x : Flies(k, t, x) => Flies(k, t, x)'
      /\ \A x : /\ Flies("Request", "end", x)' => Flies("Request", "end", x)
                /\ Flies("Response", "end", x)' => Flies("Response", "end", x)
                /\ Flies("Response", "relay", x)' => Flies("Response", "relay", x)
  BY Zenon, <1>2 DEF Flies
<1>6. RelayHalves(a, b) /\ EndHalves(a, b)
  BY Zenon DEF Carrying, b
<1>7. RelayHalves(a, b)'
  BY Zenon, <1>3, <1>5, <1>6 DEF RelayHalves
<1>8. EndHalves(a, b)'
  BY Zenon, <1>3, <1>5, <1>6 DEF EndHalves
<1> QED BY Zenon, <1>4, <1>7, <1>8 DEF Carrying, b

\* An end that disestablishes its relay keeps its index.
LEMMA unlinkCarries ==
  ASSUME RelayInv, Undisturbed, NEW a \in End, Carrying(a),
         NEW e \in End, unlink(e)
  PROVE  Carrying(a)'
<1> DEFINE b == Other(a)
<1>1. /\ b \in End /\ 1 \in Gen /\ entry \in EntryMap
      /\ "end" \in Side /\ "relay" \in Side
  BY Zenon, OtherEnd, Calm, TypeFacts DEF RelayInv, Side
<1>2. \A x \in End : entry'["relay"][x] = entry["relay"][x]
  BY Zenon, <1>1 DEF unlink, EntryMap
<1>3. \A x \in End :
        \/ Terminal(x)' = Terminal(x)
        \/ /\ Terminal(x)'.state = "Disestablished"
           /\ Terminal(x)'.known = Terminal(x).known
           /\ Terminal(x).state # "none"
  <2>1. \A x \in End : entry["end"][x][1] \in Entry
    BY <1>1 DEF EntryMap
  <2>2. \A x \in End : x # e => entry'["end"][x] = entry["end"][x]
    BY Zenon, <1>1 DEF unlink, EntryMap
  <2>3. entry'["end"][e][1] = IF HasTunnel("end", e, 1)
          THEN [entry["end"][e][1] EXCEPT !.state = "Disestablished"]
          ELSE entry["end"][e][1]
    BY Zenon, <1>1 DEF unlink, EntryMap
  <2>4. HasTunnel("end", e, 1) =>
          /\ entry'["end"][e][1].state = "Disestablished"
          /\ entry'["end"][e][1].known = entry["end"][e][1].known
    BY Zenon, <2>1, <2>3 DEF Entry
  <2>5. Terminal(e)' = Terminal(e) \/ HasTunnel("end", e, 1)
    BY Zenon, <2>3 DEF Terminal
  <2>6. HasTunnel("end", e, 1) => Terminal(e).state # "none"
    BY Zenon DEF Terminal, HasTunnel
  <2> SUFFICES ASSUME NEW x \in End
               PROVE  \/ Terminal(x)' = Terminal(x)
                      \/ /\ Terminal(x)'.state = "Disestablished"
                         /\ Terminal(x)'.known = Terminal(x).known
                         /\ Terminal(x).state # "none"
    OBVIOUS
  <2>7. CASE x # e
    BY Zenon, <2>2, <2>7 DEF Terminal
  <2>8. CASE x = e
    BY Zenon, <2>4, <2>5, <2>6, <2>8 DEF Terminal
  <2> QED BY Zenon, <2>7, <2>8
<1>4. wire' = wire
  BY Zenon DEF unlink
<1>5. /\ \A k, t, x : Flies(k, t, x)' <=> Flies(k, t, x)
      /\ \A x \in End : Half(x)' = Half(x)
  BY Zenon, <1>2, <1>4 DEF Flies, Half
<1>6. Oriented(a, b) /\ RelayHalves(a, b) /\ EndHalves(a, b)
  BY Zenon DEF Carrying
<1> HIDE DEF b
<1>7. Oriented(a, b)'
  BY Zenon, <1>4, <1>6 DEF Oriented
<1>8. RelayHalves(a, b)'
  BY Zenon, <1>1, <1>5, <1>6 DEF RelayHalves
<1>9. EndHalves(a, b)'
  <2>1. Half(b)' = Half(b)
    BY Zenon, <1>1, <1>5
  <2> QED BY <1>1, <1>3, <1>5, <1>6, <2>1 DEF EndHalves
<1> QED BY Zenon, <1>7, <1>8, <1>9 DEF Carrying, b

\* What a receiver starts from.
LEMMA Receiving ==
  ASSUME RelayInv, Undisturbed, NEW a \in End, Carrying(a), NEW m \in wire
  PROVE  /\ Other(a) \in End /\ Other(a) # a /\ Other(Other(a)) = a
         /\ m.gen = 1 /\ m.kind \in Kinds /\ m.to \in Side
         /\ m.end = IF m.to = "relay"
                    THEN IF m.kind \in {"Request", "Packet"} THEN a ELSE Other(a)
                    ELSE IF m.kind \in {"Request", "Packet"} THEN Other(a) ELSE a
         /\ Flies(m.kind, m.to, m.end)
         /\ Oriented(a, Other(a)) /\ RelayHalves(a, Other(a)) /\ EndHalves(a, Other(a))
         /\ 1 \in Gen /\ entry \in EntryMap /\ "end" \in Side /\ "relay" \in Side
         /\ \A s \in Side, e \in End : primary[s][e] = 1 /\ entry[s][e][1].state # "gone"
<1>1. /\ Other(a) \in End /\ Other(a) # a /\ Other(Other(a)) = a
  BY Zenon, OtherEnd
<1>2. /\ m.gen = 1 /\ m.kind \in Kinds /\ m.to \in Side /\ 1 \in Gen
      /\ entry \in EntryMap /\ "end" \in Side /\ "relay" \in Side
      /\ \A s \in Side, e \in End : primary[s][e] = 1 /\ entry[s][e][1].state # "gone"
  BY Zenon, ReadFacts, Calm DEF Live
<1>3. Oriented(a, Other(a)) /\ RelayHalves(a, Other(a)) /\ EndHalves(a, Other(a))
  BY Zenon DEF Carrying
<1>4. /\ m.end = IF m.to = "relay"
                 THEN IF m.kind \in {"Request", "Packet"} THEN a ELSE Other(a)
                 ELSE IF m.kind \in {"Request", "Packet"} THEN Other(a) ELSE a
      /\ Flies(m.kind, m.to, m.end)
  BY Zenon, <1>3 DEF Oriented, Flies
<1> QED BY Zenon, <1>1, <1>2, <1>3, <1>4

\* The target answers every request: its entry has the index of the request.
LEMMA forMeCarries ==
  ASSUME RelayInv, Undisturbed, NEW a \in End, Carrying(a),
         NEW m \in wire, requestForMe(m)
  PROVE  Carrying(a)'
<1> DEFINE b == Other(a)
           n == Msg("Response", "relay", b, 1, m.from, TRUE)
<1>1. /\ m.kind = "Request" /\ m.to = "end" /\ m.end = b /\ m.gen = 1
      /\ Flies("Request", "end", b)
  BY Zenon, Receiving DEF requestForMe
<1>2. /\ b \in End /\ b # a /\ 1 \in Gen /\ entry \in EntryMap
      /\ "end" \in Side /\ "relay" \in Side
      /\ Oriented(a, b) /\ RelayHalves(a, b) /\ EndHalves(a, b)
  BY Zenon, Receiving
<1> HIDE DEF b
<1>3. Terminal(b).state = "none" \/ Terminal(b).known
  BY Zenon, <1>2 DEF EndHalves
<1>4. ~Mismatch(entry["end"][b][1])
  BY Zenon, <1>3 DEF Mismatch, Terminal
<1>5. entry' = With(entry, "end", b, 1, Indexed("Established")) /\ wire' = (wire \ {m}) \cup {n}
  <2>1. Terminal(b).state # "PeerRequested"
    BY Zenon, <1>2 DEF EndHalves
  <2>2. Terminate(entry["end"][b][1]) = Indexed("Established")
    BY Zenon, <2>1 DEF Terminate, Indexed, Terminal
  <2> QED BY Zenon, <1>1, <1>4, <2>2 DEF requestForMe, Take
<1>6. /\ Half(a)' = Half(a) /\ Half(b)' = Half(b) /\ Terminal(a)' = Terminal(a)
      /\ Terminal(b)' = Indexed("Established")
  BY <1>2, <1>5, Written, WithFacts DEF Half, Terminal
<1>7. n.kind = "Response" /\ n.to = "relay" /\ n.end = b
  BY Zenon DEF Msg
<1> HIDE DEF n
<1>8. Oriented(a, b)'
  BY Zenon, <1>2, <1>5, <1>7 DEF Oriented
<1>9. /\ Flies("Response", "relay", b)'
      /\ Flies("Request", "end", b)' => Flies("Request", "end", b)
      /\ Flies("Response", "end", a)' => Flies("Response", "end", a)
  BY Zenon, <1>5, <1>7 DEF Flies
<1>10. RelayHalves(a, b)'
  BY Zenon, <1>2, <1>6, <1>9 DEF RelayHalves
<1>11. EndHalves(a, b)'
  BY Zenon, <1>1, <1>2, <1>6, <1>9, Written DEF EndHalves
<1> QED BY Zenon, <1>8, <1>10, <1>11 DEF Carrying, b

\* The half of the target is requested again, and a request is on its way.
LEMMA toForwardCarries ==
  ASSUME RelayInv, Undisturbed, NEW a \in End, Carrying(a),
         NEW m \in wire, requestToForward(m)
  PROVE  Carrying(a)'
<1> DEFINE b == Other(a)
           E == Asked(entry, b, 1)
           n == Msg("Request", "end", b, 1, a, TRUE)
<1>1. m.kind = "Request" /\ m.to = "relay" /\ m.end = a /\ m.gen = 1
  BY Zenon, Receiving DEF requestToForward
<1>2. /\ b \in End /\ b # a /\ 1 \in Gen /\ entry \in EntryMap
      /\ "end" \in Side /\ "relay" \in Side
      /\ Oriented(a, b) /\ RelayHalves(a, b) /\ EndHalves(a, b)
      /\ primary["relay"][b] = 1 /\ entry["relay"][b][1].state # "gone"
  BY Receiving
<1>3. entry' = Tracked(E, a, 1) /\ wire' = (wire \ {m}) \cup {n}
  <2> DEFINE o == Other(m.end)
             p == primary["relay"][o]
  <2>1. o = b /\ p = 1
    BY Zenon, <1>1, <1>2
  <2>2. /\ entry' = Tracked(Asked(entry, o, p), m.end, m.gen)
        /\ wire' = Take(m) \cup {Msg("Request", "end", o, p, m.end, TRUE)}
    <3>1. ~(p = 0)
      BY <2>1
    <3> HIDE DEF p
    <3> QED BY Zenon, <3>1, ForwardEffect DEF p
  <2> HIDE DEF o, p, b
  <2> QED BY Zenon, <1>1, <2>1, <2>2 DEF Take
<1> HIDE DEF b
<1>4. /\ E \in EntryMap /\ E["relay"][b][1].state = "Requested"
      /\ E["relay"][a][1] = Half(a)
      /\ \A x \in End : E["end"][x][1] = Terminal(x)
  BY <1>2, AskedFacts DEF Half, Terminal
<1> HIDE DEF E
<1>5. /\ Half(b)'.state = "Requested"
      /\ Half(a).state = "none" => Half(a)' = Indexed("PeerRequested")
      /\ Half(a).state # "none" => Half(a)' = Half(a)
      /\ Terminal(a)' = Terminal(a) /\ Terminal(b)' = Terminal(b)
  BY SMTT(30), <1>2, <1>3, <1>4, TrackedFacts DEF Half, Terminal
<1>6. n.kind = "Request" /\ n.to = "end" /\ n.end = b
  BY Zenon DEF Msg
<1> HIDE DEF n
<1>7. Oriented(a, b)'
  BY Zenon, <1>2, <1>3, <1>6 DEF Oriented
<1>8. /\ Flies("Request", "end", b)'
      /\ Flies("Response", "end", a)' => Flies("Response", "end", a)
      /\ Flies("Response", "relay", b)' => Flies("Response", "relay", b)
  BY Zenon, <1>3, <1>6 DEF Flies
<1>9. RelayHalves(a, b)'
  BY Zenon, <1>2, <1>5, <1>8, Written DEF RelayHalves
<1>10. EndHalves(a, b)'
  BY Zenon, <1>2, <1>5, <1>8 DEF EndHalves
<1> QED BY Zenon, <1>7, <1>9, <1>10 DEF Carrying, b

\* The asker learns of a relay that has both halves.
LEMMA responseForMeCarries ==
  ASSUME RelayInv, Undisturbed, NEW a \in End, Carrying(a),
         NEW m \in wire, responseForMe(m)
  PROVE  Carrying(a)'
<1> DEFINE b == Other(a)
<1>1. /\ m.kind = "Response" /\ m.to = "end" /\ m.end = a /\ m.gen = 1
      /\ Flies("Response", "end", a)
  BY Zenon, Receiving DEF responseForMe
<1>2. /\ b \in End /\ b # a /\ 1 \in Gen /\ entry \in EntryMap
      /\ "end" \in Side /\ "relay" \in Side
      /\ Oriented(a, b) /\ RelayHalves(a, b) /\ EndHalves(a, b)
      /\ entry["end"][a][1].state # "gone"
  BY ZenonT(60), Receiving
<1>3. wire' = wire \ {m}
  BY Zenon DEF responseForMe, Take
<1> HIDE DEF b
<1>4. Half(a)' = Half(a) /\ Half(b)' = Half(b) /\ Terminal(b)' = Terminal(b)
  <2>1. CASE entry' = CompleteRelay(entry, "end", a, 1)
    BY <1>2, <2>1, CompleteFacts DEF Half, Terminal
  <2>2. CASE entry' = entry
    BY Zenon, <2>2 DEF Half, Terminal
  <2> QED BY Zenon, <1>1, <2>1, <2>2 DEF responseForMe
<1>5. Oriented(a, b)'
  BY Zenon, <1>2, <1>3 DEF Oriented
<1>6. /\ \A k, t, x : Flies(k, t, x)' => Flies(k, t, x)
      /\ Flies("Request", "end", b) => Flies("Request", "end", b)'
      /\ Flies("Response", "relay", b) => Flies("Response", "relay", b)'
  BY Zenon, <1>1, <1>3 DEF Flies
<1>7. RelayHalves(a, b)'
  BY Zenon, <1>2, <1>4, <1>6 DEF RelayHalves
<1>8. EndHalves(a, b)'
  BY Zenon, <1>1, <1>2, <1>4, <1>6 DEF EndHalves
<1> QED BY Zenon, <1>5, <1>7, <1>8 DEF Carrying, b

\* The answer of the target establishes both halves.
LEMMA responseToForwardCarries ==
  ASSUME RelayInv, Undisturbed, NEW a \in End, Carrying(a),
         NEW m \in wire, responseToForward(m)
  PROVE  Carrying(a)'
<1> DEFINE b == Other(a)
           E == CompleteRelay(entry, "relay", b, 1)
           n == Msg("Response", "end", a, 1, a, Half(a).known)
<1>1. /\ m.kind = "Response" /\ m.to = "relay" /\ m.end = b /\ m.gen = 1
      /\ Flies("Response", "relay", b) /\ Other(b) = a
  BY Zenon, Receiving DEF responseToForward
<1>2. /\ b \in End /\ b # a /\ 1 \in Gen /\ entry \in EntryMap
      /\ "end" \in Side /\ "relay" \in Side
      /\ Oriented(a, b) /\ RelayHalves(a, b) /\ EndHalves(a, b)
      /\ primary["relay"][a] = 1 /\ entry["relay"][b][1].state # "gone"
  BY ZenonT(60), Receiving
<1> HIDE DEF b
<1>3. /\ Half(b).state # "none" /\ Half(a).known
      /\ Half(a).state \in {"PeerRequested", "Established"}
  BY Zenon, <1>1, <1>2 DEF EndHalves, RelayHalves
<1>4. /\ entry' = WithState(E, "relay", a, 1, "Established")
      /\ wire' = (wire \ {m}) \cup {n}
  <2> DEFINE o == Other(m.end)
             p == primary["relay"][o]
             peer == entry["relay"][o][p]
             D == CompleteRelay(entry, "relay", m.end, m.gen)
  <2>1. o = a /\ p = 1 /\ peer = Half(a) /\ D = E
    BY Zenon, <1>1, <1>2 DEF Half
  <2>2. HasTunnel("relay", m.end, m.gen)
    BY Zenon, <1>1, <1>2, <1>3 DEF HasTunnel, Half
  <2>3. ~(p = 0 \/ peer.state \in {"none", "Requested"})
    BY <1>3, <2>1
  <2>4. /\ entry' = WithState(D, "relay", o, p, "Established")
        /\ wire' = Take(m) \cup {Msg("Response", "end", o, p, o, peer.known)}
    <3> HIDE DEF p, peer, D, o
    <3> QED BY Zenon, <2>2, <2>3, ResponseEffect DEF p, peer, D, o
  <2> HIDE DEF o, p, peer, D, E
  <2> QED BY Zenon, <2>1, <2>4 DEF Take
<1>5. /\ E \in EntryMap /\ E["relay"][b][1] = Indexed("Established")
      /\ E["relay"][a][1] = Half(a)
      /\ \A x \in End : E["end"][x][1] = Terminal(x)
  BY <1>2, CompleteFacts DEF Half, Terminal
<1> HIDE DEF E
<1>6. /\ Half(b)' = Indexed("Established")
      /\ Half(a)'.state = "Established" /\ Half(a)'.known = Half(a).known
      /\ Terminal(a)' = Terminal(a) /\ Terminal(b)' = Terminal(b)
  <2> DEFINE W == WithState(E, "relay", a, 1, "Established")
  <2>1. /\ W["relay"][a][1].state = "Established"
        /\ W["relay"][a][1].known = E["relay"][a][1].known
    BY <1>2, <1>3, <1>5, Restating, WithStateFacts
  <2>2. \A t \in Side, x \in End, h \in Gen : ~(t = "relay" /\ x = a /\ h = 1) =>
          W[t][x][h] = E[t][x][h]
    BY SMTT(30), <1>2, <1>5, Restating, WithStateFacts
  <2>3. entry' = W
    BY Zenon, <1>4
  <2> HIDE DEF W
  <2> QED BY Zenon, <1>2, <1>5, <2>1, <2>2, <2>3 DEF Half, Terminal
<1>7. n.kind = "Response" /\ n.to = "end" /\ n.end = a
  BY Zenon DEF Msg
<1> HIDE DEF n
<1>8. Oriented(a, b)'
  BY Zenon, <1>2, <1>4, <1>7 DEF Oriented
<1>9. /\ Flies("Request", "end", b)' => Flies("Request", "end", b)
      /\ Flies("Response", "relay", b)' => Flies("Response", "relay", b)
  BY Zenon, <1>4, <1>7 DEF Flies
<1>10. RelayHalves(a, b)'
  BY Zenon, <1>3, <1>6, Written DEF RelayHalves
<1>11. EndHalves(a, b)'
  BY Zenon, <1>2, <1>6, <1>9, Written DEF EndHalves
<1> QED BY Zenon, <1>8, <1>10, <1>11 DEF Carrying, b

\* Relayed packets change no entry but that of the target, and leave requests
\* and responses alone.
LEMMA PacketCarries ==
  ASSUME NEW a \in End, Carrying(a), NEW b \in End, b = Other(a), NEW m,
         m.kind \notin {"Request", "Response"},
         \A x \in {a, b} : Half(x)' = Half(x),
         Terminal(a)' = Terminal(a),
         Terminal(b)'.known = Terminal(b).known,
         \/ Terminal(b)'.state = Terminal(b).state
         \/ Terminal(b)'.state = "Established" /\ Terminal(b).state # "none",
         \/ wire' = wire \ {m}
         \/ \E n : /\ wire' = (wire \ {m}) \cup {n}
                   /\ n.kind \notin {"Request", "Response"}
                   /\ n.end = IF n.to = "relay"
                              THEN IF n.kind \in {"Request", "Packet"} THEN a ELSE b
                              ELSE IF n.kind \in {"Request", "Packet"} THEN b ELSE a
  PROVE  Carrying(a)'
<1>1. Oriented(a, b) /\ RelayHalves(a, b) /\ EndHalves(a, b)
  BY Zenon DEF Carrying
<1>2. Oriented(a, b)'
  BY Zenon, <1>1 DEF Oriented
<1>3. \A t, x : /\ Flies("Request", t, x)' <=> Flies("Request", t, x)
                /\ Flies("Response", t, x)' <=> Flies("Response", t, x)
  BY Zenon DEF Flies
<1>4. RelayHalves(a, b)'
  BY Zenon, <1>1, <1>3 DEF RelayHalves
<1>5. EndHalves(a, b)'
  BY Zenon, <1>1, <1>3 DEF EndHalves
<1> QED BY Zenon, <1>2, <1>4, <1>5 DEF Carrying

\* Packets are forwarded from one end to the other.
LEMMA forwardCarries ==
  ASSUME RelayInv, Undisturbed, NEW a \in End, Carrying(a),
         NEW m \in wire, forward(m)
  PROVE  Carrying(a)'
<1> DEFINE b == Other(a)
<1>1. /\ m.kind \in {"Packet", "Reply"} /\ m.to = "relay" /\ entry' = entry
      /\ b \in End /\ m.end = (IF m.kind = "Packet" THEN a ELSE b) /\ Other(b) = a
  BY Zenon, Receiving DEF forward
<1>2. \A x : Half(x)' = Half(x) /\ Terminal(x)' = Terminal(x)
  BY Zenon, <1>1 DEF Half, Terminal
<1>3. CASE wire' = wire \ {m}
  BY Zenon, <1>1, <1>2, <1>3, PacketCarries
<1>4. ASSUME NEW g, NEW known,
             wire' = (wire \ {m}) \cup
               {Msg(m.kind, "end", Other(m.end), g, m.from, known)}
      PROVE  Carrying(a)'
  <2> DEFINE n == Msg(m.kind, "end", Other(m.end), g, m.from, known)
  <2>1. /\ n.kind = m.kind /\ n.to = "end"
        /\ n.end = IF m.kind = "Packet" THEN b ELSE a
    BY Zenon, <1>1 DEF Msg
  <2>2. wire' = (wire \ {m}) \cup {n}
    BY Zenon, <1>4
  <2> HIDE DEF n, b
  <2>3. \E k : /\ wire' = (wire \ {m}) \cup {k}
               /\ k.kind \notin {"Request", "Response"}
               /\ k.end = IF k.to = "relay"
                          THEN IF k.kind \in {"Request", "Packet"} THEN a ELSE b
                          ELSE IF k.kind \in {"Request", "Packet"} THEN b ELSE a
    BY Zenon, <1>1, <2>1, <2>2
  <2> QED BY Zenon, <1>1, <1>2, <2>3, PacketCarries DEF b
<1> QED BY Zenon, <1>3, <1>4 DEF forward, Take

\* The target of a packet knows the index already.
LEMMA terminalCarries ==
  ASSUME RelayInv, Undisturbed, NEW a \in End, Carrying(a),
         NEW m \in wire, terminal(m)
  PROVE  Carrying(a)'
<1> DEFINE b == Other(a)
           n == Msg("Reply", "relay", m.end, m.gen, m.end,
                    entry["end"][m.end][m.gen].known)
<1>1. /\ m.kind \in {"Packet", "Reply"} /\ m.to = "end" /\ m.gen = 1
      /\ m.end = (IF m.kind = "Packet" THEN b ELSE a)
      /\ b \in End /\ b # a /\ 1 \in Gen /\ entry \in EntryMap
      /\ "end" \in Side /\ "relay" \in Side
  BY Receiving DEF terminal
<1>2. CASE m.kind = "Reply"
  <2>1. wire' = wire \ {m} /\ entry' = entry
    BY Zenon, <1>2 DEF terminal, Take
  <2>2. \A x : Half(x)' = Half(x) /\ Terminal(x)' = Terminal(x)
    BY Zenon, <2>1 DEF Half, Terminal
  <2> QED BY Zenon, <1>1, <2>1, <2>2, PacketCarries
<1>3. CASE m.kind = "Packet"
  <2>1. /\ wire' = (wire \ {m}) \cup {n}
        /\ entry' = WithState(entry, "end", b, 1, "Established")
        /\ Terminal(b).state \notin {"gone", "none"}
    BY Zenon, <1>1, <1>3 DEF terminal, Take, HasTunnel, Terminal
  <2>2. n.kind = "Reply" /\ n.to = "relay" /\ n.end = b
    BY Zenon, <1>1, <1>3 DEF Msg
  <2> HIDE DEF n, b
  <2>3. /\ Half(a)' = Half(a) /\ Half(b)' = Half(b) /\ Terminal(a)' = Terminal(a)
        /\ Terminal(b)'.known = Terminal(b).known
        /\ Terminal(b)'.state = "Established"
    BY SMTT(30), <1>1, <2>1, Restating, WithStateFacts DEF Half, Terminal
  <2>4. \E k : /\ wire' = (wire \ {m}) \cup {k}
               /\ k.kind \notin {"Request", "Response"}
               /\ k.end = IF k.to = "relay"
                          THEN IF k.kind \in {"Request", "Packet"} THEN a ELSE b
                          ELSE IF k.kind \in {"Request", "Packet"} THEN b ELSE a
    BY Zenon, <2>1, <2>2
  <2> QED BY Zenon, <1>1, <1>3, <2>1, <2>3, <2>4, PacketCarries DEF b
<1> QED BY Zenon, <1>1, <1>2, <1>3

\* Only packets are discarded while all tunnels are there.
LEMMA discardCarries ==
  ASSUME RelayInv, Undisturbed, NEW a \in End, Carrying(a),
         NEW m \in wire, discard(m)
  PROVE  Carrying(a)'
<1>1. m.kind \in {"Packet", "Reply"}
  <2>1. Live(m.to, m.end, m.gen)
    BY Receiving, ReadFacts DEF Live
  <2> QED BY Zenon, <2>1 DEF discard
<1>2. wire' = wire \ {m} /\ entry' = entry /\ Other(a) \in End
  BY Zenon, Receiving DEF discard, Take
<1>3. \A x : Half(x)' = Half(x) /\ Terminal(x)' = Terminal(x)
  BY Zenon, <1>2 DEF Half, Terminal
<1> QED BY Zenon, <1>1, <1>2, <1>3, PacketCarries

-----------------------------------------------------------------------------

RelayIndInv ==
  /\ RelayInv
  /\ Undisturbed => \A a \in End : Initiators \subseteq {a} => Carrying(a)

\* Initially there are no relays.
LEMMA RelayStarts == RelayInit => RelayIndInv
<1> SUFFICES ASSUME RelayInit
             PROVE  RelayIndInv
  OBVIOUS
<1>0. 1 \in Gen /\ 1 \in 0..MaxGen /\ 0 \in 0..MaxLoss
  BY RelayAssumption DEF Gen
<1>1. NoEntry \in Entry /\ Gone \in Entry /\ NoEntry.state = "none" /\ Gone.state = "gone"
  BY Zenon DEF NoEntry, Gone, Entry
<1>2. \A s \in Side, e \in End, g \in Gen :
        entry[s][e][g] = IF g = 1 THEN NoEntry ELSE Gone
  BY Zenon DEF RelayInit
<1>3. RelayTypeOK
  BY Zenon, <1>0, <1>1 DEF RelayInit, RelayTypeOK
<1>4. Placed
  BY <1>0, <1>1, <1>2 DEF RelayInit, Placed, Live
<1>5. NeverFromMyself
  BY Zenon DEF RelayInit, NeverFromMyself
<1>6. ASSUME NEW a \in End
      PROVE  Carrying(a)
  <2> DEFINE b == Other(a)
  <2>1. b \in End /\ "end" \in Side /\ "relay" \in Side
    BY Zenon, OtherEnd DEF Side
  <2>2. wire = {} /\ \A k, t, x : ~Flies(k, t, x)
    BY Zenon DEF RelayInit, Flies
  <2>3. \A x \in End : Half(x).state = "none" /\ Terminal(x).state = "none"
    BY Zenon, <1>0, <1>1, <1>2, <2>1 DEF Half, Terminal
  <2>4. Half(a).state = "none" /\ Half(b).state = "none"
        /\ Terminal(a).state = "none" /\ Terminal(b).state = "none"
    BY Zenon, <2>1, <2>3
  <2> HIDE DEF b
  <2>5. Oriented(a, b) /\ RelayHalves(a, b) /\ EndHalves(a, b)
    BY Zenon, <2>2, <2>4 DEF Oriented, RelayHalves, EndHalves
  <2> QED BY Zenon, <2>5 DEF Carrying, b
<1> QED BY Zenon, <1>3, <1>4, <1>5, <1>6 DEF RelayIndInv, RelayInv

\* Every step keeps the invariant.
LEMMA RelayKeeps == RelayIndInv /\ [RelayNext]_relayVars => RelayIndInv'
<1> SUFFICES ASSUME RelayIndInv, [RelayNext]_relayVars
             PROVE  RelayIndInv'
  OBVIOUS
<1>1. CASE RelayNext
  <2>1. /\ RelayInv'
        /\ Undisturbed' =>
             /\ Undisturbed
             /\ \/ \E e \in End : StartRelays(e) \/ unlink(e)
                \/ \E m \in wire : Receive(m)
    BY Zenon, <1>1, RelayStep DEF RelayIndInv
  <2> SUFFICES ASSUME Undisturbed', NEW a \in End, Initiators \subseteq {a}
               PROVE  Carrying(a)'
    BY Zenon, <2>1 DEF RelayIndInv
  <2>2. RelayInv /\ Undisturbed /\ Carrying(a)
    BY Zenon, <2>1 DEF RelayIndInv
  <2>3. ASSUME NEW e \in End, StartRelays(e) \/ unlink(e)
        PROVE  Carrying(a)'
    BY Zenon, <2>2, <2>3, StartRelaysCarries, unlinkCarries
  <2>4. ASSUME NEW m \in wire, Receive(m)
        PROVE  Carrying(a)'
    BY Zenon, <2>2, <2>4, forMeCarries, toForwardCarries, responseForMeCarries,
       responseToForwardCarries, forwardCarries, terminalCarries, discardCarries
       DEF Receive
  <2> QED BY Zenon, <2>1, <2>3, <2>4
<1>2. CASE UNCHANGED relayVars
  <2>1. UNCHANGED <<entry, primary, made, wire, linked, relayLosses>>
    BY Zenon, <1>2 DEF relayVars
  <2>2. RelayInv'
    BY Zenon, <2>1 DEF RelayIndInv, RelayInv, RelayTypeOK, Placed, NeverFromMyself, Live
  <2>3. Undisturbed' => Undisturbed
    BY Zenon, <2>1 DEF Undisturbed
  <2>4. \A a \in End : Carrying(a) => Carrying(a)'
    <3>1. \A kind, to, e : Flies(kind, to, e)' <=> Flies(kind, to, e)
      BY Zenon, <2>1 DEF Flies
    <3>2. \A e : Half(e)' = Half(e) /\ Terminal(e)' = Terminal(e)
      BY Zenon, <2>1 DEF Half, Terminal
    <3>3. \A a, b : Oriented(a, b) => Oriented(a, b)'
      BY Zenon, <2>1 DEF Oriented
    <3>4. \A a, b : RelayHalves(a, b) => RelayHalves(a, b)'
      BY Zenon, <3>1, <3>2 DEF RelayHalves
    <3>5. \A a, b : EndHalves(a, b) => EndHalves(a, b)'
      BY Zenon, <3>1, <3>2 DEF EndHalves
    <3> QED BY Zenon, <3>3, <3>4, <3>5 DEF Carrying
  <2> QED BY Zenon, <2>2, <2>3, <2>4 DEF RelayIndInv
<1> QED BY Zenon, <1>1, <1>2

\* When nothing flies, the half of the target is established.
LEMMA RelayImplies == RelayIndInv => RelaysRight
<1> SUFFICES ASSUME RelayIndInv
             PROVE  RelaysRight
  OBVIOUS
<1>1. ASSUME OneAsks, wire = {}, Undisturbed, NEW e \in End,
             entry["end"][e][1].state = "Established", NEW o \in End
      PROVE  entry["relay"][o][1].state = "Established" /\ entry["relay"][o][1].known
  <2>1. PICK a \in End : Initiators \subseteq {a}
    BY Zenon, <1>1, RelayAssumption DEF OneAsks
  <2> DEFINE b == Other(a)
  <2>2. b \in End /\ (e = a \/ e = b) /\ (o = a \/ o = b)
    BY Zenon, OtherEnd
  <2>3. RelayHalves(a, b) /\ EndHalves(a, b)
    BY Zenon, <1>1, <2>1 DEF RelayIndInv, Carrying
  <2> HIDE DEF b
  <2>4. Half(b).state # "none"
    BY Zenon, <1>1, <2>2, <2>3 DEF EndHalves, Terminal
  <2>5. Half(b).state = "Established"
    BY Zenon, <1>1, <2>3, <2>4 DEF RelayHalves, Flies
  <2> QED BY Zenon, <2>2, <2>3, <2>5 DEF RelayHalves, Half
<1>2. EstablishedCarries
  BY Zenon, <1>1 DEF EstablishedCarries
<1> QED BY Zenon, <1>2 DEF RelayIndInv, RelayInv, RelaysRight

\* For every two ends, any number of tunnels to the relay, lost and reordered
\* messages: no node is asked for a relay from itself, also when
\* migrateRelayUsed moves relays between tunnels; and when one end asks, no
\* tunnel is replaced and nothing is lost, then once no message is under way
\* a relay that an end holds for established carries packets both ways.
THEOREM RelaysCarry == RelaySpec => []RelaysRight
  BY RelayStarts, RelayKeeps, RelayImplies, PTL DEF RelaySpec
=============================================================================
