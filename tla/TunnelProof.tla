---------------------------- MODULE TunnelProof ----------------------------
(***************************************************************************)
(* Proofs about PKI, for every two nodes, every certificates they may be   *)
(* given and every number of reloads, stray packets and lost messages: the *)
(* two ends of a session agree on it.                                      *)
(***************************************************************************)
EXTENDS PKI, FiniteSetTheorems, TLAPS

MachineFields ==
  {"hs", "subtype", "msgs", "creds", "myVersion", "initiator", "LocalIndex",
   "RemoteIndex", "MyCert", "RemoteCert", "EKey", "DKey", "MessageIndex",
   "indexAllocated", "remoteCertSet", "payloadSet", "failed"}

PendingFields == {"override", "machine", "packet", "seen"}

HsFields == {"initiator", "index", "curve", "cipher", "static", "eph", "peer"}

----------------------------------------------------------------------------
(* The inductive invariant.                                                *)

\* A certificate state can initiate: it has a certificate of its version.
CanInitiate(state) ==
  state.initiatingVersion \in Version /\ state.certs[state.initiatingVersion] # None

\* A machine that has sent the first message and waits for the answer.
Waiting(m) ==
  /\ DOMAIN m = MachineFields /\ DOMAIN m.hs = HsFields
  /\ m.subtype = IX /\ m.msgs = subtypeInfos[IX]
  /\ m.initiator = TRUE /\ m.hs.initiator = TRUE
  /\ m.hs.index = 1 /\ m.hs.peer = None
  /\ m.LocalIndex = m.hs.eph

\* The first message is the machine's.
Announces(packet, m) ==
  /\ packet.body.eph = m.hs.eph
  /\ packet.body.payload[1].InitiatorIndex = m.LocalIndex
  /\ packet.body.payload[1].Cert = m.MyCert

PendingOk(n) ==
  handshaking[n] # None =>
    /\ DOMAIN handshaking[n][1] = PendingFields
    /\ IF handshaking[n][1].machine = None THEN handshaking[n][1].packet = None
       ELSE /\ Waiting(handshaking[n][1].machine[1])
            /\ Announces(handshaking[n][1].packet[1], handshaking[n][1].machine[1])

\* Session, side and nothing else determine keys and indexes.
SideOk(t) ==
  LET i == t.session[1]
      r == t.session[2]
  IN  \/ /\ t.initiator = TRUE
         /\ t.eKey = <<"cs1", i, r>> /\ t.dKey = <<"cs2", i, r>>
         /\ t.local = i /\ t.remote = r
      \/ /\ t.initiator = FALSE
         /\ t.eKey = <<"cs2", i, r>> /\ t.dKey = <<"cs1", i, r>>
         /\ t.local = r /\ t.remote = i

\* What the answerer's tunnel says as long as it is of the answer's session.
AnswerOk(n, p) ==
  answer[n] # None =>
    /\ answer[n][1].body.payload[1].ResponderIndex = answer[n][1].body.eph
    /\ (/\ tunnel[p] # None
        /\ tunnel[p][1].session[1] = answer[n][1].body.to[1]
        /\ tunnel[p][1].session[2] = answer[n][1].body.eph)
       => /\ tunnel[p][1].initiator = FALSE
          /\ tunnel[p][1].my = answer[n][1].body.payload[1].Cert[1]
    /\ Building(p) => handshaking[p][1].machine[1].hs.eph # answer[n][1].body.to[1]

\* A tunnel that p made of the pending handshake of n holds its certificate.
BuildOk(n, p) ==
  Building(n) =>
    /\ Building(p) => handshaking[n][1].machine[1].hs.eph # handshaking[p][1].machine[1].hs.eph
    /\ (/\ tunnel[p] # None /\ tunnel[p][1].initiator = FALSE
        /\ tunnel[p][1].session[1] = handshaking[n][1].machine[1].hs.eph)
       => tunnel[p][1].peer = handshaking[n][1].machine[1].MyCert[1]

Agree(t, u) ==
  t.session = u.session =>
    /\ t.initiator # u.initiator
    /\ t.eKey = u.dKey /\ t.dKey = u.eKey /\ t.eKey # t.dKey
    /\ t.remote = u.local /\ t.local = u.remote
    /\ t.peer = u.my /\ t.my = u.peer

TunnelInv ==
  /\ DOMAIN cs = Party /\ DOMAIN handshaking = Party
  /\ DOMAIN answer = Party /\ DOMAIN tunnel = Party
  /\ \A n \in Party :
       /\ CanInitiate(cs[n])
       /\ PendingOk(n)
       /\ AnswerOk(n, OtherParty(n))
       /\ BuildOk(n, OtherParty(n))
       /\ tunnel[n] # None => SideOk(tunnel[n][1])
  /\ EndsAgree

----------------------------------------------------------------------------
(* The methods of a machine.                                               *)

\* A machine as NewMachine leaves it.
New(m, version, creds, initiator, ephemeral) ==
  /\ DOMAIN m = MachineFields /\ DOMAIN m.hs = HsFields
  /\ m.hs.initiator = initiator /\ m.hs.index = 0
  /\ m.hs.eph = ephemeral /\ m.hs.peer = None
  /\ m.subtype = IX /\ m.msgs = subtypeInfos[IX]
  /\ m.creds = creds /\ m.myVersion = version
  /\ m.initiator = initiator /\ m.indexAllocated = FALSE /\ m.failed = FALSE
  /\ getCred(creds, version) # None

LEMMA NewMachineFacts ==
  ASSUME NEW version, NEW creds, NEW initiator, NEW ephemeral,
         NewMachine(version, creds, initiator, IX, ephemeral) # None
  PROVE  New(NewMachine(version, creds, initiator, IX, ephemeral)[1],
             version, creds, initiator, ephemeral)
<1> DEFINE m == NewMachine(version, creds, initiator, IX, ephemeral)[1]
<1>1. /\ getCred(creds, version) # None
      /\ m = [hs |-> buildHandshakeState(getCred(creds, version)[1], initiator, ephemeral),
              subtype |-> IX, msgs |-> subtypeInfos[IX], creds |-> creds,
              myVersion |-> version, initiator |-> initiator,
              LocalIndex |-> 0, RemoteIndex |-> 0, MyCert |-> None, RemoteCert |-> None,
              EKey |-> None, DKey |-> None, MessageIndex |-> 0,
              indexAllocated |-> FALSE, remoteCertSet |-> FALSE, payloadSet |-> FALSE,
              failed |-> FALSE]
  BY Zenon DEF NewMachine, Some
<1> HIDE DEF m
<1>2. New(m, version, creds, initiator, ephemeral)
  BY Zenon, <1>1 DEF New, MachineFields, HsFields, buildHandshakeState
<1> QED BY Zenon, <1>2 DEF m

\* Both messages of IX carry a payload and a certificate.
LEMMA FlagsFacts ==
  \A i \in 1..2 : /\ FlagsAt(subtypeInfos[IX], i).payload = TRUE
                  /\ FlagsAt(subtypeInfos[IX], i).cert = TRUE
<1>1. subtypeInfos[IX] = << [payload |-> TRUE, cert |-> TRUE],
                            [payload |-> TRUE, cert |-> TRUE] >>
  BY Zenon DEF subtypeInfos
<1> QED BY <1>1 DEF FlagsAt

\* What goes out: the index, drawn with the first payload, and the
\* certificate of the machine's version.
Marshalled(content, m, free) ==
  /\ DOMAIN content.m = MachineFields
  /\ content.m.hs = m.hs /\ content.m.msgs = m.msgs /\ content.m.subtype = m.subtype
  /\ content.m.initiator = m.initiator /\ content.m.RemoteIndex = m.RemoteIndex
  /\ content.m.RemoteCert = m.RemoteCert /\ content.m.failed = m.failed
  /\ content.m.payloadSet = m.payloadSet /\ content.m.remoteCertSet = m.remoteCertSet
  /\ content.m.LocalIndex = free
  /\ content.payload # None
  /\ content.payload[1].Cert = content.m.MyCert
  /\ content.payload[1].InitiatorIndex = IF m.initiator THEN free ELSE m.RemoteIndex
  /\ content.payload[1].ResponderIndex = IF ~m.initiator THEN free ELSE 0

LEMMA MarshalFacts ==
  ASSUME NEW m, DOMAIN m = MachineFields, NEW free, NEW flags,
         flags.payload = TRUE, flags.cert = TRUE, m.indexAllocated = FALSE,
         marshalOutgoing(m, flags, free).err = None
  PROVE  Marshalled(marshalOutgoing(m, flags, free), m, free)
<1> DEFINE content == marshalOutgoing(m, flags, free)
<1> DEFINE cred == getCred(m.creds, m.myVersion)
           p == [m EXCEPT !.LocalIndex = free, !.indexAllocated = TRUE]
           c == [p EXCEPT !.MyCert = Some(cred[1].crt)]
<1>1. AllocatesIndex(m, free) = p
  BY Zenon DEF AllocatesIndex
<1>2. Some("no credential") # None
  BY Zenon DEF Some, None
<1>3. content = [m |-> c, err |-> None,
                 payload |-> Some([InitiatorIndex |-> IF m.initiator THEN p.LocalIndex
                                                      ELSE p.RemoteIndex,
                               ResponderIndex |-> IF ~m.initiator THEN p.LocalIndex ELSE 0,
                               Time |-> TRUE,
                               Cert |-> Some(cred[1].crt)])]
  BY Zenon, <1>1, <1>2 DEF marshalOutgoing
<1>4. /\ DOMAIN p = MachineFields /\ p.LocalIndex = free
      /\ p.hs = m.hs /\ p.msgs = m.msgs /\ p.subtype = m.subtype /\ p.initiator = m.initiator
      /\ p.RemoteIndex = m.RemoteIndex /\ p.RemoteCert = m.RemoteCert /\ p.failed = m.failed
      /\ p.payloadSet = m.payloadSet /\ p.remoteCertSet = m.remoteCertSet
  BY Zenon DEF MachineFields
<1> HIDE DEF p
<1>5. /\ DOMAIN c = MachineFields /\ c.LocalIndex = free /\ c.MyCert = Some(cred[1].crt)
      /\ c.hs = m.hs /\ c.msgs = m.msgs /\ c.subtype = m.subtype /\ c.initiator = m.initiator
      /\ c.RemoteIndex = m.RemoteIndex /\ c.RemoteCert = m.RemoteCert /\ c.failed = m.failed
      /\ c.payloadSet = m.payloadSet /\ c.remoteCertSet = m.remoteCertSet
  BY Zenon, <1>4 DEF MachineFields
<1> HIDE DEF c
<1>6. /\ content.m = c /\ content.payload # None
      /\ content.payload[1].InitiatorIndex = IF m.initiator THEN p.LocalIndex ELSE p.RemoteIndex
      /\ content.payload[1].ResponderIndex = IF ~m.initiator THEN p.LocalIndex ELSE 0
      /\ content.payload[1].Cert = Some(cred[1].crt)
  BY <1>3 DEF Some, None
<1> HIDE DEF content
<1>7. Marshalled(content, m, free)
  BY Zenon, <1>4, <1>5, <1>6 DEF Marshalled
<1> QED BY Zenon, <1>7 DEF content

\* A message that was built: who it is from, whom it answers, and the machine
\* after it.
Built(built, m, free) ==
  /\ DOMAIN built.m = MachineFields /\ DOMAIN built.m.hs = HsFields
  /\ built.m.msgs = m.msgs /\ built.m.subtype = m.subtype
  /\ built.m.initiator = m.initiator /\ built.m.RemoteIndex = m.RemoteIndex
  /\ built.m.RemoteCert = m.RemoteCert /\ built.m.failed = m.failed
  /\ built.m.payloadSet = m.payloadSet /\ built.m.remoteCertSet = m.remoteCertSet
  /\ built.m.LocalIndex = free
  /\ built.m.hs.initiator = m.hs.initiator /\ built.m.hs.index = m.hs.index + 1
  /\ built.m.hs.eph = m.hs.eph /\ built.m.hs.peer = m.hs.peer
  /\ built.keys = IF m.hs.index = 1 THEN Some(Split(built.m.hs)) ELSE None
  /\ built.out # None
  /\ built.out[1].body.eph = m.hs.eph
  /\ built.out[1].body.to = IF m.hs.peer = None THEN None ELSE Some(m.hs.peer[1].eph)
  /\ built.out[1].body.payload[1].Cert = built.m.MyCert
  /\ built.out[1].body.payload[1].InitiatorIndex =
       IF m.initiator THEN free ELSE m.RemoteIndex
  /\ built.out[1].body.payload[1].ResponderIndex = IF ~m.initiator THEN free ELSE 0

LEMMA BuildFacts ==
  ASSUME NEW m, DOMAIN m = MachineFields, DOMAIN m.hs = HsFields, NEW free,
         myMsgFlags(m).payload = TRUE, myMsgFlags(m).cert = TRUE,
         m.indexAllocated = FALSE, m.hs.index \in Nat,
         buildResponse(m, free).err = None
  PROVE  Built(buildResponse(m, free), m, free)
<1> DEFINE built == buildResponse(m, free)
<1> DEFINE content == marshalOutgoing(m, myMsgFlags(m), free)
           written == WriteMessage(content.m.hs, content.payload)
<1>1. /\ content.err = None
      /\ built = [m |-> [content.m EXCEPT !.hs = written.hs], keys |-> written.keys, err |-> None,
                  out |-> Some([short |-> FALSE, subtype |-> m.subtype,
                                RemoteIndex |-> content.m.RemoteIndex,
                                counter |-> written.hs.index, body |-> written.body])]
  BY Zenon DEF buildResponse
<1> HIDE DEF built
<1>c. content = marshalOutgoing(m, myMsgFlags(m), free)
  OBVIOUS
<1> HIDE DEF content
<1>m. Marshalled(content, m, free)
  BY Zenon, <1>1, <1>c, MarshalFacts
<1>2. /\ DOMAIN content.m = MachineFields
      /\ content.m.hs = m.hs /\ content.m.msgs = m.msgs /\ content.m.subtype = m.subtype
      /\ content.m.initiator = m.initiator /\ content.m.RemoteIndex = m.RemoteIndex
      /\ content.m.RemoteCert = m.RemoteCert /\ content.m.failed = m.failed
      /\ content.m.payloadSet = m.payloadSet /\ content.m.remoteCertSet = m.remoteCertSet
      /\ content.m.LocalIndex = free
      /\ content.payload[1].Cert = content.m.MyCert
      /\ content.payload[1].InitiatorIndex = IF m.initiator THEN free ELSE m.RemoteIndex
      /\ content.payload[1].ResponderIndex = IF ~m.initiator THEN free ELSE 0
  BY Zenon, <1>m DEF Marshalled
<1> DEFINE next == [m.hs EXCEPT !.index = m.hs.index + 1]
<1>3. /\ DOMAIN next = HsFields /\ next.index = m.hs.index + 1
      /\ next.initiator = m.hs.initiator /\ next.eph = m.hs.eph /\ next.peer = m.hs.peer
  BY Zenon DEF HsFields
<1>4. /\ written.hs = next
      /\ written.keys = IF next.index = 2 THEN Some(Split(next)) ELSE None
      /\ written.body.eph = m.hs.eph
      /\ written.body.payload = content.payload
      /\ written.body.to = IF m.hs.peer = None THEN None ELSE Some(m.hs.peer[1].eph)
  BY Zenon, <1>2 DEF WriteMessage
<1> HIDE DEF written, next
<1>5. /\ built.keys = written.keys /\ built.out # None
      /\ built.out[1].body = written.body
      /\ built.m = [content.m EXCEPT !.hs = next]
  BY Zenon, <1>1, <1>4 DEF Some, None
<1>6. /\ DOMAIN built.m = MachineFields /\ built.m.hs = next
      /\ built.m.msgs = m.msgs /\ built.m.subtype = m.subtype
      /\ built.m.initiator = m.initiator /\ built.m.RemoteIndex = m.RemoteIndex
      /\ built.m.RemoteCert = m.RemoteCert /\ built.m.failed = m.failed
      /\ built.m.payloadSet = m.payloadSet /\ built.m.remoteCertSet = m.remoteCertSet
      /\ built.m.LocalIndex = free /\ built.m.MyCert = content.m.MyCert
  BY <1>2, <1>5 DEF MachineFields
<1>7. built.keys = IF m.hs.index = 1 THEN Some(Split(next)) ELSE None
  BY <1>3, <1>4, <1>5
<1>8. Built(built, m, free)
  BY <1>2, <1>3, <1>4, <1>5, <1>6, <1>7 DEF Built
<1> QED BY Zenon, <1>8 DEF built

\* Initiate of a new machine sends the first message and waits.
Started(sent, ephemeral) ==
  /\ Waiting(sent.m) /\ sent.m.hs.eph = ephemeral
  /\ Announces(sent.out[1], sent.m)

LEMMA InitiateFacts ==
  ASSUME NEW version, NEW creds, NEW initiator, NEW ephemeral, NEW m,
         New(m, version, creds, initiator, ephemeral), initiator = TRUE,
         NEW sent, sent = Initiate(m, ephemeral)
  PROVE  Started(sent, ephemeral)
<1>1. /\ DOMAIN m = MachineFields /\ DOMAIN m.hs = HsFields
      /\ m.hs.initiator = initiator /\ m.hs.index = 0
      /\ m.hs.eph = ephemeral /\ m.hs.peer = None
      /\ m.subtype = IX /\ m.msgs = subtypeInfos[IX] /\ m.creds = creds /\ m.myVersion = version
      /\ m.initiator = initiator /\ m.indexAllocated = FALSE /\ m.failed = FALSE
      /\ getCred(creds, version) # None
  BY Zenon DEF New
<1>2. PICK built : built = buildResponse(m, ephemeral)
  OBVIOUS
<1>3. myMsgFlags(m).payload = TRUE /\ myMsgFlags(m).cert = TRUE
  BY <1>1, FlagsFacts DEF myMsgFlags
<1>4. built.err = None
  <2>1. marshalOutgoing(m, myMsgFlags(m), ephemeral).err = None
    BY Zenon, <1>1, <1>3 DEF marshalOutgoing
  <2> QED BY Zenon, <1>2, <2>1 DEF buildResponse
<1>5. sent.m = built.m /\ sent.out = built.out
  BY Zenon, <1>1, <1>2, <1>4 DEF Initiate, Returns
<1>6. m.hs.index \in Nat
  BY <1>1
<1>7. /\ DOMAIN built.m = MachineFields /\ DOMAIN built.m.hs = HsFields
      /\ built.m.msgs = m.msgs /\ built.m.subtype = m.subtype /\ built.m.initiator = m.initiator
      /\ built.m.LocalIndex = ephemeral
      /\ built.m.hs.initiator = m.hs.initiator /\ built.m.hs.index = m.hs.index + 1
      /\ built.m.hs.eph = m.hs.eph /\ built.m.hs.peer = m.hs.peer
      /\ built.out[1].body.eph = m.hs.eph
      /\ built.out[1].body.payload[1].Cert = built.m.MyCert
      /\ built.out[1].body.payload[1].InitiatorIndex =
           IF m.initiator THEN ephemeral ELSE m.RemoteIndex
  <2>1. buildResponse(m, ephemeral).err = None
    BY Zenon, <1>2, <1>4
  <2>2. Built(buildResponse(m, ephemeral), m, ephemeral)
    BY Zenon, <1>1, <1>3, <1>6, <2>1, BuildFacts
  <2>3. Built(built, m, ephemeral)
    BY Zenon, <1>2, <2>2
  <2> QED BY Zenon, <2>3 DEF Built
<1>8. Waiting(built.m)
  BY <1>1, <1>7 DEF Waiting
<1>9. Announces(built.out[1], built.m)
  BY Zenon, <1>1, <1>7 DEF Announces
<1>10. built.m.hs.eph = ephemeral
  BY Zenon, <1>1, <1>7
<1>11. Waiting(sent.m) /\ sent.m.hs.eph = ephemeral /\ Announces(sent.out[1], sent.m)
  BY Zenon, <1>5, <1>8, <1>9, <1>10
<1> QED BY Zenon, <1>11 DEF Started

LEMMA FailsFacts ==
  ASSUME NEW m, NEW err, DOMAIN m = MachineFields
  PROVE  /\ Fails(m, err).err # None /\ Fails(m, err).result = None
         /\ Fails(m, err).m.failed = TRUE
<1> DEFINE f == [m EXCEPT !.failed = TRUE]
<1>1. f.failed = TRUE
  BY Zenon DEF MachineFields
<1> HIDE DEF f
<1>2. Fails(m, err) = Returns(f, None, None, Some(err))
  BY Zenon DEF Fails, Rejects, f
<1> QED BY <1>1, <1>2 DEF Returns, Some, None

LEMMA OkayFacts ==
  ASSUME NEW m
  PROVE  Okay(m).err = None /\ Okay(m).m = m
BY Zenon DEF Okay, Returns

\* A payload that was accepted leaves the index of the other end and its
\* certificate as it was sent; one that was not ends the machine.
Accepted(content, m, p) ==
  /\ DOMAIN content.m = MachineFields
  /\ content.m.hs = m.hs /\ content.m.msgs = m.msgs
  /\ content.m.initiator = m.initiator /\ content.m.MyCert = m.MyCert
  /\ content.m.LocalIndex = m.LocalIndex
  /\ content.m.indexAllocated = m.indexAllocated
  /\ content.m.RemoteIndex = PeerIndex(m, p)
  /\ content.m.RemoteCert[1] = p.Cert[1]

Ended(content) == content.result = None /\ content.m.failed = TRUE

LEMMA PayloadFacts ==
  ASSUME NEW m, DOMAIN m = MachineFields, NEW payload, NEW flags, NEW pool,
         flags.payload = TRUE, flags.cert = TRUE
  PROVE  LET content == processPayload(m, payload, flags, pool) IN
         /\ content.err # None => Ended(content)
         /\ content.err = None => Accepted(content, m, payload[1])
<1> DEFINE content == processPayload(m, payload, flags, pool)
           p == payload[1]
           crt == p.Cert[1]
           i == [m EXCEPT !.RemoteIndex = PeerIndex(m, p), !.payloadSet = TRUE]
           Failed == \E x, e : DOMAIN x = MachineFields /\ content = Fails(x, e)
<1>1. /\ DOMAIN i = MachineFields /\ i.RemoteIndex = PeerIndex(m, p)
      /\ i.hs = m.hs /\ i.msgs = m.msgs /\ i.initiator = m.initiator
      /\ i.MyCert = m.MyCert /\ i.LocalIndex = m.LocalIndex
      /\ i.indexAllocated = m.indexAllocated
  BY Zenon DEF MachineFields
<1>2. Failed \/ content = validateCert(i, crt, pool)
  BY Zenon DEF processPayload
<1>c. content = processPayload(m, payload, flags, pool)
  OBVIOUS
<1> HIDE DEF i, content
<1>3. CASE Failed
  <2>1. PICK x, e : DOMAIN x = MachineFields /\ content = Fails(x, e)
    BY Zenon, <1>3
  <2>2. content.err # None /\ Ended(content)
    BY Zenon, <2>1, FailsFacts DEF Ended
  <2> QED BY Zenon, <2>2 DEF content
<1>4. CASE content = validateCert(i, crt, pool)
  <2> DEFINE cred == getCred(i.creds, i.myVersion)
             rc == Recombine(crt, i.hs.peer[1].static, cred[1].crt.curve)
             switched == [i EXCEPT !.myVersion = NegotiatedVersion(i, rc[1].version)]
             r == [switched EXCEPT !.RemoteCert = rc, !.remoteCertSet = TRUE]
  <2>1. /\ DOMAIN switched = MachineFields
        /\ switched.hs = i.hs /\ switched.msgs = i.msgs /\ switched.initiator = i.initiator
        /\ switched.MyCert = i.MyCert /\ switched.LocalIndex = i.LocalIndex
        /\ switched.indexAllocated = i.indexAllocated /\ switched.RemoteIndex = i.RemoteIndex
    BY Zenon, <1>1 DEF MachineFields
  <2>2. Failed \/ (content = Okay(r) /\ rc[1] = crt)
    <3> HIDE DEF rc, cred
    <3>1. /\ cred = getCred(i.creds, i.myVersion)
          /\ rc = Recombine(crt, i.hs.peer[1].static, cred[1].crt.curve)
      BY Zenon DEF rc, cred
    <3>2. \/ content = Fails(i, "no credential")
          \/ content = Fails(i, "recombine")
          \/ content = Fails(switched, "verify")
          \/ content = Okay(r) /\ rc[1] = crt
      BY ZenonT(60), <1>4, <3>1 DEF validateCert, Verifies
    <3> HIDE DEF switched, r
    <3> QED BY Zenon, <1>1, <2>1, <3>2
  <2> HIDE DEF switched, rc
  <2>3. /\ DOMAIN r = MachineFields
        /\ r.hs = i.hs /\ r.msgs = i.msgs /\ r.initiator = i.initiator
        /\ r.MyCert = i.MyCert /\ r.LocalIndex = i.LocalIndex
        /\ r.indexAllocated = i.indexAllocated /\ r.RemoteIndex = i.RemoteIndex
        /\ r.RemoteCert = rc
    BY Zenon, <2>1 DEF MachineFields
  <2> HIDE DEF r
  <2>4. ASSUME content = Okay(r), rc[1] = crt
        PROVE  content.err = None /\ Accepted(content, m, p)
    <3>1. content.err = None /\ content.m = r
      BY Zenon, <2>4, OkayFacts
    <3> QED BY Zenon, <1>1, <2>3, <2>4, <3>1 DEF Accepted
  <2> QED BY Zenon, <1>3, <2>2, <2>4 DEF content
<1> QED BY Zenon, <1>2, <1>3, <1>4

\* The completed machine, if the handshake is complete: only the keys are new.
Completed(r, m, eKey, dKey) ==
  /\ r.EKey[1] = eKey /\ r.DKey[1] = dKey
  /\ r.initiator = m.initiator /\ r.LocalIndex = m.LocalIndex
  /\ r.RemoteIndex = m.RemoteIndex /\ r.MyCert = m.MyCert
  /\ r.RemoteCert = m.RemoteCert

Completing(done, m, out, eKey, dKey) ==
  \/ Ended(done)
  \/ /\ done.result # None /\ done.out = out
     /\ Completed(done.result[1], m, eKey, dKey)

LEMMA CompletesFacts ==
  ASSUME NEW m, DOMAIN m = MachineFields, NEW out, NEW eKey, NEW dKey
  PROVE  Completing(Completes(m, out, eKey, dKey), m, out, eKey, dKey)
<1> DEFINE done == Completes(m, out, eKey, dKey)
           c == completed(m, eKey, dKey)
<1>1. /\ c.EKey = Some(eKey) /\ c.DKey = Some(dKey)
      /\ c.initiator = m.initiator /\ c.LocalIndex = m.LocalIndex
      /\ c.RemoteIndex = m.RemoteIndex /\ c.MyCert = m.MyCert
      /\ c.RemoteCert = m.RemoteCert
  BY Zenon DEF completed, MachineFields
<1>2. \/ done = Fails(m, "incomplete handshake")
      \/ done = Returns(c, out, Some(c), None)
  BY Zenon DEF Completes
<1> HIDE DEF c, done
<1>3. CASE done = Fails(m, "incomplete handshake")
  BY Zenon, <1>3, FailsFacts DEF Ended, Completing, done
<1>4. CASE done = Returns(c, out, Some(c), None)
  <2>1. done.out = out /\ done.result[1] = c /\ done.result # None
    BY Zenon, <1>4 DEF Returns, Some, None
  <2>2. Completed(c, m, eKey, dKey)
    BY <1>1 DEF Completed, Some
  <2> QED BY Zenon, <2>1, <2>2 DEF Completing, done
<1> QED BY Zenon, <1>2, <1>3, <1>4

\* The tunnel of a completed machine.
Opened(t, r, a, b, i, k) ==
  /\ t.session = <<i, k>> /\ t.eKey = <<a, i, k>> /\ t.dKey = <<b, i, k>>
  /\ t.session[1] = i /\ t.session[2] = k
  /\ t.my = r.MyCert[1] /\ t.peer = r.RemoteCert[1]
  /\ t.local = r.LocalIndex /\ t.remote = r.RemoteIndex
  /\ t.initiator = r.initiator

LEMMA StateFacts ==
  ASSUME NEW r, NEW i, NEW k, NEW a, NEW b,
         r.EKey[1] = <<a, i, k>>, r.DKey[1] = <<b, i, k>>
  PROVE  Opened(newConnectionState(r), r, a, b, i, k)
BY DEF newConnectionState, Opened

\* A message that Noise accepts.
Read(read, hs, body) ==
  /\ DOMAIN read.hs = HsFields
  /\ read.hs.initiator = hs.initiator /\ read.hs.eph = hs.eph
  /\ read.hs.index = hs.index + 1
  /\ read.hs.peer # None /\ read.hs.peer[1].eph = body.eph
  /\ read.payload = body.payload
  /\ read.keys = IF hs.index = 1 THEN Some(Split(read.hs)) ELSE None
  /\ hs.index = 1 => body.to = Some(hs.eph)

LEMMA ReadFacts ==
  ASSUME NEW hs, DOMAIN hs = HsFields, hs.index \in Nat, NEW body,
         ReadMessage(hs, body).ok
  PROVE  Read(ReadMessage(hs, body), hs, body)
<1> DEFINE ok == /\ body.index = hs.index + 1
                 /\ body.curve = hs.curve
                 /\ body.index = 2 => /\ body.cipher = hs.cipher
                                      /\ body.to = Some(hs.eph)
           next == [hs EXCEPT !.index = hs.index + 1,
                              !.peer = Some([eph |-> body.eph, static |-> body.static])]
           read == ReadMessage(hs, body)
<1>1. /\ ok
      /\ read = [ok |-> TRUE, hs |-> next, payload |-> body.payload,
                 keys |-> IF next.index = 2 THEN Some(Split(next)) ELSE None]
  <2>1. CASE ok
    BY Zenon, <2>1 DEF ReadMessage
  <2>2. CASE ~ok
    <3>1. read = [ok |-> FALSE, hs |-> hs, payload |-> None, keys |-> None]
      BY Zenon, <2>2 DEF ReadMessage
    <3> QED BY <3>1
  <2> QED BY Zenon, <2>1, <2>2
<1>2. /\ DOMAIN next = HsFields /\ next.index = hs.index + 1
      /\ next.initiator = hs.initiator /\ next.eph = hs.eph
      /\ next.peer = Some([eph |-> body.eph, static |-> body.static])
  BY Zenon DEF HsFields
<1>3. next.peer # None /\ next.peer[1].eph = body.eph
  BY <1>2 DEF Some, None
<1>4. hs.index = 1 => body.to = Some(hs.eph)
  BY <1>1
<1> HIDE DEF next, read, ok
<1>5. /\ read.hs = next /\ read.payload = body.payload
      /\ read.keys = IF next.index = 2 THEN Some(Split(next)) ELSE None
  BY Zenon, <1>1
<1>6. next.index = 2 <=> hs.index = 1
  BY <1>2
<1>7. Read(read, hs, body)
  BY Zenon, <1>2, <1>3, <1>4, <1>5, <1>6 DEF Read
<1> QED BY Zenon, <1>7 DEF read

LEMMA RejectsFacts ==
  ASSUME NEW m, NEW err
  PROVE  Rejects(m, err).result = None /\ Rejects(m, err).m = m
BY Zenon DEF Rejects, Returns

\* The cases of ProcessPacket.
Outcome(P, m, packet, pool, free) ==
  LET read == ReadMessage(m.hs, packet.body)
      advanced == [m EXCEPT !.hs = read.hs]
      content == processPayload(advanced, read.payload, peerMsgFlags(advanced), pool)
  IN  \/ P.result = None /\ P.m = m
      \/ Ended(P)
      \/ /\ read.ok /\ ~packet.short /\ packet.subtype = m.subtype
         /\ \/ content.err # None /\ P = content
            \/ /\ content.err = None /\ read.keys # None
               /\ P = Completes(content.m, None, read.keys[1][1], read.keys[1][2])
            \/ /\ content.err = None /\ read.keys = None
               /\ P = Answers(content.m, free)

LEMMA PacketFacts ==
  ASSUME NEW m, DOMAIN m = MachineFields, DOMAIN m.hs = HsFields,
         NEW packet, NEW pool, NEW free
  PROVE  Outcome(ProcessPacket(m, packet, pool, free), m, packet, pool, free)
<1> DEFINE P == ProcessPacket(m, packet, pool, free)
           read == ReadMessage(m.hs, packet.body)
           advanced == [m EXCEPT !.hs = read.hs]
           content == processPayload(advanced, read.payload, peerMsgFlags(advanced), pool)
<1>1. \/ \E err : P = Rejects(m, err)
      \/ P = Fails(m, "initiate not called")
      \/ /\ read.ok /\ ~packet.short /\ packet.subtype = m.subtype
         /\ \/ content.err # None /\ P = content
            \/ /\ content.err = None /\ read.keys # None
               /\ P = Completes(content.m, None, read.keys[1][1], read.keys[1][2])
            \/ /\ content.err = None /\ read.keys = None
               /\ P = Answers(content.m, free)
  BY ZenonT(60) DEF ProcessPacket
<1> HIDE DEF P, read, content
<1>2. ASSUME NEW err, P = Rejects(m, err) PROVE P.result = None /\ P.m = m
  BY Zenon, <1>2, RejectsFacts
<1>3. P = Fails(m, "initiate not called") => Ended(P)
  BY Zenon, FailsFacts DEF Ended
<1> QED BY Zenon, <1>1, <1>2, <1>3 DEF Outcome, P, read, content

\* The tunnel and the answer that the reader of a first message makes.
Answered(t, a, packet, e) ==
  /\ t.initiator = FALSE
  /\ t.session[1] = packet.body.eph /\ t.session[2] = e
  /\ t.eKey = <<"cs2", packet.body.eph, e>> /\ t.dKey = <<"cs1", packet.body.eph, e>>
  /\ t.local = e /\ t.remote = packet.body.payload[1].InitiatorIndex
  /\ t.peer = packet.body.payload[1].Cert[1]
  /\ t.my = a.body.payload[1].Cert[1]
  /\ a.body.eph = e /\ a.body.to[1] = packet.body.eph
  /\ a.body.payload[1].ResponderIndex = e

LEMMA FirstReadFacts ==
  ASSUME NEW m, NEW version, NEW creds, NEW initiator, NEW e,
         New(m, version, creds, initiator, e), initiator = FALSE,
         NEW packet, NEW pool,
         NEW P, P = ProcessPacket(m, packet, pool, e), P.result # None
  PROVE  /\ P.out # None
         /\ Answered(newConnectionState(P.result[1]), P.out[1], packet, e)
<1>1. /\ DOMAIN m = MachineFields /\ DOMAIN m.hs = HsFields
      /\ m.hs.initiator = FALSE /\ m.hs.index = 0 /\ m.hs.eph = e
      /\ m.msgs = subtypeInfos[IX] /\ m.initiator = FALSE /\ m.indexAllocated = FALSE
  BY Zenon DEF New
<1> DEFINE read == ReadMessage(m.hs, packet.body)
           advanced == [m EXCEPT !.hs = read.hs]
           content == processPayload(advanced, read.payload, peerMsgFlags(advanced), pool)
           built == buildResponse(content.m, e)
<1>2. /\ read.ok
      /\ \/ content.err # None /\ P = content
         \/ /\ content.err = None /\ read.keys # None
         \/ /\ content.err = None /\ read.keys = None
            /\ P = Answers(content.m, e)
  <2>1. Outcome(P, m, packet, pool, e)
    BY Zenon, <1>1, PacketFacts
  <2> QED BY Zenon, <2>1 DEF Outcome, Ended
<1>3. Read(read, m.hs, packet.body)
  <2>1. m.hs.index \in Nat
    BY <1>1
  <2> QED BY Zenon, <1>1, <1>2, <2>1, ReadFacts
<1> HIDE DEF read
<1>4. /\ DOMAIN read.hs = HsFields /\ read.hs.initiator = FALSE /\ read.hs.eph = e
      /\ read.hs.index = 1 /\ read.hs.peer # None /\ read.hs.peer[1].eph = packet.body.eph
      /\ read.payload = packet.body.payload /\ read.keys = None
  BY <1>1, <1>3 DEF Read
<1>5. /\ DOMAIN advanced = MachineFields /\ advanced.hs = read.hs
      /\ advanced.msgs = subtypeInfos[IX] /\ advanced.initiator = FALSE
      /\ advanced.indexAllocated = FALSE
  BY Zenon, <1>1 DEF MachineFields
<1> HIDE DEF advanced
<1>6. peerMsgFlags(advanced).payload = TRUE /\ peerMsgFlags(advanced).cert = TRUE
  BY <1>4, <1>5, FlagsFacts DEF peerMsgFlags
<1>7. content.err = None /\ Accepted(content, advanced, packet.body.payload[1])
      /\ P = Answers(content.m, e)
  <2>1. /\ content.err # None => Ended(content)
        /\ content.err = None => Accepted(content, advanced, read.payload[1])
    BY Zenon, <1>5, <1>6, PayloadFacts
  <2> QED BY Zenon, <1>2, <1>4, <2>1 DEF Ended
<1> HIDE DEF content
<1>8. /\ DOMAIN content.m = MachineFields /\ content.m.hs = read.hs
      /\ content.m.msgs = subtypeInfos[IX] /\ content.m.initiator = FALSE
      /\ content.m.indexAllocated = FALSE
      /\ content.m.RemoteIndex = packet.body.payload[1].InitiatorIndex
      /\ content.m.RemoteCert[1] = packet.body.payload[1].Cert[1]
  BY Zenon, <1>5, <1>7 DEF Accepted, PeerIndex
<1>9. myMsgFlags(content.m).payload = TRUE /\ myMsgFlags(content.m).cert = TRUE
  BY <1>4, <1>8, FlagsFacts DEF myMsgFlags
<1>10. /\ built.err = None
       /\ P = IF built.keys # None
              THEN Completes(built.m, built.out, built.keys[1][2], built.keys[1][1])
              ELSE Returns(built.m, built.out, None, None)
  <2>1. CASE built.err # None
    <3>1. P = Fails(built.m, built.err[1])
      BY Zenon, <1>7, <2>1 DEF Answers
    <3>2. P.result = None
      BY <3>1 DEF Fails, Rejects, Returns
    <3> QED BY Zenon, <3>2
  <2>2. CASE built.err = None
    BY Zenon, <1>7, <2>2 DEF Answers
  <2> QED BY Zenon, <2>1, <2>2
<1>11. Built(built, content.m, e)
  <2>1. content.m.hs.index \in Nat
    BY <1>4, <1>8
  <2> QED BY Zenon, <1>4, <1>8, <1>9, <1>10, <2>1, BuildFacts
<1> HIDE DEF built
<1> DEFINE k == <<"cs1", packet.body.eph, e>>
           l == <<"cs2", packet.body.eph, e>>
<1>12. /\ DOMAIN built.m = MachineFields
       /\ built.m.initiator = FALSE /\ built.m.LocalIndex = e
       /\ built.m.RemoteIndex = packet.body.payload[1].InitiatorIndex
       /\ built.m.RemoteCert[1] = packet.body.payload[1].Cert[1]
       /\ built.keys = Some(Split(built.m.hs))
       /\ built.out # None /\ built.out[1].body.eph = e
       /\ built.out[1].body.to = Some(packet.body.eph)
       /\ built.out[1].body.payload[1].Cert = built.m.MyCert
       /\ built.out[1].body.payload[1].ResponderIndex = e
       /\ built.m.hs.initiator = FALSE /\ built.m.hs.eph = e
       /\ built.m.hs.peer[1].eph = packet.body.eph
  BY <1>4, <1>8, <1>11 DEF Built
<1>13. Split(built.m.hs) = <<k, l>>
  BY Zenon, <1>12 DEF Split
<1>14. built.keys # None /\ built.keys[1][1] = k /\ built.keys[1][2] = l
  BY <1>12, <1>13 DEF Some, None
<1>15. P = Completes(built.m, built.out, l, k)
  BY Zenon, <1>10, <1>14
<1>16. P.out = built.out /\ Completed(P.result[1], built.m, l, k)
  <2>1. Completing(P, built.m, built.out, l, k)
    BY Zenon, <1>12, <1>15, CompletesFacts
  <2> QED BY Zenon, <2>1 DEF Completing, Ended
<1>17. Opened(newConnectionState(P.result[1]), P.result[1], "cs2", "cs1", packet.body.eph, e)
  BY ZenonT(60), <1>16, StateFacts DEF Completed
<1>18. built.out[1].body.to[1] = packet.body.eph
  BY <1>12 DEF Some
<1>19. Answered(newConnectionState(P.result[1]), built.out[1], packet, e)
  BY ZenonT(60), <1>12, <1>16, <1>17, <1>18 DEF Answered, Completed, Opened
<1> QED BY Zenon, <1>12, <1>16, <1>19

\* The tunnel that the initiator makes of an answer.
Concluded(t, m, a) ==
  /\ a.body.to = Some(m.hs.eph)
  /\ t.initiator = TRUE
  /\ t.session[1] = m.hs.eph /\ t.session[2] = a.body.eph
  /\ t.eKey = <<"cs1", m.hs.eph, a.body.eph>> /\ t.dKey = <<"cs2", m.hs.eph, a.body.eph>>
  /\ t.local = m.LocalIndex /\ t.remote = a.body.payload[1].ResponderIndex
  /\ t.my = m.MyCert[1]
  /\ t.peer = a.body.payload[1].Cert[1]

Continued(P, m, a) ==
  /\ P.result = None => P.m.failed = TRUE \/ P.m = m
  /\ P.result # None => Concluded(newConnectionState(P.result[1]), m, a)

LEMMA ContinueFacts ==
  ASSUME NEW m, Waiting(m), NEW a, NEW pool, NEW e,
         NEW P, P = ProcessPacket(m, a, pool, e)
  PROVE  Continued(P, m, a)
<1>1. /\ DOMAIN m = MachineFields /\ DOMAIN m.hs = HsFields
      /\ m.hs.initiator = TRUE /\ m.hs.index = 1
      /\ m.msgs = subtypeInfos[IX] /\ m.initiator = TRUE
  BY Zenon DEF Waiting
<1> DEFINE read == ReadMessage(m.hs, a.body)
           advanced == [m EXCEPT !.hs = read.hs]
           content == processPayload(advanced, read.payload, peerMsgFlags(advanced), pool)
<1>2. \/ P.result = None /\ P.m = m
      \/ Ended(P)
      \/ /\ read.ok
         /\ \/ content.err # None /\ P = content
            \/ /\ content.err = None /\ read.keys # None
               /\ P = Completes(content.m, None, read.keys[1][1], read.keys[1][2])
            \/ /\ content.err = None /\ read.keys = None
  <2>1. Outcome(P, m, a, pool, e)
    BY Zenon, <1>1, PacketFacts
  <2> QED BY Zenon, <2>1 DEF Outcome
<1>3. CASE P.result = None /\ P.m = m
  BY Zenon, <1>3 DEF Continued
<1>4. CASE Ended(P)
  BY Zenon, <1>4 DEF Ended, Continued
<1>5. CASE /\ read.ok
           /\ \/ content.err # None /\ P = content
              \/ /\ content.err = None /\ read.keys # None
                 /\ P = Completes(content.m, None, read.keys[1][1], read.keys[1][2])
              \/ /\ content.err = None /\ read.keys = None
  <2>1. Read(read, m.hs, a.body)
    <3>1. m.hs.index \in Nat
      BY <1>1
    <3> QED BY Zenon, <1>1, <1>5, <3>1, ReadFacts
  <2> HIDE DEF read
  <2>2. /\ DOMAIN read.hs = HsFields /\ read.hs.initiator = TRUE /\ read.hs.eph = m.hs.eph
        /\ read.hs.index = 2 /\ read.hs.peer # None /\ read.hs.peer[1].eph = a.body.eph
        /\ read.payload = a.body.payload /\ read.keys = Some(Split(read.hs))
        /\ a.body.to = Some(m.hs.eph)
    BY <1>1, <2>1 DEF Read
  <2>3. /\ DOMAIN advanced = MachineFields /\ advanced.hs = read.hs
        /\ advanced.msgs = subtypeInfos[IX] /\ advanced.initiator = TRUE
        /\ advanced.MyCert = m.MyCert /\ advanced.LocalIndex = m.LocalIndex
    BY Zenon, <1>1 DEF MachineFields
  <2> HIDE DEF advanced
  <2>4. peerMsgFlags(advanced).payload = TRUE /\ peerMsgFlags(advanced).cert = TRUE
    BY <2>2, <2>3, FlagsFacts DEF peerMsgFlags
  <2>5. /\ content.err # None => Ended(content)
        /\ content.err = None => Accepted(content, advanced, a.body.payload[1])
    BY Zenon, <2>2, <2>3, <2>4, PayloadFacts
  <2> HIDE DEF content
  <2>6. CASE content.err # None
    BY Zenon, <1>5, <2>5, <2>6 DEF Ended, Continued
  <2>7. CASE content.err = None
    <3> DEFINE k == <<"cs1", m.hs.eph, a.body.eph>>
               l == <<"cs2", m.hs.eph, a.body.eph>>
    <3>1. Split(read.hs) = <<k, l>>
      BY Zenon, <2>2 DEF Split
    <3>2. read.keys # None /\ read.keys[1][1] = k /\ read.keys[1][2] = l
      BY <2>2, <3>1 DEF Some, None
    <3>3. P = Completes(content.m, None, k, l)
      BY Zenon, <1>5, <2>7, <3>2
    <3>4. /\ DOMAIN content.m = MachineFields /\ content.m.initiator = TRUE
          /\ content.m.MyCert = m.MyCert /\ content.m.LocalIndex = m.LocalIndex
          /\ content.m.RemoteIndex = a.body.payload[1].ResponderIndex
          /\ content.m.RemoteCert[1] = a.body.payload[1].Cert[1]
      BY Zenon, <2>3, <2>5, <2>7 DEF Accepted, PeerIndex
    <3>5. Ended(P) \/ (P.result # None /\ Completed(P.result[1], content.m, k, l))
      <4>1. Completing(P, content.m, None, k, l)
        BY Zenon, <3>3, <3>4, CompletesFacts
      <4> QED BY Zenon, <4>1 DEF Completing
    <3>6. ASSUME Completed(P.result[1], content.m, k, l)
          PROVE  Concluded(newConnectionState(P.result[1]), m, a)
      <4>1. Opened(newConnectionState(P.result[1]), P.result[1], "cs1", "cs2",
                   m.hs.eph, a.body.eph)
        BY Zenon, <3>6, StateFacts DEF Completed
      <4> DEFINE t == newConnectionState(P.result[1])
      <4> HIDE DEF t
      <4>2. t.initiator = TRUE
        BY Zenon, <3>4, <3>6, <4>1 DEF Completed, Opened, t
      <4>3. /\ t.session[1] = m.hs.eph /\ t.session[2] = a.body.eph
            /\ t.eKey = k /\ t.dKey = l
        BY Zenon, <4>1 DEF Opened, t
      <4> DEFINE r == P.result[1]
      <4>4. /\ t.local = r.LocalIndex /\ t.remote = r.RemoteIndex
            /\ t.my = r.MyCert[1] /\ t.peer = r.RemoteCert[1]
        BY Zenon, <4>1 DEF Opened, t
      <4>5. /\ r.LocalIndex = m.LocalIndex /\ r.RemoteIndex = a.body.payload[1].ResponderIndex
            /\ r.MyCert = m.MyCert /\ r.RemoteCert[1] = a.body.payload[1].Cert[1]
        BY Zenon, <3>4, <3>6 DEF Completed
      <4> QED BY Zenon, <2>2, <4>2, <4>3, <4>4, <4>5 DEF Concluded, t
    <3>7. CASE Ended(P)
      BY Zenon, <3>7 DEF Ended, Continued
    <3>8. CASE P.result # None /\ Completed(P.result[1], content.m, k, l)
      BY Zenon, <3>6, <3>8 DEF Continued
    <3> QED BY Zenon, <3>5, <3>7, <3>8
  <2> QED BY Zenon, <2>6, <2>7
<1> QED BY Zenon, <1>2, <1>3, <1>4, <1>5

\* A stray packet never completes a handshake.
LEMMA PayloadRejected ==
  ASSUME NEW m, NEW payload, NEW flags, NEW pool,
         flags.payload = TRUE, flags.cert = TRUE,
         payload = None \/ PeerIndex(m, payload[1]) = 0 \/ payload[1].Cert = None
  PROVE  processPayload(m, payload, flags, pool).err # None
<1>1. \E err : processPayload(m, payload, flags, pool) = Fails(m, err)
  BY Zenon DEF processPayload
<1>2. ASSUME NEW err PROVE Fails(m, err).err # None
  BY Zenon DEF Fails, Rejects, Returns, Some, None
<1> QED BY Zenon, <1>1, <1>2

Stray(q, m) ==
  \/ q.short = TRUE \/ q.subtype # IX
  \/ q.body.index = 2 /\ q.body.to = None
  \/ q.body.payload = None
  \/ q.body.payload[1].ResponderIndex = 0
  \/ q.body.payload[1].Cert = None

LEMMA StrayForms ==
  ASSUME NEW n, NEW q \in Strays(n)
  PROVE  Stray(q, handshaking[n][1].machine[1])
<1> DEFINE m == handshaking[n][1].machine[1]
           body == [eph |-> 0, static |-> "other", curve |-> m.hs.curve, cipher |-> m.hs.cipher,
                    index |-> 2, payload |-> None, to |-> Some(m.hs.eph)]
           p == [short |-> FALSE, subtype |-> IX, RemoteIndex |-> m.LocalIndex, counter |-> 2,
                 body |-> body]
<1>1. \/ q = [p EXCEPT !.short = TRUE]
      \/ q = [p EXCEPT !.subtype = "other"]
      \/ q = [p EXCEPT !.body.to = None]
      \/ q = p
      \/ q = [p EXCEPT !.body.payload =
                Some([InitiatorIndex |-> 0, ResponderIndex |-> 0, Time |-> TRUE,
                      Cert |-> m.MyCert])]
      \/ q = [p EXCEPT !.body.payload =
                Some([InitiatorIndex |-> m.LocalIndex, ResponderIndex |-> 9,
                      Time |-> TRUE, Cert |-> None])]
  BY Zenon DEF Strays
<1> HIDE DEF m
<1>2. CASE q = [p EXCEPT !.short = TRUE]
  BY Zenon, <1>2 DEF Stray
<1>3. CASE q = [p EXCEPT !.subtype = "other"]
  BY Zenon, <1>3 DEF Stray, IX
<1>4. CASE q = [p EXCEPT !.body.to = None]
  <2>1. q.body = [body EXCEPT !.to = None]
    BY Zenon, <1>4
  <2> QED BY Zenon, <2>1 DEF Stray
<1>5. CASE q = p
  BY Zenon, <1>5 DEF Stray
<1>6. CASE q = [p EXCEPT !.body.payload =
                  Some([InitiatorIndex |-> 0, ResponderIndex |-> 0, Time |-> TRUE,
                        Cert |-> m.MyCert])]
  <2>1. q.body.payload = Some([InitiatorIndex |-> 0, ResponderIndex |-> 0, Time |-> TRUE,
                               Cert |-> m.MyCert])
    BY Zenon, <1>6
  <2> QED BY <2>1 DEF Stray, Some
<1>7. CASE q = [p EXCEPT !.body.payload =
                  Some([InitiatorIndex |-> m.LocalIndex, ResponderIndex |-> 9,
                        Time |-> TRUE, Cert |-> None])]
  <2>1. q.body.payload = Some([InitiatorIndex |-> m.LocalIndex, ResponderIndex |-> 9,
                               Time |-> TRUE, Cert |-> None])
    BY Zenon, <1>7
  <2> QED BY <2>1 DEF Stray, Some
<1> QED BY Zenon, <1>1, <1>2, <1>3, <1>4, <1>5, <1>6, <1>7 DEF m

LEMMA StrayFacts ==
  ASSUME NEW m, Waiting(m), NEW q, Stray(q, m), NEW pool, NEW e
  PROVE  ProcessPacket(m, q, pool, e).result = None
<1> DEFINE P == ProcessPacket(m, q, pool, e)
           read == ReadMessage(m.hs, q.body)
           advanced == [m EXCEPT !.hs = read.hs]
           content == processPayload(advanced, read.payload, peerMsgFlags(advanced), pool)
<1>1. /\ DOMAIN m = MachineFields /\ DOMAIN m.hs = HsFields
      /\ m.hs.index = 1 /\ m.subtype = IX
      /\ m.msgs = subtypeInfos[IX] /\ m.initiator = TRUE
  BY Zenon DEF Waiting
<1>2. \/ P.result = None
      \/ /\ read.ok /\ ~q.short /\ q.subtype = IX
         /\ content.err = None \/ P = content
  <2>1. Outcome(P, m, q, pool, e)
    BY Zenon, <1>1, PacketFacts
  <2> QED BY Zenon, <1>1, <2>1 DEF Outcome, Ended
<1>3. CASE P.result = None
  BY Zenon, <1>3
<1>4. CASE /\ read.ok /\ ~q.short /\ q.subtype = IX
           /\ content.err = None \/ P = content
  <2>1. Read(read, m.hs, q.body)
    <3>1. m.hs.index \in Nat
      BY <1>1
    <3> QED BY Zenon, <1>1, <1>4, <3>1, ReadFacts
  <2> HIDE DEF read
  <2>2. /\ read.hs.index = 2 /\ read.payload = q.body.payload
        /\ q.body.to = Some(m.hs.eph)
    BY <1>1, <2>1 DEF Read
  <2>3. q.body.to # None
    BY <2>2 DEF Some, None
  <2>4. /\ DOMAIN advanced = MachineFields /\ advanced.hs = read.hs
        /\ advanced.msgs = subtypeInfos[IX] /\ advanced.initiator = TRUE
    BY Zenon, <1>1 DEF MachineFields
  <2> HIDE DEF advanced
  <2>5. peerMsgFlags(advanced).payload = TRUE /\ peerMsgFlags(advanced).cert = TRUE
    BY <2>2, <2>4, FlagsFacts DEF peerMsgFlags
  <2>6. \/ q.body.payload = None \/ q.body.payload[1].Cert = None
        \/ PeerIndex(advanced, q.body.payload[1]) = 0
    BY Zenon, <1>4, <2>3, <2>4 DEF Stray, PeerIndex
  <2>7. content.err # None
    BY Zenon, <2>2, <2>5, <2>6, PayloadRejected
  <2>8. Ended(content)
    BY Zenon, <2>4, <2>5, <2>7, PayloadFacts
  <2> QED BY Zenon, <1>4, <2>7, <2>8 DEF Ended
<1> QED BY Zenon, <1>2, <1>3, <1>4

----------------------------------------------------------------------------
(* Nodes, fresh keys and certificate states.                               *)

LEMMA OtherFacts ==
  ASSUME NEW n \in Party
  PROVE  /\ OtherParty(n) \in Party /\ OtherParty(n) # n
         /\ OtherParty(OtherParty(n)) = n
         /\ \A q \in Party : q = n \/ q = OtherParty(n)
<1>1. PICK a, b \in Party : a # b /\ Party = {a, b}
  BY Zenon, PKIAssumption
<1>2. OtherParty(a) = b /\ OtherParty(b) = a
  BY Zenon, <1>1 DEF OtherParty
<1> QED BY Zenon, <1>1, <1>2

LEMMA FreshUnused == Fresh \notin Used
<1>1. ASSUME NEW n PROVE IsFiniteSet(UsedBy(n))
  <2> DEFINE T == IF tunnel[n] = None THEN {} ELSE Ephemerals(tunnel[n][1].session)
             H == IF Building(n) THEN {handshaking[n][1].machine[1].hs.eph} ELSE {}
             A == IF answer[n] = None THEN {}
                  ELSE {answer[n][1].body.eph, answer[n][1].body.to[1]}
  <2>1. \A x, y : IsFiniteSet({x}) /\ IsFiniteSet({x, y})
    <3>1. ASSUME NEW x, NEW y PROVE IsFiniteSet({x}) /\ IsFiniteSet({x, y})
      <4>1. {x, y} = {x} \cup {y}
        OBVIOUS
      <4>2. IsFiniteSet({x}) /\ IsFiniteSet({y})
        BY Zenon, FS_Singleton
      <4> QED BY Zenon, <4>1, <4>2, FS_Union
    <3> QED BY Zenon, <3>1
  <2>2. IsFiniteSet(T) /\ IsFiniteSet(H) /\ IsFiniteSet(A)
    BY Zenon, <2>1, FS_EmptySet DEF Ephemerals
  <2> HIDE DEF T, H, A
  <2>3. IsFiniteSet(T \cup H \cup A)
    BY Zenon, <2>2, FS_Union
  <2> QED BY Zenon, <2>3 DEF UsedBy, T, H, A
<1>2. IsFiniteSet(Used)
  <2>1. PICK a, b \in Party : Party = {a, b}
    BY Zenon, PKIAssumption
  <2>2. Used = UsedBy(a) \cup UsedBy(b)
    BY Zenon, <2>1 DEF Used
  <2> QED BY Zenon, <1>1, <2>2, FS_Union
<1> DEFINE k == Cardinality(Used)
<1>3. k \in Nat
  BY Zenon, <1>2, FS_CardinalityType
<1>4. \E i \in 1..(k + 1) : i \notin Used
  <2> SUFFICES ASSUME 1..(k + 1) \subseteq Used PROVE FALSE
    BY Zenon
  <2>1. Cardinality(1..(k + 1)) <= k
    BY Zenon, <1>2, FS_Subset
  <2>2. Cardinality(1..(k + 1)) = k + 1
    <3> HIDE DEF k
    <3>1. 1 \in Int /\ k + 1 \in Int /\ ~(1 > k + 1)
      BY <1>3
    <3>2. Cardinality(1..(k + 1)) = (k + 1) - 1 + 1
      BY Zenon, <3>1, FS_Interval
    <3> QED BY <1>3, <3>2
  <2> HIDE DEF k
  <2> QED BY <1>3, <2>1, <2>2
<1> QED BY Zenon, <1>4 DEF Fresh

\* A loaded state has a certificate of the version it initiates with.
LEMMA LoadedFacts ==
  ASSUME NEW c, NEW cipher, newCertStateFromConfig(c, cipher) # None
  PROVE  CanInitiate(newCertStateFromConfig(c, cipher)[1])
<1> DEFINE key == loadPrivateKey(c.key)
           blocks == SelectSeq(c.blocks, LAMBDA crt : ~Unsupported(crt))
           v1 == OfVersion(blocks, 1)
           v2 == OfVersion(blocks, 2)
           dv == InitiatingVersion(c.initiating, v1)
           s == [certs |-> <<v1, v2>>, cipher |-> cipher,
                 initiatingVersion |-> IF v1 # None /\ v2 # None THEN dv
                                       ELSE IF v1 # None THEN 1 ELSE 2,
                 myVpnNetworks |-> myVpnNetworks(v1, v2)]
<1>1. /\ ~(v1 = None /\ v2 = None) /\ dv \in Version
      /\ newCertStateFromConfig(c, cipher) = newCertState(dv, v1, v2, key[1], cipher)
  BY Zenon DEF newCertStateFromConfig
<1> HIDE DEF v1, v2, dv, key
<1>2. newCertStateFromConfig(c, cipher) = Some(s)
  BY Zenon, <1>1 DEF newCertState
<1>3. newCertStateFromConfig(c, cipher)[1] = s
  BY <1>2 DEF Some
<1>4. CanInitiate(s)
  BY <1>1 DEF CanInitiate, Version
<1> QED BY Zenon, <1>3, <1>4

----------------------------------------------------------------------------
(* The steps.                                                              *)

\* A handshake that is pending after a step is the one pending before it.
SameMachine(q) ==
  Building(q)' =>
    /\ Building(q)
    /\ handshaking'[q][1].machine[1].hs.eph = handshaking[q][1].machine[1].hs.eph
    /\ handshaking'[q][1].machine[1].MyCert = handshaking[q][1].machine[1].MyCert

LEMMA AgreeFacts ==
  ASSUME NEW t, NEW u, SideOk(t), SideOk(u), t.initiator # u.initiator,
         t.session = u.session, t.peer = u.my, t.my = u.peer
  PROVE  Agree(t, u) /\ Agree(u, t)
<1> DEFINE i == t.session[1]
           r == t.session[2]
<1>1. <<"cs1", i, r>> # <<"cs2", i, r>>
  OBVIOUS
<1>2. /\ \/ /\ t.initiator = TRUE
            /\ t.eKey = <<"cs1", i, r>> /\ t.dKey = <<"cs2", i, r>> /\ t.local = i /\ t.remote = r
         \/ /\ t.initiator = FALSE
            /\ t.eKey = <<"cs2", i, r>> /\ t.dKey = <<"cs1", i, r>> /\ t.local = r /\ t.remote = i
      /\ \/ /\ u.initiator = TRUE
            /\ u.eKey = <<"cs1", i, r>> /\ u.dKey = <<"cs2", i, r>> /\ u.local = i /\ u.remote = r
         \/ /\ u.initiator = FALSE
            /\ u.eKey = <<"cs2", i, r>> /\ u.dKey = <<"cs1", i, r>> /\ u.local = r /\ u.remote = i
  BY Zenon DEF SideOk
<1>3. /\ t.eKey = u.dKey /\ t.dKey = u.eKey /\ t.eKey # t.dKey /\ u.eKey # u.dKey
      /\ t.remote = u.local /\ t.local = u.remote
  <2> DEFINE k == <<"cs1", i, r>>
             l == <<"cs2", i, r>>
  <2>1. k # l
    BY Zenon, <1>1
  <2> HIDE DEF k, l
  <2>2. CASE t.initiator = TRUE
    <3>1. u.initiator # TRUE
      BY Zenon, <2>2
    <3>2. t.eKey = k /\ t.dKey = l /\ t.local = i /\ t.remote = r
      BY Zenon, <1>2, <2>2 DEF k, l
    <3>3. u.eKey = l /\ u.dKey = k /\ u.local = r /\ u.remote = i
      BY Zenon, <1>2, <3>1 DEF k, l
    <3> QED BY Zenon, <2>1, <3>2, <3>3
  <2>3. CASE t.initiator # TRUE
    <3>1. t.initiator = FALSE /\ u.initiator # FALSE
      BY Zenon, <1>2, <2>3
    <3>2. t.eKey = l /\ t.dKey = k /\ t.local = r /\ t.remote = i
      BY Zenon, <1>2, <2>3 DEF k, l
    <3>3. u.eKey = k /\ u.dKey = l /\ u.local = i /\ u.remote = r
      BY Zenon, <1>2, <3>1 DEF k, l
    <3> QED BY Zenon, <2>1, <3>2, <3>3
  <2> QED BY Zenon, <2>2, <2>3
<1> QED BY Zenon, <1>3 DEF Agree

LEMMA SomeFacts == \A x : Some(x) # None /\ Some(x)[1] = x
BY Zenon DEF Some, None

MachineSet(g, h, x) == DOMAIN g = PendingFields /\ g.machine = x /\ g.packet = h.packet

LEMMA SetMachine ==
  ASSUME NEW h, DOMAIN h = PendingFields, NEW x
  PROVE  MachineSet([h EXCEPT !.machine = x], h, x)
BY Zenon DEF PendingFields, MachineSet

\* The invariant of the two nodes after a step from its parts.
LEMMA Assemble ==
  ASSUME NEW n \in Party, NEW p, p = OtherParty(n),
         DOMAIN cs' = Party, DOMAIN handshaking' = Party,
         DOMAIN answer' = Party, DOMAIN tunnel' = Party,
         CanInitiate(cs'[n]), CanInitiate(cs'[p]),
         PendingOk(n)', PendingOk(p)',
         AnswerOk(n, p)', AnswerOk(p, n)', BuildOk(n, p)', BuildOk(p, n)',
         tunnel'[n] # None => SideOk(tunnel'[n][1]),
         tunnel'[p] # None => SideOk(tunnel'[p][1]),
         (tunnel'[n] # None /\ tunnel'[p] # None)
           => Agree(tunnel'[n][1], tunnel'[p][1]) /\ Agree(tunnel'[p][1], tunnel'[n][1])
  PROVE  TunnelInv'
<1>1. /\ OtherParty(p) = n /\ \A q \in Party : q = n \/ q = p
  BY Zenon, OtherFacts
<1>2. EndsAgree'
  BY ZenonT(60), <1>1 DEF EndsAgree, Agree
<1> QED BY Zenon, <1>1, <1>2 DEF TunnelInv

\* ... and its parts from it.
LEMMA Parts ==
  ASSUME NEW n \in Party, NEW p, p = OtherParty(n), TunnelInv
  PROVE  /\ p \in Party /\ p # n /\ OtherParty(p) = n
         /\ \A q \in Party : q = n \/ q = p
         /\ DOMAIN cs = Party /\ DOMAIN handshaking = Party
         /\ DOMAIN answer = Party /\ DOMAIN tunnel = Party
         /\ CanInitiate(cs[n]) /\ CanInitiate(cs[p])
         /\ PendingOk(n) /\ PendingOk(p)
         /\ AnswerOk(n, p) /\ AnswerOk(p, n) /\ BuildOk(n, p) /\ BuildOk(p, n)
         /\ tunnel[n] # None => SideOk(tunnel[n][1])
         /\ tunnel[p] # None => SideOk(tunnel[p][1])
         /\ (tunnel[n] # None /\ tunnel[p] # None)
              => Agree(tunnel[n][1], tunnel[p][1]) /\ Agree(tunnel[p][1], tunnel[n][1])
<1>1. p \in Party /\ p # n /\ OtherParty(p) = n /\ \A q \in Party : q = n \/ q = p
  BY Zenon, OtherFacts
<1>2. (tunnel[n] # None /\ tunnel[p] # None)
        => Agree(tunnel[n][1], tunnel[p][1]) /\ Agree(tunnel[p][1], tunnel[n][1])
  <2>1. EndsAgree
    BY Zenon DEF TunnelInv
  <2>2. (tunnel[n] # None /\ tunnel[p] # None) => Agree(tunnel[n][1], tunnel[p][1])
    BY Zenon, <2>1 DEF EndsAgree, Agree
  <2>3. (tunnel[n] # None /\ tunnel[p] # None) => Agree(tunnel[p][1], tunnel[n][1])
    BY Zenon, <1>1, <2>1 DEF EndsAgree, Agree
  <2> QED BY Zenon, <2>2, <2>3
<1> QED BY Zenon, <1>1, <1>2 DEF TunnelInv

\* A step that makes no tunnel, no first message and no answer.
LEMMA Shrink ==
  ASSUME TunnelInv, tunnel' = tunnel,
         DOMAIN cs' = Party, DOMAIN handshaking' = Party, DOMAIN answer' = Party,
         \A q \in Party : /\ CanInitiate(cs'[q]) /\ PendingOk(q)' /\ SameMachine(q)
                          /\ answer'[q] = answer[q] \/ answer'[q] = None
  PROVE  TunnelInv'
<1>1. ASSUME NEW n \in Party, NEW p, p = OtherParty(n)
      PROVE  AnswerOk(n, p)' /\ BuildOk(n, p)'
  <2>1. /\ p \in Party /\ AnswerOk(n, p) /\ BuildOk(n, p)
    BY Zenon, <1>1, Parts
  <2>2. AnswerOk(n, p)'
    BY Zenon, <2>1 DEF AnswerOk, SameMachine
  <2>3. BuildOk(n, p)'
    BY Zenon, <2>1 DEF BuildOk, SameMachine
  <2> QED BY Zenon, <2>2, <2>3
<1>2. EndsAgree'
  BY Zenon DEF TunnelInv, EndsAgree
<1>3. \A n \in Party : tunnel'[n] # None => SideOk(tunnel'[n][1])
  BY Zenon DEF TunnelInv
<1>4. DOMAIN tunnel' = Party
  BY Zenon DEF TunnelInv
<1> QED BY Zenon, <1>1, <1>2, <1>3, <1>4 DEF TunnelInv

LEMMA SamePending ==
  ASSUME NEW q, handshaking'[q] = handshaking[q], PendingOk(q)
  PROVE  PendingOk(q)' /\ SameMachine(q)
BY Zenon DEF PendingOk, SameMachine, Building

LEMMA IdleKeeps ==
  ASSUME TunnelInv, UNCHANGED <<cs, handshaking, answer, tunnel>>
  PROVE  TunnelInv'
<1>1. /\ DOMAIN cs = Party /\ DOMAIN handshaking = Party /\ DOMAIN answer = Party
      /\ \A q \in Party : CanInitiate(cs[q]) /\ PendingOk(q)
  BY Zenon DEF TunnelInv
<1>2. \A q \in Party : PendingOk(q)' /\ SameMachine(q)
  BY Zenon, <1>1, SamePending
<1> QED BY Zenon, <1>1, <1>2, Shrink

LEMMA StartKeeps ==
  ASSUME TunnelInv, NEW n \in Party, NEW override, StartsHandshake(n, override),
         UNCHANGED <<cs, answer, tunnel>>
  PROVE  TunnelInv'
<1>1. /\ DOMAIN cs = Party /\ DOMAIN handshaking = Party /\ DOMAIN answer = Party
      /\ \A q \in Party : CanInitiate(cs[q]) /\ PendingOk(q)
  BY Zenon DEF TunnelInv
<1> DEFINE h == handshaking[n][1]
           x == IF handshaking[n] = None
                THEN Some([override |-> override, machine |-> None, packet |-> None,
                           seen |-> FALSE])
                ELSE IF override = 0 THEN handshaking[n]
                ELSE Some([h EXCEPT !.override = override])
<1>2. DOMAIN handshaking' = Party /\ handshaking'[n] = x
      /\ \A q \in Party \ {n} : handshaking'[q] = handshaking[q]
  BY Zenon, <1>1 DEF StartsHandshake
<1>3. PendingOk(n)' /\ SameMachine(n)
  <2>1. CASE handshaking[n] = None
    <3>1. handshaking'[n] = Some([override |-> override, machine |-> None, packet |-> None,
                                  seen |-> FALSE])
      BY Zenon, <1>2, <2>1
    <3>2. /\ handshaking'[n][1].machine = None /\ handshaking'[n][1].packet = None
          /\ DOMAIN handshaking'[n][1] = PendingFields
      BY <3>1 DEF Some, PendingFields
    <3> QED BY Zenon, <3>2 DEF PendingOk, SameMachine, Building
  <2>2. CASE handshaking[n] # None /\ override = 0
    BY Zenon, <1>1, <1>2, <2>2, SamePending
  <2>3. CASE handshaking[n] # None /\ override # 0
    <3>1. handshaking'[n][1] = [h EXCEPT !.override = override]
      <4>1. handshaking'[n] = Some([h EXCEPT !.override = override])
        BY Zenon, <1>2, <2>3
      <4> QED BY <4>1 DEF Some
    <3>2. DOMAIN h = PendingFields
      BY Zenon, <1>1, <2>3 DEF PendingOk
    <3>3. /\ handshaking'[n][1].machine = h.machine /\ handshaking'[n][1].packet = h.packet
          /\ DOMAIN handshaking'[n][1] = PendingFields
      BY <3>1, <3>2
    <3> QED BY Zenon, <1>1, <2>3, <3>3 DEF PendingOk, SameMachine, Building
  <2> QED BY Zenon, <2>1, <2>2, <2>3
<1>4. \A q \in Party : PendingOk(q)' /\ SameMachine(q)
  BY Zenon, <1>1, <1>2, <1>3, SamePending
<1> QED BY Zenon, <1>1, <1>2, <1>4, Shrink

LEMMA ReloadKeeps ==
  ASSUME TunnelInv, NEW n \in Party, NEW c, reload(n, c)
  PROVE  TunnelInv'
<1>1. /\ DOMAIN cs = Party /\ DOMAIN handshaking = Party /\ DOMAIN answer = Party
      /\ \A q \in Party : CanInitiate(cs[q]) /\ PendingOk(q)
  BY Zenon DEF TunnelInv
<1>2. /\ cs' = [cs EXCEPT ![n] = reloadCerts(cs[n], c).cs]
      /\ UNCHANGED <<handshaking, answer, tunnel>>
  BY Zenon DEF reload
<1>3. CanInitiate(reloadCerts(cs[n], c).cs)
  <2> DEFINE new == newCertStateFromConfig(c, cs[n].cipher)
  <2>1. \/ reloadCerts(cs[n], c).cs = cs[n]
        \/ new # None /\ reloadCerts(cs[n], c).cs = new[1]
    BY Zenon DEF reloadCerts
  <2>2. new # None => CanInitiate(new[1])
    BY Zenon, LoadedFacts
  <2> QED BY Zenon, <1>1, <2>1, <2>2
<1>4. DOMAIN cs' = Party /\ \A q \in Party : CanInitiate(cs'[q])
  BY Zenon, <1>1, <1>2, <1>3
<1>5. \A q \in Party : PendingOk(q)' /\ SameMachine(q)
  BY Zenon, <1>1, <1>2, SamePending
<1> QED BY Zenon, <1>1, <1>2, <1>4, <1>5, Shrink

LEMMA TimeoutKeeps ==
  ASSUME TunnelInv, NEW n \in Party, HandshakeTimesOut(n)
  PROVE  TunnelInv'
<1>1. /\ DOMAIN cs = Party /\ DOMAIN handshaking = Party /\ DOMAIN answer = Party
      /\ \A q \in Party : CanInitiate(cs[q]) /\ PendingOk(q)
  BY Zenon DEF TunnelInv
<1>2. /\ handshaking' = [handshaking EXCEPT ![n] = None]
      /\ answer' = [answer EXCEPT ![n] = None]
      /\ UNCHANGED <<cs, tunnel>>
  BY Zenon DEF HandshakeTimesOut
<1>3. /\ DOMAIN handshaking' = Party /\ DOMAIN answer' = Party
      /\ handshaking'[n] = None
      /\ \A q \in Party \ {n} : handshaking'[q] = handshaking[q]
      /\ \A q \in Party : answer'[q] = answer[q] \/ answer'[q] = None
  BY Zenon, <1>1, <1>2
<1>4. PendingOk(n)' /\ SameMachine(n)
  BY Zenon, <1>3 DEF PendingOk, SameMachine, Building
<1>5. \A q \in Party : PendingOk(q)' /\ SameMachine(q)
  BY Zenon, <1>1, <1>3, <1>4, SamePending
<1> QED BY Zenon, <1>1, <1>2, <1>3, <1>5, Shrink

\* A packet that completes nothing leaves the handshake as it was, or ends it.
LEMMA PendingKeeps ==
  ASSUME TunnelInv, NEW n \in Party, Building(n), NEW packet, NEW P,
         P = ProcessPacket(handshaking[n][1].machine[1], packet, caPool[n], Fresh),
         P.result = None,
         handshaking' = [handshaking EXCEPT ![n] = IF P.m.failed THEN None
                                 ELSE Some([@[1] EXCEPT !.machine = Some(P.m)])],
         UNCHANGED <<cs, tunnel>>, DOMAIN answer' = Party,
         \A q \in Party : answer'[q] = answer[q] \/ answer'[q] = None
  PROVE  TunnelInv'
<1>1. /\ DOMAIN cs = Party /\ DOMAIN handshaking = Party
      /\ \A q \in Party : CanInitiate(cs[q]) /\ PendingOk(q)
  BY Zenon DEF TunnelInv
<1> DEFINE h == handshaking[n][1]
           m == h.machine[1]
<1>2. /\ DOMAIN h = PendingFields
      /\ Waiting(m) /\ Announces(h.packet[1], m)
  BY Zenon, <1>1 DEF PendingOk, Building
<1>3. P.m.failed = TRUE \/ P.m = m
  <2>1. Continued(P, m, packet)
    BY Zenon, <1>2, ContinueFacts
  <2> QED BY Zenon, <2>1 DEF Continued
<1>4. /\ DOMAIN handshaking' = Party
      /\ handshaking'[n] = IF P.m.failed THEN None ELSE Some([h EXCEPT !.machine = Some(P.m)])
      /\ \A q \in Party \ {n} : handshaking'[q] = handshaking[q]
  BY Zenon, <1>1
<1>5. PendingOk(n)' /\ SameMachine(n)
  <2>1. CASE P.m.failed
    <3>1. handshaking'[n] = None
      BY Zenon, <1>4, <2>1
    <3> QED BY Zenon, <3>1 DEF PendingOk, SameMachine, Building
  <2>2. CASE ~P.m.failed
    <3>1. P.m = m /\ handshaking'[n] = Some([h EXCEPT !.machine = Some(P.m)])
      BY ZenonT(60), <1>3, <1>4, <2>2
    <3>2. handshaking'[n][1] = [h EXCEPT !.machine = Some(m)]
      BY <3>1 DEF Some
    <3> HIDE DEF h, m
    <3>3. /\ handshaking'[n][1].machine = Some(m) /\ handshaking'[n][1].packet = h.packet
          /\ DOMAIN handshaking'[n][1] = PendingFields
      <4>1. DOMAIN h = PendingFields
        BY Zenon, <1>2
      <4>2. MachineSet([h EXCEPT !.machine = Some(m)], h, Some(m))
        BY Zenon, <4>1, SetMachine
      <4> QED BY Zenon, <3>2, <4>2 DEF MachineSet
    <3>4. handshaking'[n][1].machine # None /\ handshaking'[n][1].machine[1] = m
      BY Zenon, <3>3, SomeFacts
    <3> QED BY Zenon, <1>2, <3>3, <3>4 DEF PendingOk, SameMachine, Building, h, m
  <2> QED BY Zenon, <2>1, <2>2
<1>6. \A q \in Party : PendingOk(q)' /\ SameMachine(q)
  BY Zenon, <1>1, <1>4, <1>5, SamePending
<1> QED BY Zenon, <1>1, <1>4, <1>6, Shrink

\* The first message of a handshake is built with a key nobody holds.
LEMMA BuildKeeps ==
  ASSUME TunnelInv, NEW n \in Party, buildStage0(n)
  PROVE  TunnelInv'
<1> DEFINE p == OtherParty(n)
           h == handshaking[n][1]
<1>1. /\ p \in Party /\ p # n
      /\ DOMAIN cs = Party /\ DOMAIN handshaking = Party
      /\ DOMAIN answer = Party /\ DOMAIN tunnel = Party
      /\ CanInitiate(cs[n]) /\ CanInitiate(cs[p])
      /\ PendingOk(n) /\ PendingOk(p)
      /\ AnswerOk(n, p) /\ AnswerOk(p, n) /\ BuildOk(n, p) /\ BuildOk(p, n)
      /\ tunnel[n] # None => SideOk(tunnel[n][1])
      /\ tunnel[p] # None => SideOk(tunnel[p][1])
      /\ (tunnel[n] # None /\ tunnel[p] # None)
           => Agree(tunnel[n][1], tunnel[p][1]) /\ Agree(tunnel[p][1], tunnel[n][1])
  BY Zenon, Parts
<1>2. PICK machine, sent :
        /\ machine \in Range(NewMachine(Stage0Version(n), GetCredential(cs[n]), TRUE, IX, Fresh))
        /\ sent = Initiate(machine, Fresh)
        /\ handshaking' = [handshaking EXCEPT ![n] =
              Some([@[1] EXCEPT !.machine = Some(sent.m), !.packet = sent.out])]
  BY Zenon DEF buildStage0
<1>3. handshaking[n] # None /\ UNCHANGED <<cs, answer, tunnel>>
  BY Zenon DEF buildStage0
<1>4. PICK mine : mine = TRUE
  OBVIOUS
<1>5. /\ NewMachine(Stage0Version(n), GetCredential(cs[n]), mine, IX, Fresh) # None
      /\ machine = NewMachine(Stage0Version(n), GetCredential(cs[n]), mine, IX, Fresh)[1]
  <2>1. machine \in Range(NewMachine(Stage0Version(n), GetCredential(cs[n]), mine, IX, Fresh))
    BY Zenon, <1>2, <1>4
  <2>2. \/ NewMachine(Stage0Version(n), GetCredential(cs[n]), mine, IX, Fresh) = None
        \/ \E x : NewMachine(Stage0Version(n), GetCredential(cs[n]), mine, IX, Fresh) = Some(x)
    BY Zenon DEF NewMachine
  <2>3. Range(None) = {}
    BY DEF Range, None
  <2>4. \A x : Range(Some(x)) = {x}
    BY DEF Range, Some
  <2>5. PICK x : NewMachine(Stage0Version(n), GetCredential(cs[n]), mine, IX, Fresh) = Some(x)
    BY Zenon, <2>1, <2>2, <2>3
  <2>6. machine = x
    BY Zenon, <2>1, <2>4, <2>5
  <2> QED BY Zenon, <2>5, <2>6, SomeFacts
<1>6. /\ Waiting(sent.m) /\ sent.m.hs.eph = Fresh
      /\ Announces(sent.out[1], sent.m)
  <2>1. New(machine, Stage0Version(n), GetCredential(cs[n]), mine, Fresh)
    BY Zenon, <1>5, NewMachineFacts
  <2>2. Started(sent, Fresh)
    BY Zenon, <1>2, <1>4, <2>1, InitiateFacts
  <2> QED BY Zenon, <2>2 DEF Started
<1>7. /\ DOMAIN handshaking' = Party
      /\ handshaking'[n] = Some([h EXCEPT !.machine = Some(sent.m), !.packet = sent.out])
      /\ handshaking'[p] = handshaking[p]
  BY Zenon, <1>1, <1>2
<1>8. DOMAIN h = PendingFields
  BY Zenon, <1>1, <1>3 DEF PendingOk
<1>9. /\ handshaking'[n] # None /\ DOMAIN handshaking'[n][1] = PendingFields
      /\ handshaking'[n][1].machine = Some(sent.m) /\ handshaking'[n][1].packet = sent.out
  <2> DEFINE g == [h EXCEPT !.machine = Some(sent.m), !.packet = sent.out]
  <2>1. DOMAIN g = PendingFields /\ g.machine = Some(sent.m) /\ g.packet = sent.out
    BY Zenon, <1>8 DEF PendingFields
  <2> HIDE DEF g
  <2>2. handshaking'[n] = Some(g)
    BY Zenon, <1>7 DEF g
  <2> QED BY Zenon, <2>1, <2>2, SomeFacts
<1>10. /\ Building(n)' /\ handshaking'[n][1].machine # None
       /\ handshaking'[n][1].machine[1] = sent.m
  BY Zenon, <1>9, SomeFacts DEF Building
<1>11. PendingOk(n)'
  BY Zenon, <1>6, <1>9, <1>10 DEF PendingOk
<1>12. PendingOk(p)' /\ (Building(p)' = Building(p))
  BY Zenon, <1>1, <1>7, SamePending DEF Building
<1>13. /\ Fresh \notin UsedBy(n) /\ Fresh \notin UsedBy(p)
  BY Zenon, <1>1, FreshUnused DEF Used
<1>14. /\ answer[p] # None => Fresh # answer[p][1].body.to[1]
       /\ Building(p) => Fresh # handshaking[p][1].machine[1].hs.eph
       /\ tunnel[p] # None => Fresh # tunnel[p][1].session[1]
  BY Zenon, <1>13 DEF UsedBy, Ephemerals
<1>15. AnswerOk(n, p)' /\ AnswerOk(p, n)'
  BY ZenonT(60), <1>1, <1>3, <1>6, <1>7, <1>10, <1>12, <1>14 DEF AnswerOk
<1>16. BuildOk(n, p)'
  BY Zenon, <1>3, <1>6, <1>7, <1>10, <1>12, <1>14 DEF BuildOk
<1>17. BuildOk(p, n)'
  BY Zenon, <1>1, <1>3, <1>6, <1>7, <1>10, <1>12, <1>14 DEF BuildOk
<1>18. /\ DOMAIN cs' = Party /\ DOMAIN answer' = Party /\ DOMAIN tunnel' = Party
       /\ CanInitiate(cs'[n]) /\ CanInitiate(cs'[p])
       /\ tunnel'[n] # None => SideOk(tunnel'[n][1])
       /\ tunnel'[p] # None => SideOk(tunnel'[p][1])
       /\ (tunnel'[n] # None /\ tunnel'[p] # None)
            => Agree(tunnel'[n][1], tunnel'[p][1]) /\ Agree(tunnel'[p][1], tunnel'[n][1])
  BY Zenon, <1>1, <1>3
<1> QED BY ZenonT(60), <1>7, <1>11, <1>12, <1>15, <1>16, <1>17, <1>18, Assemble

\* The certificates a state initiates with make a machine.
LEMMA ResponderFacts ==
  ASSUME NEW state, CanInitiate(state), NEW initiator, NEW e
  PROVE  New(NewMachine(state.initiatingVersion, GetCredential(state), initiator, IX, e)[1],
             state.initiatingVersion, GetCredential(state), initiator, e)
<1>1. GetCredential(state)[state.initiatingVersion] # None
  BY Zenon DEF CanInitiate, GetCredential, Some, None
<1>2. getCred(GetCredential(state), state.initiatingVersion) # None
  BY Zenon, <1>1 DEF getCred, CanInitiate
<1>3. IX \in DOMAIN subtypeInfos
  BY Zenon DEF subtypeInfos
<1>4. NewMachine(state.initiatingVersion, GetCredential(state), initiator, IX, e) # None
  BY Zenon, <1>2, <1>3, SomeFacts DEF NewMachine
<1> QED BY Zenon, <1>4, NewMachineFacts

\* The responder's tunnel is of a session that no other tunnel is of.
LEMMA FirstKeeps ==
  ASSUME TunnelInv, NEW n \in Party, readFirst(n)
  PROVE  TunnelInv'
<1> DEFINE p == OtherParty(n)
           g == handshaking[p][1]
           w == g.machine[1]
           t == newConnectionState(FirstRead(n).result[1])
<1>1. /\ p \in Party /\ p # n /\ OtherParty(p) = n
      /\ DOMAIN cs = Party /\ DOMAIN handshaking = Party
      /\ DOMAIN answer = Party /\ DOMAIN tunnel = Party
      /\ CanInitiate(cs[n]) /\ CanInitiate(cs[p])
      /\ PendingOk(n) /\ PendingOk(p)
      /\ AnswerOk(n, p) /\ AnswerOk(p, n) /\ BuildOk(n, p) /\ BuildOk(p, n)
      /\ tunnel[n] # None => SideOk(tunnel[n][1])
      /\ tunnel[p] # None => SideOk(tunnel[p][1])
      /\ (tunnel[n] # None /\ tunnel[p] # None)
           => Agree(tunnel[n][1], tunnel[p][1]) /\ Agree(tunnel[p][1], tunnel[n][1])
  BY Zenon, Parts
<1>2. /\ handshaking[p] # None /\ g.packet # None
      /\ FirstRead(n).result # None
      /\ tunnel' = [tunnel EXCEPT ![n] = Some(t)]
      /\ answer' = [answer EXCEPT ![p] = FirstRead(n).out]
      /\ handshaking' = [handshaking EXCEPT ![p] = Some([@[1] EXCEPT !.seen = TRUE])]
      /\ cs' = cs
  BY Zenon DEF readFirst, Arrived
<1>3. /\ Building(p) /\ DOMAIN g = PendingFields /\ g.machine # None
      /\ Waiting(w) /\ Announces(g.packet[1], w)
  BY Zenon, <1>1, <1>2 DEF PendingOk, Building
<1>4. PICK a : FirstRead(n).out # None /\ FirstRead(n).out[1] = a /\ Answered(t, a, g.packet[1], Fresh)
  <2>1. PICK mine : mine = FALSE
    BY Zenon
  <2>2. PICK m : m = NewMachine(cs[n].initiatingVersion, GetCredential(cs[n]), mine, IX, Fresh)[1]
    OBVIOUS
  <2>3. New(m, cs[n].initiatingVersion, GetCredential(cs[n]), mine, Fresh)
    BY Zenon, <1>1, <2>2, ResponderFacts
  <2>4. FirstRead(n) = ProcessPacket(m, g.packet[1], caPool[n], Fresh)
    BY Zenon, <2>1, <2>2 DEF FirstRead
  <2> QED BY Zenon, <1>2, <2>1, <2>3, <2>4, FirstReadFacts
<1> HIDE DEF t
<1>5. /\ t.initiator = FALSE /\ t.session[1] = w.hs.eph /\ t.session[2] = Fresh
      /\ t.eKey = <<"cs2", w.hs.eph, Fresh>> /\ t.dKey = <<"cs1", w.hs.eph, Fresh>>
      /\ t.local = Fresh /\ t.remote = w.hs.eph
      /\ t.peer = w.MyCert[1] /\ t.my = a.body.payload[1].Cert[1]
      /\ a.body.eph = Fresh /\ a.body.to[1] = w.hs.eph
      /\ a.body.payload[1].ResponderIndex = Fresh
  BY ZenonT(60), <1>3, <1>4 DEF Answered, Announces, Waiting
<1>6. SideOk(t)
  BY Zenon, <1>5 DEF SideOk
<1>7. /\ DOMAIN handshaking' = Party /\ DOMAIN answer' = Party /\ DOMAIN tunnel' = Party
      /\ tunnel'[n] = Some(t) /\ tunnel'[p] = tunnel[p]
      /\ answer'[p] = FirstRead(n).out /\ answer'[n] = answer[n]
      /\ handshaking'[n] = handshaking[n]
      /\ handshaking'[p] = Some([g EXCEPT !.seen = TRUE])
  BY Zenon, <1>1, <1>2
<1>8. /\ tunnel'[n] # None /\ tunnel'[n][1] = t
      /\ answer'[p] # None /\ answer'[p][1] = a
  BY Zenon, <1>4, <1>7, SomeFacts
<1>9. /\ handshaking'[p] # None /\ DOMAIN handshaking'[p][1] = PendingFields
      /\ handshaking'[p][1].machine = g.machine /\ handshaking'[p][1].packet = g.packet
  <2> DEFINE x == [g EXCEPT !.seen = TRUE]
  <2>1. DOMAIN x = PendingFields /\ x.machine = g.machine /\ x.packet = g.packet
    BY Zenon, <1>3 DEF PendingFields
  <2> HIDE DEF x
  <2>2. handshaking'[p] = Some(x)
    BY Zenon, <1>7 DEF x
  <2> QED BY Zenon, <2>1, <2>2, SomeFacts
<1>10. PendingOk(p)' /\ Building(p)' /\ handshaking'[p][1].machine[1] = w
  BY Zenon, <1>3, <1>9 DEF PendingOk, Building
<1>11. PendingOk(n)' /\ (Building(n)' = Building(n))
  BY Zenon, <1>1, <1>7, SamePending DEF Building
<1>12. Fresh \notin UsedBy(n) /\ Fresh \notin UsedBy(p)
  BY Zenon, <1>1, FreshUnused DEF Used
<1>13. /\ tunnel[p] # None => Fresh # tunnel[p][1].session[2]
       /\ answer[n] # None => Fresh # answer[n][1].body.eph
  BY Zenon, <1>12 DEF UsedBy, Ephemerals
<1>14. AnswerOk(p, n)'
  <2>1. Building(n) => handshaking[n][1].machine[1].hs.eph # w.hs.eph
    BY Zenon, <1>1, <1>3 DEF BuildOk
  <2> QED BY ZenonT(60), <1>5, <1>7, <1>8, <1>11, <2>1 DEF AnswerOk
<1>15. AnswerOk(n, p)'
  BY Zenon, <1>1, <1>3, <1>7, <1>10 DEF AnswerOk
<1>16. BuildOk(p, n)'
  BY ZenonT(60), <1>1, <1>5, <1>7, <1>8, <1>10, <1>11, <1>3 DEF BuildOk
<1>17. BuildOk(n, p)'
  BY Zenon, <1>1, <1>3, <1>7, <1>10, <1>11 DEF BuildOk
<1>18. tunnel'[p] # None => t.session # tunnel'[p][1].session
  BY Zenon, <1>5, <1>7, <1>13
<1>19. (tunnel'[n] # None /\ tunnel'[p] # None)
         => Agree(tunnel'[n][1], tunnel'[p][1]) /\ Agree(tunnel'[p][1], tunnel'[n][1])
  BY Zenon, <1>8, <1>18 DEF Agree
<1>20. /\ DOMAIN cs' = Party /\ CanInitiate(cs'[n]) /\ CanInitiate(cs'[p])
       /\ tunnel'[n] # None => SideOk(tunnel'[n][1])
       /\ tunnel'[p] # None => SideOk(tunnel'[p][1])
  BY ZenonT(60), <1>1, <1>2, <1>6, <1>7, <1>8
<1> QED BY ZenonT(60), <1>7, <1>10, <1>11, <1>14, <1>15, <1>16, <1>17, <1>19, <1>20, Assemble

\* The initiator's tunnel is of the session of the answer it read.
LEMMA AnswerKeeps ==
  ASSUME TunnelInv, NEW n \in Party, continueHandshake(n)
  PROVE  TunnelInv'
<1> DEFINE p == OtherParty(n)
           m == handshaking[n][1].machine[1]
           a == answer[n][1]
           P == ProcessPacket(m, a, caPool[n], Fresh)
           t == newConnectionState(P.result[1])
<1>1. /\ p \in Party /\ p # n /\ OtherParty(p) = n
      /\ DOMAIN cs = Party /\ DOMAIN handshaking = Party
      /\ DOMAIN answer = Party /\ DOMAIN tunnel = Party
      /\ CanInitiate(cs[n]) /\ CanInitiate(cs[p])
      /\ PendingOk(n) /\ PendingOk(p)
      /\ AnswerOk(n, p) /\ AnswerOk(p, n) /\ BuildOk(n, p) /\ BuildOk(p, n)
      /\ tunnel[n] # None => SideOk(tunnel[n][1])
      /\ tunnel[p] # None => SideOk(tunnel[p][1])
      /\ (tunnel[n] # None /\ tunnel[p] # None)
           => Agree(tunnel[n][1], tunnel[p][1]) /\ Agree(tunnel[p][1], tunnel[n][1])
  BY Zenon, Parts
<1>2. /\ answer[n] # None /\ Building(n) /\ cs' = cs
      /\ answer' = [answer EXCEPT ![n] = None]
      /\ ContinueWith(n, a)
  BY Zenon DEF continueHandshake
<1>3. /\ DOMAIN answer' = Party /\ answer'[n] = None /\ answer'[p] = answer[p]
      /\ \A q \in Party : answer'[q] = answer[q] \/ answer'[q] = None
  BY Zenon, <1>1, <1>2
<1>4. Waiting(m)
  BY Zenon, <1>1, <1>2 DEF PendingOk, Building
<1>5. CASE P.result = None
  <2>1. /\ handshaking' = [handshaking EXCEPT ![n] = IF P.m.failed THEN None
                                   ELSE Some([@[1] EXCEPT !.machine = Some(P.m)])]
        /\ tunnel' = tunnel
    BY Zenon, <1>2, <1>5 DEF ContinueWith
  <2> QED BY Zenon, <1>2, <1>3, <1>5, <2>1, PendingKeeps
<1>6. CASE P.result # None
  <2>1. /\ tunnel' = [tunnel EXCEPT ![n] = Some(t)]
        /\ handshaking' = [handshaking EXCEPT ![n] = None]
    BY Zenon, <1>2, <1>6 DEF ContinueWith
  <2>2. /\ DOMAIN tunnel' = Party /\ DOMAIN handshaking' = Party
        /\ tunnel'[n] = Some(t) /\ tunnel'[p] = tunnel[p]
        /\ handshaking'[n] = None /\ handshaking'[p] = handshaking[p]
    BY Zenon, <1>1, <2>1
  <2>3. tunnel'[n] # None /\ tunnel'[n][1] = t
    BY Zenon, <2>2, SomeFacts
  <2>4. Concluded(t, m, a)
    <3>1. Continued(P, m, a)
      BY Zenon, <1>4, ContinueFacts
    <3> QED BY Zenon, <1>6, <3>1 DEF Continued
  <2> HIDE DEF t
  <2>5. /\ a.body.to[1] = m.hs.eph /\ t.initiator = TRUE
        /\ t.session[1] = m.hs.eph /\ t.session[2] = a.body.eph
        /\ t.eKey = <<"cs1", m.hs.eph, a.body.eph>> /\ t.dKey = <<"cs2", m.hs.eph, a.body.eph>>
        /\ t.local = m.hs.eph /\ t.remote = a.body.eph
        /\ t.my = m.MyCert[1] /\ t.peer = a.body.payload[1].Cert[1]
    <3>1. a.body.to[1] = m.hs.eph
      <4>1. a.body.to = Some(m.hs.eph)
        BY Zenon, <2>4 DEF Concluded
      <4> QED BY Zenon, <4>1, SomeFacts
    <3>2. m.LocalIndex = m.hs.eph
      BY Zenon, <1>4 DEF Waiting
    <3>3. a.body.payload[1].ResponderIndex = a.body.eph
      BY Zenon, <1>1, <1>2 DEF AnswerOk
    <3> QED BY Zenon, <2>4, <3>1, <3>2, <3>3 DEF Concluded
  <2>6. SideOk(t)
    BY Zenon, <2>5 DEF SideOk
  <2>7. PendingOk(n)' /\ ~Building(n)'
    BY Zenon, <2>2 DEF PendingOk, Building
  <2>8. PendingOk(p)' /\ (Building(p)' = Building(p))
    BY Zenon, <1>1, <2>2, SamePending DEF Building
  <2>9. AnswerOk(n, p)'
    BY Zenon, <1>3 DEF AnswerOk
  <2>10. AnswerOk(p, n)'
    <3>1. answer[p] # None => m.hs.eph # answer[p][1].body.to[1]
      BY Zenon, <1>1, <1>2 DEF AnswerOk
    <3> QED BY Zenon, <1>1, <1>3, <2>3, <2>5, <2>7, <3>1 DEF AnswerOk
  <2>11. BuildOk(n, p)'
    BY Zenon, <2>7 DEF BuildOk
  <2>12. BuildOk(p, n)'
    <3>1. t.initiator # FALSE
      BY Zenon, <2>5
    <3> QED BY Zenon, <2>3, <2>7, <3>1 DEF BuildOk
  <2>13. ASSUME tunnel[p] # None, t.session = tunnel[p][1].session
         PROVE  Agree(t, tunnel[p][1]) /\ Agree(tunnel[p][1], t)
    <3> DEFINE u == tunnel[p][1]
    <3>1. u.session[1] = m.hs.eph /\ u.session[2] = a.body.eph
      BY Zenon, <2>5, <2>13
    <3>2. u.initiator = FALSE /\ u.my = t.peer
      BY Zenon, <1>1, <1>2, <2>5, <2>13, <3>1 DEF AnswerOk
    <3>3. u.peer = t.my
      BY ZenonT(60), <1>1, <1>2, <2>5, <2>13, <3>1, <3>2 DEF BuildOk
    <3>4. t.initiator # u.initiator
      BY Zenon, <2>5, <3>2
    <3>5. SideOk(u)
      BY Zenon, <1>1, <2>13
    <3> QED BY ZenonT(60), <2>6, <2>13, <3>2, <3>3, <3>4, <3>5, AgreeFacts
  <2>14. (tunnel'[n] # None /\ tunnel'[p] # None)
           => Agree(tunnel'[n][1], tunnel'[p][1]) /\ Agree(tunnel'[p][1], tunnel'[n][1])
    <3>1. CASE t.session = tunnel[p][1].session
      BY Zenon, <2>2, <2>3, <2>13, <3>1
    <3>2. CASE t.session # tunnel[p][1].session
      BY Zenon, <2>2, <2>3, <3>2 DEF Agree
    <3> QED BY Zenon, <3>1, <3>2
  <2>15. /\ DOMAIN cs' = Party /\ CanInitiate(cs'[n]) /\ CanInitiate(cs'[p])
         /\ tunnel'[n] # None => SideOk(tunnel'[n][1])
         /\ tunnel'[p] # None => SideOk(tunnel'[p][1])
    BY Zenon, <1>1, <1>2, <2>2, <2>3, <2>6
  <2> QED BY ZenonT(60), <1>3, <2>2, <2>7, <2>8, <2>9, <2>10, <2>11, <2>12, <2>14, <2>15, Assemble
<1> QED BY Zenon, <1>5, <1>6

\* A stray packet completes nothing.
LEMMA StrayKeeps ==
  ASSUME TunnelInv, NEW n \in Party, continueWithStray(n)
  PROVE  TunnelInv'
<1> DEFINE m == handshaking[n][1].machine[1]
<1>1. PICK q \in Strays(n) : ContinueWith(n, q)
  BY Zenon DEF continueWithStray
<1>2. Building(n) /\ cs' = cs /\ answer' = answer
  BY Zenon DEF continueWithStray
<1>3. PendingOk(n) /\ DOMAIN answer = Party
  BY Zenon DEF TunnelInv
<1>4. Waiting(m)
  BY Zenon, <1>2, <1>3 DEF PendingOk, Building
<1>5. Stray(q, m)
  BY Zenon, <1>1, StrayForms
<1> DEFINE P == ProcessPacket(m, q, caPool[n], Fresh)
<1>6. P.result = None
  BY Zenon, <1>4, <1>5, StrayFacts
<1>7. /\ handshaking' = [handshaking EXCEPT ![n] = IF P.m.failed THEN None
                                 ELSE Some([@[1] EXCEPT !.machine = Some(P.m)])]
      /\ tunnel' = tunnel
  BY Zenon, <1>1, <1>6 DEF ContinueWith
<1> QED BY Zenon, <1>2, <1>3, <1>6, <1>7, PendingKeeps

LEMMA TunnelInit == PKIInit => TunnelInv
<1> SUFFICES ASSUME PKIInit PROVE TunnelInv
  OBVIOUS
<1>1. /\ DOMAIN cs = Party /\ DOMAIN handshaking = Party
      /\ DOMAIN answer = Party /\ DOMAIN tunnel = Party
      /\ \A n \in Party : /\ cs[n] = newCertStateFromConfig(Boot[n], Boot[n].cipher)[1]
                          /\ handshaking[n] = None /\ answer[n] = None /\ tunnel[n] = None
  BY Zenon DEF PKIInit
<1>2. \A n \in Party : CanInitiate(cs[n])
  <2> SUFFICES ASSUME NEW n \in Party PROVE CanInitiate(cs[n])
    BY Zenon
  <2>1. newCertStateFromConfig(Boot[n], Boot[n].cipher) # None
    BY Zenon, PKIAssumption
  <2>2. CanInitiate(newCertStateFromConfig(Boot[n], Boot[n].cipher)[1])
    BY Zenon, <2>1, LoadedFacts
  <2> QED BY Zenon, <1>1, <2>2
<1>3. \A n \in Party : PendingOk(n) /\ AnswerOk(n, OtherParty(n)) /\ BuildOk(n, OtherParty(n))
  BY Zenon, <1>1 DEF PendingOk, AnswerOk, BuildOk, Building
<1>4. EndsAgree
  BY Zenon, <1>1 DEF EndsAgree
<1> QED BY Zenon, <1>1, <1>2, <1>3, <1>4 DEF TunnelInv

LEMMA TunnelNext == TunnelInv /\ [PKINext]_pkiVars => TunnelInv'
<1> SUFFICES ASSUME TunnelInv, [PKINext]_pkiVars PROVE TunnelInv'
  OBVIOUS
<1>1. ASSUME NEW n \in Party, NEW c \in Configs[n], reload(n, c) PROVE TunnelInv'
  BY Zenon, <1>1, ReloadKeeps
<1>2. ASSUME NEW n \in Party, continueWithStray(n) PROVE TunnelInv'
  BY Zenon, <1>2, StrayKeeps
<1>3. ASSUME NEW n \in Party, Works(n) PROVE TunnelInv'
  <2>1. CASE reloadCAPool(n)
    <3>1. UNCHANGED <<cs, handshaking, answer, tunnel>>
      BY Zenon, <2>1 DEF reloadCAPool
    <3> QED BY Zenon, <3>1, IdleKeeps
  <2>2. CASE Dial(n)
    BY Zenon, <1>3, <2>2, StartKeeps DEF Dial
  <2>3. CASE tryRehandshake(n)
    BY Zenon, <1>3, <2>3, StartKeeps DEF tryRehandshake
  <2>4. CASE buildStage0(n)
    BY Zenon, <1>3, <2>4, BuildKeeps
  <2>5. CASE HandshakeTimesOut(n)
    BY ZenonT(60), <1>3, <2>5, TimeoutKeeps
  <2>6. CASE readFirst(n)
    BY Zenon, <1>3, <2>6, FirstKeeps
  <2>7. CASE continueHandshake(n)
    BY Zenon, <1>3, <2>7, AnswerKeeps
  <2> QED BY ZenonT(60), <1>3, <2>1, <2>2, <2>3, <2>4, <2>5, <2>6, <2>7 DEF Works
<1>4. CASE UNCHANGED pkiVars
  <2>1. UNCHANGED <<cs, handshaking, answer, tunnel>>
    BY Zenon, <1>4 DEF pkiVars
  <2> QED BY Zenon, <2>1, IdleKeeps
<1> QED BY Zenon, <1>1, <1>2, <1>3, <1>4 DEF PKINext

\* The two ends of a session agree on it (machine.go, handshake_manager.go):
\* on which of them began, on keys, indexes and certificates, whatever is
\* reloaded, lost, refused or sent by other software in between.
THEOREM SessionsAgree == PKISpec => []EndsAgree
<1>1. TunnelInv => EndsAgree
  BY Zenon DEF TunnelInv
<1> QED BY TunnelInit, TunnelNext, <1>1, PTL DEF PKISpec

----------------------------------------------------------------------------
(* Reloads.                                                                *)

ToldInv == DOMAIN cs = Party /\ DOMAIN told = Party /\ NetworksChangeTold

LEMMA ToldNext == ToldInv /\ [PKINext]_pkiVars => ToldInv'
<1> SUFFICES ASSUME ToldInv, [PKINext]_pkiVars PROVE ToldInv'
  OBVIOUS
<1>1. ASSUME NEW n \in Party, NEW c \in Configs[n], reload(n, c) PROVE ToldInv'
  <2> DEFINE new == reloadCerts(cs[n], c).cs
             asks == reloadCerts(cs[n], c).restart
             cipher == CipherNeedsRestart(cs[n], c)
             boot(q) == newCertStateFromConfig(Boot[q], Boot[q].cipher)[1].myVpnNetworks
  <2>1. /\ cs' = [cs EXCEPT ![n] = new]
        /\ told' = [told EXCEPT ![n] = \/ @ \/ asks \/ NetworksChanged(cs[n], new) \/ cipher]
    BY Zenon, <1>1 DEF reload
  <2> HIDE DEF new, asks, cipher
  <2>2. /\ DOMAIN cs' = Party /\ DOMAIN told' = Party
        /\ cs'[n] = new
        /\ told'[n] = (told[n] \/ asks \/ NetworksChanged(cs[n], new) \/ cipher)
        /\ \A q \in Party \ {n} : cs'[q] = cs[q] /\ told'[q] = told[q]
    BY Zenon, <1>1, <2>1 DEF ToldInv
  <2> HIDE DEF boot
  <2>3. \A q \in Party : cs[q].myVpnNetworks # boot(q) => told[q]
    BY Zenon DEF ToldInv, NetworksChangeTold, boot
  <2>4. cs'[n].myVpnNetworks # boot(n) => told'[n]
    BY Zenon, <1>1, <2>2, <2>3 DEF NetworksChanged
  <2>5. \A q \in Party : cs'[q].myVpnNetworks # boot(q) => told'[q]
    BY Zenon, <2>2, <2>3, <2>4
  <2> QED BY Zenon, <2>2, <2>5 DEF ToldInv, NetworksChangeTold, boot
<1>2. CASE UNCHANGED <<cs, told>>
  BY Zenon, <1>2 DEF ToldInv, NetworksChangeTold
<1>3. ASSUME NEW n \in Party, Works(n) \/ continueWithStray(n) PROVE UNCHANGED <<cs, told>>
  BY Zenon, <1>3 DEF Works, reloadCAPool, Dial, tryRehandshake, buildStage0, HandshakeTimesOut,
                     readFirst, continueHandshake, continueWithStray
<1> QED BY Zenon, <1>1, <1>2, <1>3 DEF PKINext, pkiVars

\* A node whose certificates give it other networks than it started with has
\* reported that a restart is required (pki.go, reloadCerts): tun device and
\* lighthouse still have the old ones.
THEOREM NetworksTold == PKISpec => []NetworksChangeTold
<1>1. ASSUME PKIInit PROVE ToldInv
  <2>1. /\ DOMAIN cs = Party /\ DOMAIN told = Party
        /\ \A n \in Party : cs[n] = newCertStateFromConfig(Boot[n], Boot[n].cipher)[1]
    BY Zenon, <1>1 DEF PKIInit
  <2> QED BY Zenon, <2>1 DEF ToldInv, NetworksChangeTold
<1>2. ToldInv => NetworksChangeTold
  BY Zenon DEF ToldInv
<1> QED BY <1>1, <1>2, ToldNext, PTL DEF PKISpec

============================================================================
