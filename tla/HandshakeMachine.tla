-------------------------- MODULE HandshakeMachine --------------------------
(***************************************************************************)
(* The handshake state machine of the package handshake: the order of the  *)
(* messages, what each must carry, the negotiation of the certificate      *)
(* version and which errors end the machine.  A Machine is a record, its   *)
(* methods are operators that return the changed machine with what they    *)
(* produce.  The Noise library is external: a message carries the sender's *)
(* ephemeral and static keys and is bound to the ephemeral it answers.     *)
(* Optional values are sequences of length at most one.                    *)
(***************************************************************************)
EXTENDS Naturals, Sequences

None == <<>>
Some(x) == <<x>>

(* The certificate versions; 0 is Pre1, which asks for no version. *)
Version == 1..2

(* Message subtypes: only IX is in the table. *)
IX == "ix"

(* What a message carries, by subtype and position. *)
subtypeInfos == [s \in {IX} |-> << [payload |-> TRUE, cert |-> TRUE],
                                   [payload |-> TRUE, cert |-> TRUE] >>]

NoFlags == [payload |-> FALSE, cert |-> FALSE]

FlagsAt(msgs, i) == IF i \in 1..Len(msgs) THEN msgs[i] ELSE NoFlags

----------------------------------------------------------------------------
(* The Noise library.  A handshake state knows its own keys, how many      *)
(* messages it has seen and the peer's keys once it read them.             *)

buildHandshakeState(cred, initiator, ephemeral) ==
    [initiator |-> initiator, index |-> 0, curve |-> cred.crt.curve,
     cipher |-> cred.cipher, static |-> cred.crt.key, eph |-> ephemeral, peer |-> None]

(* Both ends derive the same pair: first the initiator's sending key. *)
Split(hs) ==
    LET i == IF hs.initiator THEN hs.eph ELSE hs.peer[1].eph
        r == IF hs.initiator THEN hs.peer[1].eph ELSE hs.eph
    IN << <<"cs1", i, r>>, <<"cs2", i, r>> >>

WriteMessage(hs, payload) ==
    LET next == [hs EXCEPT !.index = @ + 1]
    IN [hs |-> next,
        body |-> [eph |-> hs.eph, static |-> hs.static, curve |-> hs.curve, cipher |-> hs.cipher,
                  index |-> next.index, payload |-> payload,
                  to |-> IF hs.peer = None THEN None ELSE Some(hs.peer[1].eph)],
        keys |-> IF next.index = 2 THEN Some(Split(next)) ELSE None]

(* A message of another position, another session or another group is
   refused and the state rolled back; the cipher only shows in the second
   message, the first is not encrypted. *)
ReadMessage(hs, body) ==
    LET ok == /\ body.index = hs.index + 1
              /\ body.curve = hs.curve
              /\ body.index = 2 => /\ body.cipher = hs.cipher
                                   /\ body.to = Some(hs.eph)
        next == [hs EXCEPT !.index = @ + 1,
                           !.peer = Some([eph |-> body.eph, static |-> body.static])]
    IN IF ok THEN [ok |-> TRUE, hs |-> next, payload |-> body.payload,
                   keys |-> IF next.index = 2 THEN Some(Split(next)) ELSE None]
             ELSE [ok |-> FALSE, hs |-> hs, payload |-> None, keys |-> None]

----------------------------------------------------------------------------
(* creds is the snapshot GetCredentialFunc draws from. *)
getCred(creds, v) == IF v \in Version THEN creds[v] ELSE None

(* A machine, or None when the subtype or the credential is unknown. *)
NewMachine(version, creds, initiator, subtype, ephemeral) ==
    IF subtype \notin DOMAIN subtypeInfos \/ getCred(creds, version) = None THEN None
    ELSE Some([hs |-> buildHandshakeState(getCred(creds, version)[1], initiator, ephemeral),
               subtype |-> subtype, msgs |-> subtypeInfos[subtype], creds |-> creds,
               myVersion |-> version, initiator |-> initiator,
               LocalIndex |-> 0, RemoteIndex |-> 0, MyCert |-> None, RemoteCert |-> None,
               EKey |-> None, DKey |-> None, MessageIndex |-> 0,
               indexAllocated |-> FALSE, remoteCertSet |-> FALSE, payloadSet |-> FALSE,
               failed |-> FALSE])

(* What a method returns. *)
Returns(m, out, result, err) == [m |-> m, out |-> out, result |-> result, err |-> err]
Rejects(m, err) == Returns(m, None, None, Some(err))
Fails(m, err) == Rejects([m EXCEPT !.failed = TRUE], err)
Okay(m) == Returns(m, None, None, None)

myMsgFlags(m) == FlagsAt(m.msgs, m.hs.index + 1)
peerMsgFlags(m) == FlagsAt(m.msgs, m.hs.index)

(* The index is allocated once, with the first payload that goes out. *)
AllocatesIndex(m, free) ==
    IF m.indexAllocated THEN m ELSE [m EXCEPT !.LocalIndex = free, !.indexAllocated = TRUE]

(* Only the certificate of the negotiated version goes out. *)
marshalOutgoing(m, flags, free) ==
    LET p == IF flags.payload THEN AllocatesIndex(m, free) ELSE m
        cred == getCred(m.creds, m.myVersion)
        c == IF flags.cert THEN [p EXCEPT !.MyCert = Some(cred[1].crt)] ELSE p
    IN IF ~flags.payload /\ ~flags.cert THEN [m |-> m, payload |-> None, err |-> None]
       ELSE IF flags.cert /\ cred = None THEN [m |-> m, payload |-> None, err |-> Some("no credential")]
       ELSE [m |-> c, err |-> None,
             payload |-> Some([InitiatorIndex |-> IF ~flags.payload THEN 0
                                                  ELSE IF m.initiator THEN p.LocalIndex ELSE p.RemoteIndex,
                               ResponderIndex |-> IF flags.payload /\ ~m.initiator THEN p.LocalIndex ELSE 0,
                               Time |-> flags.payload,
                               Cert |-> IF flags.cert THEN Some(cred[1].crt) ELSE None])]

(* A response is addressed to the index the peer sent. *)
buildResponse(m, free) ==
    LET content == marshalOutgoing(m, myMsgFlags(m), free)
        written == WriteMessage(content.m.hs, content.payload)
    IN IF content.err # None THEN [m |-> content.m, out |-> None, keys |-> None, err |-> content.err]
       ELSE [m |-> [content.m EXCEPT !.hs = written.hs], keys |-> written.keys, err |-> None,
             out |-> Some([short |-> FALSE, subtype |-> m.subtype, RemoteIndex |-> content.m.RemoteIndex,
                           counter |-> written.hs.index, body |-> written.body])]

Initiate(m, free) ==
    LET built == buildResponse(m, free)
    IN IF m.failed THEN Rejects(m, "machine failed")
       ELSE IF ~m.initiator THEN Fails(m, "initiate on responder")
       ELSE IF m.hs.index # 0 THEN Fails(m, "initiate already called")
       ELSE IF built.err # None THEN Fails(built.m, built.err[1])
       ELSE Returns(built.m, built.out, None, None)

----------------------------------------------------------------------------
(* Recombine refuses an unknown version, a certificate of another curve and
   one that carries its own key. *)
Recombine(crt, static, curve) ==
    IF crt.version \in Version /\ crt.curve = curve THEN Some([crt EXCEPT !.key = static]) ELSE None

(* Answer in the peer's version where there is a certificate of it. *)
NegotiatedVersion(m, theirs) ==
    IF theirs # m.myVersion /\ getCred(m.creds, theirs) # None THEN theirs ELSE m.myVersion

(* pool: the issuers the verifier trusts.  A certificate bound to another
   key than the one it was signed for does not verify. *)
Verifies(crt, signed, pool) == crt.issuer \in pool /\ ~crt.expired /\ crt = signed

validateCert(m, crt, pool) ==
    LET cred == getCred(m.creds, m.myVersion)
        rc == Recombine(crt, m.hs.peer[1].static, cred[1].crt.curve)
        switched == [m EXCEPT !.myVersion = NegotiatedVersion(m, rc[1].version)]
    IN IF cred = None THEN Fails(m, "no credential")
       ELSE IF rc = None THEN Fails(m, "recombine")
       ELSE IF ~Verifies(rc[1], crt, pool) THEN Fails(switched, "verify")
       ELSE Okay([switched EXCEPT !.RemoteCert = rc, !.remoteCertSet = TRUE])

(* The index of the other end. *)
PeerIndex(m, p) == IF m.initiator THEN p.ResponderIndex ELSE p.InitiatorIndex

processPayload(m, payload, flags, pool) ==
    LET p == payload[1]
        hasPayloadData == p.InitiatorIndex # 0 \/ p.ResponderIndex # 0 \/ p.Time
        hasCertData == p.Cert # None
        indexed == IF flags.payload
                     THEN [m EXCEPT !.RemoteIndex = PeerIndex(m, p), !.payloadSet = TRUE] ELSE m
    IN IF payload = None
         THEN IF flags.payload \/ flags.cert THEN Fails(m, "missing content") ELSE Okay(m)
       ELSE IF hasPayloadData # flags.payload \/ hasCertData # flags.cert
         THEN Fails(m, "unexpected content")
       ELSE IF flags.payload /\ PeerIndex(m, p) = 0 THEN Fails(m, "invalid remote index")
       ELSE IF flags.cert THEN validateCert(indexed, p.Cert[1], pool)
       ELSE Okay(indexed)

requireComplete(m) == m.payloadSet /\ m.remoteCertSet

completed(m, eKey, dKey) ==
    [m EXCEPT !.EKey = Some(eKey), !.DKey = Some(dKey), !.MessageIndex = m.hs.index]

Completes(m, out, eKey, dKey) ==
    IF requireComplete(m) THEN Returns(completed(m, eKey, dKey), out, Some(completed(m, eKey, dKey)), None)
                          ELSE Fails(m, "incomplete handshake")

\* Mutant of Answers: the writer takes the keys in the reader's order.
AnswersSwapped(m, free) ==
    LET built == buildResponse(m, free)
    IN IF built.err # None THEN Fails(built.m, built.err[1])
       ELSE IF built.keys # None
         THEN Completes(built.m, built.out, built.keys[1][1], built.keys[1][2])
       ELSE Returns(built.m, built.out, None, None)

(* After a read that did not finish: answer, and finish if that derives the
   keys.  The writer's first key is the one it decrypts with. *)
Answers(m, free) ==
    LET built == buildResponse(m, free)
    IN IF built.err # None THEN Fails(built.m, built.err[1])
       ELSE IF built.keys # None
         THEN Completes(built.m, built.out, built.keys[1][2], built.keys[1][1])
       ELSE Returns(built.m, built.out, None, None)

(* Until Noise accepts the message an error leaves the machine usable;
   afterwards every error ends it. *)
ProcessPacket(m, packet, pool, free) ==
    LET read == ReadMessage(m.hs, packet.body)
        advanced == [m EXCEPT !.hs = read.hs]
        content == processPayload(advanced, read.payload, peerMsgFlags(advanced), pool)
    IN IF m.failed THEN Rejects(m, "machine failed")
       ELSE IF packet.short THEN Rejects(m, "packet too short")
       ELSE IF packet.subtype # m.subtype THEN Rejects(m, "subtype mismatch")
       ELSE IF m.initiator /\ m.hs.index = 0 THEN Fails(m, "initiate not called")
       ELSE IF ~read.ok THEN Rejects(m, "noise read")
       ELSE IF content.err # None THEN content
       ELSE IF read.keys # None
         THEN Completes(content.m, None, read.keys[1][1], read.keys[1][2])
       ELSE Answers(content.m, free)
=============================================================================
