-------------------------------- MODULE PKI --------------------------------
(***************************************************************************)
(* A node's own certificates (pki.go): loading them, replacing them on     *)
(* reload, and what that does to its tunnels.  Two nodes keep a tunnel to  *)
(* each other; each may reload while handshakes run, and the connection    *)
(* manager's tryRehandshake replaces a tunnel whose certificate is not the *)
(* current one.  A handshake takes the certificates of the moment its      *)
(* first message is built (initiator) or read (responder).                 *)
(* A node has one primary tunnel here; HostMap has the lists.              *)
(***************************************************************************)
EXTENDS HandshakeMachine, FiniteSets, Functions

CONSTANTS Party,        \* the two nodes
          Boot,         \* Boot[n]: the configuration n starts with
          Configs,      \* Configs[n]: the configurations n may reload
          V6Peer,       \* the nodes whose address is an IPv6 address
          fipsOnly,     \* FIPS 140-only mode
          MaxReload,    \* bound on reloads
          MaxOdd        \* bound on stray packets and lost handshakes

VARIABLES cs,           \* cs[n]: the certificate state
          caPool,       \* caPool[n]: the trusted issuers
          reloading,    \* reloading[n]: a reload between its two stores
          told,         \* told[n]: some reload reported that a restart is required
          handshaking,  \* handshaking[n]: n's handshake, while one is pending
          answer,       \* answer[n]: the answer on its way to n
          tunnel,       \* tunnel[n]: the primary tunnel to the other node
          reloads, odd

pkiVars == <<cs, caPool, reloading, told, handshaking, answer, tunnel, reloads, odd>>

OtherParty(n) == CHOOSE p \in Party : p # n

----------------------------------------------------------------------------
(* Loading a certificate state.  Failed and the cert states are told apart
   by the sequence: None is an error. *)

validCipher(c) == c \in {"aes", "chachapoly"}

(* A path, inline PEM or a PKCS#11 URI, whose curve is P256. *)
loadPrivateKey(key) ==
    IF key.kind = "pem" THEN Some([curve |-> key.curve, pub |-> key.pub, pkcs11 |-> FALSE])
    ELSE IF key.kind = "pkcs11" THEN Some([curve |-> "p256", pub |-> key.pub, pkcs11 |-> TRUE])
    ELSE None

(* A block this version does not support is skipped, others must be usable. *)
Unsupported(crt) == crt.version \notin Version \/ crt.curve \notin {"25519", "p256"}

loadCertificate(crt) == ~crt.expired /\ Len(crt.nets) > 0 /\ ~crt.ca

newCipherSuite(curve, cipher) ==
    ~(fipsOnly /\ (curve = "25519" \/ cipher = "chachapoly"))

(* The one certificate of a version among the supported blocks. *)
OfVersion(blocks, v) == SelectSeq(blocks, LAMBDA c : c.version = v)

InitiatingVersion(configured, v1) ==
    IF configured = 0 THEN IF v1 = None THEN 2 ELSE 1 ELSE configured

(* A key held by a PKCS#11 module cannot be compared with the certificate. *)
VerifyPrivateKey(crt, key) == key.pkcs11 \/ (crt.curve = key.curve /\ crt.key = key.pub)

(* The two certificates must be of one host. *)
SameHost(v1, v2) ==
    /\ v1.key = v2.key
    /\ v1.curve = v2.curve
    /\ v1.nets[1] = v2.nets[1]

Usable(crt, key, cipher) == VerifyPrivateKey(crt, key) /\ newCipherSuite(crt.curve, cipher)

(* v2 certificates are a superset: v1's networks count when it is alone. *)
myVpnNetworks(v1, v2) == IF v2 # None THEN v2[1].nets ELSE v1[1].nets

newCertState(dv, v1, v2, key, cipher) ==
    LET certs == Range(v1 \o v2)
    IN IF \/ v1 # None /\ v2 # None /\ ~SameHost(v1[1], v2[1])
          \/ \E c \in certs : ~Usable(c, key, cipher)
         THEN None
         ELSE Some([certs |-> <<v1, v2>>, cipher |-> cipher,
                    initiatingVersion |-> IF v1 # None /\ v2 # None THEN dv
                                          ELSE IF v1 # None THEN 1 ELSE 2,
                    myVpnNetworks |-> myVpnNetworks(v1, v2)])

newCertStateFromConfig(c, cipher) ==
    LET key == loadPrivateKey(c.key)
        blocks == SelectSeq(c.blocks, LAMBDA crt : ~Unsupported(crt))
        v1 == OfVersion(blocks, 1)
        v2 == OfVersion(blocks, 2)
        dv == InitiatingVersion(c.initiating, v1)
    IN IF \/ key = None
          \/ \E crt \in Range(blocks) : ~loadCertificate(crt) \/ (fipsOnly /\ crt.curve # "p256")
          \/ Len(v1) > 1 \/ Len(v2) > 1
          \/ v1 = None /\ v2 = None
          \/ dv \notin Version \/ (dv = 1 /\ v1 = None)
         THEN None
         ELSE newCertState(dv, v1, v2, key[1], cipher)

(* There are two nodes, and neither starts without its certificates. *)
ASSUME PKIAssumption ==
    /\ \E a, b \in Party : a # b /\ Party = {a, b}
    /\ \A n \in Party : newCertStateFromConfig(Boot[n], Boot[n].cipher) # None

GetCredential(state) ==
    [v \in Version |-> IF state.certs[v] = None THEN None
                       ELSE Some([crt |-> state.certs[v][1], cipher |-> state.cipher])]

----------------------------------------------------------------------------
(* reloadCerts: what a running node refuses without a restart. *)

(* The same version before and after must keep networks and curve. *)
SameIdentity(old, new) == old.nets = new.nets /\ old.curve = new.curve

NeedsRestart(old, new) ==
    \/ \E v \in Version : /\ old.certs[v] # None /\ new.certs[v] # None
                          /\ ~SameIdentity(old.certs[v][1], new.certs[v][1])
    \/ /\ old.certs[2] # None /\ new.certs[2] = None
       /\ old.certs[2][1].nets # new.certs[1][1].nets

(* The cipher cannot be swapped: the new state has the running one.  The
   answer is the state to run and what the reload reports. *)
reloadCerts(old, c) ==
    LET new == newCertStateFromConfig(c, old.cipher)
    IN IF new = None THEN [cs |-> old, restart |-> FALSE]
       ELSE IF NeedsRestart(old, new[1]) THEN [cs |-> old, restart |-> TRUE]
       ELSE [cs |-> new[1], restart |-> FALSE]

(* The networks changed although each version kept its own. *)
NetworksChanged(before, after) == before.myVpnNetworks # after.myVpnNetworks

(* The reload callback: a cipher that would run after a restart asks for
   one, one that would not is a failure. *)
CipherNeedsRestart(old, c) ==
    /\ validCipher(c.cipher)
    /\ ~(c.cipher = "chachapoly" /\ fipsOnly)
    /\ c.cipher # old.cipher

reload(n, c) ==
    LET done == reloadCerts(cs[n], c)
    IN /\ reloads < MaxReload
       /\ reloading[n] = None
       /\ cs' = [cs EXCEPT ![n] = done.cs]
       /\ told' = [told EXCEPT ![n] = \/ @
                                      \/ done.restart
                                      \/ NetworksChanged(cs[n], done.cs)
                                      \/ CipherNeedsRestart(cs[n], c)]
       /\ reloading' = [reloading EXCEPT ![n] = Some(c)]
       /\ reloads' = reloads + 1
       /\ UNCHANGED <<caPool, handshaking, answer, tunnel, odd>>

(* A pool is stored even when some entries of the blocklist are bad. *)
reloadCAPool(n) ==
    /\ reloading[n] # None
    /\ caPool' = [caPool EXCEPT ![n] = IF reloading[n][1].ca = None THEN @ ELSE reloading[n][1].ca[1]]
    /\ reloading' = [reloading EXCEPT ![n] = None]
    /\ UNCHANGED <<cs, told, handshaking, answer, tunnel, reloads, odd>>

----------------------------------------------------------------------------
(* Handshakes. *)

Ephemerals(s) == {s[1], s[2]}

Building(n) == handshaking[n] # None /\ handshaking[n][1].machine # None

(* The ephemeral keys that a tunnel, a pending handshake or an answer on its
   way still carries. *)
UsedBy(n) ==
    (IF tunnel[n] = None THEN {} ELSE Ephemerals(tunnel[n][1].session))
    \cup (IF Building(n) THEN {handshaking[n][1].machine[1].hs.eph} ELSE {})
    \cup (IF answer[n] = None THEN {} ELSE {answer[n][1].body.eph, answer[n][1].body.to[1]})

(* Session keys and indexes are fresh. *)
Used == UNION {UsedBy(n) : n \in Party}

Fresh == CHOOSE i \in 1..(Cardinality(Used) + 1) : i \notin Used

(* A second start only hands the override to the pending handshake. *)
StartsHandshake(n, override) ==
    handshaking' = [handshaking EXCEPT ![n] =
        IF @ = None THEN Some([override |-> override, machine |-> None, packet |-> None,
                                   seen |-> FALSE])
        ELSE IF override = 0 THEN @
        ELSE Some([@[1] EXCEPT !.override = override])]

(* Traffic for a node without a tunnel. *)
Dial(n) ==
    /\ tunnel[n] = None
    /\ handshaking[n] = None
    /\ StartsHandshake(n, 0)
    /\ UNCHANGED <<cs, caPool, reloading, told, answer, tunnel, reloads, odd>>

\* Mutant of Rehandshakes: the signatures are not compared.
RehandshakesByVersion(t, state) ==
    IF state.certs[t.my.version] = None THEN Some(0)
    ELSE IF t.my.version < t.peer.version /\ state.certs[t.peer.version] # None
      THEN Some(t.peer.version)
    ELSE IF t.my.version < state.initiatingVersion THEN Some(0)
    ELSE None

(* What tryRehandshake asks for: a version to initiate with, 0 for the
   default, or None when the tunnel is good. *)
Rehandshakes(t, state) ==
    LET mine == state.certs[t.my.version]
    IN IF mine = None THEN Some(0)
       ELSE IF t.my.version < t.peer.version /\ state.certs[t.peer.version] # None
         THEN Some(t.peer.version)
       ELSE IF t.my # mine[1] THEN Some(0)
       ELSE IF t.my.version < state.initiatingVersion THEN Some(0)
       ELSE None

tryRehandshake(n) ==
    /\ tunnel[n] # None
    /\ Rehandshakes(tunnel[n][1], cs[n]) # None
    /\ StartsHandshake(n, Rehandshakes(tunnel[n][1], cs[n])[1])
    /\ UNCHANGED <<cs, caPool, reloading, told, answer, tunnel, reloads, odd>>

Stage0Version(n) ==
    IF handshaking[n][1].override # 0 THEN handshaking[n][1].override
    ELSE IF OtherParty(n) \in V6Peer THEN 2
    ELSE cs[n].initiatingVersion

(* Without a credential of the version the handshake waits for its retry. *)
buildStage0(n) ==
    /\ handshaking[n] # None
    /\ handshaking[n][1].machine = None
    /\ \E machine \in Range(NewMachine(Stage0Version(n), GetCredential(cs[n]), TRUE, IX, Fresh)) :
         \E sent \in {Initiate(machine, Fresh)} :
            handshaking' = [handshaking EXCEPT ![n] =
                Some([@[1] EXCEPT !.machine = Some(sent.m), !.packet = sent.out])]
    /\ UNCHANGED <<cs, caPool, reloading, told, answer, tunnel, reloads, odd>>

(* newConnectionStateFromResult. *)
newConnectionState(r) ==
    [session |-> <<r.EKey[1][2], r.EKey[1][3]>>, eKey |-> r.EKey[1], dKey |-> r.DKey[1],
     my |-> r.MyCert[1], peer |-> r.RemoteCert[1],
     local |-> r.LocalIndex, remote |-> r.RemoteIndex, initiator |-> r.initiator]

(* n reads the other node's first message: a new machine with n's current
   certificates (the initiating version always has one), the tunnel and the
   answer. *)
FirstRead(n) ==
    LET machine == NewMachine(cs[n].initiatingVersion, GetCredential(cs[n]), FALSE, IX, Fresh)
    IN ProcessPacket(machine[1], handshaking[OtherParty(n)][1].packet[1], caPool[n], Fresh)

(* ErrAlreadySeen: a message that made one of n's tunnels before. *)
Arrived(n) ==
    /\ handshaking[OtherParty(n)] # None
    /\ handshaking[OtherParty(n)][1].packet # None
    /\ ~handshaking[OtherParty(n)][1].seen

readFirst(n) ==
    /\ Arrived(n)
    /\ \E read \in {FirstRead(n)} :
          /\ read.result # None
          /\ tunnel' = [tunnel EXCEPT ![n] = Some(newConnectionState(read.result[1]))]
          /\ answer' = [answer EXCEPT ![OtherParty(n)] = read.out]
    /\ handshaking' = [handshaking EXCEPT ![OtherParty(n)] = Some([@[1] EXCEPT !.seen = TRUE])]
    /\ UNCHANGED <<cs, caPool, reloading, told, reloads, odd>>

(* No credential of the version asked for, or the other node refuses the
   message. *)
CannotComplete(n) ==
    IF handshaking[n][1].machine = None
      THEN NewMachine(Stage0Version(n), GetCredential(cs[n]), TRUE, IX, Fresh) = None
      ELSE answer[n] = None /\ (Arrived(OtherParty(n)) => FirstRead(OtherParty(n)).result = None)

(* handleOutbound gives up after its retries: when the handshake cannot
   complete, or when enough messages were lost. *)
HandshakeTimesOut(n) ==
    /\ handshaking[n] # None
    /\ \/ CannotComplete(n) /\ UNCHANGED odd
       \/ ~CannotComplete(n) /\ odd < MaxOdd /\ odd' = odd + 1
    /\ handshaking' = [handshaking EXCEPT ![n] = None]
    /\ answer' = [answer EXCEPT ![n] = None]
    /\ UNCHANGED <<cs, caPool, reloading, told, tunnel, reloads>>

(* An error that does not end the machine leaves the handshake pending. *)
ContinueWith(n, packet) ==
    \E read \in {ProcessPacket(handshaking[n][1].machine[1], packet, caPool[n], Fresh)} :
       IF read.result # None
         THEN /\ tunnel' = [tunnel EXCEPT ![n] = Some(newConnectionState(read.result[1]))]
              /\ handshaking' = [handshaking EXCEPT ![n] = None]
         ELSE /\ handshaking' = [handshaking EXCEPT ![n] = IF read.m.failed THEN None
                                                   ELSE Some([@[1] EXCEPT !.machine = Some(read.m)])]
              /\ UNCHANGED tunnel

continueHandshake(n) ==
    /\ answer[n] # None
    /\ Building(n)
    /\ ContinueWith(n, answer[n][1])
    /\ answer' = [answer EXCEPT ![n] = None]
    /\ UNCHANGED <<cs, caPool, reloading, told, reloads, odd>>

(* Packets other software may send to the index: of another subtype, too
   short, not of this session, or a proper answer without the content this
   version expects. *)
Strays(n) ==
    LET m == handshaking[n][1].machine[1]
        body == [eph |-> 0, static |-> "other", curve |-> m.hs.curve, cipher |-> m.hs.cipher,
                 index |-> 2, payload |-> None, to |-> Some(m.hs.eph)]
        p == [short |-> FALSE, subtype |-> IX, RemoteIndex |-> m.LocalIndex, counter |-> 2, body |-> body]
    IN {[p EXCEPT !.short = TRUE], [p EXCEPT !.subtype = "other"], [p EXCEPT !.body.to = None], p,
        [p EXCEPT !.body.payload = Some([InitiatorIndex |-> 0, ResponderIndex |-> 0, Time |-> TRUE,
                                         Cert |-> m.MyCert])],
        [p EXCEPT !.body.payload = Some([InitiatorIndex |-> m.LocalIndex, ResponderIndex |-> 9,
                                         Time |-> TRUE, Cert |-> None])]}

continueWithStray(n) ==
    /\ odd < MaxOdd
    /\ Building(n)
    /\ \E p \in Strays(n) : ContinueWith(n, p)
    /\ odd' = odd + 1
    /\ UNCHANGED <<cs, caPool, reloading, told, answer, reloads>>

----------------------------------------------------------------------------
PKIInit ==
    /\ cs = [n \in Party |-> newCertStateFromConfig(Boot[n], Boot[n].cipher)[1]]
    /\ caPool = [n \in Party |-> Boot[n].ca[1]]
    /\ reloading = [n \in Party |-> None]
    /\ told = [n \in Party |-> FALSE]
    /\ handshaking = [n \in Party |-> None]
    /\ answer = [n \in Party |-> None]
    /\ tunnel = [n \in Party |-> None]
    /\ reloads = 0
    /\ odd = 0

(* What a node does without being asked to. *)
Works(n) ==
    \/ reloadCAPool(n)
    \/ Dial(n)
    \/ tryRehandshake(n)
    \/ buildStage0(n)
    \/ HandshakeTimesOut(n)
    \/ readFirst(n)
    \/ continueHandshake(n)

PKINext ==
    \E n \in Party :
        \/ \E c \in Configs[n] : reload(n, c)
        \/ Works(n)
        \/ continueWithStray(n)

(* Nothing to do: no reload is half done, no handshake pending, and the
   checks of the tunnels ask for none. *)
AtRest ==
    \A n \in Party : /\ reloading[n] = None
                    /\ handshaking[n] = None
                    /\ tunnel[n] # None
                    /\ Rehandshakes(tunnel[n][1], cs[n]) = None

(* Retries deliver a message and its answer or the handshake times out, and
   live tunnels are checked again and again: the nodes go on as long as
   there is something to do.  This is weak fairness of Works, whose ENABLED
   is written out as ~AtRest; the steps that are not Works are bounded. *)
PKIFairness == []<>AtRest \/ []<><<TRUE>>_pkiVars

PKISpec == PKIInit /\ [][PKINext]_pkiVars /\ PKIFairness

----------------------------------------------------------------------------
(* Properties. *)

(* The tun device and the lighthouse keep the networks the node started with
   (pki.reload): whenever the running certificates have other networks, some
   reload on the way there has reported that a restart is required. *)
NetworksChangeTold ==
    \A n \in Party :
        cs[n].myVpnNetworks # newCertStateFromConfig(Boot[n], Boot[n].cipher)[1].myVpnNetworks
            => told[n]

(* The two ends of a session agree on it (machine.go): what one encrypts
   with the other decrypts with, each sends to the index the other
   allocated, each has verified the certificate the other sent, and the
   responder answered in the initiator's version if it had it.  This must
   hold whatever is reloaded, rejected or answered in between. *)
EndsAgree ==
    \A n \in Party : LET p == OtherParty(n) IN
        (/\ tunnel[n] # None /\ tunnel[p] # None
         /\ tunnel[n][1].session = tunnel[p][1].session)
        => LET t == tunnel[n][1]
               u == tunnel[p][1]
           IN /\ t.initiator # u.initiator
              /\ t.eKey = u.dKey /\ t.dKey = u.eKey /\ t.eKey # t.dKey
              /\ t.remote = u.local /\ t.local = u.remote
              /\ t.peer = u.my /\ t.my = u.peer

(* A node's tunnel ends up with a current certificate, of the initiating
   version at least (tryRehandshake), however reloads and handshakes that
   began before them interleave. *)
CertCurrent(n) ==
    /\ tunnel[n] # None
    /\ Some(tunnel[n][1].my) = cs[n].certs[tunnel[n][1].my.version]
    /\ tunnel[n][1].my.version >= cs[n].initiatingVersion

TunnelsRotate == \A n \in Party : <>[]CertCurrent(n)
=============================================================================
