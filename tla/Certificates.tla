---------------------------- MODULE Certificates ----------------------------
(***************************************************************************)
(* From nebula-cert to a tunnel: "nebula-cert ca" writes a certificate     *)
(* authority, "nebula-cert sign" a host certificate under it, a host loads *)
(* its pool of authorities, verifies the peer's certificate once and keeps *)
(* the result, and checks the kept result again while time passes, the     *)
(* pool is reloaded and fingerprints are blocklisted.                      *)
(***************************************************************************)
EXTENDS CertCodec

CONSTANTS
    CaFlags,     \* the command lines of "ca" tried: version, curve, encrypt, networks,
                 \* unsafe, groups, duration (in half seconds)
    SignFlags,   \* those of "sign": version and duration (0 for the default), networks,
                 \* unsafe, groups, passphrase, and inPub, whether -in-pub is given
    MaxTime      \* bound on the clock

VARIABLES
    now,                \* the clock, in half seconds
    caKey, caCrt,       \* the files "ca" writes, empty before
    hostKey, hostCrt,   \* the files "sign" writes, empty before
    pool,               \* the CAPool of the verifying host
    cached              \* the CachedCertificate of its tunnel to the signed host

certVars == <<now, caKey, caCrt, hostKey, hostCrt, pool, cached>>

KeyOf(curve, id, signs) == <<[curve |-> curve, id |-> id, signs |-> signs]>>

-----------------------------------------------------------------------------
(* Signing *)

Subset(limits, nets) ==
    limits # <<>> =>
        \A n \in ToSet(nets) : \E l \in ToSet(limits) : PrefixContains(l, n) /\ l.bits <= n.bits

checkCAConstraints(signer, t) ==
    /\ t.notAfter <= signer.notAfter
    /\ t.notBefore >= signer.notBefore
    /\ signer.groups # <<>> => ToSet(t.groups) \subseteq ToSet(signer.groups)
    /\ Subset(signer.networks, t.networks)
    /\ Subset(signer.unsafe, t.unsafe)

WithRaw(c) == IF c.ok THEN Okay([c.val EXCEPT !.raw = detailsV2Marshal(c.val)]) ELSE Failure

fromTBSCertificateV1(t) == ValidV1(t)
fromTBSCertificateV2(t) == WithRaw(validateV2(t))

\* The bytes a signer signs, and the signature it makes of them: P256
\* signatures come in either form and are brought to the low one.
MakeSignature(c, key, high) ==
    LET sig == [by |-> key, high |-> high,
                over |-> IF c.version = 1 THEN marshalForSigningV1(c) ELSE marshalForSigningV2(c)]
    IN IF c.curve = "P256" THEN Normalize(sig) ELSE sig

Issued(t, signer) == [t EXCEPT !.issuer = IF signer = <<>> THEN <<>> ELSE Fingerprint(signer[1])]

Signed(c, key, high) ==
    IF c.ok THEN Okay([c.val EXCEPT !.signature = MakeSignature(c.val, key, high)]) ELSE Failure

SignWith(t, signer, curve, key, high) ==
    IF /\ curve = t.curve
       /\ t.isCA <=> signer = <<>>
       /\ signer # <<>> => checkCAConstraints(signer[1], t)
    THEN Signed(IF t.version = 1 THEN fromTBSCertificateV1(Issued(t, signer))
                ELSE fromTBSCertificateV2(Issued(t, signer)), key, high)
    ELSE Failure

TBS(version, curve, isCA, nets, unsafe, groups, from, to, pub) ==
    [version |-> version, name |-> 1, networks |-> nets, unsafe |-> unsafe, groups |-> groups,
     isCA |-> isCA, notBefore |-> from, notAfter |-> to, key |-> pub, curve |-> curve,
     issuer |-> <<>>, raw |-> <<>>, signature |-> <<>>]

Only4(nets) == SelectSeq(nets, LAMBDA n : n.fam = 4)
Only6(nets) == SelectSeq(nets, LAMBDA n : n.fam = 6)

-----------------------------------------------------------------------------
(* nebula-cert *)

Passphrase == "right"
ArgonParameters == "argon2id"

\* "ca": a self signed authority and its key, encrypted when asked.
CaNetworks(f) == f.version = 1 => Only6(f.networks) = <<>> /\ Only6(f.unsafe) = <<>>

CaKeyPair(f) == KeyOf(f.curve, "ca", TRUE)

CaTBS(f) ==
    TBS(f.version, f.curve, TRUE, f.networks, f.unsafe, f.groups, now, now + f.duration, CaKeyPair(f))

CaKeyFile(f) ==
    IF f.encrypt THEN EncryptAndMarshalSigningPrivateKey(CaKeyPair(f), Passphrase, ArgonParameters)
    ELSE MarshalSigningPrivateKeyToPEM(CaKeyPair(f))

ca(f, high) ==
    /\ caKey = <<>> /\ caCrt = <<>>
    /\ f.duration > 0 /\ CaNetworks(f)
    /\ \E c \in {SignWith(CaTBS(f), <<>>, f.curve, CaKeyPair(f), high)} :
          /\ c.ok
          /\ caCrt' = <<MarshalPEM(c.val)>>
    /\ caKey' = <<CaKeyFile(f)>>
    /\ UNCHANGED <<now, hostKey, hostCrt, pool, cached>>

\* "sign": reads the key of the authority, decrypting it with the passphrase
\* it is given, and the certificate.
ReadCAKey(passphrase) ==
    IF UnmarshalSigningPrivateKeyFromPEM(caKey[1]) = Encrypted
    THEN DecryptAndUnmarshalSigningPrivateKey(passphrase, caKey[1])
    ELSE UnmarshalSigningPrivateKeyFromPEM(caKey[1])

ReadCA == UnmarshalCertificateFromPEM(caCrt[1])

CAUsable(c, key) == VerifyPrivateKey(c, key) /\ ~Expired(c, now)

\* The public key comes from -in-pub or is generated.
SignPub(f, curve) ==
    IF f.inPub THEN UnmarshalPublicKeyFromPEM(MarshalPublicKeyToPEM(KeyOf(curve, "host", FALSE)))
    ELSE Okay([key |-> KeyOf(curve, "host", FALSE), curve |-> curve])

SignUntil(f, caCert) == IF f.duration = 0 THEN caCert.notAfter - 2 ELSE now + f.duration

SignV1(f, caCert, pub) ==
    IF /\ Len(Only4(f.networks)) = 1
       /\ Only6(f.networks) = <<>> /\ Only6(f.unsafe) = <<>>
    THEN Okay(TBS(1, pub.curve, FALSE, Only4(f.networks), Only4(f.unsafe), f.groups, now,
                  SignUntil(f, caCert), pub.key))
    ELSE Failure

SignV2(f, caCert, pub) ==
    Okay(TBS(2, pub.curve, FALSE, Only4(f.networks) \o Only6(f.networks),
             Only4(f.unsafe) \o Only6(f.unsafe), f.groups, now, SignUntil(f, caCert), pub.key))

\* The key is written only when it was generated here.
HostKeyFile(f, pub) == IF f.inPub THEN <<>> ELSE <<MarshalPrivateKeyToPEM(pub.key)>>

SignTBS(f, caCert, pub) ==
    IF f.version = 1 \/ (f.version = 0 /\ caCert.version = 1) THEN SignV1(f, caCert, pub)
    ELSE SignV2(f, caCert, pub)

SignAs(t, caCert, key, high) ==
    IF t.ok THEN SignWith(t.val, <<caCert>>, key.curve, key.key, high) ELSE Failure

signCert(f, high) ==
    /\ caKey # <<>> /\ caCrt # <<>>
    /\ hostKey = <<>> /\ hostCrt = <<>>
    /\ f.networks # <<>>
    /\ \E key \in {ReadCAKey(f.passphrase)}, caCert \in {ReadCA} :
          /\ key.ok /\ caCert.ok /\ CAUsable(caCert.val, key.val.key)
          /\ \E pub \in {SignPub(f, key.val.curve)} :
                /\ pub.ok /\ pub.val.curve = key.val.curve
                /\ \E c \in {SignAs(SignTBS(f, caCert.val, pub.val), caCert.val, key.val, high)} :
                      /\ c.ok
                      /\ hostCrt' = <<MarshalPEM(c.val)>>
                /\ hostKey' = HostKeyFile(f, pub.val)
    /\ UNCHANGED <<now, caKey, caCrt, pool, cached>>

-----------------------------------------------------------------------------
(* The pool *)

NewCAPool == [cas |-> {}, blocked |-> {}]

\* AddCA puts an expired authority into the pool and reports it.
AddCA(p, c) ==
    CASE ~c.isCA -> Failure
      [] ~Known(c.curve) -> UnknownVersion
      [] OTHER -> IF CheckSignature(c, c.key) THEN Okay([p EXCEPT !.cas = @ \cup {c}]) ELSE Failure

\* A block of an unknown version or curve is skipped.
Skipping(r, added) == IF added = UnknownVersion THEN r ELSE added

AddRead(r, c) ==
    CASE c = UnknownVersion -> r
      [] c.ok -> Skipping(r, AddCA(r.val, c.val))
      [] OTHER -> Failure

AddBlock(r, block) == IF r.ok THEN AddRead(r, unmarshalCertificateBlock(block)) ELSE r

NewCAPoolFromPEMReader(bundle) == FoldLeft(AddBlock, Okay(NewCAPool), bundle)

BlocklistFingerprint(p, fps) == [p EXCEPT !.blocked = @ \cup fps]

\* Expired authorities are kept as long as one that is not expired is there; a
\* bundle of which every block was skipped has none either.
AllExpired(bundle, cas) == bundle # <<>> /\ \A c \in cas : Expired(c, now)

\* blocklist: the well-formed entries of pki.blocklist.  They count, and the
\* pool is replaced, also when another entry is reported as malformed.
Blocklisting(r, bundle, blocklist) ==
    IF r.ok THEN (IF AllExpired(bundle, r.val.cas) THEN Failure ELSE Okay(BlocklistFingerprint(r.val, blocklist)))
    ELSE Failure

loadCAPoolFromConfig(bundle, blocklist) == Blocklisting(NewCAPoolFromPEMReader(bundle), bundle, blocklist)

GetCAForCert(p, c) == {s \in p.cas : c.issuer # <<>> /\ Fingerprint(s) = c.issuer}

IsBlocklisted(p, fp) == fp \in p.blocked

\* The checks that are made each time.
SignerStands(p, c, fp, t) ==
    /\ ~IsBlocklisted(p, fp)
    /\ \E s \in GetCAForCert(p, c) : s.curve = c.curve /\ ~Expired(s, t) /\ ~Expired(c, t)

\* Mutant of verify: the short check comes before the others.
verifyCachedFirst(p, c, t, fp, signerFp) ==
    /\ signerFp # <<>> => \E s \in GetCAForCert(p, c) : signerFp = Fingerprint(s)
    /\ signerFp = <<>> =>
         /\ SignerStands(p, c, fp, t)
         /\ \E s \in GetCAForCert(p, c) : CheckSignature(c, s.key) /\ checkCAConstraints(s, c)

\* All checks for a certificate seen for the first time, and a short way for
\* one that was verified before.
verify(p, c, t, fp, signerFp) ==
    /\ SignerStands(p, c, fp, t)
    /\ \E s \in GetCAForCert(p, c) :
          IF signerFp # <<>> THEN signerFp = Fingerprint(s)
          ELSE CheckSignature(c, s.key) /\ checkCAConstraints(s, c)

VerifyCertificate(p, t, c) ==
    LET fp == Fingerprint(c)
        fp2 == CalculateAlternateFingerprint(c)
    IN IF verify(p, c, t, fp, <<>>) /\ ~(fp2 # <<>> /\ IsBlocklisted(p, fp2))
       THEN Okay([cert |-> c, fp |-> fp, fp2 |-> fp2,
                  signer |-> Fingerprint(CHOOSE s \in GetCAForCert(p, c) : TRUE)])
       ELSE Failure

VerifyCachedCertificate(p, t, cc) ==
    /\ ~(cc.fp2 # <<>> /\ IsBlocklisted(p, cc.fp2))
    /\ verify(p, cc.cert, t, cc.fp, cc.signer)

-----------------------------------------------------------------------------
(* The verifying host *)

\* Another authority of the same bundle, self signed, valid for one second
OtherCA == SignWith(TBS(2, "25519", TRUE, <<>>, <<>>, <<>>, 0, 3, KeyOf("25519", "other", TRUE)),
                    <<>>, "25519", KeyOf("25519", "other", TRUE), FALSE).val

\* Bundles pki.ca may hold once the files are written
Bundles ==
    LET unknown == [type |-> "NEBULA CERTIFICATE V3", bytes |-> <<>>]
        other == MarshalPEM(OtherCA)
    IN {<<caCrt[1]>>, <<unknown, caCrt[1], other>>, <<other>>, <<caCrt[1], hostCrt[1]>>}

\* The fingerprints of a host certificate an operator may list
Listable ==
    LET c == unmarshalCertificateBlock(hostCrt[1]).val
    IN {Fingerprint(c)} \cup ({CalculateAlternateFingerprint(c)} \ {<<>>})

reloadCAPool(bundle, blocklist) ==
    LET r == loadCAPoolFromConfig(bundle, blocklist)
    IN /\ r.ok
       /\ pool' = r.val
       /\ UNCHANGED <<now, caKey, caCrt, hostKey, hostCrt, cached>>

\* The certificate travels without its public key and is put together again,
\* in the form it was written or with the signature in its other form.
PeerCert(swapped) ==
    LET c == unmarshalCertificateBlock(hostCrt[1]).val
        s == IF swapped THEN [c EXCEPT !.signature = Swap(@)] ELSE c
    IN Recombine(s.version, MarshalForHandshakes(s), s.key, s.curve)

verifyPeer(swapped) ==
    LET r == VerifyCertificate(pool, now, PeerCert(swapped).val)
    IN /\ hostCrt # <<>> /\ cached = <<>>
       /\ swapped => unmarshalCertificateBlock(hostCrt[1]).val.curve = "P256"
       /\ PeerCert(swapped).ok /\ r.ok
       /\ cached' = <<r.val>>
       /\ UNCHANGED <<now, caKey, caCrt, hostKey, hostCrt, pool>>

\* The tunnel of a blocklisted certificate is closed, and that of a
\* certificate invalid otherwise when pki.disconnect_invalid says so.
isInvalidCertificate(disconnectInvalid) ==
    /\ ~VerifyCachedCertificate(pool, now, cached[1])
    /\ disconnectInvalid \/ {cached[1].fp, cached[1].fp2} \cap pool.blocked # {}

closeInvalid(disconnectInvalid) ==
    /\ cached # <<>> /\ isInvalidCertificate(disconnectInvalid)
    /\ cached' = <<>>
    /\ UNCHANGED <<now, caKey, caCrt, hostKey, hostCrt, pool>>

Clock ==
    /\ now < MaxTime
    /\ now' = now + 1
    /\ UNCHANGED <<caKey, caCrt, hostKey, hostCrt, pool, cached>>

CertInit ==
    /\ now = 1
    /\ caKey = <<>> /\ caCrt = <<>> /\ hostKey = <<>> /\ hostCrt = <<>>
    /\ pool = NewCAPool /\ cached = <<>>

CertNext ==
    \/ \E f \in CaFlags, high \in BOOLEAN : ca(f, high)
    \/ \E f \in SignFlags, high \in BOOLEAN : signCert(f, high)
    \/ /\ hostCrt # <<>>
       /\ \E bundle \in Bundles, blocklist \in {{}} \cup {{fp} : fp \in Listable} : reloadCAPool(bundle, blocklist)
    \/ \E swapped \in BOOLEAN : verifyPeer(swapped)
    \/ \E disconnectInvalid \in BOOLEAN : closeInvalid(disconnectInvalid)
    \/ Clock

-----------------------------------------------------------------------------
(* Properties *)

\* What "nebula-cert sign" writes is usable: a host that trusts the authority
\* parses it, rebuilds the same certificate from its handshake form, and
\* accepts it for as long as neither certificate has expired (the checks of
\* SignWith and validate agree with those of unmarshal and verify).
SignedVerifies ==
    hostCrt # <<>> =>
        LET root == unmarshalCertificateBlock(caCrt[1])
            c == unmarshalCertificateBlock(hostCrt[1])
            p == NewCAPoolFromPEMReader(caCrt)
        IN /\ root.ok /\ c.ok /\ p.ok
           /\ PeerCert(FALSE) = c
           /\ ~Expired(root.val, now) /\ ~Expired(c.val, now) => VerifyCertificate(p.val, now, c.val).ok

\* The short check of a kept certificate gives the verdict a full check would
\* give now, whatever happened to the clock, the pool and the blocklist since
\* (VerifyCachedCertificate "is the same as VerifyCertificate").
CachedAgrees ==
    cached # <<>> =>
        (VerifyCachedCertificate(pool, now, cached[1]) <=> VerifyCertificate(pool, now, cached[1].cert).ok)
=============================================================================
