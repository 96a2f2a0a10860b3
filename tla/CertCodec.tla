------------------------------ MODULE CertCodec ------------------------------
(***************************************************************************)
(* The certificates of the cert package and their two encodings: version 1 *)
(* as a protobuf message, whose networks are flat lists of addresses and   *)
(* masks, and version 2 as a sequence of tagged ASN.1 elements read back   *)
(* in order.  Hashes and signatures are injective: a fingerprint is the    *)
(* content that is hashed, a signature names the key and what it signs.    *)
(*                                                                         *)
(* Prefixes keep a few bits per family.  Times count half seconds, so that *)
(* the conversion to Unix seconds loses something.                         *)
(***************************************************************************)
EXTENDS Integers, Sequences, FiniteSets, SequencesExt

\* An IPv4 address has two bits here, an IPv6 address three; IPv6 address 7
\* is the one IPv4-mapped address, and family 0 is the invalid address.
BitLen(fam) == CASE fam = 4 -> 2 [] fam = 6 -> 3 [] OTHER -> 0
Is4In6(p) == p.fam = 6 /\ p.addr = 7
Prefix(fam, addr, bits) == [fam |-> fam, addr |-> addr, bits |-> bits]
IsValid(p) == p.fam # 0 /\ p.bits <= BitLen(p.fam)
PrefixContains(p, q) ==
    /\ p.fam = q.fam
    /\ LET unit == 2 ^ (BitLen(p.fam) - p.bits)
       IN p.addr \div unit = q.addr \div unit

Unix(t) == (t \div 2) * 2

\* A decode or an operation that fails
Failure == [ok |-> FALSE]
Okay(v) == [ok |-> TRUE, val |-> v]

-----------------------------------------------------------------------------
(* Networks *)

comparePrefix(a, b) ==
    IF a.fam # b.fam THEN a.fam - b.fam
    ELSE IF a.addr # b.addr THEN a.addr - b.addr
    ELSE a.bits - b.bits

SortedNets(nets) == SortSeq(nets, LAMBDA a, b : comparePrefix(a, b) < 0)

findDuplicatePrefix(sorted) ==
    \E i \in 2..Len(sorted) : comparePrefix(sorted[i], sorted[i - 1]) = 0

\* net.CIDRMask of an IPv4 prefix and the size it gives back; a mask that is
\* no prefix has size 0.
CIDRMask(bits) == 4 - 2 ^ (2 - bits)
MaskSize(mask) ==
    IF \E b \in 0..2 : CIDRMask(b) = mask THEN CHOOSE b \in 0..2 : CIDRMask(b) = mask ELSE 0

PairsToInts(nets) == FlattenSeq([i \in 1..Len(nets) |-> <<nets[i].addr, CIDRMask(nets[i].bits)>>])
IntsToPairs(ints) == [i \in 1..Len(ints) \div 2 |-> Prefix(4, ints[2 * i - 1], MaskSize(ints[2 * i]))]

-----------------------------------------------------------------------------
(* A certificate: its version, details, curve, public key, the raw details
   version 2 keeps as they were signed, and the signature. *)

MaxNameLength == 2   \* names are lengths here, and 2 stands for 253

validateV1(c) ==
    /\ c.key # <<>>
    /\ c.isCA \/ c.networks # <<>>
    /\ \A n \in ToSet(c.networks) : IsValid(n) /\ n.fam # 6 /\ n.addr # 0
    /\ \A n \in ToSet(c.unsafe) : IsValid(n) /\ n.fam # 6

ValidV1(c) == IF validateV1(c) THEN Okay(c) ELSE Failure

V2NameAndGroups(c) ==
    /\ c.name \in 1..MaxNameLength
    /\ "" \notin ToSet(c.groups)

V2Networks(c) ==
    /\ c.isCA \/ c.networks # <<>>
    /\ \A n \in ToSet(c.networks) : IsValid(n) /\ n.addr # 0 /\ ~Is4In6(n)
    /\ ~findDuplicatePrefix(SortedNets(c.networks))

\* An unsafe network of a host needs an address of its family.
V2UnsafeNetworks(c) ==
    /\ \A n \in ToSet(c.unsafe) :
          IsValid(n) /\ (c.isCA \/ \E m \in ToSet(c.networks) : m.fam = n.fam)
    /\ ~findDuplicatePrefix(SortedNets(c.unsafe))

validateV2(c) ==
    IF V2NameAndGroups(c) /\ c.key # <<>> /\ V2Networks(c) /\ V2UnsafeNetworks(c)
    THEN Okay([c EXCEPT !.networks = SortedNets(c.networks), !.unsafe = SortedNets(c.unsafe)])
    ELSE Failure

-----------------------------------------------------------------------------
(* Version 1 *)

getRawDetails(c) ==
    [name |-> c.name, groups |-> c.groups, notBefore |-> Unix(c.notBefore),
     notAfter |-> Unix(c.notAfter), key |-> c.key, isCA |-> c.isCA, curve |-> c.curve,
     ips |-> PairsToInts(c.networks), subnets |-> PairsToInts(c.unsafe), issuer |-> c.issuer]

MarshalV1(c) == [details |-> getRawDetails(c), signature |-> c.signature]

MarshalForHandshakesV1(c) == MarshalV1([c EXCEPT !.key = <<>>])

DecodedV1(d, signature, key) ==
    [version |-> 1, name |-> d.name, groups |-> d.groups,
     networks |-> IntsToPairs(d.ips), unsafe |-> IntsToPairs(d.subnets),
     notBefore |-> d.notBefore, notAfter |-> d.notAfter, isCA |-> d.isCA,
     curve |-> d.curve, issuer |-> d.issuer, raw |-> <<>>, signature |-> signature, key |-> key]

unmarshalCertificateV1(rc, publicKey) ==
    IF \/ Len(rc.details.ips) % 2 # 0 \/ Len(rc.details.subnets) % 2 # 0
       \/ publicKey # <<>> /\ rc.details.key # <<>>
    THEN Failure
    ELSE ValidV1(DecodedV1(rc.details, rc.signature, IF publicKey # <<>> THEN publicKey ELSE rc.details.key))

-----------------------------------------------------------------------------
(* Version 2 *)

Element(tag, val) == <<[tag |-> tag, val |-> val]>>
When(cond, elements) == IF cond THEN elements ELSE <<>>

detailsV2Marshal(c) ==
       Element("name", c.name)
    \o When(c.networks # <<>>, Element("networks", c.networks))
    \o When(c.unsafe # <<>>, Element("unsafe", c.unsafe))
    \o When(c.groups # <<>>, Element("groups", c.groups))
    \o When(c.isCA, Element("isCA", TRUE))
    \o Element("notBefore", Unix(c.notBefore))
    \o Element("notAfter", Unix(c.notAfter))
    \o When(c.issuer # <<>>, Element("issuer", c.issuer))

\* The elements of a sequence of tags, read in that order from a string: an
\* element that is not next in the string is left out.
Element1(read, tag) ==
    IF read.rest # <<>> /\ Head(read.rest).tag = tag
    THEN [rest |-> Tail(read.rest), got |-> (tag :> Head(read.rest).val) @@ read.got]
    ELSE read
ReadElements(b, tags) == FoldLeft(Element1, [rest |-> b, got |-> <<>>], tags).got
Optional(got, tag, default) == IF tag \in DOMAIN got THEN got[tag] ELSE default

readOptionalASN1Boolean(got, tag) == Optional(got, tag, FALSE)
readOptionalASN1Byte(got, tag, default) == Optional(got, tag, default)

ReadNetworks(nets) == \A n \in ToSet(nets) : n.fam # 0
ReadGroups(groups) == "" \notin ToSet(groups)

DetailsOf(got) ==
    IF /\ {"name", "notBefore", "notAfter"} \subseteq DOMAIN got
       /\ got["name"] \in 1..MaxNameLength
       /\ ReadNetworks(Optional(got, "networks", <<>>))
       /\ ReadNetworks(Optional(got, "unsafe", <<>>))
       /\ ReadGroups(Optional(got, "groups", <<>>))
    THEN Okay([name |-> got["name"], networks |-> Optional(got, "networks", <<>>),
               unsafe |-> Optional(got, "unsafe", <<>>), groups |-> Optional(got, "groups", <<>>),
               isCA |-> readOptionalASN1Boolean(got, "isCA"), notBefore |-> got["notBefore"],
               notAfter |-> got["notAfter"], issuer |-> Optional(got, "issuer", <<>>)])
    ELSE Failure

unmarshalDetails(b) ==
    DetailsOf(ReadElements(b, <<"name", "networks", "unsafe", "groups", "isCA",
                                "notBefore", "notAfter", "issuer">>))

MarshalV2(c) ==
       Element("details", c.raw)
    \o When(c.curve # "25519", Element("curve", c.curve))
    \o When(c.key # <<>>, Element("key", c.key))
    \o Element("signature", c.signature)

MarshalForHandshakesV2(c) == Element("details", c.raw) \o Element("signature", c.signature)

DecodedV2(d, got, curve, key) ==
    [version |-> 2, name |-> d.name, groups |-> d.groups,
     networks |-> d.networks, unsafe |-> d.unsafe, isCA |-> d.isCA,
     notBefore |-> d.notBefore, notAfter |-> d.notAfter, issuer |-> d.issuer,
     raw |-> got["details"], curve |-> readOptionalASN1Byte(got, "curve", curve), key |-> key,
     signature |-> got["signature"]]

ValidDetailsV2(d, got, curve, key) ==
    IF d.ok THEN validateV2(DecodedV2(d.val, got, curve, key)) ELSE Failure

CertificateOfV2(got, publicKey, curve) ==
    IF /\ {"details", "signature"} \subseteq DOMAIN got
       /\ publicKey # <<>> \/ Optional(got, "key", <<>>) # <<>>
    THEN ValidDetailsV2(unmarshalDetails(got["details"]), got, curve,
             IF publicKey # <<>> THEN publicKey ELSE got["key"])
    ELSE Failure

\* A key beside the one the handshake gave stands before the signature and
\* makes the certificate unreadable.
unmarshalCertificateV2(b, publicKey, curve) ==
    CertificateOfV2(ReadElements(b, IF publicKey # <<>> THEN <<"details", "curve", "signature">>
                                    ELSE <<"details", "curve", "key", "signature">>),
                    publicKey, curve)

-----------------------------------------------------------------------------
(* Both versions *)

Marshal(c) == IF c.version = 1 THEN MarshalV1(c) ELSE MarshalV2(c)

MarshalForHandshakes(c) ==
    IF c.version = 1 THEN MarshalForHandshakesV1(c) ELSE MarshalForHandshakesV2(c)

FingerprintV1(c) == <<1, MarshalV1(c)>>
FingerprintV2(c) == <<2, c.raw, c.curve, c.key, c.signature>>
Fingerprint(c) == IF c.version = 1 THEN FingerprintV1(c) ELSE FingerprintV2(c)

\* What a signature of the certificate covers
marshalForSigningV1(c) == <<1, getRawDetails(c)>>
marshalForSigningV2(c) == <<2, c.raw, c.curve, c.key>>

\* An ECDSA signature verifies in its high form and in its low form.
CheckSignatureV1(c, key) ==
    /\ c.curve = key[1].curve
    /\ c.signature.by = key /\ c.signature.over = marshalForSigningV1(c)
CheckSignatureV2(c, key) ==
    /\ c.raw # <<>> /\ c.curve = key[1].curve
    /\ c.signature.by = key /\ c.signature.over = marshalForSigningV2(c)
CheckSignature(c, key) == IF c.version = 1 THEN CheckSignatureV1(c, key) ELSE CheckSignatureV2(c, key)

Expired(c, t) == c.notBefore > t \/ c.notAfter < t

\* A private key is the pair of its public key; a signing key is of another
\* kind than a key of the key agreement.
VerifyPrivateKeyV1(c, priv) == priv[1].curve = c.curve /\ priv[1].signs = c.isCA /\ priv = c.key
VerifyPrivateKeyV2(c, priv) == priv[1].curve = c.curve /\ priv[1].signs = c.isCA /\ priv = c.key
VerifyPrivateKey(c, priv) ==
    IF c.version = 1 THEN VerifyPrivateKeyV1(c, priv) ELSE VerifyPrivateKeyV2(c, priv)

Known(curve) == curve \in {"25519", "P256"}

OfCurve(c, curve) == IF c.ok THEN (IF c.val.curve = curve THEN c ELSE Failure) ELSE Failure

Recombine(v, raw, publicKey, curve) ==
    IF publicKey = <<>> THEN Failure
    ELSE OfCurve(CASE v \in {0, 1} -> unmarshalCertificateV1(raw, publicKey)
                   [] v = 2 -> unmarshalCertificateV2(raw, publicKey, curve)
                   [] OTHER -> Failure, curve)

\* p256.Normalize and p256.Swap
Normalize(sig) == [sig EXCEPT !.high = FALSE]
Swap(sig) == [sig EXCEPT !.high = ~sig.high]

CalculateAlternateFingerprint(c) ==
    IF c.curve # "P256" THEN <<>> ELSE Fingerprint([c EXCEPT !.signature = Swap(@)])

-----------------------------------------------------------------------------
(* PEM blocks *)

MarshalPEM(c) ==
    [type |-> IF c.version = 1 THEN "NEBULA CERTIFICATE" ELSE "NEBULA CERTIFICATE V2",
     bytes |-> Marshal(c)]

UnknownVersion == [ok |-> FALSE, unknown |-> TRUE]

unmarshalCertificateBlock(block) ==
    CASE block.type = "NEBULA CERTIFICATE" -> unmarshalCertificateV1(block.bytes, <<>>)
      [] block.type = "NEBULA CERTIFICATE V2" -> unmarshalCertificateV2(block.bytes, <<>>, "25519")
      [] block.type = "NEBULA CERTIFICATE V3" -> UnknownVersion
      [] OTHER -> Failure

UnmarshalCertificateFromPEM(block) == unmarshalCertificateBlock(block)

MarshalPrivateKeyToPEM(key) ==
    [type |-> IF key[1].curve = "25519" THEN "NEBULA X25519 PRIVATE KEY" ELSE "NEBULA P256 PRIVATE KEY",
     bytes |-> key]

MarshalSigningPrivateKeyToPEM(key) ==
    [type |-> IF key[1].curve = "25519" THEN "NEBULA ED25519 PRIVATE KEY" ELSE "NEBULA ECDSA P256 PRIVATE KEY",
     bytes |-> key]

MarshalPublicKeyToPEM(key) ==
    [type |-> IF key[1].curve = "25519" THEN "NEBULA X25519 PUBLIC KEY" ELSE "NEBULA P256 PUBLIC KEY",
     bytes |-> key]

UnmarshalPublicKeyFromPEM(block) ==
    CASE block.type = "NEBULA X25519 PUBLIC KEY" -> Okay([key |-> block.bytes, curve |-> "25519"])
      [] block.type = "NEBULA P256 PUBLIC KEY" -> Okay([key |-> block.bytes, curve |-> "P256"])
      [] OTHER -> Failure

UnmarshalPrivateKeyFromPEM(block) ==
    CASE block.type = "NEBULA X25519 PRIVATE KEY" -> Okay([key |-> block.bytes, curve |-> "25519"])
      [] block.type = "NEBULA P256 PRIVATE KEY" -> Okay([key |-> block.bytes, curve |-> "P256"])
      [] OTHER -> Failure

Encrypted == [ok |-> FALSE, encrypted |-> TRUE]

UnmarshalSigningPrivateKeyFromPEM(block) ==
    CASE block.type \in {"NEBULA ED25519 ENCRYPTED PRIVATE KEY",
                         "NEBULA ECDSA P256 ENCRYPTED PRIVATE KEY"} -> Encrypted
      [] block.type = "NEBULA ED25519 PRIVATE KEY" -> Okay([key |-> block.bytes, curve |-> "25519"])
      [] block.type = "NEBULA ECDSA P256 PRIVATE KEY" -> Okay([key |-> block.bytes, curve |-> "P256"])
      [] OTHER -> Failure

-----------------------------------------------------------------------------
(* Signing keys at rest: AES-256-GCM under a key Argon2id derives *)

deriveKey(passphrase, params) == <<passphrase, params>>

aes256Encrypt(passphrase, params, data) == [under |-> deriveKey(passphrase, params), data |-> data]

aes256Decrypt(passphrase, params, blob) ==
    IF blob.under = deriveKey(passphrase, params) THEN Okay(blob.data) ELSE Failure

EncryptAndMarshalSigningPrivateKey(key, passphrase, params) ==
    [type |-> IF key[1].curve = "25519" THEN "NEBULA ED25519 ENCRYPTED PRIVATE KEY"
              ELSE "NEBULA ECDSA P256 ENCRYPTED PRIVATE KEY",
     bytes |-> [params |-> params, algorithm |-> "AES-256-GCM",
                ciphertext |-> aes256Encrypt(passphrase, params, key)]]

UnmarshalNebulaEncryptedData(bytes) == [params |-> bytes.params, algorithm |-> bytes.algorithm,
                                        ciphertext |-> bytes.ciphertext]

Unsealed(key, curve) == IF key.ok THEN Okay([key |-> key.val, curve |-> curve]) ELSE Failure

DecryptAndUnmarshalSigningPrivateKey(passphrase, block) ==
    LET ned == UnmarshalNebulaEncryptedData(block.bytes)
    IN IF ned.algorithm # "AES-256-GCM" THEN Failure
       ELSE Unsealed(aes256Decrypt(passphrase, ned.params, ned.ciphertext),
                     IF block.type = "NEBULA ED25519 ENCRYPTED PRIVATE KEY" THEN "25519" ELSE "P256")
=============================================================================
