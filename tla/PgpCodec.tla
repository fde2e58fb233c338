------------------------------ MODULE PgpCodec ------------------------------
(***************************************************************************)
(* The bodies of OpenPGP packets as bytes: multi-precision integers,       *)
(* public keys of versions 4 and 3, private keys, signatures, and the      *)
(* small packets (openpgp/packet, openpgp/elgamal).  Numbers and hashes    *)
(* are short; the layout, the lengths and the checks are those of the      *)
(* code.  A parser returns err, the value v, and the rest of the bytes.    *)
(***************************************************************************)
EXTENDS Integers, Sequences, SequencesExt

CONSTANTS
  Keys,         \* public keys: [time, algo, mpis, oid, kdf]
  PrimePairs,   \* pairs of primes of RSA private keys
  Signatures,   \* signatures to write, see buildSubpackets
  Foreign,      \* pairs of hashed and unhashed subpackets another program wrote
  SessionKeys,  \* session keys sent to a public key: [cipher, key, modulus]
  Ciphers,      \* ciphers of messages locked by a passphrase
  Photos        \* user attributes: sequences of [type, contents]

VARIABLE trip   \* a value, its bytes, and what reading them gives

RSA == 1
RSAEncryptOnly == 2
RSASignOnly == 3
ElGamal == 16
DSA == 17
ECDH == 18
ECDSA == 19
OIDs == {<<42, 134, 72, 206, 61, 3, 1, 7>>, <<43, 129, 4, 0, 34>>, <<43, 129, 4, 0, 35>>}

Two(n) == <<(n \div 256) % 256, n % 256>>
Four(n) == Two(n \div 65536) \o Two(n)
Big(b) == FoldLeft(LAMBDA a, c : a * 256 + c, 0, b)
ByteSum(b) ==
  LET sum[i \in 1..(Len(b) + 1), j \in 0..Len(b)] ==   \* of b[i] to b[j]
        IF j < i THEN 0
        ELSE IF i = j THEN b[i]
        ELSE LET k == (i + j) \div 2 IN (sum[i, k] + sum[k + 1, j]) % 65536
  IN sum[1, Len(b)]
Rest(b, n) == SubSeq(b, n + 1, Len(b))
Cat(s) == FlattenSeq(s)
UpTo(n) == [i \in 1..n |-> i]
MaxSubpackets == 12   \* subpackets in an area; no longer area is written here

Good(v, rest) == [err |-> "none", v |-> v, rest |-> rest]
Bad(e) == [err |-> e, v |-> <<>>, rest |-> <<>>]
Then(r, P(_, _)) == IF r.err # "none" THEN r ELSE P(r.v, r.rest)   \* if err != nil { return }

readFull(b, n) == IF Len(b) < n THEN Bad("unexpected EOF") ELSE Good(SubSeq(b, 1, n), Rest(b, n))

BitLen(n) == IF n = 0 THEN 0 ELSE CHOOSE k \in 1..31 : 2 ^ (k - 1) <= n /\ (k = 31 \/ n < 2 ^ k)
fromBig(n) ==
  [bits |-> BitLen(n), bytes |-> LET l == (BitLen(n) + 7) \div 8 IN SubSeq(Four(n), 5 - l, 4)]
Value(m) == Big(m.bytes)

readMPI(b) ==
  LET read(bits) == Then(readFull(Rest(b, 2), (bits + 7) \div 8), LAMBDA v, rest : Good([bits |-> bits, bytes |-> v], rest))
  IN IF Len(b) < 2 THEN Bad("unexpected EOF") ELSE read(Big(SubSeq(b, 1, 2)))

writeMPI(m) == Two(m.bits) \o m.bytes
writeMPIs(ms) == Cat([i \in DOMAIN ms |-> writeMPI(ms[i])])
mpisLength(ms) == FoldLeft(LAMBDA a, m : a + 2 + Len(m.bytes), 0, ms)

(* n integers one after the other; the first one that is cut short ends it.*)
readMPIs(b, n) ==
  FoldLeft(LAMBDA a, i :
             Then(a, LAMBDA ms, more : Then(readMPI(more), LAMBDA m, rest : Good(Append(ms, m), rest))),
           Good(<<>>, b), UpTo(n))

-----------------------------------------------------------------------------
(* Public keys.                                                            *)
IsRSA(algo) == algo \in {RSA, RSAEncryptOnly, RSASignOnly}
IntegerCount(algo) == IF IsRSA(algo) THEN 2 ELSE IF algo = DSA THEN 4 ELSE IF algo = ElGamal THEN 3 ELSE 1

ecSerialize(pk) == <<Len(pk.oid)>> \o pk.oid \o writeMPIs(pk.mpis)
kdfSerialize(pk) == <<3, 1>> \o pk.kdf

serializeWithoutHeaders(pk) ==
  <<4>> \o Four(pk.time) \o <<pk.algo>> \o
  (IF pk.algo = ECDSA THEN ecSerialize(pk)
   ELSE IF pk.algo = ECDH THEN ecSerialize(pk) \o kdfSerialize(pk)
   ELSE writeMPIs(pk.mpis))

(* The length Serialize puts in the header, and SerializeSignaturePrefix   *)
(* hashes before the key.                                                  *)
publicKeyLength(pk) ==
  6 + (IF pk.algo \in {ECDSA, ECDH} THEN 1 + Len(pk.oid) ELSE 0) + mpisLength(pk.mpis)
    + (IF pk.algo = ECDH THEN 4 ELSE 0)

(* The fingerprint stands for the bytes that are hashed.                   *)
fingerPrint(pk) == <<153>> \o Two(publicKeyLength(pk) % 65536) \o serializeWithoutHeaders(pk)

parseKdf(b) ==
  IF b = <<>> THEN Bad("unexpected EOF")
  ELSE IF b[1] < 3 THEN Bad("unsupported")
  ELSE Then(readFull(Tail(b), b[1]),
            LAMBDA v, rest : IF v[1] # 1 THEN Bad("unsupported") ELSE Good(<<v[2], v[3]>>, rest))

parseOID(b) ==
  IF b = <<>> THEN Bad("unexpected EOF")
  ELSE IF b[1] > 8 THEN Bad("unsupported")
  ELSE readFull(Tail(b), b[1])

(* elliptic.Unmarshal takes a point that begins with 4.                    *)
onCurve(m) == m.bytes # <<>> /\ m.bytes[1] = 4

parseEC(b, algo) ==
  Then(parseOID(b), LAMBDA oid, afterOid :
  Then(readMPI(afterOid), LAMBDA p, afterP :
  Then(IF algo = ECDH THEN parseKdf(afterP) ELSE Good(<<>>, afterP), LAMBDA kdf, rest :
    IF oid \notin OIDs \/ ~onCurve(p) THEN Bad("unsupported")
    ELSE Good([mpis |-> <<p>>, oid |-> oid, kdf |-> kdf], rest))))

parseInteger(b, algo) ==
  Then(readMPIs(b, IntegerCount(algo)), LAMBDA ms, rest :
    IF IsRSA(algo) /\ Len(ms[2].bytes) > 3 THEN Bad("unsupported")
    ELSE Good([mpis |-> ms, oid |-> <<>>, kdf |-> <<>>], rest))

parseMaterial(b, algo) ==
  IF algo \in {ECDSA, ECDH} THEN parseEC(b, algo)
  ELSE IF IsRSA(algo) \/ algo \in {DSA, ElGamal} THEN parseInteger(b, algo)
  ELSE Bad("unsupported")
parsePublicKey(b) ==
  Then(readFull(b, 6), LAMBDA h, afterH :
    IF h[1] # 4 THEN Bad("unsupported")
    ELSE Then(parseMaterial(afterH, h[6]), LAMBDA k, rest :
           Good([time |-> Big(SubSeq(h, 2, 5)), algo |-> h[6], mpis |-> k.mpis, oid |-> k.oid, kdf |-> k.kdf], rest)))

(* Version 3: RSA only, with the days to expiry, and a modulus long enough *)
(* to hold the key id.                                                     *)
serializeV3(pk, days) == <<3>> \o Four(pk.time) \o Two(days) \o <<pk.algo>> \o writeMPIs(pk.mpis)
lengthV3(pk) == 8 + mpisLength(pk.mpis)
parseV3(b) ==
  Then(readFull(b, 8), LAMBDA h, afterH :
    IF h[1] \notin {2, 3} \/ ~IsRSA(h[8]) THEN Bad("unsupported")
    ELSE Then(readMPIs(afterH, 2), LAMBDA ms, rest :
           IF Len(ms[1].bytes) < 8 THEN Bad("structural")
           ELSE IF Len(ms[2].bytes) > 3 THEN Bad("unsupported")
           ELSE Good([time |-> Big(SubSeq(h, 2, 5)), days |-> Big(SubSeq(h, 6, 7)), algo |-> h[8], mpis |-> ms,
                      id |-> SubSeq(ms[1].bytes, Len(ms[1].bytes) - 7, Len(ms[1].bytes))], rest)))

-----------------------------------------------------------------------------
(* Private keys.  Ciphers and string-to-key transforms are one shift of    *)
(* the bytes by a number made of the passphrase and the salt.              *)
AES192 == 8
Known == {2, 3, 7, AES192, 9}
KeySize(c) == CASE c = 2 -> 24 [] c = 3 -> 16 [] c = 7 -> 16 [] c = 8 -> 24 [] c = 9 -> 32 [] OTHER -> 0
blockSize(c) == CASE c \in {2, 3} -> 8 [] c \in {7, 8, 9} -> 16 [] OTHER -> 0
HashIds == {1, 2, 3, 8, 9, 10, 11}
Shift(b, k) == [i \in DOMAIN b |-> (b[i] + k) % 256]
stretch(pass, spec) == ((7 * pass + ByteSum(spec)) % 255) + 1
SHA1(b) == LET s == ByteSum(b) IN [i \in 1..20 |-> (s * i + Len(b)) % 256]

(* s2k.Parse: what follows depends on the mode.                            *)
parseS2K(b) ==
  LET more(mode) == CASE mode = 0 -> 0 [] mode = 1 -> 8 [] mode = 3 -> 9 [] OTHER -> -1
  IN Then(readFull(b, 2), LAMBDA h, afterH :
       IF h[2] \notin HashIds \/ more(h[1]) = -1 THEN Bad("unsupported")
       ELSE Then(readFull(afterH, more(h[1])), LAMBDA s, rest : Good(h \o s, rest)))

ModInv(a, n) == CHOOSE x \in 1..(n - 1) : (a * x) % n = 1
newRSA(p, q) ==
  [primes |-> <<p, q>>, d |-> CHOOSE d \in 1..(p * q) : (3 * d) % (p - 1) = 1 /\ (3 * d) % (q - 1) = 1]
precompute(priv) == ModInv(priv.primes[2], priv.primes[1])
validate(pk, priv) ==
  /\ priv.primes[1] * priv.primes[2] = Value(pk.mpis[1])
  /\ \A i \in 1..2 : priv.primes[i] > 1 /\ (priv.d * Value(pk.mpis[2])) % (priv.primes[i] - 1) = 1

(* OpenPGP wants the inverse of the first prime modulo the second, Go has  *)
(* the inverse of the second modulo the first: the primes change places.   *)
serializeRSAPrivateKey(priv) ==
  writeMPIs(<<fromBig(priv.d), fromBig(priv.primes[2]), fromBig(priv.primes[1]), fromBig(precompute(priv))>>)

serializePrivateData(pk, priv) ==
  IF IsRSA(pk.algo) THEN serializeRSAPrivateKey(priv) ELSE writeMPI(fromBig(priv.x))

serializePrivateKey(pk, priv) ==
  LET data == serializePrivateData(pk, priv)
  IN serializeWithoutHeaders(pk) \o <<0>> \o data \o Two(ByteSum(data))

parsePrivateData(pk, data) ==
  LET Checked(priv) == IF validate(pk, priv) THEN Good([enc |-> FALSE, priv |-> priv], <<>>) ELSE Bad("invalid key")
  IN IF IsRSA(pk.algo)
     THEN Then(readMPIs(data, 3), LAMBDA ms, rest :
            Checked([d |-> Value(ms[1]), primes |-> <<Value(ms[2]), Value(ms[3])>>]))
     ELSE IF pk.algo \in {ECDSA, ECDH} THEN Bad("panic")
     ELSE Then(readMPI(data), LAMBDA m, rest : Good([enc |-> FALSE, priv |-> [x |-> Value(m)]], <<>>))

parsePrivateKey(b) ==
  Then(parsePublicKey(b), LAMBDA pk, body :
    IF body = <<>> THEN Bad("unexpected EOF")
    ELSE IF body[1] = 0 THEN parsePrivateData(pk, Tail(body))
    ELSE IF body[1] \notin {254, 255} THEN Bad("unsupported")
    ELSE IF Len(body) < 2 THEN Bad("unexpected EOF")
    ELSE Then(parseS2K(Rest(body, 2)), LAMBDA spec, afterSpec :
           IF body[2] \notin Known THEN Bad("unsupported")
           ELSE Then(readFull(afterSpec, blockSize(body[2])), LAMBDA iv, data :
                  Good([enc |-> TRUE, pk |-> pk, sha1 |-> body[1] = 254, spec |-> spec, data |-> data], <<>>))))

Decrypt(k, pass) ==
  LET tail == IF k.sha1 THEN 20 ELSE 2
      open(body, sum) == IF (IF k.sha1 THEN SHA1(body) ELSE Two(ByteSum(body))) # sum THEN Bad("structural")
                         ELSE parsePrivateData(k.pk, body)
      split(data) == IF Len(data) < tail THEN Bad("structural")
                     ELSE open(SubSeq(data, 1, Len(data) - tail), Rest(data, Len(data) - tail))
  IN split(Shift(k.data, 256 - stretch(pass, k.spec)))

(* How a key protected by a passphrase is written by other programs.       *)
protectedKey(pk, priv, pass, use) ==
  LET data == serializePrivateData(pk, priv)
      spec == <<3, 8, 1, 2, 3, 4, 5, 6, 7, 8, 96>>
      sum == IF use = 254 THEN SHA1(data) ELSE Two(ByteSum(data))
  IN serializeWithoutHeaders(pk) \o <<use, 7>> \o spec \o [i \in 1..16 |-> i] \o Shift(data \o sum, stretch(pass, spec))

-----------------------------------------------------------------------------
(* Signatures.                                                             *)
creationTime == 2
sigExpiration == 3
keyExpiration == 9
prefSymmetric == 11
issuer == 16
prefHash == 21
prefCompression == 22
primaryUserId == 25
keyFlags == 27
revocationReason == 29
features == 30
embeddedSignature == 32
PrimaryKeyBinding == 25

Sub(hashed, type, critical, contents) ==
  [hashed |-> hashed, type |-> type, critical |-> critical, contents |-> contents]
When(cond, s) == IF cond THEN <<s>> ELSE <<>>

(* What is absent, or 0, is left out.  flags is -1 for none.               *)
buildSubpackets(sig) ==
  <<Sub(TRUE, creationTime, FALSE, Four(sig.time))>>
  \o When(sig.issuer # <<>>, Sub(TRUE, issuer, FALSE, sig.issuer))
  \o When(sig.sigLife > 0, Sub(TRUE, sigExpiration, TRUE, Four(sig.sigLife)))
  \o When(sig.flags >= 0, Sub(TRUE, keyFlags, FALSE, <<sig.flags>>))
  \o When(sig.keyLife > 0, Sub(TRUE, keyExpiration, TRUE, Four(sig.keyLife)))
  \o When(sig.primary, Sub(TRUE, primaryUserId, FALSE, <<1>>))
  \o When(sig.symmetric # <<>>, Sub(TRUE, prefSymmetric, FALSE, sig.symmetric))
  \o When(sig.hashes # <<>>, Sub(TRUE, prefHash, FALSE, sig.hashes))
  \o When(sig.compression # <<>>, Sub(TRUE, prefCompression, FALSE, sig.compression))

(* The bit that makes a subpacket critical is not written.                 *)
serializeSubpackets(subs, hashed) ==
  Cat([i \in DOMAIN subs |->
        IF subs[i].hashed = hashed THEN <<Len(subs[i].contents) + 1, subs[i].type>> \o subs[i].contents ELSE <<>>])
subpacketsLength(subs, hashed) ==
  FoldLeft(LAMBDA a, s : a + (IF s.hashed = hashed THEN 2 + Len(s.contents) ELSE 0), 0, subs)

hashSuffix(type, algo, hash, area) ==
  LET l == 6 + Len(area) IN <<4, type, algo, hash>> \o Two(Len(area)) \o area \o <<4, 255>> \o Four(l)

serializeSignature(suffix, subs, tag, mpis) ==
  SubSeq(suffix, 1, Len(suffix) - 6) \o Two(subpacketsLength(subs, FALSE)) \o serializeSubpackets(subs, FALSE)
    \o tag \o writeMPIs(mpis)
signatureLength(suffix, subs, mpis) ==
  Len(suffix) - 6 + 2 + subpacketsLength(subs, FALSE) + 2 + mpisLength(mpis)

(* The value of a signature before anything was parsed; -1 stands for nil. *)
NoSig ==
  [time |-> -1, issuer |-> <<>>, sigLife |-> -1, keyLife |-> -1, flags |-> -1, primary |-> FALSE,
   symmetric |-> <<>>, hashes |-> <<>>, compression |-> <<>>, reason |-> -1, mdc |-> FALSE, embedded |-> FALSE, raw |-> <<>>]

HashedOnly == {sigExpiration, keyExpiration, prefSymmetric, prefHash, prefCompression, primaryUserId, keyFlags, revocationReason}

\* mutant: subpackets of the area that is not signed count like the others
policyEverywhere(type, hashed) == FALSE

(* These are ignored outside the area that is signed.                      *)
policy(type, hashed) == type \in HashedOnly /\ ~hashed

RECURSIVE parseSignature(_)

(* One subpacket: type t, contents c.                                      *)
parseSignatureSubpacket(sig, t, critical, c, hashed) ==
  LET fourBytes == t \in {creationTime, sigExpiration, keyExpiration}
      wrong == \/ fourBytes /\ Len(c) # 4
               \/ t = issuer /\ Len(c) # 8
               \/ t = primaryUserId /\ Len(c) # 1
               \/ t \in {keyFlags, revocationReason} /\ c = <<>>
      known == HashedOnly \cup {creationTime, issuer, features, embeddedSignature}
      e == parseSignature(c)
      flags == LET old == IF sig.flags = -1 THEN 0 ELSE sig.flags
                   bit(n, k) == (n \div 2 ^ k) % 2
               IN FoldLeft(LAMBDA a, k : a + (IF bit(old, k) + bit(c[1], k) > 0 THEN 2 ^ k ELSE 0), 0, <<0, 1, 2, 3>>)
  IN IF t = creationTime /\ ~hashed THEN Bad("structural")
     ELSE IF policy(t, hashed) THEN Good(sig, <<>>)
     ELSE IF wrong THEN Bad("structural")
     ELSE IF t \notin known THEN IF critical THEN Bad("unsupported") ELSE Good(sig, <<>>)
     ELSE IF t = embeddedSignature
     THEN IF sig.embedded THEN Bad("structural")
          ELSE IF e.err # "none" THEN Bad(e.err)
          ELSE IF e.v.type # PrimaryKeyBinding THEN Bad("structural")
          ELSE Good([sig EXCEPT !.embedded = TRUE], <<>>)
     ELSE Good(CASE t = creationTime -> [sig EXCEPT !.time = Big(c)]
                 [] t = sigExpiration -> [sig EXCEPT !.sigLife = Big(c)]
                 [] t = keyExpiration -> [sig EXCEPT !.keyLife = Big(c)]
                 [] t = prefSymmetric -> [sig EXCEPT !.symmetric = c]
                 [] t = prefHash -> [sig EXCEPT !.hashes = c]
                 [] t = prefCompression -> [sig EXCEPT !.compression = c]
                 [] t = issuer -> [sig EXCEPT !.issuer = c]
                 [] t = primaryUserId -> [sig EXCEPT !.primary = c[1] > 0]
                 [] t = keyFlags -> [sig EXCEPT !.flags = flags]
                 [] t = revocationReason -> [sig EXCEPT !.reason = c[1]]
                 [] t = features -> [sig EXCEPT !.mdc = c # <<>> /\ c[1] % 2 = 1], <<>>)

(* The subpackets of an area, one after the other.                         *)
parseSignatureSubpackets(sig, area, hashed) ==
  LET width(r) == IF r[1] < 192 THEN 1 ELSE IF r[1] < 255 THEN 2 ELSE 5
      size(r) == IF width(r) = 1 THEN r[1] ELSE IF width(r) = 2 THEN (r[1] - 192) * 256 + r[2] + 192 ELSE Big(SubSeq(r, 2, 5))
      take(s, type, c, after) ==
        Then(parseSignatureSubpacket([s EXCEPT !.raw = Append(@, Sub(hashed, type % 128, type >= 128, c))],
                                     type % 128, type >= 128, c, hashed),
             LAMBDA v, rest : Good(v, after))
      cut(s, body, after) == take(s, body[1], Tail(body), after)
      one(s, r, w, n) == IF n > Len(r) - w \/ n = 0 THEN Bad("structural")
                         ELSE cut(s, SubSeq(r, w + 1, w + n), Rest(r, w + n))
      step(s, r) == IF r = <<>> THEN Good(s, r)
                    ELSE IF Len(r) < width(r) THEN Bad("structural") ELSE one(s, r, width(r), size(r))
  IN Then(FoldLeft(LAMBDA a, i : Then(a, step), Good(sig, area), UpTo(MaxSubpackets)),
          LAMBDA s, rest : IF s.time = -1 THEN Bad("structural") ELSE Good(s, rest))

SigAlgos == {RSA, RSASignOnly, DSA, ECDSA}
SigIntegers(algo) == IF algo \in {RSA, RSASignOnly} THEN 1 ELSE 2

parseSignature(b) ==
  IF b # <<>> /\ b[1] # 4 THEN Bad("unsupported")
  ELSE Then(readFull(b, 6), LAMBDA h, afterH :
    IF h[3] \notin SigAlgos \/ h[4] \notin HashIds THEN Bad("unsupported")
    ELSE Then(readFull(afterH, Big(SubSeq(h, 5, 6))), LAMBDA signed, afterSigned :
         Then(parseSignatureSubpackets(NoSig, signed, TRUE), LAMBDA s, none :
         Then(readFull(afterSigned, 2), LAMBDA l, afterL :
         Then(readFull(afterL, Big(l)), LAMBDA un, afterUn :
         Then(parseSignatureSubpackets(s, un, FALSE), LAMBDA sig, nothing :
         Then(readFull(afterUn, 2), LAMBDA tag, afterTag :
         Then(readMPIs(afterTag, SigIntegers(h[3])), LAMBDA ms, rest :
           Good([type |-> h[2], algo |-> h[3], hash |-> h[4], sig |-> sig, tag |-> tag, mpis |-> ms,
                 suffix |-> hashSuffix(h[2], h[3], h[4], signed)], rest)))))))))

(* Version 3 signatures: five signed bytes, no subpackets.  Serialize      *)
(* writes neither a header nor the version and the length of those bytes.  *)
parseSignatureV3(b) ==
  IF b # <<>> /\ b[1] \notin {2, 3} THEN Bad("unsupported")
  ELSE IF Len(b) > 1 /\ b[2] # 5 THEN Bad("unsupported")
  ELSE Then(readFull(b, 19), LAMBDA h, afterH :
         IF h[16] \notin {RSA, RSASignOnly, DSA} \/ h[17] \notin HashIds THEN Bad("unsupported")
         ELSE Then(readMPIs(afterH, SigIntegers(h[16])), LAMBDA ms, rest :
                Good([type |-> h[3], time |-> Big(SubSeq(h, 4, 7)), issuer |-> SubSeq(h, 8, 15), algo |-> h[16],
                      hash |-> h[17], tag |-> SubSeq(h, 18, 19), mpis |-> ms], rest)))
serializeSignatureV3(s) ==
  <<s.type>> \o Four(s.time) \o s.issuer \o <<s.algo, s.hash>> \o s.tag \o writeMPIs(s.mpis)

-----------------------------------------------------------------------------
(* The small packets.                                                      *)
serializeOnePass(o) ==
  <<3, o.type, o.hash, o.algo>> \o o.id \o <<IF o.last THEN 1 ELSE 0>>
(* A wrong version is an error, but the other fields are filled in.        *)
parseOnePass(b) ==
  Then(readFull(b, 13), LAMBDA h, rest :
    IF h[3] \notin HashIds \/ h[1] # 3 THEN Bad("unsupported")
    ELSE Good([type |-> h[2], hash |-> h[3], algo |-> h[4], id |-> SubSeq(h, 5, 12), last |-> h[13] # 0], rest))

SerializeLiteral(l) ==
  LET name == SubSeq(l.name, 1, IF Len(l.name) > 255 THEN 255 ELSE Len(l.name))
  IN <<IF l.binary THEN 98 ELSE 116, Len(name)>> \o name \o Four(l.time) \o l.body

parseLiteral(b) ==
  Then(readFull(b, 2), LAMBDA h, afterH :
  Then(readFull(afterH, h[2]), LAMBDA name, afterName :
  Then(readFull(afterName, 4), LAMBDA time, body :
    Good([binary |-> h[1] = 98, name |-> name, time |-> Big(time), body |-> body], <<>>))))

(* User attributes are subpackets; a photo has a header of 16 bytes.       *)
NewUserAttributePhoto(jpeg) == [type |-> 1, contents |-> <<16, 0, 1, 1>> \o [i \in 1..12 |-> 0] \o jpeg]
serializeUserAttribute(subs) ==
  Cat([i \in DOMAIN subs |-> <<Len(subs[i].contents) + 1, subs[i].type>> \o subs[i].contents])
ImageData(subs) ==
  LET images == SelectSeq(subs, LAMBDA s : s.type = 1 /\ Len(s.contents) > 16)
  IN [i \in DOMAIN images |-> Rest(images[i].contents, 16)]
parseUserAttribute(b) ==
  FoldLeft(LAMBDA a, i :
             IF a.err # "none" \/ a.rest = <<>> THEN a
             ELSE LET r == readFull(Tail(a.rest), a.rest[1])
                  IN IF r.err # "none" \/ r.v = <<>> THEN Bad("structural")
                     ELSE Good(Append(a.v, [type |-> r.v[1], contents |-> Tail(r.v)]), r.rest),
           Good(<<>>, b), UpTo(MaxSubpackets))

(* A block for a public key: 2, bytes that are not 0, 0, the message, one  *)
(* byte shorter than the modulus.                                          *)
encryptBlock(modulus, msg) ==
  IF Len(msg) > modulus - 11 THEN Bad("too long")
  ELSE Good(<<2>> \o [i \in 1..(modulus - 3 - Len(msg)) |-> 1 + (i % 255)] \o <<0>> \o msg, <<>>)

decryptBlock(em) ==
  LET zeros == {i \in 2..Len(em) : em[i] = 0}
      index == CHOOSE i \in zeros : \A j \in zeros : i <= j
  IN IF em[1] # 2 \/ zeros = {} THEN Bad("decryption error")
     ELSE IF index - 1 < 9 THEN Bad("decryption error")
     ELSE Good(Rest(em, index), <<>>)

(* The public-key operation is a shift of the block by the key's number.   *)
SerializeEncryptedKey(algo, id, k) ==
  LET mpi(c) == [bits |-> 8 * Len(c), bytes |-> c]
      mpis(block) == (IF algo = ElGamal THEN <<fromBig(id[8])>> ELSE <<>>) \o <<mpi(Shift(block, id[8]))>>
  IN IF algo \notin {RSA, RSAEncryptOnly, ElGamal} THEN Bad("invalid argument")
     ELSE Then(encryptBlock(k.modulus, <<k.cipher>> \o k.key \o Two(ByteSum(k.key))), LAMBDA block, rest :
            Good(<<3>> \o id \o <<algo>> \o writeMPIs(mpis(block)), <<>>))

(* The error of the last integer is lost: what was not read is zeros.      *)
readLastMPI(b) ==
  LET n == (Big(SubSeq(b, 1, 2)) + 7) \div 8
  IN IF Len(b) < 2 THEN [bits |-> 0, bytes |-> <<>>]
     ELSE [bits |-> Big(SubSeq(b, 1, 2)), bytes |-> [i \in 1..n |-> IF i + 2 <= Len(b) THEN b[i + 2] ELSE 0]]
parseEncryptedKey(b) ==
  Then(readFull(b, 10), LAMBDA h, afterH :
    LET key(mpis) == Good([id |-> SubSeq(h, 2, 9), algo |-> h[10], mpis |-> mpis], <<>>)
    IN IF h[1] # 3 THEN Bad("unsupported")
       ELSE IF h[10] = ElGamal THEN Then(readMPI(afterH), LAMBDA m, rest : key(<<m, readLastMPI(rest)>>))
       ELSE key(IF h[10] \in {RSA, RSAEncryptOnly} THEN <<readLastMPI(afterH)>> ELSE <<>>))

DecryptEncryptedKey(e) ==
  LET split(cipher, key, sum) == IF Two(ByteSum(key)) # sum THEN Bad("structural")
                                 ELSE Good([cipher |-> cipher, key |-> key], <<>>)
  IN IF e.algo \notin {RSA, RSAEncryptOnly, ElGamal} THEN Bad("invalid argument")
     ELSE Then(decryptBlock(Shift(Last(e.mpis).bytes, 256 - e.id[8])), LAMBDA b, rest :
            split(b[1], SubSeq(b, 2, Len(b) - 2), Rest(b, Len(b) - 2)))

maxSessionKeySize == 64
SerializeSymmetricKeyEncrypted(cipher, key, pass) ==
  LET spec == <<3, 8, 8, 7, 6, 5, 4, 3, 2, 1, 96>>
  IN <<4, cipher>> \o spec \o Shift(<<cipher>> \o key, stretch(pass, spec))
parseSymmetricKeyEncrypted(b) ==
  IF Len(b) < 2 THEN Bad("unexpected EOF")
  ELSE IF b[1] # 4 \/ b[2] \notin Known THEN Bad("unsupported")
  ELSE Then(parseS2K(Rest(b, 2)), LAMBDA spec, key :
         IF Len(key) >= maxSessionKeySize THEN Bad("unsupported")
         ELSE Good([cipher |-> b[2], spec |-> spec, key |-> key], <<>>))

DecryptSymmetricKey(e, pass) ==
  LET open(plain) ==
        IF blockSize(plain[1]) = 0 THEN Bad("unsupported")
        ELSE IF Len(plain) = 1 \/ (Len(plain) - 1) % blockSize(plain[1]) # 0 THEN Bad("structural")
        ELSE Good([cipher |-> plain[1], key |-> Tail(plain)], <<>>)
  IN IF e.key = <<>> THEN Good([cipher |-> e.cipher, key |-> [i \in 1..KeySize(e.cipher) |-> stretch(pass, e.spec)]], <<>>)
     ELSE open(Shift(e.key, 256 - stretch(pass, e.spec)))

-----------------------------------------------------------------------------
KeyId == <<1, 2, 3, 4, 5, 6, 7, 8>>
Tag == <<17, 18>>
Digest(algo) == [i \in 1..SigIntegers(algo) |-> [bits |-> 16, bytes |-> <<200, i>>]]
Start == [kind |-> "start"]
Init == trip = Start

PublicKeyTrip(pk) ==
  LET b == serializeWithoutHeaders(pk)
  IN trip' = [kind |-> "public", value |-> pk, bytes |-> b, length |-> publicKeyLength(pk), back |-> parsePublicKey(b)]

PublicKeyV3Trip(pk) ==
  /\ IsRSA(pk.algo)
  /\ LET wide == [pk EXCEPT !.mpis[1] = [bits |-> 64, bytes |-> <<128, 2, 3, 4, 5, 6, 7, 9>>]]
         b == serializeV3(wide, 300)
     IN trip' = [kind |-> "publicV3", value |-> wide, bytes |-> b, length |-> lengthV3(wide), back |-> parseV3(b)]

(* A key is read and written again, as often as its owner likes; then it   *)
(* is locked with a passphrase and opened with one.                        *)
PrivateKeyTrip(p, q, use, pass) ==
  LET pk == [time |-> 5, algo |-> RSA, mpis |-> <<fromBig(p * q), fromBig(3)>>, oid |-> <<>>, kdf |-> <<>>]
      written(b) == readMPIs(Tail(parsePublicKey(b).rest), 4).v
      twice(back, again, locked) ==
        trip' = [kind |-> "private", value |-> <<p, q>>, pass |-> pass, back |-> back, u |-> written(again),
                 third |-> parsePrivateKey(again), opened |-> Decrypt(locked.v, pass)]
      once(b, back) == twice(back, IF back.err = "none" THEN serializePrivateKey(pk, back.v.priv) ELSE b,
                             parsePrivateKey(protectedKey(pk, newRSA(p, q), 1, use)))
      start(b) == once(b, parsePrivateKey(b))
  IN start(serializePrivateKey(pk, newRSA(p, q)))

(* Serialize of a signature that was read: its raw subpackets.             *)
writeAgain(s) == serializeSignature(s.suffix, s.sig.raw, s.tag, s.mpis)

SignatureTrip(sig, algo) ==
  LET read(b, subs, suffix, back) ==
        trip' = [kind |-> "signature", value |-> sig, bytes |-> b, suffix |-> suffix,
                 length |-> signatureLength(suffix, subs, Digest(algo)), back |-> back,
                 again |-> IF back.err = "none" THEN writeAgain(back.v) ELSE <<>>]
      send(b, subs, suffix) == read(b, subs, suffix, parseSignature(b))
      write(subs, suffix) == send(serializeSignature(suffix, subs, Tag, Digest(algo)), subs, suffix)
      build(subs) == write(subs, hashSuffix(0, algo, 8, serializeSubpackets(subs, TRUE)))
  IN build(buildSubpackets(sig))

(* A signature of another program, with critical bits and subpackets that  *)
(* are not signed.                                                         *)
area(subs) ==
  Cat([i \in DOMAIN subs |->
        <<Len(subs[i].contents) + 1, subs[i].type + (IF subs[i].critical THEN 128 ELSE 0)>> \o subs[i].contents])
ForeignTrip(hashed, unhashed) ==
  LET write(u) == <<4, 0, RSA, 8>> \o Two(Len(area(hashed))) \o area(hashed) \o Two(Len(area(u))) \o area(u)
                    \o Tag \o writeMPIs(Digest(RSA))
      read(back) ==
        trip' = [kind |-> "foreign", signed |-> area(hashed), unsigned |-> unhashed, back |-> back, alone |-> parseSignature(write(<<>>)),
                 again |-> IF back.err = "none" THEN parseSignature(writeAgain(back.v)) ELSE back]
  IN read(parseSignature(write(unhashed)))

SignatureV3Trip(algo) ==
  LET s == [type |-> 0, time |-> 5, issuer |-> KeyId, algo |-> algo, hash |-> 2, tag |-> Tag, mpis |-> Digest(algo)]
      b == <<3, 5>> \o serializeSignatureV3(s)
  IN trip' = [kind |-> "signatureV3", value |-> s, bytes |-> b, length |-> Len(b), back |-> parseSignatureV3(b)]

OnePassTrip(last, hash) ==
  LET o == [type |-> 0, hash |-> hash, algo |-> RSA, id |-> KeyId, last |-> last]
      b == serializeOnePass(o)
  IN trip' = [kind |-> "onePass", value |-> o, bytes |-> b, length |-> 13, back |-> parseOnePass(b)]

LiteralTrip(n, binary) ==
  LET l == [binary |-> binary, name |-> [i \in 1..n |-> i % 256], time |-> 7, body |-> <<1, 2>>]
      b == SerializeLiteral(l)
  IN trip' = [kind |-> "literal", value |-> l, bytes |-> b, back |-> parseLiteral(b)]

UserAttributeTrip(photos) ==
  LET subs == [i \in DOMAIN photos |-> NewUserAttributePhoto(photos[i])] \o <<[type |-> 9, contents |-> <<1>>]>>
      b == serializeUserAttribute(subs)
  IN trip' = [kind |-> "photo", value |-> photos, back |-> parseUserAttribute(b), images |-> ImageData(parseUserAttribute(b).v)]

SessionKeyTrip(k, algo) ==
  trip' = LET w == SerializeEncryptedKey(algo, KeyId, k)
          IN [kind |-> "session", value |-> k, algo |-> algo, written |-> w,
              back |-> IF w.err = "none" THEN DecryptEncryptedKey(parseEncryptedKey(w.v).v) ELSE w]

PassphraseTrip(cipher, pass) ==
  LET key == [i \in 1..KeySize(cipher) |-> i]
      b == SerializeSymmetricKeyEncrypted(cipher, key, 1)
  IN trip' = [kind |-> "locked", value |-> [cipher |-> cipher, key |-> key], pass |-> pass, bytes |-> b,
              back |-> DecryptSymmetricKey(parseSymmetricKeyEncrypted(b).v, pass)]

Next ==
  /\ trip = Start
  /\ \/ \E pk \in Keys : PublicKeyTrip(pk) \/ PublicKeyV3Trip(pk)
     \/ \E pq \in PrimePairs, use \in {254, 255}, pass \in {1, 2} : PrivateKeyTrip(pq[1], pq[2], use, pass)
     \/ \E sig \in Signatures, algo \in SigAlgos : SignatureTrip(sig, algo)
     \/ \E f \in Foreign : ForeignTrip(f[1], f[2])
     \/ \E algo \in {RSA, DSA} : SignatureV3Trip(algo)
     \/ \E last \in BOOLEAN, hash \in HashIds : OnePassTrip(last, hash)
     \/ \E n \in {0, 1, 255, 256, 300}, binary \in BOOLEAN : LiteralTrip(n, binary)
     \/ \E photos \in Photos : UserAttributeTrip(photos)
     \/ \E k \in SessionKeys, algo \in {RSA, ElGamal, DSA} : SessionKeyTrip(k, algo)
     \/ \E cipher \in Ciphers, pass \in {1, 2} : PassphraseTrip(cipher, pass)

-----------------------------------------------------------------------------
(* A public key, a version 3 key, a version 3 or one-pass signature is     *)
(* read back as it was written, to the last byte, and the length announced *)
(* before it, which its fingerprint hashes too, is the length of its bytes.*)
KeyReadBack ==
  trip.kind \in {"public", "publicV3", "signatureV3", "onePass"} =>
    /\ trip.back.err = "none" /\ trip.back.rest = <<>>
    /\ \A f \in DOMAIN trip.value \ {"oid", "kdf"} : trip.back.v[f] = trip.value[f]
    /\ trip.length = Len(trip.bytes)
    /\ trip.kind = "public" =>
         /\ trip.back.v = trip.value
         /\ fingerPrint(trip.value) = <<153>> \o Two(Len(trip.bytes)) \o trip.bytes

(* An RSA key that is read, written and read again is the same key; the    *)
(* coefficient in the file is the inverse of the prime that comes first    *)
(* modulo the one that comes second; a locked key is opened by its         *)
(* passphrase and by no other.                                             *)
PrivateKeyReadBack ==
  trip.kind = "private" =>
    LET Factors(k) == {k.v.priv.primes[1], k.v.priv.primes[2]}
    IN /\ trip.back.err = "none" /\ trip.third.err = "none"
       /\ Factors(trip.back) = ToSet(trip.value) /\ Factors(trip.third) = ToSet(trip.value)
       /\ (Value(trip.u[4]) * Value(trip.u[2])) % Value(trip.u[3]) = 1
       /\ (trip.opened.err = "none") <=> trip.pass = 1

(* A signature is read back with every field that was set, hashes to the   *)
(* bytes that were signed, and is written again as the same bytes; the     *)
(* length announced is that of its bytes.                                  *)
SignatureReadBack ==
  trip.kind = "signature" =>
    /\ trip.back.err = "none" /\ trip.back.rest = <<>>
    /\ trip.back.v.suffix = trip.suffix /\ trip.again = trip.bytes /\ trip.length = Len(trip.bytes)
    /\ \A f \in DOMAIN trip.value \ {"sigLife", "keyLife"} : trip.back.v.sig[f] = trip.value[f]
    /\ \A f \in {"sigLife", "keyLife"} :
         trip.back.v.sig[f] = IF trip.value[f] <= 0 THEN -1 ELSE trip.value[f]

(* What a signature says of lifetimes, flags, preferences, the primary     *)
(* user id and revocation is what its signed part says: subpackets added   *)
(* to the other part change none of it, and cannot replace the time of     *)
(* creation.  Three things are taken from that part too, and there replace *)
(* what was signed: the issuer, by which the key is looked for, the        *)
(* feature of modification codes, and a cross-signature, which is verified *)
(* itself.  Written again, it still hashes to the bytes that were signed.  *)
UnhashedIsAdvisory ==
  trip.kind = "foreign" /\ trip.back.err = "none" =>
    LET sig == trip.back.v.sig
        signed == trip.alone.v.sig
        added(t) == {s.contents : s \in {x \in ToSet(trip.unsigned) : x.type = t}}
    IN /\ trip.alone.err = "none"
       /\ \A f \in DOMAIN NoSig \ {"raw", "issuer", "mdc", "embedded"} : sig[f] = signed[f]
       /\ sig.issuer \in IF added(issuer) = {} THEN {signed.issuer} ELSE added(issuer)
       /\ sig.mdc \in IF added(features) = {} THEN {signed.mdc} ELSE {c # <<>> /\ c[1] % 2 = 1 : c \in added(features)}
       /\ sig.embedded <=> signed.embedded \/ added(embeddedSignature) # {}
       /\ trip.back.v.suffix = hashSuffix(0, RSA, 8, trip.signed)
       /\ trip.again.v.suffix = trip.back.v.suffix

(* A key, a signature or a one-pass packet that was cut short anywhere is  *)
(* an error, never a shorter key.                                          *)
TruncatedRefused ==
  trip.kind \in {"public", "publicV3", "signature", "signatureV3", "onePass"} =>
    \A n \in 0..(Len(trip.bytes) - 1) :
      LET b == SubSeq(trip.bytes, 1, n)
          r == CASE trip.kind = "public" -> parsePublicKey(b)
                 [] trip.kind = "publicV3" -> parseV3(b)
                 [] trip.kind = "signature" -> parseSignature(b)
                 [] trip.kind = "signatureV3" -> parseSignatureV3(b)
                 [] trip.kind = "onePass" -> parseOnePass(b)
      IN r.err = "unexpected EOF"

(* Literal data and photos come back as they were written, but for a name  *)
(* that is too long, which loses its end and nothing else.                 *)
ContentsReadBack ==
  /\ trip.kind = "literal" =>
       /\ trip.back.err = "none"
       /\ trip.back.v = [trip.value EXCEPT !.name = SubSeq(@, 1, IF Len(@) > 255 THEN 255 ELSE Len(@))]
  /\ trip.kind = "photo" => trip.back.err = "none" /\ trip.images = trip.value

(* A session key sent to a public key is decrypted as it was sent whenever *)
(* it could be written at all, which it can if and only if the padding     *)
(* leaves room for it and the key encrypts.                                *)
SessionKeyReadBack ==
  trip.kind = "session" =>
    /\ (trip.written.err = "none") <=> trip.algo # DSA /\ Len(trip.value.key) + 3 <= trip.value.modulus - 11
    /\ trip.written.err = "none" =>
         trip.back.err = "none" /\ trip.back.v = [cipher |-> trip.value.cipher, key |-> trip.value.key]

(* The session key of a message locked by a passphrase is read back with   *)
(* that passphrase, unless its length is not a multiple of the block size, *)
(* as that of AES-192 (24 bytes, blocks of 16): then Decrypt refuses what  *)
(* SerializeSymmetricKeyEncrypted has written.                             *)
PassphraseOpens ==
  trip.kind = "locked" /\ trip.pass = 1 =>
    IF trip.value.cipher = AES192 THEN trip.back.err = "structural" ELSE trip.back.err = "none" /\ trip.back.v = trip.value

(* Does not hold: the right passphrase opens what it has locked.           *)
EveryCipherOpens == trip.kind = "locked" /\ trip.pass = 1 => trip.back.err = "none"

=============================================================================
