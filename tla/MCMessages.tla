----------------------------- MODULE MCMessages -----------------------------
(* Instances of the modules about messages, those of OTR and of OpenPGP;   *)
(* part names the one a behaviour is about.                                *)
EXTENDS Integers, Sequences

CONSTANT PassphraseCiphers   \* ciphers a passphrase is tried with

VARIABLES part, trip, frame, sent, wire, open, rd, got, cut, segs, rdr, at, ent, el, err, prior,
          job, pc, cand, signer, keys, msg, mrd, pairs, syms, asked, md, box, ser, sealed, se, srd,
          told, todo, oc, net, lost, ogot, osent, plan, smp, swire, sasked, size, line, rc, whole, faults, next, panicked

Idle == "idle"

Scenario(a, b, lose, repeat) == [A |-> a, B |-> b, lose |-> lose, repeat |-> repeat]
OtrScenarios == {
   Scenario(<<"query", "send", "send">>, <<"send", "send">>, 0, 0),
   Scenario(<<"query", "send">>, <<"query", "send">>, 0, 0),
   Scenario(<<"query", "send", "query", "send", "send">>, <<"send", "send">>, 0, 0),
   Scenario(<<"query", "send", "end">>, <<"send", "end", "query">>, 0, 0),
   Scenario(<<"query", "send", "send">>, <<"send">>, 0, 2),
   Scenario(<<"query", "query", "send">>, <<"send">>, 1, 1),
   Scenario(<<"query", "send", "send", "send", "send">>, <<"send", "send", "send", "send">>, 1, 0)}

OT == INSTANCE Otr WITH Scenarios <- OtrScenarios, KeyIds <- 1000, c <- oc, got <- ogot, sent <- osent

Plan(a, b) ==
  [A |-> a, B |-> b, same |-> \A i \in DOMAIN a, j \in DOMAIN b : a[i] = b[j], calls |-> Len(a) + Len(b)]
MCPlans == {Plan(<<1>>, <<1>>), Plan(<<1>>, <<2>>), Plan(<<1, 1>>, <<1>>), Plan(<<1, 1>>, <<2, 2>>), Plan(<<1, 1>>, <<1, 1>>)}
MCRands == {<<3, 5, 7, 2, 9, 4, 6>>, <<1, 8, 4, 6, 10, 3, 2>>}

SM == INSTANCE Smp WITH p <- 23, q <- 11, g <- 2, Rands <- MCRands, Plans <- MCPlans, SSID <- 4, wire <- swire, asked <- sasked

FR == INSTANCE OtrFragments WITH Lengths <- <<9, 23, 25, 24>>, FragmentSizes <- {0, 17, 18, 19, 20, 22, 30}, MaxFaults <- 2

-----------------------------------------------------------------------------
PK == INSTANCE PgpPackets WITH
  Lengths <- {0, 1, 190, 191, 192, 193, 254, 255, 256, 8382, 8383, 8384, 8385, 16318, 16319, 16320, 65535, 65536, 70000},
  WriteSizes <- {0, 1, 3, 9}, ReadSizes <- {1, 3, 20}, MaxWrites <- 2, MaxPower <- 3

Int8(n) == [bits |-> n, bytes |-> [i \in 1..((n + 7) \div 8) |-> IF i = 1 THEN 2 ^ ((n - 1) % 8) ELSE i]]
Point == [bits |-> 19, bytes |-> <<4, 9, 7>>]
Key(time, algo, mpis) == [time |-> time, algo |-> algo, mpis |-> mpis, oid |-> <<>>, kdf |-> <<>>]
P256 == <<42, 134, 72, 206, 61, 3, 1, 7>>
P384 == <<43, 129, 4, 0, 34>>
MCKeys ==
  {Key(t, algo, <<Int8(n), Int8(e)>>) : t \in {0, 1300000000}, algo \in {1, 2, 3}, n \in {8, 9, 31}, e \in {2, 17, 24}}
  \cup {Key(7, 17, <<Int8(a), Int8(b), Int8(a), Int8(b)>>) : a \in {1, 8, 9}, b \in {0, 15, 16, 17}}
  \cup {Key(7, 16, <<Int8(a), Int8(b), Int8(a)>>) : a \in {1, 8, 9}, b \in {0, 15, 16, 17}}
  \cup {[Key(7, 19, <<Point>>) EXCEPT !.oid = o] : o \in {P256, P384}}
  \cup {[Key(7, 18, <<Point>>) EXCEPT !.oid = o, !.kdf = k] : o \in {P256, P384}, k \in {<<8, 7>>, <<0, 255>>}}

Sig(time, life, klife, flags, primary, sym) ==
  [time |-> time, issuer |-> <<1, 2, 3, 4, 5, 6, 7, 8>>, sigLife |-> life, keyLife |-> klife, flags |-> flags, primary |-> primary,
   symmetric |-> sym, hashes |-> <<8>>, compression |-> <<>>]
MCSignatures ==
  {Sig(time, life, klife, flags, primary, sym) :
     time \in {0, 1300000000}, life \in {-1, 0, 300}, klife \in {-1, 0, 86400}, flags \in {-1, 0, 3, 12},
     primary \in BOOLEAN, sym \in {<<>>, <<9, 7>>}}

Unsigned(type, contents) == [hashed |-> FALSE, type |-> type, critical |-> FALSE, contents |-> contents]
Signed(type, contents) == [hashed |-> TRUE, type |-> type, critical |-> FALSE, contents |-> contents]
Created == Signed(2, <<0, 0, 1, 0>>)
CrossSignature(type) == <<4, type, 1, 8, 0, 6, 5, 2, 0, 0, 1, 0, 0, 0, 17, 18, 0, 8, 200>>
Extra == {<<3, <<0, 0, 0, 9>>>>, <<9, <<0, 0, 0, 0>>>>, <<9, <<1, 2>>>>, <<11, <<9>>>>, <<16, <<9, 9, 9, 9, 9, 9, 9, 9>>>>, <<16, <<1>>>>,
          <<21, <<2>>>>, <<22, <<1>>>>, <<25, <<1>>>>, <<27, <<3>>>>, <<27, <<>>>>, <<29, <<2, 65>>>>, <<30, <<1>>>>, <<2, <<0, 0, 0, 1>>>>,
          <<32, CrossSignature(25)>>, <<32, CrossSignature(24)>>, <<99, <<1>>>>}
MCForeign ==
  {<<<<Created, [Signed(a[1], a[2]) EXCEPT !.critical = ca]>>, <<[Unsigned(b[1], b[2]) EXCEPT !.critical = cb]>>>> :
     a \in Extra, b \in Extra, ca \in BOOLEAN, cb \in BOOLEAN}
  \cup {<<<<Signed(a[1], a[2])>>, <<>>>> : a \in Extra}

MCSessionKeys ==
  {[cipher |-> c, key |-> k, modulus |-> n] :
     c \in {7, 9}, k \in {<<0, 0, 255, 255>>, <<1, 2, 3, 4, 5, 6, 7, 0>>, [i \in 1..16 |-> 255]}, n \in {17, 18, 21, 22, 29, 30, 31}}

CO == INSTANCE PgpCodec WITH
  Keys <- MCKeys, PrimePairs <- {<<5, 11>>, <<11, 5>>, <<17, 23>>, <<11, 17>>}, Signatures <- MCSignatures, Foreign <- MCForeign,
  SessionKeys <- MCSessionKeys, Ciphers <- PassphraseCiphers, Photos <- {<<>>, <<<<1>>>>, <<<<1, 2>>, <<3>>>>}

EN == INSTANCE PgpEntities

Pub(id, algo) == [t |-> "pub", key |-> [id |-> id, algo |-> algo]]
PubSub(id, algo) == [t |-> "pubsub", key |-> [id |-> id, algo |-> algo]]
Uid(name) == [t |-> "uid", name |-> name]
Self(id, name) == EN!Signature("positive", id, <<"id", id, name>>)
Other(by, id, name) == EN!Signature("generic", by, <<"id", id, name>>)
Bind(id, sub) == EN!Signature("binding", id, <<"key", id, sub>>)
SignBind(id, sub, cross) == [Bind(id, sub) EXCEPT !.valid = TRUE, !.flags = {"sign"}, !.cross = cross]
Revoke(by, id) == EN!Signature("revocation", by, <<"key", id, "">>)
Packet(t) == [t |-> t]
Segment(kind, packets) == [kind |-> kind, packets |-> packets]
MCSegments ==
  {Segment("intact", EN!SerializePrivate(EN!NewEntity("n", "n2", "Nora"), <<"Nora">>)),
   Segment("intact", <<Pub("a", "dsa"), Uid("Ann"), Other("z", "a", "Ann"), Self("a", "Ann"), Packet("attr"), PubSub("a2", "rsa"),
                       SignBind("a", "a2", "a2"), Packet("unknown"), Uid("A. A."), Self("a", "A. A.")>>),
   Segment("intact", <<Pub("r", "rsa"), Revoke("r", "r"), Uid("Rob"), Self("r", "Rob")>>),
   Segment("unreadable", <<Packet("unsupported"), Uid("U"), Self("u", "U")>>),
   Segment("unreadable", <<Pub("i", "rsa"), Uid("Ivy"), [Self("i", "Ivy") EXCEPT !.by = "z"]>>),
   Segment("unreadable", <<Pub("s", "rsa"), Uid("Sam"), Self("s", "Sam"), PubSub("a2", "rsa"), SignBind("s", "a2", "none")>>),
   Segment("alien", <<Pub("f", "rsa"), Revoke("z", "f"), Uid("Fay"), Self("f", "Fay")>>),
   Segment("unreadable", <<Pub("e", "elgamal"), Uid("Eve"), Packet("unsupported"), Self("e", "Eve")>>),
   Segment("unreadable", <<Uid("Tom"), Other("z", "t", "Tom")>>),
   Segment("cut", <<Pub("c", "rsa"), Uid("Cat")>>),
   Segment("cut", <<Pub("d", "rsa"), Uid("Dan"), Self("d", "Dan"), PubSub("d2", "rsa")>>),
   Segment("unreadable", <<Pub("m", "rsa"), Packet("structural"), Uid("Max")>>),
   Segment("empty", <<Packet("empty")>>)}

KR == INSTANCE PgpKeyRing WITH Segments <- MCSegments, MaxSegments <- 3

Prefers(e, name, sym, hashes) == [e EXCEPT !.ids[name].self.sym = sym, !.ids[name].self.hashes = hashes]
Ann == Prefers(EN!NewEntity("a", "a2", "Ann"), "Ann", <<9, 3>>, <<10, 8>>)
Bob == [EN!NewEntity("b", "b2", "Bob") EXCEPT !.priv = "locked", !.subs[1].priv = "locked"]
Cat == Prefers(EN!NewEntity("c", "c2", "Cat"), "Cat", <<7, 3, 9>>, <<2, 3, 8>>)
Old == [EN!Entity([id |-> "o", algo |-> "dsa"], "open") EXCEPT
          !.ids = [n \in {"Old", "Oldie"} |-> [self |-> [EN!Signature("positive", "o", <<"id", "o", n>>) EXCEPT
                                                          !.sym = IF n = "Old" THEN <<7>> ELSE <<>>], sigs |-> <<>>]]]
Rsa == [Old EXCEPT !.primary = [id |-> "p", algo |-> "rsa"]]
Two == [Cat EXCEPT !.subs = <<[@[1] EXCEPT !.sig.created = 1], [@[1] EXCEPT !.key.id = "c3", !.sig.created = 2],
                             [@[1] EXCEPT !.key.id = "c4", !.sig.created = 3, !.sig.life = 1]>>]
Public(e) == [e EXCEPT !.priv = "none", !.subs = [i \in DOMAIN @ |-> [@[i] EXCEPT !.priv = "none"]]]
Revoked(e) == [Public(e) EXCEPT !.revocations = <<EN!Signature("revocation", e.primary.id, <<"key", e.primary.id, "">>)>>]
By(id) == EN!Signature("binary", id, <<"doc", "1", "">>)
Forged(id) == [By(id) EXCEPT !.by = "z"]

Job(kind, to, sg, ring, cipher, hash, layers, fault, sigs) ==
  [kind |-> kind, to |-> to, signer |-> sg, ring |-> ring, cipher |-> cipher, hash |-> hash, layers |-> layers, fault |-> fault, sigs |-> sigs]
Recipients == {<<Ann>>, <<Bob>>, <<Ann, Bob>>, <<Bob, Ann>>, <<Ann, Cat>>, <<Cat, Bob>>, <<Old>>, <<Rsa, Cat>>, <<Two>>, <<Cat, Cat>>}
Rings == {<<Ann>>, <<Bob, Public(Ann)>>, <<Public(Cat), Bob, Ann>>, <<Public(Ann), Rsa>>, <<Two, Bob, Revoked(Ann)>>, <<Public(Bob), Cat>>}
Faults == {"none", "flip", "cut", "hidden", "nested"}
MCScenarios ==
  {Job("encrypt", to, sg, ring, cipher, 8, 0, fault, <<>>) :
     to \in Recipients, sg \in {<<>>, <<Ann>>, <<Bob>>, <<Public(Cat)>>}, ring \in Rings, cipher \in {7, 9}, fault \in Faults}
  \cup {Job("passphrase", to, <<>>, <<Bob>>, cipher, 8, layers, fault, <<>>) :
          to \in {<<>>, <<Bob>>}, cipher \in {2, 3, 7, 8, 9}, layers \in {0, 1, 3, 4}, fault \in {"none", "flip"}}
  \cup {Job("uncoded", to, sg, ring, cipher, 8, 0, fault, <<>>) :
          to \in {<<Ann>>, <<Bob>>, <<Cat, Bob>>}, sg \in {<<>>, <<Ann>>, <<Cat>>}, ring \in Rings, cipher \in {3, 9}, fault \in {"none", "flip", "cut", "hidden"}}
  \cup {Job("signed", <<>>, <<sg>>, ring, 7, hash, layers, fault, sigs) :
          sg \in {Ann, Cat}, ring \in Rings, hash \in {8, 11}, layers \in {0, 1, 3, 4}, fault \in Faults, sigs \in {<<>>, <<By("q")>>}}
  \cup {Job("detached", <<>>, <<sg>>, ring, 7, hash, 0, "none", sigs) :
          sg \in {Ann, Bob}, ring \in Rings, hash \in {8, 11}, sigs \in {<<>>, <<By("q")>>, <<Forged("a")>>, <<Forged("c"), By("c")>>, <<[By("a") EXCEPT !.issuer = "none"]>>}}

MS == INSTANCE PgpMessage WITH
  Scenarios <- MCScenarios, Available <- {2, 8, 10}, MaxReaders <- 4, MaxPrompts <- 2, Now <- 5, rd <- mrd

messageVars == <<job, pc, cand, signer, keys, msg, mrd, pairs, syms, asked, md>>
IdleMessage ==
  job = Idle /\ pc = Idle /\ cand = Idle /\ signer = Idle /\ keys = Idle /\ msg = Idle /\ mrd = Idle /\ pairs = Idle /\ syms = Idle
  /\ asked = Idle /\ md = Idle
ST == INSTANCE PgpStream WITH
  Texts <- {<<>>, <<7>>, <<7, 0, 255, 211>>, <<211, 3, 1, 2, 3, 4, 5>>, [i \in 1..12 |-> 20 * i]}, BlockSize <- 3, Keys <- 1..5, WriteSizes <- {1, 2, 3}, ReadSizes <- {0, 1, 4, 5, 6, 9, 30},
  rdr <- srd

Strings(chars, n) == UNION {[1..k -> chars] : k \in 0..n}
TX == INSTANCE PgpText WITH
  Texts <- Strings({"a", "-", " ", "r", "n"}, 4) \cup {<<"a", "n", "END TEXT", "n", "a">>, <<"START", "n", "-", "n", "n", "END", "a">>},
  Payloads <- {<<>>, <<0>>, <<255, 255>>, <<1, 2, 3>>, <<77, 0, 128, 5>>, <<9, 8, 7, 6, 5, 4>>, [i \in 1..7 |-> 30 * i]},
  LineLength <- 4, MaxLine <- 7, Names <- Strings({"a", " ", "("}, 2), Ids <- Strings({"a", "(", ")", "<", ">"}, 4),
  Counts <- {0, 1, 1023, 1024, 1025, 1088, 1089, 65535, 65536, 65537, 63000000, 65011711, 65011712, 65011713, 2000000000},
  Stretches <- {[in |-> [i \in 1..n |-> 10 + i], salt |-> [i \in 1..m |-> 20 + i], count |-> c, out |-> o] :
                  n \in {1, 3}, m \in {0, 2}, c \in {0, 1, 5, 6, 7, 11}, o \in {0, 1, 4, 5, 9}}

streamVars == <<box, ser, sealed, se, srd>>
IdleStream == box = Idle /\ ser = Idle /\ sealed = Idle /\ se = Idle /\ srd = Idle
ringVars == <<segs, rdr, at, ent, el, err, prior>>
IdleRing == segs = Idle /\ rdr = Idle /\ at = Idle /\ ent = Idle /\ el = Idle /\ err = Idle /\ prior = Idle
packetVars == <<frame, sent, wire, open, rd, got, cut>>
IdlePackets == frame = Idle /\ sent = Idle /\ wire = Idle /\ open = Idle /\ rd = Idle /\ got = Idle /\ cut = Idle

otVars == <<todo, oc, net, lost, ogot, osent>>
IdleOT == todo = Idle /\ oc = Idle /\ net = Idle /\ lost = Idle /\ ogot = Idle /\ osent = Idle
smVars == <<plan, smp, swire, sasked>>
IdleSM == plan = Idle /\ smp = Idle /\ swire = Idle /\ sasked = Idle
frVars == <<size, line, rc, whole, faults, next, panicked>>
IdleFR == size = Idle /\ line = Idle /\ rc = Idle /\ whole = Idle /\ faults = Idle /\ next = Idle /\ panicked = Idle
pgpVars == <<trip, packetVars, ringVars, messageVars, streamVars>>
IdlePgp == trip = Idle /\ IdlePackets /\ IdleRing /\ IdleMessage /\ IdleStream
otrVars == <<told, otVars, smVars, frVars>>
IdleOtr == told = Idle /\ IdleOT /\ IdleSM /\ IdleFR
vars == <<part, pgpVars, otrVars>>

Init ==
  \/ part = "otr" /\ OT!Init /\ IdleSM /\ IdleFR /\ IdlePgp
  \/ part = "smp" /\ SM!Init /\ IdleOT /\ IdleFR /\ IdlePgp
  \/ part = "fragments" /\ FR!Init /\ told = Idle /\ IdleOT /\ IdleSM /\ IdlePgp
  \/ part = "packets" /\ PK!Init /\ trip = Idle /\ IdleRing /\ IdleMessage /\ IdleStream /\ IdleOtr
  \/ part = "codec" /\ CO!Init /\ IdlePackets /\ IdleRing /\ IdleMessage /\ IdleStream /\ IdleOtr
  \/ part = "text" /\ TX!Init /\ IdlePackets /\ IdleRing /\ IdleMessage /\ IdleStream /\ IdleOtr
  \/ part = "ring" /\ KR!Init /\ trip = Idle /\ IdlePackets /\ IdleMessage /\ IdleStream /\ IdleOtr
  \/ part = "message" /\ MS!Init /\ trip = Idle /\ IdlePackets /\ IdleRing /\ IdleStream /\ IdleOtr
  \/ part = "stream" /\ ST!Init /\ trip = Idle /\ IdlePackets /\ IdleRing /\ IdleMessage /\ IdleOtr

Next ==
  \/ part = "otr" /\ OT!Next /\ UNCHANGED <<part, smVars, frVars, pgpVars>>
  \/ part = "smp" /\ SM!Next /\ UNCHANGED <<part, otVars, frVars, pgpVars>>
  \/ part = "fragments" /\ FR!Next /\ UNCHANGED <<part, told, otVars, smVars, pgpVars>>
  \/ part = "packets" /\ PK!Next /\ UNCHANGED <<part, trip, ringVars, messageVars, streamVars, otrVars>>
  \/ part = "codec" /\ CO!Next /\ UNCHANGED <<part, packetVars, ringVars, messageVars, streamVars, otrVars>>
  \/ part = "text" /\ TX!Next /\ UNCHANGED <<part, packetVars, ringVars, messageVars, streamVars, otrVars>>
  \/ part = "ring" /\ KR!Next /\ UNCHANGED <<part, trip, packetVars, messageVars, streamVars, otrVars>>
  \/ part = "message" /\ MS!Next /\ UNCHANGED <<part, trip, packetVars, ringVars, streamVars, otrVars>>
  \/ part = "stream" /\ ST!Next /\ UNCHANGED <<part, trip, packetVars, ringVars, messageVars, otrVars>>

Spec == Init /\ [][Next]_vars

-----------------------------------------------------------------------------
(* Otr: parties that have finished an exchange agree on their keys, and in *)
(* a session four slots are enough (processSig, calcDataKeys).             *)
OtrAgree == part = "otr" => OT!AgreeOnKeys /\ OT!SlotsSufficeInSession

(* Otr, OtrFragments: texts arrive in order, at most once, and in a session*)
(* all of them; a message cut up comes out whole, and one fault never makes*)
(* one message of two (processData, encode, processFragment).              *)
OtrDelivers ==
  /\ part = "otr" => OT!InOrderOnce /\ OT!Arrives
  /\ part = "fragments" => FR!AllWhole /\ FR!NeverJoined

(* Smp: an authentication completes if and only if the secrets are equal;  *)
(* who started one is told how it ended, or, where both have started one   *)
(* or one was started again, both are back at the beginning (processSMP,   *)
(* resetSMP).                                                              *)
SmpExact == part = "smp" => SM!SmpSound /\ SM!SmpComplete /\ SM!ToldOrAnew

(* PgpPackets, PgpCodec: headers, lengths and streams in pieces are read as*)
(* they were written; so are keys, which only their passphrase opens,      *)
(* signatures, contents and session keys, but for those a passphrase locks *)
(* for AES-192, which are refused; what is cut short is refused, and the   *)
(* part of a signature that is not signed decides no more than the issuer, *)
(* the feature of modification codes and the cross-signature.              *)
CodecReadBack ==
  /\ part = "packets" => PK!HeaderReadBack /\ PK!SubpacketReadBack /\ PK!StreamReadBack
  /\ part = "codec" =>
       /\ CO!KeyReadBack /\ CO!PrivateKeyReadBack /\ CO!SignatureReadBack /\ CO!ContentsReadBack
       /\ CO!SessionKeyReadBack /\ CO!PassphraseOpens
       /\ CO!TruncatedRefused /\ CO!UnhashedIsAdvisory

(* PgpKeyRing: entities that are read are bound by signatures; those that  *)
(* are written come back, without their revocations; and the keys of a     *)
(* file that are read, with broken and unsupported ones between them, are  *)
(* the ones KeysRead names (ReadKeyRing, ReadEntity, Serialize).           *)
RingSound == part = "ring" => KR!RingSound /\ KR!ReadBack /\ KR!KeysRead

(* PgpMessage: whoever has a private key a message is for can read it, so  *)
(* can whoever has its passphrase, but for AES-192 and after some wrong    *)
(* trials, and all can handle the algorithms (Encrypt, ReadMessage).       *)
MessagesReach == part = "message" => MS!RecipientsCanRead /\ MS!PassphraseReads /\ MS!AlgorithmsAgreed

(* PgpMessage, PgpStream: a changed message is noticed if it has a code or *)
(* a known signer, and only then; the signer is known, detached signatures *)
(* vouch for the file; what was encrypted is read as it was written, what  *)
(* was changed does not close well if it has a code, a refused key leaves  *)
(* the prefix alone (signatureCheckReader, seMDCReader, seReader).         *)
MessagesTrue ==
  /\ part = "message" => MS!TamperNoticed /\ MS!SignerKnown /\ MS!DetachedSound
  /\ part = "stream" => ST!StreamIntact /\ ST!TamperCaught /\ ST!TrialLeavesPrefix

(* PgpMessage: a wrong passphrase is asked for again.                      *)
WrongAsksAgain == part = "message" => MS!WrongAsksAgain

(* PgpText: canonical text does not depend on how it is written, signer    *)
(* and reader of a text agree on what it is, armor comes off as it was put *)
(* on, user ids come apart as they were put together; exactly the count of *)
(* a passphrase is hashed, rounded up (Decode, Encode, Iterated).          *)
TextsReadBack ==
  part = "text" =>
    /\ TX!CanonicalStable /\ TX!ClearAgrees /\ TX!ArmorReadBack
    /\ TX!UserIdReadBack /\ TX!CountRoundsUp /\ TX!StretchExact

(* PgpText: reading a message ends.                                        *)
DecodeEnds == part = "text" => TX!DecodeEnds

=============================================================================
