----------------------------- MODULE PgpKeyRing -----------------------------
(***************************************************************************)
(* Reading a key ring (openpgp/keys.go: ReadKeyRing, ReadEntity,           *)
(* addSubkey, readToNextPublicKey, over packet/reader.go).  A file is a    *)
(* sequence of packets; every action takes the next one.  Entities that    *)
(* cannot be read are skipped.  What was read can be signed, written and   *)
(* read again.                                                             *)
(***************************************************************************)
EXTENDS PgpEntities

CONSTANTS
  Segments,    \* runs of packets, one entity each: [kind, packets]
  MaxSegments  \* entities in a file

VARIABLES
  segs,   \* the entities of the file, for the properties
  rdr,    \* packet.Reader: unread packets q, packets still to come in
  at,     \* where ReadKeyRing is
  ent,    \* the entity being read, its current identity and its revocations
  el,     \* entities read so far
  err,    \* error returned at the end, or the last one skipped over
  prior   \* what was read before it was written again; <<>> the first time

ringVars == <<segs, rdr, at, ent, el, err, prior>>

KeyTypes == {"pub", "sec", "pubsub", "secsub"}
NoName == ""
NoPacket == [t |-> "none"]

(* Reader.Next: the packet unread last, or the next one of a known type.   *)
(* A signature or public key packet without contents reads as the end of   *)
(* the stream, which is not read any further.                              *)
NextPacket(r) ==
  LET known == {i \in DOMAIN r.in : r.in[i].t # "unknown"}
      i == CHOOSE i \in known : \A j \in known : i <= j
  IN IF r.q # <<>> THEN [p |-> Last(r.q), err |-> "none", r |-> [r EXCEPT !.q = Front(@)]]
     ELSE IF known = {} \/ r.in[i].t = "empty" THEN [p |-> NoPacket, err |-> "EOF", r |-> [r EXCEPT !.in = <<>>]]
     ELSE [p |-> r.in[i], err |-> IF r.in[i].t \in {"unsupported", "structural", "unexpected EOF"} THEN r.in[i].t ELSE "none",
           r |-> [r EXCEPT !.in = SubSeq(@, i + 1, Len(@))]]

Unread(r, p) == [r EXCEPT !.q = Append(@, p)]

NoEntity == [e |-> Entity([id |-> "none", algo |-> "none"], "none"), name |-> NoName, revs |-> <<>>, sub |-> NoPacket]

Start(packets, before) ==
  /\ rdr = [q |-> <<>>, in |-> packets]
  /\ at = "entity" /\ ent = NoEntity /\ el = <<>> /\ err = "none" /\ prior = before

Init ==
  /\ segs \in UNION {[1..n -> Segments] : n \in 1..MaxSegments}
  /\ Start(FlattenSeq([i \in DOMAIN segs |-> segs[i].packets]), <<>>)

-----------------------------------------------------------------------------
(* ReadEntity gave an error: the entity is skipped if it is one of these   *)
(* two, and any other loses what was read so far.                          *)
Fail(e, r) ==
  /\ rdr' = r /\ ent' = NoEntity /\ err' = e
  /\ IF e \in {"unsupported", "structural"} THEN at' = "skip" /\ UNCHANGED el
     ELSE at' = "done" /\ el' = <<>>

(* The stream is at its end; the last error counts if nothing was read.    *)
Finish(r) ==
  /\ at' = "done" /\ rdr' = r /\ err' = IF el = <<>> THEN err ELSE "none"
  /\ UNCHANGED <<el, ent>>

Stay(r) == rdr' = r /\ UNCHANGED <<at, el, err, ent>>
Go(where, r, x) == rdr' = r /\ at' = where /\ ent' = x /\ UNCHANGED <<el, err>>

(* The first packet of an entity.                                          *)
ReadEntity ==
  /\ at = "entity"
  /\ \E n \in {NextPacket(rdr)} :
       IF n.err = "EOF" THEN Finish(n.r)
       ELSE IF n.err # "none" THEN Fail(n.err, n.r)
       ELSE IF n.p.t \notin KeyTypes THEN Fail("structural", Unread(n.r, n.p))
       ELSE IF ~CanSign(n.p.key.algo) THEN Fail("structural", n.r)
       ELSE Go("packets", n.r, [NoEntity EXCEPT !.e = Entity(n.p.key, IF n.p.t \in {"sec", "secsub"} THEN "open" ELSE "none")])
  /\ UNCHANGED <<segs, prior>>

(* The entity is over: it has identities, and revokes itself if at all.    *)
EndEntity(r) ==
  IF Names(ent.e) = {} \/ \E i \in DOMAIN ent.revs : ~VerifyRevocationSignature(ent.e.primary, ent.revs[i])
  THEN Fail("structural", r)
  ELSE /\ el' = Append(el, [ent.e EXCEPT !.revocations = ent.revs]) /\ at' = "entity" /\ ent' = NoEntity /\ rdr' = r
       /\ UNCHANGED err

EachSignature(sig, r) ==
  IF sig.type = "revocation" THEN Go("packets", r, [ent EXCEPT !.revs = Append(@, sig)])
  ELSE IF sig.type = "direct" THEN Stay(r)
  ELSE IF ent.name = NoName THEN Fail("structural", r)
  ELSE Go("packets", r, [ent EXCEPT !.e.ids[ent.name].sigs = Append(@, sig)])

EachPacket ==
  /\ at = "packets"
  /\ \E n \in {NextPacket(rdr)} :
       IF n.err = "EOF" THEN EndEntity(n.r)
       ELSE IF n.err # "none" THEN Fail(n.err, n.r)
       ELSE IF n.p.t = "uid"
       THEN Go("self", n.r, [ent EXCEPT !.name = n.p.name,
                                        !.e.ids = [x \in DOMAIN @ \cup {n.p.name} |->
                                                     IF x = n.p.name THEN [self |-> NoPacket, sigs |-> <<>>] ELSE @[x]]])
       ELSE IF n.p.t = "sig" THEN EachSignature(n.p, n.r)
       ELSE IF n.p.t \in {"pub", "sec"} THEN EndEntity(Unread(n.r, n.p))
       ELSE IF n.p.t \in {"pubsub", "secsub"} THEN Go("subkey", n.r, [ent EXCEPT !.sub = n.p])
       ELSE Stay(n.r)
  /\ UNCHANGED <<segs, prior>>

(* Signatures after a user id, up to one by the entity's own key.          *)
SelfSignature ==
  /\ at = "self"
  /\ \E n \in {NextPacket(rdr)} :
       IF n.err = "EOF" THEN Fail("unexpected EOF", n.r)
       ELSE IF n.err # "none" THEN Fail(n.err, n.r)
       ELSE IF n.p.t # "sig" THEN Fail("structural", n.r)
       ELSE IF n.p.type \in {"positive", "generic"} /\ n.p.issuer = ent.e.primary.id
       THEN IF VerifyUserIdSignature(ent.e.primary, ent.name, n.p)
            THEN Go("packets", n.r, [ent EXCEPT !.e.ids[ent.name].self = n.p])
            ELSE Fail("structural", n.r)
       ELSE Go("self", n.r, [ent EXCEPT !.e.ids[ent.name].sigs = Append(@, n.p)])
  /\ UNCHANGED <<segs, prior>>

addSubkey ==
  /\ at = "subkey"
  /\ \E n \in {NextPacket(rdr)} :
       IF n.err = "EOF" THEN Fail("unexpected EOF", n.r)
       ELSE IF n.err # "none" \/ n.p.t # "sig" THEN Fail("structural", n.r)
       ELSE IF n.p.type \notin {"binding", "subRevocation"} \/ ~VerifyKeySignature(ent.e.primary, ent.sub.key, n.p)
       THEN Fail("structural", n.r)
       ELSE Go("packets", n.r,
               [ent EXCEPT !.sub = NoPacket,
                           !.e.subs = Append(@, [key |-> ent.sub.key, priv |-> IF ent.sub.t = "secsub" THEN "open" ELSE "none", sig |-> n.p])])
  /\ UNCHANGED <<segs, prior>>

(* Only a public key stops it; a packet it cannot parse, unless merely     *)
(* unsupported, ends all reading.                                          *)
readToNextPublicKey ==
  /\ at = "skip"
  /\ \E n \in {NextPacket(rdr)} :
       IF n.err = "EOF" THEN Finish(n.r)
       ELSE IF n.err = "unsupported" THEN Stay(n.r)
       ELSE IF n.err # "none" THEN at' = "done" /\ el' = <<>> /\ err' = n.err /\ rdr' = n.r /\ ent' = ent
       ELSE IF n.p.t = "pub" THEN Go("entity", Unread(n.r, n.p), ent)
       ELSE Stay(n.r)
  /\ UNCHANGED <<segs, prior>>

(* An owner of one of the entities signs the identities of the others.     *)
Sign(i, j) ==
  /\ at = "done" /\ prior = <<>> /\ i # j
  /\ \E name \in Names(el[j]) :
       /\ el[j].ids[name].sigs = <<>>
       /\ SignIdentity(el[j], name, el[i]) # el[j]
       /\ el' = [el EXCEPT ![j] = SignIdentity(@, name, el[i])]
  /\ UNCHANGED <<segs, rdr, at, ent, err, prior>>

(* The entities are written, one after the other, and read again.          *)
Rewrite ==
  /\ at = "done" /\ el # <<>> /\ prior = <<>>
  /\ \E orders \in {o \in [DOMAIN el -> UNION {Orders(el[i]) : i \in DOMAIN el}] : \A i \in DOMAIN el : o[i] \in Orders(el[i])} :
       rdr' = [q |-> <<>>, in |-> FlattenSeq([i \in DOMAIN el |-> Serialize(el[i], orders[i])])]
  /\ prior' = el /\ at' = "entity" /\ el' = <<>> /\ ent' = NoEntity /\ err' = "none"
  /\ UNCHANGED segs

Next ==
  \/ ReadEntity \/ EachPacket \/ SelfSignature \/ addSubkey \/ readToNextPublicKey
  \/ \E i, j \in DOMAIN el : Sign(i, j)
  \/ Rewrite

-----------------------------------------------------------------------------
(* Whatever the file holds, an entity that was read has an identity, every *)
(* identity was signed by its key, every subkey was bound by it, a subkey  *)
(* that signs has signed it back, and only its own revocations are kept.   *)
RingSound ==
  \A i \in DOMAIN el :
    LET e == el[i] IN
      /\ Names(e) # {}
      /\ \A n \in Names(e) : VerifySignature(e.primary, <<"id", e.primary.id, n>>, e.ids[n].self)
      /\ \A k \in DOMAIN e.subs :
           /\ VerifySignature(e.primary, <<"key", e.primary.id, e.subs[k].key.id>>, e.subs[k].sig)
           /\ "sign" \in e.subs[k].sig.flags => e.subs[k].sig.cross = e.subs[k].key.id
      /\ \A k \in DOMAIN e.revocations : e.revocations[k].by = e.primary.id

(* Entities that are written come back with all their identities, subkeys  *)
(* and signatures, those of others included; private parts are not written *)
(* by Serialize, and neither are revocations, so that a revoked key comes  *)
(* back as a good one.                                                     *)
Public(e) == [e EXCEPT !.priv = "none", !.revocations = <<>>, !.subs = [k \in DOMAIN @ |-> [@[k] EXCEPT !.priv = "none"]]]
ReadBack ==
  at = "done" /\ prior # <<>> =>
    err = "none" /\ Len(el) = Len(prior) /\ \A i \in DOMAIN el : el[i] = Public(prior[i])

(* Does not hold: a key that was revoked is still revoked when read back.  *)
RevokedStaysRevoked ==
  at = "done" /\ prior # <<>> => \A i \in DOMAIN el : prior[i].revocations # <<>> => el[i].revocations # <<>>

(* What the reader looks for where an entity of the file starts: a new     *)
(* entity, or more of the last one, which will be kept (open) or refused   *)
(* (alien); a signature, without which the last one breaks off; the next   *)
(* public key; or nothing any more.                                        *)
First(i) == segs[i].packets[1].t
Starts(before, first) == before = "entity" \/ (before = "open" /\ first = "sec") \/ (before \in {"open", "alien", "skip"} /\ first = "pub")
Before[i \in 1..(MaxSegments + 1)] ==
  IF i = 1 THEN "entity"
  ELSE LET b == Before[i - 1]
           first == First(i - 1)
       IN CASE b \in {"refused", "over"} -> b
            [] first = "empty" -> IF b = "signature" THEN "refused" ELSE "over"
            [] b = "signature" -> IF \E k \in DOMAIN segs[i - 1].packets : segs[i - 1].packets[k].t = "structural" THEN "refused" ELSE "skip"
            [] b \in {"open", "alien"} /\ first = "uid" -> "signature"
            [] OTHER -> CASE ~Starts(b, first) \/ segs[i - 1].kind = "unreadable" -> "skip"
                          [] segs[i - 1].kind = "cut" -> "signature"
                          [] segs[i - 1].kind = "alien" -> "alien"
                          [] segs[i - 1].kind = "intact" -> "open"

(* Exactly these keys of a file are read: the intact ones that start where *)
(* an entity is looked for and are followed by nothing, or by a key packet *)
(* that can be parsed.  So a key is lost if an unsupported key follows it, *)
(* whose error is taken for its own, or if the one before it breaks off    *)
(* where a signature has to come, for which its first packet is taken; a   *)
(* private key is lost after one that is skipped, as the search is for a   *)
(* public key; and all are lost, with an error, if the file ends where a   *)
(* signature has to come or a packet cannot be parsed during the search.   *)
KeysRead ==
  at = "done" /\ prior = <<>> =>
    LET n == Len(segs)
        refused == Before[n + 1] \in {"refused", "signature"}
        read(i) == /\ segs[i].kind = "intact"
                   /\ Starts(Before[i], First(i))
                   /\ i < n => First(i + 1) \in {"pub", "sec", "empty"}
        kept == IF refused THEN <<>> ELSE SetToSortSeq({i \in 1..n : read(i)}, <)
    IN /\ Len(el) = Len(kept) /\ \A k \in DOMAIN el : el[k].primary = segs[kept[k]].packets[1].key
       /\ refused => err # "none"

(* Does not hold: an intact key is read, whatever keys are around it.      *)
IntactKeysRead ==
  at = "done" /\ prior = <<>> =>
    \A i \in DOMAIN segs : segs[i].kind = "intact" => \E k \in DOMAIN el : el[k].primary = segs[i].packets[1].key

=============================================================================
