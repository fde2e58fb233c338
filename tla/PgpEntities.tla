----------------------------- MODULE PgpEntities -----------------------------
(***************************************************************************)
(* OpenPGP entities (openpgp/keys.go): a primary key, the identities and   *)
(* subkeys its signatures bind, and the choice of a key for a purpose.     *)
(*                                                                         *)
(* A signature records who really made it (by) and what it is about        *)
(* (over); it verifies when both are as claimed.  Identities are in a map, *)
(* whose order Go chooses anew at every range: where the order matters an  *)
(* operator returns every outcome, or takes the choice as a parameter.     *)
(***************************************************************************)
EXTENDS Integers, Sequences, SequencesExt

CanEncrypt(algo) == algo \in {"rsa", "rsaE", "elgamal"}
CanSign(algo) == algo \in {"rsa", "rsaS", "dsa", "ecdsa"}

Unsigned == "nobody"
Signature(type, issuer, over) ==
  [t |-> "sig", type |-> type, issuer |-> issuer, by |-> issuer, over |-> over, cross |-> "none", valid |-> FALSE, flags |-> {},
   created |-> 0, life |-> -1, primary |-> FALSE, reason |-> FALSE, sym |-> <<>>, hashes |-> <<>>]

VerifySignature(pk, over, sig) == CanSign(pk.algo) /\ sig.by = pk.id /\ sig.over = over
VerifyUserIdSignature(pk, name, sig) == VerifySignature(pk, <<"id", pk.id, name>>, sig)
VerifyRevocationSignature(pk, sig) == VerifySignature(pk, <<"key", pk.id, "">>, sig)

\* mutant: a signing subkey need not have signed its primary key
VerifyKeySignatureOneWay(pk, signed, sig) == VerifySignature(pk, <<"key", pk.id, signed.id>>, sig)

(* A subkey that signs has signed its primary key in turn.                 *)
VerifyKeySignature(pk, signed, sig) ==
  /\ VerifySignature(pk, <<"key", pk.id, signed.id>>, sig)
  /\ "sign" \in sig.flags => CanSign(signed.algo) /\ sig.cross = signed.id

KeyExpired(sig, now) == sig.life # -1 /\ now > sig.created + sig.life

-----------------------------------------------------------------------------
Entity(pk, priv) == [primary |-> pk, priv |-> priv, ids |-> <<>>, revocations |-> <<>>, subs |-> <<>>]
Names(e) == DOMAIN e.ids

(* The identity marked as primary, or whichever comes first.               *)
primaryIdentity(e) ==
  LET marked == {n \in Names(e) : e.ids[n].self.primary}
  IN {e.ids[n].self : n \in IF marked = {} THEN Names(e) ELSE marked}

Key(e, pk, priv, sig) == [entity |-> e, pk |-> pk, priv |-> priv, sig |-> sig]
NoKey == [entity |-> <<>>, pk |-> [id |-> "none", algo |-> "none"], priv |-> "none", sig |-> <<>>]

(* The newest subkey that may, and can, encrypt; else the primary key if   *)
(* nothing is said of its use, or if it may.                               *)
encryptionKey(e, now) ==
  LET fit == {i \in DOMAIN e.subs :
                LET s == e.subs[i]
                IN s.sig.valid /\ "comm" \in s.sig.flags /\ CanEncrypt(s.key.algo) /\ ~KeyExpired(s.sig, now)}
      best == CHOOSE i \in fit : \A j \in fit :
                \/ e.subs[i].sig.created > e.subs[j].sig.created
                \/ e.subs[i].sig.created = e.subs[j].sig.created /\ i <= j
      usable(s) == ~s.valid \/ ("comm" \in s.flags /\ CanEncrypt(e.primary.algo) /\ ~KeyExpired(s, now))
  IN IF fit # {} THEN {Key(e, e.subs[best].key, e.subs[best].priv, e.subs[best].sig)}
     ELSE {IF usable(s) THEN Key(e, e.primary, e.priv, s) ELSE NoKey : s \in primaryIdentity(e)}

(* The first subkey that may, and can, sign; else the primary key.         *)
signingKey(e, now) ==
  LET fit == {i \in DOMAIN e.subs :
                LET s == e.subs[i]
                IN s.sig.valid /\ "sign" \in s.sig.flags /\ CanSign(s.key.algo) /\ ~KeyExpired(s.sig, now)}
      first == CHOOSE i \in fit : \A j \in fit : i <= j
      usable(s) == ~s.valid \/ ("sign" \in s.flags /\ ~KeyExpired(s, now))
  IN IF fit # {} THEN {Key(e, e.subs[first].key, e.subs[first].priv, e.subs[first].sig)}
     ELSE {IF usable(s) THEN Key(e, e.primary, e.priv, s) ELSE NoKey : s \in primaryIdentity(e)}

(* Which self-signature a range over each entity's identities settles on.  *)
Picks(el) == {f \in [DOMAIN el -> UNION {primaryIdentity(el[i]) : i \in DOMAIN el}] :
                \A i \in DOMAIN el : f[i] \in primaryIdentity(el[i])}

KeysById(el, id, pick) ==
  LET of(i) ==
        (IF el[i].primary.id = id THEN <<Key(el[i], el[i].primary, el[i].priv, pick[i])>> ELSE <<>>)
        \o LET subs == SelectSeq(el[i].subs, LAMBDA s : s.key.id = id)
           IN [j \in DOMAIN subs |-> Key(el[i], subs[j].key, subs[j].priv, subs[j].sig)]
  IN FlattenSeq([i \in DOMAIN el |-> of(i)])

(* Nothing that was revoked, nothing meant for another use.                *)
KeysByIdUsage(el, id, usage, pick) ==
  SelectSeq(KeysById(el, id, pick),
            LAMBDA k : /\ k.entity.revocations = <<>> /\ ~k.sig.reason
                       /\ k.sig.valid => usage \subseteq k.sig.flags)

DecryptionKeys(el) ==
  LET of(i) ==
        LET subs == SelectSeq(el[i].subs, LAMBDA s : s.priv # "none" /\ (~s.sig.valid \/ s.sig.flags \cap {"comm", "store"} # {}))
        IN [j \in DOMAIN subs |-> Key(el[i], subs[j].key, subs[j].priv, subs[j].sig)]
  IN FlattenSeq([i \in DOMAIN el |-> of(i)])

-----------------------------------------------------------------------------
(* A fresh entity; its signatures are made when it is first written.       *)
NewEntity(id, sub, name) ==
  LET self == [Signature("positive", id, <<"id", id, name>>) EXCEPT !.by = Unsigned, !.primary = TRUE, !.valid = TRUE, !.flags = {"sign", "certify"}]
      bind == [Signature("binding", id, <<"key", id, sub>>) EXCEPT !.by = Unsigned, !.valid = TRUE, !.flags = {"store", "comm"}]
  IN [Entity([id |-> id, algo |-> "rsa"], "open") EXCEPT
        !.ids = [n \in {name} |-> [self |-> self, sigs |-> <<>>]],
        !.subs = <<[key |-> [id |-> sub, algo |-> "rsa"], priv |-> "open", sig |-> bind]>>]

(* The signatures are made anew; those of others are not written.          *)
SerializePrivate(e, order) ==
  LET again(s) == [s EXCEPT !.by = e.primary.id]
  IN <<[t |-> "sec", key |-> e.primary]>>
     \o FlattenSeq([i \in DOMAIN order |-> <<[t |-> "uid", name |-> order[i]], again(e.ids[order[i]].self)>>])
     \o FlattenSeq([i \in DOMAIN e.subs |-> <<[t |-> "secsub", key |-> e.subs[i].key], again(e.subs[i].sig)>>])

(* No revocation is written.                                               *)
Serialize(e, order) ==
  <<[t |-> "pub", key |-> e.primary]>>
  \o FlattenSeq([i \in DOMAIN order |-> <<[t |-> "uid", name |-> order[i]], e.ids[order[i]].self>> \o e.ids[order[i]].sigs])
  \o FlattenSeq([i \in DOMAIN e.subs |-> <<[t |-> "pubsub", key |-> e.subs[i].key], e.subs[i].sig>>])

Orders(e) == {o \in [1..Cardinality(Names(e)) -> Names(e)] : \A i, j \in DOMAIN o : o[i] = o[j] => i = j}

SignIdentity(e, name, signer) ==
  IF signer.priv # "open" \/ name \notin Names(e) THEN e
  ELSE [e EXCEPT !.ids[name].sigs = Append(@, Signature("generic", signer.primary.id, <<"id", e.primary.id, name>>))]

=============================================================================
