----------------------------- MODULE PgpMessage -----------------------------
(***************************************************************************)
(* OpenPGP messages (openpgp/write.go, openpgp/read.go): Encrypt and       *)
(* SymmetricallyEncrypt write one, ReadMessage finds a key for it, asking  *)
(* its user when it has to, and reads it; the body is read to its end,     *)
(* where the signature and the authentication code are checked.            *)
(* CheckDetachedSignature looks for a signature by a known key.            *)
(*                                                                         *)
(* Ciphertext is a record that opens with its session key; what was done   *)
(* to it on the way shows in its body and in whether its code, if it has   *)
(* one, still fits.                                                        *)
(***************************************************************************)
EXTENDS PgpEntities

CONSTANTS
  Scenarios,   \* [kind, to, signer, ring, cipher, hash, layers, fault, sigs], see Encrypt
  Available,   \* hash functions that are compiled in
  MaxReaders,  \* readers a packet.Reader nests (32 in the code)
  MaxPrompts,  \* how often the user is asked
  Now          \* the time

VARIABLES
  job,    \* the scenario
  pc,     \* where the writer or the reader is
  cand,   \* candidate ciphers and hashes: the arrays and how much of them counts
  signer, \* the key that signs
  keys,   \* encryption keys chosen so far
  msg,    \* packets written
  rd,     \* packet.Reader: unread packets q, a stack of streams
  pairs,  \* pubKeys: keys with the envelopes they may open
  syms,   \* symKeys
  asked,  \* prompts so far, and whether one was answered wrongly, or with the passphrase
  md      \* MessageDetails, and the error returned

msgVars == <<job, pc, cand, signer, keys, msg, rd, pairs, syms, asked, md>>

KeySize(c) == CASE c = 2 -> 24 [] c \in {3, 7} -> 16 [] c = 8 -> 24 [] c = 9 -> 32 [] OTHER -> 0
AES192 == 8
blockSize(c) == CASE c \in {2, 3} -> 8 [] c \in {7, 8, 9} -> 16 [] OTHER -> 0

NoDetails ==
  [err |-> "none", encrypted |-> FALSE, signed |-> FALSE, signedBy |-> "none", sigErr |-> "none", readErr |-> "none",
   body |-> 0, box |-> "none", prefix |-> 0, sealed |-> FALSE]

Init ==
  /\ job \in Scenarios
  /\ pc = "write"
  /\ cand = [ciphers |-> <<7, 9, 3>>, nc |-> 3, hashes |-> <<8, 10, 2, 3>>, nh |-> 4]
  /\ signer = NoKey /\ keys = <<>> /\ msg = <<>> /\ rd = [q |-> <<>>, in |-> <<>>]
  /\ pairs = <<>> /\ syms = <<>> /\ asked = [n |-> 0, wrong |-> FALSE, right |-> FALSE] /\ md = NoDetails

Refuse(e) == pc' = "refused" /\ md' = [md EXCEPT !.err = e]

-----------------------------------------------------------------------------
(* Writing.                                                                *)

(* In place: the array that the defaults are the last element of.          *)
intersectPreferences(a, n, b) ==
  LET kept == SelectSeq(SubSeq(a, 1, n), LAMBDA v : v \in b)
  IN [a |-> kept \o SubSeq(a, Len(kept) + 1, Len(a)), n |-> Len(kept)]

(* The signer, before anything else.                                       *)
Signer ==
  /\ pc = "write" /\ job.kind = "encrypt"
  /\ \E s \in IF job.signer = <<>> THEN {NoKey} ELSE signingKey(job.signer[1], Now) :
       IF job.signer # <<>> /\ s.priv # "open" THEN Refuse("no signing key") /\ UNCHANGED signer
       ELSE signer' = s /\ pc' = "recipients" /\ UNCHANGED md
  /\ UNCHANGED <<job, cand, keys, msg, rd, pairs, syms, asked>>

(* The next recipient: its key, and what it prefers.                       *)
Recipient ==
  /\ pc = "recipients" /\ Len(keys) < Len(job.to)
  /\ LET e == job.to[Len(keys) + 1]
         prefs(p, default) == IF p = <<>> THEN {default} ELSE ToSet(p)
     IN \E k \in encryptionKey(e, Now), sig \in primaryIdentity(e) :
          IF k = NoKey THEN Refuse("no encryption keys") /\ UNCHANGED <<cand, keys>>
          ELSE \E c \in {intersectPreferences(cand.ciphers, cand.nc, prefs(sig.sym, Last(cand.ciphers)))},
                  h \in {intersectPreferences(cand.hashes, cand.nh, prefs(sig.hashes, Last(cand.hashes)))} :
                 /\ cand' = [ciphers |-> c.a, nc |-> c.n, hashes |-> h.a, nh |-> h.n]
                 /\ keys' = Append(keys, k)
                 /\ UNCHANGED <<pc, md>>
  /\ UNCHANGED <<job, signer, msg, rd, pairs, syms, asked>>

Chosen(s, n, wanted, ok) ==
  LET fit == SelectSeq(SubSeq(s, 1, n), LAMBDA v : v \in ok)
  IN IF wanted \in ToSet(fit) THEN wanted ELSE IF fit = <<>> THEN 0 ELSE fit[1]
chosenCipher == Chosen(cand.ciphers, cand.nc, job.cipher, {2, 3, 7, 8, 9})
chosenHash == Chosen(cand.hashes, cand.nh, job.hash, Available)

(* What happens to a message on its way: a bit is flipped, the end is cut  *)
(* off; or its writer hid whom it is for.                                  *)
Fault(in) ==
  CASE job.fault = "flip" -> [i \in DOMAIN in |-> IF in[i].t = "lit" THEN [in[i] EXCEPT !.body = 2] ELSE in[i]]
    [] job.fault = "cut" -> SelectSeq(in, LAMBDA p : p.t # "sig")
    [] OTHER -> in

Literal == [t |-> "lit", body |-> 1]
Sealed(cipher, in, coded) ==
  [t |-> "se", cipher |-> cipher, in |-> Fault(in), coded |-> coded, intact |-> job.fault \notin {"flip", "cut"}]
Envelopes(ks, cipher) ==
  [i \in DOMAIN ks |-> [t |-> "ek", id |-> IF job.fault = "hidden" THEN "hidden" ELSE ks[i].pk.id, for |-> ks[i].pk.id,
                        algo |-> ks[i].pk.algo, cipher |-> cipher]]
OnePass(k, hash) == [t |-> "ops", id |-> k.pk.id, hash |-> hash, last |-> job.fault # "nested"]
Document == <<"doc", "1", "">>
Signed(k) == Signature("binary", k.pk.id, Document)
Contents(k, hash) == IF k = NoKey THEN <<Literal>> ELSE <<OnePass(k, hash), Literal, Signed(k)>>
RECURSIVE Compressed(_, _)
Compressed(in, n) == IF n = 0 THEN in ELSE <<[t |-> "comp", in |-> Compressed(in, n - 1)]>>

(* The rest of Encrypt, and the close of what it returns.  Envelopes are   *)
(* written before it is known that every key can encrypt.                  *)
Encrypt ==
  /\ pc = "recipients" /\ Len(keys) = Len(job.to)
  /\ IF cand.nc = 0 \/ cand.nh = 0 THEN Refuse("no common algorithms") /\ UNCHANGED msg
     ELSE IF chosenHash = 0 THEN Refuse("no hash function") /\ UNCHANGED msg
     ELSE IF \E i \in DOMAIN keys : ~CanEncrypt(keys[i].pk.algo) THEN Refuse("cannot encrypt") /\ UNCHANGED msg
     ELSE /\ msg' = Envelopes(keys, chosenCipher) \o <<Sealed(chosenCipher, Contents(signer, chosenHash), TRUE)>>
          /\ pc' = "parse" /\ md' = [md EXCEPT !.encrypted = TRUE]
  /\ rd' = [q |-> <<>>, in |-> <<msg'>>]
  /\ UNCHANGED <<job, cand, signer, keys, pairs, syms, asked>>

(* SymmetricallyEncrypt, whose contents may be compressed; another program *)
(* may have added envelopes.                                               *)
SymmetricallyEncrypt ==
  /\ pc = "write" /\ job.kind = "passphrase"
  /\ \E to \in {[i \in DOMAIN job.to |-> CHOOSE k \in encryptionKey(job.to[i], Now) : TRUE]} :
       msg' = <<[t |-> "ske", cipher |-> job.cipher]>> \o Envelopes(to, job.cipher)
              \o <<Sealed(job.cipher, Compressed(<<Literal>>, job.layers), TRUE)>>
  /\ pc' = "parse" /\ md' = [md EXCEPT !.encrypted = TRUE]
  /\ rd' = [q |-> <<>>, in |-> <<msg'>>]
  /\ UNCHANGED <<job, cand, signer, keys, pairs, syms, asked>>

(* A message that another program encrypted without a modification code.   *)
UncodedMessage ==
  /\ pc = "write" /\ job.kind = "uncoded"
  /\ keys' = [i \in DOMAIN job.to |-> CHOOSE k \in encryptionKey(job.to[i], Now) : TRUE]
  /\ \E s \in IF job.signer = <<>> THEN {NoKey} ELSE signingKey(job.signer[1], Now) :
       msg' = Envelopes(keys', job.cipher) \o <<Sealed(job.cipher, Contents(s, job.hash), FALSE)>>
  /\ pc' = "parse" /\ md' = [md EXCEPT !.encrypted = TRUE]
  /\ rd' = [q |-> <<>>, in |-> <<msg'>>]
  /\ UNCHANGED <<job, cand, signer, pairs, syms, asked>>

(* A message that another program signed and compressed, job.layers times. *)
SignedMessage ==
  /\ pc = "write" /\ job.kind = "signed"
  /\ \E s \in signingKey(job.signer[1], Now) :
       msg' = job.sigs \o Compressed(Fault(Contents(s, job.hash)), job.layers)
  /\ pc' = "parse" /\ md' = [md EXCEPT !.encrypted = TRUE]
  /\ rd' = [q |-> <<>>, in |-> <<msg'>>]
  /\ UNCHANGED <<job, cand, signer, keys, pairs, syms, asked>>

(* The primary key signs, whatever it is meant for; the signature joins    *)
(* those the file already has.                                             *)
detachSign ==
  /\ pc = "write" /\ job.kind = "detached"
  /\ IF job.signer[1].priv # "open" THEN Refuse("no signing key") /\ UNCHANGED msg
     ELSE IF job.hash \notin Available THEN Refuse("unsupported") /\ UNCHANGED msg
     ELSE /\ msg' = Append(job.sigs, Signed([pk |-> job.signer[1].primary]))
          /\ pc' = "check" /\ UNCHANGED md
  /\ rd' = [q |-> <<>>, in |-> <<msg'>>]
  /\ UNCHANGED <<job, cand, signer, keys, pairs, syms, asked>>

-----------------------------------------------------------------------------
(* Reading.                                                                *)
EndOfStream == [t |-> "EOF"]
NextPacket(r) ==
  LET left == {i \in DOMAIN r.in : r.in[i] # <<>>}
      top == CHOOSE i \in left : \A j \in left : j <= i
  IN IF r.q # <<>> THEN [p |-> Last(r.q), r |-> [r EXCEPT !.q = Front(@)]]
     ELSE IF left = {} THEN [p |-> EndOfStream, r |-> [r EXCEPT !.in = <<>>]]
     ELSE [p |-> Head(r.in[top]), r |-> [r EXCEPT !.in = Append(SubSeq(@, 1, top - 1), Tail(@[top]))]]
Full(r) == Len(r.in) >= MaxReaders
Push(r, stream) == [r EXCEPT !.in = Append(@, stream)]

(* The packets before the encrypted data.                                  *)
ParsePackets ==
  /\ pc = "parse"
  /\ \E n \in {NextPacket(rd)}, pick \in Picks(job.ring) :
       /\ rd' = IF n.p.t \in {"comp", "lit", "ops"} THEN [n.r EXCEPT !.q = <<n.p>>] ELSE n.r
       /\ CASE n.p.t = "EOF" -> Refuse("EOF") /\ UNCHANGED <<pairs, syms>>
            [] n.p.t = "ske" -> syms' = Append(syms, n.p) /\ UNCHANGED <<pc, md, pairs>>
            [] n.p.t = "ek" ->
                 LET ks == IF n.p.id = "hidden" THEN DecryptionKeys(job.ring) ELSE KeysById(job.ring, n.p.id, pick)
                 IN /\ pairs' = IF CanEncrypt(n.p.algo)
                                THEN pairs \o [i \in DOMAIN ks |-> [id |-> ks[i].pk.id, priv |-> ks[i].priv, ek |-> n.p]] ELSE pairs
                    /\ UNCHANGED <<pc, md, syms>>
            [] n.p.t = "se" -> pc' = "find" /\ md' = [md EXCEPT !.box = n.p] /\ UNCHANGED <<pairs, syms>>
            [] n.p.t \in {"comp", "lit", "ops"} ->
                 /\ IF syms # <<>> \/ pairs # <<>> THEN Refuse("structural")
                    ELSE pc' = "signed" /\ md' = [md EXCEPT !.encrypted = FALSE]
                 /\ UNCHANGED <<pairs, syms>>
            [] OTHER -> UNCHANGED <<pc, md, pairs, syms>>
  /\ UNCHANGED <<job, cand, signer, keys, msg, asked>>

(* The first trial reads a prefix, as long as its cipher's block tells; a  *)
(* later one with another block length is an error.  The right key turns   *)
(* the contents into a new stream.                                         *)
Decrypt(cipher, right) ==
  IF md.prefix \notin {0, blockSize(cipher)} THEN Refuse("invalid") /\ UNCHANGED rd
  ELSE IF ~right THEN pc' = "find" /\ md' = [md EXCEPT !.prefix = blockSize(cipher)] /\ UNCHANGED rd
  ELSE IF Full(rd) THEN Refuse("structural") /\ UNCHANGED rd
  ELSE rd' = Push(rd, md.box.in) /\ pc' = "signed" /\ md' = [md EXCEPT !.sealed = TRUE]

Opens(p) == p.priv = "open" /\ p.id = p.ek.for

\* mutant: only the first key is tried
FindKeyFirst ==
  /\ pc = "find"
  /\ IF pairs # <<>> /\ Opens(pairs[1]) THEN Decrypt(md.box.cipher, TRUE)
     ELSE IF (\A i \in DOMAIN pairs : pairs[i].priv # "locked") /\ syms = <<>> THEN Refuse("key incorrect") /\ UNCHANGED rd
     ELSE pc' = "prompt" /\ UNCHANGED <<md, rd>>
  /\ UNCHANGED <<job, cand, signer, keys, msg, pairs, syms, asked>>

(* Every private key at hand is tried on its envelope; if none fits, the   *)
(* user is asked, as long as a locked key or a passphrase could help.      *)
FindKey ==
  /\ pc = "find"
  /\ IF \E i \in DOMAIN pairs : Opens(pairs[i]) THEN Decrypt(md.box.cipher, TRUE)
     ELSE IF (\A i \in DOMAIN pairs : pairs[i].priv # "locked") /\ syms = <<>> THEN Refuse("key incorrect") /\ UNCHANGED rd
     ELSE pc' = "prompt" /\ UNCHANGED <<md, rd>>
  /\ UNCHANGED <<job, cand, signer, keys, msg, pairs, syms, asked>>

Asked(how) == asked' = [asked EXCEPT !.n = @ + 1, !.wrong = @ \/ how = "wrong", !.right = @ \/ how = "right"]

(* Nobody is there to ask, or the user gives up; or the user unlocks a key *)
(* or types the passphrase.                                                *)
PromptError(e) ==
  /\ pc = "prompt" /\ Refuse(e)
  /\ UNCHANGED <<job, cand, signer, keys, msg, rd, pairs, syms, asked>>
Unlock(id) ==
  /\ pc = "prompt" /\ asked.n < MaxPrompts
  /\ \E i \in DOMAIN pairs : pairs[i].id = id /\ pairs[i].priv = "locked"
  /\ pairs' = [i \in DOMAIN pairs |-> IF pairs[i].id = id THEN [pairs[i] EXCEPT !.priv = "open"] ELSE pairs[i]]
  /\ pc' = "find" /\ Asked("unlocked")
  /\ UNCHANGED <<job, cand, signer, keys, msg, rd, syms, md>>

(* The session key is refused if its length is not a multiple of the block *)
(* size, and the user is asked again.                                      *)
RightPassphrase ==
  /\ pc = "prompt" /\ asked.n < MaxPrompts /\ syms # <<>>
  /\ IF KeySize(syms[1].cipher) % blockSize(syms[1].cipher) = 0 THEN Decrypt(syms[1].cipher, TRUE)
     ELSE pc' = "find" /\ UNCHANGED <<rd, md>>
  /\ Asked("right")
  /\ UNCHANGED <<job, cand, signer, keys, msg, pairs, syms>>

(* A wrong one decrypts the session key to noise: any cipher, and a key as *)
(* long as the right one.  If the length is a multiple of that cipher's    *)
(* block it is tried, which is an error if the cipher wants another        *)
(* length.                                                                 *)
WrongPassphrase(noise) ==
  /\ pc = "prompt" /\ asked.n < MaxPrompts
  /\ LET long == KeySize(syms[1].cipher)
     IN IF syms = <<>> \/ blockSize(noise) = 0 \/ long % blockSize(noise) # 0 THEN pc' = "find" /\ UNCHANGED <<md, rd>>
        ELSE IF long # KeySize(noise) THEN Refuse("invalid") /\ UNCHANGED rd
        ELSE Decrypt(noise, FALSE)
  /\ Asked("wrong")
  /\ UNCHANGED <<job, cand, signer, keys, msg, pairs, syms>>

(* The packets up to the literal data.                                     *)
FindLiteralData ==
  /\ pc = "signed"
  /\ \E n \in {NextPacket(rd)}, pick \in Picks(job.ring) :
       CASE n.p.t = "EOF" -> Refuse("EOF") /\ rd' = n.r
         [] n.p.t = "comp" -> IF Full(n.r) THEN Refuse("structural") /\ rd' = n.r
                              ELSE rd' = Push(n.r, n.p.in) /\ UNCHANGED <<pc, md>>
         [] n.p.t = "ops" ->
              /\ rd' = n.r
              /\ IF ~n.p.last \/ n.p.hash \notin Available THEN Refuse("unsupported")
                 ELSE LET ks == KeysByIdUsage(job.ring, n.p.id, {"sign"}, pick)
                      IN /\ md' = [md EXCEPT !.signed = TRUE, !.signedBy = IF ks = <<>> THEN @ ELSE ks[1].pk.id]
                         /\ UNCHANGED pc
         [] n.p.t = "lit" -> rd' = n.r /\ pc' = "body" /\ md' = [md EXCEPT !.body = n.p.body]
         [] OTHER -> rd' = n.r /\ UNCHANGED <<pc, md>>
  /\ UNCHANGED <<job, cand, signer, keys, msg, pairs, syms, asked>>

(* seMDCReader.Close, or seReader.Close, which has nothing to check.       *)
CloseError == IF md.sealed /\ md.box.coded /\ ~md.box.intact THEN "MDC" ELSE "none"

\* mutant: a reader that does not close what was decrypted
checkReaderOpen == [md EXCEPT !.readErr = "none"]

(* At the end of the body the authentication code is checked.              *)
checkReader == [md EXCEPT !.readErr = CloseError]

(* And the signature, which has to follow; without one the code is not     *)
(* looked at.                                                              *)
signatureCheckReader(p) ==
  IF p.t # "sig" THEN [md EXCEPT !.sigErr = p.t]
  ELSE [md EXCEPT !.readErr = CloseError,
                  !.sigErr = IF p.by = md.signedBy /\ p.over = Document /\ md.body = 1 THEN "none" ELSE "invalid"]

ReadBody ==
  /\ pc = "body" /\ pc' = "read"
  /\ IF md.signedBy # "none"
     THEN \E n \in {NextPacket(rd)} : rd' = n.r /\ md' = signatureCheckReader(n.p)
     ELSE UNCHANGED rd /\ md' = IF md.sealed THEN checkReader ELSE md
  /\ UNCHANGED <<job, cand, signer, keys, msg, pairs, syms, asked>>

(* Of the keys with the issuer's id the first that can sign decides:       *)
(* VerifySignature adds the suffix to the hash, where it stays for the     *)
(* next key, which verifies nothing any more.                              *)
detachedVerdict(ks, sig) ==
  LET able == SelectSeq(ks, LAMBDA k : CanSign(k.pk.algo))
  IN IF able # <<>> /\ VerifySignature(able[1].pk, Document, sig) THEN able[1].pk.id ELSE "none"

(* The first signature by a known key decides.                             *)
CheckDetachedSignature ==
  /\ pc = "check"
  /\ \E n \in {NextPacket(rd)}, pick \in Picks(job.ring) :
       /\ rd' = n.r
       /\ IF n.p.t = "EOF" THEN Refuse("unknown issuer")
          ELSE IF n.p.t # "sig" THEN Refuse("structural")
          ELSE IF n.p.issuer = "none" THEN Refuse("structural")
          ELSE LET ks == KeysByIdUsage(job.ring, n.p.issuer, {"sign"}, pick)
               IN IF ks = <<>> THEN UNCHANGED <<pc, md>>
                  ELSE IF job.hash \notin Available THEN Refuse("unsupported")
                  ELSE /\ pc' = "checked"
                       /\ md' = [md EXCEPT !.signedBy = detachedVerdict(ks, n.p), !.sigErr = IF detachedVerdict(ks, n.p) = "none" THEN "invalid" ELSE "none"]
  /\ UNCHANGED <<job, cand, signer, keys, msg, pairs, syms, asked>>

Next ==
  \/ Signer \/ Recipient \/ Encrypt \/ SymmetricallyEncrypt \/ UncodedMessage \/ SignedMessage \/ detachSign
  \/ ParsePackets \/ FindKey \/ PromptError("key incorrect") \/ PromptError("prompt") \/ RightPassphrase
  \/ \E i \in DOMAIN pairs : Unlock(pairs[i].id)
  \/ \E noise \in {0, 2, 3, 7, 8, 9} : WrongPassphrase(noise)
  \/ FindLiteralData \/ ReadBody \/ CheckDetachedSignature

-----------------------------------------------------------------------------
Intact == job.fault \notin {"flip", "cut"}

(* Everyone a message was encrypted to can read it: whoever has a private  *)
(* key it was encrypted to, open or unlocked when asked, never hears that  *)
(* no key fits.  (Of hidden recipients only subkeys are tried.)            *)
RecipientsCanRead ==
  /\ md.err = "key incorrect" => \A i \in DOMAIN pairs : ~Opens(pairs[i])
  /\ pc \in {"find", "prompt"} /\ asked.n = 0 =>
       \A i \in DOMAIN job.ring, k \in DOMAIN keys :
         /\ job.fault # "hidden" /\ job.ring[i].primary.id = keys[k].pk.id /\ job.ring[i].priv # "none"
            => \E j \in DOMAIN pairs : pairs[j].id = keys[k].pk.id /\ pairs[j].priv = job.ring[i].priv /\ pairs[j].ek.for = pairs[j].id
         /\ \A s \in DOMAIN job.ring[i].subs :
              job.ring[i].subs[s].key.id = keys[k].pk.id /\ job.ring[i].subs[s].priv # "none"
              => \E j \in DOMAIN pairs : pairs[j].id = keys[k].pk.id /\ pairs[j].ek.for = pairs[j].id
  /\ pc = "read" /\ Intact => md.readErr = "none" /\ md.body = 1

(* The passphrase opens the message, unless an earlier wrong one had the   *)
(* prefix read for a cipher with other blocks, or the cipher is AES-192,   *)
(* whose session key is never accepted: the user is asked for ever, and    *)
(* only a private key can help.                                            *)
PassphraseReads ==
  asked.right =>
    IF job.cipher = AES192 THEN md.sealed => \E i \in DOMAIN pairs : Opens(pairs[i])
    ELSE IF md.prefix \in {0, blockSize(job.cipher)} THEN md.sealed ELSE md.err = "invalid"

(* Does not hold: whoever has the passphrase can read the message.         *)
PassphraseHoldersCanRead == asked.right /\ ~asked.wrong => md.sealed

(* Every recipient can handle the cipher and the hash that are used: it    *)
(* prefers them, or said nothing, for which the last candidate stands.     *)
AlgorithmsAgreed ==
  pc = "parse" /\ job.kind = "encrypt" =>
    \A i \in DOMAIN job.to : \E sig \in primaryIdentity(job.to[i]) :
      /\ chosenCipher \in IF sig.sym = <<>> THEN {3} ELSE ToSet(sig.sym)
      /\ chosenHash \in IF sig.hashes = <<>> THEN {3} ELSE ToSet(sig.hashes)

(* Whoever reads to the end of a message is alarmed exactly if it was      *)
(* changed or cut and had a modification code or a signature by a known    *)
(* key.                                                                    *)
TamperNoticed ==
  pc = "read" =>
    (md.readErr # "none" \/ md.sigErr # "none" <=> ~Intact /\ ((md.sealed /\ md.box.coded) \/ md.signedBy # "none"))

(* Does not hold: what was encrypted and then changed raises an alarm (if  *)
(* it has no code, and no known key signed it, it does not).               *)
EncryptedTamperNoticed == pc = "read" /\ md.sealed /\ md.body # 1 => md.readErr # "none" \/ md.sigErr # "none"

Revoked(e) == e.revocations # <<>>

(* The reader who has the signer's key knows who signed, unless the key    *)
(* was revoked; a key that was revoked vouches for nothing.                *)
SignerKnown ==
  pc = "read" /\ md.signed =>
    LET holders == {i \in DOMAIN job.ring : job.ring[i].primary.id = job.signer[1].primary.id}
    IN /\ (\E i \in holders : ~Revoked(job.ring[i])) => md.signedBy # "none"
       /\ (\A i \in holders : Revoked(job.ring[i])) => md.signedBy = "none"

(* A detached signature that is accepted was made, over this file, by a    *)
(* key of the ring that was not revoked, and no forged one came before it  *)
(* under the same name; and that of a key that may sign is accepted if the *)
(* signatures before it are by strangers.                                  *)
DetachedSound ==
  pc = "checked" =>
    /\ md.signedBy # "none" =>
         /\ \E i \in DOMAIN msg : /\ msg[i].by = md.signedBy /\ msg[i].over = Document
                                 /\ \A j \in 1..(i - 1) : msg[j].issuer # md.signedBy
         /\ \E e \in DOMAIN job.ring : ~Revoked(job.ring[e]) /\ job.ring[e].primary.id = md.signedBy
    /\ (\A i \in DOMAIN job.sigs, e \in DOMAIN job.ring : job.sigs[i].issuer # job.ring[e].primary.id) => md.signedBy = job.signer[1].primary.id

(* A wrong passphrase is asked for again: it never ends the reading.       *)
WrongAsksAgain == asked.wrong /\ pc = "refused" => md.err = "prompt"

=============================================================================
