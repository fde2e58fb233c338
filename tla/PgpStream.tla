------------------------------ MODULE PgpStream ------------------------------
(***************************************************************************)
(* Symmetrically encrypted data (openpgp/packet/ocfb.go,                   *)
(* symmetrically_encrypted.go): OpenPGP's cipher feedback mode, the trial  *)
(* of keys, and the code that seMDCWriter puts at the end and seMDCReader  *)
(* holds back and checks.  The block cipher and the hash are toys that     *)
(* keep their shape; writes and reads come in pieces of any size.          *)
(***************************************************************************)
EXTENDS Integers, Sequences, SequencesExt, Bitwise

CONSTANTS
  Texts,       \* sequences of bytes to encrypt
  BlockSize,   \* bytes of the cipher's block, at least 2
  Keys,        \* keys; the first is the right one
  WriteSizes, ReadSizes   \* bytes at once

VARIABLES
  box,    \* what is encrypted: [text, mdc, fault], and where we are
  ser,    \* the writer: what is left to write, hash state, cipher stream
  sealed, \* ciphertext: the prefix, then the contents
  se,     \* the packet: its prefix, the contents not yet read
  rdr     \* seMDCReader: trailer, hash state, flags; and the bytes returned

streamVars == <<box, ser, sealed, se, rdr>>

DigestSize == 3
Trailer == 2 + DigestSize
Tag == 211
Right == 1

(* Toys: a function of key and block, and a hash of DigestSize bytes.      *)
Encrypt(key, b) == [i \in DOMAIN b |-> (37 * key * i + 5 * b[i] + 11 * b[(i % Len(b)) + 1] + 29) % 256]
Sha1(h, s) == FoldLeft(LAMBDA a, c : (a * 31 + c + 7) % 16777213, h, s)
Digest(h) == <<h \div 65536, (h \div 256) % 256, h % 256>>
XorBytes(a, b) == [i \in DOMAIN a |-> a[i] ^^ b[i]]
Zeros == [i \in 1..BlockSize |-> 0]

-----------------------------------------------------------------------------
(* After the prefix the stream goes on from its last bytes, or in step     *)
(* with the block again.                                                   *)
Synced(key, prefix, fre, resync) ==
  IF resync THEN [fre |-> Encrypt(key, SubSeq(prefix, 3, BlockSize + 2)), used |-> 0]
  ELSE [fre |-> [fre EXCEPT ![1] = prefix[BlockSize + 1], ![2] = prefix[BlockSize + 2]], used |-> 2]

(* The random bytes, the last two of them again.                           *)
NewOCFBEncrypter(key, rand, resync) ==
  LET head == XorBytes(rand, Encrypt(key, Zeros))
      fre == Encrypt(key, head)
      prefix == head \o <<fre[1] ^^ rand[BlockSize - 1], fre[2] ^^ rand[BlockSize]>>
  IN [prefix |-> prefix, s |-> Synced(key, prefix, fre, resync)]

Fresh(key, x) == IF x.used = BlockSize THEN [fre |-> Encrypt(key, x.fre), used |-> 0] ELSE x
encryptXOR(key, stream, src) ==
  FoldLeft(LAMBDA a, c : LET x == Fresh(key, a.x) e == x.fre[x.used + 1] ^^ c
                         IN [x |-> [fre |-> [x.fre EXCEPT ![x.used + 1] = e], used |-> x.used + 1], dst |-> Append(a.dst, e)],
           [x |-> stream, dst |-> <<>>], src)

decryptXOR(key, stream, src) ==
  FoldLeft(LAMBDA a, c : LET x == Fresh(key, a.x)
                         IN [x |-> [fre |-> [x.fre EXCEPT ![x.used + 1] = c], used |-> x.used + 1],
                             dst |-> Append(a.dst, x.fre[x.used + 1] ^^ c)],
           [x |-> stream, dst |-> <<>>], src)

(* The repeated bytes tell a wrong key; the prefix is then left alone.     *)
NewOCFBDecrypter(key, prefix, resync) ==
  LET head == XorBytes(SubSeq(prefix, 1, BlockSize), Encrypt(key, Zeros))
      fre == Encrypt(key, SubSeq(prefix, 1, BlockSize))
      copy == head \o <<prefix[BlockSize + 1] ^^ fre[1], prefix[BlockSize + 2] ^^ fre[2]>>
      ok == copy[BlockSize - 1] = copy[BlockSize + 1] /\ copy[BlockSize] = copy[BlockSize + 2]
  IN [ok |-> ok, prefix |-> IF ok THEN copy ELSE prefix, s |-> Synced(key, prefix, fre, resync)]

-----------------------------------------------------------------------------
Rand == [i \in 1..BlockSize |-> (91 * i) % 256]
Faults == {"none", "flip", "short", "long"}
NoReader == [s |-> [fre |-> Zeros, used |-> 0], h |-> 0, trailer |-> <<>>, error |-> FALSE, eof |-> FALSE, out |-> <<>>, closed |-> "no"]

(* SerializeSymmetricallyEncrypted; without a code if another program      *)
(* wrote it.                                                               *)
Init ==
  /\ box \in [text : Texts, mdc : BOOLEAN, fault : Faults, pc : {"write"}]
  /\ LET e == NewOCFBEncrypter(Right, Rand, ~box.mdc)
     IN /\ sealed = e.prefix
        /\ ser = [left |-> box.text, h |-> Sha1(0, Rand \o SubSeq(Rand, BlockSize - 1, BlockSize)), s |-> e.s]
  /\ se = [prefix |-> <<>>, in |-> <<>>]
  /\ rdr = NoReader

Write(n) ==
  /\ box.pc = "write" /\ n <= Len(ser.left)
  /\ LET b == SubSeq(ser.left, 1, n)
     IN \E x \in {encryptXOR(Right, ser.s, b)} :
          /\ sealed' = sealed \o x.dst
          /\ ser' = [left |-> SubSeq(ser.left, n + 1, Len(ser.left)), h |-> Sha1(ser.h, b), s |-> x.x]
  /\ UNCHANGED <<box, se, rdr>>

(* seMDCWriter.Close, and what happens on the way to the reader.           *)
Close ==
  /\ box.pc = "write" /\ ser.left = <<>>
  /\ \E whole \in {IF box.mdc THEN sealed \o encryptXOR(Right, ser.s, <<Tag, DigestSize>> \o Digest(Sha1(ser.h, <<Tag, DigestSize>>))).dst ELSE sealed} :
       sealed' \in CASE box.fault = "none" -> {whole}
                     [] box.fault = "flip" -> {[whole EXCEPT ![i] = @ ^^ 1] : i \in DOMAIN whole}
                     [] box.fault = "short" -> {SubSeq(whole, 1, i) : i \in {0, BlockSize + 1, BlockSize + 2, Len(whole) - 1}}
                     [] box.fault = "long" -> {Append(whole, 0)}
  /\ se' = [prefix |-> <<>>, in |-> sealed']
  /\ box' = [box EXCEPT !.pc = "try"] /\ ser' = [ser EXCEPT !.h = 0, !.s = NoReader.s]
  /\ UNCHANGED rdr

(* SymmetricallyEncrypted.Decrypt with some key.                           *)
Decrypt(key) ==
  /\ box.pc = "try"
  /\ IF se.prefix = <<>> /\ Len(se.in) < BlockSize + 2
     THEN box' = [box EXCEPT !.pc = "unexpected EOF"] /\ UNCHANGED <<se, rdr>>
     ELSE LET prefix == IF se.prefix = <<>> THEN SubSeq(se.in, 1, BlockSize + 2) ELSE se.prefix
              in == IF se.prefix = <<>> THEN SubSeq(se.in, BlockSize + 3, Len(se.in)) ELSE se.in
          IN \E d \in {NewOCFBDecrypter(key, prefix, ~box.mdc)} :
               /\ se' = [prefix |-> d.prefix, in |-> in]
               /\ IF d.ok THEN /\ rdr' = [rdr EXCEPT !.s = d.s, !.h = Sha1(0, d.prefix)]
                               /\ box' = [box EXCEPT !.pc = IF key = Right THEN "read" ELSE "slipped"]
                  ELSE box' = [box EXCEPT !.pc = IF key = Right THEN "key incorrect" ELSE @] /\ UNCHANGED rdr
  /\ UNCHANGED <<ser, sealed>>

(* n bytes of the plaintext below.                                         *)
Take(n) == LET d == decryptXOR(Right, rdr.s, SubSeq(se.in, 1, n)) IN [s |-> d.x, b |-> d.dst]
Taken(n) == se' = [se EXCEPT !.in = SubSeq(@, n + 1, Len(@))]

(* The oldest n bytes go to the caller, the newest stay behind.            *)
Shifted(held, b, n) ==
  LET all == held \o b IN [out |-> SubSeq(all, 1, n), trailer |-> SubSeq(all, n + 1, n + Trailer)]

(* seMDCReader.Read into a buffer of that size: k bytes come from below,   *)
(* and the end with them if together holds.  The trailer is filled first.  *)
Read(size, k, together) ==
  /\ box.pc = "read" /\ box.mdc /\ ~rdr.error /\ ~rdr.eof
  /\ LET fill == Trailer - Len(rdr.trailer)
         have == Len(se.in)
         rest == have - fill
     IN IF rest < 0 \/ (rest = 0 /\ together /\ fill > 0)
        THEN \E t \in {Take(have)} :
               /\ rdr' = [rdr EXCEPT !.trailer = @ \o t.b, !.s = t.s, !.error = rest < 0, !.eof = rest = 0]
               /\ Taken(have) /\ k = 0
        ELSE LET most == IF size <= Trailer THEN size ELSE size - Trailer
                 less == IF most < rest THEN most ELSE rest
             IN /\ k \in (IF size <= Trailer \/ rest = 0 THEN {less} ELSE 1..less)
                /\ \E t \in {Take(fill + k)} : \E x \in {Shifted(rdr.trailer \o SubSeq(t.b, 1, fill), SubSeq(t.b, fill + 1, fill + k), k)} :
                     rdr' = [rdr EXCEPT !.s = t.s, !.trailer = x.trailer, !.out = @ \o x.out, !.h = Sha1(@, x.out),
                                        !.eof = IF size <= Trailer THEN k < size ELSE (k = rest /\ (together \/ k = 0))]
                /\ Taken(fill + k)
  /\ UNCHANGED <<box, ser, sealed>>

(* seMDCReader.Close once the end was seen; before that it reads on.       *)
CloseReader ==
  /\ box.pc = "read" /\ box.mdc /\ rdr.closed = "no" /\ (rdr.error \/ rdr.eof)
  /\ rdr' = [rdr EXCEPT !.closed = IF rdr.error THEN "error during reading"
                                   ELSE IF rdr.trailer[1] # Tag \/ rdr.trailer[2] # DigestSize THEN "MDC packet not found"
                                   ELSE IF Digest(Sha1(rdr.h, SubSeq(rdr.trailer, 1, 2))) # SubSeq(rdr.trailer, 3, Trailer) THEN "hash mismatch"
                                   ELSE "ok"]
  /\ UNCHANGED <<box, ser, sealed, se>>

(* seReader: everything as it comes.                                       *)
ReadPlain(k) ==
  /\ box.pc = "read" /\ ~box.mdc /\ rdr.closed = "no" /\ k <= Len(se.in)
  /\ \E t \in {Take(k)} : rdr' = [rdr EXCEPT !.s = t.s, !.out = @ \o t.b]
  /\ Taken(k)
  /\ UNCHANGED <<box, ser, sealed>>

(* seReader.Close, at any time: there is nothing to check.                 *)
ClosePlain ==
  /\ box.pc = "read" /\ ~box.mdc /\ rdr.closed = "no"
  /\ rdr' = [rdr EXCEPT !.closed = "ok"]
  /\ UNCHANGED <<box, ser, sealed, se>>

Next ==
  \/ \E n \in WriteSizes : Write(n)
  \/ Close
  \/ \E key \in Keys : Decrypt(key)
  \/ \E size \in ReadSizes : \E k \in 0..size, together \in BOOLEAN : Read(size, k, together)
  \/ CloseReader
  \/ \E k \in WriteSizes : ReadPlain(k)
  \/ ClosePlain

-----------------------------------------------------------------------------
(* An untouched message is read as it was written, however the writes and  *)
(* the reads cut it up and however many wrong keys were tried before, and  *)
(* its code fits; no byte of the code is ever taken for text.              *)
StreamIntact ==
  box.fault = "none" =>
    /\ box.pc # "key incorrect" /\ ~rdr.error
    /\ IsPrefix(rdr.out, box.text)
    /\ rdr.closed # "no" => rdr.closed = "ok" /\ (box.mdc => rdr.out = box.text)
    /\ box.pc = "read" /\ ~box.mdc /\ se.in = <<>> => rdr.out = box.text

(* A message with a code that was changed, cut or extended on its way      *)
(* never closes well.  One without a code always does.                     *)
TamperCaught == rdr.closed # "no" /\ box.fault # "none" => (rdr.closed = "ok" <=> ~box.mdc)

(* Does not hold: no message that was changed closes well.                 *)
AllTamperCaught == box.fault # "none" => rdr.closed # "ok"

(* A key that was refused leaves the prefix as it was read, for the next.  *)
TrialLeavesPrefix == box.pc = "try" /\ se.prefix # <<>> => se.prefix = SubSeq(sealed, 1, BlockSize + 2)

=============================================================================
