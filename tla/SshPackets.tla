----------------------------- MODULE SshPackets ------------------------------
(***************************************************************************)
(* One direction of an SSH connection, byte by byte: the version line      *)
(* (ssh/transport.go), then packets in the form of a packetCipher          *)
(* (ssh/cipher.go): "none" before the first key exchange, "stream" with a  *)
(* MAC, "gcm" and "cbc".  Bytes may be changed, lost or repeated on the    *)
(* way.  Ciphers and MACs are small ones of the same form, which depend on *)
(* the keys the two ends derive; exclusive or is addition modulo 256, the  *)
(* length field is one byte (four in the code).                            *)
(***************************************************************************)
EXTENDS Integers, Sequences, SequencesExt

CONSTANTS
  Modes,         \* subset of {"none", "stream", "gcm", "cbc"}
  Sizes,         \* of packets
  MaxPackets,
  Versions,      \* version lines, as bytes
  MaxVersion,    \* maxVersionStringBytes
  Multiple,      \* packetSizeMultiple, and the block size of cbc
  MinPadding,
  MaxPacket,     \* maxPacket
  IvBase, IvSize, \* digits of the counter in an IV (8 bytes in the code)
  KeySize, DigestSize,
  Places         \* bytes of the line that may be changed or lost

VARIABLES
  mode,
  w,       \* writer: [seq, pos, prev, iv, ivs, lens, keys]; lens: the lengths in its prefixes
  r,       \* reader: [seq, pos, prev, iv, err, read, keys]; read: bytes taken from the line
  line,    \* bytes on the way
  sent, got,
  last,    \* the bytes of each packet on the line
  fault    \* what happened to the line

vars == <<mode, w, r, line, sent, got, last, fault>>

LenSize == 1
prefixLen == LenSize + 1
MacSize == 2
CR == 13
LF == 10
From(s, i) == SubSeq(s, i, Len(s))
UpTo(n) == [i \in 1..n |-> i]

-----------------------------------------------------------------------------
(* Keys: the digests that are cut to an IV, a key and a MAC key.  Each end *)
(* derives those of its reader and those of its writer.                    *)

generateKeyMaterial(size, tag) ==
  FoldLeft(LAMBDA ds, i : Append(ds, IF ds = <<>> THEN <<"K", "H", tag, "sid">> ELSE <<"K", "H", ds>>), <<>>, UpTo((size + DigestSize - 1) \div DigestSize))

serverKeys == [ivTag |-> 66, keyTag |-> 68, macKeyTag |-> 70]
clientKeys == [ivTag |-> 65, keyTag |-> 67, macKeyTag |-> 69]

generateKeys(d) ==
  [iv |-> generateKeyMaterial(IvSize, d.ivTag), key |-> generateKeyMaterial(KeySize, d.keyTag),
   mac |-> generateKeyMaterial(KeySize, d.macKeyTag)]

newTransport(isClient) ==
  [reader |-> generateKeys(IF isClient THEN serverKeys ELSE clientKeys),
   writer |-> generateKeys(IF isClient THEN clientKeys ELSE serverKeys)]

-----------------------------------------------------------------------------
(* Ciphers and MACs of the standard library, in miniature.                 *)
Seed(material) == material[1][3]
Stream(keys, n) == IF mode = "none" THEN 0 ELSE (n * n * 7 + n * 13 + 5 * Seed(keys.key)) % 256
IvNumber(iv) == FoldLeft(LAMBDA n, d : n * IvBase + d, 0, iv)
Hash(start, bytes) == FoldLeft(LAMBDA h, b : (h * 31 + b + 1) % 65521, start, bytes)
Sum(start, bytes) == LET h == Hash(start, bytes) IN <<h \div 256, h % 256>>
Mac(keys, seq, bytes) == IF mode = "none" THEN <<>> ELSE Sum(seq + 7 * Seed(keys.mac), bytes)
macSize == IF mode = "none" THEN 0 ELSE MacSize
Tag(keys, iv, bytes) == Sum(IvNumber(iv) + 7 * Seed(keys.key), bytes)
Add(a, b) == [i \in DOMAIN a |-> (a[i] + b[i]) % 256]
Subtract(a, b) == [i \in DOMAIN a |-> (a[i] - b[i] + 256) % 256]
EncryptBlock(b) == [i \in DOMAIN b |-> (3 * b[Multiple + 1 - i] + 77) % 256]
DecryptBlock(c) == [i \in DOMAIN c |-> (171 * (c[Multiple + 1 - i] - 77 + 256)) % 256]
Block(s, k) == SubSeq(s, (k - 1) * Multiple + 1, k * Multiple)
Encrypted(prev, plain) ==
  FoldLeft(LAMBDA a, k : LET c == EncryptBlock(Add(Block(plain, k), a.prev)) IN [prev |-> c, out |-> a.out \o c],
           [prev |-> prev, out |-> <<>>], UpTo(Len(plain) \div Multiple))
Decrypted(prev, crypt) ==
  FoldLeft(LAMBDA a, k : [prev |-> Block(crypt, k), out |-> a.out \o Subtract(DecryptBlock(Block(crypt, k)), a.prev)],
           [prev |-> prev, out |-> <<>>], UpTo(Len(crypt) \div Multiple))
Random(n) == [i \in 1..n |-> 170]

-----------------------------------------------------------------------------
(* exchangeVersions: the line is refused if it has control characters.     *)
WriteVersion(v, ending) ==
  /\ fault = "none" /\ w.seq = -1
  /\ \A i \in DOMAIN v : v[i] >= 32
  /\ line' = v \o ending /\ last' = <<v>>
  /\ w' = [w EXCEPT !.seq = 0]
  /\ UNCHANGED <<mode, r, sent, got, fault>>

readVersion(in) ==
  LET ends == {i \in 1..(IF Len(in) < MaxVersion THEN Len(in) ELSE MaxVersion) : in[i] = LF}
  IN IF ends = {} THEN [ok |-> FALSE, v |-> <<>>, rest |-> in]
     ELSE LET i == CHOOSE i \in ends : \A j \in ends : i <= j
          IN [ok |-> TRUE, v |-> SubSeq(in, 1, IF i > 1 /\ in[i - 1] = CR THEN i - 2 ELSE i - 1), rest |-> From(in, i + 1)]

ReadVersion ==
  /\ r.seq = -1 /\ r.err = "none" /\ w.seq >= 0
  /\ \E in \in {readVersion(line)} :
       /\ r' = IF in.ok THEN [r EXCEPT !.seq = 0] ELSE [r EXCEPT !.err = "overflow"]
       /\ got' = IF in.ok THEN <<in.v>> ELSE got
       /\ line' = in.rest
  /\ UNCHANGED <<mode, w, sent, last, fault>>

-----------------------------------------------------------------------------
(* Writing.                                                                *)
streamWrite(packet) ==
  LET gap == Multiple - ((prefixLen + Len(packet)) % Multiple)
      padding == IF gap < MinPadding THEN gap + Multiple ELSE gap
      plain == <<Len(packet) + 1 + padding, padding>> \o packet \o Random(padding)
  IN [bytes |-> [i \in DOMAIN plain |-> (plain[i] + Stream(w.keys.writer, w.pos + i)) % 256] \o Mac(w.keys.writer, w.seq, plain),
      w |-> [w EXCEPT !.pos = @ + Len(plain), !.lens = Append(@, plain[1])]]

incIV(iv) == [i \in 1..IvSize |-> IF \A j \in (i + 1)..IvSize : iv[j] = IvBase - 1 THEN (iv[i] + 1) % IvBase ELSE iv[i]]

gcmWrite(packet) ==
  LET gap == Multiple - ((1 + Len(packet)) % Multiple)
      padding == IF gap < MinPadding THEN gap + Multiple ELSE gap
      plain == <<padding>> \o packet \o Random(padding)
      crypt == [i \in DOMAIN plain |-> (plain[i] + Stream(w.keys.writer, 100 * IvNumber(w.iv) + i)) % 256]
  IN [bytes |-> <<Len(plain)>> \o crypt \o Tag(w.keys.writer, w.iv, <<Len(plain)>> \o crypt),
      w |-> [w EXCEPT !.iv = incIV(@), !.ivs = Append(@, w.iv), !.lens = Append(@, Len(plain))]]

cbcWrite(packet) ==
  LET encLength == ((prefixLen + Len(packet) + MinPadding + Multiple - 1) \div Multiple) * Multiple
      length == encLength - LenSize
      padding == length - (1 + Len(packet))
      plain == <<length, padding>> \o packet \o Random(padding)
      e == Encrypted(w.prev, plain)
  IN [bytes |-> e.out \o Mac(w.keys.writer, w.seq, plain), w |-> [w EXCEPT !.prev = e.prev, !.lens = Append(@, length)]]

(* Only the stream cipher looks at the size of a packet.                   *)
Write(packet) ==
  /\ w.seq \in 0..(MaxPackets - 1)
  /\ mode \in {"none", "stream"} => Len(packet) <= MaxPacket
  /\ \E out \in {CASE mode \in {"none", "stream"} -> streamWrite(packet) [] mode = "gcm" -> gcmWrite(packet) [] OTHER -> cbcWrite(packet)} :
       /\ line' = line \o out.bytes /\ last' = Append(last, out.bytes)
       /\ w' = [out.w EXCEPT !.seq = @ + 1]
  /\ sent' = Append(sent, packet)
  /\ UNCHANGED <<mode, r, got, fault>>

-----------------------------------------------------------------------------
(* Reading.  An outcome has the packet, or an error, or waits for more     *)
(* bytes than there are; used is what was taken from the line.             *)
Outcome(st, used, p) == [st |-> st, used |-> used, p |-> p, r |-> r]

\* mutant: the MAC is read and not compared
streamReadUnchecked(in) ==
  LET plain == [i \in 1..Len(in) |-> (in[i] - Stream(r.keys.reader, r.pos + i) + 256) % 256]
      whole == LenSize + plain[1]
  IN IF Len(in) < prefixLen THEN Outcome("wait", 0, <<>>)
     ELSE IF plain[1] <= plain[2] + 1 \/ plain[1] > MaxPacket THEN Outcome("too small", prefixLen, <<>>)
     ELSE IF Len(in) < whole + macSize THEN Outcome("wait", 0, <<>>)
     ELSE [Outcome("packet", whole + macSize, SubSeq(plain, prefixLen + 1, whole - plain[2])) EXCEPT !.r.pos = @ + whole]

streamRead(in) ==
  LET pre == [i \in 1..prefixLen |-> (in[i] - Stream(r.keys.reader, r.pos + i) + 256) % 256]
      length == pre[1]
      whole == LenSize + length
      plain == [i \in 1..whole |-> (in[i] - Stream(r.keys.reader, r.pos + i) + 256) % 256]
  IN IF Len(in) < prefixLen THEN Outcome("wait", 0, <<>>)
     ELSE IF length <= pre[2] + 1 THEN Outcome("too small", prefixLen, <<>>)
     ELSE IF length > MaxPacket THEN Outcome("too large", prefixLen, <<>>)
     ELSE IF Len(in) < whole + macSize THEN Outcome("wait", 0, <<>>)
     ELSE IF SubSeq(in, whole + 1, whole + macSize) # Mac(r.keys.reader, r.seq, plain) THEN Outcome("MAC failure", whole + macSize, <<>>)
     ELSE [Outcome("packet", whole + macSize, SubSeq(plain, prefixLen + 1, whole - pre[2])) EXCEPT !.r.pos = @ + whole]

gcmRead(in) ==
  LET length == in[1]
      crypt == SubSeq(in, 2, 1 + length)
      plain == [i \in DOMAIN crypt |-> (crypt[i] - Stream(r.keys.reader, 100 * IvNumber(r.iv) + i) + 256) % 256]
      ok(st, p) == [Outcome(st, 1 + length + MacSize, p) EXCEPT !.r.iv = incIV(@)]
  IN IF in = <<>> THEN Outcome("wait", 0, <<>>)
     ELSE IF length > MaxPacket THEN Outcome("too large", LenSize, <<>>)
     ELSE IF Len(in) < 1 + length + MacSize THEN Outcome("wait", 0, <<>>)
     ELSE IF SubSeq(in, length + 2, length + 1 + MacSize) # Tag(r.keys.reader, r.iv, <<length>> \o crypt)
       THEN Outcome("MAC failure", 1 + length + MacSize, <<>>)
     ELSE IF plain[1] < MinPadding \/ plain[1] >= Multiple + MinPadding \/ plain[1] + 1 >= Len(plain) THEN ok("padding", <<>>)
     ELSE ok("packet", SubSeq(plain, 2, length - plain[1]))

(* cbcCipher.readPacket.  After a verification error as much more is read  *)
(* as makes the amount the same for all of them.                           *)
oracleCamouflage(read) == MaxPacket + LenSize + MacSize - read

cbcRead(in) ==
  LET firstBlock == ((prefixLen + Multiple - 1) \div Multiple) * Multiple
      first == Decrypted(r.prev, SubSeq(in, 1, firstBlock)).out
      length == first[1]
      padding == first[2]
      macStart == LenSize + length
      entire == macStart + MacSize
      d == Decrypted(r.prev, SubSeq(in, 1, macStart))
  IN IF Len(in) < firstBlock THEN Outcome("wait", 0, <<>>)
     ELSE IF length > MaxPacket \/ macStart < Multiple \/ macStart % Multiple # 0 \/ padding < MinPadding \/ length <= padding + 1
       THEN Outcome("verification", firstBlock + oracleCamouflage(firstBlock), <<>>)
     ELSE IF Len(in) < entire THEN Outcome("wait", 0, <<>>)
     ELSE IF SubSeq(in, macStart + 1, entire) # Mac(r.keys.reader, r.seq, d.out)
       THEN Outcome("verification", entire + oracleCamouflage(firstBlock) - (entire - firstBlock), <<>>)
     ELSE [Outcome("packet", entire, SubSeq(d.out, prefixLen + 1, macStart - padding)) EXCEPT !.r.prev = d.prev]

(* connectionState.readPacket.  io.ReadFull waits for bytes that may still *)
(* come; the discarding of bytes ends with them.                           *)
Read ==
  /\ r.seq >= 0 /\ r.err = "none" /\ line # <<>>
  /\ \E o \in {CASE mode \in {"none", "stream"} -> streamRead(line) [] mode = "gcm" -> gcmRead(line) [] OTHER -> cbcRead(line)} :
       /\ o.st # "wait"
       /\ line' = From(line, o.used + 1)
       /\ r' = [o.r EXCEPT !.seq = @ + 1, !.err = IF o.st = "packet" THEN "none" ELSE o.st, !.read = IF o.st = "packet" THEN @ ELSE o.used]
       /\ got' = IF o.st = "packet" THEN Append(got, o.p) ELSE got
  /\ UNCHANGED <<mode, w, sent, last, fault>>

-----------------------------------------------------------------------------
(* The line.                                                               *)
Faulty == fault = "none" /\ mode # "none" /\ r.seq >= 0 /\ r.err = "none" /\ line # <<>>
Change(i, d) ==
  /\ Faulty /\ i \in DOMAIN line
  /\ line' = [line EXCEPT ![i] = (@ + d) % 256] /\ fault' = "changed"
  /\ UNCHANGED <<mode, w, r, sent, got, last>>
Lose(i) ==
  /\ Faulty /\ i \in DOMAIN line
  /\ line' = RemoveAt(line, i) /\ fault' = "lost"
  /\ UNCHANGED <<mode, w, r, sent, got, last>>
Repeat(k) ==
  /\ Faulty /\ k \in 2..Len(last)
  /\ line' = last[k] \o line /\ fault' = "repeated"
  /\ UNCHANGED <<mode, w, r, sent, got, last>>

(* newPacketCipher: what a cipher starts with.                             *)
FirstBlock(keys) == [i \in 1..Multiple |-> Seed(keys.iv)]
FirstIv(keys) == [i \in 1..IvSize |-> Seed(keys.iv) % IvBase]

Init ==
  /\ mode \in Modes
  /\ \E isClient \in BOOLEAN :
       LET mine == newTransport(isClient)
           theirs == newTransport(~isClient)
       IN /\ w = [seq |-> -1, pos |-> 0, prev |-> FirstBlock(mine.writer), iv |-> FirstIv(mine.writer), ivs |-> <<>>,
                  lens |-> <<>>, keys |-> mine]
          /\ r = [seq |-> -1, pos |-> 0, prev |-> FirstBlock(theirs.reader), iv |-> FirstIv(theirs.reader), err |-> "none",
                  read |-> 0, keys |-> theirs]
  /\ line = <<>> /\ sent = <<>> /\ got = <<>> /\ last = <<>> /\ fault = "none"

Next ==
  \/ \E v \in Versions, ending \in {<<LF>>, <<CR, LF>>} : WriteVersion(v, ending)
  \/ ReadVersion
  \/ \E n \in Sizes : Write([i \in 1..n |-> (16 * w.seq + i) % 256])
  \/ Read
  \/ \E i \in Places, d \in {1, 128} : Change(i, d)
  \/ \E i \in Places : Lose(i)
  \/ \E k \in 2..(MaxPackets + 1) : Repeat(k)
Spec == Init /\ [][Next]_vars

-----------------------------------------------------------------------------
(* The other end reads the version that was written, or refuses the line.  *)
VersionExact == r.seq >= 0 => got[1] = last[1]

(* Whatever happens to the bytes, the packets that arrive are the first    *)
(* ones of those that were sent, unchanged and in their order.             *)
PacketsInOrder == Len(got) > 1 => IsPrefix(Tail(got), sent)

(* Without a fault the reader takes exactly the packets whose prefix says  *)
(* no more than maxPacket: the ends use the same keys, and nothing else in *)
(* what a writer makes is refused.                                         *)
FitsArrives ==
  fault = "none" /\ r.seq >= 0 => (r.err = "none" <=> \A i \in 1..r.seq : w.lens[i] <= MaxPacket)

(* Does not hold: writers measure the packet, or nothing (gcm, cbc), and   *)
(* readers the packet and its padding, so that one of almost maxPacket     *)
(* bytes is written without an error and ends the connection.              *)
WrittenArrives == fault = "none" => r.err \in {"none", "overflow"}

(* After a verification error the cbc reader has taken the same number of  *)
(* bytes from the line, whichever check failed.                            *)
SameAmountRead == r.err = "verification" => r.read = MaxPacket + LenSize + MacSize

(* No IV of a gcm key is used for two packets.                             *)
NoIvTwice == \A i, j \in DOMAIN w.ivs : i # j => w.ivs[i] # w.ivs[j]

(* The digests that the IVs, the keys and the MAC keys of an end are made  *)
(* of are all different: nothing is shared by the two directions, or by    *)
(* two uses in one.                                                        *)
KeysIndependent ==
  LET of(k) == k.iv \o k.key \o k.mac
      all == of(w.keys.writer) \o of(w.keys.reader)
  IN \A i, j \in DOMAIN all : i # j => all[i] # all[j]

=============================================================================
