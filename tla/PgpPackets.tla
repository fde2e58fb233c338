----------------------------- MODULE PgpPackets -----------------------------
(***************************************************************************)
(* How OpenPGP packets are framed (packet/packet.go, packet/opaque.go,     *)
(* packet/signature.go): headers of the old and of the new format,         *)
(* subpacket lengths, and contents of unknown length, cut into pieces of   *)
(* a power of two by partialLengthWriter and put together by               *)
(* partialLengthReader.                                                    *)
(***************************************************************************)
EXTENDS Integers, Sequences, SequencesExt

CONSTANTS
  Lengths,     \* lengths of packets and subpackets
  WriteSizes,  \* sizes of the caller's writes
  ReadSizes,   \* sizes of the caller's buffers
  MaxWrites,   \* writes to one stream
  MaxPower     \* the largest piece is 2^MaxPower bytes (14 in the code)

VARIABLES
  frame,  \* a length, its encodings, and what reading them gives
  sent,   \* what was written to the stream so far
  wire,   \* bytes between the writer and the reader
  open,   \* the writer is not closed
  rd,     \* state of the partialLengthReader
  got,    \* bytes it has returned
  cut     \* the stream was cut short

pkVars == <<frame, sent, wire, open, rd, got, cut>>

Byte(n) == n % 256
Truncated == [n |-> -1, partial |-> FALSE, used |-> 0, tag |-> -1]
Length(n, used) == [n |-> n, partial |-> FALSE, used |-> used, tag |-> -1]
Big(b, k) == FoldLeft(LAMBDA a, c : a * 256 + c, 0, SubSeq(b, 1, k))
FourBytes(n) == <<Byte(n \div 16777216), Byte(n \div 65536), Byte(n \div 256), Byte(n)>>

readLength(b) ==
  IF b = <<>> THEN Truncated
  ELSE IF b[1] < 192 THEN Length(b[1], 1)
  ELSE IF b[1] < 224 THEN IF Len(b) < 2 THEN Truncated ELSE Length((b[1] - 192) * 256 + b[2] + 192, 2)
  ELSE IF b[1] < 255 THEN [Length(2 ^ (b[1] % 32), 1) EXCEPT !.partial = TRUE]
  ELSE IF Len(b) < 5 THEN Truncated ELSE Length(Big(Tail(b), 4), 5)

serializeHeader(ptype, n) ==
  <<192 + ptype>> \o
  (IF n < 192 THEN <<Byte(n)>>
   ELSE IF n < 8384 THEN <<Byte(192 + Byte((n - 192) \div 256)), Byte(n - 192)>>
   ELSE <<255>> \o FourBytes(n))

(* The old format says in its tag how many bytes the length has; 3 means   *)
(* the rest of the stream.  A tag of -1 stands for an error, a length of   *)
(* -2 for contents without a known length.                                 *)
readHeader(b) ==
  IF b = <<>> \/ b[1] < 128 THEN Truncated
  ELSE IF b[1] < 192
  THEN LET bytes == 2 ^ (b[1] % 4)
           tag == (b[1] % 64) \div 4
       IN IF b[1] % 4 = 3 THEN [Length(-2, 1) EXCEPT !.tag = tag]
          ELSE IF Len(b) < 1 + bytes THEN Truncated
          ELSE [Length(Big(Tail(b), bytes), 1 + bytes) EXCEPT !.tag = tag]
  ELSE LET l == readLength(Tail(b))
       IN IF l.n = -1 THEN Truncated ELSE [l EXCEPT !.tag = b[1] % 64, !.used = @ + 1]

(* How another implementation may write the same packet in the old format. *)
oldHeader(ptype, n) ==
  IF n < 256 THEN <<128 + ptype * 4, n>>
  ELSE IF n < 65536 THEN <<129 + ptype * 4>> \o SubSeq(FourBytes(n), 3, 4)
  ELSE <<130 + ptype * 4>> \o FourBytes(n)

subpacketLengthLength(n) == IF n < 192 THEN 1 ELSE IF n < 16320 THEN 2 ELSE 5

serializeSubpacketLength(n) ==
  IF n < 192 THEN <<n>>
  ELSE IF n < 16320 THEN <<Byte((n - 192) \div 256 + 192), Byte(n - 192)>>
  ELSE <<255>> \o FourBytes(n)

(* Subpacket lengths have no partial form: bytes 192 to 254 all begin a    *)
(* length of two bytes.  avail bytes follow the length.                    *)
nextSubpacket(b, avail) ==
  LET l == IF b[1] < 192 THEN Length(b[1], 1)
           ELSE IF b[1] < 255 THEN Length((b[1] - 192) * 256 + b[2] + 192, 2)
           ELSE Length(Big(Tail(b), 4), 5)
  IN IF l.n > avail \/ l.n = 0 THEN Truncated ELSE l

-----------------------------------------------------------------------------

(* partialLengthWriter.Write: the largest power of two that still fits,    *)
(* until nothing is left.                                                  *)
partialPieces(p) ==
  LET power(n) == CHOOSE k \in 0..MaxPower : 2 ^ k <= n /\ (k = MaxPower \/ 2 ^ (k + 1) > n)
      pieces[q \in {SubSeq(p, i, Len(p)) : i \in 1..(Len(p) + 1)}] ==
        IF q = <<>> THEN <<>>
        ELSE LET l == 2 ^ power(Len(q))
             IN <<224 + power(Len(q))>> \o SubSeq(q, 1, l) \o pieces[SubSeq(q, l + 1, Len(q))]
  IN pieces[p]

NotOpen == [remaining |-> -1, partial |-> FALSE, err |-> "none"]
Next4 == <<1, 2, 3, 4>>   \* what follows the packet in the stream
NoFrame == [n |-> -1]

Init ==
  /\ frame = NoFrame /\ sent = <<>> /\ wire = <<>> /\ open = TRUE
  /\ rd = NotOpen /\ got = <<>> /\ cut = FALSE

Frame(n, ptype) ==
  /\ frame = NoFrame /\ sent = <<>> /\ open /\ ~cut
  /\ frame' = [n |-> n, ptype |-> ptype,
               new |-> readHeader(serializeHeader(ptype, n)),
               newBytes |-> Len(serializeHeader(ptype, n)),
               old |-> readHeader(oldHeader(ptype, n)),
               sub |-> nextSubpacket(serializeSubpacketLength(n + 1), n + 1),
               subBytes |-> subpacketLengthLength(n + 1),
               subShort |-> nextSubpacket(serializeSubpacketLength(n + 1), n)]
  /\ UNCHANGED <<sent, wire, open, rd, got, cut>>

(* The caller writes n bytes; each write is cut up on its own.             *)
Write(n) ==
  /\ frame = NoFrame /\ open /\ Len(sent) < MaxWrites
  /\ \E p \in {[i \in 1..n |-> 10 * Len(sent) + i]} :
       sent' = Append(sent, p) /\ wire' = wire \o partialPieces(p)
  /\ UNCHANGED <<frame, open, rd, got, cut>>

(* Close writes a length of 0; another packet follows in the stream.       *)
Close ==
  /\ frame = NoFrame /\ open /\ sent # <<>>
  /\ open' = FALSE /\ wire' = wire \o <<0>> \o Next4
  /\ UNCHANGED <<frame, sent, rd, got, cut>>

(* The stream ends early, after k bytes.                                   *)
Cut(k) ==
  /\ ~open /\ ~cut /\ rd = NotOpen /\ k < Len(wire) - Len(Next4)
  /\ cut' = TRUE /\ wire' = SubSeq(wire, 1, k)
  /\ UNCHANGED <<frame, sent, open, rd, got>>

(* readHeader reads the first length and makes the reader.                 *)
OpenReader ==
  /\ ~open /\ rd = NotOpen
  /\ \E l \in {readLength(wire)} :
       /\ rd' = IF l.n = -1 THEN [NotOpen EXCEPT !.err = "unexpected"]
                ELSE [remaining |-> l.n, partial |-> l.partial, err |-> "none"]
       /\ wire' = SubSeq(wire, l.used + 1, Len(wire))
  /\ UNCHANGED <<frame, sent, open, got, cut>>

(* Read looks for the next piece that is not empty, and never reads beyond *)
(* it; the source may return fewer bytes than asked (m of them).           *)
Read(k) ==
  /\ rd.err = "none" /\ rd.remaining >= 0
  /\ IF rd.remaining = 0
     THEN IF ~rd.partial THEN rd' = [rd EXCEPT !.err = "EOF"] /\ UNCHANGED <<wire, got>>
          ELSE \E l \in {readLength(wire)} :
                 /\ rd' = IF l.n = -1 THEN [rd EXCEPT !.err = "unexpected"]
                          ELSE [rd EXCEPT !.remaining = l.n, !.partial = l.partial]
                 /\ wire' = SubSeq(wire, l.used + 1, Len(wire))
                 /\ UNCHANGED got
     ELSE LET toRead == IF k > rd.remaining THEN rd.remaining ELSE k
          IN IF wire = <<>> THEN rd' = [rd EXCEPT !.err = "unexpected"] /\ UNCHANGED <<wire, got>>
             ELSE \E m \in {i \in {1, toRead} : i <= Len(wire)} :
                    /\ got' = got \o SubSeq(wire, 1, m) /\ wire' = SubSeq(wire, m + 1, Len(wire))
                    /\ rd' = [rd EXCEPT !.remaining = @ - m]
  /\ UNCHANGED <<frame, sent, open, cut>>

Next ==
  \/ \E n \in Lengths, ptype \in {1, 6, 14} : Frame(n, ptype)
  \/ \E n \in WriteSizes : Write(n)
  \/ Close \/ OpenReader
  \/ \E k \in 0..Len(wire) : Cut(k)
  \/ \E k \in ReadSizes : Read(k)

-----------------------------------------------------------------------------
(* A header written by serializeHeader, or by another implementation in    *)
(* the old format, is read back with its tag and its length, and all its   *)
(* bytes are used: at 191, 192, 8383 and 8384 too.                         *)
HeaderReadBack ==
  frame # NoFrame =>
    /\ frame.new.n = frame.n /\ frame.new.tag = frame.ptype /\ ~frame.new.partial
    /\ frame.new.used = frame.newBytes
    /\ frame.old.n = frame.n /\ frame.old.tag = frame.ptype

(* A subpacket is read back with its length, the space reserved for the    *)
(* length is the space it takes, and a subpacket longer than what is left  *)
(* is refused.                                                             *)
SubpacketReadBack ==
  frame # NoFrame =>
    /\ frame.sub.n = frame.n + 1 /\ frame.sub.used = frame.subBytes
    /\ frame.subShort = Truncated

(* Whatever the sizes of the writes and of the reads, what comes out is    *)
(* what went in; the end is reported when and only when all of it was      *)
(* read, a stream cut short is an error, and the next packet is untouched. *)
StreamReadBack ==
  /\ IsPrefix(got, FlattenSeq(sent))
  /\ rd.err = "EOF" => ~cut /\ got = FlattenSeq(sent) /\ wire = Next4
  /\ rd.err = "unexpected" => cut

=============================================================================
