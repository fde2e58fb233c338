------------------------------- MODULE PgpText -------------------------------
(***************************************************************************)
(* The textual side of OpenPGP: canonical text (openpgp/canonical_text.go),*)
(* clear-signed messages (openpgp/clearsign), armor (openpgp/armor), user  *)
(* ids (packet/userid.go) and stretched passphrases (openpgp/s2k).  Each   *)
(* action takes an input there and back; trip records what came of it.     *)
(*                                                                         *)
(* Text is a sequence of "a", "-", " ", "r" (carriage return), "n" (line   *)
(* feed), ":", and the marker lines "START", "END TEXT" and "END", which   *)
(* begin with a hyphen.  Armor is a sequence of base64 digits 0..63, the   *)
(* padding Pad, line feeds NL and the lines Begin and End.                 *)
(***************************************************************************)
EXTENDS Integers, Sequences, SequencesExt

CONSTANTS
  Texts,       \* texts to sign
  Payloads,    \* bytes to armor
  LineLength,  \* base64 digits on a line (64 in the code), a multiple of 4
  MaxLine,     \* digits on a line that is accepted (96 in the code)
  Names, Ids,  \* names, comments and addresses; user ids as they may be found
  Counts,      \* S2K counts asked for
  Stretches    \* [in, salt, count, out]

VARIABLE trip

Start == [kind |-> "none"]
Crlf == <<"r", "n">>
From(s, i) == SubSeq(s, i, Len(s))
Take(s, n) == SubSeq(s, 1, IF n < Len(s) THEN n ELSE Len(s))
UpTo(n) == [i \in 1..n |-> i]
TrimRight(s, set) ==
  LET kept == {i \in DOMAIN s : s[i] \notin set} IN SubSeq(s, 1, IF kept = {} THEN 0 ELSE CHOOSE i \in kept : \A j \in kept : j <= i)
TrimSpace(s) ==
  LET kept == {i \in DOMAIN s : s[i] # " "}
  IN IF kept = {} THEN <<>> ELSE TrimRight(From(s, CHOOSE i \in kept : \A j \in kept : i <= j), {" "})

-----------------------------------------------------------------------------
(* Canonical text: a line feed gets its carriage return.                   *)
\* mutant: what the last write ended with is forgotten
canonicalWriteAnew(cth, buf) ==
  FoldLeft(LAMBDA a, c : IF a.s = 1 THEN [s |-> 0, h |-> Append(a.h, c)]
                         ELSE IF c = "n" THEN [a EXCEPT !.h = @ \o Crlf]
                         ELSE [s |-> IF c = "r" THEN 1 ELSE 0, h |-> Append(a.h, c)], [cth EXCEPT !.s = 0], buf)

canonicalWrite(cth, buf) ==
  FoldLeft(LAMBDA a, c : IF a.s = 1 THEN [s |-> 0, h |-> Append(a.h, c)]
                         ELSE IF c = "n" THEN [a EXCEPT !.h = @ \o Crlf]
                         ELSE [s |-> IF c = "r" THEN 1 ELSE 0, h |-> Append(a.h, c)], cth, buf)
NewCanonicalTextHash == [s |-> 0, h |-> <<>>]
Canonical(text) == canonicalWrite(NewCanonicalTextHash, text).h

CanonicalTrip(text, cut) ==
  trip' = [kind |-> "canonical", whole |-> Canonical(text), again |-> Canonical(Canonical(text)),
           pieces |-> canonicalWrite(canonicalWrite(NewCanonicalTextHash, SubSeq(text, 1, cut)), From(text, cut + 1)).h]

-----------------------------------------------------------------------------
(* Clear-signed messages.                                                  *)
Hyphen(c) == c \in {"-", "START", "END TEXT", "END"}

(* dashEscaper.Write, a byte: hyphens at the beginning of a line are       *)
(* escaped in the message only, white space at its end goes, and a line's  *)
(* end is signed when the next line begins.                                *)
dashWrite(d, b) ==
  LET e == IF d.bol THEN [d EXCEPT !.h = IF d.first THEN @ ELSE @ \o Crlf, !.first = FALSE] ELSE d
  IN IF b \in {" ", "r"} THEN [e EXCEPT !.ws = Append(@, b), !.bol = FALSE]
     ELSE IF e.bol /\ b = "n" THEN [e EXCEPT !.out = Append(@, b)]
     ELSE IF e.bol THEN [e EXCEPT !.out = @ \o (IF Hyphen(b) THEN <<"-", " ">> ELSE <<>>) \o <<b>>, !.h = Append(@, b), !.bol = FALSE]
     ELSE IF b = "n" THEN [e EXCEPT !.ws = <<>>, !.out = Append(@, b), !.bol = TRUE]
     ELSE [e EXCEPT !.out = @ \o e.ws \o <<b>>, !.h = @ \o e.ws \o <<b>>, !.ws = <<>>]

clearEncode == [bol |-> TRUE, first |-> TRUE, ws |-> <<>>, h |-> <<>>, out |-> <<"START", "n", "a", ":", "a", "n", "n">>]
dashClose(d) == [d EXCEPT !.out = @ \o (IF d.bol THEN <<>> ELSE <<"n">>) \o <<"END TEXT", "n", "a", "n", "END">>]
Sign(text) == dashClose(FoldLeft(dashWrite, clearEncode, text))

First(s, c) == IF Contains(s, c) THEN CHOOSE i \in DOMAIN s : s[i] = c /\ \A j \in 1..(i - 1) : s[j] # c ELSE 0
getLine(data) ==
  LET i == First(data, "n")
  IN IF i = 0 THEN [line |-> data, rest |-> <<>>]
     ELSE [line |-> SubSeq(data, 1, IF i > 1 /\ data[i - 1] = "r" THEN i - 2 ELSE i - 1), rest |-> From(data, i + 1)]

Headers(data) ==
  FoldLeft(LAMBDA a, i :
             IF a.at # "headers" THEN a
             ELSE IF a.rest = <<>> THEN [a EXCEPT !.at = "nothing"]
             ELSE LET l == getLine(a.rest)
                  IN IF l.line = <<>> THEN [at |-> "body", rest |-> l.rest]
                     ELSE IF ~Contains(l.line, ":") THEN [a EXCEPT !.at = "nothing"]
                     ELSE [a EXCEPT !.rest = l.rest],
           [at |-> "headers", rest |-> data], UpTo(4))

(* Lines up to the end of the text.  Without one the loop has no end: an   *)
(* empty rest gives an empty line and an empty rest again.                 *)
Body(data) ==
  FoldLeft(LAMBDA a, i :
             IF a.at # "body" THEN a
             ELSE LET l == getLine(a.rest)
                      text == TrimRight(IF Len(l.line) >= 2 /\ l.line[1] = "-" /\ l.line[2] = " " THEN From(l.line, 3) ELSE l.line, {" "})
                  IN IF l.line = <<"END TEXT">> THEN [a EXCEPT !.at = "signature"]
                     ELSE IF a.rest = <<>> THEN [a EXCEPT !.at = "forever"]
                     ELSE [at |-> "body", rest |-> l.rest, first |-> FALSE, plain |-> a.plain \o text \o <<"n">>,
                           bytes |-> a.bytes \o (IF a.first THEN <<>> ELSE Crlf) \o text],
           [at |-> "body", rest |-> data, first |-> TRUE, plain |-> <<>>, bytes |-> <<>>], UpTo(Len(data) + 2))

clearDecode(data) ==
  LET starts == {i \in DOMAIN data : data[i] = "START" /\ (i = 1 \/ data[i - 1] = "n")}
      none == [at |-> "nothing", plain |-> <<>>, bytes |-> <<>>, rest |-> data]
  IN IF starts = {} THEN none
     ELSE LET s == CHOOSE i \in starts : \A j \in starts : i <= j
              h == Headers(getLine(From(data, s + 1)).rest)
          IN IF h.at # "body" THEN none
             ELSE LET b == Body(h.rest)
                  IN IF b.at = "signature" /\ First(b.rest, "END") <= 1 THEN none
                     ELSE [at |-> b.at, plain |-> b.plain, bytes |-> b.bytes, rest |-> b.rest]

ClearTrip(text, garbage) ==
  trip' = [kind |-> "clear", text |-> text, signed |-> Sign(text).h, back |-> clearDecode(garbage \o Sign(text).out)]

(* The message is cut off somewhere.                                       *)
ClearCutTrip(text, cut) ==
  /\ cut < Len(Sign(text).out)
  /\ trip' = [kind |-> "cut", back |-> clearDecode(SubSeq(Sign(text).out, 1, cut))]

-----------------------------------------------------------------------------
(* Armor.                                                                  *)
Pad == 64
NL == 65
Begin == 66
End == 67
Bad == 68   \* any other character

(* encoding/base64: three bytes in four digits.                            *)
Encode64(b) ==
  LET byte(i) == IF i > Len(b) THEN 0 ELSE b[i]
      group(k) == LET v == byte(3 * k - 2) * 65536 + byte(3 * k - 1) * 256 + byte(3 * k)
                  IN <<v \div 262144, (v \div 4096) % 64, IF 3 * k - 1 > Len(b) THEN Pad ELSE (v \div 64) % 64, IF 3 * k > Len(b) THEN Pad ELSE v % 64>>
  IN FlattenSeq([k \in 1..((Len(b) + 2) \div 3) |-> group(k)])
Decode64(d) ==
  LET n(x) == IF x = Pad THEN 0 ELSE x
      group(k) == LET v == ((n(d[4 * k - 3]) * 64 + n(d[4 * k - 2])) * 64 + n(d[4 * k - 1])) * 64 + n(d[4 * k])
                      whole == <<v \div 65536, (v \div 256) % 256, v % 256>>
                  IN SubSeq(whole, 1, IF d[4 * k - 1] = Pad THEN 1 ELSE IF d[4 * k] = Pad THEN 2 ELSE 3)
  IN IF Len(d) % 4 # 0 \/ \E i \in DOMAIN d : d[i] > Pad \/ (d[i] = Pad /\ (i < Len(d) - 1 \/ d[Len(d)] # Pad)) THEN [err |-> "corrupt", b |-> <<>>]
     ELSE [err |-> "none", b |-> FlattenSeq([k \in 1..(Len(d) \div 4) |-> group(k)])]

(* A remainder is the set of its bits; exclusive or is their difference.   *)
Bits(n, shift) == {shift + k : k \in {k \in 0..7 : (n \div 2 ^ k) % 2 = 1}}
Byte(bits, shift) == MapThenSumSet(LAMBDA k : 2 ^ (k - shift), bits \cap shift..(shift + 7))
crc24Init == Bits(183, 16) \cup Bits(4, 8) \cup Bits(206, 0)
crc24Poly == {24} \cup Bits(134, 16) \cup Bits(76, 8) \cup Bits(251, 0)
Doubled(crc) == LET c == {k + 1 : k \in crc} IN IF 24 \in c THEN SymDiff(c, crc24Poly) ELSE c

(* Bit i of d goes through the register; i..j are halved, to keep TLC's    *)
(* recursion shallow.                                                      *)
RECURSIVE crcBits(_, _, _, _)
crcBits(crc, d, i, j) ==
  IF j > i THEN CHOOSE c \in {crcBits(h, d, (i + j) \div 2 + 1, j) : h \in {crcBits(crc, d, i, (i + j) \div 2)}} : TRUE
  ELSE Doubled(IF i % 8 = 1 THEN SymDiff(crc, Bits(d[(i + 7) \div 8], 16)) ELSE crc)

crc24(crc, d) == IF d = <<>> THEN crc ELSE crcBits(crc, d, 1, 8 * Len(d))

RECURSIVE breakLines(_, _)
breakLines(l, b) ==
  IF b = <<>> THEN l
  ELSE LET out == IF l.line = <<>> /\ l.haveWritten THEN Append(l.out, NL) ELSE l.out
           excess == LineLength - Len(l.line)
       IN IF Len(b) < excess THEN [l EXCEPT !.line = @ \o b, !.out = out]
          ELSE breakLines([line |-> <<>>, haveWritten |-> TRUE, out |-> out \o l.line \o SubSeq(b, 1, excess)], From(b, excess + 1))

(* The digits reach the lineBreaker in pieces; then the checksum and the   *)
(* end.                                                                    *)
Armor(bytes, crc, piece, header) ==
  LET digits == Encode64(bytes)
      pieces == [k \in 1..((Len(digits) + piece - 1) \div piece) |->
                   Take(From(digits, (k - 1) * piece + 1), piece)]
      l == FoldLeft(LAMBDA w, p : breakLines(w, p), [line |-> <<>>, haveWritten |-> FALSE, out |-> <<Begin, NL>> \o header \o <<NL>>], pieces)
  IN l.out \o l.line \o <<NL, Pad>> \o Encode64(<<Byte(crc, 16), Byte(crc, 8), Byte(crc, 0)>>) \o <<NL, End>>

readLine(in) ==
  LET i == First(in, NL) IN IF i = 0 THEN [line |-> in, rest |-> <<>>] ELSE [line |-> SubSeq(in, 1, i - 1), rest |-> From(in, i + 1)]

(* lineReader.Read into a buffer of that size, until it has no more.  The  *)
(* rest of a line is kept for the next call.                               *)
lineRead(l, size) ==
  IF l.buf # <<>> THEN [l EXCEPT !.out = @ \o Take(l.buf, size), !.buf = From(@, size + 1)]
  ELSE IF l.in = <<>> THEN [l EXCEPT !.end = "EOF"]
  ELSE LET r == readLine(l.in) line == r.line c == Decode64(From(line, 2))
       IN IF Len(line) = 5 /\ line[1] = Pad
          THEN IF c.err # "none" \/ Len(c.b) # 3 THEN [l EXCEPT !.in = r.rest, !.end = IF c.err = "none" THEN @ ELSE c.err]
               ELSE [l EXCEPT !.crc = Bits(c.b[1], 16) \cup Bits(c.b[2], 8) \cup Bits(c.b[3], 0), !.in = r.rest,
                              !.end = IF readLine(r.rest).line = <<End>> THEN "EOF" ELSE "corrupt"]
          ELSE IF Len(line) > MaxLine THEN [l EXCEPT !.end = "corrupt"]
          ELSE [l EXCEPT !.in = r.rest, !.out = @ \o Take(line, size), !.buf = From(line, size + 1)]

RECURSIVE readAll(_, _)
readAll(l, size) == IF l.end # "no" THEN l ELSE readAll(lineRead(l, size), size)

(* What is before the first block is skipped, as is a block whose headers  *)
(* are none.                                                               *)
findBlock(in) ==
  FoldLeft(LAMBDA a, i :
             IF a.at \in {"found", "EOF"} THEN a
             ELSE IF a.in = <<>> THEN [a EXCEPT !.at = "EOF"]
             ELSE LET r == readLine(a.in)
                  IN [in |-> r.rest,
                      at |-> IF a.at = "garbage" THEN (IF r.line = <<Begin>> THEN "headers" ELSE "garbage")
                             ELSE IF r.line = <<>> THEN "found"
                             ELSE IF Contains(r.line, Bad) THEN "headers" ELSE "garbage"],
           [at |-> "garbage", in |-> in], UpTo(8))

armorDecode(in, size) ==
  LET f == findBlock(in)
      l == readAll([in |-> f.in, buf |-> <<>>, out |-> <<>>, crc |-> {}, end |-> "no"], size)
      d == Decode64(l.out)
  IN IF f.at # "found" THEN [err |-> "EOF", b |-> <<>>]
     ELSE IF l.end # "EOF" \/ d.err # "none" \/ crc24(crc24Init, d.b) # l.crc THEN [err |-> "corrupt", b |-> <<>>]
     ELSE d

ArmorTrip(bytes, piece, size, header, garbage) ==
  \E crc \in {crc24(crc24Init, bytes)} : \E text \in {garbage \o Armor(bytes, crc, piece, header)} :
    trip' = [kind |-> "armor", bytes |-> bytes, back |-> armorDecode(text, size)]
ArmorFaultTrip(bytes, i, digit) ==
  \E crc \in {crc24(crc24Init, bytes)} : \E a \in {Armor(bytes, crc, 4, <<>>)} :
     /\ i \in 4..Len(a) /\ a[i] # digit
     /\ trip' = [kind |-> "fault", bytes |-> bytes, back |-> armorDecode([a EXCEPT ![i] = digit], 4)]

-----------------------------------------------------------------------------
(* User ids.                                                               *)
hasInvalidCharacters(s) == \E i \in DOMAIN s : s[i] \in {"(", ")", "<", ">", "0"}
NoUserId == [id |-> <<"0">>, name |-> <<>>, comment |-> <<>>, email |-> <<>>]
NewUserId(name, comment, email) ==
  LET spaced(s) == IF s = <<>> THEN s ELSE Append(s, " ")
      first == IF comment = <<>> THEN name ELSE spaced(name) \o <<"(">> \o comment \o <<")">>
      id == IF email = <<>> THEN first ELSE spaced(first) \o <<"<">> \o email \o <<">">>
  IN IF hasInvalidCharacters(name) \/ hasInvalidCharacters(comment) \/ hasInvalidCharacters(email) THEN NoUserId
     ELSE [id |-> id, name |-> name, comment |-> comment, email |-> email]

parseUserId(id) ==
  LET p == FoldLeft(LAMBDA a, c :
             CASE a.in = "name" /\ c = "(" -> [a EXCEPT !.in = "comment"]
               [] a.in = "name" /\ c = "<" -> [a EXCEPT !.in = "email"]
               [] a.in = "comment" /\ c = ")" -> [a EXCEPT !.in = "between"]
               [] a.in = "between" /\ c = "<" -> [a EXCEPT !.in = "email"]
               [] a.in = "email" /\ c = ">" -> [a EXCEPT !.in = "after"]
               [] OTHER -> [a EXCEPT ![a.in] = Append(@, c)],
             [in |-> "name", name |-> <<>>, comment |-> <<>>, between |-> <<>>, email |-> <<>>, after |-> <<>>], id)
  IN [name |-> TrimSpace(p.name), comment |-> TrimSpace(p.comment), email |-> TrimSpace(p.email)]

UserIdTrip(name, comment, email) ==
  trip' = [kind |-> "uid", uid |-> NewUserId(name, comment, email), back |-> parseUserId(NewUserId(name, comment, email).id)]
FoundIdTrip(id) ==
  LET p == parseUserId(id)
  IN trip' = [kind |-> "uid", uid |-> NewUserId(p.name, p.comment, p.email), back |-> parseUserId(NewUserId(p.name, p.comment, p.email).id)]

-----------------------------------------------------------------------------
(* Stretched passphrases.                                                  *)
decodeCount(c) == (16 + (c % 16)) * 2 ^ (c \div 16 + 6)

encodeCount(i) ==
  LET high == {c \in 0..255 : decodeCount(c) >= i} IN IF high = {} THEN 255 ELSE CHOOSE c \in high : \A d \in high : c <= d
encodedCount(n) == IF n = 0 THEN 96 ELSE encodeCount(IF n < 1024 THEN 1024 ELSE IF n > 65011712 THEN 65011712 ELSE n)

CountTrip(n) == trip' = [kind |-> "count", asked |-> n, count |-> decodeCount(encodedCount(n))]

(* What one pass of Iterated hashes, the zeros before it left out.         *)
hashInput(combined, count) ==
  FoldLeft(LAMBDA a, i : IF Len(a) >= count THEN a
                         ELSE IF Len(a) + Len(combined) > count THEN a \o SubSeq(combined, 1, count - Len(a))
                         ELSE a \o combined, <<>>, UpTo(count))

(* The passes of Iterated, or of Salted if the count is 0; a digest has    *)
(* four bytes.                                                             *)
passes(s) ==
  LET combined == s.salt \o s.in
      n == IF s.count < Len(combined) THEN Len(combined) ELSE s.count
  IN [i \in 1..((s.out + 3) \div 4) |-> [k \in 1..(i - 1) |-> 0] \o (IF s.count = 0 THEN combined ELSE hashInput(combined, n))]

StretchTrip(s) == trip' = [kind |-> "stretch", s |-> s, passes |-> passes(s)]

Init == trip = Start
Next ==
  /\ trip = Start
  /\ \/ \E text \in Texts : \E cut \in 0..Len(text) : CanonicalTrip(text, cut)
     \/ \E text \in Texts, garbage \in {<<>>, <<"a", "n">>} : ClearTrip(text, garbage)
     \/ \E text \in {t \in Texts : Len(t) <= 2}, cut \in 0..20 : ClearCutTrip(text, cut)
     \/ \E bytes \in Payloads, piece \in {1, 3, 4, 8, 99}, size \in {4, 5, 99}, header \in {<<>>, <<1, Bad, 2, NL>>},
           garbage \in {<<>>, <<Bad, NL>>, <<Begin, NL, 1, NL>>} : ArmorTrip(bytes, piece, size, header, garbage)
     \/ \E bytes \in Payloads, i \in 1..40, digit \in {0, 1, 33, Pad, NL} : ArmorFaultTrip(bytes, i, digit)
     \/ \E name, comment, email \in Names : UserIdTrip(name, comment, email)
     \/ \E id \in Ids : FoundIdTrip(id)
     \/ \E n \in Counts : CountTrip(n)
     \/ \E s \in Stretches : StretchTrip(s)

-----------------------------------------------------------------------------
(* How a text is cut into writes does not change what is signed, and text  *)
(* that is canonical already stays as it is.                               *)
CanonicalStable == trip.kind = "canonical" => trip.pieces = trip.whole /\ trip.again = trip.whole

(* What the reader of a clear-signed message verifies is what was signed,  *)
(* after both have normalised it, and the text it shows is the text that   *)
(* was signed, line by line.                                               *)
ClearAgrees ==
  trip.kind = "clear" =>
    /\ trip.back.at = "signature"
    /\ Canonical(trip.back.bytes) = trip.signed
    /\ Canonical(trip.back.plain) = trip.signed \o (IF trip.text = <<>> THEN <<>> ELSE Crlf)

(* Reading a message always ends, also one that was cut off.               *)
DecodeEnds == trip.kind \in {"clear", "cut"} => trip.back.at # "forever"

(* Armored bytes come back whatever the sizes of writes and reads, and     *)
(* changing a character either changes nothing or corrupts the block.      *)
ArmorReadBack ==
  /\ trip.kind = "armor" => trip.back = [err |-> "none", b |-> trip.bytes]
  /\ trip.kind = "fault" => trip.back \in {[err |-> "none", b |-> trip.bytes], [err |-> "corrupt", b |-> <<>>]}

(* A user id that was put together falls apart into the same parts.        *)
UserIdReadBack ==
  trip.kind = "uid" /\ trip.uid # NoUserId =>
    trip.back = [name |-> TrimSpace(trip.uid.name), comment |-> TrimSpace(trip.uid.comment), email |-> TrimSpace(trip.uid.email)]

(* A count is rounded up to the next one that can be written, within the   *)
(* limits, and never down.                                                 *)
CountRoundsUp ==
  trip.kind = "count" /\ trip.asked # 0 =>
    LET wanted == IF trip.asked < 1024 THEN 1024 ELSE IF trip.asked > 65011712 THEN 65011712 ELSE trip.asked
    IN /\ trip.count >= wanted
       /\ \A c \in 0..255 : decodeCount(c) >= wanted => trip.count <= decodeCount(c)

(* Every pass hashes exactly as much of the repeated salt and passphrase   *)
(* as the count says, all of it at least, and no two passes the same.      *)
StretchExact ==
  trip.kind = "stretch" =>
    LET combined == trip.s.salt \o trip.s.in
        n == IF trip.s.count < Len(combined) THEN Len(combined) ELSE trip.s.count
    IN \A i \in DOMAIN trip.passes :
         /\ Len(trip.passes[i]) = i - 1 + n
         /\ \A k \in DOMAIN trip.passes[i] : trip.passes[i][k] = IF k < i THEN 0 ELSE combined[((k - i) % Len(combined)) + 1]

=============================================================================
