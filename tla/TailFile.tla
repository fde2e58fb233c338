------------------------------ MODULE TailFile ------------------------------
(***************************************************************************)
(* dircat.TailFile and GetLineByPosition (dircat/file_tail.go): the last   *)
(* cnt lines of a tmp file, found by seeking backwards, while the session  *)
(* of the host may still append to the file and the merge may remove it.   *)
(*                                                                         *)
(* File positions are the source's 0-based ones.                           *)
(***************************************************************************)
EXTENDS Integers, Sequences, SequencesExt, FiniteSetsExt

CONSTANTS
  Chars,     \* characters other than the two below
  NL, CR,    \* line feed, carriage return
  Files,     \* what the file may hold when TailFile is called
  Cnts,      \* the number of lines asked for
  BackStep,  \* how far a backward seek goes (50)
  MaxToken,  \* the longest line a bufio.Scanner delivers (64K)
  MaxLen     \* bound: the file does not grow beyond

VARIABLES
  file, exists,  \* contents of the file; whether its path still leads to it
  cnt,           \* lines asked for
  size, cursor,  \* file size found by Stat; last position not yet in text
  now,           \* GetLineByPosition: position of the file pointer
  text,          \* the lines found so far
  pc             \* "stat", "open", "line", "back", "forward", "done" or "failed"

vars == <<file, exists, cnt, size, cursor, now, text, pc>>

At(f, p) == f[p + 1]
DefaultCnt == 10

(* External: the bytes a fresh bufio.Scanner on f at position p delivers   *)
(* as its first line (ScanLines): up to the line feed or the end, without  *)
(* a carriage return before it; nothing when the line exceeds the buffer.  *)
ScanLen(f, p) ==
  LET stops == {q \in p .. Len(f) - 1 : At(f, q) = NL}
      stop == IF stops = {} THEN Len(f) ELSE Min(stops)
      len == IF stop < p THEN 0 ELSE stop - p
  IN IF len > MaxToken THEN 0
     ELSE IF len > 0 /\ At(f, p + len - 1) = CR THEN len - 1
     ELSE len

Init ==
  /\ file \in Files /\ exists = TRUE
  /\ cnt \in Cnts
  /\ size = 0 /\ cursor = 0 /\ now = 0
  /\ text = <<>>
  /\ pc = "stat"

-----------------------------------------------------------------------------
Stat ==
  /\ pc = "stat"
  /\ IF exists
     THEN size' = Len(file) /\ pc' = "open"
     ELSE size' = size /\ pc' = "failed"
  /\ UNCHANGED <<file, exists, cnt, cursor, now, text>>

Open ==
  /\ pc = "open"
  /\ IF exists
     THEN /\ cursor' = size - 1
          /\ cnt' = IF cnt < 1 THEN DefaultCnt ELSE cnt
          /\ pc' = "line"
     ELSE pc' = "failed" /\ UNCHANGED <<cursor, cnt>>
  /\ UNCHANGED <<file, exists, size, now, text>>

(* The loop of TailFile: another call of GetLineByPosition, or the end.    *)
NextLine ==
  /\ pc = "line"
  /\ IF Len(text) = cnt \/ cursor < 0
     THEN pc' = "done" /\ UNCHANGED now
     ELSE pc' = "back" /\ now' = cursor
  /\ UNCHANGED <<file, exists, cnt, size, cursor, text>>

\* mutant: the seek does not stop at the start of the file
BackBeyondStart ==
  /\ pc = "back"
  /\ LET p == IF now - BackStep < 0 THEN 1 ELSE now - BackStep
         len == ScanLen(file, p)
     IN IF len + p >= cursor /\ p # 0
        THEN now' = p /\ UNCHANGED pc
        ELSE now' = (IF p = 0 THEN 0 ELSE p + len + 1) /\ pc' = "forward"
  /\ UNCHANGED <<file, exists, cnt, size, cursor, text>>

(* Seek back until a line ends before the cursor, or to the start.         *)
Back ==
  /\ pc = "back"
  /\ LET p == IF now - BackStep < 0 THEN 0 ELSE now - BackStep
         len == ScanLen(file, p)
     IN IF len + p >= cursor /\ p # 0
        THEN now' = p /\ UNCHANGED pc
        ELSE now' = (IF p = 0 THEN 0 ELSE p + len + 1) /\ pc' = "forward"
  /\ UNCHANGED <<file, exists, cnt, size, cursor, text>>

\* mutant: the line feed is taken for a part of the next line
ForwardPastLineFeed ==
  /\ pc = "forward"
  /\ LET len == ScanLen(file, now)
     IN IF now + len <= cursor
        THEN now' = now + len + 1 /\ UNCHANGED <<cursor, text, pc>>
        ELSE /\ text' = <<SubSeq(file, now + 1, now + len)>> \o text
             /\ cursor' = now - 1
             /\ pc' = "line" /\ UNCHANGED now
  /\ UNCHANGED <<file, exists, cnt, size>>

(* Go forward line by line to the one that holds the cursor; read it.      *)
Forward ==
  /\ pc = "forward"
  /\ LET len == ScanLen(file, now)
     IN IF now + len < cursor
        THEN now' = now + len + 1 /\ UNCHANGED <<cursor, text, pc>>
        ELSE /\ text' = <<SubSeq(file, now + 1, now + len)>> \o text
             /\ cursor' = now - 1
             /\ pc' = "line" /\ UNCHANGED now
  /\ UNCHANGED <<file, exists, cnt, size>>

(* The session of the host appends a character; the merge removes the file.*)
Grow ==
  /\ Len(file) < MaxLen
  /\ \E c \in Chars \cup {NL} : file' = Append(file, c)
  /\ UNCHANGED <<exists, cnt, size, cursor, now, text, pc>>

Unlink ==
  /\ exists /\ exists' = FALSE
  /\ UNCHANGED <<file, cnt, size, cursor, now, text, pc>>

Over == pc \in {"done", "failed"}
Search == Stat \/ Open \/ NextLine \/ Back \/ Forward
Next == (~Over /\ (Search \/ Grow \/ Unlink)) \/ (Over /\ UNCHANGED vars)
Spec == Init /\ [][Next]_vars

-----------------------------------------------------------------------------
(* The file pointer and the cursor stay inside the file as Stat saw it, or *)
(* one past a bound; there are never more lines than asked for.            *)
TypeOK ==
  /\ file \in Seq(Chars \cup {NL, CR}) /\ exists \in BOOLEAN
  /\ cnt \in Int /\ size \in 0 .. Len(file)
  /\ cursor \in -1 .. size /\ now \in 0 .. Len(file)
  /\ text \in Seq(Seq(Chars \cup {NL, CR}))
  /\ pc \in {"stat", "open", "line", "back", "forward", "done", "failed"}

(* Reference: where the lines of f start, and the line that starts at s.   *)
Starts(f) == {s \in 0 .. Len(f) - 1 : s = 0 \/ At(f, s - 1) = NL}
LineAt(f, s) ==
  LET stops == {q \in s .. Len(f) - 1 : At(f, q) = NL}
  IN SubSeq(f, s + 1, IF stops = {} THEN Len(f) ELSE Min(stops))

(* The files TailFile is made for: no carriage returns, and no line longer *)
(* than a scanner's buffer.                                                *)
Plain(f) == CR \notin Range(f) /\ \A s \in Starts(f) : Len(LineAt(f, s)) <= MaxToken

(* TailFile returns the last cnt lines of the file as Stat saw it, in      *)
(* order, blank lines included, and no line twice or torn: a line differs  *)
(* from what it was then only by what has been appended to it since.       *)
TailIsLastLines ==
  (pc = "done" /\ Plain(file)) =>
    LET seen == SubSeq(file, 1, size)
        place(s) == Len(text) - Cardinality({t \in Starts(seen) : t > s})
    IN /\ Len(text) = Min({cnt, Cardinality(Starts(seen))})
       /\ \A s \in Starts(seen) :
            place(s) > 0 => /\ IsPrefix(LineAt(seen, s), text[place(s)])
                            /\ IsPrefix(text[place(s)], LineAt(file, s))

=============================================================================
