----------------------------- MODULE TerminalInput -----------------------------
(***************************************************************************)
(* How ssh/terminal turns the bytes of a terminal into keys: bytesToKey    *)
(* and the loop of readLine around it.  The bytes arrive in pieces of any  *)
(* length; an incomplete key stays in the remainder, at the beginning of   *)
(* inBuf, and the next Read appends to it.  A byte is a string; "utf1" and *)
(* "utf2" are the two bytes of one rune, "bad" is no rune at all, and      *)
(* every other byte that is not the escape is a rune of its own.           *)
(***************************************************************************)
EXTENDS Integers, Sequences, SequencesExt

CONSTANTS
  Inputs,    \* the sequences of bytes that are typed
  InBuf      \* the length of inBuf

VARIABLES
  input, taken,   \* what is typed, and how many bytes of it were read
  remainder, keys, pasteActive,
  at              \* the reader: "parse", "wait" in Read, or "idle" between two calls

vars == <<input, taken, remainder, keys, pasteActive, at>>

Starts(b, s) == Len(b) >= Len(s) /\ SubSeq(b, 1, Len(s)) = s
Final == {"A", "B", "C", "D", "H", "F", "a", "~"}
Escapes(paste) ==
  IF paste THEN {<<<<"esc", "[", "2", "0", "1", "~">>, "pasteEnd">>}
  ELSE {<<<<"esc", "[", "A">>, "up">>, <<<<"esc", "[", "B">>, "down">>, <<<<"esc", "[", "C">>, "right">>, <<<<"esc", "[", "D">>, "left">>,
        <<<<"esc", "[", "H">>, "home">>, <<<<"esc", "[", "F">>, "end">>, <<<<"esc", "[", "1", ";", "3", "C">>, "altRight">>,
        <<<<"esc", "[", "1", ";", "3", "D">>, "altLeft">>, <<<<"esc", "[", "2", "0", "0", "~">>, "pasteStart">>}
Controls == {"ctrlA", "ctrlE", "ctrlH", "ctrlK", "ctrlL", "ctrlW"}

(* The key at the beginning of b and how many bytes it takes: "none" if it *)
(* is incomplete, "error" if the first byte begins no rune.  A control     *)
(* character is its key when it is typed and itself when it is pasted.     *)
bytesToKey(b, paste) ==
  LET known == {e \in Escapes(paste) : Starts(b, e[1])}
      ends == {i \in DOMAIN b : b[i] \in Final}
      no == [key |-> "none", n |-> 0]
  IN IF b = <<>> THEN no
     ELSE IF b[1] \in Controls THEN [key |-> IF paste THEN "pasted" ELSE b[1], n |-> 1]
     ELSE IF b[1] = "utf1" /\ Len(b) = 1 THEN no
     ELSE IF b[1] = "utf1" /\ b[2] = "utf2" THEN [key |-> "rune", n |-> 2]
     ELSE IF b[1] \in {"utf1", "utf2", "bad"} THEN [key |-> "error", n |-> 1]
     ELSE IF b[1] # "esc" THEN [key |-> b[1], n |-> 1]
     ELSE IF known # {} THEN LET e == CHOOSE e \in known : TRUE IN [key |-> e[2], n |-> Len(e[1])]
     ELSE IF ends # {} THEN [key |-> "unknown", n |-> CHOOSE i \in ends : \A j \in ends : i <= j]
     ELSE no

(* One turn of the loop.  An error is taken for an incomplete key: the     *)
(* byte is dropped, and what follows it waits for the next Read.           *)
Key ==
  /\ at = "parse"
  /\ LET k == bytesToKey(remainder, pasteActive)
     IN /\ remainder' = SubSeq(remainder, k.n + 1, Len(remainder))
        /\ IF k.key \in {"none", "error"} THEN at' = "wait" /\ UNCHANGED <<keys, pasteActive>>
           ELSE /\ keys' = Append(keys, k.key)
                /\ pasteActive' = IF k.key \in {"pasteStart", "pasteEnd"} THEN ~pasteActive ELSE pasteActive
                /\ at' = IF k.key = "enter" THEN "idle" ELSE "parse"
  /\ UNCHANGED <<input, taken>>

Read(n) ==
  /\ at = "wait" /\ n <= InBuf - Len(remainder) /\ n <= Len(input) - taken
  /\ remainder' = remainder \o SubSeq(input, taken + 1, taken + n)
  /\ taken' = taken + n /\ at' = "parse"
  /\ UNCHANGED <<input, keys, pasteActive>>

ReadLine ==
  /\ at = "idle" /\ at' = "parse"
  /\ UNCHANGED <<input, taken, remainder, keys, pasteActive>>

Init == input \in Inputs /\ taken = 0 /\ remainder = <<>> /\ keys = <<>> /\ pasteActive = FALSE /\ at = "idle"
Next == Key \/ ReadLine \/ \E n \in 1..InBuf : Read(n)
Spec == Init /\ [][Next]_vars

-----------------------------------------------------------------------------
RECURSIVE KeysOf(_, _)
KeysOf(b, paste) ==
  LET k == bytesToKey(b, paste)
      rest == SubSeq(b, k.n + 1, Len(b))
  IN IF k.key = "none" THEN <<>>
     ELSE IF k.key = "error" THEN KeysOf(rest, paste)
     ELSE <<k.key>> \o KeysOf(rest, IF k.key \in {"pasteStart", "pasteEnd"} THEN ~paste ELSE paste)

(* The keys do not depend on how the bytes were cut into pieces: they are  *)
(* those of all the bytes read so far, in one piece, as far as they have   *)
(* been handled; and all of them have been when the reader waits, unless   *)
(* there was a byte that begins no rune.                                   *)
KeysAsTyped ==
  LET all == KeysOf(SubSeq(input, 1, taken), FALSE)
  IN /\ IsPrefix(keys, all)
     /\ at = "wait" /\ (\A i \in 1..taken : input[i] \notin {"bad", "utf1", "utf2"}) => keys = all

=============================================================================
