--------------------------- MODULE OtrFragments ---------------------------
(***************************************************************************)
(* Messages cut to the size a chat network carries, and put together by    *)
(* the peer (encode, processFragment in otr/otr.go).  The byte i of        *)
(* message m is <<m, i>>.                                                  *)
(***************************************************************************)
EXTENDS Naturals, Sequences, SequencesExt

CONSTANTS
  Lengths,        \* lengths of the messages, in order, prefix and final dot included
  FragmentSizes,  \* values of Conversation.FragmentSize
  MaxFaults       \* lines the network loses or repeats

VARIABLES
  size, line, rc, whole, faults,
  next,      \* the message that is sent next
  panicked   \* whether encode has divided by zero

ofVars == <<size, line, rc, whole, faults, next, panicked>>

minFragmentSize == 18
Bytes(m) == [i \in 1..Lengths[m] |-> <<m, i>>]

(* The smallest size that is not ignored leaves no room for a byte.        *)
Panics(m, fs) == fs >= minFragmentSize /\ Lengths[m] > fs /\ fs - minFragmentSize = 0

numFragments(len, per) == (len + per) \div per

encode(m, fs) ==
  LET b == Bytes(m)
      per == fs - minFragmentSize
      num == numFragments(Len(b), per)
      upto(i) == IF i * per > Len(b) THEN Len(b) ELSE i * per
  IN IF fs < minFragmentSize \/ Len(b) <= fs THEN <<[k |-> 0, n |-> 0, part |-> b]>>
     ELSE [i \in 1..num |-> [k |-> i, n |-> num, part |-> SubSeq(b, upto(i - 1) + 1, upto(i))]]

(* A first fragment starts over, the next one goes on, any other one       *)
(* spoils what there is.                                                   *)
processFragment(c, f) ==
  IF f.k = 1 THEN [k |-> 1, n |-> f.n, frag |-> f.part]
  ELSE IF f.n = c.n /\ f.k = c.k + 1 THEN [c EXCEPT !.k = f.k, !.frag = @ \o f.part]
  ELSE [k |-> 0, n |-> 0, frag |-> <<>>]

Complete(c) == c.n > 0 /\ c.k = c.n

-----------------------------------------------------------------------------
Init ==
  /\ size \in FragmentSizes
  /\ line = <<>> /\ next = 1 /\ panicked = FALSE
  /\ rc = [k |-> 0, n |-> 0, frag |-> <<>>] /\ whole = <<>> /\ faults = 0

Send ==
  /\ next \in DOMAIN Lengths /\ ~panicked
  /\ IF Panics(next, size) THEN panicked' = TRUE /\ UNCHANGED <<line, next>>
     ELSE line' = line \o encode(next, size) /\ next' = next + 1 /\ UNCHANGED panicked
  /\ UNCHANGED <<size, rc, whole, faults>>

Take(f) ==
  IF f.k = 0 THEN whole' = Append(whole, f.part) /\ UNCHANGED rc
  ELSE \E c \in {processFragment(rc, f)} :
         /\ rc' = IF Complete(c) THEN [c EXCEPT !.k = 0, !.n = 0] ELSE c
         /\ whole' = IF Complete(c) THEN Append(whole, c.frag) ELSE whole

Arrive == line # <<>> /\ Take(Head(line)) /\ line' = Tail(line) /\ UNCHANGED <<size, faults, next, panicked>>

Repeat == line # <<>> /\ faults < MaxFaults /\ Take(Head(line)) /\ faults' = faults + 1 /\ UNCHANGED <<size, line, next, panicked>>

Lose == line # <<>> /\ faults < MaxFaults /\ faults' = faults + 1 /\ line' = Tail(line) /\ UNCHANGED <<size, rc, whole, next, panicked>>

Next == Send \/ Arrive \/ Repeat \/ Lose

-----------------------------------------------------------------------------
(* Over a network without faults every message that was sent comes out     *)
(* whole, in order; all are sent, whatever their lengths are to the size   *)
(* of a fragment, except where that is minFragmentSize itself and one is   *)
(* longer.                                                                 *)
AllWhole ==
  /\ faults = 0 /\ line = <<>> => whole = [m \in 1..(next - 1) |-> Bytes(m)]
  /\ panicked => size = minFragmentSize /\ Lengths[next] > size

(* Does not hold: "If FragmentSize is set, all messages produced by        *)
(* Receive and Send will be fragmented".                                   *)
AllSent == ~panicked

(* One loss or repetition costs a message at most; what comes out is still *)
(* a message that was sent.  (Two losses can join two messages.)           *)
NeverJoined == faults < 2 => \A i \in DOMAIN whole : \E m \in DOMAIN Lengths : whole[i] = Bytes(m)

=============================================================================
