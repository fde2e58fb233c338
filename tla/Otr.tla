-------------------------------- MODULE Otr --------------------------------
(***************************************************************************)
(* Two Conversations of the otr package (otr/otr.go): the authenticated    *)
(* key exchange, data messages under rotating keys, and the end, over a    *)
(* network that may lose and repeat messages.  A Diffie-Hellman value is   *)
(* the number of its exponent, a shared secret the pair of them; what is   *)
(* encrypted, signed or hashed under a secret carries it.                  *)
(***************************************************************************)
EXTENDS Naturals, Sequences, FiniteSets, SequencesExt

CONSTANTS
  Scenarios,   \* what the users and the network do: [A, B: calls, lose, repeat: how often]
  KeyIds       \* 2^32 in the code

VARIABLES
  todo,      \* what is still to happen, as in Scenarios
  c,         \* the Conversations
  net,       \* party -> messages on their way to it
  lost,      \* messages lost
  got, sent, \* texts
  told       \* changes and errors Receive has returned

otVars == <<todo, c, net, lost, got, sent, told>>

Parties == {"A", "B"}
Peer(me) == CHOOSE o \in Parties : o # me
NoValue == 0
Before(id) == (id + KeyIds - 1) % KeyIds

New(me) ==
  [state |-> "plaintext", auth |-> "none", x |-> NoValue, y |-> NoValue, gx |-> NoValue, gy |-> NoValue, r |-> NoValue,
   commit |-> NoValue, mask |-> {}, s |-> {}, my |-> 0, cur |-> NoValue, last |-> NoValue,
   their |-> 0, theirCur |-> NoValue, theirLast |-> NoValue, slots |-> {}, ctr |-> 0,
   next |-> IF me = "A" THEN 1 ELSE 2, full |-> FALSE, stray |-> FALSE]

(* What a handler makes of the conversation: messages, an event, a text.   *)
Result(k, out, ev) == [c |-> k, out |-> out, ev |-> ev, text |-> NoValue]
Error(k) == Result(k, <<>>, "error")

reset(k) == [k EXCEPT !.my = 0, !.slots = {}]

-----------------------------------------------------------------------------
(* randMPI: a value nobody has had.                                        *)
generateDHCommit(k) ==
  [k EXCEPT !.x = k.next, !.gx = k.next, !.gy = NoValue, !.r = k.next,
            !.commit = k.next, !.mask = {k.next}, !.next = @ + 2]

serializeDHCommit(k) == <<[t |-> "commit", gx |-> k.commit, mask |-> k.mask]>>

processDHCommit(k, m) == [k EXCEPT !.commit = m.gx, !.mask = m.mask]

generateDHKey(k) == [k EXCEPT !.y = k.next, !.gy = k.next, !.next = @ + 2]
serializeDHKey(k) == <<[t |-> "key", gy |-> k.gy]>>

(* They win: forget our commitment, take theirs.                           *)
answerCommit(k, m) ==
  LET n == generateDHKey(reset(processDHCommit([k EXCEPT !.auth = "reveal"], m)))
  IN Result(n, serializeDHKey(n), "none")

(* In a crossing the greater digest wins.                                  *)
receiveCommit(k, m) ==
  CASE k.auth = "key" /\ k.commit > m.gx -> Result(k, serializeDHCommit(k), "none")
    [] k.auth = "key" /\ k.commit <= m.gx -> answerCommit(k, m)
    [] k.auth \in {"none", "sig"} -> answerCommit(k, m)
    [] k.auth = "reveal" -> Result(processDHCommit(k, m), serializeDHKey(k), "none")

-----------------------------------------------------------------------------

rotateDHKeys(k) ==
  [k EXCEPT !.slots = {e \in @ : e.my # Before(k.my)},
            !.last = k.cur, !.cur = k.next, !.next = @ + 2, !.my = @ + 1]

(* generateRevealSig and generateSig: the key id that is signed, then a    *)
(* first rotation.                                                         *)
signed(k, own, s) ==
  [c |-> rotateDHKeys([k EXCEPT !.my = @ + 1, !.cur = own, !.s = s, !.ctr = @ + 1]), id |-> k.my + 1]

generateRevealSig(k) ==
  LET g == signed(k, k.x, {k.x, k.gy})
  IN Result([g.c EXCEPT !.auth = "sig"], <<[t |-> "reveal", r |-> k.r, s |-> g.c.s, id |-> g.id]>>, "none")

receiveKey(k, m) ==
  CASE k.auth = "key" /\ k.gy = NoValue -> generateRevealSig([k EXCEPT !.gy = m.gy])
    [] k.auth = "key" /\ k.gy # NoValue -> Error(k)
    [] k.auth = "sig" /\ k.gy = m.gy -> Result(k, serializeDHKey(k), "none")
    [] OTHER -> Result(k, <<>>, "none")

(* The commitment is decrypted where it lies, also when the key is wrong.  *)
processRevealSig(k, m) ==
  LET plain == [k EXCEPT !.mask = SymDiff(@, {m.r})]
      known == [plain EXCEPT !.gx = plain.commit, !.s = {plain.commit, k.y}]
      theirs == [known EXCEPT !.their = m.id, !.theirCur = known.gx, !.theirLast = NoValue]
      g == signed(theirs, k.y, theirs.s)
  IN IF plain.mask # {} THEN Error(plain)
     ELSE IF m.s # known.s THEN Error(known)
     ELSE Result([g.c EXCEPT !.auth = "none", !.state = "encrypted"],
                 <<[t |-> "sig", s |-> g.c.s, id |-> g.id]>>, "NewKeys")

\* mutant: the signature is not compared
processSigBlind(k, m) ==
  Result([k EXCEPT !.their = m.id, !.theirCur = k.gy, !.theirLast = NoValue, !.auth = "none", !.state = "encrypted"], <<>>, "NewKeys")

processSig(k, m) ==
  IF m.s # k.s THEN Error(k)
  ELSE Result([k EXCEPT !.their = m.id, !.theirCur = k.gy, !.theirLast = NoValue,
                        !.auth = "none", !.state = "encrypted"], <<>>, "NewKeys")

-----------------------------------------------------------------------------
MaxSlots == 4
Key(s, high) == <<s, high>>

(* calcDataKeys: a slot in use, or a free one filled from the two keys.    *)
SlotFor(k, my, their) == {e \in k.slots : e.my = my /\ e.their = their}

calcDataKeys(k, my, their) ==
  LET own == IF my = k.my THEN k.cur ELSE IF my = Before(k.my) THEN k.last ELSE NoValue
      pub == IF their = k.their THEN k.theirCur ELSE IF their = Before(k.their) THEN k.theirLast ELSE NoValue
      fresh == [my |-> my, their |-> their, ctr |-> 0,
                send |-> Key({own, pub}, own > pub), recv |-> Key({own, pub}, own <= pub)]
  IN IF SlotFor(k, my, their) # {} THEN SlotFor(k, my, their)
     ELSE IF Cardinality(k.slots) = MaxSlots \/ own = NoValue \/ pub = NoValue THEN {}
     ELSE {fresh}

(* generateData panics when there are no keys to send with.                *)
generateData(k, text, tlv) ==
  LET e == calcDataKeys(k, Before(k.my), k.their)
      slot == CHOOSE x \in e : TRUE
  IN IF e = {} THEN Result([k EXCEPT !.full = TRUE], <<>>, "none")
     ELSE Result([k EXCEPT !.slots = @ \cup e, !.ctr = @ + 1, !.stray = @ \/ k.my = 0],
                 <<[t |-> "data", from |-> Before(k.my), to |-> k.their, pub |-> k.cur, ctr |-> k.ctr,
                    key |-> slot.send, text |-> text, tlv |-> tlv]>>, "none")

\* mutant: a counter may come again
FreshCounterAny(m, slot) == m.ctr >= slot.ctr

FreshCounter(m, slot) == m.ctr > slot.ctr

(* processData: keys, MAC, counter; then either side's key may move on.    *)
processData(k, m) ==
  LET e == calcDataKeys(k, m.to, m.from)
      slot == CHOOSE x \in e : TRUE
      keyed == [k EXCEPT !.slots = @ \cup e]
      counted == [k EXCEPT !.slots = (@ \ e) \cup {[slot EXCEPT !.ctr = m.ctr]}]
      mine == IF m.to = k.my THEN rotateDHKeys(counted) ELSE counted
      both == IF m.from # k.their THEN mine
              ELSE [mine EXCEPT !.slots = {x \in @ : x.their # Before(m.from)},
                                !.theirLast = mine.theirCur, !.their = @ + 1, !.theirCur = m.pub]
  IN IF e = {} THEN Error([k EXCEPT !.full = @ \/ Cardinality(k.slots) = MaxSlots])
     ELSE IF m.key # slot.recv \/ ~FreshCounter(m, slot) THEN Error(keyed)
     ELSE IF m.tlv = "disconnected" THEN Result([both EXCEPT !.state = "finished"], <<>>, "ConversationEnded")
     ELSE [Result(both, <<>>, "none") EXCEPT !.text = m.text]

(* Receive: a query starts the exchange, the rest depends on the state.    *)
Receive(k, m) ==
  CASE m.t = "query" -> LET n == generateDHCommit(reset([k EXCEPT !.auth = "key"])) IN Result(n, serializeDHCommit(n), "none")
    [] m.t = "commit" -> receiveCommit(k, m)
    [] m.t = "key" -> receiveKey(k, m)
    [] m.t = "reveal" -> IF k.auth = "reveal" THEN processRevealSig(k, m) ELSE Result(k, <<>>, "none")
    [] m.t = "sig" -> IF k.auth = "sig" THEN processSig(k, m) ELSE Result(k, <<>>, "none")
    [] m.t = "data" -> IF k.state = "encrypted" THEN processData(k, m) ELSE Error(k)

Send(k, text) == IF k.state = "encrypted" THEN generateData(k, text, "none") ELSE Error(k)

End(k) ==
  IF k.state = "encrypted" THEN generateData([k EXCEPT !.state = "plaintext"], NoValue, "disconnected")
  ELSE Result([k EXCEPT !.state = "plaintext"], <<>>, "none")

-----------------------------------------------------------------------------
Init ==
  /\ todo \in Scenarios /\ lost = 0
  /\ c = [p \in Parties |-> New(p)] /\ net = [p \in Parties |-> <<>>]
  /\ got = [p \in Parties |-> <<>>] /\ sent = [p \in Parties |-> <<>>] /\ told = [p \in Parties |-> <<>>]

Call(p) ==
  /\ todo[p] # <<>> /\ (Head(todo[p]) = "send" => c[p].state # "plaintext")
  /\ LET text == Len(sent[p]) + 1
         st == CASE Head(todo[p]) = "query" -> Result(c[p], <<[t |-> "query"]>>, "none")
                 [] Head(todo[p]) = "send" -> Send(c[p], text)
                 [] Head(todo[p]) = "end" -> End(c[p])
     IN /\ c' = [c EXCEPT ![p] = st.c]
        /\ net' = [net EXCEPT ![Peer(p)] = @ \o st.out]
        /\ sent' = IF Head(todo[p]) = "send" /\ c[p].state = "encrypted" THEN [sent EXCEPT ![p] = Append(@, text)] ELSE sent
  /\ todo' = [todo EXCEPT ![p] = Tail(@)]
  /\ UNCHANGED <<lost, got, told>>

Deliver(p, keep) ==
  /\ net[p] # <<>>
  /\ \E st \in {Receive(c[p], Head(net[p]))} :
       /\ c' = [c EXCEPT ![p] = st.c]
       /\ net' = [net EXCEPT ![p] = IF keep THEN @ ELSE Tail(@), ![Peer(p)] = @ \o st.out]
       /\ got' = IF st.text = NoValue THEN got ELSE [got EXCEPT ![p] = Append(@, st.text)]
       /\ told' = IF st.ev = "none" THEN told ELSE [told EXCEPT ![p] = Append(@, st.ev)]
  /\ UNCHANGED <<lost, sent>>

Arrive(p) == Deliver(p, FALSE) /\ UNCHANGED todo

Again(p) == todo.repeat > 0 /\ todo' = [todo EXCEPT !.repeat = @ - 1] /\ Deliver(p, TRUE)

Lose(p) ==
  /\ todo.lose > 0 /\ todo' = [todo EXCEPT !.lose = @ - 1] /\ lost' = lost + 1
  /\ net[p] # <<>> /\ net' = [net EXCEPT ![p] = Tail(@)]
  /\ UNCHANGED <<c, got, sent, told>>

Next == \E p \in Parties : Call(p) \/ Arrive(p) \/ Again(p) \/ Lose(p)

-----------------------------------------------------------------------------
Quiet == \A p \in Parties : net[p] = <<>>

(* When nothing is under way, two parties that both finished an exchange   *)
(* as their last step share its secret: the same SSID, and each has the    *)
(* other's key of the id it names.                                         *)
AgreeOnKeys ==
  Quiet /\ (\A p \in Parties : c[p].state = "encrypted" /\ c[p].auth = "none") =>
    /\ c["A"].s = c["B"].s
    /\ \A p \in Parties :
         c[p].theirCur = (IF c[p].their = c[Peer(p)].my THEN c[Peer(p)].cur ELSE c[Peer(p)].last)

(* Texts are delivered in the order sent, each at most once, though the    *)
(* network repeats messages.                                               *)
InOrderOnce ==
  \A p \in Parties :
    /\ \A i \in DOMAIN got[p] : got[p][i] <= Len(sent[Peer(p)])
    /\ \A i, j \in DOMAIN got[p] : i < j => got[p][i] < got[p][j]

(* There is always a slot for the keys of a message ("internal error: no   *)
(* more key slots"; a panic in generateData).                              *)
SlotsSuffice == \A p \in Parties : ~c[p].full

(* It holds for a party that has sent nothing while its key ids were reset *)
(* for a new exchange: slots are evicted before the last two keys of       *)
(* either side need them.                                                  *)
SlotsSufficeInSession == \A p \in Parties : c[p].full => c[p].stray

(* If nothing is lost, nobody ends the session and it is negotiated once,  *)
(* everything that is sent arrives.                                        *)
Arrives ==
  /\ Quiet /\ lost = 0
  /\ \A p \in Parties : c[p].state = "encrypted" /\ c[p].auth = "none" /\ SelectSeq(told[p], LAMBDA e : e # "error") = <<"NewKeys">>
  =>
    \A p \in Parties : Len(got[p]) = Len(sent[Peer(p)])

=============================================================================
