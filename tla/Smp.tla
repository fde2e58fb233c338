-------------------------------- MODULE Smp --------------------------------
(***************************************************************************)
(* The Socialist Millionaires' Protocol of the otr package (otr/smp.go)    *)
(* and the calls of otr.go that drive it: both parties' state machines and *)
(* the arithmetic of the proofs, in a group small enough to compute with.  *)
(* The TLVs travel in order inside an encrypted conversation.              *)
(***************************************************************************)
EXTENDS Integers, Sequences, SequencesExt

CONSTANTS
  p, q, g,     \* g of order q modulo p
  Rands,       \* sequences of seven random numbers
  Plans,       \* what the users do: [A, B: sequences of secrets given to Authenticate, ends]
  SSID

VARIABLES plan, smp, wire, told, asked

smVars == <<plan, smp, wire, told, asked>>

Parties == {"A", "B"}
Peer(me) == CHOOSE o \in Parties : o # me
Fingerprint(me) == IF me = "A" THEN 3 ELSE 7

-----------------------------------------------------------------------------
Exp(b, e) == FoldLeft(LAMBDA acc, i : (acc * b) % p, 1, [i \in 1..e |-> i])
Mul(a, b) == (a * b) % p
ModInverse(a) == CHOOSE x \in 1..(p - 1) : (x * a) % p = 1
Over(a, b) == Mul(a, ModInverse(b))

(* hashMPIs, to a number below q.                                          *)
hashMPIs(magic, mpis) == FoldLeft(LAMBDA acc, x : (acc * 5 + x) % q, magic, mpis)

(* A proof that the exponent of base^a is known: challenge and answer.     *)
Answer(r, a, ch) == (r - a * ch) % q

(* calcSMPSecret: the initiator's fingerprint comes first.                 *)
calcSMPSecret(me, weStarted, secret) ==
  LET first == IF weStarted THEN me ELSE Peer(me)
  IN hashMPIs(1, <<Fingerprint(first), Fingerprint(Peer(first)), SSID, secret>>)

NoTlv == [t |-> "none"]
Abort == [t |-> "abort"]
New == [st |-> 1, a2 |-> 0, a3 |-> 0, b3 |-> 0, pb |-> 1, qb |-> 1, g2a |-> 1, g3a |-> 1, g2 |-> 1, g3 |-> 1,
        g3b |-> 1, papb |-> 1, qaqb |-> 1, secret |-> -1, saved |-> NoTlv]

resetSMP(k) == [k EXCEPT !.st = 1, !.secret = -1]

-----------------------------------------------------------------------------
generateSMP1(k, r) ==
  LET c2 == hashMPIs(1, <<Exp(g, r[3])>>)
      c3 == hashMPIs(2, <<Exp(g, r[4])>>)
  IN [k |-> [k EXCEPT !.a2 = r[1], !.a3 = r[2]],
      out |-> [t |-> "smp1", g2a |-> Exp(g, r[1]), c2 |-> c2, d2 |-> Answer(r[3], r[1], c2),
               g3a |-> Exp(g, r[2]), c3 |-> c3, d3 |-> Answer(r[4], r[2], c3)]]

(* The check that goes with Answer, for a proof with this magic.           *)
Proved(magic, pub, ch, d) == ch = hashMPIs(magic, <<Mul(Exp(g, d), Exp(pub, ch))>>)

processSMP1(k, m) == Proved(1, m.g2a, m.c2, m.d2) /\ Proved(2, m.g3a, m.c3, m.d3)

(* The pair P, Q that hides a secret, and the proof that it is well made.  *)
Hidden(k, magic, r4, r5, r6) ==
  LET cp == hashMPIs(magic, <<Exp(k.g3, r5), Mul(Exp(g, r5), Exp(k.g2, r6))>>)
  IN [P |-> Exp(k.g3, r4), Q |-> Mul(Exp(g, r4), Exp(k.g2, k.secret)), cp |-> cp,
      d5 |-> Answer(r5, r4, cp), d6 |-> Answer(r6, k.secret, cp)]

WellMade(k, magic, P, Q, cp, d5, d6) ==
  cp = hashMPIs(magic, <<Mul(Exp(k.g3, d5), Exp(P, cp)),
                         Mul(Mul(Exp(g, d5), Exp(k.g2, d6)), Exp(Q, cp))>>)

generateSMP2(k, m, r) ==
  LET c(i, x) == hashMPIs(i, <<Exp(g, x)>>)
      n == [k EXCEPT !.g2a = m.g2a, !.g3a = m.g3a, !.b3 = r[2], !.g2 = Exp(m.g2a, r[1]), !.g3 = Exp(m.g3a, r[2])]
      reply(own, h) ==
        [k |-> [own EXCEPT !.pb = h.P, !.qb = h.Q],
         out |-> [t |-> "smp2", g2b |-> Exp(g, r[1]), c2 |-> c(3, r[3]), d2 |-> Answer(r[3], r[1], c(3, r[3])),
                  g3b |-> Exp(g, r[2]), c3 |-> c(4, r[4]), d3 |-> Answer(r[4], r[2], c(4, r[4])), h |-> h]]
  IN reply(n, Hidden(n, 5, r[5], r[6], r[7]))

(* R = (Qa/Qb)^exponent with a proof that the exponent is the one of g3.   *)
Raised(magic, base, e, r7) ==
  LET cr == hashMPIs(magic, <<Exp(g, r7), Exp(base, r7)>>)
  IN [R |-> Exp(base, e), cr |-> cr, d7 |-> Answer(r7, e, cr)]

RightExponent(magic, base, pub, x) ==
  x.cr = hashMPIs(magic, <<Mul(Exp(g, x.d7), Exp(pub, x.cr)), Mul(Exp(base, x.d7), Exp(x.R, x.cr))>>)

processSMP2(k, m, r) ==
  LET n == [k EXCEPT !.g2 = Exp(m.g2b, k.a2), !.g3 = Exp(m.g3b, k.a3)]
      reply(own, h, qaqb) ==
        [ok |-> /\ Proved(3, m.g2b, m.c2, m.d2) /\ Proved(4, m.g3b, m.c3, m.d3)
                /\ WellMade(own, 5, m.h.P, m.h.Q, m.h.cp, m.h.d5, m.h.d6),
         k |-> [own EXCEPT !.g3b = m.g3b, !.qaqb = qaqb, !.papb = Over(h.P, m.h.P), !.st = 4],
         out |-> [t |-> "smp3", h |-> h, a |-> Raised(7, qaqb, k.a3, r[4])]]
      divide(own, h) == reply(own, h, Over(h.Q, m.h.Q))
  IN divide(n, Hidden(n, 6, r[1], r[2], r[3]))

processSMP3(k, m, r) ==
  LET qaqb == Over(m.h.Q, k.qb)
  IN [ok |-> WellMade(k, 6, m.h.P, m.h.Q, m.h.cp, m.h.d5, m.h.d6) /\ RightExponent(7, qaqb, k.g3a, m.a),
      equal |-> Over(m.h.P, k.pb) = Exp(m.a.R, k.b3),
      out |-> [t |-> "smp4", b |-> Raised(8, qaqb, k.b3, r[1])]]

processSMP4(k, m) ==
  [ok |-> RightExponent(8, k.qaqb, k.g3b, m.b), equal |-> Exp(m.b.R, k.a3) = k.papb]

-----------------------------------------------------------------------------
(* processSMP and what Receive tells of it: the conversation, a reply, an  *)
(* event.                                                                  *)
Step(k, out, ev) == [k |-> k, out |-> out, ev |-> ev]
Unexpected(k) == Step(resetSMP(k), Abort, "none")

\* mutant: the one who started is not told
mismatchedQuietly(k) == Step(k, Abort, "none")

(* The fourth message shows that the secrets differ.                       *)
mismatched(k) == Step(k, Abort, "SMPFailed")

aborted(k) == Step(resetSMP(k), NoTlv, IF k.st # 1 THEN "SMPFailed" ELSE "none")

processSMP(k, m, r) ==
  LET after1(s) == Step([s.k EXCEPT !.st = 3], s.out, "none")
      after2(s) == IF s.ok THEN Step(s.k, s.out, "none") ELSE Step(k, Abort, "error")
      after3(s) == IF ~s.ok THEN Step(k, NoTlv, "error")
                   ELSE IF s.equal THEN Step(resetSMP(k), s.out, "SMPComplete") ELSE Step(k, s.out, "SMPFailed")
      after4(s) == IF ~s.ok THEN Step(k, Abort, "error")
                   ELSE IF s.equal THEN Step(resetSMP(k), NoTlv, "SMPComplete") ELSE mismatched(k)
  IN CASE m.t = "abort" -> aborted(k)
       [] m.t = "smp1" ->
            IF k.st # 1 THEN Unexpected(k)
            ELSE IF k.secret = -1 THEN Step([k EXCEPT !.saved = m], NoTlv, "SMPSecretNeeded")
            ELSE IF ~processSMP1(k, m) THEN Step(k, NoTlv, "error")
            ELSE after1(generateSMP2(k, m, r))
       [] m.t = "smp2" -> IF k.st # 2 THEN Unexpected(k) ELSE after2(processSMP2(k, m, r))
       [] m.t = "smp3" -> IF k.st # 3 THEN Unexpected(k) ELSE after3(processSMP3(k, m, r))
       [] m.t = "smp4" -> IF k.st # 4 THEN Unexpected(k) ELSE after4(processSMP4(k, m))

(* Authenticate: an answer to the peer's first message, or a start, with   *)
(* an abort in front of it when another run is under way (startSMP).       *)
Authenticate(me, k, secret, r) ==
  LET answer(s) == [k |-> [s.k EXCEPT !.saved = NoTlv], out |-> <<s.out>>, started |-> FALSE]
      start(s) == [k |-> [s.k EXCEPT !.st = 2],
                   out |-> (IF k.st # 1 THEN <<Abort>> ELSE <<>>) \o <<s.out>>, started |-> TRUE]
  IN IF k.saved # NoTlv
     THEN answer(processSMP([k EXCEPT !.secret = calcSMPSecret(me, FALSE, secret)], k.saved, r))
     ELSE start(generateSMP1([k EXCEPT !.secret = calcSMPSecret(me, TRUE, secret)], r))

-----------------------------------------------------------------------------
Sendable(out) == SelectSeq(out, LAMBDA m : m.t # "none")

Init ==
  /\ plan \in Plans
  /\ smp = [x \in Parties |-> New] /\ wire = [x \in Parties |-> <<>>]
  /\ told = [x \in Parties |-> <<>>] /\ asked = [x \in Parties |-> FALSE]

Call(x) ==
  /\ plan[x] # <<>>
  /\ \E r \in Rands : \E s \in {Authenticate(x, smp[x], Head(plan[x]), r)} :
       /\ smp' = [smp EXCEPT ![x] = s.k]
       /\ wire' = [wire EXCEPT ![Peer(x)] = @ \o Sendable(s.out)]
       /\ asked' = [asked EXCEPT ![x] = s.started]
  /\ plan' = [plan EXCEPT ![x] = Tail(@)]
  /\ told' = [told EXCEPT ![x] = <<>>]

Receive(x) ==
  /\ wire[x] # <<>>
  /\ \E r \in Rands : \E s \in {processSMP(smp[x], Head(wire[x]), r)} :
       /\ smp' = [smp EXCEPT ![x] = s.k]
       /\ wire' = [wire EXCEPT ![x] = Tail(@), ![Peer(x)] = @ \o Sendable(<<s.out>>)]
       /\ told' = IF s.ev = "none" THEN told ELSE [told EXCEPT ![x] = Append(@, s.ev)]
  /\ UNCHANGED <<plan, asked>>

Next == \E x \in Parties : Call(x) \/ Receive(x)

-----------------------------------------------------------------------------
Quiet == \A x \in Parties : wire[x] = <<>>
Told(x, ev) == Contains(told[x], ev)

(* An authentication completes only if both gave the same secret, and the  *)
(* proofs of an authentication nobody restarts are accepted.               *)
SmpSound ==
  \A x \in Parties :
    /\ Told(x, "SMPComplete") => plan.same
    /\ Told(x, "error") => plan.calls > 2

(* With the same secret, given once on each side, one to start and one to  *)
(* answer, it completes on both.                                           *)
SmpComplete ==
  Quiet /\ plan.same /\ (\A x \in Parties : plan[x] = <<>>) /\ plan.calls = 2 /\ (\E x \in Parties : ~asked[x]) =>
    \A x \in Parties : Told(x, "SMPComplete")

(* When nothing is under way and no answer is awaited, a party that        *)
(* started an authentication has been told how it ended, or both are back  *)
(* where they began and can start anew: after two starts at once, each of  *)
(* which makes the other side reset, or after a restart.                   *)
Waiting == \E x \in Parties : smp[x].saved # NoTlv
Anew == \A x \in Parties : smp[x].st = 1 /\ smp[x].secret = -1
ToldOrAnew ==
  Quiet /\ ~Waiting => \A x \in Parties : asked[x] =>
    \/ told[x] # <<>>
    \/ Anew /\ (plan.calls = 2 => asked[Peer(x)])

(* Does not hold: "The authentication proceeds until either Receive        *)
(* returns SMPComplete, SMPSecretNeeded or SMPFailed".  Of two that start  *)
(* at once neither is told anything.                                       *)
Answered == Quiet /\ ~Waiting => \A x \in Parties : asked[x] => told[x] # <<>>

=============================================================================
