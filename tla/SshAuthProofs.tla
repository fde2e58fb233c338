---------------------------- MODULE SshAuthProofs ----------------------------
(***************************************************************************)
(* Proofs about SshAuth, for any clients and servers, lists of methods and *)
(* keys, certificates, clock and size of the server's cache.               *)
(***************************************************************************)
EXTENDS SshAuth, TLAPS

Keys == {config.signers[i] : i \in DOMAIN config.signers}
Named(m) == m = "none" \/ \E i \in DOMAIN Auth : Auth[i] = m

ClientPackets ==
  {Service, Request("none"), Password, Request("keyboard-interactive"), Answer(0), Answer(1)}
    \cup {Query(k) : k \in Keys} \cup {Signed(k) : k \in Keys}
ServerPackets ==
  {[t |-> "accept"], [t |-> "banner"], Failure, Success, Info(0), Info(1)} \cup {KeyOk(k) : k \in Keys}

ClientRecs ==
  [pc : {"start", "accept", "response", "ack", "signed", "info", "ok", "nomethod", "error"},
   method : Methods \cup {"none"}, tried : SUBSET (Methods \cup {"none"}), last : SUBSET Methods,
   at : Nat, valid : Seq(Keys)]
Entries == [key : Keys, result : {"ok", "refused"}]
ServerRecs ==
  [pc : {"service", "loop", "challenge", "accepted", "error"}, method : Methods \cup {"none"},
   cache : Seq(Entries), asks : {0, 1}]

TypeInv ==
  /\ config \in Clients /\ srv \in Servers /\ authorised \subseteq srv.keys
  /\ client \in ClientRecs /\ server \in ServerRecs /\ Len(server.cache) <= MaxCachedKeys
  /\ c2s \in Seq(ClientPackets) /\ s2c \in Seq(ServerPackets)
  /\ dial \in {1, 2} /\ work \in {"dialing", "session", "error"}

-----------------------------------------------------------------------------
(* The operators below are about a client c and a server s, so that they   *)
(* also speak of the ones a step leads to.  Whose turn it is: what the     *)
(* server reads next is what its code expects.                             *)
TurnFits(s, q) ==
  /\ s.pc = "service" => q = Service
  /\ s.pc = "loop" => q.t \in {"request", "query"} /\ Named(q.method)
  /\ s.pc = "challenge" => q.t = "answer" /\ q.n = s.asks

(* What the client has asked is what it waits for.                         *)
AskFits(c, q) ==
  /\ c.pc = "accept" => q = Service
  /\ c.pc = "response" => q.t = "request" /\ q.method = c.method
  /\ c.pc = "ack" => q = Query(config.signers[c.at])
  /\ c.pc = "signed" => q = Signed(c.valid[c.at])
  /\ c.pc = "info" => q \in {Request("keyboard-interactive"), Answer(0), Answer(1)}

TurnInv ==
  /\ client.pc = "start" => c2s = <<>> /\ s2c = <<>> /\ server.pc \in {"service", "error"}
  /\ client.pc \in {"ok", "nomethod"} => c2s = <<>>
  /\ c2s # <<>> => TurnFits(server, c2s[1]) /\ AskFits(client, c2s[1])

(* The server has accepted the user for a reason.                          *)
Accepted(s) == s.pc = "accepted" /\ Entitled(s.method, GoodKeys) /\ Named(s.method)

(* The server will not take this key: it has no favourable verdict on it.  *)
CachedOk(s, k) == \E i \in DOMAIN s.cache : s.cache[i].key = k /\ s.cache[i].result = "ok"
Unfit(s, k) == ~SureKey(k, authorised) /\ ~CachedOk(s, k)

(* What an answer under way says of the server's state, and of the request *)
(* that it answers.                                                        *)
ReplyTrue(s, q) ==
  /\ q.t \in {"accept", "failure", "pkok"} => s.pc \notin {"service", "challenge"}
  /\ q.t = "failure" => srv.on # {}
  /\ q.t = "info" => s.pc \in {"challenge", "error"} /\ q.n = s.asks
  /\ q.t = "success" => Accepted(s)
ReplyFits(c, s, q) ==
  /\ c.pc = "accept" => q.t = "accept"
  /\ c.pc \in {"response", "info"} =>
       /\ q.t \in {"success", "failure"} \/ (c.pc = "info" /\ q.t = "info")
       /\ q.t = "failure" => ~Entitled(c.method, SureKeys)
  /\ c.pc = "ack" => q = KeyOk(config.signers[c.at]) \/ (q.t = "failure" /\ Unfit(s, config.signers[c.at]))
  /\ c.pc = "signed" => q.t \in {"success", "failure"} /\ (q.t = "failure" => Unfit(s, c.valid[c.at]))

ReplyInv ==
  \A i \in DOMAIN s2c : s2c[i].t # "banner" => ReplyTrue(server, s2c[i]) /\ ReplyFits(client, server, s2c[i])

ServerFits(s) ==
  /\ Named(s.method)
  /\ s.pc = "challenge" =>
       /\ s.method = "keyboard-interactive" /\ s.method \in srv.on
       /\ s.asks = 0 => config.password = srv.secret

CacheFits(s) ==
  /\ \A i \in DOMAIN s.cache :
       /\ s.cache[i].result = "ok" => GoodKey(s.cache[i].key, srv.keys)
       /\ s.cache[i].result # "ok" => ~SureKey(s.cache[i].key, authorised)
  /\ \A i, j \in DOMAIN s.cache : s.cache[i].key = s.cache[j].key => i = j

-----------------------------------------------------------------------------
(* What the client has tried would not have let the user in, and it knows  *)
(* the methods of the server from the first failure on.                    *)
Tried(c) ==
  /\ \A m \in c.tried : ~Entitled(m, SureKeys)
  /\ c.tried # {} => c.last = srv.on
  /\ c.method # "none" => c.tried # {} /\ c.method \in srv.on /\ Named(c.method)

MethodFits(c) ==
  /\ c.pc \in {"start", "accept"} => c.method = "none"
  /\ c.pc = "response" => c.method \in {"none", "password"}
  /\ c.pc \in {"ack", "signed"} => c.method = "publickey"
  /\ c.pc = "info" => c.method = "keyboard-interactive"
  /\ c.pc = "nomethod" => \A i \in DOMAIN Auth : Auth[i] \in c.tried \/ Auth[i] \notin srv.on

(* A key the server would take is still ahead.                             *)
Ahead(c, k) == \E j \in DOMAIN c.valid : j >= c.at /\ c.valid[j] = k
Valid(c, k) == \E j \in DOMAIN c.valid : c.valid[j] = k
KeyFits(c) ==
  /\ c.pc = "ack" =>
       /\ c.at \in DOMAIN config.signers
       /\ \A i \in DOMAIN config.signers :
            i < c.at /\ SureKey(config.signers[i], authorised) => Valid(c, config.signers[i])
  /\ c.pc = "signed" =>
       /\ c.at \in DOMAIN c.valid
       /\ \A i \in DOMAIN config.signers : SureKey(config.signers[i], authorised) => Ahead(c, config.signers[i])

(* So is one that it has a favourable verdict on.                          *)
VerdictFits(c, s) ==
  \A k \in Keys : CachedOk(s, k) =>
    \/ c.pc = "ack" /\ (k = config.signers[c.at] \/ Valid(c, k))
    \/ c.pc = "signed" /\ Ahead(c, k)
    \/ c.pc \in {"ok", "error"}

DialInv == dial = 2 => ~srv.none /\ "password" \notin srv.on

AuthInv ==
  /\ TypeInv /\ OneOutstanding /\ TurnInv /\ ReplyInv /\ (client.pc = "ok" => Accepted(server))
  /\ ServerFits(server) /\ CacheFits(server)
  /\ Tried(client) /\ MethodFits(client) /\ KeyFits(client) /\ VerdictFits(client, server) /\ DialInv

-----------------------------------------------------------------------------
(* The verdict on a key is right: CertChecker takes only a good key, and   *)
(* every good one but for the two exceptions of SureKey.                   *)
LEMMA JudgeRight ==
  ASSUME TypeInv, NEW k \in Keys, k.algo \in srv.algos
  PROVE  /\ Judge(k) => GoodKey(k, srv.keys)
         /\ SureKey(k, authorised) => Judge(k)
<1>1. k.cert => k.after \in 0 .. CertTimeInfinity /\ k.before \in 0 .. CertTimeInfinity
  BY AuthAssumption, Zenon DEF TypeInv, Keys
<1>2. Now \in 0 .. Half - 1 /\ Half \in Nat \ {0} BY AuthAssumption, WidthAssumption, Zenon
<1>3. authorised \subseteq srv.keys BY Zenon DEF TypeInv
<1>4. k.cert /\ InTime(k, Now) => k.after <= Now /\ (Now < k.before \/ k.before = CertTimeInfinity)
  BY <1>1, <1>2 DEF InTime, Int64, CertTimeInfinity
<1>5. /\ k.cert /\ k.after <= Now /\ (Now < k.before \/ k.before = CertTimeInfinity)
      /\ k.before < Half \/ k.before = CertTimeInfinity
      => InTime(k, Now)
  BY <1>1, <1>2 DEF InTime, Int64, CertTimeInfinity
<1>6. Judge(k) => GoodKey(k, srv.keys)
  BY <1>3, <1>4, Zenon DEF Judge, GoodKey, CheckKey, CheckCert, checkSourceAddress
<1>7. SureKey(k, authorised) => Judge(k)
  BY <1>5, Zenon DEF Judge, SureKey, GoodKey, CheckKey, CheckCert, checkSourceAddress
<1> QED BY <1>6, <1>7, Zenon

(* Taking a key out of the list makes no key acceptable.                   *)
LEMMA SureShrinks ==
  ASSUME NEW k, NEW P, NEW Q, P \subseteq Q, SureKey(k, P)
  PROVE  SureKey(k, Q)
BY Zenon DEF SureKey, GoodKey

(* The packets of the two ends, by their type.                             *)
LEMMA ClientPacketKinds ==
  ASSUME NEW p \in ClientPackets
  PROVE  /\ p.t \in {"service", "request", "query", "answer"}
         /\ p.t = "service" => p = Service
         /\ p.t = "answer" => p \in {Answer(0), Answer(1)}
         /\ p.t = "query" => \E k \in Keys : p = Query(k)
         /\ p.t = "request" => \/ p \in {Request("none"), Password, Request("keyboard-interactive")}
                               \/ \E k \in Keys : p = Signed(k)
BY DEF ClientPackets, Service, Request, Password, Answer, Query, Signed

LEMMA ServerPacketKinds ==
  ASSUME NEW p \in ServerPackets
  PROVE  /\ p.t \in {"accept", "banner", "failure", "success", "info", "pkok"}
         /\ p.t = "failure" => p = Failure
         /\ p.t = "info" => p \in {Info(0), Info(1)}
         /\ p.t = "pkok" => \E k \in Keys : p = KeyOk(k)
BY DEF ServerPackets, Failure, Success, KeyOk, Info

(* Packets in a row: the first one is read, another one is written.        *)
LEMMA ReadFirst ==
  ASSUME NEW S, NEW s \in Seq(S), s # <<>>
  PROVE  /\ Head(s) \in S /\ Head(s) = s[1] /\ 1 \in DOMAIN s /\ Tail(s) \in Seq(S)
         /\ \A i \in DOMAIN Tail(s) : i + 1 \in DOMAIN s /\ Tail(s)[i] = s[i + 1] /\ i + 1 # 1
         /\ DOMAIN s = 1 .. Len(s) /\ Len(s) \in Nat /\ Len(s) >= 1 /\ Len(Tail(s)) = Len(s) - 1
OBVIOUS

LEMMA WriteLast ==
  ASSUME NEW S, NEW s \in Seq(S), NEW x \in S
  PROVE  /\ Append(s, x) \in Seq(S) /\ Append(s, x) # <<>>
         /\ Len(Append(s, x)) = Len(s) + 1
         /\ \A i \in DOMAIN Append(s, x) :
              (i \in DOMAIN s /\ Append(s, x)[i] = s[i]) \/ (i = Len(s) + 1 /\ Append(s, x)[i] = x)
         /\ \A i \in DOMAIN s : i \in DOMAIN Append(s, x) /\ Append(s, x)[i] = s[i]
         /\ Append(s, x)[Len(s) + 1] = x /\ Len(s) + 1 \in DOMAIN Append(s, x)
OBVIOUS
-----------------------------------------------------------------------------
(* While the configurations and the list of keys stay, so does what they   *)
(* mean.                                                                   *)
LEMMA Same ==
  ASSUME UNCHANGED <<config, srv, authorised, dial>>
  PROVE  /\ Keys' = Keys /\ Auth' = Auth /\ GoodKeys' = GoodKeys /\ SureKeys' = SureKeys
         /\ ClientPackets' = ClientPackets /\ ServerPackets' = ServerPackets
         /\ ClientRecs' = ClientRecs /\ ServerRecs' = ServerRecs
         /\ \A m : Named(m)' <=> Named(m)
         /\ \A m : Entitled(m, SureKeys)' <=> Entitled(m, SureKeys)
         /\ \A m : Entitled(m, GoodKeys)' <=> Entitled(m, GoodKeys)
         /\ \A k : SureKey(k, authorised)' <=> SureKey(k, authorised)
         /\ \A k : GoodKey(k, srv.keys)' <=> GoodKey(k, srv.keys)
<1>1. Keys' = Keys /\ Auth' = Auth BY Zenon DEF Keys, Auth
<1>2. \A k : GoodKey(k, srv.keys)' <=> GoodKey(k, srv.keys) BY Zenon DEF GoodKey
<1>3. \A k : SureKey(k, authorised)' <=> SureKey(k, authorised) BY Zenon DEF SureKey, GoodKey
<1>4. GoodKeys' = GoodKeys BY <1>2, Zenon DEF GoodKeys
<1>5. SureKeys' = SureKeys BY <1>3, Zenon DEF SureKeys
<1>6. ClientPackets' = ClientPackets BY <1>1, Zenon DEF ClientPackets, Password, Answer
<1>7. ServerPackets' = ServerPackets BY <1>1, Zenon DEF ServerPackets, Failure
<1>8. ClientRecs' = ClientRecs /\ ServerRecs' = ServerRecs BY <1>1, Zenon DEF ClientRecs, ServerRecs, Entries
<1>9. \A m : Named(m)' <=> Named(m) BY <1>1, Zenon DEF Named
<1>10. \A m : Entitled(m, SureKeys)' <=> Entitled(m, SureKeys) BY <1>5, Zenon DEF Entitled
<1>11. \A m : Entitled(m, GoodKeys)' <=> Entitled(m, GoodKeys) BY <1>4, Zenon DEF Entitled
<1> QED BY <1>1, <1>2, <1>3, <1>4, <1>5, <1>6, <1>7, <1>8, <1>9, <1>10, <1>11, Zenon

LEMMA SameClient ==
  ASSUME UNCHANGED client
  PROVE  \A k : (Ahead(client, k)' <=> Ahead(client, k)) /\ (Valid(client, k)' <=> Valid(client, k))
BY Zenon DEF Ahead, Valid

LEMMA SameServer ==
  ASSUME UNCHANGED server
  PROVE  \A k : CachedOk(server, k)' <=> CachedOk(server, k)
BY Zenon DEF CachedOk

(* A client has keys, in a row.                                            *)
LEMMA Signers ==
  ASSUME TypeInv
  PROVE  /\ DOMAIN config.signers = 1 .. Len(config.signers) /\ Len(config.signers) \in Nat
         /\ 1 \in DOMAIN config.signers /\ \A i \in DOMAIN config.signers : config.signers[i] \in Keys
<1> DEFINE z == config.signers
<1>1. config \in Clients BY Zenon DEF TypeInv
<1>2. z # <<>> /\ z \in Seq({z[i] : i \in DOMAIN z}) BY <1>1, AuthAssumption, Zenon
<1>3. \A i \in DOMAIN z : z[i] \in Keys BY Zenon DEF Keys
<1> HIDE DEF z
<1>4. DOMAIN z = 1 .. Len(z) /\ Len(z) \in Nat /\ 1 \in DOMAIN z BY <1>2
<1> QED BY <1>3, <1>4, Zenon DEF z

(* A client that moves on when nothing is under way, and asks at most one  *)
(* thing.                                                                  *)
LEMMA ClientMoves ==
  ASSUME AuthInv, c2s = <<>>, UNCHANGED <<config, srv, authorised, server, dial, work>>,
         s2c' \in Seq(ServerPackets), \A i \in DOMAIN s2c' : s2c'[i].t = "banner",
         NEW c \in ClientRecs, client' = c, c.pc # "start", c.pc = "ok" => Accepted(server),
         Tried(c), MethodFits(c), KeyFits(c), VerdictFits(c, server),
         \/ c2s' = <<>>
         \/ \E q \in ClientPackets :
              c2s' = <<q>> /\ TurnFits(server, q) /\ AskFits(c, q) /\ c.pc \notin {"ok", "nomethod"}
  PROVE  AuthInv'
<1> USE DEF AuthInv
<1>0. UNCHANGED <<config, srv, authorised, dial>> BY Zenon
<1>1. c2s' \in Seq(ClientPackets) /\ Len(c2s') <= 1
  <2>1. ASSUME NEW q \in ClientPackets, c2s' = <<q>> PROVE <1>1
    <3>1. <<q>> \in Seq(ClientPackets) /\ Len(<<q>>) <= 1 OBVIOUS
    <3> QED BY <2>1, <3>1, Zenon
  <2>2. <<>> \in Seq(ClientPackets) /\ Len(<<>>) <= 1 OBVIOUS
  <2> QED BY <2>1, <2>2, Zenon
<1>2. TypeInv' BY <1>1, Same, Zenon DEF TypeInv
<1>3. OneOutstanding' BY <1>1, Zenon DEF OneOutstanding
<1>4. TurnInv' BY Same DEF TurnInv, TurnFits, AskFits, Answer
<1>5. ReplyInv' BY Zenon DEF ReplyInv
<1>6. (client.pc = "ok" => Accepted(server))' BY Same, <1>0, Zenon DEF Accepted
<1>7. ServerFits(server)' BY Same, <1>0, Zenon DEF ServerFits
<1>8. CacheFits(server)' BY Same, <1>0, Zenon DEF CacheFits
<1>9. Tried(client)' BY Same, <1>0, Zenon DEF Tried
<1>10. MethodFits(client)' BY Same, <1>0, Zenon DEF MethodFits
<1>11. KeyFits(client)' BY Same, <1>0 DEF KeyFits, Ahead, Valid
<1>12. VerdictFits(client, server)' BY Same, <1>0, Zenon DEF VerdictFits, CachedOk, Ahead, Valid
<1>13. DialInv' BY <1>0, Zenon DEF DialInv
<1> QED BY <1>2, <1>3, <1>4, <1>5, <1>6, <1>7, <1>8, <1>9, <1>10, <1>11, <1>12, <1>13, Zenon

(* A server that has read what was under way, and answers or stops.        *)
LEMMA ServerMoves ==
  ASSUME AuthInv, UNCHANGED <<config, srv, authorised, client, dial, work>>,
         c2s' = <<>>, client.pc # "start", \A i \in DOMAIN s2c : s2c[i].t = "banner",
         NEW s \in ServerRecs, server' = s, Len(s.cache) <= MaxCachedKeys, client.pc # "ok",
         ServerFits(s), CacheFits(s), VerdictFits(client, s),
         \/ s2c' = s2c
         \/ \E q \in ServerPackets :
              s2c' = Append(s2c, q) /\ ReplyTrue(s, q) /\ ReplyFits(client, s, q)
  PROVE  AuthInv'
<1> USE DEF AuthInv
<1>0. UNCHANGED <<config, srv, authorised, dial>> BY Zenon
<1>1. s2c \in Seq(ServerPackets) BY Zenon DEF TypeInv
<1>2. /\ s2c' \in Seq(ServerPackets)
      /\ \A i, j \in DOMAIN s2c' : s2c'[i].t # "banner" /\ s2c'[j].t # "banner" => i = j
      /\ \A i \in DOMAIN s2c' : s2c'[i].t # "banner" => ReplyTrue(s, s2c'[i]) /\ ReplyFits(client, s, s2c'[i])
  <2>1. CASE s2c' = s2c BY <2>1, <1>1, Zenon
  <2>2. ASSUME NEW q \in ServerPackets, s2c' = Append(s2c, q), ReplyTrue(s, q), ReplyFits(client, s, q)
        PROVE  <1>2!1 /\ <1>2!2 /\ <1>2!3
    <3>1. \A i \in DOMAIN s2c' : (i \in DOMAIN s2c /\ s2c'[i] = s2c[i]) \/ (i = Len(s2c) + 1 /\ s2c'[i] = q)
      BY <2>2, <1>1, WriteLast
    <3>2. s2c' \in Seq(ServerPackets) BY <2>2, <1>1, WriteLast, Zenon
    <3> QED BY <2>2, <3>1, <3>2, Zenon
  <2> QED BY <2>1, <2>2, Zenon
<1>3. TypeInv' BY <1>0, <1>2, Same DEF TypeInv
<1>4. OneOutstanding' BY <1>2 DEF OneOutstanding
<1>5. TurnInv' BY Zenon DEF TurnInv
<1>6. ReplyInv'
  <2>1. ASSUME NEW q, ReplyTrue(s, q), ReplyFits(client, s, q)
        PROVE  ReplyTrue(server, q)' /\ ReplyFits(client, server, q)'
    BY <2>1, <1>0, Same, Zenon DEF ReplyTrue, ReplyFits, Accepted, Unfit, CachedOk, KeyOk
  <2> QED BY <1>2, <2>1, Zenon DEF ReplyInv
<1>7. (client.pc = "ok" => Accepted(server))' BY Zenon
<1>8. ServerFits(server)' BY Same, <1>0, Zenon DEF ServerFits
<1>9. CacheFits(server)' BY Same, <1>0, Zenon DEF CacheFits
<1>10. Tried(client)' BY Same, <1>0, Zenon DEF Tried
<1>11. MethodFits(client)' BY Same, <1>0, Zenon DEF MethodFits
<1>12. KeyFits(client)' BY Same, <1>0, Zenon DEF KeyFits, Ahead, Valid
<1>13. VerdictFits(client, server)' BY Same, <1>0, Zenon DEF VerdictFits, CachedOk, Ahead, Valid
<1>14. DialInv' BY <1>0, Zenon DEF DialInv
<1> QED BY <1>3, <1>4, <1>5, <1>6, <1>7, <1>8, <1>9, <1>10, <1>11, <1>12, <1>13, <1>14, Zenon
-----------------------------------------------------------------------------
(* The steps of the client.  It reads the answer to its question: nothing  *)
(* but banners is left under way.                                          *)
Quiet ==
  /\ c2s = <<>> /\ UNCHANGED <<config, srv, authorised, server, dial, work>>
  /\ s2c' \in Seq(ServerPackets) /\ \A i \in DOMAIN s2c' : s2c'[i].t = "banner"

NoneOk == \A k \in Keys : ~CachedOk(server, k)

LEMMA ErrorEnds ==
  ASSUME AuthInv, Quiet, NEW c \in ClientRecs, Tried(c), Ends(c, "error")
  PROVE  AuthInv'
<1> DEFINE d == [c EXCEPT !.pc = "error"]
<1>1. /\ d \in ClientRecs /\ d.pc = "error" /\ d.tried = c.tried /\ d.last = c.last /\ d.method = c.method
      /\ client' = d /\ c2s' = <<>>
  BY Zenon DEF ClientRecs, Ends, Quiet
<1> HIDE DEF d
<1>2. Tried(d) BY <1>1, Zenon DEF Tried
<1>3. MethodFits(d) /\ KeyFits(d) /\ VerdictFits(d, server) BY <1>1, Zenon DEF MethodFits, KeyFits, VerdictFits
<1>4. d.pc # "start" /\ (d.pc = "ok" => Accepted(server)) BY <1>1, Zenon
<1> QED BY <1>1, <1>2, <1>3, <1>4, ClientMoves, Zenon DEF Quiet

(* A method is called that the client has not tried and the server names.  *)
LEMMA BeginStep ==
  ASSUME AuthInv, Quiet, NEW c \in ClientRecs, Tried(c), NoneOk, server.pc \notin {"service", "challenge"},
         NEW m, m = "none" \/ (m \in srv.on /\ Named(m) /\ c.tried # {}), Begin(c, m)
  PROVE  AuthInv'
<1>1. Named(m) BY Zenon DEF Named
<1>2. m \in Methods \cup {"none"} BY AuthAssumption, Zenon DEF AuthInv, TypeInv
<1>4. ASSUME NEW d \in ClientRecs, d.method = m, d.tried = c.tried, d.last = c.last,
             d.pc \in {"response", "info", "ack"}, MethodFits(d), KeyFits(d),
             NEW q \in ClientPackets, Asks(d, q), AskFits(d, q), q.t \in {"request", "query"}, q.method = m
      PROVE  AuthInv'
  <2>1. c2s' = <<q>> /\ client' = d BY <1>4 DEF Asks, Quiet
  <2>2. Tried(d) BY <1>4, Zenon DEF Tried
  <2>3. VerdictFits(d, server) BY Zenon DEF VerdictFits, NoneOk
  <2>4. TurnFits(server, q) BY <1>1, <1>4, Zenon DEF TurnFits
  <2>5. d.pc # "start" /\ d.pc \notin {"ok", "nomethod"} BY <1>4, Zenon
  <2> QED BY <1>4, <2>1, <2>2, <2>3, <2>4, <2>5, ClientMoves, Zenon DEF Quiet
<1>5. CASE m = "none" /\ Asks([c EXCEPT !.method = m, !.pc = "response"], Request(m))
  <2> DEFINE d == [c EXCEPT !.method = m, !.pc = "response"]
  <2>1. d \in ClientRecs /\ d.method = m /\ d.tried = c.tried /\ d.last = c.last /\ d.pc = "response"
    BY <1>2, Zenon DEF ClientRecs
  <2> HIDE DEF d
  <2>2. MethodFits(d) /\ KeyFits(d) BY <1>5, <2>1, Zenon DEF MethodFits, KeyFits
  <2>3. Request(m) \in ClientPackets /\ Request(m).t = "request" /\ Request(m).method = m
    BY <1>5, Zenon DEF ClientPackets, Request
  <2>4. AskFits(d, Request(m)) BY <2>1, <2>3, Zenon DEF AskFits
  <2>5. Asks(d, Request(m)) BY <1>5, Zenon DEF d
  <2> QED BY <1>4, <2>1, <2>2, <2>3, <2>4, <2>5, Zenon
<1>6. CASE m = "password" /\ Asks([c EXCEPT !.method = m, !.pc = "response"], Password)
  <2> DEFINE d == [c EXCEPT !.method = m, !.pc = "response"]
  <2>1. d \in ClientRecs /\ d.method = m /\ d.tried = c.tried /\ d.last = c.last /\ d.pc = "response"
    BY <1>2, Zenon DEF ClientRecs
  <2> HIDE DEF d
  <2>2. MethodFits(d) /\ KeyFits(d) BY <1>6, <2>1, Zenon DEF MethodFits, KeyFits
  <2>3. Password \in ClientPackets /\ Password.t = "request" /\ Password.method = m
    BY <1>6, Zenon DEF ClientPackets, Password
  <2>4. AskFits(d, Password) BY <2>1, <2>3, Zenon DEF AskFits
  <2>5. Asks(d, Password) BY <1>6, Zenon DEF d
  <2> QED BY <1>4, <2>1, <2>2, <2>3, <2>4, <2>5, Zenon
<1>7. CASE m = "keyboard-interactive" /\ Asks([c EXCEPT !.method = m, !.pc = "info"], Request(m))
  <2> DEFINE d == [c EXCEPT !.method = m, !.pc = "info"]
  <2>1. d \in ClientRecs /\ d.method = m /\ d.tried = c.tried /\ d.last = c.last /\ d.pc = "info"
    BY <1>2, Zenon DEF ClientRecs
  <2> HIDE DEF d
  <2>2. MethodFits(d) /\ KeyFits(d) BY <1>7, <2>1, Zenon DEF MethodFits, KeyFits
  <2>3. Request(m) \in ClientPackets /\ Request(m).t = "request" /\ Request(m).method = m
    BY <1>7, Zenon DEF ClientPackets, Request
  <2>4. AskFits(d, Request(m)) BY <1>7, <2>1, <2>3, Zenon DEF AskFits
  <2>5. Asks(d, Request(m)) BY <1>7, Zenon DEF d
  <2> QED BY <1>4, <2>1, <2>2, <2>3, <2>4, <2>5, Zenon
<1>8. CASE /\ m = "publickey"
           /\ Asks([c EXCEPT !.method = m, !.pc = "ack", !.at = 1, !.valid = <<>>], Query(config.signers[1]))
  <2> DEFINE d == [c EXCEPT !.method = m, !.pc = "ack", !.at = 1, !.valid = <<>>]
             q == Query(config.signers[1])
  <2>1. <<>> \in Seq(Keys) OBVIOUS
  <2>2. /\ d \in ClientRecs /\ d.method = m /\ d.tried = c.tried /\ d.last = c.last /\ d.pc = "ack" /\ d.at = 1
    BY <1>2, <2>1, Zenon DEF ClientRecs
  <2>3. 1 \in DOMAIN config.signers /\ \A i \in DOMAIN config.signers : ~(i < 1)
    BY Signers DEF AuthInv
  <2>4. q \in ClientPackets /\ q.t = "query" /\ q.method = m BY <1>8, <2>3, Zenon DEF ClientPackets, Query, Keys
  <2>5. Asks(d, q) BY <1>8, Zenon
  <2>6. AskFits(d, q) BY <2>2, Zenon DEF AskFits
  <2> HIDE DEF d, q
  <2>7. MethodFits(d) /\ KeyFits(d) BY <1>8, <2>2, <2>3, Zenon DEF MethodFits, KeyFits
  <2> QED BY <1>4, <2>2, <2>4, <2>5, <2>6, <2>7, Zenon
<1>9. CASE CallbackFails(c) BY <1>9, ErrorEnds, Zenon DEF CallbackFails
<1> QED BY <1>5, <1>6, <1>7, <1>8, <1>9, Zenon DEF Begin
(* A method has failed, for good reason: another one, or no method is left.*)
LEMMA AdvanceStep ==
  ASSUME AuthInv, Quiet, NEW c \in ClientRecs, Tried(c), NoneOk, server.pc \notin {"service", "challenge"},
         ~Entitled(c.method, SureKeys), NEW methods,
         (methods = Nil /\ c.tried # {}) \/ (methods = srv.on /\ srv.on # {}), Advance(c, methods)
  PROVE  AuthInv'
<1> DEFINE d == [c EXCEPT !.tried = @ \cup {c.method}, !.last = IF methods = Nil THEN @ ELSE methods]
<1>1. srv.on \in SUBSET Methods BY AuthAssumption, Zenon DEF AuthInv, TypeInv
<1>2. c.last \in SUBSET Methods /\ (c.tried # {} => c.last = srv.on) BY Zenon DEF ClientRecs, Tried
<1>3. (IF methods = Nil THEN c.last ELSE methods) = srv.on BY <1>2, Zenon DEF Nil
<1>4. /\ d \in ClientRecs /\ d.tried = c.tried \cup {c.method} /\ d.last = srv.on
      /\ d.method = c.method
  BY <1>1, <1>3, Zenon DEF ClientRecs
<1>5. FindNext(d) BY Zenon DEF Advance
<1> HIDE DEF d
<1>6. Tried(d) BY <1>4, Zenon DEF Tried
<1>7. CASE Untried(d) = {} /\ Ends(d, "nomethod")
  <2> DEFINE e == [d EXCEPT !.pc = "nomethod"]
  <2>1. /\ e \in ClientRecs /\ e.tried = d.tried /\ e.last = srv.on /\ e.method = d.method /\ e.pc = "nomethod"
        /\ client' = e /\ c2s' = <<>>
    BY <1>4, <1>7, Zenon DEF ClientRecs, Ends, Quiet
  <2> HIDE DEF e
  <2>2. Tried(e) BY <1>4, <1>6, <2>1, Zenon DEF Tried
  <2>3. \A i \in DOMAIN Auth : Auth[i] \in e.tried \/ Auth[i] \notin srv.on BY <1>4, <1>7, <2>1, Zenon DEF Untried
  <2>4. MethodFits(e) /\ KeyFits(e) /\ VerdictFits(e, server)
    BY <2>1, <2>3, Zenon DEF MethodFits, KeyFits, VerdictFits, NoneOk
  <2>5. e.pc # "start" /\ (e.pc = "ok" => Accepted(server)) BY <2>1, Zenon
  <2> QED BY <2>1, <2>2, <2>4, <2>5, ClientMoves, Zenon DEF Quiet
<1>8. CASE \E i \in Untried(d) : (\A j \in Untried(d) : i <= j) /\ Begin(d, Auth[i])
  <2>1. PICK i \in Untried(d) : Begin(d, Auth[i]) BY <1>8, Zenon
  <2>2. Auth[i] \in srv.on /\ Named(Auth[i]) /\ d.tried # {} BY <1>4, Zenon DEF Untried, Named
  <2> QED BY <1>4, <1>6, <2>1, <2>2, BeginStep, Zenon
<1> QED BY <1>5, <1>7, <1>8, Zenon DEF FindNext

(* publickey signs with the next key that the server found valid.          *)
LEMMA SignStep ==
  ASSUME AuthInv, Quiet, NEW c \in ClientRecs, Tried(c), server.pc \notin {"service", "challenge"},
         NEW i \in Nat \ {0}, c.method = "publickey",
         \A j \in DOMAIN config.signers : SureKey(config.signers[j], authorised) =>
           \E n \in DOMAIN c.valid : n >= i /\ c.valid[n] = config.signers[j],
         \A k \in Keys : CachedOk(server, k) => \E n \in DOMAIN c.valid : n >= i /\ c.valid[n] = k,
         Sign(c, i)
  PROVE  AuthInv'
<1>1. CASE i <= Len(c.valid) /\ Asks([c EXCEPT !.pc = "signed", !.at = i], Signed(c.valid[i]))
  <2> DEFINE d == [c EXCEPT !.pc = "signed", !.at = i]
             q == Signed(c.valid[i])
  <2>1. /\ d \in ClientRecs /\ d.tried = c.tried /\ d.last = c.last /\ d.method = "publickey"
        /\ d.pc = "signed" /\ d.at = i /\ d.valid = c.valid
    BY Zenon DEF ClientRecs
  <2>2. c.valid \in Seq(Keys) BY Zenon DEF ClientRecs
  <2>3. i \in DOMAIN c.valid /\ c.valid[i] \in Keys BY <1>1, <2>2
  <2>4. q \in ClientPackets /\ q.t = "request" /\ q.method = "publickey" BY <2>3, Zenon DEF ClientPackets, Signed
  <2>5. client' = d /\ c2s' = <<q>> BY <1>1 DEF Asks, Quiet
  <2>6. AskFits(d, q) BY <2>1, Zenon DEF AskFits
  <2> HIDE DEF d, q
  <2>7. Tried(d) /\ MethodFits(d) BY <2>1, Zenon DEF Tried, MethodFits
  <2>7a. \A k : Ahead(d, k) <=> \E n \in DOMAIN c.valid : n >= i /\ c.valid[n] = k BY <2>1 DEF Ahead
  <2>8. KeyFits(d) BY <2>1, <2>3, <2>7a, Zenon DEF KeyFits
  <2>9. VerdictFits(d, server) BY <2>1, <2>7a, Zenon DEF VerdictFits
  <2>10. TurnFits(server, q) BY <2>4, Zenon DEF TurnFits, Tried
  <2>11. d.pc # "start" /\ d.pc \notin {"ok", "nomethod"} BY <2>1, Zenon
  <2> QED BY <2>1, <2>4, <2>5, <2>6, <2>7, <2>8, <2>9, <2>10, <2>11, ClientMoves, Zenon DEF Quiet
<1>2. CASE CallbackFails(c) BY <1>2, ErrorEnds, Zenon DEF CallbackFails
<1> QED BY <1>1, <1>2, Zenon DEF Sign
(* The answer about a key: the next key, the signatures, or failure.       *)
LEMMA AckStep ==
  ASSUME AuthInv, Quiet, client.pc = "ack", NEW p \in ServerPackets,
         ReplyTrue(server, p), ReplyFits(client, server, p), Ack(p)
  PROVE  AuthInv'
<1> DEFINE z == config.signers
           d == Confirmed(p)
           n == client.at
<1>0. TypeInv /\ Tried(client) /\ MethodFits(client) /\ KeyFits(client) /\ VerdictFits(client, server) BY Zenon DEF AuthInv
<1>1. /\ client \in ClientRecs /\ client.valid \in Seq(Keys) /\ n \in DOMAIN z /\ client.method = "publickey"
      /\ client.tried # {} /\ Named("publickey")
  BY <1>0, Zenon DEF TypeInv, ClientRecs, KeyFits, MethodFits, Tried
<1>2. /\ DOMAIN z = 1 .. Len(z) /\ Len(z) \in Nat /\ \A i \in DOMAIN z : z[i] \in Keys
  BY <1>0, Signers, Zenon
<1>3. p = KeyOk(z[n]) \/ (p.t = "failure" /\ Unfit(server, z[n])) BY Zenon DEF ReplyFits
<1>4. server.pc \notin {"service", "challenge"} BY <1>3 DEF ReplyTrue, KeyOk
<1>5. /\ d \in ClientRecs /\ d.pc = "ack" /\ d.at = n /\ d.method = "publickey" /\ d.tried = client.tried
      /\ d.last = client.last /\ \A k : Valid(client, k) => Valid(d, k)
      /\ Valid(d, z[n]) \/ Unfit(server, z[n])
  <2>1. CASE p = KeyOk(z[n])
    <3>1. d = [client EXCEPT !.valid = Append(client.valid, z[n])] BY <2>1, Zenon DEF Confirmed, KeyOk
    <3>2. Append(client.valid, z[n]) \in Seq(Keys) BY <1>1, <1>2
    <3>3. /\ \A i \in DOMAIN client.valid :
               i \in DOMAIN Append(client.valid, z[n]) /\ Append(client.valid, z[n])[i] = client.valid[i]
          /\ \E i \in DOMAIN Append(client.valid, z[n]) : Append(client.valid, z[n])[i] = z[n]
      BY <1>1, <1>2, WriteLast
    <3>4. /\ d \in ClientRecs /\ d.pc = "ack" /\ d.at = n /\ d.method = "publickey" /\ d.tried = client.tried
          /\ d.last = client.last /\ d.valid = Append(client.valid, z[n])
      BY <1>1, <3>1, <3>2, Zenon DEF ClientRecs
    <3> HIDE DEF d
    <3> QED BY <3>3, <3>4, Zenon DEF Valid
  <2>2. CASE p.t = "failure" /\ Unfit(server, z[n]) BY <1>1, <2>2, Zenon DEF Confirmed
  <2> QED BY <1>3, <2>1, <2>2, Zenon
<1>6. Tried(d) BY <1>0, <1>1, <1>5, Zenon DEF Tried
<1>7. \A i \in DOMAIN z : i <= n /\ SureKey(z[i], authorised) => Valid(d, z[i])
  <2>1. ASSUME NEW i \in DOMAIN z, i <= n, SureKey(z[i], authorised) PROVE Valid(d, z[i])
    <3>1. CASE i = n BY <1>5, <2>1, <3>1, Zenon DEF Unfit
    <3>2. CASE i < n BY <1>0, <1>5, <2>1, <3>2, Zenon DEF KeyFits
    <3>3. i = n \/ i < n BY <1>1, <1>2, <2>1
    <3> QED BY <3>1, <3>2, <3>3, Zenon
  <2> QED BY <2>1, Zenon
<1>8. \A k \in Keys : CachedOk(server, k) => Valid(d, k)
  BY <1>0, <1>5, Zenon DEF VerdictFits, Unfit
<1>9. CASE Ends(client, "error") BY <1>0, <1>1, <1>9, ErrorEnds, Zenon
<1>10. CASE n < Len(z) /\ Asks([d EXCEPT !.at = @ + 1], Query(z[n + 1]))
  <2> DEFINE e == [d EXCEPT !.at = @ + 1]
             q == Query(z[n + 1])
  <2>1. n + 1 \in DOMAIN z /\ z[n + 1] \in Keys /\ \A i \in DOMAIN z : i < n + 1 => i <= n
    BY <1>1, <1>2, <1>10
  <2>2. /\ e \in ClientRecs /\ e.pc = "ack" /\ e.at = n + 1 /\ e.method = "publickey" /\ e.tried = d.tried
        /\ e.last = d.last /\ e.valid = d.valid
    BY <1>5 DEF ClientRecs
  <2>3. q \in ClientPackets /\ q.t = "query" /\ q.method = "publickey" BY <2>1, Zenon DEF ClientPackets, Query
  <2>4. client' = e /\ c2s' = <<q>> BY <1>10 DEF Asks, Quiet
  <2>5. AskFits(e, q) BY <2>2, Zenon DEF AskFits
  <2> HIDE DEF e, q, d
  <2>6. Tried(e) /\ MethodFits(e) BY <1>5, <1>6, <2>2, Zenon DEF Tried, MethodFits
  <2>7. \A k : Valid(e, k) <=> Valid(d, k) BY <2>2, Zenon DEF Valid
  <2>8. KeyFits(e) BY <1>7, <2>1, <2>2, <2>7, Zenon DEF KeyFits
  <2>9. VerdictFits(e, server) BY <1>8, <2>2, <2>7, Zenon DEF VerdictFits
  <2>10. TurnFits(server, q) BY <1>1, <1>4, <2>3, Zenon DEF TurnFits
  <2>11. e.pc # "start" /\ e.pc \notin {"ok", "nomethod"} BY <2>2, Zenon
  <2> QED BY <2>2, <2>3, <2>4, <2>5, <2>6, <2>8, <2>9, <2>10, <2>11, ClientMoves, Zenon DEF Quiet
<1>11. CASE n = Len(z) /\ Sign(d, 1)
  <2>1. \A k : Valid(d, k) => \E j \in DOMAIN d.valid : j >= 1 /\ d.valid[j] = k
    BY <1>5 DEF Valid, ClientRecs
  <2>2. \A i \in DOMAIN z : i <= n BY <1>2, <1>11
  <2> HIDE DEF d
  <2> QED BY <1>4, <1>5, <1>6, <1>7, <1>8, <1>11, <2>1, <2>2, SignStep
<1>12. CASE n = Len(z) /\ d.valid = <<>> /\ Advance(d, Nil)
  <2>1. \A k : ~Valid(d, k) BY <1>12 DEF Valid
  <2>2. NoneOk BY <1>8, <2>1, Zenon DEF NoneOk
  <2>3. SureKeys = {} BY <1>2, <1>7, <1>12, <2>1 DEF SureKeys
  <2>4. ~Entitled("publickey", SureKeys) BY <2>3, Zenon DEF Entitled
  <2> HIDE DEF d
  <2> QED BY <1>1, <1>4, <1>5, <1>6, <1>12, <2>2, <2>4, AdvanceStep, Zenon
<1> QED BY <1>9, <1>10, <1>11, <1>12, Zenon DEF Ack
(* The answer to any other request.                                        *)
LEMMA ResponseStep ==
  ASSUME AuthInv, Quiet, client.pc \in {"response", "signed", "info"}, NEW p \in ServerPackets,
         ReplyTrue(server, p), ReplyFits(client, server, p), Response(p)
  PROVE  AuthInv'
<1> DEFINE n == client.at
<1>0. TypeInv /\ Tried(client) /\ MethodFits(client) /\ KeyFits(client) /\ VerdictFits(client, server) BY Zenon DEF AuthInv
<1>1. client \in ClientRecs /\ client.valid \in Seq(Keys) /\ n \in Nat BY <1>0, Zenon DEF TypeInv, ClientRecs
<1>2. /\ p.t = "failure" => p.methods = srv.on /\ srv.on # {} /\ server.pc \notin {"service", "challenge"}
      /\ p.t = "info" => p \in {Info(0), Info(1)} /\ server.pc \in {"challenge", "error"} /\ p.n = server.asks
  BY ServerPacketKinds DEF ReplyTrue, Failure
<1>3. CASE p.t = "success" /\ Ends(client, "ok")
  <2> DEFINE d == [client EXCEPT !.pc = "ok"]
  <2>1. /\ d \in ClientRecs /\ d.pc = "ok" /\ d.tried = client.tried /\ d.last = client.last
        /\ d.method = client.method /\ client' = d /\ c2s' = <<>>
    BY <1>1, <1>3, Zenon DEF ClientRecs, Ends, Quiet
  <2> HIDE DEF d
  <2>2. Tried(d) /\ MethodFits(d) /\ KeyFits(d) BY <1>0, <2>1, Zenon DEF Tried, MethodFits, KeyFits
  <2>3. VerdictFits(d, server) BY <2>1, Zenon DEF VerdictFits
  <2>4. d.pc # "start" /\ Accepted(server) BY <1>3, <2>1, Zenon DEF ReplyTrue
  <2> QED BY <2>1, <2>2, <2>3, <2>4, ClientMoves, Zenon DEF Quiet
<1>4. CASE p.t = "failure" /\ client.pc # "signed" /\ Advance(client, p.methods)
  <2>1. NoneOk BY <1>0, <1>4, Zenon DEF NoneOk, VerdictFits
  <2>2. ~Entitled(client.method, SureKeys) BY <1>4, Zenon DEF ReplyFits
  <2> QED BY <1>0, <1>1, <1>2, <1>4, <2>1, <2>2, AdvanceStep, Zenon
<1>5. CASE p.t = "failure" /\ client.pc = "signed"
  <2>1. Unfit(server, client.valid[n]) /\ client.method = "publickey" /\ n \in DOMAIN client.valid
    BY <1>0, <1>5, Zenon DEF ReplyFits, MethodFits, KeyFits
  <2>2. \A j \in DOMAIN client.valid : j >= n /\ j # n => j >= n + 1 BY <1>1
  <2>3. \A j \in DOMAIN config.signers : SureKey(config.signers[j], authorised) =>
          \E i \in DOMAIN client.valid : i >= n + 1 /\ client.valid[i] = config.signers[j]
    BY <1>0, <1>5, <2>1, <2>2, Zenon DEF KeyFits, Ahead, Unfit
  <2>4. \A k \in Keys : CachedOk(server, k) => \E i \in DOMAIN client.valid : i >= n + 1 /\ client.valid[i] = k
    BY <1>0, <1>5, <2>1, <2>2, Zenon DEF VerdictFits, Ahead, Unfit
  <2>5. CASE Sign(client, n + 1)
    <3>1. n + 1 \in Nat \ {0} BY <1>1
    <3> QED BY <1>0, <1>1, <1>2, <1>5, <2>1, <2>3, <2>4, <2>5, <3>1, SignStep, Zenon
  <2>6. CASE n = Len(client.valid) /\ Advance(client, p.methods)
    <3>1. \A i \in DOMAIN client.valid : ~(i >= n + 1) BY <1>1, <2>6
    <3>2. NoneOk BY <2>4, <3>1, Zenon DEF NoneOk
    <3>3. SureKeys = {} BY <2>3, <3>1, Zenon DEF SureKeys
    <3>4. ~Entitled("publickey", SureKeys) BY <3>3, Zenon DEF Entitled
    <3> QED BY <1>0, <1>1, <1>2, <1>5, <2>1, <2>6, <3>2, <3>4, AdvanceStep, Zenon
  <2> QED BY <1>5, <2>5, <2>6, Zenon DEF Response
<1>6. CASE p.t = "info" /\ client.pc = "info" /\ Asks(client, Answer(p.n))
  <2> DEFINE q == Answer(p.n)
  <2>1. p.n \in {0, 1} BY <1>2, <1>6 DEF Info
  <2>2. q \in ClientPackets /\ q \in {Answer(0), Answer(1)} /\ q.t = "answer" /\ q.n = p.n
    BY <2>1, Zenon DEF ClientPackets, Answer
  <2>3. client' = client /\ c2s' = <<q>> BY <1>6 DEF Asks, Quiet
  <2> HIDE DEF q
  <2>4. AskFits(client, q) BY <1>6, <2>2, Zenon DEF AskFits
  <2>5. TurnFits(server, q) BY <1>2, <1>6, <2>2, Zenon DEF TurnFits
  <2>6. client.pc # "start" /\ client.pc \notin {"ok", "nomethod"} BY <1>6, Zenon
  <2> QED BY <1>0, <1>1, <2>2, <2>3, <2>4, <2>5, <2>6, ClientMoves, Zenon DEF Quiet
<1>7. CASE Ends(client, "error") \/ CallbackFails(client)
  BY <1>0, <1>1, <1>7, ErrorEnds, Zenon DEF CallbackFails
<1> QED BY <1>3, <1>4, <1>5, <1>6, <1>7, Zenon DEF Response

(* Only banners come or go.                                                *)
LEMMA BannerMoves ==
  ASSUME AuthInv, UNCHANGED <<config, srv, authorised, c2s, client, server, dial, work>>,
         s2c' \in Seq(ServerPackets), client.pc # "start",
         c2s # <<>> => \A i \in DOMAIN s2c' : s2c'[i].t = "banner",
         \A i, j \in DOMAIN s2c' : s2c'[i].t # "banner" /\ s2c'[j].t # "banner" => i = j,
         \A i \in DOMAIN s2c' : s2c'[i].t = "banner" \/ \E j \in DOMAIN s2c : s2c[j] = s2c'[i]
  PROVE  AuthInv'
<1> USE DEF AuthInv
<1>0. UNCHANGED <<config, srv, authorised, dial>> BY Zenon
<1>1. TypeInv' BY <1>0, Same, Zenon DEF TypeInv
<1>2. OneOutstanding' BY Zenon DEF OneOutstanding
<1>3. TurnInv' BY <1>0, Same, Zenon DEF TurnInv, TurnFits, AskFits, Answer
<1>4. ReplyInv'
  <2>1. ASSUME NEW q, ReplyTrue(server, q), ReplyFits(client, server, q)
        PROVE  ReplyTrue(server, q)' /\ ReplyFits(client, server, q)'
    BY <2>1, <1>0, Same, Zenon DEF ReplyTrue, ReplyFits, Accepted, Unfit, CachedOk, KeyOk
  <2>2. \A i \in DOMAIN s2c : s2c[i].t # "banner" => ReplyTrue(server, s2c[i]) /\ ReplyFits(client, server, s2c[i])
    BY Zenon DEF ReplyInv
  <2> QED BY <2>1, <2>2, Zenon DEF ReplyInv
<1>5. (client.pc = "ok" => Accepted(server))' BY <1>0, Same, Zenon DEF Accepted
<1>6. ServerFits(server)' /\ CacheFits(server)' BY <1>0, Same, Zenon DEF ServerFits, CacheFits
<1>7. Tried(client)' /\ MethodFits(client)' BY <1>0, Same, Zenon DEF Tried, MethodFits
<1>8. KeyFits(client)' BY <1>0, Same, SameClient, Zenon DEF KeyFits
<1>9. VerdictFits(client, server)' BY <1>0, Same, SameClient, SameServer, Zenon DEF VerdictFits
<1>10. DialInv' BY <1>0, Zenon DEF DialInv
<1> QED BY <1>1, <1>2, <1>3, <1>4, <1>5, <1>6, <1>7, <1>8, <1>9, <1>10, Zenon
(* The client stops, whatever is under way.                                *)
LEMMA ClientFails ==
  ASSUME AuthInv, UNCHANGED <<config, srv, authorised, server, dial, work>>, Ends(client, "error"),
         client.pc # "start", s2c' \in Seq(ServerPackets),
         c2s # <<>> => \A i \in DOMAIN s2c' : s2c'[i].t = "banner",
         \A i, j \in DOMAIN s2c' : s2c'[i].t # "banner" /\ s2c'[j].t # "banner" => i = j,
         \A i \in DOMAIN s2c' : \E j \in DOMAIN s2c : s2c[j] = s2c'[i]
  PROVE  AuthInv'
<1> USE DEF AuthInv
<1>0. UNCHANGED <<config, srv, authorised, dial>> BY Zenon
<1>1. /\ client' \in ClientRecs /\ client'.pc = "error" /\ client'.tried = client.tried
      /\ client'.last = client.last /\ client'.method = client.method /\ UNCHANGED c2s
  BY Zenon DEF Ends, ClientRecs, TypeInv
<1>2. TypeInv' BY <1>0, <1>1, Same, Zenon DEF TypeInv
<1>3. OneOutstanding' BY <1>1, Zenon DEF OneOutstanding
<1>4. TurnInv' BY <1>0, <1>1, Same, Zenon DEF TurnInv, TurnFits, AskFits
<1>5. ReplyInv'
  <2>1. ASSUME NEW q, ReplyTrue(server, q)
        PROVE  ReplyTrue(server, q)' /\ ReplyFits(client, server, q)'
    BY <2>1, <1>0, <1>1, Same, Zenon DEF ReplyTrue, ReplyFits, Accepted
  <2>2. \A i \in DOMAIN s2c : s2c[i].t # "banner" => ReplyTrue(server, s2c[i]) BY Zenon DEF ReplyInv
  <2> QED BY <2>1, <2>2, Zenon DEF ReplyInv
<1>6. (client.pc = "ok" => Accepted(server))' BY <1>1, Zenon
<1>7. ServerFits(server)' /\ CacheFits(server)' BY <1>0, Same, Zenon DEF ServerFits, CacheFits
<1>8. Tried(client)' BY <1>0, <1>1, Same, Zenon DEF Tried
<1>9. MethodFits(client)' /\ KeyFits(client)' /\ VerdictFits(client, server)'
  BY <1>1, Zenon DEF MethodFits, KeyFits, VerdictFits
<1>10. DialInv' BY <1>0, Zenon DEF DialInv
<1> QED BY <1>2, <1>3, <1>4, <1>5, <1>6, <1>7, <1>8, <1>9, <1>10, Zenon

(* What is read: banners, and one answer when the client waits for it.     *)
LEMMA Read ==
  ASSUME AuthInv, s2c # <<>>, s2c' = Tail(s2c)
  PROVE  /\ s2c' \in Seq(ServerPackets) /\ Head(s2c) \in ServerPackets /\ client.pc # "start"
         /\ c2s # <<>> => \A i \in DOMAIN s2c' : s2c'[i].t = "banner"
         /\ \A i, j \in DOMAIN s2c' : s2c'[i].t # "banner" /\ s2c'[j].t # "banner" => i = j
         /\ \A i \in DOMAIN s2c' : \E j \in DOMAIN s2c : s2c[j] = s2c'[i]
         /\ Head(s2c).t # "banner" =>
              /\ c2s = <<>> /\ \A i \in DOMAIN s2c' : s2c'[i].t = "banner"
              /\ ReplyTrue(server, Head(s2c)) /\ ReplyFits(client, server, Head(s2c))
<1>0. TypeInv /\ OneOutstanding /\ TurnInv /\ ReplyInv BY Zenon DEF AuthInv
<1>1. s2c \in Seq(ServerPackets) BY <1>0, Zenon DEF TypeInv
<1>2. /\ Head(s2c) \in ServerPackets /\ Head(s2c) = s2c[1] /\ 1 \in DOMAIN s2c /\ s2c' \in Seq(ServerPackets)
      /\ \A i \in DOMAIN s2c' : i + 1 \in DOMAIN s2c /\ s2c'[i] = s2c[i + 1] /\ i + 1 # 1
  BY <1>1, ReadFirst, Zenon
<1>3. \A i, j \in DOMAIN s2c' : i + 1 = j + 1 => i = j BY <1>2
<1>4. \A i, j \in DOMAIN s2c' : s2c'[i].t # "banner" /\ s2c'[j].t # "banner" => i = j
  <2>1. \A i, j \in DOMAIN s2c : s2c[i].t # "banner" /\ s2c[j].t # "banner" => i = j BY <1>0, Zenon DEF OneOutstanding
  <2> QED BY <1>2, <1>3, <2>1
<1>5. \A i \in DOMAIN s2c' : \E j \in DOMAIN s2c : s2c[j] = s2c'[i] BY <1>2, Zenon
<1>6. c2s # <<>> => Head(s2c).t = "banner" /\ \A i \in DOMAIN s2c' : s2c'[i].t = "banner"
  BY <1>0, <1>2, Zenon DEF OneOutstanding
<1>7. Head(s2c).t # "banner" => \A i \in DOMAIN s2c' : s2c'[i].t = "banner"
  BY <1>0, <1>2, Zenon DEF OneOutstanding
<1>8. client.pc # "start" BY <1>0, Zenon DEF TurnInv
<1>9. Head(s2c).t # "banner" => ReplyTrue(server, Head(s2c)) /\ ReplyFits(client, server, Head(s2c))
  BY <1>0, <1>2, Zenon DEF ReplyInv
<1> QED BY <1>2, <1>4, <1>5, <1>6, <1>7, <1>8, <1>9, Zenon

LEMMA ClientReadsStep ==
  ASSUME AuthInv, ClientReads
  PROVE  AuthInv'
<1> DEFINE p == Head(s2c)
<1>1. /\ s2c # <<>> /\ ClientStep(p) /\ s2c' = Tail(s2c)
      /\ UNCHANGED <<config, srv, authorised, server, dial, work>>
  BY Zenon DEF ClientReads
<1>2. /\ s2c' \in Seq(ServerPackets) /\ p \in ServerPackets /\ client.pc # "start"
      /\ c2s # <<>> => \A i \in DOMAIN s2c' : s2c'[i].t = "banner"
      /\ \A i, j \in DOMAIN s2c' : s2c'[i].t # "banner" /\ s2c'[j].t # "banner" => i = j
      /\ \A i \in DOMAIN s2c' : \E j \in DOMAIN s2c : s2c[j] = s2c'[i]
      /\ p.t # "banner" =>
           /\ c2s = <<>> /\ \A i \in DOMAIN s2c' : s2c'[i].t = "banner"
           /\ ReplyTrue(server, p) /\ ReplyFits(client, server, p)
  BY <1>1, Read, Zenon
<1> HIDE DEF p
<1>3. p.t # "banner" => Quiet BY <1>1, <1>2, Zenon DEF Quiet
<1>4. CASE client.pc = "accept" /\ p.t = "accept" /\ Begin(client, "none")
  <2>1. client \in ClientRecs /\ Tried(client) /\ VerdictFits(client, server) BY Zenon DEF AuthInv, TypeInv
  <2>2. NoneOk BY <1>4, <2>1, Zenon DEF NoneOk, VerdictFits
  <2>3. server.pc \notin {"service", "challenge"} BY <1>2, <1>4, Zenon DEF ReplyTrue
  <2> QED BY <1>3, <1>4, <2>1, <2>2, <2>3, BeginStep, Zenon
<1>5. CASE client.pc = "accept" /\ p.t # "accept" /\ Ends(client, "error")
  BY <1>1, <1>2, <1>5, ClientFails, Zenon
<1>6. CASE client.pc # "accept" /\ p.t = "banner" /\ UNCHANGED <<client, c2s, open>>
  BY <1>1, <1>2, <1>6, BannerMoves, Zenon
<1>7. CASE client.pc = "ack" /\ p.t # "banner" /\ Ack(p)
  BY <1>2, <1>3, <1>7, AckStep, Zenon
<1>8. CASE client.pc \in {"response", "signed", "info"} /\ p.t # "banner" /\ Response(p)
  BY <1>2, <1>3, <1>8, ResponseStep, Zenon
<1> QED BY <1>1, <1>4, <1>5, <1>6, <1>7, <1>8, Zenon DEF ClientStep

LEMMA ClientReadFailsStep ==
  ASSUME AuthInv, ClientReadFails
  PROVE  AuthInv'
<1>1. /\ Ends(client, "error") /\ client.pc # "start" /\ s2c = <<>>
      /\ UNCHANGED <<config, srv, authorised, s2c, server, dial, work>>
  BY Zenon DEF ClientReadFails
<1>2. s2c' \in Seq(ServerPackets) /\ DOMAIN s2c' = {} BY <1>1
<1> QED BY <1>1, <1>2, ClientFails, Zenon

LEMMA ClientStartStep ==
  ASSUME AuthInv, ClientStart
  PROVE  AuthInv'
<1> DEFINE d == [client EXCEPT !.pc = "accept"]
<1>1. /\ client.pc = "start" /\ Asks(d, Service)
      /\ UNCHANGED <<config, srv, authorised, s2c, server, dial, work>>
  BY Zenon DEF ClientStart
<1>2. client \in ClientRecs /\ c2s = <<>> /\ s2c = <<>> /\ server.pc \in {"service", "error"}
  BY <1>1, Zenon DEF AuthInv, TypeInv, TurnInv
<1>3. /\ d \in ClientRecs /\ d.pc = "accept" /\ d.tried = client.tried /\ d.last = client.last
      /\ d.method = client.method
  BY <1>2, Zenon DEF ClientRecs
<1> HIDE DEF d
<1>4. client' = d /\ c2s' = <<Service>> BY <1>1, <1>2 DEF Asks
<1>5. s2c' \in Seq(ServerPackets) /\ DOMAIN s2c' = {} BY <1>1, <1>2
<1>6. Tried(d) BY <1>3, Zenon DEF AuthInv, Tried
<1>7. MethodFits(d) BY <1>1, <1>3, Zenon DEF AuthInv, MethodFits
<1>8. KeyFits(d) BY <1>3, Zenon DEF KeyFits
<1>9. VerdictFits(d, server) BY <1>1, Zenon DEF AuthInv, VerdictFits
<1>10. Service \in ClientPackets BY Zenon DEF ClientPackets
<1>11. TurnFits(server, Service) /\ AskFits(d, Service) BY <1>2, <1>3, Zenon DEF TurnFits, AskFits
<1>12. d.pc \notin {"start", "ok", "nomethod"} BY <1>3, Zenon
<1> QED BY <1>1, <1>2, <1>3, <1>4, <1>5, <1>6, <1>7, <1>8, <1>9, <1>10, <1>11, <1>12, ClientMoves, Zenon
-----------------------------------------------------------------------------
(* The steps of the server, which reads the one request under way.         *)
Turn(p) ==
  /\ UNCHANGED <<config, srv, authorised, client, dial, work>> /\ c2s' = <<>>
  /\ client.pc \notin {"start", "ok", "nomethod"} /\ \A i \in DOMAIN s2c : s2c[i].t = "banner"
  /\ p \in ClientPackets /\ AskFits(client, p)

Holds(s) ==
  /\ s \in ServerRecs /\ Len(s.cache) <= MaxCachedKeys /\ Named(s.method)
  /\ CacheFits(s) /\ VerdictFits(client, s)

LEMMA MovesTo ==
  ASSUME NEW s, Holds(s), NEW pc \in {"loop", "accepted", "error"}
  PROVE  /\ Holds([s EXCEPT !.pc = pc]) /\ ServerFits([s EXCEPT !.pc = pc])
         /\ [s EXCEPT !.pc = pc].pc = pc /\ [s EXCEPT !.pc = pc].method = s.method
         /\ [s EXCEPT !.pc = pc].cache = s.cache
<1> DEFINE d == [s EXCEPT !.pc = pc]
<1>1. d \in ServerRecs /\ d.pc = pc /\ d.method = s.method /\ d.cache = s.cache BY Zenon DEF Holds, ServerRecs
<1> HIDE DEF d
<1>2. Len(d.cache) <= MaxCachedKeys /\ Named(d.method) BY <1>1, Zenon DEF Holds
<1>3. CacheFits(d) /\ VerdictFits(client, d) BY <1>1, Zenon DEF Holds, CacheFits, VerdictFits, CachedOk
<1>4. ServerFits(d) BY <1>1, <1>2, Zenon DEF ServerFits
<1> QED BY <1>1, <1>2, <1>3, <1>4, Zenon DEF Holds, d

LEMMA StopsStep ==
  ASSUME AuthInv, NEW p, Turn(p), NEW s, Holds(s), Stops(s)
  PROVE  AuthInv'
<1> DEFINE d == [s EXCEPT !.pc = "error"]
<1>1. Holds(d) /\ ServerFits(d) BY MovesTo, Zenon
<1>2. server' = d /\ s2c' = s2c BY Zenon DEF Stops
<1> HIDE DEF d
<1> QED BY <1>1, <1>2, ServerMoves, Zenon DEF Turn, Holds

LEMMA RefuseStep ==
  ASSUME AuthInv, NEW p, Turn(p), p.t # "service", NEW s, Holds(s), Refuse(s),
         client.pc \in {"response", "info"} => ~Entitled(client.method, SureKeys),
         client.pc \in {"ack", "signed"} => Unfit(s, p.key)
  PROVE  AuthInv'
<1>1. CASE Stops(s) BY <1>1, StopsStep, Zenon
<1>2. CASE srv.on # {} /\ Replies([s EXCEPT !.pc = "loop"], Failure)
  <2> DEFINE d == [s EXCEPT !.pc = "loop"]
  <2>1. Holds(d) /\ ServerFits(d) /\ d.pc = "loop" /\ d.cache = s.cache BY MovesTo, Zenon
  <2>2. server' = d /\ s2c' = Append(s2c, Failure) BY <1>2, Zenon DEF Replies
  <2> HIDE DEF d
  <2>3. Failure \in ServerPackets BY Zenon DEF ServerPackets
  <2>4. ReplyTrue(d, Failure) BY <1>2, <2>1, Zenon DEF ReplyTrue, Failure
  <2>5. client.pc # "accept" BY DEF Turn, AskFits, Service
  <2>6. client.pc = "ack" => p.key = config.signers[client.at] BY DEF Turn, AskFits, Query
  <2>7. client.pc = "signed" => p.key = client.valid[client.at] BY DEF Turn, AskFits, Signed
  <2>8. \A k : Unfit(s, k) => Unfit(d, k) BY <2>1, Zenon DEF Unfit, CachedOk
  <2>9. Failure.t = "failure" BY Zenon DEF Failure
  <2>10. ReplyFits(client, d, Failure) BY <2>5, <2>6, <2>7, <2>8, <2>9, Zenon DEF ReplyFits
  <2> QED BY <2>1, <2>2, <2>3, <2>4, <2>10, ServerMoves, Zenon DEF Turn, Holds
<1> QED BY <1>1, <1>2, Zenon DEF Refuse

LEMMA AcceptStep ==
  ASSUME AuthInv, NEW p, Turn(p), p.t \in {"request", "answer"}, NEW s, Holds(s), Accept(s),
         Entitled(s.method, GoodKeys)
  PROVE  AuthInv'
<1>1. CASE Stops(s) BY <1>1, StopsStep, Zenon
<1>2. CASE Replies([s EXCEPT !.pc = "accepted"], Success)
  <2> DEFINE d == [s EXCEPT !.pc = "accepted"]
  <2>1. Holds(d) /\ ServerFits(d) /\ d.pc = "accepted" /\ d.method = s.method BY MovesTo, Zenon
  <2>2. server' = d /\ s2c' = Append(s2c, Success) BY <1>2, Zenon DEF Replies
  <2> HIDE DEF d
  <2>3. Success \in ServerPackets /\ Success.t = "success" BY Zenon DEF ServerPackets, Success
  <2>4. ReplyTrue(d, Success) BY <2>1, <2>3, Zenon DEF ReplyTrue, Accepted, Holds
  <2>5. client.pc \notin {"accept", "ack"} BY DEF Turn, AskFits, Service, Query
  <2>6. ReplyFits(client, d, Success) BY <2>3, <2>5, Zenon DEF ReplyFits
  <2> QED BY <2>1, <2>2, <2>3, <2>4, <2>6, ServerMoves, Zenon DEF Turn, Holds
<1> QED BY <1>1, <1>2, Zenon DEF Accept
(* A request about a key: k is the key of it, in all three packets.        *)
LEMMA KeyRequest ==
  ASSUME NEW p, Turn(p), p.t \in {"request", "query"}, p.method = "publickey", AuthInv
  PROVE  /\ p.key \in Keys /\ (p = Query(p.key) \/ p = Signed(p.key))
         /\ client.pc \in {"ack", "signed", "error"}
         /\ client.pc = "ack" => p.key = config.signers[client.at]
         /\ client.pc = "signed" => client.at \in DOMAIN client.valid /\ p.key = client.valid[client.at]
<1>1. p.key \in Keys /\ (p = Query(p.key) \/ p = Signed(p.key))
  BY ClientPacketKinds DEF Turn, Request, Password, Query, Signed
<1>2. client \in ClientRecs /\ MethodFits(client) /\ KeyFits(client) BY Zenon DEF AuthInv, TypeInv
<1>3. client.pc \in {"ack", "signed", "error"}
  BY <1>2 DEF Turn, AskFits, Service, Request, Answer, ClientRecs, MethodFits
<1>4. client.pc = "ack" => p.key = config.signers[client.at] BY DEF Turn, AskFits, Query
<1>5. client.pc = "signed" => client.at \in DOMAIN client.valid /\ p.key = client.valid[client.at]
  BY <1>2 DEF Turn, AskFits, Signed, KeyFits
<1> QED BY <1>1, <1>3, <1>4, <1>5, Zenon

LEMMA VerdictStep ==
  ASSUME AuthInv, NEW p, Turn(p), p.t \in {"request", "query"}, p.method = "publickey", "publickey" \in srv.on,
         NEW s, Holds(s), s.pc = "loop", s.method = "publickey", NEW result,
         result = "ok" => GoodKey(p.key, srv.keys), result # "ok" => Unfit(s, p.key), HandleVerdict(s, p, result)
  PROVE  AuthInv'
<1>0. /\ p.key \in Keys /\ (p = Query(p.key) \/ p = Signed(p.key)) /\ client.pc \in {"ack", "signed", "error"}
      /\ client.pc = "ack" => p.key = config.signers[client.at]
  BY KeyRequest, Zenon
<1>1. CASE p.t = "query" /\ result = "ok" /\ Replies(s, KeyOk(p.key))
  <2> DEFINE q == KeyOk(p.key)
  <2>1. server' = s /\ s2c' = Append(s2c, q) BY <1>1, Zenon DEF Replies
  <2>2. q \in ServerPackets /\ q.t = "pkok" BY <1>0, Zenon DEF ServerPackets, KeyOk
  <2>3. client.pc # "signed" BY <1>1 DEF Turn, AskFits, Signed
  <2>4. ReplyFits(client, s, q) BY <1>0, <2>3, Zenon DEF ReplyFits
  <2> HIDE DEF q
  <2>5. ReplyTrue(s, q) BY <2>2, Zenon DEF ReplyTrue
  <2>6. ServerFits(s) BY Zenon DEF ServerFits, Holds
  <2> QED BY <2>1, <2>2, <2>4, <2>5, <2>6, ServerMoves, Zenon DEF Turn, Holds
<1>2. CASE Stops(s) BY <1>2, StopsStep, Zenon
<1>3. CASE p.t = "request" /\ result = "ok" /\ Accept(s)
  <2>1. \E i \in DOMAIN config.signers : config.signers[i] = p.key BY <1>0, Zenon DEF Keys
  <2>2. GoodKeys # {} BY <1>3, <2>1, Zenon DEF GoodKeys
  <2>3. Entitled(s.method, GoodKeys) BY <2>2, Zenon DEF Entitled
  <2> QED BY <1>3, <2>3, AcceptStep, Zenon
<1>4. CASE result # "ok" /\ Refuse(s)
  BY <1>0, <1>4, RefuseStep, Zenon
<1> QED BY <1>1, <1>2, <1>3, <1>4, Zenon DEF HandleVerdict

(* A verdict that is kept.                                                 *)
LEMMA KeptStep ==
  ASSUME AuthInv, NEW p, Turn(p), p.t \in {"request", "query"}, p.method = "publickey",
         p.key.algo \in srv.algos, NEW s, Holds(s), s.cache = server.cache, Cached(p.key) = {}
  PROVE  /\ Holds([s EXCEPT !.cache = Kept(@, p.key)])
         /\ Verdict(p.key) # "ok" => Unfit([s EXCEPT !.cache = Kept(@, p.key)], p.key)
         /\ Verdict(p.key) = "ok" => GoodKey(p.key, srv.keys)
<1> DEFINE k == p.key
           e == [key |-> k, result |-> Verdict(k)]
           d == [s EXCEPT !.cache = Kept(@, k)]
<1>0. /\ k \in Keys /\ client.pc \in {"ack", "signed", "error"}
      /\ client.pc = "ack" => k = config.signers[client.at]
      /\ client.pc = "signed" => client.at \in DOMAIN client.valid /\ k = client.valid[client.at]
  BY KeyRequest, Zenon
<1>1. /\ Verdict(k) \in {"ok", "refused"}
      /\ Verdict(k) = "ok" => GoodKey(k, srv.keys)
      /\ Verdict(k) # "ok" => ~SureKey(k, authorised)
  BY <1>0, JudgeRight, Zenon DEF Verdict, AuthInv
<1>2. \A i \in DOMAIN s.cache : s.cache[i].key # k BY Zenon DEF Cached
<1>3. s \in ServerRecs /\ s.cache \in Seq(Entries) /\ Len(s.cache) <= MaxCachedKeys /\ CacheFits(s)
      /\ Named(s.method) /\ VerdictFits(client, s)
  BY Zenon DEF Holds, ServerRecs
<1>4. e \in Entries /\ e.key = k /\ e.result = Verdict(k) BY <1>0, <1>1, Zenon DEF Entries
<1>5. client.at \in Nat BY Zenon DEF AuthInv, TypeInv, ClientRecs
<1>6. CASE Len(s.cache) < MaxCachedKeys
  <2>1. Kept(s.cache, k) = Append(s.cache, e) BY <1>6, Zenon DEF Kept
  <2> HIDE DEF e, k
  <2>2. /\ Append(s.cache, e) \in Seq(Entries) /\ Len(Append(s.cache, e)) = Len(s.cache) + 1
        /\ \A i \in DOMAIN Append(s.cache, e) :
             (i \in DOMAIN s.cache /\ Append(s.cache, e)[i] = s.cache[i]) \/ (i = Len(s.cache) + 1 /\ Append(s.cache, e)[i] = e)
    BY <1>3, <1>4, WriteLast
  <2>3. /\ d \in ServerRecs /\ d.method = s.method /\ d.cache = Append(s.cache, e)
    BY <1>3, <2>1, <2>2, Zenon DEF ServerRecs
  <2> HIDE DEF d
  <2>4. Len(d.cache) <= MaxCachedKeys BY <1>3, <1>6, <2>2, <2>3, AuthAssumption
  <2>5. \A i \in DOMAIN d.cache : (i \in DOMAIN s.cache /\ d.cache[i] = s.cache[i]) \/ (i = Len(s.cache) + 1 /\ d.cache[i] = e)
    BY <2>2, <2>3, Zenon
  <2>6. CacheFits(d)
    <3>1. \A i \in DOMAIN d.cache :
            /\ d.cache[i].result = "ok" => GoodKey(d.cache[i].key, srv.keys)
            /\ d.cache[i].result # "ok" => ~SureKey(d.cache[i].key, authorised)
      BY <1>1, <1>3, <1>4, <2>5, Zenon DEF CacheFits, k
    <3>2. \A i \in DOMAIN d.cache : i \in DOMAIN s.cache => d.cache[i] = s.cache[i]
      <4>1. Len(s.cache) + 1 \notin DOMAIN s.cache BY <1>3
      <4> QED BY <2>5, <4>1, Zenon
    <3>3. ASSUME NEW i \in DOMAIN d.cache, NEW j \in DOMAIN d.cache, d.cache[i].key = d.cache[j].key PROVE i = j
      <4>1. CASE i \in DOMAIN s.cache /\ j \in DOMAIN s.cache BY <1>3, <3>2, <3>3, <4>1, Zenon DEF CacheFits
      <4>2. CASE i \notin DOMAIN s.cache \/ j \notin DOMAIN s.cache
        BY <1>2, <1>4, <2>5, <3>2, <3>3, <4>2, Zenon DEF k
      <4> QED BY <4>1, <4>2, Zenon
    <3>4. \A i, j \in DOMAIN d.cache : d.cache[i].key = d.cache[j].key => i = j BY <3>3, Zenon
    <3> QED BY <3>1, <3>4, Zenon DEF CacheFits
  <2>7. ASSUME NEW x, CachedOk(d, x) PROVE CachedOk(s, x) \/ (x = k /\ Verdict(k) = "ok")
    BY <1>4, <2>5, <2>7, Zenon DEF CachedOk
  <2>8. VerdictFits(client, d)
    <3>1. client.pc = "signed" => Ahead(client, k) BY <1>0, <1>5 DEF Ahead
    <3> QED BY <1>0, <1>3, <2>7, <3>1, Zenon DEF VerdictFits
  <2>9. Verdict(k) # "ok" => Unfit(d, k) BY <1>1, <1>2, <2>7, Zenon DEF Unfit, CachedOk, k
  <2> QED BY <1>1, <1>3, <2>3, <2>4, <2>6, <2>8, <2>9, Zenon DEF Holds, d, k
<1>7. CASE ~(Len(s.cache) < MaxCachedKeys)
  <2>1. d = s BY <1>3, <1>7, Zenon DEF Kept, ServerRecs
  <2>2. Verdict(k) # "ok" => Unfit(s, k) BY <1>1, <1>2, Zenon DEF Unfit, CachedOk
  <2> QED BY <1>1, <2>1, <2>2, Zenon
<1> QED BY <1>6, <1>7, Zenon
LEMMA RequestStep ==
  ASSUME AuthInv, NEW p, Turn(p), TurnFits(server, p), server.pc = "loop",
         HandleRequest([server EXCEPT !.method = p.method], p)
  PROVE  AuthInv'
<1> DEFINE s == [server EXCEPT !.method = p.method]
<1>1. p \in ClientPackets /\ p.t \in {"request", "query"} /\ Named(p.method) BY Zenon DEF Turn, TurnFits
<1>2. /\ p.method \in Methods \cup {"none"}
      /\ p.method # "publickey" => p.t = "request"
      /\ p.method = "password" => p.pw = config.password
  BY <1>1, ClientPacketKinds DEF Request, Password, Query, Signed, Methods
<1>3. /\ client \in ClientRecs /\ server \in ServerRecs /\ Len(server.cache) <= MaxCachedKeys
      /\ CacheFits(server) /\ VerdictFits(client, server) /\ Tried(client) /\ MethodFits(client)
  BY Zenon DEF AuthInv, TypeInv
<1>4. s \in ServerRecs /\ s.pc = "loop" /\ s.method = p.method /\ s.cache = server.cache
  BY <1>2, <1>3, Zenon DEF ServerRecs
<1>5. client.pc \in {"response", "info"} => client.method = p.method /\ p.method # "publickey"
  BY <1>1, <1>3 DEF Turn, AskFits, MethodFits, Request, Answer
<1>6. client.pc \in {"ack", "signed"} => p.method = "publickey" /\ "publickey" \in srv.on
  BY <1>3 DEF Turn, AskFits, MethodFits, Query, Signed, Tried
<1> USE <1>1
<1>7. HandleRequest(s, p) BY Zenon
<1> HIDE DEF s
<1>8. Holds(s) BY <1>3, <1>4, Zenon DEF Holds, CacheFits, VerdictFits, CachedOk
<1>9. ASSUME p.method # "publickey" \/ "publickey" \notin srv.on, ~Entitled(p.method, SureKeys), Refuse(s)
      PROVE  AuthInv'
  BY <1>5, <1>6, <1>8, <1>9, RefuseStep, Zenon
<1>10. ASSUME p.method # "publickey", Entitled(p.method, GoodKeys), Accept(s) PROVE AuthInv'
  BY <1>2, <1>4, <1>8, <1>10, AcceptStep, Zenon
<1>11. CASE p.method = "none" /\ srv.none /\ Accept(s) BY <1>10, <1>11, Zenon DEF Entitled
<1>12. CASE p.method = "none" /\ ~srv.none /\ Refuse(s) BY <1>9, <1>12, Zenon DEF Entitled
<1>13. CASE p.method # "none" /\ p.method \notin srv.on /\ Refuse(s) BY <1>9, <1>13, Zenon DEF Entitled
<1>14. CASE p.method = "password" /\ p.method \in srv.on /\ p.pw = srv.secret /\ Accept(s)
  BY <1>2, <1>10, <1>14, Zenon DEF Entitled
<1>15. CASE p.method = "password" /\ p.method \in srv.on /\ p.pw # srv.secret /\ Refuse(s)
  BY <1>2, <1>9, <1>15, Zenon DEF Entitled
<1>16. CASE p.method = "publickey" /\ p.method \in srv.on /\ p.key.algo \notin srv.algos /\ Refuse(s)
  <2>1. ~SureKey(p.key, authorised) /\ ~GoodKey(p.key, srv.keys) BY <1>16, Zenon DEF SureKey, GoodKey
  <2>2. Unfit(s, p.key) BY <1>8, <2>1, Zenon DEF Unfit, CachedOk, Holds, CacheFits
  <2> QED BY <1>5, <1>8, <1>16, <2>2, RefuseStep, Zenon
<1>17. CASE p.method = "publickey" /\ p.method \in srv.on /\ p.key.algo \in srv.algos /\ HandleKey(s, p)
  <2>1. ASSUME NEW i \in Cached(p.key), HandleVerdict(s, p, s.cache[i].result) PROVE AuthInv'
    <3>1. i \in DOMAIN s.cache /\ s.cache[i].key = p.key BY <1>4, Zenon DEF Cached
    <3>2. s.cache[i].result = "ok" => GoodKey(p.key, srv.keys) BY <1>8, <3>1, Zenon DEF Holds, CacheFits
    <3>3. s.cache[i].result # "ok" => Unfit(s, p.key) BY <1>8, <3>1, Zenon DEF Holds, CacheFits, Unfit, CachedOk
    <3> QED BY <1>4, <1>8, <1>17, <2>1, <3>2, <3>3, VerdictStep, Zenon
  <2>2. CASE Cached(p.key) = {} /\ HandleVerdict([s EXCEPT !.cache = Kept(@, p.key)], p, Verdict(p.key))
    <3> DEFINE d == [s EXCEPT !.cache = Kept(@, p.key)]
    <3>1. /\ Holds(d) /\ (Verdict(p.key) # "ok" => Unfit(d, p.key))
          /\ Verdict(p.key) = "ok" => GoodKey(p.key, srv.keys)
      BY <1>4, <1>8, <1>17, <2>2, KeptStep, Zenon
    <3>2. d.pc = "loop" /\ d.method = "publickey" BY <1>4, <1>17, Zenon DEF ServerRecs
    <3> HIDE DEF d
    <3> QED BY <1>17, <2>2, <3>1, <3>2, VerdictStep, Zenon DEF d
  <2> QED BY <1>17, <2>1, <2>2, Zenon DEF HandleKey
<1>18. CASE /\ p.method = "keyboard-interactive" /\ p.method \in srv.on
            /\ Replies([s EXCEPT !.pc = "challenge", !.asks = 1], Info(1))
  <2> DEFINE d == [s EXCEPT !.pc = "challenge", !.asks = 1]
  <2>1. /\ d \in ServerRecs /\ d.pc = "challenge" /\ d.asks = 1 /\ d.cache = s.cache
        /\ d.method = "keyboard-interactive" /\ server' = d /\ s2c' = Append(s2c, Info(1))
    BY <1>4, <1>18, Zenon DEF ServerRecs, Replies
  <2> HIDE DEF d
  <2>2. Holds(d) BY <1>4, <1>8, <1>18, <2>1, Zenon DEF Holds, CacheFits, VerdictFits, CachedOk
  <2>3. ServerFits(d) BY <1>18, <2>1, <2>2 DEF ServerFits, Holds
  <2>4. Info(1) \in ServerPackets /\ Info(1).t = "info" /\ Info(1).n = 1 BY Zenon DEF ServerPackets, Info
  <2>5. client.pc \in {"info", "error"}
    BY <1>3, <1>5, <1>18 DEF Turn, AskFits, ClientRecs, MethodFits, Service, Query, Signed
  <2>6. ReplyTrue(d, Info(1)) /\ ReplyFits(client, d, Info(1)) BY <2>1, <2>4, <2>5, Zenon DEF ReplyTrue, ReplyFits
  <2> QED BY <2>1, <2>2, <2>3, <2>4, <2>6, ServerMoves, Zenon DEF Turn, Holds
<1> QED BY <1>7, <1>11, <1>12, <1>13, <1>14, <1>15, <1>16, <1>17, <1>18, Zenon DEF HandleRequest

LEMMA AnswerStep ==
  ASSUME AuthInv, NEW p, Turn(p), TurnFits(server, p), server.pc = "challenge", HandleAnswer(p)
  PROVE  AuthInv'
<1>1. p \in ClientPackets /\ p.t = "answer" /\ p.n = server.asks /\ p.pw = config.password
  BY ClientPacketKinds DEF Turn, TurnFits, Answer
<1>2. /\ client \in ClientRecs /\ server \in ServerRecs /\ Len(server.cache) <= MaxCachedKeys
      /\ CacheFits(server) /\ VerdictFits(client, server) /\ MethodFits(client) /\ ServerFits(server)
  BY Zenon DEF AuthInv, TypeInv
<1>3. Holds(server) BY <1>2, Zenon DEF Holds, ServerFits
<1>4. client.pc \in {"info", "error"}
  BY <1>1, <1>2 DEF Turn, AskFits, ClientRecs, Service, Query, Signed
<1>5. server.method = "keyboard-interactive" /\ server.method \in srv.on BY <1>2, Zenon DEF ServerFits
<1>6. CASE server.asks = 1 /\ p.pw = srv.secret /\ Replies([server EXCEPT !.asks = 0], Info(0))
  <2> DEFINE d == [server EXCEPT !.asks = 0]
  <2>1. /\ d \in ServerRecs /\ d.pc = "challenge" /\ d.asks = 0 /\ d.cache = server.cache
        /\ d.method = server.method /\ server' = d /\ s2c' = Append(s2c, Info(0))
    BY <1>2, <1>6, Zenon DEF ServerRecs, Replies
  <2> HIDE DEF d
  <2>2. Holds(d) BY <1>3, <2>1, Zenon DEF Holds, CacheFits, VerdictFits, CachedOk
  <2>3. ServerFits(d) BY <1>1, <1>5, <1>6, <2>1, <2>2, Zenon DEF ServerFits, Holds
  <2>4. Info(0) \in ServerPackets /\ Info(0).t = "info" /\ Info(0).n = 0 BY Zenon DEF ServerPackets, Info
  <2>5. ReplyTrue(d, Info(0)) /\ ReplyFits(client, d, Info(0)) BY <1>4, <2>1, <2>4, Zenon DEF ReplyTrue, ReplyFits
  <2> QED BY <2>1, <2>2, <2>3, <2>4, <2>5, ServerMoves, Zenon DEF Turn, Holds
<1>7. CASE server.asks = 1 /\ p.pw # srv.secret /\ Refuse(server)
  <2>1. client.pc \in {"response", "info"} => ~Entitled(client.method, SureKeys)
    BY <1>1, <1>2, <1>4, <1>7, Zenon DEF MethodFits, Entitled
  <2> QED BY <1>1, <1>3, <1>4, <1>7, <2>1, RefuseStep, Zenon
<1>8. CASE server.asks = 0 /\ Accept(server)
  <2>1. Entitled(server.method, GoodKeys) BY <1>2, <1>5, <1>8, Zenon DEF Entitled, ServerFits
  <2> QED BY <1>1, <1>3, <1>8, <2>1, AcceptStep, Zenon
<1> QED BY <1>1, <1>6, <1>7, <1>8, Zenon DEF HandleAnswer, Answers
LEMMA ServerReadsStep ==
  ASSUME AuthInv, ServerReads
  PROVE  AuthInv'
<1> DEFINE p == Head(c2s)
<1>0. TypeInv /\ OneOutstanding /\ TurnInv BY Zenon DEF AuthInv
<1>1. /\ c2s # <<>> /\ ServerStep(p) /\ c2s' = Tail(c2s)
      /\ UNCHANGED <<config, srv, authorised, client, dial, work>>
  BY Zenon DEF ServerReads
<1>2. c2s \in Seq(ClientPackets) /\ Len(c2s) <= 1 BY <1>0, Zenon DEF TypeInv, OneOutstanding
<1>3. p \in ClientPackets /\ p = c2s[1] /\ Tail(c2s) \in Seq(ClientPackets) /\ Len(Tail(c2s)) = Len(c2s) - 1
      /\ Len(c2s) \in Nat
  BY <1>1, <1>2, ReadFirst, Zenon
<1>4. Tail(c2s) # <<>> => Len(Tail(c2s)) >= 1 BY <1>3, ReadFirst, Zenon
<1>5. c2s' = <<>> BY <1>1, <1>2, <1>3, <1>4
<1>6. TurnFits(server, p) /\ AskFits(client, p) BY <1>0, <1>1, <1>3, Zenon DEF TurnInv
<1>7. client.pc \notin {"start", "ok", "nomethod"} BY <1>0, <1>1, Zenon DEF TurnInv
<1>8. \A i \in DOMAIN s2c : s2c[i].t = "banner" BY <1>0, <1>1, Zenon DEF OneOutstanding
<1>9. Turn(p) BY <1>1, <1>3, <1>5, <1>6, <1>7, <1>8, Zenon DEF Turn
<1> HIDE DEF p
<1>10. CASE server.pc = "service" /\ Replies([server EXCEPT !.pc = "loop"], [t |-> "accept"])
  <2> DEFINE d == [server EXCEPT !.pc = "loop"]
             q == [t |-> "accept"]
  <2>1. Holds(server) BY Zenon DEF AuthInv, TypeInv, ServerFits, Holds
  <2>2. Holds(d) /\ ServerFits(d) /\ d.pc = "loop" BY <2>1, MovesTo, Zenon
  <2>3. server' = d /\ s2c' = Append(s2c, q) BY <1>10, Zenon DEF Replies
  <2>4. q \in ServerPackets /\ q.t = "accept" BY Zenon DEF ServerPackets
  <2> HIDE DEF d, q
  <2>5. client.pc \in {"accept", "error"}
    BY <1>0, <1>6, <1>7, <1>10 DEF TurnFits, AskFits, Service, Query, Signed, Request, Answer, TypeInv, ClientRecs
  <2>6. ReplyTrue(d, q) /\ ReplyFits(client, d, q) BY <2>2, <2>4, <2>5, Zenon DEF ReplyTrue, ReplyFits
  <2> QED BY <1>9, <2>2, <2>3, <2>4, <2>6, ServerMoves, Zenon DEF Turn, Holds
<1>11. CASE server.pc = "loop" /\ HandleRequest([server EXCEPT !.method = p.method], p)
  BY <1>6, <1>9, <1>11, RequestStep, Zenon
<1>12. CASE server.pc = "challenge" /\ HandleAnswer(p)
  BY <1>6, <1>9, <1>12, AnswerStep, Zenon
<1> QED BY <1>1, <1>10, <1>11, <1>12, Zenon DEF ServerStep

LEMMA ServerReadFailsStep ==
  ASSUME AuthInv, ServerReadFails
  PROVE  AuthInv'
<1> DEFINE d == [server EXCEPT !.pc = "error"]
<1>1. /\ server.pc \in {"service", "loop", "challenge"} /\ c2s = <<>> /\ server' = d /\ s2c' = s2c
      /\ UNCHANGED <<config, srv, authorised, c2s, client, dial, work>>
  BY Zenon DEF ServerReadFails, Stops
<1>2. Holds(server) BY Zenon DEF AuthInv, TypeInv, ServerFits, Holds
<1>3. /\ Holds(d) /\ ServerFits(d) /\ d.pc = "error" /\ d.cache = server.cache /\ d.method = server.method
  BY <1>2, MovesTo, Zenon
<1>4. d.asks = server.asks BY <1>2, Zenon DEF Holds, ServerRecs
<1> HIDE DEF d
<1>5. UNCHANGED <<config, srv, authorised, dial>> BY <1>1, Zenon
<1>6. ~Accepted(server) BY <1>1, Zenon DEF Accepted
<1> USE DEF AuthInv
<1>7. TypeInv' BY <1>1, <1>3, <1>5, Same, Zenon DEF TypeInv, Holds
<1>8. OneOutstanding' BY <1>1, Zenon DEF OneOutstanding
<1>9. TurnInv' BY <1>1, <1>3, Zenon DEF TurnInv
<1>10. ReplyInv'
  <2>1. ASSUME NEW q, ReplyTrue(server, q), ReplyFits(client, server, q)
        PROVE  ReplyTrue(server, q)' /\ ReplyFits(client, server, q)'
    <3>1. ReplyTrue(server, q)' BY <2>1, <1>1, <1>3, <1>4, <1>6, Same, Zenon DEF ReplyTrue
    <3>2. ReplyFits(client, server, q)'
      BY <2>1, <1>1, <1>3, <1>5, Same, Zenon DEF ReplyFits, Unfit, CachedOk, KeyOk
    <3> QED BY <3>1, <3>2, Zenon
  <2> QED BY <1>1, <2>1, Zenon DEF ReplyInv
<1>11. (client.pc = "ok" => Accepted(server))' BY <1>1, <1>6, Zenon
<1>12. ServerFits(server)' BY <1>1, <1>3, <1>5, Same, Zenon DEF ServerFits
<1>13. CacheFits(server)' BY <1>1, <1>3, <1>5, Same DEF CacheFits
<1>14. Tried(client)' /\ MethodFits(client)' BY <1>1, <1>5, Same, Zenon DEF Tried, MethodFits
<1>15. KeyFits(client)' BY <1>1, <1>5, Same, SameClient, Zenon DEF KeyFits
<1>16. VerdictFits(client, server)'
  <2>1. \A k : CachedOk(server, k)' <=> CachedOk(server, k) BY <1>1, <1>3, Zenon DEF CachedOk
  <2> QED BY <1>1, <1>5, <2>1, Same, SameClient, Zenon DEF VerdictFits
<1>17. DialInv' BY <1>5, Zenon DEF DialInv
<1> QED BY <1>7, <1>8, <1>9, <1>10, <1>11, <1>12, <1>13, <1>14, <1>15, <1>16, <1>17, Zenon

-----------------------------------------------------------------------------
(* The other steps.                                                        *)
LEMMA SendBannerStep ==
  ASSUME AuthInv, SendBanner
  PROVE  AuthInv'
<1> DEFINE b == [t |-> "banner"]
<1>1. /\ server.pc = "loop" /\ s2c' = Append(s2c, b)
      /\ UNCHANGED <<config, srv, authorised, c2s, client, server, dial, work>>
  BY Zenon DEF SendBanner
<1>2. TypeInv /\ OneOutstanding /\ TurnInv BY Zenon DEF AuthInv
<1>3. s2c \in Seq(ServerPackets) /\ b \in ServerPackets /\ b.t = "banner" BY <1>2, Zenon DEF TypeInv, ServerPackets
<1>4. client.pc # "start" BY <1>1, <1>2, Zenon DEF TurnInv
<1> HIDE DEF b
<1>5. /\ s2c' \in Seq(ServerPackets)
      /\ \A i \in DOMAIN s2c' : (i \in DOMAIN s2c /\ s2c'[i] = s2c[i]) \/ s2c'[i] = b
  BY <1>1, <1>3, WriteLast
<1>6. c2s # <<>> => \A i \in DOMAIN s2c' : s2c'[i].t = "banner" BY <1>2, <1>3, <1>5, Zenon DEF OneOutstanding
<1>7. \A i, j \in DOMAIN s2c' : s2c'[i].t # "banner" /\ s2c'[j].t # "banner" => i = j
  <2>1. \A i, j \in DOMAIN s2c : s2c[i].t # "banner" /\ s2c[j].t # "banner" => i = j BY <1>2, Zenon DEF OneOutstanding
  <2> QED BY <1>3, <1>5, <2>1, Zenon
<1>8. \A i \in DOMAIN s2c' : s2c'[i].t = "banner" \/ \E j \in DOMAIN s2c : s2c[j] = s2c'[i] BY <1>3, <1>5, Zenon
<1> QED BY <1>1, <1>4, <1>5, <1>6, <1>7, <1>8, BannerMoves, Zenon

(* A connection that breaks, a call that returns: nothing else changes.    *)
LEMMA Unmoved ==
  ASSUME AuthInv, UNCHANGED <<config, srv, authorised, c2s, s2c, client, server, dial>>,
         work' \in {"dialing", "session", "error"}
  PROVE  AuthInv'
<1> USE DEF AuthInv
<1>0. UNCHANGED <<config, srv, authorised, dial>> BY Zenon
<1>1. TypeInv' BY <1>0, Same, Zenon DEF TypeInv
<1>2. OneOutstanding' BY Zenon DEF OneOutstanding
<1>3. TurnInv' BY <1>0, Same, Zenon DEF TurnInv, TurnFits, AskFits, Answer
<1>4. ReplyInv'
  <2>1. ASSUME NEW q, ReplyTrue(server, q), ReplyFits(client, server, q)
        PROVE  ReplyTrue(server, q)' /\ ReplyFits(client, server, q)'
    BY <2>1, <1>0, Same, Zenon DEF ReplyTrue, ReplyFits, Accepted, Unfit, CachedOk, KeyOk
  <2> QED BY <2>1, Zenon DEF ReplyInv
<1>5. (client.pc = "ok" => Accepted(server))' BY <1>0, Same, Zenon DEF Accepted
<1>6. ServerFits(server)' /\ CacheFits(server)' BY <1>0, Same, Zenon DEF ServerFits, CacheFits
<1>7. Tried(client)' /\ MethodFits(client)' BY <1>0, Same, Zenon DEF Tried, MethodFits
<1>8. KeyFits(client)' BY <1>0, Same, SameClient, Zenon DEF KeyFits
<1>9. VerdictFits(client, server)' BY <1>0, Same, SameClient, SameServer, Zenon DEF VerdictFits
<1>10. DialInv' BY <1>0, Zenon DEF DialInv
<1> QED BY <1>1, <1>2, <1>3, <1>4, <1>5, <1>6, <1>7, <1>8, <1>9, <1>10, Zenon
LEMMA RevokeStep ==
  ASSUME AuthInv, Revoke
  PROVE  AuthInv'
<1> USE DEF AuthInv
<1>1. /\ authorised' \subseteq authorised
      /\ UNCHANGED <<config, srv, c2s, s2c, client, server, dial, work>>
  BY Zenon DEF Revoke
<1>2. /\ Keys' = Keys /\ Auth' = Auth /\ ClientPackets' = ClientPackets /\ ServerPackets' = ServerPackets
      /\ ClientRecs' = ClientRecs /\ ServerRecs' = ServerRecs /\ GoodKeys' = GoodKeys
  BY <1>1, Zenon DEF Keys, Auth, ClientPackets, ServerPackets, ClientRecs, ServerRecs, Entries, Password, Answer,
                     Failure, GoodKeys, GoodKey
<1>3. \A m : Named(m)' <=> Named(m) BY <1>2, Zenon DEF Named
<1>4. \A k : GoodKey(k, srv.keys)' <=> GoodKey(k, srv.keys) BY <1>1, Zenon DEF GoodKey
<1>5. ASSUME NEW k, SureKey(k, authorised)' PROVE SureKey(k, authorised)
  <2>1. SureKey(k, authorised') BY <1>1, <1>5, Zenon DEF SureKey, GoodKey
  <2> QED BY <1>1, <2>1, SureShrinks, Zenon
<1>6. SureKeys' \subseteq SureKeys BY <1>1, <1>5, Zenon DEF SureKeys
<1>7. \A m : Entitled(m, SureKeys)' => Entitled(m, SureKeys) BY <1>1, <1>6, Zenon DEF Entitled
<1>8. \A m : Entitled(m, GoodKeys)' <=> Entitled(m, GoodKeys) BY <1>1, <1>2, Zenon DEF Entitled
<1>9. TypeInv' BY <1>1, <1>2, Zenon DEF TypeInv
<1>10. OneOutstanding' BY <1>1, Zenon DEF OneOutstanding
<1>11. TurnInv' BY <1>1, <1>3, Zenon DEF TurnInv, TurnFits, AskFits, Answer
<1>12. ReplyInv'
  <2>1. ASSUME NEW q, ReplyTrue(server, q), ReplyFits(client, server, q)
        PROVE  ReplyTrue(server, q)' /\ ReplyFits(client, server, q)'
    <3>1. ReplyTrue(server, q)' BY <2>1, <1>1, <1>3, <1>8, Zenon DEF ReplyTrue, Accepted
    <3>2. ReplyFits(client, server, q)'
      BY <2>1, <1>1, <1>5, <1>7, Zenon DEF ReplyFits, Unfit, CachedOk, KeyOk
    <3> QED BY <3>1, <3>2, Zenon
  <2> QED BY <1>1, <2>1, Zenon DEF ReplyInv
<1>13. (client.pc = "ok" => Accepted(server))' BY <1>1, <1>3, <1>8, Zenon DEF Accepted
<1>14. ServerFits(server)' BY <1>1, <1>3, Zenon DEF ServerFits
<1>15. CacheFits(server)' BY <1>1, <1>4, <1>5, Zenon DEF CacheFits
<1>16. Tried(client)' BY <1>1, <1>3, <1>7, Zenon DEF Tried
<1>17. MethodFits(client)' BY <1>1, <1>2, Zenon DEF MethodFits
<1>18. KeyFits(client)' BY <1>1, <1>5, Zenon DEF KeyFits, Ahead, Valid
<1>19. VerdictFits(client, server)' BY <1>1, <1>2, Zenon DEF VerdictFits, CachedOk, Ahead, Valid
<1>20. DialInv' BY <1>1, Zenon DEF DialInv
<1> QED BY <1>9, <1>10, <1>11, <1>12, <1>13, <1>14, <1>15, <1>16, <1>17, <1>18, <1>19, <1>20, Zenon

(* Both ends of a new connection.                                          *)
Fresh ==
  /\ config \in Clients /\ srv \in Servers /\ authorised \subseteq srv.keys
  /\ c2s = <<>> /\ s2c = <<>> /\ client = NewClient /\ server = NewServer
  /\ dial \in {1, 2} /\ work = "dialing" /\ DialInv

LEMMA FreshHolds == Fresh => AuthInv
<1> SUFFICES ASSUME Fresh PROVE AuthInv BY Zenon
<1> USE DEF Fresh
<1>1. /\ client.pc = "start" /\ client.method = "none" /\ client.tried = {} /\ client.at = 1 /\ client.valid = <<>>
      /\ server.pc = "service" /\ server.method = "none" /\ server.cache = <<>> /\ server.asks = 0
  BY Zenon DEF NewClient, NewServer
<1>2. client \in ClientRecs /\ server \in ServerRecs BY DEF ClientRecs, ServerRecs, NewClient, NewServer, Nil
<1>3. Len(server.cache) <= MaxCachedKeys BY <1>1, AuthAssumption
<1>4. TypeInv BY <1>2, <1>3 DEF TypeInv
<1>5. OneOutstanding BY DEF OneOutstanding
<1>6. TurnInv BY <1>1, Zenon DEF TurnInv
<1>7. ReplyInv BY DEF ReplyInv
<1>8. ServerFits(server) /\ CacheFits(server) BY <1>1 DEF ServerFits, CacheFits, Named
<1>9. Tried(client) /\ MethodFits(client) /\ KeyFits(client) BY <1>1, Zenon DEF Tried, MethodFits, KeyFits
<1>10. VerdictFits(client, server) BY <1>1 DEF VerdictFits, CachedOk
<1> QED BY <1>1, <1>4, <1>5, <1>6, <1>7, <1>8, <1>9, <1>10, Zenon DEF AuthInv

(* A second Dial: the server takes no password, nor the method "none".     *)
LEMMA WorkStep ==
  ASSUME AuthInv, Work
  PROVE  AuthInv'
<1>1. CASE Return BY <1>1, Unmoved, Zenon DEF Return
<1>2. CASE client.pc = "nomethod" /\ Fallback /\ DialAgain
  <2>1. config \in Clients /\ Tried(client) /\ MethodFits(client) BY Zenon DEF AuthInv, TypeInv
  <2>2. Auth = config.auth /\ config.work /\ client.tried = {"none", "publickey"} BY <1>2, Zenon DEF Fallback, Auth
  <2>3. PICK i \in DOMAIN config.auth : config.auth[i] = "password" BY <2>1, <2>2, AuthAssumption, Zenon
  <2>4. "password" \notin srv.on BY <1>2, <2>1, <2>2, <2>3, Zenon DEF MethodFits
  <2>5. ~srv.none BY <2>1, <2>2, Zenon DEF Tried, Entitled
  <2>6. Fresh' BY <1>2, <2>4, <2>5, Zenon DEF Fresh, DialAgain, DialInv, AuthInv, TypeInv, NewClient, NewServer
  <2>7. Fresh' => AuthInv' BY FreshHolds, PTL
  <2> QED BY <2>6, <2>7, Zenon
<1> QED BY <1>1, <1>2, Zenon DEF Work

-----------------------------------------------------------------------------
THEOREM AuthInductive == AuthSpec => []AuthInv
<1>1. AuthInit => AuthInv
  <2>1. AuthInit => Fresh BY DEF AuthInit, Fresh, DialInv
  <2> QED BY <2>1, FreshHolds, Zenon
<1>2. AuthInv /\ [AuthNext]_authVars => AuthInv'
  <2> SUFFICES ASSUME AuthInv, [AuthNext]_authVars PROVE AuthInv' BY Zenon
  <2>1. work \in {"dialing", "session", "error"} BY Zenon DEF AuthInv, TypeInv
  <2>2. CASE Client BY <2>2, ClientStartStep, ClientReadsStep, ClientReadFailsStep, Zenon DEF Client
  <2>3. CASE Server BY <2>3, ServerReadsStep, ServerReadFailsStep, Zenon DEF Server
  <2>4. CASE SendBanner BY <2>4, SendBannerStep, Zenon
  <2>5. CASE Revoke BY <2>5, RevokeStep, Zenon
  <2>6. CASE Break BY <2>1, <2>6, Unmoved, Zenon DEF Break
  <2>7. CASE Work BY <2>7, WorkStep, Zenon
  <2>8. CASE UNCHANGED authVars BY <2>1, <2>8, Unmoved, Zenon DEF authVars
  <2> QED BY <2>2, <2>3, <2>4, <2>5, <2>6, <2>7, <2>8, Zenon DEF AuthNext, Ended
<1> QED BY <1>1, <1>2, PTL DEF AuthSpec

(* Whoever the user, whatever their methods, keys and certificates and the *)
(* server's, however banners, revocations and a broken connection fall     *)
(* between the steps: Dial succeeds only for a user the server has         *)
(* accepted by a method that entitles them, gives up only when no method   *)
(* would do and no favourable verdict is left unused, the cache stays      *)
(* within its bound and an answer is that of the last request              *)
(* (clientAuthenticate, serverAuthenticate, CheckCert).                    *)
THEOREM AuthCorrect == AuthSpec => []AuthSound
<1>1. AuthInv => AuthSound
  <2> SUFFICES ASSUME AuthInv PROVE AuthSound BY Zenon
  <2> USE DEF AuthInv
  <2>1. AuthTypeOK BY Zenon DEF AuthTypeOK, TypeInv, ClientRecs, ServerRecs
  <2>2. AuthAgrees BY Zenon DEF AuthAgrees, Accepted
  <2>3. NoWayLeft
    <3>1. config.auth \in Seq(Methods) BY AuthAssumption, Zenon DEF TypeInv
    <3>2. \A i \in DOMAIN config.auth : config.auth[i] \in Methods BY <3>1
    <3>3. \A i \in DOMAIN Auth : Auth[i] # "none" BY <3>2 DEF Auth, Methods
    <3> QED BY <3>3, Zenon DEF NoWayLeft, Tried, MethodFits, Entitled
  <2>4. VerdictStands
    <3>1. server.cache \in Seq(Entries) BY Zenon DEF TypeInv, ServerRecs
    <3>2. \A i \in DOMAIN server.cache : server.cache[i] \in Entries BY <3>1
    <3>3. \A i \in DOMAIN server.cache : server.cache[i].key \in Keys BY <3>2, Zenon DEF Entries
    <3> QED BY <3>3, Zenon DEF VerdictStands, VerdictFits, CachedOk
  <2> QED BY <2>1, <2>2, <2>3, <2>4, Zenon DEF AuthSound
<1> QED BY <1>1, AuthInductive, PTL

(* The second Dial of Task.Work, with the password alone, succeeds for no  *)
(* client and no server: the error that leads to it comes from a server    *)
(* that takes no passwords.                                                *)
THEOREM FallbackCorrect == AuthSpec => []FallbackNeverHelps
<1>1. AuthInv => FallbackNeverHelps
  <2> SUFFICES ASSUME AuthInv, dial = 2, client.pc = "ok" PROVE FALSE BY Zenon DEF FallbackNeverHelps
  <2>1. Accepted(server) /\ ~srv.none /\ "password" \notin srv.on BY Zenon DEF AuthInv, DialInv
  <2>2. server.method = "none" \/ server.method = "password" BY <2>1 DEF Accepted, Named, Auth
  <2> QED BY <2>1, <2>2, Zenon DEF Accepted, Entitled
<1> QED BY <1>1, AuthInductive, PTL

=============================================================================
