------------------------------ MODULE SshAuth -------------------------------
(***************************************************************************)
(* User authentication of golang.org/x/crypto/ssh, both ends               *)
(* (client_auth.go, server.go), over the connection that the key exchange  *)
(* has set up, and sesh's use of it (batch/ssh.go, Task.Work): a first     *)
(* Dial with every method it has, a second one with the password alone.    *)
(*                                                                         *)
(* A packet that cannot be parsed is not modelled: both ends are this      *)
(* library, but for the banner, which other servers send.                  *)
(***************************************************************************)
EXTENDS SshCerts, Sequences

CONSTANTS
  Clients,      \* the clients: [auth, password, signers, work]
  Servers,      \* the servers: [none, on, keys, secret, algos, checker]
  UserName, Now,\* who logs in, and when
  Addr,         \* the client's address
  MaxCachedKeys,\* bound of the server's cache (16)
  MaxBanners    \* bound: banners a server sends on one connection

Methods == {"password", "publickey", "keyboard-interactive"}
Nil == {}   \* a nil slice of method names

(* A client has a key to try; Task.Work (work) always has a password to    *)
(* try, if only the empty one.  Times are uint64, the clock an int64.      *)
ASSUME AuthAssumption ==
  /\ \A c \in Clients :
       /\ c.auth \in Seq(Methods) /\ (c.work => \E i \in DOMAIN c.auth : c.auth[i] = "password")
       /\ c.signers # <<>> /\ c.signers \in Seq({c.signers[i] : i \in DOMAIN c.signers})
       /\ \A i \in DOMAIN c.signers : c.signers[i].cert =>
            c.signers[i].after \in 0 .. CertTimeInfinity /\ c.signers[i].before \in 0 .. CertTimeInfinity
  /\ \A s \in Servers : s.on \subseteq Methods
  /\ Now \in 0 .. Half - 1 /\ MaxCachedKeys \in Nat

VARIABLES
  config, srv, \* the client's and the server's configuration
  authorised,  \* keys the server's callback takes at the moment
  open,        \* neither end has closed the connection, nor has it broken
  c2s, s2c,    \* packets under way
  client, server,
  banners,
  dial, work   \* Task.Work: first or second Dial; "dialing", "session" or "error"

authVars == <<config, srv, authorised, open, c2s, s2c, client, server, banners, dial, work>>

NewClient == [pc |-> "start", method |-> "none", tried |-> {}, last |-> Nil, at |-> 1, valid |-> <<>>]
NewServer == [pc |-> "service", method |-> "none", cache |-> <<>>, asks |-> 0]

AuthInit ==
  /\ config \in Clients /\ srv \in Servers
  /\ authorised = srv.keys
  /\ open = TRUE /\ c2s = <<>> /\ s2c = <<>>
  /\ client = NewClient /\ server = NewServer
  /\ banners = 0 /\ dial = 1 /\ work = "dialing"

-----------------------------------------------------------------------------
(* The client.  It writes a request and waits for the answer, or its call  *)
(* of clientAuthenticate ends, and with an error so does the connection.   *)
Asks(c, p) == client' = c /\ c2s' = Append(c2s, p) /\ UNCHANGED open
Ends(c, pc) == client' = [c EXCEPT !.pc = pc] /\ open' = (open /\ pc = "ok") /\ UNCHANGED c2s

Service == [t |-> "service"]
Request(method) == [t |-> "request", method |-> method]
Password == [t |-> "request", method |-> "password", pw |-> config.password]
Answer(n) == [t |-> "answer", n |-> n, pw |-> config.password]
Query(k) == [t |-> "query", method |-> "publickey", key |-> k]
Signed(k) ==
  [t |-> "request", method |-> "publickey", key |-> k,
   sig |-> [by |-> k, over |-> <<UserName, "publickey", k>>]]

(* The application's callback fails to produce the secret, the keys or a   *)
(* signature; sesh's are constant functions.                               *)
CallbackFails(c) == ~config.work /\ Ends(c, "error")

(* A method is called: its packet, and where its code waits.               *)
Begin(c, method) ==
  \/ method = "none" /\ Asks([c EXCEPT !.method = method, !.pc = "response"], Request(method))
  \/ method = "password" /\ Asks([c EXCEPT !.method = method, !.pc = "response"], Password)
  \/ method = "keyboard-interactive" /\ Asks([c EXCEPT !.method = method, !.pc = "info"], Request(method))
  \/ /\ method = "publickey"
     /\ Asks([c EXCEPT !.method = method, !.pc = "ack", !.at = 1, !.valid = <<>>], Query(config.signers[1]))
  \/ method \in {"password", "publickey"} /\ CallbackFails(c)

(* The methods of this Dial; clientAuthenticate takes the first one that   *)
(* is untried and that the server has named.                               *)
Auth == IF dial = 1 THEN config.auth ELSE <<"password">>
Untried(c) == {i \in DOMAIN Auth : Auth[i] \notin c.tried /\ Auth[i] \in c.last}

FindNext(c) ==
  \/ Untried(c) = {} /\ Ends(c, "nomethod")
  \/ \E i \in Untried(c) : (\A j \in Untried(c) : i <= j) /\ Begin(c, Auth[i])

\* mutant: the answer "nil" of a method without a valid key is not replaced
AdvanceNil(c, methods) == FindNext([c EXCEPT !.tried = @ \cup {c.method}, !.last = methods])

\* mutant: a method is not marked as tried
AdvanceUntried(c, methods) == FindNext([c EXCEPT !.last = IF methods = Nil THEN @ ELSE methods])

(* A method has failed.                                                    *)
Advance(c, methods) ==
  FindNext([c EXCEPT !.tried = @ \cup {c.method}, !.last = IF methods = Nil THEN @ ELSE methods])

(* The second stage of publickey: sign with the i-th key found valid.      *)
Sign(c, i) ==
  \/ i <= Len(c.valid) /\ Asks([c EXCEPT !.pc = "signed", !.at = i], Signed(c.valid[i]))
  \/ i <= Len(c.valid) /\ CallbackFails(c)

(* The first stage, confirmKeyAck: is this key acceptable?                 *)
Confirmed(p) ==
  IF p.t = "pkok" /\ p.key = config.signers[client.at]
  THEN [client EXCEPT !.valid = Append(@, p.key)] ELSE client

Ack(p) ==
  \/ p.t \notin {"pkok", "failure"} /\ Ends(client, "error")
  \/ /\ p.t \in {"pkok", "failure"} /\ client.at < Len(config.signers)
     /\ Asks([Confirmed(p) EXCEPT !.at = @ + 1], Query(config.signers[client.at + 1]))
  \/ /\ p.t \in {"pkok", "failure"} /\ client.at = Len(config.signers)
     /\ Sign(Confirmed(p), 1) \/ (Confirmed(p).valid = <<>> /\ Advance(Confirmed(p), Nil))

(* handleAuthResponse and the loop of keyboard-interactive, which answers  *)
(* as many questions as there are.                                         *)
Response(p) ==
  \/ p.t = "success" /\ Ends(client, "ok")
  \/ p.t = "failure" /\ client.pc # "signed" /\ Advance(client, p.methods)
  \/ p.t = "failure" /\ client.pc = "signed" /\ Sign(client, client.at + 1)
  \/ p.t = "failure" /\ client.pc = "signed" /\ client.at = Len(client.valid) /\ Advance(client, p.methods)
  \/ p.t = "info" /\ client.pc = "info" /\ (Asks(client, Answer(p.n)) \/ CallbackFails(client))
  \/ p.t \notin {"success", "failure"} /\ ~(p.t = "info" /\ client.pc = "info") /\ Ends(client, "error")

ClientOver == client.pc \in {"ok", "nomethod", "error"}

ClientStart ==
  /\ client.pc = "start" /\ work = "dialing"
  /\ Asks([client EXCEPT !.pc = "accept"], Service)
  /\ UNCHANGED <<config, srv, authorised, s2c, server, banners, dial, work>>

ClientStep(p) ==
  \/ client.pc = "accept" /\ p.t = "accept" /\ Begin(client, "none")
  \/ client.pc = "accept" /\ p.t # "accept" /\ Ends(client, "error")
  \/ client.pc # "accept" /\ p.t = "banner" /\ UNCHANGED <<client, c2s, open>>
  \/ client.pc = "ack" /\ p.t # "banner" /\ Ack(p)
  \/ client.pc \in {"response", "signed", "info"} /\ p.t # "banner" /\ Response(p)

ClientReads ==
  /\ s2c # <<>> /\ ClientStep(Head(s2c))
  /\ s2c' = Tail(s2c)
  /\ UNCHANGED <<config, srv, authorised, server, banners, dial, work>>

ClientReadFails ==
  /\ ~ClientOver /\ client.pc # "start" /\ s2c = <<>> /\ ~open
  /\ Ends(client, "error")
  /\ UNCHANGED <<config, srv, authorised, s2c, server, banners, dial, work>>

-----------------------------------------------------------------------------
(* The server.  srv.on is the set of methods that have a callback, which   *)
(* is what a failure names; none stands for NoClientAuth.                  *)
Replies(s, p) == server' = s /\ s2c' = Append(s2c, p) /\ UNCHANGED open
Stops(s) == server' = [s EXCEPT !.pc = "error"] /\ open' = FALSE /\ UNCHANGED s2c

Failure == [t |-> "failure", methods |-> srv.on]
Success == [t |-> "success"]
KeyOk(k) == [t |-> "pkok", key |-> k]
Info(n) == [t |-> "info", n |-> n]

Refuse(s) ==
  \/ srv.on = {} /\ Stops(s)
  \/ srv.on # {} /\ Replies([s EXCEPT !.pc = "loop"], Failure)

(* The success packet: when the connection is gone the write may fail.     *)
Accept(s) ==
  \/ Replies([s EXCEPT !.pc = "accepted"], Success)
  \/ ~open /\ Stops(s)

(* PublicKeyCallback, here a CertChecker, and the source-address check.    *)
Judge(k) ==
  /\ CheckKey(srv.checker, authorised, "user", UserName, k, Now)
  /\ k.source.kind # "" => checkSourceAddress(Addr, k.source)

Cached(k) == {i \in DOMAIN server.cache : server.cache[i].key = k}

(* A verdict on the key of a query, or of a request that is signed.        *)
HandleVerdict(s, p, result) ==
  \/ p.t = "query" /\ result = "ok" /\ Replies(s, KeyOk(p.key))
  \/ p.t = "request" /\ ~Verify(p.key, <<UserName, "publickey", p.key>>, p.sig) /\ Stops(s)
  \/ p.t = "request" /\ Verify(p.key, <<UserName, "publickey", p.key>>, p.sig) /\ result = "ok" /\ Accept(s)
  \/ /\ p.t = "request" => Verify(p.key, <<UserName, "publickey", p.key>>, p.sig)
     /\ result # "ok" /\ Refuse(s)

(* The cached verdict on a key, or a new one, kept while there is room.    *)
Verdict(k) == IF Judge(k) THEN "ok" ELSE "refused"
Kept(cache, k) ==
  IF Len(cache) < MaxCachedKeys THEN Append(cache, [key |-> k, result |-> Verdict(k)]) ELSE cache

HandleKey(s, p) ==
  \/ \E i \in Cached(p.key) : HandleVerdict(s, p, s.cache[i].result)
  \/ Cached(p.key) = {} /\ HandleVerdict([s EXCEPT !.cache = Kept(@, p.key)], p, Verdict(p.key))

(* One turn of the loop of serverAuthenticate.                             *)
HandleRequest(s, p) ==
  \/ p.method = "none" /\ srv.none /\ Accept(s)
  \/ p.method = "none" /\ ~srv.none /\ Refuse(s)
  \/ p.method # "none" /\ p.method \notin srv.on /\ Refuse(s)
  \/ p.method = "password" /\ p.method \in srv.on /\ p.pw = srv.secret /\ Accept(s)
  \/ p.method = "password" /\ p.method \in srv.on /\ p.pw # srv.secret /\ Refuse(s)
  \/ p.method = "publickey" /\ p.method \in srv.on /\ p.key.algo \notin srv.algos /\ Refuse(s)
  \/ p.method = "publickey" /\ p.method \in srv.on /\ p.key.algo \in srv.algos /\ HandleKey(s, p)
  \/ /\ p.method = "keyboard-interactive" /\ p.method \in srv.on
     /\ Replies([s EXCEPT !.pc = "challenge", !.asks = 1], Info(1))

(* sshClientKeyboardInteractive.Challenge, called by a callback that asks  *)
(* for the secret and then, as many do, sends a round without questions.   *)
Answers(p) == p.t = "answer" /\ p.n = server.asks

HandleAnswer(p) ==
  \/ ~Answers(p) /\ Refuse(server)
  \/ Answers(p) /\ server.asks = 1 /\ p.pw = srv.secret /\ Replies([server EXCEPT !.asks = 0], Info(0))
  \/ Answers(p) /\ server.asks = 1 /\ p.pw # srv.secret /\ Refuse(server)
  \/ Answers(p) /\ server.asks = 0 /\ Accept(server)

ServerStep(p) ==
  \/ server.pc = "service" /\ Replies([server EXCEPT !.pc = "loop"], [t |-> "accept"])
  \/ server.pc = "loop" /\ HandleRequest([server EXCEPT !.method = p.method], p)
  \/ server.pc = "challenge" /\ HandleAnswer(p)

ServerReads ==
  /\ c2s # <<>> /\ ServerStep(Head(c2s))
  /\ c2s' = Tail(c2s)
  /\ UNCHANGED <<config, srv, authorised, client, banners, dial, work>>

ServerReadFails ==
  /\ server.pc \in {"service", "loop", "challenge"} /\ c2s = <<>> /\ ~open
  /\ Stops(server)
  /\ UNCHANGED <<config, srv, authorised, c2s, client, banners, dial, work>>

(* A server other than this library's greets its users.                    *)
SendBanner ==
  /\ server.pc = "loop" /\ open /\ banners < MaxBanners
  /\ banners' = banners + 1
  /\ s2c' = Append(s2c, [t |-> "banner"])
  /\ UNCHANGED <<config, srv, authorised, open, c2s, client, server, dial, work>>

(* The administrator takes a key out of the list; the connection breaks.   *)
Revoke ==
  /\ dial = 1
  /\ \E k \in authorised : authorised' = authorised \ {k}
  /\ UNCHANGED <<config, srv, open, c2s, s2c, client, server, banners, dial, work>>

Break ==
  /\ open /\ ~(ClientOver /\ server.pc = "accepted")
  /\ open' = FALSE
  /\ UNCHANGED <<config, srv, authorised, c2s, s2c, client, server, banners, dial, work>>

-----------------------------------------------------------------------------
(* Task.Work.  The error text lists the keys of the map tried in any       *)
(* order, and sesh looks for one order of one set: with that set, the      *)
(* second Dial may come or not.                                            *)
Fallback == dial = 1 /\ config.work /\ config.password # "" /\ client.tried = {"none", "publickey"}

DialAgain ==
  /\ dial' = 2 /\ work' = "dialing"
  /\ open' = TRUE /\ c2s' = <<>> /\ s2c' = <<>>
  /\ client' = NewClient /\ server' = NewServer /\ banners' = 0
  /\ UNCHANGED <<config, srv, authorised>>

Return ==
  /\ work' = IF client.pc = "ok" THEN "session" ELSE "error"
  /\ UNCHANGED <<config, srv, authorised, open, c2s, s2c, client, server, banners, dial>>

\* mutant: any error of the first Dial leads to the second
WorkRetries ==
  /\ work = "dialing" /\ ClientOver
  /\ \/ client.pc # "ok" /\ dial = 1 /\ config.work /\ DialAgain
     \/ Return

Work ==
  /\ work = "dialing" /\ ClientOver
  /\ \/ client.pc = "nomethod" /\ Fallback /\ DialAgain
     \/ Return

Client == ClientStart \/ ClientReads \/ ClientReadFails
Server == ServerReads \/ ServerReadFails
Ended == work # "dialing" /\ UNCHANGED authVars

AuthNext == Client \/ Server \/ SendBanner \/ Revoke \/ Break \/ Work \/ Ended

(* Both ends run their loops in goroutines of their own.  Nothing makes a  *)
(* banner come, a key vanish or the connection break.  Behaviours are      *)
(* finite, so one condition is enough.                                     *)
AuthProgress == Client \/ Server \/ Work

AuthSpec == AuthInit /\ [][AuthNext]_authVars

-----------------------------------------------------------------------------
(* Types, and the bound the code puts on the server's cache.               *)
AuthTypeOK ==
  /\ client.pc \in {"start", "accept", "response", "ack", "signed", "info", "ok", "nomethod", "error"}
  /\ server.pc \in {"service", "loop", "challenge", "accepted", "error"}
  /\ client.method \in Methods \cup {"none"} /\ client.tried \subseteq Methods \cup {"none"}
  /\ Len(server.cache) <= MaxCachedKeys
  /\ dial \in {1, 2} /\ work \in {"dialing", "session", "error"}

(* What entitles a user to log in by a method, stated without the code: a  *)
(* certificate is good from its first second up to its last, excluded.     *)
GoodKey(k, plain) ==
  /\ k.algo \in srv.algos
  /\ k.source.kind \in {"", "ip", "cidr"}
  /\ k.source.kind = "ip" => Addr.tcp /\ Addr.ip = k.source.ip
  /\ k.source.kind = "cidr" => Addr.tcp /\ Addr.ip \in k.source.ips
  /\ IF k.cert
     THEN /\ k.type = "user" /\ k.signer \in srv.checker.authorities /\ k.serial \notin srv.checker.revoked
          /\ Verify(k.signer, bytesForSigning(k), k.sig)
          /\ k.after <= Now /\ (Now < k.before \/ k.before = CertTimeInfinity)
          /\ k.principals = {} \/ UserName \in k.principals
          /\ k.options \subseteq srv.checker.supported \cup {"source-address"}
     ELSE k.id \in plain

(* Two good keys the server does not take: a certificate that ends beyond  *)
(* the range of int64 but not never, and one restricted to a literal IPv4  *)
(* address, which is compared in its 16-byte form.                         *)
SureKey(k, plain) ==
  /\ GoodKey(k, plain)
  /\ k.cert => k.before < Half \/ k.before = CertTimeInfinity
  /\ k.source.kind = "ip" => Addr.bytes = 16

Entitled(method, keys) ==
  \/ method = "none" /\ srv.none
  \/ method = "publickey" /\ method \in srv.on /\ keys # {}
  \/ method \in {"password", "keyboard-interactive"} /\ method \in srv.on /\ config.password = srv.secret

GoodKeys == {i \in DOMAIN config.signers : GoodKey(config.signers[i], srv.keys)}
SureKeys == {i \in DOMAIN config.signers : SureKey(config.signers[i], authorised)}

(* Dial succeeds only when the server has accepted the user, and it has    *)
(* accepted them by a method that entitles them to (serverAuthenticate,    *)
(* CheckCert, handleAuthResponse).                                         *)
AuthAgrees ==
  client.pc = "ok" => server.pc = "accepted" /\ Entitled(server.method, GoodKeys)

(* When the client says that no supported methods remain, none of the      *)
(* methods it was configured with would have let the user in               *)
(* (clientAuthenticate's search with tried and lastMethods).               *)
NoWayLeft ==
  client.pc = "nomethod" => \A i \in DOMAIN Auth : ~Entitled(Auth[i], SureKeys)

(* The server answers a query and the signed request that follows it with  *)
(* the same verdict, whatever the administrator does in between: a client  *)
(* that gives up holds no key with a favourable verdict in the cache.      *)
VerdictStands ==
  client.pc = "nomethod" => \A i \in DOMAIN server.cache : server.cache[i].result # "ok"

(* Request and answer alternate: never two packets under way but for       *)
(* banners, so that an answer is never taken for that of another request.  *)
OneOutstanding ==
  /\ Len(c2s) <= 1
  /\ \A i, j \in DOMAIN s2c : s2c[i].t # "banner" /\ s2c[j].t # "banner" => i = j
  /\ c2s # <<>> => \A i \in DOMAIN s2c : s2c[i].t = "banner"

(* The user is let in only if both ends agree that they may be, the client *)
(* gives up only if no method would do, the server keeps to its answer     *)
(* about a key, and one packet is under way at most (clientAuthenticate,   *)
(* serverAuthenticate).                                                    *)
AuthSound == AuthTypeOK /\ AuthAgrees /\ NoWayLeft /\ VerdictStands /\ OneOutstanding

(* The second Dial of Task.Work never succeeds: the error it waits for is  *)
(* one of a server that does not take passwords.                           *)
FallbackNeverHelps == dial = 2 => client.pc # "ok"

(* Whatever fails, Dial returns and so does NewServerConn.                 *)
Finished == work # "dialing" /\ server.pc \in {"accepted", "error"}

=============================================================================
