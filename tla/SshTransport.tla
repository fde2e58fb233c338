---------------------------- MODULE SshTransport ----------------------------
(***************************************************************************)
(* The transport of golang.org/x/crypto/ssh: packets with a key and a      *)
(* sequence number for each direction (transport.go), and the key changes  *)
(* that run over it at the start and again and again (handshake.go), with  *)
(* the goroutine readLoop, the callers of writePacket, and a reader of     *)
(* incoming that may have to write before it reads on, as a mux does.      *)
(***************************************************************************)
EXTENDS SshKex

CONSTANTS
  Configs,         \* [client, server: algorithm lists, secrets: exponents they may draw,
                   \*  known: the host key is accepted, writes: packets each application writes,
                   \*  echo: the ends that answer from their read loop, breaks: the connection may fail]
  RekeyThreshold,  \* in packets
  IncomingSize,    \* capacity of incoming (16)
  SeqNums          \* 2^32

VARIABLES
  cfg,
  up,      \* the connection is neither closed nor broken
  wire,    \* packets on the way to each end
  t        \* the handshakeTransport and transport of each end, and its users

vars == <<cfg, up, wire, t>>

Ends == {"client", "server"}
Peer(e) == IF e = "client" THEN "server" ELSE "client"
Clear == [alg |-> None]   \* the key of noneCipher
NoPacket == [t |-> None]
Writers == {"app", "loop"}

New == [
  wkey |-> Clear, rkey |-> Clear, wseq |-> 0, rseq |-> 0, wnext |-> <<>>, rnext |-> <<>>,
  sid |-> <<>>, init |-> NoPacket, kexes |-> 0, written |-> 0, readSince |-> 0, werr |-> FALSE,
  incoming |-> <<>>, loop |-> "read", held |-> NoPacket, kex |-> NoPacket,
  app |-> "start", wrote |-> 0, got |-> <<>>, waits |-> [w \in Writers |-> FALSE]]

Init ==
  /\ cfg \in Configs
  /\ up = TRUE /\ wire = [e \in Ends |-> <<>>] /\ t = [e \in Ends |-> New]

-----------------------------------------------------------------------------
\* mutant: the new key is used before the packet that announces it is out
PutEarly(st, body) ==
  LET key == IF body.t = "newkeys" THEN Head(st.s.wnext) ELSE st.s.wkey
  IN [st EXCEPT !.s.wseq = (@ + 1) % SeqNums, !.s.wkey = key,
                !.s.wnext = IF body.t = "newkeys" THEN Tail(@) ELSE @,
                !.out = Append(@, [b |-> body, key |-> key, seq |-> st.s.wseq])]

(* connectionState.writePacket.  A step of an end is [s, in, out]: its     *)
(* state, what is left to read, what it has written.                       *)
Put(st, body) ==
  [st EXCEPT !.s.wseq = (@ + 1) % SeqNums,
             !.s.wkey = IF body.t = "newkeys" THEN Head(st.s.wnext) ELSE @,
             !.s.wnext = IF body.t = "newkeys" THEN Tail(@) ELSE @,
             !.out = Append(@, [b |-> body, key |-> st.s.wkey, seq |-> st.s.wseq])]

(* connectionState.readPacket: the packet is authentic under key and       *)
(* number, and a newkeys packet finds a key prepared.                      *)
Authentic(s, p) == p.key = s.rkey /\ p.seq = s.rseq /\ (p.b.t = "newkeys" => s.rnext # <<>>)

Got(s, p) == [s EXCEPT !.rseq = (@ + 1) % SeqNums,
                       !.rkey = IF p.b.t = "newkeys" THEN Head(s.rnext) ELSE @,
                       !.rnext = IF p.b.t = "newkeys" THEN Tail(@) ELSE @]

Offer(e, n) ==
  LET c == cfg[e]
  IN [t |-> "kexinit", cookie |-> <<e, n>>, kex |-> c.kex, hostKey |-> c.hostKey,
      cipherCS |-> c.ciphers, cipherSC |-> c.ciphers, macCS |-> c.macs, macSC |-> c.macs]

(* sendKexInitLocked: at most one is pending.                              *)
sendKexInit(e, st) ==
  IF st.s.init # NoPacket THEN st
  ELSE Put([st EXCEPT !.s.init = Offer(e, st.s.kexes)], Offer(e, st.s.kexes))

Do(e, step) == \E st \in {step} :
  /\ t' = [t EXCEPT ![e] = st.s]
  /\ wire' = [wire EXCEPT ![e] = st.in, ![Peer(e)] = @ \o st.out]

Step(e) == [s |-> t[e], in |-> wire[e], out |-> <<>>]

(* readLoop ends: incoming is closed, writers fail.                        *)
Dead(s) == [s EXCEPT !.loop = "dead", !.werr = TRUE]

(* A key exchange fails: the connection is dropped, no kexInit is pending. *)
Drop(e, st) == Do(e, [st EXCEPT !.s = Dead([@ EXCEPT !.init = NoPacket])]) /\ up' = FALSE

-----------------------------------------------------------------------------
(* readLoop: ask for a key change when enough has been read, then read.    *)
ReadAsks(e) ==
  /\ t[e].loop = "read" /\ t[e].readSince > RekeyThreshold /\ t[e].init = NoPacket
  /\ Do(e, sendKexInit(e, Step(e)))
  /\ UNCHANGED <<cfg, up>>

Ready(e) == t[e].loop = "read" /\ ~(t[e].readSince > RekeyThreshold /\ t[e].init = NoPacket)

Magics(e, mine, other) == IF e = "client" THEN <<mine, other>> ELSE <<other, mine>>

(* enterKeyExchange up to the point where it waits for the other's value.  *)
enterKeyExchange(e, st, other) ==
  \E st1 \in {sendKexInit(e, st)} : \E m \in {Magics(e, st1.s.init, other)} :
  \E algs \in {findAgreedAlgorithms(m[1], m[2])} :
    IF ~Agreed(algs) THEN Drop(e, st1)
    ELSE /\ \E x \in cfg.secrets :
              \E st2 \in {[st1 EXCEPT !.s.loop = "reply", !.s.kex = [algs |-> algs, x |-> x, magics |-> m]]} :
                Do(e, IF e = "client" THEN Put(st2, [t |-> "kex", X |-> KexInit(algs.kex, x)]) ELSE st2)
         /\ UNCHANGED up

(* prepareKeyChange and generateKeys: the tags of a key name its sender.   *)
prepareKeyChange(e, s, r) ==
  LET sid == IF s.sid = <<>> THEN r.H ELSE s.sid
      key(dir, alg) == [K |-> r.K, H |-> r.H, sid |-> sid, dir |-> dir, alg |-> alg]
  IN [s EXCEPT !.sid = sid, !.rnext = <<key(Peer(e), s.kex.algs.r)>>, !.wnext = <<key(e, s.kex.algs.w)>>]

(* The rest of kex.Client or kex.Server, the host key check of client, and *)
(* the newkeys packet.                                                     *)
finishKex(e, st, p) ==
  \E k \in {st.s.kex} :
  \E r \in {IF e = "client" THEN KexClient(k.algs.kex, k.x, p, k.magics)
           ELSE KexServer(k.algs.kex, k.x, p, k.magics, k.algs.hostKey)} :
    IF r.K = NoSecret \/ (e = "client" /\ (r.sig # Sign(r.hostKey, r.H) \/ ~cfg.known)) THEN Drop(e, st)
    ELSE /\ \E st1 \in {IF e = "client" THEN st
                         ELSE Put(st, [t |-> "kex", Y |-> r.Y, hostKey |-> r.hostKey, sig |-> r.sig])} :
              Do(e, [Put([st1 EXCEPT !.s = prepareKeyChange(e, @, r)], [t |-> "newkeys"]) EXCEPT !.s.loop = "newkeys"])
         /\ UNCHANGED up

\* mutant: the kexInit stays pending
ChangedPending(s) == [s EXCEPT !.kexes = @ + 1, !.written = 0, !.readSince = 0,
                               !.loop = "push", !.held = [t |-> "newkeys"]]

(* The end of readOnePacket after a key exchange: writers go on.           *)
Changed(s) == [s EXCEPT !.init = NoPacket, !.kexes = @ + 1, !.written = 0, !.readSince = 0,
                        !.loop = "push", !.held = [t |-> "newkeys"]]

ReadError(e) ==
  IF t[e].loop = "read" THEN t' = [t EXCEPT ![e] = Dead(@)] /\ UNCHANGED <<up, wire>>
  ELSE Drop(e, Step(e))

(* readOnePacket; the loop is in it, or in enterKeyExchange.               *)
ReadPacket(e) ==
  /\ Ready(e) \/ t[e].loop \in {"reply", "newkeys"}
  /\ wire[e] # <<>>
  /\ \E p \in {Head(wire[e])} : \E st \in {[s |-> Got(t[e], p), in |-> Tail(wire[e]), out |-> <<>>]} :
        CASE ~Authentic(t[e], p) -> ReadError(e)
          [] Authentic(t[e], p) /\ t[e].loop = "read" ->
               IF p.b.t = "kexinit" THEN enterKeyExchange(e, st, p.b)
               ELSE /\ Do(e, [st EXCEPT !.s.loop = "push", !.s.held = p.b, !.s.readSince = @ + 1])
                    /\ UNCHANGED up
          [] Authentic(t[e], p) /\ t[e].loop = "reply" ->
               IF p.b.t = "kex" THEN finishKex(e, st, p.b) ELSE Drop(e, st)
          [] Authentic(t[e], p) /\ t[e].loop = "newkeys" ->
               IF p.b.t = "newkeys" THEN Do(e, [st EXCEPT !.s = Changed(@)]) /\ UNCHANGED up
               ELSE Drop(e, st)
  /\ UNCHANGED cfg

(* readLoop: t.incoming <- p.                                              *)
Push(e) ==
  /\ t[e].loop = "push" /\ Len(t[e].incoming) < IncomingSize
  /\ t' = [t EXCEPT ![e].incoming = Append(@, t[e].held), ![e].held = NoPacket, ![e].loop = "read"]
  /\ UNCHANGED <<cfg, up, wire>>

(* What a broken connection still delivers is open.                        *)
ReadFails(e) ==
  /\ ~up /\ (Ready(e) \/ t[e].loop \in {"reply", "newkeys"})
  /\ ReadError(e) /\ UNCHANGED cfg

-----------------------------------------------------------------------------
(* The users: clientHandshake and serverHandshake start with a key change; *)
(* then packets are written by an application and by the goroutine that    *)
(* reads incoming.  writePacket asks for a key change first, then waits.   *)
Start(e) ==
  /\ t[e].app = "start"
  /\ Do(e, [sendKexInit(e, Step(e)) EXCEPT !.s.app = "handshake"])
  /\ UNCHANGED <<cfg, up>>

writePacket(e, w, st) ==
  LET st1 == IF st.s.written > RekeyThreshold THEN sendKexInit(e, st) ELSE st
  IN Do(e, [st1 EXCEPT !.s.waits[w] = TRUE]) /\ UNCHANGED <<cfg, up>>

(* An application makes no call after one that failed.                     *)
Call(e) ==
  /\ t[e].app = "run" /\ ~t[e].werr /\ ~t[e].waits["app"] /\ t[e].wrote < cfg.writes[e]
  /\ writePacket(e, "app", Step(e))

WriteGoes(e, w) ==
  /\ t[e].waits[w] /\ (t[e].init = NoPacket \/ t[e].werr)
  /\ LET st == [Step(e) EXCEPT !.s.waits[w] = FALSE]
     IN IF t[e].werr THEN Do(e, st)
        ELSE Do(e, Put([st EXCEPT !.s.written = @ + 1, !.s.wrote = @ + 1],
                       [t |-> "data", n |-> t[e].wrote + 1, reply |-> w = "loop"]))
  /\ UNCHANGED <<cfg, up>>

(* readPacket of the user; an answer is due to a packet that is not one.   *)
Receive(e) ==
  /\ t[e].app \in {"handshake", "run"} /\ ~t[e].waits["loop"] /\ t[e].incoming # <<>>
  /\ LET p == Head(t[e].incoming)
         s == [t[e] EXCEPT !.incoming = Tail(@)]
     IN IF t[e].app = "handshake"
        THEN /\ Do(e, [Step(e) EXCEPT !.s = [s EXCEPT !.app = IF p.t = "newkeys" THEN "run" ELSE "over"]])
             /\ UNCHANGED <<cfg, up>>
        ELSE IF p.t # "data" THEN Do(e, [Step(e) EXCEPT !.s = s]) /\ UNCHANGED <<cfg, up>>
        ELSE LET st == [Step(e) EXCEPT !.s = [s EXCEPT !.got = Append(@, p.n)]]
             IN IF e \in cfg.echo /\ ~p.reply THEN writePacket(e, "loop", st)
                ELSE Do(e, st) /\ UNCHANGED <<cfg, up>>

Closed(e) ==
  /\ t[e].app \in {"handshake", "run"} /\ t[e].incoming = <<>> /\ t[e].loop = "dead" /\ ~t[e].waits["loop"]
  /\ t' = [t EXCEPT ![e].app = "over"]
  /\ UNCHANGED <<cfg, up, wire>>

Break == cfg.breaks /\ up /\ up' = FALSE /\ UNCHANGED <<cfg, wire, t>>

ReadLoop(e) == ReadAsks(e) \/ ReadPacket(e) \/ Push(e) \/ ReadFails(e)
User(e) == Start(e) \/ Receive(e) \/ Closed(e) \/ \E w \in Writers : WriteGoes(e, w)

Next == Break \/ \E e \in Ends : ReadLoop(e) \/ User(e) \/ Call(e)

Progress == \E e \in Ends : ReadLoop(e) \/ User(e)

(* The goroutines of both ends run; nothing forces an application to call. *)
(* Behaviours are finite, so one condition for all of them is enough.      *)
Spec == Init /\ [][Next]_vars /\ WF_vars(Progress)

-----------------------------------------------------------------------------
TypeOK ==
  \A e \in Ends :
    /\ t[e].loop \in {"read", "push", "reply", "newkeys", "dead"}
    /\ t[e].app \in {"start", "handshake", "run", "over"}
    /\ Len(t[e].incoming) <= IncomingSize /\ Len(t[e].wnext) <= 1 /\ Len(t[e].rnext) <= 1
    /\ t[e].wseq \in 0..(SeqNums - 1) /\ t[e].rseq \in 0..(SeqNums - 1)

(* The next packet is always one the reader can authenticate, and when     *)
(* none is on the way the reader holds the writer's key, secret and        *)
(* sequence number: the ends stay in step over every key change, whoever   *)
(* starts it (connectionState, prepareKeyChange, enterKeyExchange).        *)
KeysInStep ==
  \A e \in Ends :
    LET w == t[Peer(e)]
    IN t[e].loop # "dead" /\ w.loop # "dead" =>
         IF wire[e] # <<>> THEN Authentic(t[e], Head(wire[e]))
         ELSE t[e].rkey = w.wkey /\ t[e].rseq = w.wseq

(* No key exchange fails but for a reason: no common algorithm, a host key *)
(* that is not accepted, a connection that broke.  In particular no data   *)
(* arrives where a key exchange packet is expected.                        *)
KexClean ==
  LET a == findAgreedAlgorithms(Offer("client", 0), Offer("server", 0))
  IN Agreed(a) /\ cfg.known /\ ~cfg.breaks => up

(* Both ends name the session by the same exchange, the first one, and no  *)
(* data is sent in clear or under the keys of another session.             *)
OneSession ==
  /\ t["client"].sid # <<>> /\ t["server"].sid # <<>> => t["client"].sid = t["server"].sid
  /\ \A e \in Ends : \A i \in DOMAIN wire[e] :
       wire[e][i].b.t = "data" => wire[e][i].key # Clear /\ wire[e][i].key.sid = t[e].sid

(* The session ID never changes once it is set.                            *)
SessionStep == \A e \in Ends : t[e].sid # <<>> => t'[e].sid = t[e].sid

(* What an application reads is what the other end wrote, in order.        *)
DataInOrder ==
  \A e \in Ends : \A i \in DOMAIN t[e].got : t[e].got[i] = i

(* A key change that was asked for ends, with new keys or a dead           *)
(* connection, and every writer it holds up returns.                       *)
Released == \A e \in Ends : (t[e].init = NoPacket \/ t[e].werr) /\ \A w \in Writers : ~t[e].waits[w]
WritesReleased == []<>Released

=============================================================================
