------------------------------- MODULE SshMux -------------------------------
(***************************************************************************)
(* The connection protocol of golang.org/x/crypto/ssh (mux.go, channel.go, *)
(* buffer.go and window in common.go): two muxes over one connection, the  *)
(* channels of each with their flow-control windows, and the goroutines of *)
(* the applications that open, accept, write, read, ask and close.         *)
(*                                                                         *)
(* The loop of a mux is one step per packet (onePacket); a write on the    *)
(* connection does not block (SshTransport models where it does).  A       *)
(* channel object is an index of obj; bytes are numbered per stream.       *)
(***************************************************************************)
EXTENDS Naturals, Sequences, FiniteSets, SequencesExt, FiniteSetsExt, Functions, TLC

CONSTANTS
  Scenarios,    \* bounds of a behaviour: [opens, writers, bytes, streams, requests, globals, breaks]
  Window,       \* channelWindowSize
  MaxPacket,    \* channelMaxPacket
  QueueSize,    \* capacity of the Go channels (16)
  MaxUint32     \* largest window

VARIABLES
  bounds,    \* the scenario
  net,       \* packets on the way to each end
  lost,      \* the connection is broken
  closed,    \* conn.Close has been called at this end
  loop,      \* "run", "failed", "dropped" or "over"
  fault,     \* why onePacket failed on a packet, or ""
  chans,     \* chanList.chans: object, or 0 for nil
  incoming,  \* incomingChannels
  obj,       \* all channel objects made so far
  asking,    \* channel requests: who waits, on which object
  global     \* global requests of each end

vars == <<bounds, net, lost, closed, loop, fault, chans, incoming, obj, asking, global>>

Ends == {"client", "server"}
Peer(e) == IF e = "client" THEN "server" ELSE "client"
Goroutines == {1, 2}   \* that send requests on a channel of the client

newChannel(e, inbound, local, remote, win) ==
  [end |-> e, inbound |-> inbound, local |-> local, remote |-> remote,
   decided |-> FALSE, opening |-> ~inbound, open |-> FALSE, peer |-> 0,
   remoteWin |-> win, winClosed |-> FALSE, myWindow |-> Window,
   maxIncoming |-> IF inbound THEN 0 ELSE MaxPacket, maxRemote |-> IF inbound THEN MaxPacket ELSE 0,
   pending |-> [s \in 0..2 |-> <<>>], eof |-> FALSE,
   msg |-> <<>>, requests |-> <<>>, down |-> FALSE,
   sentEOF |-> FALSE, sentClose |-> FALSE,
   sent |-> [s \in 0..2 |-> 0], writing |-> <<>>,
   got |-> [s \in 0..2 |-> 0], atEOF |-> [s \in 0..2 |-> FALSE],
   owed |-> 0, dropped |-> 0, asked |-> 0]

Init ==
  /\ bounds \in Scenarios
  /\ net = [e \in Ends |-> <<>>] /\ lost = FALSE /\ closed = [e \in Ends |-> FALSE]
  /\ loop = [e \in Ends |-> "run"] /\ fault = ""
  /\ chans = [e \in Ends |-> <<>>] /\ incoming = [e \in Ends |-> <<>>]
  /\ obj = <<>> /\ asking = [g \in Goroutines |-> [on |-> 0, id |-> 0]]
  /\ global = [e \in Ends |-> [wait |-> FALSE, sent |-> 0, responses |-> <<>>, requests |-> <<>>]]

-----------------------------------------------------------------------------
(* chanList: the slot of a new channel is the first free one.              *)
FreeSlot(e) ==
  LET free == {i \in DOMAIN chans[e] : chans[e][i] = 0}
  IN IF free = {} THEN Len(chans[e]) + 1 ELSE CHOOSE i \in free : \A j \in free : i <= j

add(e, o) ==
  IF FreeSlot(e) > Len(chans[e]) THEN [chans EXCEPT ![e] = Append(@, o)]
  ELSE [chans EXCEPT ![e][FreeSlot(e)] = o]

getChan(e, id) == IF id \in DOMAIN chans[e] THEN chans[e][id] ELSE 0

remove(e, id) == IF id \in DOMAIN chans[e] THEN [chans EXCEPT ![e][id] = 0] ELSE chans

(* conn.writePacket: fails once this end is closed; what is sent to an end *)
(* that is closed goes nowhere.                                            *)
Sent(e, n, p) == IF closed[Peer(e)] \/ closed[e] THEN n ELSE [n EXCEPT ![Peer(e)] = Append(@, p)]

(* channel.writePacket gives io.EOF once the close message is out.         *)
CanWrite(o) == ~obj[o].sentClose /\ ~closed[obj[o].end]

(* The packet of sendMessage: addressed to the peer's number of the        *)
(* channel; from names the object, which no code reads.                    *)
Msg(o, t, n) == [t |-> t, to |-> obj[o].remote, n |-> n, from |-> o]

Write(o, p) == net' = IF CanWrite(o) THEN Sent(obj[o].end, net, p) ELSE net

(* channel.close: readers, writers and callers that wait are woken.        *)
Shut(c) == [c EXCEPT !.eof = TRUE, !.down = TRUE, !.sentClose = TRUE, !.winClosed = TRUE]

-----------------------------------------------------------------------------
(* The loop: one packet.                                                   *)
Die(e, why) ==
  /\ loop' = [loop EXCEPT ![e] = "failed"] /\ fault' = why
  /\ UNCHANGED <<chans, incoming, obj, global>>

Live == UNCHANGED <<loop, fault>>
Took(e) == [net EXCEPT ![e] = Tail(@)]

handleChannelOpen(e, p) ==
  /\ Len(incoming[e]) < QueueSize
  /\ LET o == Len(obj) + 1
     IN /\ obj' = Append(obj, [newChannel(e, TRUE, FreeSlot(e), p.to, p.n) EXCEPT !.peer = p.from])
        /\ chans' = add(e, o)
        /\ incoming' = [incoming EXCEPT ![e] = Append(@, o)]
  /\ net' = Took(e) /\ Live /\ UNCHANGED global

handleGlobalPacket(e, p) ==
  /\ IF p.t = "global"
     THEN /\ Len(global[e].requests) < QueueSize
          /\ global' = [global EXCEPT ![e].requests = Append(@, p.n)]
     ELSE /\ Len(global[e].responses) < 1
          /\ global' = [global EXCEPT ![e].responses = Append(@, p.n)]
  /\ net' = Took(e) /\ Live /\ UNCHANGED <<chans, incoming, obj>>

handleData(e, o, p) ==
  IF p.n = 0 THEN Live /\ UNCHANGED <<chans, incoming, obj, global>>
  ELSE IF p.n > obj[o].maxIncoming \/ p.n > obj[o].myWindow THEN Die(e, "data")
  ELSE /\ obj' = [obj EXCEPT ![o].myWindow = @ - p.n,
                             ![o].pending[p.s] = IF p.s < 2 THEN @ \o p.bytes ELSE @,
                             ![o].dropped = IF p.s < 2 THEN @ ELSE @ + p.n]
       /\ Live /\ UNCHANGED <<chans, incoming, global>>

responseMessageReceived(o) == ~obj[o].inbound /\ ~obj[o].decided

Response(e, o, p) ==
  IF ~responseMessageReceived(o) THEN Die(e, "response")
  ELSE /\ chans' = IF p.t = "failure" THEN remove(e, p.to) ELSE chans
       /\ obj' = [obj EXCEPT ![o].decided = TRUE, ![o].msg = Append(@, p),
                             ![o].remote = IF p.t = "confirm" THEN p.id ELSE @,
                             ![o].maxRemote = IF p.t = "confirm" THEN MaxPacket ELSE @,
                             ![o].remoteWin = IF p.t = "confirm" THEN @ + p.n ELSE @,
                             ![o].peer = p.from]
       /\ Live /\ UNCHANGED <<incoming, global>>

handleClose(e, o) ==
  /\ chans' = remove(e, obj[o].local)
  /\ obj' = [obj EXCEPT ![o] = Shut(@)]
  /\ Live /\ UNCHANGED <<incoming, global>>

handlePacket(e, o, p) ==
  /\ CASE p.t = "data" -> handleData(e, o, p)
       [] p.t = "close" -> handleClose(e, o)
       [] p.t = "eof" -> obj' = [obj EXCEPT ![o].eof = TRUE] /\ Live /\ UNCHANGED <<chans, incoming, global>>
       [] p.t \in {"confirm", "failure"} -> Len(obj[o].msg) < QueueSize /\ Response(e, o, p)
       [] p.t = "adjust" -> IF obj[o].remoteWin + p.n > MaxUint32 THEN Die(e, "window")
                            ELSE /\ obj' = [obj EXCEPT ![o].remoteWin = @ + p.n]
                                 /\ Live /\ UNCHANGED <<chans, incoming, global>>
       [] p.t = "request" -> /\ Len(obj[o].requests) < QueueSize
                             /\ obj' = [obj EXCEPT ![o].requests = Append(@, p)]
                             /\ Live /\ UNCHANGED <<chans, incoming, global>>
       [] p.t = "reply" -> /\ Len(obj[o].msg) < QueueSize
                           /\ obj' = [obj EXCEPT ![o].msg = Append(@, p)]
                           /\ Live /\ UNCHANGED <<chans, incoming, global>>
  /\ net' = IF p.t = "close" /\ CanWrite(o) THEN Sent(e, Took(e), Msg(o, "close", 0)) ELSE Took(e)

OnePacket(e) ==
  /\ loop[e] = "run" /\ net[e] # <<>> /\ ~lost /\ ~closed[e]
  /\ \E p \in {Head(net[e])} : \E o \in {getChan(e, p.to)} :
        CASE p.t = "open" -> handleChannelOpen(e, p)
          [] p.t \in {"global", "answer"} -> handleGlobalPacket(e, p)
          [] p.t \notin {"open", "global", "answer"} /\ o = 0 -> Die(e, "channel") /\ net' = Took(e)
          [] p.t \notin {"open", "global", "answer"} /\ o # 0 -> handlePacket(e, o, p)
  /\ UNCHANGED <<bounds, lost, closed, asking>>

(* loop after an error: first every channel goes down, then the rest.      *)
DropAll(e) ==
  /\ \/ loop[e] = "failed"
     \/ loop[e] = "run" /\ (lost \/ closed[e] \/ (closed[Peer(e)] /\ net[e] = <<>>))
  /\ loop' = [loop EXCEPT ![e] = "dropped"]
  /\ obj' = [o \in DOMAIN obj |-> IF o \in Range(chans[e]) THEN Shut(obj[o]) ELSE obj[o]]
  /\ chans' = [chans EXCEPT ![e] = <<>>]
  /\ UNCHANGED <<bounds, net, lost, closed, fault, incoming, asking, global>>

LoopEnds(e) ==
  /\ loop[e] = "dropped"
  /\ loop' = [loop EXCEPT ![e] = "over"] /\ closed' = [closed EXCEPT ![e] = TRUE]
  /\ UNCHANGED <<bounds, net, lost, fault, chans, incoming, obj, asking, global>>

-----------------------------------------------------------------------------
(* The applications.  openChannel sends the request and waits on msg.      *)
OpenChannel(e) ==
  /\ Cardinality({o \in DOMAIN obj : ~obj[o].inbound}) < bounds.opens
  /\ LET o == Len(obj) + 1
         c == newChannel(e, FALSE, FreeSlot(e), 0, 0)
     IN /\ obj' = Append(obj, [c EXCEPT !.opening = ~closed[e]])
        /\ chans' = add(e, o)
        /\ net' = Sent(e, net, [t |-> "open", to |-> c.local, n |-> Window, from |-> o])
  /\ UNCHANGED <<bounds, lost, closed, loop, fault, incoming, asking, global>>

OpenReturns(o) ==
  /\ obj[o].opening /\ (obj[o].msg # <<>> \/ obj[o].down)
  /\ obj' = [obj EXCEPT ![o].opening = FALSE,
                        ![o].open = obj[o].msg # <<>> /\ Head(obj[o].msg).t = "confirm",
                        ![o].msg = IF @ = <<>> THEN @ ELSE Tail(@)]
  /\ UNCHANGED <<bounds, net, lost, closed, loop, fault, chans, incoming, asking, global>>

\* mutant: Accept does not confirm the channel
DecideSilently(e, o, accept) ==
  /\ incoming[e] # <<>> /\ o = Head(incoming[e])
  /\ incoming' = [incoming EXCEPT ![e] = Tail(@)]
  /\ obj' = [obj EXCEPT ![o].decided = TRUE, ![o].open = accept /\ CanWrite(o),
                        ![o].maxIncoming = IF accept THEN MaxPacket ELSE @]
  /\ IF accept THEN UNCHANGED net ELSE Write(o, Msg(o, "failure", 0))
  /\ UNCHANGED <<bounds, lost, closed, loop, fault, chans, asking, global>>

Decide(e, o, accept) ==
  /\ incoming[e] # <<>> /\ o = Head(incoming[e])
  /\ incoming' = [incoming EXCEPT ![e] = Tail(@)]
  /\ obj' = [obj EXCEPT ![o].decided = TRUE, ![o].open = accept /\ CanWrite(o),
                        ![o].maxIncoming = IF accept THEN MaxPacket ELSE @]
  /\ Write(o, IF accept THEN [t |-> "confirm", to |-> obj[o].remote, id |-> obj[o].local,
                              n |-> obj[o].myWindow, from |-> o]
              ELSE Msg(o, "failure", 0))
  /\ UNCHANGED <<bounds, lost, closed, loop, fault, chans, asking, global>>

Only(c) == obj' = c /\ UNCHANGED <<bounds, lost, closed, loop, fault, chans, incoming, asking, global>>

Total(f) == FoldFunction(LAMBDA a, b : a + b, 0, f)

(* WriteExtended: reserve what the window has, send it, go on.  A call on  *)
(* a channel that is down changes nothing and is left out.                 *)
WriteCall(o) ==
  /\ obj[o].open /\ obj[o].end \in bounds.writers /\ ~obj[o].sentEOF /\ obj[o].writing = <<>>
  /\ ~obj[o].down
  /\ \E s \in bounds.streams, n \in 1..(bounds.bytes - Total(obj[o].sent)) :
       Only([obj EXCEPT ![o].writing = <<[s |-> s, left |-> n, have |-> 0]>>])
  /\ UNCHANGED net

reserve(o) ==
  /\ obj[o].writing # <<>> /\ obj[o].writing[1].have = 0
  /\ obj[o].remoteWin > 0 \/ obj[o].winClosed
  /\ LET n == Min({obj[o].maxRemote, obj[o].writing[1].left, obj[o].remoteWin})
     IN IF obj[o].winClosed THEN Only([obj EXCEPT ![o].writing = <<>>])
        ELSE Only([obj EXCEPT ![o].remoteWin = @ - n, ![o].writing[1].have = n])
  /\ UNCHANGED net

WriteData(o) ==
  /\ obj[o].writing # <<>> /\ obj[o].writing[1].have > 0
  /\ LET w == obj[o].writing[1]
         first == obj[o].sent[w.s]
     IN IF ~CanWrite(o) THEN Only([obj EXCEPT ![o].writing = <<>>]) /\ UNCHANGED net
        ELSE /\ Write(o, Msg(o, "data", w.have)
                         @@ [s |-> w.s, bytes |-> [i \in 1..w.have |-> first + i]])
             /\ Only([obj EXCEPT ![o].sent[w.s] = @ + w.have,
                        ![o].writing = IF w.left = w.have THEN <<>>
                                       ELSE <<[w EXCEPT !.left = @ - w.have, !.have = 0]>>])

(* ReadExtended: what is there, or io.EOF; the window is given back.       *)
Read(o, s) ==
  /\ obj[o].open /\ obj[o].owed = 0 /\ ~obj[o].atEOF[s]
  /\ LET b == obj[o].pending[s]
     IN IF b = <<>> THEN obj[o].eof /\ Only([obj EXCEPT ![o].atEOF[s] = TRUE])
        ELSE \E n \in {1, Len(b)} :
               Only([obj EXCEPT ![o].pending[s] = SubSeq(@, n + 1, Len(@)), ![o].got[s] = @ + n,
                                ![o].myWindow = @ + n, ![o].owed = n])
  /\ UNCHANGED net

\* mutant: credit is returned only when the buffer is drained
adjustWindowLazy(o) ==
  /\ obj[o].owed > 0
  /\ IF obj[o].pending[0] = <<>> THEN Write(o, Msg(o, "adjust", obj[o].owed)) ELSE UNCHANGED net
  /\ Only([obj EXCEPT ![o].owed = 0])

adjustWindow(o) ==
  /\ obj[o].owed > 0
  /\ Write(o, Msg(o, "adjust", obj[o].owed))
  /\ Only([obj EXCEPT ![o].owed = 0])

CloseWrite(o) ==
  /\ obj[o].open /\ obj[o].end \in bounds.writers /\ ~obj[o].sentEOF /\ obj[o].writing = <<>>
  /\ Write(o, Msg(o, "eof", 0))
  /\ Only([obj EXCEPT ![o].sentEOF = TRUE])

Close(o) ==
  /\ obj[o].open /\ CanWrite(o)
  /\ Write(o, Msg(o, "close", 0))
  /\ Only([obj EXCEPT ![o].sentClose = TRUE])

\* mutant: sentRequestMu is not taken
SendRequestUnlocked(g, o) ==
  /\ asking[g].on = 0 /\ obj[o].open /\ ~obj[o].inbound /\ obj[o].asked < bounds.requests /\ CanWrite(o)
  /\ \E want \in BOOLEAN :
       /\ asking' = IF want THEN [asking EXCEPT ![g] = [on |-> o, id |-> obj[o].asked + 1]] ELSE asking
       /\ Write(o, Msg(o, "request", obj[o].asked + 1) @@ [want |-> want])
  /\ obj' = [obj EXCEPT ![o].asked = @ + 1]
  /\ UNCHANGED <<bounds, lost, closed, loop, fault, chans, incoming, global>>

SendRequest(g, o) ==
  /\ asking[g].on = 0 /\ obj[o].open /\ ~obj[o].inbound /\ obj[o].asked < bounds.requests /\ CanWrite(o)
  /\ \E want \in BOOLEAN :
       /\ want => \A h \in Goroutines : asking[h].on # o
       /\ asking' = IF want THEN [asking EXCEPT ![g] = [on |-> o, id |-> obj[o].asked + 1]] ELSE asking
       /\ Write(o, Msg(o, "request", obj[o].asked + 1) @@ [want |-> want])
  /\ obj' = [obj EXCEPT ![o].asked = @ + 1]
  /\ UNCHANGED <<bounds, lost, closed, loop, fault, chans, incoming, global>>

RequestReturns(g) ==
  LET o == asking[g].on
  IN /\ o # 0 /\ (obj[o].msg # <<>> \/ obj[o].down)
     /\ asking' = [asking EXCEPT ![g].on = 0]
     /\ obj' = [obj EXCEPT ![o].msg = IF @ = <<>> THEN @ ELSE Tail(@)]
     /\ UNCHANGED <<bounds, net, lost, closed, loop, fault, chans, incoming, global>>

(* The application at the other end takes a request and answers it.        *)
Reply(o) ==
  /\ obj[o].open /\ obj[o].requests # <<>>
  /\ LET r == Head(obj[o].requests)
     IN IF r.want THEN Write(o, Msg(o, "reply", r.n)) ELSE UNCHANGED net
  /\ Only([obj EXCEPT ![o].requests = Tail(@)])

Globally(e, g) ==
  /\ global' = [global EXCEPT ![e] = g]
  /\ UNCHANGED <<bounds, lost, closed, loop, fault, chans, incoming, obj, asking>>

GlobalRequest(e) ==
  /\ ~global[e].wait /\ global[e].sent < bounds.globals /\ ~closed[e]
  /\ net' = Sent(e, net, [t |-> "global", to |-> 0, n |-> global[e].sent + 1])
  /\ Globally(e, [global[e] EXCEPT !.wait = TRUE, !.sent = @ + 1])

GlobalReply(e) ==
  /\ global[e].requests # <<>>
  /\ net' = Sent(e, net, [t |-> "answer", to |-> 0, n |-> Head(global[e].requests)])
  /\ Globally(e, [global[e] EXCEPT !.requests = Tail(@)])

GlobalReturns(e) ==
  /\ global[e].wait /\ (global[e].responses # <<>> \/ loop[e] = "over")
  /\ Globally(e, [global[e] EXCEPT !.wait = FALSE,
                    !.responses = IF @ = <<>> THEN @ ELSE Tail(@)])
  /\ UNCHANGED net

(* An application closes the connection, or the network loses it: once in  *)
(* a behaviour.                                                            *)
Hangup(e) ==
  /\ bounds.breaks /\ ~lost /\ \A f \in Ends : ~closed[f]
  /\ closed' = [closed EXCEPT ![e] = TRUE]
  /\ UNCHANGED <<bounds, net, lost, loop, fault, chans, incoming, obj, asking, global>>

Break ==
  /\ bounds.breaks /\ ~lost /\ \A f \in Ends : ~closed[f]
  /\ lost' = TRUE
  /\ UNCHANGED <<bounds, net, closed, loop, fault, chans, incoming, obj, asking, global>>

Loop(e) == OnePacket(e) \/ DropAll(e) \/ LoopEnds(e)

Writer(o) == WriteCall(o) \/ reserve(o) \/ WriteData(o) \/ CloseWrite(o)
Reader(o) == adjustWindow(o) \/ \E s \in {0, 1} : Read(o, s)

Next ==
  \/ \E e \in Ends : Loop(e) \/ GlobalRequest(e) \/ GlobalReply(e) \/ GlobalReturns(e) \/ Hangup(e)
  \/ \E e \in Ends, o \in DOMAIN obj, accept \in BOOLEAN : Decide(e, o, accept)
  \/ OpenChannel("client")
  \/ \E o \in DOMAIN obj : OpenReturns(o) \/ Writer(o) \/ Reader(o) \/ Close(o) \/ Reply(o)
  \/ \E g \in Goroutines : RequestReturns(g) \/ \E o \in DOMAIN obj : SendRequest(g, o)
  \/ Break

(* The loops run, and so do goroutines that read, write or serve requests; *)
(* a call that can return does.  Nothing forces a call to be made.  One    *)
(* condition is enough: every scenario allows finitely many steps.         *)
Progress ==
  \/ \E e \in Ends : Loop(e) \/ GlobalReply(e) \/ GlobalReturns(e)
  \/ \E e \in Ends, o \in DOMAIN obj : Decide(e, o, TRUE)
  \/ \E o \in DOMAIN obj : OpenReturns(o) \/ reserve(o) \/ WriteData(o) \/ Reader(o) \/ Reply(o)
  \/ \E g \in Goroutines : RequestReturns(g)

Spec == Init /\ [][Next]_vars /\ WF_vars(Progress)

-----------------------------------------------------------------------------
(* Types, and the capacity of every Go channel.                            *)
TypeOK ==
  /\ \A e \in Ends : /\ loop[e] \in {"run", "failed", "dropped", "over"} /\ closed[e] \in BOOLEAN
                     /\ Range(chans[e]) \subseteq 0..Len(obj)
                     /\ Len(incoming[e]) <= QueueSize /\ Len(global[e].responses) <= 1
  /\ \A o \in DOMAIN obj : /\ obj[o].myWindow \in 0..Window /\ obj[o].remoteWin \in 0..Window
                           /\ Len(obj[o].msg) <= QueueSize /\ Len(obj[o].requests) <= QueueSize

(* Two ends of this library never run into an error of the protocol: data  *)
(* beyond the window or the packet size, a second answer to an open, a     *)
(* packet for a channel that is gone (handleData, responseMessageReceived, *)
(* onePacket).                                                             *)
ProtocolClean == fault = ""

(* A packet reaches the channel that the sender's channel talks to, though *)
(* the numbers of closed channels are used again (chanList).               *)
RightChannel ==
  \A e \in Ends : loop[e] = "run" /\ net[e] # <<>> /\ Head(net[e]).t \notin {"open", "global", "answer"} =>
    LET o == getChan(e, Head(net[e]).to)
    IN o # 0 /\ (obj[o].peer = Head(net[e]).from \/ (obj[o].peer = 0 /\ ~obj[o].decided))

(* Packets on their way from a channel, and what they carry.               *)
Flying(o, t) == SelectSeq(net[Peer(obj[o].end)], LAMBDA p : p.t = t /\ p.from = o)
Load(o, t) == FoldLeft(LAMBDA n, p : n + p.n, 0, Flying(o, t))
Joined(o, s) == FoldLeft(LAMBDA b, p : IF p.s = s THEN b \o p.bytes ELSE b, <<>>, Flying(o, "data"))

Quiet(o) == ~lost /\ \A e \in Ends : loop[e] = "run" /\ ~closed[e]

(* No credit is lost or made: window, reserved bytes, bytes under way and  *)
(* unread, and credit under way back add up to the initial window, but for *)
(* bytes of streams the receiver discards and never gives back.            *)
WindowConserved ==
  \A o \in DOMAIN obj :
    LET p == obj[o].peer
    IN Quiet(o) /\ (obj[o].inbound \/ obj[o].open) /\ ~obj[o].sentClose /\ ~obj[p].sentClose =>
         Window = obj[o].remoteWin + (IF obj[o].writing = <<>> THEN 0 ELSE obj[o].writing[1].have)
                  + Load(o, "data") + obj[p].dropped + obj[p].owed + Load(p, "adjust")
                  + Len(obj[p].pending[0]) + Len(obj[p].pending[1])

(* What has been read, is buffered and is under way on a stream is what    *)
(* was written, in order (WriteExtended, handleData, buffer).              *)
ByteStream ==
  \A o \in DOMAIN obj : \A s \in {0, 1} :
    LET p == obj[o].peer
    IN Quiet(o) /\ (obj[o].inbound \/ obj[o].open) =>
         [i \in 1..obj[o].sent[s] |-> i] =
           [i \in 1..obj[p].got[s] |-> i] \o obj[p].pending[s] \o Joined(o, s)

(* A reader sees the end of a stream only when it has read all of it.      *)
EofMeansAll ==
  \A o \in DOMAIN obj : \A s \in {0, 1} :
    LET p == obj[o].peer
    IN Quiet(o) /\ obj[o].open /\ obj[p].atEOF[s] => obj[p].got[s] = obj[o].sent[s]

(* The answer a caller of SendRequest takes is the answer to its request.  *)
ReplyMatches ==
  \A g \in Goroutines : LET o == asking[g].on
                        IN o # 0 /\ obj[o].msg # <<>> => Head(obj[o].msg).n = asking[g].id

(* An opener that came between dropAll and the end of the loop: nobody     *)
(* will ever close its channel.                                            *)
Stranded(o) == loop[obj[o].end] \in {"dropped", "over"} /\ o \in Range(chans[obj[o].end])

(* No caller waits for ever, also when the connection goes down: neither   *)
(* for an answer to a request, nor for window, nor for a channel to open,  *)
(* but for stranded openers, and writers whose window was discarded.       *)
CallsOver ==
  /\ \A g \in Goroutines : asking[g].on = 0
  /\ \A e \in Ends : ~global[e].wait
  /\ \A o \in DOMAIN obj : /\ obj[o].opening => Stranded(o)
                           /\ obj[o].writing # <<>> => 2 \in bounds.streams

(* A channel that one side closes is forgotten by both.                    *)
CloseOver == \A o \in DOMAIN obj : obj[o].sentClose => \A e \in Ends : {o, obj[o].peer} \cap Range(chans[e]) = {}

=============================================================================
