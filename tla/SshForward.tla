----------------------------- MODULE SshForward -----------------------------
(***************************************************************************)
(* Connections forwarded by the server to listeners of the client          *)
(* (ssh/tcpip.go) and the goroutines of a Client that route channels the   *)
(* server opens (ssh/client.go).  forwardList has a mutex, which forward   *)
(* holds while it waits for room in a listener's channel.                  *)
(***************************************************************************)
EXTENDS Naturals, Sequences

CONSTANTS
  Listeners,     \* calls of ListenTCP
  AddrOf(_),     \* the address each of them asks for
  Addrs,         \* addresses, and those no one listens on
  MaxOpens,      \* bound: channels the server opens
  MayIgnore      \* listeners whose user may stop calling Accept

VARIABLES
  l,         \* each listener: ask, granted, listening, closing, closed, refused
  entries,   \* forwardList.entries: listeners
  queue,     \* listener -> channels waiting in its Go channel (of size 1)
  shut,      \* Go channels that are closed
  opens,     \* channels opened by the server: [addr, st], in order
  at,        \* the one handleChannels has come to
  holds,     \* it waits for room, holding the mutex
  conn,      \* the connection: up, down, cleared (closeAll has run)
  ignored    \* listeners no longer serviced

fwVars == <<l, entries, queue, shut, opens, at, holds, conn, ignored>>

Init ==
  /\ l = [x \in Listeners |-> "ask"] /\ entries = <<>> /\ queue = [x \in Listeners |-> <<>>] /\ shut = {}
  /\ opens = <<>> /\ at = 1 /\ holds = FALSE /\ conn = "up" /\ ignored \in SUBSET MayIgnore

Free == ~holds

(* ListenTCP: the request and its reply, then forwards.add.                *)
Request(x) ==
  /\ l[x] = "ask"
  /\ \E r \in {"granted", "refused"} :
       /\ conn # "up" => r = "refused"
       /\ l' = [l EXCEPT ![x] = r]
  /\ UNCHANGED <<entries, queue, shut, opens, at, holds, conn, ignored>>

add(x) ==
  /\ l[x] = "granted" /\ Free
  /\ l' = [l EXCEPT ![x] = "listening"] /\ entries' = Append(entries, x)
  /\ UNCHANGED <<queue, shut, opens, at, holds, conn, ignored>>

(* The server opens a channel for an address; anything may be in the       *)
(* payload of a peer that is wrong.                                        *)
ServerOpens(a) ==
  /\ conn = "up" /\ Len(opens) < MaxOpens
  /\ opens' = Append(opens, [addr |-> a, st |-> "waiting", by |-> 0])
  /\ UNCHANGED <<l, entries, queue, shut, at, holds, conn, ignored>>

(* The first entry of an address, if there is one.                         *)
Match(a) == {i \in DOMAIN entries : AddrOf(entries[i]) = a}
First(a) == {i \in Match(a) : \A j \in Match(a) : i <= j}

(* handleChannels and forward: the first listener with the address, or a   *)
(* rejection; a full channel makes it wait.                                *)
Handle ==
  /\ Free /\ at <= Len(opens)
  /\ \/ /\ Match(opens[at].addr) = {}
        /\ opens' = [opens EXCEPT ![at].st = "rejected"] /\ at' = at + 1
        /\ UNCHANGED <<queue, holds>>
     \/ \E i \in First(opens[at].addr) :
          /\ queue[entries[i]] = <<>>
          /\ queue' = [queue EXCEPT ![entries[i]] = <<at>>] /\ at' = at + 1
          /\ UNCHANGED <<opens, holds>>
     \/ \E i \in First(opens[at].addr) :
          queue[entries[i]] # <<>> /\ holds' = TRUE /\ UNCHANGED <<queue, opens, at>>
  /\ UNCHANGED <<l, entries, shut, conn, ignored>>

Room ==
  /\ holds
  /\ \E i \in First(opens[at].addr) :
       queue[entries[i]] = <<>> /\ queue' = [queue EXCEPT ![entries[i]] = <<at>>]
  /\ at' = at + 1 /\ holds' = FALSE
  /\ UNCHANGED <<l, entries, shut, opens, conn, ignored>>

(* Accept: what is in the channel, then the end.                           *)
Accept(x) ==
  /\ l[x] = "listening" \/ (l[x] = "closing" /\ queue[x] # <<>>)
  /\ x \notin ignored
  /\ \/ /\ queue[x] # <<>>
        /\ opens' = [opens EXCEPT ![Head(queue[x])].st = "accepted", ![Head(queue[x])].by = x]
        /\ queue' = [queue EXCEPT ![x] = <<>>] /\ UNCHANGED l
     \/ /\ queue[x] = <<>> /\ x \in shut
        /\ l' = [l EXCEPT ![x] = "closed"] /\ UNCHANGED <<opens, queue>>
  /\ UNCHANGED <<entries, shut, at, holds, conn, ignored>>

(* Close: forwards.remove, then a request of which nothing depends.        *)
CloseCall(x) ==
  /\ l[x] = "listening" /\ l' = [l EXCEPT ![x] = "closing"]
  /\ UNCHANGED <<entries, queue, shut, opens, at, holds, conn, ignored>>

(* forwards.remove drops the first entry of the address.                   *)
Without(s, i) == [j \in 1 .. Len(s) - 1 |-> IF j < i THEN s[j] ELSE s[j + 1]]
Dropped(x) ==
  \/ Match(AddrOf(x)) = {} /\ UNCHANGED <<entries, shut>>
  \/ \E i \in First(AddrOf(x)) :
       entries' = Without(entries, i) /\ shut' = shut \cup {entries[i]}

\* mutant: the channel is closed without the lock
removeUnlocked(x) ==
  /\ l[x] = "closing" /\ Dropped(x)
  /\ l' = [l EXCEPT ![x] = "closed"]
  /\ UNCHANGED <<queue, opens, at, holds, conn, ignored>>

remove(x) ==
  /\ l[x] = "closing" /\ Free /\ Dropped(x)
  /\ l' = [l EXCEPT ![x] = "closed"]
  /\ UNCHANGED <<queue, opens, at, holds, conn, ignored>>

ConnDown ==
  /\ conn = "up" /\ conn' = "down"
  /\ UNCHANGED <<l, entries, queue, shut, opens, at, holds, ignored>>

\* mutant: the listeners are forgotten but not closed
closeAllForgets ==
  /\ conn = "down" /\ Free
  /\ entries' = <<>> /\ conn' = "cleared"
  /\ UNCHANGED <<l, queue, shut, opens, at, holds, ignored>>

(* NewClient: conn.Wait, then forwards.closeAll.                           *)
closeAll ==
  /\ conn = "down" /\ Free
  /\ shut' = shut \cup {entries[i] : i \in DOMAIN entries} /\ entries' = <<>> /\ conn' = "cleared"
  /\ UNCHANGED <<l, queue, opens, at, holds, ignored>>

Routed == Handle \/ Room \/ closeAll \/ \E x \in Listeners : add(x) \/ Accept(x) \/ remove(x)
Next == Routed \/ ConnDown \/ (\E a \in Addrs : ServerOpens(a)) \/ \E x \in Listeners : Request(x) \/ CloseCall(x)

Spec == Init /\ [][Next]_fwVars

-----------------------------------------------------------------------------
(* A connection reaches only the listener of its address, and no channel   *)
(* is both waiting in a queue and answered.                                *)
RightListener ==
  /\ \A i \in DOMAIN opens : opens[i].st = "accepted" => AddrOf(opens[i].by) = opens[i].addr
  /\ \A x \in Listeners : \A k \in DOMAIN queue[x] : opens[queue[x][k]].st = "waiting"

(* forward never sends on a channel that is closed (a panic): its listener *)
(* is still registered when there is room at last.                         *)
NoSendOnClosed ==
  holds => Match(opens[at].addr) # {} /\ \A i \in Match(opens[at].addr) : entries[i] \notin shut

(* Connections reach the listener of their address, and nothing is sent on *)
(* a closed Go channel (forwardList.forward, remove, closeAll).            *)
ForwardSafe == RightListener /\ NoSendOnClosed

(* When listeners are serviced, the mutex is given back again and again    *)
(* and every call of Accept returns once the connection has ended, but for *)
(* a listener that was registered after closeAll (ListenTCP).              *)
Late(x) == conn = "cleared" /\ \E i \in DOMAIN entries : entries[i] = x

AllReturned == ~holds /\ \A x \in Listeners : conn # "up" /\ l[x] = "listening" => Late(x)

=============================================================================
