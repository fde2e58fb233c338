------------------------------ MODULE SshAgent ------------------------------
(***************************************************************************)
(* The agent package: goroutines that call an agent client, each client    *)
(* served over a connection of its own by ServeAgent, and a keyring that   *)
(* all of them and the goroutines of its own process share                 *)
(* (ssh/agent/client.go, server.go, keyring.go, forward.go).               *)
(***************************************************************************)
EXTENDS Naturals, Sequences, FiniteSets, TLC

CONSTANTS
  Users,       \* goroutines
  ConnOf(_),   \* the connection of the client a user calls, Local for the keyring itself
  Local,
  Plans,       \* user -> the calls it makes: [op, key, type, cert, constraints, pass]
  MaxAnswer    \* keys in the largest list within maxAgentResponseBytes

VARIABLES
  ring,      \* keyring: [keys, locked, pass]
  u,         \* user -> [st, call, got]
  mutex,     \* connection -> the user in client.call, 0 when free
  toAgent, toClient,   \* connection -> what has been written
  up,        \* connections still served
  todo       \* user -> calls to come

agVars == <<ring, u, mutex, toAgent, toClient, up, todo>>

Conns == {ConnOf(x) : x \in Users} \ {Local}
NoCall == [op |-> "none", key |-> 0, type |-> "", cert |-> FALSE, constraints |-> FALSE, pass |-> 0]

Init ==
  /\ ring = [keys |-> <<>>, locked |-> FALSE, pass |-> 0]
  /\ u = [x \in Users |-> [st |-> "idle", call |-> NoCall, got |-> "none", for |-> 0]]
  /\ mutex = [c \in Conns |-> 0] /\ toAgent = [c \in Conns |-> <<>>] /\ toClient = [c \in Conns |-> <<>>]
  /\ up = Conns /\ todo \in Plans

-----------------------------------------------------------------------------
Refused(k) == [ring |-> k, rep |-> "failure"]
Done(k) == [ring |-> k, rep |-> "success"]

Add(k, q) == IF k.locked THEN Refused(k)
             ELSE Done([k EXCEPT !.keys = Append(@, [key |-> q.key, loose |-> q.constraints, from |-> q.from])])

\* mutant: the key moved into the gap is not looked at
RECURSIVE SweepSkips(_, _, _)
SweepSkips(s, i, key) ==
  IF i > Len(s) THEN s
  ELSE IF s[i].key = key THEN SweepSkips(SubSeq([s EXCEPT ![i] = s[Len(s)]], 1, Len(s) - 1), i + 1, key)
  ELSE SweepSkips(s, i + 1, key)

(* The loop of Remove: a match is replaced by the last key.                *)
RECURSIVE Sweep(_, _, _)
Sweep(s, i, key) ==
  IF i > Len(s) THEN s
  ELSE IF s[i].key = key THEN Sweep(SubSeq([s EXCEPT ![i] = s[Len(s)]], 1, Len(s) - 1), i, key)
  ELSE Sweep(s, i + 1, key)

keysOf(k) == {k.keys[i].key : i \in DOMAIN k.keys}

Remove(k, q) == IF k.locked \/ q.key \notin keysOf(k) THEN Refused(k)
                ELSE Done([k EXCEPT !.keys = Sweep(@, 1, q.key)])

RemoveAll(k, q) == IF k.locked THEN Refused(k) ELSE Done([k EXCEPT !.keys = <<>>])

Lock(k, q) == IF k.locked THEN Refused(k) ELSE Done([k EXCEPT !.locked = TRUE, !.pass = q.pass])

Unlock(k, q) == IF ~k.locked \/ q.pass # k.pass THEN Refused(k) ELSE Done([k EXCEPT !.locked = FALSE, !.pass = 0])

List(k, q) == [ring |-> k, rep |-> IF k.locked \/ k.keys = <<>> THEN "empty" ELSE "list"]

Sign(k, q) == [ring |-> k, rep |-> IF k.locked \/ q.key \notin keysOf(k) THEN "failure" ELSE "signature"]

Keyring(k, q) ==
  CASE q.op = "add" -> Add(k, q)
    [] q.op = "remove" -> Remove(k, q)
    [] q.op = "removeAll" -> RemoveAll(k, q)
    [] q.op = "lock" -> Lock(k, q)
    [] q.op = "unlock" -> Unlock(k, q)
    [] q.op = "list" -> List(k, q)
    [] q.op = "sign" -> Sign(k, q)

(* insertIdentity knows plain RSA keys only.                               *)
insertIdentity(k, q) == IF q.type = "rsa" /\ ~q.cert THEN Add(k, q) ELSE Refused(k)

(* processRequest: an addition with constraints is an opcode it does not   *)
(* know, and the request to unlock is parsed as one to lock, which fails.  *)
processRequest(k, q) ==
  CASE q.code \in {"addConstrained", "unlock"} -> Refused(k)
    [] q.code = "add" -> insertIdentity(k, q)
    [] OTHER -> Keyring(k, q)

-----------------------------------------------------------------------------
(* insertKey and insertCert: what the client asks; the opcode tells of     *)
(* constraints, which a DSA or ECDSA certificate does not carry along.     *)
insertKey(q) == [q EXCEPT !.constraints = @ /\ ~(q.cert /\ q.type # "rsa")]

Marshal(q) == insertKey(q) @@ [code |-> IF q.op = "add" /\ q.constraints THEN "addConstrained" ELSE q.op]

Return(x, rep, whose) == u' = [u EXCEPT ![x].st = "idle", ![x].got = rep, ![x].for = whose]

LocalCall(x) ==
  /\ ConnOf(x) = Local /\ u[x].st = "idle" /\ todo[x] # <<>> /\ todo' = [todo EXCEPT ![x] = Tail(@)]
  /\ LET q == Head(todo[x])
         p == Keyring(ring, q @@ [from |-> x])
     IN ring' = p.ring /\ u' = [u EXCEPT ![x].call = q, ![x].got = p.rep, ![x].for = x]
  /\ UNCHANGED <<mutex, toAgent, toClient, up>>

Ask(x) ==
  /\ ConnOf(x) # Local /\ u[x].st = "idle" /\ todo[x] # <<>> /\ todo' = [todo EXCEPT ![x] = Tail(@)]
  /\ u' = [u EXCEPT ![x] = [st |-> "lock", call |-> Head(todo[x]), got |-> "none", for |-> 0]]
  /\ UNCHANGED <<ring, mutex, toAgent, toClient, up>>

\* mutant: the request is written without the mutex
writeUnlocked(x) ==
  /\ u[x].st = "lock"
  /\ toAgent' = [toAgent EXCEPT ![ConnOf(x)] = Append(@, Marshal(u[x].call) @@ [from |-> x])]
  /\ u' = [u EXCEPT ![x].st = "read"]
  /\ UNCHANGED <<ring, mutex, toClient, up, todo>>

(* call: the mutex, the request, the reply.                                *)
write(x) ==
  /\ u[x].st = "lock" /\ mutex[ConnOf(x)] = 0
  /\ IF ConnOf(x) \in up
     THEN /\ toAgent' = [toAgent EXCEPT ![ConnOf(x)] = Append(@, Marshal(u[x].call) @@ [from |-> x])]
          /\ u' = [u EXCEPT ![x].st = "read"] /\ mutex' = [mutex EXCEPT ![ConnOf(x)] = x]
     ELSE Return(x, "error", x) /\ UNCHANGED <<toAgent, mutex>>
  /\ UNCHANGED <<ring, toClient, up, todo>>

read(x) ==
  /\ u[x].st = "read"
  /\ LET c == ConnOf(x)
     IN /\ \/ /\ toClient[c] # <<>> /\ Return(x, Head(toClient[c]).rep, Head(toClient[c]).from)
              /\ toClient' = [toClient EXCEPT ![c] = Tail(@)]
           \/ toClient[c] = <<>> /\ c \notin up /\ Return(x, "error", x) /\ UNCHANGED toClient
        /\ mutex' = [mutex EXCEPT ![c] = 0]
  /\ UNCHANGED <<ring, toAgent, up, todo>>

(* ServeAgent: one request after the other; an answer too large ends it,   *)
(* and the channel is closed (ForwardToAgent).                             *)
Serve(c) ==
  /\ c \in up /\ toAgent[c] # <<>>
  /\ LET q == Head(toAgent[c])
         p == processRequest(ring, q)
     IN /\ ring' = p.ring
        /\ IF p.rep = "list" /\ Len(ring.keys) > MaxAnswer
           THEN up' = up \ {c} /\ UNCHANGED toClient
           ELSE toClient' = [toClient EXCEPT ![c] = Append(@, [rep |-> p.rep, from |-> q.from])] /\ UNCHANGED up
  /\ toAgent' = [toAgent EXCEPT ![c] = Tail(@)]
  /\ UNCHANGED <<u, mutex, todo>>

Next == (\E x \in Users : LocalCall(x) \/ Ask(x) \/ write(x) \/ read(x)) \/ \E c \in Conns : Serve(c)

-----------------------------------------------------------------------------
(* Goroutines that share a client each get the reply to their own request, *)
(* of the kind that request has (any other makes List and Sign panic).     *)
OwnReply ==
  \A x \in Users : u[x].got # "none" =>
    /\ u[x].for = x
    /\ u[x].got = "signature" => u[x].call.op = "sign"
    /\ u[x].got \in {"list", "empty"} => u[x].call.op = "list"

(* While the keyring is locked nothing but Unlock with its passphrase      *)
(* changes it.                                                             *)
LockedStep ==
  ring.locked /\ ring' # ring =>
    /\ ring'.keys = ring.keys /\ ~ring'.locked
    /\ \E x \in Users : u'[x].call.op = "unlock" /\ u'[x].call.pass = ring.pass

CopiesOf(s, key) == Cardinality({i \in DOMAIN s : s[i].key = key})

(* Remove takes every identity with the key away and no other one          *)
(* ("removes all identities with the given public key").                   *)
RemoveStep ==
  Len(ring'.keys) < Len(ring.keys) /\ ring'.keys # <<>> =>
    \E key \in keysOf(ring) : \A k \in keysOf(ring) :
      CopiesOf(ring'.keys, k) = IF k = key THEN 0 ELSE CopiesOf(ring.keys, k)

(* A key that is added with constraints over a connection is never held:   *)
(* the keyring, which ignores constraints, is not given it.                *)
ConstraintsHonoured ==
  \A i \in DOMAIN ring.keys : ring.keys[i].loose => ConnOf(ring.keys[i].from) = Local

(* Every call returns, though the connection may end first.                *)
Returned == \A x \in Users : u[x].st = "idle"

(* "Unlock undoes the effect of Lock": no goroutine is refused with the    *)
(* passphrase and finds the keyring locked with it afterwards.             *)
UnlockUndoesLock ==
  \A x \in Users : u[x].got = "failure" /\ u[x].call.op = "unlock" /\ ring.locked => u[x].call.pass # ring.pass

=============================================================================
