-------------------------- MODULE SshServicesProofs -------------------------
(***************************************************************************)
(* Proofs about SshForward, for any listeners, any addresses (several      *)
(* listeners may ask for one) and any number of channels, and about        *)
(* SshSession, for any streams and anything the remote may send.           *)
(***************************************************************************)
EXTENDS SshForward, SshSession, TLAPS

(* What forwardList.remove leaves: all entries but one, in their order.    *)
LEMMA WithoutFacts ==
  ASSUME NEW S, NEW s \in Seq(S), NEW i \in 1 .. Len(s)
  PROVE  /\ Without(s, i) \in Seq(S)
         /\ DOMAIN Without(s, i) = 1 .. Len(s) - 1
         /\ \A j \in 1 .. Len(s) - 1 : Without(s, i)[j] = IF j < i THEN s[j] ELSE s[j + 1]
<1>1. Len(s) \in Nat /\ \A j \in 1 .. Len(s) - 1 : (IF j < i THEN s[j] ELSE s[j + 1]) \in S OBVIOUS
<1> QED BY <1>1 DEF Without

KeptFrom(s, i, t) == \A j \in DOMAIN t : \E k \in DOMAIN s : k # i /\ t[j] = s[k]

(* What is left was there before, at another place.                        *)
LEMMA WithoutKeeps ==
  ASSUME NEW S, NEW s \in Seq(S), NEW i \in 1 .. Len(s)
  PROVE  KeptFrom(s, i, Without(s, i))
<1> DEFINE t == Without(s, i)
           from(j) == IF j < i THEN j ELSE j + 1
<1>1. DOMAIN s = 1 .. Len(s) /\ Len(s) \in Nat OBVIOUS
<1>2. DOMAIN t = 1 .. Len(s) - 1 BY WithoutFacts
<1>3. \A j \in DOMAIN t : from(j) \in DOMAIN s /\ from(j) # i BY <1>1, <1>2
<1>4. \A j \in DOMAIN t : t[j] = s[from(j)] BY <1>2, WithoutFacts
<1> HIDE DEF t, from
<1>5. KeptFrom(s, i, t) BY <1>3, <1>4, Zenon DEF KeptFrom
<1> QED BY <1>5, Zenon DEF t

(* What was distinct stays distinct.                                       *)
LEMMA WithoutDistinct ==
  ASSUME NEW S, NEW s \in Seq(S), NEW i \in 1 .. Len(s),
         \A j, k \in DOMAIN s : s[j] = s[k] => j = k
  PROVE  \A j, k \in DOMAIN Without(s, i) : Without(s, i)[j] = Without(s, i)[k] => j = k
<1> DEFINE t == Without(s, i)
           from(j) == IF j < i THEN j ELSE j + 1
<1>1. DOMAIN s = 1 .. Len(s) /\ Len(s) \in Nat OBVIOUS
<1>2. DOMAIN t = 1 .. Len(s) - 1 BY WithoutFacts
<1>3. \A j \in DOMAIN t : from(j) \in DOMAIN s BY <1>1, <1>2
<1>4. \A j \in DOMAIN t : t[j] = s[from(j)] BY <1>2, WithoutFacts
<1>5. \A j, k \in DOMAIN t : from(j) = from(k) => j = k BY <1>2
<1> HIDE DEF t, from
<1>6. \A j, k \in DOMAIN t : t[j] = t[k] => j = k BY <1>3, <1>4, <1>5, Zenon
<1> QED BY <1>6, Zenon DEF t

-----------------------------------------------------------------------------
Opened == [addr : Addrs, st : {"waiting", "rejected", "accepted"}, by : Listeners \cup {0}]

FwType ==
  /\ l \in [Listeners -> {"ask", "granted", "refused", "listening", "closing", "closed"}]
  /\ entries \in Seq(Listeners) /\ shut \in SUBSET Listeners
  /\ opens \in Seq(Opened) /\ at \in Nat /\ 1 <= at /\ at <= Len(opens) + 1
  /\ queue \in [Listeners -> Seq(Nat)] /\ holds \in BOOLEAN

(* Each listener is registered at most once, and only while its Go channel *)
(* is open; before forwards.add it is neither registered nor closed.       *)
EntryInv ==
  /\ \A i, j \in DOMAIN entries : entries[i] = entries[j] => i = j
  /\ \A i \in DOMAIN entries : entries[i] \notin shut
  /\ \A x \in Listeners : l[x] \in {"ask", "granted", "refused"} =>
       x \notin shut /\ \A i \in DOMAIN entries : entries[i] # x

(* Whoever waits for room has found a listener, which stays registered.    *)
HoldInv == holds => at <= Len(opens) /\ Match(opens[at].addr) # {}

(* A Go channel of size 1 holds a channel of its own address that nobody   *)
(* has answered, and no channel is in two of them.                         *)
QueueInv ==
  /\ \A x \in Listeners : queue[x] # <<>> =>
       /\ Len(queue[x]) = 1 /\ queue[x][1] \in 1 .. at - 1
       /\ opens[queue[x][1]].addr = AddrOf(x) /\ opens[queue[x][1]].st = "waiting"
  /\ \A x, y \in Listeners : queue[x] # <<>> /\ queue[y] # <<>> /\ queue[x][1] = queue[y][1] => x = y

Answered ==
  /\ \A i \in DOMAIN opens : i >= at => opens[i].st = "waiting"
  /\ \A i \in DOMAIN opens : opens[i].st = "accepted" => AddrOf(opens[i].by) = opens[i].addr

FwInv == FwType /\ EntryInv /\ HoldInv /\ QueueInv /\ Answered

-----------------------------------------------------------------------------
(* The listener forward chooses is a registered one of the address.        *)
LEMMA Chosen ==
  ASSUME FwType, NEW a, NEW i \in First(a)
  PROVE  /\ i \in DOMAIN entries /\ i \in 1 .. Len(entries)
         /\ entries[i] \in Listeners /\ AddrOf(entries[i]) = a /\ Match(a) # {}
<1>1. i \in Match(a) BY DEF First
<1>2. i \in DOMAIN entries /\ AddrOf(entries[i]) = a BY <1>1 DEF Match
<1>3. i \in 1 .. Len(entries) /\ entries[i] \in Listeners BY <1>2 DEF FwType
<1> QED BY <1>1, <1>2, <1>3

(* forwards.add registers a listener that was not registered.              *)
LEMMA AddStep ==
  ASSUME FwInv, NEW x \in Listeners, add(x)
  PROVE  FwInv'
<1> USE DEF FwInv, FwType
<1>1. /\ l[x] = "granted" /\ ~holds /\ entries' = Append(entries, x)
      /\ l' = [l EXCEPT ![x] = "listening"]
      /\ UNCHANGED <<queue, shut, opens, at, holds>>
  BY DEF add, Free
<1>2. FwType' BY <1>1
<1>3. EntryInv'
  <2>1. /\ Len(entries) \in Nat /\ DOMAIN entries = 1 .. Len(entries)
        /\ DOMAIN entries' = 1 .. Len(entries) + 1 /\ entries'[Len(entries) + 1] = x
        /\ \A i \in 1 .. Len(entries) : entries'[i] = entries[i]
    BY <1>1
  <2>2. x \notin shut /\ \A i \in DOMAIN entries : entries[i] # x BY <1>1 DEF EntryInv
  <2>3. \A y \in Listeners : l'[y] \in {"ask", "granted", "refused"} =>
          y # x /\ l[y] \in {"ask", "granted", "refused"}
    BY <1>1
  <2>4. /\ \A i, j \in DOMAIN entries : entries[i] = entries[j] => i = j
        /\ \A i \in DOMAIN entries : entries[i] \notin shut
        /\ \A y \in Listeners : l[y] \in {"ask", "granted", "refused"} =>
             y \notin shut /\ \A i \in DOMAIN entries : entries[i] # y
    BY DEF EntryInv
  <2>5. shut' = shut BY <1>1
  <2> HIDE DEF FwInv, FwType
  <2>6. \A i \in DOMAIN entries' : i \in DOMAIN entries \/ i = Len(entries) + 1 BY <2>1
  <2>7. \A i \in DOMAIN entries : entries'[i] = entries[i] BY <2>1
  <2>8. \A i, j \in DOMAIN entries' : entries'[i] = entries'[j] => i = j
    BY <2>1, <2>2, <2>4, <2>6, <2>7
  <2>9. \A i \in DOMAIN entries' : entries'[i] \notin shut' BY <2>1, <2>2, <2>4, <2>5, <2>6, <2>7
  <2>10. \A y \in Listeners : l'[y] \in {"ask", "granted", "refused"} =>
           y \notin shut' /\ \A i \in DOMAIN entries' : entries'[i] # y
    BY <2>1, <2>3, <2>4, <2>5, <2>6, <2>7
  <2> QED BY <2>8, <2>9, <2>10 DEF EntryInv
<1>4. HoldInv' BY <1>1 DEF HoldInv
<1>5. QueueInv' /\ Answered' BY <1>1 DEF QueueInv, Answered
<1> QED BY <1>2, <1>3, <1>4, <1>5

(* Registered listeners stay distinct and open when forwards.remove drops  *)
(* the first one of an address, whoever's it is.                           *)
LEMMA RemoveStep ==
  ASSUME FwInv, NEW x \in Listeners, remove(x)
  PROVE  FwInv'
<1> USE DEF FwInv, FwType
<1>1. /\ l[x] = "closing" /\ ~holds /\ Dropped(x)
      /\ l' = [l EXCEPT ![x] = "closed"]
      /\ UNCHANGED <<queue, opens, at, holds>>
  BY DEF remove, Free
<1>2. HoldInv' /\ QueueInv' /\ Answered' BY <1>1 DEF HoldInv, QueueInv, Answered
<1>3. CASE UNCHANGED <<entries, shut>>
  BY <1>1, <1>2, <1>3 DEF EntryInv
<1>4. ASSUME NEW f \in First(AddrOf(x)), entries' = Without(entries, f), shut' = shut \cup {entries[f]}
      PROVE  FwInv'
  <2>1. f \in 1 .. Len(entries) /\ entries[f] \in Listeners BY Chosen
  <2>2. entries' = Without(entries, f) /\ shut' = shut \cup {entries[f]} BY <1>4
  <2>3. /\ entries' \in Seq(Listeners) /\ DOMAIN entries' = 1 .. Len(entries) - 1
        /\ \A j \in 1 .. Len(entries) - 1 : entries'[j] = IF j < f THEN entries[j] ELSE entries[j + 1]
    BY <2>1, <2>2, WithoutFacts
  <2>4. DOMAIN entries = 1 .. Len(entries) /\ Len(entries) \in Nat OBVIOUS
  <2>5. FwType' BY <1>1, <2>1, <2>2, <2>3
  <2>6. \A j \in DOMAIN entries' : \E k \in DOMAIN entries : k # f /\ entries'[j] = entries[k]
    <3>1. entries \in Seq(Listeners) OBVIOUS
    <3> HIDE DEF FwInv, FwType
    <3>2. KeptFrom(entries, f, Without(entries, f))
      BY <2>1, <3>1, WithoutKeeps, Zenon
    <3>3. KeptFrom(entries, f, entries') BY <2>2, <3>2, Zenon
    <3> QED BY <3>3, Zenon DEF KeptFrom
  <2>7. \A i, j \in DOMAIN entries' : entries'[i] = entries'[j] => i = j
    <3>1. \A j, k \in DOMAIN entries : entries[j] = entries[k] => j = k BY DEF EntryInv
    <3>2. entries \in Seq(Listeners) OBVIOUS
    <3> HIDE DEF FwInv, FwType
    <3>3. \A j, k \in DOMAIN Without(entries, f) : Without(entries, f)[j] = Without(entries, f)[k] => j = k
      BY <2>1, <3>1, <3>2, WithoutDistinct, Zenon
    <3> QED BY <2>2, <3>3
  <2>8. \A i \in DOMAIN entries' : entries'[i] \notin shut'
    BY <2>1, <2>2, <2>4, <2>6 DEF EntryInv
  <2>9. \A y \in Listeners : l'[y] \in {"ask", "granted", "refused"} =>
          y \notin shut' /\ \A i \in DOMAIN entries' : entries'[i] # y
    <3>1. \A y \in Listeners : l[y] \in {"ask", "granted", "refused"} =>
            y \notin shut /\ \A i \in DOMAIN entries : entries[i] # y
      BY DEF EntryInv
    <3>2. \A y \in Listeners : l'[y] \in {"ask", "granted", "refused"} => l[y] \in {"ask", "granted", "refused"}
      BY <1>1
    <3>3. f \in DOMAIN entries BY <2>1, <2>4
    <3> HIDE DEF FwInv, FwType
    <3>4. \A y \in Listeners : l'[y] \in {"ask", "granted", "refused"} => y \notin shut'
      BY <2>2, <3>1, <3>2, <3>3, Zenon
    <3>5. \A y \in Listeners : l'[y] \in {"ask", "granted", "refused"} => \A i \in DOMAIN entries' : entries'[i] # y
      <4> SUFFICES ASSUME NEW y \in Listeners, l'[y] \in {"ask", "granted", "refused"},
                          NEW i \in DOMAIN entries'
                   PROVE  entries'[i] # y
        OBVIOUS
      <4>1. PICK k \in DOMAIN entries : entries'[i] = entries[k] BY <2>6, Zenon
      <4>2. entries[k] # y BY <3>1, <3>2, Zenon
      <4> QED BY <4>1, <4>2, Zenon
    <3> QED BY <3>4, <3>5, Zenon
  <2> QED BY <1>2, <2>5, <2>7, <2>8, <2>9 DEF EntryInv
<1> QED BY <1>1, <1>3, <1>4 DEF Dropped

(* forward puts the channel it has come to into an empty Go channel of its *)
(* address.                                                                *)
LEMMA Delivered ==
  ASSUME FwType, QueueInv, Answered, NEW x \in Listeners, queue[x] = <<>>, at <= Len(opens),
         AddrOf(x) = opens[at].addr,
         queue' = [queue EXCEPT ![x] = <<at>>], at' = at + 1, opens' = opens
  PROVE  QueueInv' /\ Answered'
<1>1. at \in Nat /\ at \in DOMAIN opens BY DEF FwType
<1>2. opens[at].st = "waiting" BY <1>1 DEF Answered
<1>3. \A y \in Listeners \ {x} : queue'[y] = queue[y] BY DEF FwType
<1>4. queue'[x] = <<at>> BY DEF FwType
<1>5. queue'[x] # <<>> /\ Len(queue'[x]) = 1 /\ queue'[x][1] = at BY <1>4
<1>6. \A y \in Listeners \ {x} : queue[y] # <<>> => queue[y][1] \in 1 .. at - 1 BY DEF QueueInv
<1>7. ASSUME NEW y \in Listeners, queue'[y] # <<>>
      PROVE  /\ Len(queue'[y]) = 1 /\ queue'[y][1] \in 1 .. at' - 1
             /\ opens'[queue'[y][1]].addr = AddrOf(y) /\ opens'[queue'[y][1]].st = "waiting"
  <2>1. CASE y = x BY <1>1, <1>2, <1>5, <2>1 DEF FwType
  <2>2. CASE y # x
    <3>1. queue'[y] = queue[y] BY <1>3, <2>2
    <3> QED BY <1>1, <1>7, <3>1 DEF QueueInv
  <2> QED BY <2>1, <2>2
<1>8. ASSUME NEW y \in Listeners, NEW z \in Listeners, queue'[y] # <<>>, queue'[z] # <<>>,
             queue'[y][1] = queue'[z][1]
      PROVE  y = z
  <2>1. CASE y # x /\ z # x BY <1>3, <1>8, <2>1 DEF QueueInv
  <2>2. CASE y = x /\ z # x BY <1>1, <1>3, <1>5, <1>6, <1>8, <2>2
  <2>3. CASE y # x /\ z = x BY <1>1, <1>3, <1>5, <1>6, <1>8, <2>3
  <2> QED BY <2>1, <2>2, <2>3
<1>9. QueueInv' BY <1>7, <1>8 DEF QueueInv
<1>10. Answered' BY <1>1 DEF Answered
<1> QED BY <1>9, <1>10

(* A channel goes to a listener of its address, or is rejected, or forward *)
(* begins to wait.                                                         *)
LEMMA HandleStep ==
  ASSUME FwInv, Handle
  PROVE  FwInv'
<1> USE DEF FwInv, FwType
<1> DEFINE a == opens[at].addr
<1>1. ~holds /\ at <= Len(opens) /\ UNCHANGED <<l, entries, shut>> BY DEF Handle, Free
<1>2. EntryInv' BY <1>1 DEF EntryInv
<1>3. at \in DOMAIN opens /\ opens[at] \in Opened BY <1>1
<1>4. CASE opens' = [opens EXCEPT ![at].st = "rejected"] /\ at' = at + 1 /\ UNCHANGED <<queue, holds>>
  <2>2. FwType'
    <3>1. [opens[at] EXCEPT !.st = "rejected"] \in Opened BY <1>3 DEF Opened
    <3>2. opens' \in Seq(Opened) /\ Len(opens') = Len(opens) BY <1>3, <1>4, <3>1
    <3> QED BY <1>1, <1>4, <3>2
  <2>3. \A i \in DOMAIN opens : i # at => opens'[i] = opens[i] BY <1>4
  <2>4. DOMAIN opens' = DOMAIN opens /\ opens'[at].st = "rejected" BY <1>3, <1>4 DEF Opened
  <2>5. HoldInv' BY <1>1, <1>4 DEF HoldInv
  <2>6. QueueInv' BY <1>1, <1>4, <2>3 DEF QueueInv
  <2>7. Answered' BY <1>1, <1>4, <2>3, <2>4 DEF Answered
  <2> QED BY <1>2, <2>2, <2>5, <2>6, <2>7
<1>5. ASSUME NEW i \in First(a), queue[entries[i]] = <<>>, queue' = [queue EXCEPT ![entries[i]] = <<at>>],
             at' = at + 1, UNCHANGED <<opens, holds>>
      PROVE  FwInv'
  <2> DEFINE x == entries[i]
  <2>0. x \in Listeners /\ AddrOf(x) = opens[at].addr BY Chosen
  <2>1. queue[x] = <<>> /\ queue' = [queue EXCEPT ![x] = <<at>>] BY <1>5
  <2> HIDE DEF x
  <2>2. FwType'
    <3>1. queue' \in [Listeners -> Seq(Nat)] BY <2>0, <2>1
    <3>2. at' \in Nat /\ 1 <= at' /\ at' <= Len(opens') + 1 BY <1>1, <1>5
    <3> QED BY <1>1, <1>5, <3>1, <3>2
  <2>3. HoldInv' BY <1>1, <1>5 DEF HoldInv
  <2>4. QueueInv' /\ Answered' BY <1>1, <1>5, <2>0, <2>1, Delivered
  <2> QED BY <1>2, <2>2, <2>3, <2>4
<1>6. ASSUME NEW i \in First(a), holds' = TRUE, UNCHANGED <<queue, opens, at>>
      PROVE  FwInv'
  <2>1. Match(a) # {} BY Chosen
  <2>2. Match(opens[at].addr)' = Match(a) BY <1>1, <1>6 DEF Match
  <2> QED BY <1>1, <1>2, <1>6, <2>1, <2>2 DEF HoldInv, QueueInv, Answered
<1> QED BY <1>4, <1>5, <1>6 DEF Handle

(* The wait for room ends with the listener found before, as only the      *)
(* holder of the mutex could have changed the list.                        *)
LEMMA RoomStep ==
  ASSUME FwInv, Room
  PROVE  FwInv'
<1> USE DEF FwInv
<1>0. PICK i \in First(opens[at].addr) :
        queue[entries[i]] = <<>> /\ queue' = [queue EXCEPT ![entries[i]] = <<at>>]
  BY DEF Room
<1> DEFINE x == entries[i]
<1>1. /\ holds /\ queue[x] = <<>> /\ queue' = [queue EXCEPT ![x] = <<at>>]
      /\ at' = at + 1 /\ holds' = FALSE /\ UNCHANGED <<l, entries, shut, opens>>
  BY <1>0 DEF Room
<1>2. at <= Len(opens) BY <1>1 DEF HoldInv
<1>3. x \in Listeners /\ AddrOf(x) = opens[at].addr BY Chosen
<1> HIDE DEF x
<1>4. QueueInv' /\ Answered' BY <1>1, <1>2, <1>3, Delivered
<1>5. FwType'
  <2>1. at \in Nat /\ <<at>> \in Seq(Nat) BY DEF FwType
  <2>2. queue' \in [Listeners -> Seq(Nat)] BY <1>1, <1>3, <2>1 DEF FwType
  <2>3. at' \in Nat /\ 1 <= at' /\ at' <= Len(opens') + 1 BY <1>1, <1>2, <2>1 DEF FwType
  <2> QED BY <1>1, <2>2, <2>3 DEF FwType
<1>6. EntryInv' /\ HoldInv' BY <1>1 DEF EntryInv, HoldInv
<1> QED BY <1>4, <1>5, <1>6

(* Accept takes the channel out of the queue and answers it, or returns    *)
(* because the Go channel is closed.                                       *)
LEMMA AcceptStep ==
  ASSUME FwInv, NEW x \in Listeners, Accept(x)
  PROVE  FwInv'
<1> USE DEF FwInv
<1>1. UNCHANGED <<entries, shut, at, holds>> BY DEF Accept
<1>2. CASE /\ queue[x] # <<>>
           /\ opens' = [opens EXCEPT ![Head(queue[x])].st = "accepted", ![Head(queue[x])].by = x]
           /\ queue' = [queue EXCEPT ![x] = <<>>] /\ UNCHANGED l
  <2> DEFINE n == queue[x][1]
  <2>1. queue[x] \in Seq(Nat) /\ Len(queue[x]) = 1 BY <1>2 DEF FwType, QueueInv
  <2>2. /\ n \in 1 .. at - 1 /\ n \in DOMAIN opens /\ opens[n] \in Opened
        /\ opens[n].addr = AddrOf(x) /\ n # at
    BY <1>2 DEF FwType, QueueInv
  <2>3. Head(queue[x]) = n BY <2>1
  <2>4. <<>> \in Seq(Nat) OBVIOUS
  <2> HIDE DEF n
  <2>5. opens' = [opens EXCEPT ![n] = [opens[n] EXCEPT !.st = "accepted", !.by = x]]
    BY <1>2, <2>2, <2>3 DEF FwType
  <2>6. [opens[n] EXCEPT !.st = "accepted", !.by = x] \in Opened BY <2>2 DEF Opened
  <2>7. opens' \in Seq(Opened) /\ Len(opens') = Len(opens) /\ DOMAIN opens' = DOMAIN opens
    BY <2>2, <2>5, <2>6 DEF FwType
  <2>8. /\ \A i \in DOMAIN opens : i # n => opens'[i] = opens[i]
        /\ opens'[n].st = "accepted" /\ opens'[n].by = x /\ opens'[n].addr = opens[n].addr
    BY <2>2, <2>5 DEF Opened, FwType
  <2>9. queue' \in [Listeners -> Seq(Nat)] /\ queue'[x] = <<>> /\ \A y \in Listeners \ {x} : queue'[y] = queue[y]
    BY <1>2, <2>4 DEF FwType
  <2>10. FwType' BY <1>1, <1>2, <2>7, <2>9 DEF FwType
  <2>11. EntryInv' BY <1>1, <1>2 DEF EntryInv
  <2>12. HoldInv'
    <3>1. holds' => at <= Len(opens) /\ Match(opens[at].addr) # {} /\ opens'[at] = opens[at]
      BY <1>1, <2>2, <2>8 DEF HoldInv, FwType
    <3>2. \A a : Match(a)' = Match(a) BY <1>1 DEF Match
    <3> QED BY <1>1, <2>7, <3>1, <3>2 DEF HoldInv
  <2>13. QueueInv'
    <3>1. \A y \in Listeners : queue'[y] # <<>> => y # x /\ queue'[y] = queue[y] BY <2>9
    <3>2. \A y \in Listeners \ {x} : queue[y] # <<>> => queue[y][1] # n /\ queue[y][1] \in DOMAIN opens
      BY <1>2 DEF QueueInv, n, FwType
    <3> QED BY <1>1, <2>8, <3>1, <3>2 DEF QueueInv
  <2>14. Answered'
    <3>1. \A i \in DOMAIN opens' : i >= at' => opens'[i].st = "waiting"
      <4>1. \A i \in DOMAIN opens : i >= at => opens[i].st = "waiting" BY Zenon DEF Answered
      <4>2. \A i \in DOMAIN opens : i >= at => i # n BY <2>2 DEF FwType
      <4>3. DOMAIN opens' = DOMAIN opens /\ at' = at BY <1>1, <2>7, Zenon
      <4>4. \A i \in DOMAIN opens : i # n => opens'[i] = opens[i] BY <2>8, Zenon
      <4> HIDE DEF FwInv
      <4> QED BY <4>1, <4>2, <4>3, <4>4
    <3>2. \A i \in DOMAIN opens' : opens'[i].st = "accepted" => AddrOf(opens'[i].by) = opens'[i].addr
      BY <2>2, <2>7, <2>8 DEF Answered
    <3> QED BY <3>1, <3>2 DEF Answered
  <2> QED BY <2>10, <2>11, <2>12, <2>13, <2>14
<1>3. CASE l' = [l EXCEPT ![x] = "closed"] /\ UNCHANGED <<opens, queue>>
  <2>1. FwType' BY <1>1, <1>3 DEF FwType
  <2>2. EntryInv' BY <1>1, <1>3 DEF EntryInv, FwType
  <2>3. \A a : Match(a)' = Match(a) BY <1>1 DEF Match
  <2>4. HoldInv' BY <1>1, <1>3, <2>3 DEF HoldInv
  <2>5. QueueInv' /\ Answered' BY <1>1, <1>3 DEF QueueInv, Answered
  <2> QED BY <2>1, <2>2, <2>4, <2>5
<1> QED BY <1>2, <1>3 DEF Accept

(* The steps that leave the list alone, and closeAll, which empties it.    *)
LEMMA OtherSteps ==
  ASSUME FwInv,
         \/ closeAll \/ ConnDown \/ UNCHANGED fwVars
         \/ \E a \in Addrs : ServerOpens(a)
         \/ \E x \in Listeners : Request(x) \/ CloseCall(x)
  PROVE  FwInv'
<1> USE DEF FwInv
<1>0. \A a : entries' = entries => Match(a)' = Match(a) BY DEF Match
<1>1. CASE closeAll
  <2>1. /\ ~holds /\ entries' = <<>> /\ shut' = shut \cup {entries[i] : i \in DOMAIN entries}
        /\ UNCHANGED <<l, queue, opens, at, holds>>
    BY <1>1 DEF closeAll, Free
  <2>2. FwType' BY <2>1 DEF FwType
  <2>3. EntryInv' BY <2>1 DEF EntryInv, FwType
  <2>4. HoldInv' BY <2>1 DEF HoldInv
  <2>5. QueueInv' /\ Answered' BY <2>1 DEF QueueInv, Answered
  <2> QED BY <2>2, <2>3, <2>4, <2>5
<1>2. CASE ConnDown \/ UNCHANGED fwVars
  <2>1. UNCHANGED <<l, entries, queue, shut, opens, at, holds>> BY <1>2 DEF ConnDown, fwVars
  <2> QED BY <1>0, <2>1 DEF FwType, EntryInv, HoldInv, QueueInv, Answered
<1>3. CASE \E a \in Addrs : ServerOpens(a)
  <2>1. PICK a \in Addrs : ServerOpens(a) BY <1>3
  <2> DEFINE new == [addr |-> a, st |-> "waiting", by |-> 0]
  <2>2. opens' = Append(opens, new) /\ UNCHANGED <<l, entries, queue, shut, at, holds>>
    BY <2>1 DEF ServerOpens
  <2>3. new \in Opened /\ new.st = "waiting" BY DEF Opened
  <2> HIDE DEF new
  <2>4. /\ opens' \in Seq(Opened) /\ Len(opens') = Len(opens) + 1
        /\ \A i \in DOMAIN opens : opens'[i] = opens[i]
        /\ opens'[Len(opens) + 1] = new /\ DOMAIN opens' = DOMAIN opens \cup {Len(opens) + 1}
    BY <2>2, <2>3 DEF FwType
  <2>5. FwType' BY <2>2, <2>4 DEF FwType
  <2>6. EntryInv' BY <2>2 DEF EntryInv
  <2>7. HoldInv' BY <1>0, <2>2, <2>4 DEF HoldInv, FwType
  <2>8. QueueInv' BY <2>2, <2>4 DEF QueueInv, FwType
  <2>9. Answered' BY <2>2, <2>3, <2>4 DEF Answered
  <2> QED BY <2>5, <2>6, <2>7, <2>8, <2>9
<1>4. CASE \E x \in Listeners : Request(x) \/ CloseCall(x)
  <2>1. PICK x \in Listeners : Request(x) \/ CloseCall(x) BY <1>4
  <2>2. UNCHANGED <<entries, queue, shut, opens, at, holds>> BY <2>1 DEF Request, CloseCall
  <2>3. \/ l[x] = "ask" /\ \E g \in {"granted", "refused"} : l' = [l EXCEPT ![x] = g]
        \/ l' = [l EXCEPT ![x] = "closing"]
    BY <2>1 DEF Request, CloseCall
  <2>4. FwType' BY <2>2, <2>3 DEF FwType
  <2>5. \A y \in Listeners : l'[y] \in {"ask", "granted", "refused"} => l[y] \in {"ask", "granted", "refused"}
    BY <2>3 DEF FwType
  <2>6. EntryInv' BY <2>2, <2>5 DEF EntryInv
  <2>7. HoldInv' BY <1>0, <2>2 DEF HoldInv
  <2>8. QueueInv' /\ Answered' BY <2>2 DEF QueueInv, Answered
  <2> QED BY <2>4, <2>6, <2>7, <2>8
<1> QED BY <1>1, <1>2, <1>3, <1>4

-----------------------------------------------------------------------------
(* The invariant holds from the start, in every step.                      *)
LEMMA Inductive == Spec => []FwInv
<1>1. Init => FwInv
  <2> SUFFICES ASSUME Init PROVE FwInv OBVIOUS
  <2>1. FwType
    <3>1. <<>> \in Seq(Nat) /\ <<>> \in Seq(Listeners) /\ <<>> \in Seq(Opened) /\ Len(<<>>) = 0 OBVIOUS
    <3>2. queue \in [Listeners -> Seq(Nat)] BY <3>1 DEF Init
    <3>3. opens \in Seq(Opened) /\ entries \in Seq(Listeners) /\ Len(opens) = 0 BY <3>1 DEF Init
    <3>4. l \in [Listeners -> {"ask", "granted", "refused", "listening", "closing", "closed"}] BY DEF Init
    <3>5. shut \in SUBSET Listeners /\ at = 1 /\ holds \in BOOLEAN BY DEF Init
    <3> QED BY <3>2, <3>3, <3>4, <3>5 DEF FwType
  <2>2. EntryInv BY DEF Init, EntryInv
  <2>3. HoldInv BY DEF Init, HoldInv
  <2>4. QueueInv BY DEF Init, QueueInv
  <2>5. Answered BY DEF Init, Answered
  <2> QED BY <2>1, <2>2, <2>3, <2>4, <2>5 DEF FwInv
<1>2. FwInv /\ [Next]_fwVars => FwInv'
  BY AddStep, RemoveStep, HandleStep, RoomStep, AcceptStep, OtherSteps DEF Next, Routed
<1> QED BY <1>1, <1>2, PTL DEF Spec

(* forward never sends on a closed Go channel, which would be a panic: the *)
(* listener it waits for is still registered, and so open, when there is   *)
(* room, whatever listeners share addresses and are closed meanwhile.      *)
LEMMA NoSendOnClosedCorrect == FwInv => NoSendOnClosed
  BY DEF FwInv, HoldInv, EntryInv, Match, NoSendOnClosed

(* Accept gives a listener only connections to its own address, and no     *)
(* channel that waits for Accept has been answered before.                 *)
LEMMA RightListenerCorrect == FwInv => RightListener
<1> SUFFICES ASSUME FwInv PROVE RightListener OBVIOUS
<1>1. \A x \in Listeners : \A k \in DOMAIN queue[x] : opens[queue[x][k]].st = "waiting"
  <2> SUFFICES ASSUME NEW x \in Listeners, NEW k \in DOMAIN queue[x]
               PROVE  opens[queue[x][k]].st = "waiting"
    OBVIOUS
  <2>1. queue[x] \in Seq(Nat) BY DEF FwInv, FwType
  <2>2. queue[x] # <<>> BY <2>1
  <2>3. Len(queue[x]) = 1 /\ opens[queue[x][1]].st = "waiting" BY <2>2 DEF FwInv, QueueInv
  <2>4. k = 1 BY <2>1, <2>3
  <2> QED BY <2>3, <2>4
<1> QED BY <1>1 DEF FwInv, Answered, RightListener

(* Accept gives a listener only connections to its own address, none of    *)
(* them twice, and forward never sends on a closed Go channel.             *)
THEOREM ForwardCorrect == Spec => []ForwardSafe
<1>1. FwInv => ForwardSafe BY NoSendOnClosedCorrect, RightListenerCorrect DEF ForwardSafe
<1> QED BY <1>1, Inductive, PTL

-----------------------------------------------------------------------------
(* What waits in a queue, and that it waits in the order of its coming.    *)
In(n, q) == \E i \in DOMAIN q : q[i] = n
Rising(q) == \A i, j \in DOMAIN q : i < j => q[i] < q[j]

SeType ==
  /\ r \in Runs /\ came \in 0 .. Len(r.events)
  /\ buf \in [Streams -> Seq(Nat)] /\ reqs \in Seq(Nat) /\ dest \in Seq(Nat) /\ eof \in BOOLEAN
  /\ wm = [status |-> wm.status, signal |-> wm.signal, st |-> wm.st] /\ wm.st \in {"reading", "ended", "failed"}
  /\ call \in {"new", "started", "waiting", "copies", "returned"}
  /\ copy \in [DOMAIN copy -> {"run", "ok", "fail"}] /\ DOMAIN copy \cap Streams \subseteq r.sinks

(* After the end of the channel nothing comes, and nothing is written that *)
(* has not come.                                                           *)
WireInv == (eof => came = Len(r.events)) /\ \A n \in Nat : In(n, dest) => n <= came

(* Read from the wire and not copied: the latest output of the stream.     *)
BufInv(s) ==
  /\ Rising(buf[s]) /\ \A n \in Nat : In(n, buf[s]) => n \in Of(s) /\ n <= came
  /\ \A n, m \in Nat : In(n, buf[s]) /\ In(m, dest) /\ m \in Of(s) => m < n

(* Nothing is between the writer and what is still to be copied, but after *)
(* a failure; a copy is good only if it has met the end of the channel.    *)
CopyInv(s) ==
  /\ (s \in DOMAIN copy => copy[s] # "fail") =>
       \A n \in Of(s) : n <= came => In(n, dest) \/ In(n, buf[s])
  /\ s \in DOMAIN copy /\ copy[s] = "ok" => buf[s] = <<>> /\ eof

(* Requests wait has taken from the queue come before those in it.         *)
Past(n) == n \in Of("req") /\ n <= came /\ \A m \in Nat : In(m, reqs) => n < m

ReqInv ==
  /\ Rising(reqs) /\ \A n \in Nat : In(n, reqs) => n \in Of("req") /\ n <= came
  /\ \A n \in Of("req") : n <= came => Past(n) \/ In(n, reqs)

(* The status is that of the last such request taken from the queue.       *)
WaitInv ==
  /\ wm.st = "failed" => BadSignals # {}
  /\ wm.st # "failed" =>
       /\ \A n \in BadSignals : ~Past(n)
       /\ \/ wm.status = -1 /\ \A n \in Statuses : ~Past(n)
          \/ \E n \in Statuses : /\ Past(n) /\ r.events[n].arg = wm.status
                                 /\ \A m \in Statuses : Past(m) => m <= n
  /\ wm.st = "ended" => reqs = <<>> /\ eof

CallInv ==
  /\ call \notin {"new", "returned"} => r.sinks \subseteq DOMAIN copy
  /\ call = "new" => DOMAIN copy = {}
  /\ call # "returned" => result = "none"
  /\ call \in {"copies", "returned"} /\ result # "refused" => wm.st # "reading"
  /\ call = "returned" /\ result # "refused" =>
       /\ r.sinks \subseteq DOMAIN copy /\ \A s \in DOMAIN copy : copy[s] # "run"
       /\ result = IF verdict(wm) # "nil" THEN verdict(wm)
                   ELSE IF \E s \in DOMAIN copy : copy[s] = "fail" THEN "copy" ELSE "nil"

SeInv ==
  /\ SeType /\ WireInv /\ (\A s \in Streams : BufInv(s) /\ CopyInv(s))
  /\ Gapless /\ ReqInv /\ WaitInv /\ CallInv
-----------------------------------------------------------------------------
(* What is in a queue after a piece has been added at the end.             *)
LEMMA InAppend ==
  ASSUME NEW q \in Seq(Nat), NEW n \in Nat
  PROVE  /\ Append(q, n) \in Seq(Nat)
         /\ \A m \in Nat : In(m, Append(q, n)) <=> In(m, q) \/ m = n
         /\ Rising(q) /\ (\A m \in Nat : In(m, q) => m < n) => Rising(Append(q, n))
<1> DEFINE a == Append(q, n)
<1>1. /\ a \in Seq(Nat) /\ Len(q) \in Nat /\ DOMAIN q = 1 .. Len(q) /\ DOMAIN a = 1 .. Len(q) + 1
      /\ (\A i \in 1 .. Len(q) : a[i] = q[i] /\ q[i] \in Nat) /\ a[Len(q) + 1] = n
  OBVIOUS
<1> HIDE DEF a
<1>2. ASSUME NEW m \in Nat PROVE In(m, a) <=> In(m, q) \/ m = n
  <2>1. ASSUME NEW i \in DOMAIN a, a[i] = m PROVE In(m, q) \/ m = n
    <3>1. CASE i \in 1 .. Len(q) BY <1>1, <2>1, <3>1, Zenon DEF In
    <3>2. CASE i = Len(q) + 1 BY <1>1, <2>1, <3>2, Zenon
    <3> QED BY <1>1, <3>1, <3>2
  <2>2. ASSUME NEW i \in DOMAIN q, q[i] = m PROVE In(m, a)
    <3>1. i \in DOMAIN a /\ a[i] = m BY <1>1, <2>2
    <3> QED BY <3>1, Zenon DEF In
  <2>3. Len(q) + 1 \in DOMAIN a BY <1>1
  <2>4. In(n, a) BY <1>1, <2>3, Zenon DEF In
  <2> QED BY <2>1, <2>2, <2>4, Zenon DEF In
<1>3. ASSUME Rising(q), \A m \in Nat : In(m, q) => m < n PROVE Rising(a)
  <2>1. \A i \in 1 .. Len(q) : q[i] < n BY <1>1, <1>3, Zenon DEF In
  <2>2. ASSUME NEW i \in DOMAIN a, NEW j \in DOMAIN a, i < j PROVE a[i] < a[j]
    <3>1. i \in 1 .. Len(q) BY <1>1, <2>2
    <3>2. CASE j \in 1 .. Len(q) BY <1>1, <1>3, <2>2, <3>1, <3>2, Zenon DEF Rising
    <3>3. CASE j = Len(q) + 1 BY <1>1, <2>1, <3>1, <3>3
    <3> QED BY <1>1, <3>2, <3>3
  <2> QED BY <2>2, Zenon DEF Rising
<1> QED BY <1>1, <1>2, <1>3 DEF a

(* What is left of a queue when its first piece has been taken.            *)
LEMMA InTail ==
  ASSUME NEW q \in Seq(Nat), q # <<>>
  PROVE  /\ Tail(q) \in Seq(Nat) /\ Head(q) \in Nat /\ In(Head(q), q)
         /\ \A m \in Nat : In(m, q) <=> In(m, Tail(q)) \/ m = Head(q)
         /\ Rising(q) => Rising(Tail(q)) /\ \A m \in Nat : In(m, Tail(q)) => Head(q) < m
<1> DEFINE a == Tail(q)
<1>1. /\ a \in Seq(Nat) /\ Len(q) \in Nat /\ Len(q) >= 1 /\ DOMAIN q = 1 .. Len(q)
      /\ DOMAIN a = 1 .. Len(q) - 1 /\ (\A i \in 1 .. Len(q) - 1 : a[i] = q[i + 1])
      /\ Head(q) = q[1] /\ \A i \in 1 .. Len(q) : q[i] \in Nat
  OBVIOUS
<1> HIDE DEF a
<1>2. In(Head(q), q) /\ Head(q) \in Nat BY <1>1 DEF In
<1>3. ASSUME NEW m \in Nat PROVE In(m, q) <=> In(m, a) \/ m = Head(q)
  <2>1. ASSUME NEW i \in 1 .. Len(q), q[i] = m, i # 1 PROVE In(m, a)
    <3>1. Len(q) \in Nat /\ DOMAIN a = 1 .. Len(q) - 1 BY <1>1, Zenon
    <3>2. i - 1 \in 1 .. Len(q) - 1 /\ (i - 1) + 1 = i BY <2>1, <3>1
    <3>3. a[i - 1] = q[(i - 1) + 1] BY <1>1, <3>2, Zenon
    <3>4. i - 1 \in DOMAIN a /\ a[i - 1] = m BY <2>1, <3>1, <3>2, <3>3, Zenon
    <3> QED BY <3>4, Zenon DEF In
  <2>2. ASSUME NEW i \in DOMAIN a, a[i] = m PROVE In(m, q)
    <3>1. /\ i \in 1 .. Len(q) - 1 /\ Len(q) \in Nat /\ DOMAIN q = 1 .. Len(q)
          /\ q[i + 1] = m
      BY <1>1, <2>2, Zenon
    <3>2. i + 1 \in DOMAIN q BY <3>1
    <3> QED BY <3>1, <3>2, Zenon DEF In
  <2>3. \A i \in DOMAIN q : q[i] = m => In(m, a) \/ m = Head(q) BY <1>1, <2>1, Zenon
  <2> QED BY <1>2, <2>2, <2>3, Zenon DEF In
<1>4. ASSUME Rising(q) PROVE Rising(a) /\ \A m \in Nat : In(m, a) => Head(q) < m
  <2>1. ASSUME NEW i \in DOMAIN a, NEW j \in DOMAIN a, i < j PROVE a[i] < a[j]
    <3>1. i \in 1 .. Len(q) - 1 /\ j \in 1 .. Len(q) - 1 /\ i < j BY <1>1, <2>1, Zenon
    <3>2. DOMAIN q = 1 .. Len(q) /\ Len(q) \in Nat BY <1>1, Zenon
    <3>3. i + 1 \in DOMAIN q /\ j + 1 \in DOMAIN q BY <3>1, <3>2
    <3>4. i + 1 < j + 1 BY <3>1
    <3>5. q[i + 1] < q[j + 1] BY <1>4, <3>3, <3>4, Zenon DEF Rising
    <3> QED BY <1>1, <3>5
  <2>2. ASSUME NEW i \in DOMAIN a PROVE Head(q) < a[i]
    <3>1. /\ i \in 1 .. Len(q) - 1 /\ Len(q) \in Nat /\ DOMAIN q = 1 .. Len(q)
          /\ a[i] = q[i + 1] /\ Head(q) = q[1]
      BY <1>1, <2>2, Zenon
    <3>2. 1 \in DOMAIN q /\ i + 1 \in DOMAIN q /\ 1 < i + 1 BY <3>1
    <3>3. q[1] < q[i + 1] BY <1>4, <3>2, Zenon DEF Rising
    <3> QED BY <3>1, <3>3, Zenon
  <2> QED BY <2>1, <2>2, Zenon DEF Rising, In
<1> QED BY <1>1, <1>2, <1>3, <1>4 DEF a

(* Nothing waits in an empty queue.                                        *)
LEMMA InEmpty == \A m : ~In(m, <<>>)
  BY DEF In

-----------------------------------------------------------------------------
(* The remote's events are numbered from 1.                                *)
LEMMA Events ==
  ASSUME r \in Runs
  PROVE  /\ DOMAIN r.events = 1 .. Len(r.events) /\ Len(r.events) \in Nat
         /\ \A s : \A n \in Of(s) : n \in 1 .. Len(r.events) /\ r.events[n].t = s
         /\ \A n \in 1 .. Len(r.events) : n \in Of(r.events[n].t)
         /\ \A n \in 1 .. Len(r.events) : r.events[n].t = "close" => n = Len(r.events)
         /\ r.sinks \subseteq Streams
<1>1. r.events \in Seq({r.events[n] : n \in DOMAIN r.events}) BY RunsAssumption
<1>2. DOMAIN r.events = 1 .. Len(r.events) /\ Len(r.events) \in Nat BY <1>1
<1> QED BY <1>2, RunsAssumption DEF Of, Streams

(* The parts of the invariant that are about output and requests stay true *)
(* while the variables they are about do.                                  *)
LEMMA OutputKept ==
  ASSUME r' = r, UNCHANGED <<came, buf, eof, dest>>, NEW s,
         BufInv(s), CopyInv(s), s \in DOMAIN copy' => s \in DOMAIN copy /\ copy'[s] = copy[s],
         s \in DOMAIN copy => s \in DOMAIN copy'
  PROVE  BufInv(s)' /\ CopyInv(s)'
<1>1. Of(s)' = Of(s) BY Zenon DEF Of
<1>2. BufInv(s)' BY <1>1, Zenon DEF BufInv, In, Rising
<1>3. ((s \in DOMAIN copy => copy[s] # "fail") =>
         \A n \in Of(s) : n <= came => In(n, dest) \/ In(n, buf[s]))'
  BY <1>1, Zenon DEF CopyInv, In
<1>4. (s \in DOMAIN copy /\ copy[s] = "ok" => buf[s] = <<>> /\ eof)' BY Zenon DEF CopyInv
<1> QED BY <1>2, <1>3, <1>4, Zenon DEF CopyInv

(* What the writers have depends on nothing else.                          *)
LEMMA GaplessKept ==
  ASSUME r' = r, dest' = dest, Gapless PROVE Gapless'
<1>1. \A s : Of(s)' = Of(s) BY Zenon DEF Of
<1>2. (UNION {Of(s) : s \in r.sinks})' = UNION {Of(s) : s \in r.sinks} BY <1>1, Zenon
<1>3. ASSUME NEW i \in DOMAIN dest
      PROVE  /\ (dest[i] \in UNION {Of(s) : s \in r.sinks})'
             /\ (\A n \in Of(r.events[dest[i]].t) : n < dest[i] => \E j \in 1 .. i - 1 : dest[j] = n)'
             /\ \A j \in 1 .. i - 1 : (dest[j] # dest[i])'
  BY <1>1, <1>2, Zenon DEF Gapless
<1> QED BY <1>3, Zenon DEF Gapless

(* So does what is known of wait, as long as it takes no request.          *)
LEMMA WaitKept ==
  ASSUME r' = r, wm' = wm, \A n : Past(n)' <=> Past(n), WaitInv, (wm.st = "ended" => reqs = <<>> /\ eof)'
  PROVE  WaitInv'
<1>1. \A s : Of(s)' = Of(s) BY Zenon DEF Of
<1>2. BadSignals' = BadSignals /\ Statuses' = Statuses BY <1>1, Zenon DEF BadSignals, Statuses
<1>3. (wm.st = "failed" => BadSignals # {})' BY <1>2, Zenon DEF WaitInv
<1>4. (wm.st # "failed" => \A n \in BadSignals : ~Past(n))' BY <1>2, Zenon DEF WaitInv
<1>5. (wm.st # "failed" =>
         \/ wm.status = -1 /\ \A n \in Statuses : ~Past(n)
         \/ \E n \in Statuses : /\ Past(n) /\ r.events[n].arg = wm.status
                                /\ \A m \in Statuses : Past(m) => m <= n)'
  BY <1>2, Zenon DEF WaitInv
<1> QED BY <1>3, <1>4, <1>5, Zenon DEF WaitInv

(* And all of it if the queue stays as it is.                              *)
LEMMA RequestsKept ==
  ASSUME r' = r, UNCHANGED <<came, reqs>>
  PROVE  /\ \A n : Past(n)' <=> Past(n)
         /\ ReqInv => ReqInv'
         /\ UNCHANGED <<wm, eof>> /\ WaitInv => WaitInv'
<1>1. \A s : Of(s)' = Of(s) BY Zenon DEF Of
<1>2. \A n : In(n, reqs)' <=> In(n, reqs) BY Zenon DEF In
<1>3. \A n : Past(n)' <=> Past(n) BY <1>1, <1>2, Zenon DEF Past
<1>4. ReqInv => ReqInv' BY <1>1, <1>2, <1>3, Zenon DEF ReqInv, Rising
<1>5. ASSUME UNCHANGED <<wm, eof>>, WaitInv PROVE WaitInv'
  <2>1. (wm.st = "ended" => reqs = <<>> /\ eof)' BY <1>5 DEF WaitInv
  <2> QED BY <1>3, <1>5, <2>1, WaitKept, Zenon
<1> QED BY <1>3, <1>4, <1>5, Zenon

-----------------------------------------------------------------------------
(* The mux brings the next event: output goes to the end of its buffer, a  *)
(* request to the end of the queue.                                        *)
LEMMA ArriveStep ==
  ASSUME SeInv, Arrive PROVE SeInv'
<1> DEFINE k == came + 1
<1>1. /\ r' = r /\ call # "new" /\ came < Len(r.events) /\ came' = k
      /\ UNCHANGED <<r, wm, copy, pipeEnd, dest, call, result>>
  BY Zenon DEF Arrive
<1>2. r \in Runs /\ came \in 0 .. Len(r.events) BY Zenon DEF SeInv, SeType
<1>3. /\ DOMAIN r.events = 1 .. Len(r.events) /\ Len(r.events) \in Nat
      /\ \A s : \A n \in Of(s) : n \in 1 .. Len(r.events) /\ r.events[n].t = s
      /\ \A n \in 1 .. Len(r.events) : n \in Of(r.events[n].t)
      /\ \A n \in 1 .. Len(r.events) : r.events[n].t = "close" => n = Len(r.events)
      /\ r.sinks \subseteq Streams
  BY <1>2, Events, Zenon
<1>4. /\ came \in Nat /\ k \in Nat /\ k \in 0 .. Len(r.events) /\ k \in 1 .. Len(r.events)
      /\ \A n \in Nat : (n <= k <=> n <= came \/ n = k) /\ (n <= came => n < k)
  BY <1>1, <1>2, <1>3
<1>5. \A s : Of(s)' = Of(s) /\ Of(s) \subseteq Nat
  <2>1. \A s : Of(s) \subseteq Nat BY <1>3
  <2> QED BY <1>1, <2>1, Zenon DEF Of
<1>6. ~eof BY <1>1, <1>2, <1>3 DEF SeInv, WireInv
<1>7. wm.st # "ended" /\ \A s \in Streams \cap DOMAIN copy : copy[s] # "ok"
  BY <1>6, Zenon DEF SeInv, WaitInv, CopyInv
<1>8. CallInv' BY <1>1, Zenon DEF SeInv, CallInv
<1>9. Gapless' BY <1>1, GaplessKept, Zenon DEF SeInv
<1>10. (\A n \in Nat : In(n, dest) => n <= came)' BY <1>1, <1>4, Zenon DEF SeInv, WireInv, In
<1>11. wm = [status |-> wm.status, signal |-> wm.signal, st |-> wm.st] /\ wm.st \in {"reading", "ended", "failed"} /\ call \in {"new", "started", "waiting", "copies", "returned"}
       /\ copy \in [DOMAIN copy -> {"run", "ok", "fail"}] /\ DOMAIN copy \cap Streams \subseteq r.sinks
  BY Zenon DEF SeInv, SeType
<1> HIDE DEF k
<1>12. ASSUME NEW s \in Streams, buf'[s] = buf[s], k \notin Of(s) PROVE BufInv(s)' /\ CopyInv(s)'
  <2>1. BufInv(s) /\ CopyInv(s) BY Zenon DEF SeInv
  <2>2. \A n \in Of(s) : n <= k => n <= came BY <1>4, <1>5, <1>12, Zenon
  <2>3. \A n \in Nat : In(n, buf[s]) => n <= k BY <1>4, <2>1, Zenon DEF BufInv
  <2>4. BufInv(s)' BY <1>1, <1>5, <1>12, <2>1, <2>3, Zenon DEF BufInv, In, Rising
  <2>5. ((s \in DOMAIN copy => copy[s] # "fail") =>
           \A n \in Of(s) : n <= came => In(n, dest) \/ In(n, buf[s]))'
    BY <1>1, <1>5, <1>12, <2>1, <2>2, Zenon DEF CopyInv, In
  <2>6. (s \in DOMAIN copy /\ copy[s] = "ok" => buf[s] = <<>> /\ eof)' BY <1>1, <1>7, Zenon
  <2> QED BY <2>4, <2>5, <2>6, Zenon DEF CopyInv
<1>13. ASSUME NEW s \in Streams, buf'[s] = Append(buf[s], k), k \in Of(s) PROVE BufInv(s)' /\ CopyInv(s)'
  <2>1. BufInv(s) /\ CopyInv(s) /\ buf[s] \in Seq(Nat) BY Zenon DEF SeInv, SeType
  <2>2. \A n \in Nat : In(n, buf[s]) => n < k BY <1>4, <2>1, Zenon DEF BufInv
  <2>3. /\ \A m \in Nat : In(m, buf'[s]) <=> In(m, buf[s]) \/ m = k
        /\ Rising(buf'[s])
    <3>1. Rising(buf[s]) BY <2>1, Zenon DEF BufInv
    <3>2. /\ \A m \in Nat : In(m, Append(buf[s], k)) <=> In(m, buf[s]) \/ m = k
          /\ Rising(Append(buf[s], k))
      BY <1>4, <2>1, <2>2, <3>1, InAppend, Zenon
    <3> QED BY <1>13, <3>2, Zenon
  <2>4. \A n \in Nat : In(n, buf'[s]) => n \in Of(s) /\ n <= k
    BY <1>4, <1>13, <2>1, <2>3, Zenon DEF BufInv
  <2>5. \A n, m \in Nat : In(n, buf'[s]) /\ In(m, dest) /\ m \in Of(s) => m < n
    BY <1>4, <2>1, <2>3, Zenon DEF BufInv, SeInv, WireInv
  <2>6. BufInv(s)'
    <3>1. dest' = dest /\ came' = k /\ Of(s)' = Of(s) BY <1>1, <1>5, Zenon
    <3> QED BY <2>3, <2>4, <2>5, <3>1, Zenon DEF BufInv, In, Rising
  <2>7. (s \in DOMAIN copy => copy[s] # "fail") =>
           \A n \in Of(s) : n <= k => In(n, dest) \/ In(n, buf'[s])
    BY <1>4, <1>5, <2>1, <2>3, Zenon DEF CopyInv
  <2>8. CopyInv(s)'
    <3>1. dest' = dest /\ came' = k /\ Of(s)' = Of(s) /\ copy' = copy BY <1>1, <1>5, Zenon
    <3> QED BY <1>7, <2>7, <3>1, Zenon DEF CopyInv, In
  <2> QED BY <2>6, <2>8, Zenon
<1>14. ASSUME \A n : Past(n)' <=> Past(n) PROVE WaitInv'
  <2>1. (wm.st = "ended" => reqs = <<>> /\ eof)' BY <1>1, <1>7, Zenon
  <2> QED BY <1>1, <1>14, <2>1, WaitKept, Zenon DEF SeInv
<1>15. ASSUME UNCHANGED reqs, k \notin Of("req") PROVE ReqInv' /\ WaitInv'
  <2>1. \A n \in Of("req") : n <= k <=> n <= came BY <1>4, <1>5, <1>15, Zenon
  <2>2. \A n : Past(n)' <=> Past(n) BY <1>1, <1>5, <1>15, <2>1, Zenon DEF Past, In
  <2>3. \A n \in Nat : In(n, reqs) => n \in Of("req") /\ n <= k BY <1>4, Zenon DEF SeInv, ReqInv
  <2>4. ReqInv' BY <1>1, <1>5, <1>15, <2>1, <2>2, <2>3, Zenon DEF SeInv, ReqInv, In, Rising
  <2> QED BY <1>14, <2>2, <2>4, Zenon
<1>16. ASSUME reqs' = Append(reqs, k), k \in Of("req") PROVE ReqInv' /\ WaitInv' /\ reqs' \in Seq(Nat)
  <2>1. reqs \in Seq(Nat) /\ ReqInv BY Zenon DEF SeInv, SeType
  <2>2. \A n \in Nat : In(n, reqs) => n < k BY <1>4, <2>1, Zenon DEF ReqInv
  <2>3. /\ \A m \in Nat : In(m, reqs') <=> In(m, reqs) \/ m = k
        /\ Rising(reqs') /\ reqs' \in Seq(Nat)
    BY <1>4, <1>16, <2>1, <2>2, InAppend, Zenon DEF ReqInv
  <2>4. \A n \in Nat : In(n, reqs') => n \in Of("req") /\ n <= k
    BY <1>4, <1>16, <2>1, <2>3, Zenon DEF ReqInv
  <2>5. \A n \in Nat : n <= k /\ n < k => n <= came BY <1>4
  <2>6. \A n : Past(n)' <=> Past(n)
    <3>1. came' = k /\ Of("req")' = Of("req") BY <1>1, <1>5, Zenon
    <3>2. \A n \in Of("req") : n <= k /\ (\A m \in Nat : In(m, reqs') => n < m) <=>
                               n <= came /\ (\A m \in Nat : In(m, reqs) => n < m)
      BY <1>4, <1>5, <2>3, <2>5, Zenon
    <3> QED BY <3>1, <3>2, Zenon DEF Past, In
  <2>7. \A n \in Of("req") : n <= k => Past(n) \/ In(n, reqs')
    BY <1>4, <1>5, <2>1, <2>3, Zenon DEF ReqInv
  <2>8. ReqInv'
    <3>1. came' = k /\ Of("req")' = Of("req") BY <1>1, <1>5, Zenon
    <3> QED BY <2>3, <2>4, <2>6, <2>7, <3>1, Zenon DEF ReqInv, In, Rising
  <2> QED BY <1>14, <2>3, <2>6, <2>8, Zenon
<1>17. buf \in [Streams -> Seq(Nat)] /\ reqs \in Seq(Nat) /\ dest' \in Seq(Nat) /\ eof \in BOOLEAN
  BY <1>1, Zenon DEF SeInv, SeType
<1>18. ASSUME buf' \in [Streams -> Seq(Nat)], reqs' \in Seq(Nat), eof' \in BOOLEAN PROVE SeType'
  BY <1>1, <1>2, <1>4, <1>11, <1>17, <1>18, Zenon DEF SeType
<1>19. \A s, x : k \in Of(s) /\ r.events[k].t = x => s = x BY <1>3, Zenon
<1>20. CASE r.events[k].t \in Streams /\ buf' = [buf EXCEPT ![r.events[k].t] = Append(@, k)] /\ UNCHANGED <<reqs, eof>>
  <2> DEFINE x == r.events[k].t
  <2>1. x \in Streams /\ k \in Of(x) /\ reqs' = reqs /\ eof' = eof BY <1>3, <1>4, <1>20, Zenon
  <2>2. x # "req" BY <2>1 DEF Streams
  <2>3. buf' = [buf EXCEPT ![x] = Append(buf[x], k)] BY <1>20, Zenon
  <2> HIDE DEF x
  <2>4. buf[x] \in Seq(Nat) BY <1>17, <2>1, Zenon
  <2>5. Append(buf[x], k) \in Seq(Nat) BY <1>4, <2>4, InAppend, Zenon
  <2>6. buf' \in [Streams -> Seq(Nat)] /\ buf'[x] = Append(buf[x], k) /\ \A s \in Streams \ {x} : buf'[s] = buf[s]
    BY <1>17, <2>1, <2>3, <2>5
  <2>7. SeType' BY <1>17, <1>18, <2>1, <2>6, Zenon
  <2>8. \A s \in Streams : BufInv(s)' /\ CopyInv(s)'
    <3>1. \A s \in Streams \ {x} : k \notin Of(s) BY <1>19, Zenon DEF x
    <3> QED BY <1>12, <1>13, <2>1, <2>6, <3>1, Zenon
  <2>9. ReqInv' /\ WaitInv' BY <1>15, <1>19, <2>1, <2>2, Zenon DEF x
  <2>10. WireInv' BY <1>6, <1>10, <2>1, Zenon DEF WireInv
  <2> QED BY <1>8, <1>9, <2>7, <2>8, <2>9, <2>10, Zenon DEF SeInv
<1>21. CASE r.events[k].t = "req" /\ reqs' = Append(reqs, k) /\ UNCHANGED <<buf, eof>>
  <2>1. k \in Of("req") /\ buf' = buf /\ eof' = eof BY <1>3, <1>4, <1>21, Zenon
  <2>2. \A s \in Streams : k \notin Of(s) BY <1>19, <1>21 DEF Streams
  <2>3. ReqInv' /\ WaitInv' /\ reqs' \in Seq(Nat) BY <1>16, <1>21, <2>1, Zenon
  <2>4. SeType' BY <1>17, <1>18, <2>1, <2>3, Zenon
  <2>5. \A s \in Streams : BufInv(s)' /\ CopyInv(s)' BY <1>12, <2>1, <2>2, Zenon
  <2>6. WireInv' BY <1>6, <1>10, <2>1, Zenon DEF WireInv
  <2> QED BY <1>8, <1>9, <2>3, <2>4, <2>5, <2>6, Zenon DEF SeInv
<1>22. CASE r.events[k].t = "close" /\ eof' = TRUE /\ UNCHANGED <<buf, reqs>>
  <2>1. buf' = buf /\ reqs' = reqs /\ eof' \in BOOLEAN BY <1>22
  <2>2. k \notin Of("req") /\ \A s \in Streams : k \notin Of(s) BY <1>19, <1>22 DEF Streams
  <2>3. SeType' BY <1>17, <1>18, <2>1, Zenon
  <2>4. \A s \in Streams : BufInv(s)' /\ CopyInv(s)' BY <1>12, <2>1, <2>2, Zenon
  <2>5. ReqInv' /\ WaitInv' BY <1>15, <2>1, <2>2, Zenon
  <2>6. k = Len(r.events) BY <1>3, <1>4, <1>22, Zenon
  <2>7. WireInv' BY <1>1, <1>10, <2>6, Zenon DEF WireInv
  <2> QED BY <1>8, <1>9, <2>3, <2>4, <2>5, <2>7, Zenon DEF SeInv
<1> QED BY <1>20, <1>21, <1>22, Zenon DEF Arrive, k

(* wait takes the first request of the queue: it becomes the last one      *)
(* taken, and its status the status.                                       *)
LEMMA WaitReadsStep ==
  ASSUME SeInv, WaitReads PROVE SeInv'
<1> DEFINE h == Head(reqs)
           q == r.events[h]
<1>1. /\ r' = r /\ wm.st = "reading" /\ reqs # <<>> /\ reqs' = Tail(reqs)
      /\ UNCHANGED <<r, came, buf, eof, copy, pipeEnd, dest, call, result>>
  BY Zenon DEF WaitReads
<1>2. r \in Runs /\ reqs \in Seq(Nat) /\ ReqInv /\ WaitInv /\ CallInv BY Zenon DEF SeInv, SeType
<1>3. \A s : Of(s)' = Of(s) /\ Of(s) \subseteq Nat
  <2>1. \A s : Of(s) \subseteq Nat BY <1>2, Events
  <2> QED BY <1>1, <2>1, Zenon DEF Of
<1>4. /\ reqs' \in Seq(Nat) /\ h \in Nat /\ In(h, reqs)
      /\ (\A m \in Nat : In(m, reqs) <=> In(m, reqs') \/ m = h)
      /\ Rising(reqs') /\ (\A m \in Nat : In(m, reqs') => h < m)
  <2>1. Rising(reqs) BY <1>2, Zenon DEF ReqInv
  <2> QED BY <1>1, <1>2, <2>1, InTail, Zenon
<1>5. wm' = CASE q.name = "exit-status" -> [wm EXCEPT !.status = q.arg]
              [] q.name = "exit-signal" -> [wm EXCEPT !.signal = "TERM"]
              [] q.name = "bad-signal" -> [wm EXCEPT !.st = "failed"]
              [] OTHER -> wm
  BY Zenon DEF WaitReads
<1>6. wm = [status |-> wm.status, signal |-> wm.signal, st |-> wm.st] BY Zenon DEF SeInv, SeType
<1>7. h \in Of("req") /\ h <= came BY <1>2, <1>4, Zenon DEF ReqInv
<1> HIDE DEF h, q
<1>8. /\ wm' = [status |-> wm'.status, signal |-> wm'.signal, st |-> wm'.st]
      /\ wm'.st = (IF q.name = "bad-signal" THEN "failed" ELSE "reading")
      /\ wm'.status = (IF q.name = "exit-status" THEN q.arg ELSE wm.status)
  BY <1>1, <1>5, <1>6
<1>9. \A n, m \in Nat : ~(n < m /\ n = m) /\ (n < m => n <= m) /\ n <= n OBVIOUS
<1>10. \A n \in Nat : Past(n)' <=> Past(n) \/ n = h
  <2>1. ASSUME NEW n \in Nat, n \in Of("req"), n <= came
        PROVE  (\A m \in Nat : In(m, reqs') => n < m) <=> (\A m \in Nat : In(m, reqs) => n < m) \/ n = h
    <3>1. n = h => \A m \in Nat : In(m, reqs') => n < m BY <1>4, Zenon
    <3>2. (\A m \in Nat : In(m, reqs) => n < m) => \A m \in Nat : In(m, reqs') => n < m BY <1>4, Zenon
    <3>3. ASSUME \A m \in Nat : In(m, reqs') => n < m, n # h PROVE \A m \in Nat : In(m, reqs) => n < m
      <4>1. ~In(n, reqs') BY <1>9, <3>3, Zenon
      <4>2. ~In(n, reqs) BY <1>4, <3>3, <4>1, Zenon
      <4> QED BY <1>2, <2>1, <4>2, Zenon DEF ReqInv, Past
    <3> QED BY <3>1, <3>2, <3>3, Zenon
  <2> QED BY <1>1, <1>3, <1>7, <2>1, Zenon DEF Past, In
<1>11. \A n \in Nat : Past(n) => n < h BY <1>4, Zenon DEF Past
<1>12. ReqInv'
  <2>1. \A n \in Nat : In(n, reqs') => n \in Of("req") /\ n <= came BY <1>2, <1>4, Zenon DEF ReqInv
  <2>2. \A n \in Of("req") : n <= came => Past(n)' \/ In(n, reqs')
    BY <1>2, <1>3, <1>4, <1>10, Zenon DEF ReqInv
  <2> QED BY <1>1, <1>3, <1>4, <2>1, <2>2, Zenon DEF ReqInv, In, Rising
<1>13. WaitInv'
  <2>1. BadSignals' = BadSignals /\ Statuses' = Statuses BY <1>1, <1>3, Zenon DEF BadSignals, Statuses
  <2>2. BadSignals \subseteq Nat /\ Statuses \subseteq Nat BY <1>3, Zenon DEF BadSignals, Statuses
  <2>3. h \in BadSignals <=> q.name = "bad-signal" BY <1>7, Zenon DEF BadSignals, q
  <2>4. h \in Statuses <=> q.name = "exit-status" BY <1>7, Zenon DEF Statuses, q
  <2>5. (wm.st = "failed" => BadSignals # {})' BY <1>8, <2>1, <2>3
  <2>6. \A n \in BadSignals : ~Past(n) BY <1>1, <1>2 DEF WaitInv
  <2>7. wm'.st # "failed" => \A n \in BadSignals : ~Past(n)' BY <1>8, <1>10, <2>2, <2>3, <2>6, Zenon
  <2>8. CASE q.name = "exit-status"
    <3> PICK k \in Nat : k = h BY <1>4, Zenon
    <3>1. Past(k)' /\ k \in Statuses /\ r.events[k].arg = wm'.status BY <1>8, <1>10, <2>4, <2>8, Zenon DEF q
    <3>2. \A m \in Statuses : Past(m)' => m <= k BY <1>9, <1>10, <1>11, <2>2, Zenon
    <3>3. (wm.st # "failed" =>
             \/ wm.status = -1 /\ \A n \in Statuses : ~Past(n)
             \/ \E n \in Statuses : /\ Past(n) /\ r.events[n].arg = wm.status
                                    /\ \A m \in Statuses : Past(m) => m <= n)'
      BY <1>1, <2>1, <3>1, <3>2, Zenon
    <3>4. wm'.st # "ended" BY <1>8
    <3> QED BY <2>1, <2>5, <2>7, <3>3, <3>4, Zenon DEF WaitInv
  <2>9. CASE q.name # "exit-status"
    <3>1. \A n \in Statuses : Past(n)' <=> Past(n) BY <1>10, <2>2, <2>4, <2>9, Zenon
    <3>2. wm'.status = wm.status BY <1>8, <2>9, Zenon
    <3>3. \/ wm.status = -1 /\ \A n \in Statuses : ~Past(n)
          \/ \E n \in Statuses : /\ Past(n) /\ r.events[n].arg = wm.status
                                 /\ \A m \in Statuses : Past(m) => m <= n
      BY <1>1, <1>2 DEF WaitInv
    <3>4. (wm.st # "failed" =>
             \/ wm.status = -1 /\ \A n \in Statuses : ~Past(n)
             \/ \E n \in Statuses : /\ Past(n) /\ r.events[n].arg = wm.status
                                    /\ \A m \in Statuses : Past(m) => m <= n)'
      BY <1>1, <2>1, <3>1, <3>2, <3>3, Zenon
    <3>5. wm'.st # "ended" BY <1>8
    <3> QED BY <2>1, <2>5, <2>7, <3>4, <3>5, Zenon DEF WaitInv
  <2> QED BY <2>8, <2>9, Zenon
<1>14. SeType' BY <1>1, <1>4, <1>8 DEF SeInv, SeType
<1>15. \A s \in Streams : BufInv(s)' /\ CopyInv(s)' BY <1>1, OutputKept, Zenon DEF SeInv
<1>16. WireInv' /\ Gapless'
  <2>1. WireInv' BY <1>1 DEF SeInv, WireInv, In
  <2> QED BY <1>1, <2>1, GaplessKept, Zenon DEF SeInv
<1>17. CallInv'
  <2>1. ~(call \in {"copies", "returned"} /\ result # "refused") BY <1>1, <1>2, Zenon DEF CallInv
  <2> QED BY <1>1, <1>2, <2>1, Zenon DEF CallInv
<1> QED BY <1>12, <1>13, <1>14, <1>15, <1>16, <1>17, Zenon DEF SeInv

(* A copy that goes on or ends leaves the call as it is: Wait has not      *)
(* returned.                                                               *)
LEMMA CopyEnds ==
  ASSUME SeInv, NEW s \in DOMAIN copy, copy[s] = "run", NEW v \in {"run", "ok", "fail"},
         copy' = [copy EXCEPT ![s] = v], UNCHANGED <<r, wm, call, result>>
  PROVE  /\ CallInv' /\ DOMAIN copy' = DOMAIN copy /\ copy'[s] = v
         /\ copy' \in [DOMAIN copy' -> {"run", "ok", "fail"}]
         /\ \A x \in DOMAIN copy \ {s} : copy'[x] = copy[x]
<1>1. copy \in [DOMAIN copy -> {"run", "ok", "fail"}] /\ CallInv BY Zenon DEF SeInv, SeType
<1>2. /\ DOMAIN copy' = DOMAIN copy /\ copy'[s] = v
      /\ copy' \in [DOMAIN copy' -> {"run", "ok", "fail"}]
      /\ \A x \in DOMAIN copy \ {s} : copy'[x] = copy[x]
  BY <1>1
<1>3. ~(call = "returned" /\ result # "refused") BY <1>1, Zenon DEF CallInv
<1>4. CallInv' BY <1>1, <1>2, <1>3, Zenon DEF CallInv
<1> QED BY <1>2, <1>4, Zenon

(* A piece of output goes from the buffer of its stream to the writer.     *)
LEMMA CopyWrites ==
  ASSUME SeInv, NEW s \in Streams, s \in DOMAIN copy, copy[s] = "run", buf[s] # <<>>,
         dest' = Append(dest, Head(buf[s])), buf' = [buf EXCEPT ![s] = Tail(@)],
         UNCHANGED <<r, came, eof, reqs, wm, copy, pipeEnd, call, result>>
  PROVE  SeInv'
<1>1. r' = r /\ came' = came /\ eof' = eof /\ reqs' = reqs /\ wm' = wm /\ copy' = copy /\ call' = call /\ result' = result
  OBVIOUS
<1>2. /\ r \in Runs /\ buf \in [Streams -> Seq(Nat)] /\ dest \in Seq(Nat) /\ s \in r.sinks
      /\ ReqInv /\ WaitInv /\ CallInv /\ WireInv /\ Gapless /\ \A x \in Streams : BufInv(x) /\ CopyInv(x)
  BY Zenon DEF SeInv, SeType
<1>3. PICK h : h = Head(buf[s]) OBVIOUS
<1>4. \A x : Of(x)' = Of(x) /\ Of(x) \subseteq Nat /\ \A n \in Of(x) : r.events[n].t = x
  <2>1. \A x : Of(x) \subseteq Nat /\ \A n \in Of(x) : r.events[n].t = x BY <1>2, Events
  <2> QED BY <1>1, <2>1, Zenon DEF Of
<1>5. buf[s] \in Seq(Nat) /\ Rising(buf[s]) BY <1>2, Zenon DEF BufInv
<1>6. /\ Tail(buf[s]) \in Seq(Nat) /\ h \in Nat /\ In(h, buf[s])
      /\ (\A m \in Nat : In(m, buf[s]) <=> In(m, Tail(buf[s])) \/ m = h)
      /\ Rising(Tail(buf[s])) /\ (\A m \in Nat : In(m, Tail(buf[s])) => h < m)
  BY <1>3, <1>5, InTail, Zenon
<1>7. /\ dest' = Append(dest, h) /\ dest' \in Seq(Nat)
      /\ \A m \in Nat : In(m, dest') <=> In(m, dest) \/ m = h
  BY <1>2, <1>3, <1>6, InAppend, Zenon
<1>8. buf' \in [Streams -> Seq(Nat)] /\ buf'[s] = Tail(buf[s]) /\ \A x \in Streams \ {s} : buf'[x] = buf[x]
  BY <1>2, <1>6
<1>9. h \in Of(s) /\ h <= came BY <1>2, <1>6, Zenon DEF BufInv
<1>10. \A n, m \in Nat : ~(n < m /\ n = m) /\ ~(n < m /\ m < n) OBVIOUS
<1>11. \A x \in Streams : BufInv(x)' /\ CopyInv(x)'
  <2> SUFFICES ASSUME NEW x \in Streams PROVE BufInv(x)' /\ CopyInv(x)' OBVIOUS
  <2>1. \A m \in Nat : In(m, buf'[x]) <=> In(m, buf[x]) /\ ~(x = s /\ m = h)
    <3>1. CASE x = s BY <1>6, <1>8, <1>10, <3>1, Zenon
    <3>2. CASE x # s BY <1>8, <3>2, Zenon
    <3> QED BY <3>1, <3>2, Zenon
  <2>2. Rising(buf'[x]) BY <1>2, <1>6, <1>8, Zenon DEF BufInv
  <2>3. \A n, m \in Nat : In(n, buf'[x]) /\ In(m, dest') /\ m \in Of(x) => m < n
    <3> SUFFICES ASSUME NEW n \in Nat, NEW m \in Nat, In(n, buf'[x]), In(m, dest'), m \in Of(x) PROVE m < n
      BY Zenon
    <3>1. CASE In(m, dest) BY <1>2, <2>1, <3>1, Zenon DEF BufInv
    <3>2. CASE m = h
      <4>1. x = s BY <1>4, <1>9, <3>2, Zenon
      <4> QED BY <1>6, <1>8, <3>2, <4>1, Zenon
    <3> QED BY <1>7, <3>1, <3>2, Zenon
  <2>4. BufInv(x)'
    <3>1. \A n \in Nat : In(n, buf'[x]) => n \in Of(x) /\ n <= came BY <1>2, <2>1, Zenon DEF BufInv
    <3>2. Of(x)' = Of(x) BY <1>4, Zenon
    <3> QED BY <1>1, <2>2, <2>3, <3>1, <3>2, Zenon DEF BufInv, In, Rising
  <2>5. (x \in DOMAIN copy => copy[x] # "fail") =>
          \A n \in Of(x) : n <= came => In(n, dest') \/ In(n, buf'[x])
    BY <1>2, <1>4, <1>7, <2>1, Zenon DEF CopyInv
  <2>6. x \in DOMAIN copy /\ copy[x] = "ok" => buf'[x] = <<>> /\ eof BY <1>2, <1>8 DEF CopyInv
  <2>7. CopyInv(x)'
    <3>1. Of(x)' = Of(x) BY <1>4, Zenon
    <3> QED BY <1>1, <2>5, <2>6, <3>1 DEF CopyInv, In
  <2> QED BY <2>4, <2>7, Zenon
<1>12. Gapless'
  <2>1. /\ Len(dest) \in Nat /\ DOMAIN dest = 1 .. Len(dest) /\ DOMAIN dest' = 1 .. Len(dest) + 1
        /\ (\A i \in 1 .. Len(dest) : dest'[i] = dest[i] /\ dest[i] \in Nat) /\ dest'[Len(dest) + 1] = h
    BY <1>2, <1>6, <1>7
  <2>2. (UNION {Of(x) : x \in r.sinks})' = UNION {Of(x) : x \in r.sinks} BY <1>1, <1>4, Zenon
  <2>3. ASSUME NEW i \in 1 .. Len(dest)
        PROVE  /\ dest'[i] \in UNION {Of(x) : x \in r.sinks}
               /\ \A n \in Of(r.events[dest'[i]].t) : n < dest'[i] => \E j \in 1 .. i - 1 : dest'[j] = n
               /\ \A j \in 1 .. i - 1 : dest'[j] # dest'[i]
    <3>1. \A j \in 1 .. i - 1 : j \in 1 .. Len(dest) BY <2>1
    <3>2. dest'[i] = dest[i] /\ \A j \in 1 .. i - 1 : dest'[j] = dest[j] BY <2>1, <3>1, Zenon
    <3>3. /\ dest[i] \in UNION {Of(x) : x \in r.sinks}
          /\ \A n \in Of(r.events[dest[i]].t) : n < dest[i] => \E j \in 1 .. i - 1 : dest[j] = n
          /\ \A j \in 1 .. i - 1 : dest[j] # dest[i]
      BY <1>2, <2>1, Zenon DEF Gapless
    <3>4. dest'[i] \in UNION {Of(x) : x \in r.sinks} BY <3>2, <3>3, Zenon
    <3>5. \A n \in Of(r.events[dest'[i]].t) : n < dest'[i] => \E j \in 1 .. i - 1 : dest'[j] = n
      BY <3>2, <3>3, Zenon
    <3>6. \A j \in 1 .. i - 1 : dest'[j] # dest'[i] BY <3>2, <3>3, Zenon
    <3> QED BY <3>4, <3>5, <3>6, Zenon
  <2>4. /\ h \in UNION {Of(x) : x \in r.sinks}
        /\ \A n \in Of(r.events[h].t) : n < h => \E j \in 1 .. Len(dest) : dest'[j] = n
        /\ \A j \in 1 .. Len(dest) : dest'[j] # h
    <3>1. h \in UNION {Of(x) : x \in r.sinks} BY <1>2, <1>9, Zenon
    <3>2. ASSUME NEW n \in Of(s), n < h PROVE In(n, dest)
      <4>1. n \in Nat /\ h \in Nat /\ came \in Nat BY <1>2, <1>4, <1>6, Events DEF SeInv, SeType
      <4>2. n <= came BY <1>9, <3>2, <4>1
      <4>3. ~In(n, buf[s]) BY <1>6, <1>10, <3>2, <4>1, Zenon
      <4> QED BY <1>2, <4>2, <4>3, Zenon DEF CopyInv
    <3>3. ~In(h, dest) BY <1>2, <1>6, <1>9, <1>10, Zenon DEF BufInv
    <3>4. r.events[h].t = s BY <1>4, <1>9, Zenon
    <3>5. \A n \in Of(r.events[h].t) : n < h => \E j \in 1 .. Len(dest) : dest'[j] = n
      BY <2>1, <3>2, <3>4, Zenon DEF In
    <3>6. \A j \in 1 .. Len(dest) : dest'[j] # h BY <2>1, <3>3, Zenon DEF In
    <3> QED BY <3>1, <3>5, <3>6, Zenon
  <2>5. ASSUME NEW i \in 1 .. Len(dest) + 1
        PROVE  /\ dest'[i] \in UNION {Of(x) : x \in r.sinks}
               /\ \A n \in Of(r.events[dest'[i]].t) : n < dest'[i] => \E j \in 1 .. i - 1 : dest'[j] = n
               /\ \A j \in 1 .. i - 1 : dest'[j] # dest'[i]
    <3>1. CASE i = Len(dest) + 1
      <4>1. 1 .. i - 1 = 1 .. Len(dest) /\ dest'[i] = h BY <2>1, <3>1
      <4>2. dest'[i] \in UNION {Of(x) : x \in r.sinks} BY <2>4, <4>1, Zenon
      <4>3. \A n \in Of(r.events[dest'[i]].t) : n < dest'[i] => \E j \in 1 .. i - 1 : dest'[j] = n
        BY <2>4, <4>1, Zenon
      <4>4. \A j \in 1 .. i - 1 : dest'[j] # dest'[i] BY <2>4, <4>1, Zenon
      <4> QED BY <4>2, <4>3, <4>4, Zenon
    <3>2. CASE i \in 1 .. Len(dest) BY <2>3, <3>2, Zenon
    <3>3. i = Len(dest) + 1 \/ i \in 1 .. Len(dest) BY <2>1
    <3> QED BY <3>1, <3>2, <3>3, Zenon
  <2>6. \A x : Of(x)' = Of(x) BY <1>4, Zenon
  <2>7. ASSUME NEW i \in DOMAIN dest'
        PROVE  /\ (dest[i] \in UNION {Of(x) : x \in r.sinks})'
               /\ (\A n \in Of(r.events[dest[i]].t) : n < dest[i] => \E j \in 1 .. i - 1 : dest[j] = n)'
               /\ (\A j \in 1 .. i - 1 : dest[j] # dest[i])'
    <3>1. i \in 1 .. Len(dest) + 1 BY <2>1, Zenon
    <3>2. (dest[i] \in UNION {Of(x) : x \in r.sinks})' BY <2>2, <2>5, <3>1, Zenon
    <3>3. (\A n \in Of(r.events[dest[i]].t) : n < dest[i] => \E j \in 1 .. i - 1 : dest[j] = n)'
      <4>1. \A n \in Of(r.events[dest'[i]].t) : n < dest'[i] => \E j \in 1 .. i - 1 : dest'[j] = n
        BY <2>5, <3>1, Zenon
      <4>2. r' = r BY <1>1, Zenon
      <4>3. Of(r.events[dest[i]].t)' = Of(r.events[dest'[i]].t) BY <2>6, <4>2, Zenon
      <4> QED BY <4>1, <4>3, Zenon
    <3>4. (\A j \in 1 .. i - 1 : dest[j] # dest[i])' BY <2>5, <3>1, Zenon
    <3> QED BY <3>2, <3>3, <3>4, Zenon
  <2> QED BY <2>7, Zenon DEF Gapless
<1>13. WireInv'
  <2>1. \A n \in Nat : In(n, dest') => n <= came BY <1>2, <1>7, <1>9, Zenon DEF WireInv
  <2>2. (\A n \in Nat : In(n, dest) => n <= came)' BY <1>1, <2>1, Zenon DEF In
  <2>3. (eof => came = Len(r.events))' BY <1>1, <1>2 DEF WireInv
  <2> QED BY <2>2, <2>3, Zenon DEF WireInv
<1>14. SeType' BY <1>1, <1>7, <1>8, Zenon DEF SeInv, SeType
<1>15. ReqInv' /\ WaitInv' BY <1>1, <1>2, RequestsKept, Zenon
<1>16. CallInv' BY <1>1, <1>2, Zenon DEF CallInv
<1> QED BY <1>11, <1>12, <1>13, <1>14, <1>15, <1>16, Zenon DEF SeInv

(* A copy ends: its writer fails and the piece is lost, or the channel is  *)
(* at its end and the buffer empty.                                        *)
LEMMA CopyStops ==
  ASSUME SeInv, NEW s \in Streams, s \in DOMAIN copy, copy[s] = "run",
         UNCHANGED <<r, came, eof, reqs, wm, pipeEnd, dest, call, result>>,
         \/ buf[s] # <<>> /\ copy' = [copy EXCEPT ![s] = "fail"] /\ buf' = [buf EXCEPT ![s] = Tail(@)]
         \/ buf[s] = <<>> /\ eof /\ copy' = [copy EXCEPT ![s] = "ok"] /\ buf' = buf
  PROVE  SeInv'
<1>1. r' = r /\ came' = came /\ eof' = eof /\ reqs' = reqs /\ wm' = wm /\ dest' = dest /\ call' = call /\ result' = result
  OBVIOUS
<1>2. /\ r \in Runs /\ buf \in [Streams -> Seq(Nat)] /\ WireInv /\ Gapless /\ ReqInv /\ WaitInv
      /\ \A x \in Streams : BufInv(x) /\ CopyInv(x)
  BY Zenon DEF SeInv, SeType
<1>3. /\ CallInv' /\ DOMAIN copy' = DOMAIN copy /\ copy' \in [DOMAIN copy' -> {"run", "ok", "fail"}]
      /\ \A x \in DOMAIN copy \ {s} : copy'[x] = copy[x]
      /\ copy'[s] = "fail" \/ (copy'[s] = "ok" /\ buf[s] = <<>> /\ eof /\ buf' = buf)
  <2>1. CASE copy' = [copy EXCEPT ![s] = "fail"] BY <1>1, <2>1, CopyEnds, Zenon
  <2>2. CASE buf[s] = <<>> /\ eof /\ copy' = [copy EXCEPT ![s] = "ok"] /\ buf' = buf BY <1>1, <2>2, CopyEnds, Zenon
  <2> QED BY <2>1, <2>2, Zenon
<1>4. buf[s] \in Seq(Nat) /\ Rising(buf[s]) BY <1>2, Zenon DEF BufInv
<1>5. /\ buf' \in [Streams -> Seq(Nat)] /\ \A x \in Streams \ {s} : buf'[x] = buf[x]
      /\ Rising(buf'[s]) /\ \A m \in Nat : In(m, buf'[s]) => In(m, buf[s])
  <2>1. CASE buf' = buf BY <1>2, <1>4, <2>1, Zenon
  <2>2. CASE buf[s] # <<>> /\ buf' = [buf EXCEPT ![s] = Tail(@)]
    <3>1. /\ Tail(buf[s]) \in Seq(Nat) /\ Rising(Tail(buf[s]))
          /\ \A m \in Nat : In(m, Tail(buf[s])) => In(m, buf[s])
      BY <1>4, <2>2, InTail, Zenon
    <3>2. buf' \in [Streams -> Seq(Nat)] /\ buf'[s] = Tail(buf[s]) /\ \A x \in Streams \ {s} : buf'[x] = buf[x]
      BY <1>2, <2>2, <3>1
    <3> QED BY <3>1, <3>2, Zenon
  <2> QED BY <2>1, <2>2, Zenon
<1>6. \A x : Of(x)' = Of(x) BY <1>1, Zenon DEF Of
<1>7. \A x \in Streams : BufInv(x)' /\ CopyInv(x)'
  <2> SUFFICES ASSUME NEW x \in Streams PROVE BufInv(x)' /\ CopyInv(x)' OBVIOUS
  <2>1. Rising(buf'[x]) /\ \A m \in Nat : In(m, buf'[x]) => In(m, buf[x]) BY <1>2, <1>5, Zenon DEF BufInv
  <2>2. BufInv(x)'
    <3>1. \A n \in Nat : In(n, buf'[x]) => n \in Of(x) /\ n <= came BY <1>2, <2>1, Zenon DEF BufInv
    <3>2. \A n, m \in Nat : In(n, buf'[x]) /\ In(m, dest) /\ m \in Of(x) => m < n BY <1>2, <2>1, Zenon DEF BufInv
    <3> QED BY <1>1, <1>6, <2>1, <3>1, <3>2, Zenon DEF BufInv, In, Rising
  <2>3. CASE x = s /\ copy'[s] = "fail" BY <1>3, <2>2, <2>3 DEF CopyInv
  <2>4. CASE x = s /\ copy'[s] = "ok" /\ buf[s] = <<>> /\ eof /\ buf' = buf
    <3>1. \A n \in Of(s) : n <= came => In(n, dest) \/ In(n, buf[s]) BY <1>2, Zenon DEF CopyInv
    <3>2. (\A n \in Of(s) : n <= came => In(n, dest) \/ In(n, buf[s]))' BY <1>1, <1>6, <2>4, <3>1, Zenon DEF In
    <3>3. buf'[s] = <<>> /\ eof' BY <1>1, <2>4
    <3> QED BY <2>2, <2>4, <3>2, <3>3, Zenon DEF CopyInv
  <2>5. CASE x # s
    <3>1. (x \in DOMAIN copy' => x \in DOMAIN copy /\ copy'[x] = copy[x]) /\ (x \in DOMAIN copy => x \in DOMAIN copy')
      BY <1>3, <2>5, Zenon
    <3>2. buf'[x] = buf[x] /\ CopyInv(x) BY <1>2, <1>5, <2>5, Zenon
    <3>3. ((x \in DOMAIN copy => copy[x] # "fail") =>
             \A n \in Of(x) : n <= came => In(n, dest) \/ In(n, buf[x]))'
      BY <1>1, <1>6, <3>1, <3>2, Zenon DEF CopyInv, In
    <3>4. (x \in DOMAIN copy /\ copy[x] = "ok" => buf[x] = <<>> /\ eof)' BY <1>1, <3>1, <3>2 DEF CopyInv
    <3> QED BY <2>2, <3>3, <3>4, Zenon DEF CopyInv
  <2> QED BY <1>3, <2>2, <2>3, <2>4, <2>5, Zenon
<1>8. WireInv' BY <1>1, <1>2 DEF WireInv, In
<1>9. SeType' BY <1>1, <1>3, <1>5, Zenon DEF SeInv, SeType
<1>10. ReqInv' /\ WaitInv' BY <1>1, <1>2, RequestsKept, Zenon
<1>11. Gapless' BY <1>1, <1>2, GaplessKept, Zenon
<1> QED BY <1>3, <1>7, <1>8, <1>9, <1>10, <1>11, Zenon DEF SeInv

(* A goroutine that copies output does one or the other.                   *)
LEMMA CopyStep ==
  ASSUME SeInv, NEW s \in Streams, Copy(s) PROVE SeInv'
<1>1. /\ s \in DOMAIN copy /\ copy[s] = "run"
      /\ UNCHANGED <<r, came, eof, reqs, wm, pipeEnd, call, result>>
  BY Zenon DEF Copy
<1>2. CASE buf[s] # <<>> /\ dest' = Append(dest, Head(buf[s])) /\ UNCHANGED copy /\ buf' = [buf EXCEPT ![s] = Tail(@)]
  BY <1>1, <1>2, CopyWrites, Zenon
<1>3. CASE buf[s] # <<>> /\ copy' = [copy EXCEPT ![s] = "fail"] /\ UNCHANGED dest /\ buf' = [buf EXCEPT ![s] = Tail(@)]
  BY <1>1, <1>3, CopyStops, Zenon
<1>4. CASE buf[s] = <<>> /\ eof /\ copy' = [copy EXCEPT ![s] = "ok"] /\ UNCHANGED <<buf, dest>>
  BY <1>1, <1>4, CopyStops, Zenon
<1> QED BY <1>2, <1>3, <1>4, Zenon DEF Copy

(* Start makes the copies of the streams that have a writer.               *)
LEMMA StartStep ==
  ASSUME SeInv, Start PROVE SeInv'
<1>1. /\ call = "new" /\ r' = r /\ came' = came /\ buf' = buf /\ eof' = eof /\ reqs' = reqs
      /\ wm' = wm /\ pipeEnd' = pipeEnd /\ dest' = dest
  BY Zenon DEF Start
<1>2. r \in Runs /\ CallInv /\ Gapless /\ ReqInv /\ WaitInv /\ WireInv /\ \A x \in Streams : BufInv(x) /\ CopyInv(x)
  BY Zenon DEF SeInv, SeType
<1>3. DOMAIN copy = {} /\ result = "none" BY <1>1, <1>2, Zenon DEF CallInv
<1>4. ReqInv' /\ WaitInv' /\ Gapless' BY <1>1, <1>2, RequestsKept, GaplessKept, Zenon
<1>5. WireInv' BY <1>1, <1>2 DEF WireInv, In
<1>6. r.sinks \subseteq Streams BY <1>2, Events, Zenon
<1>7. CASE call' = "returned" /\ result' = "refused" /\ UNCHANGED copy
  <2>1. CallInv' BY <1>7 DEF CallInv
  <2>2. SeType' BY <1>1, <1>7, Zenon DEF SeInv, SeType
  <2>3. \A x \in Streams : BufInv(x)' /\ CopyInv(x)' BY <1>1, <1>2, <1>7, OutputKept, Zenon
  <2> QED BY <1>4, <1>5, <2>1, <2>2, <2>3, Zenon DEF SeInv
<1>8. CASE /\ call' = "started" /\ result' = result
           /\ copy' = [s \in r.sinks \cup (IF r.stdin = "pipe" THEN {} ELSE {"in"}) |-> "run"]
  <2>1. /\ r.sinks \subseteq DOMAIN copy' /\ DOMAIN copy' \subseteq r.sinks \cup {"in"}
        /\ copy' \in [DOMAIN copy' -> {"run", "ok", "fail"}] /\ \A s \in DOMAIN copy' : copy'[s] = "run"
    BY <1>8
  <2>2. DOMAIN copy' \cap Streams \subseteq r.sinks BY <2>1 DEF Streams
  <2>3. CallInv' BY <1>1, <1>3, <1>8, <2>1 DEF CallInv
  <2>4. SeType'
    <3>1. call' \in {"new", "started", "waiting", "copies", "returned"} BY <1>8
    <3> QED BY <1>1, <2>1, <2>2, <3>1, Zenon DEF SeInv, SeType
  <2>5. ASSUME NEW x \in Streams PROVE BufInv(x)' /\ CopyInv(x)'
    <3>1. Of(x)' = Of(x) BY <1>1, Zenon DEF Of
    <3>2. BufInv(x)' BY <1>1, <1>2, <3>1, Zenon DEF BufInv, In, Rising
    <3>3. \A n \in Of(x) : n <= came => In(n, dest) \/ In(n, buf[x]) BY <1>2, <1>3, Zenon DEF CopyInv
    <3>4. (\A n \in Of(x) : n <= came => In(n, dest) \/ In(n, buf[x]))' BY <1>1, <3>1, <3>3, Zenon DEF In
    <3>5. ~(x \in DOMAIN copy' /\ copy'[x] = "ok") BY <2>1
    <3> QED BY <3>2, <3>4, <3>5, Zenon DEF CopyInv
  <2> QED BY <1>4, <1>5, <2>3, <2>4, <2>5, Zenon DEF SeInv
<1> QED BY <1>7, <1>8, Zenon DEF Start

(* wait ends with the queue: every request has been read.                  *)
LEMMA WaitEndsStep ==
  ASSUME SeInv, WaitEnds PROVE SeInv'
<1>1. /\ wm.st = "reading" /\ reqs = <<>> /\ eof /\ wm' = [wm EXCEPT !.st = "ended"] /\ r' = r
      /\ UNCHANGED <<r, came, buf, eof, reqs, copy, pipeEnd, dest, call, result>>
  BY Zenon DEF WaitEnds
<1>2. r \in Runs /\ CallInv /\ Gapless /\ ReqInv /\ WaitInv /\ WireInv /\ \A x \in Streams : BufInv(x) /\ CopyInv(x)
  BY Zenon DEF SeInv, SeType
<1>3. wm = [status |-> wm.status, signal |-> wm.signal, st |-> wm.st] BY Zenon DEF SeInv, SeType
<1>4. /\ wm' = [status |-> wm'.status, signal |-> wm'.signal, st |-> wm'.st]
      /\ wm'.st = "ended" /\ wm'.status = wm.status
  BY <1>1, <1>3
<1>5. ReqInv' /\ Gapless' /\ \A n : Past(n)' <=> Past(n) BY <1>1, <1>2, RequestsKept, GaplessKept, Zenon
<1>6. WaitInv'
  <2>1. \A s : Of(s)' = Of(s) BY <1>1, Zenon DEF Of
  <2>2. BadSignals' = BadSignals /\ Statuses' = Statuses BY <1>1, <2>1, Zenon DEF BadSignals, Statuses
  <2>3. /\ \A n \in BadSignals : ~Past(n)
        /\ \/ wm.status = -1 /\ \A n \in Statuses : ~Past(n)
           \/ \E n \in Statuses : /\ Past(n) /\ r.events[n].arg = wm.status
                                  /\ \A m \in Statuses : Past(m) => m <= n
    BY <1>1, <1>2 DEF WaitInv
  <2>4. (/\ \A n \in BadSignals : ~Past(n)
         /\ \/ wm.status = -1 /\ \A n \in Statuses : ~Past(n)
            \/ \E n \in Statuses : /\ Past(n) /\ r.events[n].arg = wm.status
                                   /\ \A m \in Statuses : Past(m) => m <= n)'
    BY <1>1, <1>4, <1>5, <2>2, <2>3, Zenon
  <2>5. wm'.st # "failed" /\ reqs' = <<>> /\ eof' BY <1>1, <1>4
  <2> QED BY <2>4, <2>5, Zenon DEF WaitInv
<1>7. SeType' BY <1>1, <1>4 DEF SeInv, SeType
<1>8. \A s \in Streams : BufInv(s)' /\ CopyInv(s)' BY <1>1, <1>2, OutputKept, Zenon
<1>9. WireInv' BY <1>1, <1>2 DEF WireInv, In
<1>10. CallInv'
  <2>1. ~(call \in {"copies", "returned"} /\ result # "refused") BY <1>1, <1>2, Zenon DEF CallInv
  <2> QED BY <1>1, <1>2, <2>1, Zenon DEF CallInv
<1> QED BY <1>5, <1>6, <1>7, <1>8, <1>9, <1>10, Zenon DEF SeInv

(* The end of the copy of standard input touches no output.                *)
LEMMA CopyInStep ==
  ASSUME SeInv, CopyIn PROVE SeInv'
<1>1. /\ "in" \in DOMAIN copy /\ copy["in"] = "run" /\ r' = r
      /\ UNCHANGED <<r, came, buf, eof, reqs, wm, pipeEnd, dest, call, result>>
      /\ copy' = [copy EXCEPT !["in"] = "ok"] \/ copy' = [copy EXCEPT !["in"] = "fail"]
  BY Zenon DEF CopyIn
<1>2. CallInv /\ Gapless /\ ReqInv /\ WaitInv /\ WireInv /\ \A x \in Streams : BufInv(x) /\ CopyInv(x)
  BY Zenon DEF SeInv, SeType
<1>3. /\ CallInv' /\ DOMAIN copy' = DOMAIN copy /\ copy' \in [DOMAIN copy' -> {"run", "ok", "fail"}]
      /\ \A x \in DOMAIN copy \ {"in"} : copy'[x] = copy[x]
  BY <1>1, CopyEnds, Zenon
<1>4. ReqInv' /\ WaitInv' /\ Gapless' BY <1>1, <1>2, RequestsKept, GaplessKept, Zenon
<1>5. SeType' BY <1>1, <1>3, Zenon DEF SeInv, SeType
<1>6. WireInv' BY <1>1, <1>2 DEF WireInv, In
<1>7. ASSUME NEW x \in Streams PROVE BufInv(x)' /\ CopyInv(x)'
  <2>1. x # "in" BY DEF Streams
  <2>2. x \in DOMAIN copy' => x \in DOMAIN copy /\ copy'[x] = copy[x] BY <1>3, <2>1, Zenon
  <2> QED BY <1>1, <1>2, <1>3, <2>2, OutputKept, Zenon
<1> QED BY <1>3, <1>4, <1>5, <1>6, <1>7, Zenon DEF SeInv

(* Wait: it goes on when wait has returned, and returns when all copies    *)
(* have.                                                                   *)
LEMMA WaitStep ==
  ASSUME SeInv, Wait \/ GotStatus \/ Returns PROVE SeInv'
<1>1. r' = r /\ UNCHANGED <<r, came, buf, eof, reqs, wm, copy, dest>> BY Zenon DEF Wait, GotStatus, Returns
<1>2. CallInv /\ Gapless /\ ReqInv /\ WaitInv /\ WireInv /\ \A x \in Streams : BufInv(x) /\ CopyInv(x)
  BY Zenon DEF SeInv, SeType
<1>3. ReqInv' /\ WaitInv' /\ Gapless' BY <1>1, <1>2, RequestsKept, GaplessKept, Zenon
<1>4. WireInv' BY <1>1, <1>2 DEF WireInv, In
<1>5. \A x \in Streams : BufInv(x)' /\ CopyInv(x)' BY <1>1, <1>2, OutputKept, Zenon
<1>6. call' \in {"waiting", "copies", "returned"} BY DEF Wait, GotStatus, Returns
<1>7. SeType' BY <1>1, <1>6 DEF SeInv, SeType
<1>8. ASSUME Wait \/ GotStatus PROVE CallInv'
  <2>1. /\ call \in {"started", "waiting"} /\ call' \in {"waiting", "copies"} /\ result' = result
        /\ call' = "copies" => wm.st # "reading"
    BY <1>8 DEF Wait, GotStatus
  <2>2. r.sinks \subseteq DOMAIN copy /\ result = "none" BY <1>2, <2>1 DEF CallInv
  <2> QED BY <1>1, <2>1, <2>2 DEF CallInv
<1>9. CASE Wait \/ GotStatus BY <1>3, <1>4, <1>5, <1>7, <1>8, <1>9, Zenon DEF SeInv
<1>10. CASE Returns
  <2>1. /\ call = "copies" /\ call' = "returned" /\ \A s \in DOMAIN copy : copy[s] # "run"
        /\ result' = IF verdict(wm) # "nil" THEN verdict(wm)
                     ELSE IF \E s \in DOMAIN copy : copy[s] = "fail" THEN "copy" ELSE "nil"
    BY <1>10, Zenon DEF Returns
  <2>2. r.sinks \subseteq DOMAIN copy /\ wm.st # "reading" BY <1>2, <2>1 DEF CallInv
  <2>3. verdict(wm)' = verdict(wm) BY <1>1, Zenon DEF verdict
  <2>4. (/\ r.sinks \subseteq DOMAIN copy /\ \A s \in DOMAIN copy : copy[s] # "run"
         /\ result = IF verdict(wm) # "nil" THEN verdict(wm)
                     ELSE IF \E s \in DOMAIN copy : copy[s] = "fail" THEN "copy" ELSE "nil")'
    BY <1>1, <2>1, <2>2, <2>3, Zenon
  <2>5. wm'.st # "reading" BY <1>1, <2>2, Zenon
  <2>6. call' # "new" BY <2>1
  <2>7. CallInv' BY <2>1, <2>4, <2>5, <2>6, Zenon DEF CallInv
  <2> QED BY <1>3, <1>4, <1>5, <1>7, <2>7, Zenon DEF SeInv
<1> QED BY <1>9, <1>10, Zenon

(* Before Start nothing has come and nothing is read.                      *)
LEMMA SessionOpens == SessionInit => SeInv
<1> SUFFICES ASSUME SessionInit PROVE SeInv OBVIOUS
<1>1. /\ r \in Runs /\ came = 0 /\ buf = [s \in Streams |-> <<>>] /\ eof = FALSE /\ reqs = <<>>
      /\ wm = [status |-> -1, signal |-> "", st |-> "reading"]
      /\ copy = [s \in {} |-> "run"] /\ dest = <<>> /\ call = "new" /\ result = "none"
  BY Zenon DEF SessionInit
<1>1a. came = 0 /\ dest = <<>> BY <1>1, Zenon
<1>2. Len(r.events) \in Nat /\ \A s : \A n \in Of(s) : n \in 1 .. Len(r.events) BY <1>1, Events
<1>3. DOMAIN copy = {} /\ copy \in [DOMAIN copy -> {"run", "ok", "fail"}] BY <1>1
<1>4. SeType
  <2>1. came \in 0 .. Len(r.events) BY <1>1a, <1>2
  <2>2. buf \in [Streams -> Seq(Nat)] /\ reqs \in Seq(Nat) /\ dest \in Seq(Nat) /\ eof \in BOOLEAN
    <3>1. buf = [s \in Streams |-> <<>>] /\ reqs = <<>> /\ eof = FALSE BY <1>1, Zenon
    <3>2. <<>> \in Seq(Nat) OBVIOUS
    <3>3. buf \in [Streams -> Seq(Nat)] BY <3>1, <3>2, Zenon
    <3>4. eof \in BOOLEAN BY <3>1
    <3> QED BY <1>1a, <3>1, <3>2, <3>3, <3>4, Zenon
  <2>3. wm = [status |-> wm.status, signal |-> wm.signal, st |-> wm.st] /\ wm.st = "reading" BY <1>1
  <2> QED BY <1>1, <1>3, <2>1, <2>2, <2>3 DEF SeType
<1>5. ASSUME NEW s, NEW n \in Of(s) PROVE ~(n <= came)
  <2>1. n \in 1 .. Len(r.events) BY <1>2, Zenon
  <2> QED BY <1>1a, <1>2, <2>1
<1>6. WireInv /\ Gapless
  <2>1. WireInv BY <1>1, InEmpty, Zenon DEF WireInv
  <2>2. \A i \in DOMAIN dest : FALSE BY <1>1a
  <2>3. Gapless BY <2>2, Zenon DEF Gapless
  <2> QED BY <2>1, <2>3
<1>7. \A s \in Streams : BufInv(s) /\ CopyInv(s)
  <2>1. \A s \in Streams : buf[s] = <<>> BY <1>1, Zenon
  <2>2. Rising(<<>>) BY DEF Rising
  <2> QED BY <1>3, <1>5, <2>1, <2>2, InEmpty, Zenon DEF BufInv, CopyInv
<1>8. ReqInv
  <2>1. Rising(<<>>) BY DEF Rising
  <2> QED BY <1>1, <1>5, <2>1, InEmpty, Zenon DEF ReqInv
<1>9. WaitInv
  <2>1. \A n : ~Past(n) BY <1>5, Zenon DEF Past
  <2>2. wm.st = "reading" /\ wm.status = -1 BY <1>1
  <2> QED BY <2>1, <2>2 DEF WaitInv
<1>10. CallInv BY <1>1, <1>3 DEF CallInv
<1> QED BY <1>4, <1>6, <1>7, <1>8, <1>9, <1>10, Zenon DEF SeInv

(* The invariant holds in every state of a session, whatever its streams   *)
(* and whatever the remote sends.                                          *)
THEOREM SessionInductive == SessionSpec => []SeInv
<1>1. ASSUME SeInv, [SessionNext]_seVars PROVE SeInv'
  <2>1. CASE UNCHANGED seVars
    <3>1. r' = r /\ UNCHANGED <<came, buf, eof, reqs, wm, copy, dest, call, result>> BY <2>1, Zenon DEF seVars
    <3>2. CallInv /\ Gapless /\ ReqInv /\ WaitInv /\ WireInv /\ \A x \in Streams : BufInv(x) /\ CopyInv(x)
      BY <1>1, Zenon DEF SeInv
    <3>3. ReqInv' /\ WaitInv' /\ Gapless' BY <3>1, <3>2, RequestsKept, GaplessKept, Zenon
    <3>4. WireInv' BY <3>1, <3>2 DEF WireInv, In
    <3>5. \A x \in Streams : BufInv(x)' /\ CopyInv(x)' BY <3>1, <3>2, OutputKept, Zenon
    <3>6. SeType' BY <1>1, <3>1, Zenon DEF SeInv, SeType
    <3>7. verdict(wm)' = verdict(wm) BY <3>1, Zenon DEF verdict
    <3>8. CallInv' BY <3>1, <3>2, <3>7, Zenon DEF CallInv
    <3> QED BY <3>3, <3>4, <3>5, <3>6, <3>8, Zenon DEF SeInv
  <2>2. CASE SessionNext
    BY <1>1, <2>2, StartStep, ArriveStep, WaitReadsStep, WaitEndsStep, CopyStep, CopyInStep, WaitStep, Zenon
    DEF SessionNext
  <2> QED BY <1>1, <2>1, <2>2, Zenon
<1> QED BY <1>1, SessionOpens, PTL DEF SessionSpec

(* Run returns with all the output, and with nil just for a status of zero *)
(* and good copies, whatever the remote sends and in whatever order the    *)
(* goroutines run (Session.Start, wait, Wait).                             *)
THEOREM RunCorrect == SessionSpec => []RunReports
<1>1. ASSUME SeInv, call = "returned", result # "refused" PROVE AllOutput /\ NilMeansSuccess
  <2>1. /\ r.sinks \subseteq DOMAIN copy /\ \A s \in DOMAIN copy : copy[s] # "run"
        /\ result = IF verdict(wm) # "nil" THEN verdict(wm)
                    ELSE IF \E s \in DOMAIN copy : copy[s] = "fail" THEN "copy" ELSE "nil"
        /\ wm.st # "reading"
    BY <1>1 DEF SeInv, CallInv
  <2>2. /\ r \in Runs /\ copy \in [DOMAIN copy -> {"run", "ok", "fail"}] /\ wm.st \in {"reading", "ended", "failed"}
        /\ eof => came = Len(r.events)
    BY <1>1, Zenon DEF SeInv, SeType, WireInv
  <2>3. /\ r.sinks \subseteq Streams /\ Len(r.events) \in Nat
        /\ \A s : \A n \in Of(s) : n \in 1 .. Len(r.events)
    BY <2>2, Events
  <2>4. \A s : \A n \in Of(s) : n <= Len(r.events) BY <2>3
  <2>5. AllOutput
    <3>1. ASSUME NEW s \in r.sinks, copy[s] # "fail" PROVE \A n \in Of(s) : In(n, dest)
      <4>1. s \in Streams /\ s \in DOMAIN copy /\ copy[s] = "ok" BY <2>1, <2>2, <2>3, <3>1
      <4>2. CopyInv(s) BY <1>1, <4>1, Zenon DEF SeInv
      <4>3. buf[s] = <<>> /\ came = Len(r.events) BY <2>2, <4>1, <4>2, Zenon DEF CopyInv
      <4> QED BY <2>4, <3>1, <4>2, <4>3, InEmpty, Zenon DEF CopyInv
    <3> QED BY <3>1, Zenon DEF AllOutput, In
  <2>6. wm.st = "ended" =>
          /\ BadSignals = {}
          /\ wm.status = 0 <=> \E n \in Statuses : r.events[n].arg = 0 /\ \A m \in Statuses : m <= n
    <3> SUFFICES ASSUME wm.st = "ended" PROVE
          /\ BadSignals = {}
          /\ wm.status = 0 <=> \E n \in Statuses : r.events[n].arg = 0 /\ \A m \in Statuses : m <= n
      OBVIOUS
    <3>1. reqs = <<>> /\ came = Len(r.events) BY <1>1, <2>2 DEF SeInv, WaitInv
    <3>2. \A n \in Of("req") : Past(n) BY <1>1, <2>4, <3>1, InEmpty, Zenon DEF SeInv, ReqInv
    <3>3. \A n \in BadSignals : Past(n) BY <3>2, Zenon DEF BadSignals
    <3>4. (\A n \in Statuses : Past(n)) /\ Statuses \subseteq Nat BY <2>3, <3>2 DEF Statuses
    <3>5. /\ \A n \in BadSignals : ~Past(n)
          /\ \/ wm.status = -1 /\ \A n \in Statuses : ~Past(n)
             \/ \E n \in Statuses : /\ Past(n) /\ r.events[n].arg = wm.status
                                    /\ \A m \in Statuses : Past(m) => m <= n
      BY <1>1 DEF SeInv, WaitInv
    <3>6. BadSignals = {} BY <3>3, <3>5, Zenon
    <3>7. CASE wm.status = -1 /\ \A n \in Statuses : ~Past(n)
      <4>1. \A n \in Statuses : FALSE BY <3>4, <3>7, Zenon
      <4>2. wm.status # 0 BY <3>7
      <4> QED BY <3>6, <4>1, <4>2, Zenon
    <3>8. ASSUME NEW k \in Statuses, r.events[k].arg = wm.status, \A m \in Statuses : m <= k
          PROVE  wm.status = 0 <=> \E n \in Statuses : r.events[n].arg = 0 /\ \A m \in Statuses : m <= n
      <4>1. ASSUME NEW n \in Statuses, \A m \in Statuses : m <= n PROVE n = k BY <3>4, <3>8, <4>1
      <4> QED BY <3>8, <4>1, Zenon
    <3> QED BY <3>4, <3>5, <3>6, <3>7, <3>8, Zenon
  <2>7. wm.st = "failed" => BadSignals # {} BY <1>1, Zenon DEF SeInv, WaitInv
  <2>8. verdict(wm) = "nil" <=> wm.st = "ended" /\ wm.status = 0
    <3>1. CASE wm.st = "failed" BY <3>1 DEF verdict
    <3>2. CASE wm.st = "ended" /\ wm.status = 0 BY <3>2 DEF verdict
    <3>3. CASE wm.st = "ended" /\ wm.status # 0
      <4>1. verdict(wm) \in {"missing", "exit"} BY <3>3 DEF verdict
      <4> QED BY <3>3, <4>1
    <3> QED BY <2>1, <2>2, <3>1, <3>2, <3>3
  <2>9. result = "nil" <=> verdict(wm) = "nil" /\ \A s \in DOMAIN copy : copy[s] = "ok"
    BY <2>1, <2>2
  <2>10. NilMeansSuccess BY <2>1, <2>2, <2>6, <2>7, <2>8, <2>9 DEF NilMeansSuccess
  <2> QED BY <2>5, <2>10, Zenon
<1>2. SeInv => RunReports
  BY <1>1, Zenon DEF SeInv, RunReports, AllOutput, NilMeansSuccess
<1> QED BY <1>2, SessionInductive, PTL

=============================================================================
