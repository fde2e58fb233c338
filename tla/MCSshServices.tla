--------------------------- MODULE MCSshServices ---------------------------
(* Instances of SshSession, SshForward, SshAgent, SshPackets, Terminal and *)
(* TerminalInput: part names the component a behaviour is about, the       *)
(* variables of the others are idle; SshSession and SshForward, which are  *)
(* extended, rest in a first state.                                        *)
EXTENDS SshForward, SshSession

VARIABLES part,
  ring, u, mutex, toAgent, toClient, up, todo,
  mode, w, pr, line, sent, got, last, fault,
  sc, t, scr, tat, key, pasted, ret, added, calls,
  input, taken, remainder, keys, pasteActive, iat

Idle == "idle"

-----------------------------------------------------------------------------
Out(n) == [t |-> "out", n |-> n]
Err(n) == [t |-> "err", n |-> n]
Req(name, arg) == [t |-> "req", name |-> name, arg |-> arg]
End == <<[t |-> "close"]>>
Scripts == {
  <<Out(1), Err(1), Req("exit-status", 0), Out(2)>>,
  <<Req("keepalive", 0), Out(1), Req("exit-status", 2), Err(1)>>,
  <<Out(1), Req("exit-signal", 0)>>,
  <<Req("exit-status", 1), Req("exit-status", 0)>>,
  <<Err(1), Out(1)>>,
  <<Req("bad-signal", 0), Req("exit-status", 0), Req("keepalive", 0), Req("keepalive", 0), Out(1)>>}
MCRuns ==
  [reply : {"yes"}, events : {s \o End : s \in Scripts}, stdin : {"nil", "busy", "blocks", "pipe"},
   sinks : {{"out", "err"}, {"out"}}, writer : {"good", "fails"}]
  \cup [reply : {"no"}, events : {End}, stdin : {"nil"}, sinks : {{}}, writer : {"good"}]

-----------------------------------------------------------------------------
MCAddrOf(x) == IF x = 1 THEN "p" ELSE "q"

-----------------------------------------------------------------------------
(* Users 1 and 2 share a client, 3 has one of its own, 4 is the process    *)
(* that holds the keyring.                                                 *)
MCConnOf(x) == CASE x \in {1, 2} -> "A" [] x = 3 -> "B" [] OTHER -> "local"
C(op) == [op |-> op, key |-> 1, type |-> "rsa", cert |-> FALSE, constraints |-> FALSE, pass |-> 7]
AddKey(k) == [C("add") EXCEPT !.key = k]
Timed(k) == [AddKey(k) EXCEPT !.constraints = TRUE]
CertKey(k) == [Timed(k) EXCEPT !.type = "dsa", !.cert = TRUE]
WrongPass == [C("unlock") EXCEPT !.pass = 8]
Plan(a, b, c, d) == <<a, b, c, d>>
MCPlans == {
  Plan(<<C("list"), C("sign")>>, <<C("sign"), AddKey(1)>>, <<Timed(2)>>, <<AddKey(1)>>),
  Plan(<<C("lock"), C("sign")>>, <<>>, <<WrongPass, C("unlock"), AddKey(2)>>, <<AddKey(1), WrongPass, C("unlock")>>),
  Plan(<<C("remove")>>, <<AddKey(1)>>, <<C("removeAll")>>, <<AddKey(1), AddKey(2), AddKey(1), Timed(1)>>),
  Plan(<<C("list"), C("list")>>, <<C("sign"), CertKey(2)>>, <<C("list")>>, <<AddKey(1), AddKey(2)>>)}

AG == INSTANCE SshAgent WITH Users <- 1..4, ConnOf <- MCConnOf, Local <- "local", Plans <- MCPlans, MaxAnswer <- 1

-----------------------------------------------------------------------------
(* 20 is the length that readers take, which a packet of 16 bytes reaches  *)
(* with its padding; the IV carries after 2 packets.                       *)
PC == INSTANCE SshPackets WITH
        Modes <- {"none", "stream", "gcm", "cbc"}, Sizes <- {1, 16, 20, 21}, MaxPackets <- 3,
        Versions <- {<<83, 83>>, <<83, 83, 83, 83>>, <<83, 10>>}, MaxVersion <- 5, Multiple <- 4, MinPadding <- 2, MaxPacket <- 20,
        IvBase <- 2, IvSize <- 2, KeySize <- 5, DigestSize <- 2, Places <- {1, 2, 4, 5, 9, 12, 17}, r <- pr

-----------------------------------------------------------------------------
(* Words; a size that changes; a prompt that does; the history; pastes and *)
(* failed reads; passwords, and a size that changes under one; a callback. *)
Ps1 == <<">">>
Ps3 == <<">", ">", ">">>
EditKeys == {"backspace", "altLeft", "altRight", "left", "right", "home", "end", "up", "down", "deleteWord", "deleteLine", "ctrlD", "ctrlU", "clear"}
Use(prompt, width, typed, edit, may, n) ==
  [prompt |-> prompt, width |-> width, callback |-> FALSE, typed |-> typed, keys |-> edit, may |-> may, calls |-> n]
MCUses == {
  Use(Ps1, 3, {"a", " "}, EditKeys, {"write"}, 1),
  Use(Ps3, 3, {"a"}, EditKeys, {"size", "write"}, 1),
  Use(Ps1, 3, {"a"}, {"backspace", "clear", "home"}, {"prompt", "password"}, 2),
  Use(Ps1, 3, {"a"}, {"up", "down", "backspace", "home"}, {}, 3),
  Use(Ps1, 4, {"a"}, {"backspace", "left"}, {"paste", "fail"}, 2),
  Use(Ps1, 3, {"a"}, EditKeys \ {"altLeft", "altRight", "deleteWord"}, {"password", "write"}, 2),
  Use(Ps1, 3, {"a"}, {"backspace", "left", "clear", "deleteLine"}, {"password", "size", "write"}, 2),
  [Use(Ps1, 3, {"a"}, {"home", "deleteLine"}, {"write"}, 1) EXCEPT !.callback = TRUE]}

TE == INSTANCE Terminal WITH
        Scenarios <- MCUses, Prompts <- {Ps1, Ps3}, Widths <- {3, 4}, MaxWidth <- 4, Rows <- 4, maxLineLength <- 3, LineBound <- 4,
        HistorySize <- 2, Completions <- {[line |-> <<"a", "a">>, pos |-> 1]}, at <- tat

(* Every short sequence, and the long ones of pastes and of Alt.           *)
MCInputs ==
  UNION {[1..n -> {"esc", "[", "A", "a", "enter", "bad", "utf1", "utf2"}] : n \in 1..3} \cup {
    <<"esc", "[", "2", "0", "0", "~", "ctrlK", "a", "enter", "a", "esc", "[", "2", "0", "1", "~", "a">>,
    <<"esc", "[", "1", ";", "3", "C", "ctrlK", "esc", "[", "1", ";", "3", "D">>,
    <<"esc", "[", "1", "a", "esc", "[", "2", "0", "0", "~", "esc", "[", "A", "esc", "[", "2", "0", "1", "~">>}

TI == INSTANCE TerminalInput WITH Inputs <- MCInputs, InBuf <- 7, at <- iat

-----------------------------------------------------------------------------
agVars == <<ring, u, mutex, toAgent, toClient, up, todo>>
pcVars == <<mode, w, pr, line, sent, got, last, fault>>
teVars == <<sc, t, scr, tat, key, pasted, ret, added, calls>>
tiVars == <<input, taken, remainder, keys, pasteActive, iat>>
sshVars == <<seVars, fwVars, agVars>>
wireVars == <<pcVars, teVars, tiVars>>
allVars == <<part, sshVars, wireVars>>

RestSE == SessionInit /\ r = CHOOSE x \in Runs : TRUE
RestFW == Init /\ ignored = {}
IdleAG ==
  /\ ring = Idle /\ u = Idle /\ mutex = Idle /\ toAgent = Idle /\ toClient = Idle
  /\ up = Idle /\ todo = Idle

IdlePC == mode = Idle /\ w = Idle /\ pr = Idle /\ line = Idle /\ sent = Idle /\ got = Idle /\ last = Idle /\ fault = Idle
IdleTE ==
  /\ sc = Idle /\ t = Idle /\ scr = Idle /\ tat = Idle /\ key = Idle /\ pasted = Idle /\ ret = Idle
  /\ added = Idle /\ calls = Idle
IdleTI == input = Idle /\ taken = Idle /\ remainder = Idle /\ keys = Idle /\ pasteActive = Idle /\ iat = Idle
IdleSsh == RestSE /\ RestFW /\ IdleAG
IdleWire == IdlePC /\ IdleTE /\ IdleTI

InitAll ==
  \/ part = "session" /\ SessionInit /\ RestFW /\ IdleAG /\ IdleWire
  \/ part = "forward" /\ Init /\ RestSE /\ IdleAG /\ IdleWire
  \/ part = "agent" /\ AG!Init /\ RestSE /\ RestFW /\ IdleWire
  \/ part = "packets" /\ PC!Init /\ IdleSsh /\ IdleTE /\ IdleTI
  \/ part = "terminal" /\ TE!Init /\ IdleSsh /\ IdlePC /\ IdleTI
  \/ part = "input" /\ TI!Init /\ IdleSsh /\ IdlePC /\ IdleTE

NextAll ==
  \/ part = "session" /\ SessionNext /\ UNCHANGED <<part, fwVars, agVars, wireVars>>
  \/ part = "forward" /\ Next /\ UNCHANGED <<part, seVars, agVars, wireVars>>
  \/ part = "agent" /\ AG!Next /\ UNCHANGED <<part, seVars, fwVars, wireVars>>
  \/ part = "packets" /\ PC!Next /\ UNCHANGED <<part, sshVars, teVars, tiVars>>
  \/ part = "terminal" /\ TE!Next /\ UNCHANGED <<part, sshVars, pcVars, tiVars>>
  \/ part = "input" /\ TI!Next /\ UNCHANGED <<part, sshVars, pcVars, teVars>>

(* Goroutines go on while they can; a listener in use calls Accept.        *)
Progress ==
  \/ part = "session" /\ SessionNext /\ UNCHANGED <<part, fwVars, agVars, wireVars>>
  \/ part = "forward" /\ Routed /\ UNCHANGED <<part, seVars, agVars, wireVars>>
  \/ part = "agent" /\ AG!Next /\ UNCHANGED <<part, seVars, fwVars, wireVars>>

SpecAll == InitAll /\ [][NextAll]_allVars /\ WF_allVars(Progress)

-----------------------------------------------------------------------------
(* SshAgent: the reply is to the request of the goroutine and constraints  *)
(* reach the keyring; a locked keyring stays as it is until it is          *)
(* unlocked, and Remove takes all of one key and nothing else.             *)
AgentSound ==
  /\ [](part = "agent" => AG!OwnReply /\ AG!ConstraintsHonoured)
  /\ [][part = "agent" => AG!LockedStep /\ AG!RemoveStep]_allVars

(* SshSession, SshForward, SshAgent: Run returns, Accept returns and the   *)
(* mutex is given back, every call of an agent's client returns.           *)
CallersReturn ==
  /\ <>(part = "session" => call = "returned" \/ Unread)
  /\ []<>(part = "forward" => ignored # {} \/ AllReturned)
  /\ []<>(part = "agent" => AG!Returned)

(* SshAgent: "Unlock undoes the effect of Lock".                           *)
UnlockUndoesLock == part = "agent" => AG!UnlockUndoesLock

(* SshPackets: the version line is read as it was written and no further;  *)
(* packets are read as written, in order, or not at all, and all arrive    *)
(* that are within maxPacket with their padding; how much is read tells    *)
(* nothing of what was wrong; no IV is used twice, the ends have the same  *)
(* keys for a direction and different ones for the two.                    *)
PacketsArrive ==
  part = "packets" =>
    /\ PC!VersionExact /\ PC!PacketsInOrder /\ PC!FitsArrives
    /\ PC!SameAmountRead /\ PC!NoIvTwice /\ PC!KeysIndependent

(* Terminal, TerminalInput: the screen shows the prompt and the line, and  *)
(* of a password no more than a change of the size has painted; pasted     *)
(* lines, the history and Alt-right are right; the keys do not depend on   *)
(* the pieces they come in (readLine, handleKey, SetSize, bytesToKey).     *)
EditorShows ==
  /\ part = "terminal" =>
       TE!ScreenShowsLine /\ TE!PasswordHidden /\ TE!PastedOnly /\ TE!RingIsLast /\ TE!RightWordStart
  /\ part = "input" => TI!KeysAsTyped

=============================================================================
