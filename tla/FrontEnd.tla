------------------------------ MODULE FrontEnd ------------------------------
(***************************************************************************)
(* One invocation of sesh up to the point where commands are run: hosts,   *)
(* identity and command from the options (main.go, hlp.go, templ.go), and  *)
(* the copy of a file to every host (ScpRun in util.go).  Texts are        *)
(* sequences of characters where they are parsed, atoms elsewhere.         *)
(***************************************************************************)
EXTENDS Naturals, Sequences, SequencesExt

CONSTANTS
  Options,   \* [hostfile, hostlist, stdin: text or None, key, password, src, dest, cmd, cmdfile, data, ...]
  Files      \* what the paths that exist hold

VARIABLES opt, pc, host_arr, keyfile, cmd, sync, told

vars == <<opt, pc, host_arr, keyfile, cmd, sync, told>>

None == "none"
DefaultKey == "id_rsa"
AuthCmdFile == "@auth.cmd"

-----------------------------------------------------------------------------
(* parseHostsFromString: every separator becomes a blank, the text is      *)
(* split at blanks and the empty pieces are dropped.                       *)
Separators == {"nl", "tab", ",", " "}

Blanked(text) == [i \in DOMAIN text |-> IF text[i] \in Separators THEN " " ELSE text[i]]

Split(text) ==
  FoldLeft(LAMBDA parts, c : IF c = " " THEN Append(parts, <<>>)
                             ELSE [parts EXCEPT ![Len(parts)] = Append(@, c)],
           << <<>> >>, text)

parseHostsFromString(text) == SelectSeq(Split(Blanked(text)), LAMBDA h : h # <<>>)

(* parseData: name=value, split at the first "=", the last one wins.       *)
Trim(s) ==
  LET keep == {i \in DOMAIN s : s[i] # " "}
  IN IF keep = {} THEN <<>>
     ELSE SubSeq(s, CHOOSE i \in keep : \A j \in keep : i <= j, CHOOSE i \in keep : \A j \in keep : i >= j)

Equals(s) == {i \in DOMAIN s : s[i] = "="}
First(s) == CHOOSE i \in Equals(s) : \A j \in Equals(s) : i <= j

parseData(datas) ==
  FoldLeft(LAMBDA kv, data :
             IF Equals(data) = {} THEN kv
             ELSE LET name == SubSeq(data, 1, First(data) - 1)
                      value == SubSeq(data, First(data) + 1, Len(data))
                  IN [n \in DOMAIN kv \cup {name} |-> IF n = name THEN value ELSE kv[n]],
           <<>>, [i \in DOMAIN datas |-> Trim(datas[i])])

(* mustache.Render: a command is a sequence of words [text] or [name]; a   *)
(* name that has no value is replaced by nothing.                          *)
Render(words, kv) ==
  [i \in DOMAIN words |-> IF "name" \notin DOMAIN words[i] THEN words[i].text
                          ELSE IF words[i].name \in DOMAIN kv THEN kv[words[i].name] ELSE <<>>]

-----------------------------------------------------------------------------
Init ==
  /\ opt \in Options
  /\ pc = "hosts" /\ host_arr = <<>> /\ keyfile = opt.key /\ cmd = <<>> /\ sync = <<>> /\ told = <<>>

Exit == pc' = "exit"

(* -f, then -h, then standard input.                                       *)
Hosts ==
  /\ pc = "hosts"
  /\ IF opt.hostfile # None /\ opt.hostfile \notin DOMAIN Files THEN Exit /\ UNCHANGED host_arr
     ELSE /\ host_arr' = parseHostsFromString(IF opt.hostfile # None THEN Files[opt.hostfile]
                                              ELSE IF opt.hostlist # <<>> THEN opt.hostlist ELSE opt.stdin)
          /\ pc' = "identity"
  /\ UNCHANGED <<opt, keyfile, cmd, sync, told>>

(* The default key file must exist, unless there is a password; one that   *)
(* was named is taken as it is.                                            *)
Identity ==
  /\ pc = "identity"
  /\ IF opt.key = None /\ DefaultKey \notin DOMAIN Files
     THEN IF opt.password = None THEN Exit /\ UNCHANGED keyfile ELSE pc' = "verb" /\ keyfile' = None
     ELSE pc' = "verb" /\ keyfile' = IF opt.key = None THEN DefaultKey ELSE opt.key
  /\ UNCHANGED <<opt, host_arr, cmd, sync, told>>

(* send, or a command: one of the two must be given.                       *)
Verb ==
  /\ pc = "verb"
  /\ IF opt.src # None /\ opt.dest # None THEN pc' = "send"
     ELSE IF opt.cmd = <<>> /\ opt.cmdfile = None THEN Exit ELSE pc' = "command"
  /\ UNCHANGED <<opt, host_arr, keyfile, cmd, sync, told>>

(* @auth.cmd stands for a script made from the public key, if that can be  *)
(* read; otherwise it is the name of a file like any other.                *)
PubKey == IF keyfile = None THEN "id_rsa.pub" ELSE keyfile \o ".pub"

Command ==
  /\ pc = "command"
  /\ LET auth == opt.cmdfile = AuthCmdFile /\ PubKey \in DOMAIN Files
         file == IF auth THEN None ELSE opt.cmdfile
         words == IF auth THEN <<[text |-> PubKey]>> ELSE IF file # None /\ file \in DOMAIN Files THEN Files[file] ELSE opt.cmd
     IN IF file # None /\ file \notin DOMAIN Files THEN Exit /\ UNCHANGED cmd
        ELSE /\ cmd' = Render(words, parseData(opt.data))
             /\ pc' = IF opt.debug \/ (opt.parallel /\ opt.tmpdir \notin DOMAIN Files) THEN "exit"
                      ELSE IF opt.pause /\ host_arr = <<>> THEN "panic" ELSE "run"
  /\ UNCHANGED <<opt, host_arr, keyfile, sync, told>>

-----------------------------------------------------------------------------
(* ScpRun: one rsync per host, in turn or at once; a failure is printed.   *)
Idx == DOMAIN host_arr

Send ==
  /\ pc = "send"
  /\ sync' = [i \in Idx |-> "todo"] /\ pc' = "sending"
  /\ UNCHANGED <<opt, host_arr, keyfile, cmd, told>>

SyncStarts(i) ==
  /\ pc = "sending" /\ sync[i] = "todo"
  /\ opt.parallel \/ \A j \in 1..(i - 1) : sync[j] \in {"ok", "fail"}
  /\ sync' = [sync EXCEPT ![i] = "running"]
  /\ UNCHANGED <<opt, pc, host_arr, keyfile, cmd, told>>

SyncEnds(i) ==
  /\ pc = "sending" /\ sync[i] = "running"
  /\ \E r \in {"ok", "fail"} :
       sync' = [sync EXCEPT ![i] = r] /\ told' = Append(told, <<host_arr[i], r>>)
  /\ UNCHANGED <<opt, pc, host_arr, keyfile, cmd>>

\* mutant: the call does not wait for the goroutines
SendReturnsEarly ==
  /\ pc = "sending" /\ \A i \in Idx : sync[i] # "todo"
  /\ pc' = "finished"
  /\ UNCHANGED <<opt, host_arr, keyfile, cmd, sync, told>>

(* wg.Wait; what main prints is Finished!, whatever happened.              *)
SendReturns ==
  /\ pc = "sending" /\ \A i \in Idx : sync[i] \in {"ok", "fail"}
  /\ pc' = "finished"
  /\ UNCHANGED <<opt, host_arr, keyfile, cmd, sync, told>>

Next == Hosts \/ Identity \/ Verb \/ Command \/ Send \/ (\E i \in Idx : SyncStarts(i) \/ SyncEnds(i)) \/ SendReturns

-----------------------------------------------------------------------------
(* The hosts are the words of the text: the longest runs of characters     *)
(* between separators, in order (parseHostsFromString).                    *)
HostsAreWords ==
  pc \in {"run", "sending", "finished"} =>
    LET text == IF opt.hostfile # None THEN Files[opt.hostfile] ELSE IF opt.hostlist # <<>> THEN opt.hostlist ELSE opt.stdin
        sep(i) == i \notin DOMAIN text \/ text[i] \in Separators
        starts == {i \in DOMAIN text : ~sep(i) /\ sep(i - 1)}
        start(n) == CHOOSE i \in starts : Len(SelectSeq([k \in 1..i |-> k], LAMBDA k : k \in starts)) = n
        end(i) == CHOOSE j \in i..Len(text) : sep(j + 1) /\ \A k \in i..j : ~sep(k)
    IN /\ \A n \in DOMAIN host_arr : host_arr[n] = SubSeq(text, start(n), end(start(n)))
       /\ \A i \in starts : \E n \in DOMAIN host_arr : i = start(n)

(* Nothing is sent or run without a way to log in: a password, a key that  *)
(* was named, or a default key that exists.                                *)
HasIdentity ==
  pc \in {"run", "sending", "finished"} => opt.password # None \/ opt.key # None \/ DefaultKey \in DOMAIN Files

(* A copy is over only when each host has its own line, failures included, *)
(* and hosts are served one at a time unless -r is given.                  *)
SendToldAll ==
  /\ pc = "finished" =>
       /\ Len(told) = Len(host_arr)
       /\ \A i \in Idx : sync[i] = "fail" => <<host_arr[i], "fail">> \in ToSet(told)
  /\ pc = "sending" /\ ~opt.parallel => \A i, j \in Idx : sync[i] = "running" /\ sync[j] = "running" => i = j

=============================================================================
