--------------------------- MODULE FrontEndProofs ---------------------------
(***************************************************************************)
(* Proofs about three components of the operator's side, which share no    *)
(* state: RemoteScript, for any number of tasks, any scripts and any way   *)
(* in which hosts share a /tmp; KnownHosts, for any number of invocations; *)
(* SideList, for every number of files and every set of terminal heights.  *)
(***************************************************************************)
EXTENDS KnownHosts, RemoteScript, SideList, TLAPS

(* Only scripts that go to a file pass through the steps of one, and a     *)
(* shell that has not come to its script has run nothing.                  *)
PlaceInv ==
  /\ job \in Jobs /\ DOMAIN spc = Tasks /\ ok \in [Tasks -> BOOLEAN] /\ DOMAIN ran = Tasks
  /\ \A i \in Tasks :
       /\ spc[i] \in {"create", "write", "chmod", "exec", "run", "remove", "add", "done"}
       /\ spc[i] \in {"create", "write", "chmod", "exec", "remove"} => job[i].kind = "file"
       /\ spc[i] = "add" => job[i].kind = "auth"
       /\ spc[i] \in {"create", "write", "chmod", "exec"} => ran[i] = <<>>
       /\ spc[i] = "run" /\ job[i].kind # "file" => ran[i] = <<>>
       /\ ~ok[i] => spc[i] \in {"remove", "done"} /\ ran[i] = <<>>

(* A name leads to an inode, and a shell has one open, that a task with    *)
(* this path has made.                                                     *)
FdInv ==
  /\ fd \in [Tasks -> [ino : Tasks, at : Nat]]
  /\ \A i \in Tasks : job[i].kind = "file" => Shares(i, fd[i].ino)
  /\ \A q \in DOMAIN names : names[q] \in Tasks /\ job[names[q]].kind = "file" /\ Path(names[q]) = q

(* Every name has a shell that has yet to remove it.                       *)
OwnerInv ==
  \A q \in DOMAIN names : \E i \in Tasks :
    Path(i) = q /\ job[i].kind = "file" /\ spc[i] \in {"write", "chmod", "exec", "run", "remove"}

Lines == {Hole} \cup UNION {Range(job[j].cmd) : j \in {k \in Tasks : job[k].kind # "auth"}}

(* Each line stands where it stands in a script for this path, or is a gap.*)
Placed(i, text) ==
  \A k \in DOMAIN text :
    \/ text[k] = Hole
    \/ \E j \in Tasks : Shares(i, j) /\ k \in DOMAIN job[j].cmd /\ text[k] = job[j].cmd[k]

(* What is in the files, and what has been run of them, is in its place.   *)
TextInv ==
  /\ data \in [Tasks -> Seq(Lines)]
  /\ \A i \in Tasks : job[i].kind = "file" =>
       /\ Placed(i, data[i])
       /\ ran[i] \in Seq(Lines) /\ Placed(i, ran[i])
       /\ spc[i] = "run" => Len(ran[i]) = fd[i].at

Prefix(s, t, n) == Len(s) = n /\ n <= Len(t) /\ \A k \in 1 .. n : s[k] = t[k]

(* The file of a task that is alone with it is there until it has been     *)
(* run, as far as it is written it is the script, and so is what was run.  *)
AloneInv ==
  \A i \in Tasks : job[i].kind = "file" /\ Alone(i) =>
    /\ spc[i] \in {"write", "chmod", "exec", "run"} => Exists(i)
    /\ spc[i] = "write" => Prefix(data[i], job[i].cmd, fd[i].at)
    /\ spc[i] \in {"chmod", "exec", "run"} => data[i] = job[i].cmd
    /\ spc[i] = "exec" => i \in mode
    /\ spc[i] = "run" => Prefix(ran[i], job[i].cmd, fd[i].at)
    /\ spc[i] \in {"remove", "done"} /\ ok[i] => ran[i] = job[i].cmd

(* The lines that authorized_keys may hold, given the tasks.               *)
AllKeys == (UNION {Range(ks) : ks \in AuthFiles}) \cup {job[i].cmd.line : i \in Tasks}
Entered(i) == \E k \in DOMAIN auth[job[i].disk] : auth[job[i].disk][k] = job[i].cmd.line
Sole(i) == \A j \in Tasks \ {i} : job[j].disk # job[i].disk
Findable(i) == Matches(Pattern(job[i].cmd), job[i].cmd.line)

(* A shell of @auth.cmd that is done leaves its key or one that matches;   *)
(* one alone on its machine has found none when it adds the key.           *)
KeyInv ==
  /\ DOMAIN auth = {job[i].disk : i \in Tasks}
  /\ \A d \in DOMAIN auth : auth[d] \in Seq(AllKeys)
  /\ \A i \in Tasks : job[i].kind = "auth" =>
       /\ spc[i] = "done" => Entered(i) \/ Found(i)
       /\ Sole(i) /\ spc[i] = "add" => ~Found(i)
       /\ Sole(i) /\ Findable(i) => \A k, l \in DOMAIN auth[job[i].disk] :
            auth[job[i].disk][k] = job[i].cmd.line /\ auth[job[i].disk][l] = job[i].cmd.line => k = l

-----------------------------------------------------------------------------
(* The here document of a command without the marker is the command.       *)
LEMMA WholeDoc ==
  ASSUME job \in Jobs, NEW i \in Tasks, job[i].kind # "auth"
  PROVE  Doc(i) = job[i].cmd
<1>1. \A k \in DOMAIN job[i].cmd : job[i].cmd[k] # job[i].eof BY JobsAssumption, Zenon DEF Tasks
<1>2. {k \in DOMAIN job[i].cmd : job[i].cmd[k] = job[i].eof} = {} BY <1>1, Zenon
<1> QED BY <1>2, Zenon DEF HereDoc, Doc

(* The lines of a command are among those that files may hold.             *)
LEMMA CmdLines ==
  ASSUME job \in Jobs, NEW i \in Tasks, job[i].kind # "auth"
  PROVE  job[i].cmd \in Seq(Lines)
<1>1. job[i].cmd \in Seq(Range(job[i].cmd)) BY JobsAssumption, Zenon DEF Tasks
<1>2. Range(job[i].cmd) \subseteq Lines BY Zenon DEF Lines
<1> QED BY <1>1, <1>2

(* The tasks, and with them the paths, are fixed.                          *)
LEMMA JobFixed ==
  ASSUME [ScriptNext]_scriptVars
  PROVE  /\ job' = job /\ Tasks' = Tasks /\ Lines' = Lines /\ AllKeys' = AllKeys
         /\ \A i : Path(i)' = Path(i) /\ (Alone(i)' <=> Alone(i)) /\ (Sole(i)' <=> Sole(i))
         /\ \A i, j : Shares(i, j)' <=> Shares(i, j)
         /\ \A i, t : Placed(i, t)' <=> Placed(i, t)
<1>1. job' = job
  BY Zenon DEF ScriptNext, Shell, scriptVars, Create, Write, Written, Chmod, Exec, Run, Unlink, RunDirect, Grep, Add
<1> QED BY <1>1, Zenon DEF Tasks, Lines, AllKeys, Path, Alone, Sole, Shares, Placed

(* A step of one shell leaves the others where they are.                   *)
LEMMA OthersRest ==
  ASSUME PlaceInv, FdInv, NEW i \in Tasks, Shell(i)
  PROVE  /\ \A j \in Tasks \ {i} : spc'[j] = spc[j] /\ ok'[j] = ok[j] /\ fd'[j] = fd[j] /\ ran'[j] = ran[j]
         /\ DOMAIN spc' = Tasks /\ ok' \in [Tasks -> BOOLEAN] /\ DOMAIN ran' = Tasks
         /\ DOMAIN fd' = Tasks
<1> USE DEF PlaceInv, FdInv, Go, Fails, fileVars
<1>1. CASE Create(i) BY <1>1, Zenon DEF Create
<1>2. CASE Write(i) BY <1>2, Zenon DEF Write
<1>3. CASE Written(i) BY <1>3, Zenon DEF Written
<1>4. CASE Chmod(i) BY <1>4, Zenon DEF Chmod
<1>5. CASE Exec(i) BY <1>5, Zenon DEF Exec
<1>6. CASE Run(i) BY <1>6, Zenon DEF Run
<1>7. CASE Unlink(i) BY <1>7, Zenon DEF Unlink
<1>8. CASE RunDirect(i) BY <1>8, Zenon DEF RunDirect
<1>9. CASE Grep(i) \/ Add(i) BY <1>9, Zenon DEF Grep, Add
<1> QED BY <1>1, <1>2, <1>3, <1>4, <1>5, <1>6, <1>7, <1>8, <1>9, Zenon DEF Shell

(* A shell moves on along its own steps only.                              *)
LEMMA PlaceStep ==
  ASSUME PlaceInv, FdInv, [ScriptNext]_scriptVars
  PROVE  PlaceInv'
<1>0. job' = job /\ Tasks' = Tasks BY JobFixed, Zenon
<1>1. CASE UNCHANGED scriptVars BY <1>0, <1>1, Zenon DEF scriptVars, PlaceInv
<1>2. ASSUME NEW i \in Tasks, Shell(i) PROVE PlaceInv'
  <2>1. /\ \A j \in Tasks \ {i} : spc'[j] = spc[j] /\ ok'[j] = ok[j] /\ ran'[j] = ran[j]
        /\ DOMAIN spc' = Tasks /\ ok' \in [Tasks -> BOOLEAN] /\ DOMAIN ran' = Tasks
    BY <1>2, OthersRest, Zenon
  <2>2. /\ spc'[i] \in {"create", "write", "chmod", "exec", "run", "remove", "add", "done"}
        /\ spc'[i] \in {"create", "write", "chmod", "exec", "remove"} => job[i].kind = "file"
        /\ spc'[i] = "add" => job[i].kind = "auth"
        /\ spc'[i] \in {"create", "write", "chmod", "exec"} => ran'[i] = <<>>
        /\ spc'[i] = "run" /\ job[i].kind # "file" => ran'[i] = <<>>
        /\ ~ok'[i] => spc'[i] \in {"remove", "done"} /\ ran'[i] = <<>>
    <3> USE DEF PlaceInv, Go, Fails
    <3>1. CASE Create(i) BY <3>1, Zenon DEF Create
    <3>2. CASE Write(i) BY <3>2, Zenon DEF Write
    <3>3. CASE Written(i) BY <3>3, Zenon DEF Written
    <3>4. CASE Chmod(i) BY <3>4, Zenon DEF Chmod
    <3>5. CASE Exec(i) BY <3>5, Zenon DEF Exec
    <3>6. CASE Run(i) BY <3>6, Zenon DEF Run
    <3>7. CASE Unlink(i) BY <3>7, Zenon DEF Unlink
    <3>8. CASE RunDirect(i) BY <3>8, Zenon DEF RunDirect
    <3>9. CASE Grep(i) \/ Add(i) BY <3>9, Zenon DEF Grep, Add
    <3> QED BY <1>2, <3>1, <3>2, <3>3, <3>4, <3>5, <3>6, <3>7, <3>8, <3>9, Zenon DEF Shell
  <2>3. ASSUME NEW j \in Tasks
        PROVE  /\ spc'[j] \in {"create", "write", "chmod", "exec", "run", "remove", "add", "done"}
               /\ spc'[j] \in {"create", "write", "chmod", "exec", "remove"} => job[j].kind = "file"
               /\ spc'[j] = "add" => job[j].kind = "auth"
               /\ spc'[j] \in {"create", "write", "chmod", "exec"} => ran'[j] = <<>>
               /\ spc'[j] = "run" /\ job[j].kind # "file" => ran'[j] = <<>>
               /\ ~ok'[j] => spc'[j] \in {"remove", "done"} /\ ran'[j] = <<>>
    <3>1. CASE j = i BY <2>2, <3>1, Zenon
    <3>2. CASE j # i BY <2>1, <3>2, Zenon DEF PlaceInv
    <3> QED BY <3>1, <3>2, Zenon
  <2> QED BY <1>0, <2>1, <2>3, Zenon DEF PlaceInv
<1> QED BY <1>1, <1>2, Zenon DEF ScriptNext

(* A name is made for an inode of its path, and only such are opened.      *)
LEMMA FdStep ==
  ASSUME PlaceInv, FdInv, [ScriptNext]_scriptVars
  PROVE  FdInv'
<1>0. /\ job' = job /\ Tasks' = Tasks /\ \A j : Path(j)' = Path(j)
      /\ \A j, k : Shares(j, k)' <=> Shares(j, k)
  BY JobFixed, Zenon
<1>1. CASE UNCHANGED scriptVars BY <1>0, <1>1, Zenon DEF scriptVars, fileVars, FdInv
<1>2. ASSUME NEW i \in Tasks, Shell(i) PROVE FdInv'
  <2>1. /\ \A j \in Tasks \ {i} : fd'[j] = fd[j]
        /\ DOMAIN fd' = Tasks
    BY <1>2, OthersRest, Zenon
  <2>2. /\ fd'[i] \in [ino : Tasks, at : Nat]
        /\ job[i].kind = "file" => Shares(i, fd'[i].ino)
        /\ \A q \in DOMAIN names' : names'[q] \in Tasks /\ job[names'[q]].kind = "file" /\ Path(names'[q]) = q
    <3>1. CASE Create(i)
      <4> DEFINE n == IF Exists(i) THEN names[Path(i)] ELSE i
      <4>1. job[i].kind = "file" BY <3>1, Zenon DEF Create, PlaceInv
      <4>2. n \in Tasks /\ Shares(i, n) BY <4>1, Zenon DEF FdInv, Exists, Shares
      <4>3. /\ fd' = [fd EXCEPT ![i] = [ino |-> n, at |-> 0]]
            /\ names' = [q \in DOMAIN names \cup {Path(i)} |-> IF q = Path(i) THEN n ELSE names[q]]
        BY <3>1, Zenon DEF Create
      <4> HIDE DEF n
      <4>4. fd'[i] = [ino |-> n, at |-> 0] BY <4>3, Zenon DEF FdInv
      <4>5. fd'[i] \in [ino : Tasks, at : Nat] /\ fd'[i].ino = n BY <4>2, <4>4
      <4>6. ASSUME NEW q \in DOMAIN names'
            PROVE  names'[q] \in Tasks /\ job[names'[q]].kind = "file" /\ Path(names'[q]) = q
        <5>1. CASE q = Path(i) BY <4>2, <4>3, <5>1, Zenon DEF Shares
        <5>2. CASE q # Path(i) BY <4>3, <5>2, Zenon DEF FdInv
        <5> QED BY <5>1, <5>2, Zenon
      <4> QED BY <4>2, <4>5, <4>6, Zenon
    <3>2. CASE Write(i)
      <4>1. fd'[i] = [fd[i] EXCEPT !.at = @ + 1] /\ names' = names BY <3>2, Zenon DEF Write, FdInv
      <4>2. fd[i] \in [ino : Tasks, at : Nat] BY Zenon DEF FdInv
      <4>3. fd'[i] \in [ino : Tasks, at : Nat] /\ fd'[i].ino = fd[i].ino BY <4>1, <4>2
      <4> QED BY <4>1, <4>3, Zenon DEF FdInv
    <3>3. CASE Written(i) BY <3>3, Zenon DEF Written, fileVars, FdInv
    <3>4. CASE Chmod(i) BY <3>4, Zenon DEF Chmod, FdInv
    <3>5. CASE Exec(i)
      <4>1. names' = names BY <3>5, Zenon DEF Exec
      <4>2. CASE UNCHANGED fd BY <4>1, <4>2, Zenon DEF FdInv
      <4>3. CASE Exists(i) /\ fd' = [fd EXCEPT ![i] = [ino |-> names[Path(i)], at |-> 0]]
        <5>1. names[Path(i)] \in Tasks /\ Shares(i, names[Path(i)]) BY <4>3, Zenon DEF FdInv, Exists, Shares
        <5>2. fd'[i] = [ino |-> names[Path(i)], at |-> 0] BY <4>3, Zenon DEF FdInv
        <5>3. fd'[i] \in [ino : Tasks, at : Nat] /\ fd'[i].ino = names[Path(i)] BY <5>1, <5>2
        <5> QED BY <4>1, <5>1, <5>3, Zenon DEF FdInv
      <4> QED BY <3>5, <4>2, <4>3, Zenon DEF Exec
    <3>6. CASE Run(i)
      <4>1. names' = names /\ (fd' = fd \/ fd'[i] = [fd[i] EXCEPT !.at = fd[i].at + 1]) BY <3>6, Zenon DEF Run, FdInv
      <4>2. fd[i] \in [ino : Tasks, at : Nat] BY Zenon DEF FdInv
      <4>3. fd'[i] \in [ino : Tasks, at : Nat] /\ fd'[i].ino = fd[i].ino BY <4>1, <4>2
      <4> QED BY <4>1, <4>3, Zenon DEF FdInv
    <3>7. CASE Unlink(i) BY <3>7, Zenon DEF Unlink, FdInv
    <3>8. CASE RunDirect(i) BY <3>8, Zenon DEF RunDirect, fileVars, FdInv
    <3>9. CASE Grep(i) \/ Add(i) BY <3>9, Zenon DEF Grep, Add, fileVars, FdInv
    <3> QED BY <1>2, <3>1, <3>2, <3>3, <3>4, <3>5, <3>6, <3>7, <3>8, <3>9, Zenon DEF Shell
  <2>3. \A j \in Tasks : fd'[j] \in [ino : Tasks, at : Nat] BY <2>1, <2>2, Zenon DEF FdInv
  <2>4. fd' \in [Tasks -> [ino : Tasks, at : Nat]]
    <3>1. fd' = [j \in Tasks |-> fd'[j]]
      <4>1. fd' = [j \in DOMAIN fd' |-> fd'[j]]
        <5> USE DEF FdInv
        <5>1. CASE Create(i) \/ Write(i) BY <5>1, Zenon DEF Create, Write
        <5>2. CASE Written(i) \/ Chmod(i) \/ Unlink(i) \/ RunDirect(i) \/ Grep(i) \/ Add(i)
          BY <5>2, Zenon DEF Written, Chmod, Unlink, RunDirect, Grep, Add, fileVars
        <5>3. CASE Exec(i) \/ Run(i) BY <5>3, Zenon DEF Exec, Run
        <5> QED BY <1>2, <5>1, <5>2, <5>3, Zenon DEF Shell
      <4> QED BY <2>1, <4>1
    <3> QED BY <2>3, <3>1
  <2>5. \A j \in Tasks : job[j].kind = "file" => Shares(j, fd'[j].ino) BY <2>1, <2>2, Zenon DEF FdInv
  <2> QED BY <1>0, <2>2, <2>4, <2>5, Zenon DEF FdInv
<1> QED BY <1>1, <1>2, Zenon DEF ScriptNext

(* A name is made by a shell that will remove it, and removing a shared    *)
(* one early leaves none without an owner.                                 *)
LEMMA OwnerStep ==
  ASSUME PlaceInv, FdInv, OwnerInv, [ScriptNext]_scriptVars
  PROVE  OwnerInv'
<1>0. job' = job /\ Tasks' = Tasks /\ \A j : Path(j)' = Path(j) BY JobFixed, Zenon
<1>1. CASE UNCHANGED scriptVars BY <1>0, <1>1, Zenon DEF scriptVars, fileVars, OwnerInv
<1>2. ASSUME NEW i \in Tasks, Shell(i) PROVE OwnerInv'
  <2>1. \A j \in Tasks \ {i} : spc'[j] = spc[j] BY <1>2, OthersRest, Zenon
  <2>2. DOMAIN spc = Tasks BY Zenon DEF PlaceInv
  <2>3. ASSUME NEW q \in DOMAIN names'
        PROVE  \/ q \in DOMAIN names /\ (Path(i) = q /\ spc[i] \in {"write", "chmod", "exec", "run", "remove"} /\ job[i].kind = "file"
                                           => spc'[i] \in {"write", "chmod", "exec", "run", "remove"})
               \/ Path(i) = q /\ job[i].kind = "file" /\ spc'[i] = "write"
    <3> USE <2>2 DEF Go, Fails
    <3>1. CASE Create(i) BY <3>1, Zenon DEF Create, PlaceInv
    <3>2. CASE Write(i) \/ Written(i) BY <3>2, Zenon DEF Write, Written, fileVars
    <3>3. CASE Chmod(i) \/ Exec(i) BY <3>3, Zenon DEF Chmod, Exec
    <3>4. CASE Run(i) BY <3>4, Zenon DEF Run
    <3>5. CASE Unlink(i) BY <3>5, Zenon DEF Unlink
    <3>6. CASE RunDirect(i) BY <3>6, Zenon DEF RunDirect, fileVars
    <3>7. CASE Grep(i) \/ Add(i) BY <3>7, Zenon DEF Grep, Add, fileVars, PlaceInv
    <3> QED BY <1>2, <3>1, <3>2, <3>3, <3>4, <3>5, <3>6, <3>7, Zenon DEF Shell
  <2>4. ASSUME NEW q \in DOMAIN names'
        PROVE  \E j \in Tasks : /\ Path(j) = q /\ job[j].kind = "file"
                                /\ spc'[j] \in {"write", "chmod", "exec", "run", "remove"}
    <3>1. CASE Path(i) = q /\ job[i].kind = "file" /\ spc'[i] = "write" BY <3>1, Zenon
    <3>2. CASE /\ q \in DOMAIN names
               /\ Path(i) = q /\ spc[i] \in {"write", "chmod", "exec", "run", "remove"} /\ job[i].kind = "file"
                    => spc'[i] \in {"write", "chmod", "exec", "run", "remove"}
      <4>1. PICK j \in Tasks : /\ Path(j) = q /\ job[j].kind = "file"
                               /\ spc[j] \in {"write", "chmod", "exec", "run", "remove"}
        BY <3>2, Zenon DEF OwnerInv
      <4>2. CASE j = i BY <3>2, <4>1, <4>2, Zenon
      <4>3. CASE j # i BY <2>1, <4>1, <4>3, Zenon
      <4> QED BY <4>2, <4>3, Zenon
    <3> QED BY <2>3, <3>1, <3>2, Zenon
  <2> QED BY <1>0, <2>4, Zenon DEF OwnerInv
<1> QED BY <1>1, <1>2, Zenon DEF ScriptNext

IsWritten(S, s, n, x, t) ==
  /\ t \in Seq(S) /\ Len(t) = (IF Len(s) < n THEN n ELSE Len(s))
  /\ n \in DOMAIN t /\ t[n] = x
  /\ \A k \in DOMAIN t \ {n} : t[k] = IF k \in DOMAIN s THEN s[k] ELSE Hole

(* What a file holds after a write at a place.                             *)
LEMMA WriteAtFacts ==
  ASSUME NEW S, Hole \in S, NEW s \in Seq(S), NEW n \in Nat \ {0}, NEW x \in S
  PROVE  IsWritten(S, s, n, x, WriteAt(s, n, x))
<1> DEFINE m == IF Len(s) < n THEN n ELSE Len(s)
           v(k) == IF k = n THEN x ELSE IF k <= Len(s) THEN s[k] ELSE Hole
           t == [k \in 1 .. m |-> v(k)]
<1>1. Len(s) \in Nat /\ DOMAIN s = 1 .. Len(s) /\ m \in Nat /\ n \in 1 .. m OBVIOUS
<1>2. WriteAt(s, n, x) = t BY Zenon DEF WriteAt
<1>3. \A k \in 1 .. m : v(k) \in S BY <1>1
<1>4. \A k \in (1 .. m) \ {n} : v(k) = IF k \in DOMAIN s THEN s[k] ELSE Hole BY <1>1
<1>5. v(n) = x OBVIOUS
<1> HIDE DEF m, v
<1>6. t \in Seq(S) /\ Len(t) = m /\ DOMAIN t = 1 .. m /\ \A k \in 1 .. m : t[k] = v(k) BY <1>1, <1>3
<1> HIDE DEF t
<1>7. IsWritten(S, s, n, x, t) BY <1>1, <1>4, <1>5, <1>6, Zenon DEF m, IsWritten
<1> QED BY <1>2, <1>7, Zenon

(* A line more, at its place.                                              *)
LEMMA OneMore ==
  ASSUME NEW S, NEW s \in Seq(S), NEW x \in S
  PROVE  /\ Append(s, x) \in Seq(S) /\ Len(Append(s, x)) = Len(s) + 1 /\ Append(s, x)[Len(s) + 1] = x
         /\ DOMAIN Append(s, x) = DOMAIN s \cup {Len(s) + 1}
         /\ \A k \in DOMAIN s : Append(s, x)[k] = s[k] /\ k # Len(s) + 1
  OBVIOUS

(* Every line of a file, and every line that was run, is in its place.     *)
LEMMA TextStep ==
  ASSUME PlaceInv, FdInv, TextInv, [ScriptNext]_scriptVars
  PROVE  TextInv'
<1>0. /\ job' = job /\ Tasks' = Tasks /\ Lines' = Lines
      /\ \A i, t : Placed(i, t)' <=> Placed(i, t)
  BY JobFixed, Zenon
<1>1. CASE UNCHANGED scriptVars BY <1>0, <1>1, Zenon DEF scriptVars, fileVars, TextInv
<1>2. ASSUME NEW i \in Tasks, Shell(i) PROVE TextInv'
  <2>1. \A j \in Tasks \ {i} : spc'[j] = spc[j] /\ fd'[j] = fd[j] /\ ran'[j] = ran[j]
    BY <1>2, OthersRest, Zenon
  <2>2. \A n, m \in Tasks : \A t : job[n].kind = "file" /\ Shares(n, m) => (Placed(n, t) <=> Placed(m, t))
    BY Zenon DEF Shares, Placed
  <2>3. /\ data' \in [Tasks -> Seq(Lines)]
        /\ \A n \in Tasks : job[n].kind = "file" => Placed(n, data'[n])
    <3>1. CASE Create(i)
      <4>1. PICK n \in Tasks : data' = [data EXCEPT ![n] = <<>>]
        <5>1. CASE Exists(i) BY <3>1, <5>1, Zenon DEF Create, FdInv, Exists
        <5>2. CASE ~Exists(i) BY <3>1, <5>2, Zenon DEF Create
        <5> QED BY <5>1, <5>2, Zenon
      <4>2. <<>> \in Seq(Lines) /\ \A m : Placed(m, <<>>) BY DEF Placed
      <4> QED BY <4>1, <4>2, Zenon DEF TextInv
    <3>2. CASE Write(i)
      <4> DEFINE n == fd[i].ino
                 a == fd[i].at + 1
                 c == job[i].cmd
                 t == WriteAt(data[n], a, c[a])
      <4>1. spc[i] = "write" /\ job[i].kind = "file" BY <3>2, Zenon DEF Write, PlaceInv
      <4>2. Doc(i) = c /\ c \in Seq(Lines) BY <4>1, WholeDoc, CmdLines, Zenon DEF PlaceInv
      <4>3. n \in Tasks /\ Shares(i, n) /\ fd[i].at \in Nat BY <4>1 DEF FdInv
      <4>4. fd[i].at < Len(c) /\ data' = [data EXCEPT ![n] = t] BY <3>2, <4>2, Zenon DEF Write
      <4>5. a \in DOMAIN c /\ a \in Nat \ {0} /\ c[a] \in Lines BY <4>2, <4>3, <4>4
      <4>6. data[n] \in Seq(Lines) /\ Hole \in Lines BY <4>3, Zenon DEF TextInv, Lines
      <4>7. job[n].kind = "file" /\ Shares(n, i) /\ Placed(n, data[n]) BY <4>1, <4>3, Zenon DEF Shares, TextInv
      <4> HIDE DEF a, n, c
      <4>8. /\ t \in Seq(Lines) /\ t[a] = c[a]
            /\ \A k \in DOMAIN t \ {a} : t[k] = IF k \in DOMAIN data[n] THEN data[n][k] ELSE Hole
        <5>1. IsWritten(Lines, data[n], a, c[a], t) BY <4>5, <4>6, WriteAtFacts, Zenon
        <5> QED BY <5>1, Zenon DEF IsWritten
      <4> HIDE DEF t
      <4>9. Placed(n, t)
        <5> SUFFICES ASSUME NEW k \in DOMAIN t
                     PROVE  \/ t[k] = Hole
                            \/ \E j \in Tasks : Shares(n, j) /\ k \in DOMAIN job[j].cmd /\ t[k] = job[j].cmd[k]
          BY Zenon DEF Placed
        <5>1. CASE k = a BY <4>5, <4>7, <4>8, <5>1, Zenon DEF c
        <5>2. CASE k # a /\ k \in DOMAIN data[n] BY <4>7, <4>8, <5>2, Zenon DEF Placed
        <5>3. CASE k # a /\ k \notin DOMAIN data[n] BY <4>8, <5>3, Zenon
        <5> QED BY <5>1, <5>2, <5>3, Zenon
      <4> QED BY <4>3, <4>4, <4>8, <4>9, Zenon DEF TextInv
    <3>3. CASE data' = data BY <3>3, Zenon DEF TextInv
    <3> QED BY <1>2, <3>1, <3>2, <3>3, Zenon
          DEF Shell, Written, Chmod, Exec, Run, Unlink, RunDirect, Grep, Add, fileVars
  <2>4. ASSUME job[i].kind = "file"
        PROVE  /\ ran'[i] \in Seq(Lines) /\ Placed(i, ran'[i])
               /\ spc'[i] = "run" => Len(ran'[i]) = fd'[i].at
    <3>1. CASE Run(i) /\ ~UNCHANGED ran
      <4> DEFINE n == fd[i].ino
                 a == fd[i].at + 1
                 t == data[n]
      <4>1. /\ spc[i] = "run" /\ a <= Len(t) /\ ran' = [ran EXCEPT ![i] = Append(@, t[a])]
            /\ fd' = [fd EXCEPT ![i].at = a]
        BY <3>1, Zenon DEF Run
      <4>2. n \in Tasks /\ Shares(i, n) /\ fd[i].at \in Nat BY <2>4 DEF FdInv
      <4>3. t \in Seq(Lines) /\ Placed(n, t) BY <4>2, Zenon DEF TextInv, Shares
      <4>4. Placed(i, t) BY <2>2, <2>4, <4>2, <4>3, Zenon
      <4>5. a \in DOMAIN t /\ t[a] \in Lines BY <4>1, <4>2, <4>3
      <4>6. ran[i] \in Seq(Lines) /\ Placed(i, ran[i]) /\ Len(ran[i]) + 1 = a
        BY <2>4, <4>1, Zenon DEF TextInv
      <4>7. ran'[i] = Append(ran[i], t[a]) /\ fd'[i].at = a BY <4>1, <4>2 DEF PlaceInv, FdInv
      <4> HIDE DEF a, t, n
      <4>8. /\ ran'[i] \in Seq(Lines) /\ Len(ran'[i]) = a /\ ran'[i][a] = t[a]
            /\ DOMAIN ran'[i] = DOMAIN ran[i] \cup {a}
            /\ \A k \in DOMAIN ran[i] : ran'[i][k] = ran[i][k]
        BY <4>5, <4>6, <4>7, OneMore
      <4>9. Placed(i, ran'[i])
        <5> SUFFICES ASSUME NEW k \in DOMAIN ran'[i]
                     PROVE  \/ ran'[i][k] = Hole
                            \/ \E j \in Tasks : Shares(i, j) /\ k \in DOMAIN job[j].cmd /\ ran'[i][k] = job[j].cmd[k]
          BY Zenon DEF Placed
        <5>1. CASE k = a BY <4>4, <4>5, <4>8, <5>1, Zenon DEF Placed
        <5>2. CASE k \in DOMAIN ran[i] BY <4>6, <4>8, <5>2, Zenon DEF Placed
        <5> QED BY <4>8, <5>1, <5>2, Zenon
      <4> QED BY <4>7, <4>8, <4>9, Zenon
    <3>2. CASE Exec(i)
      <4>1. ran'[i] = ran[i] /\ ran[i] = <<>> /\ (spc'[i] = "run" => fd'[i] = [ino |-> names[Path(i)], at |-> 0])
        BY <3>2, Zenon DEF Exec, PlaceInv, FdInv, Fails, Go
      <4>2. ran[i] \in Seq(Lines) /\ Placed(i, ran[i]) BY <2>4, Zenon DEF TextInv
      <4> QED BY <4>1, <4>2
    <3>3. CASE ran' = ran /\ (spc'[i] = "run" => spc[i] = "run" /\ fd' = fd)
      BY <2>4, <3>3, Zenon DEF TextInv
    <3>4. Run(i) /\ UNCHANGED ran => spc'[i] # "run"
      <4> SUFFICES ASSUME Run(i), UNCHANGED ran PROVE spc'[i] # "run" OBVIOUS
      <4>1. ran[i] \in Seq(Lines) BY <2>4, Zenon DEF TextInv
      <4>2. \A x : Append(ran[i], x) # ran[i]
        <5> SUFFICES ASSUME NEW x PROVE Append(ran[i], x) # ran[i] OBVIOUS
        <5>1. ran[i] \in Seq(Lines \cup {x}) /\ x \in Lines \cup {x} BY <4>1
        <5>2. Len(Append(ran[i], x)) = Len(ran[i]) + 1 BY <5>1, OneMore
        <5>3. Len(ran[i]) \in Nat BY <4>1
        <5> QED BY <5>2, <5>3
      <4>3. ~\E x : ran' = [ran EXCEPT ![i] = Append(@, x)] BY <4>2, Zenon DEF PlaceInv
      <4> QED BY <4>3, Zenon DEF Run, Go, PlaceInv
    <3>5. Create(i) \/ Write(i) \/ Written(i) \/ Chmod(i) \/ Unlink(i) => ran' = ran /\ (spc'[i] = "run" => FALSE)
      BY Zenon DEF Create, Write, Written, Chmod, Unlink, Go, Fails, PlaceInv
    <3>6. ~RunDirect(i) /\ ~Grep(i) /\ ~Add(i) BY <2>4, Zenon DEF RunDirect, Grep, Add, PlaceInv
    <3> QED BY <1>2, <3>1, <3>2, <3>3, <3>4, <3>5, <3>6, Zenon DEF Shell
  <2>5. ASSUME NEW j \in Tasks, job[j].kind = "file"
        PROVE  /\ ran'[j] \in Seq(Lines) /\ Placed(j, ran'[j])
               /\ spc'[j] = "run" => Len(ran'[j]) = fd'[j].at
    <3>1. CASE j = i BY <2>4, <2>5, <3>1, Zenon
    <3>2. CASE j # i BY <2>1, <2>5, <3>2, Zenon DEF TextInv
    <3> QED BY <3>1, <3>2, Zenon
  <2> QED BY <1>0, <2>3, <2>5, Zenon DEF TextInv
<1> QED BY <1>1, <1>2, Zenon DEF ScriptNext

(* Two sequences of one length with the same lines are the same.           *)
LEMMA WholePrefix ==
  ASSUME NEW S, NEW s \in Seq(S), NEW t \in Seq(S), Prefix(s, t, Len(t))
  PROVE  s = t
  BY DEF Prefix

(* Nobody touches the file of a task that is alone with it.                *)
LEMMA FileKept ==
  ASSUME PlaceInv, FdInv, TextInv, NEW i \in Tasks, Shell(i),
         NEW j \in Tasks, j # i, job[j].kind = "file", Alone(j)
  PROVE  data'[j] = data[j] /\ (Exists(j) => Path(j) \in DOMAIN names') /\ (j \in mode => j \in mode')
<1>1. job[i].kind = "file" => Path(i) # Path(j) /\ \A n \in Tasks : Shares(i, n) => n # j BY Zenon DEF Alone, Shares
<1>2. DOMAIN data = Tasks BY Zenon DEF TextInv
<1>3. CASE Create(i)
  <2>1. job[i].kind = "file" BY <1>3, Zenon DEF Create, PlaceInv
  <2>2. PICK n \in Tasks : n # j /\ data' = [data EXCEPT ![n] = <<>>]
    <3>1. CASE Exists(i) BY <1>1, <1>3, <2>1, <3>1, Zenon DEF Create, FdInv, Exists, Shares
    <3>2. CASE ~Exists(i) BY <1>3, <3>2, Zenon DEF Create
    <3> QED BY <3>1, <3>2, Zenon
  <2>3. data'[j] = data[j] BY <1>2, <2>2, Zenon
  <2> QED BY <1>3, <2>3, Zenon DEF Create, Exists
<1>4. CASE Write(i)
  <2>1. job[i].kind = "file" BY <1>4, Zenon DEF Write, PlaceInv
  <2>2. fd[i].ino # j BY <1>1, <2>1 DEF FdInv
  <2> QED BY <1>2, <1>4, <2>2, Zenon DEF Write, Exists
<1>5. CASE Written(i) \/ Chmod(i) \/ Exec(i) \/ Run(i)
  BY <1>5, Zenon DEF Written, Chmod, Exec, Run, fileVars, Exists
<1>6. CASE Unlink(i)
  <2>1. job[i].kind = "file" BY <1>6, Zenon DEF Unlink, PlaceInv
  <2> QED BY <1>1, <1>6, <2>1, Zenon DEF Unlink, Exists
<1>7. CASE RunDirect(i) \/ Grep(i) \/ Add(i) BY <1>7, Zenon DEF RunDirect, Grep, Add, fileVars, Exists
<1> QED BY <1>3, <1>4, <1>5, <1>6, <1>7, Zenon DEF Shell

(* The clauses of AloneInv about one task, after a step.                   *)
AloneNext(i) ==
  /\ spc'[i] \in {"write", "chmod", "exec", "run"} => Path(i) \in DOMAIN names'
  /\ spc'[i] = "write" => Prefix(data'[i], job[i].cmd, fd'[i].at)
  /\ spc'[i] \in {"chmod", "exec", "run"} => data'[i] = job[i].cmd
  /\ spc'[i] = "exec" => i \in mode'
  /\ spc'[i] = "run" => Prefix(ran'[i], job[i].cmd, fd'[i].at)
  /\ spc'[i] \in {"remove", "done"} /\ ok'[i] => ran'[i] = job[i].cmd

(* A task that is alone with its file writes it whole and runs it whole.   *)
LEMMA OwnStep ==
  ASSUME PlaceInv, FdInv, TextInv, AloneInv, NEW i \in Tasks, Shell(i), job[i].kind = "file", Alone(i)
  PROVE  AloneNext(i)
<1> DEFINE c == job[i].cmd
<1>1. /\ spc[i] \in {"write", "chmod", "exec", "run"} => Exists(i)
      /\ spc[i] = "write" => Prefix(data[i], c, fd[i].at)
      /\ spc[i] \in {"chmod", "exec", "run"} => data[i] = c
      /\ spc[i] = "exec" => i \in mode
      /\ spc[i] = "run" => Prefix(ran[i], c, fd[i].at)
      /\ spc[i] \in {"remove", "done"} /\ ok[i] => ran[i] = c
  BY Zenon DEF AloneInv
<1>2. Doc(i) = c /\ c \in Seq(Lines) BY WholeDoc, CmdLines, Zenon DEF PlaceInv
<1>3. data[i] \in Seq(Lines) /\ ran[i] \in Seq(Lines) BY Zenon DEF TextInv
<1>4. \A n \in Tasks : Shares(i, n) => n = i BY Zenon DEF Alone
<1>5. fd[i].ino = i /\ fd[i].at \in Nat BY <1>4 DEF FdInv
<1>6. Exists(i) => names[Path(i)] = i BY <1>4, Zenon DEF FdInv, Exists, Shares
<1>7. /\ i \in DOMAIN spc /\ i \in DOMAIN ok /\ i \in DOMAIN ran /\ i \in DOMAIN fd /\ i \in DOMAIN data
      /\ fd[i] \in [ino : Tasks, at : Nat]
  BY Zenon DEF PlaceInv, FdInv, TextInv
<1>8. Prefix(<<>>, c, 0) BY <1>2 DEF Prefix
<1> HIDE DEF c
<1>9. CASE Create(i)
  <2>1. /\ spc' = [spc EXCEPT ![i] = "write"] /\ Path(i) \in DOMAIN names'
        /\ data' = [data EXCEPT ![i] = <<>>] /\ fd' = [fd EXCEPT ![i] = [ino |-> i, at |-> 0]]
    <3>1. CASE Exists(i) BY <1>6, <1>9, <3>1, Zenon DEF Create, Go
    <3>2. CASE ~Exists(i) BY <1>9, <3>2, Zenon DEF Create, Go
    <3> QED BY <3>1, <3>2, Zenon
  <2>2. spc'[i] = "write" /\ data'[i] = <<>> /\ fd'[i].at = 0 BY <1>7, <2>1
  <2> QED BY <1>8, <2>1, <2>2, Zenon DEF AloneNext, c
<1>10. CASE Write(i)
  <2> DEFINE a == fd[i].at + 1
             t == WriteAt(data[i], a, c[a])
  <2>1. /\ spc[i] = "write" /\ spc' = spc /\ names' = names /\ fd[i].at < Len(c)
        /\ data' = [data EXCEPT ![i] = t] /\ fd' = [fd EXCEPT ![i].at = @ + 1]
    BY <1>2, <1>5, <1>10, Zenon DEF Write
  <2>2. /\ a \in Nat \ {0} /\ a \in DOMAIN c /\ c[a] \in Lines /\ a <= Len(c)
        /\ fd[i].at < a /\ \A k \in 1 .. a : k = a \/ k \in 1 .. fd[i].at
    BY <1>2, <1>5, <2>1
  <2>3. Len(data[i]) = fd[i].at /\ \A k \in 1 .. fd[i].at : data[i][k] = c[k] BY <1>1, <2>1, Zenon DEF Prefix
  <2>4. DOMAIN data[i] = 1 .. fd[i].at BY <1>3, <2>3
  <2>5. Hole \in Lines BY Zenon DEF Lines
  <2>6. fd'[i].at = a /\ data'[i] = t BY <1>7, <2>1
  <2> HIDE DEF a
  <2>7. IsWritten(Lines, data[i], a, c[a], t) BY <1>3, <2>2, <2>5, WriteAtFacts, Zenon
  <2> HIDE DEF t
  <2>8. Len(t) = a /\ t[a] = c[a] /\ t \in Seq(Lines)
        /\ \A k \in DOMAIN t \ {a} : t[k] = IF k \in DOMAIN data[i] THEN data[i][k] ELSE Hole
    BY <2>2, <2>3, <2>7, Zenon DEF IsWritten
  <2>9. DOMAIN t = 1 .. a BY <2>2, <2>8
  <2>10. \A k \in 1 .. a : t[k] = c[k] BY <2>2, <2>3, <2>4, <2>8, <2>9, Zenon
  <2>11. Prefix(t, c, a) BY <2>2, <2>8, <2>10, Zenon DEF Prefix
  <2> QED BY <1>1, <2>1, <2>6, <2>11, Zenon DEF AloneNext, Exists, c
<1>11. CASE Written(i)
  <2>1. data' = data /\ names' = names BY <1>11, Zenon DEF Written, fileVars
  <2>2. CASE spc[i] = "write" /\ fd[i].at = Len(Doc(i)) /\ Go(i, "chmod")
    <3>1. data[i] = c BY <1>1, <1>2, <1>3, <2>2, WholePrefix, Zenon
    <3>2. spc'[i] = "chmod" BY <1>7, <2>2, Zenon DEF Go
    <3> QED BY <1>1, <2>1, <2>2, <3>1, <3>2, Zenon DEF AloneNext, Exists, c
  <2>3. CASE Fails(i)
    <3>1. spc'[i] = "remove" /\ ok'[i] = FALSE BY <1>7, <2>3, Zenon DEF Fails, Go
    <3> QED BY <3>1, Zenon DEF AloneNext
  <2> QED BY <1>11, <2>2, <2>3, Zenon DEF Written
<1>12. CASE Chmod(i)
  <2>1. spc[i] = "chmod" /\ Exists(i) /\ names' = names /\ data' = data BY <1>1, <1>12, Zenon DEF Chmod
  <2>2. spc'[i] = "exec" /\ i \in mode' BY <1>6, <1>7, <1>12, <2>1, Zenon DEF Chmod, Go
  <2> QED BY <1>1, <2>1, <2>2, Zenon DEF AloneNext, Exists, c
<1>13. CASE Exec(i)
  <2>1. spc[i] = "exec" /\ Exists(i) /\ i \in mode /\ names' = names /\ data' = data /\ ran' = ran
    BY <1>1, <1>13, Zenon DEF Exec
  <2>2. ran[i] = <<>> BY <2>1, Zenon DEF PlaceInv
  <2>3. ~Writing(i)
    <3> SUFFICES ASSUME NEW j \in Tasks, spc[j] = "write", fd[j].ino = i PROVE FALSE BY Zenon DEF Writing
    <3>1. job[j].kind = "file" BY Zenon DEF PlaceInv
    <3>2. Shares(i, j) BY <3>1, Zenon DEF FdInv, Shares
    <3> QED BY <1>4, <2>1, <3>2
  <2>4. spc' = [spc EXCEPT ![i] = "run"] /\ fd' = [fd EXCEPT ![i] = [ino |-> i, at |-> 0]]
    BY <1>6, <1>13, <2>1, <2>3, Zenon DEF Exec, Go
  <2>5. spc'[i] = "run" /\ fd'[i].at = 0 BY <1>7, <2>4
  <2> QED BY <1>1, <1>8, <2>1, <2>2, <2>5, Zenon DEF AloneNext, Exists, c
<1>14. CASE Run(i)
  <2> DEFINE a == fd[i].at + 1
  <2>1. spc[i] = "run" /\ data[i] = c /\ data' = data /\ names' = names BY <1>1, <1>14, Zenon DEF Run
  <2>2. Len(ran[i]) = fd[i].at /\ fd[i].at <= Len(c) /\ \A k \in 1 .. fd[i].at : ran[i][k] = c[k]
    BY <1>1, <2>1, Zenon DEF Prefix
  <2>3. CASE /\ a <= Len(c) /\ ran' = [ran EXCEPT ![i] = Append(@, c[a])] /\ fd' = [fd EXCEPT ![i].at = a]
             /\ UNCHANGED spc
    <3>1. a \in DOMAIN c /\ c[a] \in Lines /\ \A k \in 1 .. a : k = a \/ k \in 1 .. fd[i].at
      BY <1>2, <1>5, <2>3
    <3>2. ran'[i] = Append(ran[i], c[a]) /\ fd'[i].at = a BY <1>7, <2>3
    <3>3. DOMAIN ran[i] = 1 .. fd[i].at BY <1>3, <2>2
    <3>4. /\ Len(Append(ran[i], c[a])) = Len(ran[i]) + 1 /\ Append(ran[i], c[a])[Len(ran[i]) + 1] = c[a]
          /\ \A k \in DOMAIN ran[i] : Append(ran[i], c[a])[k] = ran[i][k]
      BY <1>3, <3>1, OneMore
    <3>5. Len(ran'[i]) = a /\ \A k \in 1 .. a : ran'[i][k] = c[k]
      BY <2>2, <3>1, <3>2, <3>3, <3>4, Zenon
    <3>6. Prefix(ran'[i], c, a) BY <2>3, <3>5, Zenon DEF Prefix
    <3> QED BY <1>1, <2>1, <2>3, <3>2, <3>6, Zenon DEF AloneNext, Exists, c
  <2>4. CASE a > Len(c) /\ Go(i, "remove") /\ UNCHANGED <<ran, fd>>
    <3>1. fd[i].at = Len(c) BY <1>2, <1>5, <2>2, <2>4
    <3>2. ran[i] = c BY <1>1, <1>2, <1>3, <2>1, <3>1, WholePrefix, Zenon
    <3>3. spc'[i] = "remove" /\ ran' = ran BY <1>7, <2>4, Zenon DEF Go
    <3> QED BY <3>2, <3>3, Zenon DEF AloneNext, c
  <2> QED BY <1>5, <1>14, <2>1, <2>3, <2>4, Zenon DEF Run
<1>15. CASE Unlink(i)
  <2>1. spc[i] = "remove" /\ spc'[i] = "done" /\ ok' = ok /\ ran' = ran BY <1>7, <1>15, Zenon DEF Unlink, Go
  <2> QED BY <1>1, <2>1, Zenon DEF AloneNext, c
<1>16. ~RunDirect(i) /\ ~Grep(i) /\ ~Add(i) BY Zenon DEF RunDirect, Grep, Add, PlaceInv
<1> QED BY <1>9, <1>10, <1>11, <1>12, <1>13, <1>14, <1>15, <1>16, Zenon DEF Shell

(* Other tasks leave it that way.                                          *)
LEMMA AloneStep ==
  ASSUME PlaceInv, FdInv, TextInv, AloneInv, [ScriptNext]_scriptVars
  PROVE  AloneInv'
<1>0. /\ job' = job /\ Tasks' = Tasks
      /\ \A j : Path(j)' = Path(j) /\ (Alone(j)' <=> Alone(j))
  BY JobFixed, Zenon
<1>1. CASE UNCHANGED scriptVars BY <1>0, <1>1, Zenon DEF scriptVars, fileVars, AloneInv, Exists
<1>2. ASSUME NEW i \in Tasks, Shell(i) PROVE AloneInv'
  <2>1. ASSUME NEW j \in Tasks, job[j].kind = "file", Alone(j) PROVE AloneNext(j)
    <3>1. CASE j = i BY <1>2, <2>1, <3>1, OwnStep, Zenon
    <3>2. CASE j # i
      <4>1. spc'[j] = spc[j] /\ ok'[j] = ok[j] /\ fd'[j] = fd[j] /\ ran'[j] = ran[j] BY <1>2, <3>2, OthersRest, Zenon
      <4>2. data'[j] = data[j] /\ (Exists(j) => Path(j) \in DOMAIN names') /\ (j \in mode => j \in mode')
        BY <1>2, <2>1, <3>2, FileKept, Zenon
      <4> QED BY <2>1, <4>1, <4>2, Zenon DEF AloneInv, AloneNext
    <3> QED BY <3>1, <3>2, Zenon
  <2> QED BY <1>0, <2>1, Zenon DEF AloneInv, AloneNext, Exists
<1> QED BY <1>1, <1>2, Zenon DEF ScriptNext

-----------------------------------------------------------------------------
(* What a pipe or a command without a script runs is all of it.            *)
DirectInv ==
  \A i \in Tasks : job[i].kind \in {"pipe", "plain"} /\ spc[i] = "done" => ran[i] = job[i].cmd

(* Only the one step that runs it brings its shell to the end.             *)
LEMMA DirectStep ==
  ASSUME PlaceInv, FdInv, DirectInv, [ScriptNext]_scriptVars
  PROVE  DirectInv'
<1>0. job' = job /\ Tasks' = Tasks BY JobFixed, Zenon
<1>1. CASE UNCHANGED scriptVars BY <1>0, <1>1, Zenon DEF scriptVars, DirectInv
<1>2. ASSUME NEW i \in Tasks, Shell(i) PROVE DirectInv'
  <2>1. ASSUME NEW j \in Tasks, job[j].kind \in {"pipe", "plain"}, spc'[j] = "done" PROVE ran'[j] = job[j].cmd
    <3>1. CASE j # i
      <4>1. spc'[j] = spc[j] /\ ran'[j] = ran[j] BY <1>2, <3>1, OthersRest, Zenon
      <4> QED BY <2>1, <4>1, Zenon DEF DirectInv
    <3>2. CASE j = i
      <4>1. job[i].kind # "file" /\ job[i].kind # "auth" BY <2>1, <3>2
      <4>2. RunDirect(i)
        BY <1>2, <4>1, Zenon DEF Shell, PlaceInv, Create, Write, Written, Chmod, Exec, Run, Unlink, Grep, Add
      <4>3. Doc(i) = job[i].cmd BY <4>1, WholeDoc, Zenon DEF PlaceInv
      <4>4. ran' = [ran EXCEPT ![i] = job[i].cmd] BY <4>2, <4>3, Zenon DEF RunDirect
      <4> QED BY <3>2, <4>4, Zenon DEF PlaceInv
    <3> QED BY <3>1, <3>2, Zenon
  <2> QED BY <1>0, <2>1, Zenon DEF DirectInv
<1> QED BY <1>1, <1>2, Zenon DEF ScriptNext

(* What there is to know of a sequence with one more element.              *)
LEMMA Added ==
  ASSUME NEW S, NEW s \in Seq(S), NEW x \in S
  PROVE  \E n : /\ Append(s, x) \in Seq(S)
                /\ DOMAIN Append(s, x) = DOMAIN s \cup {n} /\ n \notin DOMAIN s
                /\ Append(s, x)[n] = x
                /\ \A k \in DOMAIN s : Append(s, x)[k] = s[k]
<1>1. /\ DOMAIN Append(s, x) = DOMAIN s \cup {Len(s) + 1} /\ Len(s) + 1 \notin DOMAIN s
      /\ Append(s, x)[Len(s) + 1] = x
  OBVIOUS
<1>2. Append(s, x) \in Seq(S) /\ \A k \in DOMAIN s : Append(s, x)[k] = s[k] OBVIOUS
<1> QED BY <1>1, <1>2, Zenon

(* A line is added only where none matched, unless two shells are at it    *)
(* on one machine.                                                         *)
LEMMA KeyStep ==
  ASSUME PlaceInv, FdInv, KeyInv, [ScriptNext]_scriptVars
  PROVE  KeyInv'
<1> USE DEF KeyInv
<1>0. /\ job' = job /\ Tasks' = Tasks /\ AllKeys' = AllKeys
      /\ \A j : (Sole(j)' <=> Sole(j)) /\ (Findable(j)' <=> Findable(j))
  BY JobFixed, Zenon DEF Findable
<1>1. CASE UNCHANGED scriptVars
  <2>1. auth' = auth /\ spc' = spc BY <1>1, Zenon DEF scriptVars
  <2>2. \A j : (Entered(j)' <=> Entered(j)) /\ (Found(j)' <=> Found(j)) BY <1>0, <2>1, Zenon DEF Entered, Found
  <2> QED BY <1>0, <2>1, <2>2
<1>2. ASSUME NEW i \in Tasks, Shell(i), ~Add(i) PROVE KeyInv'
  <2>1. auth' = auth
    BY <1>2, Zenon DEF Shell, Create, Write, Written, Chmod, Exec, Run, Unlink, RunDirect, Grep
  <2>2. \A j \in Tasks \ {i} : spc'[j] = spc[j] BY <1>2, OthersRest, Zenon
  <2>3. \A j : (Entered(j)' <=> Entered(j)) /\ (Found(j)' <=> Found(j)) BY <1>0, <2>1, Zenon DEF Entered, Found
  <2>4. job[i].kind = "auth" => spc'[i] = IF Found(i) THEN "done" ELSE "add"
    <3> SUFFICES ASSUME job[i].kind = "auth" PROVE spc'[i] = IF Found(i) THEN "done" ELSE "add" BY Zenon
    <3>1. job[i].kind # "file" /\ job[i].kind \notin {"pipe", "plain"} OBVIOUS
    <3>2. Grep(i)
      BY <1>2, <3>1, Zenon DEF Shell, PlaceInv, Create, Write, Written, Chmod, Exec, Run, Unlink, RunDirect
    <3> QED BY <3>2, Zenon DEF Grep, Go, PlaceInv
  <2>5. \A j \in Tasks : job[j].kind = "auth" =>
          (spc'[j] = "done" => Entered(j) \/ Found(j)) /\ (Sole(j) /\ spc'[j] = "add" => ~Found(j))
    BY <2>2, <2>4
  <2> QED BY <1>0, <2>1, <2>3, <2>5
<1>3. ASSUME NEW i \in Tasks, Add(i) PROVE KeyInv'
  <2> DEFINE d == job[i].disk
             old == auth[d]
             c == job[i].cmd.line
  <2>1. d \in DOMAIN auth /\ c \in AllKeys /\ old \in Seq(AllKeys) BY Zenon DEF AllKeys
  <2>2. /\ spc[i] = "add" /\ spc'[i] = "done" /\ job[i].kind = "auth"
        /\ \A j \in Tasks \ {i} : spc'[j] = spc[j]
    BY <1>3, Zenon DEF Add, Go, PlaceInv
  <2>3. /\ DOMAIN auth' = DOMAIN auth /\ auth'[d] = Append(old, c)
        /\ \A e \in DOMAIN auth \ {d} : auth'[e] = auth[e]
    BY <1>3, <2>1, Zenon DEF Add
  <2>4. PICK n : /\ Append(old, c) \in Seq(AllKeys)
                 /\ DOMAIN Append(old, c) = DOMAIN old \cup {n} /\ n \notin DOMAIN old
                 /\ Append(old, c)[n] = c
                 /\ \A k \in DOMAIN old : Append(old, c)[k] = old[k]
    <3> HIDE DEF old, c
    <3> QED BY <2>1, Added
  <2>5. \A e \in DOMAIN auth' : auth'[e] \in Seq(AllKeys) BY <2>1, <2>3, <2>4, Zenon
  <2>6. ASSUME NEW j \in Tasks, job[j].kind = "auth", job[j].disk # d
        PROVE  /\ Entered(j)' <=> Entered(j)
               /\ Found(j)' <=> Found(j)
               /\ auth'[job[j].disk] = auth[job[j].disk] /\ j # i
    <3>1. job[j].disk \in DOMAIN auth BY <2>6, Zenon
    <3>2. auth'[job[j].disk] = auth[job[j].disk] BY <2>3, <2>6, <3>1, Zenon
    <3> QED BY <1>0, <2>6, <3>2, Zenon DEF Entered, Found
  <2>7. ASSUME NEW j \in Tasks, job[j].kind = "auth", job[j].disk = d, j # i
        PROVE  /\ Entered(j) => Entered(j)'
               /\ Found(j) => Found(j)'
               /\ ~Sole(j)
    <3>1. ~Sole(j) BY <2>7, Zenon DEF Sole
    <3>2. \A k \in DOMAIN old : k \in DOMAIN auth'[d] /\ auth'[d][k] = old[k] BY <2>3, <2>4, Zenon
    <3>3. Entered(j) => Entered(j)' BY <1>0, <2>7, <3>2, Zenon DEF Entered
    <3>4. Found(j) => Found(j)' BY <1>0, <2>7, <3>2, Zenon DEF Found
    <3> QED BY <3>1, <3>3, <3>4, Zenon
  <2>8. Entered(i)'
    <3>1. n \in DOMAIN auth'[d] /\ auth'[d][n] = c BY <2>3, <2>4, Zenon
    <3> QED BY <1>0, <3>1, Zenon DEF Entered
  <2>9. Sole(i) /\ Findable(i) => \A k, l \in DOMAIN auth'[d] : auth'[d][k] = c /\ auth'[d][l] = c => k = l
    <3>1. ASSUME Sole(i), Findable(i), NEW k \in DOMAIN auth'[d], auth'[d][k] = c PROVE k = n
      <4>1. ~Found(i) BY <2>2, <3>1, Zenon
      <4>2. k \in DOMAIN old => old[k] = c BY <2>3, <2>4, <3>1, Zenon
      <4>3. k \notin DOMAIN old BY <3>1, <4>1, <4>2, Zenon DEF Found, Findable
      <4> QED BY <2>3, <2>4, <3>1, <4>3, Zenon
    <3> QED BY <3>1, Zenon
  <2>10. ASSUME NEW j \in Tasks, job[j].kind = "auth"
         PROVE  /\ spc'[j] = "done" => Entered(j)' \/ Found(j)'
                /\ Sole(j) /\ spc'[j] = "add" => ~Found(j)'
                /\ Sole(j) /\ Findable(j) => \A k, l \in DOMAIN auth'[job[j].disk] :
                     auth'[job[j].disk][k] = job[j].cmd.line /\ auth'[job[j].disk][l] = job[j].cmd.line => k = l
    <3>1. CASE j = i BY <2>2, <2>8, <2>9, <3>1, Zenon
    <3>2. CASE j # i /\ job[j].disk = d BY <2>2, <2>7, <2>10, <3>2, Zenon
    <3>3. CASE job[j].disk # d BY <2>2, <2>6, <2>10, <3>3, Zenon
    <3> QED BY <3>1, <3>2, <3>3, Zenon
  <2> HIDE DEF d, old, c
  <2>11. DOMAIN auth' = {job'[j].disk : j \in Tasks'}
    <3>1. DOMAIN auth = {job[j].disk : j \in Tasks} BY Zenon
    <3> HIDE DEF KeyInv
    <3>2. DOMAIN auth' = {job[j].disk : j \in Tasks} BY <2>3, <3>1, Zenon
    <3> QED BY <1>0, <3>2, Zenon
  <2>12. \A e \in DOMAIN auth' : auth'[e] \in Seq(AllKeys') BY <1>0, <2>5, Zenon
  <2>13. \A j \in Tasks : job[j].kind = "auth" =>
           /\ spc'[j] = "done" => Entered(j)' \/ Found(j)'
           /\ Sole(j)' /\ spc'[j] = "add" => ~Found(j)'
           /\ Sole(j)' /\ Findable(j)' => \A k, l \in DOMAIN auth'[job[j].disk] :
                auth'[job[j].disk][k] = job[j].cmd.line /\ auth'[job[j].disk][l] = job[j].cmd.line => k = l
    BY <1>0, <2>10
  <2> QED BY <1>0, <2>11, <2>12, <2>13
<1> QED BY <1>1, <1>2, <1>3, Zenon DEF ScriptNext, Shell

(* A file of keys has none twice before the first shell starts.            *)
LEMMA KeyInit == ScriptInit => KeyInv
<1> SUFFICES ASSUME ScriptInit PROVE KeyInv BY Zenon
<1>1. DOMAIN auth = {job[i].disk : i \in Tasks} BY Zenon DEF ScriptInit
<1>2. ASSUME NEW d \in DOMAIN auth PROVE auth[d] \in Seq(AllKeys) /\ IsInjective(auth[d])
  <2>1. auth[d] \in AuthFiles BY <1>1, Zenon DEF ScriptInit
  <2>2. auth[d] \in Seq(Range(auth[d])) /\ IsInjective(auth[d]) BY <2>1, AuthFilesAssumption, Zenon
  <2>3. Range(auth[d]) \subseteq AllKeys BY <2>1, Zenon DEF AllKeys
  <2>4. auth[d] \in Seq(AllKeys) BY <2>2, <2>3
  <2> QED BY <2>2, <2>4, Zenon
<1>3. \A i \in Tasks : spc[i] \in {"create", "run"} /\ job[i].disk \in DOMAIN auth BY <1>1, Zenon DEF ScriptInit
<1> QED BY <1>1, <1>2, <1>3 DEF KeyInv, IsInjective

-----------------------------------------------------------------------------
(* What the scripts and the keys need: the invariants that are inductive.  *)
ScriptInv == PlaceInv /\ FdInv /\ OwnerInv /\ TextInv /\ AloneInv /\ DirectInv /\ KeyInv

(* They hold at first and every step of a shell keeps them.                *)
LEMMA ScriptInductive == ScriptSpec => []ScriptInv
<1>1. ScriptInit => ScriptInv
  <2> SUFFICES ASSUME ScriptInit PROVE ScriptInv BY Zenon
  <2>1. DOMAIN names = {} /\ <<>> \in Seq(Lines) /\ DOMAIN <<>> = {} BY DEF ScriptInit
  <2>2. \A i \in Tasks : /\ spc[i] \in {"create", "run"} /\ (spc[i] = "run" => job[i].kind # "file")
                         /\ (spc[i] = "create" => job[i].kind = "file")
    BY Zenon DEF ScriptInit
  <2>0. \A i \in Tasks : ran[i] = <<>> /\ data[i] = <<>> BY Zenon DEF ScriptInit
  <2>10. \A i \in Tasks : ok[i] BY Zenon DEF ScriptInit
  <2>3. PlaceInv
    <3>1. job \in Jobs /\ DOMAIN spc = Tasks /\ ok \in [Tasks -> BOOLEAN] /\ DOMAIN ran = Tasks
      BY Zenon DEF ScriptInit
    <3>3. \A i \in Tasks : spc[i] \in {"create", "write", "chmod", "exec", "run", "remove", "add", "done"} BY <2>2
    <3>4. \A i \in Tasks : spc[i] \in {"create", "write", "chmod", "exec", "remove"} => job[i].kind = "file" BY <2>2
    <3>5. \A i \in Tasks : spc[i] # "add" BY <2>2
    <3> QED BY <2>0, <2>10, <3>1, <3>3, <3>4, <3>5, Zenon DEF PlaceInv
  <2>4. FdInv
    <3>1. fd \in [Tasks -> [ino : Tasks, at : Nat]] BY DEF ScriptInit
    <3>2. \A i \in Tasks : fd[i].ino = i BY DEF ScriptInit
    <3> QED BY <2>1, <3>1, <3>2, Zenon DEF FdInv, Shares
  <2>5. TextInv
    <3>1. data \in [Tasks -> Seq(Lines)] BY <2>1, Zenon DEF ScriptInit
    <3>2. \A i \in Tasks : job[i].kind = "file" => spc[i] # "run" BY <2>2, Zenon
    <3> QED BY <2>0, <2>1, <3>1, <3>2, Zenon DEF TextInv, Placed
  <2>6. OwnerInv BY <2>1, Zenon DEF OwnerInv
  <2>7. \A i \in Tasks : job[i].kind = "file" => spc[i] = "create" BY <2>2, Zenon
  <2>8. AloneInv
    <3>1. \A i \in Tasks : job[i].kind = "file" =>
            spc[i] \notin {"write", "chmod", "exec", "run"} /\ spc[i] \notin {"remove", "done"}
            /\ spc[i] \notin {"chmod", "exec", "run"} /\ spc[i] # "write" /\ spc[i] # "exec" /\ spc[i] # "run"
      BY <2>7
    <3> QED BY <3>1, Zenon DEF AloneInv
  <2>9. DirectInv
    <3>1. \A i \in Tasks : spc[i] # "done" BY <2>2
    <3> QED BY <3>1, Zenon DEF DirectInv
  <2> QED BY <2>3, <2>4, <2>5, <2>6, <2>8, <2>9, KeyInit, Zenon DEF ScriptInv
<1>2. ScriptInv /\ [ScriptNext]_scriptVars => ScriptInv'
  BY PlaceStep, FdStep, OwnerStep, TextStep, AloneStep, DirectStep, KeyStep, Zenon DEF ScriptInv
<1> QED BY <1>1, <1>2, PTL DEF ScriptSpec

(* A script whose file no other task shares is run whole; of a shared file *)
(* a shell may run a part, yet no line that is not there, in its place, in *)
(* a script that was written to it; none is left in /tmp although tasks    *)
(* truncate and remove each other's; after @auth.cmd our key or one that   *)
(* matches is there, and ours at most once on a machine that no other task *)
(* uses (format_cmd, BuildinCmd.Get).                                      *)
THEOREM ScriptsCorrect == ScriptSpec => []ScriptsRunAndGo
<1>1. OwnerInv => NothingLeft
  <2>1. \A x \in {"write", "chmod", "exec", "run", "remove"} : x # "done" OBVIOUS
  <2> QED BY <2>1, Zenon DEF OwnerInv, NothingLeft
<1>2. KeyInv => KeyEnteredOnce
  BY Zenon DEF KeyInv, KeyEnteredOnce, Entered, Sole, Findable
<1>3. ScriptInv => RunsOwnScript
  <2> SUFFICES ASSUME ScriptInv, NEW i \in Tasks, job[i].kind # "auth"
               PROVE /\ ~ok[i] => ran[i] = <<>>
                     /\ spc[i] \in {"remove", "done"} /\ ok[i] /\ (job[i].kind = "file" => Alone(i)) => ran[i] = job[i].cmd
                     /\ job[i].kind = "file" => Placed(i, ran[i])
    BY Zenon DEF RunsOwnScript, Placed
  <2>1. job[i].kind \in {"file", "pipe", "plain"} BY JobsAssumption, Zenon DEF ScriptInv, PlaceInv, Tasks
  <2>2. CASE job[i].kind = "file" BY <2>2, Zenon DEF ScriptInv, PlaceInv, TextInv, AloneInv
  <2>3. CASE job[i].kind \in {"pipe", "plain"}
    <3>1. job[i].kind # "file" BY <2>3
    <3> QED BY <2>3, <3>1 DEF ScriptInv, PlaceInv, DirectInv
  <2> QED BY <2>1, <2>2, <2>3
<1>4. ScriptInv => ScriptsRunAndGo BY <1>1, <1>2, <1>3, Zenon DEF ScriptInv, ScriptsRunAndGo
<1> QED BY <1>4, ScriptInductive, PTL

-----------------------------------------------------------------------------
(* Before the list is written nothing is selected but the first file, and  *)
(* afterwards it starts where the window starts.                           *)
ListInv ==
  /\ ~side.made => selected = 0 /\ window_offset = 0 /\ lpc \in {"flush", "error", "panic"}
  /\ (length > 0 /\ side.height > 2 * Padding) => side.first = window_offset

ListIInv == ListTypeOK /\ ListInv /\ ArrowOnSelection

(* The invariant holds before the first Flush writes the list.             *)
LEMMA ListInitInv ==
  ListInit => ListIInv
  BY SideListAssumption DEF ListInit, ListIInv, ListTypeOK, ListInv, ArrowOnSelection, NoView, Listing, Padding

(* The window drawSide chooses holds the selection, if it has room at all. *)
LEMMA WindowHoldsSelection ==
  ASSUME window_offset \in Nat, NEW f \in Nat, NEW h \in Int
  PROVE  /\ Window(f, h) \in Nat
         /\ h > 0 => Window(f, h) <= f /\ f < Window(f, h) + h
  BY DEF Window

(* Moving a summand to the other side.                                     *)
LEMMA Summands ==
  /\ \A a, b, c \in Int : a < b + c => a - b < c
  /\ \A a, b \in Int : a - b \in {1, -1} => a = b + 1 \/ a = b - 1
  OBVIOUS

(* What an arrow key leaves behind.                                        *)
LEMMA ArrowStep ==
  ASSUME ListIInv, Key, length > 0
  PROVE  ListIInv'
<1> USE DEF ListIInv, ListTypeOK, ListInv, ArrowOnSelection, Padding
<1>1. /\ length' = length /\ height' = height /\ maxY' = maxY /\ lpc' = "more"
      /\ drawSide(selected')
  BY DEF Key
<1>2. selected' \in 0 .. length - 1
  <2>1. PICK d \in {1, -1} : selected' = (selected + d + length) % length BY DEF Key
  <2>2. selected + d + length \in Nat BY <2>1
  <2>3. length \in Nat \ {0} BY DEF ListIInv
  <2> QED BY <2>1, <2>2, <2>3
<1> DEFINE f == selected'
           wh == maxY - 2
           w == Window(f, wh)
           end == IF length < wh + w THEN length ELSE wh + w
<1>3. /\ window_offset' = w
      /\ side' = Listing(w, end, IF w <= f /\ f < end THEN f ELSE -1, maxY)
  BY <1>1 DEF drawSide
<1>4. w \in Nat /\ (wh > 0 => w <= f /\ f < w + wh)
  <2>1. f \in Nat /\ wh \in Int /\ window_offset \in Nat BY <1>2
  <2> QED BY <2>1, WindowHoldsSelection, Zenon
<1> HIDE DEF w
<1>5. end \in Int /\ (wh > 0 => f < end /\ end <= length)
  BY <1>2, <1>4
<1> HIDE DEF end
<1>6. /\ side'.made = TRUE /\ side'.first = w /\ side'.last = end /\ side'.height = maxY
      /\ side'.arrow = IF w <= f /\ f < end THEN f ELSE -1
  BY <1>3, Zenon DEF Listing
<1>7. side' \in [made : BOOLEAN, first : Nat, last : Int, arrow : Int, height : Nat]
  BY <1>2, <1>3, <1>4, <1>5 DEF Listing
<1>8. ListTypeOK' BY <1>1, <1>2, <1>3, <1>4, <1>7
<1>9. ListInv' BY <1>3, <1>6, Zenon
<1>10. ArrowOnSelection'
  <2> SUFFICES ASSUME maxY > 2
               PROVE  /\ side'.arrow = f
                      /\ side'.first <= side'.arrow /\ side'.arrow < side'.last
                      /\ side'.arrow - side'.first < maxY - 2
                      /\ side'.last <= length
    BY <1>1, <1>6
  <2>1. wh > 0 /\ f \in Nat BY <1>2
  <2>2. side'.arrow = f BY <1>4, <1>5, <1>6, <2>1, Zenon
  <2>3. maxY - 2 \in Int /\ w \in Int /\ f \in Int BY <1>4, <2>1
  <2>4. f - w < maxY - 2 BY <1>4, <2>1, <2>3, Summands, Zenon
  <2> QED BY <1>4, <1>5, <1>6, <2>1, <2>2, <2>4, Zenon
<1> QED BY <1>8, <1>9, <1>10, Zenon

(* The list and the selection stay in step.                                *)
LEMMA ListStepInv ==
  ListIInv /\ [ListNext]_listVars => ListIInv'
<1> SUFFICES ASSUME ListIInv, [ListNext]_listVars PROVE ListIInv' BY Zenon
<1> USE DEF ListIInv, ListTypeOK, ListInv, ArrowOnSelection, Padding
<1>1. CASE UNCHANGED listVars BY <1>1, Zenon DEF listVars
<1>2. CASE Flush
  <2>1. CASE side.made BY <1>2, <2>1, Zenon DEF Flush
  <2>2. CASE ~side.made /\ UNCHANGED side
    BY <1>2, <2>2 DEF Flush, Listing
  <2>3. CASE ~side.made /\ ~UNCHANGED side
    <3>1. /\ side' = Listing(0, Rows(height), IF length > 0 THEN 0 ELSE -1, height)
          /\ Rows(height) <= length /\ lpc' = "wait" /\ maxY' = height
          /\ UNCHANGED <<length, height, selected, window_offset>>
      BY <1>2, <2>3 DEF Flush, Rows
    <3>2. Rows(height) \in Nat /\ (length > 0 /\ height > 2 => Rows(height) > 0)
      BY DEF Rows
    <3> QED BY <2>3, <3>1, <3>2 DEF Listing
  <2> QED BY <2>1, <2>2, <2>3, Zenon
<1>3. CASE FlusherFlush BY <1>3, Zenon DEF FlusherFlush
<1>4. CASE Key
  <2>1. CASE length = 0 BY <1>4, <2>1, Zenon DEF Key
  <2> QED BY <1>4, <2>1, ArrowStep
<1>5. CASE ResizeEvent BY <1>5, Zenon DEF ResizeEvent
<1>6. CASE NoMoreEvents BY <1>6, Zenon DEF NoMoreEvents
<1>7. CASE Resize BY <1>7, SideListAssumption, Zenon DEF Resize
<1> QED BY <1>1, <1>2, <1>3, <1>4, <1>5, <1>6, <1>7, Zenon DEF ListNext

(* ListIInv is inductive: layout, the arrow keys and resizing keep it.         *)
LEMMA ListInductive ==
  ListSpec => []ListIInv
  BY ListInitInv, ListStepInv, PTL DEF ListSpec

(* The selection of the realtime view is a file of the list, for every     *)
(* number of hosts and any sequence of keys and resizes.                   *)
THEOREM ListTypeCorrect ==
  ListSpec => []ListTypeOK
<1>1. ListIInv => ListTypeOK BY Zenon DEF ListIInv
<1> QED BY ListInductive, <1>1, PTL

(* The arrow always marks the file that the main view shows, in a row the  *)
(* view has room for, and a key moves the window with the selection, never *)
(* by more (drawSide, nexOne, prevOne).                                    *)
THEOREM ListFollowsCorrect ==
  ListSpec => ListFollows
<1>1. ASSUME ListIInv, Key, maxY = side.height, maxY > 2 * Padding,
             selected' - selected \in {1, -1}
      PROVE  window_offset' - window_offset \in {0, selected' - selected}
  <2> USE DEF ListIInv, ListTypeOK, ListInv, ArrowOnSelection, Padding
  <2>1. length > 0 /\ drawSide(selected')
    BY <1>1 DEF Key
  <2>2. window_offset' = Window(selected', maxY - 2) BY <2>1 DEF drawSide
  <2>3. window_offset <= selected /\ selected - window_offset < maxY - 2
    BY <1>1, <2>1
  <2>4. selected' \in Int BY <1>1, <2>1, ArrowStep
  <2>5. window_offset \in Nat /\ selected \in Nat /\ maxY \in Nat BY <1>1, Zenon
  <2>6. CASE selected' = selected + 1
    BY <2>2, <2>3, <2>5, <2>6 DEF Window
  <2>7. CASE selected' = selected - 1
    BY <2>2, <2>3, <2>5, <2>7 DEF Window
  <2>8. selected \in Int BY <2>5
  <2>9. selected' = selected + 1 \/ selected' = selected - 1
    BY <1>1, <2>4, <2>8, Summands, Zenon
  <2> QED BY <2>6, <2>7, <2>9, Zenon
<1>2. ListIInv => WindowStep BY <1>1, Zenon DEF WindowStep
<1>3. ListIInv /\ ListIInv' => [FollowStep]_listVars BY <1>2, Zenon DEF FollowStep, ListIInv
<1> QED BY ListInductive, <1>3, PTL DEF ListFollows

-----------------------------------------------------------------------------
Has(s, x) == \E k \in DOMAIN s : s[k] = x

KnownTypeOK ==
  /\ args \in Calls
  /\ kpc \in [Procs -> {"read", "look", "scan", "done"}]
  /\ content \in [Procs -> Seq(HostNames)] /\ looked \in [Procs -> Nat]
  /\ not_exists \in [Procs -> Seq(HostNames)] /\ known_hosts \in Seq(HostNames)
  /\ silent \in [Procs -> SUBSET HostNames]

(* The file only grows; a host that has been looked for is in it, is to be *)
(* scanned, or did not answer.                                             *)
Seen(p) ==
  /\ \A h : Mentions(content[p], h) => Mentions(known_hosts, h)
  /\ kpc[p] = "read" => looked[p] = 0 /\ not_exists[p] = <<>>
  /\ looked[p] <= Len(args[p])
  /\ kpc[p] \in {"scan", "done"} => looked[p] = Len(args[p])
  /\ kpc[p] = "done" => not_exists[p] = <<>>
  /\ \A i \in DOMAIN args[p] : i <= looked[p] =>
       \/ Mentions(known_hosts, args[p][i])
       \/ Has(not_exists[p], args[p][i])
       \/ args[p][i] \in silent[p]
SeenInv == \A p \in Procs : Seen(p)

(* A single invocation has read what the file still holds, and what it has *)
(* to scan it has looked for, once, and not found.                         *)
OnceInv ==
  Len(args) = 1 /\ IsInjective(args[1]) =>
    /\ IsInjective(known_hosts) /\ IsInjective(not_exists[1])
    /\ \A h : Has(not_exists[1], h) => ~Has(known_hosts, h)
    /\ kpc[1] = "look" =>
         /\ content[1] = known_hosts
         /\ \A h : Has(not_exists[1], h) => \E i \in DOMAIN args[1] : i <= looked[1] /\ args[1][i] = h

(* What Append does to the members of a list of hosts.                     *)
LEMMA Members ==
  ASSUME NEW S, NEW s \in Seq(S), NEW x \in S
  PROVE  /\ \A y : Has(Append(s, x), y) <=> Has(s, y) \/ y = x
         /\ \A h : Mentions(Append(s, x), h) <=> Mentions(s, h) \/ Within(h, x)
         /\ IsInjective(s) /\ ~Has(s, x) => IsInjective(Append(s, x))
<1>1. /\ DOMAIN Append(s, x) = 1 .. Len(s) + 1 /\ Append(s, x)[Len(s) + 1] = x
      /\ DOMAIN s = 1 .. Len(s) /\ \A k \in DOMAIN s : Append(s, x)[k] = s[k]
      /\ Len(s) \in Nat
  OBVIOUS
<1>2. ASSUME NEW y PROVE Has(Append(s, x), y) <=> Has(s, y) \/ y = x
  BY <1>1 DEF Has
<1>3. ASSUME NEW h PROVE Mentions(Append(s, x), h) <=> Mentions(s, h) \/ Within(h, x)
  BY <1>1 DEF Mentions
<1>4. IsInjective(s) /\ ~Has(s, x) => IsInjective(Append(s, x))
  BY <1>1 DEF Has, IsInjective
<1> QED BY <1>2, <1>3, <1>4, Zenon

(* The first of a list without repetition is not in the rest.              *)
LEMMA TailMembers ==
  ASSUME NEW S, NEW s \in Seq(S), s # <<>>
  PROVE  /\ \A y : Has(s, y) <=> Has(Tail(s), y) \/ y = Head(s)
         /\ IsInjective(s) => IsInjective(Tail(s)) /\ ~Has(Tail(s), Head(s))
<1>1. /\ DOMAIN Tail(s) = 1 .. Len(s) - 1 /\ Head(s) = s[1] /\ Len(s) > 0
      /\ DOMAIN s = 1 .. Len(s) /\ \A k \in DOMAIN Tail(s) : Tail(s)[k] = s[k + 1]
      /\ Len(s) \in Nat
  OBVIOUS
<1>2. ASSUME NEW y PROVE Has(s, y) <=> Has(Tail(s), y) \/ y = Head(s)
  <2>1. ASSUME NEW k \in DOMAIN s, s[k] = y PROVE Has(Tail(s), y) \/ y = Head(s)
    <3>1. CASE k = 1 BY <1>1, <2>1, <3>1, Zenon
    <3>2. CASE k # 1
      <4>1. k - 1 \in DOMAIN Tail(s) /\ Tail(s)[k - 1] = y BY <1>1, <2>1, <3>2
      <4> QED BY <4>1, Zenon DEF Has
    <3> QED BY <3>1, <3>2, Zenon
  <2>2. ASSUME NEW k \in DOMAIN Tail(s), Tail(s)[k] = y PROVE Has(s, y)
    <3>1. k + 1 \in DOMAIN s /\ s[k + 1] = y BY <1>1, <2>2
    <3> QED BY <3>1, Zenon DEF Has
  <2>3. 1 \in DOMAIN s /\ s[1] = Head(s) BY <1>1
  <2> QED BY <2>1, <2>2, <2>3, Zenon DEF Has
<1>3. IsInjective(s) => IsInjective(Tail(s)) /\ ~Has(Tail(s), Head(s))
  BY <1>1 DEF IsInjective, Has
<1> QED BY <1>2, <1>3, Zenon

(* The invocations are given their hosts once and for all.                 *)
LEMMA ArgsFixed == [KnownNext]_knownVars => args' = args
  BY Zenon DEF KnownNext, knownVars, ReadFile, Look, Looked, Scan, Scanned

(* The hosts of an invocation are a list of names.                         *)
LEMMA ArgsLists ==
  ASSUME args \in Calls, NEW p \in Procs
  PROVE  args \in Seq(Seq(HostNames)) /\ args[p] \in Seq(HostNames)
<1>1. args \in Seq(Seq(HostNames)) BY KnownHostsAssumption, Zenon
<1> QED BY <1>1 DEF Procs

LEMMA KnownTypeStep ==
  ASSUME KnownTypeOK, [KnownNext]_knownVars
  PROVE  KnownTypeOK'
<1> USE DEF KnownTypeOK
<1>0. args' = args /\ Procs' = Procs BY ArgsFixed, Zenon DEF Procs
<1>1. CASE UNCHANGED knownVars BY <1>0, <1>1, Zenon DEF knownVars
<1>2. ASSUME NEW p \in Procs, ReadFile(p) PROVE KnownTypeOK' BY <1>0, <1>2, Zenon DEF ReadFile
<1>3. ASSUME NEW p \in Procs, Look(p) PROVE KnownTypeOK'
  <2> DEFINE host == args[p][looked[p] + 1]
  <2>1. args[p] \in Seq(HostNames) BY ArgsLists, Zenon
  <2>2. looked[p] \in Nat /\ looked[p] < Len(args[p]) BY <1>3, Zenon DEF Look
  <2>3. host \in HostNames BY <2>1, <2>2
  <2>4. not_exists' = not_exists \/ not_exists' = [not_exists EXCEPT ![p] = Append(@, host)]
    BY <1>3, Zenon DEF Look
  <2> HIDE DEF host
  <2>5. Append(not_exists[p], host) \in Seq(HostNames) BY <2>3
  <2>6. not_exists' \in [Procs -> Seq(HostNames)] BY <2>4, <2>5, Zenon
  <2>7. looked' \in [Procs -> Nat] BY <1>3 DEF Look
  <2> QED BY <1>0, <1>3, <2>6, <2>7, Zenon DEF Look
<1>4. ASSUME NEW p \in Procs, Looked(p) PROVE KnownTypeOK' BY <1>0, <1>4, Zenon DEF Looked
<1>5. ASSUME NEW p \in Procs, Scan(p) PROVE KnownTypeOK'
  <2>1. not_exists[p] \in Seq(HostNames) /\ not_exists[p] # <<>> BY <1>5, Zenon DEF Scan
  <2>2. Head(not_exists[p]) \in HostNames /\ Tail(not_exists[p]) \in Seq(HostNames) BY <2>1
  <2>3. not_exists' \in [Procs -> Seq(HostNames)] BY <1>5, <2>2, Zenon DEF Scan
  <2> DEFINE h == Head(not_exists[p])
  <2>4. \/ known_hosts' = Append(known_hosts, h) /\ silent' = silent
        \/ silent' = [silent EXCEPT ![p] = @ \cup {h}] /\ known_hosts' = known_hosts
    BY <1>5, Zenon DEF Scan
  <2>5. Append(known_hosts, h) \in Seq(HostNames) BY <2>2
  <2>6. [silent EXCEPT ![p] = @ \cup {h}] \in [Procs -> SUBSET HostNames] BY <2>2, Zenon
  <2> HIDE DEF h
  <2>7. known_hosts' \in Seq(HostNames) BY <2>4, <2>5, Zenon
  <2>8. silent' \in [Procs -> SUBSET HostNames] BY <2>4, <2>6, Zenon
  <2> QED BY <1>0, <1>5, <2>3, <2>7, <2>8, Zenon DEF Scan
<1>6. ASSUME NEW p \in Procs, Scanned(p) PROVE KnownTypeOK' BY <1>0, <1>6, Zenon DEF Scanned
<1> QED BY <1>1, <1>2, <1>3, <1>4, <1>5, <1>6, Zenon DEF KnownNext

(* A scanned host is entered in the file or noted as silent.               *)
LEMMA ScanEffect ==
  ASSUME KnownTypeOK, NEW p \in Procs, Scan(p)
  PROVE  LET h == Head(not_exists[p]) IN
         /\ not_exists[p] \in Seq(HostNames) /\ not_exists[p] # <<>> /\ h \in HostNames
         /\ not_exists' = [not_exists EXCEPT ![p] = Tail(not_exists[p])]
         /\ \/ known_hosts' = Append(known_hosts, h) /\ silent' = silent
            \/ silent' = [silent EXCEPT ![p] = silent[p] \cup {h}] /\ known_hosts' = known_hosts
         /\ UNCHANGED <<kpc, content, looked>> /\ kpc[p] = "scan"
<1>1. not_exists[p] \in Seq(HostNames) /\ not_exists[p] # <<>> BY Zenon DEF Scan, KnownTypeOK
<1>2. Head(not_exists[p]) \in HostNames BY <1>1
<1>3. LET h == Head(not_exists[p]) IN
         /\ not_exists' = [not_exists EXCEPT ![p] = Tail(not_exists[p])]
         /\ \/ known_hosts' = Append(known_hosts, h) /\ silent' = silent
            \/ silent' = [silent EXCEPT ![p] = silent[p] \cup {h}] /\ known_hosts' = known_hosts
         /\ UNCHANGED <<kpc, content, looked>> /\ kpc[p] = "scan"
  BY Zenon DEF Scan
<1> QED BY <1>1, <1>2, <1>3, Zenon

(* Nothing that the file mentions goes.                                    *)
LEMMA FileGrows ==
  ASSUME KnownTypeOK, [KnownNext]_knownVars
  PROVE  \A h : Mentions(known_hosts, h) => Mentions(known_hosts', h)
<1>1. ASSUME NEW p \in Procs, Scan(p)
      PROVE  \A h : Mentions(known_hosts, h) => Mentions(known_hosts', h)
  <2> DEFINE x == Head(not_exists[p])
  <2>1. x \in HostNames /\ (known_hosts' = Append(known_hosts, x) \/ known_hosts' = known_hosts)
    BY <1>1, ScanEffect, Zenon
  <2>2. known_hosts \in Seq(HostNames) BY Zenon DEF KnownTypeOK
  <2> HIDE DEF x
  <2>3. \A h : Mentions(known_hosts, h) => Mentions(Append(known_hosts, x), h)
    BY <2>1, <2>2, Members, Zenon
  <2>4. CASE known_hosts' = Append(known_hosts, x) BY <2>3, <2>4, Zenon
  <2>5. CASE known_hosts' = known_hosts BY <2>5, Zenon
  <2> QED BY <2>1, <2>4, <2>5, Zenon
<1>2. CASE UNCHANGED known_hosts BY <1>2, Zenon
<1> QED BY <1>1, <1>2, Zenon DEF KnownNext, knownVars, ReadFile, Look, Looked, Scanned

(* Looking, scanning and what others do keep each host accounted for.      *)
LEMMA SeenStep ==
  ASSUME KnownTypeOK, SeenInv, [KnownNext]_knownVars
  PROVE  SeenInv'
<1>0. args' = args /\ Procs' = Procs BY ArgsFixed, Zenon DEF Procs
<1>g. \A h : Mentions(known_hosts, h) => Mentions(known_hosts', h) BY FileGrows, Zenon
<1>o. ASSUME NEW q \in Procs, content'[q] = content[q], kpc'[q] = kpc[q], looked'[q] = looked[q],
             not_exists'[q] = not_exists[q], silent'[q] = silent[q]
      PROVE  Seen(q)'
  <2>1. Seen(q) BY Zenon DEF SeenInv
  <2> QED BY <1>0, <1>g, <1>o, <2>1, Zenon DEF Seen
<1>1. CASE UNCHANGED knownVars
  <2>1. ASSUME NEW q \in Procs PROVE Seen(q)' BY <1>1, <1>o, Zenon DEF knownVars
  <2> QED BY <1>0, <2>1, Zenon DEF SeenInv
<1>2. ASSUME NEW p \in Procs, ReadFile(p), NEW q \in Procs PROVE Seen(q)'
  <2>1. CASE q # p BY <1>2, <1>o, <2>1, Zenon DEF ReadFile, KnownTypeOK
  <2>2. CASE q = p
    <3>1. /\ content'[p] = known_hosts /\ known_hosts' = known_hosts
          /\ kpc'[p] = "look" /\ kpc[p] = "read" /\ looked' = looked
      BY <1>2, Zenon DEF ReadFile, KnownTypeOK
    <3>2. looked[p] = 0 BY <3>1, Zenon DEF SeenInv, Seen
    <3>3. args[p] \in Seq(HostNames) BY ArgsLists, Zenon DEF KnownTypeOK
    <3>4. 0 <= Len(args[p]) /\ \A i \in DOMAIN args[p] : ~(i <= 0) BY <3>3
    <3> QED BY <1>0, <2>2, <3>1, <3>2, <3>4, Zenon DEF Seen
  <2> QED BY <2>1, <2>2, Zenon
<1>3. ASSUME NEW p \in Procs, Look(p), NEW q \in Procs PROVE Seen(q)'
  <2>1. CASE q # p BY <1>3, <1>o, <2>1, Zenon DEF Look, KnownTypeOK
  <2>2. CASE q = p
    <3> DEFINE host == args[p][looked[p] + 1]
    <3>1. /\ kpc[p] = "look" /\ looked[p] < Len(args[p]) /\ looked'[p] = looked[p] + 1
          /\ kpc' = kpc /\ content' = content /\ known_hosts' = known_hosts /\ silent' = silent
      BY <1>3, Zenon DEF Look, KnownTypeOK
    <3>2. IF Mentions(content[p], host) THEN not_exists'[p] = not_exists[p]
          ELSE not_exists'[p] = Append(not_exists[p], host)
      BY <1>3, Zenon DEF Look, KnownTypeOK
    <3>3. args[p] \in Seq(HostNames) /\ looked[p] \in Nat BY ArgsLists, Zenon DEF KnownTypeOK
    <3>4. host \in HostNames BY <3>1, <3>3
    <3>5. not_exists[p] \in Seq(HostNames) BY Zenon DEF KnownTypeOK
    <3>6. Seen(p) BY Zenon DEF SeenInv
    <3>7. looked'[p] <= Len(args[p]) /\ \A i \in DOMAIN args[p] : i <= looked'[p] => i <= looked[p] \/ i = looked[p] + 1
      BY <3>1, <3>3
    <3> HIDE DEF host
    <3>8. \A y : Has(Append(not_exists[p], host), y) <=> Has(not_exists[p], y) \/ y = host
      BY <3>4, <3>5, Members, Zenon
    <3>9. \A y : Has(not_exists[p], y) => Has(not_exists'[p], y) BY <3>2, <3>8, Zenon
    <3>10. Mentions(known_hosts, host) \/ Has(not_exists'[p], host) BY <3>2, <3>6, <3>8, Zenon DEF Seen
    <3>11. ASSUME NEW i \in DOMAIN args[p], i <= looked'[p]
           PROVE  Mentions(known_hosts, args[p][i]) \/ Has(not_exists'[p], args[p][i]) \/ args[p][i] \in silent[p]
      <4>1. CASE i <= looked[p] BY <3>6, <3>9, <4>1, Zenon DEF Seen
      <4>2. CASE i = looked[p] + 1 BY <3>10, <4>2, Zenon DEF host
      <4> QED BY <3>7, <3>11, <4>1, <4>2, Zenon
    <3> QED BY <1>0, <2>2, <3>1, <3>6, <3>7, <3>11, Zenon DEF Seen
  <2> QED BY <2>1, <2>2, Zenon
<1>4. ASSUME NEW p \in Procs, Looked(p), NEW q \in Procs PROVE Seen(q)'
  <2>1. CASE q # p BY <1>4, <1>o, <2>1, Zenon DEF Looked, KnownTypeOK
  <2>2. CASE q = p
    <3>1. Seen(p) BY Zenon DEF SeenInv
    <3> QED BY <1>0, <1>4, <2>2, <3>1, Zenon DEF Seen, Looked, KnownTypeOK
  <2> QED BY <2>1, <2>2, Zenon
<1>5. ASSUME NEW p \in Procs, Scan(p), NEW q \in Procs PROVE Seen(q)'
  <2>1. CASE q # p
    <3>1. UNCHANGED <<content, kpc, looked>> BY <1>5, Zenon DEF Scan
    <3>2. not_exists'[q] = not_exists[q] BY <1>5, <2>1, Zenon DEF Scan, KnownTypeOK
    <3>3. silent'[q] = silent[q] BY <1>5, <2>1, Zenon DEF Scan, KnownTypeOK
    <3> QED BY <1>o, <3>1, <3>2, <3>3, Zenon
  <2>2. CASE q = p
    <3> DEFINE h == Head(not_exists[p])
    <3>a. /\ not_exists[p] \in Seq(HostNames) /\ not_exists[p] # <<>> /\ h \in HostNames
          /\ not_exists' = [not_exists EXCEPT ![p] = Tail(not_exists[p])]
          /\ \/ known_hosts' = Append(known_hosts, h) /\ silent' = silent
             \/ silent' = [silent EXCEPT ![p] = silent[p] \cup {h}] /\ known_hosts' = known_hosts
          /\ kpc[p] = "scan" /\ kpc' = kpc /\ content' = content /\ looked' = looked
      BY <1>5, ScanEffect, Zenon
    <3>1. /\ not_exists[p] \in Seq(HostNames) /\ not_exists[p] # <<>> /\ h \in HostNames
          /\ kpc[p] = "scan" /\ kpc' = kpc /\ content' = content /\ looked' = looked
      BY <3>a, Zenon
    <3>b. silent[p] \subseteq [silent EXCEPT ![p] = silent[p] \cup {h}][p] /\ h \in [silent EXCEPT ![p] = silent[p] \cup {h}][p]
      BY Zenon DEF KnownTypeOK
    <3>c. known_hosts' = Append(known_hosts, h) \/ h \in silent'[p] BY <3>a, <3>b, Zenon
    <3>2. not_exists'[p] = Tail(not_exists[p]) BY <3>a, Zenon DEF KnownTypeOK
    <3>d. silent[p] \subseteq silent'[p] BY <3>a, <3>b, Zenon
    <3>3. Seen(p) BY Zenon DEF SeenInv
    <3>e. \A y : Has(not_exists[p], y) <=> Has(Tail(not_exists[p]), y) \/ y = Head(not_exists[p])
      BY <3>1, TailMembers, Zenon
    <3>4. \A y : Has(not_exists[p], y) => Has(not_exists'[p], y) \/ y = h
      BY <3>2, <3>e, Zenon
    <3>5. Within(h, h) BY <3>1, KnownHostsAssumption, Zenon
    <3> HIDE DEF h
    <3>6. known_hosts \in Seq(HostNames) BY Zenon DEF KnownTypeOK
    <3>7. Mentions(Append(known_hosts, h), h) BY <3>1, <3>5, <3>6, Members, Zenon
    <3>8. Mentions(known_hosts', h) \/ h \in silent'[p] BY <3>c, <3>7, Zenon
    <3>9. ASSUME NEW i \in DOMAIN args[p], i <= looked[p]
          PROVE  Mentions(known_hosts', args[p][i]) \/ Has(not_exists'[p], args[p][i]) \/ args[p][i] \in silent'[p]
      BY <1>g, <3>d, <3>3, <3>4, <3>8, <3>9, Zenon DEF Seen
    <3> QED BY <1>0, <1>g, <2>2, <3>1, <3>3, <3>9, Zenon DEF Seen
  <2> QED BY <2>1, <2>2, Zenon
<1>6. ASSUME NEW p \in Procs, Scanned(p), NEW q \in Procs PROVE Seen(q)'
  <2>1. CASE q # p BY <1>6, <1>o, <2>1, Zenon DEF Scanned, KnownTypeOK
  <2>2. CASE q = p
    <3>1. Seen(p) BY Zenon DEF SeenInv
    <3> QED BY <1>0, <1>6, <2>2, <3>1, Zenon DEF Seen, Scanned, KnownTypeOK
  <2> QED BY <2>1, <2>2, Zenon
<1> QED BY <1>0, <1>1, <1>2, <1>3, <1>4, <1>5, <1>6, Zenon DEF KnownNext, SeenInv

(* A single invocation given no host twice enters none twice.              *)
LEMMA OnceStep ==
  ASSUME KnownTypeOK, SeenInv, OnceInv, [KnownNext]_knownVars
  PROVE  OnceInv'
<1>0. args' = args BY ArgsFixed, Zenon
<1>h. SUFFICES ASSUME Len(args) = 1, IsInjective(args[1])
               PROVE  /\ IsInjective(known_hosts') /\ IsInjective(not_exists'[1])
                      /\ \A h : Has(not_exists'[1], h) => ~Has(known_hosts', h)
                      /\ kpc'[1] = "look" =>
                           /\ content'[1] = known_hosts'
                           /\ \A h : Has(not_exists'[1], h) =>
                                \E i \in DOMAIN args[1] : i <= looked'[1] /\ args[1][i] = h
  BY <1>0, Zenon DEF OnceInv
<1>i. /\ IsInjective(known_hosts) /\ IsInjective(not_exists[1])
      /\ \A h : Has(not_exists[1], h) => ~Has(known_hosts, h)
      /\ kpc[1] = "look" =>
           /\ content[1] = known_hosts
           /\ \A h : Has(not_exists[1], h) => \E i \in DOMAIN args[1] : i <= looked[1] /\ args[1][i] = h
  BY <1>h, Zenon DEF OnceInv
<1>p. Procs = {1}
  <2>1. args \in Seq(Seq(HostNames)) BY KnownHostsAssumption, Zenon DEF KnownTypeOK
  <2> QED BY <1>h, <2>1 DEF Procs
<1>t. /\ args[1] \in Seq(HostNames) /\ looked[1] \in Nat /\ not_exists[1] \in Seq(HostNames)
      /\ known_hosts \in Seq(HostNames) /\ 1 \in Procs
  BY <1>p, ArgsLists, Zenon DEF KnownTypeOK
<1>1. CASE UNCHANGED knownVars BY <1>1, <1>i, Zenon DEF knownVars
<1>2. CASE ReadFile(1)
  <2>1. /\ kpc[1] = "read" /\ kpc'[1] = "look" /\ content'[1] = known_hosts
        /\ UNCHANGED <<looked, not_exists, known_hosts>>
    BY <1>2, <1>t, Zenon DEF ReadFile, KnownTypeOK
  <2>2. not_exists[1] = <<>> BY <1>t, <2>1, Zenon DEF SeenInv, Seen
  <2>3. \A h : ~Has(not_exists[1], h) BY <2>2 DEF Has
  <2> QED BY <1>i, <2>1, <2>3, Zenon
<1>3. CASE Look(1)
  <2> DEFINE host == args[1][looked[1] + 1]
  <2>1. /\ kpc[1] = "look" /\ looked[1] < Len(args[1]) /\ looked'[1] = looked[1] + 1
        /\ kpc' = kpc /\ content' = content /\ known_hosts' = known_hosts
    BY <1>3, <1>t, Zenon DEF Look, KnownTypeOK
  <2>2. IF Mentions(content[1], host) THEN not_exists'[1] = not_exists[1]
        ELSE not_exists'[1] = Append(not_exists[1], host)
    BY <1>3, <1>t, Zenon DEF Look, KnownTypeOK
  <2>3. /\ host \in HostNames /\ looked[1] + 1 \in DOMAIN args[1] /\ looked[1] + 1 <= looked'[1]
        /\ \A i : i \in DOMAIN args[1] /\ i <= looked[1] => i <= looked'[1] /\ i # looked[1] + 1
    BY <1>t, <2>1
  <2>4. CASE Mentions(content[1], host) BY <1>i, <2>1, <2>2, <2>3, <2>4, Zenon
  <2>5. CASE ~Mentions(content[1], host)
    <3>1. ~Has(known_hosts, host)
      BY <1>i, <2>1, <2>3, <2>5, KnownHostsAssumption, Zenon DEF Has, Mentions
    <3>2. ~Has(not_exists[1], host)
      BY <1>h, <1>i, <2>1, <2>3 DEF IsInjective
    <3>3. \E i \in DOMAIN args[1] : i <= looked'[1] /\ args[1][i] = host BY <2>3, Zenon
    <3> HIDE DEF host
    <3>4. /\ \A y : Has(Append(not_exists[1], host), y) <=> Has(not_exists[1], y) \/ y = host
          /\ IsInjective(Append(not_exists[1], host))
      <4>1. not_exists[1] \in Seq(HostNames) /\ host \in HostNames BY <1>t, <2>3, Zenon
      <4>2. IsInjective(not_exists[1]) BY <1>i, Zenon
      <4> QED BY <3>2, <4>1, <4>2, Members, Zenon
    <3>5. not_exists'[1] = Append(not_exists[1], host) BY <2>2, <2>5, Zenon
    <3>6. \A h : Has(not_exists'[1], h) => \E i \in DOMAIN args[1] : i <= looked'[1] /\ args[1][i] = h
      BY <1>i, <2>1, <2>3, <3>3, <3>4, <3>5, Zenon
    <3> QED BY <1>i, <2>1, <3>1, <3>4, <3>5, <3>6, Zenon
  <2> QED BY <2>4, <2>5, Zenon
<1>4. CASE Looked(1)
  <2>1. kpc'[1] # "look" /\ UNCHANGED <<not_exists, known_hosts>> BY <1>4, <1>t, Zenon DEF Looked, KnownTypeOK
  <2> QED BY <1>i, <2>1, Zenon
<1>5. CASE Scan(1)
  <2> DEFINE x == Head(not_exists[1])
  <2>1. /\ not_exists[1] # <<>> /\ x \in HostNames /\ kpc'[1] # "look"
        /\ not_exists' = [not_exists EXCEPT ![1] = Tail(not_exists[1])]
        /\ known_hosts' = Append(known_hosts, x) \/ known_hosts' = known_hosts
    <3>1. kpc[1] = "scan" /\ kpc' = kpc BY <1>5, <1>t, ScanEffect, Zenon
    <3>2. /\ not_exists[1] # <<>> /\ x \in HostNames
          /\ not_exists' = [not_exists EXCEPT ![1] = Tail(not_exists[1])]
          /\ known_hosts' = Append(known_hosts, x) \/ known_hosts' = known_hosts
      BY <1>5, <1>t, ScanEffect, Zenon
    <3>3. kpc'[1] # "look" BY <3>1, Zenon
    <3> QED BY <3>2, <3>3, Zenon
  <2>2. not_exists'[1] = Tail(not_exists[1]) BY <1>t, <2>1, Zenon DEF KnownTypeOK
  <2>3. /\ \A y : Has(not_exists[1], y) <=> Has(Tail(not_exists[1]), y) \/ y = Head(not_exists[1])
        /\ IsInjective(Tail(not_exists[1])) /\ ~Has(Tail(not_exists[1]), Head(not_exists[1]))
    <3>1. not_exists[1] \in Seq(HostNames) /\ not_exists[1] # <<>> BY <1>t, <2>1, Zenon
    <3>2. IsInjective(not_exists[1]) BY <1>i, Zenon
    <3> QED BY <3>1, <3>2, TailMembers, Zenon
  <2>4. ~Has(known_hosts, x) BY <1>i, <2>3, Zenon
  <2>5. \A y : Has(not_exists'[1], y) => Has(not_exists[1], y) /\ y # x BY <2>2, <2>3, Zenon
  <2>6. IsInjective(not_exists'[1]) BY <2>2, <2>3, Zenon
  <2> HIDE DEF x
  <2>7. /\ \A y : Has(Append(known_hosts, x), y) <=> Has(known_hosts, y) \/ y = x
        /\ IsInjective(Append(known_hosts, x))
    BY <1>i, <1>t, <2>1, <2>4, Members, Zenon
  <2>8. CASE known_hosts' = Append(known_hosts, x) BY <1>i, <2>1, <2>5, <2>6, <2>7, <2>8, Zenon
  <2>9. CASE known_hosts' = known_hosts BY <1>i, <2>1, <2>5, <2>6, <2>9, Zenon
  <2> QED BY <2>1, <2>8, <2>9, Zenon
<1>6. CASE Scanned(1)
  <2>1. kpc'[1] # "look" /\ UNCHANGED <<not_exists, known_hosts>> BY <1>6, <1>t, Zenon DEF Scanned, KnownTypeOK
  <2> QED BY <1>i, <2>1, Zenon
<1> QED BY <1>1, <1>2, <1>3, <1>4, <1>5, <1>6, <1>p, Zenon DEF KnownNext

(* After BuildKnownHosts the file mentions every host of the call that     *)
(* answered, whatever other invocations append meanwhile, and a call alone *)
(* enters no host twice.                                                   *)
THEOREM KnownHostsCorrect == KnownSpec => []KnownHostsComplete
<1> DEFINE Inv == KnownTypeOK /\ SeenInv /\ OnceInv
<1>1. KnownInit => Inv
  <2> SUFFICES ASSUME KnownInit PROVE Inv BY Zenon
  <2>1. args \in Seq(Seq(HostNames)) /\ known_hosts \in Seq(HostNames)
    BY KnownHostsAssumption, Zenon DEF KnownInit
  <2>2. \A p \in Procs : args[p] \in Seq(HostNames) BY ArgsLists, Zenon DEF KnownInit
  <2>3. KnownTypeOK BY <2>1 DEF KnownInit, KnownTypeOK
  <2>4. SeenInv
    <3> SUFFICES ASSUME NEW p \in Procs PROVE Seen(p) BY Zenon DEF SeenInv
    <3>1. /\ kpc[p] = "read" /\ content[p] = <<>> /\ looked[p] = 0 /\ not_exists[p] = <<>>
      BY Zenon DEF KnownInit
    <3>2. 0 <= Len(args[p]) /\ \A i \in DOMAIN args[p] : ~(i <= 0) BY <2>2
    <3>3. \A h : ~Mentions(content[p], h) BY <3>1 DEF Mentions
    <3> QED BY <3>1, <3>2, <3>3, Zenon DEF Seen
  <2>5. OnceInv
    <3> SUFFICES ASSUME Len(args) = 1
                 PROVE  /\ IsInjective(known_hosts) /\ IsInjective(not_exists[1])
                        /\ \A h : ~Has(not_exists[1], h) /\ kpc[1] # "look"
      BY Zenon DEF OnceInv
    <3>1. 1 \in Procs BY <2>1 DEF Procs
    <3>2. IsInjective(known_hosts) BY KnownHostsAssumption, Zenon DEF KnownInit
    <3>3. kpc[1] = "read" /\ not_exists[1] = <<>> BY <3>1, Zenon DEF KnownInit
    <3> QED BY <3>2, <3>3 DEF Has, IsInjective
  <2> QED BY <2>3, <2>4, <2>5, Zenon
<1>2. Inv /\ [KnownNext]_knownVars => Inv' BY KnownTypeStep, SeenStep, OnceStep, Zenon
<1>3. Inv => KnownHostsComplete
  <2> SUFFICES ASSUME Inv PROVE KnownHostsComplete BY Zenon
  <2>1. ASSUME NEW p \in Procs, kpc[p] = "done", NEW i \in DOMAIN args[p]
        PROVE  Mentions(known_hosts, args[p][i]) \/ args[p][i] \in silent[p]
    <3>1. Seen(p) BY Zenon DEF SeenInv
    <3>2. args[p] \in Seq(HostNames) BY ArgsLists, Zenon DEF KnownTypeOK
    <3>3. i <= looked[p] /\ not_exists[p] = <<>> BY <2>1, <3>1, <3>2 DEF Seen
    <3>4. ~Has(not_exists[p], args[p][i]) BY <3>3 DEF Has
    <3> QED BY <3>1, <3>3, <3>4, Zenon DEF Seen
  <2>2. ListedOrSilent BY <2>1, Zenon DEF ListedOrSilent
  <2>3. TwiceOnlyWhenRacing BY Zenon DEF OnceInv, TwiceOnlyWhenRacing
  <2> QED BY <2>2, <2>3, Zenon DEF KnownHostsComplete
<1> QED BY <1>1, <1>2, <1>3, PTL DEF KnownSpec

=============================================================================
