---------------------------- MODULE RemoteScript ----------------------------
(***************************************************************************)
(* What the command made by format_cmd and the script of @auth.cmd         *)
(* (helper.go) do on the remote machines: a here document is written to    *)
(* /tmp, made executable, run and removed, by one shell per task.  Hosts   *)
(* may share a /tmp, and names come from the nanoseconds of a clock.       *)
(*                                                                         *)
(* Files are what the remote system makes of them: a name leads to an      *)
(* inode, which is truncated by whoever opens it with >, written at the    *)
(* writer's own offset and read at the reader's.  Lines are equally long,  *)
(* so that a place in one script is a place in every other.                *)
(***************************************************************************)
EXTENDS Naturals, Sequences, Functions

CONSTANTS
  Jobs,         \* sets of tasks [name: of the script, disk: of the host, cmd: lines, eof, kind]
  AuthFiles,    \* contents of authorized_keys, line by line
  Matches(_, _) \* grep finds the pattern in the line

(* What format_cmd makes of a command: one of four forms, and no line of   *)
(* the command is the marker, which holds the time in milliseconds.        *)
ASSUME JobsAssumption ==
  \A jb \in Jobs : \A i \in DOMAIN jb :
    /\ jb[i].kind \in {"file", "pipe", "plain", "auth"}
    /\ jb[i].kind # "auth" => /\ jb[i].cmd \in Seq(Range(jb[i].cmd))
                              /\ \A k \in DOMAIN jb[i].cmd : jb[i].cmd[k] # jb[i].eof

(* A machine has no key twice to begin with.                               *)
ASSUME AuthFilesAssumption == \A ks \in AuthFiles : ks \in Seq(Range(ks)) /\ IsInjective(ks)

VARIABLES
  job,
  spc,      \* where each shell is
  ok,       \* whether the steps joined by && have succeeded so far
  names,    \* paths that exist -> inode, which is named after the task that made it
  data,     \* inode -> its lines
  mode,     \* inodes that are executable
  fd,       \* the file each shell has open, and its place in it
  ran,      \* lines each shell has executed
  auth      \* authorized_keys on each disk

fileVars == <<names, data, mode, fd>>
scriptVars == <<job, spc, ok, fileVars, ran, auth>>

Tasks == DOMAIN job
Path(i) == <<job[i].disk, job[i].name>>
Exists(i) == Path(i) \in DOMAIN names

\* mutant: the marker is always the same
HereDocFixed(lines, eof) ==
  LET n == {i \in DOMAIN lines : lines[i] = "EOF"}
  IN IF n = {} THEN lines ELSE SubSeq(lines, 1, (CHOOSE i \in n : \A j \in n : i <= j) - 1)

(* The here document ends at the first line that is the marker.            *)
HereDoc(lines, eof) ==
  LET n == {i \in DOMAIN lines : lines[i] = eof}
  IN IF n = {} THEN lines ELSE SubSeq(lines, 1, (CHOOSE i \in n : \A j \in n : i <= j) - 1)

Doc(i) == HereDoc(job[i].cmd, job[i].eof)

ScriptInit ==
  /\ job \in Jobs
  /\ spc = [i \in Tasks |-> IF job[i].kind = "file" THEN "create" ELSE "run"]
  /\ ok = [i \in Tasks |-> TRUE]
  /\ names = <<>> /\ data = [i \in Tasks |-> <<>>] /\ mode = {}
  /\ fd = [i \in Tasks |-> [ino |-> i, at |-> 0]] /\ ran = [i \in Tasks |-> <<>>]
  /\ auth \in [{job[i].disk : i \in Tasks} -> AuthFiles]

Go(i, to) == spc' = [spc EXCEPT ![i] = to]

(* A step of the && list fails: the rest of it is passed over.             *)
Fails(i) == ok' = [ok EXCEPT ![i] = FALSE] /\ Go(i, "remove")

-----------------------------------------------------------------------------
(* cat > tmp: a new file, or the old one made empty.                       *)
Create(i) ==
  /\ spc[i] = "create"
  /\ LET n == IF Exists(i) THEN names[Path(i)] ELSE i
     IN /\ names' = [q \in DOMAIN names \cup {Path(i)} |-> IF q = Path(i) THEN n ELSE names[q]]
        /\ data' = [data EXCEPT ![n] = <<>>]
        /\ fd' = [fd EXCEPT ![i] = [ino |-> n, at |-> 0]]
  /\ Go(i, "write")
  /\ UNCHANGED <<job, ok, mode, ran, auth>>

Hole == "hole"

WriteAt(text, n, line) ==
  [k \in 1 .. IF Len(text) < n THEN n ELSE Len(text) |->
     IF k = n THEN line ELSE IF k <= Len(text) THEN text[k] ELSE Hole]

(* cat writes at its own offset, whatever became of the file or its name.  *)
Write(i) ==
  /\ spc[i] = "write" /\ fd[i].at < Len(Doc(i))
  /\ data' = [data EXCEPT ![fd[i].ino] = WriteAt(@, fd[i].at + 1, Doc(i)[fd[i].at + 1])]
  /\ fd' = [fd EXCEPT ![i].at = @ + 1]
  /\ UNCHANGED <<job, spc, ok, names, mode, ran, auth>>

(* The end of cat; a full disk or another user's file makes it fail.       *)
Written(i) ==
  /\ spc[i] \in {"create", "write"}
  /\ \/ spc[i] = "write" /\ fd[i].at = Len(Doc(i)) /\ Go(i, "chmod") /\ UNCHANGED ok
     \/ Fails(i)
  /\ UNCHANGED <<job, fileVars, ran, auth>>

(* && chmod +x tmp                                                         *)
Chmod(i) ==
  /\ spc[i] = "chmod"
  /\ IF Exists(i) THEN mode' = mode \cup {names[Path(i)]} /\ Go(i, "exec") /\ UNCHANGED ok
     ELSE Fails(i) /\ UNCHANGED mode
  /\ UNCHANGED <<job, names, data, fd, ran, auth>>

Writing(n) == \E j \in Tasks : spc[j] = "write" /\ fd[j].ino = n

(* && (args): the file is opened by its name, by the system, which wants   *)
(* it executable and not being written to, or by the program args names.   *)
Exec(i) ==
  /\ spc[i] = "exec"
  /\ \/ Exists(i) /\ fd' = [fd EXCEPT ![i] = [ino |-> names[Path(i)], at |-> 0]] /\ Go(i, "run") /\ UNCHANGED ok
     \/ /\ Exists(i) => names[Path(i)] \in {n \in Tasks : n \notin mode \/ Writing(n)}
        /\ Fails(i) /\ UNCHANGED fd
  /\ UNCHANGED <<job, names, data, mode, ran, auth>>

(* A shell reads a script as it goes, from the inode it has opened.        *)
Run(i) ==
  /\ spc[i] = "run" /\ job[i].kind = "file"
  /\ LET text == data[fd[i].ino]
         n == fd[i].at + 1
     IN \/ /\ n <= Len(text)
           /\ ran' = [ran EXCEPT ![i] = Append(@, text[n])] /\ fd' = [fd EXCEPT ![i].at = n]
           /\ UNCHANGED spc
        \/ n > Len(text) /\ Go(i, "remove") /\ UNCHANGED <<ran, fd>>
  /\ UNCHANGED <<job, ok, names, data, mode, auth>>

(* ; rm -f tmp                                                             *)
Unlink(i) ==
  /\ spc[i] = "remove"
  /\ names' = [q \in DOMAIN names \ {Path(i)} |-> names[q]] /\ Go(i, "done")
  /\ UNCHANGED <<job, ok, data, mode, fd, ran, auth>>

(* "pipe" feeds the here document to the program named after #!, "plain"   *)
(* is the command itself: nothing is shared.                               *)
RunDirect(i) ==
  /\ spc[i] = "run" /\ job[i].kind \in {"pipe", "plain"}
  /\ ran' = [ran EXCEPT ![i] = IF job[i].kind = "pipe" THEN Doc(i) ELSE job[i].cmd]
  /\ Go(i, "done")
  /\ UNCHANGED <<job, ok, fileVars, auth>>

-----------------------------------------------------------------------------
(* BuildinCmd.Get: the pattern is the third field of the key and what      *)
(* follows, or the whole key when there are fewer, searched for in every   *)
(* line.  A missing file is made empty first, which changes nothing here.  *)
Pattern(key) == IF key.comment = "" THEN key.line ELSE key.comment

Found(i) == \E k \in DOMAIN auth[job[i].disk] : Matches(Pattern(job[i].cmd), auth[job[i].disk][k])

Grep(i) ==
  /\ spc[i] = "run" /\ job[i].kind = "auth"
  /\ Go(i, IF Found(i) THEN "done" ELSE "add")
  /\ UNCHANGED <<job, ok, fileVars, ran, auth>>

(* || echo key >> authorized_keys                                          *)
Add(i) ==
  /\ spc[i] = "add"
  /\ auth' = [auth EXCEPT ![job[i].disk] = Append(@, job[i].cmd.line)] /\ Go(i, "done")
  /\ UNCHANGED <<job, ok, fileVars, ran>>

Shell(i) ==
  \/ Create(i) \/ Write(i) \/ Written(i) \/ Chmod(i) \/ Exec(i) \/ Run(i) \/ Unlink(i)
  \/ RunDirect(i) \/ Grep(i) \/ Add(i)

ScriptNext == \E i \in Tasks : Shell(i)

ScriptSpec == ScriptInit /\ [][ScriptNext]_scriptVars

-----------------------------------------------------------------------------
Shares(i, j) == job[j].kind = "file" /\ Path(j) = Path(i)
Alone(i) == \A j \in Tasks \ {i} : ~Shares(i, j)

(* A script that a step before it failed for is not run.  One whose file   *)
(* no other task shares is run whole; of a shared one a shell may run a    *)
(* part, with gaps, but every line it runs is that line of a script that   *)
(* was written there: of its own, when all of them run the same command.   *)
RunsOwnScript ==
  \A i \in Tasks : job[i].kind # "auth" =>
    /\ ~ok[i] => ran[i] = <<>>
    /\ spc[i] \in {"remove", "done"} /\ ok[i] /\ (job[i].kind = "file" => Alone(i)) => ran[i] = job[i].cmd
    /\ job[i].kind = "file" => \A k \in DOMAIN ran[i] :
         \/ ran[i][k] = Hole
         \/ \E j \in Tasks : Shares(i, j) /\ k \in DOMAIN job[j].cmd /\ ran[i][k] = job[j].cmd[k]

(* Does not hold: a task truncates or removes the file another one runs.   *)
SharedRunWhole ==
  \A i \in Tasks : job[i].kind = "file" /\ spc[i] = "done" /\ (\A j \in Tasks : Shares(i, j) => job[j].cmd = job[i].cmd)
                     => ran[i] = job[i].cmd \/ ~ok[i]

(* No script is left behind once every shell is done, not even when tasks  *)
(* share one and run into each other.                                      *)
NothingLeft == (\A i \in Tasks : spc[i] = "done") => DOMAIN names = {}

(* After @auth.cmd the key is there, or another line that the pattern      *)
(* matches; where the pattern matches its own key, a host that runs the    *)
(* script again, and that no other task uses, has it once.                 *)
KeyEnteredOnce ==
  \A i \in Tasks : job[i].kind = "auth" /\ spc[i] = "done" =>
    LET keys == auth[job[i].disk]
        ours == {k \in DOMAIN keys : keys[k] = job[i].cmd.line}
    IN /\ ours # {} \/ Found(i)
       /\ Matches(Pattern(job[i].cmd), job[i].cmd.line) /\ (\A j \in Tasks \ {i} : job[j].disk # job[i].disk)
            => \A k, l \in ours : k = l

(* A task runs its own script, whole, if it shares no file, and never one  *)
(* that was not written; no script is left in /tmp; after @auth.cmd our    *)
(* key or a line its pattern matches is there, and ours at most once where *)
(* no other task runs (format_cmd, BuildinCmd.Get).                        *)
ScriptsRunAndGo == RunsOwnScript /\ NothingLeft /\ KeyEnteredOnce

=============================================================================
