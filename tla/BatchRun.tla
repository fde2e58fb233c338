------------------------------ MODULE BatchRun ------------------------------
(***************************************************************************)
(* The execution engine of sesh: the end of main() (main.go), SerialRun    *)
(* and ParallelRun (util/util.go) and the life of a batch.Task             *)
(* (batch/ssh.go).                                                         *)
(*                                                                         *)
(* Actors: the main goroutine (pc), one goroutine per task of a parallel   *)
(* batch (task[i]), one signal goroutine per parallel batch (handler[f],   *)
(* never stopped by the code), the remote hosts, the operator at the       *)
(* terminal and whoever sends signals.  Host indices are the source's      *)
(* 0-based ones.                                                           *)
(*                                                                         *)
(* Standard output is not a terminal here; the live view that runs         *)
(* otherwise is the subject of LiveView.                                   *)
(***************************************************************************)
EXTENDS Integers, Sequences, FiniteSets

CONSTANTS
  Hosts,      \* host names
  HostLists,  \* the host lists parseHostsFromString may return
  Degrees,    \* the values of --parallel-degree
  Calls,      \* the invocations: <<host list, Pause, Parallel, degree>>
  DirNames,   \* the names "<tmpdir>/.task.<nanosecond>" may take
  MaxLines,   \* most lines a remote command prints
  FdLimit     \* most tmp files the process may hold open

ASSUME ConstantsAssumption ==
  /\ HostLists \subseteq Seq(Hosts)
  /\ Degrees \subseteq Int
  /\ DirNames # {}
  /\ MaxLines \in Nat
  /\ FdLimit \in Nat

VARIABLES
  host_arr, Pause, Parallel,  \* main: the hosts and the two switches, never assigned again
  ParallelDegree,             \* options.ParallelDegree, clamped before the loop
  host_offset,                \* main: first host not handed out yet
  pc,                         \* where the main goroutine is
  start, end, cur,            \* the range of the current SerialRun or ParallelRun; its loop index
  wg,                         \* counter of the current sync.WaitGroup
  task,                       \* task[i]: state of the task of host i
  wrote,                      \* wrote[i]: lines the remote command of host i has printed
  dir, dirs,                  \* tmp directory of the current batch; those that exist
  ent,                        \* ent[h][k]: inode behind entry "<dir>/h" or "<dir>/h.err"
  fd,                         \* fd[i][k]: inode task i writes to
  data,                       \* data[n][k]: contents of inode n
  notified, queued, handler,  \* batches whose channel signal.Notify feeds; holds a signal; goroutine
  proc,                       \* how the process is, or has ended
  shown,                      \* everything printed so far on stdout and stderr
  execs, skipped              \* history: Work() calls per host; hosts of a batch without directory

input == <<host_arr, Pause, Parallel>>
mainVars == <<ParallelDegree, host_offset, pc, start, end, cur>>
taskVars == <<wg, task, wrote, execs>>
fileVars == <<dir, dirs, ent, fd, data>>
sigVars == <<notified, queued, handler>>
vars == <<input, mainVars, taskVars, fileVars, sigVars, proc, shown, skipped>>

-----------------------------------------------------------------------------
N == Len(host_arr)
Idx == 0 .. N - 1
HostOf(i) == host_arr[i + 1]

Kinds == {"out", "err"}
None == -1

\* A line printed by task i (n-th of its kind), its banner, or a gap in a file.
Line(k, i, n) == [kind |-> k, task |-> i, n |-> n]
Gap == Line("gap", None, 0)
Banner(i) == Line("head", i, 0)

Running == {i \in Idx : task[i] \in {"dial", "session"}}

Init ==
  /\ host_arr \in HostLists
  /\ Pause \in BOOLEAN
  /\ Parallel \in BOOLEAN
  /\ ParallelDegree \in Degrees
  /\ <<host_arr, Pause, Parallel, ParallelDegree>> \in Calls
  /\ host_offset = 0
  /\ pc = "begin"
  /\ start = 0 /\ end = 0 /\ cur = 0
  /\ wg = 0
  /\ task = [i \in Idx |-> "idle"]
  /\ wrote = [i \in Idx |-> 0]
  /\ dir = CHOOSE d \in DirNames : TRUE
  /\ dirs = {}
  /\ ent = [h \in Hosts |-> [k \in Kinds |-> None]]
  /\ fd = [i \in Idx |-> [k \in Kinds |-> None]]
  /\ data = [i \in Idx |-> [k \in Kinds |-> <<>>]]
  /\ notified = {} /\ queued = {}
  /\ handler = [f \in Idx |-> [st |-> "none", dir |-> dir]]
  /\ proc = "running"
  /\ shown = <<>>
  /\ execs = [i \in Idx |-> 0]
  /\ skipped = {}

-----------------------------------------------------------------------------
(* batch.NewTask followed by the call of Work on it, inline or as a        *)
(* goroutine: the WaitGroup is incremented before Work can run.            *)
NewTask(i) ==
  /\ wg' = wg + 1
  /\ task' = [task EXCEPT ![i] = "dial"]
  /\ wrote' = [wrote EXCEPT ![i] = 0]
  /\ execs' = [execs EXCEPT ![i] = @ + 1]

(* The call of SerialRun or ParallelRun on raw_host_arr[s:e]. *)
Enter(label, s, e) ==
  /\ pc' = label
  /\ start' = s /\ end' = e /\ cur' = s

-----------------------------------------------------------------------------
(* The main goroutine outside the run functions.                           *)

(* --check: the first host alone.  host_arr[0:1] panics on an empty list. *)
BeginCheck ==
  /\ pc = "begin" /\ Pause
  /\ IF N = 0
     THEN proc' = "panic" /\ UNCHANGED <<pc, start, end, cur>>
     ELSE Enter("serial", host_offset, 1) /\ UNCHANGED proc
  /\ UNCHANGED <<input, ParallelDegree, host_offset, taskVars, fileVars, sigVars, shown, skipped>>

BeginAll ==
  /\ pc = "begin" /\ ~Pause
  /\ pc' = "dispatch"
  /\ UNCHANGED <<input, ParallelDegree, host_offset, start, end, cur, taskVars, fileVars, sigVars,
                 proc, shown, skipped>>

\* mutant: the host of --check is not taken off the list
OperatorKeepsOffset ==
  /\ \/ pc = "prompt" /\ pc' = "login"
     \/ pc = "login" /\ pc' = "confirm"
     \/ pc = "confirm" /\ pc' = "dispatch"
  /\ UNCHANGED <<input, ParallelDegree, host_offset, start, end, cur, taskVars, fileVars, sigVars, proc,
                 shown, skipped>>

(* The operator presses a key, inspects the first host in an ssh login     *)
(* (util.Interact) and leaves it, and presses a key again.                 *)
Operator ==
  /\ \/ pc = "prompt" /\ pc' = "login" /\ UNCHANGED host_offset
     \/ pc = "login" /\ pc' = "confirm" /\ UNCHANGED host_offset
     \/ pc = "confirm" /\ pc' = "dispatch" /\ host_offset' = 1
  /\ UNCHANGED <<input, ParallelDegree, start, end, cur, taskVars, fileVars, sigVars, proc,
                 shown, skipped>>

ClampDegree(d, left) == IF d < 1 \/ d > left THEN left ELSE d

Dispatch ==
  /\ pc = "dispatch"
  /\ IF Parallel
     THEN /\ ParallelDegree' = ClampDegree(ParallelDegree, N - host_offset)
          /\ pc' = "loop"
          /\ UNCHANGED <<start, end, cur>>
     ELSE /\ Enter("serial", host_offset, N)
          /\ UNCHANGED ParallelDegree
  /\ UNCHANGED <<input, host_offset, taskVars, fileVars, sigVars, proc, shown, skipped>>

\* mutant: the last batch is not cut to the list
BatchEndUncut == host_offset + ParallelDegree

BatchEnd == IF host_offset + ParallelDegree > N THEN N ELSE host_offset + ParallelDegree

NextBatch ==
  /\ pc = "loop"
  /\ IF host_offset >= BatchEnd
     THEN pc' = "finish" /\ UNCHANGED <<start, end, cur>>
     ELSE Enter("mkdir", host_offset, BatchEnd)
  /\ UNCHANGED <<input, ParallelDegree, host_offset, taskVars, fileVars, sigVars, proc, shown, skipped>>

Finish ==
  /\ pc = "finish"
  /\ proc' = "finished"
  /\ UNCHANGED <<input, mainVars, taskVars, fileVars, sigVars, shown, skipped>>

-----------------------------------------------------------------------------
(* SerialRun: banner, then Work() inline, host after host.                 *)

SerialNext ==
  /\ pc = "serial" /\ cur < end
  /\ NewTask(cur)
  /\ shown' = Append(shown, Banner(cur))
  /\ pc' = "work"
  /\ UNCHANGED <<input, ParallelDegree, host_offset, start, end, cur, fileVars, sigVars, proc, skipped>>

SerialReturned ==
  /\ pc = "work" /\ cur \notin Running
  /\ pc' = "serial" /\ cur' = cur + 1
  /\ UNCHANGED <<input, ParallelDegree, host_offset, start, end, taskVars, fileVars, sigVars, proc,
                 shown, skipped>>

(* wg.Wait(), then back to main: to the prompt of --check or to the end.   *)
SerialEnd ==
  /\ pc = "serial" /\ cur >= end
  /\ wg = 0
  /\ pc' = IF Pause /\ host_offset = 0 THEN "prompt" ELSE "finish"
  /\ UNCHANGED <<input, ParallelDegree, host_offset, start, end, cur, taskVars, fileVars, sigVars, proc,
                 shown, skipped>>

-----------------------------------------------------------------------------
(* ParallelRun on the main goroutine.                                      *)

(* os.Mkdir fails: main drops the error and goes on with the next batch.   *)
MkdirFails ==
  /\ pc = "mkdir"
  /\ skipped' = skipped \cup (start .. end - 1)
  /\ host_offset' = host_offset + ParallelDegree
  /\ pc' = "loop"
  /\ UNCHANGED <<input, ParallelDegree, start, end, cur, taskVars, fileVars, sigVars, proc, shown>>

Mkdir ==
  /\ pc = "mkdir"
  /\ \E d \in DirNames \ dirs : dir' = d /\ dirs' = dirs \cup {d}
  /\ pc' = "notify"
  /\ UNCHANGED <<input, ParallelDegree, host_offset, start, end, cur, taskVars, ent, fd, data, sigVars,
                 proc, shown, skipped>>

\* mutant: nobody receives from the signal channel
NotifyOnly ==
  /\ pc = "notify"
  /\ notified' = notified \cup {start}
  /\ pc' = "create"
  /\ UNCHANGED <<input, ParallelDegree, host_offset, start, end, cur, taskVars, fileVars, queued, handler,
                 proc, shown, skipped>>

(* signal.Notify and the goroutine that waits on the channel.              *)
Notify ==
  /\ pc = "notify"
  /\ notified' = notified \cup {start}
  /\ handler' = [handler EXCEPT ![start] = [st |-> "wait", dir |-> dir]]
  /\ pc' = "create"
  /\ UNCHANGED <<input, ParallelDegree, host_offset, start, end, cur, taskVars, fileVars, queued, proc,
                 shown, skipped>>

OpenFiles == Cardinality({p \in Idx \X Kinds : fd[p[1]][p[2]] # None})

(* os.Create of the two files of a host, NewTask and "go task.Work()".     *)
(* Create truncates the inode an entry of that name leads to; when it      *)
(* fails (no directory, too many open files) the error is dropped and the  *)
(* task gets a nil file.                                                   *)
CreateTask ==
  /\ pc = "create" /\ cur < end
  /\ LET h == HostOf(cur)
         outOk == dir \in dirs /\ OpenFiles < FdLimit
         errOk == dir \in dirs /\ OpenFiles + (IF outOk THEN 1 ELSE 0) < FdLimit
         ok(k) == IF k = "out" THEN outOk ELSE errOk
         inode(k) == IF ent[h][k] = None THEN cur ELSE ent[h][k]
     IN /\ fd' = [fd EXCEPT ![cur] = [k \in Kinds |-> IF ok(k) THEN inode(k) ELSE None]]
        /\ ent' = [ent EXCEPT ![h] = [k \in Kinds |-> IF ok(k) THEN inode(k) ELSE ent[h][k]]]
        /\ data' = [n \in Idx |-> [k \in Kinds |->
                      IF ok(k) /\ n = inode(k) THEN <<>> ELSE data[n][k]]]
  /\ NewTask(cur)
  /\ cur' = cur + 1
  /\ UNCHANGED <<input, ParallelDegree, host_offset, pc, start, end, dir, dirs, sigVars, proc, shown,
                 skipped>>

AllCreated ==
  /\ pc = "create" /\ cur >= end
  /\ pc' = "wait"
  /\ UNCHANGED <<input, ParallelDegree, host_offset, start, end, cur, taskVars, fileVars, sigVars, proc,
                 shown, skipped>>

\* mutant: the main goroutine does not wait for the tasks
WaitedForNothing ==
  /\ pc = "wait"
  /\ fd' = [i \in Idx |-> [k \in Kinds |-> None]]
  /\ pc' = "merge" /\ cur' = start
  /\ UNCHANGED <<input, ParallelDegree, host_offset, start, end, taskVars, dir, dirs, ent, data, sigVars,
                 proc, shown, skipped>>

(* wg.Wait() returns; the tmp files are closed.                            *)
Waited ==
  /\ pc = "wait" /\ wg = 0
  /\ fd' = [i \in Idx |-> [k \in Kinds |-> None]]
  /\ pc' = "merge" /\ cur' = start
  /\ UNCHANGED <<input, ParallelDegree, host_offset, start, end, taskVars, dir, dirs, ent, data, sigVars,
                 proc, shown, skipped>>

Contents(h, k) == IF ent[h][k] = None THEN <<>> ELSE data[ent[h][k]][k]

\* mutant: the error files are not copied
MergeOutOnly ==
  /\ pc = "merge" /\ cur < end
  /\ LET h == HostOf(cur)
     IN /\ shown' = Append(shown, Banner(cur)) \o Contents(h, "out")
        /\ ent' = [ent EXCEPT ![h] = [k \in Kinds |-> None]]
  /\ cur' = cur + 1
  /\ UNCHANGED <<input, ParallelDegree, host_offset, pc, start, end, taskVars, dir, dirs, fd, data,
                 sigVars, proc, skipped>>

(* Banner, error file, output file; then both entries are removed.         *)
Merge ==
  /\ pc = "merge" /\ cur < end
  /\ LET h == HostOf(cur)
     IN /\ shown' = Append(shown, Banner(cur)) \o Contents(h, "err") \o Contents(h, "out")
        /\ ent' = [ent EXCEPT ![h] = [k \in Kinds |-> None]]
  /\ cur' = cur + 1
  /\ UNCHANGED <<input, ParallelDegree, host_offset, pc, start, end, taskVars, dir, dirs, fd, data,
                 sigVars, proc, skipped>>

(* The deferred function: signal.Stop, then os.RemoveAll.                  *)
SignalStop ==
  /\ pc = "merge" /\ cur >= end
  /\ notified' = notified \ {start}
  /\ pc' = "remove"
  /\ UNCHANGED <<input, ParallelDegree, host_offset, start, end, cur, taskVars, fileVars, queued, handler,
                 proc, shown, skipped>>

\* mutant: the tmp directory is left behind
RemoveNothing ==
  /\ pc = "remove"
  /\ host_offset' = host_offset + ParallelDegree
  /\ pc' = "loop"
  /\ UNCHANGED <<input, ParallelDegree, start, end, cur, taskVars, fileVars, sigVars, proc, shown, skipped>>

\* mutant: the batch that is over is handed out again
RemoveAndRepeat ==
  /\ pc = "remove"
  /\ dirs' = dirs \ {dir}
  /\ ent' = [h \in Hosts |-> [k \in Kinds |-> None]]
  /\ pc' = "loop"
  /\ UNCHANGED <<input, ParallelDegree, host_offset, start, end, cur, taskVars, dir, fd, data, sigVars,
                 proc, shown, skipped>>

RemoveAll ==
  /\ pc = "remove"
  /\ dirs' = dirs \ {dir}
  /\ ent' = [h \in Hosts |-> [k \in Kinds |-> None]]
  /\ host_offset' = host_offset + ParallelDegree
  /\ pc' = "loop"
  /\ UNCHANGED <<input, ParallelDegree, start, end, cur, taskVars, dir, fd, data, sigVars, proc, shown,
                 skipped>>

-----------------------------------------------------------------------------
(* Task.Work on host i, inline (pc = "work") or in its goroutine.          *)

(* What a write at the writer's own offset makes of a file.                *)
WriteAt(s, off, x) ==
  [p \in 1 .. (IF off < Len(s) THEN Len(s) ELSE off + 1) |->
     IF p = off + 1 THEN x ELSE IF p <= Len(s) THEN s[p] ELSE Gap]

\* mutant: a task of a batch prints to the terminal instead of to its file
EmitShown(k, i, n) == shown' = Append(shown, Line(k, i, n)) /\ UNCHANGED data

Emit(k, i, n) ==
  IF pc = "work"
  THEN shown' = Append(shown, Line(k, i, n)) /\ UNCHANGED data
  ELSE /\ data' = IF fd[i][k] = None THEN data
                  ELSE [data EXCEPT ![fd[i][k]][k] = WriteAt(@, n, Line(k, i, n))]
       /\ UNCHANGED shown

taskFrame == <<input, mainVars, execs, dir, dirs, ent, fd, sigVars, proc, skipped>>

(* ssh.Dial and NewSession succeed.  Nothing bounds how long they take:    *)
(* task.Timeout is assigned and never read.                                *)
Connected(i) ==
  /\ task[i] = "dial"
  /\ task' = [task EXCEPT ![i] = "session"]
  /\ UNCHANGED <<taskFrame, wg, wrote, data, shown>>

\* mutant: Work returns before Done is deferred
ConnectFailsUndone(i) ==
  /\ task[i] = "dial"
  /\ Emit("err", i, 0)
  /\ task' = [task EXCEPT ![i] = "failed"]
  /\ UNCHANGED <<taskFrame, wg, wrote>>

(* Dial or NewSession fails: one line on Errout, deferred Done.            *)
ConnectFails(i) ==
  /\ task[i] = "dial"
  /\ Emit("err", i, 0)
  /\ task' = [task EXCEPT ![i] = "failed"]
  /\ wg' = wg - 1
  /\ UNCHANGED <<taskFrame, wrote>>

(* The session copies remote output (stdout and stderr) to task.Output.    *)
Output(i) ==
  /\ task[i] = "session" /\ wrote[i] < MaxLines
  /\ Emit("out", i, wrote[i])
  /\ wrote' = [wrote EXCEPT ![i] = @ + 1]
  /\ UNCHANGED <<taskFrame, wg, task>>

(* session.Run returns, its error ignored; deferred Done.                  *)
SessionEnds(i) ==
  /\ task[i] = "session"
  /\ task' = [task EXCEPT ![i] = "done"]
  /\ wg' = wg - 1
  /\ UNCHANGED <<taskFrame, wrote, data, shown>>

-----------------------------------------------------------------------------
(* Signals.                                                                *)

(* SIGINT: buffered (capacity 1) when a channel is registered, otherwise   *)
(* the default action ends the process.                                    *)
Interrupt ==
  /\ IF notified # {} THEN queued' = queued \cup notified /\ UNCHANGED proc
                      ELSE proc' = "interrupted" /\ UNCHANGED queued
  /\ UNCHANGED <<input, mainVars, taskVars, fileVars, notified, handler, shown, skipped>>

SetHandler(f, s) == handler' = [handler EXCEPT ![f] = [@ EXCEPT !.st = s]]

(* The goroutine: receive, RemoveAll(dir) (entries first, then the         *)
(* directory, which fails when an entry has appeared meanwhile), Exit(1).  *)
HandlerReceive(f) ==
  /\ handler[f].st = "wait" /\ f \in queued
  /\ queued' = queued \ {f}
  /\ SetHandler(f, "unlink")
  /\ UNCHANGED <<input, mainVars, taskVars, fileVars, notified, proc, shown, skipped>>

HandlerUnlink(f) ==
  /\ handler[f].st = "unlink"
  /\ ent' = IF handler[f].dir = dir THEN [h \in Hosts |-> [k \in Kinds |-> None]] ELSE ent
  /\ SetHandler(f, "rmdir")
  /\ UNCHANGED <<input, mainVars, taskVars, dir, dirs, fd, data, notified, queued, proc, shown, skipped>>

HandlerRmdir(f) ==
  /\ handler[f].st = "rmdir"
  /\ dirs' = IF handler[f].dir = dir /\ \E h \in Hosts, k \in Kinds : ent[h][k] # None
             THEN dirs ELSE dirs \ {handler[f].dir}
  /\ SetHandler(f, "exit")
  /\ UNCHANGED <<input, mainVars, taskVars, dir, ent, fd, data, notified, queued, proc, shown, skipped>>

HandlerExit(f) ==
  /\ handler[f].st = "exit"
  /\ proc' = "interrupted"
  /\ UNCHANGED <<input, mainVars, taskVars, fileVars, sigVars, shown, skipped>>

-----------------------------------------------------------------------------
MainStep ==
  \/ BeginCheck \/ BeginAll \/ Dispatch \/ NextBatch \/ Finish
  \/ SerialNext \/ SerialReturned \/ SerialEnd
  \/ MkdirFails \/ Mkdir \/ Notify \/ CreateTask \/ AllCreated
  \/ Waited \/ Merge \/ SignalStop \/ RemoveAll

TaskStep(i) == Connected(i) \/ ConnectFails(i) \/ Output(i) \/ SessionEnds(i)

HandlerStep(f) == HandlerReceive(f) \/ HandlerUnlink(f) \/ HandlerRmdir(f) \/ HandlerExit(f)

Step ==
  \/ MainStep
  \/ Operator
  \/ \E i \in Idx : TaskStep(i)
  \/ \E f \in Idx : HandlerStep(f)
  \/ Interrupt

Ended == proc # "running" /\ UNCHANGED vars

Next == (proc = "running" /\ Step) \/ Ended

Spec == Init /\ [][Next]_vars

(* The Go scheduler runs every goroutine that can take a step.             *)
AllIdx == UNION {0 .. Len(l) - 1 : l \in HostLists}
LocalFairness ==
  /\ WF_vars(proc = "running" /\ MainStep)
  /\ \A f \in AllIdx : WF_vars(proc = "running" /\ f \in Idx /\ HandlerStep(f))

(* Assumptions on the outside world: the operator answers the prompts,     *)
(* every host answers and every remote command comes to an end.            *)
WorldFairness ==
  /\ WF_vars(proc = "running" /\ Operator)
  /\ \A i \in AllIdx : WF_vars(proc = "running" /\ i \in Idx /\ TaskStep(i))

LocalSpec == Spec /\ LocalFairness

-----------------------------------------------------------------------------
HandlerStates == {"none", "wait", "unlink", "rmdir", "exit"}
TaskStates == {"idle", "dial", "session", "failed", "done"}
SerialPcs == {"serial", "work"}
BatchPcs == {"mkdir", "notify", "create", "wait", "merge", "remove"}
Labels == {"begin", "prompt", "login", "confirm", "dispatch", "loop", "finish"}
            \cup SerialPcs \cup BatchPcs
LineType == [kind : Kinds \cup {"head", "gap"}, task : Idx \cup {None}, n : Nat]

TypeCtl ==
  /\ host_arr \in HostLists /\ Pause \in BOOLEAN /\ Parallel \in BOOLEAN
  /\ ParallelDegree \in Int /\ host_offset \in Nat
  /\ pc \in Labels
  /\ start \in Nat /\ end \in 0 .. N /\ cur \in Nat
  /\ proc \in {"running", "finished", "panic", "interrupted"}
  /\ skipped \subseteq Idx
TypeTask ==
  /\ wg \in Int
  /\ task \in [Idx -> TaskStates] /\ wrote \in [Idx -> Nat] /\ execs \in [Idx -> Nat]
TypeFile ==
  /\ dir \in DirNames /\ dirs \subseteq DirNames
  /\ ent \in [Hosts -> [Kinds -> Idx \cup {None}]]
  /\ fd \in [Idx -> [Kinds -> Idx \cup {None}]]
  /\ data \in [Idx -> [Kinds -> Seq(LineType)]]
  /\ shown \in Seq(LineType)
TypeSig ==
  /\ notified \subseteq Idx /\ queued \subseteq Idx
  /\ handler \in [Idx -> [st : HandlerStates, dir : DirNames]]

(* Every variable keeps its type; in particular the slice of a run never   *)
(* leaves the host list, and tasks, files and signal channels belong to    *)
(* hosts of the list.                                                      *)
TypeOK == TypeCtl /\ TypeTask /\ TypeFile /\ TypeSig

(* At no time do more tasks run than --parallel-degree allows: in a        *)
(* parallel batch at most the clamped ParallelDegree (wg.Wait separates    *)
(* the batches), anywhere else at most one.                                *)
DegreeRespected ==
  Cardinality(Running) <= IF pc \in BatchPcs THEN ParallelDegree ELSE 1

(* No host is ever given to Work twice, whatever the mix of --check, -r    *)
(* and --parallel-degree, and when sesh reports "Finished!" every host has *)
(* been worked on to the end, except those of a batch whose tmp directory  *)
(* could not be made.                                                      *)
ExactlyOnce ==
  /\ \A i \in Idx : execs[i] <= 1
  /\ proc = "finished" =>
       \A i \in Idx \ skipped : execs[i] = 1 /\ task[i] \in {"failed", "done"}

(* The WaitGroup counts the tasks that have not called Done: it is never   *)
(* negative (which would panic) and Wait returns only when all are over.   *)
WaitGroupCounts == wg = Cardinality(Running)

(* What is printed comes in blocks: a line of a task directly follows its  *)
(* previous line, and its first line the banner of its host; nothing of    *)
(* another host, and no gap, gets in between.  For host lists without      *)
(* duplicates.                                                             *)
BlocksIntact ==
  \A p \in 1 .. Len(shown) :
    LET l == shown[p] IN
    l.kind # "head" =>
      /\ l.kind \in Kinds /\ p > 1
      /\ shown[p - 1] = IF l.n = 0 THEN Banner(l.task) ELSE Line(l.kind, l.task, l.n - 1)

Printed == {shown[p] : p \in 1 .. Len(shown)}

(* "Merge all the hosts' output": when sesh reports "Finished!" and no     *)
(* interrupt is being served, every line a remote command printed and      *)
(* every connection error has been shown.                                  *)
NothingLost ==
  (proc = "finished" /\ \A f \in Idx : handler[f].st \in {"none", "wait"}) =>
    \A i \in Idx :
      /\ \A n \in 0 .. wrote[i] - 1 : Line("out", i, n) \in Printed
      /\ task[i] = "failed" => Line("err", i, 0) \in Printed

(* Between two batches, and when sesh reports "Finished!", no tmp          *)
(* directory of this process is left, and there is never more than one.    *)
TmpDirsRemoved ==
  /\ dirs \subseteq {dir}
  /\ (pc \notin BatchPcs \/ proc = "finished") => dirs = {}

(* Every run of sesh comes to an end (no lost Done, no endless batch loop) *)
(* when hosts and operator answer.                                         *)
Termination == WorldFairness => <>(proc # "running")

(* A queued interrupt ends the process even when hosts never answer.       *)
InterruptObeyed == (queued # {}) ~> (proc # "running")

(* README: "The default connection timeout is 5 seconds, it can be changed *)
(* by --timeout": a connection attempt does not last for ever.             *)
DialGivesUp ==
  ({i \in Idx : task[i] = "dial"} # {}) ~>
    ({i \in Idx : task[i] = "dial"} = {} \/ proc # "running")

(* "If got interrupt or kill signal, delete tmp directory first, then exit *)
(* with 1": a process that an interrupt has ended leaves no tmp directory. *)
InterruptRemovesTmpDir == proc = "interrupted" => dirs = {}

-----------------------------------------------------------------------------
(* What the engine promises: see HostQueue.                                *)
Limit ==
  IF ~Parallel THEN 1
  ELSE LET d == ClampDegree(ParallelDegree, N - (IF Pause THEN 1 ELSE 0))
       IN IF d < 1 THEN 1 ELSE d

Queue == INSTANCE HostQueue WITH
  n <- N, limit <- Limit,
  next <- Cardinality({i \in Idx : execs[i] > 0} \cup skipped),
  running <- Running,
  done <- {i \in Idx : task[i] \in {"failed", "done"}},
  outcome <- IF proc \in {"running", "finished"} THEN proc ELSE "aborted"

(* Every run of the engine hands the hosts out in list order, each once,   *)
(* at most Limit at a time, and finishes only with nothing running.        *)
ImplementsHostQueue == Queue!Spec

=============================================================================
