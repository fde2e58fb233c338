---------------------------- MODULE BatchRunSteps ----------------------------
(***************************************************************************)
(* The inductive invariant of BatchRun, and what its steps do to the parts *)
(* of it that need no counting, for every host list, degree and number of  *)
(* lines.  BatchRunProofs adds the counting and states the theorems.       *)
(***************************************************************************)
EXTENDS BatchRun, TLAPS

(* How far down the host list the main goroutine is: every host before     *)
(* Front has been started or dropped, no host from Front on has.           *)
Front ==
  CASE pc = "begin" -> 0
    [] pc \in {"serial", "create"} -> cur
    [] pc = "work" -> cur + 1
    [] pc \in {"prompt", "login", "confirm"} -> 1
    [] pc \in {"dispatch", "loop", "mkdir", "notify"} -> IF host_offset > N THEN N ELSE host_offset
    [] pc \in {"wait", "merge", "remove"} -> end
    [] pc = "finish" -> N

(* The hosts that --check leaves to the rest of the run.                   *)
Left == N - (IF Pause THEN 1 ELSE 0)

(* The loop variables of main and of the run functions fit together.       *)
LoopInv ==
  /\ pc \in {"begin", "prompt", "login", "confirm"} => host_offset = 0
  /\ pc \in {"prompt", "login", "confirm"} => Pause /\ N > 0
  /\ pc = "dispatch" => host_offset = IF Pause THEN 1 ELSE 0
  /\ host_offset <= N \/ pc \in {"loop", "finish"}
  /\ pc \in SerialPcs => /\ cur <= end /\ (pc = "work" => cur < end)
                         /\ IF Pause /\ host_offset = 0 THEN end = 1 ELSE end = N
  /\ pc = "loop" => ParallelDegree >= 0 /\ (ParallelDegree = 0 => host_offset >= N)
  /\ pc \in BatchPcs => /\ ParallelDegree > 0
                        /\ start = host_offset /\ end = BatchEnd /\ start < end
  /\ pc \in BatchPcs \cup {"loop"} =>
       /\ Parallel /\ ParallelDegree <= Left
       /\ ParallelDegree = 0 => Left = 0
  /\ pc \in {"mkdir", "notify"} => cur = start
  /\ pc = "create" => start <= cur /\ cur <= end
  /\ pc = "merge" => start <= cur
  /\ proc = "finished" => pc = "finish"

(* Front separates the hosts that have been dealt with from the others.    *)
FrontInv ==
  \A i \in Idx :
    IF i < Front
    THEN \/ i \in skipped /\ execs[i] = 0 /\ task[i] = "idle"
         \/ i \notin skipped /\ execs[i] = 1 /\ task[i] # "idle"
    ELSE i \notin skipped /\ execs[i] = 0 /\ task[i] = "idle"

(* A task runs only inside the call that started it.                       *)
PlaceInv ==
  \A i \in Running :
    \/ pc = "work" /\ i = cur
    \/ pc = "create" /\ start <= i /\ i < cur
    \/ pc = "wait" /\ start <= i /\ i < end

IInv == TypeOK /\ LoopInv /\ FrontInv /\ PlaceInv /\ WaitGroupCounts

-----------------------------------------------------------------------------
(* The actions of the main goroutine and the others, one by one: the form  *)
(* in which the proofs below split a step.                                 *)
Actions ==
  \/ BeginCheck \/ BeginAll \/ Operator \/ Dispatch \/ NextBatch \/ Finish
  \/ SerialNext \/ SerialReturned \/ SerialEnd
  \/ MkdirFails \/ Mkdir \/ Notify \/ CreateTask \/ AllCreated
  \/ Waited \/ Merge \/ SignalStop \/ RemoveAll
  \/ (\E i \in Idx : Connected(i)) \/ (\E i \in Idx : ConnectFails(i))
  \/ (\E i \in Idx : Output(i)) \/ (\E i \in Idx : SessionEnds(i))
  \/ Interrupt
  \/ (\E f \in Idx : HandlerReceive(f)) \/ (\E f \in Idx : HandlerUnlink(f))
  \/ (\E f \in Idx : HandlerRmdir(f)) \/ (\E f \in Idx : HandlerExit(f))

(* A step is one of the actions, taken while the process runs, or changes  *)
(* nothing.                                                                *)
LEMMA StepCases == [Next]_vars => (proc = "running" /\ Actions) \/ UNCHANGED vars
  BY Zenon DEF Next, Step, MainStep, TaskStep, HandlerStep, Ended, Actions

(* The host list and the switches never change.                            *)
LEMMA InputFixed == [Next]_vars => UNCHANGED <<host_arr, Pause, Parallel>>
<1>1. Actions => UNCHANGED <<host_arr, Pause, Parallel>>
  BY Zenon DEF Actions, input, taskFrame, vars,
         BeginCheck, BeginAll, Operator, Dispatch, NextBatch, Finish, SerialNext, SerialReturned,
         SerialEnd, MkdirFails, Mkdir, Notify, CreateTask, AllCreated, Waited, Merge, SignalStop,
         RemoveAll, Connected, ConnectFails, Output, SessionEnds, Interrupt, HandlerReceive,
         HandlerUnlink, HandlerRmdir, HandlerExit
<1>2. UNCHANGED vars => UNCHANGED <<host_arr, Pause, Parallel>>
  BY Zenon DEF vars, input
<1> QED BY <1>1, <1>2, StepCases, Zenon

(* The list has a length, and its elements are hosts.                      *)
LEMMA HostList ==
  ASSUME host_arr \in HostLists
  PROVE  N \in Nat /\ \A i \in Idx : HostOf(i) \in Hosts
<1>1. host_arr \in Seq(Hosts) BY ConstantsAssumption, Zenon
<1> QED BY <1>1 DEF N, Idx, HostOf

-----------------------------------------------------------------------------
(* The loop variables of main, SerialRun and ParallelRun stay in their     *)
(* ranges in every step.                                                   *)
LEMMA CtlStep ==
  ASSUME TypeCtl, LoopInv, [Next]_vars
  PROVE  TypeCtl' /\ LoopInv'
<1> USE DEF TypeCtl, LoopInv, Left, Labels, SerialPcs, BatchPcs
<1>0. N \in Nat /\ UNCHANGED <<host_arr, Pause, Parallel>> /\ N' = N /\ Idx' = Idx
  BY HostList, InputFixed, Zenon DEF N, Idx
<1>1. CASE UNCHANGED <<mainVars, skipped>> /\ (proc' = proc \/ proc' = "interrupted")
  <2>1. proc' \in {"running", "finished", "panic", "interrupted"} BY <1>1, Zenon
  <2>2. proc' = "finished" => pc = "finish" BY <1>1, Zenon
  <2>3. UNCHANGED <<ParallelDegree, host_offset, pc, start, end, cur, skipped, BatchEnd, Left>>
    BY <1>0, <1>1, Zenon DEF mainVars, BatchEnd
  <2>4. TypeCtl' BY <1>0, <2>1, <2>3, Zenon
  <2>5. LoopInv' BY <1>0, <2>2, <2>3
  <2> QED BY <2>4, <2>5, Zenon
<1>2. CASE UNCHANGED vars BY <1>2, <1>1, Zenon DEF vars
<1>3. CASE BeginCheck BY <1>0, <1>3 DEF BeginCheck, Enter, BatchEnd
<1>4. CASE BeginAll BY <1>0, <1>4, Zenon DEF BeginAll, BatchEnd
<1>5. CASE Operator BY <1>0, <1>5 DEF Operator, BatchEnd
<1>6. CASE Dispatch BY <1>0, <1>6 DEF Dispatch, Enter, ClampDegree, BatchEnd
<1>7. CASE NextBatch BY <1>0, <1>7 DEF NextBatch, Enter, BatchEnd
<1>8. CASE Finish BY <1>0, <1>8, Zenon DEF Finish, mainVars, BatchEnd
<1>9. CASE SerialNext BY <1>0, <1>9, Zenon DEF SerialNext, BatchEnd
<1>10. CASE SerialReturned BY <1>0, <1>10 DEF SerialReturned, BatchEnd
<1>11. CASE SerialEnd BY <1>0, <1>11 DEF SerialEnd, BatchEnd
<1>12. CASE MkdirFails BY <1>0, <1>12 DEF MkdirFails, BatchEnd, Idx
<1>13. CASE Mkdir BY <1>0, <1>13, Zenon DEF Mkdir, BatchEnd
<1>14. CASE Notify BY <1>0, <1>14 DEF Notify, BatchEnd
<1>15. CASE CreateTask BY <1>0, <1>15 DEF CreateTask, BatchEnd
<1>16. CASE AllCreated BY <1>0, <1>16, Zenon DEF AllCreated, BatchEnd
<1>17. CASE Waited BY <1>0, <1>17 DEF Waited, BatchEnd
<1>18. CASE Merge BY <1>0, <1>18 DEF Merge, BatchEnd
<1>19. CASE SignalStop BY <1>0, <1>19, Zenon DEF SignalStop, BatchEnd
<1>20. CASE RemoveAll BY <1>0, <1>20 DEF RemoveAll, BatchEnd
<1>21. CASE \E i \in Idx : Connected(i) \/ ConnectFails(i) \/ Output(i) \/ SessionEnds(i)
  BY <1>21, <1>1, Zenon DEF Connected, ConnectFails, Output, SessionEnds, taskFrame
<1>22. CASE proc = "running" /\ Interrupt
  BY <1>22, <1>1, Zenon DEF Interrupt
<1>23. CASE \E f \in Idx : HandlerReceive(f) \/ HandlerUnlink(f) \/ HandlerRmdir(f)
  BY <1>23, <1>1, Zenon DEF HandlerReceive, HandlerUnlink, HandlerRmdir
<1>24. CASE proc = "running" /\ \E f \in Idx : HandlerExit(f)
  BY <1>24, <1>1, Zenon DEF HandlerExit
<1> QED
  BY Zenon, StepCases, <1>2, <1>3, <1>4, <1>5, <1>6, <1>7, <1>8, <1>9, <1>10, <1>11, <1>12, <1>13, <1>14,
     <1>15, <1>16, <1>17, <1>18, <1>19, <1>20, <1>21, <1>22, <1>23, <1>24 DEF Actions

(* Tasks keep their states and counters in every step.                     *)
LEMMA TaskTypeStep ==
  ASSUME TypeCtl, LoopInv, TypeTask, [Next]_vars
  PROVE  TypeTask'
<1> USE DEF TypeTask, TaskStates
<1>0. N \in Nat /\ Idx' = Idx
  BY HostList, InputFixed, Zenon DEF N, Idx, TypeCtl
<1>1. CASE SerialNext \/ CreateTask
  <2>1. cur \in Idx
    BY <1>0, <1>1 DEF SerialNext, CreateTask, TypeCtl, LoopInv, BatchPcs, BatchEnd, Idx
  <2>2. NewTask(cur) BY <1>1, Zenon DEF SerialNext, CreateTask
  <2> QED BY <1>0, <2>1, <2>2 DEF NewTask
<1>2. CASE \E i \in Idx : Connected(i) \/ ConnectFails(i) \/ Output(i) \/ SessionEnds(i)
  BY <1>0, <1>2 DEF Connected, ConnectFails, Output, SessionEnds, taskFrame
<1>3. CASE UNCHANGED taskVars
  BY <1>0, <1>3, Zenon DEF taskVars
<1> QED
  BY StepCases, <1>1, <1>2, <1>3, Zenon
  DEF Actions, vars, BeginCheck, BeginAll, Operator, Dispatch, NextBatch, Finish, SerialReturned,
      SerialEnd, MkdirFails, Mkdir, Notify, AllCreated, Waited, Merge, SignalStop, RemoveAll,
      Interrupt, HandlerReceive, HandlerUnlink, HandlerRmdir, HandlerExit

(* Signal channels and goroutines belong to hosts of the list.             *)
LEMMA SigTypeStep ==
  ASSUME TypeCtl, LoopInv, TypeFile, TypeSig, [Next]_vars
  PROVE  TypeSig'
<1> USE DEF TypeSig, HandlerStates
<1>0. N \in Nat /\ Idx' = Idx
  BY HostList, InputFixed, Zenon DEF N, Idx, TypeCtl
<1>1. CASE Notify
  <2>1. start \in Idx
    BY <1>0, <1>1 DEF Notify, TypeCtl, LoopInv, BatchPcs, Idx
  <2> QED BY <1>0, <1>1, <2>1, Zenon DEF Notify, TypeFile
<1>2. CASE SignalStop BY <1>0, <1>2, Zenon DEF SignalStop
<1>3. CASE Interrupt BY <1>0, <1>3, Zenon DEF Interrupt
<1>4. CASE \E f \in Idx : HandlerReceive(f) \/ HandlerUnlink(f) \/ HandlerRmdir(f)
  BY <1>0, <1>4 DEF HandlerReceive, HandlerUnlink, HandlerRmdir, SetHandler
<1>5. CASE UNCHANGED sigVars
  BY <1>0, <1>5, Zenon DEF sigVars
<1> QED
  BY StepCases, <1>1, <1>2, <1>3, <1>4, <1>5, Zenon
  DEF Actions, vars, BeginCheck, BeginAll, Operator, Dispatch, NextBatch, Finish, SerialNext,
      SerialReturned, SerialEnd, MkdirFails, Mkdir, CreateTask, AllCreated, Waited, Merge, RemoveAll,
      Connected, ConnectFails, Output, SessionEnds, taskFrame, HandlerExit

(* A write into a file gives a file.                                       *)
LEMMA WriteAtType ==
  ASSUME NEW S, NEW s \in Seq(S), NEW off \in Nat, NEW x \in S, Gap \in S
  PROVE  WriteAt(s, off, x) \in Seq(S)
<1> DEFINE len == IF off < Len(s) THEN Len(s) ELSE off + 1
<1>1. len \in Nat OBVIOUS
<1>2. \A p \in 1 .. len : (IF p = off + 1 THEN x ELSE IF p <= Len(s) THEN s[p] ELSE Gap) \in S
  OBVIOUS
<1>3. WriteAt(s, off, x) \in [1 .. len -> S]
  BY <1>2, Zenon DEF WriteAt
<1> QED BY <1>1, <1>3

(* What Emit does to the screen and to the files of a batch.               *)
LEMMA EmitType ==
  ASSUME TypeFile, N \in Nat, NEW k \in Kinds, NEW i \in Idx, NEW n \in Nat, Emit(k, i, n)
  PROVE  /\ shown' \in Seq(LineType)
         /\ data' \in [Idx -> [Kinds -> Seq(LineType)]]
<1> USE DEF TypeFile
<1>1. Line(k, i, n) \in LineType /\ Gap \in LineType
  BY Zenon DEF Line, LineType, Gap, Kinds, None, Idx
<1>2. CASE pc = "work"
  <2>1. shown' = Append(shown, Line(k, i, n)) /\ data' = data
    BY <1>2, Zenon DEF Emit
  <2> QED BY <1>1, <2>1
<1>3. CASE pc # "work" /\ fd[i][k] = None
  BY <1>3, Zenon DEF Emit
<1>4. CASE pc # "work" /\ fd[i][k] # None
  <2> DEFINE j == fd[i][k]
             new == WriteAt(data[j][k], n, Line(k, i, n))
  <2>1. j \in Idx BY <1>4
  <2>2. data[j] \in [Kinds -> Seq(LineType)] BY <2>1, Zenon
  <2>3. data[j][k] \in Seq(LineType) BY <2>2, Zenon
  <2>4. new \in Seq(LineType) BY <1>1, <2>3, WriteAtType, Zenon
  <2>5. /\ shown' = shown
        /\ data' = [data EXCEPT ![j][k] = new]
    BY <1>4, Zenon DEF Emit
  <2> HIDE DEF j, new
  <2> QED BY <2>1, <2>2, <2>4, <2>5, Zenon
<1> QED BY <1>2, <1>3, <1>4, Zenon

(* What a path of the tmp directory leads to is a sequence of lines.       *)
LEMMA ContentsType ==
  ASSUME TypeFile, NEW h \in Hosts, NEW k \in Kinds
  PROVE  Contents(h, k) \in Seq(LineType)
<1>1. ent[h] \in [Kinds -> Idx \cup {None}] BY Zenon DEF TypeFile
<1>2. CASE ent[h][k] = None
  BY <1>2 DEF Contents
<1>3. CASE ent[h][k] # None
  <2>1. ent[h][k] \in Idx BY <1>1, <1>3, Zenon
  <2>2. data[ent[h][k]] \in [Kinds -> Seq(LineType)] BY <2>1, Zenon DEF TypeFile
  <2> QED BY <1>3, <2>2, Zenon DEF Contents
<1> QED BY <1>2, <1>3, Zenon

(* Tmp files and the screen hold lines of hosts of the list.               *)
LEMMA FileTypeStep ==
  ASSUME TypeCtl, LoopInv, TypeTask, TypeFile, TypeSig, [Next]_vars
  PROVE  TypeFile'
<1> USE DEF TypeFile
<1>0. N \in Nat /\ Idx' = Idx /\ LineType' = LineType
  BY HostList, InputFixed, Zenon DEF N, Idx, TypeCtl, LineType
<1>1. \A i \in Idx : Banner(i) \in LineType
  BY Zenon DEF Banner, Line, LineType
<1>2. CASE SerialNext
  <2>1. cur \in Idx BY <1>0, <1>2 DEF SerialNext, TypeCtl, Idx
  <2> QED BY <1>0, <1>1, <1>2, <2>1 DEF SerialNext, fileVars
<1>3. CASE Mkdir BY <1>0, <1>3, Zenon DEF Mkdir
<1>4. CASE CreateTask
  <2>1. cur \in Idx BY <1>0, <1>4 DEF CreateTask, TypeCtl, Idx
  <2>2. HostOf(cur) \in Hosts BY <2>1, HostList, Zenon DEF TypeCtl
  <2>3. ent[HostOf(cur)] \in [Kinds -> Idx \cup {None}] BY <2>2, Zenon
  <2>4. dir' = dir /\ dirs' = dirs /\ shown' = shown BY <1>4, Zenon DEF CreateTask
  <2>5. fd' \in [Idx -> [Kinds -> Idx \cup {None}]]
    BY <1>4, <2>1, <2>3, Zenon DEF CreateTask
  <2>6. ent' \in [Hosts -> [Kinds -> Idx \cup {None}]]
    BY <1>4, <2>1, <2>2, <2>3, Zenon DEF CreateTask
  <2>7. data' \in [Idx -> [Kinds -> Seq(LineType)]]
    BY <1>4 DEF CreateTask
  <2> QED BY <1>0, <2>4, <2>5, <2>6, <2>7, Zenon
<1>5. CASE Waited BY <1>0, <1>5, Zenon DEF Waited
<1>6. CASE Merge
  <2>1. cur \in Idx BY <1>0, <1>6 DEF Merge, TypeCtl, Idx
  <2>2. HostOf(cur) \in Hosts BY <2>1, HostList, Zenon DEF TypeCtl
  <2>3. ent' \in [Hosts -> [Kinds -> Idx \cup {None}]]
    BY <1>6, <2>2, Zenon DEF Merge
  <2>4. Contents(HostOf(cur), "err") \in Seq(LineType) /\ Contents(HostOf(cur), "out") \in Seq(LineType)
    BY <2>2, ContentsType, Zenon DEF Kinds
  <2>5. Append(shown, Banner(cur)) \in Seq(LineType) BY <1>1, <2>1
  <2>6. shown' \in Seq(LineType)
    BY <1>6, <2>4, <2>5 DEF Merge
  <2> QED BY <1>0, <1>6, <2>3, <2>6, Zenon DEF Merge
<1>7. CASE RemoveAll BY <1>0, <1>7, Zenon DEF RemoveAll
<1>8. CASE \E i \in Idx : ConnectFails(i)
  <2>1. PICK i \in Idx : ConnectFails(i) BY <1>8, Zenon
  <2>2. Emit("err", i, 0) BY <2>1, Zenon DEF ConnectFails
  <2>3. "err" \in Kinds /\ 0 \in Nat BY Zenon DEF Kinds
  <2> QED BY <1>0, <2>1, <2>2, <2>3, EmitType, Zenon DEF ConnectFails, taskFrame
<1>9. CASE \E i \in Idx : Output(i)
  <2>1. PICK i \in Idx : Output(i) BY <1>9, Zenon
  <2>2. Emit("out", i, wrote[i]) BY <2>1, Zenon DEF Output
  <2>3. "out" \in Kinds /\ wrote[i] \in Nat BY Zenon DEF Kinds, TypeTask
  <2> QED BY <1>0, <2>1, <2>2, <2>3, EmitType, Zenon DEF Output, taskFrame
<1>10. CASE \E i \in Idx : Connected(i) \/ SessionEnds(i)
  BY <1>0, <1>10, Zenon DEF Connected, SessionEnds, taskFrame
<1>11. CASE \E f \in Idx : HandlerUnlink(f) \/ HandlerRmdir(f)
  BY <1>0, <1>11 DEF HandlerUnlink, HandlerRmdir
<1>12. CASE UNCHANGED <<fileVars, shown>>
  BY <1>0, <1>12, Zenon DEF fileVars
<1> QED
  BY StepCases, <1>2, <1>3, <1>4, <1>5, <1>6, <1>7, <1>8, <1>9, <1>10, <1>11, <1>12, Zenon
  DEF Actions, vars, BeginCheck, BeginAll, Operator, Dispatch, NextBatch, Finish, SerialReturned,
      SerialEnd, MkdirFails, Notify, AllCreated, SignalStop, Interrupt, HandlerReceive, HandlerExit

-----------------------------------------------------------------------------
(* Steps that start no task, end none and drop no host leave Front where   *)
(* it is.                                                                  *)
LEMMA FrontFixed ==
  ASSUME TypeCtl, LoopInv, proc = "running", Actions,
         ~SerialNext, ~CreateTask, ~MkdirFails
  PROVE  Front' = Front
<1> USE DEF TypeCtl, LoopInv, Labels, SerialPcs, BatchPcs, Front
<1>0. N \in Nat /\ UNCHANGED <<host_arr, Pause, Parallel>> /\ N' = N /\ Idx' = Idx
  <2>1. Next BY Zenon DEF Next, Step, MainStep, TaskStep, HandlerStep, Actions
  <2> QED BY <2>1, HostList, InputFixed, Zenon DEF N, Idx
<1>1. CASE BeginCheck BY <1>0, <1>1, Zenon DEF BeginCheck, Enter
<1>2. CASE BeginAll BY <1>0, <1>2 DEF BeginAll
<1>3. CASE Operator BY <1>0, <1>3 DEF Operator
<1>4. CASE Dispatch BY <1>0, <1>4 DEF Dispatch, Enter
<1>5. CASE NextBatch BY <1>0, <1>5 DEF NextBatch, Enter, BatchEnd
<1>6. CASE SerialReturned BY <1>0, <1>6, Zenon DEF SerialReturned
<1>7. CASE SerialEnd BY <1>0, <1>7 DEF SerialEnd
<1>8. CASE Mkdir BY <1>0, <1>8, Zenon DEF Mkdir
<1>9. CASE Notify BY <1>0, <1>9 DEF Notify
<1>10. CASE AllCreated BY <1>0, <1>10 DEF AllCreated
<1>11. CASE Waited BY <1>0, <1>11, Zenon DEF Waited
<1>12. CASE Merge BY <1>0, <1>12, Zenon DEF Merge
<1>13. CASE SignalStop BY <1>0, <1>13, Zenon DEF SignalStop
<1>14. CASE RemoveAll BY <1>0, <1>14, Zenon DEF RemoveAll, BatchEnd
<1>15. CASE UNCHANGED mainVars BY <1>0, <1>15, Zenon DEF mainVars
<1> QED
  BY <1>1, <1>2, <1>3, <1>4, <1>5, <1>6, <1>7, <1>8, <1>9, <1>10, <1>11, <1>12, <1>13, <1>14, <1>15, Zenon
  DEF Actions, Finish, Connected, ConnectFails, Output, SessionEnds, taskFrame, Interrupt,
      HandlerReceive, HandlerUnlink, HandlerRmdir, HandlerExit

(* Every host before Front has been started exactly once or dropped, and   *)
(* no host from Front on has been touched, after every step.               *)
LEMMA FrontStep ==
  ASSUME TypeCtl, TypeTask, LoopInv, FrontInv, [Next]_vars
  PROVE  FrontInv'
<1>0. N \in Nat /\ UNCHANGED <<host_arr, Pause, Parallel>> /\ N' = N /\ Idx' = Idx
  BY HostList, InputFixed, Zenon DEF N, Idx, TypeCtl
<1>1. CASE UNCHANGED vars
  <2>1. Front' = Front BY <1>0, <1>1, Zenon DEF vars, mainVars, Front
  <2> QED BY <1>0, <1>1, <2>1, Zenon DEF vars, taskVars, FrontInv
<1>2. CASE SerialNext \/ CreateTask
  <2>1. cur \in Idx /\ Front = cur /\ Front' = cur + 1
    BY <1>0, <1>2 DEF SerialNext, CreateTask, TypeCtl, Idx, Front
  <2>2. NewTask(cur) /\ skipped' = skipped BY <1>2, Zenon DEF SerialNext, CreateTask
  <2> QED BY <1>0, <2>1, <2>2 DEF NewTask, FrontInv, TypeTask, Idx
<1>3. CASE MkdirFails
  <2>1. Front = start /\ Front' = end
    BY <1>0, <1>3 DEF MkdirFails, TypeCtl, LoopInv, BatchPcs, BatchEnd, Front
  <2>2. skipped' = skipped \cup (start .. end - 1) /\ UNCHANGED <<task, execs>>
    BY <1>3, Zenon DEF MkdirFails, taskVars
  <2>3. start \in Nat /\ end \in Nat /\ start < end
    BY <1>0, <1>3 DEF MkdirFails, TypeCtl, LoopInv, BatchPcs
  <2> QED BY <1>0, <2>1, <2>2, <2>3 DEF FrontInv, Idx
<1>4. CASE proc = "running" /\ Actions /\ ~SerialNext /\ ~CreateTask /\ ~MkdirFails
  <2>1. Front' = Front BY <1>4, FrontFixed, Zenon
  <2>2. skipped' = skipped /\ execs' = execs
    BY <1>4, Zenon DEF Actions, BeginCheck, BeginAll, Operator, Dispatch, NextBatch, Finish, SerialReturned,
                SerialEnd, Mkdir, Notify, AllCreated, Waited, Merge, SignalStop, RemoveAll, Connected,
                ConnectFails, Output, SessionEnds, taskFrame, taskVars, Interrupt, HandlerReceive,
                HandlerUnlink, HandlerRmdir, HandlerExit
  <2>3. \A i \in Idx : task'[i] = "idle" <=> task[i] = "idle"
    BY <1>4, Zenon DEF Actions, BeginCheck, BeginAll, Operator, Dispatch, NextBatch, Finish, SerialReturned,
                SerialEnd, Mkdir, Notify, AllCreated, Waited, Merge, SignalStop, RemoveAll, Connected,
                ConnectFails, Output, SessionEnds, taskFrame, taskVars, Interrupt, HandlerReceive,
                HandlerUnlink, HandlerRmdir, HandlerExit, TypeTask
  <2> QED BY <1>0, <2>1, <2>2, <2>3, Zenon DEF FrontInv
<1> QED BY StepCases, <1>1, <1>2, <1>3, <1>4, Zenon

-----------------------------------------------------------------------------
(* The three ways in which a step changes the set of running tasks.        *)
LEMMA RunningStep ==
  ASSUME TypeCtl, TypeTask, LoopInv, FrontInv, proc = "running", Actions
  PROVE  \/ /\ SerialNext \/ CreateTask
            /\ cur \in Idx /\ cur \notin Running /\ Running' = Running \cup {cur} /\ wg' = wg + 1
         \/ \E i \in Running : /\ ConnectFails(i) \/ SessionEnds(i)
                               /\ Running' = Running \ {i} /\ wg' = wg - 1
         \/ Running' = Running /\ wg' = wg
<1>0. N \in Nat /\ Idx' = Idx
  <2>1. Next BY Zenon DEF Next, Step, MainStep, TaskStep, HandlerStep, Actions
  <2> QED BY <2>1, HostList, InputFixed, Zenon DEF N, Idx, TypeCtl
<1>1. CASE SerialNext \/ CreateTask
  <2>1. cur \in Idx /\ Front = cur
    BY <1>0, <1>1 DEF SerialNext, CreateTask, TypeCtl, Idx, Front
  <2>2. NewTask(cur) BY <1>1, Zenon DEF SerialNext, CreateTask
  <2>3. task[cur] = "idle" BY <1>0, <2>1 DEF FrontInv, Idx
  <2>4. Running' = Running \cup {cur}
    BY <1>0, <2>1, <2>2, Zenon DEF NewTask, Running, TypeTask
  <2> QED BY <1>1, <2>1, <2>2, <2>3, <2>4, Zenon DEF NewTask, Running
<1>2. CASE \E i \in Idx : ConnectFails(i) \/ SessionEnds(i)
  <2>1. PICK i \in Idx : ConnectFails(i) \/ SessionEnds(i) BY <1>2, Zenon
  <2>2. i \in Running BY <2>1, Zenon DEF ConnectFails, SessionEnds, Running
  <2>3. Running' = Running \ {i}
    BY <1>0, <2>1, Zenon DEF ConnectFails, SessionEnds, Running, TypeTask
  <2>4. wg' = wg - 1 BY <2>1, Zenon DEF ConnectFails, SessionEnds
  <2> QED BY <2>1, <2>2, <2>3, <2>4, Zenon
<1>3. CASE \E i \in Idx : Connected(i) \/ Output(i)
  BY <1>0, <1>3, Zenon DEF Connected, Output, Running, TypeTask
<1>4. CASE UNCHANGED taskVars
  BY <1>0, <1>4, Zenon DEF taskVars, Running
<1> QED
  BY <1>1, <1>2, <1>3, <1>4, Zenon
  DEF Actions, BeginCheck, BeginAll, Operator, Dispatch, NextBatch, Finish, SerialReturned, SerialEnd,
      MkdirFails, Mkdir, Notify, AllCreated, Waited, Merge, SignalStop, RemoveAll, Interrupt,
      HandlerReceive, HandlerUnlink, HandlerRmdir, HandlerExit

=============================================================================
