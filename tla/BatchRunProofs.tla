--------------------------- MODULE BatchRunProofs ---------------------------
(***************************************************************************)
(* Theorems about BatchRun, for every host list, degree and number of      *)
(* lines.                                                                  *)
(***************************************************************************)
EXTENDS BatchOutputSteps, FiniteSetTheorems

(* Only finitely many tasks run.                                           *)
LEMMA RunningFinite ==
  ASSUME TypeCtl
  PROVE  IsFiniteSet(Idx) /\ Running \subseteq Idx /\ IsFiniteSet(Running) /\ Cardinality(Running) \in Nat
<1>1. N \in Nat BY HostList, Zenon DEF TypeCtl
<1>2. IsFiniteSet(Idx) BY <1>1, FS_Interval DEF Idx
<1>3. Running \subseteq Idx BY Zenon DEF Running
<1>4. IsFiniteSet(Running) BY <1>2, <1>3, FS_Subset, Zenon
<1> QED BY <1>2, <1>3, <1>4, FS_CardinalityType, Zenon

(* The WaitGroup counts the running tasks after every step.                *)
LEMMA WaitGroupStep ==
  ASSUME TypeCtl, TypeTask, LoopInv, FrontInv, WaitGroupCounts, [Next]_vars
  PROVE  WaitGroupCounts'
<1> USE DEF WaitGroupCounts
<1>0. IsFiniteSet(Running) /\ Cardinality(Running) \in Nat BY RunningFinite, Zenon
<1>1. CASE UNCHANGED vars
  BY <1>1, Zenon DEF vars, input, taskVars, Running, Idx, N
<1>2. CASE proc = "running" /\ Actions
  <2>1. CASE cur \notin Running /\ Running' = Running \cup {cur} /\ wg' = wg + 1
    BY <1>0, <2>1, FS_AddElement, Zenon
  <2>2. CASE \E i \in Running : Running' = Running \ {i} /\ wg' = wg - 1
    BY <1>0, <2>2, FS_RemoveElement, Zenon
  <2>3. CASE Running' = Running /\ wg' = wg
    BY <2>3, Zenon
  <2> QED BY <1>2, <2>1, <2>2, <2>3, RunningStep, Zenon
<1> QED BY StepCases, <1>1, <1>2, Zenon

(* When wg.Wait returns, no task is running.                               *)
LEMMA NoneRunning ==
  ASSUME IInv, wg = 0
  PROVE  Running = {}
<1>1. IsFiniteSet(Running) /\ Cardinality(Running) = 0 BY RunningFinite, Zenon DEF IInv, TypeOK, WaitGroupCounts
<1> QED BY <1>1, FS_EmptySet, Zenon

(* A task never outlives the call of SerialRun or ParallelRun that started *)
(* it: wg.Wait returns only when all of them are over.                     *)
LEMMA PlaceStep ==
  ASSUME TypeCtl, TypeTask, LoopInv, FrontInv, PlaceInv, WaitGroupCounts, [Next]_vars
  PROVE  PlaceInv'
<1>0. N \in Nat /\ Idx' = Idx BY HostList, InputFixed, Zenon DEF N, Idx, TypeCtl
<1>1. CASE UNCHANGED vars
  BY <1>1, Zenon DEF vars, input, mainVars, taskVars, Running, Idx, N, PlaceInv
<1>2. CASE proc = "running" /\ Actions
  <2>1. CASE SerialNext
    <3>1. Running = {} BY <2>1, Zenon DEF SerialNext, PlaceInv
    <3>2. Running' \subseteq {cur} BY <1>2, <2>1, <3>1, RunningStep, Zenon DEF SerialNext, ConnectFails, SessionEnds
    <3> QED BY <2>1, <3>2, Zenon DEF SerialNext, PlaceInv
  <2>2. CASE CreateTask
    <3>1. Running' \subseteq Running \cup {cur} BY <1>2, RunningStep, Zenon
    <3>2. cur' = cur + 1 /\ UNCHANGED <<pc, start, end>> /\ pc = "create" BY <2>2, Zenon DEF CreateTask
    <3>3. start \in Nat /\ cur \in Nat /\ start <= cur BY <3>2, Zenon DEF TypeCtl, LoopInv
    <3>4. Running \subseteq Int BY <1>0 DEF Running, Idx
    <3> QED BY <3>1, <3>2, <3>3, <3>4 DEF PlaceInv
  <2>3. CASE ~SerialNext /\ ~CreateTask
    <3>1. Running' \subseteq Running BY <1>2, <2>3, RunningStep, Zenon
    <3>2. CASE UNCHANGED mainVars
      BY <3>1, <3>2, Zenon DEF mainVars, PlaceInv
    <3>3. CASE AllCreated
      <4>1. Running \subseteq Int BY <1>0 DEF Running, Idx
      <4> QED BY <3>1, <3>3, <4>1 DEF AllCreated, PlaceInv, TypeCtl, LoopInv
    <3>4. CASE Waited \/ SerialReturned
      <4>1. Running = {}
        BY <3>4, RunningFinite, FS_EmptySet, Zenon DEF Waited, SerialReturned, WaitGroupCounts, PlaceInv
      <4> QED BY <3>1, <4>1, Zenon DEF PlaceInv
    <3>5. CASE pc \notin {"work", "create", "wait"}
      <4>1. Running = {} BY <3>5, Zenon DEF PlaceInv
      <4> QED BY <3>1, <4>1, Zenon DEF PlaceInv
    <3> QED
      BY <1>2, <2>3, <3>2, <3>3, <3>4, <3>5, Zenon
      DEF Actions, BeginCheck, BeginAll, Operator, Dispatch, NextBatch, Finish, SerialEnd, MkdirFails,
          Mkdir, Notify, Merge, SignalStop, RemoveAll, Connected, ConnectFails, Output, SessionEnds,
          taskFrame, Interrupt, HandlerReceive, HandlerUnlink, HandlerRmdir, HandlerExit
  <2> QED BY <2>1, <2>2, <2>3, Zenon
<1> QED BY StepCases, <1>1, <1>2, Zenon

-----------------------------------------------------------------------------
(* The invariant holds when main begins to run: nothing is handed out yet. *)
LEMMA InitInv == Init => IInv
<1> SUFFICES ASSUME Init PROVE IInv BY Zenon
<1> USE DEF Init
<1>0. N \in Nat BY HostList, Zenon
<1>1. dir \in DirNames BY ConstantsAssumption, Zenon
<1>2. TypeCtl BY <1>0, ConstantsAssumption DEF TypeCtl, Labels
<1>3. TypeTask BY DEF TypeTask, TaskStates
<1>4. TypeFile BY <1>1 DEF TypeFile
<1>5. TypeSig BY <1>1, Zenon DEF TypeSig, HandlerStates
<1>6. LoopInv BY <1>0 DEF LoopInv, SerialPcs, BatchPcs
<1>7. FrontInv BY <1>0 DEF FrontInv, Front, Idx
<1>8. Running = {} BY Zenon DEF Running
<1>9. PlaceInv /\ WaitGroupCounts BY <1>8, FS_EmptySet, Zenon DEF PlaceInv, WaitGroupCounts
<1> QED BY <1>2, <1>3, <1>4, <1>5, <1>6, <1>7, <1>9, Zenon DEF IInv, TypeOK

(* IInv is inductive.                                                      *)
THEOREM Inductive == Spec => []IInv
<1>1. IInv /\ [Next]_vars => IInv'
  BY CtlStep, TaskTypeStep, FileTypeStep, SigTypeStep, FrontStep, PlaceStep, WaitGroupStep, Zenon
  DEF IInv, TypeOK
<1> QED BY InitInv, <1>1, PTL DEF Spec

(* For every host list, mix of options and order of events, the variables  *)
(* of main, SerialRun and ParallelRun keep their types: no slice leaves    *)
(* the host list.                                                          *)
THEOREM TypeCorrect == Spec => []TypeOK
<1>1. IInv => TypeOK BY Zenon DEF IInv
<1> QED BY Inductive, <1>1, PTL

(* The WaitGroup always holds the number of tasks that are not over, so it *)
(* never goes below zero and wg.Wait never returns early.                  *)
THEOREM WaitGroupCorrect == Spec => []WaitGroupCounts
<1>1. IInv => WaitGroupCounts BY Zenon DEF IInv
<1> QED BY Inductive, <1>1, PTL

(* A batch has at most ParallelDegree tasks: they lie in start .. end - 1. *)
LEMMA AtMostDegree == IInv => DegreeRespected
<1> SUFFICES ASSUME IInv PROVE DegreeRespected BY Zenon
<1> USE DEF IInv, TypeOK
<1>0. N \in Nat /\ Running \subseteq Idx /\ IsFiniteSet(Running)
  BY HostList, RunningFinite, Zenon DEF TypeCtl
<1>1. CASE pc \in BatchPcs
  <2>1. /\ start \in Nat /\ end \in Nat /\ ParallelDegree \in Int /\ host_offset \in Nat
        /\ end - start <= ParallelDegree /\ start < end
    BY <1>0, <1>1 DEF TypeCtl, LoopInv, BatchEnd
  <2>2. pc = "create" => cur <= end /\ cur \in Nat BY Zenon DEF LoopInv, TypeCtl
  <2>3. Running \subseteq start .. (end - 1)
    BY <1>0, <1>1, <2>1, <2>2 DEF PlaceInv, Idx, BatchPcs
  <2>4. Cardinality(Running) <= Cardinality(start .. (end - 1))
    <3>1. start \in Int /\ end - 1 \in Int BY <2>1
    <3>2. IsFiniteSet(start .. (end - 1)) BY <3>1, FS_Interval, Zenon
    <3>3. Running \in SUBSET (start .. (end - 1)) BY <2>3, Zenon
    <3> QED BY <3>2, <3>3, FS_Subset, Zenon
  <2>5. Cardinality(start .. (end - 1)) = end - start
    BY <2>1, FS_Interval
  <2>6. Cardinality(Running) \in Nat BY <1>0, FS_CardinalityType, Zenon
  <2> QED BY <1>1, <2>1, <2>4, <2>5, <2>6 DEF DegreeRespected
<1>2. CASE pc \notin BatchPcs
  <2>1. Running \subseteq {cur} BY <1>2, Zenon DEF PlaceInv, BatchPcs
  <2>2. IsFiniteSet({cur}) /\ Cardinality({cur}) = 1 BY FS_Singleton, Zenon
  <2>3. Running \in SUBSET {cur} BY <2>1, Zenon
  <2>4. Cardinality(Running) <= Cardinality({cur}) BY <2>2, <2>3, FS_Subset, Zenon
  <2> QED BY <1>2, <2>2, <2>4, Zenon DEF DegreeRespected
<1> QED BY <1>1, <1>2, Zenon

(* --parallel-degree is respected: never more tasks at a time than it      *)
(* allows, and never a task of one batch beside one of another.            *)
THEOREM DegreeCorrect == Spec => []DegreeRespected
  BY Inductive, AtMostDegree, PTL

(* At "finish" every host lies before Front and no task runs.              *)
LEMMA OnceEach == IInv => ExactlyOnce
<1> SUFFICES ASSUME IInv PROVE ExactlyOnce BY Zenon
<1> USE DEF IInv, TypeOK
<1>0. N \in Nat BY HostList, Zenon DEF TypeCtl
<1>1. \A i \in Idx : execs[i] <= 1 BY DEF FrontInv
<1>2. ASSUME proc = "finished", NEW i \in Idx \ skipped
      PROVE  execs[i] = 1 /\ task[i] \in {"failed", "done"}
  <2>1. pc = "finish" BY <1>2, Zenon DEF LoopInv
  <2>2. i < Front BY <1>0, <2>1 DEF Front, Idx
  <2>3. execs[i] = 1 /\ task[i] # "idle" BY <1>2, <2>2, Zenon DEF FrontInv
  <2>4. i \notin Running BY <2>1, Zenon DEF PlaceInv
  <2> QED BY <2>3, <2>4, Zenon DEF TypeTask, TaskStates, Running
<1> QED BY <1>1, <1>2, Zenon DEF ExactlyOnce

(* No host is worked on twice, and "Finished!" is reported only when every *)
(* host that was not dropped with its batch has been worked on to the end. *)
THEOREM ExactlyOnceCorrect == Spec => []ExactlyOnce
  BY Inductive, OnceEach, PTL

-----------------------------------------------------------------------------
(* A tmp directory exists only from Mkdir to RemoveAll, and it is dir.     *)
DirInv ==
  /\ dirs \subseteq {dir}
  /\ pc \notin {"notify", "create", "wait", "merge", "remove"} => dirs = {}

(* Mkdir makes the only directory, RemoveAll of the deferred function      *)
(* removes it, and the signal goroutines can only take one away.           *)
LEMMA DirStep ==
  ASSUME DirInv, [Next]_vars
  PROVE  DirInv'
<1> USE DEF DirInv
<1>1. CASE Mkdir BY <1>1, Zenon DEF Mkdir
<1>2. CASE RemoveAll BY <1>2, Zenon DEF RemoveAll
<1>3. CASE \E f \in Idx : HandlerRmdir(f)
  BY <1>3, Zenon DEF HandlerRmdir, mainVars
<1>4. CASE \/ UNCHANGED vars \/ Finish \/ Interrupt
           \/ \E i \in Idx : Connected(i) \/ ConnectFails(i) \/ Output(i) \/ SessionEnds(i)
           \/ \E f \in Idx : HandlerReceive(f) \/ HandlerUnlink(f) \/ HandlerExit(f)
  <2>1. UNCHANGED <<pc, dir, dirs>>
    BY <1>4, Zenon DEF vars, Finish, Interrupt, Connected, ConnectFails, Output, SessionEnds, taskFrame,
                HandlerReceive, HandlerUnlink, HandlerExit, mainVars, fileVars
  <2> QED BY <2>1, Zenon
<1>5. CASE \/ BeginCheck \/ BeginAll \/ Operator \/ Dispatch \/ NextBatch
           \/ SerialNext \/ SerialReturned \/ SerialEnd \/ MkdirFails
  BY <1>5, Zenon DEF BeginCheck, BeginAll, Operator, Dispatch, NextBatch, Enter, SerialNext, SerialReturned,
              SerialEnd, MkdirFails, fileVars
<1>6. CASE Notify \/ CreateTask \/ AllCreated \/ Waited \/ Merge \/ SignalStop
  BY <1>6, Zenon DEF Notify, CreateTask, AllCreated, Waited, Merge, SignalStop, fileVars
<1> QED BY StepCases, <1>1, <1>2, <1>3, <1>4, <1>5, <1>6, Zenon DEF Actions

(* Between two batches, and when "Finished!" is reported, the tmp          *)
(* directory ParallelRun made is gone, whatever signals came and whether   *)
(* or not a goroutine was removing it at the same time.                    *)
THEOREM TmpDirsCorrect == Spec => []TmpDirsRemoved
<1>1. Init => DirInv BY Zenon DEF Init, DirInv
<1>2. DirInv /\ [Next]_vars => DirInv' BY DirStep, Zenon
<1>3. IInv /\ DirInv => TmpDirsRemoved
  BY Zenon DEF IInv, LoopInv, DirInv, TmpDirsRemoved, BatchPcs
<1> QED BY <1>1, <1>2, <1>3, Inductive, PTL DEF Spec

-----------------------------------------------------------------------------
(* BlocksIntact holds of every run of sesh on a list of different hosts:   *)
(* the output of a host is never torn apart, by whatever interleaving of   *)
(* the tasks of a batch, the main goroutine and the signal goroutines.     *)
THEOREM BlocksCorrect == ASSUME NoDuplicates PROVE Spec => []BlocksIntact
<1> DEFINE Inv == FileInv /\ LastInv /\ Blocks(shown)
<1>1. Init => Inv BY OutputInit, Zenon
<1>2. IInv /\ Inv /\ [Next]_vars => Inv' BY NoneRunning, FileStep, ShownStep, Zenon
<1>3. Inv => BlocksIntact BY Zenon DEF Blocks, BlocksIntact
<1> HIDE DEF Inv
<1> QED BY <1>1, <1>2, <1>3, Inductive, PTL DEF Spec

(* While tasks are created, at most the files of the hosts before cur are  *)
(* open, so that there is room for two more.                               *)
LEMMA RoomForFiles ==
  ASSUME EnoughFiles, IInv, FileInv
  PROVE  RoomForTwo
<1> SUFFICES ASSUME pc = "create", cur \in Idx PROVE OpenFiles \in Nat /\ OpenFiles + 1 < FdLimit
  BY Zenon DEF RoomForTwo
<1> USE DEF IInv, TypeOK
<1> DEFINE Open == {p \in Idx \X Kinds : fd[p[1]][p[2]] # None}
           Room == (0 .. cur - 1) \X Kinds
<1>0. N \in Nat /\ cur \in Nat /\ cur < N /\ 2 * N <= FdLimit /\ FdLimit \in Nat
  BY HostList, ConstantsAssumption DEF TypeCtl, Idx, EnoughFiles, N
<1>1. Front = cur BY Zenon DEF Front
<1>2. ASSUME NEW p \in Open PROVE p \in Room
  <2>1. p[1] \in Idx /\ p[2] \in Kinds /\ p = <<p[1], p[2]>> /\ fd[p[1]][p[2]] # None OBVIOUS
  <2>2. task[p[1]] # "idle" BY <2>1, Zenon DEF FileInv, TaskFiles
  <2>3. p[1] < cur BY <1>1, <2>1, <2>2, Zenon DEF FrontInv
  <2>4. p[1] \in 0 .. cur - 1 BY <1>0, <2>1, <2>3 DEF Idx
  <2> QED BY <2>1, <2>4, Zenon
<1>3. IsFiniteSet(0 .. cur - 1) /\ Cardinality(0 .. cur - 1) = cur
  <2>1. 0 \in Int /\ cur - 1 \in Int BY <1>0
  <2>2. IsFiniteSet(0 .. cur - 1)
        /\ Cardinality(0 .. cur - 1) = IF 0 > cur - 1 THEN 0 ELSE (cur - 1) - 0 + 1
    BY <2>1, FS_Interval, Zenon
  <2> QED BY <1>0, <2>2
<1>4. IsFiniteSet(Kinds) /\ Cardinality(Kinds) = 2
  <2>1. IsFiniteSet({"err"}) /\ Cardinality({"err"}) = 1 BY FS_Singleton, Zenon
  <2>2. "out" \notin {"err"} /\ Kinds = {"err"} \cup {"out"} BY Zenon DEF Kinds
  <2> QED BY <2>1, <2>2, FS_AddElement
<1>5. IsFiniteSet(Room) /\ Cardinality(Room) = cur * 2
  <2>1. IsFiniteSet(Room) /\ Cardinality(Room) = Cardinality(0 .. cur - 1) * Cardinality(Kinds)
    BY <1>3, <1>4, FS_Product, Zenon
  <2> QED BY <1>3, <1>4, <2>1, Zenon
<1>6. Open \in SUBSET Room BY <1>2, Zenon
<1> HIDE DEF Open, Room
<1>7. IsFiniteSet(Open) /\ Cardinality(Open) <= Cardinality(Room) BY <1>5, <1>6, FS_Subset, Zenon
<1>8. Cardinality(Open) \in Nat BY <1>7, FS_CardinalityType, Zenon
<1>9. OpenFiles = Cardinality(Open) BY Zenon DEF OpenFiles, Open
<1> QED BY <1>0, <1>5, <1>7, <1>8, <1>9

(* NothingLost holds of every run of sesh on a list of different hosts, as *)
(* long as the process may open two files for each: when "Finished!" is    *)
(* reported and no interrupt is being served, every line of every host and *)
(* every connection error has been shown.                                  *)
THEOREM NothingLostCorrect == ASSUME NoDuplicates, EnoughFiles PROVE Spec => []NothingLost
<1> DEFINE Inv == FileInv /\ HandlerInv /\ KeepInv
<1>1. Init => Inv
  <2>1. Init => FileInv BY OutputInit, Zenon
  <2>2. Init => HandlerInv BY DEF Init, HandlerInv
  <2>3. Init => KeepInv
    <3> SUFFICES ASSUME Init, NEW i \in Idx PROVE ~Pending(i) /\ Told(i)
      BY Zenon DEF KeepInv, AllKept, KeptOrTold, Init
    <3> QED BY DEF Init, Pending, Told
  <2> QED BY <2>1, <2>2, <2>3, Zenon
<1>2. IInv /\ Inv /\ [Next]_vars => Inv' BY NoneRunning, FileStep, HandlerInvStep, RoomForFiles, KeepStep, Zenon
<1>3. IInv /\ Inv => NothingLost
  <2> SUFFICES ASSUME IInv, Inv, proc = "finished", Quiet, NEW i \in Idx PROVE Told(i)
    BY Zenon DEF NothingLost, Quiet, Told
  <2>1. pc = "finish" BY Zenon DEF IInv, LoopInv
  <2> QED BY <2>1, Zenon DEF KeepInv, AllKept, KeptOrTold, Pending
<1> HIDE DEF Inv
<1> QED BY <1>1, <1>2, <1>3, Inductive, PTL DEF Spec

=============================================================================
