------------------------- MODULE BatchRunRefinement -------------------------
(***************************************************************************)
(* BatchRun implements HostQueue, for every host list, degree and number   *)
(* of lines.  The invariant IInv of BatchRunProofs gives the mapping its   *)
(* meaning: what has been started or dropped is exactly 0 .. Front - 1.    *)
(***************************************************************************)
EXTENDS BatchRunProofs

Dealt == {i \in Idx : execs[i] > 0} \cup skipped
Over == {i \in Idx : task[i] \in {"failed", "done"}}
Outcome == IF proc \in {"running", "finished"} THEN proc ELSE "aborted"

(* The abstract "next" is the position of the main goroutine in the list.  *)
LEMMA NextIsFront == IInv => Cardinality(Dealt) = Front /\ Front \in 0 .. N
<1> SUFFICES ASSUME IInv PROVE Cardinality(Dealt) = Front /\ Front \in 0 .. N BY Zenon
<1> USE DEF IInv, TypeOK
<1>0. N \in Nat BY HostList, Zenon DEF TypeCtl
<1>1. Front \in 0 .. N
  BY <1>0 DEF Front, LoopInv, TypeCtl, Labels, SerialPcs, BatchPcs, BatchEnd
<1>2. Dealt = 0 .. (Front - 1)
  <2>1. \A i \in Idx : i \in Dealt <=> i < Front
    BY <1>0, <1>1 DEF Dealt, FrontInv, TypeTask, Idx
  <2>2. Dealt \subseteq Idx BY Zenon DEF Dealt, TypeCtl
  <2>3. \A i : i \in 0 .. (Front - 1) <=> i \in Idx /\ i < Front BY <1>0, <1>1 DEF Idx
  <2> QED BY <2>1, <2>2, <2>3, Zenon
<1>3. 0 \in Int /\ Front - 1 \in Int BY <1>1
<1>4. Cardinality(0 .. (Front - 1)) = IF 0 > Front - 1 THEN 0 ELSE Front - 1 - 0 + 1
  BY <1>3, FS_Interval, Zenon
<1> QED BY <1>1, <1>2, <1>4

(* The limit is fixed for the whole run: clamping twice changes nothing.   *)
LEMMA LimitFixed ==
  ASSUME IInv, [Next]_vars
  PROVE  Limit \in Nat \ {0} /\ Limit' = Limit
<1> USE DEF IInv, TypeOK, TypeCtl, Limit, ClampDegree
<1>0. N \in Nat /\ UNCHANGED <<host_arr, Pause, Parallel>> /\ N' = N
  BY HostList, InputFixed, Zenon DEF N
<1>1. Limit \in Nat \ {0} BY <1>0
<1>2. CASE Dispatch /\ Parallel
  <2>1. N - host_offset = N - (IF Pause THEN 1 ELSE 0) /\ host_offset <= N
    BY <1>2, Zenon DEF Dispatch, LoopInv
  <2> DEFINE left == N - (IF Pause THEN 1 ELSE 0)
  <2>2. left \in Nat /\ left' = left BY <1>0, <2>1
  <2>3. ParallelDegree' = ClampDegree(ParallelDegree, left) BY <1>2, <2>1, Zenon DEF Dispatch
  <2>4. ClampDegree(ParallelDegree', left) = ParallelDegree' BY <2>2, <2>3, Zenon
  <2>5. Limit = IF ParallelDegree' < 1 THEN 1 ELSE ParallelDegree' BY <1>2, <2>3, Zenon
  <2>6. Limit' = IF ParallelDegree' < 1 THEN 1 ELSE ParallelDegree' BY <1>0, <1>2, <2>2, <2>4, Zenon
  <2> QED BY <1>1, <2>5, <2>6, Zenon
<1>3. CASE ParallelDegree' = ParallelDegree
  BY <1>0, <1>3
<1> QED
  BY StepCases, <1>1, <1>2, <1>3, Zenon
  DEF Actions, vars, mainVars, BeginCheck, BeginAll, Operator, Dispatch, NextBatch, Finish, SerialNext,
      SerialReturned, SerialEnd, MkdirFails, Mkdir, Notify, CreateTask, AllCreated, Waited, Merge,
      SignalStop, RemoveAll, Connected, ConnectFails, Output, SessionEnds, taskFrame, Interrupt,
      HandlerReceive, HandlerUnlink, HandlerRmdir, HandlerExit

(* Inside a batch the limit is the clamped degree.                         *)
LEMMA LimitIsDegree ==
  ASSUME IInv, pc \in BatchPcs
  PROVE  Limit = ParallelDegree
<1>0. N \in Nat BY HostList, Zenon DEF IInv, TypeOK, TypeCtl
<1> QED BY <1>0 DEF IInv, TypeOK, TypeCtl, LoopInv, Left, Limit, ClampDegree, BatchPcs

(* A step that starts a task is a Launch.                                  *)
LEMMA LaunchStep ==
  ASSUME IInv, IInv', proc = "running", Next, SerialNext \/ CreateTask
  PROVE  Queue!Launch
<1> USE DEF IInv, TypeOK
<1>0. N \in Nat /\ N' = N /\ Idx' = Idx /\ Limit' = Limit /\ Limit \in Nat \ {0}
  BY HostList, InputFixed, LimitFixed, Zenon DEF N, Idx, TypeCtl
<1>1. cur \in Idx /\ Front = cur /\ Front' = cur + 1 /\ cur \in Nat
  BY <1>0 DEF SerialNext, CreateTask, TypeCtl, Idx, Front
<1>2. Actions BY Zenon DEF Actions
<1>3. NewTask(cur) /\ proc' = proc BY Zenon DEF SerialNext, CreateTask
<1>4. task[cur] = "idle" BY <1>0, <1>1 DEF FrontInv, Idx
<1>5. Running' = Running \cup {cur}
  BY <1>0, <1>1, <1>3, Zenon DEF NewTask, Running, TypeTask
<1>6. Over' = Over
  BY <1>0, <1>1, <1>3, <1>4, Zenon DEF NewTask, Over, TypeTask
<1>7. \A i \in Running : cur - i < Limit
  <2>1. CASE SerialNext
    BY <2>1, Zenon DEF SerialNext, PlaceInv
  <2>2. CASE CreateTask
    <3>1. pc = "create" /\ cur < end BY <2>2, Zenon DEF CreateTask
    <3>2. /\ start \in Nat /\ end \in Nat /\ ParallelDegree \in Int /\ host_offset \in Nat
          /\ end - start <= ParallelDegree
      BY <1>0, <3>1 DEF TypeCtl, LoopInv, BatchPcs, BatchEnd
    <3>3. \A i \in Running : i \in Int /\ start <= i
      BY <1>0, <3>1 DEF PlaceInv, Running, Idx
    <3>4. Limit = ParallelDegree BY <3>1, LimitIsDegree, Zenon DEF BatchPcs
    <3> QED BY <1>1, <3>1, <3>2, <3>3, <3>4
  <2> QED BY <2>1, <2>2, Zenon
<1>8. IInv' => (Cardinality(Dealt) = Front)' BY NextIsFront, PTL
<1>9. Cardinality(Dealt) = cur /\ Cardinality(Dealt)' = cur + 1
  BY <1>1, <1>8, NextIsFront, Zenon
<1>10. Outcome' = Outcome BY <1>3, Zenon DEF Outcome
<1>11. cur < N BY <1>0, <1>1 DEF Idx
<1> QED
  BY <1>0, <1>5, <1>6, <1>7, <1>9, <1>10, <1>11, Zenon DEF Queue!Launch, Dealt, Over, Outcome

(* A batch without a tmp directory is a Drop.                              *)
LEMMA DropStep ==
  ASSUME IInv, IInv', proc = "running", Next, MkdirFails
  PROVE  \E k \in 1 .. Limit : Queue!Drop(k)
<1> USE DEF IInv, TypeOK
<1>0. N \in Nat /\ N' = N /\ Idx' = Idx /\ Limit' = Limit /\ Limit \in Nat \ {0}
  BY HostList, InputFixed, LimitFixed, Zenon DEF N, Idx, TypeCtl
<1>1. pc = "mkdir" /\ proc' = proc /\ task' = task BY Zenon DEF MkdirFails, taskVars
<1>2. Running = {} /\ Running' = {} /\ Over' = Over
  BY <1>0, <1>1, Zenon DEF PlaceInv, Running, Over
<1>3. /\ Front = start /\ Front' = end /\ start \in Nat /\ end \in 0 .. N
      /\ end - start \in 1 .. ParallelDegree
  BY <1>0, <1>1 DEF MkdirFails, TypeCtl, LoopInv, BatchPcs, BatchEnd, Front
<1>4. Limit = ParallelDegree BY <1>1, LimitIsDegree, Zenon DEF BatchPcs
<1>5. IInv' => (Cardinality(Dealt) = Front)' BY NextIsFront, PTL
<1>6. Cardinality(Dealt) = start /\ Cardinality(Dealt)' = end
  BY <1>3, <1>5, NextIsFront, Zenon
<1>7. Outcome' = Outcome BY <1>1, Zenon DEF Outcome
<1>8. Queue!Drop(end - start)
  BY <1>0, <1>2, <1>3, <1>6, <1>7 DEF Queue!Drop, Dealt, Over, Outcome
<1> QED BY <1>3, <1>4, <1>8, Zenon

(* Steps that neither start a task nor drop a batch leave "next" alone.    *)
LEMMA NextFixed ==
  ASSUME IInv, IInv', proc = "running", Actions, ~SerialNext, ~CreateTask, ~MkdirFails
  PROVE  Cardinality(Dealt)' = Cardinality(Dealt)
<1>1. Front' = Front BY FrontFixed, Zenon DEF IInv, TypeOK
<1>2. IInv' => (Cardinality(Dealt) = Front)' BY NextIsFront, PTL
<1> QED BY <1>1, <1>2, NextIsFront, Zenon

(* A task that ends is a Complete.                                         *)
LEMMA CompleteStep ==
  ASSUME IInv, IInv', proc = "running", Next, Actions, NEW i \in Idx, ConnectFails(i) \/ SessionEnds(i)
  PROVE  i \in Running /\ Queue!Complete(i)
<1> USE DEF IInv, TypeOK
<1>0. N \in Nat /\ N' = N /\ Idx' = Idx /\ Limit' = Limit
  BY HostList, InputFixed, LimitFixed, Zenon DEF N, Idx, TypeCtl
<1>1. proc' = proc /\ wg' = wg - 1
  BY Zenon DEF ConnectFails, SessionEnds, taskFrame
<1>2. i \in Running /\ Running' = Running \ {i}
  BY <1>0, Zenon DEF ConnectFails, SessionEnds, Running, TypeTask
<1>3. Over' = Over \cup {i}
  BY <1>0, Zenon DEF ConnectFails, SessionEnds, Over, TypeTask
<1>4. wg \in Int BY Zenon DEF TypeTask
<1>5. ~SerialNext /\ ~CreateTask /\ ~MkdirFails
  <2>1. SerialNext \/ CreateTask => wg' = wg + 1 BY Zenon DEF SerialNext, CreateTask, NewTask
  <2>2. MkdirFails => wg' = wg BY Zenon DEF MkdirFails, taskVars
  <2> QED BY <1>1, <1>4, <2>1, <2>2
<1>6. Cardinality(Dealt)' = Cardinality(Dealt) BY <1>5, NextFixed, Zenon
<1>7. Outcome' = Outcome BY <1>1, Zenon DEF Outcome
<1> QED BY <1>0, <1>2, <1>3, <1>6, <1>7, Zenon DEF Queue!Complete, Dealt, Over, Outcome

(* Every other step ends the run or changes nothing the queue shows.       *)
LEMMA OtherStep ==
  ASSUME IInv, IInv', proc = "running", Next, Actions, ~SerialNext, ~CreateTask, ~MkdirFails,
         \A i \in Idx : ~ConnectFails(i) /\ ~SessionEnds(i)
  PROVE  Queue!Finish \/ Queue!Abort \/ UNCHANGED Queue!queueVars
<1> USE DEF IInv, TypeOK
<1>0. N \in Nat /\ N' = N /\ Idx' = Idx /\ Limit' = Limit
  BY HostList, InputFixed, LimitFixed, Zenon DEF N, Idx, TypeCtl
<1>1. Running' = Running
  BY RunningStep, Zenon DEF Running
<1>2. Over' = Over
  <2>1. CASE \E i \in Idx : Connected(i) \/ Output(i)
    BY <1>0, <2>1, Zenon DEF Connected, Output, Over, TypeTask
  <2>2. CASE UNCHANGED taskVars BY <1>0, <2>2, Zenon DEF taskVars, Over
  <2> QED
    BY <2>1, <2>2, Zenon
    DEF Actions, BeginCheck, BeginAll, Operator, Dispatch, NextBatch, Finish, SerialReturned, SerialEnd,
        Mkdir, Notify, AllCreated, Waited, Merge, SignalStop, RemoveAll, Interrupt, HandlerReceive,
        HandlerUnlink, HandlerRmdir, HandlerExit
<1>3. Cardinality(Dealt)' = Cardinality(Dealt) BY NextFixed, Zenon
<1>4. CASE proc' = proc
  <2>1. Outcome' = Outcome BY <1>4, Zenon DEF Outcome
  <2> QED BY <1>0, <1>1, <1>2, <1>3, <2>1, Zenon DEF Queue!queueVars, Dealt, Over, Outcome
<1>5. CASE proc' = "finished" /\ pc = "finish"
  <2>1. Outcome' = "finished" BY <1>5, Zenon DEF Outcome
  <2>2. Running = {} BY <1>5, Zenon DEF PlaceInv
  <2>3. Cardinality(Dealt) = N BY <1>5, NextIsFront, Zenon DEF Front
  <2> QED BY <1>0, <1>1, <1>2, <1>3, <2>1, <2>2, <2>3, Zenon DEF Queue!Finish, Dealt, Over, Outcome
<1>6. CASE proc' \in {"panic", "interrupted"}
  <2>1. Outcome' = "aborted" BY <1>6, Zenon DEF Outcome
  <2> QED BY <1>0, <1>1, <1>2, <1>3, <2>1, Zenon DEF Queue!Abort, Dealt, Over, Outcome
<1> QED
  BY <1>4, <1>5, <1>6, Zenon
  DEF Actions, BeginCheck, BeginAll, Operator, Dispatch, NextBatch, Finish, SerialReturned, SerialEnd,
      Mkdir, Notify, AllCreated, Waited, Merge, SignalStop, RemoveAll, Connected, Output, taskFrame,
      Interrupt, HandlerReceive, HandlerUnlink, HandlerRmdir, HandlerExit

(* The engine begins as an empty queue: no host started, dropped or over.  *)
LEMMA QueueInit == Init => Queue!Init
<1> SUFFICES ASSUME Init PROVE Queue!Init BY Zenon
<1>1. IInv BY InitInv, Zenon
<1>2. N \in Nat BY HostList, Zenon DEF Init
<1>3. Limit \in Nat \ {0}
  BY <1>1, <1>2 DEF IInv, TypeOK, TypeCtl, Limit, ClampDegree
<1>4. Cardinality(Dealt) = 0 BY <1>1, NextIsFront, Zenon DEF Init, Front
<1>5. Running = {} /\ Over = {} BY Zenon DEF Init, Running, Over
<1> QED BY <1>2, <1>3, <1>4, <1>5, Zenon DEF Init, Queue!Init, Dealt, Over

(* The engine implements HostQueue: for every host list, mix of options    *)
(* and order of answers, failures and interrupts, hosts are started in     *)
(* list order, each once, within a window of the degree the user asked     *)
(* for, and "Finished!" comes last.                                        *)
THEOREM Implements == Spec => ImplementsHostQueue
<1>1. ASSUME IInv, IInv', [Next]_vars
      PROVE  [Queue!Next]_(Queue!queueVars)
  <2>1. CASE UNCHANGED vars
    BY <2>1, Zenon DEF vars, input, mainVars, taskVars, Queue!queueVars, N, Idx, Limit, Running
  <2>2. CASE proc = "running" /\ Actions
    <3>1. Next BY <2>2, Zenon DEF Next, Step, MainStep, TaskStep, HandlerStep, Actions
    <3>2. CASE SerialNext \/ CreateTask
      BY <1>1, <2>2, <3>1, <3>2, LaunchStep, Zenon DEF Queue!Next
    <3>3. CASE MkdirFails
      BY <1>1, <2>2, <3>1, <3>3, DropStep, Zenon DEF Queue!Next
    <3>4. CASE \E i \in Idx : ConnectFails(i) \/ SessionEnds(i)
      BY <1>1, <2>2, <3>1, <3>4, CompleteStep, Zenon DEF Queue!Next
    <3>5. CASE /\ ~SerialNext /\ ~CreateTask /\ ~MkdirFails
               /\ \A i \in Idx : ~ConnectFails(i) /\ ~SessionEnds(i)
      BY <1>1, <2>2, <3>1, <3>5, OtherStep, Zenon DEF Queue!Next
    <3> QED BY <3>2, <3>3, <3>4, <3>5, Zenon
  <2> QED BY <1>1, <2>1, <2>2, StepCases, Zenon
<1> QED BY QueueInit, Inductive, <1>1, PTL DEF Spec, ImplementsHostQueue, Queue!Spec

=============================================================================
