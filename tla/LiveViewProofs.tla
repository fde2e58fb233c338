--------------------------- MODULE LiveViewProofs ---------------------------
(***************************************************************************)
(* Proofs about LiveView, for every number and every size of batches and   *)
(* every capacity of the event channels.                                   *)
(***************************************************************************)
EXTENDS LiveView, TLAPS

(* Nothing of a batch exists before its dircat.Init is over.               *)
NotYet(b) == b > batch \/ (b = batch /\ pc \in {"files", "offset", "init"})

(* What Stop relies on, batch by batch: the flusher only goes by message,  *)
(* so until the first message it takes one; after the first message at     *)
(* most one of the two goroutines is left, or the message is still there   *)
(* and the flusher, too.                                                   *)
StopInv(b) ==
  /\ NotYet(b) => view[b] = "none" /\ flusher[b] = "none" /\ messages[b] = 0
  /\ view[b] \in {"none", "boot"} <=> flusher[b] = "none"
  /\ b = batch /\ pc \in {"tasks", "stop1"} =>
       messages[b] = 0 /\ view[b] # "none" /\ flusher[b] # "done"
  /\ b = batch /\ pc = "stop2" =>
       /\ view[b] # "none"
       /\ messages[b] = 0 => Takers(b) <= 1
       /\ messages[b] = 1 => view[b] = "boot" \/ flusher[b] = "loop"
  /\ Stopped(b) => Takers(b) <= messages[b]

MainInv ==
  /\ pc # "files" => batch \in Batches
  /\ files = 0 => batch = 1 /\ pc = "files"

IInv == TypeOK /\ MainInv /\ \A b \in Batches : StopInv(b)

(* The invariant holds before the first batch.                             *)
LEMMA InitInv == Init => IInv
<1> SUFFICES ASSUME Init PROVE IInv OBVIOUS
<1> USE LiveViewAssumption DEF Init
<1>1. Len(Sizes) \in Nat OBVIOUS
<1>2. TypeOK BY <1>1 DEF TypeOK, Batches, MessageCap
<1>3. MainInv BY DEF MainInv
<1>4. \A b \in Batches : StopInv(b)
  BY <1>1 DEF StopInv, NotYet, Stopped, Takers, Batches
<1> QED BY <1>2, <1>3, <1>4 DEF IInv

(* Every step keeps the types.                                             *)
LEMMA TypeStep ==
  ASSUME IInv, Step
  PROVE  TypeOK'
<1> USE LiveViewAssumption DEF IInv, TypeOK, MainInv, MessageCap, mainVars, goVars
<1>0. Len(Sizes) \in Nat /\ Batches = 1 .. Len(Sizes) BY DEF Batches
<1>1. CASE SetFiles
  <2>1. files' \in Nat BY <1>1 DEF SetFiles, Batches
  <2> QED BY <1>1, <2>1 DEF SetFiles
<1>2. CASE ResetOffset BY <1>2 DEF ResetOffset
<1>3. CASE InitView
  <2>1. term' \in 0 .. Len(Sizes) BY <1>0, <1>3 DEF InitView
  <2> QED BY <1>3, <2>1 DEF InitView
<1>4. CASE InitFails BY <1>4 DEF InitFails
<1>5. CASE TasksOver BY <1>5 DEF TasksOver
<1>6. CASE Send
  <2>1. batch \in Batches /\ messages[batch] \in 0 .. 1 /\ messages[batch] < 1 BY <1>6 DEF Send
  <2>2. messages[batch] + 1 \in 0 .. 1 BY <2>1
  <2>3. messages' \in [Batches -> 0 .. 1] BY <1>6, <2>2 DEF Send
  <2> QED BY <1>6, <2>3 DEF Send
<1>7. CASE Merge BY <1>0, <1>7 DEF Merge
<1>8. ASSUME NEW b \in Batches, ViewStep(b) PROVE TypeOK'
  <2>1. CASE Boot(b) BY <2>1 DEF Boot
  <2>2. CASE FirstFlush(b) BY <2>2 DEF FirstFlush
  <2>3. CASE ViewMessage(b) BY <2>3 DEF ViewMessage
  <2>4. CASE ViewKey(b)
    <3>1. files \in Nat \ {0}
      <4>1. view[b] = "loop" BY <2>4 DEF ViewKey
      <4>2. StopInv(b) /\ MainInv /\ files \in Nat BY <1>8
      <4>3. b >= 1 BY <1>0
      <4>4. ~NotYet(b) BY <4>1, <4>2 DEF StopInv
      <4> QED BY <1>0, <4>2, <4>3, <4>4 DEF NotYet
    <3>2. file_offset' \in Nat
      <4>1. file_offset + 1 + files \in Nat /\ file_offset - 1 + files \in Nat BY <3>1
      <4> QED BY <2>4, <3>1, <4>1 DEF ViewKey
    <3>3. events' \in [Batches -> Seq({"up", "down", "ctrl-c"})] BY <2>4 DEF ViewKey
    <3>4. \A c \in Batches : Len(events'[c]) <= EventCap
      <4>1. events[b] \in Seq({"up", "down", "ctrl-c"}) /\ events[b] # <<>> BY <2>4 DEF ViewKey
      <4>2. Len(Tail(events[b])) = Len(events[b]) - 1 BY <4>1
      <4>3. Len(events[b]) \in Nat /\ Len(events[b]) <= EventCap BY <4>1
      <4>4. Len(Tail(events[b])) <= EventCap BY <4>2, <4>3
      <4> QED BY <2>4, <4>4 DEF ViewKey
    <3>5. view' \in [Batches -> {"none", "boot", "enter", "loop", "close", "done"}]
      BY <2>4 DEF ViewKey
    <3> QED BY <2>4, <3>2, <3>3, <3>4, <3>5 DEF ViewKey
  <2>5. CASE FlushFails(b) BY <2>5 DEF FlushFails
  <2>6. CASE Close(b)
    <3>1. term' \in 0 .. Len(Sizes) BY <1>0, <2>6 DEF Close
    <3>2. view' \in [Batches -> {"none", "boot", "enter", "loop", "close", "done"}]
      BY <2>6 DEF Close
    <3> QED BY <2>6, <3>1, <3>2 DEF Close
  <2> QED BY <1>8, <2>1, <2>2, <2>3, <2>4, <2>5, <2>6 DEF ViewStep
<1>9. ASSUME NEW b \in Batches, FlusherStep(b) PROVE TypeOK'
  <2>1. CASE Tick(b) BY <2>1 DEF Tick
  <2>2. CASE FlusherMessage(b) BY <2>2 DEF FlusherMessage
  <2> QED BY <1>9, <2>1, <2>2 DEF FlusherStep
<1>10. ASSUME NEW b \in Batches, Type(b) PROVE TypeOK' BY <1>10 DEF Type
<1> QED BY <1>1, <1>2, <1>3, <1>4, <1>5, <1>6, <1>7, <1>8, <1>9, <1>10 DEF Step, MainStep

(* Every step keeps what the main goroutine is about.                      *)
LEMMA MainInvStep ==
  ASSUME IInv, Step
  PROVE  MainInv'
<1> USE LiveViewAssumption DEF IInv, TypeOK, MainInv, mainVars, goVars
<1>0. Len(Sizes) \in Nat /\ Batches = 1 .. Len(Sizes) BY DEF Batches
<1>1. CASE MainStep \/ TasksOver
  <2>1. CASE SetFiles
    <3>1. Sizes[batch] # 0 BY <1>0, <2>1 DEF SetFiles
    <3> QED BY <2>1, <3>1 DEF SetFiles
  <2>2. CASE ResetOffset BY <2>2 DEF ResetOffset
  <2>3. CASE InitView \/ InitFails BY <2>3 DEF InitView, InitFails
  <2>4. CASE TasksOver \/ Send BY <2>4 DEF TasksOver, Send
  <2>5. CASE Merge BY <2>5 DEF Merge
  <2> QED BY <1>1, <2>1, <2>2, <2>3, <2>4, <2>5 DEF MainStep
<1>2. ASSUME NEW b \in Batches, ViewStep(b) \/ FlusherStep(b) \/ Type(b)
      PROVE  UNCHANGED <<batch, pc, files>>
  BY <1>2
  DEF ViewStep, FlusherStep, Boot, FirstFlush, ViewMessage, ViewKey, FlushFails, Close,
      Tick, FlusherMessage, Type
<1> QED BY <1>1, <1>2 DEF Step

(* Every step keeps what Stop relies on.                                   *)
LEMMA StopInvStep ==
  ASSUME IInv, Step, NEW c \in Batches
  PROVE  StopInv(c)'
<1> USE DEF IInv, TypeOK, MainInv, StopInv, NotYet, Stopped, Takers, MessageCap
<1>0. c \in Nat /\ batch \in Nat BY LiveViewAssumption DEF Batches
<1>1. CASE SetFiles \/ ResetOffset \/ TasksOver \/ InitFails
  BY <1>0, <1>1 DEF SetFiles, ResetOffset, TasksOver, InitFails, goVars, mainVars
<1>2. CASE InitView BY <1>0, <1>2 DEF InitView
<1>3. CASE Send BY <1>0, <1>3 DEF Send
<1>4. CASE Merge BY <1>0, <1>4 DEF Merge, goVars
<1>5. ASSUME NEW b \in Batches, ViewStep(b) PROVE StopInv(c)'
  <2> USE <1>0 DEF mainVars
  <2>1. CASE Boot(b) BY <2>1 DEF Boot
  <2>2. CASE FirstFlush(b) BY <2>2 DEF FirstFlush
  <2>3. CASE ViewMessage(b) BY <2>3 DEF ViewMessage
  <2>4. CASE ViewKey(b)
    <3>1. /\ view[b] = "loop" /\ UNCHANGED <<batch, pc, flusher, messages>>
          /\ view' = view \/ view' = [view EXCEPT ![b] = "close"]
      BY <2>4 DEF ViewKey
    <3>2. CASE view' = view BY <3>1, <3>2
    <3>3. CASE view' = [view EXCEPT ![b] = "close"] BY <3>1, <3>3
    <3> QED BY <3>1, <3>2, <3>3
  <2>5. CASE FlushFails(b) BY <2>5 DEF FlushFails
  <2>6. CASE Close(b) BY <2>6 DEF Close
  <2> QED BY <1>5, <2>1, <2>2, <2>3, <2>4, <2>5, <2>6 DEF ViewStep
<1>6. ASSUME NEW b \in Batches, FlusherStep(b) PROVE StopInv(c)'
  <2>1. CASE Tick(b) BY <2>1 DEF Tick, mainVars, goVars
  <2>2. CASE FlusherMessage(b) BY <1>0, <2>2 DEF FlusherMessage, mainVars
  <2> QED BY <1>6, <2>1, <2>2 DEF FlusherStep
<1>7. ASSUME NEW b \in Batches, Type(b) PROVE StopInv(c)' BY <1>7 DEF Type, mainVars
<1> QED BY <1>1, <1>2, <1>3, <1>4, <1>5, <1>6, <1>7 DEF Step, MainStep

(* IInv is inductive.                                                      *)
THEOREM Inductive == Spec => []IInv
<1>1. IInv /\ [Next]_vars => IInv'
  <2> SUFFICES ASSUME IInv, [Next]_vars PROVE IInv' OBVIOUS
  <2>1. CASE UNCHANGED vars
    BY <2>1
    DEF vars, mainVars, goVars, IInv, TypeOK, MainInv, StopInv, NotYet, Stopped, Takers
  <2>2. CASE Step
    BY <2>2, TypeStep, MainInvStep, StopInvStep DEF IInv, Batches
  <2> QED BY <2>1, <2>2 DEF Next
<1> QED BY InitInv, <1>1, PTL DEF Spec

(* The state of the views is typed, and no channel exceeds its capacity,   *)
(* however many batches there are.                                         *)
THEOREM TypeCorrect == Spec => []TypeOK
<1>1. IInv => TypeOK BY DEF IInv
<1> QED BY Inductive, <1>1, PTL

(* dc.Stop() addresses every goroutine of its view: when it has returned,  *)
(* there is a message for each one left, and it never waits on a full      *)
(* channel that nobody reads.                                              *)
THEOREM StopAddressesAll == Spec => []NoneForgotten
<1>1. IInv => NoneForgotten
  BY DEF IInv, TypeOK, StopInv, NoneForgotten, Takers, MessageCap
<1> QED BY Inductive, <1>1, PTL

=============================================================================
