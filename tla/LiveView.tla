------------------------------ MODULE LiveView ------------------------------
(***************************************************************************)
(* The life of the realtime view (dircat/dir_cat.go over gocui/gui.go)     *)
(* across the batches of a parallel run whose output is a terminal:        *)
(* ParallelRun makes a view per batch (dircat.Init, go dc.Start()) and     *)
(* ends it with two messages (dc.Stop()) once the tasks are over.          *)
(*                                                                         *)
(* Goroutines of batch b: Start with its MainLoop (view[b]), the one that  *)
(* redraws (flusher[b]) and the one that polls the keyboard, which nothing *)
(* ever ends.  The file list, the selection and the terminal are shared by *)
(* all of them.                                                            *)
(***************************************************************************)
EXTENDS Integers, Sequences

CONSTANTS
  Sizes,     \* Sizes[b]: hosts of batch b, that is files its view shows
  EventCap   \* capacity of the event channel of a view (20)

ASSUME LiveViewAssumption ==
  /\ Sizes \in Seq(Nat \ {0})
  /\ EventCap \in Nat

Batches == 1 .. Len(Sizes)
MessageCap == 1   \* capacity of UserMessage

VARIABLES
  batch, pc,           \* the main goroutine: current batch, place in ParallelRun
  view, flusher,       \* view[b], flusher[b]: the two goroutines that Stop addresses
  shown,               \* batches whose view "center" has been made by a layout
  messages,            \* messages[b]: messages in UserMessage of batch b
  events,              \* events[b]: keys the poller of batch b has taken from termbox
  files, file_offset,  \* length of the shared file list; the selected file
  term,                \* batch whose Init holds the terminal, 0: terminal restored
  proc                 \* "running", "finished" or "panic"

mainVars == <<batch, pc>>
goVars == <<view, flusher, shown, messages, events>>
vars == <<mainVars, goVars, files, file_offset, term, proc>>

Init ==
  /\ batch = 1 /\ pc = "files"
  /\ view = [b \in Batches |-> "none"]
  /\ flusher = [b \in Batches |-> "none"]
  /\ shown = {}
  /\ messages = [b \in Batches |-> 0]
  /\ events = [b \in Batches |-> <<>>]
  /\ files = 0 /\ file_offset = 0
  /\ term = 0
  /\ proc = "running"

-----------------------------------------------------------------------------
(* The main goroutine.                                                     *)

(* dircat.Init, one step per shared variable: a goroutine of the view      *)
(* before may run in between.                                              *)
SetFiles ==
  /\ pc = "files" /\ batch \in Batches
  /\ files' = Sizes[batch]
  /\ pc' = "offset"
  /\ UNCHANGED <<batch, goVars, file_offset, term, proc>>

ResetOffset ==
  /\ pc = "offset"
  /\ file_offset' = 0
  /\ pc' = "init"
  /\ UNCHANGED <<batch, goVars, files, term, proc>>

(* termbox.Init, the rest of dircat.Init and "go dc.Start()".              *)
InitView ==
  /\ pc = "init"
  /\ term' = batch
  /\ view' = [view EXCEPT ![batch] = "boot"]
  /\ pc' = "tasks"
  /\ UNCHANGED <<batch, flusher, shown, messages, events, files, file_offset, proc>>

(* termbox.Init fails: the error is dropped and Start runs on a nil view.  *)
InitFails ==
  /\ pc = "init"
  /\ proc' = "panic"
  /\ UNCHANGED <<mainVars, goVars, files, file_offset, term>>

(* wg.Wait() returns. *)
TasksOver ==
  /\ pc = "tasks"
  /\ pc' = "stop1"
  /\ UNCHANGED <<batch, goVars, files, file_offset, term, proc>>

\* mutant: Stop sends one message only
SendOnce ==
  /\ pc = "stop1"
  /\ messages[batch] < MessageCap
  /\ messages' = [messages EXCEPT ![batch] = @ + 1]
  /\ pc' = "merge"
  /\ UNCHANGED <<batch, view, flusher, shown, events, files, file_offset, term, proc>>

(* dc.Stop(): two sends, each of which waits for room in the channel.      *)
Send ==
  /\ pc \in {"stop1", "stop2"}
  /\ messages[batch] < MessageCap
  /\ messages' = [messages EXCEPT ![batch] = @ + 1]
  /\ pc' = IF pc = "stop1" THEN "stop2" ELSE "merge"
  /\ UNCHANGED <<batch, view, flusher, shown, events, files, file_offset, term, proc>>

(* The output is merged; the next batch, or the end of the process.        *)
Merge ==
  /\ pc = "merge"
  /\ batch' = batch + 1
  /\ pc' = "files"
  /\ proc' = IF batch + 1 \in Batches THEN proc ELSE "finished"
  /\ UNCHANGED <<goVars, files, file_offset, term>>

-----------------------------------------------------------------------------
(* The goroutines of the view of batch b.                                  *)

\* mutant: nobody but MainLoop receives
BootAlone(b) ==
  /\ view[b] = "boot"
  /\ view' = [view EXCEPT ![b] = "enter"]
  /\ UNCHANGED <<mainVars, flusher, shown, messages, events, files, file_offset, term, proc>>

(* Start: the flusher and the poller are started, MainLoop is entered.     *)
Boot(b) ==
  /\ view[b] = "boot"
  /\ view' = [view EXCEPT ![b] = "enter"]
  /\ flusher' = [flusher EXCEPT ![b] = "loop"]
  /\ UNCHANGED <<mainVars, shown, messages, events, files, file_offset, term, proc>>

(* The first Flush of MainLoop makes the views.                            *)
FirstFlush(b) ==
  /\ view[b] = "enter"
  /\ view' = [view EXCEPT ![b] = "loop"]
  /\ shown' = shown \cup {b}
  /\ UNCHANGED <<mainVars, flusher, messages, events, files, file_offset, term, proc>>

(* MainLoop: a message ends it.                                            *)
ViewMessage(b) ==
  /\ view[b] = "loop" /\ messages[b] > 0
  /\ messages' = [messages EXCEPT ![b] = @ - 1]
  /\ view' = [view EXCEPT ![b] = "close"]
  /\ UNCHANGED <<mainVars, flusher, shown, events, files, file_offset, term, proc>>

(* MainLoop: a key; Ctrl-C ends it, an arrow moves the selection.          *)
ViewKey(b) ==
  /\ view[b] = "loop" /\ events[b] # <<>>
  /\ events' = [events EXCEPT ![b] = Tail(@)]
  /\ \/ /\ Head(events[b]) = "ctrl-c"
        /\ view' = [view EXCEPT ![b] = "close"] /\ UNCHANGED file_offset
     \/ /\ Head(events[b]) = "down"
        /\ file_offset' = (file_offset + 1 + files) % files /\ UNCHANGED view
     \/ /\ Head(events[b]) = "up"
        /\ file_offset' = (file_offset - 1 + files) % files /\ UNCHANGED view
  /\ UNCHANGED <<mainVars, flusher, shown, messages, files, term, proc>>

(* MainLoop: Flush reports a layout error (the terminal is too low, or too *)
(* narrow for the second view only).                                       *)
FlushFails(b) ==
  /\ view[b] \in {"enter", "loop"}
  /\ view' = [view EXCEPT ![b] = "close"]
  /\ shown' \in {shown, shown \cup {b}}
  /\ UNCHANGED <<mainVars, flusher, messages, events, files, file_offset, term, proc>>

(* The deferred Close of Start: termbox.Close acts on the one terminal.    *)
Close(b) ==
  /\ view[b] = "close"
  /\ term' = 0
  /\ view' = [view EXCEPT ![b] = "done"]
  /\ UNCHANGED <<mainVars, flusher, shown, messages, events, files, file_offset, proc>>

(* The flusher: a tick draws files[file_offset] in the view "center", if   *)
(* there is one; a message ends it.                                        *)
Tick(b) ==
  /\ flusher[b] = "loop"
  /\ proc' = IF b \in shown /\ file_offset >= files THEN "panic" ELSE proc
  /\ UNCHANGED <<mainVars, goVars, files, file_offset, term>>

FlusherMessage(b) ==
  /\ flusher[b] = "loop" /\ messages[b] > 0
  /\ messages' = [messages EXCEPT ![b] = @ - 1]
  /\ flusher' = [flusher EXCEPT ![b] = "done"]
  /\ UNCHANGED <<mainVars, view, shown, events, files, file_offset, term, proc>>

(* A key is typed: any poller that is not stuck on a full channel may be   *)
(* the one that gets it, also one of a view that is over.                  *)
Type(b) ==
  /\ view[b] \notin {"none", "boot"} /\ term # 0
  /\ Len(events[b]) < EventCap
  /\ \E k \in {"up", "down", "ctrl-c"} : events' = [events EXCEPT ![b] = Append(@, k)]
  /\ UNCHANGED <<mainVars, view, flusher, shown, messages, files, file_offset, term, proc>>

-----------------------------------------------------------------------------
MainStep == SetFiles \/ ResetOffset \/ InitView \/ InitFails \/ Send \/ Merge
ViewStep(b) ==
  Boot(b) \/ FirstFlush(b) \/ ViewMessage(b) \/ ViewKey(b) \/ FlushFails(b) \/ Close(b)
FlusherStep(b) == Tick(b) \/ FlusherMessage(b)

Step == MainStep \/ TasksOver \/ \E b \in Batches : ViewStep(b) \/ FlusherStep(b) \/ Type(b)
Next == (proc = "running" /\ Step) \/ (proc # "running" /\ UNCHANGED vars)
Spec == Init /\ [][Next]_vars

-----------------------------------------------------------------------------
(* Every variable keeps its type; no channel exceeds its capacity.         *)
TypeOK ==
  /\ batch \in 1 .. Len(Sizes) + 1
  /\ pc \in {"files", "offset", "init", "tasks", "stop1", "stop2", "merge"}
  /\ view \in [Batches -> {"none", "boot", "enter", "loop", "close", "done"}]
  /\ flusher \in [Batches -> {"none", "loop", "done"}]
  /\ shown \subseteq Batches
  /\ messages \in [Batches -> 0 .. MessageCap]
  /\ events \in [Batches -> Seq({"up", "down", "ctrl-c"})]
  /\ \A b \in Batches : Len(events[b]) <= EventCap
  /\ files \in Nat /\ file_offset \in Nat
  /\ term \in 0 .. Len(Sizes)
  /\ proc \in {"running", "finished", "panic"}

(* How many messages the goroutines of batch b can still take.             *)
Takers(b) ==
  (IF view[b] \in {"boot", "enter", "loop"} THEN 1 ELSE 0)
    + (IF view[b] = "boot" \/ flusher[b] = "loop" THEN 1 ELSE 0)

Stopped(b) == b < batch \/ (b = batch /\ pc = "merge")

(* Once Stop has returned, no goroutine of the view is forgotten: for each *)
(* that still runs there is a message waiting.  While Stop is sending,     *)
(* a full channel has someone to empty it.                                 *)
NoneForgotten ==
  \A b \in Batches :
    /\ Stopped(b) => Takers(b) <= messages[b]
    /\ b = batch /\ pc = "stop2" => (messages[b] = MessageCap => Takers(b) > 0)

(* Stop never blocks the run for good, whether the operator has left the   *)
(* view with Ctrl-C, its layout has failed, or it has hardly started.      *)
StopReturns == (pc = "stop1") ~> (pc = "merge" \/ proc # "running")

(* The goroutines of a view end, unless the process does.                  *)
ViewsEnd ==
  \A b \in Batches :
    (Stopped(b) /\ view[b] # "none") ~>
      ((view[b] = "done" /\ flusher[b] = "done") \/ proc # "running")

(* gui.go: Close "should be called after a successful initialization and   *)
(* when gocui is not needed anymore": when the process ends, the terminal  *)
(* has been given back.                                                    *)
TerminalRestored == proc = "finished" => term = 0

(* util.go: "show realtime view for each host": showing it never panics.   *)
NeverPanics == proc = "panic" => pc = "init"

=============================================================================
