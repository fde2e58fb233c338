------------------------------ MODULE SideList ------------------------------
(***************************************************************************)
(* The host list at the side of the realtime view (dircat/dir_cat.go:      *)
(* layout, nexOne, prevOne, drawSide) and the event loop that drives it    *)
(* (gocui/gui.go: MainLoop, consumeevents, Flush): which hosts are listed, *)
(* which one is marked, while the terminal is resized.                     *)
(***************************************************************************)
EXTENDS Integers

CONSTANTS
  Counts,   \* the number of files shown
  Heights   \* the heights of the terminal

ASSUME SideListAssumption == Counts \subseteq Nat /\ Heights \subseteq Nat

Padding == 1

VARIABLES
  length, height,           \* len(files); height of the terminal
  maxY,                     \* height the Gui last asked for
  selected, window_offset,  \* file_offset of the code; first file listed
  side,                     \* what the view "side" holds
  lpc                       \* "flush", "wait", "more", "error" or "panic"

listVars == <<length, height, maxY, selected, window_offset, side, lpc>>

(* The files first .. last - 1 are listed, the arrow stands before file    *)
(* arrow; height is the Gui's height when they were written.               *)
Listing(first, last, arrow, h) ==
  [made |-> TRUE, first |-> first, last |-> last, arrow |-> arrow, height |-> h]
NoView == [made |-> FALSE, first |-> 0, last |-> 0, arrow |-> -1, height |-> 0]

ListInit ==
  /\ length \in Counts /\ height \in Heights
  /\ maxY = height
  /\ selected = 0 /\ window_offset = 0
  /\ side = NoView
  /\ lpc = "flush"

-----------------------------------------------------------------------------
(* SetView refuses a view without height.                                  *)
TooSmall(h) == 0 >= h - Padding

Rows(h) == IF h - 2 * Padding > length THEN length ELSE h

(* Flush with its layout function: MainLoop's first step and its last for  *)
(* every event.  The first time, the list is written.                      *)
Flush ==
  /\ lpc = "flush"
  /\ maxY' = height
  /\ \/ TooSmall(height) /\ lpc' = "error" /\ UNCHANGED side
     \/ ~TooSmall(height) /\ side.made /\ lpc' = "wait" /\ UNCHANGED side
     \/ /\ ~TooSmall(height) /\ ~side.made
        /\ IF Rows(height) > length
           THEN lpc' = "panic" /\ UNCHANGED side
           ELSE lpc' = "wait" /\ side' = Listing(0, Rows(height), IF length > 0 THEN 0 ELSE -1, height)
  /\ UNCHANGED <<length, height, selected, window_offset>>

(* The flusher goroutine redraws the other view and calls Flush as well;   *)
(* it ignores a layout error.                                              *)
FlusherFlush ==
  /\ lpc \in {"flush", "wait", "more"} /\ side.made
  /\ maxY' = height
  /\ UNCHANGED <<length, height, selected, window_offset, side, lpc>>

\* mutant: the window does not follow the selection downwards
WindowStays(f, wheight) == IF f < window_offset THEN f ELSE window_offset

Window(f, wheight) ==
  IF f < window_offset THEN f
  ELSE IF f >= window_offset + wheight THEN f - wheight + 1
  ELSE window_offset

drawSide(f) ==
  LET wheight == maxY - 2 * Padding
      w == Window(f, wheight)
      end == IF length < wheight + w THEN length ELSE wheight + w
  IN /\ window_offset' = w
     /\ side' = Listing(w, end, IF w <= f /\ f < end THEN f ELSE -1, maxY)

(* An arrow key: the next or the previous file, round the ends of the      *)
(* list.  MainLoop then looks for more events before it flushes.           *)
Key ==
  /\ lpc \in {"wait", "more"}
  /\ IF length = 0
     THEN lpc' = "panic" /\ UNCHANGED <<selected, window_offset, side>>
     ELSE /\ \E d \in {1, -1} : selected' = (selected + d + length) % length
          /\ drawSide(selected')
          /\ lpc' = "more"
  /\ UNCHANGED <<length, height, maxY>>

ResizeEvent ==
  /\ lpc \in {"wait", "more"}
  /\ lpc' = "more"
  /\ UNCHANGED <<length, height, maxY, selected, window_offset, side>>

NoMoreEvents ==
  /\ lpc = "more" /\ lpc' = "flush"
  /\ UNCHANGED <<length, height, maxY, selected, window_offset, side>>

(* The operator resizes the terminal. *)
Resize ==
  /\ height' \in Heights
  /\ UNCHANGED <<length, maxY, selected, window_offset, side, lpc>>

Ended == lpc \in {"error", "panic"}
ListNext ==
  \/ ~Ended /\ (Flush \/ FlusherFlush \/ Key \/ ResizeEvent \/ NoMoreEvents \/ Resize)
  \/ Ended /\ UNCHANGED listVars
ListSpec == ListInit /\ [][ListNext]_listVars

-----------------------------------------------------------------------------
(* The selection is always a file of the list: drawCenter's                *)
(* files[file_offset] is in range.                                         *)
ListTypeOK ==
  /\ length \in Nat /\ height \in Nat /\ maxY \in Nat
  /\ selected \in Nat /\ (length > 0 => selected < length)
  /\ window_offset \in Nat
  /\ side \in [made : BOOLEAN, first : Nat, last : Int, arrow : Int, height : Nat]
  /\ lpc \in {"flush", "wait", "more", "error", "panic"}

(* Whatever was resized in between: once there is a list, the arrow in it  *)
(* stands before the file whose tail the main view shows, in one of the    *)
(* rows the view had when the list was written, and no listed file is      *)
(* beyond the end of the list.                                             *)
ArrowOnSelection ==
  (length > 0 /\ side.height > 2 * Padding) =>
    /\ side.arrow = selected
    /\ side.first <= side.arrow /\ side.arrow < side.last
    /\ side.arrow - side.first < side.height - 2 * Padding
    /\ side.last <= length

(* A key press moves the listed window no further than the selection does  *)
(* while the height stays the same, except when the selection goes round.  *)
WindowStep ==
  (Key /\ maxY = side.height /\ maxY > 2 * Padding /\ selected' - selected \in {1, -1}) =>
    window_offset' - window_offset \in {0, selected' - selected}

(* Both hold of a step, and of the list before it and after it.            *)
FollowStep == ArrowOnSelection /\ ArrowOnSelection' /\ WindowStep

(* The arrow marks the selected file, in a row there is room for after any *)
(* keys and resizes, and the window moves with the selection, never by     *)
(* more (drawSide, nexOne, prevOne).                                       *)
ListFollows == [][FollowStep]_listVars

(* util.go: "show realtime view for each host": writing the list of hosts  *)
(* never panics.                                                           *)
ListNeverPanics == lpc # "panic"

=============================================================================
