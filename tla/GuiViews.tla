------------------------------ MODULE GuiViews ------------------------------
(***************************************************************************)
(* Views of gocui (gui.go, view.go, edit.go): a list of framed views over  *)
(* the cells of a terminal, one of which has the focus and takes the keys, *)
(* editable buffers with a cursor and an origin, and Flush, which draws    *)
(* frames, buffers and the runes where frames meet.  The program sets      *)
(* ShowCursor, and Editable for its views.                                 *)
(***************************************************************************)
EXTENDS Integers, Sequences, SequencesExt, FiniteSetsExt

CONSTANTS
  Layouts,    \* what the program may call: <<name, x0, y0, x1, y1>>
  Sizes,      \* sizes of the terminal <<x, y>>
  MaxOps      \* bound on the calls and key presses of a behaviour

VARIABLES
  objs,     \* every View made so far
  views,    \* g.views: indices into objs
  current,  \* g.currentView, 0 for nil
  size,     \* of the terminal
  cells,    \* what the last Flush drew
  over,     \* MainLoop has returned
  ops

guiVars == <<objs, views, current, size, cells, over, ops>>

Zero == "0"      \* the rune 0
Blank == " "
Vertical == {"|", "+", "|-", "-|"}
Horizontal == {"-", "+", "T", "_T"}

Width(v) == v.x1 - v.x0 - 1
Height(v) == v.y1 - v.y0 - 1
Inside(v, x, y) == x \in 0..(Width(v) - 1) /\ y \in 0..(Height(v) - 1)

Init ==
  /\ objs = <<>> /\ views = <<>> /\ current = 0 /\ size \in Sizes /\ cells = <<>>
  /\ over = FALSE /\ ops = 0

-----------------------------------------------------------------------------
(* view.go.  A call that returns an error leaves the view as it was.       *)
SetCursor(v, x, y) == IF Inside(v, x, y) THEN [v EXCEPT !.cx = x, !.cy = y] ELSE v
SetOrigin(v, x, y) == IF x < 0 \/ y < 0 THEN v ELSE [v EXCEPT !.ox = x, !.oy = y]

Padded(s, n, e) == s \o [i \in 1..(IF n > Len(s) THEN n - Len(s) ELSE 0) |-> e]

writeRune(v, x, y, ch) ==
  LET px == v.ox + x
      py == v.oy + y
      lines == Padded(v.lines, py + 1, <<>>)
      line == Padded(lines[py + 1], px + 1, Zero)
  IN IF px < 0 \/ py < 0 THEN v
     ELSE [v EXCEPT !.lines = [lines EXCEPT ![py + 1] =
             IF v.overwrite THEN [line EXCEPT ![px + 1] = ch]
             ELSE SubSeq(line, 1, px) \o <<ch>> \o SubSeq(line, px + 1, Len(line))]]

deleteRune(v, x, y) ==
  LET px == v.ox + x
      py == v.oy + y
  IN IF px < 0 \/ py \notin 0..(Len(v.lines) - 1) THEN v
     ELSE IF px >= Len(v.lines[py + 1]) THEN v
     ELSE [v EXCEPT !.lines[py + 1] = SubSeq(@, 1, px) \o SubSeq(@, px + 2, Len(@)) \o <<Blank>>]

addLine(v, y) ==
  LET py == v.oy + y
  IN IF py \notin 0..(Len(v.lines) - 1) THEN v ELSE [v EXCEPT !.lines = InsertAt(@, py + 1, <<>>)]

(* The word at a point: from the blank before it to the blank after it.    *)
Word(v, x, y) ==
  LET px == v.ox + x
      line == v.lines[v.oy + y + 1]
      gap(i) == line[i] \in {Blank, Zero}
      nl == Max({0} \cup {i \in 1..px : gap(i)})
      nr == Min({Len(line)} \cup {i - 1 : i \in {j \in (px + 1)..Len(line) : gap(j)}})
  IN IF v.oy + y \notin 0..(Len(v.lines) - 1) \/ px >= Len(line) THEN <<>> ELSE SubSeq(line, nl + 1, nr)

(* edit.go                                                                 *)
editWrite(v, ch) ==
  LET w == writeRune(v, v.cx, v.cy, ch)
  IN IF Inside(w, w.cx + 1, w.cy) THEN SetCursor(w, w.cx + 1, w.cy) ELSE SetOrigin(w, w.ox + 1, w.oy)

editDelete(v, back) ==
  LET w == deleteRune(v, v.cx - 1, v.cy)
  IN IF ~back THEN deleteRune(v, v.cx, v.cy)
     ELSE IF Inside(w, w.cx - 1, w.cy) THEN SetCursor(w, w.cx - 1, w.cy)
     ELSE IF w.ox > 0 THEN SetOrigin(w, w.ox - 1, w.oy) ELSE w

editLine(v) ==
  LET w == addLine(v, v.cy + 1)
      u == IF Inside(w, w.cx, w.cy + 1) THEN SetCursor(w, w.cx, w.cy + 1) ELSE SetOrigin(w, w.ox, w.oy + 1)
  IN IF Inside(u, 0, u.cy) THEN SetOrigin(SetCursor(u, 0, u.cy), 0, u.oy) ELSE u

(* The error of editLine: the cursor is below a view that was made smaller. *)
editFails(v, key) == key = "enter" /\ ~Inside(v, v.cx, v.cy + 1) /\ ~Inside(v, 0, v.cy)

handleEdit(v, key) ==
  CASE key \in {"a", Blank} -> editWrite(v, key)
    [] key = "backspace" -> editDelete(v, TRUE)
    [] key = "delete" -> editDelete(v, FALSE)
    [] key = "insert" -> [v EXCEPT !.overwrite = ~@]
    [] key = "enter" -> editLine(v)

-----------------------------------------------------------------------------
(* gui.go                                                                  *)
Named(name) == {i \in ToSet(views) : objs[i].name = name}

Call == ~over /\ ops < MaxOps /\ ops' = ops + 1

newView(l) == [name |-> l[1], x0 |-> l[2], y0 |-> l[3], x1 |-> l[4], y1 |-> l[5], editable |-> TRUE,
               lines |-> <<>>, cx |-> 0, cy |-> 0, ox |-> 0, oy |-> 0, overwrite |-> FALSE]

SetView(l) ==
  /\ Call /\ l[2] < l[4] /\ l[3] < l[5]
  /\ IF Named(l[1]) # {}
     THEN /\ objs' = [i \in DOMAIN objs |->
                        IF i \in Named(l[1]) THEN [objs[i] EXCEPT !.x0 = l[2], !.y0 = l[3], !.x1 = l[4], !.y1 = l[5]]
                        ELSE objs[i]]
          /\ UNCHANGED views
     ELSE objs' = Append(objs, newView(l)) /\ views' = Append(views, Len(objs) + 1)
  /\ UNCHANGED <<current, size, cells, over>>

(* The focus is left where it is.                                          *)
DeleteView(name) ==
  /\ Call /\ Named(name) # {}
  /\ views' = SelectSeq(views, LAMBDA i : i \notin Named(name))
  /\ UNCHANGED <<objs, current, size, cells, over>>

SetCurrentView(name) ==
  /\ Call /\ Named(name) # {}
  /\ current' = CHOOSE i \in Named(name) : TRUE
  /\ UNCHANGED <<objs, views, size, cells, over>>

(* onKey for the view with the focus; an error ends MainLoop.              *)
Key(key) ==
  /\ Call /\ current # 0
  /\ objs' = [objs EXCEPT ![current] = handleEdit(@, key)]
  /\ over' = editFails(objs[current], key)
  /\ UNCHANGED <<views, current, size, cells>>

(* View.Write of one more line, and Clear.                                 *)
Write(name) ==
  /\ Call /\ Named(name) # {}
  /\ objs' = [i \in DOMAIN objs |-> IF i \in Named(name) THEN [objs[i] EXCEPT !.lines = Append(@, <<"a", "a">>)] ELSE objs[i]]
  /\ UNCHANGED <<views, current, size, cells, over>>

Clear(name) ==
  /\ Call /\ Named(name) # {}
  /\ objs' = [i \in DOMAIN objs |-> IF i \in Named(name) THEN [objs[i] EXCEPT !.lines = <<>>] ELSE objs[i]]
  /\ UNCHANGED <<views, current, size, cells, over>>

SetLayout == Call /\ views # <<>> /\ views' = <<>> /\ current' = 0 /\ UNCHANGED <<objs, size, cells, over>>

Resize == Call /\ size' \in Sizes \ {size} /\ UNCHANGED <<objs, views, current, cells, over>>

(* Flush draws the views one over the other, then the corners.             *)
Cells == (0..(size[1] - 1)) \X (0..(size[2] - 1))

drawFrame(s, v) ==
  [c \in Cells |->
     CASE c[1] \in (v.x0 + 1)..(v.x1 - 1) /\ c[2] \in {v.y0, v.y1} -> "-"
       [] c[2] \in (v.y0 + 1)..(v.y1 - 1) /\ c[1] \in {v.x0, v.x1} -> "|"
       [] OTHER -> s[c]]

\* mutant: the buffer is drawn from its first line
drawUnscrolled(s, v) ==
  [c \in Cells |->
     LET x == c[1] - v.x0 - 1
         y == c[2] - v.y0 - 1
     IN IF ~Inside(v, x, y) THEN s[c]
        ELSE IF y < Len(v.lines) /\ v.ox + x < Len(v.lines[y + 1]) THEN v.lines[y + 1][v.ox + x + 1]
        ELSE Blank]

(* clearRunes and View.draw.                                               *)
draw(s, v) ==
  [c \in Cells |->
     LET x == c[1] - v.x0 - 1
         y == c[2] - v.y0 - 1
     IN IF ~Inside(v, x, y) THEN s[c]
        ELSE IF v.oy + y < Len(v.lines) /\ v.ox + x < Len(v.lines[v.oy + y + 1]) THEN v.lines[v.oy + y + 1][v.ox + x + 1]
        ELSE Blank]

Rune(s, x, y) == IF <<x, y>> \in Cells THEN s[<<x, y>>] ELSE Blank

intersectionRune(s, x, y) ==
  LET top == Rune(s, x, y - 1) \in Vertical
      bottom == Rune(s, x, y + 1) \in Vertical
      left == Rune(s, x - 1, y) \in Horizontal
      right == Rune(s, x + 1, y) \in Horizontal
      arms == <<top, bottom, left, right>>
  IN CASE arms = <<FALSE, TRUE, FALSE, TRUE>> -> "r"
       [] arms = <<FALSE, TRUE, TRUE, FALSE>> -> "7"
       [] arms = <<TRUE, FALSE, FALSE, TRUE>> -> "L"
       [] arms = <<TRUE, FALSE, TRUE, FALSE>> -> "J"
       [] arms = <<TRUE, TRUE, TRUE, TRUE>> -> "+"
       [] arms = <<TRUE, TRUE, FALSE, TRUE>> -> "|-"
       [] arms = <<TRUE, TRUE, TRUE, FALSE>> -> "-|"
       [] arms = <<FALSE, TRUE, TRUE, TRUE>> -> "T"
       [] arms = <<TRUE, FALSE, TRUE, TRUE>> -> "_T"
       [] OTHER -> Rune(s, x, y)

drawIntersections(s) ==
  FoldLeft(LAMBDA acc, i :
             FoldLeft(LAMBDA a, c : IF c \in Cells THEN [a EXCEPT ![c] = intersectionRune(a, c[1], c[2])] ELSE a,
                      acc, LET v == objs[i] IN <<<<v.x0, v.y0>>, <<v.x0, v.y1>>, <<v.x1, v.y0>>, <<v.x1, v.y1>>>>),
           s, views)

(* draw first brings the cursor into the view; one without room is an      *)
(* error that ends the main loop.                                          *)
Clamped(v) == SetCursor(v, Min({v.cx, Width(v) - 1}), Min({v.cy, Height(v) - 1}))

NoRoom == current # 0 /\ views # <<>> /\ ~Inside(objs[current], 0, 0)

Flush ==
  /\ Call /\ ~NoRoom
  /\ objs' = IF current = 0 \/ views = <<>> THEN objs ELSE [objs EXCEPT ![current] = Clamped(@)]
  /\ cells' = drawIntersections(FoldLeft(LAMBDA s, i : draw(drawFrame(s, objs[i]), objs[i]), [c \in Cells |-> Blank], views))
  /\ UNCHANGED <<views, current, size, over>>

FlushFails == Call /\ NoRoom /\ over' = TRUE /\ UNCHANGED <<objs, views, current, size, cells>>

Keys == {"a", Blank, "backspace", "delete", "insert", "enter"}
Names == {l[1] : l \in Layouts}

(* MainLoop has returned, or the bound is reached.                         *)
Stopped == (over \/ ops = MaxOps) /\ UNCHANGED guiVars

Next ==
  \/ \E l \in Layouts : SetView(l)
  \/ \E n \in Names : DeleteView(n) \/ SetCurrentView(n) \/ Write(n) \/ Clear(n)
  \/ \E k \in Keys : Key(k)
  \/ Resize
  \/ SetLayout
  \/ Flush
  \/ FlushFails
  \/ Stopped

-----------------------------------------------------------------------------
(* A rune that is typed and taken back leaves the text and the place in it *)
(* as they were, up to blanks at the end of a line, wherever the view has  *)
(* scrolled to (editWrite, editDelete).                                    *)
Text(v) == {<<i, j, v.lines[i][j]>> : <<i, j>> \in {<<i, j>> \in (1..Len(v.lines)) \X (1..MaxOps + 3) :
                                                       j <= Len(v.lines[i]) /\ v.lines[i][j] \notin {Blank, Zero}}}

TypeAndBack ==
  \A i \in DOMAIN objs : ~objs[i].overwrite =>
    LET v == objs[i]
        w == editDelete(editWrite(v, "a"), TRUE)
    IN Text(w) = Text(v) /\ w.ox + w.cx = v.ox + v.cx /\ w.oy + w.cy = v.oy + v.cy

(* The word at the cursor is the one that was typed there: it has no gap,  *)
(* and it ends where the line or the word ends (Word).                     *)
WordHasNoGap ==
  \A i \in DOMAIN objs :
    LET v == objs[i]
        here == v.oy + v.cy + 1
    IN here <= Len(v.lines) =>
         LET w == Word(v, v.cx, v.cy)
         IN /\ \A j \in DOMAIN w : w[j] \notin {Blank, Zero}
            /\ v.ox + v.cx < Len(v.lines[here]) /\ v.lines[here][v.ox + v.cx + 1] = "a" => w # <<>>

(* A step of Flush shows, inside the view drawn last, the part of its      *)
(* buffer that starts at its origin, and around it a closed frame.         *)
LastViewStep ==
     ops' # ops /\ cells' # cells /\ views # <<>> =>
       LET v == objs[views[Len(views)]]
           shown(c) == c \in DOMAIN cells' => cells'[c] \in {"r", "7", "L", "J", "+", "|-", "-|", "T", "_T"}
       IN /\ \A x \in 0..(Width(v) - 1), y \in 0..(Height(v) - 1) :
               <<v.x0 + x + 1, v.y0 + y + 1>> \in DOMAIN cells' =>
                 cells'[<<v.x0 + x + 1, v.y0 + y + 1>>] =
                   (IF v.oy + y < Len(v.lines) /\ v.ox + x < Len(v.lines[v.oy + y + 1])
                    THEN v.lines[v.oy + y + 1][v.ox + x + 1] ELSE Blank)
          /\ Inside(v, 0, 0) /\ v.x1 < size[1] /\ v.y1 < size[2] =>
               \A c \in {v.x0, v.x1} \X {v.y0, v.y1} : shown(c)

=============================================================================
