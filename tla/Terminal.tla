------------------------------- MODULE Terminal -------------------------------
(***************************************************************************)
(* ssh/terminal: the line editor of a terminal in raw mode, and the screen *)
(* it draws on.  t is the Terminal; scr is the screen (external: a VT100   *)
(* whose driver turns a line feed into carriage return and line feed),     *)
(* from the row the prompt is on.  The goroutine in ReadLine or            *)
(* ReadPassword gives up the lock while it waits for a key and while the   *)
(* callback runs; Write, SetSize and SetPrompt run then.  A batch of keys  *)
(* is one key.                                                             *)
(***************************************************************************)
EXTENDS Integers, Sequences, SequencesExt

CONSTANTS
  Scenarios,        \* what the user and the program do: [prompt, width, callback, typed: the characters
                    \* that are typed ("p" is one that is pasted), keys: the other keys, may: what else happens, calls: of Read*]
  Prompts, Widths, MaxWidth, Rows,
  maxLineLength,
  LineBound,        \* on the length of a line: a paste passes maxLineLength, and after it typed characters do
  HistorySize,      \* of the ring (100 in the code)
  Completions       \* [line, pos] an AutoCompleteCallback may answer with

VARIABLES
  sc,      \* the scenario
  t, scr,
  at,      \* where the reader is: "idle", "reading" or "callback"
  key,     \* the key the callback is asked about
  pasted,  \* lineIsPasted
  ret,     \* what the last call returned: [line, err, resumed: whether the call before it had failed]
  added,   \* the lines entered so far, the last one first
  calls

vars == <<sc, t, scr, at, key, pasted, ret, added, calls>>

From(s, i) == SubSeq(s, i, Len(s))
Lesser(a, b) == IF a < b THEN a ELSE b
Greater(a, b) == IF a > b THEN a ELSE b
Times(c, n) == [i \in 1..n |-> c]

-----------------------------------------------------------------------------
(* The screen.  A character in the last column leaves the cursor there     *)
(* until the next one.  What is on it is no longer known when the prompt   *)
(* is set, the size shrinks or a read fails in the middle of a line.       *)
(* painted is the password that SetSize has put there.                     *)
Blank == [known |-> TRUE, painted |-> <<>>, x |-> 0, y |-> 0, wrap |-> FALSE, cells |-> [r \in 0..Rows |-> [c \in 0..(MaxWidth - 1) |-> " "]]]
Show(s, width, text) ==
  FoldLeft(LAMBDA a, c :
             LET x == IF a.wrap THEN 0 ELSE a.x
                 y == Lesser(IF a.wrap THEN a.y + 1 ELSE a.y, Rows)
             IN [a EXCEPT !.x = IF x = width - 1 THEN x ELSE x + 1, !.y = y, !.wrap = x = width - 1, !.cells[y][x] = c], s, text)
NewLine(s) == [s EXCEPT !.x = 0, !.y = Lesser(@ + 1, Rows), !.wrap = FALSE]
Shift(s, width, up, down, left, right) ==
  [s EXCEPT !.x = Lesser(Greater(@ - left, 0) + right, width - 1), !.y = Lesser(Greater(@ - up, 0) + down, Rows), !.wrap = FALSE]
Lost == [Blank EXCEPT !.known = FALSE]
EraseToRight(s) == [s EXCEPT !.cells[s.y] = [c \in DOMAIN @ |-> IF c >= s.x THEN " " ELSE @[c]]]

-----------------------------------------------------------------------------
(* Drawing; d is [t, s], the Terminal and the screen.                      *)
queue(d, text) == [d EXCEPT !.s = Show(@, d.t.width, text)]
move(d, up, down, left, right) == [d EXCEPT !.s = Shift(@, d.t.width, up, down, left, right)]
clearLineToRight(d) == [d EXCEPT !.s = EraseToRight(@)]

moveCursorToPos(d, pos) ==
  LET x == (Len(d.t.prompt) + pos) % d.t.width
      y == (Len(d.t.prompt) + pos) \div d.t.width
  IN IF ~d.t.echo THEN d
     ELSE move([d EXCEPT !.t.cursorX = x, !.t.cursorY = y], Greater(d.t.cursorY - y, 0), Greater(y - d.t.cursorY, 0),
               Greater(d.t.cursorX - x, 0), Greater(x - d.t.cursorX, 0))

\* mutant: the cursor is left where the terminal leaves it
advanceCursorOnly(d, places) ==
  LET x == d.t.cursorX + places
      y == d.t.cursorY + x \div d.t.width
  IN [d EXCEPT !.t.cursorX = x % d.t.width, !.t.cursorY = y, !.t.maxLine = Greater(@, y)]

advanceCursor(d, places) ==
  LET x == d.t.cursorX + places
      y == d.t.cursorY + x \div d.t.width
  IN [t |-> [d.t EXCEPT !.cursorX = x % d.t.width, !.cursorY = y, !.maxLine = Greater(@, y)],
      s |-> IF places > 0 /\ x % d.t.width = 0 THEN NewLine(d.s) ELSE d.s]

RECURSIVE writeLine(_, _)
writeLine(d, line) ==
  LET todo == Lesser(Len(line), d.t.width - d.t.cursorX)
  IN IF line = <<>> THEN d ELSE writeLine(advanceCursor(queue(d, SubSeq(line, 1, todo)), todo), From(line, todo + 1))

setLine(d, newLine, newPos) ==
  LET e == IF d.t.echo
           THEN moveCursorToPos(writeLine(writeLine(moveCursorToPos(d, 0), newLine), Times(" ", Greater(Len(d.t.line) - Len(newLine), 0))), newPos)
           ELSE d
  IN [e EXCEPT !.t.line = newLine, !.t.pos = newPos]

(* With nothing before the cursor n becomes 0.                             *)
eraseNPreviousChars(d, k) ==
  LET n == Lesser(k, d.t.pos)
      pos == d.t.pos - n
      e == moveCursorToPos([d EXCEPT !.t.pos = pos], pos)
      f == [e EXCEPT !.t.line = SubSeq(@, 1, pos) \o From(@, pos + n + 1)]
  IN IF k = 0 THEN d
     ELSE IF ~d.t.echo THEN f
     ELSE moveCursorToPos(advanceCursor(queue(writeLine(f, From(f.t.line, pos + 1)), Times(" ", n)), n), pos)

addKeyToLine(d, c) ==
  LET e == [d EXCEPT !.t.line = SubSeq(@, 1, d.t.pos) \o <<c>> \o From(@, d.t.pos + 1)]
      f == IF d.t.echo THEN writeLine(e, From(e.t.line, d.t.pos + 1)) ELSE e
  IN moveCursorToPos([f EXCEPT !.t.pos = @ + 1], d.t.pos + 1)

-----------------------------------------------------------------------------
(* Words: the index of the word on the left is not looked at when it is 0. *)
countToLeftWord(line, pos) ==
  LET letters == {i \in 1..(pos - 1) : line[i + 1] # " "}
      letter == IF letters = {} THEN 0 ELSE CHOOSE i \in letters : \A j \in letters : j <= i
      gaps == {i \in 1..letter : line[i + 1] = " "}
      start == IF gaps = {} THEN 0 ELSE 1 + CHOOSE i \in gaps : \A j \in gaps : j <= i
  IN IF pos = 0 THEN 0 ELSE pos - start

countToRightWord(line, pos) ==
  LET n == Len(line)
      gaps == {i \in pos..(n - 1) : line[i + 1] = " "}
      gap == IF gaps = {} THEN n ELSE CHOOSE i \in gaps : \A j \in gaps : i <= j
      letters == {i \in gap..(n - 1) : line[i + 1] # " "}
  IN (IF letters = {} THEN n ELSE CHOOSE i \in letters : \A j \in letters : i <= j) - pos

-----------------------------------------------------------------------------
(* stRingBuffer.                                                           *)

RingAdd(h, a) ==
  LET head == (h.head + 1) % HistorySize
  IN [head |-> head, size |-> Lesser(h.size + 1, HistorySize), entries |-> [h.entries EXCEPT ![head] = a]]
NthPreviousEntry(h, n) == h.entries[IF h.head - n < 0 THEN h.head - n + HistorySize ELSE h.head - n]

-----------------------------------------------------------------------------
(* handleKey, for the keys that edit the line.                             *)
Moved(d, pos) == moveCursorToPos([d EXCEPT !.t.pos = pos], pos)
Recalled(d, line, index) == setLine([d EXCEPT !.t.historyIndex = index], line, Len(line))
clearScreen(d) == advanceCursor(queue([t |-> [d.t EXCEPT !.cursorX = 0, !.cursorY = 0], s |-> Blank], d.t.prompt), Len(d.t.prompt))
deleteLine(d) ==
  LET n == Len(d.t.line)
      e == FoldLeft(LAMBDA a, i : advanceCursor(queue(a, <<" ">>), 1), d, Times(" ", n - d.t.pos))
  IN moveCursorToPos([e EXCEPT !.t.line = SubSeq(@, 1, d.t.pos)], d.t.pos)

handleKey(d, k) ==
  LET pos == d.t.pos
      n == Len(d.t.line)
      h == d.t.history
      i == d.t.historyIndex
  IN CASE k = "backspace" -> eraseNPreviousChars(d, IF pos = 0 THEN 0 ELSE 1)
       [] k = "altLeft" -> Moved(d, pos - countToLeftWord(d.t.line, pos))
       [] k = "altRight" -> Moved(d, pos + countToRightWord(d.t.line, pos))
       [] k = "left" -> IF pos = 0 THEN d ELSE Moved(d, pos - 1)
       [] k = "right" -> IF pos = n THEN d ELSE Moved(d, pos + 1)
       [] k = "home" -> IF pos = 0 THEN d ELSE Moved(d, 0)
       [] k = "end" -> IF pos = n THEN d ELSE Moved(d, n)
       [] k = "up" -> IF i + 1 >= h.size THEN d
                      ELSE Recalled([d EXCEPT !.t.historyPending = IF i = -1 THEN d.t.line ELSE @], NthPreviousEntry(h, i + 1), i + 1)
       [] k = "down" -> IF i = -1 THEN d
                        ELSE IF i = 0 THEN Recalled(d, d.t.historyPending, -1)
                        ELSE IF i - 1 < h.size THEN Recalled(d, NthPreviousEntry(h, i - 1), i - 1) ELSE d
       [] k = "deleteWord" -> eraseNPreviousChars(d, countToLeftWord(d.t.line, pos))
       [] k = "deleteLine" -> deleteLine(d)
       [] k = "ctrlD" -> IF pos < n THEN eraseNPreviousChars([d EXCEPT !.t.pos = pos + 1], 1) ELSE d
       [] k = "ctrlU" -> eraseNPreviousChars(d, pos)
       [] k = "clear" -> LET e == clearScreen(d) IN setLine(e, e.t.line, e.t.pos)

Draws(d) == t' = d.t /\ scr' = IF d.s.known THEN d.s ELSE Lost
Here == [t |-> t, s |-> scr]

-----------------------------------------------------------------------------
(* ReadLine and ReadPassword: the prompt, unless the line is on the screen *)
(* already.  A ^D that ended the input is not taken out of the remainder:  *)
(* every later call finds it again and changes nothing.                    *)
Call(echo, prompt) ==
  /\ at = "idle" /\ calls < sc.calls /\ ret.err # "EOF"
  /\ LET d == [Here EXCEPT !.t.echo = echo, !.t.prompt = prompt, !.t.oldPrompt = t.prompt]
     IN Draws(IF t.cursorX = 0 /\ t.cursorY = 0 THEN writeLine(d, prompt) ELSE d)
  /\ at' = "reading" /\ calls' = calls + 1 /\ pasted' = t.pasteActive
  /\ UNCHANGED <<key, ret, added>>
ReadLine == Call(TRUE, t.prompt)
ReadPassword(prompt) == "password" \in sc.may /\ Call(FALSE, prompt)

Returns(d, line, err) ==
  /\ ret' = [line |-> line, err |-> err, resumed |-> ret.err = "read"] /\ at' = "idle"
  /\ Draws([d EXCEPT !.t.echo = TRUE, !.t.prompt = IF t.echo THEN @ ELSE t.oldPrompt])

TypedKey == IF t.pasteActive THEN pasted ELSE FALSE

(* A key that moves, recalls or erases; in a paste there are none.         *)
Edit(k) ==
  /\ at = "reading" /\ ~t.pasteActive
  /\ k = "ctrlD" => t.line # <<>>
  /\ k = "deleteLine" => t.echo \/ t.cursorY < Rows   \* the cursor of a password moves on with every ^K
  /\ Draws(handleKey(Here, k)) /\ pasted' = TypedKey
  /\ UNCHANGED <<at, key, ret, added, calls>>

(* ^D on an empty line; a failed Read, which leaves the line as it is.     *)
EndOfInput ==
  /\ at = "reading" /\ ~t.pasteActive /\ t.line = <<>>
  /\ Returns(Here, <<>>, "EOF")
  /\ UNCHANGED <<key, pasted, added, calls>>
ReadFails ==
  /\ at = "reading" /\ "fail" \in sc.may
  /\ Returns([Here EXCEPT !.s = Lost], <<>>, "read")
  /\ UNCHANGED <<key, pasted, added, calls>>

(* A character, typed or pasted ("tab" is one that is not printable).      *)
(* Only a typed one goes to the callback, and only a typed one is refused  *)
(* when the line is full.                                                  *)
Insert(c) ==
  /\ IF c = "tab" \/ Len(t.line) = maxLineLength THEN UNCHANGED <<t, scr>> ELSE Draws(addKeyToLine(Here, c))
  /\ at' = "reading"
Type(c) ==
  /\ at = "reading" /\ ~t.pasteActive /\ Len(t.line) < LineBound
  /\ pasted' = TypedKey
  /\ \/ ~t.callback /\ Insert(c) /\ UNCHANGED key
     \/ t.callback /\ at' = "callback" /\ key' = c /\ UNCHANGED <<t, scr>>
  /\ UNCHANGED <<ret, added, calls>>
CallbackReturns(c) ==
  /\ at = "callback"
  /\ \/ Insert(key)
     \/ Draws(setLine(Here, c.line, c.pos)) /\ at' = "reading"
  /\ UNCHANGED <<key, pasted, ret, added, calls>>
Paste ==
  /\ at = "reading" /\ t.pasteActive /\ Len(t.line) < LineBound
  /\ Draws(addKeyToLine(Here, "p")) /\ pasted' = TypedKey
  /\ UNCHANGED <<at, key, ret, added, calls>>
PasteMark ==
  /\ at = "reading" /\ "paste" \in sc.may
  /\ t' = [t EXCEPT !.pasteActive = ~@]
  /\ pasted' = IF ~t.pasteActive /\ t.line = <<>> THEN TRUE ELSE pasted
  /\ UNCHANGED <<scr, at, key, ret, added, calls>>

(* Enter: the screen is that of the next line.                             *)
Enter ==
  LET d == moveCursorToPos(Here, Len(t.line))
      e == [t |-> [d.t EXCEPT !.line = <<>>, !.pos = 0, !.cursorX = 0, !.cursorY = 0, !.maxLine = 0], s |-> Blank]
  IN /\ at = "reading"
     /\ Returns(IF t.echo THEN [e EXCEPT !.t.historyIndex = -1, !.t.history = RingAdd(@, t.line)] ELSE e, t.line, IF TypedKey THEN "pasted" ELSE "none")
     /\ added' = IF t.echo THEN <<t.line>> \o added ELSE added
     /\ UNCHANGED <<key, pasted, calls>>

-----------------------------------------------------------------------------
(* Other goroutines.  Write puts a line of its own above the prompt.       *)
Free == at \in {"idle", "reading", "callback"}

redraw(d) ==
  LET e == writeLine(d, d.t.prompt) IN moveCursorToPos(IF d.t.echo THEN writeLine(e, d.t.line) ELSE e, d.t.pos)

RECURSIVE clearUp(_)
clearUp(d) == IF d.t.cursorY = 0 THEN d ELSE clearUp(clearLineToRight(move([d EXCEPT !.t.cursorY = @ - 1], 1, 0, 0, 0)))
Above(s) == [s EXCEPT !.painted = <<>>, !.x = 0, !.y = 0, !.wrap = FALSE,
                      !.cells = [r \in DOMAIN @ |-> IF r = Rows THEN Blank.cells[r] ELSE @[r + 1]]]
Write ==
  /\ Free /\ "write" \in sc.may
  /\ LET c == clearUp(clearLineToRight(move([Here EXCEPT !.t.cursorX = 0], 0, 0, t.cursorX, 0)))
     IN IF t.cursorX = 0 /\ t.cursorY = 0 THEN Draws([Here EXCEPT !.s = Above(@)])
        ELSE Draws(redraw([c EXCEPT !.s = Above(@)]))
  /\ UNCHANGED <<at, key, pasted, ret, added, calls>>

clearAndRepaintLinePlusNPrevious(d, numPrevLines) ==
  LET down(n, e) == clearLineToRight(move(e, 0, n, 0, 0))
      c == clearLineToRight(move([d EXCEPT !.t.cursorX = 0, !.t.cursorY = 0], d.t.cursorY, 0, d.t.cursorX, 0))
      e == FoldLeft(LAMBDA a, i : down(1, a), c, Times(1, numPrevLines))
      f == move(e, numPrevLines, 0, 0, 0)
  IN moveCursorToPos(writeLine(advanceCursor(queue(f, f.t.prompt), Len(f.t.prompt)), f.t.line), f.t.pos)

(* A terminal that grows leaves its rows alone; what one that shrinks does *)
(* is not known.  The line is painted whether or not it is echoed.         *)
SetSize(width) ==
  /\ Free /\ "size" \in sc.may /\ t.width # width
  /\ LET d == [Here EXCEPT !.t.width = width]
         e == [d EXCEPT !.t.cursorX = Lesser(@, width - 1), !.t.cursorY = 2 * @]
     IN IF t.line = <<>> /\ t.cursorX = 0 /\ t.cursorY = 0 THEN Draws(d)
        ELSE IF width < t.width THEN Draws([clearAndRepaintLinePlusNPrevious(e, 2 * t.maxLine) EXCEPT !.s = Lost])
        ELSE Draws([clearAndRepaintLinePlusNPrevious(d, t.maxLine) EXCEPT !.s.painted = IF t.echo THEN <<>> ELSE t.line])
  /\ UNCHANGED <<at, key, pasted, ret, added, calls>>

SetPrompt(prompt) ==
  /\ Free /\ "prompt" \in sc.may /\ t.prompt # prompt
  /\ t' = [t EXCEPT !.prompt = prompt]
  /\ scr' = IF at = "idle" /\ t.cursorX = 0 /\ t.cursorY = 0 THEN scr ELSE Lost
  /\ UNCHANGED <<at, key, pasted, ret, added, calls>>

NewTerminal(prompt, width, callback) == [
  callback |-> callback, prompt |-> prompt, oldPrompt |-> prompt, line |-> <<>>, pos |-> 0, echo |-> TRUE, pasteActive |-> FALSE, cursorX |-> 0, cursorY |-> 0,
  maxLine |-> 0, width |-> width, historyIndex |-> -1, historyPending |-> <<>>,
  history |-> [head |-> 0, size |-> 0, entries |-> [i \in 0..(HistorySize - 1) |-> <<>>]]]

Init ==
  /\ sc \in Scenarios /\ t = NewTerminal(sc.prompt, sc.width, sc.callback)
  /\ scr = Blank /\ at = "idle" /\ key = "" /\ pasted = FALSE /\ ret = [line |-> <<>>, err |-> "none", resumed |-> FALSE]
  /\ added = <<>> /\ calls = 0

Step ==
  \/ ReadLine
  \/ \E prompt \in Prompts : ReadPassword(prompt)
  \/ \E k \in sc.keys : Edit(k)
  \/ \E c \in sc.typed \cup {"tab"} : Type(c)
  \/ \E c \in Completions : CallbackReturns(c)
  \/ Paste \/ PasteMark \/ Enter \/ EndOfInput \/ ReadFails
  \/ Write
  \/ \E width \in Widths : SetSize(width)
  \/ \E prompt \in Prompts : SetPrompt(prompt)
Next == Step /\ UNCHANGED sc
Spec == Init /\ [][Next]_vars

-----------------------------------------------------------------------------
TypeOK == t.pos \in 0..Len(t.line) /\ t.cursorX \in 0..(t.width - 1) /\ t.historyIndex \in -1..(t.history.size - 1)

(* While a line is read the screen shows the prompt and the line, wrapped, *)
(* nothing else, and the cursor is where the next key goes: whatever was   *)
(* erased, recalled, pasted, completed or written above in the meantime.   *)
ScreenShowsLine ==
  at = "reading" /\ t.echo /\ scr.known /\ Len(t.prompt) + Len(t.line) < t.width * Rows =>
    LET text == t.prompt \o t.line
    IN /\ \A r \in 0..Rows, c \in 0..(MaxWidth - 1) :
            scr.cells[r][c] = IF c < t.width /\ r * t.width + c < Len(text) THEN text[r * t.width + c + 1] ELSE " "
       /\ scr.y * t.width + scr.x = Len(t.prompt) + t.pos /\ ~scr.wrap

(* While a password is read the screen shows the prompt and no character   *)
(* of the password but those that SetSize painted, which are gone with the *)
(* next Write, clear or Enter.                                             *)
PasswordHidden ==
  at = "reading" /\ ~t.echo /\ scr.known =>
    LET text == t.prompt \o scr.painted
    IN \A r \in 0..Rows, c \in 0..(MaxWidth - 1) :
         scr.cells[r][c] # " " => c < t.width /\ r * t.width + c < Len(text) /\ scr.cells[r][c] = text[r * t.width + c + 1]

(* Does not hold: "ReadPassword ... reads a password, without echo".       *)
PasswordNeverShown == at = "reading" /\ ~t.echo => scr.painted = <<>>

(* A line is returned as pasted only if no character of it was typed,      *)
(* unless it was begun in a call that failed.                              *)
PastedOnly == ret.err = "pasted" /\ ~ret.resumed => \A i \in DOMAIN ret.line : ret.line[i] = "p"

(* The ring holds the last lines, the newest first, also after it has gone *)
(* round.                                                                  *)
RingIsLast ==
  /\ t.history.size = Lesser(Len(added), HistorySize)
  /\ \A n \in 0..(t.history.size - 1) : NthPreviousEntry(t.history, n) = added[n + 1]

(* Alt-right goes to the beginning of the next word, or to the end.        *)
RightWordStart ==
  LET to == t.pos + countToRightWord(t.line, t.pos)
      word(i) == i < Len(t.line) /\ t.line[i + 1] # " " /\ i > 0 /\ t.line[i] = " "
  IN /\ to = Len(t.line) \/ word(to)
     /\ \A i \in (t.pos + 1)..(to - 1) : ~word(i)

(* Alt-left and ^W go to the beginning of the word on the left: a word     *)
(* begins after a space or at the beginning of the line.                   *)
LeftWordStart ==
  LET to == t.pos - countToLeftWord(t.line, t.pos)
      word(i) == i < Len(t.line) /\ t.line[i + 1] # " " /\ (i = 0 \/ t.line[i] = " ")
  IN \A i \in 0..(t.pos - 1) : word(i) => to >= i

=============================================================================
