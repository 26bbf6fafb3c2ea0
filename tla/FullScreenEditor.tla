-------------------------- MODULE FullScreenEditor --------------------------
(***************************************************************************)
(* The full-screen message editor (internal/editor/fullscreen.go): the     *)
(* text, the cursor, the part of it in the window, the cut buffer, and     *)
(* what stands in the text rows of the caller's terminal.  Each key        *)
(* redraws only what it believes to have changed.                          *)
(*                                                                         *)
(* Columns and lines count from 0, as in the code.  Title, help and status *)
(* rows are left out; so are quoted lines, which are never highlighted.    *)
(***************************************************************************)
EXTENDS Naturals, SequencesExt

CONSTANTS
  Letters,      \* characters but the blank
  EditRows,     \* text rows of the window
  WrapCol, MaxLines,
  MaxText, MaxCut  \* bounds on the characters in the text and the cut buffer

ASSUME EditorAssumption ==
  /\ EditRows \in Nat \ {0} /\ WrapCol \in Nat \ {0} /\ MaxLines \in Nat \ {0}
  /\ MaxText \in Nat /\ MaxCut \in Nat

VARIABLE ed     \* the fsEditor, and the terminal's text rows as "screen"

Space == " "
Characters == Letters \cup {Space}
Window == 0..(EditRows - 1)

LineOf(e) == e.text[e.cy + 1]
SetLine(e, line) == [e EXCEPT !.text[e.cy + 1] = line]
LastLine(e) == Len(e.text) - 1
Col(e) == IF e.cx > Len(LineOf(e)) THEN Len(LineOf(e)) ELSE e.cx
Clip(e) == [e EXCEPT !.cx = Col(e)]
Before(e) == SubSeq(LineOf(e), 1, Col(e))
Behind(e) == SubSeq(LineOf(e), Col(e) + 1, Len(LineOf(e)))

-----------------------------------------------------------------------------
(* Drawing.  A row shows a line, highlighted if the cursor is in it; a row *)
(* below the text shows a tilde, here <<>>.                                *)

Look(e, i) == IF i <= LastLine(e) THEN <<e.text[i + 1], i = e.cy>> ELSE <<>>

redrawFromLine(e, i) ==
  [e EXCEPT !.screen =
     [r \in Window |-> IF e.top + r < i THEN e.screen[r] ELSE Look(e, e.top + r)]]
draw(e) == redrawFromLine(e, 0)
redrawLine(e, i) ==
  IF i >= e.top /\ i < e.top + EditRows THEN [e EXCEPT !.screen[i - e.top] = Look(e, i)]
  ELSE e

ensureCursorVisible(e) ==
  CASE e.cy < e.top -> draw([e EXCEPT !.top = e.cy])
    [] e.cy >= e.top + EditRows -> draw([e EXCEPT !.top = e.cy - EditRows + 1])
    [] OTHER -> e

-----------------------------------------------------------------------------
(* Moving the cursor.                                                      *)

moveCursorUp(e) ==
  IF e.cy = 0 THEN e
  ELSE LET v == ensureCursorVisible(Clip([e EXCEPT !.cy = @ - 1]))
       IN redrawLine(redrawLine(v, v.cy), v.cy + 1)

\* Mutant: the line left behind stays highlighted.
moveCursorDownOnly(e) ==
  IF e.cy >= LastLine(e) THEN e
  ELSE LET v == ensureCursorVisible(Clip([e EXCEPT !.cy = @ + 1]))
       IN redrawLine(v, v.cy)

moveCursorDown(e) ==
  IF e.cy >= LastLine(e) THEN e
  ELSE LET v == ensureCursorVisible(Clip([e EXCEPT !.cy = @ + 1]))
       IN redrawLine(redrawLine(v, v.cy), v.cy - 1)

\* Into the line before, at its end, ...
moveCursorLeft(e) ==
  IF e.cx > 0 THEN [e EXCEPT !.cx = @ - 1]
  ELSE IF e.cy = 0 THEN e
  ELSE LET u == [e EXCEPT !.cy = @ - 1, !.cx = Len(e.text[e.cy])]
           v == ensureCursorVisible(u)
       IN redrawLine(redrawLine(v, v.cy), v.cy + 1)

\* ... or into the next, at its beginning.
moveCursorRight(e) ==
  IF e.cx < Len(LineOf(e)) THEN [e EXCEPT !.cx = @ + 1]
  ELSE IF e.cy >= LastLine(e) THEN e
  ELSE LET v == ensureCursorVisible([e EXCEPT !.cy = @ + 1, !.cx = 0])
       IN redrawLine(redrawLine(v, v.cy), v.cy - 1)

Home(e) == [e EXCEPT !.cx = 0]
End(e) == [e EXCEPT !.cx = Len(LineOf(e))]

Less(n, k) == IF n > k THEN n - k ELSE 0
Least(n, k) == IF n < k THEN n ELSE k

pageUp(e) ==
  draw(Clip([e EXCEPT !.cy = Less(@, EditRows), !.top = Less(@, EditRows)]))
pageDown(e) ==
  draw(Clip([e EXCEPT !.cy = Least(@ + EditRows, LastLine(e)),
                      !.top = Least(@ + EditRows, Less(LastLine(e) + 1, EditRows))]))

-----------------------------------------------------------------------------
(* Editing.                                                                *)

\* Mutant: the character at which the line is split goes with it.
TrimLeftOne(line) == Tail(line)

TrimLeft(line) ==
  LET kept == {i \in 1..Len(line) : line[i] # Space}
  IN SubSeq(line, CHOOSE i \in kept \cup {Len(line) + 1} :
                    \A j \in kept : i <= j, Len(line))

insertLineAfter(e, line) == [e EXCEPT !.text = InsertAt(@, e.cy + 2, line)]

\* At the last blank before the margin, but not at the line's first
\* character, or else at the margin.  The cursor is moved by what was cut
\* off, with the blanks that are dropped.
doWordWrap(e) ==
  LET line == LineOf(e)
      blanks == {i \in 1..(WrapCol - 1) : i < Len(line) /\ line[i + 1] = Space}
      split == IF blanks = {} THEN WrapCol
               ELSE CHOOSE i \in blanks : \A j \in blanks : j <= i
      u == insertLineAfter(SetLine(e, SubSeq(line, 1, split)),
                           TrimLeft(SubSeq(line, split + 1, Len(line))))
      v == ensureCursorVisible(
             IF e.cx > split THEN [u EXCEPT !.cy = @ + 1, !.cx = @ - split] ELSE u)
  IN redrawFromLine(v, Less(v.cy, 1))

insertChar(e, c) ==
  LET over == ~e.insert /\ Col(e) < Len(LineOf(e))
      line == Before(e) \o <<c>> \o IF over THEN Tail(Behind(e)) ELSE Behind(e)
      v == [SetLine(e, line) EXCEPT !.cx = @ + 1]
  IN IF Len(line) > WrapCol THEN doWordWrap(v) ELSE redrawLine(v, v.cy)

splitLine(e) ==
  IF Len(e.text) >= MaxLines THEN e
  ELSE LET u == insertLineAfter(SetLine(e, Before(e)), Behind(e))
           v == ensureCursorVisible([u EXCEPT !.cy = @ + 1, !.cx = 0])
       IN redrawFromLine(v, v.cy - 1)

\* The line i and the next become one.
Join(e, i) ==
  [e EXCEPT !.text = [RemoveAt(@, i + 2) EXCEPT ![i + 1] = e.text[i + 1] \o e.text[i + 2]]]

\* Behind the end of an empty line, where a wrap that drops blanks can leave
\* the cursor, a slice is cut before its beginning: the program panics.
backspace(e) ==
  IF e.cx > 0
  THEN IF Col(e) = 0 THEN [e EXCEPT !.panicked = TRUE]
       ELSE LET v == SetLine(e, SubSeq(LineOf(e), 1, Col(e) - 1) \o Behind(e))
            IN redrawLine([v EXCEPT !.cx = @ - 1], v.cy)
  ELSE IF e.cy = 0 THEN e
  ELSE LET u == [Join(e, e.cy - 1) EXCEPT !.cy = @ - 1, !.cx = Len(e.text[e.cy])]
           v == ensureCursorVisible(u)
       IN redrawFromLine(v, v.cy)

deleteForward(e) ==
  IF e.cx < Len(LineOf(e))
  THEN redrawLine(SetLine(e, Before(e) \o Tail(Behind(e))), e.cy)
  ELSE IF e.cy >= LastLine(e) THEN e
  ELSE redrawFromLine(Join(e, e.cy), e.cy)

\* Where the blanks and the word before a column begin, and those behind it
\* end.
WordStart(line, col) ==
  LET Skip(i, inside) ==
        CHOOSE k \in 0..i : /\ \A j \in (k + 1)..i : inside[j]
                            /\ k = 0 \/ ~inside[k]
      isBlank == [j \in 1..Len(line) |-> line[j] = Space]
  IN Skip(Skip(col, isBlank), [j \in 1..Len(line) |-> ~isBlank[j]])
WordEnd(line, col) == Len(line) - WordStart(Reverse(line), Len(line) - col)

deleteWordBackward(e) ==
  LET i == WordStart(LineOf(e), Col(e)) IN
  IF Col(e) = 0 THEN e
  ELSE redrawLine([SetLine(e, SubSeq(LineOf(e), 1, i) \o Behind(e)) EXCEPT !.cx = i],
                  e.cy)

deleteWordForward(e) ==
  LET line == LineOf(e) IN
  IF e.cx >= Len(line) THEN e
  ELSE redrawLine(SetLine(e, Before(e) \o
                     SubSeq(line, WordEnd(line, e.cx) + 1, Len(line))), e.cy)

\* Without the current line; the only one becomes empty.
Without(e) ==
  IF Len(e.text) = 1
  THEN redrawLine([e EXCEPT !.text = << <<>> >>, !.cx = 0], 0)
  ELSE LET u == [e EXCEPT !.text = RemoveAt(@, e.cy + 1),
                          !.cy = Least(@, LastLine(e) - 1)]
           v == ensureCursorVisible(Clip(u))
       IN redrawFromLine(v, v.cy)

deleteLine(e) == [Without(e) EXCEPT !.cut = <<LineOf(e)>>]

\* One line after the other is kept.
cutLine(e) ==
  [Without(e) EXCEPT !.cut = IF e.lastCut THEN Append(e.cut, LineOf(e))
                             ELSE <<LineOf(e)>>]

pasteCutBuffer(e) ==
  IF e.cut = <<>> THEN e
  ELSE LET u == [e EXCEPT !.text = SubSeq(@, 1, e.cy) \o e.cut
                                     \o SubSeq(@, e.cy + 1, Len(@)),
                          !.cy = @ + Len(e.cut)]
           v == ensureCursorVisible(Clip(u))
       IN redrawFromLine(v, v.cy - Len(e.cut))

insertBlankLine(e) ==
  IF Len(e.text) >= MaxLines THEN e
  ELSE LET v == ensureCursorVisible([e EXCEPT !.text = InsertAt(@, e.cy + 1, <<>>),
                                              !.cx = 0])
       IN redrawFromLine(v, v.cy)

toggleInsert(e) == [e EXCEPT !.insert = ~@]

-----------------------------------------------------------------------------
\* runFullScreen: at the end of the text it starts from.
Opened(text) ==
  draw([text |-> text, cy |-> Len(text) - 1, cx |-> Len(text[Len(text)]),
        top |-> 0, insert |-> TRUE, cut |-> <<>>, lastCut |-> FALSE, panicked |-> FALSE,
        screen |-> [r \in Window |-> <<>>]])

Untouched == Opened(<< <<>> >>)
EditorInit == ed = Untouched

\* The bounds.
Small(e) ==
  /\ Len(FlattenSeq(e.text)) <= MaxText /\ Len(e.text) <= MaxLines + 1
  /\ Len(FlattenSeq(e.cut)) <= MaxCut /\ Len(e.cut) <= MaxLines
  /\ e.cx <= 2 * WrapCol

\* run: after any key but a cut, the next cut starts anew.
Press(e, cuts) == ~ed.panicked /\ Small(e) /\ ed' = [e EXCEPT !.lastCut = cuts]

MoveKey ==
  \E e \in {moveCursorUp(ed), moveCursorDown(ed), moveCursorLeft(ed),
            moveCursorRight(ed), Home(ed), End(ed), pageUp(ed), pageDown(ed)} :
    Press(e, FALSE)
TypeKey == \E c \in Characters : Press(insertChar(ed, c), FALSE)
BreakKey == \E e \in {splitLine(ed), insertBlankLine(ed)} : Press(e, FALSE)
EraseKey ==
  \E e \in {backspace(ed), deleteForward(ed), deleteWordBackward(ed),
            deleteWordForward(ed), deleteLine(ed)} : Press(e, FALSE)
CutKey == Press(cutLine(ed), TRUE)
PasteKey == Press(pasteCutBuffer(ed), FALSE)
ToggleKey == Press(toggleInsert(ed), FALSE)
\* Ctrl+L, the help page, an abort that is not confirmed.
RedrawKey == Press(draw(ed), FALSE)

AnyKey ==
  \/ MoveKey \/ TypeKey \/ BreakKey \/ EraseKey
  \/ CutKey \/ PasteKey \/ ToggleKey \/ RedrawKey

EditorSpec == EditorInit /\ [][AnyKey]_ed

-----------------------------------------------------------------------------
EditorTypeOK ==
  /\ ed.text \in Seq(Seq(Characters)) /\ ed.cut \in Seq(Seq(Characters))
  /\ ed.cx \in Nat /\ ed.cy \in 0..LastLine(ed)
  /\ ed.top \in Nat /\ {ed.insert, ed.lastCut, ed.panicked} \subseteq BOOLEAN
  /\ DOMAIN ed.screen = Window

\* After every key the terminal shows the part of the text that the window
\* is at, with the cursor's line, and only it, highlighted - although no key
\* draws more than it changed.
ScreenShows ==
  /\ ed.cy \in ed.top..(ed.top + EditRows - 1)
  /\ \A r \in Window : ed.screen[r] = Look(ed, ed.top + r)

\* The letters of a text in their order, and how many are before the cursor.
Flat(text) == SelectSeq(FlattenSeq(text), LAMBDA c : c # Space)
Caret(e) == Len(Flat(Append(SubSeq(e.text, 1, e.cy), Before(e))))
LineCaret(e) == Len(Flat(SubSeq(e.text, 1, e.cy)))

\* A key changes the text only at the cursor: wrapping, splitting and joining
\* lines move blanks and nothing else; letters are put in at the cursor (or
\* above its line), one is replaced there, or some around it are taken out.
\* A line taken out with Ctrl+K or Ctrl+Y is in the cut buffer.
TextKept ==
  [][LET f == Flat(ed.text)
         g == Flat(ed'.text)
         Same(a, b) ==  \* up to a, and what follows it behind b
           /\ SubSeq(f, 1, a) = SubSeq(g, 1, a)
           /\ SubSeq(f, b + 1, Len(f))
                = SubSeq(g, b + 1 + Len(g) - Len(f), Len(g))
         c == Caret(ed)
     IN /\ CASE Len(g) > Len(f) -> \E a \in {c, LineCaret(ed)} : Same(a, a)
             [] Len(g) = Len(f) -> Same(c, c + 1)
             [] Len(g) < Len(f) -> \E a \in 0..c, b \in c..Len(f) :
                                     Len(g) = Len(f) - (b - a) /\ Same(a, b)
        /\ ed'.cut # ed.cut /\ ed' # Untouched =>
             Last(ed'.cut) = LineOf(ed)]_ed
=============================================================================
