---------------------------- MODULE EditorProofs ----------------------------
(***************************************************************************)
(* Theorems about FullScreenEditor, for any size of the window and of the  *)
(* lines, any text and any keys.                                           *)
(*                                                                         *)
(* A key changes some lines, moves the cursor, lets ensureCursorVisible    *)
(* scroll (which draws everything) or not (which draws nothing), and draws *)
(* one or two lines, or all from some line on.  So a key is right if every *)
(* line that looks different after it is among those it draws: FromLine    *)
(* and TwoLines say this once for all keys, and what is left to prove of a *)
(* key is which lines look different.                                      *)
(***************************************************************************)
EXTENDS FullScreenEditor, WellFoundedInduction, TLAPS

Line == Seq(Characters)
Looks == (Line \X BOOLEAN) \cup {<<>>}
Fields ==
  [text : Seq(Line), cy : Nat, cx : Nat, top : Nat, insert : BOOLEAN,
   cut : Seq(Line), lastCut : BOOLEAN, panicked : BOOLEAN,
   screen : [Window -> Looks]]

Fine(e) == e \in Fields /\ e.cy < Len(e.text)
Within(e) == e.top <= e.cy /\ e.cy < e.top + EditRows
Shown(e) == Within(e) /\ \A r \in Window : e.screen[r] = Look(e, e.top + r)
Good(e) == Fine(e) /\ Shown(e)

\* All but what is drawn and where the window is.
SameText(v, e) ==
  /\ v.text = e.text /\ v.cy = e.cy /\ v.cx = e.cx /\ v.insert = e.insert
  /\ v.cut = e.cut /\ v.lastCut = e.lastCut /\ v.panicked = e.panicked

-----------------------------------------------------------------------------
(* Numbers and sequences.                                                  *)

\* A set of naturals has its smallest member, ...
LEMMA Smallest ==
  ASSUME NEW S, S \subseteq Nat, S # {}
  PROVE  \E x \in S : \A y \in S : x <= y
<1> DEFINE Lower == OpToRel(<, Nat)
<1>1. PICK x \in S : \A y \in S : <<y, x>> \notin Lower
  BY WFMin, NatLessThanWellFounded
<1>2. \A m, n \in Nat : <<m, n>> \in Lower <=> m < n
  BY DEF OpToRel
<1> HIDE DEF Lower
<1>3. x \in Nat /\ \A y \in S : y \in Nat /\ ~(y < x)
  BY <1>1, <1>2
<1>4. QED
  BY <1>3

\* ... and a bounded one its largest.
LEMMA Largest ==
  ASSUME NEW n \in Nat, NEW S, S \subseteq 0..n, S # {}
  PROVE  \E x \in S : \A y \in S : y <= x
<1> DEFINE T == {n - y : y \in S}
<1>1. T \subseteq Nat
  OBVIOUS
<1>2. \A y \in S : n - y \in T
  OBVIOUS
<1>3. T # {}
  BY <1>2
<1>4. PICK t \in T : \A u \in T : t <= u
  <2> HIDE DEF T
  <2>1. QED
    BY <1>1, <1>3, Smallest
<1>5. PICK x \in S : t = n - x
  BY <1>4
<1>6. \A y \in S : n - x <= n - y /\ x \in 0..n /\ y \in 0..n
  BY <1>4, <1>5, <1>2
<1>7. QED
  BY <1>6

\* A line put into a text: those before it stay, those behind it move by one.
LEMMA Inserted ==
  ASSUME NEW s \in Seq(Line), NEW x \in Line, NEW i \in 1..(Len(s) + 1)
  PROVE  LET t == InsertAt(s, i, x) IN
         /\ t \in Seq(Line) /\ Len(t) = Len(s) + 1 /\ t[i] = x
         /\ \A j \in 1..(i - 1) : t[j] = s[j]
         /\ \A j \in i..Len(s) : t[j + 1] = s[j]
<1> DEFINE a == SubSeq(s, 1, i - 1)
           b == SubSeq(s, i, Len(s))
<1>1. a \in Seq(Line) /\ Len(a) = i - 1 /\ \A j \in 1..(i - 1) : a[j] = s[j]
  OBVIOUS
<1>2. /\ b \in Seq(Line) /\ Len(b) = Len(s) - i + 1
      /\ \A j \in 1..(Len(s) - i + 1) : b[j] = s[i + j - 1]
  OBVIOUS
<1>3. \A j \in i..Len(s) : b[j - i + 1] = s[j]
  BY <1>2
<1>4. InsertAt(s, i, x) = (a \o <<x>>) \o b
  BY DEF InsertAt
<1> HIDE DEF a, b
<1> DEFINE c == a \o <<x>>
<1>5. /\ c \in Seq(Line) /\ Len(c) = i /\ c[i] = x
      /\ \A j \in 1..(i - 1) : c[j] = s[j]
  BY <1>1
<1> HIDE DEF c
<1>6. /\ c \o b \in Seq(Line) /\ Len(c \o b) = Len(s) + 1
      /\ \A j \in 1..i : (c \o b)[j] = c[j]
      /\ \A j \in 1..Len(b) : (c \o b)[i + j] = b[j]
  BY <1>2, <1>5
<1>7. \A j \in i..Len(s) : (c \o b)[j + 1] = s[j]
  BY <1>2, <1>3, <1>6
<1>8. QED
  BY <1>4, <1>5, <1>6, <1>7 DEF c

\* A line taken out of a text.
LEMMA Removed ==
  ASSUME NEW s \in Seq(Line), NEW i \in 1..Len(s)
  PROVE  LET t == RemoveAt(s, i) IN
         /\ t \in Seq(Line) /\ Len(t) = Len(s) - 1
         /\ \A j \in 1..(i - 1) : t[j] = s[j]
         /\ \A j \in i..(Len(s) - 1) : t[j] = s[j + 1]
<1> DEFINE a == SubSeq(s, 1, i - 1)
           b == SubSeq(s, i + 1, Len(s))
<1>1. a \in Seq(Line) /\ Len(a) = i - 1 /\ \A j \in 1..(i - 1) : a[j] = s[j]
  OBVIOUS
<1>2. /\ b \in Seq(Line) /\ Len(b) = Len(s) - i
      /\ \A j \in 1..(Len(s) - i) : b[j] = s[i + j]
  OBVIOUS
<1>3. \A j \in i..(Len(s) - 1) : b[j - i + 1] = s[j + 1]
  BY <1>2
<1>4. RemoveAt(s, i) = a \o b
  BY DEF RemoveAt
<1> HIDE DEF a, b
<1>5. /\ a \o b \in Seq(Line) /\ Len(a \o b) = Len(s) - 1
      /\ \A j \in 1..(i - 1) : (a \o b)[j] = a[j]
      /\ \A j \in 1..Len(b) : (a \o b)[i - 1 + j] = b[j]
  <2>1. PICK n \in Nat : n = i - 1
    OBVIOUS
  <2>2. a \in Seq(Line) /\ b \in Seq(Line) /\ Len(a) = n
    BY <1>1, <1>2, <2>1
  <2>3. /\ a \o b \in Seq(Line) /\ Len(a \o b) = n + Len(b)
        /\ \A j \in 1..n : (a \o b)[j] = a[j]
        /\ \A j \in 1..Len(b) : (a \o b)[n + j] = b[j]
    BY <2>2
  <2>4. QED
    BY <1>2, <2>1, <2>3
<1>6. \A j \in i..(Len(s) - 1) : (a \o b)[j] = s[j + 1]
  BY <1>2, <1>3, <1>5
<1>7. QED
  BY <1>1, <1>4, <1>5, <1>6

\* The bound of a column.
LEMMA Columns ==
  ASSUME NEW e, Fine(e)
  PROVE  /\ LineOf(e) \in Line /\ Col(e) \in 0..Len(LineOf(e)) /\
              Col(e) <= e.cx
         /\ Before(e) \in Line /\ Len(Before(e)) = Col(e)
         /\ Behind(e) \in Line /\ Len(Behind(e)) = Len(LineOf(e)) - Col(e)
         /\ LastLine(e) \in Nat /\ e.cy \in 0..LastLine(e)
<1>1. LineOf(e) \in Line /\ Len(LineOf(e)) \in Nat /\ e.cx \in Nat
  BY DEF Fine, Fields, LineOf, Line
<1>2. Col(e) \in 0..Len(LineOf(e)) /\ Col(e) <= e.cx
  BY <1>1 DEF Col
<1>3. LastLine(e) \in Nat /\ e.cy \in 0..LastLine(e)
  BY DEF Fine, Fields, LastLine
<1>4. Before(e) \in Line /\ Len(Before(e)) = Col(e)
  BY <1>1, <1>2 DEF Before, Line
<1>5. Behind(e) \in Line /\ Len(Behind(e)) = Len(LineOf(e)) - Col(e)
  BY <1>1, <1>2 DEF Behind, Line
<1>6. QED
  BY <1>1, <1>2, <1>3, <1>4, <1>5

\* A word begins in its line, at the column or before it, ...
LEMMA WordStarts ==
  ASSUME NEW line \in Line, NEW col \in 0..Len(line)
  PROVE  WordStart(line, col) \in 0..col
<1> DEFINE Skip(i, inside) ==
             CHOOSE k \in 0..i : /\ \A j \in (k + 1)..i : inside[j]
                                 /\ k = 0 \/ ~inside[k]
<1>1. ASSUME NEW i \in Nat, NEW inside
      PROVE  Skip(i, inside) \in 0..i
  <2> DEFINE K == {k \in 0..i : k = 0 \/ ~inside[k]}
  <2>1. K \subseteq 0..i /\ 0 \in K
    OBVIOUS
  <2>2. PICK k \in K : \A j \in K : j <= k
    BY <2>1, Largest
  <2>3. k \in 0..i /\ (k = 0 \/ ~inside[k])
    OBVIOUS
  <2>4. \A j \in (k + 1)..i : inside[j]
    BY <2>2, <2>3
  <2>5. QED
    BY <2>3, <2>4
<1>2. Len(line) \in Nat
  BY DEF Line
<1>3. QED
  <2> DEFINE blank == [j \in 1..Len(line) |-> line[j] = Space]
             solid == [j \in 1..Len(line) |-> ~blank[j]]
  <2>1. WordStart(line, col) = Skip(Skip(col, blank), solid)
    BY DEF WordStart
  <2> HIDE DEF Skip, blank, solid
  <2>2. Skip(col, blank) \in 0..col
    BY <1>1, <1>2
  <2>3. Skip(Skip(col, blank), solid) \in 0..Skip(col, blank)
    BY <1>1, <1>2, <2>2
  <2>4. QED
    BY <1>2, <2>2, <2>3, <2>1

\* ... and ends in it, at the column or behind it.
LEMMA WordEnds ==
  ASSUME NEW line \in Line, NEW col \in 0..Len(line)
  PROVE  WordEnd(line, col) \in col..Len(line)
<1>1. Reverse(line) \in Line /\ Len(Reverse(line)) = Len(line) /\
      Len(line) \in Nat
  BY DEF Line, Reverse
<1>2. WordStart(Reverse(line), Len(line) - col) \in 0..(Len(line) - col)
  BY <1>1, WordStarts
<1>3. QED
  BY <1>1, <1>2 DEF WordEnd

\* What is left of a line without its first blanks is a line.
LEMMA Trimmed ==
  ASSUME NEW line \in Line
  PROVE  TrimLeft(line) \in Line
<1> DEFINE kept == {i \in 1..Len(line) : line[i] # Space}
           S == kept \cup {Len(line) + 1}
           first == CHOOSE i \in S : \A j \in kept : i <= j
<1>1. Len(line) \in Nat /\ S \subseteq 1..(Len(line) + 1) /\ S # {}
  BY DEF Line
<1>2. \E i \in S : \A j \in kept : i <= j
  <2>1. S \subseteq Nat
    BY <1>1
  <2>2. PICK i \in S : \A j \in S : i <= j
    BY <1>1, <2>1, Smallest
  <2>3. QED
    BY <2>2
<1>3. first \in S
  BY <1>2
<1>4. TrimLeft(line) = SubSeq(line, first, Len(line))
  BY DEF TrimLeft
<1> HIDE DEF first
<1>5. first \in 1..(Len(line) + 1)
  BY <1>1, <1>3
<1>6. QED
  BY <1>1, <1>4, <1>5 DEF Line

-----------------------------------------------------------------------------
(* Drawing.                                                                *)

LEMMA LookIs ==
  ASSUME NEW e, Fine(e), NEW i \in Nat
  PROVE  Look(e, i) \in Looks
<1>1. e.text \in Seq(Line) /\ Len(e.text) \in Nat
  BY DEF Fine, Fields
<1>2. CASE i <= LastLine(e)
  <2>1. e.text[i + 1] \in Line
    BY <1>1, <1>2 DEF LastLine
  <2>2. QED
    BY <1>2, <2>1 DEF Look, Looks
<1>3. CASE ~(i <= LastLine(e))
  BY <1>3 DEF Look, Looks
<1>4. QED
  BY <1>2, <1>3

\* Two editors show a line alike if they have the same there and have the
\* cursor both in it or both elsewhere.
LEMMA Alike ==
  ASSUME NEW e, NEW u, NEW j \in Nat, Fine(e), Fine(u),
         j = u.cy <=> j = e.cy,
         j < Len(u.text) <=> j < Len(e.text),
         j < Len(u.text) => u.text[j + 1] = e.text[j + 1]
  PROVE  Look(u, j) = Look(e, j)
<1>1. PICK m \in Nat, n \in Nat : m = Len(u.text) /\ n = Len(e.text)
  BY DEF Fine, Fields
<1>2. (j <= m - 1 <=> j < m) /\ (j <= n - 1 <=> j < n)
  BY <1>1
<1>3. QED
  BY <1>1, <1>2 DEF Look, LastLine

LEMMA SameLooks ==
  ASSUME NEW e, NEW u, SameText(u, e)
  PROVE  \A j : Look(u, j) = Look(e, j)
  BY DEF SameText, Look, LastLine

\* redrawFromLine.
LEMMA DrawFrom ==
  ASSUME NEW e, Fine(e), NEW i \in Int
  PROVE  LET w == redrawFromLine(e, i) IN
         /\ Fine(w) /\ SameText(w, e) /\ w.top = e.top
         /\ \A r \in Window : w.screen[r] =
              IF e.top + r < i THEN e.screen[r] ELSE Look(w, e.top + r)
<1> DEFINE w == redrawFromLine(e, i)
           s == [r \in Window |-> IF e.top + r < i THEN e.screen[r]
                                  ELSE Look(e, e.top + r)]
<1>1. e \in Fields /\ w = [e EXCEPT !.screen = s]
  BY DEF Fine, redrawFromLine
<1>2. \A r \in Window : e.top + r \in Nat
  BY <1>1, EditorAssumption DEF Fields, Window
<1>3. s \in [Window -> Looks]
  BY <1>1, <1>2, LookIs DEF Fields
<1> HIDE DEF s
<1>4. Fine(w) /\ SameText(w, e) /\ w.top = e.top /\ w.screen = s
  BY <1>1, <1>3 DEF Fields, SameText, Fine
<1>5. \A r \in Window : s[r] =
        IF e.top + r < i THEN e.screen[r] ELSE Look(e, e.top + r)
  BY DEF s
<1>6. QED
  BY <1>4, <1>5, SameLooks

\* redrawLine.
LEMMA DrawLine ==
  ASSUME NEW e, Fine(e), NEW i \in Nat
  PROVE  LET w == redrawLine(e, i) IN
         /\ Fine(w) /\ SameText(w, e) /\ w.top = e.top
         /\ \A r \in Window : w.screen[r] =
              IF e.top + r = i THEN Look(w, i) ELSE e.screen[r]
<1> DEFINE w == redrawLine(e, i)
<1>1. e \in Fields /\ e.top \in Nat /\ EditRows \in Nat
  BY EditorAssumption DEF Fine, Fields
<1>2. CASE i >= e.top /\ i < e.top + EditRows
  <2>1. i - e.top \in Window
    BY <1>1, <1>2 DEF Window
  <2> DEFINE s == [e.screen EXCEPT ![i - e.top] = Look(e, i)]
  <2>2. w = [e EXCEPT !.screen = s]
    BY <1>2 DEF redrawLine
  <2>3. Look(e, i) \in Looks /\ e.screen \in [Window -> Looks]
    BY <1>1, LookIs DEF Fields
  <2>4. s \in [Window -> Looks]
    BY <2>1, <2>3
  <2> HIDE DEF s, w
  <2>5. /\ Fine(w) /\ SameText(w, e) /\ w.top = e.top
        /\ w.screen = s
    BY <1>1, <2>2, <2>4 DEF Fields, SameText, Fine
  <2>6. \A r \in Window : r = i - e.top <=> e.top + r = i
    BY <1>1 DEF Window
  <2>7. \A r \in Window : w.screen[r] =
          IF e.top + r = i THEN Look(e, i) ELSE e.screen[r]
    BY <2>1, <2>3, <2>5, <2>6 DEF s
  <2>8. QED
    BY <2>5, <2>7, SameLooks DEF w
<1>3. CASE ~(i >= e.top /\ i < e.top + EditRows)
  <2>1. w = e
    BY <1>3 DEF redrawLine
  <2>2. \A r \in Window : e.top + r # i
    BY <1>1, <1>3 DEF Window
  <2>3. QED
    BY <2>1, <2>2 DEF SameText
<1>4. QED
  BY <1>2, <1>3

\* Drawing everything around the cursor.
LEMMA DrawAll ==
  ASSUME NEW e, Fine(e), Within(e)
  PROVE  Good(draw(e)) /\ SameText(draw(e), e)
<1> DEFINE w == draw(e)
<1>1. /\ Fine(w) /\ SameText(w, e) /\ w.top = e.top
      /\ \A r \in Window : w.screen[r] =
           IF e.top + r < 0 THEN e.screen[r] ELSE Look(w, e.top + r)
  BY DrawFrom DEF draw
<1>2. \A r \in Window : ~(e.top + r < 0)
  BY EditorAssumption DEF Window, Fine, Fields
<1>3. Within(w)
  BY <1>1 DEF Within, SameText
<1>4. QED
  BY <1>1, <1>2, <1>3 DEF Good, Shown

\* ensureCursorVisible draws everything or nothing.
LEMMA Visible ==
  ASSUME NEW e, Fine(e)
  PROVE  LET v == ensureCursorVisible(e) IN
         /\ Fine(v) /\ SameText(v, e) /\ Within(v)
         /\ Shown(v) \/ v = e
<1> DEFINE v == ensureCursorVisible(e)
<1>1. e \in Fields /\ EditRows \in Nat \ {0} /\ e.cy \in Nat /\ e.top \in Nat
  BY EditorAssumption DEF Fine, Fields
<1>2. CASE e.cy < e.top
  <2> DEFINE u == [e EXCEPT !.top = e.cy]
  <2>1. v = draw(u)
    BY <1>1, <1>2 DEF ensureCursorVisible
  <2>2. Fine(u) /\ SameText(u, e) /\ u.top = e.cy /\ u.cy = e.cy
    BY <1>1 DEF Fine, Fields, SameText
  <2>3. Within(u)
    BY <1>1, <2>2 DEF Within
  <2> HIDE DEF u
  <2>4. QED
    BY <2>1, <2>2, <2>3, DrawAll DEF Good, Shown, SameText
<1>3. CASE e.cy >= e.top + EditRows
  <2> DEFINE u == [e EXCEPT !.top = e.cy - EditRows + 1]
  <2>1. v = draw(u)
    BY <1>1, <1>3 DEF ensureCursorVisible
  <2>2. e.cy - EditRows + 1 \in Nat
    BY <1>1, <1>3
  <2>3. Fine(u) /\ SameText(u, e) /\ u.top = e.cy - EditRows + 1 /\ u.cy = e.cy
    BY <1>1, <2>2 DEF Fine, Fields, SameText
  <2>4. Within(u)
    BY <1>1, <2>3 DEF Within
  <2> HIDE DEF u
  <2>5. QED
    BY <2>1, <2>3, <2>4, DrawAll DEF Good, Shown, SameText
<1>4. CASE ~(e.cy < e.top) /\ ~(e.cy >= e.top + EditRows)
  <2>1. v = e
    BY <1>4 DEF ensureCursorVisible
  <2>2. QED
    BY <1>1, <1>4, <2>1 DEF Within, SameText
<1>5. QED
  BY <1>2, <1>3, <1>4

\* What is shown after ensureCursorVisible: all, or what was before.
LEMMA Scrolled ==
  ASSUME NEW e, NEW u, Good(e), Fine(u), u.top = e.top, u.screen = e.screen
  PROVE  LET v == ensureCursorVisible(u) IN
         /\ Fine(v) /\ SameText(v, u) /\ Within(v)
         /\ \A r \in Window : /\ v.top + r \in Nat
                              /\ v.screen[r] \in {Look(v, v.top + r),
                                                  Look(e, v.top + r)}
<1> DEFINE v == ensureCursorVisible(u)
<1>1. Fine(v) /\ SameText(v, u) /\ Within(v) /\ (Shown(v) \/ v = u)
  BY Visible
<1> HIDE DEF v
<1>2. \A r \in Window : v.top + r \in Nat
  BY <1>1, EditorAssumption DEF Fine, Fields, Window
<1>3. \A r \in Window : v.screen[r] \in {Look(v, v.top + r), Look(e, v.top + r)}
  BY <1>1 DEF Shown, Good
<1>4. QED
  BY <1>1, <1>2, <1>3 DEF v

\* A key that draws from a line on is right if no line before it changed.
LEMMA FromLine ==
  ASSUME NEW e, NEW u, Good(e), Fine(u), u.top = e.top, u.screen = e.screen,
         NEW i \in Int, \A j \in Nat : j < i => Look(u, j) = Look(e, j)
  PROVE  Good(redrawFromLine(ensureCursorVisible(u), i))
<1> DEFINE v == ensureCursorVisible(u)
           w == redrawFromLine(v, i)
<1>1. /\ Fine(v) /\ SameText(v, u) /\ Within(v)
      /\ \A r \in Window : /\ v.top + r \in Nat
                           /\ v.screen[r] \in {Look(v, v.top + r),
                                               Look(e, v.top + r)}
  BY Scrolled
<1> HIDE DEF v
<1>2. /\ Fine(w) /\ SameText(w, v) /\ w.top = v.top
      /\ \A r \in Window : w.screen[r] =
           IF v.top + r < i THEN v.screen[r] ELSE Look(w, v.top + r)
  BY <1>1, DrawFrom
<1> HIDE DEF w
<1>3. (\A j : Look(v, j) = Look(u, j)) /\ (\A j : Look(w, j) = Look(v, j))
  BY <1>1, <1>2, SameLooks
<1>4. \A r \in Window : w.screen[r] = Look(w, w.top + r)
  BY <1>1, <1>2, <1>3
<1>5. Within(w)
  BY <1>1, <1>2 DEF Within, SameText
<1>6. QED
  BY <1>2, <1>4, <1>5 DEF Good, Shown, v, w

\* A key that draws two lines is right if no other changed.
LEMMA TwoLines ==
  ASSUME NEW e, NEW u, Good(e), Fine(u), u.top = e.top, u.screen = e.screen,
         NEW i \in Nat, NEW k \in Nat,
         \A j \in Nat \ {i, k} : Look(u, j) = Look(e, j)
  PROVE  Good(redrawLine(redrawLine(ensureCursorVisible(u), i), k))
<1> DEFINE v == ensureCursorVisible(u)
           w == redrawLine(v, i)
           x == redrawLine(w, k)
<1>1. /\ Fine(v) /\ SameText(v, u) /\ Within(v)
      /\ \A r \in Window : /\ v.top + r \in Nat
                           /\ v.screen[r] \in {Look(v, v.top + r),
                                               Look(e, v.top + r)}
  BY Scrolled
<1> HIDE DEF v
<1>2. /\ Fine(w) /\ SameText(w, v) /\ w.top = v.top
      /\ \A r \in Window : w.screen[r] =
           IF v.top + r = i THEN Look(w, i) ELSE v.screen[r]
  BY <1>1, DrawLine
<1> HIDE DEF w
<1>3. /\ Fine(x) /\ SameText(x, w) /\ x.top = w.top
      /\ \A r \in Window : x.screen[r] =
           IF w.top + r = k THEN Look(x, k) ELSE w.screen[r]
  BY <1>2, DrawLine
<1> HIDE DEF x
<1>4. /\ \A j : Look(v, j) = Look(u, j)
      /\ \A j : Look(w, j) = Look(v, j)
      /\ \A j : Look(x, j) = Look(w, j)
  BY <1>1, <1>2, <1>3, SameLooks
<1>5. ASSUME NEW r \in Window PROVE x.screen[r] = Look(x, x.top + r)
  <2>1. CASE v.top + r = k
    BY <2>1, <1>2, <1>3
  <2>2. CASE v.top + r = i /\ i # k
    BY <2>2, <1>2, <1>3, <1>4
  <2>3. CASE v.top + r \notin {i, k}
    BY <2>3, <1>1, <1>2, <1>3, <1>4
  <2>4. QED
    BY <2>1, <2>2, <2>3
<1>6. Within(x)
  BY <1>1, <1>2, <1>3 DEF Within, SameText
<1>7. QED
  BY <1>3, <1>5, <1>6 DEF Good, Shown, v, w, x

\* A key that stays in its line draws it.
LEMMA OneLine ==
  ASSUME NEW e, NEW u, Good(e), Fine(u), u.top = e.top, u.screen = e.screen,
         u.cy = e.cy, NEW i \in Nat, \A j \in Nat \ {i} : Look(u,
           j) = Look(e, j)
  PROVE  Good(redrawLine(u, i))
<1> DEFINE w == redrawLine(u, i)
<1>1. /\ Fine(w) /\ SameText(w, u) /\ w.top = u.top
      /\ \A r \in Window : w.screen[r] =
           IF u.top + r = i THEN Look(w, i) ELSE u.screen[r]
  BY DrawLine
<1> HIDE DEF w
<1>2. \A j : Look(w, j) = Look(u, j)
  BY <1>1, SameLooks
<1>3. \A r \in Window : e.top + r \in Nat
  BY EditorAssumption DEF Good, Fine, Fields, Window
<1>4. \A r \in Window : w.screen[r] = Look(w, w.top + r)
  BY <1>1, <1>2, <1>3 DEF Good, Shown
<1>5. Within(w)
  BY <1>1 DEF Within, SameText, Good, Shown
<1>6. QED
  BY <1>1, <1>4, <1>5 DEF Good, Shown, w

\* A key that changes nothing that is shown.
LEMMA NothingDrawn ==
  ASSUME NEW e, NEW u, Good(e), u \in Fields, u.text = e.text, u.cy = e.cy,
         u.top = e.top, u.screen = e.screen
  PROVE  Good(u)
<1>1. Fine(u)
  BY DEF Good, Fine
<1>2. \A j : Look(u, j) = Look(e, j)
  BY DEF Look, LastLine
<1>3. QED
  BY <1>1, <1>2 DEF Good, Shown, Within

-----------------------------------------------------------------------------
(* Moving the cursor.                                                      *)

\* The cursor moved in its line.
LEMMA Aside ==
  ASSUME NEW e, Good(e), NEW x \in Nat
  PROVE  Good([e EXCEPT !.cx = x])
<1> DEFINE u == [e EXCEPT !.cx = x]
<1>1. /\ u \in Fields /\ u.text = e.text /\ u.cy = e.cy /\ u.top = e.top
      /\ u.screen = e.screen
  BY DEF Good, Fine, Fields
<1> HIDE DEF u
<1>2. QED
  BY <1>1, NothingDrawn DEF u

\* A key that moves the cursor, shows it and draws the line it comes to and
\* the one it left.
LEMMA MovesShown ==
  ASSUME NEW e, Good(e), NEW y \in 0..LastLine(e), NEW x \in Nat
  PROVE  LET u == [e EXCEPT !.cy = y, !.cx = x] IN
         /\ ensureCursorVisible(u).cy = y
         /\ Good(redrawLine(redrawLine(ensureCursorVisible(u), y), e.cy))
<1> DEFINE u == [e EXCEPT !.cy = y, !.cx = x]
<1>1. e \in Fields /\ y \in Nat /\ y < Len(e.text)
  BY DEF Good, Fine, Fields, LastLine
<1>2. /\ Fine(u) /\ u.top = e.top /\ u.screen = e.screen /\ u.cy = y
      /\ u.text = e.text
  BY <1>1 DEF Fine, Fields
<1> HIDE DEF u
<1>3. \A j \in Nat \ {y, e.cy} : Look(u, j) = Look(e, j)
  BY <1>2, Alike DEF Good
<1>4. /\ Fine(u) /\ u.top = e.top /\ u.screen = e.screen /\ u.cy = y
      /\ \A j \in Nat \ {y, e.cy} : Look(u, j) = Look(e, j)
  BY <1>2, <1>3
<1>5. ensureCursorVisible(u).cy = y
  BY <1>4, Visible DEF SameText
<1>6. y \in Nat /\ e.cy \in Nat
  BY DEF Good, Fine, Fields, LastLine
<1>7. Good(redrawLine(redrawLine(ensureCursorVisible(u), y), e.cy))
  BY <1>4, <1>6, TwoLines
<1>8. QED
  BY <1>5, <1>7 DEF u

\* Clipped, the cursor is in its line.
LEMMA Clipped ==
  ASSUME NEW e, Fine(e)
  PROVE  \E x \in Nat : Clip(e) = [e EXCEPT !.cx = x]
  BY Columns DEF Clip

\* moveCursorUp and moveCursorDown clip the cursor in the line they come to.
LEMMA MovedAndClipped ==
  ASSUME NEW e, Good(e), NEW y \in 0..LastLine(e)
  PROVE  \E x \in Nat : Clip([e EXCEPT !.cy = y]) = [e EXCEPT !.cy = y,
         !.cx = x]
<1> DEFINE u == [e EXCEPT !.cy = y]
<1>1. Fine(u)
  BY DEF Good, Fine, Fields, LastLine
<1> HIDE DEF u
<1>2. PICK x \in Nat : Clip(u) = [u EXCEPT !.cx = x]
  BY <1>1, Clipped
<1>3. [u EXCEPT !.cx = x] = [e EXCEPT !.cy = y, !.cx = x]
  BY DEF Good, Fine, Fields, u
<1>4. QED
  BY <1>2, <1>3 DEF u

LEMMA UpGood == ASSUME NEW e, Good(e) PROVE Good(moveCursorUp(e))
<1>1. e.cy \in 0..LastLine(e) /\ e \in Fields
  BY Columns DEF Good, Fine
<1>2. CASE e.cy = 0
  BY <1>2 DEF moveCursorUp
<1>3. CASE e.cy # 0
  <2>1. e.cy - 1 \in 0..LastLine(e) /\ (e.cy - 1) + 1 = e.cy
    BY <1>1, <1>3, Columns DEF Good
  <2>2. PICK x \in Nat : Clip([e EXCEPT !.cy = e.cy - 1])
                           = [e EXCEPT !.cy = e.cy - 1, !.cx = x]
    BY <2>1, MovedAndClipped
  <2> DEFINE v == ensureCursorVisible(Clip([e EXCEPT !.cy = @ - 1]))
  <2>3. v = ensureCursorVisible([e EXCEPT !.cy = e.cy - 1, !.cx = x])
    BY <2>2
  <2>4. moveCursorUp(e) = redrawLine(redrawLine(v, v.cy), v.cy + 1)
    BY <1>3 DEF moveCursorUp
  <2> HIDE DEF v
  <2>5. PICK y \in 0..LastLine(e) : y = e.cy - 1
    BY <2>1
  <2>6. ensureCursorVisible([e EXCEPT !.cy = y, !.cx = x]) = v
    BY <2>3, <2>5
  <2>7. v.cy = y /\ Good(redrawLine(redrawLine(v, y), e.cy))
    BY <2>6, MovesShown
  <2>8. QED
    BY <2>1, <2>4, <2>5, <2>7
<1>4. QED
  BY <1>2, <1>3

LEMMA DownGood == ASSUME NEW e, Good(e) PROVE Good(moveCursorDown(e))
<1>1. e.cy \in 0..LastLine(e) /\ LastLine(e) \in Nat /\ e \in Fields
  BY Columns DEF Good, Fine
<1>2. CASE e.cy >= LastLine(e)
  BY <1>2 DEF moveCursorDown
<1>3. CASE ~(e.cy >= LastLine(e))
  <2>1. e.cy + 1 \in 0..LastLine(e) /\ (e.cy + 1) - 1 = e.cy
    BY <1>1, <1>3
  <2>2. PICK x \in Nat : Clip([e EXCEPT !.cy = e.cy + 1])
                           = [e EXCEPT !.cy = e.cy + 1, !.cx = x]
    BY <2>1, MovedAndClipped
  <2> DEFINE v == ensureCursorVisible(Clip([e EXCEPT !.cy = @ + 1]))
  <2>3. v = ensureCursorVisible([e EXCEPT !.cy = e.cy + 1, !.cx = x])
    BY <2>2
  <2>4. moveCursorDown(e) = redrawLine(redrawLine(v, v.cy), v.cy - 1)
    BY <1>3 DEF moveCursorDown
  <2> HIDE DEF v
  <2>5. PICK y \in 0..LastLine(e) : y = e.cy + 1
    BY <2>1
  <2>6. ensureCursorVisible([e EXCEPT !.cy = y, !.cx = x]) = v
    BY <2>3, <2>5
  <2>7. v.cy = y /\ Good(redrawLine(redrawLine(v, y), e.cy))
    BY <2>6, MovesShown
  <2>8. QED
    BY <2>1, <2>4, <2>5, <2>7
<1>4. QED
  BY <1>2, <1>3

LEMMA LeftGood == ASSUME NEW e, Good(e) PROVE Good(moveCursorLeft(e))
<1>1. /\ e.cy \in 0..LastLine(e) /\ LastLine(e) \in Nat /\ e \in Fields
      /\ e.cx \in Nat /\ LastLine(e) + 1 = Len(e.text)
  BY Columns DEF Good, Fine, Fields, LastLine
<1>2. CASE e.cx > 0
  <2>1. e.cx - 1 \in Nat
    BY <1>1, <1>2
  <2>2. QED
    BY <1>2, <2>1, Aside DEF moveCursorLeft
<1>3. CASE ~(e.cx > 0) /\ e.cy = 0
  BY <1>3 DEF moveCursorLeft
<1>4. CASE ~(e.cx > 0) /\ e.cy # 0
  <2> DEFINE x == Len(e.text[e.cy])
             u == [e EXCEPT !.cy = @ - 1, !.cx = Len(e.text[e.cy])]
             v == ensureCursorVisible(u)
  <2>1. e.cy - 1 \in 0..LastLine(e) /\ (e.cy - 1) + 1 = e.cy
    BY <1>1, <1>4
  <2>2. x \in Nat
    <3>1. e.cy \in 1..Len(e.text) /\ e.text \in Seq(Line)
      BY <1>1, <1>4 DEF Fields
    <3>2. e.text[e.cy] \in Line
      BY <3>1
    <3>3. QED
      BY <3>2 DEF Line
  <2>3. v = ensureCursorVisible([e EXCEPT !.cy = e.cy - 1, !.cx = x])
    OBVIOUS
  <2>4. moveCursorLeft(e) = redrawLine(redrawLine(v, v.cy), v.cy + 1)
    BY <1>4 DEF moveCursorLeft
  <2> HIDE DEF v, u, x
  <2>5. PICK y \in 0..LastLine(e) : y = e.cy - 1
    BY <2>1
  <2>6. ensureCursorVisible([e EXCEPT !.cy = y, !.cx = x]) = v
    BY <2>3, <2>5
  <2>7. v.cy = y /\ Good(redrawLine(redrawLine(v, y), e.cy))
    BY <2>2, <2>6, MovesShown
  <2>8. QED
    BY <2>1, <2>4, <2>5, <2>7
<1>5. QED
  BY <1>2, <1>3, <1>4

LEMMA RightGood == ASSUME NEW e, Good(e) PROVE Good(moveCursorRight(e))
<1>1. /\ e.cy \in 0..LastLine(e) /\ LastLine(e) \in Nat /\ e \in Fields
      /\ e.cx \in Nat
  BY Columns DEF Good, Fine, Fields
<1>2. CASE e.cx < Len(LineOf(e))
  <2>1. e.cx + 1 \in Nat
    BY <1>1
  <2>2. QED
    BY <1>2, <2>1, Aside DEF moveCursorRight
<1>3. CASE ~(e.cx < Len(LineOf(e))) /\ e.cy >= LastLine(e)
  BY <1>3 DEF moveCursorRight
<1>4. CASE ~(e.cx < Len(LineOf(e))) /\ ~(e.cy >= LastLine(e))
  <2> DEFINE v == ensureCursorVisible([e EXCEPT !.cy = @ + 1, !.cx = 0])
  <2>1. e.cy + 1 \in 0..LastLine(e) /\ (e.cy + 1) - 1 = e.cy
    BY <1>1, <1>4
  <2>2. v = ensureCursorVisible([e EXCEPT !.cy = e.cy + 1, !.cx = 0])
    OBVIOUS
  <2>3. moveCursorRight(e) = redrawLine(redrawLine(v, v.cy), v.cy - 1)
    BY <1>4 DEF moveCursorRight
  <2> HIDE DEF v
  <2>4. PICK y \in 0..LastLine(e) : y = e.cy + 1
    BY <2>1
  <2>5. v = ensureCursorVisible([e EXCEPT !.cy = y, !.cx = 0])
    BY <2>2, <2>4
  <2>6. v.cy = y /\ Good(redrawLine(redrawLine(v, y), e.cy))
    BY <2>5, MovesShown
  <2>7. QED
    BY <2>1, <2>3, <2>4, <2>6
<1>5. QED
  BY <1>2, <1>3, <1>4

LEMMA HomeEndGood == ASSUME NEW e, Good(e) PROVE Good(Home(e)) /\ Good(End(e))
<1>1. Len(LineOf(e)) \in Nat
  BY Columns DEF Good, Line
<1>2. QED
  BY <1>1, Aside DEF Home, End

\* Moving the window and the cursor together, and drawing everything.
LEMMA PageShown ==
  ASSUME NEW e, Good(e), NEW y \in 0..LastLine(e), NEW t \in Nat,
         t <= y, y < t + EditRows
  PROVE  Good(draw(Clip([e EXCEPT !.cy = y, !.top = t])))
<1> DEFINE u == [e EXCEPT !.cy = y, !.top = t]
<1>1. e \in Fields /\ y \in Nat /\ y < Len(e.text)
  BY DEF Good, Fine, Fields, LastLine
<1>2. Fine(u) /\ u.cy = y /\ u.top = t
  BY <1>1 DEF Fine, Fields
<1> HIDE DEF u
<1>3. PICK x \in Nat : Clip(u) = [u EXCEPT !.cx = x]
  BY <1>2, Clipped
<1>4. Fine(Clip(u)) /\ Clip(u).cy = y /\ Clip(u).top = t
  BY <1>2, <1>3 DEF Fine, Fields
<1>5. QED
  BY <1>4, DrawAll DEF Within, u

LEMMA PageUpGood == ASSUME NEW e, Good(e) PROVE Good(pageUp(e))
<1> DEFINE y == Less(e.cy, EditRows)
           t == Less(e.top, EditRows)
<1>1. /\ e.cy \in 0..LastLine(e) /\ LastLine(e) \in Nat /\ e.top \in Nat
      /\ EditRows \in Nat \ {0} /\ e.top <= e.cy /\ e.cy < e.top + EditRows
  BY EditorAssumption, Columns DEF Good, Fine, Fields, Shown, Within
<1>2. y \in 0..LastLine(e) /\ t \in Nat /\ t <= y /\ y < t + EditRows
  BY <1>1 DEF Less
<1>3. pageUp(e) = draw(Clip([e EXCEPT !.cy = y, !.top = t]))
  BY DEF pageUp
<1> HIDE DEF y, t
<1>4. QED
  BY <1>2, <1>3, PageShown

LEMMA PageDownGood == ASSUME NEW e, Good(e) PROVE Good(pageDown(e))
<1> DEFINE y == Least(e.cy + EditRows, LastLine(e))
           t == Least(e.top + EditRows, Less(LastLine(e) + 1, EditRows))
<1>1. /\ e.cy \in 0..LastLine(e) /\ LastLine(e) \in Nat /\ e.top \in Nat
      /\ EditRows \in Nat \ {0} /\ e.top <= e.cy /\ e.cy < e.top + EditRows
  BY EditorAssumption, Columns DEF Good, Fine, Fields, Shown, Within
<1>2. y \in 0..LastLine(e) /\ t \in Nat /\ t <= y /\ y < t + EditRows
  BY <1>1 DEF Less, Least
<1>3. pageDown(e) = draw(Clip([e EXCEPT !.cy = y, !.top = t]))
  BY DEF pageDown
<1> HIDE DEF y, t
<1>4. QED
  BY <1>2, <1>3, PageShown

-----------------------------------------------------------------------------
(* Editing.                                                                *)

\* A line changed: it looks different, and no other.
LEMMA LineSet ==
  ASSUME NEW e, Fine(e), NEW line \in Line
  PROVE  LET u == SetLine(e, line) IN
         /\ Fine(u) /\ u.top = e.top /\ u.screen = e.screen /\ u.cy = e.cy
         /\ u.cx = e.cx /\ LineOf(u) = line /\ Len(u.text) = Len(e.text)
         /\ \A j \in 1..Len(e.text) : j # e.cy + 1 => u.text[j] = e.text[j]
<1> DEFINE u == SetLine(e, line)
           t == [e.text EXCEPT ![e.cy + 1] = line]
<1>1. /\ e \in Fields /\ e.text \in Seq(Line) /\ Len(e.text) \in Nat
      /\ e.cy + 1 \in 1..Len(e.text)
  BY DEF Fine, Fields
<1>2. u = [e EXCEPT !.text = t]
  BY <1>1 DEF SetLine, Fields
<1>3. /\ t \in Seq(Line) /\ Len(t) = Len(e.text) /\ t[e.cy + 1] = line
      /\ \A j \in 1..Len(e.text) : j # e.cy + 1 => t[j] = e.text[j]
  BY <1>1
<1> HIDE DEF t
<1>4. /\ u \in Fields /\ u.text = t /\ u.top = e.top /\ u.screen = e.screen
      /\ u.cy = e.cy /\ u.cx = e.cx
  BY <1>1, <1>2, <1>3 DEF Fields
<1> HIDE DEF u
<1>5. Fine(u)
  BY <1>1, <1>3, <1>4 DEF Fine
<1>6. LineOf(u) = line
  BY <1>3, <1>4 DEF LineOf
<1>7. QED
  BY <1>3, <1>4, <1>5, <1>6 DEF u

LEMMA LineSetLooks ==
  ASSUME NEW e, NEW u, Fine(e), Fine(u), u.cy = e.cy,
         Len(u.text) = Len(e.text),
         \A j \in 1..Len(e.text) : j # e.cy + 1 => u.text[j] = e.text[j]
  PROVE  \A j \in Nat \ {e.cy} : Look(u, j) = Look(e, j)
<1> SUFFICES ASSUME NEW j \in Nat \ {e.cy} PROVE Look(u, j) = Look(e, j)
  OBVIOUS
<1>1. Len(e.text) \in Nat /\ e.cy \in Nat
  BY DEF Fine, Fields
<1>2. j < Len(u.text) => u.text[j + 1] = e.text[j + 1]
  BY <1>1
<1>3. QED
  BY <1>2, Alike

\* Changing the cursor's line and column, and drawing the line.
LEMMA LineEdited ==
  ASSUME NEW e, Good(e), NEW line \in Line, NEW x \in Nat
  PROVE  Good(redrawLine([SetLine(e, line) EXCEPT !.cx = x], e.cy))
<1> DEFINE s == SetLine(e, line)
           u == [s EXCEPT !.cx = x]
<1>1. /\ Fine(s) /\ s.top = e.top /\ s.screen = e.screen /\ s.cy = e.cy
      /\ Len(s.text) = Len(e.text)
      /\ \A j \in 1..Len(e.text) : j # e.cy + 1 => s.text[j] = e.text[j]
  BY LineSet DEF Good
<1> HIDE DEF s
<1>2. /\ Fine(u) /\ u.top = s.top /\ u.screen = s.screen /\ u.cy = s.cy
      /\ u.text = s.text
  BY <1>1 DEF Fine, Fields
<1> HIDE DEF u
<1>3. \A j \in Nat \ {e.cy} : Look(u, j) = Look(e, j)
  BY <1>1, <1>2, LineSetLooks DEF Good
<1>4. e.cy \in Nat
  BY DEF Good, Fine, Fields
<1>5. Good(redrawLine(u, e.cy))
  BY <1>1, <1>2, <1>3, <1>4, OneLine
<1>6. QED
  BY <1>5 DEF u, s

\* ... where the cursor stays in its column.
LEMMA LineChanged ==
  ASSUME NEW e, Good(e), NEW line \in Line
  PROVE  Good(redrawLine(SetLine(e, line), e.cy))
<1> DEFINE s == SetLine(e, line)
<1>1. /\ Fine(s) /\ s.top = e.top /\ s.screen = e.screen /\ s.cy = e.cy
      /\ Len(s.text) = Len(e.text)
      /\ \A j \in 1..Len(e.text) : j # e.cy + 1 => s.text[j] = e.text[j]
  BY LineSet DEF Good
<1> HIDE DEF s
<1>2. \A j \in Nat \ {e.cy} : Look(s, j) = Look(e, j)
  BY <1>1, LineSetLooks DEF Good
<1>3. e.cy \in Nat
  BY DEF Good, Fine, Fields
<1>4. QED
  BY <1>1, <1>2, <1>3, OneLine DEF s

\* A text of which the lines from i on are others, with the cursor's line
\* after it and before it among them: drawing from i on is right.
LEMMA TextChanged ==
  ASSUME NEW e, Good(e), NEW u, Fine(u), u.top = e.top, u.screen = e.screen,
         NEW i \in Int, i <= e.cy, i <= u.cy, i <= Len(e.text),
           i <= Len(u.text),
         \A j \in 1..Len(e.text) : j <= i => u.text[j] = e.text[j]
  PROVE  Good(redrawFromLine(ensureCursorVisible(u), i))
<1>1. /\ Len(e.text) \in Nat /\ Len(u.text) \in Nat /\ e.cy \in Nat
      /\ u.cy \in Nat
  BY DEF Good, Fine, Fields
<1>2. ASSUME NEW j \in Nat, j < i PROVE Look(u, j) = Look(e, j)
  <2>1. j < Len(u.text) /\ j < Len(e.text) /\ j # u.cy /\ j # e.cy
    BY <1>1, <1>2
  <2>2. u.text[j + 1] = e.text[j + 1]
    BY <1>1, <1>2
  <2>3. QED
    BY <2>1, <2>2, Alike DEF Good
<1>3. QED
  BY <1>2, FromLine

\* ... which also holds where the window cannot have to be moved.
LEMMA TextChangedHere ==
  ASSUME NEW e, Good(e), NEW u, Fine(u), u.top = e.top, u.screen = e.screen,
         u.cy = e.cy, NEW i \in Int, i <= e.cy, i <= Len(u.text),
         \A j \in 1..Len(e.text) : j <= i => u.text[j] = e.text[j]
  PROVE  Good(redrawFromLine(u, i))
<1>1. /\ e.top <= e.cy /\ e.cy < e.top + EditRows /\ EditRows \in Nat
      /\ e.cy \in Nat /\ e.top \in Nat /\ e.cy < Len(e.text)
      /\ Len(e.text) \in Nat
  BY EditorAssumption DEF Good, Shown, Within, Fine, Fields
<1>2. ~(u.cy < u.top) /\ ~(u.cy >= u.top + EditRows)
  BY <1>1
<1>3. ensureCursorVisible(u) = u
  BY <1>2 DEF ensureCursorVisible
<1>4. i <= u.cy /\ i <= Len(e.text)
  BY <1>1
<1>5. Good(redrawFromLine(ensureCursorVisible(u), i))
  BY <1>4, TextChanged
<1>6. QED
  BY <1>3, <1>5

\* After ensureCursorVisible the cursor is where it was.
LEMMA VisibleCursor ==
  ASSUME NEW u, Fine(u)
  PROVE  ensureCursorVisible(u).cy = u.cy
  BY Visible DEF SameText

\* A line behind the cursor's.
LEMMA LineAfter ==
  ASSUME NEW e, Fine(e), NEW line \in Line
  PROVE  LET u == insertLineAfter(e, line) IN
         /\ Fine(u) /\ u.top = e.top /\ u.screen = e.screen
         /\ u.cy = e.cy /\ u.cx = e.cx /\ Len(u.text) = Len(e.text) + 1
         /\ \A j \in 1..(e.cy + 1) : u.text[j] = e.text[j]
<1> DEFINE t == InsertAt(e.text, e.cy + 2, line)
           u == insertLineAfter(e, line)
<1>1. /\ e \in Fields /\ e.text \in Seq(Line) /\ Len(e.text) \in Nat
      /\ e.cy \in Nat /\ e.cy < Len(e.text)
  BY DEF Fine, Fields
<1>2. PICK i \in 1..(Len(e.text) + 1) : i = e.cy + 2
  BY <1>1
<1>3. /\ t \in Seq(Line) /\ Len(t) = Len(e.text) + 1
      /\ \A j \in 1..(i - 1) : t[j] = e.text[j]
  <2>1. t = InsertAt(e.text, i, line)
    BY <1>2
  <2> HIDE DEF t
  <2>2. QED
    BY <1>1, <2>1, Inserted
<1>4. u = [e EXCEPT !.text = t]
  BY DEF insertLineAfter
<1> HIDE DEF t, u
<1>5. /\ u \in Fields /\ u.top = e.top /\ u.screen = e.screen
      /\ u.cy = e.cy /\ u.cx = e.cx /\ u.text = t
  BY <1>1, <1>3, <1>4 DEF Fields
<1>6. QED
  BY <1>1, <1>2, <1>3, <1>5 DEF Fine, u

\* doWordWrap, once the character is in the line and nothing is drawn.
LEMMA WrapGood ==
  ASSUME NEW e, Good(e), NEW v, Fine(v), v.top = e.top, v.screen = e.screen,
         v.cy = e.cy, Len(v.text) = Len(e.text),
         \A j \in 1..Len(e.text) : j # e.cy + 1 => v.text[j] = e.text[j],
         Len(LineOf(v)) > WrapCol
  PROVE  Good(doWordWrap(v))
<1> DEFINE line == LineOf(v)
           blanks == {i \in 1..(WrapCol - 1) : i < Len(line) /\ line[i + 1] = Space}
           split == IF blanks = {} THEN WrapCol
                    ELSE CHOOSE i \in blanks : \A j \in blanks : j <= i
           s == SetLine(v, SubSeq(line, 1, split))
           u == insertLineAfter(s, TrimLeft(SubSeq(line, split + 1,
             Len(line))))
           w == IF v.cx > split THEN [u EXCEPT !.cy = @ + 1, !.cx = @ - split]
                ELSE u
           x == ensureCursorVisible(w)
<1>1. doWordWrap(v) = redrawFromLine(x, Less(x.cy, 1))
  BY DEF doWordWrap
<1>2. /\ line \in Line /\ Len(line) \in Nat /\ WrapCol \in Nat \ {0}
      /\ WrapCol < Len(line)
  BY EditorAssumption, Columns DEF Line
<1>3. split \in 1..WrapCol
  <2>1. CASE blanks = {}
    BY <1>2, <2>1
  <2>2. CASE blanks # {}
    <3>1. blanks \subseteq 0..WrapCol /\ WrapCol \in Nat
      BY <1>2
    <3>2. \E i \in blanks : \A j \in blanks : j <= i
      BY <2>2, <3>1, Largest
    <3>3. split \in blanks
      BY <2>2, <3>2
    <3>4. \A i \in blanks : i \in 1..WrapCol
      BY <1>2
    <3> HIDE DEF split, blanks
    <3>5. QED
      BY <3>3, <3>4
  <2>3. QED
    BY <2>1, <2>2
<1> HIDE DEF split, line
<1>4. /\ SubSeq(line, 1, split) \in Line
      /\ SubSeq(line, split + 1, Len(line)) \in Line
  BY <1>2, <1>3 DEF Line
<1>5. /\ Fine(s) /\ s.top = v.top /\ s.screen = v.screen /\ s.cy = v.cy
      /\ s.cx = v.cx /\ Len(s.text) = Len(v.text)
      /\ \A j \in 1..Len(v.text) : j # v.cy + 1 => s.text[j] = v.text[j]
  BY <1>4, LineSet
<1> HIDE DEF s
<1>6. /\ Fine(u) /\ u.top = s.top /\ u.screen = s.screen
      /\ u.cy = s.cy /\ u.cx = s.cx /\ Len(u.text) = Len(s.text) + 1
      /\ \A j \in 1..(s.cy + 1) : u.text[j] = s.text[j]
  <2>1. TrimLeft(SubSeq(line, split + 1, Len(line))) \in Line
    BY <1>4, Trimmed
  <2>2. QED
    BY <1>5, <2>1, LineAfter
<1> HIDE DEF u
<1>7. /\ e.cy \in Nat /\ Len(e.text) \in Nat /\ e.cy < Len(e.text)
      /\ u \in Fields /\ u.cy = e.cy /\ u.cx = v.cx /\ v.cx \in Nat
      /\ Len(u.text) = Len(e.text) + 1
  BY <1>5, <1>6 DEF Good, Fine, Fields
<1>8. \A j \in 1..e.cy : u.text[j] = e.text[j]
  <2> SUFFICES ASSUME NEW j \in 1..e.cy PROVE u.text[j] = e.text[j]
    OBVIOUS
  <2>1. j \in 1..(s.cy + 1) /\ j \in 1..Len(v.text) /\ j # v.cy + 1
        /\ j \in 1..Len(e.text) /\ j # e.cy + 1
    BY <1>5, <1>7
  <2>2. QED
    BY <1>5, <1>6, <2>1
<1>9. /\ Fine(w) /\ w.top = e.top /\ w.screen = e.screen /\ w.text = u.text
      /\ w.cy \in {e.cy, e.cy + 1}
  <2>1. CASE v.cx > split
    <3>1. w = [u EXCEPT !.cy = @ + 1, !.cx = @ - split]
      BY <2>1
    <3>2. u.cx - split \in Nat /\ u.cy + 1 \in Nat /\ u.cy + 1 < Len(u.text)
      BY <1>3, <1>7, <2>1
    <3> HIDE DEF w
    <3>3. QED
      BY <1>5, <1>6, <1>7, <3>1, <3>2 DEF Fine, Fields
  <2>2. CASE ~(v.cx > split)
    BY <1>5, <1>6, <1>7, <2>2
  <2>3. QED
    BY <2>1, <2>2
<1> HIDE DEF w
<1>10. x.cy = w.cy
  BY <1>9, VisibleCursor
<1> DEFINE i == Less(w.cy, 1)
<1>11. i \in Int /\ i <= e.cy /\ i <= w.cy /\ i <= Len(e.text) /\
       i <= Len(w.text)
  <2>1. PICK n \in Nat : n = Len(e.text)
    BY <1>7
  <2>2. e.cy < n /\ Len(w.text) = n + 1 /\ w.cy \in {e.cy, e.cy + 1}
    BY <1>7, <1>9, <2>1
  <2>3. i \in Int /\ i <= e.cy /\ i <= w.cy /\ i <= n /\ i <= n + 1
    BY <1>7, <2>2 DEF Less
  <2>4. QED
    BY <2>1, <2>2, <2>3
<1> HIDE DEF i
<1>12. \A j \in 1..Len(e.text) : j <= i => w.text[j] = e.text[j]
  BY <1>7, <1>8, <1>9, <1>11
<1>13. Good(redrawFromLine(x, i))
  BY <1>9, <1>11, <1>12, TextChanged
<1>14. QED
  BY <1>1, <1>10, <1>13 DEF i

\* A character put into the line, or over another.
LEMMA InsertGood ==
  ASSUME NEW e, Good(e), NEW c \in Characters
  PROVE  Good(insertChar(e, c))
<1> DEFINE over == ~e.insert /\ Col(e) < Len(LineOf(e))
           line == Before(e) \o <<c>> \o IF over THEN Tail(Behind(e)) ELSE Behind(e)
           s == SetLine(e, line)
           v == [s EXCEPT !.cx = @ + 1]
<1>1. insertChar(e, c) = IF Len(line) > WrapCol THEN doWordWrap(v)
                         ELSE redrawLine(v, v.cy)
  BY DEF insertChar
<1>2. /\ Fine(e) /\ Before(e) \in Line /\ Behind(e) \in Line
      /\ Len(Behind(e)) = Len(LineOf(e)) - Col(e) /\ LineOf(e) \in Line
      /\ Col(e) \in 0..Len(LineOf(e))
  BY Columns DEF Good
<1>3. line \in Line
  <2>1. CASE over
    <3>1. Behind(e) # <<>>
      BY <1>2, <2>1 DEF Line
    <3>2. Tail(Behind(e)) \in Line
      BY <1>2, <3>1 DEF Line
    <3>3. QED
      BY <1>2, <2>1, <3>2 DEF Line
  <2>2. CASE ~over
    BY <1>2, <2>2 DEF Line
  <2>3. QED
    BY <2>1, <2>2
<1> HIDE DEF line
<1>4. /\ Fine(s) /\ s.top = e.top /\ s.screen = e.screen /\ s.cy = e.cy
      /\ s.cx = e.cx /\ LineOf(s) = line /\ Len(s.text) = Len(e.text)
      /\ \A j \in 1..Len(e.text) : j # e.cy + 1 => s.text[j] = e.text[j]
  BY <1>2, <1>3, LineSet
<1>5. e.cx + 1 \in Nat
  BY <1>2 DEF Fine, Fields
<1>6. v = [SetLine(e, line) EXCEPT !.cx = e.cx + 1]
  BY <1>4
<1> HIDE DEF s
<1>7. /\ Fine(v) /\ v.top = s.top /\ v.screen = s.screen /\ v.cy = s.cy
      /\ v.text = s.text /\ LineOf(v) = LineOf(s)
  BY <1>4, <1>5 DEF Fine, Fields, LineOf
<1> HIDE DEF v
<1>8. CASE Len(line) > WrapCol
  <2>1. Good(doWordWrap(v))
    BY <1>4, <1>7, <1>8, WrapGood
  <2>2. QED
    BY <1>1, <1>8, <2>1
<1>9. CASE ~(Len(line) > WrapCol)
  <2>1. Good(redrawLine([SetLine(e, line) EXCEPT !.cx = e.cx + 1], e.cy))
    BY <1>3, <1>5, LineEdited
  <2>2. Good(redrawLine(v, e.cy))
    BY <1>6, <2>1
  <2>3. QED
    BY <1>1, <1>4, <1>7, <1>9, <2>2
<1>10. QED
  BY <1>8, <1>9

LEMMA SplitGood == ASSUME NEW e, Good(e) PROVE Good(splitLine(e))
<1>1. CASE Len(e.text) >= MaxLines
  BY <1>1 DEF splitLine
<1>2. CASE ~(Len(e.text) >= MaxLines)
  <2> DEFINE s == SetLine(e, Before(e))
             u == insertLineAfter(s, Behind(e))
             w == [u EXCEPT !.cy = @ + 1, !.cx = 0]
             v == ensureCursorVisible(w)
  <2>1. splitLine(e) = redrawFromLine(v, v.cy - 1)
    BY <1>2 DEF splitLine
  <2>2. Fine(e) /\ Before(e) \in Line /\ Behind(e) \in Line
    BY Columns DEF Good
  <2>3. /\ Fine(s) /\ s.top = e.top /\ s.screen = e.screen /\ s.cy = e.cy
        /\ Len(s.text) = Len(e.text)
        /\ \A j \in 1..Len(e.text) : j # e.cy + 1 => s.text[j] = e.text[j]
    BY <2>2, LineSet
  <2> HIDE DEF s
  <2>4. /\ Fine(u) /\ u.top = s.top /\ u.screen = s.screen
        /\ u.cy = s.cy /\ Len(u.text) = Len(s.text) + 1
        /\ \A j \in 1..(s.cy + 1) : u.text[j] = s.text[j]
    BY <2>2, <2>3, LineAfter
  <2> HIDE DEF u
  <2>5. /\ e.cy \in Nat /\ Len(e.text) \in Nat /\ e.cy < Len(e.text)
        /\ u \in Fields /\ u.cy = e.cy /\ Len(u.text) = Len(e.text) + 1
    BY <2>2, <2>3, <2>4 DEF Fine, Fields
  <2>6. \A j \in 1..e.cy : u.text[j] = e.text[j]
    <3> SUFFICES ASSUME NEW j \in 1..e.cy PROVE u.text[j] = e.text[j]
      OBVIOUS
    <3>1. j \in 1..(s.cy + 1) /\ j \in 1..Len(e.text) /\ j # e.cy + 1
      BY <2>3, <2>5
    <3>2. QED
      BY <2>3, <2>4, <3>1
  <2>7. /\ Fine(w) /\ w.top = e.top /\ w.screen = e.screen /\ w.text = u.text
        /\ w.cy = e.cy + 1
    <3>1. w = [u EXCEPT !.cy = e.cy + 1, !.cx = 0]
      BY <2>5
    <3>2. e.cy + 1 \in Nat /\ e.cy + 1 < Len(u.text)
      BY <2>5
    <3> HIDE DEF w
    <3>3. QED
      BY <2>3, <2>4, <2>5, <3>1, <3>2 DEF Fine, Fields
  <2> HIDE DEF w
  <2>8. v.cy = w.cy
    BY <2>7, VisibleCursor
  <2>9. /\ e.cy \in Int /\ e.cy <= e.cy /\ e.cy <= w.cy /\ e.cy <= Len(e.text)
        /\ e.cy <= Len(w.text) /\ v.cy - 1 = e.cy
    BY <2>5, <2>7, <2>8
  <2>10. \A j \in 1..Len(e.text) : j <= e.cy => w.text[j] = e.text[j]
    <3> SUFFICES ASSUME NEW j \in 1..Len(e.text), j <= e.cy
                 PROVE  w.text[j] = e.text[j]
      OBVIOUS
    <3>1. j \in 1..e.cy
      BY <2>5
    <3>2. QED
      BY <2>6, <2>7, <3>1
  <2>11. Good(redrawFromLine(v, e.cy))
    BY <2>5, <2>7, <2>9, <2>10, TextChanged
  <2>12. QED
    BY <2>1, <2>9, <2>11
<1>3. QED
  BY <1>1, <1>2

LEMMA BlankLineGood == ASSUME NEW e, Good(e) PROVE Good(insertBlankLine(e))
<1>1. CASE Len(e.text) >= MaxLines
  BY <1>1 DEF insertBlankLine
<1>2. CASE ~(Len(e.text) >= MaxLines)
  <2> DEFINE t == InsertAt(e.text, e.cy + 1, <<>>)
             u == [e EXCEPT !.text = InsertAt(@, e.cy + 1, <<>>), !.cx = 0]
             v == ensureCursorVisible(u)
  <2>1. insertBlankLine(e) = redrawFromLine(v, v.cy)
    BY <1>2 DEF insertBlankLine
  <2>2. /\ e \in Fields /\ e.text \in Seq(Line) /\ Len(e.text) \in Nat
        /\ e.cy \in Nat /\ e.cy < Len(e.text) /\ <<>> \in Line
    BY DEF Good, Fine, Fields, Line
  <2>3. PICK i \in 1..(Len(e.text) + 1) : i = e.cy + 1
    BY <2>2
  <2>4. /\ t \in Seq(Line) /\ Len(t) = Len(e.text) + 1
        /\ \A j \in 1..(i - 1) : t[j] = e.text[j]
    <3>1. t = InsertAt(e.text, i, <<>>)
      BY <2>3
    <3> HIDE DEF t
    <3>2. QED
      BY <2>2, <3>1, Inserted
  <2>5. u = [e EXCEPT !.text = t, !.cx = 0]
    OBVIOUS
  <2> HIDE DEF t, u
  <2>6. /\ u \in Fields /\ u.top = e.top /\ u.screen = e.screen
        /\ u.cy = e.cy /\ u.text = t
    BY <2>2, <2>4, <2>5 DEF Fields
  <2>7. Fine(u) /\ Len(u.text) = Len(e.text) + 1
    BY <2>2, <2>4, <2>6 DEF Fine
  <2>8. v.cy = e.cy
    BY <2>6, <2>7, VisibleCursor
  <2>9. \A j \in 1..Len(e.text) : j <= e.cy => u.text[j] = e.text[j]
    BY <2>2, <2>3, <2>4, <2>6
  <2>10. /\ e.cy \in Int /\ e.cy <= u.cy /\ e.cy <= Len(e.text)
         /\ e.cy <= Len(u.text)
    BY <2>2, <2>6, <2>7
  <2>11. Good(redrawFromLine(v, e.cy))
    BY <2>2, <2>6, <2>7, <2>9, <2>10, TextChanged
  <2>12. QED
    BY <2>1, <2>8, <2>11
<1>3. QED
  BY <1>1, <1>2

\* Two lines become one.
LEMMA Joined ==
  ASSUME NEW e, Fine(e), NEW i \in Nat, i < LastLine(e)
  PROVE  \E t \in Seq(Line) :
           /\ Join(e, i) = [e EXCEPT !.text = t] /\ Len(t) = Len(e.text) - 1
           /\ \A j \in 1..i : t[j] = e.text[j]
<1> DEFINE r == RemoveAt(e.text, i + 2)
           line == e.text[i + 1] \o e.text[i + 2]
           t == [r EXCEPT ![i + 1] = line]
<1>1. e.text \in Seq(Line) /\ Len(e.text) \in Nat /\ i + 2 <= Len(e.text)
  BY DEF Fine, Fields, LastLine
<1>2. PICK k \in 1..Len(e.text) : k = i + 2
  BY <1>1
<1>3. /\ r \in Seq(Line) /\ Len(r) = Len(e.text) - 1
      /\ \A j \in 1..(k - 1) : r[j] = e.text[j]
  <2>1. r = RemoveAt(e.text, k)
    BY <1>2
  <2> HIDE DEF r
  <2>2. QED
    BY <1>1, <2>1, Removed
<1>4. line \in Line
  <2>1. e.text[i + 1] \in Line /\ e.text[i + 2] \in Line
    BY <1>1
  <2>2. QED
    BY <2>1 DEF Line
<1>5. Join(e, i) = [e EXCEPT !.text = t]
  BY DEF Join
<1> HIDE DEF r, line
<1>6. /\ t \in Seq(Line) /\ Len(t) = Len(r)
      /\ \A j \in 1..i : t[j] = r[j]
  BY <1>1, <1>3, <1>4
<1>7. \A j \in 1..i : t[j] = e.text[j]
  BY <1>2, <1>3, <1>6
<1> HIDE DEF t
<1>8. QED
  BY <1>3, <1>5, <1>6, <1>7

LEMMA BackspaceGood == ASSUME NEW e, Good(e) PROVE Good(backspace(e))
<1>1. /\ Fine(e) /\ e \in Fields /\ e.cx \in Nat /\ e.cy \in Nat
      /\ e.cy < Len(e.text) /\ Len(e.text) \in Nat /\ e.text \in Seq(Line)
  BY DEF Good, Fine, Fields
<1>2. CASE e.cx > 0 /\ Col(e) = 0
  <2> DEFINE u == [e EXCEPT !.panicked = TRUE]
  <2>1. backspace(e) = u
    BY <1>2 DEF backspace
  <2>2. /\ u \in Fields /\ u.text = e.text /\ u.cy = e.cy /\ u.top = e.top
        /\ u.screen = e.screen
    BY <1>1 DEF Fields
  <2> HIDE DEF u
  <2>3. QED
    BY <2>1, <2>2, NothingDrawn
<1>3. CASE e.cx > 0 /\ Col(e) # 0
  <2> DEFINE line == SubSeq(LineOf(e), 1, Col(e) - 1) \o Behind(e)
             v == SetLine(e, line)
  <2>1. backspace(e) = redrawLine([v EXCEPT !.cx = @ - 1], v.cy)
    BY <1>3 DEF backspace
  <2>2. /\ LineOf(e) \in Line /\ Behind(e) \in Line
        /\ Col(e) \in 1..Len(LineOf(e))
    BY <1>1, <1>3, Columns
  <2>3. line \in Line
    BY <2>2 DEF Line
  <2> HIDE DEF line
  <2>4. v.cx = e.cx /\ v.cy = e.cy
    BY <1>1, <2>3, LineSet
  <2>5. e.cx - 1 \in Nat
    BY <1>1, <1>3
  <2>6. Good(redrawLine([SetLine(e, line) EXCEPT !.cx = e.cx - 1], e.cy))
    BY <2>3, <2>5, LineEdited
  <2>7. QED
    BY <2>1, <2>4, <2>6
<1>4. CASE ~(e.cx > 0) /\ e.cy = 0
  BY <1>4 DEF backspace
<1>5. CASE ~(e.cx > 0) /\ e.cy # 0
  <2> DEFINE x == Len(e.text[e.cy])
             u == [Join(e, e.cy - 1) EXCEPT !.cy = @ - 1,
               !.cx = Len(e.text[e.cy])]
             v == ensureCursorVisible(u)
  <2>1. backspace(e) = redrawFromLine(v, v.cy)
    BY <1>5 DEF backspace
  <2>2. PICK i \in Nat : i = e.cy - 1
    BY <1>1, <1>5
  <2>3. i < LastLine(e)
    BY <1>1, <2>2 DEF LastLine
  <2>4. PICK t \in Seq(Line) :
          /\ Join(e, i) = [e EXCEPT !.text = t] /\ Len(t) = Len(e.text) - 1
          /\ \A j \in 1..i : t[j] = e.text[j]
    BY <1>1, <2>3, Joined
  <2>5. x \in Nat
    <3>1. e.cy \in 1..Len(e.text)
      BY <1>1, <1>5
    <3>2. e.text[e.cy] \in Line
      BY <1>1, <3>1
    <3>3. QED
      BY <3>2 DEF Line
  <2>6. u = [e EXCEPT !.text = t, !.cy = i, !.cx = x]
    BY <1>1, <2>2, <2>4 DEF Fields
  <2> HIDE DEF x
  <2>7. i < Len(t)
    BY <1>1, <2>2, <2>4
  <2> HIDE DEF u
  <2>8. Fine(u) /\ u.text = t /\ u.cy = i /\ u.top = e.top /\
        u.screen = e.screen
    BY <1>1, <2>5, <2>6, <2>7 DEF Fine, Fields
  <2>9. v.cy = i
    BY <2>8, VisibleCursor
  <2>10. /\ i \in Int /\ i <= e.cy /\ i <= u.cy /\ i <= Len(e.text)
         /\ i <= Len(u.text)
    BY <1>1, <2>2, <2>7, <2>8
  <2>11. \A j \in 1..Len(e.text) : j <= i => u.text[j] = e.text[j]
    BY <2>4, <2>8
  <2>12. Good(redrawFromLine(v, i))
    BY <2>8, <2>10, <2>11, TextChanged
  <2>13. QED
    BY <2>1, <2>9, <2>12
<1>6. QED
  BY <1>2, <1>3, <1>4, <1>5

LEMMA DeleteGood == ASSUME NEW e, Good(e) PROVE Good(deleteForward(e))
<1>1. /\ Fine(e) /\ e \in Fields /\ e.cx \in Nat /\ e.cy \in Nat
      /\ e.cy < Len(e.text) /\ Len(e.text) \in Nat /\ e.text \in Seq(Line)
      /\ LastLine(e) \in Nat
  BY Columns DEF Good, Fine, Fields
<1>2. CASE e.cx < Len(LineOf(e))
  <2> DEFINE line == Before(e) \o Tail(Behind(e))
  <2>1. deleteForward(e) = redrawLine(SetLine(e, line), e.cy)
    BY <1>2 DEF deleteForward
  <2>2. /\ LineOf(e) \in Line /\ Behind(e) \in Line /\ Before(e) \in Line
        /\ Len(Behind(e)) = Len(LineOf(e)) - Col(e)
    BY <1>1, Columns
  <2>3. Col(e) < Len(LineOf(e)) /\ Col(e) \in Nat
    BY <1>1, <1>2, <2>2 DEF Col, Line
  <2>4. Behind(e) # <<>>
    BY <2>2, <2>3 DEF Line
  <2>5. Tail(Behind(e)) \in Line
    BY <2>2, <2>4 DEF Line
  <2>6. line \in Line
    BY <2>2, <2>5 DEF Line
  <2> HIDE DEF line
  <2>7. QED
    BY <2>1, <2>6, LineChanged
<1>3. CASE ~(e.cx < Len(LineOf(e))) /\ e.cy >= LastLine(e)
  BY <1>3 DEF deleteForward
<1>4. CASE ~(e.cx < Len(LineOf(e))) /\ ~(e.cy >= LastLine(e))
  <2> DEFINE u == Join(e, e.cy)
  <2>1. deleteForward(e) = redrawFromLine(u, e.cy)
    BY <1>4 DEF deleteForward
  <2>2. e.cy < LastLine(e)
    BY <1>1, <1>4
  <2>3. PICK t \in Seq(Line) :
          /\ u = [e EXCEPT !.text = t] /\ Len(t) = Len(e.text) - 1
          /\ \A j \in 1..e.cy : t[j] = e.text[j]
    BY <1>1, <2>2, Joined
  <2> HIDE DEF u
  <2>4. e.cy < Len(t) /\ Len(t) \in Nat
    BY <1>1, <2>2, <2>3 DEF LastLine
  <2>5. /\ u \in Fields /\ u.text = t /\ u.cy = e.cy /\ u.top = e.top
        /\ u.screen = e.screen
    BY <1>1, <2>3 DEF Fields
  <2>6. Fine(u)
    BY <2>4, <2>5 DEF Fine
  <2>7. \A j \in 1..Len(e.text) : j <= e.cy => u.text[j] = e.text[j]
    BY <1>1, <2>3, <2>5
  <2>8. e.cy \in Int /\ e.cy <= e.cy /\ e.cy <= Len(u.text)
    BY <1>1, <2>4, <2>5
  <2>9. Good(redrawFromLine(u, e.cy))
    BY <2>5, <2>6, <2>7, <2>8, TextChangedHere
  <2>10. QED
    BY <2>1, <2>9
<1>5. QED
  BY <1>2, <1>3, <1>4

LEMMA WordBackGood == ASSUME NEW e, Good(e) PROVE Good(deleteWordBackward(e))
<1> DEFINE i == WordStart(LineOf(e), Col(e))
           line == SubSeq(LineOf(e), 1, i) \o Behind(e)
<1>1. CASE Col(e) = 0
  BY <1>1 DEF deleteWordBackward
<1>2. CASE Col(e) # 0
  <2>1. deleteWordBackward(e) = redrawLine([SetLine(e,
        line) EXCEPT !.cx = i], e.cy)
    BY <1>2 DEF deleteWordBackward
  <2>2. /\ LineOf(e) \in Line /\ Behind(e) \in Line
        /\ Col(e) \in 0..Len(LineOf(e))
    BY Columns DEF Good
  <2>3. i \in 0..Col(e)
    BY <2>2, WordStarts
  <2> HIDE DEF i
  <2>4. line \in Line /\ i \in Nat
    BY <2>2, <2>3 DEF Line
  <2> HIDE DEF line
  <2>5. QED
    BY <2>1, <2>4, LineEdited
<1>3. QED
  BY <1>1, <1>2

LEMMA WordForwardGood == ASSUME NEW e, Good(e) PROVE Good(deleteWordForward(e))
<1> DEFINE line == Before(e) \o
              SubSeq(LineOf(e), WordEnd(LineOf(e), e.cx) + 1, Len(LineOf(e)))
<1>1. CASE e.cx >= Len(LineOf(e))
  BY <1>1 DEF deleteWordForward
<1>2. CASE ~(e.cx >= Len(LineOf(e)))
  <2>1. deleteWordForward(e) = redrawLine(SetLine(e, line), e.cy)
    BY <1>2 DEF deleteWordForward
  <2>2. LineOf(e) \in Line /\ Before(e) \in Line /\ e.cx \in Nat
    BY Columns DEF Good, Fine, Fields
  <2>3. e.cx \in 0..Len(LineOf(e)) /\ Len(LineOf(e)) \in Nat
    BY <1>2, <2>2 DEF Line
  <2>4. PICK k \in e.cx..Len(LineOf(e)) : k = WordEnd(LineOf(e), e.cx)
    BY <2>2, <2>3, WordEnds
  <2>5. SubSeq(LineOf(e), k + 1, Len(LineOf(e))) \in Line
    BY <2>2, <2>3, <2>4 DEF Line
  <2>6. line \in Line
    BY <2>2, <2>4, <2>5 DEF Line
  <2> HIDE DEF line
  <2>7. QED
    BY <2>1, <2>6, LineChanged
<1>3. QED
  BY <1>1, <1>2

\* Taking the cursor's line out leaves the cut buffer to the callers of Without.
LEMMA WithoutGood == ASSUME NEW e, Good(e) PROVE Good(Without(e))
<1>1. /\ Fine(e) /\ e \in Fields /\ e.cx \in Nat /\ e.cy \in Nat /\
           e.top \in Nat
      /\ e.cy < Len(e.text) /\ Len(e.text) \in Nat /\ e.text \in Seq(Line)
      /\ LastLine(e) = Len(e.text) - 1 /\ e.top <= e.cy
  BY DEF Good, Fine, Fields, LastLine, Shown, Within
<1>2. CASE Len(e.text) = 1
  <2> DEFINE t == << <<>> >>
             u == [e EXCEPT !.text = t, !.cx = 0]
  <2>1. Without(e) = redrawLine(u, 0)
    BY <1>2 DEF Without
  <2>2. t \in Seq(Line) /\ Len(t) = 1
    BY DEF Line
  <2>3. e.cy = 0 /\ e.top = 0
    BY <1>1, <1>2
  <2> HIDE DEF t
  <2>4. /\ u \in Fields /\ u.text = t /\ u.cy = 0 /\ u.top = e.top
        /\ u.screen = e.screen
    BY <1>1, <2>2, <2>3 DEF Fields
  <2> HIDE DEF u
  <2>5. Fine(u)
    <3>1. 0 < Len(t)
      BY <2>2
    <3>2. QED
      BY <2>4, <3>1 DEF Fine
  <2>6. \A j \in Nat \ {0} : Look(u, j) = Look(e, j)
    <3> SUFFICES ASSUME NEW j \in Nat \ {0} PROVE Look(u, j) = Look(e, j)
      OBVIOUS
    <3>1. ~(j < 1) /\ Len(u.text) = 1 /\ j # u.cy /\ j # e.cy
      BY <2>2, <2>3, <2>4
    <3>2. QED
      BY <1>1, <1>2, <2>5, <3>1, Alike
  <2>7. QED
    BY <2>1, <2>3, <2>4, <2>5, <2>6, OneLine
<1>3. CASE Len(e.text) # 1
  <2> DEFINE t == RemoveAt(e.text, e.cy + 1)
             y == Least(e.cy, LastLine(e) - 1)
             u == [e EXCEPT !.text = RemoveAt(@, e.cy + 1),
                            !.cy = Least(@, LastLine(e) - 1)]
             v == ensureCursorVisible(Clip(u))
  <2>1. Without(e) = redrawFromLine(v, v.cy)
    BY <1>3 DEF Without
  <2>2. PICK k \in 1..Len(e.text) : k = e.cy + 1
    BY <1>1
  <2>3. /\ t \in Seq(Line) /\ Len(t) = Len(e.text) - 1
        /\ \A j \in 1..(k - 1) : t[j] = e.text[j]
    <3>1. t = RemoveAt(e.text, k)
      BY <2>2
    <3> HIDE DEF t
    <3>2. QED
      BY <1>1, <3>1, Removed
  <2>4. y \in Nat /\ y <= e.cy /\ y < Len(e.text) - 1
    <3>1. PICK n \in Nat : n = Len(e.text)
      BY <1>1
    <3>2. e.cy \in Nat /\ e.cy < n /\ n # 1 /\ LastLine(e) = n - 1
      BY <1>1, <1>3, <3>1
    <3>3. y \in Nat /\ y <= e.cy /\ y < n - 1
      BY <3>2 DEF Least
    <3>4. QED
      BY <3>1, <3>3
  <2>5. u = [e EXCEPT !.text = t, !.cy = y]
    BY <1>1 DEF Fields
  <2> HIDE DEF t, y, u
  <2>6. /\ u \in Fields /\ u.text = t /\ u.cy = y /\ u.top = e.top
        /\ u.screen = e.screen
    BY <1>1, <2>3, <2>4, <2>5 DEF Fields
  <2>7. Fine(u)
    BY <2>3, <2>4, <2>6 DEF Fine
  <2>8. PICK x \in Nat : Clip(u) = [u EXCEPT !.cx = x]
    BY <2>7, Clipped
  <2> DEFINE w == Clip(u)
  <2>9. /\ Fine(w) /\ w.text = t /\ w.cy = y /\ w.top = e.top
        /\ w.screen = e.screen
    BY <2>6, <2>7, <2>8 DEF Fine, Fields
  <2> HIDE DEF w
  <2>10. v.cy = y
    BY <2>9, VisibleCursor DEF w
  <2>11. /\ y \in Int /\ y <= e.cy /\ y <= w.cy /\ y <= Len(e.text)
         /\ y <= Len(w.text)
    BY <1>1, <2>3, <2>4, <2>9
  <2>12. \A j \in 1..Len(e.text) : j <= y => w.text[j] = e.text[j]
    BY <1>1, <2>2, <2>3, <2>4, <2>9
  <2>13. Good(redrawFromLine(ensureCursorVisible(w), y))
    BY <2>9, <2>11, <2>12, TextChanged
  <2>14. QED
    BY <2>1, <2>10, <2>13 DEF w
<1>4. QED
  BY <1>2, <1>3

\* What does not show.
LEMMA CutKept ==
  ASSUME NEW e, Good(e), NEW c \in Seq(Line)
  PROVE  Good([e EXCEPT !.cut = c])
<1> DEFINE u == [e EXCEPT !.cut = c]
<1>1. /\ u \in Fields /\ u.text = e.text /\ u.cy = e.cy /\ u.top = e.top
      /\ u.screen = e.screen
  BY DEF Good, Fine, Fields
<1> HIDE DEF u
<1>2. QED
  BY <1>1, NothingDrawn DEF u

LEMMA CutGood ==
  ASSUME NEW e, Good(e)
  PROVE  Good(deleteLine(e)) /\ Good(cutLine(e))
<1> DEFINE c == IF e.lastCut THEN Append(e.cut, LineOf(e)) ELSE <<LineOf(e)>>
<1>1. LineOf(e) \in Line /\ e.cut \in Seq(Line)
  BY Columns DEF Good, Fine, Fields
<1>2. c \in Seq(Line) /\ <<LineOf(e)>> \in Seq(Line)
  BY <1>1
<1>3. Good(Without(e))
  BY WithoutGood
<1>4. cutLine(e) = [Without(e) EXCEPT !.cut = c]
  BY DEF cutLine
<1> HIDE DEF c
<1>5. QED
  BY <1>2, <1>3, <1>4, CutKept DEF deleteLine

LEMMA PasteGood == ASSUME NEW e, Good(e) PROVE Good(pasteCutBuffer(e))
<1>1. CASE e.cut = <<>>
  BY <1>1 DEF pasteCutBuffer
<1>2. CASE e.cut # <<>>
  <2>1. /\ e \in Fields /\ e.cy \in Nat /\ e.text \in Seq(Line)
        /\ e.cy < Len(e.text) /\ Len(e.text) \in Nat /\ e.cut \in Seq(Line)
    BY DEF Good, Fine, Fields
  <2>2. PICK text \in Seq(Line) : text = e.text
    BY <2>1
  <2>3. PICK cut \in Seq(Line) : cut = e.cut
    BY <2>1
  <2>4. PICK cy \in Nat : cy = e.cy
    BY <2>1
  <2> DEFINE a == SubSeq(text, 1, cy)
             b == SubSeq(text, cy + 1, Len(text))
             t == a \o cut \o b
             y == cy + Len(cut)
             u == [e EXCEPT !.text = SubSeq(@, 1, e.cy) \o e.cut
                                       \o SubSeq(@, e.cy + 1, Len(@)),
                            !.cy = @ + Len(e.cut)]
             v == ensureCursorVisible(Clip(u))
  <2>5. pasteCutBuffer(e) = redrawFromLine(v, v.cy - Len(cut))
    BY <1>2, <2>3 DEF pasteCutBuffer
  <2>6. Len(text) \in Nat /\ cy < Len(text) /\ Len(cut) \in Nat
    BY <2>1, <2>2, <2>4
  <2>7. /\ a \in Seq(Line) /\ Len(a) = cy
        /\ \A j \in 1..cy : a[j] = text[j]
    BY <2>6
  <2>8. b \in Seq(Line) /\ Len(b) = Len(text) - cy
    BY <2>6
  <2>9. u = [e EXCEPT !.text = t, !.cy = y]
    BY <2>1, <2>2, <2>3, <2>4 DEF Fields
  <2> HIDE DEF a, b, u
  <2> DEFINE c == a \o cut
  <2>10. /\ c \in Seq(Line) /\ Len(c) = y
        /\ \A j \in 1..cy : c[j] = a[j]
    BY <2>6, <2>7
  <2>11. /\ y \in Nat /\ cy <= y /\ y - Len(cut) = cy
        /\ y + (Len(text) - cy) = Len(text) + Len(cut)
        /\ y < Len(text) + Len(cut)
    BY <2>6
  <2> HIDE DEF c, y
  <2>12. /\ c \o b \in Seq(Line) /\ Len(c \o b) = y + Len(b)
        /\ \A j \in 1..y : (c \o b)[j] = c[j]
    <3>1. c \in Seq(Line) /\ b \in Seq(Line)
      BY <2>8, <2>10
    <3>2. /\ c \o b \in Seq(Line) /\ Len(c \o b) = Len(c) + Len(b)
          /\ \A j \in 1..Len(c) : (c \o b)[j] = c[j]
      BY <3>1
    <3>3. QED
      BY <2>10, <3>2
  <2>13. t = c \o b
    BY DEF c
  <2> HIDE DEF t
  <2>14. /\ t \in Seq(Line) /\ Len(t) = Len(text) + Len(cut)
        /\ \A j \in 1..cy : t[j] = text[j]
    <3>1. \A j \in 1..cy : j \in 1..y
      BY <2>11
    <3>2. \A j \in 1..cy : (c \o b)[j] = text[j]
      BY <2>7, <2>10, <2>12, <3>1
    <3>3. QED
      BY <2>8, <2>12, <2>13, <2>11, <3>2
  <2>15. y \in Nat /\ y < Len(t) /\ cy <= y /\ y - Len(cut) = cy /\
         cy <= Len(t)
    BY <2>6, <2>14, <2>11
  <2>16. /\ u \in Fields /\ u.text = t /\ u.cy = y /\ u.top = e.top
         /\ u.screen = e.screen
    BY <2>1, <2>9, <2>14, <2>15 DEF Fields
  <2>17. Fine(u)
    BY <2>15, <2>16 DEF Fine
  <2>18. PICK x \in Nat : Clip(u) = [u EXCEPT !.cx = x]
    BY <2>17, Clipped
  <2> DEFINE w == Clip(u)
  <2>19. /\ Fine(w) /\ w.text = t /\ w.cy = y /\ w.top = e.top
         /\ w.screen = e.screen
    BY <2>16, <2>17, <2>18 DEF Fine, Fields
  <2> HIDE DEF w
  <2>20. v.cy = y
    BY <2>19, VisibleCursor DEF w
  <2>21. /\ cy \in Int /\ cy <= e.cy /\ cy <= w.cy /\ cy <= Len(e.text)
         /\ cy <= Len(w.text)
    BY <2>6, <2>2, <2>4, <2>15, <2>19
  <2>22. \A j \in 1..Len(e.text) : j <= cy => w.text[j] = e.text[j]
    BY <2>6, <2>14, <2>19, <2>2
  <2>23. Good(redrawFromLine(ensureCursorVisible(w), cy))
    BY <2>19, <2>21, <2>22, TextChanged
  <2>24. QED
    BY <2>5, <2>15, <2>20, <2>23 DEF w
<1>3. QED
  BY <1>1, <1>2

LEMMA ToggleGood == ASSUME NEW e, Good(e) PROVE Good(toggleInsert(e))
<1> DEFINE u == toggleInsert(e)
<1>1. /\ u \in Fields /\ u.text = e.text /\ u.cy = e.cy /\ u.top = e.top
      /\ u.screen = e.screen
  BY DEF Good, Fine, Fields, toggleInsert
<1> HIDE DEF u
<1>2. QED
  BY <1>1, NothingDrawn DEF u

LEMMA RedrawGood == ASSUME NEW e, Good(e) PROVE Good(draw(e))
  BY DrawAll DEF Good, Shown

-----------------------------------------------------------------------------
(* The editor.                                                             *)

LEMMA PressGood ==
  ASSUME NEW e, Good(e), NEW cuts \in BOOLEAN, Press(e, cuts)
  PROVE  Good(ed)'
<1> DEFINE u == [e EXCEPT !.lastCut = cuts]
<1>1. /\ u \in Fields /\ u.text = e.text /\ u.cy = e.cy /\ u.top = e.top
      /\ u.screen = e.screen
  BY DEF Good, Fine, Fields
<1>2. ed' = u
  BY DEF Press
<1> HIDE DEF u
<1>3. Good(u)
  BY <1>1, NothingDrawn
<1>4. QED
  BY <1>2, <1>3 DEF Good, Fine, Shown, Within, Look, LastLine

\* The editor is opened on an empty text.
LEMMA OpenedGood == EditorInit => Good(ed)
<1> DEFINE t == << <<>> >>
           e == [text |-> t, cy |-> Len(t) - 1, cx |-> Len(t[Len(t)]),
                 top |-> 0, insert |-> TRUE, cut |-> <<>>, lastCut |-> FALSE,
                 panicked |-> FALSE, screen |-> [r \in Window |-> <<>>]]
<1>1. t \in Seq(Line) /\ Len(t) = 1 /\ Len(t[Len(t)]) = 0
  BY DEF Line
<1>2. Untouched = draw(e)
  BY DEF Untouched, Opened
<1> HIDE DEF t
<1>3. [r \in Window |-> <<>>] \in [Window -> Looks]
  BY DEF Looks
<1>4. Fine(e) /\ Within(e)
  <2>1. Len(t) - 1 = 0 /\ Len(t[Len(t)]) \in Nat /\ <<>> \in Seq(Line)
    BY <1>1
  <2>2. e \in Fields
    BY <1>1, <1>3, <2>1 DEF Fields
  <2>3. e.cy = 0 /\ e.top = 0 /\ e.text = t
    BY <2>1
  <2> HIDE DEF e
  <2>4. Fine(e)
    <3>1. 0 < Len(t)
      BY <1>1
    <3>2. e.cy < Len(e.text)
      BY <2>3, <3>1
    <3>3. QED
      BY <2>2, <3>2 DEF Fine
  <2>5. Within(e)
    BY <2>3, EditorAssumption DEF Within
  <2>6. QED
    BY <2>4, <2>5
<1> HIDE DEF e
<1>5. Good(Untouched)
  BY <1>2, <1>4, DrawAll
<1>6. QED
  BY <1>5 DEF EditorInit

LEMMA KeysGood == Good(ed) /\ [AnyKey]_ed => Good(ed)'
<1> SUFFICES ASSUME Good(ed), [AnyKey]_ed PROVE Good(ed)'
  OBVIOUS
<1>1. CASE MoveKey
  <2>1. PICK e \in {moveCursorUp(ed), moveCursorDown(ed), moveCursorLeft(ed),
                    moveCursorRight(ed), Home(ed), End(ed), pageUp(ed),
                    pageDown(ed)} : Press(e, FALSE)
    BY <1>1 DEF MoveKey
  <2>2. Good(e)
    BY <2>1, UpGood, DownGood, LeftGood, RightGood, HomeEndGood, PageUpGood,
       PageDownGood
  <2>3. QED
    BY <2>1, <2>2, PressGood
<1>2. CASE TypeKey
  <2>1. PICK c \in Characters : Press(insertChar(ed, c), FALSE)
    BY <1>2 DEF TypeKey
  <2>2. Good(insertChar(ed, c))
    BY InsertGood
  <2>3. QED
    BY <2>1, <2>2, PressGood
<1>3. CASE BreakKey
  <2>1. PICK e \in {splitLine(ed), insertBlankLine(ed)} : Press(e, FALSE)
    BY <1>3 DEF BreakKey
  <2>2. Good(e)
    BY <2>1, SplitGood, BlankLineGood
  <2>3. QED
    BY <2>1, <2>2, PressGood
<1>4. CASE EraseKey
  <2>1. PICK e \in {backspace(ed), deleteForward(ed), deleteWordBackward(ed),
                    deleteWordForward(ed), deleteLine(ed)} : Press(e, FALSE)
    BY <1>4 DEF EraseKey
  <2>2. Good(e)
    BY <2>1, BackspaceGood, DeleteGood, WordBackGood, WordForwardGood, CutGood
  <2>3. QED
    BY <2>1, <2>2, PressGood
<1>5. CASE CutKey
  BY <1>5, CutGood, PressGood DEF CutKey
<1>6. CASE PasteKey
  BY <1>6, PasteGood, PressGood DEF PasteKey
<1>7. CASE ToggleKey
  BY <1>7, ToggleGood, PressGood DEF ToggleKey
<1>8. CASE RedrawKey
  BY <1>8, RedrawGood, PressGood DEF RedrawKey
<1>9. CASE UNCHANGED ed
  BY <1>9 DEF Good, Fine, Shown, Within, Look, LastLine
<1>10. QED
  BY <1>1, <1>2, <1>3, <1>4, <1>5, <1>6, <1>7, <1>8, <1>9 DEF AnyKey

\* Types: the text and the cut buffer are lines of characters, and the cursor
\* is in a line of the text, whatever wraps, joins, cuts and pages do (only
\* its column may be behind the line's end, see backspace).
THEOREM TypeCorrect == EditorSpec => []EditorTypeOK
<1>1. Good(ed) => EditorTypeOK
  BY EditorAssumption DEF Good, Fine, Fields, EditorTypeOK, LastLine, Line
<1>2. QED
  BY <1>1, OpenedGood, KeysGood, PTL DEF EditorSpec

\* After every key of fullscreen.go the terminal's rows show the window's part
\* of the text, with the cursor in the window and its line highlighted: the
\* partial redraws of the keys leave out no line that they changed.
THEOREM ScreenTrue == EditorSpec => []ScreenShows
<1>1. Good(ed) => ScreenShows
  BY EditorAssumption DEF Good, Fine, Fields, Shown, Within, ScreenShows
<1>2. QED
  BY <1>1, OpenedGood, KeysGood, PTL DEF EditorSpec
=============================================================================
