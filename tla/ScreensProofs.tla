---------------------------- MODULE ScreensProofs ---------------------------
(***************************************************************************)
(* Proofs about UiMenu for lists of every height and with dividers in any  *)
(* place, and about Screens, which implements it whatever opens over them. *)
(***************************************************************************)
EXTENDS Screens, SequenceTheorems, TLAPS

\* The end of a list is not a divider: where ui_menu_list_move_pos stops
\* whatever is there.
EndsAreLines ==
  0 \notin menu.dividers /\ (Height - 1) \notin menu.dividers

\* The invariant: the first visible line follows from the cursor's, except
\* that it is 0 before the first move.
CursorInv ==
  /\ menu \in Menus
  /\ pos \in Nat /\ y \in Nat
  /\ Height > 0 => /\ pos < Height
                   /\ y = TopFor(pos) \/ (y = 0 /\ pos = 0)
                   /\ EndsAreLines => pos \notin menu.dividers

\* What ui_menu_init's uint8_t arithmetic comes to.
LEMMA YMaxValue ==
  ASSUME Height \in 0..239
  PROVE  YMax = IF Height < VisibleRows THEN 0 ELSE Height - VisibleRows
  BY DEF YMax, VisibleRows

\* Every menu has a height that uint8_t can hold, and integers as dividers.
LEMMA HeightRange ==
  ASSUME menu \in Menus
  PROVE  Height \in 0..239 /\ menu.dividers \subseteq Int
  BY MenuAssumption DEF Height

\* The first visible line for a cursor in a list shows the cursor, and nothing
\* behind the list.
LEMMA TopShowsCursor ==
  ASSUME menu \in Menus, NEW line \in Nat, line < Height
  PROVE  /\ TopFor(line) \in Nat
         /\ TopFor(line) <= line /\ line < TopFor(line) + VisibleRows
         /\ TopFor(line) + VisibleRows <= Height \/ TopFor(line) = 0
<1>1. Height \in 0..239
  BY HeightRange
<1>2. YMax = IF Height < VisibleRows THEN 0 ELSE Height - VisibleRows
  BY <1>1, YMaxValue
<1> QED
  BY <1>1, <1>2 DEF TopFor, Margin, VisibleRows

\* A move in a list ends in it, and not on a divider.
LEMMA LandsInList ==
  ASSUME menu \in Menus, Height > 0, pos \in Nat, pos < Height,
         EndsAreLines => pos \notin menu.dividers,
         NEW delta \in {1, -1}, NEW line \in 0..255, Lands(delta, line)
  PROVE  line < Height /\ (EndsAreLines => line \notin menu.dividers)
<1>1. Height \in 0..239
  BY HeightRange
<1>2. CASE delta = 1
  BY <1>1, <1>2 DEF Lands, EndsAreLines
<1>3. CASE delta = -1
  BY <1>1, <1>3 DEF Lands, EndsAreLines
<1> QED
  BY <1>2, <1>3

\* The invariant holds at first and is kept by every step.
LEMMA CursorInvariant == Spec => []CursorInv
<1>1. Init => CursorInv
  <2> SUFFICES ASSUME Init PROVE CursorInv
    OBVIOUS
  <2>1. menu \in Menus /\ pos = 0 /\ y = 0
    BY DEF Init
  <2>2. Height \in 0..239
    BY <2>1, HeightRange
  <2> QED
    BY <2>1, <2>2 DEF CursorInv, EndsAreLines
<1>2. CursorInv /\ [Next]_vars => CursorInv'
  <2> SUFFICES ASSUME CursorInv, [Next]_vars PROVE CursorInv'
    OBVIOUS
  <2>0. menu \in Menus /\ pos \in Nat /\ y \in Nat
    BY DEF CursorInv
  <2>1. ASSUME NEW delta \in {1, -1}, Move(delta) PROVE CursorInv'
    <3>1. PICK line \in 0..255 :
            Lands(delta, line) /\ pos' = line /\ y' = TopFor(line)
      BY <2>1 DEF Move
    <3>2. menu' = menu /\ Height' = Height /\ EndsAreLines' = EndsAreLines
      BY <2>1 DEF Move, Height, EndsAreLines
    <3>3. TopFor(line) \in Nat /\ TopFor(pos)' = TopFor(line)
      <4>1. YMax' = YMax
        BY <3>2 DEF YMax
      <4>2. Height \in 0..239
        BY <2>0, HeightRange
      <4>3. YMax \in Nat
        BY <4>2, YMaxValue DEF VisibleRows
      <4> QED
        BY <3>1, <4>1, <4>3 DEF TopFor, Margin
    <3>4. ASSUME Height > 0
          PROVE  line < Height /\ (EndsAreLines => line \notin menu.dividers)
      BY <2>0, <3>1, <3>4, LandsInList DEF CursorInv
    <3> QED
      BY <2>0, <3>1, <3>2, <3>3, <3>4 DEF CursorInv
  <2>2. CASE Select
    BY <2>2 DEF Select, CursorInv, Height, EndsAreLines, TopFor, YMax
  <2>3. ASSUME NEW m \in Menus, Open(m) PROVE CursorInv'
    <3>1. menu' = m /\ pos' = 0 /\ y' = 0
      BY <2>3 DEF Open
    <3>2. m.height \in 0..239
      BY MenuAssumption
    <3> QED
      BY <3>1, <3>2 DEF CursorInv, Height, EndsAreLines
  <2>4. CASE UNCHANGED vars
    BY <2>4 DEF vars, CursorInv, Height, EndsAreLines, TopFor, YMax
  <2> QED
    BY <2>1, <2>2, <2>3, <2>4 DEF Next
<1> QED
  BY <1>1, <1>2, PTL DEF Spec

\* In a list that is not empty and neither begins nor ends with a divider, the
\* cursor is on one of its lines, not on a divider, and visible.
THEOREM CursorVisibleTheorem ==
  Spec => [](Height > 0 /\ EndsAreLines => CursorVisible)
<1>1. CursorInv => (Height > 0 /\ EndsAreLines => CursorVisible)
  <2> SUFFICES ASSUME CursorInv, Height > 0, EndsAreLines PROVE CursorVisible
    OBVIOUS
  <2>1. /\ menu \in Menus /\ pos \in Nat /\ pos < Height
        /\ pos \notin menu.dividers
    BY DEF CursorInv
  <2>2. Height \in 0..239
    BY <2>1, HeightRange
  <2>3. CASE y = TopFor(pos)
    BY <2>1, <2>3, TopShowsCursor DEF CursorVisible
  <2>4. CASE y = 0 /\ pos = 0
    BY <2>1, <2>2, <2>4 DEF CursorVisible, VisibleRows
  <2> QED
    BY <2>3, <2>4 DEF CursorInv
<1> QED
  BY <1>1, CursorInvariant, PTL

-----------------------------------------------------------------------------
(* What the rows show.                                                     *)

\* The lists that the screen can show as they are: none is empty or has more
\* lines than the tile map has rows, and the cursor never rests on a divider.
ListsAreShowable ==
  \A m \in Menus :
    m.height \in 1..ScreenRows /\ 0 \notin m.dividers /\ (m.height - 1) \notin m.dividers

\* A screen on which the rows of lines show their own line, the rows of marked
\* have the cursor's colour, and nothing was written behind the tile map.
Picture(m, lines, marked) ==
  [of |-> m, text |-> [r \in Rows |-> IF r \in lines THEN {r} ELSE {}],
   colour |-> [r \in Rows |-> IF r \in marked THEN 1 ELSE 0], outside |-> {}]

\* A screen of which the text and the colours are replaced.
With(s, t, c) == [s EXCEPT !.text = t, !.colour = c]

LEMMA WithTextAndColour ==
  ASSUME NEW s, NEW m, NEW a, NEW b, NEW o, NEW t, NEW c,
         s = [of |-> m, text |-> a, colour |-> b, outside |-> o]
  PROVE  With(s, t, c) = [of |-> m, text |-> t, colour |-> c, outside |-> o]
<1> DEFINE L == [s EXCEPT !.text = t, !.colour = c]
           R == [of |-> m, text |-> t, colour |-> c, outside |-> o]
<1>1. /\ DOMAIN L = {"of", "text", "colour", "outside"}
      /\ DOMAIN R = {"of", "text", "colour", "outside"}
  OBVIOUS
<1>2. L.of = R.of /\ L.text = R.text /\ L.colour = R.colour /\ L.outside = R.outside
  OBVIOUS
<1>3. L = [x \in DOMAIN L |-> L[x]] /\ R = [x \in DOMAIN R |-> R[x]]
  OBVIOUS
<1> HIDE DEF L, R
<1>4. L = R
  BY <1>1, <1>2, <1>3
<1> QED
  BY <1>4 DEF L, R, With

LEMMA RowOfLine == \A k \in Rows : Row(k) = k
BY DEF Row, Rows, ScreenRows

\* Drawing lines shows them; a divider takes its row's colour away.
LEMMA DrawLinesPicture ==
  ASSUME NEW m, NEW lines \in SUBSET Rows, NEW marked, NEW more \in SUBSET Rows
  PROVE  DrawLines(Picture(m, lines, marked), more)
           = Picture(m, lines \cup more, marked \ (more \cap m.dividers))
<1> DEFINE s == Picture(m, lines, marked)
           rules == {Row(k) : k \in more \cap s.of.dividers}
           T == [r \in Rows |-> {k \in more : Row(k) = r} \cup (IF r \in rules THEN {} ELSE s.text[r])]
           C == [r \in Rows |-> IF r \in rules THEN 0 ELSE s.colour[r]]
           U == [r \in Rows |-> IF r \in lines \cup more THEN {r} ELSE {}]
           D == [r \in Rows |-> IF r \in marked \ (more \cap m.dividers) THEN 1 ELSE 0]
<1>1. DrawLines(s, more) = With(s, T, C)
  BY DEF DrawLines, With
<1>2. /\ s.of = m
      /\ \A r \in Rows : s.text[r] = (IF r \in lines THEN {r} ELSE {})
      /\ \A r \in Rows : s.colour[r] = (IF r \in marked THEN 1 ELSE 0)
  BY DEF Picture
<1>3. With(s, T, C) = [of |-> m, text |-> T, colour |-> C, outside |-> {}]
  <2>1. s = [of |-> m, text |-> s.text, colour |-> s.colour, outside |-> {}]
    BY DEF Picture
  <2> HIDE DEF s, T, C
  <2> QED BY <2>1, WithTextAndColour
<1> HIDE DEF s
<1>4. rules = more \cap m.dividers
  BY <1>2, RowOfLine
<1>5. \A r \in Rows : {k \in more : Row(k) = r} = IF r \in more THEN {r} ELSE {}
  BY RowOfLine
<1> HIDE DEF rules
<1>6. ASSUME NEW r \in Rows PROVE T[r] = U[r] /\ C[r] = D[r]
  <2>1. {k \in more : Row(k) = r} = IF r \in more THEN {r} ELSE {}
    BY <1>5
  <2>2. T[r] = {k \in more : Row(k) = r} \cup (IF r \in rules THEN {} ELSE s.text[r])
    OBVIOUS
  <2>3. T[r] = U[r]
    BY <1>2, <1>4, <2>1, <2>2
  <2>4. C[r] = D[r]
    BY <1>2, <1>4
  <2> QED
    BY <2>3, <2>4
<1>7. T = U /\ C = D
  BY <1>6
<1> QED
  BY <1>1, <1>3, <1>7 DEF Picture, s

Recolour(marked, line, c) == IF c = 1 THEN marked \cup {line} ELSE marked \ {line}

\* Clearing a row and drawing its line there.
LEMMA DrawCursorPicture ==
  ASSUME NEW m, NEW lines \in SUBSET Rows, NEW marked,
         NEW line \in Rows, line \notin m.dividers, NEW c, c \in {0, 1}
  PROVE  DrawCursor(Picture(m, lines, marked), line, c)
           = Picture(m, lines \cup {line}, Recolour(marked, line, c))
<1> DEFINE s == Picture(m, lines, marked)
           after == Recolour(marked, line, c)
           cleared == Picture(m, lines \ {line}, after)
           T == [s.text EXCEPT ![line] = {}]
           C == [s.colour EXCEPT ![line] = c]
<1>1. FillLine(s, line, c) = [of |-> m, text |-> T, colour |-> C, outside |-> {}]
  <2>1. FillLine(s, line, c) = With(s, T, C)
    <3>1. FillLine(s, line, c) = [s EXCEPT !.text[line] = {}, !.colour[line] = c]
      BY DEF FillLine
    <3> HIDE DEF s
    <3> QED BY <3>1 DEF With
  <2>2. s = [of |-> m, text |-> s.text, colour |-> s.colour, outside |-> {}]
    BY DEF Picture
  <2> HIDE DEF s, T, C
  <2> QED BY <2>1, <2>2, WithTextAndColour
<1>2. \A r \in Rows : T[r] = IF r \in lines \ {line} THEN {r} ELSE {}
  BY DEF Picture
<1>3. \A r \in Rows : C[r] = IF r \in after THEN 1 ELSE 0
  BY DEF Picture, Recolour
<1>4. /\ T = [r \in Rows |-> IF r \in lines \ {line} THEN {r} ELSE {}]
      /\ C = [r \in Rows |-> IF r \in after THEN 1 ELSE 0]
  <2>1. T = [r \in Rows |-> T[r]] /\ C = [r \in Rows |-> C[r]]
    BY DEF Picture
  <2> HIDE DEF T, C, after
  <2> QED BY <1>2, <1>3, <2>1
<1>5. FillLine(s, line, c) = cleared
  <2> HIDE DEF T, C, after
  <2> QED BY <1>1, <1>4 DEF Picture
<1>6. DrawLines(cleared, {line})
        = Picture(m, (lines \ {line}) \cup {line}, after \ ({line} \cap m.dividers))
  BY DrawLinesPicture
<1>7. (lines \ {line}) \cup {line} = lines \cup {line} /\ after \ ({line} \cap m.dividers) = after
  BY DEF Recolour
<1> QED
  BY <1>5, <1>6, <1>7 DEF DrawCursor

\* A screen that was reset.
LEMMA ClearedPicture == ASSUME outside = {}, NEW m PROVE Cleared(m) = Picture(m, {}, {})
<1>1. [r \in Rows |-> {}] = [r \in Rows |-> IF r \in {} THEN {r} ELSE {}]
  OBVIOUS
<1>2. [r \in Rows |-> 0] = [r \in Rows |-> IF r \in {} THEN 1 ELSE 0]
  OBVIOUS
<1> QED
  BY <1>1, <1>2 DEF Cleared, Picture

PageOf(top, height) == {k \in top..(top + VisibleRows - 1) : k < height}

LEMMA RedrawPicture ==
  ASSUME NEW m, m.height \in 1..ScreenRows, NEW lines \in SUBSET Rows, NEW marked,
         NEW top \in Nat, NEW line \in Rows, line \notin m.dividers
  PROVE  Redraw(Picture(m, lines, marked), top, line)
           = Picture(m, lines \cup PageOf(top, m.height) \cup {line},
                     (marked \ (PageOf(top, m.height) \cap m.dividers)) \cup {line})
<1> DEFINE s == Picture(m, lines, marked)
           page == PageOf(top, m.height)
           shown == Picture(m, lines \cup page, marked \ (page \cap m.dividers))
<1>1. s.of = m
  BY DEF Picture
<1>2. page \in SUBSET Rows
  BY DEF PageOf, Rows, ScreenRows
<1>3. m.height # 0
  BY DEF ScreenRows
<1>4. Redraw(s, top, line) = DrawCursor(DrawLines(s, page), line, 1)
  <2> HIDE DEF s
  <2> QED BY <1>1, <1>3, Zenon DEF Redraw, PageOf
<1>5. DrawLines(s, page) = shown
  BY <1>2, DrawLinesPicture
<1>6. DrawCursor(shown, line, 1)
        = Picture(m, lines \cup page \cup {line}, (marked \ (page \cap m.dividers)) \cup {line})
  <2> DEFINE both == lines \cup page
             left == marked \ (page \cap m.dividers)
  <2>1. both \in SUBSET Rows /\ 1 \in {0, 1}
    BY <1>2
  <2> HIDE DEF both, left
  <2>2. DrawCursor(Picture(m, both, left), line, 1)
          = Picture(m, both \cup {line}, Recolour(left, line, 1))
    BY <2>1, DrawCursorPicture
  <2>3. DrawCursor(Picture(m, both, left), line, 1) = Picture(m, both \cup {line}, left \cup {line})
    BY <2>2 DEF Recolour
  <2> QED BY <2>3 DEF both, left
<1> QED
  BY <1>4, <1>5, <1>6

-----------------------------------------------------------------------------
\* The rows of the page show their lines, and the cursor's row is marked.
PageShown(lines) ==
  /\ lines \in SUBSET Rows
  /\ Screen = Picture(menu, lines, {pos})
  /\ PageOf(y, Height) \subseteq lines
PictureInv == \E lines : PageShown(lines)

\* What the invariant of the cursor says in lists that can be shown.
LEMMA CursorOnRow ==
  ASSUME ListsAreShowable, CursorInv
  PROVE  /\ menu \in Menus /\ Height \in 1..ScreenRows
         /\ pos \in Rows /\ pos < Height /\ pos \notin menu.dividers /\ y \in Nat
<1>1. menu \in Menus /\ Height \in 1..ScreenRows /\ EndsAreLines
  BY DEF ListsAreShowable, CursorInv, EndsAreLines, Height
<1> QED
  BY <1>1 DEF CursorInv, Rows, ScreenRows

LEMMA PictureStep ==
  ASSUME ListsAreShowable, CursorInv, CursorInv', PictureInv, Next
  PROVE  PictureInv'
<1>1. /\ menu \in Menus /\ Height \in 1..ScreenRows
      /\ pos \in Rows /\ pos < Height /\ pos \notin menu.dividers /\ y \in Nat
  BY CursorOnRow
<1>2. /\ menu' \in Menus /\ Height' \in 1..ScreenRows
      /\ pos' \in Rows /\ pos' < Height' /\ pos' \notin menu'.dividers /\ y' \in Nat
  <2>1. menu' \in Menus /\ Height' \in 1..ScreenRows /\ EndsAreLines'
    BY DEF ListsAreShowable, CursorInv, EndsAreLines, Height
  <2> QED
    BY <2>1 DEF CursorInv, Rows, ScreenRows
<1>3. PICK lines : PageShown(lines)
  BY DEF PictureInv
<1>4. ASSUME NEW s, Show(s), s.of = menu', NEW more, PageOf(y', Height') \subseteq more,
             more \in SUBSET Rows, s = Picture(menu', more, {pos'})
      PROVE  PictureInv'
  <2>1. Screen' = [of |-> s.of, text |-> s.text, colour |-> s.colour, outside |-> s.outside]
    BY <1>4 DEF Screen, Show
  <2>2. s = [of |-> s.of, text |-> s.text, colour |-> s.colour, outside |-> s.outside]
    BY <1>4 DEF Picture
  <2>3. Screen' = Picture(menu', more, {pos'})
    BY <1>4, <2>1, <2>2
  <2>4. PageShown(more)'
    BY <1>4, <2>3 DEF PageShown
  <2> QED
    BY <2>4 DEF PictureInv
<1>5. outside = {}
  BY <1>3 DEF PageShown, Screen, Picture
<1>6. ASSUME NEW delta \in {1, -1}, Move(delta) PROVE PictureInv'
  <2> DEFINE left == DrawCursor(Screen, pos, 0)
             moved == DrawCursor(left, pos', 1)
             both == lines \cup {pos} \cup {pos'}
  <2>1. menu' = menu /\ Height' = Height /\ Show(IF y' # y THEN Redraw(moved, y', pos') ELSE moved)
    BY <1>6 DEF Move, Height
  <2>2. left = Picture(menu, lines \cup {pos}, {})
    <3>1. left = Picture(menu, lines \cup {pos}, Recolour({pos}, pos, 0))
      BY <1>1, <1>3, DrawCursorPicture DEF PageShown
    <3>2. Recolour({pos}, pos, 0) = {}
      BY DEF Recolour
    <3> HIDE DEF left
    <3> QED BY <3>1, <3>2
  <2>3. moved = Picture(menu, both, {pos'})
    <3>1. lines \cup {pos} \in SUBSET Rows /\ pos' \notin menu.dividers
      BY <1>1, <1>2, <1>3, <2>1 DEF PageShown
    <3>2. DrawCursor(Picture(menu, lines \cup {pos}, {}), pos', 1)
            = Picture(menu, both, Recolour({}, pos', 1))
      BY <1>2, <3>1, DrawCursorPicture
    <3>3. Recolour({}, pos', 1) = {pos'}
      BY DEF Recolour
    <3> HIDE DEF left, both
    <3> QED BY <2>2, <3>2, <3>3
  <2>4. both \in SUBSET Rows /\ lines \subseteq both /\ PageOf(y, Height) \subseteq lines
    BY <1>1, <1>2, <1>3 DEF PageShown
  <2>5. CASE y' # y
    <3> DEFINE more == both \cup PageOf(y', Height) \cup {pos'}
               marked == ({pos'} \ (PageOf(y', Height) \cap menu.dividers)) \cup {pos'}
    <3>1. Redraw(Picture(menu, both, {pos'}), y', pos') = Picture(menu, more, marked)
      <4> HIDE DEF both
      <4> QED BY <1>1, <1>2, <2>1, <2>4, RedrawPicture DEF Height
    <3>2. marked = {pos'} /\ PageOf(y', Height') \subseteq more
      BY <2>1
    <3>3. more \in SUBSET Rows
      BY <1>1, <1>2, <2>4 DEF PageOf, Rows, ScreenRows
    <3>4. Picture(menu, more, marked).of = menu'
      BY <2>1 DEF Picture
    <3>5. Show(Picture(menu, more, marked))
      <4> HIDE DEF moved, both, more, marked
      <4> QED BY <2>1, <2>3, <2>5, <3>1
    <3> HIDE DEF more, marked
    <3> QED BY <1>4, <2>1, <3>2, <3>3, <3>4, <3>5
  <2>6. CASE y' = y
    <3>1. Picture(menu, both, {pos'}).of = menu' /\ PageOf(y', Height') \subseteq both
      BY <2>1, <2>4, <2>6 DEF Picture
    <3>2. Show(Picture(menu, both, {pos'}))
      <4> HIDE DEF moved, both
      <4> QED BY <2>1, <2>3, <2>6
    <3> HIDE DEF both
    <3> QED BY <1>4, <2>1, <2>4, <3>1, <3>2
  <2> QED
    BY <2>5, <2>6
<1>7. CASE Select
  <2> DEFINE more == lines \cup PageOf(y, Height) \cup {pos}
             marked == ({pos} \ (PageOf(y, Height) \cap menu.dividers)) \cup {pos}
  <2>1. menu' = menu /\ pos' = pos /\ y' = y /\ Height' = Height /\ Show(Redraw(Screen, y, pos))
    BY <1>7 DEF Select, Height
  <2>2. Redraw(Screen, y, pos) = Picture(menu, more, marked)
    BY <1>1, <1>3, RedrawPicture DEF PageShown, Height
  <2>3. marked = {pos'} /\ PageOf(y', Height') \subseteq more
    BY <2>1
  <2>4. more \in SUBSET Rows
    BY <1>1, <1>3 DEF PageShown
  <2>5. Picture(menu, more, marked).of = menu'
    BY <2>1 DEF Picture
  <2> HIDE DEF more, marked
  <2> QED BY <1>4, <2>1, <2>2, <2>3, <2>4, <2>5
<1>8. ASSUME NEW m \in Menus, Open(m) PROVE PictureInv'
  <2> DEFINE more == {} \cup PageOf(0, m.height) \cup {0}
             marked == ({} \ (PageOf(0, m.height) \cap m.dividers)) \cup {0}
  <2>1. /\ menu' = m /\ pos' = 0 /\ y' = 0 /\ Height' = m.height
        /\ Show(Redraw(Cleared(m), 0, 0))
    BY <1>8 DEF Open, Height
  <2>2. Redraw(Cleared(m), 0, 0) = Picture(m, more, marked)
    BY <1>2, <1>5, <2>1, ClearedPicture, RedrawPicture
  <2>3. marked = {pos'} /\ PageOf(y', Height') \subseteq more
    BY <2>1
  <2>4. more \in SUBSET Rows
    BY <1>2, <2>1 DEF PageOf, Rows, ScreenRows
  <2>5. Picture(m, more, marked).of = menu'
    BY <2>1 DEF Picture
  <2> HIDE DEF more, marked
  <2> QED BY <1>4, <2>1, <2>2, <2>3, <2>4, <2>5
<1> QED
  BY <1>6, <1>7, <1>8 DEF Next

LEMMA PictureInit ==
  ASSUME ListsAreShowable, Init
  PROVE  PictureInv
<1> DEFINE more == {} \cup PageOf(0, menu.height) \cup {0}
           marked == ({} \ (PageOf(0, menu.height) \cap menu.dividers)) \cup {0}
           s == Redraw(Cleared(menu), 0, 0)
<1>1. /\ menu \in Menus /\ pos = 0 /\ y = 0 /\ outside = {}
      /\ text = s.text /\ colour = s.colour
  BY DEF Init
<1>2. menu.height \in 1..ScreenRows /\ 0 \in Rows /\ 0 \notin menu.dividers
  BY <1>1 DEF ListsAreShowable, Rows, ScreenRows
<1>3. s = Picture(menu, more, marked)
  BY <1>1, <1>2, ClearedPicture, RedrawPicture
<1>4. marked = {pos} /\ PageOf(y, Height) \subseteq more
  BY <1>1 DEF Height
<1>5. more \in SUBSET Rows
  BY <1>2 DEF PageOf, Rows, ScreenRows
<1>6. Screen = Picture(menu, more, marked)
  <2> HIDE DEF s, more, marked
  <2> QED BY <1>1, <1>3 DEF Screen, Picture
<1>7. PageShown(more)
  <2> HIDE DEF s, more, marked
  <2> QED BY <1>4, <1>5, <1>6 DEF PageShown
<1> QED
  BY <1>7 DEF PictureInv

LEMMA PictureUnchanged == PictureInv /\ UNCHANGED vars => PictureInv'
<1> SUFFICES ASSUME PictureInv, UNCHANGED vars PROVE PictureInv'
  OBVIOUS
<1>1. PICK lines : PageShown(lines)
  BY DEF PictureInv
<1>2. PageShown(lines)'
  BY <1>1 DEF vars, PageShown, Screen, Height
<1> QED
  BY <1>2 DEF PictureInv

LEMMA PictureShows ==
  ASSUME ListsAreShowable, CursorInv, PictureInv
  PROVE  ShowsTheList
<1>1. PICK lines : PageShown(lines)
  BY DEF PictureInv
<1>2. /\ text = [r \in Rows |-> IF r \in lines THEN {r} ELSE {}]
      /\ colour = [r \in Rows |-> IF r \in {pos} THEN 1 ELSE 0]
  BY <1>1 DEF PageShown, Screen, Picture
<1>3. ASSUME NEW k \in y..(y + VisibleRows - 1), k < Height
      PROVE  k \in Rows /\ k \in lines
  <2>1. Height \in 1..ScreenRows /\ y \in Nat
    BY CursorOnRow
  <2>2. k \in PageOf(y, Height)
    BY <1>3 DEF PageOf
  <2> QED
    BY <1>1, <1>3, <2>1, <2>2 DEF PageShown, Rows, ScreenRows
<1> QED
  BY <1>2, <1>3, RowOfLine DEF ShowsTheList

\* In lists that fit the tile map and neither begin nor end with a divider, each
\* visible row shows its line and the cursor's alone is marked.
THEOREM ShowsTheListTheorem == ListsAreShowable => (Spec => []ShowsTheList)
<1> SUFFICES ASSUME ListsAreShowable PROVE Spec => []ShowsTheList
  OBVIOUS
<1>1. Init => PictureInv
  BY PictureInit
<1>2. CursorInv /\ CursorInv' /\ PictureInv /\ [Next]_vars => PictureInv'
  BY PictureStep, PictureUnchanged
<1>3. CursorInv /\ PictureInv => ShowsTheList
  BY PictureShows
<1> QED
  BY <1>1, <1>2, <1>3, CursorInvariant, PTL DEF Spec

-----------------------------------------------------------------------------
(* Screens implements UiMenu: what opens over a list leaves it alone, and  *)
(* what it leads to is another list or the same one selected from again.   *)

LEMMA ScreensStep == ScreensNext \/ UNCHANGED svars => [Next]_vars
<1> SUFFICES ASSUME ScreensNext \/ UNCHANGED svars PROVE [Next]_vars
  OBVIOUS
<1>1. \A kind : ShowKind(kind) => Next
  BY DEF ShowKind, Next
<1>2. BackToTab => Next
  BY <1>1 DEF BackToTab
<1>3. CASE InList
  BY <1>3 DEF InList
<1>4. CASE LeavePopup
  BY <1>1, <1>2, <1>4 DEF LeavePopup
<1>5. CASE Confirm
  BY <1>2, <1>5 DEF Confirm
<1>6. CASE Decline
  BY <1>2, <1>6 DEF Decline, Next
<1>7. CASE Finish
  BY <1>2, <1>7 DEF Finish
<1>8. CASE OpenPopup \/ PopupMove(1) \/ PopupMove(-1) \/ Ask \/ DialogMove("up", 0)
           \/ DialogMove("down", 1)
  BY <1>8 DEF OpenPopup, PopupMove, Ask, DialogMove
<1>9. CASE OpenKeyboard \/ Shift \/ Type \/ Delete \/ \E key \in DOMAIN Mark : MarkMove(key)
  BY <1>9 DEF OpenKeyboard, Shift, Type, Delete, MarkMove
<1>10. CASE UNCHANGED svars
  BY <1>10 DEF svars
<1> QED
  BY <1>3, <1>4, <1>5, <1>6, <1>7, <1>8, <1>9, <1>10 DEF ScreensNext

\* Under what is opened over them, the lists take no step that UiMenu's do not.
THEOREM ScreensImplementsMenu == ScreensSpec => Spec
<1>1. ScreensInit => Init
  BY DEF ScreensInit
<1>2. [ScreensNext]_svars => [Next]_vars
  BY ScreensStep
<1> QED
  BY <1>1, <1>2, PTL DEF ScreensSpec, Spec

\* So the lists stay right whatever opens over them.
THEOREM ListsUnderScreens ==
  ListsAreShowable => (ScreensSpec => [](CursorVisible /\ ShowsTheList))
<1> SUFFICES ASSUME ListsAreShowable
             PROVE  ScreensSpec => [](CursorVisible /\ ShowsTheList)
  OBVIOUS
<1>1. CursorInv => Height > 0 /\ EndsAreLines
  <2> SUFFICES ASSUME CursorInv PROVE Height > 0 /\ EndsAreLines
    OBVIOUS
  <2>1. menu \in Menus
    BY DEF CursorInv
  <2> QED
    BY <2>1 DEF ListsAreShowable, EndsAreLines, Height, ScreenRows
<1>2. Spec => []ShowsTheList
  BY ShowsTheListTheorem
<1> QED
  BY <1>1, <1>2, CursorInvariant, CursorVisibleTheorem, ScreensImplementsMenu, PTL

\* Only in an empty list can something be selected that is not there: if every list
\* has a line, what is selected is always one of its lines.
THEOREM SelectsListedLineTheorem ==
  (\A m \in Menus : m.height > 0) => (ScreensSpec => []SelectsListedLine)
<1> SUFFICES ASSUME \A m \in Menus : m.height > 0 PROVE ScreensSpec => []SelectsListedLine
  OBVIOUS
<1>1. Init => SelectsListedLine
  BY DEF Init, SelectsListedLine
<1>2. CursorInv /\ SelectsListedLine /\ [Next]_vars => SelectsListedLine'
  <2> SUFFICES ASSUME CursorInv, SelectsListedLine, [Next]_vars PROVE SelectsListedLine'
    OBVIOUS
  <2>1. ASSUME NEW delta \in {1, -1}, Move(delta) PROVE SelectsListedLine'
    BY <2>1 DEF Move, SelectsListedLine, Height
  <2>2. CASE Select
    <3>1. Height > 0 /\ pos < Height
      BY DEF CursorInv, Height
    <3>2. Height' = Height /\ (result' = -1 \/ result' = pos)
      BY <2>2 DEF Select, Height
    <3> QED
      BY <3>1, <3>2 DEF SelectsListedLine
  <2>3. ASSUME NEW m \in Menus, Open(m) PROVE SelectsListedLine'
    BY <2>3 DEF Open, SelectsListedLine
  <2>4. CASE UNCHANGED vars
    BY <2>4 DEF vars, SelectsListedLine, Height
  <2> QED
    BY <2>1, <2>2, <2>3, <2>4 DEF Next
<1> QED
  BY <1>1, <1>2, CursorInvariant, ScreensImplementsMenu, PTL DEF Spec

-----------------------------------------------------------------------------
(* The questions.                                                          *)

\* What a question knows of the keys: yes is only marked after UP.
AskedInv ==
  /\ over \in {"none", "popup", "dialog", "osk"}
  /\ over # "none" => ~destroyed
  /\ over = "dialog" => at \in {0, 1} /\ (at = 0 => "up" \in keys)
  /\ destroyed => {"up", "a"} \subseteq keys

LEMMA AskedStep ==
  ASSUME AskedInv, ScreensNext \/ UNCHANGED svars
  PROVE  AskedInv'
<1>1. BackToTab => over' = "none"
  BY DEF BackToTab, ShowKind
<1>2. CASE InList \/ OpenPopup \/ Ask
  BY <1>2 DEF AskedInv, InList, OpenPopup, Ask, popup, Initial
<1>3. CASE PopupMove(1) \/ PopupMove(-1)
  BY <1>3 DEF AskedInv, PopupMove, asked
<1>4. CASE LeavePopup
  BY <1>1, <1>4 DEF AskedInv, LeavePopup, ShowKind, asked
<1>5. CASE DialogMove("up", 0) \/ DialogMove("down", 1)
  BY <1>5 DEF AskedInv, DialogMove
<1>6. CASE Confirm
  BY <1>1, <1>6 DEF AskedInv, Confirm
<1>7. CASE Decline
  BY <1>1, <1>7 DEF AskedInv, Decline
<1>8. CASE OpenKeyboard
  BY <1>8 DEF AskedInv, OpenKeyboard, asked
<1>9. CASE Finish
  BY <1>1, <1>9 DEF AskedInv, Finish, asked
<1>10. CASE Shift \/ Type \/ Delete \/ \E key \in DOMAIN Mark : MarkMove(key)
  BY <1>10 DEF AskedInv, Shift, Type, Delete, MarkMove, popup, asked
<1>11. CASE UNCHANGED svars
  BY <1>11 DEF AskedInv, svars, popup, asked
<1> QED
  BY <1>2, <1>3, <1>4, <1>5, <1>6, <1>7, <1>8, <1>9, <1>10, <1>11 DEF ScreensNext

\* Whatever CartFriend asks about is only done after two different keys.
THEOREM OneKeyDestroysNothingTheorem == ScreensSpec => []OneKeyDestroysNothing
<1>1. ScreensInit => AskedInv
  BY DEF ScreensInit, AskedInv
<1>2. AskedInv /\ [ScreensNext]_svars => AskedInv'
  BY AskedStep
<1>3. AskedInv => OneKeyDestroysNothing
  BY DEF AskedInv, OneKeyDestroysNothing
<1> QED
  BY <1>1, <1>2, <1>3, PTL DEF ScreensSpec

-----------------------------------------------------------------------------
(* The keyboard.                                                           *)

Names == {n \in Seq(Layouts) : Len(n) <= MaxName}
Buffers == [1..MaxName -> Layouts \cup {Nul, Remains}]

\* The buffer is the text, and a terminator where there is room for one.
Holds(b, t) ==
  /\ \A k \in 1..Len(t) : b[k] = t[k]
  /\ Len(t) = MaxName \/ b[Len(t) + 1] = Nul

MarkOnKey ==
  \/ kx \in 0..(Width - 1) /\ ky \in KeyRows
  \/ kx \in {0, 1} /\ ky = Buttons

KeyboardInv ==
  /\ name \in Names /\ layout \in Layouts
  /\ lit = <<layout, kx, ky>>
  /\ over = "osk" =>
       /\ typed \in Names /\ buf \in Buffers
       /\ Holds(buf, typed) /\ field = typed
       /\ MarkOnKey

\* A letter is not what ends or follows a text.
LEMMA LettersAreText == Nul \notin Layouts
BY DEF Nul, Layouts

\* What the code reads from such a buffer is the text.
LEMMA TextOfBuffer ==
  ASSUME NEW b \in Buffers, NEW t \in Names, Holds(b, t)
  PROVE  EndOf(b) = Len(t) /\ Text(b) = t
<1> DEFINE Ends(n) == /\ \A k \in 1..n : b[k] # Nul
                      /\ n = MaxName \/ b[n + 1] = Nul
<1>1. /\ t \in Seq(Layouts) /\ Len(t) \in 0..MaxName /\ MaxName \in Nat
      /\ \A k \in 1..Len(t) : b[k] = t[k] /\ t[k] \in Layouts
  BY NameAssumption DEF Names, Holds
<1>2. Ends(Len(t))
  BY <1>1, LettersAreText DEF Holds
<1>3. ASSUME NEW n \in 0..MaxName, Ends(n) PROVE n = Len(t)
  <2>1. CASE n < Len(t)
    <3>1. n + 1 \in 1..Len(t) /\ n # MaxName
      BY <1>1, <2>1
    <3> QED
      BY <1>1, <1>3, <3>1, LettersAreText
  <2>2. CASE n > Len(t)
    <3>1. Len(t) + 1 \in 1..n /\ Len(t) # MaxName
      BY <1>1, <2>2
    <3> QED
      BY <1>3, <3>1 DEF Holds
  <2> QED
    BY <1>1, <2>1, <2>2
<1>4. EndOf(b) = Len(t)
  <2>1. EndOf(b) = CHOOSE n \in 0..MaxName : Ends(n)
    BY DEF EndOf
  <2> HIDE DEF Ends
  <2> QED BY <1>1, <1>2, <1>3, <2>1
<1>5. Text(b) = t
  <2>1. b \in Seq(Layouts \cup {Nul, Remains}) /\ Len(b) = MaxName
    BY <1>1 DEF Buffers
  <2>2. /\ Text(b) \in Seq(Layouts \cup {Nul, Remains}) /\ Len(Text(b)) = Len(t)
        /\ \A k \in 1..Len(t) : Text(b)[k] = b[k]
    BY <1>1, <1>4, <2>1, SubSeqProperties DEF Text
  <2>3. t \in Seq(Layouts \cup {Nul, Remains})
    BY <1>1
  <2> QED
    BY <1>1, <2>2, <2>3, SeqEqual
<1> QED
  BY <1>4, <1>5

\* Writing a character behind the text, and taking the last one away.
LEMMA TypedBuffer ==
  ASSUME NEW b \in Buffers, NEW t \in Names, Holds(b, t), NEW c \in Layouts, Len(t) < MaxName
  PROVE  /\ Append(t, c) \in Names /\ Typed(b, Len(t), c) \in Buffers
         /\ Holds(Typed(b, Len(t), c), Append(t, c))
<1> DEFINE n == Len(t)
           d == Typed(b, n, c)
           u == Append(t, c)
<1>1. /\ t \in Seq(Layouts) /\ n \in 0..(MaxName - 1) /\ MaxName \in Nat
      /\ \A k \in 1..n : b[k] = t[k]
  BY NameAssumption DEF Names, Holds
<1>2. /\ u \in Seq(Layouts) /\ Len(u) = n + 1 /\ u[n + 1] = c
      /\ \A k \in 1..n : u[k] = t[k]
  BY <1>1, AppendProperties
<1>3. \A k \in 1..MaxName : d[k] = IF k = n + 1 THEN c ELSE IF k = n + 2 THEN Nul ELSE b[k]
  BY DEF Typed
<1>4. d \in Buffers
  BY DEF Typed, Buffers
<1>5. \A k \in 1..(n + 1) : d[k] = u[k]
  <2> HIDE DEF d, u
  <2> TAKE k \in 1..(n + 1)
  <2>1. k \in 1..MaxName
    BY <1>1
  <2>2. k = n + 1 \/ k \in 1..n
    BY <1>1
  <2>3. ~(n + 1 = n + 2) /\ (k \in 1..n => k # n + 1 /\ k # n + 2)
    BY <1>1
  <2> QED
    BY <1>1, <1>2, <1>3, <2>1, <2>2, <2>3
<1>6. n + 1 = MaxName \/ d[n + 2] = Nul
  <2> HIDE DEF d
  <2>1. n + 1 # MaxName => n + 2 \in 1..MaxName
    BY <1>1
  <2>2. n + 2 # n + 1
    BY <1>1
  <2> QED
    BY <1>3, <2>1, <2>2
<1>7. u \in Names
  BY <1>1, <1>2 DEF Names
<1> HIDE DEF d, u
<1>8. Holds(d, u)
  <2>1. (n + 1) + 1 = n + 2
    BY <1>1
  <2> QED
    BY <1>2, <1>5, <1>6, <2>1 DEF Holds
<1> QED
  BY <1>4, <1>7, <1>8 DEF d, u

LEMMA DeletedBuffer ==
  ASSUME NEW b \in Buffers, NEW t \in Names, Holds(b, t), Len(t) > 0
  PROVE  /\ SubSeq(t, 1, Len(t) - 1) \in Names /\ [b EXCEPT ![Len(t)] = Nul] \in Buffers
         /\ Holds([b EXCEPT ![Len(t)] = Nul], SubSeq(t, 1, Len(t) - 1))
<1> DEFINE n == Len(t)
           d == [b EXCEPT ![n] = Nul]
           u == SubSeq(t, 1, n - 1)
<1>1. /\ t \in Seq(Layouts) /\ n \in 1..MaxName /\ MaxName \in Nat
      /\ \A k \in 1..n : b[k] = t[k] /\ t[k] \in Layouts
  BY NameAssumption DEF Names, Holds
<1>2. u \in Seq(Layouts) /\ Len(u) = n - 1 /\ \A k \in 1..(n - 1) : u[k] = t[k]
  <2> DEFINE m == n - 1
  <2>1. n \in Nat /\ m \in Nat /\ n = m + 1
    <3>1. n \in 1..MaxName /\ MaxName \in Nat
      BY <1>1
    <3> HIDE DEF n
    <3> QED
      BY <3>1
  <2>2. \A k \in 1..m : k \in 1..n /\ t[k] \in Layouts
    <3> HIDE DEF n
    <3> QED
      BY <1>1, <2>1
  <2> HIDE DEF m
  <2>3. SubSeq(t, 1, m) \in Seq(Layouts)
    BY <2>1, <2>2, SubSeqProperties
  <2>4. Len(SubSeq(t, 1, m)) = m
    <3>1. Len(SubSeq(t, 1, m)) = IF 1 <= m THEN m - 1 + 1 ELSE 0
      BY <2>1, <2>2, SubSeqProperties
    <3> QED
      BY <2>1, <3>1
  <2>5. \A k \in 1..m : SubSeq(t, 1, m)[k] = t[k]
    <3> TAKE k \in 1..m
    <3>1. k \in 1..(m - 1 + 1) /\ 1 + k - 1 = k
      BY <2>1
    <3>2. SubSeq(t, 1, m)[k] = t[1 + k - 1]
      BY <2>1, <2>2, <3>1, SubSeqProperties
    <3> QED
      BY <3>1, <3>2
  <2> QED
    BY <2>3, <2>4, <2>5 DEF m
<1>3. d \in Buffers /\ d[n] = Nul /\ \A k \in 1..(n - 1) : d[k] = b[k]
  BY <1>1 DEF Buffers
<1>4. u \in Names
  BY <1>1, <1>2 DEF Names
<1> HIDE DEF d, u
<1>5. Holds(d, u)
  <2>1. (n - 1) + 1 = n /\ \A k \in 1..(n - 1) : k \in 1..n
    BY <1>1
  <2> QED
    BY <1>1, <1>2, <1>3, <2>1 DEF Holds
<1> QED
  BY <1>3, <1>4, <1>5 DEF d, u

\* The buffer that the keyboard is opened with.
LEMMA OpenedBuffer ==
  ASSUME NEW t \in Names
  PROVE  LET b == [k \in 1..MaxName |-> IF k <= Len(t) THEN t[k]
                                        ELSE IF t = <<>> /\ k > 1 THEN Remains ELSE Nul]
         IN  b \in Buffers /\ Holds(b, t)
<1> DEFINE n == Len(t)
           b == [k \in 1..MaxName |-> IF k <= n THEN t[k]
                                      ELSE IF t = <<>> /\ k > 1 THEN Remains ELSE Nul]
<1>1. /\ t \in Seq(Layouts) /\ n \in 0..MaxName /\ MaxName \in Nat \ {0}
      /\ \A k \in 1..n : t[k] \in Layouts
      /\ t = <<>> <=> n = 0
  BY NameAssumption, EmptySeq DEF Names
<1>2. b \in Buffers
  BY <1>1 DEF Buffers
<1>3. \A k \in 1..n : b[k] = t[k]
  BY <1>1
<1>4. n = MaxName \/ b[n + 1] = Nul
  <2>1. n # MaxName => n + 1 \in 1..MaxName
    BY <1>1
  <2>2. ~(n + 1 <= n) /\ (t = <<>> => ~(n + 1 > 1))
    BY <1>1
  <2> QED
    BY <2>1, <2>2
<1> QED
  BY <1>2, <1>3, <1>4 DEF Holds

\* Every key leaves the mark on a key.
LEMMA MarkMoves ==
  ASSUME MarkOnKey, NEW key \in DOMAIN Mark
  PROVE  \/ Mark[key][1] \in 0..(Width - 1) /\ Mark[key][2] \in KeyRows
         \/ Mark[key][1] \in {0, 1} /\ Mark[key][2] = Buttons
<1>1. key \in {"up", "down", "left", "right", "aup", "adown", "aleft", "aright", "b"}
  BY DEF Mark
<1>2. Width = 12 /\ Buttons = 255 /\ KeyRows = 0..3
  BY DEF Width, Buttons, KeyRows
<1>3. CASE ky = Buttons
  <2>1. kx \in {0, 1}
    BY <1>2, <1>3 DEF MarkOnKey
  <2>2. LastColumn = 1 /\ ToColumn(kx) \in 0..11
    BY <1>2, <1>3, <2>1 DEF LastColumn, ToColumn
  <2> QED
    BY <1>1, <1>2, <1>3, <2>1, <2>2 DEF Mark
<1>4. CASE ky # Buttons
  <2>1. kx \in 0..11 /\ ky \in 0..3
    BY <1>2, <1>4 DEF MarkOnKey
  <2>2. LastColumn = 11 /\ ToButton(kx) \in {0, 1}
    BY <1>2, <1>4, <2>1 DEF LastColumn, ToButton
  <2> QED
    BY <1>1, <1>2, <1>4, <2>1, <2>2 DEF Mark
<1> QED
  BY <1>3, <1>4

\* The key that is pressed and what the field shows, after each of the actions.
LEMMA KeyboardStep ==
  ASSUME KeyboardInv, ScreensNext \/ UNCHANGED svars
  PROVE  KeyboardInv'
<1> DEFINE Closed == over' # "osk" /\ cursor' = cursor /\ name' = name
           Same == over' = over /\ cursor' = cursor /\ entry' = entry /\ name' = name
<1>1. BackToTab => over' = "none"
  BY DEF BackToTab, ShowKind
<1>2. CASE Closed
  BY <1>2 DEF KeyboardInv, cursor
<1>3. CASE Same
  BY <1>3 DEF KeyboardInv, cursor, entry, Holds, MarkOnKey
<1>4. CASE InList \/ OpenPopup \/ Ask
  <2>1. Closed
    BY <1>4 DEF InList, OpenPopup, Ask, popup
  <2> QED BY <1>2, <2>1
<1>5. CASE PopupMove(1) \/ PopupMove(-1) \/ DialogMove("up", 0) \/ DialogMove("down", 1)
  <2>1. Closed
    BY <1>5 DEF PopupMove, DialogMove
  <2> QED BY <1>2, <2>1
<1>6. CASE LeavePopup
  <2>1. Closed
    BY <1>1, <1>6 DEF LeavePopup, ShowKind
  <2> QED BY <1>2, <2>1
<1>7. CASE Confirm \/ Decline
  <2>1. Closed
    BY <1>1, <1>7 DEF Confirm, Decline
  <2> QED BY <1>2, <2>1
<1>8. CASE OpenKeyboard
  <2>1. name \in Names /\ name' = name /\ typed' = name
    BY <1>8 DEF KeyboardInv, OpenKeyboard
  <2>2. buf' \in Buffers /\ Holds(buf', name)
    BY <1>8, <2>1, OpenedBuffer DEF OpenKeyboard
  <2>3. Text(buf') = name
    BY <2>1, <2>2, TextOfBuffer
  <2>4. field' = Text(buf')
    BY <1>8 DEF OpenKeyboard
  <2>5. layout' \in Layouts /\ lit' = <<layout', kx', ky'>> /\ MarkOnKey'
    BY <1>8 DEF OpenKeyboard, DrawKeys, Layouts, MarkOnKey, Width, KeyRows
  <2> QED
    BY <2>1, <2>2, <2>3, <2>4, <2>5 DEF KeyboardInv, Holds
<1>9. CASE Shift
  <2>1. over = "osk" /\ kx' = kx /\ ky' = ky /\ name' = name /\ entry' = entry
    BY <1>9 DEF Shift
  <2>2. layout' \in Layouts /\ lit' = <<layout', kx', ky'>>
    BY <1>9 DEF Shift, DrawKeys, Layouts
  <2> QED
    BY <2>1, <2>2 DEF KeyboardInv, entry, Holds, MarkOnKey
<1>10. CASE \E key \in DOMAIN Mark : MarkMove(key)
  <2>1. PICK key \in DOMAIN Mark : MarkMove(key)
    BY <1>10
  <2>2. over = "osk" /\ layout' = layout /\ name' = name /\ entry' = entry
    BY <2>1 DEF MarkMove
  <2>3. lit' = <<layout', kx', ky'>> /\ kx' = Mark[key][1] /\ ky' = Mark[key][2]
    BY <2>1 DEF MarkMove, DrawKeys
  <2>4. MarkOnKey
    BY <2>2 DEF KeyboardInv
  <2>5. MarkOnKey'
    BY <2>3, <2>4, MarkMoves DEF MarkOnKey
  <2> QED
    BY <2>2, <2>3, <2>5 DEF KeyboardInv, entry, Holds
<1>11. CASE Type
  <2>1. /\ over = "osk" /\ EndOf(buf) < MaxName /\ cursor' = cursor /\ name' = name
        /\ buf' = Typed(buf, EndOf(buf), layout)
        /\ field' = Text(buf') /\ typed' = Append(typed, layout)
    BY <1>11 DEF Type
  <2>2. buf \in Buffers /\ typed \in Names /\ Holds(buf, typed) /\ layout \in Layouts
    BY <2>1 DEF KeyboardInv
  <2>3. EndOf(buf) = Len(typed)
    BY <2>2, TextOfBuffer
  <2>4. buf' \in Buffers /\ typed' \in Names /\ Holds(buf', typed')
    BY <2>1, <2>2, <2>3, TypedBuffer
  <2>5. field' = typed'
    BY <2>1, <2>4, TextOfBuffer
  <2> QED
    BY <2>1, <2>4, <2>5 DEF KeyboardInv, cursor, Holds, MarkOnKey
<1>12. CASE Delete
  <2>1. /\ over = "osk" /\ EndOf(buf) > 0 /\ cursor' = cursor /\ name' = name
        /\ buf' = [buf EXCEPT ![EndOf(buf)] = Nul]
        /\ field' = Text(buf') /\ typed' = SubSeq(typed, 1, Len(typed) - 1)
    BY <1>12 DEF Delete
  <2>2. buf \in Buffers /\ typed \in Names /\ Holds(buf, typed)
    BY <2>1 DEF KeyboardInv
  <2>3. EndOf(buf) = Len(typed)
    BY <2>2, TextOfBuffer
  <2>4. buf' \in Buffers /\ typed' \in Names /\ Holds(buf', typed')
    BY <2>1, <2>2, <2>3, DeletedBuffer
  <2>5. field' = typed'
    BY <2>1, <2>4, TextOfBuffer
  <2> QED
    BY <2>1, <2>4, <2>5 DEF KeyboardInv, cursor, Holds, MarkOnKey
<1>13. CASE Finish
  <2>1. over = "osk" /\ over' = "none" /\ name' = IF kx = 0 THEN Text(buf) ELSE name
    BY <1>1, <1>13 DEF Finish
  <2>2. name' \in Names
    BY <2>1, TextOfBuffer DEF KeyboardInv
  <2>3. layout' \in Layouts /\ lit' = <<layout', kx', ky'>>
    BY <1>13 DEF Finish, NoCursor, DrawKeys, Layouts
  <2> QED
    BY <2>1, <2>2, <2>3 DEF KeyboardInv
<1>14. CASE UNCHANGED svars
  <2>1. Same
    BY <1>14 DEF svars, popup
  <2> QED BY <1>3, <2>1
<1> HIDE DEF Closed, Same
<1> QED
  BY <1>4, <1>5, <1>6, <1>7, <1>8, <1>9, <1>10, <1>11, <1>12, <1>13, <1>14 DEF ScreensNext

LEMMA KeyboardInit == ScreensInit => KeyboardInv
<1> SUFFICES ASSUME ScreensInit PROVE KeyboardInv
  OBVIOUS
<1>1. <<>> \in Names
  BY NameAssumption, EmptySeq DEF Names
<1> QED
  BY <1>1 DEF ScreensInit, KeyboardInv, Layouts

LEMMA KeyboardInvariant == ScreensSpec => []KeyboardInv
<1>1. KeyboardInv /\ [ScreensNext]_svars => KeyboardInv'
  BY KeyboardStep
<1> QED
  BY <1>1, KeyboardInit, PTL DEF ScreensSpec

\* While a name is edited, the field shows what was typed and not deleted, and
\* the key that KEY_A will press exists and is the marked one, for any length of
\* the buffer.
THEOREM ShowsWhatIsTypedTheorem == ScreensSpec => []ShowsWhatIsTyped
<1>1. KeyboardInv => ShowsWhatIsTyped
  <2> SUFFICES ASSUME KeyboardInv, over = "osk" PROVE ShowsWhatIsTyped
    BY DEF ShowsWhatIsTyped
  <2>1. typed \in Names /\ buf \in Buffers /\ Holds(buf, typed)
    BY DEF KeyboardInv
  <2>2. Text(buf) = typed /\ Len(typed) <= MaxName
    BY <2>1, TextOfBuffer DEF Names
  <2> QED
    BY <2>2 DEF KeyboardInv, ShowsWhatIsTyped, MarkOnKey
<1> QED
  BY <1>1, KeyboardInvariant, PTL

\* A program is only given the name that the field showed when OK was marked.
THEOREM StoresWhatIsShownTheorem == ScreensSpec => StoresWhatIsShown
<1> DEFINE Stores == name' # name => over = "osk" /\ lit = <<layout, 0, Buttons>> /\ name' = field
<1>1. KeyboardInv /\ [ScreensNext]_svars => [Stores]_svars
  <2> SUFFICES ASSUME KeyboardInv, ScreensNext PROVE Stores
    OBVIOUS
  <2>1. CASE Finish
    <3>1. over = "osk" /\ ky = Buttons /\ name' = IF kx = 0 THEN Text(buf) ELSE name
      BY <2>1 DEF Finish
    <3>2. Text(buf) = field /\ lit = <<layout, kx, ky>>
      BY <3>1, TextOfBuffer DEF KeyboardInv
    <3> QED
      BY <3>1, <3>2
  <2>2. CASE \/ InList \/ OpenPopup \/ PopupMove(1) \/ PopupMove(-1) \/ LeavePopup
             \/ Ask \/ DialogMove("up", 0) \/ DialogMove("down", 1) \/ Confirm \/ Decline
    BY <2>2 DEF InList, OpenPopup, PopupMove, LeavePopup, Ask, DialogMove, Confirm, Decline
  <2>3. CASE OpenKeyboard \/ Shift \/ Type \/ Delete \/ \E key \in DOMAIN Mark : MarkMove(key)
    BY <2>3 DEF OpenKeyboard, Shift, Type, Delete, MarkMove
  <2> QED
    BY <2>1, <2>2, <2>3 DEF ScreensNext
<1> QED
  BY <1>1, KeyboardInvariant, PTL DEF ScreensSpec, StoresWhatIsShown
=============================================================================
