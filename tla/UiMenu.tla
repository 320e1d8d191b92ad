------------------------------- MODULE UiMenu -------------------------------
(***************************************************************************)
(* The list menu (src/src/ui.c, ui_menu_init and ui_menu_select): a cursor *)
(* in a list of up to 255 lines, 16 of which are visible, drawn in a tile  *)
(* map of 32 rows that is used as a ring.  A line's text is drawn modulo   *)
(* 32 (ws_screen_put_tile), but ui_fill_line, which clears a row and gives *)
(* it its colour, addresses memory by the line's number: rows 32 and up    *)
(* are the font at 0x2000 and what follows it.                             *)
(***************************************************************************)
EXTENDS Integers

CONSTANT Menus   \* [height, dividers]: the lists, and which lines are dividers

VisibleRows == 16
ScreenRows == 32
Margin == 8              \* the cursor is kept in the middle
OutOfList == 255         \* (uint8_t) -1

ASSUME MenuAssumption ==
  \A m \in Menus : m.height \in 0..239 /\ m.dividers \subseteq 0..(m.height - 1)

VARIABLES
  menu,        \* the list that is shown
  pos, y,      \* ui_menu_state_t: the cursor's line, the first visible line
  text,        \* by row of the tile map: the lines drawn since it was cleared
  colour,      \* by row: 1 where ui_fill_line left the cursor's colour
  outside,     \* rows that ui_fill_line wrote to behind the tile map
  result       \* history: the line that was selected, -1 for none

vars == <<menu, pos, y, text, colour, outside, result>>

Rows == 0..(ScreenRows - 1)
Height == menu.height
Row(line) == line % ScreenRows

\* ui_menu_init: uint8_t arithmetic, so that a short list wraps.
YMax ==
  LET wrapped == (Height - VisibleRows) % 256
  IN  IF wrapped > Height THEN 0 ELSE wrapped

-----------------------------------------------------------------------------
(* What is drawn: s is a screen that shows menu s.of. *)

Screen == [of |-> menu, text |-> text, colour |-> colour, outside |-> outside]

\* ui_reset_main_screen
Cleared(m) ==
  [of |-> m, text |-> [r \in Rows |-> {}], colour |-> [r \in Rows |-> 0], outside |-> outside]

Show(s) == text' = s.text /\ colour' = s.colour /\ outside' = s.outside

\* ui_fill_line
FillLine(s, line, c) ==
  IF line \in Rows
  THEN [s EXCEPT !.text[line] = {}, !.colour[line] = c]
  ELSE [s EXCEPT !.outside = @ \cup {line}]

\* ui_menu_draw_line, for some lines that have rows of their own: a divider
\* replaces its row, other text is drawn over it.
DrawLines(s, lines) ==
  LET rules == {Row(k) : k \in lines \cap s.of.dividers}
  IN  [s EXCEPT
        !.text = [r \in Rows |->
          {k \in lines : Row(k) = r} \cup (IF r \in rules THEN {} ELSE s.text[r])],
        !.colour = [r \in Rows |-> IF r \in rules THEN 0 ELSE s.colour[r]]]

DrawCursor(s, line, c) == DrawLines(FillLine(s, line, c), {line})

\* ui_menu_redraw
Redraw(s, top, cursor) ==
  IF s.of.height = 0 THEN s
  ELSE DrawCursor(DrawLines(s, {k \in top..(top + VisibleRows - 1) : k < s.of.height}), cursor, 1)

-----------------------------------------------------------------------------
\* Mutant: one line on, whatever is there.
LandsOnNext(delta, line) == line = (pos + delta) /\ line \in 0..(Height - 1)

\* ui_menu_list_move_pos: on to the next line that is not a divider, or to
\* the end of the list.
Lands(delta, line) ==
  IF Height = 0 THEN line = IF delta = 1 \/ pos > 0 THEN OutOfList ELSE 0
  ELSE IF delta = 1
  THEN /\ line \in pos..(Height - 1)
       /\ (pos + 1)..(line - 1) \subseteq menu.dividers
       /\ line = Height - 1 \/ (line > pos /\ line \notin menu.dividers)
  ELSE /\ line \in 0..pos
       /\ (line + 1)..(pos - 1) \subseteq menu.dividers
       /\ line = 0 \/ (line < pos /\ line \notin menu.dividers)

\* The first visible line, for a cursor at line.
TopFor(line) ==
  IF line - Margin < 0 THEN 0 ELSE IF line - Margin >= YMax THEN YMax ELSE line - Margin

\* Mutant: the old line keeps the cursor's colour.
MoveUncleared(delta) ==
  /\ \E line \in 0..255 :
       /\ Lands(delta, line) /\ line # pos
       /\ pos' = line /\ y' = TopFor(line)
       /\ LET moved == DrawCursor(Screen, line, 1)
          IN  Show(IF y' # y THEN Redraw(moved, y', line) ELSE moved)
  /\ UNCHANGED <<menu, result>>

\* ui_menu_move, for KEY_UP and KEY_DOWN.
Move(delta) ==
  /\ \E line \in 0..255 :
       /\ Lands(delta, line) /\ line # pos
       /\ pos' = line /\ y' = TopFor(line)
       /\ LET moved == DrawCursor(DrawCursor(Screen, pos, 0), line, 1)
          IN  Show(IF y' # y THEN Redraw(moved, y', line) ELSE moved)
  /\ UNCHANGED <<menu, result>>

\* KEY_A, and what many of the menus do then: ui_menu_select once more.  Right
\* behind the list is MENU_ENTRY_END, which stands for no selection.
Select ==
  /\ result' = IF pos = Height THEN -1 ELSE pos
  /\ Show(Redraw(Screen, y, pos))
  /\ UNCHANGED <<menu, pos, y>>

\* Another menu: ui_reset_main_screen, ui_menu_init, ui_menu_select.
Open(m) ==
  /\ menu' = m
  /\ pos' = 0 /\ y' = 0 /\ result' = -1
  /\ Show(Redraw(Cleared(m), 0, 0))

Init ==
  /\ menu \in Menus
  /\ pos = 0 /\ y = 0 /\ result = -1
  /\ outside = {}
  /\ LET s == Redraw(Cleared(menu), 0, 0) IN text = s.text /\ colour = s.colour

Next ==
  \/ Move(1) \/ Move(-1)
  \/ Select
  \/ \E m \in Menus : Open(m)

Spec == Init /\ [][Next]_vars

-----------------------------------------------------------------------------
\* However the list was walked, the cursor is on a line of the list that is
\* visible, not on a divider even where several stand together, and the page
\* does not go on behind the list.
CursorVisible ==
  /\ pos < Height /\ pos \notin menu.dividers
  /\ y <= pos /\ pos < y + VisibleRows
  /\ y + VisibleRows <= Height \/ y = 0

\* Every visible row shows its own line and no other, and the cursor's row
\* alone has the cursor's colour, whatever was drawn in it before.
ShowsTheList ==
  \A k \in y..(y + VisibleRows - 1) :
    k < Height =>
      /\ text[Row(k)] = {k}
      /\ colour[Row(k)] = IF k = pos THEN 1 ELSE 0

\* ui.c: "// install font @ 0x2000": the lists leave it alone.  One with more
\* lines than the tile map has rows does not (MCScreensLong.cfg).
FontStaysInstalled == outside = {}

\* README.md: "Hide empty slots - if this option is enabled, slots without valid
\* software flashed to them will not be displayed": what is selected, and then
\* launched, is a line of the list.
SelectsListedLine == result < Height \/ result = -1
=============================================================================
