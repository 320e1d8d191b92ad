------------------------------ MODULE Screens ------------------------------
(***************************************************************************)
(* What opens over the lists of UiMenu, on the second screen: the popup    *)
(* menu of a program (ui_popup_menu_run), the questions (ui_dialog_run)    *)
(* and the on-screen keyboard (ui_osk_run), and how ui_browse and          *)
(* ui_settings go from one to the other.  Input reports one key at a time. *)
(* The keyboard edits a buffer that has no terminator when it is full and  *)
(* that holds remains of the lists behind its terminator.                  *)
(***************************************************************************)
EXTENDS UiMenu, Sequences

\* Menus here also have .asks, the lines that lead to a question, and .kind:
\* the program list ("browse"), a WW environment's ("manage"), the settings, the
\* save blocks ("saves") and others.
CONSTANT MaxName       \* buf_width of a renaming: 23

ASSUME NameAssumption == MaxName \in Nat \ {0}

Width == 12              \* OSK_EN_WIDTH
KeyRows == 0..3          \* OSK_EN_HEIGHT
Buttons == 255           \* osk_y on OK and CANCEL

Nul == "\\0"
Remains == "remains"     \* an entry of a list that was in the buffer
Layouts == {"en1", "en2"}      \* a character is told by the layout it is on

VARIABLES
  over,        \* what is open over the list: "none", "popup", "dialog", "osk"
  choices,     \* the popup menu's list
  at,          \* the popup menu's pos, or the dialog's selected_option
  kx, ky,      \* osk_x, osk_y
  layout,
  buf,         \* menu_list, as the keyboard's buffer
  field, lit,  \* drawn: the text, and the keys with the one that is marked
  name,        \* slot_name of the program
  typed,       \* history: the name with what was typed and deleted since
  keys,        \* history: the keys pressed since a question was asked
  destroyed    \* history: the question was answered with yes

popup == <<over, choices, at>>
cursor == <<kx, ky, layout, lit>>
entry == <<buf, field, typed>>
asked == <<keys, destroyed>>
svars == <<vars, popup, cursor, entry, name, asked>>

-----------------------------------------------------------------------------
(* The popup menu, over the program list. *)

\* The lines of ui_browse_inner's popup menu, for a program.
Offered(p, c) ==
  CASE c = "manage" -> p.ww
    [] c = "rename" -> p.first          \* entry_id < 0x10
    [] c = "install" -> ~p.ww /\ p.soft
    [] OTHER -> TRUE
PopupFor(p) ==
  LET offered(c) == Offered(p, c)
  IN  SelectSeq(<<"launch", "manage", "info", "rename", "install">>, offered)

\* KEY_B in the program list; right behind the list is no program.
OpenPopup ==
  /\ over = "none" /\ menu.kind = "browse" /\ pos # Height
  /\ over' = "popup" /\ at' = 0
  /\ \E p \in [ww : BOOLEAN, first : BOOLEAN, soft : BOOLEAN] : choices' = PopupFor(p)
  /\ keys' = {} /\ destroyed' = FALSE
  /\ UNCHANGED <<vars, cursor, entry, name>>

\* The popup menu moves as the lists do.
Popup == INSTANCE UiMenu WITH menu <- [height |-> Len(choices), dividers |-> {}], pos <- at
PopupMove(delta) ==
  /\ over = "popup"
  /\ Popup!Lands(delta, at')
  /\ UNCHANGED <<vars, over, choices, cursor, entry, name, asked>>

\* What follows: main's loop shows the list of the tab anew.
ShowKind(kind) ==
  /\ \E m \in Menus : m.kind = kind /\ Open(m)
  /\ over' = "none" /\ choices' = <<>> /\ at' = 0
BackToTab == ShowKind(IF menu.kind \in {"browse", "manage"} THEN "browse" ELSE "settings")

\* KEY_B; or KEY_A on a line that opens a list or a page, or starts a program.
LeavePopup ==
  /\ over = "popup"
  /\ BackToTab \/ (choices[at + 1] = "manage" /\ ShowKind("manage"))
  /\ UNCHANGED <<cursor, entry, name, asked>>

-----------------------------------------------------------------------------
(* Questions. *)

\* Mutant: yes is marked at first.
InitialYes == 0

\* The initial_option of the questions: no.
Initial == 1

\* ui_dialog_run(0, 1, ..., LK_DIALOG_YES_NO), from a line of a list or from
\* the popup menu.
Ask ==
  /\ \/ over = "none" /\ pos \in menu.asks
     \/ over = "popup" /\ choices[at + 1] = "install"
  /\ over' = "dialog" /\ at' = Initial /\ choices' = <<>>
  /\ keys' = {} /\ destroyed' = FALSE
  /\ UNCHANGED <<vars, cursor, entry, name>>

\* KEY_UP and KEY_DOWN, between two options.
DialogMove(key, to) ==
  /\ over = "dialog"
  /\ at' = to /\ keys' = keys \cup {key}
  /\ UNCHANGED <<vars, over, choices, cursor, entry, name, destroyed>>

\* KEY_A on yes: what was asked about is done.
Confirm ==
  /\ over = "dialog" /\ at = 0
  /\ destroyed' = TRUE /\ keys' = keys \cup {"a"}
  /\ BackToTab
  /\ UNCHANGED <<cursor, entry, name>>

\* KEY_A on no, or KEY_B; the list of save blocks is selected from again.
Decline ==
  /\ over = "dialog"
  /\ IF menu.kind = "saves"
     THEN Select /\ over' = "none" /\ choices' = <<>> /\ at' = 0
     ELSE BackToTab
  /\ keys' = {}
  /\ UNCHANGED <<cursor, entry, name, destroyed>>

-----------------------------------------------------------------------------
(* The on-screen keyboard. *)

\* A C string in the buffer ends at its terminator, or where the buffer ends.
EndOf(b) == CHOOSE n \in 0..MaxName :
              /\ \A k \in 1..n : b[k] # Nul
              /\ n = MaxName \/ b[n + 1] = Nul
Text(b) == SubSeq(b, 1, EndOf(b))

\* ui_osk_draw with OSK_DRAW_BUTTONS.
DrawKeys == lit' = <<layout', kx', ky'>>

\* "Rename": a name is copied to the buffer with its zeros, no name is one
\* terminator.
OpenKeyboard ==
  /\ over = "popup" /\ choices[at + 1] = "rename"
  /\ over' = "osk" /\ choices' = <<>> /\ at' = 0
  /\ buf' = [k \in 1..MaxName |-> IF k <= Len(name) THEN name[k]
                                  ELSE IF name = <<>> /\ k > 1 THEN Remains ELSE Nul]
  /\ kx' = 0 /\ ky' = 3 /\ layout' = "en1" /\ DrawKeys
  /\ field' = Text(buf') /\ typed' = name
  /\ UNCHANGED <<vars, name, asked>>

\* Between the columns of the keys and OK and CANCEL below them.
ToButton(x) == IF x >= Width \div 2 THEN 1 ELSE 0
ToColumn(x) == IF x = 0 THEN 0 ELSE Width - 1
LastColumn == IF ky = Buttons THEN 1 ELSE Width - 1

\* Where each of the keys moves the mark.
Mark ==
  [up |-> IF ky = 0 THEN <<ToButton(kx), Buttons>>
          ELSE IF ky = Buttons THEN <<ToColumn(kx), 3>> ELSE <<kx, ky - 1>>,
   down |-> IF ky = 3 THEN <<ToButton(kx), Buttons>>
            ELSE IF ky = Buttons THEN <<ToColumn(kx), 0>> ELSE <<kx, ky + 1>>,
   left |-> <<IF kx = 0 THEN LastColumn ELSE kx - 1, ky>>,
   right |-> <<IF kx = LastColumn THEN 0 ELSE kx + 1, ky>>,
   aup |-> <<IF ky = Buttons THEN ToColumn(kx) ELSE kx, 0>>,
   adown |-> <<IF ky = Buttons THEN kx ELSE ToButton(kx), Buttons>>,
   aleft |-> <<0, ky>>,
   aright |-> <<LastColumn, ky>>,
   b |-> IF ky = Buttons THEN <<1, ky>> ELSE <<kx, ky>>]    \* to CANCEL

MarkMove(key) ==
  /\ over = "osk"
  /\ kx' = Mark[key][1] /\ ky' = Mark[key][2]
  /\ UNCHANGED <<vars, popup, layout, entry, name, asked>>
  /\ DrawKeys

OnShift == kx = 0 /\ ky = 3

\* KEY_A on the keys 25 and 24.
Shift ==
  /\ over = "osk" /\ OnShift
  /\ layout' = IF layout = "en1" THEN "en2" ELSE "en1"
  /\ UNCHANGED <<kx, ky>> /\ DrawKeys
  /\ UNCHANGED <<vars, popup, entry, name, asked>>

\* Mutant: no terminator behind the character.
TypedOver(b, n, c) == [b EXCEPT ![n + 1] = c]

\* A character after n others, and a terminator if there is room for it.
Typed(b, n, c) ==
  [k \in 1..MaxName |-> IF k = n + 1 THEN c ELSE IF k = n + 2 THEN Nul ELSE b[k]]

\* KEY_A on another key; a full buffer takes nothing.
Type ==
  /\ over = "osk" /\ ky # Buttons /\ ~OnShift
  /\ EndOf(buf) < MaxName
  /\ buf' = Typed(buf, EndOf(buf), layout)
  /\ field' = Text(buf') /\ typed' = Append(typed, layout)
  /\ UNCHANGED <<vars, popup, cursor, name, asked>>

\* KEY_B on a key.
Delete ==
  /\ over = "osk" /\ ky # Buttons
  /\ EndOf(buf) > 0
  /\ buf' = [buf EXCEPT ![EndOf(buf)] = Nul]
  /\ field' = Text(buf') /\ typed' = SubSeq(typed, 1, Len(typed) - 1)
  /\ UNCHANGED <<vars, popup, cursor, name, asked>>

NoEntry == buf' = <<>> /\ field' = <<>> /\ typed' = <<>>
NoCursor == kx' = 0 /\ ky' = 3 /\ layout' = "en1" /\ DrawKeys

\* Mutant: CANCEL stores the buffer too.
FinishAlways ==
  /\ over = "osk" /\ ky = Buttons
  /\ name' = Text(buf)
  /\ BackToTab
  /\ NoEntry /\ NoCursor
  /\ UNCHANGED asked

\* KEY_A on OK or on CANCEL; ui_browse_inner stores what the buffer holds.
Finish ==
  /\ over = "osk" /\ ky = Buttons
  /\ name' = IF kx = 0 THEN Text(buf) ELSE name
  /\ BackToTab
  /\ NoEntry /\ NoCursor
  /\ UNCHANGED asked

-----------------------------------------------------------------------------
ScreensInit ==
  /\ Init
  /\ over = "none" /\ choices = <<>> /\ at = 0
  /\ kx = 0 /\ ky = 3 /\ layout = "en1" /\ lit = <<layout, kx, ky>>
  /\ buf = <<>> /\ field = <<>> /\ typed = <<>>
  /\ name = <<>>
  /\ keys = {} /\ destroyed = FALSE

\* The lists are only used while nothing is open over them.
InList ==
  /\ over = "none"
  /\ Next
  /\ keys' = {} /\ destroyed' = FALSE
  /\ UNCHANGED <<popup, cursor, entry, name>>

ScreensNext ==
  \/ InList
  \/ OpenPopup \/ PopupMove(1) \/ PopupMove(-1) \/ LeavePopup
  \/ Ask \/ DialogMove("up", 0) \/ DialogMove("down", 1) \/ Confirm \/ Decline
  \/ OpenKeyboard \/ Shift \/ Type \/ Delete \/ Finish
  \/ \E key \in DOMAIN Mark : MarkMove(key)

ScreensSpec == ScreensInit /\ [][ScreensNext]_svars

-----------------------------------------------------------------------------
\* While a name is edited, the field shows exactly what was typed and not
\* deleted, never the remains of a list behind it, and the key that KEY_A will
\* press exists and is the one that is marked.
ShowsWhatIsTyped ==
  over = "osk" =>
    /\ field = typed /\ Text(buf) = typed /\ Len(typed) <= MaxName
    /\ lit = <<layout, kx, ky>>
    /\ \/ kx \in 0..(Width - 1) /\ ky \in KeyRows
       \/ kx \in {0, 1} /\ ky = Buttons

\* A program is only ever given the name that was shown when OK was marked.
StoresWhatIsShown ==
  [][name' # name => over = "osk" /\ lit = <<layout, 0, Buttons>> /\ name' = field]_svars

\* Pressing KEY_A again and again, as holding it does, erases, unloads,
\* reverts or overwrites nothing that CartFriend asks about.
OneKeyDestroysNothing == destroyed => {"up", "a"} \subseteq keys
=============================================================================
