------------------------------- MODULE Browse -------------------------------
(***************************************************************************)
(* Browsing and launching (src/src/ui_browse.c, ui_browse_inner): the list *)
(* of programs that CartScan makes from the headers and the slot types,    *)
(* and the save blocks that SaveSelect gives, by the slot types and the    *)
(* mapping, to what is launched from it.  The settings menus are on other  *)
(* tabs: the list is made anew whenever the browser is entered.            *)
(***************************************************************************)
EXTENDS SaveSelect, Sequences

CONSTANTS
  HideEmpty,   \* SETT_FLAGS1_HIDE_EMPTY_SLOTS
  Codes        \* the values of a header's rom_size that are looked at

ASSUME BrowseAssumption == HideEmpty \in BOOLEAN /\ Codes \subseteq 0..255

VARIABLES
  phase,                     \* "menus", "browser" or "program"
  scanSlot, scanBank, list   \* iterate_carts: slot, bank, and menu_list

Scan == INSTANCE CartScan WITH types <- slotType, slot <- scanSlot, bank <- scanBank

scan == <<scanSlot, scanBank, list>>
browseVars == <<vars, phase, scan>>

Forget == scanSlot' = 0 /\ scanBank' = Scan!LastBank /\ list' = <<>>

\* The settings menus.
Configure ==
  /\ phase = "menus"
  /\ (\E b \in Blocks : MapBlock(b)) \/ (\E s \in Slots : SetType(s)) \/ Release
  /\ UNCHANGED <<phase, scan>>

Enter ==
  /\ phase = "menus" /\ phase' = "browser"
  /\ UNCHANGED <<vars, scan>>

\* iterate_carts.
Iterate ==
  /\ phase = "browser"
  /\ Scan!Next
  /\ UNCHANGED <<mapping, act, slot, picked, phase>>

\* An entry is chosen: its slot, its part of the block and its bank are all
\* taken from its id.  A program without save data only ends the first boot.
LaunchEntry(e) ==
  /\ phase = "browser" /\ scanSlot = GameSlots
  /\ \/ \E isWW \in BOOLEAN : Launch(Scan!SlotOf(e.id), isWW)
     \/ /\ slot' = Scan!SlotOf(e.id) /\ picked' = Unused
        /\ act' = IF act = FirstBoot THEN Unused ELSE act
        /\ UNCHANGED <<mapping, slotType>>
  /\ phase' = "program" /\ Forget

\* Another tab, information about an entry, or the power switch.
Leave ==
  /\ phase = "program" \/ (phase = "browser" /\ scanSlot = GameSlots)
  /\ phase' = "menus" /\ Forget
  /\ slot' = LaunchSlot /\ picked' = Unused
  /\ UNCHANGED <<mapping, slotType, act>>

BrowseInit ==
  /\ Init /\ phase = "menus"
  /\ scanSlot = 0 /\ scanBank = Scan!LastBank /\ list = <<>>

BrowseNext ==
  \/ Configure \/ Enter \/ Iterate \/ Leave
  \/ \E e \in Scan!Listed : LaunchEntry(e)

BrowseSpec == BrowseInit /\ [][BrowseNext]_browseVars

-----------------------------------------------------------------------------
\* The save memory that a launch of entry e can be given: a block that the menu
\* answers with, and the banks of it.
Region(e) ==
  LET s == Scan!SlotOf(e.id)
      blocks == {Chosen(s, v, TRUE) : v \in Picks(s, TRUE)}
                \cup {Chosen(s, v, FALSE) : v \in Picks(s, FALSE)}
  IN  (blocks \ {Unused}) \X Scan!GivenBanks(e.id)

\* However the blocks are mapped and whatever the headers state: no two of the
\* listed programs are ever given the same save memory.
ProgramsKeepApart ==
  \A e, f \in Scan!Listed : e # f => Region(e) \cap Region(f) = {}

\* The table of what was found out about the programs is indexed by id: no
\* sizes, however odd, make two programs share a place in it.
EveryIdOnce == \A j, k \in DOMAIN list : list[j].id = list[k].id => j = k

\* The header that was shown is that of the program that the id launches.
LaunchesWhatIsListed == \A e \in Scan!Listed : Scan!LaunchBank(e.id) = e.bank
=============================================================================
