----------------------------- MODULE SaveSelect -----------------------------
(***************************************************************************)
(* Which save block a program is given when it is launched: the block      *)
(* mapping and slot types of the settings menu (src/src/ui_settings.c) and *)
(* the choice made by the browser (src/src/ui_browse.c).  Browse composes  *)
(* it with the list of programs; SaveSwitch takes the result as its        *)
(* Launchable and Unmapped.                                                *)
(***************************************************************************)
EXTENDS SlotTypes, FiniteSets

CONSTANT SramSlots   \* SRAM_SLOTS: 15

\* The browser fills 16 bytes of its list with 0xFF, more than it has blocks.
ASSUME SelectAssumption == SramSlots \in 1..15

Blocks == 0..(SramSlots - 1)
Unused == 255                      \* sram_slot_mapping, SRAM_SLOT_NONE
FirstBoot == 254                   \* SRAM_SLOT_FIRST_BOOT

VARIABLES
  mapping,    \* settings_local.sram_slot_mapping
  slotType,   \* settings_local.slot_type
  act,        \* settings_local.active_sram_slot
  slot,       \* history: the slot last launched from
  picked      \* history: the block the user picked for it, or Unused

vars == <<mapping, slotType, act, slot, picked>>

TypeOK ==
  /\ mapping \in [Blocks -> Slots \cup {GameSlots, Unused}]
  /\ slotType \in [Slots -> Types]
  /\ act \in Blocks \cup {Unused, FirstBoot}
  /\ slot \in Slots
  /\ picked \in Blocks \cup {Unused}

\* settings_local.slot_type[i]; active_sram_slot lies behind its last element.
TypeAt(i) == IF i = GameSlots THEN act ELSE slotType[i]
\* Mutant: the launcher's slot is not skipped.
EverySlot(S) == S

ProgramSlots(S) == {i \in S : TypeAt(i) # Launcher}

\* What the search through S finds, from its beginning or from its end.
Found(S, first) ==
  IF S = {} THEN {Unused}
  ELSE {i \in S : \A j \in S : IF first THEN i <= j ELSE j <= i}

\* ui_savemap_next; uint8_t arithmetic takes 0xFF to slot 0.
SavemapNext(s) ==
  LET from == IF s = Unused THEN 0 ELSE s + 1
  IN  Found(ProgramSlots({i \in Slots : i >= from}), TRUE)

\* ui_savemap_prev: from 0xFF it starts one behind the last slot.
SavemapPrev(s) ==
  LET from == IF s = Unused THEN GameSlots ELSE s - 1
  IN  Found(ProgramSlots(0..from), FALSE)

\* ui_slotmap_next: round the four types that can be chosen.
SlotmapOrder == <<Soft, Eight, Two, Empty>>
SlotmapNext(t, delta) ==
  IF \E k \in 1..4 : SlotmapOrder[k] = t
  THEN LET k == CHOOSE k \in 1..4 : SlotmapOrder[k] = t
       IN  SlotmapOrder[((k - 1 + delta) % 4) + 1]
  ELSE t

\* Left or right on a block, and on a slot, in the settings menu.
MapBlock(b) ==
  /\ \E s \in SavemapNext(mapping[b]) \cup SavemapPrev(mapping[b]) :
       mapping' = [mapping EXCEPT ![b] = s]
  /\ UNCHANGED <<slotType, act, slot, picked>>
SetType(s) ==
  /\ \E delta \in {1, 3} : slotType' = [slotType EXCEPT ![s] = SlotmapNext(@, delta)]
  /\ UNCHANGED <<mapping, act, slot, picked>>

-----------------------------------------------------------------------------
\* The blocks in the list for a slot, and their places, the lowest block first.
MenuList(s) == {b \in Blocks : mapping[b] = s}
Place(b, s) == Cardinality({c \in MenuList(s) : c < b})

\* Mutant: the buffer is not filled with 0xFF first.
IndexedUnfilled(s, v) ==
  IF \E b \in MenuList(s) : Place(b, s) = v THEN CHOOSE b \in MenuList(s) : Place(b, s) = v ELSE 0

\* What stands at index v of the list's buffer: behind the blocks it is 0xFF.
Indexed(s, v) ==
  IF \E b \in MenuList(s) : Place(b, s) = v
  THEN CHOOSE b \in MenuList(s) : Place(b, s) = v ELSE Unused

\* The menu is only shown when there is a choice, and never for WonderWitch.
Asked(s, isWW) == ~isWW /\ \E b, c \in MenuList(s) : b # c

\* The menu returns the entry at the cursor; unasked it is the first block.
Picks(s, isWW) == IF Asked(s, isWW) THEN MenuList(s) ELSE {Indexed(s, 0)}

\* The block that ui_browse_inner switches to: with a choice, what it finds at
\* the index that the menu has returned.
Chosen(s, v, isWW) == IF Asked(s, isWW) THEN Indexed(s, v) ELSE v

\* Launch a program that uses save data, from a slot that is not unused.
Launch(s, isWW) ==
  /\ s # LaunchSlot /\ slotType[s] # Empty
  /\ \E v \in Picks(s, isWW) :
       /\ picked' = v
       /\ act' = IF act = FirstBoot /\ Chosen(s, v, isWW) = Unused
                 THEN act ELSE Chosen(s, v, isWW)
  /\ slot' = s
  /\ UNCHANGED <<mapping, slotType>>

\* SRAM is unloaded, or forced for the next program: see SaveSwitch.
Release ==
  /\ act' \in {Unused, FirstBoot}
  /\ UNCHANGED <<mapping, slotType, slot, picked>>

\* settings_reset.
Init ==
  /\ slotType = [s \in Slots |-> IF s = LaunchSlot THEN Launcher ELSE Soft]
  /\ mapping = [b \in Blocks |-> IF b + 1 \in Slots THEN b + 1 ELSE Unused]
  /\ act = FirstBoot
  /\ slot = LaunchSlot /\ picked = Unused

Next ==
  \/ \E b \in Blocks : MapBlock(b)
  \/ \E s \in Slots : SetType(s)
  \/ \E s \in Slots, isWW \in BOOLEAN : Launch(s, isWW)
  \/ Release

Spec == Init /\ [][Next]_vars

-----------------------------------------------------------------------------
\* README.md: "Launcher - the slot CartFriend was launched from; cannot be
\* changed".  No sequence of menu choices changes it or gives it a save block.
LauncherIsFixed ==
  /\ slotType[LaunchSlot] = Launcher
  /\ \A b \in Blocks : mapping[b] # LaunchSlot
  /\ \A s \in Slots \ {LaunchSlot} : slotType[s] # Launcher

\* README.md: "Save block mapping - map available save blocks to Soft slots.
\* This allows mapping mutliple blocks to one slot, allowing multiple distinct
\* saves for one piece of software."  The program gets the save that was picked.
GivesPickedBlock ==
  [][<<slot, picked>>' # <<slot, picked>> /\ picked' # Unused => act' = picked']_vars

\* The same: a block is mapped to a slot that there is, or to none.
MapsToSlots == \A b \in Blocks : mapping[b] \in Slots \cup {Unused}
=============================================================================
