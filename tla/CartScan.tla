------------------------------ MODULE CartScan ------------------------------
(***************************************************************************)
(* The list of the installed programs (src/src/ui_browse.c, iterate_carts).*)
(* A cartridge has GameSlots slots of 128 banks.  A program's header is at *)
(* the end of its last bank, so each slot is read from its end downwards:  *)
(* the size in a header says where the next one is to be looked for.  The  *)
(* name of an entry in the list, its id, also says which bank to launch    *)
(* and which part of a save block the program is given.                    *)
(***************************************************************************)
EXTENDS SlotTypes, Sequences

CONSTANTS
  HideEmpty,   \* SETT_FLAGS1_HIDE_EMPTY_SLOTS
  Codes        \* the values of a header's rom_size that are looked at

LastBank == 255
FirstBank == 128                 \* 0x80
EntryIdMax == 128                \* ENTRY_ID_MAX

\* rom_size_table, in Mbit; a megabit is two banks.
RomSizeTable == <<1, 2, 4, 8, 16, 24, 32, 48, 62, 128>>

VARIABLES
  types,       \* settings_local.slot_type
  slot, bank,  \* the loop variables
  list         \* menu_list, and the bank that each entry was read from

vars == <<types, slot, bank, list>>

\* slot | ((bank & 0xF0) ^ 0xF0)
EntryId(s, b) == s + 16 * (15 - b \div 16)
SlotOf(id) == id % 16
SubOf(id) == id \div 16

\* The bank that entry id is launched from: 0xFF - (entry_id & 0xF0).
LaunchBank(id) == LastBank - 16 * SubOf(id)

MinSize(t) == CASE t = Two -> 64 [] t = Eight -> 16 [] OTHER -> 128

\* Mutant: min_size_banks is ignored.
ProgramSizeNoMinimum(t, valid, code) ==
  IF valid /\ code + 1 \in DOMAIN RomSizeTable THEN 2 * RomSizeTable[code + 1] ELSE MinSize(t)

\* The banks to skip: what the header says, but no less than the slot's type.
ProgramSize(t, valid, code) ==
  LET stated == IF valid /\ code + 1 \in DOMAIN RomSizeTable
                THEN 2 * RomSizeTable[code + 1] ELSE 0
  IN  IF stated < MinSize(t) THEN MinSize(t) ELSE stated

\* CartFriend runs from its own slot, and does not list itself.
Skipped(s) == types[s] = Empty \/ s = LaunchSlot

\* The header at the end of a bank; valid is is_valid_rom_header.
Scan(valid, code) ==
  /\ slot \in Slots /\ ~Skipped(slot) /\ bank >= FirstBank
  /\ list' = IF valid \/ ~HideEmpty
             THEN Append(list, [id |-> EntryId(slot, bank), bank |-> bank]) ELSE list
  /\ bank' = bank - ProgramSize(types[slot], valid, code)
  /\ UNCHANGED <<types, slot>>

NextSlot ==
  /\ slot \in Slots /\ (Skipped(slot) \/ bank < FirstBank)
  /\ slot' = slot + 1 /\ bank' = LastBank
  /\ UNCHANGED <<types, list>>

\* The types that the settings menu can produce.
Init ==
  /\ types \in [Slots -> Types]
  /\ \A s \in Slots : types[s] = Launcher <=> s = LaunchSlot
  /\ slot = 0 /\ bank = LastBank
  /\ list = <<>>

Next ==
  \/ \E valid \in BOOLEAN, code \in Codes : Scan(valid, code)
  \/ NextSlot

Spec == Init /\ [][Next]_vars

-----------------------------------------------------------------------------
\* ui_browse_inner: the banks of a save block that entry id is given, halves in
\* an 8M_2M slot and single banks in an 8M_512K slot.
GivenBanks(id) ==
  CASE types[SlotOf(id)] = Eight -> {SubOf(id) % 8}
    [] types[SlotOf(id)] = Two -> IF id >= 16 THEN 4..7 ELSE 0..3
    [] OTHER -> 0..7

Listed == {list[j] : j \in DOMAIN list}

TypeOK ==
  /\ types \in [Slots -> Types]
  /\ slot \in 0..GameSlots /\ bank \in -128..LastBank
  /\ list \in Seq([id : 0..(EntryIdMax - 1), bank : FirstBank..LastBank])
=============================================================================
