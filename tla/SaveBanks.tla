----------------------------- MODULE SaveBanks -----------------------------
(***************************************************************************)
(* The address map of the save blocks in the cartridge's NOR flash         *)
(* (src/src/sram.c, sram_get_bank).  A save block is eight 64 KB banks;    *)
(* the blocks are laid out from bank 0x80, with the two banks 0xF4 and     *)
(* 0xF5 carved out for the settings log.  In the layout of CartFriend      *)
(* <= 0.1.4 ("legacy") the blocks are contiguous and the settings are at   *)
(* 0xF8, after the last one.  NOR is erased in sectors of two banks.       *)
(***************************************************************************)
EXTENDS Integers

CONSTANT SramSlots      \* SRAM_SLOTS: the number of save blocks, 15

\* config.h gives 15: a sixteenth block would not fit below the CartFriend
\* image, which starts at bank 0xFA.
ASSUME SramSlotsAssumption == SramSlots \in 1..15

SubBanks == 8                       \* 64 KB banks in a save block
SaveBlocks == 0..(SramSlots - 1)
Subs == 0..(SubBanks - 1)

SettingsBank == 244                 \* SETTINGS_BANK, 0xF4
LegacySettingsBank == 248           \* LEGACY_SETTINGS_BANK, 0xF8
FirstProgramBank == 250             \* 0xFA: the CartFriend image itself

U8(n) == n % 256                    \* the uint8_t the source computes in

\* Mutant: the carve-out is off by one (> instead of >=).
CarveOutOffByOne(legacy, block, sub) ==
  LET bank == U8(U8(128 + 8 * block) + sub)
  IN  IF ~legacy /\ bank > SettingsBank THEN U8(bank + 2) ELSE bank

\* sram_get_bank up to its overflow test.
SramGetBank(legacy, block, sub) ==
  LET bank == U8(U8(128 + 8 * block) + sub)
  IN  IF ~legacy /\ bank >= SettingsBank THEN U8(bank + 2) ELSE bank

\* The test of sram_get_bank that ends in error_critical.
BankOverflows(legacy, block, sub) ==
  SramGetBank(legacy, block, sub) >= FirstProgramBank

\* driver_erase_bank: an odd bank is left alone, an even one takes the odd
\* bank of its 128 KB sector with it.
ErasedBy(bank) == IF bank % 2 = 0 THEN {bank, bank + 1} ELSE {}

\* Where the settings log is, in either layout.
SettingsBanks(legacy) ==
  IF legacy THEN {LegacySettingsBank, LegacySettingsBank + 1}
            ELSE {SettingsBank, SettingsBank + 1}
=============================================================================
