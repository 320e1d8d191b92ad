----------------------------- MODULE SaveErase -----------------------------
(***************************************************************************)
(* The loops of sram_erase (src/src/sram.c) over physical NOR banks: erase *)
(* one save block, the part of a block that one program owns, or every     *)
(* block.  Which banks they touch is decided by the address map of         *)
(* SaveBanks and by the sector size of the flash.                          *)
(***************************************************************************)
EXTENDS SaveBanks

ALL == SramSlots + 1                \* SRAM_SLOT_ALL: any value not a block

VARIABLES
  legacy,      \* settings_location_legacy
  scope,       \* the sram_slot argument: a block, or ALL
  bankOffset,  \* offset_size & 0xF
  bankSize,    \* offset_size >> 4
  i,           \* the loop variable, uint8_t
  erased       \* physical banks erased so far

vars == <<legacy, scope, bankOffset, bankSize, i, erased>>

\* The (offset, size) pairs of the callers: SRAM_OFFSET_SIZE_DEFAULT and the
\* halves that ww_ui_erase_userdata passes; ALL only ever comes with the default.
EraseArgs ==
  {<<s, 0, SubBanks>> : s \in SaveBlocks \cup {ALL}}
    \cup {<<s, o, 4>> : s \in SaveBlocks, o \in {0, 4}}

TypeOK ==
  /\ legacy \in BOOLEAN
  /\ <<scope, bankOffset, bankSize>> \in EraseArgs
  /\ i \in 0..255
  /\ erased \subseteq 128..255

\* Mutant: the last block is forgotten.
StepMaxShort == IF scope = ALL THEN bankSize * (SramSlots - 1) ELSE bankSize

\* pbar.step_max
StepMax == IF scope = ALL THEN bankSize * SramSlots ELSE bankSize

\* The block and sub-bank of iteration i.
BlockAt == IF scope = ALL THEN i \div bankSize ELSE scope
SubAt == (IF scope = ALL THEN i % bankSize ELSE i) + bankOffset

Init ==
  /\ legacy \in BOOLEAN
  /\ \E a \in EraseArgs : scope = a[1] /\ bankOffset = a[2] /\ bankSize = a[3]
  /\ i = 0
  /\ erased = {}

\* One iteration: sram_get_bank (which stops the program on overflow) and
\* driver_erase_bank.
EraseOne ==
  /\ i < StepMax
  /\ ~BankOverflows(legacy, BlockAt, SubAt)
  /\ erased' = erased \cup ErasedBy(SramGetBank(legacy, BlockAt, SubAt))
  /\ i' = U8(i + 1)
  /\ UNCHANGED <<legacy, scope, bankOffset, bankSize>>

Next == EraseOne
Spec == Init /\ [][Next]_vars /\ WF_vars(Next)

-----------------------------------------------------------------------------
\* The cells the caller asked to erase, and the physical banks they are in.
Asked ==
  {c \in SaveBlocks \X Subs : \/ scope = ALL
                              \/ /\ c[1] = scope
                                 /\ c[2] \in bankOffset..(bankOffset + bankSize - 1)}
AskedBanks == {SramGetBank(legacy, c[1], c[2]) : c \in Asked}

\* sram_erase never touches the settings log, the CartFriend image, or a
\* save bank it was not asked to erase, whatever the layout: the 128 KB
\* sectors that driver_erase_bank really erases never straddle two owners.
ErasesOnlyWhatWasAsked ==
  /\ erased \subseteq AskedBanks
  /\ erased \cap SettingsBanks(legacy) = {}
  /\ \A b \in erased : b < FirstProgramBank

\* No iteration reaches error_critical(ERROR_CODE_SRAM_SLOT_OVERFLOW_UNKNOWN):
\* the last block still fits below the CartFriend image after the carve-out.
\* (ErasesAllThatWasAsked, of the runs, would not hold otherwise.)
NeverOverflows == i < StepMax => ~BankOverflows(legacy, BlockAt, SubAt)

\* The uint8_t loop counter reaches its bound, and then every bank that was
\* asked for has been erased even though half of the driver calls do nothing.
ErasesAllThatWasAsked == <>(i = StepMax /\ erased = AskedBanks)
=============================================================================
