---------------------------- MODULE SaveMigrate ----------------------------
(***************************************************************************)
(* The first start on a cartridge that CartFriend <= 0.1.4 has used        *)
(* (src/src/settings.c, settings_load).  There the save blocks were        *)
(* contiguous and the settings behind them, at bank 0xF8; now the settings *)
(* are at 0xF4 and the last block is laid out around them.  Its old place  *)
(* overlaps the new settings and its new place overlaps the old ones, so   *)
(* it is moved by way of SRAM: switched to under the old address map,      *)
(* unloaded under the new one, and then the settings are written.  Nothing *)
(* records how far this has come, and power can go at every step.          *)
(***************************************************************************)
EXTENDS SaveBanks

CONSTANTS
  MaxCuts   \* bound: power cuts

\* settings_load names block 14, the last of SRAM_SLOTS.
ASSUME MigrateAssumption == MaxCuts \in Nat /\ SramSlots = 15

Last == 14                       \* the block to move
None == 255                      \* SRAM_SLOT_NONE
FirstBoot == 254                 \* SRAM_SLOT_FIRST_BOOT

Blank == <<"blank">>
Torn == <<"torn">>
Saved(block, s) == <<"save", block, s>>
Record(active) == <<"settings", active>>
IsRecord(c) == c[1] = "settings"

VARIABLES
  nor,      \* the flash, by physical bank
  sram,     \* the cartridge's SRAM, by bank
  legacyMap, \* settings_location_legacy
  act,      \* settings_local.active_sram_slot; offset and size are the default
  target,   \* the argument of the sram_switch_to_slot that runs
  pc,
  blk, sub, \* the block being copied, and the loop variable (i)
  owner,    \* history: the active block before the first start
  begun,    \* history: how far the move has come since
  risked,   \* history: the blocks that power cuts since have cost
  forgotten, \* history: a power cut came when no settings could be read
  cuts

migrateVars ==
  <<nor, sram, legacyMap, act, target, pc, blk, sub, owner, begun, risked, forgotten, cuts>>

\* Mutant: a loop that starts at 1.
BankOffByOne(s) == SramGetBank(legacyMap, blk, s + 1)

Bank(s) == SramGetBank(legacyMap, blk, s)

\* What a bank of flash or SRAM that is programmed over becomes.
Programmed(old, new) == IF new = Blank THEN old ELSE IF old = Blank THEN new ELSE Torn
EraseAt(b) == nor' = [x \in DOMAIN nor |-> IF x \in ErasedBy(b) THEN Blank ELSE nor[x]]

\* Go to the first step of a copy of block b.
Begin(step, b) == pc' = step /\ blk' = b /\ sub' = 0

\* The settings of CartFriend 0.1.4 can be read.
OldSettings == IsRecord(nor[LegacySettingsBank])

\* settings_load up to the first step of sram_switch_to_slot(14): the settings
\* at the new place, else those at the old one, else none.
Load ==
  /\ pc = "boot"
  /\ IF IsRecord(nor[SettingsBank])
     THEN act' = nor[SettingsBank][2] /\ legacyMap' = FALSE /\ Begin("done", blk)
     ELSE IF OldSettings
     THEN /\ act' = nor[LegacySettingsBank][2]
          /\ legacyMap' = TRUE
          /\ CASE act' = Last -> Begin("moved", Last)
               [] act' = None -> Begin("restore", Last)
               [] OTHER -> Begin("erase", act')
     ELSE act' = FirstBoot /\ legacyMap' = FALSE /\ Begin("done", blk)
  /\ target' = Last
  /\ UNCHANGED <<nor, sram, owner, begun, risked, forgotten, cuts>>

\* sram_backup_restore_slot: the loops over the banks of the block.
EraseStep ==
  /\ pc = "erase"
  /\ EraseAt(Bank(sub))
  /\ IF sub + 1 < SubBanks THEN sub' = sub + 1 /\ UNCHANGED <<pc, blk>> ELSE Begin("write", blk)
  /\ begun' = IF legacyMap THEN begun ELSE "unload"
  /\ UNCHANGED <<sram, legacyMap, act, target, owner, risked, forgotten, cuts>>

\* sram_switch_to_slot goes on to restore the block it was called for, if there
\* is one, and else returns to settings_load.
AfterBackup ==
  /\ act' = None
  /\ IF target \in SaveBlocks THEN Begin("restore", target) ELSE Begin("eraseLog", blk)

WriteStep ==
  /\ pc = "write"
  /\ nor' = [nor EXCEPT ![Bank(sub)] = Programmed(@, sram[sub])]
  /\ IF sub + 1 < SubBanks
     THEN sub' = sub + 1 /\ UNCHANGED <<pc, blk, act>>
     ELSE AfterBackup
  /\ UNCHANGED <<sram, legacyMap, target, owner, begun, risked, forgotten, cuts>>

RestoreStep ==
  /\ pc = "restore"
  /\ sram' = [sram EXCEPT ![sub] = nor[Bank(sub)]]
  /\ IF sub + 1 < SubBanks
     THEN sub' = sub + 1 /\ UNCHANGED <<pc, blk, act>>
     ELSE act' = target /\ Begin("moved", blk)
  /\ begun' = IF begun = "nothing" THEN "restore" ELSE begun
  /\ UNCHANGED <<nor, legacyMap, target, owner, risked, forgotten, cuts>>

\* Mutant: settings_location_legacy is cleared too late.
UnloadInOldMap ==
  /\ pc = "moved"
  /\ target' = None
  /\ Begin("erase", act)
  /\ UNCHANGED <<nor, sram, legacyMap, act, owner, begun, risked, forgotten, cuts>>

\* settings_location_legacy = false; sram_unload up to its first step.
Unload ==
  /\ pc = "moved"
  /\ legacyMap' = FALSE
  /\ target' = None
  /\ Begin("erase", act)
  /\ UNCHANGED <<nor, sram, act, owner, begun, risked, forgotten, cuts>>

\* settings_save with settings_slot = 127: settings_erase_slots, the record.
EraseLog ==
  /\ pc = "eraseLog"
  /\ EraseAt(SettingsBank)
  /\ pc' = "record"
  /\ UNCHANGED <<sram, legacyMap, act, target, blk, sub, owner, begun, risked, forgotten, cuts>>
WriteRecord ==
  /\ pc = "record"
  /\ nor' = [nor EXCEPT ![SettingsBank] = Record(act)]
  /\ pc' = "done"
  /\ UNCHANGED <<sram, legacyMap, act, target, blk, sub, owner, begun, risked, forgotten, cuts>>

\* A step of a copy of which power leaves half: an erase spoils its sector,
\* and may leave the old settings in it readable.
HalfErase ==
  /\ pc = "erase"
  /\ \E kept \in {{}, {LegacySettingsBank}} :
       nor' = [x \in DOMAIN nor |-> IF x \in ErasedBy(Bank(sub)) \ kept THEN Torn ELSE nor[x]]
  /\ begun' = IF legacyMap THEN begun ELSE "unload"
  /\ UNCHANGED sram
HalfWrite ==
  /\ pc = "write"
  /\ nor' = [nor EXCEPT ![Bank(sub)] = Torn]
  /\ UNCHANGED <<sram, begun>>
HalfRestore ==
  /\ pc = "restore"
  /\ sram' = [sram EXCEPT ![sub] = Torn]
  /\ begun' = IF begun = "nothing" THEN "restore" ELSE begun
  /\ UNCHANGED nor

\* What a power cut costs when it leaves begun' and nor'.  While the old
\* settings can be read, the next start backs up SRAM to the block they name,
\* and then restores block 14 from its old place; when they cannot, the move
\* is not taken up again, and only what is in place by then is.
OwnerAtRisk == owner \notin {None, Last} /\ begun' # "nothing" /\ OldSettings'
LastAtRisk ==
  /\ begun' = "unload" /\ pc \notin {"eraseLog", "record"}
  /\ owner = Last => ~OldSettings'

\* Power goes before, after or in one of these steps.  What half a log or half
\* a record is taken for is told apart in SettingsLog.
PowerCut ==
  /\ pc \notin {"boot", "done"}
  /\ cuts < MaxCuts /\ cuts' = cuts + 1
  /\ HalfErase \/ HalfWrite \/ HalfRestore \/ UNCHANGED <<nor, sram, begun>>
  /\ pc' = "boot"
  /\ risked' = risked \cup {b \in SaveBlocks : \/ b = owner /\ OwnerAtRisk
                                               \/ b = Last /\ LastAtRisk}
  /\ forgotten' = (forgotten \/ ~OldSettings')
  /\ UNCHANGED <<legacyMap, act, target, blk, sub, owner>>

\* What CartFriend 0.1.4 leaves: every bank of a save block has its own save
\* data, except that SRAM has that of the active block.
MigrateInit ==
  /\ owner \in SaveBlocks \cup {None}
  /\ LET homes == [c \in SaveBlocks \X Subs |-> SramGetBank(TRUE, c[1], c[2])]
     IN  nor = [b \in 128..(FirstProgramBank - 1) |->
                  IF b = LegacySettingsBank THEN Record(owner)
                  ELSE IF \E c \in DOMAIN homes : homes[c] = b /\ c[1] # owner
                  THEN LET c == CHOOSE c \in DOMAIN homes : homes[c] = b IN Saved(c[1], c[2])
                  ELSE Blank]
  /\ sram = [s \in Subs |-> IF owner = None THEN Torn ELSE Saved(owner, s)]
  /\ legacyMap = FALSE /\ act = FirstBoot /\ target = None
  /\ pc = "boot" /\ blk = Last /\ sub = 0
  /\ begun = "nothing" /\ risked = {} /\ forgotten = FALSE
  /\ cuts = 0

MigrateNext ==
  \/ Load \/ EraseStep \/ WriteStep \/ RestoreStep \/ Unload \/ EraseLog \/ WriteRecord
  \/ PowerCut

MigrateSpec == MigrateInit /\ [][MigrateNext]_migrateVars

-----------------------------------------------------------------------------
MigrateTypeOK ==
  /\ DOMAIN nor = 128..(FirstProgramBank - 1)
  /\ sram \in [Subs -> {Blank, Torn} \cup {Saved(b, s) : b \in SaveBlocks, s \in Subs}]
  /\ legacyMap \in BOOLEAN
  /\ act \in SaveBlocks \cup {None, FirstBoot}
  /\ target \in {Last, None}
  /\ pc \in {"boot", "erase", "write", "restore", "moved", "eraseLog", "record", "done"}
  /\ blk \in SaveBlocks /\ sub \in Subs
  /\ owner \in SaveBlocks \cup {None}
  /\ begun \in {"nothing", "restore", "unload"}
  /\ risked \subseteq SaveBlocks
  /\ forgotten \in BOOLEAN
  /\ cuts \in 0..MaxCuts

\* Block b is where the new address map expects it.
InPlace(b) == \A s \in Subs : nor[SramGetBank(FALSE, b, s)] = Saved(b, s)

\* The move leaves every save block, the one that was in SRAM and the one that
\* moved included, where the new map expects it, and the settings say that
\* SRAM holds none of them; except for exactly what a power cut put at risk:
\* the active block from the first bank of SRAM that the restore overwrites,
\* block 14 from the first sector that the unload erases, and the settings
\* from the erasure of the old ones on.
MovesEverything ==
  pc = "done" =>
    /\ \A b \in SaveBlocks : InPlace(b) <=> b \notin risked
    /\ IF forgotten THEN act = FirstBoot
       ELSE act = None /\ nor[SettingsBank] = Record(None)

\* Whatever power cuts do to the move, no block but the one that was active
\* and the one that moves is touched.
OthersUntouched == \A b \in SaveBlocks \ {owner, Last} : InPlace(b)

\* What a user hopes for, and the code does not do (MCSaveMigrateCut.cfg): that
\* a power cut costs at most the block that is on its way.
SurvivesPowerCuts == pc = "done" => \A b \in SaveBlocks \ {Last} : InPlace(b)
=============================================================================
