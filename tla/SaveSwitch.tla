----------------------------- MODULE SaveSwitch -----------------------------
(***************************************************************************)
(* Save data switching: sram_switch_to_slot and everything that calls it,  *)
(* one action per step that touches flash, SRAM or settings.  A program's  *)
(* save data lives in its region of a save block in NOR flash; while the   *)
(* program is the active one it is in the cartridge's SRAM, bank 0         *)
(* upwards.  The code copies SRAM back only when another program (or the   *)
(* user) needs the SRAM, possibly many power cycles later, and trusts the  *)
(* settings to say whose data SRAM holds.  Power can go at every step.     *)
(*                                                                         *)
(* SaveStore says what this is for.                                        *)
(***************************************************************************)
EXTENDS SaveGeometry

CONSTANTS
  FirstBootBlock,  \* SRAM_SLOT_FIRST_BOOT
  Torn,            \* what an interrupted or doubled write leaves in a bank
  Junk,            \* what WW installation, XMODEM and the save test leave in SRAM
  Values,          \* what programs write
  Launchable,      \* the regions of the programs a block is mapped to
  Unmapped,        \* what the other programs with save data ask for
  NorAtStart, SramAtStart,
  MaxRuns,         \* bound: programs launched
  MaxEdits,        \* bound: times save data or SRAM is deliberately changed
  MaxLapses        \* bound: reverts, factory resets and ill-timed power cuts

Half == Size \div 2

\* ui_browse_inner: a whole block (SLOT_TYPE_SOFT), a half (SLOT_TYPE_8M_2M)
\* or a single bank (SLOT_TYPE_8M_512K).
Layouts ==
  {<<0, Size>>, <<0, Half>>, <<Half, Half>>} \cup {<<k, 1>> : k \in Banks}

ASSUME SwitchAssumption ==
  /\ Half % 2 = 0
  /\ FirstBootBlock \notin Blocks /\ FirstBootBlock # NoBlock
  /\ {Torn, Junk} \cup Values \subseteq Content
  /\ Launchable \subseteq {r \in Regions : <<r.off, r.len>> \in Layouts}
  /\ Unmapped \subseteq {[None EXCEPT !.off = l[1], !.len = l[2]] : l \in Layouts}
  /\ NorAtStart \in [Cells -> Content] /\ SramAtStart \in [Banks -> Content]
  /\ MaxRuns \in Nat /\ MaxEdits \in Nat /\ MaxLapses \in Nat

\* SRAM_SLOT_FIRST_BOOT: SRAM belongs to whichever program is launched next.
FirstBoot == [blk |-> FirstBootBlock, off |-> 0, len |-> Size]

\* A settings record that was cut off behind active_sram_slot: the unwritten
\* active_sram_offset_size reads as 0xFF.
HalfWritten(b) == [blk |-> b, off |-> 2 * Size - 1, len |-> 2 * Size - 1]

\* A program without save data: it owns no bank of SRAM.
Plain == [blk |-> NoBlock, off |-> 0, len |-> 0]

VARIABLES
  nor,      \* the save blocks in flash, by cell
  sram,     \* the cartridge's SRAM, by bank (battery-backed)
  act,      \* settings_local.active_sram_slot and active_sram_offset_size
  saved,    \* the same in the newest settings record; FirstBoot: no record
  changed,  \* settings_changed
  pc,       \* what CartFriend is doing
  cur,      \* sram_backup_restore_slot: bank_offset and bank_size, widened
  tgt,      \* sram_switch_to_slot: its arguments
  goal,     \* what happens after the switch
  i,        \* the bank loop variable
  run,      \* the region the launched program was given
  runs, edits, lapses

store == <<nor, sram>>
settings == <<act, saved, changed>>
job == <<cur, tgt, goal, i>>
bounds == <<runs, edits, lapses>>
vars == <<store, settings, pc, job, run, bounds>>

Goals == {"menu", "launch", "scratch", "wipe"}
PCs == {"ask", "menu", "shift", "partner", "erase", "write", "restore",
        "save", "scratch", "wipe", "game", "halt"}

ActiveValues ==
  Launchable \cup {None, FirstBoot} \cup {HalfWritten(b) : b \in Blocks}

TypeOK ==
  /\ nor \in [Cells -> Content] /\ sram \in [Banks -> Content]
  /\ act \in ActiveValues /\ saved \in ActiveValues /\ changed \in BOOLEAN
  /\ pc \in PCs /\ goal \in Goals
  /\ cur \in Regions \cup {None} /\ tgt \in Launchable \cup {None}
  /\ i \in 0..Size
  /\ run \in Launchable \cup Unmapped \cup {Plain}
  /\ runs \in 0..MaxRuns /\ edits \in 0..MaxEdits /\ lapses \in 0..MaxLapses

-----------------------------------------------------------------------------
\* sram_copy_to_buffer_check_flash and driver_write_slot: blank pages are
\* skipped; programming a bank that is not blank only clears bits.
Programmed(old, new) ==
  IF new = Blank THEN old ELSE IF old = Blank THEN new ELSE Torn

\* Mutant: as if the erase sectors were single banks.
SectorOfOneBank(c) == IF c[2] % 2 = 0 THEN {c} ELSE {}

\* driver_erase_bank on the bank of cell c: nothing if odd, else its sector.
SectorOf(c) == IF c[2] % 2 = 0 THEN {c, <<c[1], c[2] + 1>>} ELSE {}

Erased(C) == [c \in Cells |-> IF c \in C THEN Blank ELSE nor[c]]
BlankSram == [b \in Banks |-> Blank]

\* settings_save: FIRST_BOOT is written as NONE.
Persisted == IF act = FirstBoot THEN None ELSE act

\* Mutant: settings_mark_changed forgotten.
SetActiveUnmarked(r) == act' = r /\ UNCHANGED <<changed, saved>>

SetActive(r) == act' = r /\ changed' = TRUE /\ UNCHANGED saved

\* settings_load; without a record, settings_reset.
LoadSettings(r) == saved' = r /\ act' = r /\ changed' = (r = FirstBoot)

\* Mutant: a launch that falls back to the menu without settings_save.
AfterSwitchUnsaved(g) == IF g = "launch" THEN "menu" ELSE g

AfterSwitch(g) == IF g = "launch" THEN "save" ELSE g

\* Count against the bounds.
Edit == edits < MaxEdits /\ edits' = edits + 1 /\ UNCHANGED <<runs, lapses>>
Started == runs < MaxRuns /\ runs' = runs + 1 /\ UNCHANGED <<edits, lapses>>
Lapsed == lapses < MaxLapses /\ lapses' = lapses + 1 /\ UNCHANGED <<runs, edits>>

Idle == cur' = None /\ tgt' = None /\ i' = 0

\* Mutant: single banks are not handled apart.
BackupEntryNoSingle(r) == IF r.len % 2 = 1 \/ r.off % 2 = 1 THEN "halt" ELSE "erase"

\* sram_backup_restore_slot: a single bank needs the other bank of its sector
\* in SRAM first; any other odd size is ERROR_CODE_SRAM_ODD_SIZE_UNHANDLED.
BackupEntry(r) ==
  IF r.len = 1 THEN IF r.off % 2 = 1 THEN "shift" ELSE "partner"
  ELSE IF r.len % 2 = 1 \/ r.off % 2 = 1 THEN "halt" ELSE "erase"

\* Mutant: bank_offset is dropped.
BackupRegionNoOffset(r) ==
  IF r.len = 1 THEN [blk |-> r.blk, off |-> r.off - (r.off % 2), len |-> 2]
  ELSE [blk |-> r.blk, off |-> 0, len |-> r.len]

BackupRegion(r) ==
  IF r.len = 1 THEN [blk |-> r.blk, off |-> r.off - (r.off % 2), len |-> 2] ELSE r

\* sram_switch_to_slot(t), up to its first flash or SRAM access.
Switch(t, g) ==
  \/ /\ act = t
     /\ pc' = AfterSwitch(g) /\ goal' = g
     /\ Idle /\ UNCHANGED settings
  \/ /\ act # t /\ act = FirstBoot
     /\ IF t.blk = NoBlock THEN UNCHANGED settings ELSE SetActive(t)
     /\ pc' = AfterSwitch(g) /\ goal' = g
     /\ Idle
  \/ /\ act # t /\ act.blk \in Blocks
     /\ pc' = BackupEntry(act) /\ goal' = g
     /\ cur' = IF pc' = "halt" THEN None ELSE BackupRegion(act)
     /\ tgt' = IF t.blk \in Blocks THEN t ELSE None
     /\ i' = 0
     /\ UNCHANGED settings
  \/ /\ act # t /\ act = None
     /\ goal' = g
     /\ IF t.blk \in Blocks
          THEN pc' = "restore" /\ cur' = t /\ tgt' = t /\ i' = 0
          ELSE pc' = AfterSwitch(g) /\ Idle
     /\ UNCHANGED settings

\* Odd single bank: SRAM bank 0 to SRAM bank 1.
Shift ==
  /\ pc = "shift"
  /\ sram' = [sram EXCEPT ![1] = sram[0]]
  /\ pc' = "partner"
  /\ UNCHANGED <<nor, settings, job, run, bounds>>

\* Mutant: the program's own bank is fetched.
PartnerSelf ==
  /\ pc = "partner"
  /\ LET other == act.off % 2
     IN  sram' = [sram EXCEPT ![other] = nor[<<cur.blk, cur.off + other>>]]
  /\ pc' = "erase"
  /\ UNCHANGED <<nor, settings, job, run, bounds>>

\* The other bank of the sector, from flash to the other bank of SRAM.
Partner ==
  /\ pc = "partner"
  /\ LET other == 1 - (act.off % 2)
     IN  sram' = [sram EXCEPT ![other] = nor[<<cur.blk, cur.off + other>>]]
  /\ pc' = "erase"
  /\ UNCHANGED <<nor, settings, job, run, bounds>>

EraseStep ==
  /\ pc = "erase"
  /\ nor' = Erased(SectorOf(<<cur.blk, cur.off + i>>))
  /\ IF i + 1 < cur.len THEN i' = i + 1 /\ pc' = pc ELSE i' = 0 /\ pc' = "write"
  /\ UNCHANGED <<sram, settings, cur, tgt, goal, run, bounds>>

\* After the last bank, the rest of sram_switch_to_slot.
WriteStep ==
  /\ pc = "write"
  /\ LET c == <<cur.blk, cur.off + i>>
     IN  nor' = [nor EXCEPT ![c] = Programmed(nor[c], sram[i])]
  /\ IF i + 1 < cur.len
       THEN i' = i + 1 /\ UNCHANGED <<pc, cur, tgt, settings>>
       ELSE /\ SetActive(None)
            /\ i' = 0
            /\ IF tgt = None THEN pc' = AfterSwitch(goal) /\ cur' = None /\ tgt' = None
                             ELSE pc' = "restore" /\ cur' = tgt /\ tgt' = tgt
  /\ UNCHANGED <<sram, goal, run, bounds>>

RestoreStep ==
  /\ pc = "restore"
  /\ sram' = [sram EXCEPT ![i] = nor[<<cur.blk, cur.off + i>>]]
  /\ IF i + 1 < cur.len
       THEN i' = i + 1 /\ UNCHANGED <<pc, cur, tgt, settings>>
       ELSE SetActive(tgt) /\ pc' = AfterSwitch(goal) /\ Idle
  /\ UNCHANGED <<nor, goal, run, bounds>>

-----------------------------------------------------------------------------
\* Launch a program with save data.  A program no block is mapped to asks
\* for NoBlock with the offset and size of its slot's type.
Launch(t) ==
  /\ pc = "menu"
  /\ run' = t
  /\ Switch(t, "launch")
  /\ Started
  /\ UNCHANGED store

\* Launch a program without save data, or a tool that runs from RAM: SRAM
\* stays as it is; only the browser (resolves) gives up FIRST_BOOT.
LaunchPlain(resolves) ==
  /\ pc = "menu"
  /\ run' = Plain
  /\ IF act = FirstBoot /\ resolves THEN SetActive(None) ELSE UNCHANGED settings
  /\ pc' = "save" /\ goal' = "launch"
  /\ Started
  /\ UNCHANGED <<store, cur, tgt, i>>

\* settings_save, from launch_slot or launch_ram, or from the settings menu.
Save ==
  /\ pc = "save"
  /\ saved' = IF changed THEN Persisted ELSE saved
  /\ changed' = FALSE
  /\ pc' = IF goal = "launch" THEN "game" ELSE "menu"
  /\ goal' = "menu"
  /\ UNCHANGED <<store, act, cur, tgt, i, run, bounds>>

\* "Save settings".
SaveSettings ==
  /\ pc = "menu"
  /\ pc' = "save" /\ goal' = "menu"
  /\ UNCHANGED <<store, settings, cur, tgt, i, run, bounds>>

\* The running program writes to the SRAM it was given.
GameWrite(b, v) ==
  /\ pc = "game"
  /\ b < run.len
  /\ sram' = [sram EXCEPT ![b] = v]
  /\ Edit
  /\ UNCHANGED <<nor, settings, pc, job, run>>

\* "Unload SRAM" (offered for an active block), and the sram_unload with
\* which WW installation, WW userdata erasure and the XMODEM loader begin.
Unload(g) ==
  /\ pc = "menu"
  /\ g = "menu" => act.blk \in Blocks
  /\ Switch(None, g)
  /\ UNCHANGED <<store, run, bounds>>

\* SRAM is used as a buffer, then back to the menu or, when XMODEM completed,
\* into the program that was received.
Scratch ==
  /\ pc = "scratch"
  /\ \E B \in {{0, 1}} \cup {{b} : b \in Banks} :
       sram' = [b \in Banks |-> IF b \in B THEN Junk ELSE sram[b]]
  /\ \/ pc' = "menu" /\ goal' = "menu" /\ UNCHANGED run
     \/ pc' = "save" /\ goal' = "launch" /\ run' = Plain
  /\ Edit
  /\ UNCHANGED <<nor, settings, cur, tgt, i>>

\* ww_ui_erase_userdata: half of every block mapped to the WW slot.
Wipe ==
  /\ pc = "wipe"
  /\ \E B \in SUBSET Blocks, lo \in {0, Half} :
       nor' = Erased({c \in Cells : c[1] \in B /\ c[2] \in lo..(lo + Half - 1)})
  /\ pc' = "menu" /\ goal' = "menu"
  /\ Edit
  /\ UNCHANGED <<sram, settings, cur, tgt, i, run>>

\* "Erase save block": an active block is erased in SRAM too.
EraseBlock(b) ==
  /\ pc = "menu"
  /\ IF act.blk = b THEN sram' = BlankSram /\ SetActive(None)
                    ELSE UNCHANGED <<sram, settings>>
  /\ nor' = Erased({c \in Cells : c[1] = b})
  /\ Edit
  /\ UNCHANGED <<pc, job, run>>

\* "Erase all save blocks", "Erase all save data" (SRAM too) and "Erase+Test
\* all save data" (which leaves its test pattern in SRAM).
EraseAll ==
  /\ pc = "menu"
  /\ nor' = Erased(Cells)
  /\ sram' \in {sram, BlankSram, [b \in Banks |-> Junk]}
  /\ SetActive(None)
  /\ Edit
  /\ UNCHANGED <<pc, job, run>>

\* "Discard in-SRAM changes".
Discard ==
  /\ pc = "menu"
  /\ SetActive(None)
  /\ UNCHANGED <<store, pc, job, run, bounds>>

\* "Force SRAM on next run".
ForceSram ==
  /\ pc = "menu" /\ act # FirstBoot
  /\ SetActive(FirstBoot)
  /\ UNCHANGED <<store, pc, job, run, bounds>>

\* Any other setting is changed.
TouchSettings ==
  /\ pc = "menu"
  /\ changed' = TRUE
  /\ UNCHANGED <<store, act, saved, pc, job, run, bounds>>

\* "Revert changes".  The menu is built before "Save settings" can clear
\* settings_changed, so the entry is there whether or not it is still set.
Revert ==
  /\ pc = "menu"
  /\ LoadSettings(saved)
  /\ Lapsed
  /\ UNCHANGED <<store, pc, job, run>>

\* "Factory reset": settings_erase_slots, crt0_restart.
FactoryReset ==
  /\ pc = "menu"
  /\ LoadSettings(FirstBoot)
  /\ pc' = "ask"
  /\ Lapsed
  /\ UNCHANGED <<store, job, run>>

\* main: DIALOG_FIRST_BOOT_ERASE, yes or no.
FirstBootAnswer ==
  /\ pc = "ask"
  /\ \/ UNCHANGED <<nor, bounds>>
     \/ nor' = Erased(Cells) /\ Edit
  /\ pc' = "menu"
  /\ UNCHANGED <<sram, settings, job, run>>

-----------------------------------------------------------------------------
\* Where a power cut leaves something half done.
NorInFlight ==
  CASE pc = "erase" -> SectorOf(<<cur.blk, cur.off + i>>)
    [] pc = "write" -> {<<cur.blk, cur.off + i>>}
    [] OTHER -> {}
SramInFlight ==
  CASE pc = "shift" -> {1}
    [] pc = "partner" -> {1 - (act.off % 2)}
    [] pc = "restore" -> {i}
    [] OTHER -> {}
Ripped(mem, S) == [x \in DOMAIN mem |-> IF x \in S THEN Torn ELSE mem[x]]

\* What settings_load finds when power goes while settings_save writes: the
\* record before, the whole record, or one cut off before the version (taken
\* for too new: reset), before or behind active_sram_slot.
RecordInFlight ==
  IF pc = "save" /\ changed
  THEN {saved, Persisted, FirstBoot, None}
         \cup (IF Persisted.blk \in Blocks THEN {HalfWritten(Persisted.blk)} ELSE {})
  ELSE {saved}

\* Switched off and on again; while a program runs this is the way out of it.
PowerCycle ==
  /\ IF pc = "game" THEN UNCHANGED bounds ELSE Lapsed
  /\ nor' \in {nor, Ripped(nor, NorInFlight)}
  /\ sram' \in {sram, Ripped(sram, SramInFlight)}
  /\ \E r \in RecordInFlight : LoadSettings(r)
  /\ pc' = IF saved' = FirstBoot THEN "ask" ELSE "menu"
  /\ Idle /\ goal' = "menu" /\ run' = Plain

Init ==
  /\ nor = NorAtStart /\ sram = SramAtStart
  /\ act = FirstBoot /\ saved = FirstBoot /\ changed = TRUE
  /\ pc = "ask"
  /\ cur = None /\ tgt = None /\ goal = "menu" /\ i = 0
  /\ run = Plain
  /\ runs = 0 /\ edits = 0 /\ lapses = 0

CopyStep ==
  Shift \/ Partner \/ EraseStep \/ WriteStep \/ RestoreStep \/ Save \/ Scratch \/ Wipe

MenuStep ==
  \/ \E t \in Launchable \cup Unmapped : Launch(t)
  \/ \E resolves \in BOOLEAN : LaunchPlain(resolves)
  \/ SaveSettings
  \/ \E g \in {"menu", "scratch", "wipe"} : Unload(g)
  \/ \E b \in Blocks : EraseBlock(b)
  \/ EraseAll \/ Discard \/ ForceSram \/ TouchSettings
  \/ Revert \/ FactoryReset \/ FirstBootAnswer

Next ==
  \/ CopyStep
  \/ MenuStep
  \/ \E b \in Banks, v \in Values : GameWrite(b, v)
  \/ PowerCycle

Spec == Init /\ [][Next]_vars

-----------------------------------------------------------------------------
(* What a program would find as its save data. *)

\* The flash copy of a backup in progress is already in SRAM, bank by bank.
FlashCopy(c) ==
  IF pc \in {"erase", "write"} /\ Covers(cur, c) THEN sram[c[2] - cur.off] ELSE nor[c]

Held == IF act \in Regions /\ pc \notin {"erase", "write"} THEN act ELSE None

\* In the middle of an odd single-bank backup the data is in SRAM bank 1.
HeldBank(b) == IF pc = "partner" /\ act.off % 2 = 1 THEN sram[1] ELSE sram[b]

View(c) == IF Covers(Held, c) THEN HeldBank(c[2] - Held.off) ELSE FlashCopy(c)

\* What would be found after a power cut now.
RecoveredView(c) ==
  IF saved \in Regions /\ Covers(saved, c) THEN sram[c[2] - saved.off] ELSE nor[c]

-----------------------------------------------------------------------------
\* The bank-by-bank code implements the atomic store: switching moves exactly
\* the cells of the two programs and every other save is untouched; only the
\* steps counted as lapses can do harm, and that is confined to the sectors
\* held or remembered.
Store == INSTANCE SaveStore WITH
  flash <- [c \in Cells |-> FlashCopy(c)],
  held <- Held,
  work <- IF Held = None THEN [b \in {} |-> Blank]
                         ELSE [b \in 0..(Held.len - 1) |-> HeldBank(b)],
  remembered <- IF saved \in Regions THEN saved ELSE None
StoreSpec ==
  /\ Store!Init
  /\ [][Store!Next \/ (lapses' # lapses /\ Store!Lapse)]_(Store!vars)

\* A launched program runs on its own region, and the settings already say so:
\* switching the console off, the only way out of it, cannot mislabel SRAM.
GameOwnsSram ==
  pc = "game" /\ run.blk \in Blocks => act = run /\ saved = run /\ ~changed

\* Backups write SRAM over the block the newest settings record names: between
\* a switch and the record of it no other switch can begin.
BackupOfRemembered ==
  pc \in {"menu", "shift", "partner", "erase", "write"} /\ act.blk \in Blocks
    => saved = act

\* Power may go at any point of the backup of a region of whole sectors
\* without the save data of any program being lost.
CrashSafeBackup ==
  pc \in {"erase", "write"} /\ act.len # 1
    => \A c \in Cells : RecoveredView(c) = View(c)

\* Every bank is blank when it is programmed, although driver_erase_bank does
\* nothing for half of the banks it is called with.
ProgramsOnlyBlank ==
  pc = "write" => \A k \in i..(cur.len - 1) : nor[<<cur.blk, cur.off + k>>] = Blank

\* ERROR_CODE_SRAM_ODD_SIZE_UNHANDLED is only ever raised for the offset and
\* size of a settings record that was cut off, never for those of a program.
HaltsOnlyOnTornRecord == pc = "halt" => act \notin Regions
=============================================================================
