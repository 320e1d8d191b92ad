# CartFriend in TLA+

CartFriend is the launcher of a WonderSwan flash cartridge. It runs from a slot
of the cartridge's NOR flash, lists the programs in the other slots and starts
them. The cartridge has one battery-backed SRAM for all of them: CartFriend
swaps each program's save data between "save blocks" in flash and that SRAM,
keeps its settings in a log in flash, and receives programs over the serial
port. There is one thread and one interrupt handler; power can go at any time.

This directory holds a specification of that code, model checked with TLC and in
part proved with TLAPS. The paths below are relative to `src/src/`. Sections:
1 inventory, 2 modules, 3 runs, 4 proofs, 5 deviations, 6 what is left out,
7 plan.

## 1. Inventory

| Component | State | Operations | Makes it correct |
|---|---|---|---|
| Save banks (`sram.c` `sram_get_bank`, `sram_erase`) | none; the address map, old or new layout | erase a block, a part, all | nothing but what was asked is erased, and all of it |
| Save switching (`sram.c`, callers in `ui_browse.c`, `ui_settings.c`, `ww.c`, `ui_tools.c`, `driver.c`) | save blocks in flash, SRAM, `active_sram_slot` in memory and as saved | launch, unload, erase, discard, force, revert, power cut | no program gets another's data; none is lost |
| Settings log (`settings.c`) | 127 record slots and the bootstrap in one erase sector | load, save, erase, revert | the newest record is found; a power cut costs at most the newest change |
| Migration (`settings.c` `settings_load`) | the same, in the layout of CartFriend <= 0.1.4 | move block 14 and the log | every save arrives; a power cut costs what was on its way and nothing else (it can cost more: 5) |
| Save block assignment (`ui_settings.c`, `ui_browse.c`) | `sram_slot_mapping`, `slot_type` | left/right in two menus, choice at launch | a program gets a block of its own slot, the one picked |
| Program list (`ui_browse.c` `iterate_carts`) | list, entry ids | scan headers | an id says one program, one launch bank, its part of a block |
| WonderWitch installer (`ww.c`) | two flash banks, two SRAM banks | install, replace OS or BIOS, erase data | an update carries the other half; a torn one is not taken for whole |
| XMODEM (`xmodem.c`) | block number, retries | receive, send | every block once and in order |
| RAM loaders (`ui_tools.c`) | where the code starts, the room left, the memory | receive a BFB or SRAM program, launch | what is launched is the whole file, in its place |
| Menus (`ui.c`) | cursor, page, tile map | open, move, select | the cursor is on a visible line and shown as such |
| Popup menus and questions (`ui.c` `ui_popup_menu_run`, `ui_dialog_run`) | the option that is marked | open, move, answer | nothing is destroyed by one key |
| On-screen keyboard (`ui_osk.c`) | the key that is marked, a buffer without a terminator when full | move, type, delete, OK, CANCEL | what is stored is what is shown |
| Input (`input.c`) | keys collected by the vertical blank, keys held, repeat ticks | update, reset, wait | a press acts once, and acts |
| Flash driver (`flash_masta/*.s`) | shown slot, bank registers, interrupt flag, chip mode | read, write, erase | only what was asked; interrupts find their handler; banks are given back |
| Serial (`serial.c`), start-up (`crt0.s`, `main.c`), about page, self test | | | see 6 |

How they interact: the browser launches a program by the program list's entry
id, takes a save block from the assignment, calls save switching with the block
and the part of it that belongs to the program, and then `launch_slot`, which
saves the settings. The settings log stores which block SRAM holds, so the
correctness of switching rests on the moment at which the log is written. The
migration is built from the same switching routine, under another address map.
The installer and the RAM loaders first unload SRAM and then use it as a buffer.
All of them reach flash through the driver. The lists, the popup menu, the questions
and the keyboard take their keys from the input code, and the XMODEM code polls it
for the B button, with interrupts off.

What is hard to test here: power cuts between two flash operations; the settings
disagreeing with SRAM for a while; the two-bank erase sector, which makes a
single-bank program share a sector with a neighbour; eight-bit arithmetic on banks
and list heights; noise on the serial line, which is written where the received
program will run; routines that switch their own ROM away; an interrupt handler and a
main loop that share what the keys did. `PROJECT.json` lists these hazards line by line with the properties that
cover them.

## 2. Modules

Components, in the order they build on each other:

* **SaveBanks** - `sram_get_bank` in `uint8_t` arithmetic, and which banks
  `driver_erase_bank` erases (none for an odd bank, a pair for an even one).
* **SaveErase** - the loop of `sram_erase`, one `EraseOne` per iteration.
* **SaveGeometry** - cells (a bank of a save block), regions (the part of a block
  that a program owns: the pair `active_sram_slot`, `active_sram_offset_size`) and
  erase sectors. `SaveBanksProofs!BanksAreDistinct` is what allows the modules
  above to forget physical banks.
* **SaveStore** - the abstract specification: each cell has a copy in flash, one
  region at most is checked out, and moving it is one step. `Lapse` is what may
  happen when power is cut, or settings are reloaded, while settings and SRAM do not
  agree: harm, but only in the sectors of the region held and of the one remembered.
* **SaveSwitch** - the detailed specification. `Switch` is `sram_switch_to_slot` up
  to its first access; `Shift`, `Partner`, `EraseStep`, `WriteStep`, `RestoreStep`
  are the steps of `sram_backup_restore_slot`, a bank at a time; `Save` is
  `settings_save`; the menu entries that touch save data are actions of
  their own; `PowerCycle` may tear what is in flight. `Store` maps it to SaveStore:
  during `erase` and `write` the data in SRAM counts as the flash copy, because a
  power cut goes back to it.
* **SettingsLog** - `settings_save` and `settings_erase_slots` in steps, the
  scan for the newest record, and what a power cut leaves of each step. Records
  keep `active_sram_slot`; every other field is one value, `prefs`.
* **SaveMigrate** - `settings_load`'s move from the old layout, over SaveBanks' two
  address maps, with real block numbers. `Load` ends where `sram_switch_to_slot(14)` does
  its first step; `EraseStep`, `WriteStep` and `RestoreStep` are its loops, `AfterBackup`
  what follows the backup (`target` is the argument of the call), `Unload` the clearing
  of `settings_location_legacy` and the second call, `EraseLog` and `WriteRecord`
  `settings_save`. `PowerCut` comes before, after or in any of them (`HalfErase`,
  `HalfWrite`, `HalfRestore`). `risked` and `forgotten` remember which cuts came when a
  block or the settings were at risk; no action reads them.
* **SlotTypes** - the cartridge's slots and the values of `slot_type`.
* **SaveSelect**, **CartScan** - which block, and which part of it, a launch asks
  for; the list of programs, a header at a time. They justify the constants
  `Launchable` and `Unmapped` of SaveSwitch.
* **Browse** - composes the two: `BrowseSpec` goes from the settings menus to the
  browser, makes the list by CartScan's steps (`Iterate`, an INSTANCE with the slot types
  of SaveSelect) and launches any of its entries by SaveSelect's `Launch`.
* **WwInstall** - each choice of the WonderWitch menu down to its flash steps. `LeftOf` is
  what a power cut leaves of a bank. The last page is a case of its own: it holds what a
  program is recognised by, and its 256 bytes are programmed at once, so that a cut can
  leave those bytes without others of the page (`PageCut`).
* **XModem** - the receiver, as in `xmodem_recv_block`, against the sender of the
  same file, byte by byte, over a line that garbles and loses.
* **RamLoader** - extends XModem: what `ui_tool_sramcode_bfb` and
  `ui_tool_sramcode_xm` do with each outcome of `xmodem_recv_block`. `Put` writes every
  byte into the memory as it arrives; `Header` and `Keep` come after its block was found
  to be good.
* **UiMenu** - `ui_menu_init`, `ui_menu_move`, and which rows of the 32-row tile map
  what is drawn lands in.
* **Screens** - extends UiMenu by what opens over a list: the popup menu
  (`OpenPopup`, `PopupMove`, `LeavePopup`, moved by UiMenu's own `Lands` through an
  INSTANCE), the questions (`Ask` to `Decline`) and the keyboard (`OpenKeyboard` to
  `Finish`), and where each of them leads back to. A character of a name is the layout
  of the keyboard it was typed on.
* **Input** - `Vblank`, the interrupt handler, may come between any two steps
  while interrupts are on; `Begin` and `End` are the two ends of `input_update`; `Mask` is
  what `xmodem_recv_block` does before it polls; `Wait`, `Clear` and `Await` are the
  functions that wait for keys. Six history variables say what the keys really did.
* **FlashDriver** - the read, write and erase routines, an action per group of
  instructions that an interrupt could fall between.

Each `MC...` module and its `.cfg` give one of these its constants. Each
`...Proofs` module holds its theorems. Operators under a comment that begins with
"Mutant" are wrong versions of the operator below them; putting one in place
of its original must break the property that is paired with it in `PROJECT.json`,
and this is how we know that the property has something to say. No
specification refers to them.

Type invariants are proved, as part of an inductive invariant, for SaveErase,
SaveMigrate, SaveSwitch, SettingsLog, FlashDriver and Input (`TypeOK`, `MigrateTypeOK`),
for Browse as `Types3`, and for XModem as `XModemInv`. Elsewhere `TypeOK` documents the
variables; UiMenu and Screens have none, their invariants bound what is not of an
obvious type. No run lists it: the properties that are listed say more.

## 3. Runs

| Run | Bounds | Distinct states | Shows |
|---|---|---|---|
| `save_erase` | the real 15 blocks, both layouts, every argument of the callers | 812 | `sram_erase` erases exactly what was asked (`ErasesOnlyWhatWasAsked`, `ErasesAllThatWasAsked`) |
| `switch` | 2 blocks of 4 banks; a whole block, a half, two single banks of one sector; 2 launches, 1 edit, 1 lapse | 688,435 | `GameOwnsSram`, `BackupOfRemembered`, `CrashSafeBackup`, `ProgramsOnlyBlank`, `HaltsOnlyOnTornRecord`, and that SaveSwitch implements SaveStore (`StoreSpec`) |
| `revert` | 1 block, three single banks | - | counterexample to `UnloadedDataStays` (5) |
| `settings_log` | 2 slots, from every log that earlier sessions can have left | 9,300 | the scan (`LoadsWhatWasSaved`), the free slot (`ProgramsFreeSlot`), the bootstrap (`BootsWhereSettingsAre`), and what a power cut can bring back (`KeepsLastUntilWritten`, `PowerCutIsContained`) |
| `save_migrate` | the real 15 blocks, any of them active, 2 power cuts, also in a step | 204,221 | the move is complete but for exactly what a power cut put at risk: the active block from the first SRAM bank that the restore overwrites, block 14 from the first sector that the unload erases, the settings from the erasure of the old ones on (`MovesEverything`); no other block is ever touched (`OthersUntouched`) |
| `browse` | 3 slots of every type, 3 blocks mapped in every way, every header in every place, two header sizes | 202,336 | ids are unique (`EveryIdOnce`); no two listed programs can be given the same save memory (`ProgramsKeepApart`); the launcher's slot stays what it is (`LauncherIsFixed`) |
| `save_select_picked` | 3 slots, 3 blocks | - | counterexample to `GivesPickedBlock` (5) |
| `ram_loader` | 3 files of 1, 3 and 4 blocks of 2 bytes, both loaders, 4 retries; a line with 3 faults on headers and answers, one with 3 on headers only, and one with 2 on data and sums | 137,547 | `ReceivesInOrder`, `SenderNotAhead`, `LaunchesTheFile`, `StaysInRoom`, `Completes` |
| `ww_install` | a download of up to 3 blocks, every slot type and place in it | 441,842 | `InstallsWhatWasAsked`, `CutOffIsNotListed` |
| `screens` | lists of 1 to 32 lines, with dividers alone and together; a name of up to 2 characters | 92,447 | the cursor is visible and not on a divider (`CursorVisible`); the screen shows the list (`ShowsTheList`); the keyboard's field (`ShowsWhatIsTyped`, `StoresWhatIsShown`); `OneKeyDestroysNothing` |
| `input` | 2 keys, ticks that wrap at 4, a repeat delay of 1 | 800,936 | `ListensBetweenUpdates`, `ActsOncePerPress`, `ReportsEveryPress`, `WaitsForAFreshPress` |
| `flash_driver` | 3 slots, 3 banks, any order of calls | 3,537 | `IrqNeedsRom`, `TouchesWhatWasAsked`, `RestoresBanks` |

**Why the bounds are enough.** Blocks of four banks have all the shapes of the real
eight: a whole block, halves of whole sectors, single banks of either parity with and
without a neighbour in use. Two launches reach every pair of an old and a new
region; one edit makes the data in SRAM differ from flash, and every cell starts with
a value of its own, so a misplaced bank is noticed. One lapse at any step is
enough to see the harm it does; what it leads to at the following launch is explored. A log
of two slots has a first and a last, and is erased after few saves; the same
properties are proved for every length, and also hold with three slots (92,136 states,
a few minutes). Three cartridge slots have the launcher and two others that can share
a block or an id; three blocks give a slot more than two, and leave one unused.
The two header sizes are one below every slot type's least, and 62 Mbit, after which
the scan is no longer at the end of a megabyte; `EveryIdOnce` and `ProgramsKeepApart` are proved for every size and any number of slots.
The XMODEM files reach the block numbers 1 (SOH) and 4 (EOT), and are one too long
for internal RAM, one with a start that is refused, and one that fits. The
retries there are 4, not 10, and still more than there are faults. The lists go
up to the 32 lines that fit the tile map; what a longer one does is in 5. A name of two characters has the three kinds of
fill: empty, with a terminator and full. Two keys have an earlier one and a later one; a
tick counter of 4 wraps within the delay, and the four properties are proved for
every number of keys and every delay that the counter can tell apart.

`CHECK_DEADLOCK FALSE` stands in the runs of systems that stop: an erase loop that
ends, a bounded number of launches, a migration that is done, a transfer that is
over or hangs (both sides wait without a timeout).

Two power cuts let the move be started over, be cut again and end; a third only
repeats this, and the two properties are proved for any number.

**Fairness.** SaveErase has weak fairness of its own next step:
there is one thread, which waits for nothing. `LoaderSpec` has it for sender and
receiver separately: each loops until a byte comes. The buttons, noise and power
cuts have none. `Completes` therefore allows that somebody presses B. The safety runs need none.

**The line in XModem.** Nothing in `src/` calls `xmodem_send_*`; the sender stands
for whatever sends to CartFriend, and is the sender of this file because that is the
one there is to read. XMODEM with sums cannot tell two errors that cancel out.
`SumShows(l)` says of a line and the files that its noise is not of that kind; it is a
hypothesis of the theorems that need it and an `ASSUME` of MCRamLoader, so that TLC
evaluates it for the line that hits the payload: there noise turns bytes into 0, and
the files are chosen so that no two such errors cancel. `LaunchesTheFile` and
`Completes` are stated for a line that only hits the payload: a garbled answer or an
EOT made by noise does end a transfer early, which no receiver of this protocol can
notice. The line that hits only headers is there for `SenderNotAhead`, which has an
exception on it: the receiver that reads SOH as EOT acknowledges a block it has not
got. A lost byte leaves both sides waiting, so `Completes` also asks for a line that
loses nothing.

**What the key properties leave open.** `ActsOncePerPress` excepts keys that were
held while an update came without a vertical blank (`blinded`), and `ReportsEveryPress`
those behind another key that is down: the code does no better (5).
`OneKeyDestroysNothing` is about the questions that a list or the popup menu leads to;
the two places where a single key does destroy something are in 5.

**Composition.** SaveSwitch takes settings records as they are after a power cut from
`RecordInFlight`: the old one, the new one, none, or one cut off before or behind
`active_sram_slot`. That these are all there can be is `PowerCutIsContained` of
SettingsLog, except when a sector erase itself is cut off, after which a record can
hold anything; SettingsLog marks that case by `cut` and promises nothing about it, and
SaveSwitch does not have it. SaveSwitch's `"ask"` also comes after records that
only read as reset, and so allows slightly more than the code does.

## 4. Proofs

All constants are arbitrary under the modules' named assumptions: the real
cartridge is one instance. There are no other assumptions.

* **SaveBanksProofs** (`SramSlotsAssumption`). It begins with lemmas on the address map:
  it is injective, it keeps the pairs of an erase sector together although the carve-out
  for the settings shifts them, it stays below CartFriend's image, and where the old and
  the new map meet (`MapFacts`).

  `sram_erase`: the loop counter is within its bound, and what is erased lies in what was
  asked (`EraseInv`); the banks whose turn has been are erased, an odd one with the even
  one before it (`TurnsDone`). Gives `ErasesOnlyWhatWasAsked`, and two results that no run
  lists: the overflow halt is never met (`NeverOverflows`), and a loop that has ended has
  erased exactly what was asked (`ErasedAtTheEnd`, the part of `ErasesAllThatWasAsked`
  that is not about fairness).

  The migration (`MigrateAssumption`: there are 15 blocks, because the code names block
  14): `MigrateInv` has, besides the types and what each step knows of map, block and
  bank (`MoveInv`), one part for each side of the equivalence in `MovesEverything`.
  `OwnerKept` and `LastKept` say where the data of the active block and of block 14 is as
  long as no cut has cost it; `OwnerLost` and `LastLost` follow one bank of a block that
  was lost and say that it is nowhere the move takes it from; `SettingsKnown` is about
  the record. There is a lemma for each part or step. What makes it work is
  `CopyStaysInBlock`: a bank that a copy touches is none of another block's under the new
  map, and, until the old log is given up, none of the old block 14. Gives both
  properties of `save_migrate`, for any number of power cuts.
* **SaveSwitchProofs** (`GeometryAssumption`, `SwitchAssumption`). `GameOwnsSram` is
  not inductive: at a launch it depends on what the switch did before. `Control` says,
  for each step of a switch, what `act`, `saved` and `changed` have to do with each other
  (`SettingsAgree`), what the loop is working on (`JobAgrees`) and where it will
  lead (`LaunchAgrees`). It follows by a case for each action. From it come
  `GameOwnsSram`, `BackupOfRemembered`, `CrashSafeBackup` and
  `HaltsOnlyOnTornRecord`. `SwitchInv` adds the types of the stores and the
  banks that are blank: during `erase`, those of the sectors that are done, so that after
  the last step all of the region is; it gives `TypeOK` and `ProgramsOnlyBlank`.
  `CrashSafeBackup` is the heart of the design: the record still names the region
  while it is being written back, so the next boot goes back to SRAM.

  `StoreSpecTheorem`: **SaveSwitch implements SaveStore.** `RefineInv` adds to `SwitchInv`
  what the mapping rests on: settings that are not marked as changed are those of the
  record (`RecordAgrees`), the loops have copied the banks they passed (`CopiedSoFar`),
  the single-bank states are reached by single banks only (`Apart`), and a program
  without a block never runs while another one's data is checked out (`UnmappedAgrees`).
  There is a lemma for every step of the store (`LoadMaps`, `UnloadMaps`, ...) with what it
  asks of flash, held region, work and record, and one for every action of the code that
  shows which of them it is. The moment of an `Unload` is when the backup begins: at
  `Switch` for whole sectors, at `Partner` for a single bank. `WriteStep` is then a stutter
  to its end, because what it writes has counted as flash since; `ProgramsOnlyBlank` is
  needed for that. The moment of a `Load` is the last `RestoreStep`. A power cut is a
  `Lapse` and needs the sectors of the backup to be those of the record
  (`SettingsAgree`); the one that ends a program is a stutter, by `RecordAgrees`.
* **SettingsLogProofs** (`LogAssumption`). The invariant: up to some k the log
  is written and behind it blank (`Shape`), the scan finds k, `slot` agrees with it in
  every step (`Position`), and where there is a record there is the bootstrap. It holds as
  long as no erase was cut off (`~cut`). Gives all five properties of the run and the
  action property `PowerCutIsContained`.
* **BrowseProofs** (`SlotsAssumption`, `SelectAssumption`, `BrowseAssumption`). The list is
  inductive with where its entries lie: those of one slot are at least the slot type's
  least size apart (`Spaced`) and above the bank that is read next (`Placed`). Hence two
  ids of a slot differ in their upper half, which gives `EveryIdOnce`, and two entries of a
  slot get different banks of its blocks; entries of different slots get different blocks,
  which gives `ProgramsKeepApart`. `LauncherIsFixed` is inductive by itself.
  `LaunchesWhatIsListedTheorem` bounds a deviation (5): sizes other than 62 Mbit keep the
  scan at the ends of megabytes (`AtMegabytes`), where an id says the bank.
* **DownloadProofs** (`InstallAssumption`, `XModemAssumption`, `LoaderAssumption`).

  The installer: `InstallInv` says where an operation can be (`Path`), that flash is as
  before until the sector is erased (`Flash`), and what each SRAM bank holds until then
  (`Buffer`). Gives `InstallsWhatWasAsked` and `CutOffIsNotListed`, for downloads of any
  length; and `ErasesOwnSaves` for every slot but an 8x one (5).

  XMODEM: `AckInv` counts. Every answer ACK that is on its way, was taken or is owed stands
  for one block that was received or for the end, and for each of these there is one. On
  lines that spare the answers this is an equality, and `SenderNotAhead` follows. `LockInv`
  says, on lines that spare the headers, that bytes, answer or the right to send are in one
  place at a time (`AtAsk`, `Idle`, `HeadersComing`, `DataComing`, `EotComing`,
  `Completed`), and what the sender's and the receiver's numbers have to do with each other
  there. `ContentInv` follows a block: if none of its bytes was lost, what was read
  and what is coming is what was sent but for the hits (`Explains`), of which there are no
  more than were not spent on earlier attempts (`Spare`). With `SumShows` a good sum then
  means the block. Gives `ReceivesInOrder`, for files of any length and any number
  of retries and faults.

  The loaders: `LoaderImplementsXModem` carries all of this over. `MemoryInv` bounds what is
  written, `CountInv` says what is where. Give `StaysInRoom`, on any line, and
  `LaunchesTheFile`. `StopInv` and `GiveUpInv` are about transfers that fail:
  `RefusesForAReasonTheorem` says that on a line that only hits the payload a loader gives
  up a program that fits only for the B button or after as many faults as there are
  retries. That is the safety half of `Completes`. `LaunchesSomethingTheorem` bounds
  another deviation (5).

  Two hypotheses are in these theorems. Where headers can be hit, data bytes
  are taken for headers, and a file can contain anything that looks like a block: then
  `ReceivesInOrder` does not hold for every file, and TLC checks it for the given ones. And
  `SumShows`, of which the case of a single fault would be a theorem about sums, which are
  recursive.
* **InputProofs** (`InputAssumption`). The invariant ties the flags that the vertical blank
  sets to the keys themselves (`SeesTheKeys`, `NotHeldIsNew`), the tick of the next repeat to
  what is left of the delay (`NextIsAhead`, which is where the eight-bit comparison is shown
  to be right), and the interrupt flag to the place in the program (`Masking`). Gives the
  four properties of the run.
* **ScreensProofs** (`MenuAssumption`, `NameAssumption`). The first visible line is
  `TopFor` of the cursor's line except before the first move; `TopFor` always shows its line
  (`CursorInv`). Gives `CursorVisible` for every list with a line that neither begins nor
  ends with a divider, and `SelectsListedLine` for lists with a line: the hypotheses are part of the theorems, and 5
  shows what happens without them. For `ShowsTheList` the invariant is the whole tile map,
  also the rows that are not visible (`PictureInv`): 16 rows are drawn into a ring of
  32, and what is left of earlier pages in the other half must be either the line
  that belongs there or nothing. `ScreensImplementsMenu` shows that what opens over a list
  takes no step that UiMenu's lists do not, so that all of this holds under it
  (`ListsUnderScreens`).

  The questions: `AskedInv`, which remembers the keys, gives `OneKeyDestroysNothing`. The
  keyboard: the buffer holds the text and a terminator unless it is full (`Holds`), and the
  mark is on a key (`KeyboardInv`). Gives `ShowsWhatIsTyped` and `StoresWhatIsShown`,
  for names of any length.
* **FlashDriverProofs** (`DriverAssumption`). The invariant follows a call: where the
  cached slot is right, where the chip answers its status, where interrupts are masked,
  and what the one `_driver_bank_temp` holds meanwhile. Gives `IrqNeedsRom`,
  `TouchesWhatWasAsked` and `RestoresBanks`.

Only model checked: the two liveness properties (`ErasesAllThatWasAsked`, `Completes`),
which are out of the prover's reach, though what they say of the end is proved; and `ReceivesInOrder` where noise hits headers. Every other property of
a passing run is a theorem, with the hypotheses given above.

## 5. Where the code does not do what is said of it

Two runs are counterexamples, with the sentence they contradict in `PROJECT.json`:

* `revert`: "Revert changes" after "Unload SRAM" brings back settings that say SRAM
  still holds the block. For a single bank at an odd offset the unload has moved the
  data within SRAM, and the next backup writes the neighbour's data over it.
* `save_select_picked`: with several blocks mapped to a slot, `ui_browse.c:406` uses the
  result of the block menu, a block number, as an index into the list.

### Further deviations

Eight are shown by the configurations that belong to no listed run
(`tlc -config <cfg> <module>`):

| Configuration | Property | What happens |
|---|---|---|
| `MCSaveMigrateCut.cfg` | `SurvivesPowerCuts` | `settings.c:179`, `sram.c:247`: the move from the old layout cannot be started over once the restore of block 14 has overwritten the first bank of SRAM. The old record still names the block that was active, so the next start backs up what SRAM holds, banks of block 14, over that block's save, which had been backed up correctly |
| `MCSaveSelectMapped.cfg` | `MapsToSlots` | `ui_settings.c:166`: left from "unused" looks at `slot_type[GAME_SLOTS]`, one past the end, and maps the block to a slot that does not exist |
| `MCBrowseListed.cfg` | `LaunchesWhatIsListed` | `ui_browse.c:239`: after a header of 62 Mbit the scan is not at the end of a megabyte; the entry id drops the lower bits, so another bank is launched than the one listed. No other size does this (`LaunchesWhatIsListedTheorem`) |
| `MCWwInstallSaves.cfg` | `ErasesOwnSaves` | `ww.c:233`: in an 8x slot, erasing a WonderWitch file system erases four banks of each block, three of them other programs'. In other slots it erases the program's own (`ErasesOwnSavesTheorem`) |
| `MCWwInstallFooter.cfg` | `FlashedOsHasFooter` | `ww.c:158`: a completed download returns before the code that clears the rest and writes the footer; only a cancelled one, which is never flashed, gets there |
| `MCScreensEmpty.cfg` | `SelectsListedLine` | `ui.c:440`: in an empty list the cursor goes to line 255, and what is read there is launched. Other lists are safe (`SelectsListedLineTheorem`) |
| `MCScreensLong.cfg` | `FontStaysInstalled` | `ui.c:217`: in a list of more than 32 lines, clearing the cursor's line writes over the font |
| `MCRamLoaderEmpty.cfg` | `LaunchesSomething` | `ui_tools.c:88`: a BFB transfer that completes before its first block launches from a `code_start_ptr` that was never set. It takes a garbled header or answer (`LaunchesSomethingTheorem`) |

These were met while modelling, and are in the models as they are in the code:

* Two more things a power cut during the move from the old layout costs, which
  `MovesEverything` states exactly: block 14, from the first erasure of the unload on,
  because its old place overlaps that of the new settings and SRAM holds the only copy (if it
  was itself the active block, the next start takes it from SRAM again while the old
  settings can be read); and the settings, from the erasure of bank 0xF8 with the old ones
  until the new record is written.
* `input.c:76` looks at bits 1 to 11. The PCv2's PASS key is bit 12, so it is never
  reported, and `ui.c:364`, which switches tabs with it, is never reached.
* An `input_update` without a vertical blank since the last one takes every held key
  for released (`xmodem_poll_exit` polls like this): B pressed once cancels the transfer and
  is then reported again to the screen that follows.
* A key that is up again when its press is reported, and down again at the next vertical
  blank, is taken for one that was held all the time. Of two keys that are down, the later in the order is not looked at while
  the first is new or repeats.
* `xmodem_recv_block` disables interrupts and then polls the B button; that works only
  because `input_reset` enables interrupts whatever they were.
* The BFB loader looks whether there is room after the block was received, so up to one
  block is written behind 0xFE00, into the palettes (`StaysInRoom` has this bound). A loader
  that refuses a program sends no CAN. The SRAM loader keeps at most 511 of 512 blocks, and
  launches a transfer without blocks.
* Changing the text width or the language (`ui_settings.c:465-474`) does not call
  `settings_mark_changed`, so "Save settings" alone does not save it; and `ui_set_language`
  is called nowhere else, so a saved language is not applied at the next start.
* The question of the first boot (`main.c:97`) marks "Yes" at first, unlike all others, and
  the WonderWitch menu's update lines (`ui_browse.c:489-494`) ask nothing: in these two
  places one key is enough.
* `xmodem.c:118` acknowledges what it reads as EOT, also where a block was sent: a SOH that
  noise turns into EOT ends the transfer, and the sender is told that its block arrived.
* The second branch for the last block in `ui_settings.c:421-426` cannot be reached.

`TypeOK` of SaveSelect contains the slot that does not exist, because the code does.

## 6. Not modelled

* **`driver_lock` and the cartridge's microcontroller**: what it answers while it
  sleeps is not known from the code. No caller nests lock and unlock.
* **`driver_launch_slot`, `launch_ram_asm`, `crt0.s`**: they do not return, or run
  before there is any state.
* **Layout, progress bar, indicators, the information and about pages**: they only
  draw. The width of a separator's buffer (`ui.c:677`) depends on the texts.
* **Which bit of the port is which key** (`input.c:31-46`), for the two models, except for
  the order in which the keys are looked at.
* **The keyboard for the internal EEPROM's name** (`ui_osk.c`) has no caller.
* **The serial setters** are two writes to a port; XModem takes the line as it is.
* **Copying the boot ROM to SRAM** (`ui_tools.c:219`) is not built for this cartridge.
* **The low battery NMI** is not built (`config.h:33`).
* **The generic driver** has no slots; its operations are stubs.
* **Verification after a write** in `ww.c` halts on a failing chip, which is not
  modelled; nor are bit errors in flash, nor a battery that loses SRAM.
* **The CRC of a settings record** is written and never compared, so it has no
  effect on what the model keeps.
* **`settings_migrate`'s defaults**, version strings, checksums, texts, languages, build
  tools: assignments without a choice, or no state that any of the properties is about.
* `tests.c` checks what SaveStore states, on hardware.

## 7. Plan

Done: everything in 2 to 5. Left, most important first:

1. **A composition of SettingsLog with SaveSwitch**, in place of `RecordInFlight`: a
   refinement of SaveSwitch's `saved` by the newest record of the log, proved rather than
   checked, since for TLC both together are too large.
2. **A composition of Browse with SaveSwitch**, in place of the constants `Launchable`
   and `Unmapped`: the regions that `ProgramsKeepApart` is about are all that SaveSwitch
   asks of them.
3. **Input under Screens**: the keys that a list takes are those that `ActsOncePerPress`
   is about; the two are apart now.
4. **A line with spoilt headers**: for which files `ReceivesInOrder` holds there.
