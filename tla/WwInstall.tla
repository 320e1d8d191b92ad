----------------------------- MODULE WwInstall -----------------------------
(***************************************************************************)
(* Installing and updating a WonderWitch environment (src/src/ww.c, chosen *)
(* in ui_browse, src/src/ui_browse.c): an OS that is received over XMODEM  *)
(* and the bundled AthenaBIOS are put together in SRAM banks 0 and 1, then *)
(* flashed to the last two banks of a program, which are one erase sector. *)
(* The BIOS, whose last page is the program's header, comes last.  Power   *)
(* can go at every step.                                                   *)
(***************************************************************************)
EXTENDS Integers

CONSTANT OsBlocks       \* XMODEM blocks in an SRAM bank: 512

ASSUME InstallAssumption == OsBlocks \in Nat \ {0}

\* What a bank holds: an image, how many blocks of it, and whether the footer
\* was written behind it.
Part(of, n) == [of |-> of, blocks |-> n, footer |-> FALSE]
Blank == Part("blank", 0)
CutOff == Part("cut off", 0)
Game == Part("game", 0)
NewBios == Part("new BIOS", 0)
OldBios == Part("old BIOS", 0)
OldOs == Part("old OS", 0)
PageCut == Part("BIOS, last page cut off", 0)
Images == {"blank", "cut off", "game", "new BIOS", "old BIOS", "BIOS, last page cut off",
           "new OS", "old OS"}
Contents == [of : Images, blocks : 0..OsBlocks, footer : BOOLEAN]

Halves == {"os", "bios"}    \* banks 0xE and 0xF; in SRAM, banks 0 and 1

VARIABLES
  type, sub,   \* the slot's type and the program's number in it
  rom,         \* the last two banks of the program
  buf,         \* SRAM banks 0 and 1
  wiped,       \* the banks that were erased of the blocks mapped to the slot
  op,          \* the choice that was made in the menu
  pc,
  osLen, got,  \* the blocks of the file that is sent, and those received
  before       \* history: rom, when op was chosen

program == <<type, sub>>
download == <<osLen, got>>
installVars == <<program, rom, buf, wiped, op, pc, download, before>>

Ops == {"install", "full", "os", "bios", "erase"}

InstallTypeOK ==
  /\ type \in {"soft", "8M_2M", "8M_512K"} /\ sub \in 0..7
  /\ rom \in [Halves -> Contents] /\ buf \in [Halves -> Contents]
  /\ before \in [Halves -> Contents]
  /\ wiped \subseteq 0..7
  /\ op \in Ops
  /\ pc \in {"menu", "wipe", "copy", "unpack", "open", "receive", "footer",
             "sector", "write os", "write bios", "off"}
  /\ osLen \in 0..OsBlocks /\ got \in 0..OsBlocks

\* is_valid_rom_header and the magic number of AthenaBIOS: bytes of the last
\* page, which can be there when others of the page are not.
IsWw == rom["bios"].of \in {"old BIOS", "new BIOS", "BIOS, last page cut off"}

\* The menus: WW can be installed over another program in some slot types, and
\* be managed wherever it is found.  Each choice begins with sram_unload
\* (SaveSwitch's Unload), so that no program's data is in the SRAM banks.
Choose(o) ==
  /\ pc = "menu"
  /\ IF o = "install" THEN ~IsWw /\ type \in {"soft", "8M_2M"} ELSE IsWw
  /\ op' = o
  /\ before' = rom
  /\ pc' = CASE o \in {"install", "erase"} -> "wipe"
             [] o = "full" -> "unpack"
             [] OTHER -> "copy"
  /\ UNCHANGED <<program, rom, buf, wiped, download>>

\* SRAM_OFFSET_SIZE(bank < 0xF0 ? 4 : 0, 4)
WipedBanks == IF sub > 0 THEN 4..7 ELSE 0..3

\* ww_ui_erase_userdata; the program's other banks are erased too.  wiped is
\* what it passes to sram_erase (SaveErase) for every block of the slot.
Wipe ==
  /\ pc = "wipe"
  /\ wiped' = wiped \cup WipedBanks
  /\ pc' = IF op = "install" THEN "unpack" ELSE "menu"
  /\ UNCHANGED <<program, rom, buf, op, download, before>>

\* Mutant: the half that is about to be replaced.
CopyReplaced ==
  /\ pc = "copy"
  /\ LET h == op IN buf' = [buf EXCEPT ![h] = rom[h]]
  /\ pc' = IF op = "bios" THEN "unpack" ELSE "open"
  /\ UNCHANGED <<program, rom, wiped, op, download, before>>

\* ww_copy_to_sram: COPY_OS_ONLY for a new BIOS, COPY_BIOS_ONLY for a new OS.
Copy ==
  /\ pc = "copy"
  /\ LET h == IF op = "bios" THEN "os" ELSE "bios"
     IN  buf' = [buf EXCEPT ![h] = rom[h]]
  /\ pc' = IF op = "bios" THEN "unpack" ELSE "open"
  /\ UNCHANGED <<program, rom, wiped, op, download, before>>

\* ww_unpack_bios
Unpack ==
  /\ pc = "unpack"
  /\ buf' = [buf EXCEPT !["bios"] = NewBios]
  /\ pc' = IF op = "bios" THEN "sector" ELSE "open"
  /\ UNCHANGED <<program, rom, wiped, op, download, before>>

\* ww_download_os, up to the first block.
Open ==
  /\ pc = "open"
  /\ buf' = [buf EXCEPT !["os"] = Blank]
  /\ osLen' \in 0..OsBlocks /\ got' = 0
  /\ pc' = "receive"
  /\ UNCHANGED <<program, rom, wiped, op, before>>

\* XMODEM_OK; a file that fills the bank is taken for one that is too long.
OsBlock ==
  /\ pc = "receive" /\ got < osLen
  /\ got' = got + 1
  /\ buf' = [buf EXCEPT !["os"] = Part("new OS", got')]
  /\ pc' = IF got' < OsBlocks THEN "receive" ELSE "footer"
  /\ UNCHANGED <<program, rom, wiped, op, osLen, before>>

\* XMODEM_COMPLETE
Complete ==
  /\ pc = "receive" /\ got = osLen
  /\ pc' = "sector"
  /\ UNCHANGED <<program, rom, buf, wiped, op, download, before>>

\* XMODEM_CANCEL, XMODEM_SELF_CANCEL, XMODEM_ERROR
Cancel ==
  /\ pc = "receive"
  /\ pc' = "footer"
  /\ UNCHANGED <<program, rom, buf, wiped, op, download, before>>

\* The rest of ww_download_os, which returns false.
Footer ==
  /\ pc = "footer"
  /\ buf' = [buf EXCEPT !["os"].footer = TRUE]
  /\ pc' = "menu"
  /\ UNCHANGED <<program, rom, wiped, op, download, before>>

\* ww_flash_from_sram
Sector ==
  /\ pc = "sector"
  /\ rom' = [h \in Halves |-> Blank]
  /\ pc' = "write os"
  /\ UNCHANGED <<program, buf, wiped, op, download, before>>

\* Mutant: the BIOS, with the header, is written along with the OS.
WriteBiosFirst ==
  /\ pc = "write os"
  /\ rom' = buf
  /\ pc' = "write bios"
  /\ UNCHANGED <<program, buf, wiped, op, download, before>>

WriteOs ==
  /\ pc = "write os"
  /\ rom' = [rom EXCEPT !["os"] = buf["os"]]
  /\ pc' = "write bios"
  /\ UNCHANGED <<program, buf, wiped, op, download, before>>

WriteBios ==
  /\ pc = "write bios"
  /\ rom' = [rom EXCEPT !["bios"] = buf["bios"]]
  /\ pc' = "menu"
  /\ UNCHANGED <<program, buf, wiped, op, download, before>>

\* What a power cut leaves of a half that is being erased or written.  The 256
\* bytes of a page are programmed at once; of the last one it can leave those
\* that IsWw looks at without others.
LeftOf(h) ==
  CASE pc = "sector" -> {rom[h], CutOff, Blank}
    [] pc = "write os" /\ h = "os" -> {rom[h], CutOff}
    [] pc = "write bios" /\ h = "bios" -> {rom[h], CutOff, PageCut}
    [] OTHER -> {rom[h]}

PowerCut ==
  /\ pc # "off"
  /\ pc' = "off"
  /\ rom' \in {r \in [Halves -> UNION {LeftOf(h) : h \in Halves}] :
                 \A h \in Halves : r[h] \in LeftOf(h)}
  /\ UNCHANGED <<program, buf, wiped, op, download, before>>

PowerOn ==
  /\ pc = "off"
  /\ pc' = "menu"
  /\ UNCHANGED <<program, rom, buf, wiped, op, download, before>>

\* Another program, or a WW environment, in each kind of slot.
InstallInit ==
  /\ type \in {"soft", "8M_2M", "8M_512K"}
  /\ sub \in CASE type = "soft" -> {0} [] type = "8M_2M" -> {0, 4} [] OTHER -> 0..7
  /\ rom \in {[h \in Halves |-> Game],
              [h \in Halves |-> IF h = "os" THEN OldOs ELSE OldBios]}
  /\ buf = [h \in Halves |-> Game]
  /\ wiped = {}
  /\ op = "erase" /\ pc = "menu"
  /\ osLen = 0 /\ got = 0
  /\ before = rom

InstallNext ==
  \/ \E o \in Ops : Choose(o)
  \/ Wipe \/ Copy \/ Unpack
  \/ Open \/ OsBlock \/ Complete \/ Cancel \/ Footer
  \/ Sector \/ WriteOs \/ WriteBios
  \/ PowerCut \/ PowerOn

InstallSpec == InstallInit /\ [][InstallNext]_installVars

-----------------------------------------------------------------------------
\* The banks of a save block that ui_browse_inner gives the program.
OwnBanks ==
  CASE type = "soft" -> 0..7
    [] type = "8M_2M" -> IF sub > 0 THEN 4..7 ELSE 0..3
    [] OTHER -> {sub}

\* An update of one half flashes the other as it was, and an OS that was not
\* received to its end is never flashed.
InstallsWhatWasAsked ==
  [][pc = "write bios" /\ pc' = "menu" =>
       /\ rom["os"] = IF op = "bios" THEN before["os"]
                      ELSE IF osLen = 0 THEN Blank ELSE Part("new OS", osLen)
       /\ (rom["bios"])' = IF op = "os" THEN before["bios"] ELSE NewBios]_installVars

\* A program whose flashing a power cut has ended is not listed as a WW
\* environment, unless all of it is there but for bytes of the last page: the
\* header is in the page that is written last.  (The sector's erasure, ended
\* so, can leave anything.)
CutOffIsNotListed ==
  [][pc' = "off" /\ pc \in {"write os", "write bios"} =>
       ~IsWw' \/ rom' = [os |-> buf["os"], bios |-> PageCut]]_installVars

\* README.md: "eight programs, which takes up the slot in 1MB increments. Each
\* program gets 64KB of SRAM": what belongs to the others is not erased.
ErasesOwnSaves == wiped \subseteq OwnBanks

\* ww.c: "// clear remaining data", "// write footer": an OS that was received
\* and flashed has the footer that its BIOS starts it by.
FlashedOsHasFooter == rom["os"].of = "new OS" => rom["os"].footer
=============================================================================
