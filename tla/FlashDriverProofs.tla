------------------------- MODULE FlashDriverProofs -------------------------
(***************************************************************************)
(* What the flash routines promise their callers, for any number of slots  *)
(* and banks.                                                              *)
(***************************************************************************)
EXTENDS FlashDriver, TLAPS

\* Before the banks are mapped and after they are given back; in between.
Outside == {"caller", "cli", "map", "unswitch", "sti"}
Inside == {"switch", "body", "reset", "unmap"}

\* The cache of the current slot is right, and says CartFriend's slot but
\* between the two switches.
CacheIsRight == current = slot
Home == pc \in {"caller", "cli", "map", "switch", "sti"} => slot = LaunchSlot
AtWork == pc = "body" => slot = want.slot

\* The chip answers data but in the body of a routine that has sent it a command.
ChipAnswers == chip # "data" => call # "read" /\ pc \in {"body", "reset"}

Masked == irq => pc \in {"caller", "cli"}

Given ==
  pc \in Outside => ~cartFlash /\ romBank = before.rom /\ ramBank = before.ram
Lent ==
  pc \in Inside =>
    IF call = "read"
    THEN temp = before.rom /\ romBank = want.bank /\ ramBank = before.ram /\ ~cartFlash
    ELSE temp = before.ram /\ ramBank = want.bank /\ romBank = before.rom

DriverInv ==
  /\ TypeOK
  /\ CacheIsRight /\ Home /\ AtWork
  /\ ChipAnswers /\ Masked
  /\ Given /\ Lent
  /\ TouchesWhatWasAsked

(***************************************************************************)
(* Every reachable state of the routines satisfies the inductive           *)
(* invariant, whose parts follow one call through them.                    *)
(***************************************************************************)
THEOREM DriverInvariant == Spec => []DriverInv
<1> USE DEF TypeOK, Labels, Calls, Slots, LaunchSlot, CacheIsRight, Home, AtWork, ChipAnswers,
      Masked, Given, Lent, TouchesWhatWasAsked, Outside, Inside
<1>1. Init => DriverInv
  <2> SUFFICES ASSUME Init PROVE DriverInv
    OBVIOUS
  <2>1. irq \in BOOLEAN /\ cartFlash \in BOOLEAN /\ ~cartFlash
    BY DEF Init
  <2>2. TypeOK
    BY DriverAssumption, <2>1 DEF Init
  <2>3. CacheIsRight /\ Home /\ AtWork /\ ChipAnswers /\ Masked /\ TouchesWhatWasAsked
    BY DEF Init
  <2>4. Given /\ Lent
    BY <2>1 DEF Init
  <2> QED
    BY <2>2, <2>3, <2>4 DEF DriverInv
<1>2. DriverInv /\ [Next]_vars => DriverInv'
  <2> SUFFICES ASSUME DriverInv, [Next]_vars PROVE DriverInv'
    OBVIOUS
  <2> USE DriverAssumption DEF DriverInv, banks
  <2>1. CASE SetBanks
    BY <2>1 DEF SetBanks
  <2>2. ASSUME NEW c \in Calls, NEW s \in Slots, NEW b \in Banks, Begin(c, s, b)
        PROVE  DriverInv'
    BY <2>2 DEF Begin
  <2>3. CASE Cli
    BY <2>3 DEF Cli
  <2>4. CASE Map
    BY <2>4 DEF Map
  <2>5. CASE Switch
    BY <2>5 DEF Switch, SwitchTo
  <2>6. CASE Read
    BY <2>6 DEF Read, Touch
  <2>7. CASE Write
    BY <2>7 DEF Write, Touch
  <2>8. CASE Erase
    BY <2>8 DEF Erase, Touch
  <2>9. CASE Reset
    BY <2>9 DEF Reset
  <2>10. CASE Unmap
    BY <2>10 DEF Unmap
  <2>11. CASE Unswitch
    BY <2>11 DEF Unswitch, SwitchTo
  <2>12. CASE Sti
    BY <2>12 DEF Sti
  <2>13. CASE UNCHANGED vars
    BY <2>13 DEF vars
  <2> QED
    BY <2>1, <2>2, <2>3, <2>4, <2>5, <2>6, <2>7, <2>8, <2>9, <2>10, <2>11, <2>12, <2>13 DEF Next
<1> QED
  BY <1>1, <1>2, PTL DEF Spec

(***************************************************************************)
(* An interrupt handler can always be fetched (IrqNeedsRom): no path       *)
(* through the routines enables interrupts with another slot shown or the  *)
(* chip in the middle of a command.                                        *)
(***************************************************************************)
THEOREM IrqNeedsRomTheorem == Spec => []IrqNeedsRom
<1>1. DriverInv => IrqNeedsRom
  BY DEF DriverInv, Masked, Home, ChipAnswers, IrqNeedsRom
<1> QED
  BY <1>1, DriverInvariant, PTL

(***************************************************************************)
(* The calls touch the bank and the slot that they are given               *)
(* (TouchesWhatWasAsked), however they follow one another.                 *)
(***************************************************************************)
THEOREM TouchesWhatWasAskedTheorem == Spec => []TouchesWhatWasAsked
<1>1. DriverInv => TouchesWhatWasAsked
  BY DEF DriverInv
<1> QED
  BY <1>1, DriverInvariant, PTL

(***************************************************************************)
(* The callers find their banks and the SRAM again (RestoresBanks).        *)
(***************************************************************************)
THEOREM RestoresBanksTheorem == Spec => []RestoresBanks
<1>1. DriverInv => RestoresBanks
  BY DEF DriverInv, Given, Outside, RestoresBanks
<1> QED
  BY <1>1, DriverInvariant, PTL
=============================================================================
