---------------------------- MODULE FlashDriver ----------------------------
(***************************************************************************)
(* The routines that read, program and erase any bank of any slot          *)
(* (src/src/flash_masta/fm_driver_io_ram.s), instruction group by          *)
(* instruction group.  The rest of CartFriend is in its own slot's ROM,    *)
(* the vertical blank's handler too; these routines are in RAM, because    *)
(* while they work the cartridge may show another slot, and the flash chip *)
(* answers with its status.  Interrupts are off meanwhile.                 *)
(*                                                                         *)
(* The settings, the save switching, the list of programs and the          *)
(* WonderWitch installer all come through here: their modules take each    *)
(* call as one step, on the slot and the bank that they name.              *)
(***************************************************************************)
EXTENDS Integers

CONSTANTS
  Banks,       \* banks of a slot
  Others       \* slots other than the one that CartFriend is in

LaunchSlot == 0              \* fm_initial_slot

ASSUME DriverAssumption ==
  Banks \subseteq Nat /\ Banks # {} /\ Others \subseteq Nat /\ LaunchSlot \notin Others

Slots == Others \cup {LaunchSlot}
Calls == {"read", "write", "erase"}

VARIABLES
  pc, call,         \* the routine, and where it is
  want,             \* its arguments: [slot, bank]
  slot,             \* the slot that the cartridge shows
  current,          \* _driver_current_slot
  romBank, ramBank, \* IO_BANK_ROM1 and IO_BANK_RAM
  cartFlash,        \* IO_CART_FLASH: the flash is in place of the SRAM
  temp,             \* _driver_bank_temp
  irq,              \* interrupts are enabled
  chip,             \* what the flash chip answers: "data", "bypass" (it takes
                    \* data to program) or "status" (it erases or programs)
  touched,          \* history: the [slot, bank]s that this call has touched
  before            \* history: the banks as the caller had them

banks == <<romBank, ramBank, cartFlash, temp>>
vars == <<pc, call, want, slot, current, banks, irq, chip, touched, before>>

Labels == {"caller", "cli", "map", "switch", "body", "reset", "unmap", "unswitch", "sti"}

TypeOK ==
  /\ pc \in Labels /\ call \in Calls
  /\ want \in [slot : Slots, bank : Banks]
  /\ slot \in Slots /\ current \in Slots
  /\ romBank \in Banks /\ ramBank \in Banks /\ temp \in Banks /\ cartFlash \in BOOLEAN
  /\ irq \in BOOLEAN
  /\ chip \in {"data", "bypass", "status"}
  /\ touched \subseteq [slot : Slots, bank : Banks]
  /\ before \in [rom : Banks, ram : Banks]

-----------------------------------------------------------------------------
\* The callers choose the banks that they work with themselves.
SetBanks ==
  /\ pc = "caller"
  /\ \E r, s \in Banks :
       romBank' = r /\ ramBank' = s /\ before' = [rom |-> r, ram |-> s]
  /\ UNCHANGED <<pc, call, want, slot, current, cartFlash, temp, irq, chip, touched>>

\* driver_read_slot, driver_write_slot, driver_erase_bank; an odd bank is not
\* erased.
Begin(c, s, b) ==
  /\ pc = "caller"
  /\ c = "erase" => b % 2 = 0
  /\ call' = c /\ want' = [slot |-> s, bank |-> b]
  /\ touched' = {}
  /\ pc' = "cli"
  /\ UNCHANGED <<slot, current, banks, irq, chip, before>>

Cli ==
  /\ pc = "cli"
  /\ irq' = FALSE
  /\ pc' = "map"
  /\ UNCHANGED <<call, want, slot, current, banks, chip, touched, before>>

\* _driver_switch_slot_bank1 to read, _driver_switch_slot_sram otherwise
Map ==
  /\ pc = "map"
  /\ IF call = "read"
     THEN temp' = romBank /\ romBank' = want.bank /\ UNCHANGED <<ramBank, cartFlash>>
     ELSE temp' = ramBank /\ ramBank' = want.bank /\ cartFlash' = TRUE /\ UNCHANGED romBank
  /\ pc' = "switch"
  /\ UNCHANGED <<call, want, slot, current, irq, chip, touched, before>>

\* _driver_switch_slot, which trusts the cache of the current slot
SwitchTo(s) ==
  IF current = s THEN UNCHANGED <<slot, current>> ELSE current' = s /\ slot' = s

Switch ==
  /\ pc = "switch"
  /\ SwitchTo(want.slot)
  /\ pc' = "body"
  /\ UNCHANGED <<call, want, banks, irq, chip, touched, before>>

Touch(bank) == touched' = touched \cup {[slot |-> slot, bank |-> bank]}

\* rep movsw
Read ==
  /\ pc = "body" /\ call = "read"
  /\ Touch(romBank)
  /\ pc' = "unmap"
  /\ UNCHANGED <<call, want, slot, current, banks, irq, chip, before>>

\* Start bypass; bytes or a buffer of them, each waited for; stop bypass.
Write ==
  /\ pc = "body" /\ call = "write"
  /\ \/ chip = "data" /\ chip' = "bypass" /\ UNCHANGED <<pc, touched>>
     \/ chip = "bypass" /\ chip' = "status" /\ Touch(ramBank) /\ UNCHANGED pc
     \/ chip = "status" /\ chip' = "bypass" /\ UNCHANGED <<pc, touched>>
     \/ chip = "bypass" /\ touched # {} /\ pc' = "reset" /\ UNCHANGED <<chip, touched>>
  /\ UNCHANGED <<call, want, slot, current, banks, irq, before>>

\* The command, and the loop that waits until the status stops to toggle.
Erase ==
  /\ pc = "body" /\ call = "erase"
  /\ IF chip = "data" THEN chip' = "status" /\ Touch(ramBank) /\ UNCHANGED pc
     ELSE chip' = "data" /\ pc' = "reset" /\ UNCHANGED touched
  /\ UNCHANGED <<call, want, slot, current, banks, irq, before>>

\* _driver_reset_flash
Reset ==
  /\ pc = "reset"
  /\ chip' = "data"
  /\ pc' = "unmap"
  /\ UNCHANGED <<call, want, slot, current, banks, irq, touched, before>>

\* Mutant: the window is not turned back to SRAM.
UnmapBankOnly ==
  /\ pc = "unmap"
  /\ IF call = "read"
     THEN romBank' = temp /\ UNCHANGED <<ramBank, cartFlash>>
     ELSE ramBank' = temp /\ UNCHANGED <<romBank, cartFlash>>
  /\ pc' = "unswitch"
  /\ UNCHANGED <<call, want, slot, current, temp, irq, chip, touched, before>>

\* _driver_unswitch_slot_bank1 and _driver_unswitch_slot_sram
Unmap ==
  /\ pc = "unmap"
  /\ IF call = "read"
     THEN romBank' = temp /\ UNCHANGED <<ramBank, cartFlash>>
     ELSE ramBank' = temp /\ cartFlash' = FALSE /\ UNCHANGED romBank
  /\ pc' = "unswitch"
  /\ UNCHANGED <<call, want, slot, current, temp, irq, chip, touched, before>>

\* Mutants: interrupts are enabled before the slot is switched back; the slot
\* is switched back behind the cache.
UnswitchEarlySti ==
  /\ pc = "unswitch"
  /\ IF irq THEN SwitchTo(LaunchSlot) /\ pc' = "sti"
     ELSE UNCHANGED <<slot, current, pc>>
  /\ irq' = TRUE
  /\ UNCHANGED <<call, want, banks, chip, touched, before>>
UnswitchUncached ==
  /\ pc = "unswitch"
  /\ slot' = LaunchSlot
  /\ pc' = "sti"
  /\ UNCHANGED <<call, want, current, banks, irq, chip, touched, before>>

\* _driver_unswitch_slot
Unswitch ==
  /\ pc = "unswitch"
  /\ SwitchTo(LaunchSlot)
  /\ pc' = "sti"
  /\ UNCHANGED <<call, want, banks, irq, chip, touched, before>>

Sti ==
  /\ pc = "sti"
  /\ irq' = TRUE
  /\ pc' = "caller"
  /\ UNCHANGED <<call, want, slot, current, banks, chip, touched, before>>

\* main, up to the first call of the driver
Init ==
  /\ pc = "caller" /\ call = "read"
  /\ want \in [slot : {LaunchSlot}, bank : Banks]
  /\ slot = LaunchSlot /\ current = LaunchSlot
  /\ romBank \in Banks /\ ramBank \in Banks /\ temp \in Banks /\ cartFlash = FALSE
  /\ irq = TRUE /\ chip = "data" /\ touched = {}
  /\ before = [rom |-> romBank, ram |-> ramBank]

Next ==
  \/ SetBanks
  \/ \E c \in Calls, s \in Slots, b \in Banks : Begin(c, s, b)
  \/ Cli \/ Map \/ Switch
  \/ Read \/ Write \/ Erase \/ Reset
  \/ Unmap \/ Unswitch \/ Sti

Spec == Init /\ [][Next]_vars

-----------------------------------------------------------------------------
(***************************************************************************)
(* Whenever an interrupt can be served, its handler can be fetched: the    *)
(* cartridge shows CartFriend's slot and the flash chip answers data.      *)
(***************************************************************************)
IrqNeedsRom == irq => slot = LaunchSlot /\ chip = "data"

(***************************************************************************)
(* Whatever was called before, and in whichever order, a call touches the  *)
(* bank and the slot that it was given and nothing else: the cached slot   *)
(* and the bank that the callers work with do not divert it.               *)
(***************************************************************************)
TouchesWhatWasAsked == touched \subseteq {want}

(***************************************************************************)
(* A call that has returned has left the banks and the SRAM as its caller  *)
(* had them, with one _driver_bank_temp for all three routines.            *)
(***************************************************************************)
RestoresBanks ==
  pc = "caller" => /\ ~cartFlash
                   /\ romBank = before.rom /\ ramBank = before.ram
=============================================================================
