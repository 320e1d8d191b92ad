----------------------------- MODULE SlotTypes -----------------------------
(***************************************************************************)
(* The game slots of the cartridge and what the settings say is in them    *)
(* (src/src/config.h, src/src/settings.h).                                 *)
(***************************************************************************)
EXTENDS Integers

CONSTANT GameSlots   \* GAME_SLOTS: 16

ASSUME SlotsAssumption == GameSlots \in 2..16

Slots == 0..(GameSlots - 1)
LaunchSlot == 0                  \* driver_get_launch_slot

\* SLOT_TYPE_SOFT, LAUNCHER, 8M_512K, 8M_2M and UNUSED.
Soft == 0
Launcher == 1
Eight == 2
Two == 3
Empty == 255
Types == {Soft, Launcher, Eight, Two, Empty}
=============================================================================
