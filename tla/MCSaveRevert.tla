---------------------------- MODULE MCSaveRevert ----------------------------
(***************************************************************************)
(* "Unload SRAM" followed by nothing but the menu.  A history variable     *)
(* remembers the region that was unloaded until something is launched or   *)
(* erased.                                                                 *)
(***************************************************************************)
EXTENDS MCSaveSwitch

VARIABLE unloaded   \* the region the user just moved to flash, or None

Unloads == pc = "write" /\ pc' = "menu" /\ goal = "menu" /\ lapses' = lapses
Waits == pc \in {"menu", "save"} /\ pc' \in {"menu", "save"} /\ nor' = nor /\ runs' = runs

RInit == Init /\ unloaded = None
RNext == /\ Next
         /\ unloaded' = IF Unloads THEN act ELSE IF Waits THEN unloaded ELSE None
RSpec == RInit /\ [][RNext]_<<vars, unloaded>>

\* README.md: "Save data management - allows unloading save data from SRAM to
\* Flash".  Once a program's data has been unloaded it is in flash, and as long
\* as nothing is launched and flash is left alone it stays what it was.
UnloadedDataStays ==
  [][unloaded # None /\ unloaded' = unloaded
       => \A c \in Cells : Covers(unloaded, c) => View(c)' = View(c)]_<<vars, unloaded>>
=============================================================================
