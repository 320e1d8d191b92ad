----------------------------- MODULE SaveStore -----------------------------
(***************************************************************************)
(* What CartFriend promises about save data, without how it is done.       *)
(*                                                                         *)
(* Every 64 KB bank of every save block ("cell") has a copy in flash.  The *)
(* cells of at most one program are "held": checked out to the cartridge's *)
(* SRAM, where the program works on them.  Moving a program's cells        *)
(* between the two is one indivisible step.  The settings remember which   *)
(* cells were held when they were last written.                            *)
(*                                                                         *)
(* A lapse is what may happen when the power is cut, or the settings are   *)
(* reloaded, while SRAM and settings do not agree: SRAM may be taken for   *)
(* cells it does not hold.  The promise is that a lapse harms nothing but  *)
(* the sectors of the cells held and of the cells remembered.              *)
(***************************************************************************)
EXTENDS SaveGeometry

VARIABLES flash,       \* the copy of every cell in flash
          held,        \* the region checked out to SRAM, or None
          work,        \* the content of the held region's banks
          remembered   \* the region the settings name, or None

vars == <<flash, held, work, remembered>>

\* The working copies of a region.
Works(r) == IF r = None THEN [{} -> Content] ELSE [0..(r.len - 1) -> Content]

Init ==
  /\ flash \in [Cells -> Content]
  /\ held = None
  /\ work \in Works(None)
  /\ remembered = None

\* Check a region out: the program will see what is in flash.
Load(r) ==
  /\ held = None
  /\ held' = r
  /\ work' = [b \in 0..(r.len - 1) |-> flash[<<r.blk, r.off + b>>]]
  /\ UNCHANGED <<flash, remembered>>

\* Check the held region in.
Unload ==
  /\ held # None
  /\ flash' = [c \in Cells |-> IF Covers(held, c) THEN work[c[2] - held.off] ELSE flash[c]]
  /\ held' = None
  /\ work' \in Works(None)
  /\ UNCHANGED remembered

\* The running program writes a bank of its own save data.
Write(b, v) ==
  /\ held # None
  /\ b \in DOMAIN work
  /\ work' = [work EXCEPT ![b] = v]
  /\ UNCHANGED <<flash, held, remembered>>

\* The contents of SRAM, whatever they are, are declared to be r's save data.
Adopt(r) ==
  /\ held = None
  /\ held' = r
  /\ work' \in Works(r)
  /\ UNCHANGED <<flash, remembered>>

\* The held copy is given up: the save data is what flash has.
Discard ==
  /\ held # None
  /\ held' = None
  /\ work' \in Works(None)
  /\ UNCHANGED <<flash, remembered>>

\* The user erases cells: either none of them is held, or none is afterwards.
Erase ==
  /\ flash' \in [Cells -> Content]
  /\ \A c \in Cells : flash'[c] \in {flash[c], Blank}
  /\ \/ held' = None /\ work' \in Works(None)
     \/ /\ UNCHANGED <<held, work>>
        /\ \A c \in Cells : Covers(held, c) => flash'[c] = flash[c]
  /\ UNCHANGED remembered

\* The settings are written.
Remember ==
  /\ remembered' = held
  /\ UNCHANGED <<flash, held, work>>

Exposed(c) == SectorCovers(held, c) \/ SectorCovers(remembered, c)

Lapse ==
  /\ held' \in {held, remembered, None}
  /\ remembered' \in {remembered, held, None}
  /\ work' \in Works(held')
  /\ flash' \in [Cells -> Content]
  /\ \A c \in Cells : ~Exposed(c) => flash'[c] = flash[c]

Next ==
  \/ \E r \in Regions : Load(r) \/ Adopt(r)
  \/ Unload
  \/ \E b \in Banks, v \in Content : Write(b, v)
  \/ Discard
  \/ Erase
  \/ Remember

\* Without a lapse, and with them.
Spec == Init /\ [][Next]_vars
LapsingSpec == Init /\ [][Next \/ Lapse]_vars

-----------------------------------------------------------------------------
TypeOK ==
  /\ flash \in [Cells -> Content]
  /\ held \in Regions \cup {None}
  /\ work \in Works(held)
  /\ remembered \in Regions \cup {None}
=============================================================================
