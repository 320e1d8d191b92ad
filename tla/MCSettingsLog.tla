--------------------------- MODULE MCSettingsLog ---------------------------
(* A log of two slots, the first and the last: it fills up and is erased   *)
(* within a few saves.  What longer logs add is in the theorems.           *)
EXTENDS SettingsLog

CONSTANT ABlock
MCActives == {ABlock, FirstBoot, NoBlock}
MCPrefs == {DefaultPrefs, CutPrefs}
=============================================================================
