---------------------------- MODULE SettingsLog ----------------------------
(***************************************************************************)
(* The settings log (src/src/settings.c).  Settings are appended to a log  *)
(* of 1 KB slots in one 128 KB erase sector of NOR flash, so that the      *)
(* sector is erased once per LastSlot saves; the first slot holds the code *)
(* that starts CartFriend from this sector.  There is no index: loading    *)
(* scans the log from its end for the magic of a record.  Power can go at  *)
(* any step of a save.                                                     *)
(***************************************************************************)
EXTENDS Integers

CONSTANTS
  LastSlot,      \* 127
  Actives,       \* values of active_sram_slot
  FirstBoot,     \* SRAM_SLOT_FIRST_BOOT
  NoBlock,       \* SRAM_SLOT_NONE, 0xFF
  Prefs,         \* what the other fields are set to
  DefaultPrefs,  \* their values after settings_reset
  CutPrefs,      \* their values in a record that was cut off
  Blank,         \* a slot of 0xFF bytes
  PartMagic,     \* a slot cut off inside the magic
  TooNew,        \* a magic and a version above 6 (0xFFFF if cut off there)
  Garbage        \* a slot neither blank nor readable

Slots == 1..LastSlot
Settings == [active : Actives, prefs : Prefs]
Readable == Settings \cup {TooNew}
Contents == Readable \cup {Blank, PartMagic, Garbage}

ASSUME LogAssumption ==
  /\ LastSlot \in Nat \ {0}
  /\ {FirstBoot, NoBlock} \subseteq Actives /\ FirstBoot # NoBlock
  /\ {DefaultPrefs, CutPrefs} \subseteq Prefs
  /\ {Blank, PartMagic, Garbage} \cap Readable = {}
  /\ TooNew \notin Settings
  /\ Blank # PartMagic /\ Blank # Garbage /\ PartMagic # Garbage

VARIABLES
  log,        \* slots 1..LastSlot of the sector at SETTINGS_BANK
  bootstrap,  \* the bootstrap code is in slot 0
  slot,       \* settings_slot
  local,      \* settings_local
  changed,    \* settings_changed
  pc,         \* "run", or the step of settings_save or settings_erase_slots
  saving,     \* the erase is part of settings_save, not of a factory reset
  last,       \* history: what the newest complete save wrote, or Blank
  cut         \* history: an erase was cut off and none completed since

vars == <<log, bootstrap, slot, local, changed, pc, saving, last, cut>>

ResetSettings == [active |-> FirstBoot, prefs |-> DefaultPrefs]

\* settings_save writes FIRST_BOOT as NONE.
Persisted(s) == IF s.active = FirstBoot THEN [s EXCEPT !.active = NoBlock] ELSE s

\* A record cut off behind its version: the fields behind the cut are 0xFF.
CutOff(s) == {[active |-> a, prefs |-> CutPrefs] : a \in {NoBlock, s.active}}

\* Programming a record over what it shares its first bytes with completes it.
Programmed(old, new) == IF old \in {Blank, PartMagic} THEN new ELSE Garbage

\* Mutant: the scan runs upwards.
MeetsFirst(l, s) == l[s] \in Readable /\ \A t \in Slots : t < s => l[t] \notin Readable

\* try_settings_load scans down from LastSlot to the first slot it meets that
\* has the magic; 0 if none has it.
Meets(l, s) == l[s] \in Readable /\ \A t \in Slots : t > s => l[t] \notin Readable
Newest(l) ==
  IF \E s \in Slots : Meets(l, s) THEN CHOOSE s \in Slots : Meets(l, s) ELSE 0

\* The settings that loading returns; Blank stands for settings_reset.
Recovered(l) ==
  IF Newest(l) = 0 THEN Blank
  ELSE IF l[Newest(l)] = TooNew THEN Blank ELSE l[Newest(l)]

\* settings_load (the log at the place CartFriend 0.1.4 kept it is in
\* SaveMigrate) and settings_migrate.
Load(l) ==
  IF Recovered(l) = Blank
  THEN local' = ResetSettings /\ slot' = LastSlot /\ changed' = TRUE
  ELSE local' = Recovered(l) /\ slot' = Newest(l) /\ changed' = FALSE

-----------------------------------------------------------------------------
\* A setting is changed; some menus do so without settings_mark_changed.
Change ==
  /\ pc = "run"
  /\ local' \in Settings
  /\ changed' \in {changed, TRUE}
  /\ UNCHANGED <<log, bootstrap, slot, pc, saving, last, cut>>

\* Mutants: the log is taken to be full too early; no settings_slot++.
SaveErasesEarly ==
  /\ pc = "run" /\ changed
  /\ IF slot >= LastSlot - 1 THEN pc' = "erase" /\ UNCHANGED slot
                             ELSE pc' = "record" /\ slot' = slot + 1
  /\ saving' = TRUE
  /\ UNCHANGED <<log, bootstrap, local, changed, last, cut>>
SaveInPlace ==
  /\ pc = "run" /\ changed
  /\ IF slot >= LastSlot THEN pc' = "erase" ELSE pc' = "record"
  /\ saving' = TRUE
  /\ UNCHANGED <<log, bootstrap, slot, local, changed, last, cut>>

\* settings_save, up to its first flash access.
Save ==
  /\ pc = "run" /\ changed
  /\ IF slot >= LastSlot THEN pc' = "erase" /\ UNCHANGED slot
                         ELSE pc' = "record" /\ slot' = slot + 1
  /\ saving' = TRUE
  /\ UNCHANGED <<log, bootstrap, local, changed, last, cut>>

\* "Factory reset".
FactoryReset ==
  /\ pc = "run"
  /\ pc' = "erase" /\ saving' = FALSE
  /\ UNCHANGED <<log, bootstrap, slot, local, changed, last, cut>>

\* settings_erase_slots: driver_erase_bank.
EraseLog ==
  /\ pc = "erase"
  /\ log' = [s \in Slots |-> Blank]
  /\ bootstrap' = FALSE
  /\ cut' = FALSE
  /\ last' = Blank
  /\ pc' = "bootstrap"
  /\ UNCHANGED <<slot, local, changed, saving>>

\* Mutant: the bootstrap code is forgotten.
WriteNoBootstrap ==
  /\ pc = "bootstrap"
  /\ IF saving THEN slot' = 1 /\ pc' = "record" /\ UNCHANGED <<local, changed>>
               ELSE pc' = "run" /\ Load(log)
  /\ UNCHANGED <<log, bootstrap, saving, last, cut>>

\* settings_erase_slots: the bootstrap code; a factory reset then restarts.
WriteBootstrap ==
  /\ pc = "bootstrap"
  /\ bootstrap' = TRUE
  /\ IF saving THEN slot' = 1 /\ pc' = "record" /\ UNCHANGED <<local, changed>>
               ELSE pc' = "run" /\ Load(log)
  /\ UNCHANGED <<log, saving, last, cut>>

\* The record; its CRC is written behind it and never checked.
WriteRecord ==
  /\ pc = "record"
  /\ log' = [log EXCEPT ![slot] = Programmed(@, Persisted(local))]
  /\ changed' = FALSE
  /\ last' = Persisted(local)
  /\ pc' = "run" /\ saving' = FALSE
  /\ UNCHANGED <<bootstrap, slot, local, cut>>

\* "Revert changes".
Revert ==
  /\ pc = "run" /\ changed
  /\ Load(log)
  /\ UNCHANGED <<log, bootstrap, pc, saving, last, cut>>

-----------------------------------------------------------------------------
\* What a record that was being written can look like.
HalfProgrammed(old, new) ==
  {old, Programmed(old, new)}
    \cup IF old \in {Blank, PartMagic} THEN {PartMagic, TooNew} \cup CutOff(new) ELSE {}

\* What is left of the log when the erase was cut off.  Apart from slots
\* that are kept, blank or garbage, the worst of it is a readable magic with
\* damaged settings behind it, whatever their active_sram_slot.
Damaged(a) == [active |-> a, prefs |-> CutPrefs]
HalfErased(l) ==
  {[s \in Slots |-> CASE h[s] = "kept" -> l[s]
                      [] h[s] = "blank" -> Blank
                      [] h[s] = "damaged" /\ l[s] \in Settings -> Damaged(a)
                      [] OTHER -> Garbage] :
     h \in [Slots -> {"kept", "blank", "garbage", "damaged"}], a \in Actives}

\* Power is cut and comes back.
PowerCycle ==
  /\ CASE pc = "erase" ->
            /\ log' \in HalfErased(log)
            /\ bootstrap' \in {bootstrap, FALSE}
            /\ cut' = (cut \/ log' # log \/ bootstrap' # bootstrap)
       [] pc = "bootstrap" ->
            bootstrap' \in BOOLEAN /\ UNCHANGED <<log, cut>>
       [] pc = "record" ->
            /\ \E c \in HalfProgrammed(log[slot], Persisted(local)) :
                 log' = [log EXCEPT ![slot] = c]
            /\ UNCHANGED <<bootstrap, cut>>
       [] OTHER -> UNCHANGED <<log, bootstrap, cut>>
  /\ Load(log')
  /\ last' = Recovered(log')
  /\ pc' = "run" /\ saving' = FALSE

\* A cartridge without settings, or with those of an earlier session: a log
\* whose records were written one after the other.
Init ==
  /\ \E n \in 0..LastSlot :
       \E f \in [1..n -> Readable] :
         log = [s \in Slots |-> IF s <= n THEN f[s] ELSE Blank]
  /\ bootstrap = (log[1] # Blank)
  /\ \/ /\ Recovered(log) = Blank
        /\ local = ResetSettings /\ slot = LastSlot /\ changed = TRUE
     \/ /\ Recovered(log) # Blank
        /\ local = Recovered(log) /\ slot = Newest(log) /\ changed = FALSE
  /\ pc = "run" /\ saving = FALSE
  /\ last = Recovered(log)
  /\ cut = FALSE

Next ==
  \/ Change \/ Save \/ FactoryReset \/ Revert
  \/ EraseLog \/ WriteBootstrap \/ WriteRecord
  \/ PowerCycle

Spec == Init /\ [][Next]_vars

-----------------------------------------------------------------------------
TypeOK ==
  /\ log \in [Slots -> Contents]
  /\ bootstrap \in BOOLEAN
  /\ slot \in Slots
  /\ local \in Settings /\ changed \in BOOLEAN
  /\ pc \in {"run", "erase", "bootstrap", "record"} /\ saving \in BOOLEAN
  /\ last \in Settings \cup {Blank}
  /\ cut \in BOOLEAN

\* The scan finds the newest record although nothing says which one it is:
\* what a power cycle brings back now is what was last saved.
LoadsWhatWasSaved == pc = "run" /\ ~cut => Recovered(log) = last

\* A record is never programmed over another one: the slot that follows the
\* newest record is free, even after power cuts that left half a record.
ProgramsFreeSlot == pc = "record" /\ ~cut => log[slot] \in {Blank, PartMagic}

\* Until the new record is written the old one is still there, unless the log
\* had to be erased, and the erase comes only when the log is used up.
KeepsLastUntilWritten ==
  /\ pc = "record" /\ slot > 1 /\ ~cut => Recovered(log) = last
  /\ pc = "erase" /\ saving /\ ~cut /\ last # Blank => \A s \in Slots : log[s] # Blank

\* Wherever there are settings there is the code that starts CartFriend from
\* their sector.
BootsWhereSettingsAre == ~cut /\ Newest(log) # 0 => bootstrap

\* A power cut never brings back settings other than those last saved, those
\* being saved, a part of these, or none.
PowerCutIsContained ==
  [][pc # "run" /\ pc' = "run" /\ ~cut' =>
       last' \in {last, Persisted(local), Blank} \cup CutOff(Persisted(local))]_vars
=============================================================================
