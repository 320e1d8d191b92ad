-------------------------- MODULE SaveSwitchProofs --------------------------
(***************************************************************************)
(* The safety of save data switching for every number of blocks, block     *)
(* size, set of programs and bounds.  Control is the inductive invariant:  *)
(* it says what settings, job and SRAM have to do with each other at every *)
(* step of a switch.  The last part proves that the code implements        *)
(* SaveStore: every step maps to a step of the store or to a stutter.      *)
(***************************************************************************)
EXTENDS SaveSwitch, TLAPS

BackingUp == {"shift", "partner", "erase", "write"}
Switching == BackingUp \cup {"restore"}

RunValues == Launchable \cup Unmapped \cup {Plain}

ControlType ==
  /\ act \in ActiveValues /\ saved \in ActiveValues /\ changed \in BOOLEAN
  /\ pc \in PCs /\ goal \in Goals
  /\ cur \in Regions \cup {None} /\ tgt \in Launchable \cup {None}
  /\ i \in 0..Size
  /\ run \in RunValues

\* Whose data the settings say SRAM holds.
SettingsAgree ==
  /\ pc \in {"ask", "menu"} \cup BackingUp /\ act.blk \in Blocks => saved = act
  /\ pc = "save" /\ act.blk \in Blocks => changed \/ saved = act
  /\ pc = "save" /\ goal # "launch" /\ act.blk \in Blocks => saved = act
  /\ pc = "game" => ~changed /\ (act.blk \in Blocks => saved = act)
  /\ pc \in {"scratch", "wipe"} => act.blk \notin Blocks
  /\ pc = "halt" => act \notin Regions

\* What a switch in progress works on.
JobAgrees ==
  /\ pc \in BackingUp => act \in Launchable /\ cur = BackupRegion(act)
  /\ pc = "restore" => act = None /\ tgt \in Launchable /\ cur = tgt
  /\ pc \in Switching => i \in 0..(cur.len - 1)
  /\ pc \in {"shift", "partner"} => i = 0

\* Where a launch leads.
LaunchAgrees ==
  /\ pc \in Switching /\ goal # "launch" => tgt = None
  /\ pc \in Switching /\ goal = "launch" /\ run.blk \in Blocks => tgt = run
  /\ pc = "save" /\ goal = "launch" /\ run.blk \in Blocks => act = run
  /\ pc = "game" /\ run.blk \in Blocks => act = run

Control == ControlType /\ SettingsAgree /\ JobAgrees /\ LaunchAgrees

-----------------------------------------------------------------------------
(* The regions. *)

LEMMA LaunchableShape ==
  ASSUME NEW r \in Launchable
  PROVE  /\ r \in Regions /\ r.blk \in Blocks
         /\ r.off \in Banks /\ r.len \in 1..Size /\ r.off + r.len <= Size
         /\ r.len # 1 => r.len % 2 = 0 /\ r.off % 2 = 0
<1>1. r \in Regions /\ <<r.off, r.len>> \in Layouts
  BY SwitchAssumption
<1>2. r.blk \in Blocks /\ r.off \in Banks /\ r.len \in 1..Size /\ r.off + r.len <= Size
  BY <1>1 DEF Regions
<1>3. Size \in Nat /\ Size % 2 = 0 /\ Half % 2 = 0
  BY GeometryAssumption, SwitchAssumption
<1>4. \/ r.off = 0 /\ r.len = Size
      \/ r.off \in {0, Half} /\ r.len = Half
      \/ r.len = 1
  BY <1>1 DEF Layouts
<1>5. r.len # 1 => r.len % 2 = 0 /\ r.off % 2 = 0
  BY <1>3, <1>4
<1> QED
  BY <1>1, <1>2, <1>5

LEMMA BackupRegionShape ==
  ASSUME NEW r \in Launchable
  PROVE  LET w == BackupRegion(r)
         IN  /\ w \in Regions
             /\ w.blk = r.blk
             /\ w.len % 2 = 0 /\ w.off % 2 = 0
             /\ w.len >= 2
             /\ r.len # 1 => w = r
<1>1. CASE r.len # 1
  <2>1. BackupRegion(r) = r
    BY <1>1 DEF BackupRegion
  <2> QED
    BY <1>1, <2>1, LaunchableShape
<1>2. CASE r.len = 1
  <2> DEFINE w == [blk |-> r.blk, off |-> r.off - (r.off % 2), len |-> 2]
  <2>1. BackupRegion(r) = w
    BY <1>2 DEF BackupRegion
  <2>2. /\ r \in [blk : Blocks, off : Banks, len : 1..Size]
        /\ r.off \in 0..(Size - 1)
    BY LaunchableShape DEF Regions, Banks
  <2>3. /\ Size \in Nat \ {0} /\ Size % 2 = 0
    BY GeometryAssumption
  <2>4. /\ r.off - (r.off % 2) \in 0..(Size - 1)
        /\ (r.off - (r.off % 2)) % 2 = 0
        /\ r.off - (r.off % 2) + 2 <= Size
    BY <2>2, <2>3
  <2>5. w \in [blk : Blocks, off : Banks, len : 1..Size]
    BY <2>2, <2>3, <2>4 DEF Banks
  <2>6. w.blk = r.blk /\ w.off = r.off - (r.off % 2) /\ w.len = 2
    BY <2>2
  <2> QED
    BY <1>2, <2>1, <2>4, <2>5, <2>6 DEF Regions
<1> QED
  BY <1>1, <1>2

LEMMA Kinds ==
  /\ NoBlock \notin Blocks /\ FirstBootBlock \notin Blocks /\ FirstBootBlock # NoBlock
  /\ None.blk = NoBlock /\ FirstBoot.blk = FirstBootBlock /\ Plain.blk = NoBlock
  /\ \A b \in Blocks : HalfWritten(b).blk = b /\ HalfWritten(b) \notin Regions
                         /\ HalfWritten(b).len = 2 * Size - 1
  /\ \A r \in Unmapped : r.blk = NoBlock
  /\ \A r \in Launchable : r.blk \in Blocks /\ r \in Regions
  /\ Size \in Nat \ {0}
<1>1. \A r \in Unmapped : r.blk = NoBlock
  <2>1. \A r \in Unmapped : \E l \in Layouts : r = [None EXCEPT !.off = l[1], !.len = l[2]]
    BY SwitchAssumption
  <2>2. \A l \in Layouts : [None EXCEPT !.off = l[1], !.len = l[2]].blk = NoBlock
    BY DEF None
  <2> QED
    BY <2>1, <2>2
<1>2. ASSUME NEW b \in Blocks
      PROVE  HalfWritten(b) \notin Regions
  <2>1. HalfWritten(b).off = 2 * Size - 1
    BY DEF HalfWritten
  <2>2. \A r \in Regions : r.off <= Size - 1
    BY GeometryAssumption DEF Regions, Banks
  <2> QED
    BY <2>1, <2>2, GeometryAssumption
<1> QED
  BY <1>1, <1>2, LaunchableShape, GeometryAssumption, SwitchAssumption
     DEF None, FirstBoot, Plain, HalfWritten

LEMMA ActiveKinds ==
  ASSUME NEW r \in ActiveValues
  PROVE  /\ r.blk \in Blocks => r \in Launchable \/ r = HalfWritten(r.blk)
         /\ r.blk \notin Blocks => r \in {None, FirstBoot}
         /\ r \in Regions => r \in Launchable
<1>1. None \notin Regions /\ FirstBoot \notin Regions
  BY Kinds DEF Regions
<1> QED
  BY <1>1, Kinds DEF ActiveValues

\* What error_critical is reached for.
LEMMA EntryShape ==
  ASSUME NEW r \in ActiveValues, r.blk \in Blocks
  PROVE  /\ BackupEntry(r) \in BackingUp \cup {"halt"}
         /\ BackupEntry(r) = "halt" <=> r \notin Launchable
<1>1. CASE r \in Launchable
  BY <1>1, LaunchableShape DEF BackupEntry, BackingUp
<1>2. CASE r \notin Launchable
  <2>1. r = HalfWritten(r.blk)
    BY <1>2, ActiveKinds
  <2>2. r.len = 2 * Size - 1
    BY <2>1, Kinds
  <2>3. r.len % 2 = 1 /\ r.len # 1
    BY <2>2, GeometryAssumption
  <2> QED
    BY <1>2, <2>3 DEF BackupEntry
<1> QED
  BY <1>1, <1>2

-----------------------------------------------------------------------------
(* Control is an invariant. *)

LEMMA InitControl == Init => Control
<1> SUFFICES ASSUME Init PROVE Control
  OBVIOUS
<1> QED
  BY Kinds DEF Init, Control, ControlType, SettingsAgree, JobAgrees, LaunchAgrees,
               ActiveValues, PCs, Goals, RunValues, BackingUp, Switching

LEMMA SwitchControl ==
  ASSUME Control, pc = "menu",
         NEW t \in Launchable \cup Unmapped \cup {None},
         NEW g \in {"menu", "launch", "scratch", "wipe"},
         Switch(t, g),
         run' \in RunValues,
         g = "launch" => run' = t,
         g # "launch" => t = None
  PROVE  Control'
<1> DEFINE after == AfterSwitch(g)
<1>t. /\ ControlType /\ SettingsAgree
      /\ act.blk \in Blocks => saved = act
      /\ t \in Launchable \/ t.blk = NoBlock
      /\ (t.blk \in Blocks) <=> (t \in Launchable)
      /\ t = None \/ t.blk # FirstBootBlock
  BY Kinds DEF Control, SettingsAgree
<1>a. /\ after \in {"menu", "save", "scratch", "wipe"}
      /\ after = "save" <=> g = "launch"
      /\ after = "menu" => t = None
      /\ after \in {"scratch", "wipe"} => t = None
  BY DEF AfterSwitch
<1>1. CASE act = t /\ pc' = after /\ goal' = g /\ Idle /\ UNCHANGED settings
  <2>1. ControlType'
    BY <1>1, <1>t, <1>a, Kinds DEF ControlType, settings, Idle, PCs, Goals
  <2>2. SettingsAgree'
    BY <1>1, <1>t, <1>a, Kinds DEF settings, SettingsAgree, BackingUp
  <2>3. JobAgrees' /\ LaunchAgrees'
    BY <1>1, <1>t, <1>a, Kinds DEF settings, JobAgrees, LaunchAgrees, Switching, BackingUp
  <2> QED
    BY <2>1, <2>2, <2>3 DEF Control
<1>2. CASE /\ act # t /\ act = FirstBoot
           /\ IF t.blk = NoBlock THEN UNCHANGED settings ELSE SetActive(t)
           /\ pc' = after /\ goal' = g
           /\ Idle
  <2>0. act' \in ActiveValues /\ saved' \in ActiveValues /\ changed' \in BOOLEAN
    <3>1. CASE t.blk = NoBlock
      BY <1>2, <1>t, <3>1 DEF ControlType, settings
    <3>2. CASE t.blk # NoBlock
      <4>1. t \in Launchable
        BY <1>t, <3>2
      <4>2. act' = t /\ changed' = TRUE /\ saved' = saved
        BY <1>2, <3>2 DEF SetActive
      <4> QED
        BY <4>1, <4>2, <1>t DEF ControlType, ActiveValues
    <3> QED
      BY <3>1, <3>2
  <2>1. ControlType'
    BY <1>2, <2>0, <1>t, <1>a, Kinds DEF ControlType, Idle, PCs, Goals
  <2>2. SettingsAgree'
    BY <1>2, <1>t, <1>a, Kinds DEF settings, SetActive, SettingsAgree, BackingUp
  <2>3. JobAgrees' /\ LaunchAgrees'
    BY <1>2, <1>t, <1>a, Kinds
       DEF settings, SetActive, JobAgrees, LaunchAgrees, Switching, BackingUp
  <2> QED
    BY <2>1, <2>2, <2>3 DEF Control
<1>3. CASE /\ act # t /\ act.blk \in Blocks
           /\ pc' = BackupEntry(act) /\ goal' = g
           /\ cur' = IF pc' = "halt" THEN None ELSE BackupRegion(act)
           /\ tgt' = IF t.blk \in Blocks THEN t ELSE None
           /\ i' = 0
           /\ UNCHANGED settings
  <2>1. act \in ActiveValues
    BY <1>t DEF ControlType
  <2>2. /\ pc' \in BackingUp \cup {"halt"}
        /\ pc' = "halt" <=> act \notin Launchable
    BY <1>3, <2>1, EntryShape
  <2>3. act \in Launchable => /\ BackupRegion(act) \in Regions
                              /\ BackupRegion(act).len >= 2
                              /\ BackupRegion(act).len \in Nat
    BY BackupRegionShape DEF Regions
  <2>4. ControlType'
    BY <1>3, <1>t, <2>2, <2>3, Kinds
       DEF ControlType, settings, PCs, Goals, BackingUp
  <2>5. SettingsAgree'
    BY <1>3, <1>t, <2>1, <2>2, ActiveKinds DEF settings, SettingsAgree, BackingUp
  <2>6. JobAgrees' /\ LaunchAgrees'
    BY <1>3, <1>t, <2>2, <2>3, Kinds
       DEF settings, JobAgrees, LaunchAgrees, Switching, BackingUp
  <2> QED
    BY <2>4, <2>5, <2>6 DEF Control
<1>4. CASE /\ act # t /\ act = None
           /\ goal' = g
           /\ IF t.blk \in Blocks
                THEN pc' = "restore" /\ cur' = t /\ tgt' = t /\ i' = 0
                ELSE pc' = after /\ Idle
           /\ UNCHANGED settings
  <2>1. t \in Launchable => t \in Regions /\ t.len \in Nat \ {0} /\ g = "launch"
    BY <1>t, Kinds DEF Regions
  <2>2. ControlType'
    BY <1>4, <1>t, <1>a, <2>1, Kinds DEF ControlType, settings, Idle, PCs, Goals
  <2>3. SettingsAgree'
    BY <1>4, <1>t, <1>a, <2>1, Kinds DEF settings, SettingsAgree, BackingUp
  <2>4. JobAgrees' /\ LaunchAgrees'
    BY <1>4, <1>t, <1>a, <2>1, Kinds
       DEF settings, Idle, JobAgrees, LaunchAgrees, Switching, BackingUp
  <2> QED
    BY <2>2, <2>3, <2>4 DEF Control
<1> QED
  BY <1>1, <1>2, <1>3, <1>4 DEF Switch

LEMMA JobShape ==
  ASSUME Control, pc \in Switching
  PROVE  /\ cur \in Regions /\ cur.blk \in Blocks
         /\ cur.len \in 1..Size /\ cur.off \in Banks
         /\ i \in 0..(cur.len - 1)
         /\ pc # "restore" => act \in Launchable /\ act.blk = cur.blk
<1>1. cur \in Regions
  BY BackupRegionShape, LaunchableShape DEF Control, JobAgrees, Switching
<1>2. pc # "restore" => act \in Launchable /\ act.blk = cur.blk
  BY BackupRegionShape DEF Control, JobAgrees, Switching
<1> QED
  BY <1>1, <1>2 DEF Control, JobAgrees, Regions

\* The last step of a switch.
LEMMA AfterSwitchKinds ==
  ASSUME NEW g \in Goals
  PROVE  /\ AfterSwitch(g) \in {"menu", "save", "scratch", "wipe"}
         /\ AfterSwitch(g) = "save" <=> g = "launch"
BY DEF AfterSwitch, Goals

LEMMA CopyControl ==
  ASSUME Control, CopyStep
  PROVE  Control'
<1>t. ControlType /\ SettingsAgree /\ JobAgrees /\ LaunchAgrees
  BY DEF Control
<1>1. CASE Shift
  BY <1>1, <1>t DEF Shift, Control, ControlType, SettingsAgree, JobAgrees, LaunchAgrees,
                    settings, job, BackingUp, Switching, PCs
<1>2. CASE Partner
  BY <1>2, <1>t DEF Partner, Control, ControlType, SettingsAgree, JobAgrees, LaunchAgrees,
                    settings, job, BackingUp, Switching, PCs
<1>3. CASE EraseStep
  <2>1. /\ pc = "erase" /\ pc' \in {"erase", "write"} /\ i' \in 0..(cur.len - 1)
        /\ cur.len \in 1..Size
        /\ UNCHANGED <<settings, cur, tgt, goal, run>>
    BY <1>3, JobShape DEF EraseStep, Switching, BackingUp
  <2>2. i' \in 0..Size
    BY <2>1, Kinds
  <2> QED
    BY <2>1, <2>2, <1>t DEF Control, ControlType, SettingsAgree, JobAgrees, LaunchAgrees,
                            settings, BackingUp, Switching, PCs
<1>4. CASE WriteStep
  <2>0. pc = "write" /\ UNCHANGED <<goal, run>> /\ Size \in Nat \ {0}
    BY <1>4, Kinds DEF WriteStep
  <2>s. /\ cur.len \in 1..Size /\ i \in 0..(cur.len - 1) /\ goal \in Goals
        /\ tgt \in Launchable \cup {None}
    BY <2>0, <1>t, JobShape DEF ControlType, Switching, BackingUp
  <2>1. CASE i + 1 < cur.len
    <3>1. i' \in 0..(cur.len - 1) /\ i' \in 0..Size /\ UNCHANGED <<pc, cur, tgt, settings>>
      BY <1>4, <2>1, <2>s, <2>0 DEF WriteStep
    <3> QED
      BY <3>1, <2>0, <1>t DEF Control, ControlType, SettingsAgree, JobAgrees, LaunchAgrees,
                              settings, BackingUp, Switching, PCs
  <2>2. CASE i + 1 >= cur.len /\ tgt = None
    <3>1. /\ act' = None /\ saved' = saved /\ changed' = TRUE /\ i' = 0
          /\ pc' = AfterSwitch(goal) /\ cur' = None /\ tgt' = None
      BY <1>4, <2>2, <2>s DEF WriteStep, SetActive
    <3>2. goal = "launch" => run.blk \notin Blocks
      BY <2>0, <2>2, <1>t, Kinds DEF LaunchAgrees, Switching, BackingUp, ControlType, RunValues
    <3>3. ControlType'
      BY <3>1, <2>0, <2>s, <1>t, AfterSwitchKinds DEF ControlType, ActiveValues, PCs, Goals
    <3>4. SettingsAgree' /\ JobAgrees' /\ LaunchAgrees'
      BY <3>1, <3>2, <2>0, <2>s, AfterSwitchKinds, Kinds
         DEF SettingsAgree, JobAgrees, LaunchAgrees, BackingUp, Switching
    <3> QED
      BY <3>3, <3>4 DEF Control
  <2>3. CASE i + 1 >= cur.len /\ tgt # None
    <3>1. /\ act' = None /\ saved' = saved /\ changed' = TRUE /\ i' = 0
          /\ pc' = "restore" /\ cur' = tgt /\ tgt' = tgt
      BY <1>4, <2>3, <2>s DEF WriteStep, SetActive
    <3>2. tgt \in Launchable /\ tgt \in Regions /\ tgt.len \in 1..Size
      BY <2>s, <2>3, LaunchableShape
    <3>3. ControlType'
      BY <3>1, <3>2, <2>0, <2>s, <1>t DEF ControlType, ActiveValues, PCs, Goals
    <3>4. SettingsAgree' /\ JobAgrees' /\ LaunchAgrees'
      BY <3>1, <3>2, <2>0, <2>s, <1>t, Kinds
         DEF SettingsAgree, JobAgrees, LaunchAgrees, BackingUp, Switching
    <3> QED
      BY <3>3, <3>4 DEF Control
  <2> QED
    BY <2>1, <2>2, <2>3, <2>s DEF Goals
<1>5. CASE RestoreStep
  <2>0. pc = "restore" /\ UNCHANGED <<goal, run>> /\ Size \in Nat \ {0}
    BY <1>5, Kinds DEF RestoreStep
  <2>s. /\ cur.len \in 1..Size /\ i \in 0..(cur.len - 1) /\ goal \in Goals
        /\ tgt \in Launchable /\ tgt # None
    BY <2>0, <1>t, JobShape, Kinds DEF ControlType, JobAgrees, Switching
  <2>1. CASE i + 1 < cur.len
    <3>1. i' \in 0..(cur.len - 1) /\ i' \in 0..Size /\ UNCHANGED <<pc, cur, tgt, settings>>
      BY <1>5, <2>1, <2>s, <2>0 DEF RestoreStep
    <3> QED
      BY <3>1, <2>0, <1>t DEF Control, ControlType, SettingsAgree, JobAgrees, LaunchAgrees,
                              settings, BackingUp, Switching, PCs
  <2>2. CASE i + 1 >= cur.len
    <3>1. /\ act' = tgt /\ saved' = saved /\ changed' = TRUE
          /\ pc' = AfterSwitch(goal) /\ Idle
      BY <1>5, <2>2, <2>s DEF RestoreStep, SetActive
    <3>2. goal = "launch" /\ pc' = "save" /\ (run.blk \in Blocks => tgt = run)
      BY <3>1, <2>0, <2>s, <1>t, AfterSwitchKinds DEF LaunchAgrees, Switching
    <3>3. ControlType'
      BY <3>1, <3>2, <2>0, <2>s, <1>t DEF ControlType, ActiveValues, PCs, Goals, Idle
    <3>4. SettingsAgree' /\ JobAgrees' /\ LaunchAgrees'
      BY <3>1, <3>2, <2>0, <2>s DEF SettingsAgree, JobAgrees, LaunchAgrees, BackingUp, Switching
    <3> QED
      BY <3>3, <3>4 DEF Control
  <2> QED
    BY <2>1, <2>2, <2>s
<1>6. CASE Save
  <2>1. /\ pc = "save" /\ pc' \in {"game", "menu"} /\ (pc' = "game" <=> goal = "launch")
        /\ changed' = FALSE /\ goal' = "menu" /\ act' = act
        /\ saved' = IF changed THEN Persisted ELSE saved
        /\ UNCHANGED <<cur, tgt, i, run>>
    BY <1>6 DEF Save
  <2>2. /\ saved' \in ActiveValues
        /\ act.blk \in Blocks => saved' = act
    BY <2>1, <1>t, Kinds DEF Persisted, ControlType, ActiveValues, SettingsAgree
  <2>3. ControlType'
    BY <2>1, <2>2, <1>t DEF ControlType, PCs, Goals
  <2>4. SettingsAgree' /\ JobAgrees' /\ LaunchAgrees'
    BY <2>1, <2>2, <1>t DEF SettingsAgree, JobAgrees, LaunchAgrees, BackingUp, Switching
  <2> QED
    BY <2>3, <2>4 DEF Control
<1>7. CASE Scratch
  <2>1. /\ pc = "scratch" /\ UNCHANGED <<settings, cur, tgt, i>>
        /\ \/ pc' = "menu" /\ goal' = "menu" /\ run' = run
           \/ pc' = "save" /\ goal' = "launch" /\ run' = Plain
    BY <1>7 DEF Scratch
  <2>2. ControlType'
    BY <2>1, <1>t DEF ControlType, settings, PCs, Goals, RunValues
  <2>3. SettingsAgree' /\ JobAgrees' /\ LaunchAgrees'
    BY <2>1, <1>t, Kinds DEF settings, SettingsAgree, JobAgrees, LaunchAgrees, BackingUp, Switching
  <2> QED
    BY <2>2, <2>3 DEF Control
<1>8. CASE Wipe
  <2>1. /\ pc = "wipe" /\ UNCHANGED <<settings, cur, tgt, i, run>>
        /\ pc' = "menu" /\ goal' = "menu"
    BY <1>8 DEF Wipe
  <2>2. ControlType'
    BY <2>1, <1>t DEF ControlType, settings, PCs, Goals
  <2>3. SettingsAgree' /\ JobAgrees' /\ LaunchAgrees'
    BY <2>1, <1>t, Kinds DEF settings, SettingsAgree, JobAgrees, LaunchAgrees, BackingUp, Switching
  <2> QED
    BY <2>2, <2>3 DEF Control
<1> QED
  BY <1>1, <1>2, <1>3, <1>4, <1>5, <1>6, <1>7, <1>8 DEF CopyStep

\* A step from the menu to the menu (or to a reload of the settings) that
\* leaves SRAM with nobody, or with whom the settings record says.
LEMMA RestControl ==
  ASSUME Control, pc \notin Switching,
         pc' \in {"menu", "ask"}, goal' \in Goals, tgt' \in Launchable \cup {None},
         cur' \in Regions \cup {None}, i' \in 0..Size,
         run' \in RunValues, changed' \in BOOLEAN,
         act' \in ActiveValues, saved' \in ActiveValues,
         act'.blk \in Blocks => saved' = act'
  PROVE  Control'
<1>1. ControlType'
  BY DEF ControlType, PCs
<1>2. SettingsAgree' /\ JobAgrees' /\ LaunchAgrees'
  BY DEF SettingsAgree, JobAgrees, LaunchAgrees, BackingUp, Switching
<1> QED
  BY <1>1, <1>2 DEF Control

LEMMA MenuControl ==
  ASSUME Control, MenuStep
  PROVE  Control'
<1>t. ControlType /\ SettingsAgree
  BY DEF Control
<1>k. /\ None \in ActiveValues /\ FirstBoot \in ActiveValues
      /\ None.blk \notin Blocks /\ FirstBoot.blk \notin Blocks
      /\ Plain \in RunValues /\ Launchable \cup Unmapped \subseteq RunValues
  BY Kinds DEF ActiveValues, RunValues
<1>m. pc \in {"menu", "ask"} => pc \notin Switching /\ (act.blk \in Blocks => saved = act)
  BY <1>t DEF Switching, BackingUp, SettingsAgree
<1>1. ASSUME NEW t \in Launchable \cup Unmapped, Launch(t)
      PROVE  Control'
  <2>1. pc = "menu" /\ run' = t /\ Switch(t, "launch")
    BY <1>1 DEF Launch
  <2>2. run' \in RunValues
    BY <2>1, <1>k
  <2> QED
    BY <2>1, <2>2, SwitchControl
<1>2. ASSUME NEW resolves \in BOOLEAN, LaunchPlain(resolves)
      PROVE  Control'
  <2>1. /\ pc = "menu" /\ run' = Plain /\ pc' = "save" /\ goal' = "launch"
        /\ UNCHANGED <<cur, tgt, i>>
        /\ UNCHANGED settings \/ SetActive(None)
    BY <1>2 DEF LaunchPlain
  <2>2. ControlType'
    <3>1. CASE UNCHANGED settings
      BY <2>1, <3>1, <1>t, <1>k DEF settings, ControlType, PCs, Goals
    <3>2. CASE SetActive(None)
      BY <2>1, <3>2, <1>t, <1>k DEF SetActive, ControlType, PCs, Goals
    <3> QED
      BY <2>1, <3>1, <3>2
  <2>3. SettingsAgree' /\ JobAgrees' /\ LaunchAgrees'
    BY <2>1, <1>m, <1>k, Kinds
       DEF settings, SetActive, SettingsAgree, JobAgrees, LaunchAgrees, BackingUp, Switching
  <2> QED
    BY <2>2, <2>3 DEF Control
<1>3. CASE SaveSettings
  <2>1. /\ pc = "menu" /\ pc' = "save" /\ goal' = "menu"
        /\ UNCHANGED <<settings, cur, tgt, i, run>>
    BY <1>3 DEF SaveSettings
  <2>2. ControlType'
    BY <2>1, <1>t DEF settings, ControlType, PCs, Goals
  <2>3. SettingsAgree' /\ JobAgrees' /\ LaunchAgrees'
    BY <2>1, <1>m DEF settings, SettingsAgree, JobAgrees, LaunchAgrees, BackingUp, Switching
  <2> QED
    BY <2>2, <2>3 DEF Control
<1>4. ASSUME NEW g \in {"menu", "scratch", "wipe"}, Unload(g)
      PROVE  Control'
  <2>1. pc = "menu" /\ run' = run /\ Switch(None, g)
    BY <1>4 DEF Unload
  <2>2. run' \in RunValues
    BY <2>1, <1>t DEF ControlType
  <2> QED
    BY <2>1, <2>2, SwitchControl
<1>5. ASSUME UNCHANGED settings \/ SetActive(None) \/ SetActive(FirstBoot)
                \/ (changed' = TRUE /\ UNCHANGED <<act, saved>>),
             pc \in {"menu", "ask"}, pc' = "menu", UNCHANGED <<job, run>>
      PROVE  Control'
  <2>1. /\ act' \in ActiveValues /\ saved' \in ActiveValues /\ changed' \in BOOLEAN
        /\ act'.blk \in Blocks => saved' = act'
    <3>1. CASE UNCHANGED settings
      BY <3>1, <1>5, <1>m, <1>t DEF settings, ControlType
    <3>2. CASE SetActive(None) \/ SetActive(FirstBoot)
      BY <3>2, <1>k, <1>t DEF SetActive, ControlType
    <3>3. CASE changed' = TRUE /\ UNCHANGED <<act, saved>>
      BY <3>3, <1>5, <1>m, <1>t DEF ControlType
    <3> QED
      BY <3>1, <3>2, <3>3, <1>5
  <2>2. /\ goal' \in Goals /\ tgt' \in Launchable \cup {None}
        /\ cur' \in Regions \cup {None} /\ i' \in 0..Size /\ run' \in RunValues
    BY <1>5, <1>t DEF job, ControlType
  <2> QED
    BY <2>1, <2>2, <1>5, <1>m, RestControl
<1>6. ASSUME NEW b \in Blocks, EraseBlock(b)
      PROVE  Control'
  BY <1>6, <1>5 DEF EraseBlock
<1>7. CASE EraseAll
  BY <1>7, <1>5 DEF EraseAll
<1>8. CASE Discard
  BY <1>8, <1>5 DEF Discard
<1>9. CASE ForceSram
  BY <1>9, <1>5 DEF ForceSram
<1>10. CASE TouchSettings
  BY <1>10, <1>5 DEF TouchSettings
<1>11. CASE FirstBootAnswer
  BY <1>11, <1>5 DEF FirstBootAnswer
<1>12. CASE Revert \/ FactoryReset
  <2>1. /\ pc = "menu" /\ pc' \in {"menu", "ask"} /\ UNCHANGED <<job, run>>
        /\ LoadSettings(saved) \/ LoadSettings(FirstBoot)
    BY <1>12 DEF Revert, FactoryReset
  <2>2. /\ act' \in ActiveValues /\ saved' \in ActiveValues /\ changed' \in BOOLEAN
        /\ saved' = act'
    BY <2>1, <1>t, <1>k DEF LoadSettings, ControlType
  <2>3. /\ goal' \in Goals /\ tgt' \in Launchable \cup {None}
        /\ cur' \in Regions \cup {None} /\ i' \in 0..Size /\ run' \in RunValues
    BY <2>1, <1>t DEF job, ControlType
  <2> QED
    BY <2>1, <2>2, <2>3, <1>m, RestControl
<1> QED
  BY <1>1, <1>2, <1>3, <1>4, <1>6, <1>7, <1>8, <1>9, <1>10, <1>11, <1>12 DEF MenuStep

\* Whatever record a power cut leaves, settings and SRAM's label agree again.
LEMMA PowerControl ==
  ASSUME ControlType, PowerCycle
  PROVE  Control'
<1>1. PICK r \in RecordInFlight : LoadSettings(r)
  BY DEF PowerCycle
<1>2. r \in ActiveValues
  BY Kinds DEF RecordInFlight, Persisted, ControlType, ActiveValues
<1>3. /\ act' \in ActiveValues /\ saved' = act' /\ changed' \in BOOLEAN
      /\ pc' \in {"menu", "ask"} /\ goal' = "menu" /\ run' = Plain
      /\ cur' = None /\ tgt' = None /\ i' = 0
  BY <1>1, <1>2 DEF PowerCycle, LoadSettings, Idle
<1>4. ControlType'
  BY <1>3, Kinds DEF ControlType, PCs, Goals, RunValues
<1>5. SettingsAgree' /\ JobAgrees' /\ LaunchAgrees'
  BY <1>3 DEF SettingsAgree, JobAgrees, LaunchAgrees, BackingUp, Switching
<1> QED
  BY <1>4, <1>5 DEF Control

LEMMA StepControl ==
  ASSUME Control, [Next]_vars
  PROVE  Control'
<1>1. ASSUME NEW b \in Banks, NEW v \in Values, GameWrite(b, v)
      PROVE  Control'
  BY <1>1 DEF GameWrite, Control, ControlType, SettingsAgree, JobAgrees, LaunchAgrees,
              settings, job
<1>2. CASE UNCHANGED vars
  BY <1>2 DEF vars, store, settings, job, Control, ControlType, SettingsAgree, JobAgrees,
              LaunchAgrees
<1> QED
  BY <1>1, <1>2, CopyControl, MenuControl, PowerControl DEF Next, Control

\* What memory, settings and the loops have to do with each other in each step.
THEOREM ControlInvariant == Spec => []Control
<1>1. Init => Control
  BY InitControl
<1>2. Control /\ [Next]_vars => Control'
  BY StepControl
<1> QED
  BY <1>1, <1>2, PTL DEF Spec

\* A launched program runs on its own region and the settings record says so.
THEOREM GameOwnsSramTheorem == Spec => []GameOwnsSram
<1>1. Control => GameOwnsSram
  <2> SUFFICES ASSUME Control, pc = "game", run.blk \in Blocks
               PROVE  act = run /\ saved = run /\ ~changed
    BY DEF GameOwnsSram
  <2> QED
    BY DEF Control, SettingsAgree, LaunchAgrees
<1> QED
  BY <1>1, ControlInvariant, PTL

\* No backup starts while settings record and active block disagree.
THEOREM BackupOfRememberedTheorem == Spec => []BackupOfRemembered
<1>1. Control => BackupOfRemembered
  BY DEF Control, SettingsAgree, BackingUp, BackupOfRemembered
<1> QED
  BY <1>1, ControlInvariant, PTL

\* A power cut during the backup of whole sectors costs no program its data:
\* the record names the block being written, so the next boot goes back to SRAM.
THEOREM CrashSafeBackupTheorem == Spec => []CrashSafeBackup
<1>1. Control => CrashSafeBackup
  <2> SUFFICES ASSUME Control, pc \in {"erase", "write"}, act.len # 1,
                      NEW c \in Cells
               PROVE  RecoveredView(c) = View(c)
    BY DEF CrashSafeBackup
  <2>1. act \in Launchable /\ cur = BackupRegion(act)
    BY DEF Control, JobAgrees, BackingUp
  <2>2. act \in Regions /\ act.blk \in Blocks /\ saved = act
    BY <2>1, Kinds DEF Control, SettingsAgree, BackingUp
  <2>3. cur = act
    BY <2>1, BackupRegionShape
  <2>4. Held = None /\ ~Covers(None, c)
    BY Kinds DEF Held, Covers, Cells
  <2>5. View(c) = IF Covers(act, c) THEN sram[c[2] - act.off] ELSE nor[c]
    BY <2>3, <2>4 DEF View, FlashCopy
  <2> QED
    BY <2>2, <2>5 DEF RecoveredView
<1> QED
  BY <1>1, ControlInvariant, PTL

\* Only a settings record that was cut off can make the program give up.
THEOREM HaltsOnlyOnTornRecordTheorem == Spec => []HaltsOnlyOnTornRecord
<1>1. Control => HaltsOnlyOnTornRecord
  BY DEF Control, SettingsAgree, HaltsOnlyOnTornRecord
<1> QED
  BY <1>1, ControlInvariant, PTL

-----------------------------------------------------------------------------
(* Flash and SRAM. *)

\* The sectors the erase loop has passed are blank; the write loop has yet to
\* reach the banks from i on.
BlankAhead ==
  /\ pc = "erase" =>
       \A k \in 0..(cur.len - 1) : k < i + (i % 2) => nor[<<cur.blk, cur.off + k>>] = Blank
  /\ pc = "write" =>
       \A k \in i..(cur.len - 1) : nor[<<cur.blk, cur.off + k>>] = Blank

StoreType == nor \in [Cells -> Content] /\ sram \in [Banks -> Content]

BoundsType == runs \in 0..MaxRuns /\ edits \in 0..MaxEdits /\ lapses \in 0..MaxLapses

LEMMA ErasedType ==
  ASSUME StoreType, NEW C
  PROVE  Erased(C) \in [Cells -> Content]
BY GeometryAssumption DEF Erased, StoreType

LEMMA RippedType ==
  ASSUME NEW D, NEW mem \in [D -> Content], NEW C
  PROVE  Ripped(mem, C) \in [D -> Content]
BY SwitchAssumption DEF Ripped

LEMMA ProgrammedType ==
  ASSUME NEW a \in Content, NEW b \in Content
  PROVE  Programmed(a, b) \in Content
BY SwitchAssumption DEF Programmed

LEMMA JobCell ==
  ASSUME Control, pc \in Switching
  PROVE  /\ <<cur.blk, cur.off + i>> \in Cells /\ i \in Banks
         /\ cur.off + i \in Banks
<1>1. /\ cur \in Regions /\ cur.blk \in Blocks
      /\ cur.len \in 1..Size /\ cur.off \in Banks
      /\ i \in 0..(cur.len - 1)
  BY JobShape
<1>2. cur.off + cur.len <= Size
  BY <1>1 DEF Regions
<1> QED
  BY <1>1, <1>2, Kinds DEF Banks, Cells

LEMMA StoreTypeStep ==
  ASSUME Control, StoreType, [Next]_vars
  PROVE  StoreType'
<1>0. /\ Blank \in Content /\ Junk \in Content /\ Values \subseteq Content
      /\ Size \in Nat \ {0}
  BY GeometryAssumption, SwitchAssumption
<1>1. CASE Shift
  <2>1. sram[0] \in Content
    BY <1>0 DEF StoreType, Banks
  <2> QED
    BY <1>1, <2>1 DEF Shift, StoreType
<1>2. CASE Partner
  <2>1. pc = "partner"
    BY <1>2 DEF Partner
  <2>2. /\ act \in Launchable /\ cur = BackupRegion(act) /\ cur.blk \in Blocks
    BY <2>1, JobShape DEF Switching, BackingUp, Control, JobAgrees
  <2> DEFINE other == 1 - (act.off % 2)
  <2>3. act.off \in Nat /\ other \in {0, 1}
    BY <2>2, LaunchableShape DEF Banks
  <2>4. cur.len >= 2 /\ cur \in Regions
    BY <2>2, BackupRegionShape
  <2>5. <<cur.blk, cur.off + other>> \in Cells
    BY <2>2, <2>3, <2>4, <1>0 DEF Regions, Cells, Banks
  <2>6. nor[<<cur.blk, cur.off + other>>] \in Content
    BY <2>5 DEF StoreType
  <2>7. sram' = [sram EXCEPT ![other] = nor[<<cur.blk, cur.off + other>>]] /\ nor' = nor
    BY <1>2 DEF Partner
  <2> QED
    BY <2>6, <2>7 DEF StoreType
<1>3. CASE EraseStep
  BY <1>3, ErasedType DEF EraseStep, StoreType
<1>4. CASE WriteStep
  <2>1. pc = "write"
    BY <1>4 DEF WriteStep
  <2>2. <<cur.blk, cur.off + i>> \in Cells /\ i \in Banks
    BY <2>1, JobCell DEF Switching, BackingUp
  <2>3. Programmed(nor[<<cur.blk, cur.off + i>>], sram[i]) \in Content
    BY <2>2, ProgrammedType DEF StoreType
  <2> QED
    BY <1>4, <2>2, <2>3 DEF WriteStep, StoreType
<1>5. CASE RestoreStep
  <2>1. pc = "restore"
    BY <1>5 DEF RestoreStep
  <2>2. <<cur.blk, cur.off + i>> \in Cells /\ i \in Banks
    BY <2>1, JobCell DEF Switching
  <2> QED
    BY <1>5, <2>2 DEF RestoreStep, StoreType
<1>6. CASE Scratch
  BY <1>6, <1>0 DEF Scratch, StoreType
<1>7. CASE Wipe
  BY <1>7, ErasedType DEF Wipe, StoreType
<1>8. ASSUME NEW b \in Blocks, EraseBlock(b)
      PROVE  StoreType'
  BY <1>8, <1>0, ErasedType DEF EraseBlock, StoreType, BlankSram
<1>9. CASE EraseAll
  BY <1>9, <1>0, ErasedType DEF EraseAll, StoreType, BlankSram
<1>10. CASE FirstBootAnswer
  BY <1>10, ErasedType DEF FirstBootAnswer, StoreType
<1>11. ASSUME NEW b \in Banks, NEW v \in Values, GameWrite(b, v)
       PROVE  StoreType'
  BY <1>11, <1>0 DEF GameWrite, StoreType
<1>12. CASE PowerCycle
  <2>1. nor' \in [Cells -> Content]
    BY <1>12, RippedType DEF PowerCycle, StoreType
  <2>2. sram' \in [Banks -> Content]
    BY <1>12, RippedType DEF PowerCycle, StoreType
  <2> QED
    BY <2>1, <2>2 DEF StoreType
<1>13. CASE UNCHANGED store
  BY <1>13 DEF store, StoreType
<1>14. ASSUME NEW t, Launch(t)
       PROVE  UNCHANGED store
  BY <1>14 DEF Launch
<1>15. ASSUME NEW resolves, LaunchPlain(resolves)
       PROVE  UNCHANGED store
  BY <1>15 DEF LaunchPlain, store
<1>16. ASSUME NEW g, Unload(g)
       PROVE  UNCHANGED store
  BY <1>16 DEF Unload, store
<1>17. Save \/ SaveSettings \/ Discard \/ ForceSram \/ TouchSettings \/ Revert
         \/ FactoryReset \/ UNCHANGED vars => UNCHANGED store
  BY DEF Save, SaveSettings, Discard, ForceSram, TouchSettings, Revert, FactoryReset,
         vars, store
<1>18. CASE CopyStep
  BY <1>18, <1>1, <1>2, <1>3, <1>4, <1>5, <1>6, <1>7, <1>13, <1>17 DEF CopyStep
<1>19. CASE MenuStep
  BY <1>19, <1>8, <1>9, <1>10, <1>13, <1>14, <1>15, <1>16, <1>17 DEF MenuStep
<1> QED
  BY <1>11, <1>12, <1>13, <1>17, <1>18, <1>19 DEF Next

\* Erasing takes the odd bank of each sector along, so that every bank is blank
\* before the loop over single banks has reached it.
LEMMA BlankAheadStep ==
  ASSUME Control, StoreType, BlankAhead, [Next]_vars
  PROVE  BlankAhead'
<1>t. ControlType
  BY DEF Control
<1>1. CASE EraseStep
  <2>1. pc = "erase" /\ UNCHANGED cur
    BY <1>1 DEF EraseStep
  <2>2. /\ act \in Launchable /\ cur = BackupRegion(act)
        /\ cur \in Regions /\ cur.blk \in Blocks
        /\ cur.len \in 1..Size /\ cur.off \in Banks /\ i \in 0..(cur.len - 1)
    BY <2>1, JobShape DEF Switching, BackingUp, Control, JobAgrees
  <2>3. /\ cur.len % 2 = 0 /\ cur.off % 2 = 0
        /\ cur.off + cur.len <= Size /\ Size \in Nat \ {0}
    BY <2>2, BackupRegionShape, Kinds DEF Regions
  <2>4. \A k \in 0..(cur.len - 1) : <<cur.blk, cur.off + k>> \in Cells
    BY <2>2, <2>3 DEF Cells, Banks
  <2> DEFINE S == SectorOf(<<cur.blk, cur.off + i>>)
  <2>5. S = IF (cur.off + i) % 2 = 0
              THEN {<<cur.blk, cur.off + i>>, <<cur.blk, cur.off + i + 1>>} ELSE {}
    BY DEF SectorOf
  <2>6. nor' = [c \in Cells |-> IF c \in S THEN Blank ELSE nor[c]]
    BY <1>1 DEF EraseStep, Erased
  <2>7. (cur.off + i) % 2 = i % 2 /\ i % 2 \in {0, 1}
    BY <2>2, <2>3 DEF Banks
  <2>8. ASSUME NEW k \in 0..(cur.len - 1), k < (i + 1) + ((i + 1) % 2)
        PROVE  nor'[<<cur.blk, cur.off + k>>] = Blank
    <3>1. \/ nor'[<<cur.blk, cur.off + k>>] = Blank
          \/ nor'[<<cur.blk, cur.off + k>>] = nor[<<cur.blk, cur.off + k>>]
      BY <2>4, <2>6
    <3>2. CASE k < i + (i % 2)
      BY <3>1, <3>2, <2>1 DEF BlankAhead
    <3>3. CASE ~(k < i + (i % 2))
      <4>1. (cur.off + i) % 2 = 0 /\ (k = i \/ k = i + 1)
        BY <3>3, <2>8, <2>7, <2>2 DEF Banks
      <4>2. <<cur.blk, cur.off + k>> \in S
        BY <4>1, <2>5, <2>2 DEF Banks
      <4> QED
        BY <4>2, <2>4, <2>6
    <3> QED
      BY <3>2, <3>3
  <2>9. CASE i + 1 < cur.len
    <3>1. pc' = "erase" /\ i' = i + 1
      BY <1>1, <2>1, <2>9 DEF EraseStep
    <3> QED
      BY <3>1, <2>1, <2>8 DEF BlankAhead
  <2>10. CASE ~(i + 1 < cur.len)
    <3>1. pc' = "write" /\ i' = 0
      BY <1>1, <2>1, <2>10 DEF EraseStep
    <3>2. i + 1 = cur.len
      BY <2>10, <2>2
    <3>3. \A k \in 0..(cur.len - 1) : nor'[<<cur.blk, cur.off + k>>] = Blank
      BY <3>2, <2>8, <2>2, <2>3
    <3> QED
      BY <3>1, <3>3, <2>1 DEF BlankAhead
  <2> QED
    BY <2>9, <2>10
<1>2. CASE WriteStep
  <2>1. pc = "write"
    BY <1>2 DEF WriteStep
  <2>2. /\ cur.blk \in Blocks /\ cur.len \in 1..Size /\ cur.off \in Banks
        /\ i \in 0..(cur.len - 1) /\ Size \in Nat
    BY <2>1, JobShape, Kinds DEF Switching, BackingUp
  <2>3. CASE i + 1 < cur.len
    <3>1. pc' = "write" /\ i' = i + 1 /\ cur' = cur
      BY <1>2, <2>1, <2>3 DEF WriteStep
    <3>2. \A k \in (i + 1)..(cur.len - 1) :
            nor'[<<cur.blk, cur.off + k>>] = nor[<<cur.blk, cur.off + k>>]
      BY <1>2, <2>2 DEF WriteStep, StoreType, Banks
    <3> QED
      BY <3>1, <3>2, <2>1, <2>2 DEF BlankAhead
  <2>4. CASE ~(i + 1 < cur.len)
    <3>1. pc' \notin {"erase", "write"}
      BY <1>2, <2>4, <1>t, AfterSwitchKinds DEF WriteStep, ControlType
    <3> QED
      BY <3>1 DEF BlankAhead
  <2> QED
    BY <2>3, <2>4
<1>3. CASE pc' \notin {"erase", "write"}
  BY <1>3 DEF BlankAhead
<1>4. CASE pc' = "erase" /\ i' = 0
  BY <1>4 DEF BlankAhead
<1>5. ASSUME NEW t \in Launchable \cup Unmapped \cup {None}, NEW g \in Goals, Switch(t, g)
      PROVE  BlankAhead'
  <2>1. AfterSwitch(g) \notin {"erase", "write"}
    BY AfterSwitchKinds
  <2>2. BackupEntry(act) # "write"
    BY DEF BackupEntry
  <2>3. pc' \notin {"erase", "write"} \/ (pc' = "erase" /\ i' = 0)
    BY <1>5, <2>1, <2>2 DEF Switch
  <2> QED
    BY <2>3, <1>3, <1>4
<1>6. CASE Partner
  BY <1>6, <1>4 DEF Partner, job, Control, JobAgrees
<1>7. CASE RestoreStep
  BY <1>7, <1>3, <1>t, AfterSwitchKinds DEF RestoreStep, ControlType
<1>8. CASE Shift \/ Save \/ Scratch \/ Wipe
  BY <1>8, <1>3 DEF Shift, Save, Scratch, Wipe
<1>9. ASSUME NEW t \in Launchable \cup Unmapped, Launch(t)
      PROVE  BlankAhead'
  BY <1>9, <1>5 DEF Launch, Goals
<1>10. ASSUME NEW g \in {"menu", "scratch", "wipe"}, Unload(g)
       PROVE  BlankAhead'
  BY <1>10, <1>5 DEF Unload, Goals
<1>11. ASSUME NEW b \in Blocks, EraseBlock(b)
       PROVE  BlankAhead'
  BY <1>11, <1>3 DEF EraseBlock
<1>12. ASSUME NEW resolves \in BOOLEAN, LaunchPlain(resolves)
       PROVE  BlankAhead'
  BY <1>12, <1>3 DEF LaunchPlain
<1>13. CASE SaveSettings \/ EraseAll \/ Discard \/ ForceSram \/ TouchSettings \/ Revert
              \/ FactoryReset \/ FirstBootAnswer
  BY <1>13, <1>3 DEF SaveSettings, EraseAll, Discard, ForceSram, TouchSettings, Revert,
                     FactoryReset, FirstBootAnswer
<1>14. CASE PowerCycle
  BY <1>14, <1>3 DEF PowerCycle
<1>15. ASSUME NEW b \in Banks, NEW v \in Values, GameWrite(b, v)
       PROVE  BlankAhead'
  BY <1>15, <1>3 DEF GameWrite
<1>16. CASE UNCHANGED vars
  BY <1>16 DEF vars, store, job, BlankAhead
<1>17. CASE CopyStep
  BY <1>17, <1>1, <1>2, <1>6, <1>7, <1>8 DEF CopyStep
<1>18. CASE MenuStep
  BY <1>18, <1>9, <1>10, <1>11, <1>12, <1>13 DEF MenuStep
<1> QED
  BY <1>14, <1>15, <1>16, <1>17, <1>18 DEF Next

LEMMA BoundsStep ==
  ASSUME BoundsType, [Next]_vars
  PROVE  BoundsType'
<1>0. MaxRuns \in Nat /\ MaxEdits \in Nat /\ MaxLapses \in Nat
  BY SwitchAssumption
<1>1. Edit \/ Started \/ Lapsed \/ UNCHANGED bounds => BoundsType'
  BY <1>0 DEF Edit, Started, Lapsed, bounds, BoundsType
<1>2. CASE CopyStep
  BY <1>1, <1>2 DEF CopyStep, Shift, Partner, EraseStep, WriteStep, RestoreStep, Save,
                    Scratch, Wipe
<1>3. CASE MenuStep
  BY <1>1, <1>3 DEF MenuStep, Launch, LaunchPlain, SaveSettings, Unload, EraseBlock,
                    EraseAll, Discard, ForceSram, TouchSettings, Revert, FactoryReset,
                    FirstBootAnswer, bounds
<1>4. ASSUME NEW b \in Banks, NEW v \in Values, GameWrite(b, v)
      PROVE  BoundsType'
  BY <1>1, <1>4 DEF GameWrite
<1>5. CASE PowerCycle
  BY <1>1, <1>5 DEF PowerCycle
<1>6. CASE UNCHANGED vars
  BY <1>1, <1>6 DEF vars
<1> QED
  BY <1>2, <1>3, <1>4, <1>5, <1>6 DEF Next

SwitchInv == Control /\ StoreType /\ BoundsType /\ BlankAhead

\* The same with the types of the stores and the banks that are erased already.
THEOREM SwitchInvariant == Spec => []SwitchInv
<1>1. Init => SwitchInv
  <2>1. /\ MaxRuns \in Nat /\ MaxEdits \in Nat /\ MaxLapses \in Nat
        /\ NorAtStart \in [Cells -> Content] /\ SramAtStart \in [Banks -> Content]
    BY SwitchAssumption
  <2>2. Init => StoreType /\ BoundsType /\ BlankAhead
    BY <2>1 DEF Init, StoreType, BoundsType, BlankAhead
  <2> QED
    BY <2>2, InitControl DEF SwitchInv
<1>2. SwitchInv /\ [Next]_vars => SwitchInv'
  BY StepControl, StoreTypeStep, BoundsStep, BlankAheadStep DEF SwitchInv
<1> QED
  BY <1>1, <1>2, PTL DEF Spec

\* Every variable keeps to its type.
THEOREM TypeCorrect == Spec => []TypeOK
<1>1. SwitchInv => TypeOK
  BY DEF SwitchInv, Control, ControlType, StoreType, BoundsType, TypeOK, RunValues
<1> QED
  BY <1>1, SwitchInvariant, PTL

\* Flash is never programmed over data.
THEOREM ProgramsOnlyBlankTheorem == Spec => []ProgramsOnlyBlank
<1>1. SwitchInv => ProgramsOnlyBlank
  BY DEF SwitchInv, BlankAhead, ProgramsOnlyBlank
<1> QED
  BY <1>1, SwitchInvariant, PTL

-----------------------------------------------------------------------------
(* SaveSwitch implements SaveStore. *)

\* Settings that have not changed are those of the record.
RecordAgrees == ~changed => saved = Persisted

\* On the way to a program that owns no bank: nothing is checked out.
UnmappedAgrees ==
  run.blk \notin Blocks /\ run.len # 0 =>
    /\ pc \in Switching /\ goal = "launch" => tgt = None
    /\ (pc = "save" /\ goal = "launch") \/ pc = "game" => act.blk \notin Blocks

\* How far the loops have come.
CopiedSoFar ==
  pc \in {"write", "restore"} =>
    \A k \in 0..(i - 1) : nor[<<cur.blk, cur.off + k>>] = sram[k]

Apart ==
  /\ pc = "ask" => act = FirstBoot
  /\ pc \in {"shift", "partner"} => act.len = 1
  /\ pc = "shift" => act.off % 2 = 1

\* Every change of the active block is marked; settings_load unmarks it.
LEMMA RecordStep ==
  ASSUME RecordAgrees, [Next]_vars
  PROVE  RecordAgrees'
<1>1. /\ UNCHANGED settings => RecordAgrees'
      /\ changed' = TRUE => RecordAgrees'
      /\ \A r : SetActive(r) => changed' = TRUE
      /\ \A r : LoadSettings(r) => RecordAgrees'
  BY DEF settings, RecordAgrees, Persisted, SetActive, LoadSettings
<1>2. ASSUME NEW t, NEW g, Switch(t, g) PROVE RecordAgrees'
  BY <1>1, <1>2 DEF Switch
<1>3. CASE Save
  BY <1>3 DEF Save, RecordAgrees, Persisted
<1>4. CASE CopyStep
  BY <1>1, <1>3, <1>4 DEF CopyStep, Shift, Partner, EraseStep, WriteStep, RestoreStep, Scratch, Wipe
<1>5. CASE MenuStep
  BY <1>1, <1>2, <1>5 DEF MenuStep, Launch, LaunchPlain, SaveSettings, Unload, EraseBlock,
       EraseAll, Discard, ForceSram, TouchSettings, Revert, FactoryReset, FirstBootAnswer
<1>6. ASSUME NEW b \in Banks, NEW v \in Values, GameWrite(b, v) PROVE RecordAgrees'
  BY <1>1, <1>6 DEF GameWrite
<1>7. CASE PowerCycle
  BY <1>1, <1>7 DEF PowerCycle
<1>8. CASE UNCHANGED vars
  BY <1>1, <1>8 DEF vars
<1> QED
  BY <1>4, <1>5, <1>6, <1>7, <1>8 DEF Next

\* The single banks keep to their own states.
LEMMA ApartStep ==
  ASSUME Control, Apart, [Next]_vars
  PROVE  Apart'
<1>1. CASE pc' \notin {"ask", "shift", "partner"}
  BY <1>1 DEF Apart
<1>2. ASSUME NEW t \in Launchable \cup Unmapped \cup {None}, NEW g \in Goals, Switch(t, g)
      PROVE  Apart'
  <2>1. AfterSwitch(g) \notin {"ask", "shift", "partner"}
    BY AfterSwitchKinds
  <2>2. CASE pc' = BackupEntry(act) /\ UNCHANGED settings
    <3>1. /\ pc' # "ask"
          /\ pc' \in {"shift", "partner"} => act.len = 1
          /\ pc' = "shift" => act.off % 2 = 1
      BY <2>2 DEF BackupEntry
    <3> QED BY <2>2, <3>1 DEF Apart, settings
  <2> QED BY <1>1, <1>2, <2>1, <2>2 DEF Switch
<1>3. CASE Shift
  BY <1>3 DEF Shift, Apart, settings
<1>4. CASE CopyStep
  <2>1. goal \in Goals
    BY DEF Control, ControlType
  <2> QED
    BY <1>1, <1>3, <1>4, <2>1, AfterSwitchKinds
       DEF CopyStep, Partner, EraseStep, WriteStep, RestoreStep, Save, Scratch, Wipe
<1>5. CASE MenuStep
  <2>1. ASSUME NEW t \in Launchable \cup Unmapped, Launch(t) PROVE Apart'
    BY <2>1, <1>2 DEF Launch, Goals
  <2>2. ASSUME NEW g \in {"menu", "scratch", "wipe"}, Unload(g) PROVE Apart'
    BY <2>2, <1>2 DEF Unload, Goals
  <2>3. CASE FactoryReset
    BY <2>3 DEF FactoryReset, LoadSettings, Apart
  <2>4. CASE FirstBootAnswer \/ SaveSettings \/ EraseAll \/ Discard \/ ForceSram
               \/ TouchSettings \/ Revert
    BY <2>4, <1>1 DEF FirstBootAnswer, SaveSettings, EraseAll, Discard, ForceSram,
                      TouchSettings, Revert
  <2>5. ASSUME NEW b \in Blocks, EraseBlock(b) PROVE Apart'
    BY <2>5, <1>1 DEF EraseBlock
  <2>6. ASSUME NEW resolves \in BOOLEAN, LaunchPlain(resolves) PROVE Apart'
    BY <2>6, <1>1 DEF LaunchPlain
  <2> QED
    BY <1>5, <2>1, <2>2, <2>3, <2>4, <2>5, <2>6 DEF MenuStep
<1>6. ASSUME NEW b \in Banks, NEW v \in Values, GameWrite(b, v) PROVE Apart'
  BY <1>6, <1>1 DEF GameWrite
<1>7. CASE PowerCycle
  BY <1>7 DEF PowerCycle, LoadSettings, Apart
<1>8. CASE UNCHANGED vars
  BY <1>8 DEF vars, settings, Apart
<1> QED
  BY <1>4, <1>5, <1>6, <1>7, <1>8 DEF Next

\* A program that no block is mapped to is never given another one's SRAM.
LEMMA UnmappedStep ==
  ASSUME Control, UnmappedAgrees, [Next]_vars
  PROVE  UnmappedAgrees'
<1> DEFINE Away == pc \notin Switching \cup {"game"} /\ (pc = "save" => goal # "launch")
<1>1. CASE Away'
  BY <1>1 DEF UnmappedAgrees
<1>2. CASE run'.len = 0
  BY <1>2 DEF UnmappedAgrees
<1>0. /\ goal \in Goals
      /\ act \in ActiveValues
      /\ Plain.len = 0 /\ None.blk \notin Blocks /\ FirstBoot.blk \notin Blocks
  BY Kinds DEF Control, ControlType, Plain
<1>3. ASSUME NEW t \in Launchable \cup Unmapped, Launch(t)
      PROVE  UnmappedAgrees'
  <2> SUFFICES ASSUME t.blk \notin Blocks
               PROVE  /\ pc' \in Switching => tgt' = None
                      /\ pc' \in {"save", "game"} => act'.blk \notin Blocks
    BY <1>3 DEF UnmappedAgrees, Launch
  <2>1. Switch(t, "launch")
    BY <1>3 DEF Launch
  <2>2. t.blk = NoBlock
    BY Kinds
  <2>3. AfterSwitch("launch") = "save"
    BY DEF AfterSwitch
  <2>4. BackupEntry(act) \notin {"save", "game"}
    BY DEF BackupEntry
  <2> QED
    BY <2>1, <2>2, <2>3, <2>4, <1>0 DEF Switch, Idle, settings, Switching, BackingUp
<1>4. ASSUME NEW g \in {"menu", "scratch", "wipe"}, Unload(g)
      PROVE  UnmappedAgrees'
  <2>1. goal' # "launch" /\ pc' # "game"
    BY <1>4, EntryShape, <1>0 DEF Unload, Switch, AfterSwitch, BackingUp
  <2> QED BY <2>1 DEF UnmappedAgrees
<1>5. CASE Shift \/ Partner
  BY <1>5 DEF Shift, Partner, settings, job, UnmappedAgrees, Switching, BackingUp
<1>6. CASE EraseStep
  BY <1>6 DEF EraseStep, settings, UnmappedAgrees, Switching, BackingUp
<1>7. CASE WriteStep
  <2>1. pc = "write" /\ UNCHANGED <<goal, run>> /\ pc' # "game"
    BY <1>7, <1>0, AfterSwitchKinds DEF WriteStep
  <2>2. CASE UNCHANGED <<pc, cur, tgt, settings>>
    BY <2>1, <2>2 DEF UnmappedAgrees, settings
  <2>3. CASE tgt' = tgt /\ act' = None
    BY <2>1, <2>3, <1>0 DEF UnmappedAgrees, Switching, BackingUp
  <2> QED
    BY <1>7, <2>2, <2>3 DEF WriteStep, SetActive
<1>8. CASE RestoreStep
  <2>1. pc = "restore" /\ UNCHANGED <<goal, run>> /\ tgt \in Launchable /\ tgt # None
    BY <1>8, Kinds DEF RestoreStep, Control, JobAgrees
  <2>2. CASE goal # "launch"
    BY <1>8, <2>1, <2>2, AfterSwitchKinds, <1>0 DEF UnmappedAgrees, RestoreStep
  <2>3. CASE goal = "launch"
    BY <2>1, <2>3 DEF UnmappedAgrees, Switching
  <2> QED BY <2>2, <2>3
<1>9. CASE Save
  BY <1>9 DEF Save, UnmappedAgrees, Switching, BackingUp
<1>10. CASE Scratch
  BY <1>10, <1>1, <1>2, <1>0 DEF Scratch, Switching, BackingUp
<1>11. CASE Wipe \/ SaveSettings \/ EraseAll \/ Discard \/ ForceSram \/ TouchSettings
              \/ Revert \/ FactoryReset \/ FirstBootAnswer
  BY <1>11, <1>1 DEF Wipe, SaveSettings, EraseAll, Discard, ForceSram, TouchSettings,
       Revert, FactoryReset, FirstBootAnswer, Switching, BackingUp
<1>12. ASSUME NEW b \in Blocks, EraseBlock(b) PROVE UnmappedAgrees'
  BY <1>12, <1>1 DEF EraseBlock, Switching, BackingUp
<1>13. ASSUME NEW resolves \in BOOLEAN, LaunchPlain(resolves) PROVE UnmappedAgrees'
  BY <1>13, <1>2, <1>0 DEF LaunchPlain
<1>14. ASSUME NEW b \in Banks, NEW v \in Values, GameWrite(b, v) PROVE UnmappedAgrees'
  BY <1>14 DEF GameWrite, settings, job, UnmappedAgrees
<1>15. CASE PowerCycle
  BY <1>15, <1>2, <1>0 DEF PowerCycle
<1>16. CASE UNCHANGED vars
  BY <1>16 DEF vars, settings, job, UnmappedAgrees
<1>17. CASE CopyStep
  BY <1>5, <1>6, <1>7, <1>8, <1>9, <1>10, <1>11, <1>17 DEF CopyStep
<1>18. CASE MenuStep
  BY <1>3, <1>4, <1>11, <1>12, <1>13, <1>18 DEF MenuStep
<1> QED
  BY <1>14, <1>15, <1>16, <1>17, <1>18 DEF Next

\* The banks the copy loops have passed are equal in flash and SRAM.
LEMMA CopiedStep ==
  ASSUME Control, StoreType, BlankAhead, CopiedSoFar, [Next]_vars
  PROVE  CopiedSoFar'
<1>1. CASE pc' \notin {"write", "restore"} \/ i' = 0
  BY <1>1 DEF CopiedSoFar
<1>0. goal \in Goals
  BY DEF Control, ControlType
<1>2. CASE WriteStep
  <2>1. pc = "write"
    BY <1>2 DEF WriteStep
  <2>2. /\ cur.blk \in Blocks /\ cur.len \in 1..Size /\ cur.off \in Banks
        /\ i \in 0..(cur.len - 1) /\ Size \in Nat /\ cur.off + cur.len <= Size
    BY <2>1, JobShape, Kinds DEF Switching, BackingUp, Regions
  <2>3. CASE i + 1 < cur.len
    <3>1. pc' = "write" /\ i' = i + 1 /\ cur' = cur /\ sram' = sram
      BY <1>2, <2>1, <2>3 DEF WriteStep
    <3>2. \A k \in 0..(i - 1) :
            nor'[<<cur.blk, cur.off + k>>] = nor[<<cur.blk, cur.off + k>>]
      BY <1>2, <2>2 DEF WriteStep, StoreType, Banks
    <3>3. nor'[<<cur.blk, cur.off + i>>] = sram[i]
      <4>1. <<cur.blk, cur.off + i>> \in Cells
        BY <2>1, JobCell DEF Switching, BackingUp
      <4>2. nor[<<cur.blk, cur.off + i>>] = Blank
        BY <2>1, <2>2 DEF BlankAhead
      <4>3. nor'[<<cur.blk, cur.off + i>>] = Programmed(Blank, sram[i])
        BY <1>2, <4>1, <4>2 DEF WriteStep, StoreType
      <4> QED BY <4>3 DEF Programmed
    <3> QED
      BY <3>1, <3>2, <3>3, <2>1, <2>2 DEF CopiedSoFar
  <2>4. CASE ~(i + 1 < cur.len)
    BY <1>2, <2>4, <1>1 DEF WriteStep
  <2> QED
    BY <2>3, <2>4
<1>3. CASE RestoreStep
  <2>1. pc = "restore"
    BY <1>3 DEF RestoreStep
  <2>2. /\ cur.blk \in Blocks /\ cur.len \in 1..Size /\ cur.off \in Banks
        /\ i \in 0..(cur.len - 1) /\ Size \in Nat /\ i \in Banks
    BY <2>1, JobShape, JobCell, Kinds DEF Switching, BackingUp
  <2>3. CASE i + 1 < cur.len
    <3>1. pc' = "restore" /\ i' = i + 1 /\ cur' = cur /\ nor' = nor
          /\ sram' = [sram EXCEPT ![i] = nor[<<cur.blk, cur.off + i>>]]
      BY <1>3, <2>1, <2>3 DEF RestoreStep
    <3>2. \A k \in 0..i : k \in Banks
      BY <2>2 DEF Banks
    <3>3. \A k \in 0..i : nor'[<<cur.blk, cur.off + k>>] = sram'[k]
      BY <2>1, <2>2, <3>1, <3>2 DEF StoreType, CopiedSoFar
    <3> QED
      BY <3>1, <3>3, <2>2 DEF CopiedSoFar
  <2>4. CASE ~(i + 1 < cur.len)
    BY <1>3, <2>4, <1>1, <1>0, AfterSwitchKinds DEF RestoreStep
  <2> QED
    BY <2>3, <2>4
<1>4. CASE EraseStep
  BY <1>4, <1>1 DEF EraseStep
<1>5. ASSUME NEW t, NEW g \in Goals, Switch(t, g)
      PROVE  CopiedSoFar'
  <2>1. AfterSwitch(g) \notin {"write", "restore"} /\ BackupEntry(act) # "write"
    BY AfterSwitchKinds DEF BackupEntry
  <2> QED
    BY <1>5, <1>1, <2>1 DEF Switch
<1>6. CASE CopyStep
  BY <1>6, <1>1, <1>2, <1>3, <1>4 DEF CopyStep, Shift, Partner, Save, Scratch, Wipe
<1>7. CASE MenuStep
  BY <1>7, <1>1, <1>5 DEF MenuStep, Launch, LaunchPlain, SaveSettings, Unload, EraseBlock, Goals,
       EraseAll, Discard, ForceSram, TouchSettings, Revert, FactoryReset, FirstBootAnswer
<1>8. ASSUME NEW b \in Banks, NEW v \in Values, GameWrite(b, v) PROVE CopiedSoFar'
  BY <1>8, <1>1 DEF GameWrite
<1>9. CASE PowerCycle
  BY <1>9, <1>1 DEF PowerCycle
<1>10. CASE UNCHANGED vars
  BY <1>10 DEF vars, store, job, CopiedSoFar
<1> QED
  BY <1>6, <1>7, <1>8, <1>9, <1>10 DEF Next

\* What the refinement rests on.
RefineInv == SwitchInv /\ RecordAgrees /\ Apart /\ UnmappedAgrees /\ CopiedSoFar

LEMMA RefineInvariant == Spec => []RefineInv
<1>1. Init => RefineInv
  <2>1. Init => RecordAgrees /\ Apart /\ UnmappedAgrees /\ CopiedSoFar
    BY DEF Init, RecordAgrees, Apart, UnmappedAgrees, CopiedSoFar, Plain
  <2>2. Init => SwitchInv
    <3>1. /\ MaxRuns \in Nat /\ MaxEdits \in Nat /\ MaxLapses \in Nat
          /\ NorAtStart \in [Cells -> Content] /\ SramAtStart \in [Banks -> Content]
      BY SwitchAssumption
    <3>2. Init => StoreType /\ BoundsType /\ BlankAhead
      BY <3>1 DEF Init, StoreType, BoundsType, BlankAhead
    <3> QED
      BY <3>2, InitControl DEF SwitchInv
  <2> QED
    BY <2>1, <2>2 DEF RefineInv
<1>2. RefineInv /\ [Next]_vars => RefineInv'
  BY StepControl, StoreTypeStep, BoundsStep, BlankAheadStep, RecordStep, ApartStep,
     UnmappedStep, CopiedStep DEF RefineInv, SwitchInv
<1> QED
  BY <1>1, <1>2, PTL DEF Spec

-----------------------------------------------------------------------------
\* What the store's variables stand for.
AFlash == [c \in Cells |-> FlashCopy(c)]
AWork == IF Held = None THEN [b \in {} |-> Blank]
                        ELSE [b \in 0..(Held.len - 1) |-> HeldBank(b)]
AMem == IF saved \in Regions THEN saved ELSE None
Mapped == <<AFlash, Held, AWork, AMem>>
StoreStep == [Store!Next \/ (lapses' # lapses /\ Store!Lapse)]_(Store!vars)

\* The store's own geometry is this one.
LEMMA SameGeometry ==
  /\ Store!Banks = Banks /\ Store!Cells = Cells /\ Store!Regions = Regions /\ Store!None = None
  /\ \A r, c : Store!Covers(r, c) <=> Covers(r, c)
<1>1. Store!Banks = Banks /\ Store!None = None /\ \A r, c : Store!Covers(r, c) <=> Covers(r, c)
  BY DEF Store!Banks, Banks, Store!None, None, Store!Covers, Covers
<1>2. Store!Cells = Cells /\ Store!Regions = Regions
  BY <1>1 DEF Store!Cells, Cells, Store!Regions, Regions
<1> QED
  BY <1>1, <1>2

LEMMA SameSector ==
  ASSUME NEW r, NEW c
  PROVE  Store!SectorCovers(r, c) <=> SectorCovers(r, c)
BY SameGeometry DEF Store!SectorCovers, SectorCovers

LEMMA SameWorks ==
  /\ Store!Works(None) = [{} -> Content]
  /\ \A r : r # None => Store!Works(r) = [0..(r.len - 1) -> Content]
BY SameGeometry DEF Store!Works

-----------------------------------------------------------------------------
(* The steps of the store. *)

\* A step the store does not see.
LEMMA StutterMaps ==
  ASSUME UNCHANGED Mapped
  PROVE  StoreStep
BY DEF Mapped, AFlash, AWork, AMem, StoreStep, Store!vars

LEMMA LoadMaps ==
  ASSUME NEW r \in Regions, Held = None, Held' = r, UNCHANGED <<AFlash, AMem>>,
         AWork' = [b \in 0..(r.len - 1) |-> AFlash[<<r.blk, r.off + b>>]]
  PROVE  StoreStep
<1>1. Store!Load(r)
  BY SameGeometry DEF AFlash, AWork, AMem, Store!Load
<1> QED
  BY <1>1, SameGeometry DEF StoreStep, Store!Next

LEMMA AdoptMaps ==
  ASSUME NEW r \in Regions, Held = None, Held' = r, UNCHANGED <<AFlash, AMem>>,
         r # None, AWork' \in [0..(r.len - 1) -> Content]
  PROVE  StoreStep
<1>1. Store!Adopt(r)
  BY SameGeometry, SameWorks DEF AFlash, AWork, AMem, Store!Adopt
<1> QED
  BY <1>1, SameGeometry DEF StoreStep, Store!Next

LEMMA NoWork == Held = None => AWork \in [{} -> Content]
BY DEF AWork

LEMMA UnloadMaps ==
  ASSUME Held # None, Held' = None, UNCHANGED AMem,
         AFlash' = [c \in Cells |-> IF Covers(Held, c) THEN AWork[c[2] - Held.off]
                                                       ELSE AFlash[c]]
  PROVE  StoreStep
<1>1. AWork' \in Store!Works(None)
  BY NoWork, SameWorks DEF AWork
<1>2. Store!Unload
  BY <1>1, SameGeometry DEF AFlash, AWork, AMem, Store!Unload
<1> QED
  BY <1>2 DEF StoreStep, Store!Next

LEMMA DiscardMaps ==
  ASSUME Held # None, Held' = None, UNCHANGED <<AFlash, AMem>>
  PROVE  StoreStep
<1>1. AWork' \in Store!Works(None)
  BY NoWork, SameWorks DEF AWork
<1>2. Store!Discard
  BY <1>1, SameGeometry DEF AFlash, AWork, AMem, Store!Discard
<1> QED
  BY <1>2 DEF StoreStep, Store!Next

LEMMA WriteMaps ==
  ASSUME NEW b \in Banks, NEW v \in Content, Held # None, b \in DOMAIN AWork,
         AWork' = [AWork EXCEPT ![b] = v], UNCHANGED <<AFlash, Held, AMem>>
  PROVE  StoreStep
<1>1. Store!Write(b, v)
  BY SameGeometry DEF AFlash, AWork, AMem, Store!Write
<1> QED
  BY <1>1, SameGeometry DEF StoreStep, Store!Next

LEMMA RememberMaps ==
  ASSUME AMem' = Held, UNCHANGED <<AFlash, Held, AWork>>
  PROVE  StoreStep
<1>1. Store!Remember
  BY SameGeometry DEF AFlash, AWork, AMem, Store!Remember
<1> QED
  BY <1>1 DEF StoreStep, Store!Next

LEMMA EraseMaps ==
  ASSUME AFlash' \in [Cells -> Content], UNCHANGED AMem,
         \A c \in Cells : AFlash'[c] \in {AFlash[c], Blank},
         \/ Held' = None
         \/ /\ UNCHANGED <<Held, AWork>>
            /\ \A c \in Cells : Covers(Held, c) => AFlash'[c] = AFlash[c]
  PROVE  StoreStep
<1>1. Held' = None => AWork' \in Store!Works(None)
  BY NoWork, SameWorks DEF AWork
<1>2. Store!Erase
  BY <1>1, SameGeometry DEF AFlash, AWork, AMem, Store!Erase
<1> QED
  BY <1>2 DEF StoreStep, Store!Next

LEMMA LapseMaps ==
  ASSUME lapses' # lapses,
         Held' \in {Held, AMem, None}, AMem' \in {AMem, Held, None},
         Held' # None => AWork' \in [0..(Held'.len - 1) -> Content],
         AFlash' \in [Cells -> Content],
         \A c \in Cells : ~SectorCovers(Held, c) /\ ~SectorCovers(AMem, c)
                            => AFlash'[c] = AFlash[c]
  PROVE  StoreStep
<1>1. AWork' \in Store!Works(Held')
  <2>1. CASE Held' = None
    BY <2>1, NoWork, SameWorks DEF AWork
  <2>2. CASE Held' # None
    BY <2>2, SameWorks
  <2> QED
    BY <2>1, <2>2
<1>2. Store!Lapse
  BY <1>1, SameGeometry, SameSector DEF AFlash, AWork, AMem, Store!Lapse, Store!Exposed
<1> QED
  BY <1>2 DEF StoreStep

-----------------------------------------------------------------------------
(* The steps of the code. *)

Copying == {"partner", "erase", "write"}

\* What is held is the active region of a program.
LEMMA HeldShape ==
  ASSUME Control
  PROVE  /\ None \notin Regions /\ FirstBoot \notin Regions
         /\ Held # None => Held = act /\ act \in Launchable /\ act \in Regions
         /\ act \notin Regions => Held = None
         /\ pc \notin {"erase", "write"} /\ act \in Regions => Held = act
         /\ \A r \in Launchable : r \in Regions /\ r # None /\ r # FirstBoot
<1>1. None \notin Regions /\ FirstBoot \notin Regions
  BY Kinds DEF Regions
<1>2. act \in ActiveValues
  BY DEF Control, ControlType
<1> QED
  BY <1>1, <1>2, ActiveKinds, Kinds DEF Held

\* Outside of a backup the store is flash and SRAM as they are.
LEMMA CalmViews ==
  ASSUME pc \notin Copying
  PROVE  /\ AFlash = [c \in Cells |-> nor[c]]
         /\ \A b : HeldBank(b) = sram[b]
         /\ Held = IF act \in Regions THEN act ELSE None
BY DEF AFlash, FlashCopy, HeldBank, Held, Copying

LEMMA CalmViewsNext ==
  ASSUME pc' \notin Copying
  PROVE  /\ AFlash' = [c \in Cells |-> nor'[c]]
         /\ AWork' = IF Held' = None THEN [b \in {} |-> Blank]
                                     ELSE [b \in 0..(Held'.len - 1) |-> sram'[b]]
         /\ Held' = IF act' \in Regions THEN act' ELSE None
         /\ AMem' = IF saved' \in Regions THEN saved' ELSE None
<1>1. \A b : HeldBank(b)' = sram'[b]
  BY DEF HeldBank, Copying
<1> QED
  BY <1>1 DEF AFlash, FlashCopy, AWork, AMem, Held, Copying

LEMMA CalmWork ==
  ASSUME pc \notin Copying
  PROVE  AWork = IF Held = None THEN [b \in {} |-> Blank]
                                ELSE [b \in 0..(Held.len - 1) |-> sram[b]]
BY CalmViews DEF AWork

LEMMA WorkType ==
  ASSUME Control', StoreType', pc' \notin Copying, Held' # None
  PROVE  AWork' \in [0..(Held'.len - 1) -> Content]
<1>1. Held' \in Launchable /\ sram' \in [Banks -> Content]
  <2>1. act' \in ActiveValues /\ sram' \in [Banks -> Content]
    BY DEF Control, ControlType, StoreType
  <2> QED
    BY <2>1, ActiveKinds, CalmViewsNext
<1>2. Held'.len \in 1..Size /\ Size \in Nat
  BY <1>1, LaunchableShape, Kinds
<1>3. \A b \in 0..(Held'.len - 1) : sram'[b] \in Content
  BY <1>1, <1>2 DEF Banks
<1> QED
  BY <1>3, CalmViewsNext

\* Nothing the store knows changes.
LEMMA QuietStep ==
  ASSUME pc \notin Copying, pc' \notin Copying, UNCHANGED <<nor, saved, Held>>,
         Held = None \/ sram' = sram
  PROVE  StoreStep
<1>1. UNCHANGED <<AFlash, Held, AMem>>
  BY CalmViews, CalmViewsNext DEF AMem
<1>2. UNCHANGED AWork
  <2>1. AWork' = IF Held = None THEN [b \in {} |-> Blank]
                                ELSE [b \in 0..(Held.len - 1) |-> sram'[b]]
    BY CalmViewsNext
  <2> QED
    BY <2>1, CalmWork
<1> QED
  BY <1>1, <1>2, StutterMaps DEF Mapped

\* The settings forget whose data SRAM holds.
LEMMA GiveUpStep ==
  ASSUME pc \notin Copying, pc' \notin Copying, UNCHANGED <<nor, saved>>,
         Held' = None
  PROVE  StoreStep
<1>1. UNCHANGED <<AFlash, AMem>>
  BY CalmViews, CalmViewsNext DEF AMem
<1>2. CASE Held # None
  BY <1>1, <1>2, DiscardMaps
<1>3. CASE Held = None
  BY <1>3, QuietStep
<1> QED
  BY <1>2, <1>3

\* The beginning of sram_switch_to_slot: for whole sectors this is where the
\* store checks the region in.
LEMMA SwitchStep ==
  ASSUME RefineInv, StoreType', pc = "menu", sram' = sram, nor' = nor,
         NEW t \in Launchable \cup Unmapped \cup {None}, NEW g \in Goals, Switch(t, g),
         Control'
  PROVE  StoreStep
<1>0. Control /\ StoreType /\ act \in ActiveValues /\ pc \notin Copying
  BY DEF RefineInv, SwitchInv, Control, ControlType, Copying
<1>1. AfterSwitch(g) \notin Copying
  BY AfterSwitchKinds DEF Copying
<1>2. CASE act = t
  <2>1. pc' \notin Copying /\ UNCHANGED settings
    BY <1>1, <1>2, <1>0 DEF Switch
  <2>2. UNCHANGED <<saved, Held>>
    BY <2>1, <1>0 DEF settings, Held, Copying
  <2> QED BY <2>1, <2>2, <1>0, QuietStep
<1>3. CASE act # t /\ act = FirstBoot
  <2>1. pc' \notin Copying /\ saved' = saved /\ Held = None
    BY <1>1, <1>3, <1>0, HeldShape, Kinds DEF Switch, settings, SetActive
  <2>2. CASE t.blk = NoBlock
    <3>1. Held' = None
      BY <1>3, <2>2, <1>0, HeldShape, Kinds DEF Switch, settings, Held
    <3> QED BY <2>1, <3>1, <1>0, QuietStep
  <2>3. CASE t.blk # NoBlock
    <3>1. t \in Launchable
      BY <2>3, Kinds
    <3>2. act' = t
      BY <1>3, <2>3, Kinds DEF Switch, SetActive
    <3>3. Held' = t /\ t # None /\ t \in Regions
      BY <3>1, <3>2, <2>1, <1>0, HeldShape, CalmViewsNext
    <3>4. UNCHANGED <<AFlash, AMem>>
      BY <2>1, <1>0, CalmViews, CalmViewsNext DEF AMem
    <3>5. AWork' \in [0..(t.len - 1) -> Content]
      BY <3>3, <2>1, WorkType
    <3> QED BY <3>3, <3>4, <3>5, <2>1, AdoptMaps
  <2> QED BY <2>2, <2>3
<1>4. CASE act # t /\ act.blk \in Blocks
  <2>1. /\ pc' = BackupEntry(act) /\ UNCHANGED settings
        /\ cur' = IF pc' = "halt" THEN None ELSE BackupRegion(act)
    BY <1>4, Kinds DEF Switch
  <2>2. CASE act \notin Launchable
    <3>1. pc' = "halt" /\ Held = None /\ act \notin Regions
      BY <2>1, <2>2, <1>0, <1>4, EntryShape, ActiveKinds, HeldShape
    <3>2. UNCHANGED <<saved, Held>> /\ pc' \notin Copying
      BY <2>1, <3>1 DEF settings, Held, Copying
    <3> QED BY <3>1, <3>2, <1>0, QuietStep
  <2>3. CASE act \in Launchable /\ act.len = 1
    <3>1. pc' \in {"shift", "partner"} /\ (pc' = "partner" => act.off % 2 # 1)
      BY <2>1, <2>3 DEF BackupEntry
    <3>2. UNCHANGED <<AFlash, Held, AMem>>
      BY <3>1, <2>1, <1>0 DEF AFlash, FlashCopy, Held, AMem, settings, Copying
    <3>3. \A b : HeldBank(b) = sram[b] /\ HeldBank(b)' = sram[b]
      BY <3>1, <2>1, <1>0 DEF HeldBank, settings, Copying
    <3>4. UNCHANGED AWork
      BY <3>2, <3>3 DEF AWork
    <3> QED BY <3>2, <3>4, StutterMaps DEF Mapped
  <2>4. CASE act \in Launchable /\ act.len # 1
    <3>1. pc' = "erase" /\ cur' = act
      BY <2>1, <2>4, LaunchableShape DEF BackupEntry, BackupRegion
    <3>2. /\ Held = act /\ act # None /\ Held' = None /\ AMem' = AMem
          /\ act.off \in Banks /\ act.len \in 1..Size
      BY <3>1, <2>1, <2>4, <1>0, HeldShape, LaunchableShape DEF Held, AMem, settings, Copying
    <3>3. \A c \in Cells : FlashCopy(c)' = IF Covers(act, c) THEN sram[c[2] - act.off] ELSE nor[c]
      BY <3>1 DEF FlashCopy, Covers
    <3>4. AWork = [b \in 0..(act.len - 1) |-> sram[b]] /\ AFlash = [c \in Cells |-> nor[c]]
      BY <3>2, <1>0, CalmWork, CalmViews
    <3>5. \A c \in Cells : Covers(act, c) => c[2] - act.off \in 0..(act.len - 1)
      BY <3>2, Kinds DEF Covers, Cells, Banks
    <3>6. \A c \in Cells : FlashCopy(c)' = IF Covers(Held, c) THEN AWork[c[2] - Held.off]
                                                               ELSE AFlash[c]
      BY <3>2, <3>3, <3>4, <3>5
    <3>7. AFlash' = [c \in Cells |-> IF Covers(Held, c) THEN AWork[c[2] - Held.off]
                                                        ELSE AFlash[c]]
      BY <3>6 DEF AFlash
    <3> QED BY <3>2, <3>7, UnloadMaps
  <2> QED BY <2>2, <2>3, <2>4
<1>5. CASE act # t /\ act = None
  <2>1. pc' \notin Copying /\ UNCHANGED settings
    BY <1>1, <1>5, Kinds DEF Switch, Copying
  <2>2. UNCHANGED <<saved, Held>>
    BY <2>1, <1>0 DEF settings, Held, Copying
  <2> QED BY <2>1, <2>2, <1>0, QuietStep
<1> QED
  BY <1>2, <1>3, <1>4, <1>5, Kinds DEF Switch

-----------------------------------------------------------------------------
\* What the copy loops work on.
LEMMA CopyShape ==
  ASSUME Control, pc \in Switching
  PROVE  /\ cur \in Regions /\ cur.blk \in Blocks /\ cur.off \in Banks /\ cur.len \in 1..Size
         /\ cur.off + cur.len <= Size /\ Size \in Nat
         /\ i \in 0..(cur.len - 1) /\ goal \in Goals
         /\ pc # "restore" => /\ act \in Launchable /\ cur = BackupRegion(act)
                              /\ cur.blk = act.blk
                              /\ cur.off % 2 = 0 /\ cur.len % 2 = 0
<1>1. /\ cur \in Regions /\ cur.blk \in Blocks /\ cur.off \in Banks /\ cur.len \in 1..Size
      /\ i \in 0..(cur.len - 1)
      /\ pc # "restore" => act \in Launchable
  BY JobShape
<1>2. cur.off + cur.len <= Size /\ Size \in Nat /\ goal \in Goals
  BY <1>1, Kinds DEF Regions, Control, ControlType
<1>3. pc # "restore" => cur = BackupRegion(act)
  BY DEF Control, JobAgrees, Switching
<1> QED
  BY <1>1, <1>2, <1>3, BackupRegionShape

\* The held bank moves within SRAM.
LEMMA ShiftMaps ==
  ASSUME RefineInv, Shift
  PROVE  StoreStep
<1>1. /\ Control /\ Apart /\ pc = "shift" /\ pc' = "partner" /\ nor' = nor
      /\ UNCHANGED settings /\ act.len = 1 /\ act.off % 2 = 1 /\ act \in Launchable
      /\ sram' = [sram EXCEPT ![1] = sram[0]] /\ StoreType
  BY DEF RefineInv, SwitchInv, Shift, Apart, Control, JobAgrees, BackingUp
<1>2. UNCHANGED <<AFlash, Held, AMem>> /\ Held = act /\ act # None
  BY <1>1, HeldShape DEF AFlash, FlashCopy, Held, AMem, settings
<1>3. 1 \in Banks
  BY GeometryAssumption DEF Banks
<1>4. HeldBank(0) = sram[0] /\ HeldBank(0)' = sram[0]
  BY <1>1, <1>3 DEF HeldBank, settings, StoreType
<1>5. AWork = [b \in 0..0 |-> HeldBank(b)] /\ AWork' = [b \in 0..0 |-> HeldBank(b)']
  BY <1>1, <1>2 DEF AWork, settings
<1>6. AWork' = AWork
  BY <1>4, <1>5
<1> QED
  BY <1>2, <1>6, StutterMaps DEF Mapped

\* For a single bank the store checks the region in when SRAM has both banks of
\* its sector.
LEMMA PartnerMaps ==
  ASSUME RefineInv, Partner
  PROVE  StoreStep
<1> DEFINE other == 1 - (act.off % 2)
<1>1. /\ Control /\ Apart /\ pc = "partner" /\ pc' = "erase" /\ nor' = nor
      /\ UNCHANGED settings /\ UNCHANGED cur /\ act.len = 1 /\ act \in Launchable
      /\ sram' = [sram EXCEPT ![other] = nor[<<cur.blk, cur.off + other>>]] /\ StoreType
  BY DEF RefineInv, SwitchInv, Partner, Apart, Control, JobAgrees, BackingUp, job
<1>2. /\ cur = [blk |-> act.blk, off |-> act.off - (act.off % 2), len |-> 2]
      /\ act.off \in Banks /\ Size \in Nat /\ act.blk \in Blocks
  BY <1>1, LaunchableShape, Kinds DEF Control, JobAgrees, BackingUp, BackupRegion
<1>3. /\ Held = act /\ act # None /\ Held' = None /\ AMem' = AMem
  BY <1>1, HeldShape DEF Held, AMem, settings
<1>4. AWork = [b \in 0..0 |-> HeldBank(b)] /\ HeldBank(0) = sram[act.off % 2]
  <2>1. HeldBank(0) = sram[act.off % 2]
    BY <1>1, <1>2 DEF HeldBank, Banks
  <2> QED BY <1>1, <1>3, <2>1 DEF AWork
<1>5. AFlash = [c \in Cells |-> nor[c]]
  BY <1>1 DEF AFlash, FlashCopy
<1>6. ASSUME NEW c \in Cells
      PROVE  FlashCopy(c)' = IF Covers(act, c) THEN AWork[c[2] - act.off] ELSE nor[c]
  <2>1. FlashCopy(c)' = IF Covers(cur, c) THEN sram'[c[2] - cur.off] ELSE nor[c]
    BY <1>1 DEF FlashCopy, Covers
  <2>2. 0 \in Banks /\ 1 \in Banks /\ act.off % 2 \in {0, 1} /\ other \in {0, 1}
    BY <1>2, GeometryAssumption DEF Banks
  <2>3. c[2] \in Banks /\ c = <<c[1], c[2]>>
    BY DEF Cells
  <2>4. CASE Covers(act, c)
    <3>1. c[1] = act.blk /\ c[2] = act.off
      BY <1>1, <1>2, <2>4 DEF Covers, Banks
    <3>2. c[2] - cur.off = act.off % 2 /\ Covers(cur, c)
      BY <1>2, <3>1, <2>2 DEF Covers, Banks
    <3>3. sram'[act.off % 2] = sram[act.off % 2]
      BY <1>1, <2>2 DEF StoreType
    <3>4. c[2] - act.off = 0
      BY <3>1, <1>2 DEF Banks
    <3> QED BY <2>1, <2>4, <3>2, <3>3, <3>4, <1>4
  <2>5. CASE ~Covers(act, c) /\ Covers(cur, c)
    <3>1. c[2] # act.off /\ c[1] = act.blk
      BY <1>1, <1>2, <2>5 DEF Covers, Banks
    <3>2. c[2] \in {cur.off, cur.off + 1}
      BY <1>2, <2>5, <2>3 DEF Covers, Banks
    <3>3. c[2] - cur.off = other
      BY <1>2, <2>2, <2>3, <3>1, <3>2 DEF Banks
    <3>4. c = <<cur.blk, cur.off + other>>
      BY <1>2, <2>2, <2>3, <3>1, <3>3 DEF Banks
    <3>5. sram'[other] = nor[c]
      BY <1>1, <2>2, <3>4 DEF StoreType
    <3> QED BY <2>1, <2>5, <3>3, <3>5
  <2>6. CASE ~Covers(act, c) /\ ~Covers(cur, c)
    BY <2>1, <2>6
  <2> QED
    BY <2>4, <2>5, <2>6
<1>7. AFlash' = [c \in Cells |-> IF Covers(Held, c) THEN AWork[c[2] - Held.off]
                                                    ELSE AFlash[c]]
  BY <1>3, <1>5, <1>6 DEF AFlash
<1> QED
  BY <1>3, <1>7, UnloadMaps

\* Erasing what SRAM has a copy of.
LEMMA EraseStepMaps ==
  ASSUME RefineInv, EraseStep
  PROVE  StoreStep
<1>1. /\ Control /\ StoreType /\ pc = "erase" /\ pc' \in {"erase", "write"}
      /\ sram' = sram /\ cur' = cur /\ UNCHANGED settings
      /\ nor' = Erased(SectorOf(<<cur.blk, cur.off + i>>))
  BY DEF RefineInv, SwitchInv, EraseStep
<1>2. /\ cur.off \in Banks /\ cur.len \in 1..Size /\ i \in 0..(cur.len - 1) /\ Size \in Nat
      /\ cur.off % 2 = 0 /\ cur.len % 2 = 0
  BY <1>1, CopyShape DEF Switching, BackingUp
<1>3. \A c \in SectorOf(<<cur.blk, cur.off + i>>) : Covers(cur, c)
  BY <1>2 DEF SectorOf, Covers, Banks
<1>4. \A c \in Cells : FlashCopy(c)' = FlashCopy(c)
  BY <1>1, <1>3 DEF FlashCopy, Covers, Erased
<1>5. Held = None /\ Held' = None /\ AMem' = AMem
  BY <1>1 DEF Held, AMem, settings
<1> QED
  BY <1>4, <1>5, StutterMaps DEF Mapped, AFlash, AWork

\* The last bank written: flash has what SRAM had.
LEMMA WriteStepMaps ==
  ASSUME RefineInv, WriteStep
  PROVE  StoreStep
<1> DEFINE here == <<cur.blk, cur.off + i>>
<1>1. /\ Control /\ StoreType /\ BlankAhead /\ CopiedSoFar
      /\ pc = "write" /\ sram' = sram
      /\ nor' = [nor EXCEPT ![here] = Programmed(nor[here], sram[i])]
  BY DEF RefineInv, SwitchInv, WriteStep
<1>2. /\ cur.off \in Banks /\ cur.len \in 1..Size /\ i \in 0..(cur.len - 1) /\ Size \in Nat
      /\ cur.blk \in Blocks /\ goal \in Goals
  BY <1>1, CopyShape DEF Switching, BackingUp
<1>3. Covers(cur, here) /\ here \in Cells
  BY <1>1, <1>2, JobCell DEF Covers, Banks, Switching, BackingUp
<1>4. Held = None
  BY <1>1 DEF Held
<1>5. CASE i + 1 < cur.len
  <2>1. pc' = pc /\ cur' = cur /\ UNCHANGED settings
    BY <1>5 DEF WriteStep
  <2>2. \A c \in Cells : FlashCopy(c)' = FlashCopy(c)
    BY <1>1, <1>3, <2>1 DEF FlashCopy, Covers, StoreType
  <2>3. Held' = None /\ AMem' = AMem
    BY <1>1, <2>1 DEF Held, AMem, settings
  <2> QED
    BY <1>4, <2>2, <2>3, StutterMaps DEF Mapped, AFlash, AWork
<1>6. CASE ~(i + 1 < cur.len)
  <2>1. SetActive(None) /\ pc' \notin Copying
    BY <1>1, <1>2, <1>6, AfterSwitchKinds DEF WriteStep, Copying
  <2>2. Held' = None /\ AMem' = AMem
    BY <2>1 DEF Held, AMem, SetActive
  <2>3. nor'[here] = sram[i]
    <3>1. nor[here] = Blank
      BY <1>1, <1>2 DEF BlankAhead
    <3> QED
      BY <1>1, <1>3, <3>1 DEF StoreType, Programmed
  <2>4. ASSUME NEW c \in Cells PROVE nor'[c] = FlashCopy(c)
    <3>1. CASE ~Covers(cur, c)
      BY <1>1, <1>3, <3>1 DEF FlashCopy, StoreType
    <3>2. CASE Covers(cur, c)
      <4> DEFINE k == c[2] - cur.off
      <4>1. c = <<cur.blk, cur.off + k>> /\ k \in 0..i
        BY <1>2, <1>6, <3>2 DEF Covers, Cells, Banks
      <4>2. CASE k = i
        BY <1>1, <2>3, <3>2, <4>1, <4>2 DEF FlashCopy
      <4>3. CASE k # i
        <5>1. k \in 0..(i - 1)
          BY <4>1, <4>3, <1>2
        <5>2. nor[c] = sram[k]
          BY <1>1, <4>1, <5>1 DEF CopiedSoFar
        <5>3. c # here
          <6>1. cur.off + k # cur.off + i
            <7> HIDE DEF k
            <7> QED BY <1>2, <5>1 DEF Banks
          <6> QED
            BY <4>1, <6>1
        <5>4. nor'[c] = nor[c]
          BY <1>1, <5>3 DEF StoreType
        <5> QED
          BY <1>1, <3>2, <5>2, <5>4 DEF FlashCopy
      <4> QED
        BY <4>2, <4>3
    <3> QED
      BY <3>1, <3>2
  <2>5. AFlash' = AFlash
    BY <2>1, <2>4, CalmViewsNext DEF AFlash
  <2> QED
    BY <1>4, <2>2, <2>5, StutterMaps DEF Mapped, AWork
<1> QED
  BY <1>5, <1>6

\* The last bank read: the store checks the region out.
LEMMA RestoreStepMaps ==
  ASSUME RefineInv, RestoreStep
  PROVE  StoreStep
<1>1. /\ Control /\ StoreType /\ CopiedSoFar
      /\ pc = "restore" /\ nor' = nor /\ act = None /\ tgt \in Launchable /\ cur = tgt
      /\ sram' = [sram EXCEPT ![i] = nor[<<cur.blk, cur.off + i>>]]
  BY DEF RefineInv, SwitchInv, RestoreStep, Control, JobAgrees
<1>2. /\ cur.off \in Banks /\ cur.len \in 1..Size /\ i \in 0..(cur.len - 1) /\ Size \in Nat
      /\ cur.blk \in Blocks /\ goal \in Goals /\ cur.off + cur.len <= Size /\ cur \in Regions
  BY <1>1, CopyShape DEF Switching, BackingUp
<1>3. Held = None /\ pc \notin Copying
  BY <1>1, HeldShape DEF Copying
<1>4. CASE i + 1 < cur.len
  <2>1. pc' = pc /\ UNCHANGED settings
    BY <1>4 DEF WriteStep, RestoreStep
  <2>2. UNCHANGED <<saved, Held>> /\ pc' \notin Copying
    BY <1>1, <2>1 DEF settings, Held, Copying
  <2> QED
    BY <1>1, <1>3, <2>2, QuietStep
<1>5. CASE ~(i + 1 < cur.len)
  <2>1. act' = cur /\ saved' = saved /\ pc' \notin Copying
    BY <1>1, <1>2, <1>5, AfterSwitchKinds DEF RestoreStep, SetActive, Copying
  <2>2. /\ Held' = cur /\ cur # None
        /\ UNCHANGED <<AFlash, AMem>> /\ AFlash = [c \in Cells |-> nor[c]]
        /\ AWork' = [b \in 0..(cur.len - 1) |-> sram'[b]]
    BY <1>1, <1>2, <1>3, <2>1, HeldShape, CalmViews, CalmViewsNext DEF AMem
  <2>3. ASSUME NEW b \in 0..(cur.len - 1) PROVE sram'[b] = AFlash[<<cur.blk, cur.off + b>>]
    <3>1. <<cur.blk, cur.off + b>> \in Cells /\ b \in Banks /\ b \in 0..i
      BY <1>2, <1>5 DEF Cells, Banks
    <3>2. CASE b = i
      BY <1>1, <2>2, <3>1, <3>2 DEF StoreType
    <3>3. CASE b # i
      <4>1. b \in 0..(i - 1)
        BY <1>2, <3>1, <3>3
      <4>2. nor[<<cur.blk, cur.off + b>>] = sram[b]
        BY <1>1, <4>1 DEF CopiedSoFar
      <4> QED
        BY <1>1, <2>2, <3>1, <3>3, <4>2 DEF StoreType
    <3> QED
      BY <3>2, <3>3
  <2> QED
    BY <1>2, <1>3, <2>2, <2>3, LoadMaps
<1> QED
  BY <1>4, <1>5

-----------------------------------------------------------------------------
\* Unchanged SRAM is unchanged work.
LEMMA CalmSame ==
  ASSUME pc \notin Copying, pc' \notin Copying, UNCHANGED <<Held, sram>>
  PROVE  AWork' = AWork /\ (nor' = nor => AFlash' = AFlash)
<1>1. AWork' = IF Held = None THEN [b \in {} |-> Blank]
                              ELSE [b \in 0..(Held.len - 1) |-> sram[b]]
  <2>1. Held' = Held /\ sram' = sram
    OBVIOUS
  <2>2. AWork' = IF Held' = None THEN [b \in {} |-> Blank]
                                 ELSE [b \in 0..(Held'.len - 1) |-> sram'[b]]
    BY CalmViewsNext
  <2> QED
    BY <2>1, <2>2
<1>2. AWork' = AWork
  BY <1>1, CalmWork
<1>3. nor' = nor => AFlash' = AFlash
  BY CalmViews, CalmViewsNext
<1> QED
  BY <1>2, <1>3

\* settings_save: the store remembers what is held.
LEMMA SaveMaps ==
  ASSUME RefineInv, Save
  PROVE  StoreStep
<1>1. /\ Control /\ RecordAgrees /\ pc = "save" /\ pc' \in {"game", "menu"}
      /\ nor' = nor /\ sram' = sram /\ act' = act
      /\ saved' = IF changed THEN Persisted ELSE saved
  BY DEF RefineInv, SwitchInv, Save, store
<1>2. pc \notin Copying /\ pc' \notin Copying /\ Held' = Held
  BY <1>1 DEF Copying, Held
<1>3. CASE changed
  <2>1. UNCHANGED <<AFlash, AWork>>
    BY <1>1, <1>2, CalmSame
  <2>2. saved' = Persisted
    BY <1>1, <1>3
  <2>3. AMem' = Held
    BY <1>1, <1>2, <2>2, HeldShape, CalmViews, CalmViewsNext DEF Persisted
  <2> QED
    BY <1>2, <2>1, <2>3, RememberMaps
<1>4. CASE ~changed
  BY <1>1, <1>2, <1>4, QuietStep
<1> QED
  BY <1>3, <1>4

LEMMA ScratchMaps ==
  ASSUME RefineInv, Scratch
  PROVE  StoreStep
<1>1. /\ Control /\ pc = "scratch" /\ pc' \in {"menu", "save"} /\ nor' = nor
      /\ UNCHANGED settings /\ act.blk \notin Blocks
  BY DEF RefineInv, SwitchInv, Scratch, Control, SettingsAgree
<1>2. Held = None /\ Held' = None /\ saved' = saved
  BY <1>1 DEF Held, Regions, settings
<1> QED
  BY <1>1, <1>2, QuietStep DEF Copying

\* Erasing flash while nothing of it is held.
LEMMA WipeMaps ==
  ASSUME StoreType, pc \notin Copying, pc' \notin Copying, NEW C,
         nor' = Erased(C), saved' = saved,
         \/ Held' = None
         \/ /\ UNCHANGED <<Held, sram>>
            /\ \A c \in C : ~Covers(Held, c)
  PROVE  StoreStep
<1>1. nor' \in [Cells -> Content]
  BY ErasedType
<1>2. /\ AFlash = [c \in Cells |-> nor[c]] /\ AFlash' = [c \in Cells |-> nor'[c]]
      /\ AMem' = AMem
  BY CalmViews, CalmViewsNext DEF AMem
<1>3. \A c \in Cells : AFlash'[c] = IF c \in C THEN Blank ELSE AFlash[c]
  BY <1>2 DEF Erased
<1>4. AFlash' \in [Cells -> Content]
  BY <1>1, <1>2
<1>5. CASE Held' = None
  BY <1>2, <1>3, <1>4, <1>5, EraseMaps
<1>6. CASE /\ UNCHANGED <<Held, sram>>
           /\ \A c \in C : ~Covers(Held, c)
  <2>1. AWork' = AWork
    BY <1>6, CalmSame
  <2> QED
    BY <1>2, <1>3, <1>4, <1>6, <2>1, EraseMaps
<1> QED
  BY <1>5, <1>6

LEMMA MenuMaps ==
  ASSUME RefineInv, RefineInv', MenuStep
  PROVE  StoreStep
<1>0. Control /\ StoreType /\ Control' /\ StoreType' /\ Apart
  BY DEF RefineInv, SwitchInv
<1>n. None \notin Regions /\ FirstBoot \notin Regions
  BY <1>0, HeldShape
<1>m. "menu" \notin Copying /\ "ask" \notin Copying /\ "save" \notin Copying
  BY DEF Copying
<1>1. ASSUME NEW t \in Launchable \cup Unmapped, Launch(t) PROVE StoreStep
  BY <1>0, <1>1, SwitchStep DEF Launch, store, Goals
<1>2. ASSUME NEW g \in {"menu", "scratch", "wipe"}, Unload(g) PROVE StoreStep
  BY <1>0, <1>2, SwitchStep DEF Unload, store, Goals
<1>3. ASSUME NEW resolves \in BOOLEAN, LaunchPlain(resolves) PROVE StoreStep
  <2>1. /\ pc = "menu" /\ pc' = "save" /\ nor' = nor /\ sram' = sram /\ saved' = saved
        /\ act' = act \/ (act = FirstBoot /\ act' = None)
    BY <1>3 DEF LaunchPlain, store, settings, SetActive
  <2>2. Held' = Held
    BY <2>1, <1>n DEF Held
  <2> QED BY <2>1, <2>2, <1>m, QuietStep
<1>4. CASE SaveSettings \/ TouchSettings
  <2>1. /\ pc = "menu" /\ pc' \in {"menu", "save"} /\ nor' = nor /\ sram' = sram
        /\ saved' = saved /\ act' = act
    BY <1>4 DEF SaveSettings, TouchSettings, store, settings
  <2>2. Held' = Held
    BY <2>1 DEF Held
  <2> QED BY <2>1, <2>2, <1>m, QuietStep
<1>5. CASE Discard \/ ForceSram
  <2>1. /\ pc = "menu" /\ pc' = "menu" /\ nor' = nor /\ saved' = saved
        /\ act' \in {None, FirstBoot}
    BY <1>5 DEF Discard, ForceSram, store, SetActive
  <2>2. Held' = None
    BY <2>1, <1>n DEF Held
  <2> QED BY <2>1, <2>2, <1>m, GiveUpStep
<1>6. ASSUME NEW b \in Blocks, EraseBlock(b) PROVE StoreStep
  <2> DEFINE C == {c \in Cells : c[1] = b}
  <2>1. pc = "menu" /\ pc' = "menu" /\ nor' = Erased(C)
    BY <1>6 DEF EraseBlock
  <2>2. CASE act.blk = b
    <3>1. saved' = saved /\ act' = None
      BY <1>6, <2>2 DEF EraseBlock, SetActive
    <3>2. Held' = None
      BY <3>1, <1>n DEF Held
    <3> QED
      BY <2>1, <3>1, <3>2, <1>0, <1>m, WipeMaps
  <2>3. CASE act.blk # b
    <3>1. saved' = saved /\ act' = act /\ sram' = sram
      BY <1>6, <2>3 DEF EraseBlock, settings
    <3>2. Held' = Held
      BY <2>1, <3>1 DEF Held
    <3>3. Held.blk # b
      BY <2>3, Kinds DEF Held
    <3>4. \A c \in C : ~Covers(Held, c)
      BY <3>3 DEF Covers
    <3> QED
      BY <2>1, <3>1, <3>2, <3>4, <1>0, <1>m, WipeMaps
  <2> QED
    BY <2>2, <2>3
<1>7. CASE EraseAll
  <2>1. /\ pc = "menu" /\ pc' = "menu" /\ nor' = Erased(Cells) /\ saved' = saved
        /\ act' = None
    BY <1>7 DEF EraseAll, SetActive
  <2>2. Held' = None
    BY <2>1, <1>n DEF Held
  <2> QED
    BY <2>1, <2>2, <1>0, <1>m, WipeMaps
<1>8. CASE FirstBootAnswer
  <2>1. /\ pc = "ask" /\ pc' = "menu" /\ act = FirstBoot /\ act' = act /\ saved' = saved
        /\ nor' = nor \/ nor' = Erased(Cells)
    BY <1>0, <1>8 DEF FirstBootAnswer, settings, Apart
  <2>2. Held = None /\ Held' = None
    BY <2>1, <1>n DEF Held
  <2>3. CASE nor' = nor
    BY <2>1, <2>2, <2>3, <1>m, QuietStep
  <2>4. CASE nor' = Erased(Cells)
    BY <2>1, <2>2, <2>4, <1>0, <1>m, WipeMaps
  <2> QED
    BY <2>1, <2>3, <2>4
<1>9. CASE Revert \/ FactoryReset
  <2>1. /\ pc = "menu" /\ pc' \in {"menu", "ask"} /\ nor' = nor /\ act' = saved'
        /\ saved' = saved \/ saved' = FirstBoot
        /\ Lapsed
    BY <1>9 DEF Revert, FactoryReset, LoadSettings, store
  <2>2. lapses' # lapses
    BY <2>1 DEF RefineInv, SwitchInv, BoundsType, Lapsed
  <2>3. pc \notin Copying /\ pc' \notin Copying
    BY <2>1, <1>m
  <2>4. Held' = AMem' /\ AMem' \in {AMem, None}
    BY <2>1, <2>3, <1>n, CalmViewsNext DEF AMem
  <2>5. AFlash' = AFlash /\ AFlash' \in [Cells -> Content]
    BY <2>1, <2>3, <1>0, CalmViews, CalmViewsNext DEF StoreType
  <2>6. Held' # None => AWork' \in [0..(Held'.len - 1) -> Content]
    BY <1>0, <2>3, WorkType
  <2> QED
    BY <2>2, <2>4, <2>5, <2>6, LapseMaps
<1> QED
  BY <1>1, <1>2, <1>3, <1>4, <1>5, <1>6, <1>7, <1>8, <1>9 DEF MenuStep

\* The running program writes: to its region, or to SRAM that nobody holds.
LEMMA GameWriteMaps ==
  ASSUME RefineInv, NEW b \in Banks, NEW v \in Values, GameWrite(b, v)
  PROVE  StoreStep
<1>1. /\ Control /\ StoreType /\ UnmappedAgrees /\ pc = "game" /\ b < run.len
      /\ pc' = pc /\ nor' = nor /\ sram' = [sram EXCEPT ![b] = v]
      /\ UNCHANGED settings
  BY DEF RefineInv, SwitchInv, GameWrite
<1>2. /\ pc \notin Copying /\ pc' \notin Copying /\ UNCHANGED <<saved, Held>>
  BY <1>1 DEF Copying, settings, Held
<1>3. CASE Held = None
  BY <1>1, <1>2, <1>3, QuietStep
<1>4. CASE Held # None
  <2>1. Held = act /\ act \in Launchable /\ act.blk \in Blocks
    BY <1>1, <1>4, HeldShape, Kinds
  <2>2. act = run
    <3>1. run.blk \in Blocks \/ run.len = 0
      BY <1>1, <2>1 DEF UnmappedAgrees
    <3>2. run.len # 0
      BY <1>1 DEF Banks
    <3> QED
      BY <1>1, <3>1, <3>2 DEF Control, LaunchAgrees
  <2>3. v \in Content /\ act.len \in 1..Size /\ Size \in Nat
    BY <2>1, SwitchAssumption, LaunchableShape, Kinds
  <2>4. /\ AWork = [k \in 0..(act.len - 1) |-> sram[k]]
        /\ AWork' = [k \in 0..(act.len - 1) |-> sram'[k]]
        /\ UNCHANGED <<AFlash, AMem>>
    BY <1>1, <1>2, <1>4, <2>1, CalmViews, CalmWork, CalmViewsNext DEF AMem
  <2>5. b \in 0..(act.len - 1) /\ DOMAIN AWork = 0..(act.len - 1)
    BY <1>1, <2>2, <2>3, <2>4 DEF Banks
  <2>6. \A k \in 0..(act.len - 1) : sram'[k] = IF k = b THEN v ELSE sram[k]
    BY <1>1, <2>3 DEF StoreType, Banks
  <2>7. AWork' = [AWork EXCEPT ![b] = v]
    BY <2>4, <2>5, <2>6
  <2> QED
    BY <1>2, <1>4, <2>3, <2>4, <2>5, <2>7, WriteMaps
<1> QED
  BY <1>3, <1>4

-----------------------------------------------------------------------------
\* A power cut is a lapse; while a program runs it is a stutter.
LEMMA PowerCycleMaps ==
  ASSUME RefineInv, RefineInv', PowerCycle
  PROVE  StoreStep
<1>0. Control /\ StoreType /\ Control' /\ StoreType' /\ RecordAgrees
  BY DEF RefineInv, SwitchInv
<1>n. None \notin Regions /\ FirstBoot \notin Regions
      /\ \A b \in Blocks : HalfWritten(b) \notin Regions
  BY <1>0, HeldShape, Kinds
<1>1. /\ pc' \notin Copying /\ act' = saved' /\ saved' \in RecordInFlight
      /\ nor' \in {nor, Ripped(nor, NorInFlight)}
      /\ sram' \in {sram, Ripped(sram, SramInFlight)}
  BY DEF PowerCycle, LoadSettings, Copying
<1>2. Held' = AMem'
  BY <1>1, CalmViewsNext
<1>3. CASE pc = "game"
  <2>1. ~changed /\ saved' = saved /\ saved = Persisted
    BY <1>0, <1>1, <1>3 DEF Control, SettingsAgree, RecordInFlight, RecordAgrees
  <2>2. nor' = nor /\ sram' = sram
    <3>1. \A f, D : f = [x \in D |-> f[x]] => f = Ripped(f, {})
      BY DEF Ripped
    <3>2. NorInFlight = {} /\ SramInFlight = {}
      BY <1>3 DEF NorInFlight, SramInFlight
    <3>3. nor = Ripped(nor, {}) /\ sram = Ripped(sram, {})
      BY <1>0 DEF StoreType, Ripped
    <3> QED
      BY <1>1, <3>2, <3>3
  <2>3. pc \notin Copying
    BY <1>3 DEF Copying
  <2>4. Held = IF act \in Regions THEN act ELSE None
    BY <2>3, CalmViews
  <2>5. Held' = Held
    BY <2>1, <2>4, <1>1, <1>n, CalmViewsNext DEF Persisted
  <2> QED
    BY <1>1, <2>1, <2>2, <2>3, <2>5, QuietStep
<1>4. CASE pc # "game"
  <2>1. lapses' # lapses
    BY <1>4 DEF PowerCycle, Lapsed, RefineInv, SwitchInv, BoundsType
  <2>2. Held' \in {Held, AMem, None}
    <3>1. CASE pc = "save"
      <4>1. Held = IF act \in Regions THEN act ELSE None
        BY <3>1, CalmViews DEF Copying
      <4>2. saved' \in {saved, Persisted, FirstBoot, None} \cup {HalfWritten(b) : b \in Blocks}
        BY <1>1 DEF RecordInFlight
      <4> QED
        BY <4>1, <4>2, <1>2, <1>n, CalmViewsNext, <1>1 DEF AMem, Persisted
    <3>2. CASE pc # "save"
      BY <3>2, <1>1, <1>2 DEF RecordInFlight, AMem
    <3> QED
      BY <3>1, <3>2
  <2>3. Held' # None => AWork' \in [0..(Held'.len - 1) -> Content]
    BY <1>0, <1>1, WorkType
  <2>4. AFlash' = [c \in Cells |-> nor'[c]] /\ AFlash' \in [Cells -> Content]
    BY <1>0, <1>1, CalmViewsNext DEF StoreType
  <2>5. ASSUME NEW c \in Cells, ~SectorCovers(AMem, c)
        PROVE  nor'[c] = FlashCopy(c)
    <3>1. CASE pc \notin {"erase", "write"}
      <4>1. NorInFlight = {} /\ FlashCopy(c) = nor[c]
        BY <3>1 DEF NorInFlight, FlashCopy
      <4> QED
        BY <1>0, <1>1, <4>1 DEF StoreType, Ripped
    <3>2. CASE pc \in {"erase", "write"}
      <4>1. /\ cur = BackupRegion(act) /\ act \in Launchable
            /\ cur.off \in Banks /\ cur.len \in 1..Size /\ i \in 0..(cur.len - 1)
            /\ cur.off % 2 = 0 /\ cur.len % 2 = 0 /\ Size \in Nat
        BY <1>0, <3>2, CopyShape DEF Switching, BackingUp
      <4>2. act \in Regions /\ act.blk \in Blocks /\ act.off \in Banks /\ act.len \in 1..Size
        BY <4>1, LaunchableShape
      <4>3. AMem = act
        BY <1>0, <3>2, <4>2 DEF Control, SettingsAgree, BackingUp, AMem
      <4>4. ~Covers(cur, c)
        <5> SUFFICES ASSUME Covers(cur, c) PROVE FALSE
          OBVIOUS
        <5>1. c[2] \in Banks
          BY DEF Cells
        <5>2. CASE act.len # 1
          <6>1. Covers(act, <<c[1], c[2]>>)
            BY <4>1, <5>2 DEF BackupRegion, Covers
          <6> QED
            BY <2>5, <4>3, <5>1, <6>1 DEF SectorCovers
        <5>3. CASE act.len = 1
          <6>1. cur = [blk |-> act.blk, off |-> act.off - (act.off % 2), len |-> 2]
            BY <4>1, <5>3 DEF BackupRegion
          <6>2. c[1] = act.blk /\ c[2] \in {act.off - (act.off % 2), act.off - (act.off % 2) + 1}
            BY <4>2, <5>1, <6>1 DEF Covers, Banks
          <6>3. act.off \div 2 = c[2] \div 2
            BY <4>2, <5>1, <6>2 DEF Banks
          <6>4. Covers(act, <<c[1], act.off>>)
            BY <4>2, <5>3, <6>2 DEF Covers, Banks
          <6> QED
            BY <2>5, <4>2, <4>3, <6>3, <6>4 DEF SectorCovers
        <5> QED
          BY <5>2, <5>3
      <4>5. \A x \in NorInFlight : Covers(cur, x)
        BY <3>2, <4>1 DEF NorInFlight, SectorOf, Covers, Banks
      <4>6. nor'[c] = nor[c]
        BY <1>0, <1>1, <4>4, <4>5 DEF StoreType, Ripped
      <4> QED
        BY <4>4, <4>6 DEF FlashCopy
    <3> QED
      BY <3>1, <3>2
  <2>6. \A c \in Cells : ~SectorCovers(AMem, c) => AFlash'[c] = AFlash[c]
    BY <2>4, <2>5 DEF AFlash
  <2> QED
    BY <1>2, <2>1, <2>2, <2>3, <2>4, <2>6, LapseMaps
<1> QED
  BY <1>3, <1>4

LEMMA InitMaps == Init => Store!Init
<1> SUFFICES ASSUME Init PROVE Store!Init
  OBVIOUS
<1>1. /\ pc = "ask" /\ act = FirstBoot /\ saved = FirstBoot /\ nor = NorAtStart
  BY DEF Init
<1>2. FirstBoot \notin Regions
  BY Kinds DEF Regions
<1>3. Held = None /\ AMem = None
  BY <1>1, <1>2 DEF Held, AMem
<1>4. AFlash \in [Cells -> Content]
  BY <1>1, SwitchAssumption DEF AFlash, FlashCopy
<1>5. AWork \in Store!Works(None)
  BY <1>3, NoWork, SameWorks
<1> QED
  BY <1>3, <1>4, <1>5, SameGeometry DEF Store!Init, AFlash, AWork, AMem

LEMMA StepMaps ==
  ASSUME RefineInv, RefineInv', [Next]_vars
  PROVE  StoreStep
<1>1. CASE CopyStep
  <2>1. CASE Wipe
    <3>1. /\ Control /\ StoreType /\ pc = "wipe" /\ pc' = "menu" /\ saved' = saved
          /\ act' = act /\ act.blk \notin Blocks
      BY <2>1 DEF RefineInv, SwitchInv, Wipe, Control, SettingsAgree, settings
    <3>2. Held' = None
      BY <3>1 DEF Held, Regions
    <3>3. \E C : nor' = Erased(C)
      BY <2>1 DEF Wipe
    <3> QED
      BY <3>1, <3>2, <3>3, WipeMaps DEF Copying
  <2> QED
    BY <1>1, <2>1, ShiftMaps, PartnerMaps, EraseStepMaps, WriteStepMaps, RestoreStepMaps,
       SaveMaps, ScratchMaps DEF CopyStep
<1>2. CASE UNCHANGED vars
  BY <1>2, StutterMaps DEF vars, store, settings, job, Mapped, AFlash, AWork, AMem, Held,
       FlashCopy, HeldBank
<1> QED
  BY <1>1, <1>2, MenuMaps, GameWriteMaps, PowerCycleMaps DEF Next

\* The bank-by-bank code implements the atomic store.
THEOREM StoreSpecTheorem == Spec => StoreSpec
<1>1. Init => Store!Init
  BY InitMaps
<1>2. RefineInv /\ RefineInv' /\ [Next]_vars
        => [Store!Next \/ (lapses' # lapses /\ Store!Lapse)]_(Store!vars)
  BY StepMaps DEF StoreStep
<1> QED
  BY <1>1, <1>2, RefineInvariant, PTL DEF Spec, StoreSpec
=============================================================================
