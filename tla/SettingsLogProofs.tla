------------------------- MODULE SettingsLogProofs -------------------------
(***************************************************************************)
(* Proofs about SettingsLog, for every length of the log.                  *)
(*                                                                         *)
(* The inductive invariant is the shape of the log: as long as no erase    *)
(* was cut off, there is a number k such that the slots up to k hold       *)
(* records, slot k + 1 holds nothing or the beginning of a magic, and the  *)
(* slots behind it are blank.  Then the scan finds slot k, and k is what   *)
(* settings_slot says, unless loading ended in settings_reset.             *)
(***************************************************************************)
EXTENDS SettingsLog, TLAPS

Shape(l, k) ==
  /\ k \in 0..LastSlot
  /\ \A s \in Slots : s <= k => l[s] \in Readable
  /\ \A s \in Slots : s = k + 1 => l[s] \in {Blank, PartMagic}
  /\ \A s \in Slots : s > k + 1 => l[s] = Blank

\* Where the code stands, when slot k is the newest record.
Position(k) ==
  /\ pc = "run" => slot = k \/ (slot = LastSlot /\ last = Blank)
  /\ pc = "record" => slot = k + 1
  /\ pc = "erase" /\ saving => k = LastSlot \/ last = Blank
  /\ pc = "bootstrap" => k = 0

LogInvariant ==
  ~cut => /\ last = Recovered(log)
          /\ \E k \in 0..LastSlot :
               /\ Shape(log, k)
               /\ Position(k)
               /\ k # 0 \/ pc = "record" => bootstrap

IInv == TypeOK /\ LogInvariant

-----------------------------------------------------------------------------
\* The constants' facts, and the shapes of the helpers' results.
LEMMA ConstantFacts ==
  /\ LastSlot \in Nat /\ LastSlot >= 1
  /\ Slots = 1..LastSlot
  /\ Blank \notin Readable /\ PartMagic \notin Readable /\ Garbage \notin Readable
  /\ TooNew \in Readable /\ TooNew \notin Settings /\ Blank \notin Settings
  /\ Blank # PartMagic /\ Garbage # Blank /\ Garbage # PartMagic
  /\ ResetSettings \in Settings
BY LogAssumption DEF LogAssumption, Slots, Readable, ResetSettings, Settings

LEMMA SettingsShapes ==
  ASSUME NEW s \in Settings
  PROVE  /\ Persisted(s) \in Settings
         /\ CutOff(s) \subseteq Settings
         /\ \A a \in Actives : Damaged(a) \in Settings
BY LogAssumption DEF LogAssumption, Persisted, CutOff, Damaged, Settings

LEMMA NewestType ==
  ASSUME NEW l
  PROVE  /\ Newest(l) \in 0..LastSlot
         /\ Newest(l) # 0 => Newest(l) \in Slots /\ Meets(l, Newest(l))
BY ConstantFacts DEF Newest

\* In a log of this shape the scan finds slot k.
LEMMA ScanFindsNewest ==
  ASSUME NEW l, NEW k, Shape(l, k)
  PROVE  Newest(l) = k
<1>1. CASE k = 0
  <2>1. \A s \in Slots : l[s] \notin Readable
    BY <1>1, ConstantFacts DEF Shape
  <2> QED
    BY <1>1, <2>1 DEF Newest, Meets
<1>2. CASE k # 0
  <2>1. k \in Slots /\ Meets(l, k)
    BY <1>2, ConstantFacts DEF Shape, Meets
  <2>2. \A s \in Slots : Meets(l, s) => s = k
    BY <2>1, ConstantFacts DEF Meets
  <2> QED
    BY <2>1, <2>2 DEF Newest
<1> QED
  BY <1>1, <1>2

LEMMA RecoveredType ==
  ASSUME NEW l
  PROVE  Recovered(l) \in Settings \cup {Blank}
BY NewestType DEF Recovered, Meets, Readable

\* What loading leaves in the variables, whatever is in the log.
LEMMA LoadType ==
  ASSUME NEW l, Load(l)
  PROVE  /\ local' \in Settings /\ slot' \in Slots /\ changed' \in BOOLEAN
         /\ slot' = Newest(l) \/ (slot' = LastSlot /\ Recovered(l) = Blank)
<1>1. CASE Recovered(l) = Blank
  BY <1>1, ConstantFacts DEF Load
<1>2. CASE Recovered(l) # Blank
  BY <1>2, NewestType, RecoveredType DEF Load, Recovered
<1> QED
  BY <1>1, <1>2

-----------------------------------------------------------------------------
LEMMA InitIInv == Init => IInv
<1> SUFFICES ASSUME Init PROVE IInv
  OBVIOUS
<1>1. PICK n \in 0..LastSlot :
        \E f \in [1..n -> Readable] : log = [s \in Slots |-> IF s <= n THEN f[s] ELSE Blank]
  BY DEF Init
<1>2. log \in [Slots -> Contents]
  BY <1>1, ConstantFacts DEF Contents
<1>3. Shape(log, n)
  BY <1>1, ConstantFacts DEF Shape
<1>4. Newest(log) = n
  BY <1>3, ScanFindsNewest
<1>5. last = Recovered(log) /\ last \in Settings \cup {Blank}
  BY RecoveredType DEF Init
<1>6. slot \in Slots /\ (slot = n \/ (slot = LastSlot /\ last = Blank))
  BY <1>4, <1>5, ConstantFacts, NewestType DEF Init, Recovered
<1>7. local \in Settings /\ changed \in BOOLEAN
  BY <1>5, ConstantFacts DEF Init
<1>8. n # 0 => bootstrap
  <2>1. n # 0 => log[1] # Blank
    BY <1>3, ConstantFacts DEF Shape
  <2>2. bootstrap = (log[1] # Blank)
    BY DEF Init
  <2> QED
    BY <2>1, <2>2
<1>9. TypeOK
  BY <1>2, <1>5, <1>6, <1>7 DEF TypeOK, Init
<1>10. Position(n)
  BY <1>6 DEF Position, Init
<1> QED
  BY <1>3, <1>5, <1>8, <1>9, <1>10 DEF IInv, LogInvariant, Init

-----------------------------------------------------------------------------
LEMMA ChangeIInv ==
  ASSUME IInv, Change
  PROVE  IInv'
BY DEF IInv, TypeOK, LogInvariant, Position, Shape, Change

LEMMA SaveIInv ==
  ASSUME IInv, Save
  PROVE  IInv'
<1>1. TypeOK'
  BY ConstantFacts DEF IInv, TypeOK, Save
<1>2. LogInvariant'
  <2> SUFFICES ASSUME ~cut PROVE LogInvariant'
    BY DEF Save, LogInvariant
  <2>1. PICK k \in 0..LastSlot : Shape(log, k) /\ Position(k) /\ (k # 0 \/ pc = "record" => bootstrap)
    BY DEF IInv, LogInvariant
  <2>2. last = Recovered(log)
    BY DEF IInv, LogInvariant
  <2>3. slot = k \/ (slot = LastSlot /\ last = Blank)
    BY <2>1 DEF Position, Save
  <2>4. Position(k)'
    BY <2>1, <2>3, ConstantFacts DEF Position, Save, IInv, TypeOK
  <2>5. pc' = "record" => k # 0
    BY <2>3, ConstantFacts DEF Save, IInv, TypeOK
  <2> QED
    BY <2>1, <2>2, <2>4, <2>5 DEF LogInvariant, Save, Shape
<1> QED
  BY <1>1, <1>2 DEF IInv

LEMMA FactoryResetIInv ==
  ASSUME IInv, FactoryReset
  PROVE  IInv'
BY DEF IInv, TypeOK, LogInvariant, Position, Shape, FactoryReset

LEMMA EraseLogIInv ==
  ASSUME IInv, EraseLog
  PROVE  IInv'
<1>1. log' = [s \in Slots |-> Blank] /\ last' = Blank /\ pc' = "bootstrap"
  BY DEF EraseLog
<1>2. Shape(log', 0)
  BY <1>1, ConstantFacts DEF Shape
<1>3. Newest(log') = 0
  BY <1>2, ScanFindsNewest
<1>4. last' = Recovered(log')
  BY <1>1, <1>3 DEF Recovered
<1>5. TypeOK'
  BY <1>1 DEF IInv, TypeOK, EraseLog, Contents
<1>6. Shape(log, 0)' /\ Position(0)' /\ 0 \in 0..LastSlot
  BY <1>1, <1>2, ConstantFacts DEF Position, Shape
<1>7. LogInvariant'
  BY <1>1, <1>4, <1>6 DEF LogInvariant
<1> QED
  BY <1>5, <1>7 DEF IInv

LEMMA WriteBootstrapIInv ==
  ASSUME IInv, WriteBootstrap
  PROVE  IInv'
<1>1. /\ log' = log /\ last' = last /\ cut' = cut /\ bootstrap' = TRUE
      /\ saving' = saving
  BY DEF WriteBootstrap
<1>2. CASE saving
  <2>1. slot' = 1 /\ pc' = "record"
    BY <1>2 DEF WriteBootstrap
  <2>2. TypeOK'
    BY <1>1, <1>2, <2>1, ConstantFacts DEF IInv, TypeOK, WriteBootstrap
  <2>3. LogInvariant'
    <3> SUFFICES ASSUME ~cut PROVE LogInvariant'
      BY <1>1 DEF LogInvariant
    <3>1. Shape(log, 0) /\ last = Recovered(log)
      BY DEF IInv, LogInvariant, Position, WriteBootstrap
    <3>2. Position(0)'
      BY <2>1 DEF Position
    <3> QED
      BY <1>1, <3>1, <3>2, ConstantFacts DEF LogInvariant, Shape
  <2> QED
    BY <2>2, <2>3 DEF IInv
<1>3. CASE ~saving
  <2>1. pc' = "run" /\ Load(log)
    BY <1>3 DEF WriteBootstrap
  <2>2. TypeOK'
    BY <1>1, <2>1, LoadType DEF IInv, TypeOK
  <2>3. LogInvariant'
    <3> SUFFICES ASSUME ~cut PROVE LogInvariant'
      BY <1>1 DEF LogInvariant
    <3>1. Shape(log, 0) /\ last = Recovered(log)
      BY DEF IInv, LogInvariant, Position, WriteBootstrap
    <3>2. slot' = 0 \/ (slot' = LastSlot /\ last' = Blank)
      BY <1>1, <2>1, <3>1, LoadType, ScanFindsNewest
    <3>3. Position(0)'
      BY <2>1, <3>2 DEF Position
    <3> QED
      BY <1>1, <3>1, <3>3, ConstantFacts DEF LogInvariant, Shape
  <2> QED
    BY <2>2, <2>3 DEF IInv
<1> QED
  BY <1>2, <1>3 DEF IInv, TypeOK

\* Slot k + 1 taken by a record, or by half of one.
LEMMA ShapeGrows ==
  ASSUME NEW l \in [Slots -> Contents], NEW k, Shape(l, k), k + 1 \in Slots, NEW c,
         c \in Readable \cup {Blank, PartMagic}
  PROVE  /\ [l EXCEPT ![k + 1] = c] \in [Slots -> Contents]
         /\ c \in Readable => Shape([l EXCEPT ![k + 1] = c], k + 1)
         /\ c \notin Readable => Shape([l EXCEPT ![k + 1] = c], k)
BY ConstantFacts DEF Shape, Contents

LEMMA WriteRecordIInv ==
  ASSUME IInv, WriteRecord
  PROVE  IInv'
<1> DEFINE new == Persisted(local)
<1>1. new \in Settings
  BY SettingsShapes DEF IInv, TypeOK
<1>2. /\ log' = [log EXCEPT ![slot] = Programmed(log[slot], new)]
      /\ last' = new /\ pc' = "run" /\ saving' = FALSE
      /\ UNCHANGED <<bootstrap, slot, local, cut>> /\ changed' = FALSE
  BY DEF WriteRecord
<1>3. Programmed(log[slot], new) \in Contents
  BY <1>1 DEF Programmed, Contents, Readable
<1>4. TypeOK'
  <2>1. log' \in [Slots -> Contents]
    BY <1>2, <1>3 DEF IInv, TypeOK
  <2> QED
    BY <1>1, <1>2, <2>1 DEF IInv, TypeOK
<1>5. LogInvariant'
  <2> SUFFICES ASSUME ~cut PROVE LogInvariant'
    BY <1>2 DEF LogInvariant
  <2>1. PICK k \in 0..LastSlot : Shape(log, k) /\ Position(k) /\ (k # 0 \/ pc = "record" => bootstrap)
    BY DEF IInv, LogInvariant
  <2>2. slot = k + 1 /\ k + 1 \in Slots
    BY <2>1 DEF Position, WriteRecord, IInv, TypeOK
  <2>3. Programmed(log[slot], new) = new
    BY <2>1, <2>2 DEF Shape, Programmed
  <2>4. Shape(log', k + 1)
    BY <1>1, <1>2, <2>1, <2>2, <2>3, ShapeGrows DEF IInv, TypeOK, Readable
  <2>5. Recovered(log') = new
    <3>1. Newest(log') = k + 1
      BY <2>4, ScanFindsNewest
    <3>2. log'[k + 1] = new /\ new # TooNew
      BY <1>1, <1>2, <2>2, <2>3, ConstantFacts DEF IInv, TypeOK
    <3> QED
      BY <2>2, <3>1, <3>2, ConstantFacts DEF Recovered
  <2>6. bootstrap
    BY <2>1 DEF WriteRecord
  <2>7. Position(k + 1)' /\ k + 1 \in 0..LastSlot
    BY <1>2, <2>2, ConstantFacts DEF Position
  <2> QED
    BY <1>2, <2>4, <2>5, <2>6, <2>7 DEF LogInvariant, Shape
<1> QED
  BY <1>4, <1>5 DEF IInv

LEMMA RevertIInv ==
  ASSUME IInv, Revert
  PROVE  IInv'
<1>1. /\ UNCHANGED <<log, bootstrap, pc, saving, last, cut>>
      /\ Load(log) /\ pc = "run"
  BY DEF Revert
<1>2. TypeOK'
  BY <1>1, LoadType DEF IInv, TypeOK
<1>3. LogInvariant'
  <2> SUFFICES ASSUME ~cut PROVE LogInvariant'
    BY <1>1 DEF LogInvariant
  <2>1. PICK k \in 0..LastSlot : Shape(log, k) /\ Position(k) /\ (k # 0 \/ pc = "record" => bootstrap)
    BY DEF IInv, LogInvariant
  <2>2. last = Recovered(log)
    BY DEF IInv, LogInvariant
  <2>3. slot' = k \/ (slot' = LastSlot /\ last = Blank)
    BY <1>1, <2>1, <2>2, LoadType, ScanFindsNewest
  <2>4. Position(k)'
    BY <1>1, <2>3 DEF Position
  <2> QED
    BY <1>1, <2>1, <2>2, <2>4 DEF LogInvariant, Shape
<1> QED
  BY <1>2, <1>3 DEF IInv

\* After a power cut, all that matters is that the log has kept its shape.
LEMMA ReloadIInv ==
  ASSUME NEW k \in 0..LastSlot, Shape(log', k), k # 0 => bootstrap',
         Load(log'), last' = Recovered(log'), pc' = "run"
  PROVE  LogInvariant'
<1>1. slot' = k \/ (slot' = LastSlot /\ last' = Blank)
  BY LoadType, ScanFindsNewest
<1>2. Position(k)'
  BY <1>1 DEF Position
<1> QED
  BY <1>2 DEF LogInvariant, Shape

LEMMA HalfErasedType ==
  ASSUME NEW l \in [Slots -> Contents], NEW m \in HalfErased(l)
  PROVE  m \in [Slots -> Contents]
<1>1. PICK h \in [Slots -> {"kept", "blank", "garbage", "damaged"}], a \in Actives :
        m = [s \in Slots |-> CASE h[s] = "kept" -> l[s]
                               [] h[s] = "blank" -> Blank
                               [] h[s] = "damaged" /\ l[s] \in Settings -> Damaged(a)
                               [] OTHER -> Garbage]
  BY DEF HalfErased
<1>2. Damaged(a) \in Contents
  BY LogAssumption DEF LogAssumption, Damaged, Contents, Readable, Settings
<1> QED
  BY <1>1, <1>2 DEF Contents

\* A record cut off anywhere is a readable one, or leaves the slot free.
LEMMA HalfProgrammedType ==
  ASSUME NEW old \in {Blank, PartMagic}, NEW new \in Settings,
         NEW c \in HalfProgrammed(old, new)
  PROVE  c \in Readable \cup {Blank, PartMagic}
BY SettingsShapes DEF HalfProgrammed, Programmed, Readable

LEMMA PowerCycleIInv ==
  ASSUME IInv, PowerCycle
  PROVE  IInv'
<1> DEFINE new == Persisted(local)
<1>1. Load(log') /\ last' = Recovered(log') /\ pc' = "run" /\ saving' = FALSE
  BY DEF PowerCycle
<1>2. new \in Settings
  BY SettingsShapes DEF IInv, TypeOK
<1>3. log' \in [Slots -> Contents] /\ bootstrap' \in BOOLEAN /\ cut' \in BOOLEAN
  <2>1. CASE pc = "erase"
    BY <2>1, HalfErasedType DEF PowerCycle, IInv, TypeOK
  <2>2. CASE pc = "bootstrap"
    BY <2>2 DEF PowerCycle, IInv, TypeOK
  <2>3. CASE pc = "record"
    <3>1. PICK c \in HalfProgrammed(log[slot], new) : log' = [log EXCEPT ![slot] = c]
      BY <2>3 DEF PowerCycle
    <3>2. c \in Contents
      BY <1>2, <3>1, SettingsShapes
      DEF HalfProgrammed, Programmed, Contents, Readable, IInv, TypeOK
    <3> QED
      BY <2>3, <3>1, <3>2 DEF PowerCycle, IInv, TypeOK
  <2>4. CASE pc = "run"
    BY <2>4 DEF PowerCycle, IInv, TypeOK
  <2> QED
    BY <2>1, <2>2, <2>3, <2>4 DEF IInv, TypeOK
<1>4. TypeOK'
  BY <1>1, <1>3, LoadType, RecoveredType DEF TypeOK
<1>5. LogInvariant'
  <2> SUFFICES ASSUME ~cut' PROVE LogInvariant'
    BY DEF LogInvariant
  <2>1. ~cut
    BY DEF PowerCycle, IInv, TypeOK
  <2>2. PICK k \in 0..LastSlot : Shape(log, k) /\ Position(k) /\ (k # 0 \/ pc = "record" => bootstrap)
    BY <2>1 DEF IInv, LogInvariant
  <2>3. CASE pc \in {"erase", "run"}
    <3>1. log' = log /\ bootstrap' = bootstrap
      BY <2>3 DEF PowerCycle, IInv, TypeOK
    <3> QED
      BY <1>1, <2>2, <3>1, ReloadIInv
  <2>4. CASE pc = "bootstrap"
    <3>1. log' = log /\ k = 0
      BY <2>2, <2>4 DEF PowerCycle, Position
    <3> QED
      BY <1>1, <2>2, <3>1, ReloadIInv
  <2>5. CASE pc = "record"
    <3>1. PICK c \in HalfProgrammed(log[slot], new) : log' = [log EXCEPT ![slot] = c]
      BY <2>5 DEF PowerCycle
    <3>2. slot = k + 1 /\ k + 1 \in Slots /\ bootstrap' /\ bootstrap
      BY <2>2, <2>5 DEF Position, PowerCycle, IInv, TypeOK
    <3>3. log[slot] \in {Blank, PartMagic}
      BY <2>2, <3>2 DEF Shape
    <3>4. c \in Readable \cup {Blank, PartMagic}
      BY <1>2, <3>1, <3>3, HalfProgrammedType
    <3>5. Shape(log', k + 1) \/ Shape(log', k)
      BY <2>2, <3>1, <3>2, <3>4, ShapeGrows DEF IInv, TypeOK
    <3>6. k + 1 \in 0..LastSlot
      BY <3>2, ConstantFacts
    <3> QED
      BY <1>1, <2>2, <3>2, <3>5, <3>6, ReloadIInv
  <2> QED
    BY <2>3, <2>4, <2>5 DEF IInv, TypeOK
<1> QED
  BY <1>4, <1>5 DEF IInv

-----------------------------------------------------------------------------
\* The invariant of every step.
THEOREM LogInvariantTheorem == Spec => []IInv
<1>1. ASSUME IInv, [Next]_vars
      PROVE  IInv'
  <2>1. CASE UNCHANGED vars
    BY <1>1, <2>1 DEF vars, IInv, TypeOK, LogInvariant, Position, Shape
  <2>2. CASE Next
    BY <1>1, <2>2, ChangeIInv, SaveIInv, FactoryResetIInv, RevertIInv, EraseLogIInv,
       WriteBootstrapIInv, WriteRecordIInv, PowerCycleIInv DEF Next
  <2> QED
    BY <1>1, <2>1, <2>2
<1> QED
  BY InitIInv, <1>1, PTL DEF Spec

\* Every variable keeps to its type.
THEOREM LogTypeCorrect == Spec => []TypeOK
BY LogInvariantTheorem, PTL DEF IInv

\* Loading brings back what was last saved, after any sequence of saves,
\* factory resets and power cuts that never cut off an erase.
THEOREM LoadsWhatWasSavedTheorem == Spec => []LoadsWhatWasSaved
<1>1. IInv => LoadsWhatWasSaved
  BY DEF IInv, LogInvariant, LoadsWhatWasSaved
<1> QED
  BY LogInvariantTheorem, <1>1, PTL

\* Records are only programmed into free slots.
THEOREM ProgramsFreeSlotTheorem == Spec => []ProgramsFreeSlot
<1>1. IInv => ProgramsFreeSlot
  BY ConstantFacts DEF IInv, TypeOK, LogInvariant, Position, Shape, ProgramsFreeSlot
<1> QED
  BY LogInvariantTheorem, <1>1, PTL

\* The last record stays readable until the next one is written, unless the
\* log is full.
THEOREM KeepsLastTheorem == Spec => []KeepsLastUntilWritten
<1>1. IInv => KeepsLastUntilWritten
  <2> SUFFICES ASSUME IInv, ~cut PROVE KeepsLastUntilWritten
    BY DEF KeepsLastUntilWritten
  <2>1. PICK k \in 0..LastSlot : Shape(log, k) /\ Position(k)
    BY DEF IInv, LogInvariant
  <2>2. ASSUME pc = "erase", saving, last # Blank
        PROVE  \A s \in Slots : log[s] # Blank
    BY <2>1, <2>2, ConstantFacts DEF Position, Shape
  <2> QED
    BY <2>2 DEF IInv, LogInvariant, KeepsLastUntilWritten
<1> QED
  BY LogInvariantTheorem, <1>1, PTL

\* A sector with settings in it can start CartFriend.
THEOREM BootsWhereSettingsAreTheorem == Spec => []BootsWhereSettingsAre
<1>1. IInv => BootsWhereSettingsAre
  <2> SUFFICES ASSUME IInv, ~cut, Newest(log) # 0 PROVE bootstrap
    BY DEF BootsWhereSettingsAre
  <2>1. PICK k \in 0..LastSlot : Shape(log, k) /\ (k # 0 => bootstrap)
    BY DEF IInv, LogInvariant
  <2> QED
    BY <2>1, ScanFindsNewest
<1> QED
  BY LogInvariantTheorem, <1>1, PTL

\* A power cut leaves the settings that were last saved, those being saved, a
\* part of these, or none.
LEMMA PowerCutStep ==
  ASSUME IInv, Next, pc # "run", pc' = "run", ~cut'
  PROVE  last' \in {last, Persisted(local), Blank} \cup CutOff(Persisted(local))
<1> DEFINE new == Persisted(local)
<1>1. CASE WriteBootstrap \/ WriteRecord
  BY <1>1 DEF WriteBootstrap, WriteRecord
<1>2. CASE PowerCycle
  <2>1. ~cut /\ last = Recovered(log) /\ last' = Recovered(log')
    BY <1>2 DEF PowerCycle, IInv, TypeOK, LogInvariant
  <2>2. CASE pc # "record"
    <3>1. log' = log
      BY <1>2, <2>2 DEF PowerCycle, IInv, TypeOK
    <3> QED
      BY <2>1, <3>1
  <2>3. CASE pc = "record"
    <3>1. PICK k \in 0..LastSlot : Shape(log, k) /\ Position(k)
      BY <2>1 DEF IInv, LogInvariant
    <3>2. PICK c \in HalfProgrammed(log[slot], new) : log' = [log EXCEPT ![slot] = c]
      BY <1>2, <2>3 DEF PowerCycle
    <3>3. slot = k + 1 /\ k + 1 \in Slots
      BY <2>3, <3>1 DEF Position, IInv, TypeOK
    <3>4. log[slot] \in {Blank, PartMagic}
      BY <3>1, <3>3 DEF Shape
    <3>5. new \in Settings /\ c \in Readable \cup {Blank, PartMagic}
      BY <3>2, <3>4, HalfProgrammedType, SettingsShapes DEF IInv, TypeOK
    <3>6. CASE c \in {Blank, PartMagic}
      <4>1. Shape(log', k)
        BY <3>1, <3>2, <3>3, <3>6, ConstantFacts, ShapeGrows DEF IInv, TypeOK
      <4>2. Newest(log') = k /\ Newest(log) = k
        BY <3>1, <4>1, ScanFindsNewest
      <4>3. k # 0 => log'[k] = log[k]
        BY <3>2, <3>3, ConstantFacts DEF IInv, TypeOK
      <4> QED
        BY <2>1, <4>2, <4>3 DEF Recovered
    <3>7. CASE c \in Readable
      <4>1. Newest(log') = k + 1 /\ log'[k + 1] = c
        BY <3>1, <3>2, <3>3, <3>7, ShapeGrows, ScanFindsNewest DEF IInv, TypeOK
      <4>2. k + 1 # 0
        BY <3>3, ConstantFacts
      <4>3. Recovered(log') = Blank \/ (Recovered(log') = c /\ c # TooNew)
        BY <4>1, <4>2 DEF Recovered
      <4>4. c \in {TooNew, new} \cup CutOff(new)
        BY <3>2, <3>4, <3>7, ConstantFacts DEF HalfProgrammed, Programmed
      <4> QED
        BY <2>1, <4>3, <4>4
    <3> QED
      BY <3>5, <3>6, <3>7
  <2> QED
    BY <2>2, <2>3
<1> QED
  BY <1>1, <1>2 DEF Next, Change, Save, FactoryReset, Revert, EraseLog

\* That is what the model of save data switching takes a cut-off save of the
\* settings to be.
THEOREM PowerCutIsContainedTheorem == Spec => PowerCutIsContained
<1>1. IInv /\ [Next]_vars =>
        [pc # "run" /\ pc' = "run" /\ ~cut' =>
           last' \in {last, Persisted(local), Blank} \cup CutOff(Persisted(local))]_vars
  BY PowerCutStep
<1> QED
  BY LogInvariantTheorem, <1>1, PTL DEF Spec, PowerCutIsContained
=============================================================================
