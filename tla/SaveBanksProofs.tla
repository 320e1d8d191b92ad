-------------------------- MODULE SaveBanksProofs ---------------------------
(***************************************************************************)
(* The address map of the save blocks keeps cells apart, keeps the two     *)
(* banks of an erase sector together and keeps clear of the settings log   *)
(* and the CartFriend image, and sram_erase erases what it is asked to,    *)
(* for any number of blocks that config.h could ask for; and the move to   *)
(* this map from the one of CartFriend 0.1.4, which names block 14, loses  *)
(* what MovesEverything says it loses and nothing else, for any number of  *)
(* power cuts.                                                             *)
(***************************************************************************)
EXTENDS SaveErase, SaveMigrate, TLAPS

\* Where a bank is, without the uint8_t arithmetic.
LEMMA BankValue ==
  ASSUME NEW l \in BOOLEAN, NEW s \in SaveBlocks, NEW b \in Subs
  PROVE  LET flat == 128 + 8 * s + b
         IN  /\ flat \in 128..247
             /\ SramGetBank(l, s, b) = IF ~l /\ flat >= 244 THEN flat + 2 ELSE flat
<1>1. s \in 0..14 /\ b \in 0..7
  BY SramSlotsAssumption DEF SaveBlocks, Subs, SubBanks
<1>2. 128 + 8 * s \in 128..240 /\ 128 + 8 * s + b \in 128..247
  BY <1>1
<1>3. U8(128 + 8 * s) = 128 + 8 * s /\ U8(128 + 8 * s + b) = 128 + 8 * s + b
  BY <1>2 DEF U8
<1>4. U8(128 + 8 * s + b + 2) = 128 + 8 * s + b + 2
  BY <1>2 DEF U8
<1> QED
  BY <1>2, <1>3, <1>4 DEF SramGetBank, SettingsBank

\* Two cells are never the same bank of the flash.
THEOREM BanksAreDistinct ==
  ASSUME NEW l \in BOOLEAN,
         NEW s1 \in SaveBlocks, NEW b1 \in Subs,
         NEW s2 \in SaveBlocks, NEW b2 \in Subs,
         SramGetBank(l, s1, b1) = SramGetBank(l, s2, b2)
  PROVE  s1 = s2 /\ b1 = b2
<1>1. /\ s1 \in Int /\ s2 \in Int /\ b1 \in 0..7 /\ b2 \in 0..7
  BY SramSlotsAssumption DEF SaveBlocks, Subs, SubBanks
<1>2. 8 * s1 + b1 = 8 * s2 + b2
  BY <1>1, BankValue
<1> QED
  BY <1>1, <1>2

\* A sector is a pair of banks of one block: its even bank is an even bank of
\* the block and its odd bank is the next.
LEMMA SectorsAreBankPairs ==
  ASSUME NEW l \in BOOLEAN, NEW s \in SaveBlocks, NEW b \in Subs
  PROVE  /\ SramGetBank(l, s, b) % 2 = b % 2
         /\ b % 2 = 0 => b + 1 \in Subs /\ SramGetBank(l, s, b + 1) = SramGetBank(l, s, b) + 1
<1>1. s \in 0..14 /\ b \in 0..7
  BY SramSlotsAssumption DEF SaveBlocks, Subs, SubBanks
<1>2. SramGetBank(l, s, b) % 2 = b % 2
  BY <1>1, BankValue
<1>3. ASSUME b % 2 = 0
      PROVE  b + 1 \in Subs /\ SramGetBank(l, s, b + 1) = SramGetBank(l, s, b) + 1
  <2>1. b + 1 \in Subs
    BY <1>1, <1>3 DEF Subs, SubBanks
  <2>2. 128 + 8 * s + b >= 244 <=> 128 + 8 * s + (b + 1) >= 244
    BY <1>1, <1>3
  <2> QED
    BY <1>1, <2>1, <2>2, BankValue
<1> QED
  BY <1>2, <1>3

\* Neither the settings log nor the CartFriend image is a save bank, in either
\* layout, and error_critical is out of reach.
LEMMA BanksAvoidTheRest ==
  ASSUME NEW l \in BOOLEAN, NEW s \in SaveBlocks, NEW b \in Subs
  PROVE  /\ SramGetBank(l, s, b) \notin SettingsBanks(l)
         /\ SramGetBank(l, s, b) < FirstProgramBank
         /\ SramGetBank(l, s, b) \in 128..255
         /\ ~BankOverflows(l, s, b)
BY BankValue DEF SettingsBanks, SettingsBank, LegacySettingsBank, FirstProgramBank, BankOverflows

-----------------------------------------------------------------------------
LEMMA ArgShape ==
  ASSUME TypeOK
  PROVE  /\ legacy \in BOOLEAN /\ i \in 0..255
         /\ \/ scope = ALL /\ bankOffset = 0 /\ bankSize = 8
            \/ /\ scope \in SaveBlocks
               /\ \/ bankOffset = 0 /\ bankSize = 8
                  \/ bankOffset \in {0, 4} /\ bankSize = 4
BY DEF TypeOK, EraseArgs, SubBanks

\* The iteration works on a cell that was asked for.
LEMMA CellAt ==
  ASSUME TypeOK, i < StepMax
  PROVE  /\ BlockAt \in SaveBlocks /\ SubAt \in Subs
         /\ <<BlockAt, SubAt>> \in Asked
         /\ SubAt % 2 = 0 => <<BlockAt, SubAt + 1>> \in Asked
         /\ StepMax \in 0..120
<1>1. CASE scope = ALL /\ bankOffset = 0 /\ bankSize = 8
  <2>1. StepMax = 8 * SramSlots /\ i < 8 * SramSlots /\ SramSlots \in 1..15 /\ i \in 0..255
    BY <1>1, ArgShape, SramSlotsAssumption DEF StepMax
  <2>2. BlockAt = i \div 8 /\ SubAt = i % 8
    BY <1>1, <2>1 DEF BlockAt, SubAt
  <2>3. BlockAt \in 0..(SramSlots - 1) /\ SubAt \in 0..7
    BY <2>1, <2>2
  <2>4. SubAt % 2 = 0 => SubAt + 1 \in 0..7
    <3>1. \A x \in 0..7 : x % 2 = 0 => x + 1 \in 0..7
      OBVIOUS
    <3> QED
      BY <2>3, <3>1
  <2> QED
    BY <1>1, <2>1, <2>3, <2>4 DEF SaveBlocks, Subs, SubBanks, Asked
<1>2. CASE /\ scope \in SaveBlocks
           /\ \/ bankOffset = 0 /\ bankSize = 8
              \/ bankOffset \in {0, 4} /\ bankSize = 4
  <2>1. scope # ALL /\ i \in 0..255
    BY <1>2, ArgShape, SramSlotsAssumption DEF SaveBlocks, ALL
  <2>2. StepMax = bankSize /\ BlockAt = scope /\ SubAt = i + bankOffset
    BY <2>1 DEF StepMax, BlockAt, SubAt
  <2>3. SubAt \in bankOffset..(bankOffset + bankSize - 1) /\ SubAt \in 0..7
    BY <1>2, <2>1, <2>2
  <2>4. SubAt % 2 = 0 => SubAt + 1 \in bankOffset..(bankOffset + bankSize - 1) /\ SubAt + 1 \in 0..7
    <3>1. \A x \in 0..7 : x % 2 = 0 => x + 1 \in 0..7 /\ (x \in 0..3 => x + 1 \in 0..3)
                                        /\ (x \in 4..7 => x + 1 \in 4..7)
      OBVIOUS
    <3> QED
      BY <1>2, <2>3, <3>1
  <2> QED
    BY <1>2, <2>2, <2>3, <2>4 DEF Subs, SubBanks, Asked
<1> QED
  BY <1>1, <1>2, ArgShape

EraseInv == TypeOK /\ erased \subseteq AskedBanks

LEMMA EraseStepInv ==
  ASSUME EraseInv, EraseOne
  PROVE  EraseInv'
<1>1. TypeOK /\ i < StepMax /\ UNCHANGED <<legacy, scope, bankOffset, bankSize>>
  BY DEF EraseInv, EraseOne
<1> DEFINE bank == SramGetBank(legacy, BlockAt, SubAt)
<1>2. legacy \in BOOLEAN /\ i \in 0..255
  BY <1>1, ArgShape
<1>3. /\ BlockAt \in SaveBlocks /\ SubAt \in Subs
      /\ <<BlockAt, SubAt>> \in Asked
      /\ SubAt % 2 = 0 => <<BlockAt, SubAt + 1>> \in Asked
  BY <1>1, CellAt
<1>4. /\ bank % 2 = SubAt % 2
      /\ SubAt % 2 = 0 => SramGetBank(legacy, BlockAt, SubAt + 1) = bank + 1
  BY <1>2, <1>3, SectorsAreBankPairs
<1>5. ErasedBy(bank) \subseteq AskedBanks
  <2>1. bank \in AskedBanks
    BY <1>3 DEF AskedBanks
  <2>2. SubAt % 2 = 0 => bank + 1 \in AskedBanks
    BY <1>3, <1>4 DEF AskedBanks
  <2> QED
    BY <1>4, <2>1, <2>2 DEF ErasedBy
<1>6. Asked' = Asked /\ AskedBanks' = AskedBanks
  BY <1>1 DEF Asked, AskedBanks
<1>7. erased' \subseteq AskedBanks'
  BY <1>5, <1>6 DEF EraseInv, EraseOne
<1>8. \A c \in Asked : c[1] \in SaveBlocks /\ c[2] \in Subs
  BY DEF Asked
<1>9. AskedBanks \subseteq 128..255
  BY <1>2, <1>8, BanksAvoidTheRest DEF AskedBanks
<1>10. i' \in 0..255
  BY <1>2 DEF EraseOne, U8
<1> QED
  BY <1>1, <1>6, <1>7, <1>9, <1>10 DEF EraseInv, TypeOK

\* The loop counts within its bound and erases only what lies in what was asked.
THEOREM EraseInvariant == Spec => []EraseInv
<1>1. Init => EraseInv
  BY DEF Init, EraseInv, TypeOK, EraseArgs
<1>2. EraseInv /\ [Next]_vars => EraseInv'
  BY EraseStepInv DEF Next, vars, EraseInv, TypeOK, AskedBanks, Asked
<1> QED
  BY <1>1, <1>2, PTL DEF Spec

\* sram_erase stays within the banks of the cells it was asked to erase, away
\* from the settings log and from the CartFriend image.
THEOREM ErasesOnlyWhatWasAskedTheorem == Spec => []ErasesOnlyWhatWasAsked
<1>1. EraseInv => ErasesOnlyWhatWasAsked
  <2> SUFFICES ASSUME EraseInv PROVE ErasesOnlyWhatWasAsked
    OBVIOUS
  <2>1. \A c \in Asked : c[1] \in SaveBlocks /\ c[2] \in Subs
    BY DEF Asked
  <2>2. legacy \in BOOLEAN
    BY DEF EraseInv, TypeOK
  <2>3. \A b \in AskedBanks : b \notin SettingsBanks(legacy) /\ b < FirstProgramBank
    BY <2>1, <2>2, BanksAvoidTheRest DEF AskedBanks
  <2> QED
    BY <2>3 DEF EraseInv, ErasesOnlyWhatWasAsked
<1> QED
  BY <1>1, EraseInvariant, PTL

\* error_critical(ERROR_CODE_SRAM_SLOT_OVERFLOW_UNKNOWN) is never reached.
THEOREM NeverOverflowsTheorem == Spec => []NeverOverflows
<1>1. EraseInv => NeverOverflows
  BY CellAt, BanksAvoidTheRest DEF EraseInv, TypeOK, NeverOverflows
<1> QED
  BY <1>1, EraseInvariant, PTL

\* The iteration that a cell has its turn in.
Turn(c) == IF scope = ALL THEN 8 * c[1] + c[2] ELSE c[2] - bankOffset

\* The loop has done the turns before i: with the driver calls for even banks the
\* next one too, with those for odd banks nothing.
TurnsDone ==
  /\ i <= StepMax
  /\ \A c \in Asked : Turn(c) < i => ErasedBy(SramGetBank(legacy, c[1], c[2])) \subseteq erased

\* Every cell that was asked for has one turn of the loop, and no other cell has it.
LEMMA TurnFacts ==
  ASSUME TypeOK, NEW c \in Asked
  PROVE  /\ c \in SaveBlocks \X Subs /\ c = <<c[1], c[2]>>
         /\ Turn(c) \in Nat /\ Turn(c) < StepMax /\ StepMax \in 0..120
         /\ Turn(c) = i => c = <<BlockAt, SubAt>>
         /\ c[2] % 2 # 0 => <<c[1], c[2] - 1>> \in Asked
<1>1. c \in SaveBlocks \X Subs /\ c = <<c[1], c[2]>> /\ c[1] \in 0..(SramSlots - 1) /\ c[2] \in 0..7
  BY DEF Asked, SaveBlocks, Subs, SubBanks
<1>2. SramSlots \in 1..15 /\ i \in 0..255
  BY ArgShape, SramSlotsAssumption
<1>3. CASE scope = ALL /\ bankOffset = 0 /\ bankSize = 8
  <2>1. /\ Turn(c) = 8 * c[1] + c[2] /\ StepMax = 8 * SramSlots
        /\ BlockAt = i \div 8 /\ SubAt = i % 8
    BY <1>2, <1>3 DEF Turn, StepMax, BlockAt, SubAt
  <2> DEFINE b == c[1]
             s == c[2]
  <2>2. Turn(c) = i => b = i \div 8 /\ s = i % 8
    <3>1. b \in 0..14 /\ s \in 0..7 /\ Turn(c) = 8 * b + s
      BY <1>1, <1>2, <2>1
    <3> HIDE DEF b, s
    <3>2. (8 * b + s) \div 8 = b /\ (8 * b + s) % 8 = s
      BY <3>1
    <3> QED
      BY <3>1, <3>2
  <2>3. c[2] % 2 # 0 => c[2] - 1 \in 0..7
    BY <1>1
  <2>4. c[2] % 2 # 0 => <<c[1], c[2] - 1>> \in Asked
    BY <1>1, <1>3, <2>3 DEF Asked, Subs, SubBanks
  <2> QED
    BY <1>1, <1>2, <2>1, <2>2, <2>4
<1>4. CASE /\ scope \in SaveBlocks
           /\ \/ bankOffset = 0 /\ bankSize = 8
              \/ bankOffset \in {0, 4} /\ bankSize = 4
  <2>1. scope # ALL
    BY <1>4, <1>2 DEF SaveBlocks, ALL
  <2>2. c[1] = scope /\ c[2] \in bankOffset..(bankOffset + bankSize - 1)
    BY <2>1 DEF Asked
  <2>3. /\ Turn(c) = c[2] - bankOffset /\ StepMax = bankSize
        /\ BlockAt = scope /\ SubAt = i + bankOffset
    BY <2>1 DEF Turn, StepMax, BlockAt, SubAt
  <2>4. \A x \in 0..7 : x % 2 # 0 => /\ x - 1 \in 0..7 /\ (x \in 0..3 => x - 1 \in 0..3)
                                     /\ (x \in 4..7 => x - 1 \in 4..7)
    OBVIOUS
  <2>5. c[2] % 2 # 0 => c[2] - 1 \in 0..7 /\ c[2] - 1 \in bankOffset..(bankOffset + bankSize - 1)
    BY <1>1, <1>4, <2>2, <2>4
  <2>6. c[2] % 2 # 0 => <<c[1], c[2] - 1>> \in Asked
    BY <1>1, <2>2, <2>5 DEF Asked, Subs, SubBanks
  <2> QED
    BY <1>1, <1>2, <1>4, <2>2, <2>3, <2>6
<1> QED
  BY <1>3, <1>4, ArgShape

LEMMA TurnStepInv ==
  ASSUME EraseInv, TurnsDone, EraseOne
  PROVE  TurnsDone'
<1>1. TypeOK /\ i < StepMax /\ UNCHANGED <<legacy, scope, bankOffset, bankSize>>
  BY DEF EraseInv, EraseOne
<1>2. i' = i + 1 /\ StepMax' = StepMax /\ i' <= StepMax
  BY <1>1, CellAt DEF EraseOne, U8, StepMax, TypeOK
<1>3. Asked' = Asked /\ erased' = erased \cup ErasedBy(SramGetBank(legacy, BlockAt, SubAt))
  BY <1>1 DEF Asked, EraseOne
<1>4. ASSUME NEW c \in Asked, Turn(c)' < i'
      PROVE  ErasedBy(SramGetBank(legacy, c[1], c[2])) \subseteq erased'
  <2>1. Turn(c)' = Turn(c)
    BY <1>1 DEF Turn
  <2>4. Turn(c) \in Nat
    BY <1>1, TurnFacts
  <2>5. i \in Int
    BY <1>1, ArgShape
  <2>2. CASE Turn(c) < i
    BY <1>3, <2>2 DEF TurnsDone
  <2>3. CASE Turn(c) = i
    <3>1. c = <<BlockAt, SubAt>>
      BY <1>1, <2>3, TurnFacts
    <3> QED
      BY <1>3, <3>1
  <2> QED
    BY <1>2, <1>4, <2>1, <2>2, <2>3, <2>4, <2>5
<1> QED
  BY <1>1, <1>2, <1>3, <1>4 DEF TurnsDone

\* What ErasesAllThatWasAsked says of the end of the loop of sram_erase, without that
\* there is one: the uint8_t counter does not step over its bound, and when it is there,
\* all of what was asked for is erased.
ErasedAtTheEnd == i <= StepMax /\ (i = StepMax => erased = AskedBanks)

\* A loop of sram_erase that ends has erased every bank it was asked for, and no other,
\* although the calls for odd banks do nothing.
THEOREM ErasedAtTheEndTheorem == Spec => []ErasedAtTheEnd
<1>1. Init => TurnsDone
  <2> SUFFICES ASSUME Init PROVE TurnsDone
    OBVIOUS
  <2>1. TypeOK /\ i = 0
    BY DEF Init, TypeOK, EraseArgs
  <2>2. ASSUME NEW c \in Asked PROVE ~(Turn(c) < i)
    <3>1. Turn(c) \in Nat
      BY <2>1, TurnFacts
    <3> QED
      BY <2>1, <3>1
  <2>3. 0 <= StepMax
    BY <2>1, ArgShape, SramSlotsAssumption DEF StepMax
  <2> QED
    BY <2>1, <2>2, <2>3 DEF TurnsDone
<1>2. EraseInv /\ TurnsDone /\ [Next]_vars => TurnsDone'
  <2> SUFFICES ASSUME EraseInv, TurnsDone, [Next]_vars PROVE TurnsDone'
    OBVIOUS
  <2>1. CASE EraseOne
    BY <2>1, TurnStepInv
  <2>2. CASE UNCHANGED vars
    BY <2>2 DEF vars, TurnsDone, Asked, Turn, StepMax
  <2> QED
    BY <2>1, <2>2 DEF Next
<1>3. EraseInv /\ TurnsDone => ErasedAtTheEnd
  <2> SUFFICES ASSUME EraseInv, TurnsDone, i = StepMax PROVE AskedBanks \subseteq erased
    BY DEF ErasedAtTheEnd, TurnsDone, EraseInv
  <2>1. TypeOK /\ legacy \in BOOLEAN
    BY DEF EraseInv, TypeOK
  <2>2. \A c \in Asked : ErasedBy(SramGetBank(legacy, c[1], c[2])) \subseteq erased
    BY <2>1, TurnFacts, ArgShape DEF TurnsDone
  <2>3. ASSUME NEW c \in Asked
        PROVE  SramGetBank(legacy, c[1], c[2]) \in erased
    <3>1. /\ c[1] \in SaveBlocks /\ c[2] \in Subs /\ c[2] \in 0..7
          /\ SramGetBank(legacy, c[1], c[2]) % 2 = c[2] % 2
      BY <2>1, SectorsAreBankPairs DEF Asked, Subs, SubBanks
    <3>2. CASE c[2] % 2 = 0
      BY <2>2, <3>1, <3>2 DEF ErasedBy
    <3>3. CASE c[2] % 2 # 0
      <4> DEFINE d == <<c[1], c[2] - 1>>
      <4>1. d \in Asked /\ d[1] = c[1] /\ d[2] = c[2] - 1
        BY <2>1, <3>3, TurnFacts
      <4>2. d[2] \in Subs /\ d[2] % 2 = 0 /\ d[2] + 1 = c[2]
        BY <3>1, <3>3, <4>1 DEF Asked
      <4>3. /\ SramGetBank(legacy, c[1], d[2]) % 2 = 0
            /\ SramGetBank(legacy, c[1], c[2]) = SramGetBank(legacy, c[1], d[2]) + 1
        BY <2>1, <3>1, <4>2, SectorsAreBankPairs
      <4> HIDE DEF d
      <4>4. SramGetBank(legacy, c[1], c[2]) \in ErasedBy(SramGetBank(legacy, d[1], d[2]))
        BY <4>1, <4>3 DEF ErasedBy
      <4> QED
        BY <2>2, <4>1, <4>4
    <3> QED
      BY <3>2, <3>3
  <2> QED
    BY <2>3 DEF AskedBanks
<1> QED
  BY <1>1, <1>2, <1>3, EraseInvariant, PTL DEF Spec

-----------------------------------------------------------------------------
(* SaveMigrate.                                                            *)

\* The two maps, as functions of a cell.
OldBank(b, s) == SramGetBank(TRUE, b, s)
NewBank(b, s) == SramGetBank(FALSE, b, s)

Contents == {Blank, Torn} \cup {Saved(b, s) : b \in SaveBlocks, s \in Subs}

\* Only save data is where no settings are; a settings record at the new place
\* ends the move.
NorTyped ==
  /\ \A x \in DOMAIN nor \ {SettingsBank, LegacySettingsBank} : nor[x] \in Contents
  /\ nor[LegacySettingsBank] \in Contents \cup {Record(owner)}
  /\ pc # "done" => nor[SettingsBank] \in Contents

\* A block other than the one that moves is active; it is backed up; block 14
\* is unloaded.
Active == owner \notin {None, Last}
Saving == pc \in {"erase", "write"} /\ legacyMap
Unloading == pc \in {"erase", "write"} /\ ~legacyMap

\* Which block is copied, under which map, what for, and whether the old
\* settings can still be read.
Control ==
  /\ Saving => blk = owner /\ Active /\ target = Last /\ OldSettings
  /\ Unloading =>
       /\ blk = Last /\ target = None
       /\ Active => begun # "nothing"
       /\ OldSettings <=> pc = "erase" /\ sub < 7
       /\ sub > 0 \/ pc = "write" => begun = "unload"
  /\ pc = "restore" =>
       /\ legacyMap /\ blk = Last /\ target = Last /\ owner # Last /\ OldSettings
       /\ sub > 0 => begun # "nothing"
  /\ pc = "moved" =>
       /\ legacyMap /\ act = Last /\ OldSettings
       /\ Active => begun # "nothing"
  /\ pc \in {"eraseLog", "record"} => begun = "unload" /\ act = None /\ ~OldSettings
  /\ pc = "done" => begun = "unload" /\ ~OldSettings

\* How far the loops over the banks of a block have come.
Progress ==
  /\ pc = "erase" => \A s \in Subs : s < sub + (sub % 2) => nor[Bank(s)] = Blank
  /\ pc = "write" => \A s \in Subs : s >= sub => nor[Bank(s)] = Blank

\* What the move starts from, at the first start and at the next.
Sources ==
  /\ begun # "unload" =>
       /\ OldSettings
       /\ owner # Last => \A s \in Subs : nor[OldBank(Last, s)] = Saved(Last, s)
  /\ owner # None /\ (begun = "nothing" \/ owner = Last) => \A s \in Subs : sram[s] = Saved(owner, s)
  /\ risked \subseteq {owner, Last}
  /\ risked # {} => begun # "nothing"

MoveInv == MigrateTypeOK /\ NorTyped /\ Control /\ Progress /\ Sources /\ OthersUntouched

\* Where the data of the active block is, unless a power cut has cost it: in
\* SRAM until its backup has ended, and then in its place.
OwnerKept ==
  Active /\ owner \notin risked =>
    /\ Saving \/ (pc = "boot" /\ OldSettings) => begun = "nothing"
    /\ pc = "write" /\ legacyMap => \A s \in Subs : s < sub => nor[OldBank(owner, s)] = Saved(owner, s)
    /\ Saving \/ (pc = "boot" /\ OldSettings) \/ InPlace(owner)

\* Where the data of block 14 is, unless a power cut has cost it.
Taken(n) == \A s \in Subs : s < n => sram[s] = Saved(Last, s)
LastKept ==
  Last \notin risked =>
    /\ pc = "restore" => Taken(sub)
    /\ pc = "moved" \/ Unloading => Taken(SubBanks)
    /\ owner # Last /\ OldSettings /\ begun = "unload" => Unloading /\ sub > 0
    /\ pc = "write" /\ ~legacyMap => \A s \in Subs : s < sub => nor[NewBank(Last, s)] = Saved(Last, s)
    /\ OldSettings \/ Unloading \/ InPlace(Last)

\* The first bank of the active block does not come back, once it is lost.
OwnerLost ==
  Active =>
    /\ nor[NewBank(Last, 0)] # Saved(owner, 0)
    /\ begun # "nothing" => sram[0] # Saved(owner, 0)
    /\ owner \in risked /\ ~(pc = "boot" /\ OldSettings) /\ ~(pc = "erase" /\ legacyMap /\ sub = 0) =>
         nor[NewBank(owner, 0)] # Saved(owner, 0)

\* Nor does the first bank of block 14, or else the last, and the move is over.
LastLost ==
  Last \in risked =>
    /\ begun = "unload"
    /\ \/ /\ owner # Last /\ nor[NewBank(Last, 0)] # Saved(Last, 0)
          /\ (pc = "restore" /\ sub > 0) \/ pc = "moved" \/ Unloading => sram[0] # Saved(Last, 0)
       \/ ~OldSettings /\ nor[NewBank(Last, 7)] # Saved(Last, 7) /\ pc \in {"boot", "done"}

SettingsKnown ==
  /\ forgotten => pc \in {"boot", "done"} /\ ~OldSettings /\ (pc = "done" => act = FirstBoot)
  /\ ~forgotten => /\ pc = "boot" => OldSettings
                   /\ pc = "done" => act = None /\ nor[SettingsBank] = Record(None)

MigrateInv == MoveInv /\ OwnerKept /\ LastKept /\ OwnerLost /\ LastLost /\ SettingsKnown

-----------------------------------------------------------------------------
\* What a bank holds tells save data, no data and settings apart.
LEMMA ContentFacts ==
  /\ Blank \in Contents /\ Torn \in Contents
  /\ \A c \in Contents : ~IsRecord(c)
  /\ \A o : IsRecord(Record(o)) /\ Record(o)[2] = o /\ Record(o) # Blank
  /\ \A b \in SaveBlocks, s \in Subs :
       Saved(b, s) \in Contents /\ Saved(b, s) # Blank /\ Saved(b, s) # Torn
<1>1. \A c \in Contents : ~IsRecord(c)
  BY DEF Contents, IsRecord, Blank, Torn, Saved
<1>2. \A o : IsRecord(Record(o)) /\ Record(o)[2] = o /\ Record(o) # Blank
  BY DEF IsRecord, Record, Blank
<1>3. \A b \in SaveBlocks, s \in Subs :
        Saved(b, s) \in Contents /\ Saved(b, s) # Blank /\ Saved(b, s) # Torn
  BY DEF Contents, Saved, Blank, Torn
<1> QED
  BY <1>1, <1>2, <1>3 DEF Contents

LEMMA CellRange == \A b \in SaveBlocks, s \in Subs : b \in 0..14 /\ s \in 0..7
BY SramSlotsAssumption DEF SaveBlocks, Subs, SubBanks

LEMMA MapValues ==
  ASSUME NEW b \in SaveBlocks, NEW s \in Subs
  PROVE  LET flat == 128 + 8 * b + s
         IN  /\ OldBank(b, s) = flat
             /\ NewBank(b, s) = IF flat >= 244 THEN flat + 2 ELSE flat
<1> DEFINE flat == 128 + 8 * b + s
<1>1. \A l \in BOOLEAN : SramGetBank(l, b, s) = IF ~l /\ flat >= 244 THEN flat + 2 ELSE flat
  BY BankValue
<1> HIDE DEF flat
<1>2. SramGetBank(TRUE, b, s) = IF ~TRUE /\ flat >= 244 THEN flat + 2 ELSE flat
  BY <1>1, Zenon
<1>3. SramGetBank(FALSE, b, s) = IF ~FALSE /\ flat >= 244 THEN flat + 2 ELSE flat
  BY <1>1, Zenon
<1>4. OldBank(b, s) = flat
  BY <1>2, Zenon DEF OldBank
<1>5. NewBank(b, s) = IF flat >= 244 THEN flat + 2 ELSE flat
  BY <1>3, Zenon DEF NewBank
<1> QED
  BY <1>4, <1>5 DEF flat

\* Neither map has a cell where it has the settings, nor the same bank twice, and
\* only the last block moves.
LEMMA MapFacts ==
  ASSUME NEW b \in SaveBlocks, NEW s \in Subs
  PROVE  /\ OldBank(b, s) \in 128..249 /\ OldBank(b, s) # LegacySettingsBank
         /\ NewBank(b, s) \in 128..249 /\ NewBank(b, s) \notin {SettingsBank, SettingsBank + 1}
         /\ b # Last => OldBank(b, s) = NewBank(b, s)
         /\ \A c \in SaveBlocks, t \in Subs :
              OldBank(c, t) = OldBank(b, s) \/ NewBank(c, t) = NewBank(b, s) => c = b /\ t = s
<1>1. b \in 0..14 /\ s \in 0..7 /\ (b # Last => b \in 0..13)
  BY MigrateAssumption DEF SaveBlocks, Subs, SubBanks, Last
<1>2. ASSUME NEW c \in SaveBlocks, NEW t \in Subs,
             OldBank(c, t) = OldBank(b, s) \/ NewBank(c, t) = NewBank(b, s)
      PROVE  c = b /\ t = s
  <2>1. c \in 0..14 /\ t \in 0..7
    BY CellRange
  <2>2. 128 + 8 * c + t = 128 + 8 * b + s
    BY <1>1, <1>2, <2>1, MapValues
  <2> QED
    BY <1>1, <2>1, <2>2
<1> QED
  BY <1>1, <1>2, MapValues DEF LegacySettingsBank, SettingsBank

\* The bank that sram_get_bank gives for the block that is copied.
LEMMA BankIs ==
  ASSUME MigrateTypeOK, NEW t
  PROVE  Bank(t) = IF legacyMap THEN OldBank(blk, t) ELSE NewBank(blk, t)
<1>1. legacyMap = TRUE \/ legacyMap = FALSE
  BY DEF MigrateTypeOK
<1>2. CASE legacyMap = TRUE
  BY <1>2, Zenon DEF Bank, OldBank
<1>3. CASE legacyMap = FALSE
  BY <1>3, Zenon DEF Bank, NewBank
<1> QED
  BY <1>1, <1>2, <1>3, Zenon

LEMMA LastIsABlock == Last \in SaveBlocks /\ Last # None /\ None \notin SaveBlocks
BY MigrateAssumption DEF Last, SaveBlocks, None

\* Block 14 begins where it began, and ends where the old settings were.
LEMMA LastPlaces ==
  /\ NewBank(Last, 0) = OldBank(Last, 0) /\ NewBank(Last, 0) # LegacySettingsBank
  /\ NewBank(Last, 6) = LegacySettingsBank
<1>1. 0 \in Subs /\ 6 \in Subs
  BY DEF Subs, SubBanks
<1>2. OldBank(Last, 0) = 240 /\ NewBank(Last, 0) = 240 /\ NewBank(Last, 6) = 248
  BY <1>1, LastIsABlock, MapValues DEF Last
<1> QED
  BY <1>2 DEF LegacySettingsBank

\* Where the banks are that a copy touches: clear of the settings at the new
\* place, of the old settings while these are used, and of the other blocks.
LEMMA CopyStaysInBlock ==
  ASSUME MigrateTypeOK, Control, pc \in {"erase", "write", "restore"}, NEW t \in Subs
  PROVE  /\ Bank(t) \in DOMAIN nor
         /\ pc # "restore" => Bank(t) # SettingsBank
         /\ legacyMap => Bank(t) # LegacySettingsBank
         /\ \A s \in Subs : Bank(s) = Bank(t) => s = t
         /\ pc # "restore" =>
              \A b \in SaveBlocks \ {Last}, s \in Subs : b # blk => NewBank(b, s) # Bank(t)
         /\ pc # "restore" /\ legacyMap => \A s \in Subs : OldBank(Last, s) # Bank(t)
<1>1. blk \in SaveBlocks /\ DOMAIN nor = 128..249 /\ Last \in SaveBlocks
  BY LastIsABlock DEF MigrateTypeOK, FirstProgramBank
<1>2. CASE legacyMap
  <2>1. \A s \in Subs : Bank(s) = OldBank(blk, s)
    BY <1>2, BankIs
  <2>2. pc # "restore" => blk # Last
    BY <1>2 DEF Control, Saving, Active
  <2> QED
    BY <1>1, <2>1, <2>2, MapFacts
<1>3. CASE ~legacyMap
  <2>1. \A s \in Subs : Bank(s) = NewBank(blk, s)
    BY <1>3, BankIs
  <2>2. pc # "restore"
    BY <1>3 DEF Control
  <2> QED
    BY <1>1, <1>3, <2>1, <2>2, MapFacts
<1> QED
  BY <1>2, <1>3

\* What driver_erase_bank erases with a bank of a block: two banks of it.
LEMMA ErasesTwoBanks ==
  ASSUME MigrateTypeOK
  PROVE  /\ sub % 2 = 0 => sub + 1 \in Subs /\ ErasedBy(Bank(sub)) = {Bank(sub), Bank(sub + 1)}
         /\ sub % 2 # 0 => ErasedBy(Bank(sub)) = {}
<1>1. legacyMap \in BOOLEAN /\ blk \in SaveBlocks /\ sub \in Subs
  BY DEF MigrateTypeOK
<1> QED
  BY <1>1, SectorsAreBankPairs DEF Bank, ErasedBy

\* Where the blocks are at first, except the one that is in SRAM.
LEMMA FirstPlaces ==
  ASSUME MigrateInit, NEW b \in SaveBlocks, NEW s \in Subs
  PROVE  nor[OldBank(b, s)] = IF b = owner THEN Blank ELSE Saved(b, s)
<1> DEFINE homes == [c \in SaveBlocks \X Subs |-> SramGetBank(TRUE, c[1], c[2])]
           x == OldBank(b, s)
           home == CHOOSE c \in DOMAIN homes : homes[c] = x
<1>1. x \in 128..(FirstProgramBank - 1) /\ x # LegacySettingsBank
  BY MapFacts DEF FirstProgramBank
<1>2. nor[x] = IF \E c \in DOMAIN homes : homes[c] = x /\ c[1] # owner
               THEN Saved(home[1], home[2]) ELSE Blank
  <2> HIDE DEF x
  <2> QED BY <1>1 DEF MigrateInit
<1>3. DOMAIN homes = SaveBlocks \X Subs /\ \A c \in DOMAIN homes : homes[c] = OldBank(c[1], c[2])
  BY Zenon DEF OldBank
<1> HIDE DEF homes
<1>4. <<b, s>> \in DOMAIN homes /\ homes[<<b, s>>] = x
  BY <1>3
<1>5. \A c \in DOMAIN homes : homes[c] = x => c = <<b, s>>
  BY <1>3, MapFacts
<1> HIDE DEF x
<1>6. home = <<b, s>>
  BY <1>4, <1>5
<1> HIDE DEF home
<1>7. CASE b = owner
  BY <1>2, <1>5, <1>7 DEF x
<1>8. CASE b # owner
  <2>1. \E c \in DOMAIN homes : homes[c] = x /\ c[1] # owner
    BY <1>4, <1>8
  <2> QED
    BY <1>2, <1>6, <1>8, <2>1 DEF x
<1> QED
  BY <1>7, <1>8

LEMMA MigrateInitInv == MigrateInit => MigrateInv
<1> SUFFICES ASSUME MigrateInit PROVE MigrateInv
  OBVIOUS
<1>1. /\ owner \in SaveBlocks \cup {None} /\ legacyMap = FALSE /\ act = FirstBoot /\ target = None
      /\ pc = "boot" /\ blk = Last /\ sub = 0 /\ begun = "nothing" /\ cuts = 0
      /\ risked = {} /\ forgotten = FALSE
      /\ sram = [s \in Subs |-> IF owner = None THEN Torn ELSE Saved(owner, s)]
  BY DEF MigrateInit
<1>2. DOMAIN nor = 128..(FirstProgramBank - 1)
  BY DEF MigrateInit
<1>3. MigrateTypeOK
  <2>1. sram \in [Subs -> {Blank, Torn} \cup {Saved(b, s) : b \in SaveBlocks, s \in Subs}]
    BY <1>1
  <2>2. 0 \in Subs /\ 0 \in 0..MaxCuts
    BY MigrateAssumption DEF Subs, SubBanks
  <2>3. legacyMap \in BOOLEAN /\ forgotten \in BOOLEAN /\ risked \subseteq SaveBlocks
    BY <1>1
  <2>4. /\ act \in SaveBlocks \cup {None, FirstBoot} /\ target \in {Last, None}
        /\ pc \in {"boot", "erase", "write", "restore", "moved", "eraseLog", "record", "done"}
        /\ blk \in SaveBlocks /\ sub \in Subs
        /\ owner \in SaveBlocks \cup {None}
        /\ begun \in {"nothing", "restore", "unload"}
        /\ cuts \in 0..MaxCuts
    BY <1>1, <2>2, LastIsABlock
  <2> QED
    BY <1>2, <2>1, <2>3, <2>4 DEF MigrateTypeOK
<1>4. nor[LegacySettingsBank] = Record(owner) /\ OldSettings
  <2>1. LegacySettingsBank \in 128..(FirstProgramBank - 1)
    BY DEF LegacySettingsBank, FirstProgramBank
  <2>2. nor[LegacySettingsBank] = Record(owner)
    BY <2>1 DEF MigrateInit
  <2> QED
    BY <2>2, ContentFacts DEF OldSettings
<1>5. \A x \in DOMAIN nor \ {LegacySettingsBank} : nor[x] \in Contents
  <2> SUFFICES ASSUME NEW x \in 128..(FirstProgramBank - 1), x # LegacySettingsBank
               PROVE  nor[x] \in Contents
    BY <1>2
  <2>1. CASE \E b \in SaveBlocks, s \in Subs : OldBank(b, s) = x
    BY <2>1, FirstPlaces, ContentFacts
  <2>2. CASE ~\E b \in SaveBlocks, s \in Subs : SramGetBank(TRUE, b, s) = x
    BY <2>2, ContentFacts DEF MigrateInit
  <2> QED
    BY <2>1, <2>2 DEF OldBank
<1>6. NorTyped
  BY <1>2, <1>4, <1>5 DEF NorTyped, SettingsBank, LegacySettingsBank, FirstProgramBank
<1>7. OthersUntouched
  <2>1. \A b \in SaveBlocks \ {owner, Last} : \A s \in Subs : nor[NewBank(b, s)] = Saved(b, s)
    BY FirstPlaces, MapFacts
  <2> QED
    BY <2>1 DEF OthersUntouched, InPlace, NewBank
<1>8. owner # Last => \A s \in Subs : nor[OldBank(Last, s)] = Saved(Last, s)
  BY FirstPlaces, LastIsABlock
<1>9. MoveInv
  BY <1>1, <1>3, <1>4, <1>6, <1>7, <1>8
     DEF MoveInv, Control, Progress, Sources, Saving, Unloading
<1>10. OwnerLost
  <2>1. Active => nor[NewBank(Last, 0)] = Saved(Last, 0) /\ Saved(Last, 0) # Saved(owner, 0)
    <3>1. 0 \in Subs
      BY DEF Subs, SubBanks
    <3> QED
      BY <1>8, <3>1, LastPlaces DEF Active, Saved
  <2> QED
    BY <1>1, <2>1 DEF OwnerLost
<1> QED
  BY <1>1, <1>4, <1>9, <1>10
     DEF MigrateInv, OwnerKept, LastKept, LastLost, SettingsKnown, Saving, Unloading

-----------------------------------------------------------------------------
\* The banks that driver_erase_bank takes in this step of the loop.
Pair == IF sub % 2 = 0 THEN {sub, sub + 1} ELSE {}

\* A step of a copy changes nothing of the other blocks, nor of the settings
\* before block 14 is unloaded.
LEMMA CopyKeepsTheRest ==
  ASSUME MoveInv, pc \in {"erase", "write"}, owner' = owner,
         \A x \in DOMAIN nor : (\A t \in Subs : x # Bank(t)) => nor'[x] = nor[x]
  PROVE  /\ OthersUntouched'
         /\ nor'[SettingsBank] = nor[SettingsBank]
         /\ legacyMap =>
              /\ nor'[LegacySettingsBank] = nor[LegacySettingsBank]
              /\ \A s \in Subs : nor'[OldBank(Last, s)] = nor[OldBank(Last, s)]
         /\ ~legacyMap /\ Active => \A s \in Subs : nor'[NewBank(owner, s)] = nor[NewBank(owner, s)]
<1>1. MigrateTypeOK /\ Control /\ OthersUntouched
  BY DEF MoveInv
<1>2. DOMAIN nor = 128..249 /\ owner \in SaveBlocks \cup {None} /\ legacyMap \in BOOLEAN
  BY <1>1 DEF MigrateTypeOK, FirstProgramBank
<1>3. \A b \in SaveBlocks, s \in Subs : OldBank(b, s) \in DOMAIN nor /\ NewBank(b, s) \in DOMAIN nor
  BY <1>2, MapFacts
<1>4. ASSUME NEW b \in SaveBlocks \ {Last}, b # blk
      PROVE  \A s \in Subs : nor'[NewBank(b, s)] = nor[NewBank(b, s)]
  BY <1>1, <1>3, <1>4, CopyStaysInBlock
<1>5. legacyMap => blk = owner
  BY <1>1 DEF Control, Saving
<1>6. ~legacyMap => blk = Last
  BY <1>1 DEF Control, Unloading
<1>7. OthersUntouched'
  <2> SUFFICES ASSUME NEW b \in SaveBlocks \ {owner, Last} PROVE InPlace(b)'
    BY DEF OthersUntouched
  <2> QED
    BY <1>1, <1>4, <1>5, <1>6 DEF OthersUntouched, InPlace, NewBank
<1>8. nor'[SettingsBank] = nor[SettingsBank]
  <2>1. SettingsBank \in DOMAIN nor
    BY <1>2 DEF SettingsBank
  <2> QED
    BY <1>1, <2>1, CopyStaysInBlock
<1>9. legacyMap => nor'[LegacySettingsBank] = nor[LegacySettingsBank]
  <2>1. LegacySettingsBank \in DOMAIN nor
    BY <1>2 DEF LegacySettingsBank
  <2> QED
    BY <1>1, <2>1, CopyStaysInBlock
<1>10. legacyMap => \A s \in Subs : nor'[OldBank(Last, s)] = nor[OldBank(Last, s)]
  BY <1>1, <1>3, LastIsABlock, CopyStaysInBlock
<1>11. ~legacyMap /\ Active => \A s \in Subs : nor'[NewBank(owner, s)] = nor[NewBank(owner, s)]
  BY <1>2, <1>4, <1>6 DEF Active
<1> QED
  BY <1>7, <1>8, <1>9, <1>10, <1>11

\* What an erase does to the banks of the block and to the others.
LEMMA EraseEffect ==
  ASSUME MoveInv, pc = "erase", EraseAt(Bank(sub))
  PROVE  /\ DOMAIN nor' = DOMAIN nor
         /\ \A x \in DOMAIN nor : nor'[x] \in {nor[x], Blank}
         /\ \A x \in DOMAIN nor : (\A t \in Subs : x # Bank(t)) => nor'[x] = nor[x]
         /\ \A t \in Subs : nor'[Bank(t)] = IF t \in Pair THEN Blank ELSE nor[Bank(t)]
<1>1. MigrateTypeOK /\ Control /\ sub \in Subs
  BY DEF MoveInv, MigrateTypeOK
<1>2. nor' = [x \in DOMAIN nor |-> IF x \in ErasedBy(Bank(sub)) THEN Blank ELSE nor[x]]
  BY DEF EraseAt
<1>3. Pair \subseteq Subs /\ ErasedBy(Bank(sub)) = {Bank(t) : t \in Pair}
  BY <1>1, ErasesTwoBanks DEF Pair
<1>4. \A t \in Subs : Bank(t) \in DOMAIN nor /\ (Bank(t) \in ErasedBy(Bank(sub)) <=> t \in Pair)
  BY <1>1, <1>3, CopyStaysInBlock
<1> QED
  BY <1>2, <1>3, <1>4

\* What programming a bank does, which was erased before.
LEMMA WriteEffect ==
  ASSUME MoveInv, WriteStep
  PROVE  /\ DOMAIN nor' = DOMAIN nor /\ sram[sub] \in Contents
         /\ \A x \in DOMAIN nor : nor'[x] \in {nor[x], sram[sub]}
         /\ \A x \in DOMAIN nor : (\A t \in Subs : x # Bank(t)) => nor'[x] = nor[x]
         /\ \A t \in Subs : nor'[Bank(t)] = IF t = sub THEN sram[sub] ELSE nor[Bank(t)]
<1>1. MigrateTypeOK /\ Control /\ pc = "write" /\ sub \in Subs
  BY DEF MoveInv, MigrateTypeOK, WriteStep, AfterBackup
<1>2. nor[Bank(sub)] = Blank
  <2>1. sub >= sub
    BY <1>1 DEF Subs, SubBanks
  <2> QED
    BY <1>1, <2>1 DEF MoveInv, Progress
<1>3. nor' = [nor EXCEPT ![Bank(sub)] = sram[sub]]
  BY <1>2 DEF WriteStep, Programmed
<1>4. \A t \in Subs : Bank(t) \in DOMAIN nor /\ (Bank(t) = Bank(sub) <=> t = sub)
  BY <1>1, CopyStaysInBlock
<1>5. sram[sub] \in Contents
  BY <1>1 DEF MigrateTypeOK, Contents
<1> QED
  BY <1>1, <1>3, <1>4, <1>5

\* The banks of the block that is unloaded and of the one that is backed up.
LEMMA BanksOfTheCopy ==
  ASSUME MoveInv, pc \in {"erase", "write"}, NEW t \in Subs
  PROVE  /\ legacyMap => Bank(t) = OldBank(owner, t) /\ Bank(t) = NewBank(owner, t)
                         /\ owner \in SaveBlocks
         /\ ~legacyMap => /\ Bank(t) = NewBank(Last, t)
                          /\ Bank(t) = LegacySettingsBank <=> t = 6
<1>1. MigrateTypeOK /\ Control
  BY DEF MoveInv
<1>2. CASE legacyMap
  <2>1. blk = owner /\ owner # Last /\ owner \in SaveBlocks
    BY <1>1, <1>2 DEF Control, Saving, Active, MigrateTypeOK
  <2> QED
    BY <1>1, <1>2, <2>1, BankIs, MapFacts
<1>3. CASE ~legacyMap
  <2>1. blk = Last
    BY <1>1, <1>3 DEF Control, Unloading
  <2>2. Bank(t) = NewBank(Last, t)
    BY <1>1, <1>3, <2>1, BankIs
  <2>3. 6 \in Subs
    BY DEF Subs, SubBanks
  <2>4. NewBank(Last, t) = NewBank(Last, 6) => t = 6
    BY <2>3, LastIsABlock, MapFacts
  <2> QED
    BY <1>3, <2>2, <2>4, LastPlaces
<1> QED
  BY <1>2, <1>3

LEMMA MoveErase ==
  ASSUME MoveInv, EraseStep
  PROVE  MoveInv'
<1>1. MigrateTypeOK /\ NorTyped /\ Control /\ Progress /\ Sources
  BY DEF MoveInv
<1>2. /\ pc = "erase" /\ EraseAt(Bank(sub)) /\ sub \in 0..7 /\ blk' = blk
      /\ begun' = IF legacyMap THEN begun ELSE "unload"
      /\ UNCHANGED <<sram, legacyMap, act, target, owner, risked, forgotten, cuts>>
      /\ \/ pc' = "erase" /\ sub' = sub + 1 /\ sub + 1 < 8
         \/ pc' = "write" /\ sub' = 0 /\ sub = 7
  BY <1>1 DEF EraseStep, MigrateTypeOK, Subs, SubBanks, Begin
<1>3. /\ DOMAIN nor' = DOMAIN nor
      /\ \A x \in DOMAIN nor : nor'[x] \in {nor[x], Blank}
      /\ \A t \in Subs : nor'[Bank(t)] = IF t \in Pair THEN Blank ELSE nor[Bank(t)]
  BY <1>2, EraseEffect
<1>4. /\ OthersUntouched'
      /\ nor'[SettingsBank] = nor[SettingsBank]
      /\ legacyMap => /\ nor'[LegacySettingsBank] = nor[LegacySettingsBank]
                      /\ \A s \in Subs : nor'[OldBank(Last, s)] = nor[OldBank(Last, s)]
  BY <1>2, EraseEffect, CopyKeepsTheRest
<1>5. MigrateTypeOK'
  <2>1. sub' \in Subs /\ pc' \in {"erase", "write"} /\ begun' \in {"nothing", "restore", "unload"}
    BY <1>1, <1>2 DEF MigrateTypeOK, Subs, SubBanks
  <2> QED
    BY <1>1, <1>2, <1>3, <2>1 DEF MigrateTypeOK
<1>6. NorTyped'
  <2>1. LegacySettingsBank \in DOMAIN nor
    BY <1>1 DEF MigrateTypeOK, LegacySettingsBank, FirstProgramBank
  <2> QED
    BY <1>1, <1>2, <1>3, <1>4, <2>1, ContentFacts DEF NorTyped
<1>7. ~legacyMap => (OldSettings' <=> OldSettings /\ sub # 6)
  <2>1. 6 \in Subs /\ Subs = 0..7
    BY DEF Subs, SubBanks
  <2>2. sub = 6 => 6 \in Pair
    BY DEF Pair
  <2>3. sub # 6 /\ 6 \in Pair => FALSE
    BY <1>2 DEF Pair
  <2>4. ~legacyMap => Bank(6) = LegacySettingsBank
    BY <1>2, <2>1, BanksOfTheCopy
  <2> QED
    BY <1>3, <2>1, <2>2, <2>3, <2>4, ContentFacts DEF OldSettings
<1>8. Control'
  <2>1. legacyMap => OldSettings' = OldSettings
    BY <1>4 DEF OldSettings
  <2>2. CASE legacyMap
    BY <1>1, <1>2, <2>1, <2>2 DEF Control, Saving, Unloading, Active
  <2>3. CASE ~legacyMap
    BY <1>1, <1>2, <1>7, <2>3 DEF Control, Saving, Unloading, Active
  <2> QED
    BY <2>2, <2>3
<1>9. Progress'
  <2>1. \A s : Bank(s)' = Bank(s)
    BY <1>2 DEF Bank
  <2>2. ASSUME NEW s \in Subs, s < (sub + 1) + ((sub + 1) % 2)
        PROVE  nor'[Bank(s)] = Blank
    <3>1. s \in 0..7
      BY DEF Subs, SubBanks
    <3>2. s < sub + (sub % 2) \/ s \in Pair
      BY <1>2, <2>2, <3>1 DEF Pair
    <3> QED
      BY <1>1, <1>2, <1>3, <3>2 DEF Progress
  <2>3. CASE pc' = "erase"
    BY <1>2, <2>1, <2>2, <2>3 DEF Progress
  <2>4. CASE pc' = "write"
    <3>1. \A s \in Subs : s < (sub + 1) + ((sub + 1) % 2)
      BY <1>2, <2>4 DEF Subs, SubBanks
    <3> QED
      BY <2>1, <2>2, <2>4, <3>1 DEF Progress
  <2> QED
    BY <1>2, <2>3, <2>4
<1>10. Sources'
  BY <1>1, <1>2, <1>4 DEF Sources, OldSettings
<1> QED
  BY <1>4, <1>5, <1>6, <1>8, <1>9, <1>10 DEF MoveInv

LEMMA MoveWrite ==
  ASSUME MoveInv, WriteStep
  PROVE  MoveInv'
<1>1. MigrateTypeOK /\ NorTyped /\ Control /\ Progress /\ Sources
  BY DEF MoveInv
<1>2. /\ pc = "write" /\ sub \in 0..7 /\ sub \in Subs
      /\ UNCHANGED <<sram, legacyMap, target, owner, begun, risked, forgotten, cuts>>
      /\ \/ pc' = "write" /\ sub' = sub + 1 /\ sub + 1 < 8 /\ act' = act /\ blk' = blk
         \/ /\ sub' = 0 /\ sub = 7 /\ act' = None
            /\ IF target \in SaveBlocks THEN pc' = "restore" /\ blk' = target
                                        ELSE pc' = "eraseLog" /\ blk' = blk
  BY <1>1 DEF WriteStep, AfterBackup, MigrateTypeOK, Subs, SubBanks, Begin
<1>3. /\ DOMAIN nor' = DOMAIN nor /\ sram[sub] \in Contents
      /\ \A x \in DOMAIN nor : nor'[x] \in {nor[x], sram[sub]}
      /\ \A t \in Subs : nor'[Bank(t)] = IF t = sub THEN sram[sub] ELSE nor[Bank(t)]
  BY WriteEffect
<1>4. /\ OthersUntouched'
      /\ nor'[SettingsBank] = nor[SettingsBank]
      /\ legacyMap => /\ nor'[LegacySettingsBank] = nor[LegacySettingsBank]
                      /\ \A s \in Subs : nor'[OldBank(Last, s)] = nor[OldBank(Last, s)]
  BY <1>2, WriteEffect, CopyKeepsTheRest
<1>5. /\ legacyMap => target = Last /\ blk = owner /\ Active /\ OldSettings
      /\ ~legacyMap => target = None /\ blk = Last /\ ~OldSettings /\ begun = "unload"
  BY <1>1, <1>2 DEF Control, Saving, Unloading
<1>6. MigrateTypeOK'
  <2>1. /\ sub' \in Subs /\ pc' \in {"write", "restore", "eraseLog"}
        /\ act' \in SaveBlocks \cup {None, FirstBoot} /\ blk' \in SaveBlocks
    BY <1>1, <1>2, LastIsABlock DEF MigrateTypeOK, Subs, SubBanks
  <2> QED
    BY <1>1, <1>2, <1>3, <2>1 DEF MigrateTypeOK
<1>7. NorTyped'
  <2>1. LegacySettingsBank \in DOMAIN nor
    BY <1>1 DEF MigrateTypeOK, LegacySettingsBank, FirstProgramBank
  <2> QED
    BY <1>1, <1>2, <1>3, <1>4, <2>1 DEF NorTyped
<1>8. OldSettings' <=> OldSettings
  <2>1. CASE legacyMap
    BY <1>4, <2>1 DEF OldSettings
  <2>2. CASE ~legacyMap
    <3>1. 6 \in Subs
      BY DEF Subs, SubBanks
    <3>2. Bank(6) = LegacySettingsBank
      BY <1>2, <2>2, <3>1, BanksOfTheCopy
    <3>3. nor'[LegacySettingsBank] \in {nor[LegacySettingsBank], sram[sub]}
      BY <1>3, <3>1, <3>2
    <3>4. ~OldSettings
      BY <1>5, <2>2
    <3> QED
      BY <1>3, <3>3, <3>4, ContentFacts DEF OldSettings
  <2> QED
    BY <2>1, <2>2
<1>9. Control'
  <2>1. CASE legacyMap
    BY <1>1, <1>2, <1>5, <1>8, <2>1, LastIsABlock DEF Control, Saving, Unloading, Active
  <2>2. CASE ~legacyMap
    BY <1>1, <1>2, <1>5, <1>8, <2>2, LastIsABlock DEF Control, Saving, Unloading, Active
  <2> QED
    BY <2>1, <2>2
<1>10. Progress'
  <2>1. CASE pc' = "write"
    <3>1. \A s : Bank(s)' = Bank(s)
      BY <1>2, <2>1 DEF Bank
    <3>2. \A s \in Subs : s >= sub + 1 => s >= sub /\ s # sub
      BY <1>2 DEF Subs, SubBanks
    <3> QED
      BY <1>1, <1>2, <1>3, <2>1, <3>1, <3>2 DEF Progress
  <2>2. CASE pc' # "write"
    BY <1>2, <2>2 DEF Progress
  <2> QED
    BY <2>1, <2>2
<1>11. Sources'
  BY <1>1, <1>2, <1>4, <1>5, <1>8 DEF Sources
<1> QED
  BY <1>4, <1>6, <1>7, <1>9, <1>10, <1>11 DEF MoveInv

\* What holds of the flash alone stays so when nothing is written to it.
LEMMA FlashStays ==
  ASSUME MoveInv, UNCHANGED <<nor, owner>>, pc \notin {"done"}
  PROVE  OldSettings' = OldSettings /\ OthersUntouched' /\ NorTyped'
BY DEF MoveInv, OldSettings, OthersUntouched, InPlace, NorTyped

LEMMA MoveRestore ==
  ASSUME MoveInv, RestoreStep
  PROVE  MoveInv'
<1>1. MigrateTypeOK /\ NorTyped /\ Control /\ Sources
  BY DEF MoveInv
<1>2. /\ pc = "restore" /\ legacyMap /\ blk = Last /\ target = Last /\ owner # Last /\ OldSettings
      /\ sub \in 0..7 /\ sub \in Subs
      /\ sram' = [sram EXCEPT ![sub] = nor[Bank(sub)]] /\ blk' = Last
      /\ UNCHANGED <<nor, legacyMap, target, owner, risked, forgotten, cuts>>
      /\ begun' = IF begun = "nothing" THEN "restore" ELSE begun
      /\ \/ pc' = "restore" /\ sub' = sub + 1 /\ sub + 1 < 8 /\ act' = act
         \/ pc' = "moved" /\ sub' = 0 /\ sub = 7 /\ act' = Last
  BY <1>1 DEF RestoreStep, MigrateTypeOK, Subs, SubBanks, Begin, Control
<1>3. nor[Bank(sub)] \in Contents
  BY <1>1, <1>2, CopyStaysInBlock DEF NorTyped
<1>4. sram' \in [Subs -> Contents]
  BY <1>1, <1>2, <1>3 DEF MigrateTypeOK, Contents
<1>5. MigrateTypeOK'
  <2>1. /\ sub' \in Subs /\ pc' \in {"restore", "moved"} /\ blk' \in SaveBlocks
        /\ act' \in SaveBlocks \cup {None, FirstBoot}
        /\ begun' \in {"nothing", "restore", "unload"}
    BY <1>1, <1>2, LastIsABlock DEF MigrateTypeOK, Subs, SubBanks
  <2> QED
    BY <1>1, <1>2, <1>4, <2>1 DEF MigrateTypeOK, Contents
<1>6. OldSettings' = OldSettings /\ OthersUntouched' /\ NorTyped'
  BY <1>2, FlashStays
<1>7. Control' /\ Progress'
  BY <1>2, <1>6 DEF Control, Progress, Saving, Unloading, Active
<1>8. Sources'
  BY <1>1, <1>2, <1>6 DEF Sources
<1> QED
  BY <1>5, <1>6, <1>7, <1>8 DEF MoveInv

\* Where the start finds the settings, and what it does then.
LEMMA LoadEffect ==
  ASSUME MoveInv, Load
  PROVE  /\ pc = "boot" /\ sub' = 0 /\ target' = Last
         /\ UNCHANGED <<nor, sram, owner, begun, risked, forgotten, cuts>>
         /\ \/ /\ OldSettings /\ owner = Last /\ pc' = "moved"
               /\ blk' = Last /\ legacyMap' = TRUE /\ act' = owner
            \/ /\ OldSettings /\ owner = None /\ pc' = "restore"
               /\ blk' = Last /\ legacyMap' = TRUE /\ act' = owner
            \/ /\ OldSettings /\ Active /\ pc' = "erase"
               /\ blk' = owner /\ legacyMap' = TRUE /\ act' = owner
            \/ /\ ~OldSettings /\ begun = "unload" /\ pc' = "done"
               /\ blk' = blk /\ legacyMap' = FALSE /\ act' = FirstBoot
<1>1. pc = "boot" /\ sub' = 0 /\ target' = Last
      /\ UNCHANGED <<nor, sram, owner, begun, risked, forgotten, cuts>>
  BY DEF Load, Begin
<1>2. ~IsRecord(nor[SettingsBank])
  BY <1>1, ContentFacts DEF MoveInv, NorTyped
<1>3. OldSettings => nor[LegacySettingsBank] = Record(owner)
  BY ContentFacts DEF MoveInv, NorTyped, OldSettings
<1>4. ~OldSettings => begun = "unload"
  BY DEF MoveInv, Sources, MigrateTypeOK
<1>5. CASE OldSettings
  <2>1. act' = owner /\ legacyMap' = TRUE
        /\ CASE act' = Last -> Begin("moved", Last)
             [] act' = None -> Begin("restore", Last)
             [] OTHER -> Begin("erase", act')
    BY <1>2, <1>3, <1>5, ContentFacts DEF Load
  <2> QED
    BY <1>1, <1>5, <2>1, LastIsABlock DEF Begin, Active
<1>6. CASE ~OldSettings
  BY <1>1, <1>2, <1>4, <1>6 DEF Load, Begin
<1> QED
  BY <1>5, <1>6

LEMMA MoveLoad ==
  ASSUME MoveInv, Load
  PROVE  MoveInv'
<1>1. MigrateTypeOK /\ Control /\ Sources
  BY DEF MoveInv
<1>2. /\ pc = "boot" /\ sub' = 0 /\ target' = Last
      /\ UNCHANGED <<nor, sram, owner, begun, risked, forgotten, cuts>>
  BY LoadEffect
<1>3. OldSettings' = OldSettings /\ OthersUntouched' /\ NorTyped'
  BY <1>2, FlashStays
<1>4. MigrateTypeOK'
  <2>1. /\ pc' \in {"erase", "restore", "moved", "done"}
        /\ blk' \in {blk, Last} \/ (blk' = owner /\ owner # None)
        /\ act' \in {owner, FirstBoot}
    BY LoadEffect, LastIsABlock DEF Active
  <2>2. legacyMap' \in BOOLEAN
    BY LoadEffect
  <2>3. sub' \in Subs /\ blk' \in SaveBlocks /\ act' \in SaveBlocks \cup {None, FirstBoot}
    BY <1>1, <1>2, <2>1, LastIsABlock DEF MigrateTypeOK, Subs, SubBanks
  <2> QED
    BY <1>1, <1>2, <2>1, <2>2, <2>3 DEF MigrateTypeOK
<1>5. \A s \in Subs : ~(s < 0 + (0 % 2))
  BY DEF Subs, SubBanks
<1>6. Control' /\ Progress'
  <2>1. CASE pc' = "done"
    BY <1>2, <1>3, <2>1, LoadEffect DEF Control, Progress, Saving, Unloading
  <2>2. CASE pc' = "erase"
    BY <1>2, <1>3, <1>5, <2>2, LoadEffect DEF Control, Progress, Saving, Unloading, Active
  <2>3. CASE pc' = "restore"
    BY <1>2, <1>3, <2>3, LoadEffect, LastIsABlock DEF Control, Progress, Saving, Unloading
  <2>4. CASE pc' = "moved"
    BY <1>2, <1>3, <2>4, LoadEffect DEF Control, Progress, Saving, Unloading, Active
  <2> QED
    BY <2>1, <2>2, <2>3, <2>4, LoadEffect
<1>7. Sources'
  BY <1>1, <1>2, <1>3 DEF Sources
<1> QED
  BY <1>3, <1>4, <1>6, <1>7 DEF MoveInv

LEMMA MoveUnload ==
  ASSUME MoveInv, Unload
  PROVE  MoveInv'
<1>1. MigrateTypeOK /\ Control /\ Sources
  BY DEF MoveInv
<1>2. /\ pc = "moved" /\ OldSettings /\ pc' = "erase" /\ blk' = Last /\ sub' = 0
      /\ legacyMap' = FALSE /\ target' = None /\ (Active => begun # "nothing")
      /\ UNCHANGED <<nor, sram, act, owner, begun, risked, forgotten, cuts>>
  BY <1>1 DEF Unload, Begin, Control
<1>3. OldSettings' = OldSettings /\ OthersUntouched' /\ NorTyped'
  BY <1>2, FlashStays
<1>4. MigrateTypeOK'
  <2>1. sub' \in Subs /\ blk' \in SaveBlocks
    BY <1>2, LastIsABlock DEF Subs, SubBanks
  <2>2. legacyMap' \in BOOLEAN
    BY <1>2
  <2> QED
    BY <1>1, <1>2, <2>1, <2>2 DEF MigrateTypeOK
<1>5. \A s \in Subs : ~(s < 0 + (0 % 2))
  BY DEF Subs, SubBanks
<1>6. Control' /\ Progress'
  BY <1>2, <1>3, <1>5 DEF Control, Progress, Saving, Unloading, Active
<1>7. Sources'
  BY <1>1, <1>2, <1>3 DEF Sources
<1> QED
  BY <1>3, <1>4, <1>6, <1>7 DEF MoveInv

\* Writing the log changes its own two banks, which are none of the blocks' by then.
LEMMA LogEffect ==
  ASSUME MoveInv, EraseLog \/ WriteRecord
  PROVE  /\ pc \in {"eraseLog", "record"} /\ begun = "unload" /\ act = None /\ ~OldSettings
         /\ UNCHANGED <<sram, legacyMap, act, target, blk, sub, owner, begun, risked, forgotten, cuts>>
         /\ DOMAIN nor' = DOMAIN nor
         /\ \/ pc' = "record" /\ nor'[SettingsBank] = Blank
            \/ pc' = "done" /\ nor'[SettingsBank] = Record(None)
         /\ nor'[SettingsBank + 1] \in {nor[SettingsBank + 1], Blank}
         /\ \A x \in DOMAIN nor \ {SettingsBank, SettingsBank + 1} : nor'[x] = nor[x]
         /\ \A b \in SaveBlocks, s \in Subs : nor'[NewBank(b, s)] = nor[NewBank(b, s)]
         /\ nor'[LegacySettingsBank] = nor[LegacySettingsBank]
<1>1. /\ pc \in {"eraseLog", "record"} /\ DOMAIN nor = 128..249
      /\ UNCHANGED <<sram, legacyMap, act, target, blk, sub, owner, begun, risked, forgotten, cuts>>
      /\ begun = "unload" /\ act = None /\ ~OldSettings
  BY DEF EraseLog, WriteRecord, MoveInv, Control, MigrateTypeOK, FirstProgramBank
<1>2. SettingsBank \in DOMAIN nor /\ SettingsBank + 1 \in DOMAIN nor /\ SettingsBank + 1 # SettingsBank
  BY <1>1 DEF SettingsBank
<1>3. /\ DOMAIN nor' = DOMAIN nor
      /\ \/ pc' = "record" /\ nor'[SettingsBank] = Blank
         \/ pc' = "done" /\ nor'[SettingsBank] = Record(None)
      /\ nor'[SettingsBank + 1] \in {nor[SettingsBank + 1], Blank}
      /\ \A x \in DOMAIN nor \ {SettingsBank, SettingsBank + 1} : nor'[x] = nor[x]
  <2>1. CASE EraseLog
    <3>1. ErasedBy(SettingsBank) = {SettingsBank, SettingsBank + 1}
      BY DEF ErasedBy, SettingsBank
    <3>2. nor' = [x \in DOMAIN nor |-> IF x \in {SettingsBank, SettingsBank + 1} THEN Blank ELSE nor[x]]
      BY <2>1, <3>1 DEF EraseLog, EraseAt
    <3> QED
      BY <1>2, <2>1, <3>2 DEF EraseLog
  <2>2. CASE WriteRecord
    BY <1>1, <1>2, <2>2 DEF WriteRecord
  <2> QED
    BY <2>1, <2>2
<1>4. \A b \in SaveBlocks, s \in Subs : nor'[NewBank(b, s)] = nor[NewBank(b, s)]
  BY <1>1, <1>3, MapFacts
<1>5. nor'[LegacySettingsBank] = nor[LegacySettingsBank]
  BY <1>1, <1>3 DEF LegacySettingsBank, SettingsBank
<1> QED
  BY <1>1, <1>3, <1>4, <1>5

LEMMA MoveLog ==
  ASSUME MoveInv, EraseLog \/ WriteRecord
  PROVE  MoveInv'
<1>1. MigrateTypeOK /\ NorTyped /\ Control /\ Sources /\ OthersUntouched
  BY DEF MoveInv
<1>2. /\ begun = "unload" /\ act = None /\ ~OldSettings /\ pc' \in {"record", "done"}
      /\ UNCHANGED <<sram, legacyMap, act, target, blk, sub, owner, begun, risked, forgotten, cuts>>
      /\ DOMAIN nor' = DOMAIN nor
  BY LogEffect
<1>3. ~OldSettings'
  BY <1>2, LogEffect DEF OldSettings
<1>4. MigrateTypeOK'
  BY <1>1, <1>2 DEF MigrateTypeOK
<1>5. NorTyped'
  <2>1. \A x \in DOMAIN nor' \ {SettingsBank, LegacySettingsBank} : nor'[x] \in {nor[x], Blank}
    BY LogEffect
  <2>2. nor'[LegacySettingsBank] = nor[LegacySettingsBank]
    BY LogEffect
  <2>3. pc' # "done" => nor'[SettingsBank] = Blank
    BY LogEffect
  <2> QED
    BY <1>1, <1>2, <2>1, <2>2, <2>3, ContentFacts DEF NorTyped
<1>6. Control' /\ Progress' /\ Sources'
  BY <1>1, <1>2, <1>3 DEF Control, Progress, Sources, Saving, Unloading
<1>7. OthersUntouched'
  BY <1>1, <1>2, LogEffect DEF OthersUntouched, InPlace, NewBank
<1> QED
  BY <1>4, <1>5, <1>6, <1>7 DEF MoveInv

\* What a power cut leaves: every bank as it was or spoilt, and spoilt only in
\* the block that is copied.
LEMMA CutEffect ==
  ASSUME MoveInv, PowerCut
  PROVE  /\ pc \notin {"boot", "done"} /\ pc' = "boot"
         /\ UNCHANGED <<legacyMap, act, target, blk, sub, owner>>
         /\ DOMAIN nor' = DOMAIN nor
         /\ \A x \in DOMAIN nor : nor'[x] \in {nor[x], Torn}
         /\ pc \notin {"erase", "write"} => nor' = nor
         /\ \A x \in DOMAIN nor : (\A t \in Subs : x # Bank(t)) => nor'[x] = nor[x]
         /\ DOMAIN sram' = DOMAIN sram /\ \A s \in Subs : sram'[s] \in {sram[s], Torn}
         /\ pc # "restore" => sram' = sram
         /\ \/ begun' = begun
            \/ pc = "restore" /\ begun = "nothing" /\ begun' = "restore" /\ sram'[sub] = Torn
            \/ /\ pc = "erase" /\ ~legacyMap /\ begun' = "unload"
               /\ \A t \in Pair : Bank(t) # LegacySettingsBank => nor'[Bank(t)] = Torn
<1>1. /\ MigrateTypeOK /\ Control /\ sub \in Subs /\ DOMAIN sram = Subs
      /\ begun \in {"nothing", "restore", "unload"}
  BY DEF MoveInv, MigrateTypeOK
<1>2. /\ pc \notin {"boot", "done"} /\ pc' = "boot"
      /\ UNCHANGED <<legacyMap, act, target, blk, sub, owner>>
  BY DEF PowerCut
<1>3. CASE HalfErase
  <2>1. PICK kept \in {{}, {LegacySettingsBank}} :
          nor' = [x \in DOMAIN nor |-> IF x \in ErasedBy(Bank(sub)) \ kept THEN Torn ELSE nor[x]]
    BY <1>3 DEF HalfErase
  <2>2. pc = "erase" /\ begun' = (IF legacyMap THEN begun ELSE "unload") /\ sram' = sram
    BY <1>3 DEF HalfErase
  <2>3. Pair \subseteq Subs /\ ErasedBy(Bank(sub)) = {Bank(t) : t \in Pair}
    BY <1>1, ErasesTwoBanks DEF Pair
  <2>4. \A t \in Subs : Bank(t) \in DOMAIN nor
    BY <1>1, <2>2, CopyStaysInBlock
  <2>5. \A t \in Pair : Bank(t) # LegacySettingsBank => nor'[Bank(t)] = Torn
    BY <2>1, <2>3, <2>4
  <2>6. /\ DOMAIN nor' = DOMAIN nor
        /\ \A x \in DOMAIN nor : nor'[x] \in {nor[x], Torn}
        /\ \A x \in DOMAIN nor : (\A t \in Subs : x # Bank(t)) => nor'[x] = nor[x]
    BY <2>1, <2>3
  <2> QED
    BY <1>2, <2>2, <2>5, <2>6
<1>4. CASE HalfWrite
  <2>1. /\ pc = "write" /\ nor' = [nor EXCEPT ![Bank(sub)] = Torn]
        /\ sram' = sram /\ begun' = begun
    BY <1>4 DEF HalfWrite
  <2>2. Bank(sub) \in DOMAIN nor
    BY <1>1, <2>1, CopyStaysInBlock
  <2> QED
    BY <1>1, <1>2, <2>1, <2>2
<1>5. CASE HalfRestore
  <2>1. /\ pc = "restore" /\ nor' = nor /\ sram' = [sram EXCEPT ![sub] = Torn]
        /\ begun' = IF begun = "nothing" THEN "restore" ELSE begun
    BY <1>5 DEF HalfRestore
  <2> QED
    BY <1>1, <1>2, <2>1
<1>6. CASE UNCHANGED <<nor, sram, begun>>
  BY <1>2, <1>6
<1> QED
  BY <1>3, <1>4, <1>5, <1>6 DEF PowerCut

\* The old settings are lost to a power cut only where the erase reaches them.
LEMMA CutSettings ==
  ASSUME MoveInv, PowerCut
  PROVE  /\ OldSettings' => OldSettings
         /\ OldSettings /\ ~OldSettings' => Unloading /\ pc = "erase" /\ sub = 6
<1>1. /\ MigrateTypeOK /\ Control
      /\ LegacySettingsBank \in DOMAIN nor
  BY DEF MoveInv, MigrateTypeOK, LegacySettingsBank, FirstProgramBank
<1>2. nor'[LegacySettingsBank] \in {nor[LegacySettingsBank], Torn}
  BY <1>1, CutEffect
<1>3. OldSettings' => OldSettings
  BY <1>2, ContentFacts DEF OldSettings
<1>4. ASSUME OldSettings, ~OldSettings' PROVE Unloading /\ pc = "erase" /\ sub = 6
  <2>1. nor'[LegacySettingsBank] # nor[LegacySettingsBank]
    BY <1>4 DEF OldSettings
  <2>2. pc \in {"erase", "write"}
    BY <2>1, CutEffect
  <2>3. ~legacyMap
    <3>1. legacyMap => \A t \in Subs : LegacySettingsBank # Bank(t)
      BY <1>1, <2>2, CopyStaysInBlock
    <3> QED
      BY <1>1, <2>1, <3>1, CutEffect
  <2>4. pc = "erase" /\ sub < 7
    BY <1>1, <1>4, <2>2, <2>3 DEF Control, Unloading
  <2>5. HalfErase
    BY <2>1, <2>4 DEF PowerCut, HalfWrite, HalfRestore
  <2>6. LegacySettingsBank \in ErasedBy(Bank(sub))
    BY <1>1, <2>1, <2>5 DEF HalfErase
  <2>7. PICK t \in Pair : t \in Subs /\ Bank(t) = LegacySettingsBank
    BY <1>1, <2>6, ErasesTwoBanks DEF Pair, MigrateTypeOK
  <2>8. t = 6
    BY <2>3, <2>4, <2>7, BanksOfTheCopy
  <2>9. sub \in 0..7
    BY <1>1 DEF MigrateTypeOK, Subs, SubBanks
  <2>10. sub = 6
    BY <2>7, <2>8, <2>9 DEF Pair
  <2> QED
    BY <2>2, <2>3, <2>4, <2>10 DEF Unloading
<1> QED
  BY <1>3, <1>4

LEMMA MoveCut ==
  ASSUME MoveInv, PowerCut
  PROVE  MoveInv'
<1>1. MigrateTypeOK /\ NorTyped /\ Control /\ Sources /\ OthersUntouched
  BY DEF MoveInv
<1>2. /\ pc \notin {"boot", "done"} /\ pc' = "boot"
      /\ UNCHANGED <<legacyMap, act, target, blk, sub, owner>>
      /\ DOMAIN nor' = DOMAIN nor
      /\ \A x \in DOMAIN nor : nor'[x] \in {nor[x], Torn}
  BY CutEffect
<1>3. MigrateTypeOK'
  <2>1. cuts' \in 0..MaxCuts
    BY <1>1, MigrateAssumption DEF PowerCut, MigrateTypeOK
  <2>2. forgotten' \in BOOLEAN
    BY DEF PowerCut
  <2>3. risked' \subseteq SaveBlocks
    BY <1>1 DEF PowerCut, MigrateTypeOK
  <2>4. begun' \in {"nothing", "restore", "unload"}
    BY <1>1, CutEffect DEF MigrateTypeOK
  <2>5. sram' \in [Subs -> {Blank, Torn} \cup {Saved(b, s) : b \in SaveBlocks, s \in Subs}]
    <3>1. sram \in [Subs -> Contents] /\ sub \in Subs
      BY <1>1 DEF MigrateTypeOK, Contents
    <3>2. sram' = sram \/ sram' = [sram EXCEPT ![sub] = Torn]
      BY DEF PowerCut, HalfErase, HalfWrite, HalfRestore
    <3>3. sram' \in [Subs -> Contents]
      BY <3>1, <3>2, ContentFacts
    <3> QED
      BY <3>3 DEF Contents
  <2> QED
    BY <1>1, <1>2, <2>1, <2>2, <2>3, <2>4, <2>5 DEF MigrateTypeOK
<1>4. NorTyped'
  <2>1. SettingsBank \in DOMAIN nor /\ LegacySettingsBank \in DOMAIN nor
    BY <1>1 DEF MigrateTypeOK, LegacySettingsBank, SettingsBank, FirstProgramBank
  <2> QED
    BY <1>1, <1>2, <2>1, ContentFacts DEF NorTyped
<1>5. Control' /\ Progress'
  BY <1>2 DEF Control, Progress, Saving, Unloading
<1>6. OthersUntouched' /\ (legacyMap => \A s \in Subs : nor'[OldBank(Last, s)] = nor[OldBank(Last, s)])
  <2>1. CASE pc \in {"erase", "write"}
    BY <1>2, <2>1, CutEffect, CopyKeepsTheRest
  <2>2. CASE pc \notin {"erase", "write"}
    <3>1. nor' = nor
      BY <2>2, CutEffect
    <3> QED
      BY <1>1, <1>2, <3>1 DEF OthersUntouched, InPlace
  <2> QED
    BY <2>1, <2>2
<1>7. Sources'
  <2>1. begun' # "unload" => OldSettings'
    <3> SUFFICES ASSUME begun' # "unload", ~OldSettings' PROVE FALSE
      OBVIOUS
    <3>1. begun # "unload" /\ OldSettings
      BY <1>1, CutEffect DEF Sources
    <3>2. Unloading /\ pc = "erase" /\ sub = 6
      BY <3>1, CutSettings
    <3> QED
      BY <1>1, <3>1, <3>2 DEF Control
  <2>2. begun' # "unload" /\ owner # Last =>
          \A s \in Subs : nor'[OldBank(Last, s)] = Saved(Last, s)
    <3> SUFFICES ASSUME begun' # "unload", owner # Last
                 PROVE  \A s \in Subs : nor'[OldBank(Last, s)] = nor[OldBank(Last, s)]
      BY <1>1, CutEffect DEF Sources
    <3>1. begun # "unload"
      BY CutEffect
    <3>2. CASE legacyMap
      BY <1>6, <3>2
    <3>3. CASE ~legacyMap
      <4>1. UNCHANGED nor
        <5>1. pc = "erase" => ~HalfErase
          BY <3>3 DEF HalfErase
        <5>2. pc # "write"
          BY <1>1, <3>1, <3>3 DEF Control, Unloading
        <5> QED
          BY <5>1, <5>2, CutEffect DEF PowerCut, HalfErase, HalfWrite, HalfRestore
      <4> QED
        BY <4>1
    <3> QED
      BY <3>2, <3>3
  <2>3. owner # None /\ (begun' = "nothing" \/ owner = Last) => \A s \in Subs : sram'[s] = Saved(owner, s)
    <3> SUFFICES ASSUME owner # None, begun' = "nothing" \/ owner = Last
                 PROVE  sram' = sram /\ (begun = "nothing" \/ owner = Last)
      BY <1>1 DEF Sources
    <3>1. CASE owner = Last
      <4>1. pc # "restore"
        BY <1>1, <3>1 DEF Control
      <4> QED
        BY <3>1, <4>1, CutEffect
    <3>2. CASE begun' = "nothing"
      <4>1. begun = "nothing"
        BY <3>2, CutEffect
      <4>2. ~HalfRestore
        BY <3>2 DEF HalfRestore
      <4> QED
        BY <4>1, <4>2 DEF PowerCut, HalfErase, HalfWrite
    <3> QED
      BY <3>1, <3>2
  <2>4. risked' \subseteq {owner, Last}
    BY <1>1 DEF PowerCut, Sources
  <2>5. risked' # {} => begun' # "nothing"
    <3> SUFFICES ASSUME risked' # {}, begun' = "nothing" PROVE FALSE
      OBVIOUS
    <3>1. begun = "nothing"
      BY CutEffect
    <3>2. risked' = risked
      BY DEF PowerCut, OwnerAtRisk, LastAtRisk
    <3> QED
      BY <1>1, <3>1, <3>2 DEF Sources
  <2> QED
    BY <1>1, <1>2, <2>1, <2>2, <2>3, <2>4, <2>5 DEF Sources
<1> QED
  BY <1>3, <1>4, <1>5, <1>6, <1>7 DEF MoveInv

-----------------------------------------------------------------------------
\* What each step does to the three blocks' worth of data, or to what is left of it.

LEMMA OwnerKeptStep ==
  ASSUME MigrateInv, MigrateNext, MoveInv'
  PROVE  OwnerKept'
<1> SUFFICES ASSUME Active', owner' \notin risked'
             PROVE  /\ Saving' \/ (pc' = "boot" /\ OldSettings') => begun' = "nothing"
                    /\ pc' = "write" /\ legacyMap' =>
                         \A s \in Subs : s < sub' => nor'[OldBank(owner', s)] = Saved(owner', s)
                    /\ Saving' \/ (pc' = "boot" /\ OldSettings') \/ InPlace(owner)'
  BY DEF OwnerKept
<1>1. MoveInv /\ MigrateTypeOK /\ Control /\ Sources /\ OwnerKept /\ sub \in 0..7 /\ Subs = 0..7
  BY DEF MigrateInv, MoveInv, MigrateTypeOK, Subs, SubBanks
<1>2. owner' = owner /\ risked \subseteq risked'
  BY DEF MigrateNext, Load, EraseStep, WriteStep, RestoreStep, Unload, EraseLog, WriteRecord, PowerCut
<1>3. Active /\ owner \notin risked /\ owner \in SaveBlocks /\ owner # Last
  BY <1>1, <1>2 DEF Active, MigrateTypeOK
<1>4. ASSUME \A s \in Subs : nor'[NewBank(owner, s)] = nor[NewBank(owner, s)], InPlace(owner)
      PROVE  InPlace(owner)'
  BY <1>2, <1>4 DEF InPlace, NewBank
<1>5. CASE Load
  <2>1. pc = "boot" /\ UNCHANGED <<nor, begun>> /\ sub' = 0
    BY <1>5, <1>1, LoadEffect
  <2>2. CASE OldSettings
    <3>1. pc' = "erase" /\ legacyMap' = TRUE
      BY <1>1, <1>3, <1>5, <2>2, LoadEffect DEF Active
    <3>2. begun = "nothing"
      BY <1>1, <1>3, <2>1, <2>2 DEF OwnerKept
    <3> QED
      BY <2>1, <3>1, <3>2 DEF Saving
  <2>3. CASE ~OldSettings
    <3>1. pc' = "done"
      BY <1>1, <1>5, <2>3, LoadEffect
    <3>2. InPlace(owner)
      BY <1>1, <1>3, <2>1, <2>3 DEF OwnerKept, Saving
    <3> QED
      BY <1>4, <2>1, <3>1, <3>2 DEF Saving
  <2> QED
    BY <2>2, <2>3
<1>6. CASE EraseStep
  <2>1. /\ pc = "erase" /\ pc' \in {"erase", "write"} /\ legacyMap' = legacyMap
        /\ begun' = (IF legacyMap THEN begun ELSE "unload") /\ EraseAt(Bank(sub))
        /\ pc' = "write" => sub' = 0
    BY <1>6 DEF EraseStep, Begin
  <2>2. CASE legacyMap
    BY <1>1, <1>3, <2>1, <2>2 DEF OwnerKept, Saving
  <2>3. CASE ~legacyMap
    <3>1. \A s \in Subs : nor'[NewBank(owner, s)] = nor[NewBank(owner, s)]
      BY <1>1, <1>2, <1>3, <2>1, <2>3, EraseEffect, CopyKeepsTheRest
    <3>2. InPlace(owner)
      BY <1>1, <1>3, <2>1, <2>3 DEF OwnerKept, Saving
    <3> QED
      BY <1>4, <2>1, <2>3, <3>1, <3>2 DEF Saving
  <2> QED
    BY <2>2, <2>3
<1>7. CASE WriteStep
  <2>1. /\ pc = "write" /\ UNCHANGED <<legacyMap, begun, target>>
        /\ \/ pc' = "write" /\ sub' = sub + 1
           \/ sub = 7 /\ pc' = (IF target \in SaveBlocks THEN "restore" ELSE "eraseLog")
    BY <1>1, <1>7 DEF WriteStep, AfterBackup, Begin, Subs, SubBanks
  <2>2. CASE legacyMap
    <3>1. begun = "nothing" /\ target = Last
      BY <1>1, <1>3, <2>1, <2>2 DEF OwnerKept, Saving, Control
    <3>2. \A s \in Subs : s < sub + 1 => nor'[OldBank(owner, s)] = Saved(owner, s)
      <4>1. sram[sub] = Saved(owner, sub)
        BY <1>1, <1>3, <3>1 DEF Sources, Active
      <4>2. \A s \in Subs : nor'[OldBank(owner, s)] =
                              IF s = sub THEN sram[sub] ELSE nor[OldBank(owner, s)]
        BY <1>1, <1>7, <2>1, <2>2, WriteEffect, BanksOfTheCopy
      <4>3. \A s \in Subs : s < sub + 1 => s = sub \/ s < sub
        BY <1>1
      <4> QED
        BY <1>1, <1>3, <2>1, <2>2, <4>1, <4>2, <4>3 DEF OwnerKept
    <3>3. CASE pc' = "write"
      BY <1>2, <2>1, <2>2, <3>1, <3>2, <3>3 DEF Saving
    <3>4. CASE pc' # "write"
      <4>1. pc' = "restore" /\ sub = 7
        BY <2>1, <3>1, <3>4, LastIsABlock
      <4>2. \A s \in Subs : nor'[NewBank(owner, s)] = Saved(owner, s)
        BY <1>1, <1>3, <3>2, <4>1, MapFacts
      <4>3. InPlace(owner)'
        BY <1>2, <4>2 DEF InPlace, NewBank
      <4> QED
        BY <4>1, <4>3 DEF Saving
    <3> QED
      BY <3>3, <3>4
  <2>3. CASE ~legacyMap
    <3>1. \A s \in Subs : nor'[NewBank(owner, s)] = nor[NewBank(owner, s)]
      BY <1>1, <1>2, <1>3, <1>7, <2>1, <2>3, WriteEffect, CopyKeepsTheRest
    <3>2. InPlace(owner)
      BY <1>1, <1>3, <2>1, <2>3 DEF OwnerKept, Saving
    <3>3. pc' # "boot" /\ ~legacyMap'
      BY <2>1, <2>3
    <3> QED
      BY <1>4, <3>1, <3>2, <3>3 DEF Saving
  <2> QED
    BY <2>2, <2>3
<1>8. CASE RestoreStep \/ Unload
  <2>1. /\ pc \in {"restore", "moved"} /\ nor' = nor
        /\ pc' \in {"restore", "moved"} \/ (pc' = "erase" /\ ~legacyMap')
    BY <1>8 DEF RestoreStep, Unload, Begin
  <2>2. InPlace(owner)
    BY <1>1, <1>3, <2>1 DEF OwnerKept, Saving
  <2> QED
    BY <1>4, <2>1, <2>2 DEF Saving
<1>9. CASE EraseLog \/ WriteRecord
  <2>1. pc \in {"eraseLog", "record"} /\ pc' \in {"record", "done"}
        /\ \A s \in Subs : nor'[NewBank(owner, s)] = nor[NewBank(owner, s)]
    BY <1>1, <1>3, <1>9, LogEffect
  <2>2. InPlace(owner)
    BY <1>1, <1>3, <2>1 DEF OwnerKept, Saving
  <2> QED
    BY <1>4, <2>1, <2>2 DEF Saving
<1>10. CASE PowerCut
  <2>1. pc \notin {"boot", "done"} /\ pc' = "boot"
    BY <1>10, <1>1, CutEffect
  <2>2. ~OwnerAtRisk
    BY <1>2, <1>3, <1>10 DEF PowerCut
  <2>3. CASE OldSettings'
    BY <1>3, <2>1, <2>2, <2>3 DEF OwnerAtRisk, Active, Saving
  <2>4. CASE ~OldSettings'
    <3>1. ~Saving
      BY <1>1, <1>10, <2>4, CutSettings DEF Control, Saving, Unloading
    <3>2. InPlace(owner)
      BY <1>1, <1>3, <2>1, <3>1 DEF OwnerKept
    <3>3. \A s \in Subs : nor'[NewBank(owner, s)] = nor[NewBank(owner, s)]
      <4>1. CASE pc \in {"erase", "write"}
        <5>1. ~legacyMap
          BY <3>1, <4>1 DEF Saving
        <5> QED
          BY <1>1, <1>2, <1>3, <1>10, <4>1, <5>1, CutEffect, CopyKeepsTheRest
      <4>2. CASE pc \notin {"erase", "write"}
        BY <1>1, <1>10, <4>2, CutEffect
      <4> QED
        BY <4>1, <4>2
    <3> QED
      BY <1>4, <2>1, <2>4, <3>2, <3>3 DEF Saving
  <2> QED
    BY <2>3, <2>4
<1> QED
  BY <1>5, <1>6, <1>7, <1>8, <1>9, <1>10 DEF MigrateNext

LEMMA LastKeptStep ==
  ASSUME MigrateInv, MigrateNext, MoveInv'
  PROVE  LastKept'
<1> SUFFICES ASSUME Last \notin risked'
             PROVE  /\ pc' = "restore" => Taken(sub)'
                    /\ pc' = "moved" \/ Unloading' => Taken(SubBanks)'
                    /\ owner' # Last /\ OldSettings' /\ begun' = "unload" => Unloading' /\ sub' > 0
                    /\ pc' = "write" /\ ~legacyMap' =>
                         \A s \in Subs : s < sub' => nor'[NewBank(Last, s)] = Saved(Last, s)
                    /\ OldSettings' \/ Unloading' \/ InPlace(Last)'
  BY DEF LastKept
<1>1. MoveInv /\ MigrateTypeOK /\ Control /\ Sources /\ LastKept /\ sub \in 0..7 /\ Subs = 0..7
  BY DEF MigrateInv, MoveInv, MigrateTypeOK, Subs, SubBanks
<1>2. owner' = owner /\ Last \notin risked
  BY DEF MigrateNext, Load, EraseStep, WriteStep, RestoreStep, Unload, EraseLog, WriteRecord, PowerCut
<1>3. Control' /\ Sources'
  BY DEF MoveInv
<1>4. SubBanks = 8 /\ \A s \in Subs : s < 8 /\ ~(s < 0)
  BY <1>1 DEF SubBanks
<1>5. CASE Load
  <2>1. pc = "boot" /\ sub' = 0 /\ UNCHANGED <<nor, sram, begun>>
    BY <1>1, <1>5, LoadEffect
  <2>2. OldSettings' = OldSettings
    BY <2>1 DEF OldSettings
  <2>3. CASE OldSettings
    <3>1. owner # Last => begun # "unload"
      BY <1>1, <1>2, <2>1, <2>3 DEF LastKept, Unloading
    <3>2. pc' = "moved" => owner = Last
      BY <1>1, <1>5, LoadEffect
    <3>3. pc' = "moved" => Taken(SubBanks)'
      BY <1>1, <2>1, <3>2, LastIsABlock DEF Taken, Sources
    <3>4. pc' = "restore" => Taken(sub)'
      BY <1>4, <2>1 DEF Taken
    <3>5. legacyMap' = TRUE
      BY <1>1, <1>5, <2>3, LoadEffect
    <3> QED
      BY <1>2, <2>1, <2>2, <2>3, <3>1, <3>3, <3>4, <3>5 DEF Unloading
  <2>4. CASE ~OldSettings
    <3>1. pc' = "done"
      BY <1>1, <1>5, <2>4, LoadEffect
    <3>2. InPlace(Last)
      BY <1>1, <1>2, <2>1, <2>4 DEF LastKept, Unloading
    <3> QED
      BY <2>1, <2>2, <2>4, <3>1, <3>2 DEF Unloading, InPlace
  <2> QED
    BY <2>3, <2>4
<1>6. CASE EraseStep
  <2>1. /\ pc = "erase" /\ pc' \in {"erase", "write"} /\ UNCHANGED <<legacyMap, sram>>
        /\ begun' = (IF legacyMap THEN begun ELSE "unload")
        /\ \/ pc' = "erase" /\ sub' = sub + 1
           \/ pc' = "write" /\ sub' = 0
    BY <1>6 DEF EraseStep, Begin
  <2>2. CASE legacyMap
    <3>1. OldSettings /\ OldSettings' /\ legacyMap'
      BY <1>1, <1>3, <2>1, <2>2 DEF Control, Saving
    <3>2. ~(owner # Last /\ begun = "unload")
      BY <1>1, <1>2, <2>2, <3>1 DEF LastKept, Unloading
    <3> QED
      BY <1>2, <2>1, <2>2, <3>1, <3>2 DEF Unloading
  <2>3. CASE ~legacyMap
    <3>1. Unloading /\ Unloading'
      BY <2>1, <2>3 DEF Unloading
    <3>2. Taken(SubBanks)'
      BY <1>1, <1>2, <2>1, <3>1 DEF LastKept, Taken
    <3>3. OldSettings' => sub' > 0
      BY <1>1, <1>3, <2>1, <3>1 DEF Control
    <3>4. pc' = "write" => \A s \in Subs : ~(s < sub')
      BY <1>1, <1>4, <2>1
    <3> QED
      BY <2>1, <3>1, <3>2, <3>3, <3>4
  <2> QED
    BY <2>2, <2>3
<1>7. CASE WriteStep
  <2>1. /\ pc = "write" /\ UNCHANGED <<legacyMap, begun, target, sram>>
        /\ \/ pc' = "write" /\ sub' = sub + 1 /\ sub < 7
           \/ /\ sub = 7 /\ sub' = 0
              /\ pc' = (IF target \in SaveBlocks THEN "restore" ELSE "eraseLog")
    BY <1>1, <1>7 DEF WriteStep, AfterBackup, Begin, SubBanks
  <2>2. CASE legacyMap
    <3>1. OldSettings /\ target = Last
      BY <1>1, <2>1, <2>2 DEF Control, Saving
    <3>2. pc' \in {"write", "restore"} /\ legacyMap'
      BY <2>1, <2>2, <3>1, LastIsABlock
    <3>3. OldSettings'
      BY <1>3, <3>2 DEF Control, Saving
    <3>4. ~(owner # Last /\ begun = "unload")
      BY <1>1, <1>2, <2>2, <3>1 DEF LastKept, Unloading
    <3>5. pc' = "restore" => Taken(sub)'
      BY <1>4, <2>1 DEF Taken
    <3> QED
      BY <1>2, <2>1, <3>2, <3>3, <3>4, <3>5 DEF Unloading
  <2>3. CASE ~legacyMap
    <3>1. Unloading /\ target = None /\ Taken(SubBanks)
      BY <1>1, <1>2, <2>1, <2>3 DEF Control, Unloading, LastKept
    <3>2. \A s \in Subs : s < sub + 1 => nor'[NewBank(Last, s)] = Saved(Last, s)
      <4>1. sram[sub] = Saved(Last, sub)
        BY <1>1, <1>4, <3>1 DEF Taken
      <4>2. \A s \in Subs : nor'[NewBank(Last, s)] =
                              IF s = sub THEN sram[sub] ELSE nor[NewBank(Last, s)]
        BY <1>1, <1>7, <2>1, <2>3, WriteEffect, BanksOfTheCopy
      <4>3. \A s \in Subs : s < sub + 1 => s = sub \/ s < sub
        BY <1>1
      <4> QED
        BY <1>1, <1>2, <2>1, <2>3, <4>1, <4>2, <4>3 DEF LastKept
    <3>3. ~legacyMap' /\ Taken(SubBanks)'
      BY <2>1, <2>3, <3>1 DEF Taken
    <3>4. CASE pc' = "write"
      <4>1. Unloading' /\ ~OldSettings'
        BY <1>3, <3>3, <3>4 DEF Unloading, Control
      <4> QED
        BY <2>1, <3>2, <3>3, <3>4, <4>1
    <3>5. CASE pc' # "write"
      <4>1. pc' = "eraseLog" /\ sub = 7
        BY <2>1, <3>1, <3>5, LastIsABlock
      <4>2. ~OldSettings'
        BY <1>3, <4>1 DEF Control
      <4>3. \A s \in Subs : nor'[NewBank(Last, s)] = Saved(Last, s)
        BY <1>1, <3>2, <4>1
      <4>4. InPlace(Last)'
        BY <4>3 DEF InPlace, NewBank
      <4> QED
        BY <4>1, <4>2, <4>4 DEF Unloading
    <3> QED
      BY <3>4, <3>5
  <2> QED
    BY <2>2, <2>3
<1>8. CASE RestoreStep
  <2>1. /\ pc = "restore" /\ nor' = nor /\ legacyMap' = legacyMap /\ legacyMap
        /\ sram' = [sram EXCEPT ![sub] = nor[Bank(sub)]]
        /\ begun' = (IF begun = "nothing" THEN "restore" ELSE begun)
        /\ \/ pc' = "restore" /\ sub' = sub + 1
           \/ pc' = "moved" /\ sub = 7
    BY <1>1, <1>8 DEF RestoreStep, Begin, SubBanks, Control
  <2>2. owner # Last /\ OldSettings /\ blk = Last
    BY <1>1, <2>1 DEF Control
  <2>3. begun # "unload" /\ Taken(sub)
    BY <1>1, <1>2, <2>1, <2>2 DEF LastKept, Unloading
  <2>4. nor[Bank(sub)] = Saved(Last, sub)
    BY <1>1, <2>1, <2>2, <2>3, BankIs DEF Sources
  <2>5. DOMAIN sram = Subs
    BY <1>1 DEF MigrateTypeOK
  <2>6. \A s \in Subs : s < sub + 1 => s = sub \/ s < sub
    BY <1>1
  <2>7. \A s \in Subs : s < sub + 1 => sram'[s] = Saved(Last, s)
    BY <2>1, <2>3, <2>4, <2>5, <2>6 DEF Taken
  <2>8. OldSettings'
    BY <2>1, <2>2 DEF OldSettings
  <2> QED
    BY <1>1, <1>4, <2>1, <2>3, <2>7, <2>8 DEF Taken, Unloading
<1>9. CASE Unload
  <2>1. pc = "moved" /\ pc' = "erase" /\ UNCHANGED <<nor, sram, begun>> /\ legacyMap' = FALSE
    BY <1>9 DEF Unload, Begin
  <2>2. OldSettings /\ Taken(SubBanks)
    BY <1>1, <1>2, <2>1 DEF LastKept, Control
  <2>3. Unloading' /\ Taken(SubBanks)'
    BY <2>1, <2>2 DEF Unloading, Taken
  <2>4. ~(owner # Last /\ begun = "unload")
    BY <1>1, <1>2, <2>1, <2>2 DEF LastKept, Unloading
  <2> QED
    BY <1>2, <2>1, <2>3, <2>4
<1>10. CASE EraseLog \/ WriteRecord
  <2>1. /\ pc \in {"eraseLog", "record"} /\ pc' \in {"record", "done"} /\ ~OldSettings
        /\ \A s \in Subs : nor'[NewBank(Last, s)] = nor[NewBank(Last, s)]
    BY <1>1, <1>10, LogEffect, LastIsABlock
  <2>2. InPlace(Last)
    BY <1>1, <1>2, <2>1 DEF LastKept, Unloading
  <2>3. InPlace(Last)'
    BY <2>1, <2>2 DEF InPlace, NewBank
  <2>4. ~OldSettings'
    BY <1>3, <2>1 DEF Control
  <2> QED
    BY <2>1, <2>3, <2>4 DEF Unloading
<1>11. CASE PowerCut
  <2>1. pc \notin {"boot", "done"} /\ pc' = "boot"
    BY <1>11, <1>1, CutEffect
  <2>2. ~LastAtRisk
    BY <1>11, LastIsABlock DEF PowerCut
  <2>3. pc \in {"eraseLog", "record"} => ~OldSettings'
    BY <1>1, <1>11, CutSettings DEF Control
  <2>4. ~(owner' # Last /\ OldSettings' /\ begun' = "unload")
    BY <1>2, <2>2, <2>3 DEF LastAtRisk
  <2>5. ASSUME ~OldSettings' PROVE InPlace(Last)'
    <3>1. begun' = "unload"
      BY <1>3, <2>5 DEF Sources
    <3>2. pc \in {"eraseLog", "record"}
      BY <2>2, <2>5, <3>1 DEF LastAtRisk
    <3>3. InPlace(Last)
      BY <1>1, <1>2, <3>2 DEF LastKept, Unloading, Control
    <3>4. nor' = nor
      BY <1>1, <1>11, <3>2, CutEffect
    <3> QED
      BY <3>3, <3>4 DEF InPlace
  <2> QED
    BY <2>1, <2>4, <2>5 DEF Unloading
<1> QED
  BY <1>5, <1>6, <1>7, <1>8, <1>9, <1>10, <1>11 DEF MigrateNext

LEMMA OwnerLostStep ==
  ASSUME MigrateInv, MigrateNext, MoveInv'
  PROVE  OwnerLost'
<1> SUFFICES ASSUME Active'
             PROVE  /\ nor'[NewBank(Last, 0)] # Saved(owner, 0)
                    /\ begun' # "nothing" => sram'[0] # Saved(owner, 0)
                    /\ /\ owner \in risked' /\ ~(pc' = "boot" /\ OldSettings')
                       /\ ~(pc' = "erase" /\ legacyMap' /\ sub' = 0)
                       => nor'[NewBank(owner, 0)] # Saved(owner, 0)
  <2>1. owner' = owner
    BY DEF MigrateNext, Load, EraseStep, WriteStep, RestoreStep, Unload, EraseLog, WriteRecord, PowerCut
  <2> QED
    BY <2>1 DEF OwnerLost
<1>1. MoveInv /\ MigrateTypeOK /\ Control /\ Sources /\ Progress /\ OwnerLost
      /\ sub \in 0..7 /\ Subs = 0..7 /\ DOMAIN sram = Subs
  BY DEF MigrateInv, MoveInv, MigrateTypeOK, Subs, SubBanks
<1>2. owner' = owner
  BY DEF MigrateNext, Load, EraseStep, WriteStep, RestoreStep, Unload, EraseLog, WriteRecord, PowerCut
<1>3. Active /\ owner \in SaveBlocks /\ owner # Last
  BY <1>1, <1>2 DEF Active, MigrateTypeOK
<1>4. /\ nor[NewBank(Last, 0)] # Saved(owner, 0)
      /\ begun # "nothing" => sram[0] # Saved(owner, 0)
      /\ /\ owner \in risked /\ ~(pc = "boot" /\ OldSettings)
         /\ ~(pc = "erase" /\ legacyMap /\ sub = 0)
         => nor[NewBank(owner, 0)] # Saved(owner, 0)
  BY <1>1, <1>3 DEF OwnerLost
<1>5. /\ 0 \in Subs /\ Blank # Saved(owner, 0) /\ Torn # Saved(owner, 0)
      /\ NewBank(Last, 0) \in DOMAIN nor /\ NewBank(owner, 0) \in DOMAIN nor
      /\ NewBank(owner, 0) = OldBank(owner, 0)
  <2>1. 0 \in Subs /\ DOMAIN nor = 128..249
    BY <1>1 DEF MigrateTypeOK, FirstProgramBank
  <2> QED
    BY <1>3, <2>1, ContentFacts, MapFacts, LastIsABlock
<1>6. CASE Load
  <2>1. /\ pc = "boot" /\ UNCHANGED <<nor, sram, begun, risked>> /\ sub' = 0
        /\ OldSettings => pc' = "erase" /\ legacyMap'
    BY <1>1, <1>3, <1>6, LoadEffect DEF Active
  <2> QED
    BY <1>4, <2>1
<1>7. CASE EraseStep
  <2>1. /\ pc = "erase" /\ pc' \in {"erase", "write"} /\ UNCHANGED <<legacyMap, sram, risked>>
        /\ begun' = (IF legacyMap THEN begun ELSE "unload") /\ EraseAt(Bank(sub))
        /\ \A x \in DOMAIN nor : nor'[x] \in {nor[x], Blank}
    BY <1>1, <1>7, EraseEffect DEF EraseStep, Begin
  <2>2. begun' # "nothing" => begun # "nothing"
    BY <1>1, <1>3, <2>1 DEF Control, Unloading
  <2>3. CASE legacyMap /\ sub = 0
    <3>1. nor'[NewBank(owner, 0)] = Blank
      <4>1. 0 \in Pair
        BY <2>3 DEF Pair
      <4> QED
        BY <1>1, <1>5, <2>1, <2>3, <4>1, EraseEffect, BanksOfTheCopy
    <3> QED
      BY <1>4, <1>5, <2>1, <2>2, <3>1
  <2>4. CASE ~(legacyMap /\ sub = 0)
    BY <1>4, <1>5, <2>1, <2>2, <2>4
  <2> QED
    BY <2>3, <2>4
<1>8. CASE WriteStep
  <2>1. /\ pc = "write" /\ pc' \in {"write", "restore", "eraseLog"}
        /\ UNCHANGED <<legacyMap, sram, risked, begun>>
    BY <1>8 DEF WriteStep, AfterBackup, Begin
  <2>2. CASE legacyMap
    <3>1. nor'[NewBank(Last, 0)] = nor[NewBank(Last, 0)]
      BY <1>1, <1>2, <1>5, <1>8, <2>1, <2>2, WriteEffect, CopyKeepsTheRest, LastPlaces
    <3>2. nor'[NewBank(owner, 0)] = IF sub = 0 THEN sram[0] ELSE nor[NewBank(owner, 0)]
      BY <1>1, <1>5, <1>8, <2>1, <2>2, WriteEffect, BanksOfTheCopy
    <3>3. owner \in risked => begun # "nothing"
      BY <1>1 DEF Sources
    <3> QED
      BY <1>4, <2>1, <3>1, <3>2, <3>3
  <2>3. CASE ~legacyMap
    <3>1. nor'[NewBank(owner, 0)] = nor[NewBank(owner, 0)]
      BY <1>1, <1>2, <1>3, <1>5, <1>8, <2>1, <2>3, WriteEffect, CopyKeepsTheRest
    <3>2. nor'[NewBank(Last, 0)] = IF sub = 0 THEN sram[0] ELSE nor[NewBank(Last, 0)]
      BY <1>1, <1>5, <1>8, <2>1, <2>3, WriteEffect, BanksOfTheCopy
    <3>3. begun # "nothing"
      BY <1>1, <1>3, <2>1, <2>3 DEF Control, Unloading
    <3> QED
      BY <1>4, <2>1, <2>3, <3>1, <3>2, <3>3
  <2> QED
    BY <2>2, <2>3
<1>9. CASE RestoreStep
  <2>1. /\ pc = "restore" /\ UNCHANGED <<nor, risked>> /\ pc' \in {"restore", "moved"}
        /\ sram' = [sram EXCEPT ![sub] = nor[Bank(sub)]]
    BY <1>9 DEF RestoreStep, Begin
  <2>2. sub = 0 => Bank(sub) = NewBank(Last, 0)
    <3>1. legacyMap /\ blk = Last
      BY <1>1, <2>1 DEF Control
    <3> QED
      BY <1>1, <3>1, BankIs, LastPlaces
  <2>3. sub # 0 => begun # "nothing"
    BY <1>1, <2>1 DEF Control
  <2>4. sram'[0] # Saved(owner, 0)
    BY <1>1, <1>4, <1>5, <2>1, <2>2, <2>3
  <2> QED
    BY <1>4, <2>1, <2>4
<1>10. CASE Unload
  <2>1. pc = "moved" /\ UNCHANGED <<nor, sram, risked, begun>> /\ ~legacyMap'
    BY <1>10 DEF Unload
  <2> QED
    BY <1>4, <2>1
<1>11. CASE EraseLog \/ WriteRecord
  <2>1. /\ pc \in {"eraseLog", "record"} /\ UNCHANGED <<sram, risked, begun>>
        /\ nor'[NewBank(owner, 0)] = nor[NewBank(owner, 0)]
        /\ nor'[NewBank(Last, 0)] = nor[NewBank(Last, 0)]
    BY <1>1, <1>3, <1>5, <1>11, LogEffect, LastIsABlock
  <2> QED
    BY <1>4, <2>1
<1>12. CASE PowerCut
  <2>1. /\ pc \notin {"boot", "done"} /\ pc' = "boot"
        /\ \A x \in DOMAIN nor : nor'[x] \in {nor[x], Torn}
        /\ \A s \in Subs : sram'[s] \in {sram[s], Torn}
    BY <1>1, <1>12, CutEffect
  <2>2. begun' # "nothing" => sram'[0] # Saved(owner, 0)
    <3> SUFFICES ASSUME begun' # "nothing", begun = "nothing" PROVE sram'[0] # Saved(owner, 0)
      BY <1>4, <1>5, <2>1
    <3>1. ~(pc = "erase" /\ ~legacyMap)
      BY <1>1, <1>3 DEF Control, Unloading
    <3>2. pc = "restore" /\ sram'[sub] = Torn
      BY <1>1, <1>12, <3>1, CutEffect
    <3>3. sub = 0
      BY <1>1, <3>2 DEF Control
    <3> QED
      BY <1>5, <3>2, <3>3
  <2>3. ASSUME owner \in risked', ~OldSettings' PROVE nor[NewBank(owner, 0)] # Saved(owner, 0)
    <3>1. owner \in risked
      BY <1>3, <1>12, <2>3 DEF PowerCut, OwnerAtRisk
    <3>2. ~Saving
      BY <1>1, <1>12, <2>3, CutSettings DEF Control, Saving, Unloading
    <3> QED
      BY <1>4, <2>1, <3>1, <3>2 DEF Saving
  <2> QED
    BY <1>4, <1>5, <2>1, <2>2, <2>3
<1> QED
  BY <1>6, <1>7, <1>8, <1>9, <1>10, <1>11, <1>12 DEF MigrateNext

LEMMA LastLostStep ==
  ASSUME MigrateInv, MigrateNext, MoveInv'
  PROVE  LastLost'
<1> DEFINE Gone == nor[NewBank(Last, 0)] # Saved(Last, 0)
           Holds == (pc = "restore" /\ sub > 0) \/ pc = "moved" \/ Unloading
           Fresh == sram[0] # Saved(Last, 0)
<1>1. MoveInv /\ MigrateTypeOK /\ Control /\ Sources /\ Progress /\ LastLost /\ LastKept
      /\ sub \in 0..7 /\ Subs = 0..7 /\ DOMAIN sram = Subs
  BY DEF MigrateInv, MoveInv, MigrateTypeOK, Subs, SubBanks
<1>2. owner' = owner
  BY DEF MigrateNext, Load, EraseStep, WriteStep, RestoreStep, Unload, EraseLog, WriteRecord, PowerCut
<1>3. /\ 0 \in Subs /\ 7 \in Subs /\ Blank # Saved(Last, 0) /\ Torn # Saved(Last, 0)
      /\ Blank # Saved(Last, 7) /\ Torn # Saved(Last, 7)
      /\ NewBank(Last, 0) \in DOMAIN nor /\ NewBank(Last, 7) \in DOMAIN nor
  <2>1. 0 \in Subs /\ 7 \in Subs /\ DOMAIN nor = 128..249
    BY <1>1 DEF MigrateTypeOK, FirstProgramBank
  <2> QED
    BY <2>1, ContentFacts, MapFacts, LastIsABlock
<1>4. ASSUME Last \in risked, pc \notin {"boot", "done"}
      PROVE  owner # Last /\ Gone /\ (Holds => Fresh) /\ begun = "unload"
  BY <1>1, <1>4 DEF LastLost
<1>5. SUFFICES ASSUME Last \in risked'
      PROVE  /\ begun' = "unload"
             /\ \/ owner # Last /\ Gone' /\ (Holds' => Fresh')
                \/ ~OldSettings' /\ nor'[NewBank(Last, 7)] # Saved(Last, 7) /\ pc' \in {"boot", "done"}
  BY <1>2 DEF LastLost
<1> HIDE DEF Gone, Holds, Fresh
<1>6. CASE Load
  <2>1. /\ pc = "boot" /\ UNCHANGED <<nor, sram, begun, risked>> /\ sub' = 0
        /\ pc' = "moved" => owner = Last
        /\ legacyMap' \/ pc' = "done"
        /\ ~OldSettings => pc' = "done"
    BY <1>1, <1>6, LoadEffect
  <2>2. (OldSettings' <=> OldSettings) /\ Gone' = Gone
    BY <2>1 DEF OldSettings, Gone
  <2>3. owner # Last => ~Holds'
    BY <2>1 DEF Holds, Unloading
  <2> QED
    BY <1>1, <1>5, <2>1, <2>2, <2>3 DEF LastLost, Gone
<1>7. CASE EraseStep
  <2>1. /\ pc = "erase" /\ pc' \in {"erase", "write"} /\ UNCHANGED <<legacyMap, sram, risked>>
        /\ begun' = (IF legacyMap THEN begun ELSE "unload")
        /\ \A x \in DOMAIN nor : nor'[x] \in {nor[x], Blank}
    BY <1>1, <1>7, EraseEffect DEF EraseStep, Begin
  <2>2. owner # Last /\ Gone /\ (Holds => Fresh) /\ begun = "unload"
    BY <1>4, <1>5, <2>1
  <2>3. Gone'
    BY <1>3, <2>1, <2>2 DEF Gone
  <2>4. Holds' => Fresh'
    BY <2>1, <2>2 DEF Holds, Fresh, Unloading
  <2> QED
    BY <2>1, <2>2, <2>3, <2>4
<1>8. CASE WriteStep
  <2>1. /\ pc = "write" /\ UNCHANGED <<legacyMap, sram, risked, begun>>
        /\ pc' = "write" \/ (pc' \in {"restore", "eraseLog"} /\ sub' = 0)
    BY <1>8 DEF WriteStep, AfterBackup, Begin
  <2>2. owner # Last /\ Gone /\ (Holds => Fresh) /\ begun = "unload"
    BY <1>4, <1>5, <2>1
  <2>3. Gone'
    <3>1. CASE legacyMap
      BY <1>1, <1>2, <1>3, <1>8, <2>1, <2>2, <3>1, WriteEffect, CopyKeepsTheRest, LastPlaces DEF Gone
    <3>2. CASE ~legacyMap
      <4>1. nor'[NewBank(Last, 0)] = IF sub = 0 THEN sram[0] ELSE nor[NewBank(Last, 0)]
        BY <1>1, <1>3, <1>8, <2>1, <3>2, WriteEffect, BanksOfTheCopy
      <4>2. Fresh
        BY <2>1, <2>2, <3>2 DEF Holds, Unloading
      <4> QED
        BY <2>2, <4>1, <4>2 DEF Gone, Fresh
    <3> QED
      BY <3>1, <3>2
  <2>4. Holds' => Fresh'
    BY <2>1, <2>2 DEF Holds, Fresh, Unloading
  <2> QED
    BY <2>1, <2>2, <2>3, <2>4
<1>9. CASE RestoreStep
  <2>1. /\ pc = "restore" /\ UNCHANGED <<nor, risked>>
        /\ sram' = [sram EXCEPT ![sub] = nor[Bank(sub)]]
        /\ begun' = (IF begun = "nothing" THEN "restore" ELSE begun)
    BY <1>9 DEF RestoreStep
  <2>2. owner # Last /\ Gone /\ (Holds => Fresh) /\ begun = "unload"
    BY <1>4, <1>5, <2>1
  <2>3. sub = 0 => Bank(sub) = NewBank(Last, 0)
    <3>1. legacyMap /\ blk = Last
      BY <1>1, <2>1 DEF Control
    <3> QED
      BY <1>1, <3>1, BankIs, LastPlaces
  <2>4. sub # 0 => Fresh
    BY <1>1, <2>1, <2>2 DEF Holds
  <2>5. Fresh'
    BY <1>1, <1>3, <2>1, <2>2, <2>3, <2>4 DEF Fresh, Gone
  <2> QED
    BY <2>1, <2>2, <2>5 DEF Gone
<1>10. CASE Unload
  <2>1. pc = "moved" /\ UNCHANGED <<nor, sram, risked, begun>>
    BY <1>10 DEF Unload
  <2>2. owner # Last /\ Gone /\ Fresh /\ begun = "unload"
    BY <1>4, <1>5, <2>1 DEF Holds
  <2> QED
    BY <2>1, <2>2 DEF Gone, Fresh
<1>11. CASE EraseLog \/ WriteRecord
  <2>1. /\ pc \in {"eraseLog", "record"} /\ UNCHANGED <<sram, risked, begun>>
        /\ nor'[NewBank(Last, 0)] = nor[NewBank(Last, 0)]
        /\ pc' \in {"record", "done"}
    BY <1>1, <1>3, <1>11, LogEffect, LastIsABlock
  <2>2. owner # Last /\ Gone /\ begun = "unload"
    BY <1>4, <1>5, <2>1
  <2> QED
    BY <2>1, <2>2 DEF Gone, Holds, Unloading
<1>12. CASE PowerCut
  <2>1. /\ pc \notin {"boot", "done"} /\ pc' = "boot"
        /\ \A x \in DOMAIN nor : nor'[x] \in {nor[x], Torn}
    BY <1>1, <1>12, CutEffect
  <2>2. ~Holds'
    BY <2>1 DEF Holds, Unloading
  <2>3. CASE Last \in risked
    <3>1. owner # Last /\ Gone /\ begun = "unload"
      BY <1>4, <2>1, <2>3
    <3>2. Gone'
      BY <1>3, <2>1, <3>1 DEF Gone
    <3>3. begun' = "unload"
      BY <1>1, <1>12, <3>1, CutEffect
    <3> QED
      BY <2>2, <3>1, <3>2, <3>3
  <2>4. CASE Last \notin risked
    <3>1. begun' = "unload" /\ pc \notin {"eraseLog", "record"} /\ (owner = Last => ~OldSettings')
      <4>1. Last = owner /\ OwnerAtRisk => FALSE
        BY DEF OwnerAtRisk
      <4>2. LastAtRisk
        BY <1>5, <1>12, <2>4, <4>1 DEF PowerCut
      <4> QED
        BY <4>2 DEF LastAtRisk
    <3>2. CASE ~OldSettings'
      <4>1. Unloading
        <5>1. CASE OldSettings
          BY <1>1, <1>12, <3>2, <5>1, CutSettings
        <5>2. CASE ~OldSettings
          BY <1>1, <2>1, <3>1, <5>2 DEF Control, Saving, Unloading, MigrateTypeOK
        <5> QED
          BY <5>1, <5>2
      <4>2. \A t \in Subs : Bank(t) = NewBank(Last, t) /\ (Bank(t) = LegacySettingsBank <=> t = 6)
        BY <1>1, <4>1, BanksOfTheCopy DEF Unloading
      <4>3. nor[Bank(7)] = Blank \/ nor'[Bank(7)] = Torn
        <5>1. CASE pc = "write"
          <6>1. 7 >= sub
            BY <1>1
          <6> QED
            BY <1>1, <1>3, <5>1, <6>1 DEF Progress
        <5>2. CASE pc = "erase" /\ sub = 7
          <6>1. 7 < sub + (sub % 2)
            BY <5>2
          <6> QED
            BY <1>1, <1>3, <5>2, <6>1 DEF Progress
        <5>3. CASE pc = "erase" /\ sub < 7
          <6>1. OldSettings
            BY <1>1, <4>1, <5>3 DEF Control
          <6>2. sub = 6 /\ HalfErase
            BY <1>1, <1>12, <3>2, <5>3, <6>1, CutSettings
               DEF PowerCut, HalfWrite, HalfRestore, OldSettings
          <6>3. PICK kept \in {{}, {LegacySettingsBank}} :
                  nor' = [x \in DOMAIN nor |-> IF x \in ErasedBy(Bank(sub)) \ kept THEN Torn ELSE nor[x]]
            BY <6>2 DEF HalfErase
          <6>4. Bank(7) \in ErasedBy(Bank(sub)) /\ Bank(7) # LegacySettingsBank
            <7>1. sub % 2 = 0 /\ sub + 1 = 7
              BY <6>2
            <7>2. ErasedBy(Bank(sub)) = {Bank(sub), Bank(sub + 1)}
              BY <1>1, <7>1, ErasesTwoBanks
            <7> QED
              BY <1>3, <4>2, <7>1, <7>2
          <6> QED
            BY <1>3, <4>2, <6>3, <6>4
        <5> QED
          BY <1>1, <4>1, <5>1, <5>2, <5>3 DEF Unloading
      <4>4. nor'[NewBank(Last, 7)] # Saved(Last, 7)
        BY <1>3, <2>1, <4>2, <4>3
      <4> QED
        BY <2>1, <3>1, <3>2, <4>4
    <3>3. CASE OldSettings'
      <4>1. OldSettings /\ owner # Last
        BY <1>1, <1>12, <3>1, <3>3, CutSettings
      <4>2. nor[NewBank(Last, 0)] = Blank \/ nor'[NewBank(Last, 0)] = Torn
        <5>1. CASE begun = "unload"
          <6>1. Unloading /\ sub > 0
            BY <1>1, <2>4, <4>1, <5>1 DEF LastKept
          <6>2. pc = "erase"
            BY <1>1, <4>1, <6>1 DEF Control
          <6>3. 0 < sub + (sub % 2)
            BY <1>1, <6>1
          <6>4. Bank(0) = NewBank(Last, 0)
            BY <1>1, <1>3, <6>1, BanksOfTheCopy DEF Unloading
          <6> QED
            BY <1>1, <1>3, <6>2, <6>3, <6>4 DEF Progress
        <5>2. CASE begun # "unload"
          <6>1. /\ pc = "erase" /\ ~legacyMap
                /\ \A t \in Pair : Bank(t) # LegacySettingsBank => nor'[Bank(t)] = Torn
            BY <1>1, <1>12, <3>1, <5>2, CutEffect
          <6>2. sub = 0
            BY <1>1, <5>2, <6>1 DEF Control, Unloading
          <6>3. 0 \in Pair
            BY <6>2 DEF Pair
          <6>4. Bank(0) = NewBank(Last, 0) /\ Bank(0) # LegacySettingsBank
            BY <1>1, <1>3, <6>1, BanksOfTheCopy
          <6> QED
            BY <6>1, <6>3, <6>4
        <5> QED
          BY <5>1, <5>2
      <4>3. Gone'
        BY <1>3, <2>1, <4>2 DEF Gone
      <4> QED
        BY <2>2, <3>1, <4>1, <4>3
    <3> QED
      BY <3>2, <3>3
  <2> QED
    BY <2>3, <2>4
<1> QED
  BY <1>6, <1>7, <1>8, <1>9, <1>10, <1>11, <1>12 DEF MigrateNext

LEMMA SettingsKnownStep ==
  ASSUME MigrateInv, MigrateNext, MoveInv'
  PROVE  SettingsKnown'
<1>1. MoveInv /\ SettingsKnown
  BY DEF MigrateInv
<1>2. CASE Load
  <2>1. /\ pc = "boot" /\ UNCHANGED <<nor, forgotten>>
        /\ OldSettings => pc' \notin {"boot", "done"}
        /\ ~OldSettings => pc' = "done" /\ act' = FirstBoot
    BY <1>1, <1>2, LoadEffect
  <2> QED
    BY <1>1, <2>1 DEF SettingsKnown, OldSettings
<1>3. CASE EraseStep \/ WriteStep \/ RestoreStep \/ Unload
  <2>1. pc \notin {"boot", "done"} /\ pc' \notin {"boot", "done"} /\ forgotten' = forgotten
    BY <1>3 DEF EraseStep, WriteStep, AfterBackup, RestoreStep, Unload, Begin
  <2> QED
    BY <1>1, <2>1 DEF SettingsKnown
<1>4. CASE EraseLog \/ WriteRecord
  <2>1. /\ pc \notin {"boot", "done"} /\ pc' # "boot" /\ act' = None /\ forgotten' = forgotten
        /\ pc' = "done" => nor'[SettingsBank] = Record(None)
    BY <1>1, <1>4, LogEffect
  <2> QED
    BY <1>1, <2>1 DEF SettingsKnown
<1>5. CASE PowerCut
  <2>1. pc \notin {"boot", "done"} /\ pc' = "boot" /\ forgotten' = (forgotten \/ ~OldSettings')
    BY <1>5 DEF PowerCut
  <2>2. ~forgotten
    BY <1>1, <2>1 DEF SettingsKnown
  <2> QED
    BY <2>1, <2>2 DEF SettingsKnown
<1> QED
  BY <1>2, <1>3, <1>4, <1>5 DEF MigrateNext

-----------------------------------------------------------------------------
\* Where each bank is in every step of the move, and what is lost, over any number
\* of power cuts.
THEOREM MigrateInvariant == MigrateSpec => []MigrateInv
<1>1. MigrateInv /\ MigrateNext => MigrateInv'
  <2> SUFFICES ASSUME MigrateInv, MigrateNext PROVE MigrateInv'
    OBVIOUS
  <2>1. MoveInv'
    BY MoveLoad, MoveErase, MoveWrite, MoveRestore, MoveUnload, MoveLog, MoveCut
       DEF MigrateNext, MigrateInv
  <2> QED
    BY <2>1, OwnerKeptStep, LastKeptStep, OwnerLostStep, LastLostStep, SettingsKnownStep
       DEF MigrateInv
<1>2. MigrateInv /\ UNCHANGED migrateVars => MigrateInv'
  <2> SUFFICES ASSUME MigrateInv, UNCHANGED migrateVars PROVE MigrateInv'
    OBVIOUS
  <2>1. UNCHANGED <<nor, sram, legacyMap, act, target, pc, blk, sub, owner, begun, risked,
                    forgotten, cuts>>
    BY DEF migrateVars
  <2>2. MigrateTypeOK' /\ NorTyped' /\ Control'
    BY <2>1 DEF MigrateInv, MoveInv, MigrateTypeOK, NorTyped, Control, Saving, Unloading, Active,
                OldSettings
  <2>3. OthersUntouched' /\ Progress' /\ Sources'
    BY <2>1 DEF MigrateInv, MoveInv, OthersUntouched, InPlace, Progress, Bank, Sources, OldSettings
  <2>4. OwnerKept' /\ LastKept'
    BY <2>1 DEF MigrateInv, OwnerKept, LastKept, InPlace, Taken, Saving, Unloading, Active, OldSettings
  <2>5. OwnerLost' /\ LastLost' /\ SettingsKnown'
    BY <2>1 DEF MigrateInv, OwnerLost, LastLost, SettingsKnown, Unloading, Active, OldSettings
  <2> QED
    BY <2>2, <2>3, <2>4, <2>5 DEF MigrateInv, MoveInv
<1> QED
  BY <1>1, <1>2, MigrateInitInv, PTL DEF MigrateSpec

\* After any number of power cuts the move has brought every save block to where
\* the new map has it but for exactly those that a cut has cost, and has recorded
\* that SRAM holds none of them unless a cut left no settings to be read.
THEOREM MovesEverythingTheorem == MigrateSpec => []MovesEverything
<1>1. MigrateInv => MovesEverything
  <2> SUFFICES ASSUME MigrateInv, pc = "done" PROVE MovesEverything
    BY DEF MovesEverything
  <2>1. /\ Control /\ Sources /\ OthersUntouched /\ OwnerKept /\ LastKept /\ OwnerLost /\ LastLost
        /\ SettingsKnown /\ 0 \in Subs /\ 7 \in Subs /\ ~OldSettings
    BY DEF MigrateInv, MoveInv, Control, Subs, SubBanks
  <2>2. ASSUME NEW b \in SaveBlocks PROVE InPlace(b) <=> b \notin risked
    <3>1. CASE b = Last
      <4>1. Last \notin risked => InPlace(Last)
        BY <2>1 DEF LastKept, Unloading
      <4>2. Last \in risked => \E s \in Subs : nor[NewBank(Last, s)] # Saved(Last, s)
        BY <2>1 DEF LastLost
      <4> QED
        BY <3>1, <4>1, <4>2 DEF InPlace, NewBank
    <3>2. CASE b = owner /\ b # Last
      <4>1. Active
        BY <3>2, LastIsABlock DEF Active
      <4>2. owner \notin risked => InPlace(owner)
        BY <2>1, <4>1 DEF OwnerKept, Saving
      <4>3. owner \in risked => nor[NewBank(owner, 0)] # Saved(owner, 0)
        BY <2>1, <4>1 DEF OwnerLost
      <4> QED
        BY <2>1, <3>2, <4>2, <4>3 DEF InPlace, NewBank
    <3>3. CASE b \notin {owner, Last}
      BY <2>1, <2>2, <3>3 DEF Sources, OthersUntouched
    <3> QED
      BY <3>1, <3>2, <3>3
  <2>3. IF forgotten THEN act = FirstBoot ELSE act = None /\ nor[SettingsBank] = Record(None)
    BY <2>1 DEF SettingsKnown
  <2> QED
    BY <2>2, <2>3 DEF MovesEverything
<1> QED
  BY <1>1, MigrateInvariant, PTL

\* Power cuts, however many, cost no block but the one that was active and
\* the one that moves.
THEOREM OthersUntouchedTheorem == MigrateSpec => []OthersUntouched
<1>1. MigrateInv => OthersUntouched
  BY DEF MigrateInv, MoveInv
<1> QED
  BY <1>1, MigrateInvariant, PTL
=============================================================================
