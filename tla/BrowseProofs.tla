---------------------------- MODULE BrowseProofs ----------------------------
(***************************************************************************)
(* The list of programs and the save memory that they are given, for any   *)
(* numbers of slots and blocks and any contents of the headers.            *)
(***************************************************************************)
EXTENDS Browse, TLAPS

Entry == [id : 0..127, bank : 128..255]
MinSizeAt(s) == Scan!MinSize(slotType[s])

Types3 ==
  /\ mapping \in [Blocks -> Slots \cup {GameSlots, Unused}]
  /\ slotType \in [Slots -> Types]
  /\ scanSlot \in 0..GameSlots /\ scanBank \in Int
  /\ list \in Seq(Entry)

\* What has been read from a slot lies above the bank that is read next, by at
\* least what the slot's type says is between two programs.
Placed ==
  \A j \in 1..Len(list) :
    LET s == Scan!SlotOf(list[j].id)
    IN  /\ s \in Slots /\ s <= scanSlot
        /\ list[j].id = Scan!EntryId(s, list[j].bank)
        /\ s = scanSlot => scanBank <= list[j].bank - MinSizeAt(s)
        /\ list[j].bank = 255 \/ list[j].bank <= 255 - MinSizeAt(s)

BankStep == scanSlot \in Slots => scanBank = 255 \/ scanBank <= 255 - MinSizeAt(scanSlot)

Spaced ==
  \A j, k \in 1..Len(list) :
    j < k /\ Scan!SlotOf(list[j].id) = Scan!SlotOf(list[k].id)
      => list[k].bank <= list[j].bank - MinSizeAt(Scan!SlotOf(list[j].id))

ListOfTheMoment == phase # "browser" => scanSlot = 0 /\ scanBank = 255 /\ list = <<>>

BrowseInv == Types3 /\ LauncherIsFixed /\ Placed /\ BankStep /\ Spaced /\ ListOfTheMoment

-----------------------------------------------------------------------------
LEMMA IdParts ==
  ASSUME NEW s \in 0..15, NEW b \in 128..255
  PROVE  /\ Scan!EntryId(s, b) \in 0..127
         /\ Scan!SlotOf(Scan!EntryId(s, b)) = s
         /\ Scan!SubOf(Scan!EntryId(s, b)) = 15 - b \div 16
  BY DEF Scan!EntryId, Scan!SlotOf, Scan!SubOf

LEMMA EntryFields ==
  ASSUME list \in Seq(Entry), NEW j \in 1..Len(list)
  PROVE  list[j].id \in 0..127 /\ list[j].bank \in 128..255
<1>1. list[j] \in Entry
  OBVIOUS
<1> QED
  BY <1>1 DEF Entry

LEMMA MinSizeCases ==
  ASSUME NEW t
  PROVE  /\ Scan!MinSize(t) \in {16, 64, 128}
         /\ t = Two => Scan!MinSize(t) = 64
         /\ t \notin {Two, Eight} => Scan!MinSize(t) = 128
  BY DEF Scan!MinSize, Scan!Two, Scan!Eight, Two, Eight

LEMMA SizeAtLeast ==
  ASSUME NEW t, NEW valid \in BOOLEAN, NEW code \in 0..255
  PROVE  Scan!ProgramSize(t, valid, code) \in Int /\ Scan!ProgramSize(t, valid, code) >= Scan!MinSize(t)
<1> DEFINE stated == IF valid /\ code + 1 \in DOMAIN Scan!RomSizeTable
                     THEN 2 * Scan!RomSizeTable[code + 1] ELSE 0
<1>1. stated \in Int
  BY DEF Scan!RomSizeTable
<1>2. Scan!MinSize(t) \in Int
  BY MinSizeCases
<1> HIDE DEF stated
<1>3. Scan!ProgramSize(t, valid, code) = IF stated < Scan!MinSize(t) THEN Scan!MinSize(t) ELSE stated
  BY DEF Scan!ProgramSize, stated
<1> QED
  BY <1>1, <1>2, <1>3

-----------------------------------------------------------------------------
LEMMA BrowseInitInv == BrowseInit => BrowseInv
<1> SUFFICES ASSUME BrowseInit PROVE BrowseInv
  OBVIOUS
<1>1. mapping \in [Blocks -> Slots \cup {GameSlots, Unused}] /\ slotType \in [Slots -> Types]
  BY SlotsAssumption, SelectAssumption DEF BrowseInit, Init, Blocks, Slots, Types
<1>2. LauncherIsFixed
  BY SlotsAssumption, SelectAssumption
     DEF BrowseInit, Init, LauncherIsFixed, Blocks, Slots, LaunchSlot, Launcher, Soft, Unused
<1>3. scanSlot = 0 /\ scanBank = 255 /\ list = <<>>
  BY DEF BrowseInit, Scan!LastBank
<1> QED
  BY <1>1, <1>2, <1>3, SlotsAssumption
     DEF BrowseInv, Types3, Placed, BankStep, Spaced, ListOfTheMoment

LEMMA ConfigureKeepsInv == BrowseInv /\ Configure => BrowseInv'
<1> SUFFICES ASSUME BrowseInv, Configure PROVE BrowseInv'
  OBVIOUS
<1>1. scanSlot' = 0 /\ scanBank' = 255 /\ list' = <<>> /\ phase' = "menus"
  BY DEF Configure, BrowseInv, ListOfTheMoment, scan
<1>2. mapping' \in [Blocks -> Slots \cup {GameSlots, Unused}] /\ slotType' \in [Slots -> Types]
      /\ LauncherIsFixed'
  <2> USE DEF BrowseInv, Types3, LauncherIsFixed
  <2>1. CASE \E b \in Blocks : MapBlock(b)
    <3>0. PICK b \in Blocks : MapBlock(b)
      BY <2>1
    <3>1. PICK s \in SavemapNext(mapping[b]) \cup SavemapPrev(mapping[b]) :
            mapping' = [mapping EXCEPT ![b] = s] /\ slotType' = slotType
      BY <3>0 DEF MapBlock
    <3>2. SavemapNext(mapping[b]) \subseteq (Slots \ {LaunchSlot}) \cup {Unused}
      BY SlotsAssumption DEF SavemapNext, Found, ProgramSlots, TypeAt, Slots, LaunchSlot
    <3>3. SavemapPrev(mapping[b]) \subseteq (Slots \ {LaunchSlot}) \cup {GameSlots, Unused}
      <4>1. mapping[b] \in Slots \cup {GameSlots, Unused}
        OBVIOUS
      <4>2. (IF mapping[b] = Unused THEN GameSlots ELSE mapping[b] - 1) \in -1..GameSlots
        BY <4>1, SlotsAssumption DEF Slots
      <4>3. ASSUME NEW from \in -1..GameSlots
            PROVE  ProgramSlots(0..from) \subseteq (Slots \ {LaunchSlot}) \cup {GameSlots}
        BY SlotsAssumption DEF ProgramSlots, TypeAt, Slots, LaunchSlot
      <4> QED
        BY <4>2, <4>3 DEF SavemapPrev, Found
    <3> QED
      BY <3>1, <3>2, <3>3, SlotsAssumption DEF LaunchSlot, Unused, Slots
  <2>2. CASE \E s \in Slots : SetType(s)
    <3>1. PICK s \in Slots, delta \in {1, 3} :
            slotType' = [slotType EXCEPT ![s] = SlotmapNext(@, delta)] /\ mapping' = mapping
      BY <2>2 DEF SetType
    <3>2. slotType[s] = Launcher => SlotmapNext(slotType[s], delta) = Launcher
      BY DEF SlotmapNext, SlotmapOrder, Soft, Eight, Two, Empty, Launcher
    <3>3. slotType[s] # Launcher => SlotmapNext(slotType[s], delta) \in Types \ {Launcher}
      <4>1. \A k \in 1..4 : SlotmapOrder[((k - 1 + delta) % 4) + 1] \in Types \ {Launcher}
        BY DEF SlotmapOrder, Types, Soft, Eight, Two, Empty, Launcher
      <4> QED
        BY <4>1 DEF SlotmapNext
    <3> QED
      BY <3>1, <3>2, <3>3, SlotsAssumption DEF LaunchSlot, Slots
  <2>3. CASE Release
    BY <2>3 DEF Release
  <2> QED
    BY <2>1, <2>2, <2>3 DEF Configure
<1> QED
  BY <1>1, <1>2, SlotsAssumption
     DEF BrowseInv, Types3, Placed, BankStep, Spaced, ListOfTheMoment

LEMMA IterateKeepsInv == BrowseInv /\ Iterate => BrowseInv'
<1> SUFFICES ASSUME BrowseInv, Iterate PROVE BrowseInv'
  OBVIOUS
<1> USE DEF MinSizeAt
<1>1. slotType' = slotType /\ mapping' = mapping /\ phase = "browser" /\ phase' = "browser"
  BY DEF Iterate, Scan!Next, Scan!Scan, Scan!NextSlot
<1>2. LauncherIsFixed' /\ ListOfTheMoment'
  BY <1>1 DEF BrowseInv, LauncherIsFixed, ListOfTheMoment
<1>3. \A s : MinSizeAt(s) \in Int /\ MinSizeAt(s) >= 16
  BY MinSizeCases
<1>4. CASE Scan!NextSlot
  <2>1. scanSlot \in Slots /\ scanSlot' = scanSlot + 1 /\ scanBank' = 255 /\ list' = list
    BY <1>4 DEF Scan!NextSlot, Scan!LastBank, Scan!Slots, Slots
  <2>2. Types3' /\ BankStep' /\ Spaced'
    BY <1>1, <2>1, SlotsAssumption DEF BrowseInv, Types3, BankStep, Spaced, Slots
  <2>3. Placed'
    BY <1>1, <2>1, SlotsAssumption DEF BrowseInv, Types3, Placed, Slots
  <2> QED
    BY <1>2, <2>2, <2>3 DEF BrowseInv
<1>5. CASE \E valid \in BOOLEAN, code \in Codes : Scan!Scan(valid, code)
  <2>1. PICK valid \in BOOLEAN, code \in Codes : Scan!Scan(valid, code)
    BY <1>5
  <2> DEFINE e == [id |-> Scan!EntryId(scanSlot, scanBank), bank |-> scanBank]
  <2>2. /\ scanSlot \in Slots /\ scanBank >= 128 /\ scanSlot' = scanSlot
        /\ list' = list \/ list' = Append(list, e)
        /\ scanBank' = scanBank - Scan!ProgramSize(slotType[scanSlot], valid, code)
    BY <2>1 DEF Scan!Scan, Scan!FirstBank, Scan!Slots, Slots
  <2>3. scanBank \in 128..255
    BY <2>2, <1>3 DEF BrowseInv, Types3, BankStep
  <2>4. /\ e.id \in 0..127 /\ e.bank = scanBank /\ e \in Entry
        /\ Scan!SlotOf(e.id) = scanSlot /\ e.id = Scan!EntryId(scanSlot, e.bank)
    <3>1. scanSlot \in 0..15
      BY <2>2, SlotsAssumption DEF Slots
    <3>2. Scan!EntryId(scanSlot, scanBank) \in 0..127
          /\ Scan!SlotOf(Scan!EntryId(scanSlot, scanBank)) = scanSlot
      BY <3>1, <2>3, IdParts
    <3> QED
      BY <2>3, <3>2 DEF Entry
  <2>5. scanBank' \in Int /\ scanBank' <= scanBank - MinSizeAt(scanSlot)
    <3>1. code \in 0..255
      BY BrowseAssumption
    <3> DEFINE size == Scan!ProgramSize(slotType[scanSlot], valid, code)
    <3>2. size \in Int /\ size >= MinSizeAt(scanSlot)
      BY <3>1, SizeAtLeast
    <3> HIDE DEF size
    <3>3. scanBank' = scanBank - size
      BY <2>2 DEF size
    <3> QED
      BY <3>2, <3>3, <2>3, <1>3
  <2> HIDE DEF e
  <2>6. Types3'
    BY <1>1, <2>2, <2>4, <2>5, SlotsAssumption DEF BrowseInv, Types3
  <2>7. BankStep'
    BY <1>1, <1>3, <2>2, <2>3, <2>5 DEF BankStep
  <2>8. \A j \in 1..Len(list') :
          \/ j \in 1..Len(list) /\ list'[j] = list[j]
          \/ j = Len(list) + 1 /\ list'[j] = e
    BY <2>2 DEF BrowseInv, Types3
  <2>9. Placed'
    <3> SUFFICES ASSUME NEW j \in 1..Len(list')
                 PROVE  LET s == Scan!SlotOf(list'[j].id)
                        IN  /\ s \in Slots /\ s <= scanSlot
                            /\ list'[j].id = Scan!EntryId(s, list'[j].bank)
                            /\ s = scanSlot => scanBank' <= list'[j].bank - MinSizeAt(s)
                            /\ list'[j].bank = 255 \/ list'[j].bank <= 255 - MinSizeAt(s)
      BY <1>1, <2>2 DEF Placed
    <3>1. CASE list'[j] = e
      BY <3>1, <2>2, <2>4, <2>5, SlotsAssumption DEF BrowseInv, BankStep, Slots
    <3>2. CASE j \in 1..Len(list) /\ list'[j] = list[j]
      <4>1. list[j].bank \in 128..255
        BY <3>2, EntryFields DEF BrowseInv, Types3
      <4> QED
        <5> DEFINE s == Scan!SlotOf(list[j].id)
        <5>1. /\ s \in Slots /\ s <= scanSlot
              /\ list[j].id = Scan!EntryId(s, list[j].bank)
              /\ s = scanSlot => scanBank <= list[j].bank - MinSizeAt(s)
              /\ list[j].bank = 255 \/ list[j].bank <= 255 - MinSizeAt(s)
          BY <3>2 DEF BrowseInv, Placed
        <5>2. MinSizeAt(s) \in Int /\ MinSizeAt(scanSlot) >= 16 /\ MinSizeAt(scanSlot) \in Int
          BY <1>3
        <5> HIDE DEF s
        <5>3. ASSUME s = scanSlot PROVE scanBank' <= list[j].bank - MinSizeAt(s)
          <6>1. scanBank <= list[j].bank - MinSizeAt(scanSlot)
            BY <5>1, <5>3
          <6> DEFINE m == MinSizeAt(scanSlot)
          <6>0. PICK z \in 128..255 : z = list[j].bank
            BY <4>1
          <6>2. m \in Int /\ m >= 16
            BY <5>2
          <6>3. scanBank <= z - m
            BY <6>0, <6>1
          <6>4. scanBank' <= scanBank - m
            BY <2>5
          <6>5. scanBank \in Int /\ scanBank' \in Int
            BY <2>3, <2>5
          <6> HIDE DEF m
          <6>6. scanBank' <= z - m
            BY <6>2, <6>3, <6>4, <6>5
          <6> QED
            BY <6>0, <6>6, <5>3 DEF m
        <5> QED
          BY <3>2, <5>1, <5>3 DEF s
    <3> QED
      BY <3>1, <3>2, <2>8
  <2>10. Spaced'
    <3> SUFFICES ASSUME NEW j \in 1..Len(list'), NEW k \in 1..Len(list'), j < k,
                        Scan!SlotOf(list'[j].id) = Scan!SlotOf(list'[k].id)
                 PROVE  list'[k].bank <= list'[j].bank - MinSizeAt(Scan!SlotOf(list'[j].id))
      BY <1>1 DEF Spaced
    <3>0. Len(list) \in Nat
      BY DEF BrowseInv, Types3
    <3>1. j \in 1..Len(list) /\ list'[j] = list[j]
      <4>1. k <= Len(list) + 1
        BY <2>8, <3>0
      <4> QED
        BY <4>1, <2>8, <3>0
    <3>2. CASE k \in 1..Len(list) /\ list'[k] = list[k]
      BY <3>1, <3>2 DEF BrowseInv, Spaced
    <3>3. CASE list'[k] = e
      BY <3>1, <3>3, <2>4 DEF BrowseInv, Placed
    <3> QED
      BY <3>2, <3>3, <2>8
  <2> QED
    BY <1>2, <2>6, <2>7, <2>9, <2>10 DEF BrowseInv
<1> QED
  BY <1>4, <1>5 DEF Iterate, Scan!Next

LEMMA BrowseNextInv == BrowseInv /\ [BrowseNext]_browseVars => BrowseInv'
<1> SUFFICES ASSUME BrowseInv, [BrowseNext]_browseVars PROVE BrowseInv'
  OBVIOUS
<1>1. ASSUME Enter \/ UNCHANGED browseVars PROVE BrowseInv'
  BY <1>1 DEF Enter, browseVars, vars, scan, BrowseInv, Types3, LauncherIsFixed, Placed, BankStep,
     Spaced, ListOfTheMoment, MinSizeAt
<1>2. ASSUME Leave \/ (\E e \in Scan!Listed : LaunchEntry(e)) PROVE BrowseInv'
  <2>1. /\ mapping' = mapping /\ slotType' = slotType
        /\ scanSlot' = 0 /\ scanBank' = 255 /\ list' = <<>>
    BY <1>2 DEF Leave, LaunchEntry, Launch, Forget, Scan!LastBank
  <2> QED
    BY <2>1, SlotsAssumption DEF BrowseInv, Types3, LauncherIsFixed, Placed, BankStep, Spaced,
       ListOfTheMoment
<1> QED
  BY <1>1, <1>2, ConfigureKeepsInv, IterateKeepsInv DEF BrowseNext

LEMMA BrowseInvariant == BrowseSpec => []BrowseInv
  BY BrowseInitInv, BrowseNextInv, PTL DEF BrowseSpec

-----------------------------------------------------------------------------
\* No sequence of menu choices changes the launcher's slot, gives it a save
\* block, or makes another slot the launcher's.
THEOREM LauncherIsFixedTheorem == BrowseSpec => []LauncherIsFixed
<1>1. BrowseInv => LauncherIsFixed
  BY DEF BrowseInv
<1> QED
  BY <1>1, BrowseInvariant, PTL

\* Two entries of one slot: the later is further down, and in another sixteenth.
LEMMA SharersDiffer ==
  ASSUME BrowseInv, NEW j \in 1..Len(list), NEW k \in 1..Len(list), j < k,
         Scan!SlotOf(list[j].id) = Scan!SlotOf(list[k].id)
  PROVE  /\ list[j].id # list[k].id
         /\ Scan!GivenBanks(list[j].id) \cap Scan!GivenBanks(list[k].id) = {}
<1> DEFINE s == Scan!SlotOf(list[j].id)
           a == list[j].bank
           b == list[k].bank
<1>1. a \in 128..255 /\ b \in 128..255 /\ list[j].id \in 0..127 /\ list[k].id \in 0..127
  BY EntryFields DEF BrowseInv, Types3
<1>2. /\ s \in 0..15 /\ s \in Slots
      /\ list[j].id = Scan!EntryId(s, a) /\ list[k].id = Scan!EntryId(s, b)
      /\ a = 255 \/ a <= 255 - MinSizeAt(s)
  <2>1. /\ s \in Slots
        /\ list[j].id = Scan!EntryId(s, a)
        /\ a = 255 \/ a <= 255 - MinSizeAt(s)
    BY DEF BrowseInv, Placed
  <2>2. list[k].id = Scan!EntryId(s, b)
    BY DEF BrowseInv, Placed
  <2> HIDE DEF s, a, b
  <2>3. s \in 0..15
    BY <2>1, SlotsAssumption DEF Slots
  <2> QED
    BY <2>1, <2>2, <2>3
<1>3. b <= a - MinSizeAt(s)
  BY DEF BrowseInv, Spaced
<1>11. Scan!SlotOf(list[j].id) = s /\ Scan!SlotOf(list[k].id) = s
  OBVIOUS
<1> HIDE DEF s, a, b
<1>4. MinSizeAt(s) \in {16, 64, 128}
  BY MinSizeCases DEF MinSizeAt
<1>5. /\ Scan!SubOf(list[j].id) = 15 - a \div 16 /\ Scan!SubOf(list[k].id) = 15 - b \div 16
      /\ Scan!SlotOf(list[j].id) = s /\ Scan!SlotOf(list[k].id) = s
  <2>1. Scan!SubOf(Scan!EntryId(s, a)) = 15 - a \div 16
    BY <1>1, <1>2, IdParts
  <2>2. Scan!SubOf(Scan!EntryId(s, b)) = 15 - b \div 16
    BY <1>1, <1>2, IdParts
  <2> QED
    BY <1>2, <1>11, <2>1, <2>2
<1>6. b \div 16 < a \div 16
  BY <1>1, <1>3, <1>4
<1>7. list[j].id # list[k].id
  <2>1. 15 - a \div 16 # 15 - b \div 16
    BY <1>1, <1>6
  <2> QED
    BY <1>5, <2>1
<1>8. CASE slotType[s] = Eight
  <2>1. /\ Scan!GivenBanks(list[j].id) = {(15 - a \div 16) % 8}
        /\ Scan!GivenBanks(list[k].id) = {(15 - b \div 16) % 8}
    BY <1>5, <1>8 DEF Scan!GivenBanks, Scan!Two, Scan!Eight, Eight, Two
  <2> QED
    BY <1>1, <1>6, <1>7, <2>1
<1>9. CASE slotType[s] = Two
  <2>1. a = 255 /\ b <= 191
    BY <1>1, <1>2, <1>3, <1>9, MinSizeCases DEF MinSizeAt
  <2>2. list[j].id < 16 /\ list[k].id >= 16
    BY <1>1, <1>2, <2>1 DEF Scan!EntryId
  <2>3. Scan!GivenBanks(list[j].id) = 0..3 /\ Scan!GivenBanks(list[k].id) = 4..7
    <3>1. Scan!GivenBanks(list[j].id) = IF list[j].id >= 16 THEN 4..7 ELSE 0..3
      BY <1>5, <1>9 DEF Scan!GivenBanks, Scan!Two, Scan!Eight, Eight, Two
    <3>2. Scan!GivenBanks(list[k].id) = IF list[k].id >= 16 THEN 4..7 ELSE 0..3
      BY <1>5, <1>9 DEF Scan!GivenBanks, Scan!Two, Scan!Eight, Eight, Two
    <3>0. PICK x \in 0..127 : x = list[j].id
      BY <1>1
    <3>3. ~(list[j].id >= 16) /\ list[k].id >= 16
      BY <2>2, <3>0
    <3>4. Scan!GivenBanks(list[j].id) = 0..3
      BY <3>1, <3>3
    <3>5. Scan!GivenBanks(list[k].id) = 4..7
      BY <3>2, <3>3
    <3> QED
      BY <3>4, <3>5
  <2> QED
    BY <1>7, <2>3
<1>10. CASE slotType[s] \notin {Two, Eight}
  <2>1. MinSizeAt(s) = 128
    BY <1>10, MinSizeCases DEF MinSizeAt
  <2> QED
    BY <1>1, <1>3, <2>1
<1> QED
  BY <1>7, <1>8, <1>9, <1>10

\* The ids that index the table of the programs are unique, whatever sizes the
\* headers state.
THEOREM EveryIdOnceTheorem == BrowseSpec => []EveryIdOnce
<1>1. BrowseInv => EveryIdOnce
  <2> SUFFICES ASSUME BrowseInv, NEW j \in DOMAIN list, NEW k \in DOMAIN list, list[j].id = list[k].id
               PROVE  j = k
    BY DEF EveryIdOnce
  <2>1. j \in 1..Len(list) /\ k \in 1..Len(list)
    BY DEF BrowseInv, Types3
  <2>2. ~(j < k) /\ ~(k < j)
    BY <2>1, SharersDiffer
  <2> QED
    BY <2>1, <2>2
<1> QED
  BY <1>1, BrowseInvariant, PTL

\* No two of the listed programs are ever given the same save memory.
THEOREM ProgramsKeepApartTheorem == BrowseSpec => []ProgramsKeepApart
<1>1. BrowseInv => ProgramsKeepApart
  <2> SUFFICES ASSUME BrowseInv, NEW e \in Scan!Listed, NEW f \in Scan!Listed, e # f
               PROVE  Region(e) \cap Region(f) = {}
    BY DEF ProgramsKeepApart
  <2>1. PICK j \in DOMAIN list, k \in DOMAIN list : list[j] = e /\ list[k] = f
    BY DEF Scan!Listed
  <2>2. j \in 1..Len(list) /\ k \in 1..Len(list)
    BY <2>1 DEF BrowseInv, Types3
  <2>3. CASE Scan!SlotOf(e.id) = Scan!SlotOf(f.id)
    <3>1. j < k \/ k < j
      BY <2>1, <2>2
    <3>2. Scan!GivenBanks(e.id) \cap Scan!GivenBanks(f.id) = {}
      BY <2>1, <2>2, <2>3, <3>1, SharersDiffer
    <3> QED
      BY <3>2 DEF Region
  <2>4. CASE Scan!SlotOf(e.id) # Scan!SlotOf(f.id)
    <3>1. ASSUME NEW s, NEW isWW \in BOOLEAN, NEW v \in Picks(s, isWW)
          PROVE  Chosen(s, v, isWW) \in MenuList(s) \cup {Unused}
      BY <3>1 DEF Picks, Chosen, Indexed
    <3>2. \A r \in Region(e) : r[1] \in MenuList(Scan!SlotOf(e.id))
      BY <3>1 DEF Region
    <3>3. \A r \in Region(f) : r[1] \in MenuList(Scan!SlotOf(f.id))
      BY <3>1 DEF Region
    <3> QED
      BY <2>4, <3>2, <3>3 DEF MenuList
  <2> QED
    BY <2>3, <2>4
<1> QED
  BY <1>1, BrowseInvariant, PTL

-----------------------------------------------------------------------------
\* Without a header that states 62 Mbit, headers are read from the last bank of a
\* megabyte, of the 16 banks that share an entry id.
AtMegabytes ==
  /\ scanBank % 16 = 15
  /\ \A j \in 1..Len(list) : list[j].bank % 16 = 15

\* Every other size is a whole number of megabytes, or less than any slot's least.
LEMMA WholeMegabytes ==
  ASSUME NEW t, NEW valid \in BOOLEAN, NEW code \in (0..255) \ {8}
  PROVE  Scan!ProgramSize(t, valid, code) % 16 = 0
<1>1. ASSUME valid, code + 1 \in DOMAIN Scan!RomSizeTable
      PROVE  /\ 2 * Scan!RomSizeTable[code + 1] \in Int
             /\ 2 * Scan!RomSizeTable[code + 1] >= 16 => (2 * Scan!RomSizeTable[code + 1]) % 16 = 0
  BY <1>1 DEF Scan!RomSizeTable
<1>2. Scan!MinSize(t) \in {16, 64, 128}
  BY MinSizeCases
<1> QED
  BY <1>1, <1>2 DEF Scan!ProgramSize

LEMMA MegabytesStep ==
  8 \notin Codes /\ BrowseInv /\ AtMegabytes /\ [BrowseNext]_browseVars => AtMegabytes'
<1> SUFFICES ASSUME 8 \notin Codes, BrowseInv, AtMegabytes, [BrowseNext]_browseVars
             PROVE  AtMegabytes'
  OBVIOUS
<1>1. CASE scanBank' = 255 /\ (list' = <<>> \/ list' = list)
  BY <1>1 DEF AtMegabytes
<1>2. CASE \E valid \in BOOLEAN, code \in Codes : Scan!Scan(valid, code)
  <2>1. PICK valid \in BOOLEAN, code \in Codes : Scan!Scan(valid, code)
    BY <1>2
  <2> DEFINE e == [id |-> Scan!EntryId(scanSlot, scanBank), bank |-> scanBank]
             size == Scan!ProgramSize(slotType[scanSlot], valid, code)
  <2>2. (list' = list \/ list' = Append(list, e)) /\ scanBank' = scanBank - size
    BY <2>1 DEF Scan!Scan
  <2>3. e.bank = scanBank
    OBVIOUS
  <2>4. size \in Int /\ size % 16 = 0
    BY BrowseAssumption, SizeAtLeast, WholeMegabytes
  <2>5. scanBank \in Int /\ list \in Seq(Entry)
    BY DEF BrowseInv, Types3
  <2> HIDE DEF e, size
  <2>6. scanBank' % 16 = 15
    BY <2>2, <2>4, <2>5 DEF AtMegabytes
  <2>7. \A j \in 1..Len(list') : list'[j].bank % 16 = 15
    <3>1. \A j \in 1..Len(list') :
            (j \in 1..Len(list) /\ list'[j] = list[j]) \/ list'[j] = e
      BY <2>2, <2>5
    <3>2. e.bank % 16 = 15
      BY <2>3 DEF AtMegabytes
    <3> QED
      BY <3>1, <3>2 DEF AtMegabytes
  <2> QED
    BY <2>6, <2>7 DEF AtMegabytes
<1>3. CASE UNCHANGED scan
  BY <1>3 DEF scan, AtMegabytes
<1> QED
  <2>1. Scan!NextSlot \/ Leave \/ (\E e \in Scan!Listed : LaunchEntry(e))
        => scanBank' = 255 /\ (list' = <<>> \/ list' = list)
    BY DEF Scan!NextSlot, Leave, LaunchEntry, Forget, Scan!LastBank
  <2>2. Configure \/ Enter \/ UNCHANGED browseVars => UNCHANGED scan
    BY DEF Configure, Enter, browseVars
  <2> QED
    BY <1>1, <1>2, <1>3, <2>1, <2>2 DEF BrowseNext, Iterate, Scan!Next

\* 62 Mbit is the one size in a header after which the list is wrong: without it,
\* for any number of slots and headers, what is launched is the program whose header
\* was listed.
THEOREM LaunchesWhatIsListedTheorem ==
  8 \notin Codes => (BrowseSpec => []LaunchesWhatIsListed)
<1> SUFFICES ASSUME 8 \notin Codes PROVE BrowseSpec => []LaunchesWhatIsListed
  OBVIOUS
<1>1. BrowseInit => AtMegabytes
  BY DEF BrowseInit, AtMegabytes, Scan!LastBank
<1>2. BrowseInv /\ AtMegabytes /\ [BrowseNext]_browseVars => AtMegabytes'
  BY MegabytesStep
<1>3. BrowseInv /\ AtMegabytes => LaunchesWhatIsListed
  <2> SUFFICES ASSUME BrowseInv, AtMegabytes, NEW e \in Scan!Listed
               PROVE  Scan!LaunchBank(e.id) = e.bank
    BY DEF LaunchesWhatIsListed
  <2>1. PICK j \in 1..Len(list) : list[j] = e
    BY DEF Scan!Listed, BrowseInv, Types3
  <2>2. e.bank \in 128..255 /\ e.bank % 16 = 15
    BY <2>1, EntryFields DEF BrowseInv, Types3, AtMegabytes
  <2>3. PICK s \in Slots : e.id = Scan!EntryId(s, e.bank)
    BY <2>1 DEF BrowseInv, Placed
  <2>4. Scan!SubOf(e.id) = 15 - e.bank \div 16
    <3>1. s \in 0..15
      BY SlotsAssumption DEF Slots
    <3>2. Scan!SubOf(Scan!EntryId(s, e.bank)) = 15 - e.bank \div 16
      BY <2>2, <3>1, IdParts
    <3> QED
      BY <2>3, <3>2
  <2>5. PICK b \in 128..255 : b = e.bank
    BY <2>2
  <2>6. 255 - 16 * (15 - b \div 16) = b
    <3>1. b % 16 = 15
      BY <2>2, <2>5
    <3> HIDE <2>5
    <3>2. b = 16 * (b \div 16) + 15
      BY <3>1
    <3> QED
      BY <3>2
  <2> QED
    BY <2>4, <2>5, <2>6 DEF Scan!LaunchBank, Scan!LastBank
<1> QED
  BY <1>1, <1>2, <1>3, BrowseInvariant, PTL DEF BrowseSpec
=============================================================================
