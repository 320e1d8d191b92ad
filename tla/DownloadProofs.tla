--------------------------- MODULE DownloadProofs ---------------------------
(***************************************************************************)
(* What arrives and what is done with it: the installer of WonderWitch     *)
(* environments (WwInstall), the XMODEM transfer (XModem) and the loaders  *)
(* of the tools tab (RamLoader).                                           *)
(***************************************************************************)
EXTENDS WwInstall, RamLoader, SequenceTheorems, FiniteSetTheorems,
        FunctionTheorems, TLAPS

-----------------------------------------------------------------------------
(* The installer, for any size of an SRAM bank: InstallInv says, for each  *)
(* step, what the two SRAM banks hold and what is left of the program.     *)

\* The halves that the chosen operation should end with.
WantedBios == IF op = "os" THEN before["bios"] ELSE NewBios
Received(n) == IF n = 0 THEN Blank ELSE Part("new OS", n)
WantedOs == IF op = "bios" THEN before["os"] ELSE Received(osLen)

\* Where an operation can be.
Path ==
  /\ pc \in {"menu", "wipe", "copy", "unpack", "open", "receive", "footer",
             "sector", "write os", "write bios", "off"}
  /\ op \in Ops
  /\ pc = "copy" => op \in {"os", "bios"}
  /\ pc = "unpack" => op # "os"
  /\ pc \in {"open", "receive"} => op # "bios"

\* The flash banks are not touched before the sector is erased.
Flash ==
  /\ DOMAIN rom = Halves
  /\ pc \in {"wipe", "copy", "unpack", "open", "receive", "footer", "sector"} => rom = before
  /\ pc = "write os" => rom["bios"] = Blank
  /\ pc = "write bios" => rom["bios"] = Blank /\ rom["os"] = WantedOs

\* What has been put together in SRAM.
Buffer ==
  /\ DOMAIN buf = Halves
  /\ got \in Nat /\ osLen \in Nat
  /\ pc \in {"open", "receive", "sector", "write os", "write bios"} => buf["bios"] = WantedBios
  /\ pc = "unpack" /\ op = "bios" => buf["os"] = before["os"]
  /\ pc = "receive" => got <= osLen /\ buf["os"] = Received(got)
  /\ pc \in {"sector", "write os", "write bios"} => buf["os"] = WantedOs

InstallInv == Path /\ Flash /\ Buffer

LEMMA InstallStart == InstallInit => InstallInv
BY InstallAssumption DEF InstallInit, InstallInv, Path, Flash, Buffer, Halves, Ops

LEMMA InstallStep == InstallInv /\ [InstallNext]_installVars => InstallInv'
<1> SUFFICES ASSUME InstallInv, [InstallNext]_installVars PROVE InstallInv'
  OBVIOUS
<1> USE DEF InstallInv, Path, Flash, Buffer, WantedBios, WantedOs, Received
<1>1. CASE UNCHANGED installVars
  BY <1>1 DEF installVars, program, download
<1>2. ASSUME NEW o \in Ops, Choose(o) PROVE InstallInv'
  BY <1>2 DEF Choose, program, download, Ops
<1>3. CASE Wipe
  BY <1>3 DEF Wipe, program, download, Ops
<1>4. CASE Copy
  BY <1>4 DEF Copy, program, download, Ops, Halves
<1>5. CASE Unpack
  BY <1>5 DEF Unpack, program, download, Ops, Halves
<1>6. CASE Open
  BY <1>6, InstallAssumption DEF Open, program, download, Ops, Halves
<1>7. CASE OsBlock
  <2>0. got \in Nat /\ osLen \in Nat
    OBVIOUS
  <2>1. got' \in Nat /\ got' # 0 /\ got' <= osLen /\ osLen' = osLen
    <3> HIDE DEF InstallInv, Path, Flash, Buffer, WantedBios, WantedOs, Received
    <3>1. got < osLen /\ got' = got + 1 /\ osLen' = osLen
      BY <1>7, Zenon DEF OsBlock
    <3> QED BY <2>0, <3>1
  <2>2. buf'["os"] = Received(got') /\ buf'["bios"] = buf["bios"] /\ DOMAIN buf' = Halves
    BY <1>7, <2>1 DEF OsBlock, Halves
  <2> HIDE DEF Received
  <2> QED BY <1>7, <2>1, <2>2 DEF OsBlock, program, Ops
<1>8. CASE Complete
  BY <1>8 DEF Complete, program, download, Ops, Halves
<1>9. CASE Cancel
  BY <1>9 DEF Cancel, program, download, Ops, Halves
<1>10. CASE Footer
  BY <1>10 DEF Footer, program, download, Ops, Halves
<1>11. CASE Sector
  BY <1>11 DEF Sector, program, download, Ops, Halves
<1>12. CASE WriteOs
  BY <1>12 DEF WriteOs, program, download, Ops, Halves
<1>13. CASE WriteBios
  BY <1>13 DEF WriteBios, program, download, Ops, Halves
<1>14. CASE PowerCut
  BY <1>14 DEF PowerCut, program, download, Ops, Halves
<1>15. CASE PowerOn
  BY <1>15 DEF PowerOn, program, download, Ops, Halves
<1> QED BY <1>1, <1>2, <1>3, <1>4, <1>5, <1>6, <1>7, <1>8, <1>9, <1>10, <1>11,
           <1>12, <1>13, <1>14, <1>15 DEF InstallNext

\* What the SRAM banks and the flash banks hold in each step of ww.c, for any
\* size of a bank.
THEOREM InstallInvariant == InstallSpec => []InstallInv
BY InstallStart, InstallStep, PTL DEF InstallSpec

\* In every slot but one of eight programs, what the installer erases of the save
\* blocks is the program's own, whatever else was installed or cut off before.
THEOREM ErasesOwnSavesTheorem == InstallSpec => [](type # "8M_512K" => ErasesOwnSaves)
<1> DEFINE Own == /\ type \in {"soft", "8M_2M", "8M_512K"}
                  /\ type # "8M_512K" => wiped \subseteq OwnBanks
<1>1. InstallInit => Own
  BY DEF InstallInit
<1>2. Own /\ [InstallNext]_installVars => Own'
  <2> SUFFICES ASSUME Own, [InstallNext]_installVars PROVE Own'
    OBVIOUS
  <2>1. UNCHANGED program
    BY DEF InstallNext, installVars, Choose, Wipe, Copy, Unpack, Open, OsBlock, Complete,
           Cancel, Footer, Sector, WriteOs, WriteBios, PowerCut, PowerOn
  <2>2. wiped' = wiped \/ wiped' = wiped \cup WipedBanks
    BY DEF InstallNext, installVars, Choose, Wipe, Copy, Unpack, Open, OsBlock, Complete,
           Cancel, Footer, Sector, WriteOs, WriteBios, PowerCut, PowerOn
  <2>3. type # "8M_512K" => WipedBanks \subseteq OwnBanks
    BY DEF WipedBanks, OwnBanks
  <2>4. OwnBanks' = OwnBanks /\ type' = type
    BY <2>1 DEF program, OwnBanks
  <2> QED
    BY <2>2, <2>3, <2>4
<1>3. Own => (type # "8M_512K" => ErasesOwnSaves)
  BY DEF ErasesOwnSaves
<1> QED
  BY <1>1, <1>2, <1>3, PTL DEF InstallSpec

\* The last step of ww_flash_from_sram leaves the OS and the BIOS that were
\* asked for: an update carries the other half over, and an OS is flashed whole.
THEOREM InstallsWhatWasAskedTheorem == InstallSpec => InstallsWhatWasAsked
<1> DEFINE Ends == pc = "write bios" /\ pc' = "menu" =>
                     /\ rom["os"] = IF op = "bios" THEN before["os"]
                                    ELSE IF osLen = 0 THEN Blank ELSE Part("new OS", osLen)
                     /\ (rom["bios"])' = IF op = "os" THEN before["bios"] ELSE NewBios
<1>1. InstallInv /\ [InstallNext]_installVars => [Ends]_installVars
  <2> SUFFICES ASSUME InstallInv, InstallNext, pc = "write bios", pc' = "menu" PROVE Ends
    BY DEF installVars
  <2>1. WriteBios
    BY DEF InstallNext, Choose, Wipe, Copy, Unpack, Open, OsBlock, Complete, Cancel, Footer,
           Sector, WriteOs, PowerCut, PowerOn
  <2> QED BY <2>1 DEF WriteBios, InstallInv, Flash, Buffer, WantedBios, WantedOs,
                      Received, Halves
<1> QED BY <1>1, InstallInvariant, PTL DEF InstallSpec, InstallsWhatWasAsked

\* Whenever a power cut ends the flashing of a program behind the erasure, the
\* browser does not take what is left for a WW environment, unless nothing but
\* bytes of the last page is missing.
THEOREM CutOffIsNotListedTheorem == InstallSpec => CutOffIsNotListed
<1> DEFINE Whole == rom' = [os |-> buf["os"], bios |-> PageCut]
           Told == pc' = "off" /\ pc \in {"write os", "write bios"} => ~IsWw' \/ Whole
<1>1. InstallInv /\ [InstallNext]_installVars => [Told]_installVars
  <2> SUFFICES ASSUME InstallInv, InstallNext, pc' = "off", pc \in {"write os", "write bios"},
                      IsWw'
               PROVE Whole
    BY DEF installVars
  <2>1. PowerCut
    BY DEF InstallNext, Choose, Wipe, Copy, Unpack, Open, OsBlock, Complete, Cancel, Footer,
           Sector, WriteOs, WriteBios, PowerOn
  <2>2. DOMAIN rom' = Halves /\ \A h \in Halves : rom'[h] \in LeftOf(h)
    BY <2>1 DEF PowerCut
  <2>3. rom'["bios"] \notin {Blank, CutOff}
    <3>1. Blank.of = "blank" /\ CutOff.of = "cut off"
      BY DEF Blank, CutOff, Part
    <3> QED BY <3>1 DEF IsWw
  <2>4. pc = "write bios" /\ rom'["bios"] = PageCut
    <3>1. LeftOf("bios") \subseteq {Blank, CutOff} \cup (IF pc = "write bios" THEN {PageCut} ELSE {})
      BY DEF LeftOf, InstallInv, Flash
    <3> QED BY <2>2, <2>3, <3>1 DEF Halves
  <2>5. rom'["os"] = buf["os"]
    <3>1. LeftOf("os") = {rom["os"]} /\ rom["os"] = buf["os"]
      BY <2>4 DEF LeftOf, InstallInv, Flash, Buffer
    <3> QED BY <2>2, <3>1 DEF Halves
  <2>6. rom' = [h \in Halves |-> rom'[h]]
    BY <2>1 DEF PowerCut
  <2> QED BY <2>4, <2>5, <2>6 DEF Halves
<1> QED BY <1>1, InstallInvariant, PTL DEF InstallSpec, CutOffIsNotListed
-----------------------------------------------------------------------------
(* The transfer.  In a transfer without noise in the headers, the bytes on *)
(* the line, or the answer, or the right to send are in one place at a     *)
(* time: LockInv says where.                                               *)

Running == {"ask", "head", "idx", "inverse", "data"}
Blocks == [1..DataLen -> 0..255]
Values == 0..255 \cup {Checksum(d) : d \in Blocks}
Traffic == [val : Values, part : {"head", "payload"}]
Replies == [val : 0..255, part : {"reply"}]
taken == Len(received)

SenderInv ==
  /\ file \in Files /\ file # <<>> /\ sent \in 0..Len(file) /\ Len(file) \in Nat
  /\ tries \in Nat
  /\ tx \in {"start", "block", "finish"} \cup TxEnds
  /\ tx = "start" => sent = 0
  /\ tx = "block" => sent < Len(file)
  /\ tx = "finish" => sent = Len(file)

ReceiverInv ==
  /\ rx \in Running \cup RxEnds
  /\ idx = (taken + 1) % 256
  /\ retry \in 0..255
  /\ rx \in Running => retry <= MaxRetry
  /\ data \in Seq(Values) /\ Len(data) <= DataLen
  /\ rx \in {"ask", "idx", "inverse"} => data = <<>>
  /\ received \in Seq(Seq(Values))

LineInv ==
  /\ line \in Lines /\ faults \in 0..line.faults
  /\ down \in Seq(Traffic) /\ up \in Seq(Replies)

XModemInv == SenderInv /\ ReceiverInv /\ LineInv

\* Each ACK that the sender has seen, will see or is owed is for a block that was
\* received, or for an EOT; and for each of these there is one.
Acks(replies) == {k \in 1..Len(replies) : replies[k].val = ACK}
Count(replies) == Cardinality(Acks(replies))
Owed(r, again) == IF r = "ask" /\ again = 0 THEN 1 ELSE 0
Final(r) == IF r = "complete" THEN 1 ELSE 0
Told(t) == IF t = "ok" THEN 1 ELSE 0
AckInv ==
  /\ tx = "start" => down = <<>> /\ taken = 0 /\ rx \in {"ask", "head", "self_cancel"}
  /\ "reply" \notin line.parts =>
       sent + Count(up) + Owed(rx, retry) + Told(tx) = taken + Final(rx)

\* The receiver is about to ask, and the sender listens.
AtAsk ==
  /\ rx = "ask" /\ up = <<>> /\ down = <<>>
  /\ tx = "start" => sent = 0 /\ taken = 0
  /\ tx = "block" => waiting /\ sent \in (taken - 1)..taken
  /\ tx # "finish"

\* The receiver waits for the sender, who may have to look at an answer first.
Idle ==
  /\ rx = "head" /\ down = <<>>
  /\ tx = "start" => sent = 0 /\ taken = 0
  /\ tx = "block" => sent \in (taken - 1)..(taken + 1) /\ (waiting /\ up # <<>> => sent <= taken)
  /\ tx \in {"block", "finish"} /\ ~waiting => up = <<>>
  /\ tx = "finish" => ~waiting
  /\ Len(up) <= 1

\* The sender has written a block; its headers have not all been read.
HeadersRead(r) == IF r = "head" THEN 0 ELSE IF r = "idx" THEN 1 ELSE 2
HeadersComing ==
  /\ rx \in {"head", "idx", "inverse"} /\ up = <<>>
  /\ tx = "self_cancel" \/ (tx = "block" /\ waiting)
  /\ sent \in (taken - 1)..(taken + 1) /\ sent < Len(file)
  /\ rx = "inverse" => sent = taken
  /\ Len(down) = DataLen + 4 - HeadersRead(rx)
  /\ \A k \in 1..Len(down) : down[k] = Frame(sent + 1, file[sent + 1])[k + HeadersRead(rx)]

\* They have been.
DataComing ==
  /\ rx = "data" /\ up = <<>>
  /\ tx = "self_cancel" \/ (tx = "block" /\ waiting)
  /\ sent = taken /\ sent < Len(file)
  /\ Len(data) + Len(down) <= DataLen + 1
  /\ \A k \in 1..Len(down) : down[k].part = "payload"

\* The sender has written the EOT.
EotComing ==
  /\ rx = "head" /\ up = <<>> /\ sent = Len(file)
  /\ tx = "self_cancel" \/ (tx = "finish" /\ waiting)
  /\ down = <<Byte(EOT, "head")>>

\* Nothing but the EOT after the last block completes the transfer.
Completed ==
  /\ rx = "complete" /\ sent = Len(file) /\ tx \notin {"start", "block"}
  /\ "reply" \notin line.parts => sent = taken

LockInv ==
  "head" \notin line.parts =>
    /\ taken <= Len(file)
    /\ rx \in Running \cup {"complete"} =>
         AtAsk \/ Idle \/ HeadersComing \/ DataComing \/ EotComing \/ Completed

\* What has been received is a beginning of the file; and of the block that is
\* being received, whatever no byte of is lost, the bytes d that have been read and
\* those w to be read are as they were sent but where the line has hit them, with
\* the hits that were not spent on making the receiver ask for it again.
Arrives(d, w, k) == IF k <= Len(d) THEN d[k] ELSE w[k - Len(d)].val
Whole(b) == Append(b, Checksum(b))
Explains(hit, l, most, d, w, b) ==
  /\ Cardinality(hit) <= most
  /\ hit # {} => "payload" \in l.parts
  /\ \A k \in 1..(DataLen + 1) :
       IF k \in hit THEN Arrives(d, w, k) \in l.noise ELSE Arrives(d, w, k) = Whole(b)[k]
NoneLost(r, d, w) == r = "data" /\ Len(d) + Len(w) = DataLen + 1
Spare(hits, again) == IF again = 0 THEN hits ELSE hits + 1 - again
ContentInv ==
  "head" \notin line.parts /\ SumShows(line) =>
    /\ \A k \in 1..taken : received[k] = file[k]
    /\ Spare(faults, retry) >= 0
    /\ NoneLost(rx, data, down) =>
         \E hit \in SUBSET (1..(DataLen + 1)) :
           Explains(hit, line, Spare(faults, retry), data, down, file[taken + 1])

\* On a line that only hits the payload, the receiver ends with the file, by the B
\* button, or because it has asked too often.
StopInv ==
  OnlyPayload /\ rx \in RxEnds =>
    rx \in {"complete", "self_cancel"} \/ (rx = "error" /\ retry > MaxRetry)

-----------------------------------------------------------------------------
(* What is on the line.                                                    *)

LEMMA FilesAreBlocks ==
  ASSUME NEW f \in Files
  PROVE  /\ f \in Seq(Blocks) /\ Len(f) \in Nat /\ Len(f) > 0
         /\ \A k \in 1..Len(f) : f[k] \in Blocks
<1>1. f \in Seq(Blocks) /\ f # <<>>
  BY XModemAssumption DEF Blocks
<1> QED
  BY <1>1, EmptySeq

LEMMA LineFacts ==
  ASSUME NEW l \in Lines
  PROVE  l.noise \subseteq 0..255 /\ l.faults \in Nat
BY XModemAssumption

LEMMA Sizes == DataLen \in Nat \ {0} /\ MaxRetry \in 1..254
BY XModemAssumption

LEMMA FrameFacts ==
  ASSUME NEW m \in Nat, NEW d \in Blocks
  PROVE  /\ Frame(m, d) \in Seq(Traffic) /\ Len(Frame(m, d)) = DataLen + 4
         /\ Frame(m, d)[1] = Byte(SOH, "head")
         /\ Frame(m, d)[2] = Byte(m % 256, "head")
         /\ Frame(m, d)[3] = Byte(255 - (m % 256), "head")
         /\ \A k \in 1..DataLen : Frame(m, d)[k + 3] = Byte(d[k], "payload")
         /\ Frame(m, d)[DataLen + 4] = Byte(Checksum(d), "payload")
<1> DEFINE h == <<Byte(SOH, "head"), Byte(m % 256, "head"), Byte(255 - (m % 256), "head")>>
           p == [k \in 1..DataLen |-> Byte(d[k], "payload")]
           c == <<Byte(Checksum(d), "payload")>>
<1>1. DataLen \in Nat \ {0}
  BY Sizes
<1>2. h \in Seq(Traffic) /\ Len(h) = 3
  <2>1. SOH \in 0..255 /\ m % 256 \in 0..255 /\ 255 - (m % 256) \in 0..255
    BY DEF SOH
  <2>2. \A v \in 0..255 : Byte(v, "head") \in Traffic
    BY DEF Byte, Traffic, Values
  <2>3. Byte(SOH, "head") \in Traffic /\ Byte(m % 256, "head") \in Traffic
        /\ Byte(255 - (m % 256), "head") \in Traffic
    BY <2>1, <2>2
  <2> QED BY <2>3
<1>3. p \in Seq(Traffic) /\ Len(p) = DataLen
  <2>1. \A k \in 1..DataLen : Byte(d[k], "payload") \in Traffic
    BY DEF Byte, Traffic, Values, Blocks
  <2> QED
    BY <1>1, <2>1
<1>4. c \in Seq(Traffic) /\ Len(c) = 1
  BY DEF Byte, Traffic, Values
<1>5. Frame(m, d) = (h \o p) \o c
  BY DEF Frame
<1>6. /\ h[1] = Byte(SOH, "head") /\ h[2] = Byte(m % 256, "head")
      /\ h[3] = Byte(255 - (m % 256), "head")
      /\ \A k \in 1..DataLen : p[k] = Byte(d[k], "payload")
      /\ c[1] = Byte(Checksum(d), "payload")
  OBVIOUS
<1> HIDE DEF h, p, c
<1> DEFINE hp == h \o p
<1>7. /\ hp \in Seq(Traffic) /\ Len(hp) = 3 + DataLen
      /\ \A k \in 1..(3 + DataLen) : hp[k] = IF k <= 3 THEN h[k] ELSE p[k - 3]
  <2>1. /\ hp \in Seq(Traffic) /\ Len(hp) = Len(h) + Len(p)
        /\ \A k \in 1..(Len(h) + Len(p)) :
             hp[k] = IF k <= Len(h) THEN h[k] ELSE p[k - Len(h)]
    BY <1>2, <1>3, ConcatProperties
  <2> HIDE DEF hp
  <2> QED
    BY <1>2, <1>3, <2>1
<1>8. Frame(m, d) = hp \o c
  BY <1>5
<1> HIDE DEF hp
<1>9. /\ Frame(m, d) \in Seq(Traffic) /\ Len(Frame(m, d)) = (3 + DataLen) + 1
      /\ \A k \in 1..((3 + DataLen) + 1) :
           Frame(m, d)[k] = IF k <= 3 + DataLen THEN hp[k] ELSE c[k - (3 + DataLen)]
  <2>1. /\ hp \o c \in Seq(Traffic) /\ Len(hp \o c) = Len(hp) + Len(c)
        /\ \A k \in 1..(Len(hp) + Len(c)) :
             (hp \o c)[k] = IF k <= Len(hp) THEN hp[k] ELSE c[k - Len(hp)]
    BY <1>4, <1>7, ConcatProperties
  <2> QED
    BY <1>4, <1>7, <1>8, <2>1
<1>10. (3 + DataLen) + 1 = DataLen + 4
  BY <1>1
<1>11. \A k \in 1..3 : Frame(m, d)[k] = h[k]
  BY <1>1, <1>7, <1>9
<1>12. \A k \in 1..DataLen : Frame(m, d)[k + 3] = p[k]
  <2> TAKE k \in 1..DataLen
  <2>1. k + 3 \in 1..(3 + DataLen) /\ ~(k + 3 <= 3) /\ k + 3 - 3 = k
        /\ k + 3 \in 1..((3 + DataLen) + 1) /\ k + 3 <= 3 + DataLen
    BY <1>1
  <2> QED
    BY <1>7, <1>9, <2>1
<1>13. Frame(m, d)[DataLen + 4] = c[1]
  <2> DEFINE k == DataLen + 4
  <2>1. k \in 1..((3 + DataLen) + 1) /\ ~(k <= 3 + DataLen) /\ k - (3 + DataLen) = 1
    BY <1>1
  <2> HIDE DEF k
  <2>2. Frame(m, d)[k] = c[1]
    BY <1>9, <2>1
  <2> QED
    BY <2>2 DEF k
<1> QED
  BY <1>6, <1>9, <1>10, <1>11, <1>12, <1>13

\* The bytes of a set that is closed under noise.
Spoilable(S) ==
  \A e \in S, v \in 0..255 :
    LET x == [e EXCEPT !.val = v] IN x \in S /\ x.val = v /\ x.part = e.part

LEMMA TrafficFacts == Spoilable(Traffic) /\ \A e \in Traffic : e.val \in Values
BY DEF Spoilable, Traffic, Values

LEMMA RepliesFacts == Spoilable(Replies) /\ \A e \in Replies : e.val \in 0..255 /\ e.part = "reply"
BY DEF Spoilable, Replies

LEMMA HeadTail ==
  ASSUME NEW S, NEW b \in Seq(S), b # <<>>
  PROVE  /\ Head(b) = b[1] /\ b[1] \in S
         /\ Tail(b) \in Seq(S) /\ Len(b) \in Nat \ {0} /\ Len(Tail(b)) = Len(b) - 1
         /\ \A k \in 1..(Len(b) - 1) : Tail(b)[k] = b[k + 1]
<1>1. Len(b) \in Nat \ {0}
  BY EmptySeq
<1>2. b[1] \in S /\ Head(b) = b[1]
  BY <1>1, ElementOfSeq
<1>3. /\ Tail(b) \in Seq(S) /\ Len(Tail(b)) = Len(b) - 1
      /\ \A k \in 1..Len(Tail(b)) : Tail(b)[k] = b[k + 1]
  BY HeadTailProperties
<1> QED
  BY <1>1, <1>2, <1>3

\* What is left on a line that holds one byte.
LEMMA OneByte ==
  ASSUME NEW S, NEW b \in Seq(S), b # <<>>, Len(b) <= 1
  PROVE  Tail(b) = <<>>
<1>1. Tail(b) \in Seq(S) /\ Len(b) \in Nat \ {0} /\ Len(Tail(b)) = Len(b) - 1
  BY HeadTail
<1>2. Len(Tail(b)) = 0
  BY <1>1
<1> QED
  BY <1>1, <1>2, EmptySeq

LEMMA SpoiltFacts ==
  ASSUME LineInv, NEW S, Spoilable(S),
         NEW b \in Seq(S), b # <<>>, NEW c \in Spoilt(b)
  PROVE  /\ c \in Seq(S)
         /\ \/ /\ Len(c) = Len(b) /\ c[1].val \in line.noise /\ c[1].part = b[1].part
               /\ \A k \in 2..Len(b) : c[k] = b[k]
            \/ /\ line.loses /\ Len(c) = Len(b) - 1
               /\ \A k \in 1..Len(c) : c[k] = b[k + 1]
<1>1. Len(b) \in Nat \ {0} /\ 1 \in 1..Len(b) /\ b[1] \in S
  <2>1. Len(b) \in Nat \ {0} /\ b[1] \in S
    BY HeadTail
  <2> QED
    BY <2>1
<1>2. ASSUME NEW v \in line.noise, c = [b EXCEPT ![1].val = v]
      PROVE  /\ c \in Seq(S) /\ Len(c) = Len(b) /\ c[1].val = v /\ c[1].part = b[1].part
             /\ \A k \in 2..Len(b) : c[k] = b[k]
  <2> DEFINE e == [b[1] EXCEPT !.val = v]
  <2>1. e \in S /\ e.val = v /\ e.part = b[1].part
    <3>1. v \in 0..255
      BY LineFacts DEF LineInv
    <3> QED
      BY <1>1, <3>1 DEF Spoilable
  <2>2. c = [b EXCEPT ![1] = e]
    BY <1>2
  <2> HIDE DEF e
  <2>3. \A j \in 1..Len(b) : c[j] = IF j = 1 THEN e ELSE b[j]
    <3>1. DOMAIN b = 1..Len(b)
      BY LenProperties
    <3> QED
      BY <1>1, <2>2, <3>1
  <2>4. c \in Seq(S) /\ Len(c) = Len(b)
    BY <1>1, <2>1, <2>2, ExceptSeq
  <2>5. \A k \in 2..Len(b) : k \in 1..Len(b) /\ k # 1
    BY <1>1
  <2> QED
    BY <1>1, <2>1, <2>3, <2>4, <2>5
<1>3. ASSUME line.loses, c = Tail(b)
      PROVE  /\ c \in Seq(S) /\ Len(c) = Len(b) - 1
             /\ \A k \in 1..Len(c) : c[k] = b[k + 1]
  BY <1>3, HeadTailProperties
<1>4. (\E v \in line.noise : c = [b EXCEPT ![1].val = v]) \/ (line.loses /\ c = Tail(b))
  BY DEF Spoilt
<1> QED
  BY <1>2, <1>3, <1>4

LEMMA ReplyFacts ==
  ASSUME LineInv, NEW v \in 0..255
  PROVE  /\ Append(up, Byte(v, "reply")) \in Seq(Replies)
         /\ Len(Append(up, Byte(v, "reply"))) = Len(up) + 1
         /\ \A k \in 1..Len(up) : Append(up, Byte(v, "reply"))[k] = up[k]
         /\ Append(up, Byte(v, "reply"))[Len(up) + 1] = Byte(v, "reply")
<1>1. Byte(v, "reply") \in Replies
  BY DEF Byte, Replies
<1>2. up \in Seq(Replies)
  BY DEF LineInv
<1> QED
  BY <1>1, <1>2, AppendProperties

LEMMA NextNumber == \A k \in Nat : ((k % 256) + 1) % 256 = (k + 1) % 256
OBVIOUS

-----------------------------------------------------------------------------
(* Types.                                                                  *)

LEMMA XModemStart == Init => XModemInv
<1> SUFFICES ASSUME Init PROVE XModemInv
  OBVIOUS
<1>1. file \in Files /\ line \in Lines
  BY DEF Init
<1>2. file # <<>> /\ Len(file) \in Nat
  BY <1>1, FilesAreBlocks, XModemAssumption
<1>3. SenderInv
  <2>1. Len(file) > 0 /\ MaxRetry \in Nat
    BY <1>1, FilesAreBlocks, Sizes
  <2> QED
    BY <1>1, <1>2, <2>1 DEF Init, SenderInv
<1>4. ReceiverInv
  BY EmptySeq, Sizes DEF Init, ReceiverInv, Running, taken
<1>5. LineInv
  BY <1>1, LineFacts, EmptySeq DEF Init, LineInv
<1> QED
  BY <1>3, <1>4, <1>5 DEF XModemInv

LEMMA SenderStep ==
  ASSUME XModemInv, Next \/ UNCHANGED vars
  PROVE  SenderInv'
<1>1. SenderInv
  BY DEF XModemInv
<1>2. MaxRetry \in Nat /\ Len(file) > 0
  BY <1>1, FilesAreBlocks, Sizes DEF SenderInv
<1>3. CASE UNCHANGED sender
  BY <1>1, <1>3 DEF sender, SenderInv
<1>4. CASE SendStart
  BY <1>1, <1>2, <1>4 DEF SendStart, SenderInv, TxEnds
<1>5. CASE SendWrite
  <2>1. file' = file /\ sent' = sent
    BY <1>5 DEF SendWrite
  <2>2. tries \in Nat /\ tries' \in Nat
    BY <1>1, <1>5 DEF SendWrite, SenderInv
  <2>3. tx' = tx \/ tx' = "error"
    BY <1>5 DEF SendWrite
  <2> QED
    BY <1>1, <2>1, <2>2, <2>3 DEF SenderInv, TxEnds
<1>6. CASE SendAnswer
  <2>1. file' = file /\ tx \in {"block", "finish"}
    BY <1>6 DEF SendAnswer
  <2>2. CASE sent' = sent /\ tries' = tries
    <3>1. sent + 1 # sent
      BY <1>1 DEF SenderInv
    <3>2. tx' \in {tx, "cancel", "ok"}
      BY <1>6, <2>2, <3>1 DEF SendAnswer
    <3> QED
      BY <1>1, <2>1, <2>2, <3>2 DEF SenderInv, TxEnds
  <2>3. CASE ~(sent' = sent /\ tries' = tries)
    <3>1. /\ waiting' = FALSE /\ tries' = MaxRetry
          /\ IF tx = "finish" THEN tx' = "ok" /\ UNCHANGED sent
             ELSE /\ sent' = sent + 1
                  /\ tx' = IF sent' = Len(file) THEN "finish" ELSE "block"
      BY <1>6, <2>3 DEF SendAnswer
    <3>2. tx = "block" => sent + 1 \in 1..Len(file)
      BY <1>1 DEF SenderInv
    <3> QED
      BY <1>1, <1>2, <2>1, <3>1, <3>2 DEF SenderInv, TxEnds
  <2> QED
    BY <2>2, <2>3
<1>7. CASE SendCancel
  BY <1>1, <1>7 DEF SendCancel, SenderInv, TxEnds
<1>8. CASE UNCHANGED vars
  BY <1>3, <1>8 DEF vars
<1>9. CASE Receive \/ RecvCancel \/ Hit
  BY <1>3, <1>9 DEF Receive, RecvAsk, RecvHead, RecvIdx, RecvData, RecvSum, RecvCancel, Hit
<1> QED
  BY <1>4, <1>5, <1>6, <1>7, <1>8, <1>9 DEF Next, Send

LEMMA AgainFacts ==
  ASSUME ReceiverInv, Again, rx \in Running
  PROVE  /\ retry' = retry + 1 /\ retry' \in 1..255
         /\ rx' = "error" \/ (rx' = "ask" /\ retry' <= MaxRetry)
<1>1. MaxRetry \in 1..254 /\ retry \in 0..MaxRetry
  BY Sizes DEF ReceiverInv
<1>2. (retry + 1) % 256 = retry + 1
  BY <1>1
<1> QED
  BY <1>1, <1>2 DEF Again

\* The results of the first byte.
LEMMA HeadFacts ==
  ASSUME RecvHead
  PROVE  /\ Head(down).val = CAN => rx' = "cancel" /\ UNCHANGED <<retry, up>>
         /\ Head(down).val = EOT =>
              rx' = "complete" /\ up' = Append(up, Byte(ACK, "reply")) /\ UNCHANGED retry
         /\ Head(down).val = SOH => rx' = "idx" /\ UNCHANGED <<retry, up>>
         /\ Head(down).val \notin {CAN, EOT, SOH} => Again /\ UNCHANGED up
<1>1. EOT # CAN /\ EOT # SOH /\ SOH # CAN
  BY DEF EOT, CAN, SOH
<1>2. Head(down).val = CAN => rx' = "cancel" /\ UNCHANGED <<retry, up>>
  BY <1>1 DEF RecvHead
<1>3. Head(down).val = EOT => rx' = "complete" /\ Reply(ACK) /\ UNCHANGED retry
  BY <1>1 DEF RecvHead
<1>4. Head(down).val = SOH => rx' = "idx" /\ UNCHANGED <<retry, up>>
  BY <1>1 DEF RecvHead
<1>5. Head(down).val \notin {CAN, EOT, SOH} => Again /\ UNCHANGED up
  BY DEF RecvHead
<1> QED
  BY <1>2, <1>3, <1>4, <1>5 DEF Reply

LEMMA DataFacts ==
  ASSUME XModemInv, RecvData
  PROVE  /\ data' \in Seq(Values) /\ Len(data') = Len(data) + 1
         /\ \A k \in 1..Len(data) : data'[k] = data[k]
         /\ data'[Len(data) + 1] = down[1].val
<1>1. /\ data \in Seq(Values) /\ down \in Seq(Traffic)
      /\ down # <<>> /\ data' = Append(data, Head(down).val)
  BY DEF XModemInv, ReceiverInv, LineInv, RecvData
<1>2. Head(down).val \in Values /\ Head(down) = down[1]
  BY <1>1, HeadTail, TrafficFacts
<1> QED
  BY <1>1, <1>2, AppendProperties

LEMMA SumFacts ==
  ASSUME XModemInv, RecvSum
  PROVE  \/ /\ Head(down).val = Checksum(data) /\ received' = Append(received, data)
            /\ received' \in Seq(Seq(Values)) /\ Len(received') = Len(received) + 1
            /\ \A k \in 1..Len(received) : received'[k] = received[k]
            /\ received'[Len(received) + 1] = data
            /\ idx' = (idx + 1) % 256 /\ retry' = 0 /\ rx' = "ask"
         \/ Again /\ UNCHANGED <<idx, received>>
<1>1. data \in Seq(Values) /\ received \in Seq(Seq(Values))
  BY DEF XModemInv, ReceiverInv
<1>2. CASE Head(down).val = Checksum(data)
  <2>1. received' = Append(received, data)
    BY <1>2 DEF RecvSum
  <2> QED
    BY <1>1, <1>2, <2>1, AppendProperties DEF RecvSum
<1>3. CASE Head(down).val # Checksum(data)
  BY <1>3 DEF RecvSum
<1> QED
  BY <1>2, <1>3

LEMMA ReceiverStep ==
  ASSUME XModemInv, Next \/ UNCHANGED vars
  PROVE  ReceiverInv'
<1>1. ReceiverInv
  BY DEF XModemInv
<1>2. /\ <<>> \in Seq(Values) /\ Len(<<>>) = 0 /\ MaxRetry \in Nat /\ DataLen \in Nat
      /\ received \in Seq(Seq(Values)) /\ taken \in Nat
  BY <1>1, EmptySeq, Sizes DEF ReceiverInv, taken
<1>3. CASE UNCHANGED receiver
  BY <1>1, <1>3 DEF receiver, ReceiverInv, taken
<1>4. CASE RecvAsk
  BY <1>1, <1>4 DEF RecvAsk, ReceiverInv, taken, Running
<1>5. CASE RecvHead
  <2>1. data' = <<>> /\ idx' = idx /\ received' = received
    BY <1>5 DEF RecvHead
  <2>2. rx = "head"
    BY <1>5 DEF RecvHead
  <2>3. \/ rx' \in {"cancel", "complete", "idx"} /\ retry' = retry
        \/ Again
    BY <1>5 DEF RecvHead
  <2>4. /\ rx' \in Running \cup RxEnds /\ retry' \in 0..255
        /\ rx' \in Running => retry' <= MaxRetry
    <3>1. rx \in Running
      BY <2>2 DEF Running
    <3>2. Again => /\ retry' \in 1..255
                   /\ rx' = "error" \/ (rx' = "ask" /\ retry' <= MaxRetry)
      BY <1>1, <3>1, AgainFacts
    <3>3. retry \in 0..255 /\ retry <= MaxRetry
      BY <1>1, <3>1 DEF ReceiverInv
    <3>4. CASE Again
      BY <3>2, <3>4 DEF Running, RxEnds
    <3>5. CASE rx' \in {"cancel", "complete", "idx"} /\ retry' = retry
      BY <3>3, <3>5 DEF Running, RxEnds
    <3> QED
      BY <2>3, <3>4, <3>5
  <2> QED
    BY <1>1, <1>2, <2>1, <2>4 DEF ReceiverInv, taken
<1>6. CASE RecvIdx
  <2>1. data' = <<>> /\ idx' = idx /\ received' = received /\ retry' = retry
    BY <1>1, <1>6 DEF RecvIdx, ReceiverInv
  <2>2. rx' \in {"inverse", "data", "error"} /\ rx \in Running
    BY <1>6 DEF RecvIdx, Running
  <2> QED
    BY <1>1, <1>2, <2>1, <2>2 DEF ReceiverInv, taken, Running, RxEnds
<1>7. CASE RecvData
  <2>1. data' \in Seq(Values) /\ Len(data') = Len(data) + 1
    BY <1>7, DataFacts
  <2>2. Len(data) < DataLen /\ Len(data) \in Nat
    BY <1>1, <1>7 DEF RecvData, ReceiverInv
  <2> QED
    BY <1>1, <1>2, <1>7, <2>1, <2>2 DEF RecvData, ReceiverInv, taken, Running
<1>8. CASE RecvSum
  <2>1. data' = <<>> /\ rx = "data" /\ rx \in Running
    BY <1>8 DEF RecvSum, Running
  <2>2. CASE Again /\ UNCHANGED <<idx, received>>
    BY <1>1, <1>2, <2>1, <2>2, AgainFacts DEF ReceiverInv, taken, Running, RxEnds
  <2>3. CASE /\ received' \in Seq(Seq(Values)) /\ Len(received') = Len(received) + 1
             /\ idx' = (idx + 1) % 256 /\ retry' = 0 /\ rx' = "ask"
    <3>1. taken' = taken + 1
      BY <2>3 DEF taken
    <3>2. idx' = (taken' + 1) % 256
      BY <1>1, <1>2, <2>3, <3>1, NextNumber DEF ReceiverInv
    <3> QED
      BY <1>2, <2>1, <2>3, <3>2 DEF ReceiverInv, Running
  <2> QED
    BY <1>8, <2>2, <2>3, SumFacts
<1>9. CASE RecvCancel
  BY <1>1, <1>9 DEF RecvCancel, ReceiverInv, taken, Running, RxEnds
<1>10. CASE UNCHANGED vars
  BY <1>3, <1>10 DEF vars
<1>11. CASE Send \/ SendCancel \/ Hit
  BY <1>3, <1>11 DEF Send, SendStart, SendWrite, SendAnswer, SendCancel, Hit
<1> QED
  BY <1>4, <1>5, <1>6, <1>7, <1>8, <1>9, <1>10, <1>11 DEF Next, Receive

LEMMA LineStep ==
  ASSUME XModemInv, Next \/ UNCHANGED vars
  PROVE  LineInv'
<1>1. LineInv
  BY DEF XModemInv
<1>2. down # <<>> => Tail(down) \in Seq(Traffic)
  BY <1>1, HeadTail DEF LineInv
<1>3. up # <<>> => Tail(up) \in Seq(Replies)
  BY <1>1, HeadTail DEF LineInv
<1>4. \A v \in {ACK, NAK, CAN} : Append(up, Byte(v, "reply")) \in Seq(Replies)
  <2>1. {ACK, NAK, CAN} \subseteq 0..255
    BY DEF ACK, NAK, CAN
  <2> QED
    BY <1>1, <2>1, ReplyFacts
<1>5. line \in Lines /\ line.faults \in Nat /\ faults \in 0..line.faults
  BY <1>1, LineFacts DEF LineInv
<1>6. CASE SendStart \/ SendAnswer
  BY <1>1, <1>3, <1>6 DEF LineInv, SendStart, SendAnswer
<1>7. CASE SendWrite
  <2>1. /\ down' = down \/ \E new \in Seq(Traffic) : down' = down \o new
        /\ UNCHANGED <<up, line, faults>>
    <3>1. CASE tries = 0
      BY <1>7, <3>1 DEF SendWrite
    <3>2. CASE tries # 0 /\ tx = "block"
      <4>1. file \in Files /\ sent \in 0..Len(file) /\ sent < Len(file)
        BY <3>2 DEF XModemInv, SenderInv
      <4>2. sent + 1 \in Nat /\ file[sent + 1] \in Blocks
        BY <4>1, FilesAreBlocks
      <4>3. Frame(sent + 1, file[sent + 1]) \in Seq(Traffic)
        BY <4>2, FrameFacts
      <4> QED
        BY <1>7, <3>2, <4>3 DEF SendWrite
    <3>3. CASE tries # 0 /\ tx # "block"
      <4>1. <<Byte(EOT, "head")>> \in Seq(Traffic)
        BY DEF Byte, EOT, Traffic, Values
      <4> QED
        BY <1>7, <3>3, <4>1 DEF SendWrite
    <3> QED
      BY <3>1, <3>2, <3>3
  <2>2. down' \in Seq(Traffic)
    BY <1>1, <2>1, ConcatProperties DEF LineInv
  <2> QED
    BY <1>1, <2>1, <2>2 DEF LineInv
<1>8. CASE RecvAsk
  BY <1>1, <1>4, <1>8 DEF LineInv, RecvAsk, Reply
<1>9. CASE RecvHead
  BY <1>1, <1>2, <1>4, <1>9 DEF LineInv, RecvHead, Reply
<1>10. CASE RecvIdx
  BY <1>1, <1>2, <1>4, <1>10 DEF LineInv, RecvIdx, Reply
<1>11. CASE RecvData \/ RecvSum
  BY <1>1, <1>2, <1>11 DEF LineInv, RecvData, RecvSum
<1>12. CASE SendCancel \/ RecvCancel \/ UNCHANGED vars
  BY <1>1, <1>12 DEF LineInv, SendCancel, RecvCancel, vars
<1>13. CASE Hit
  <2>1. faults' \in 0..line.faults /\ line' = line
    BY <1>5, <1>13 DEF Hit
  <2>2. \A c \in Spoilt(down) : down # <<>> => c \in Seq(Traffic)
    BY <1>1, TrafficFacts, SpoiltFacts DEF LineInv
  <2>3. \A c \in Spoilt(up) : up # <<>> => c \in Seq(Replies)
    BY <1>1, RepliesFacts, SpoiltFacts DEF LineInv
  <2> QED
    BY <1>1, <1>13, <2>1, <2>2, <2>3 DEF LineInv, Hit, CanHit
<1> QED
  BY <1>6, <1>7, <1>8, <1>9, <1>10, <1>11, <1>12, <1>13 DEF Next, Send, Receive

\* What the two sides hold, on any line.
THEOREM XModemInvariant == Spec => []XModemInv
<1>1. XModemInv /\ [Next]_vars => XModemInv'
  <2> SUFFICES ASSUME XModemInv, [Next]_vars PROVE XModemInv'
    OBVIOUS
  <2> QED
    BY SenderStep, ReceiverStep, LineStep DEF XModemInv
<1> QED
  BY <1>1, XModemStart, PTL DEF Spec

-----------------------------------------------------------------------------
(* Acknowledgements.                                                       *)

LEMMA AcksAreFinite ==
  ASSUME NEW b \in Seq(Replies)
  PROVE  IsFiniteSet(Acks(b)) /\ Cardinality(Acks(b)) \in Nat
<1>1. Len(b) \in Nat
  OBVIOUS
<1>2. IsFiniteSet(1..Len(b))
  BY <1>1, FS_Interval
<1>3. IsFiniteSet(Acks(b))
  BY <1>2, FS_Subset DEF Acks
<1> QED
  BY <1>3, FS_CardinalityType

LEMMA AcksOfTail ==
  ASSUME NEW b \in Seq(Replies), b # <<>>
  PROVE  Cardinality(Acks(Tail(b))) + (IF b[1].val = ACK THEN 1 ELSE 0) = Cardinality(Acks(b))
<1> DEFINE T == Acks(b) \ {1}
           f == [k \in Acks(Tail(b)) |-> k + 1]
<1>1. /\ Tail(b) \in Seq(Replies) /\ Len(b) \in Nat \ {0} /\ Len(Tail(b)) = Len(b) - 1
      /\ \A k \in 1..(Len(b) - 1) : Tail(b)[k] = b[k + 1]
  BY HeadTail
<1>2. IsFiniteSet(T) /\ IsFiniteSet(Acks(b)) /\ Cardinality(Acks(b)) \in Nat
  BY AcksAreFinite, FS_Subset
<1>3. \A k \in Acks(Tail(b)) : k \in 1..(Len(b) - 1) /\ k + 1 \in T
  BY <1>1 DEF Acks
<1>4. f \in Bijection(Acks(Tail(b)), T)
  <2>1. f \in [Acks(Tail(b)) -> T]
    BY <1>3
  <2>2. \A j, k \in Acks(Tail(b)) : f[j] = f[k] => j = k
    BY <1>3
  <2>3. \A t \in T : \E k \in Acks(Tail(b)) : f[k] = t
    <3> TAKE t \in T
    <3>1. t - 1 \in 1..(Len(b) - 1) /\ b[t].val = ACK /\ t - 1 + 1 = t
      BY <1>1 DEF Acks
    <3>2. t - 1 \in Acks(Tail(b))
      BY <1>1, <3>1 DEF Acks
    <3> QED
      BY <3>1, <3>2
  <2> QED
    BY <2>1, <2>2, <2>3, Fun_IsBij
<1>5. Cardinality(T) = Cardinality(Acks(Tail(b)))
  <2>1. ExistsBijection(Acks(Tail(b)), T)
    BY <1>4 DEF ExistsBijection
  <2>2. IsFiniteSet(Acks(Tail(b)))
    BY <1>1, AcksAreFinite
  <2> QED
    BY <2>1, <2>2, FS_Bijection
<1>6. Cardinality(T) = IF 1 \in Acks(b) THEN Cardinality(Acks(b)) - 1 ELSE Cardinality(Acks(b))
  BY <1>2, FS_RemoveElement
<1>7. b[1].val = ACK <=> 1 \in Acks(b)
  BY <1>1 DEF Acks
<1>8. Cardinality(Acks(Tail(b))) \in Nat
  BY <1>1, AcksAreFinite
<1> QED
  BY <1>2, <1>5, <1>6, <1>7, <1>8

LEMMA AcksOfAppend ==
  ASSUME LineInv, NEW v \in 0..255
  PROVE  Cardinality(Acks(Append(up, Byte(v, "reply"))))
           = Cardinality(Acks(up)) + (IF v = ACK THEN 1 ELSE 0)
<1> DEFINE b == Append(up, Byte(v, "reply"))
           m == Len(up) + 1
<1>1. up \in Seq(Replies) /\ Len(up) \in Nat
  BY DEF LineInv
<1>2. /\ b \in Seq(Replies) /\ Len(b) = m /\ b[m].val = v
      /\ \A k \in 1..Len(up) : b[k] = up[k]
  <2>1. Byte(v, "reply").val = v
    BY DEF Byte
  <2>2. /\ b \in Seq(Replies) /\ Len(b) = m /\ b[m] = Byte(v, "reply")
        /\ \A k \in 1..Len(up) : b[k] = up[k]
    BY ReplyFacts
  <2> QED
    BY <2>1, <2>2
<1>3. IsFiniteSet(Acks(up)) /\ Cardinality(Acks(up)) \in Nat
  BY <1>1, AcksAreFinite
<1> HIDE DEF b
<1>4. Acks(b) = IF v = ACK THEN Acks(up) \cup {m} ELSE Acks(up)
  <2>1. \A k \in 1..m : k = m \/ k \in 1..Len(up)
    BY <1>1
  <2>2. 1..Len(up) \subseteq 1..m /\ m \in 1..m
    BY <1>1
  <2> QED
    BY <1>2, <2>1, <2>2 DEF Acks
<1>5. m \notin Acks(up)
  BY <1>1 DEF Acks
<1>6. Cardinality(Acks(up) \cup {m}) = Cardinality(Acks(up)) + 1
  BY <1>3, <1>5, FS_AddElement
<1>7. Cardinality(Acks(b)) = Cardinality(Acks(up)) + (IF v = ACK THEN 1 ELSE 0)
  BY <1>3, <1>4, <1>6
<1> QED
  BY <1>7 DEF b

LEMMA Kept == ASSUME Next \/ UNCHANGED vars PROVE line' = line /\ file' = file
BY DEF Next, Send, SendStart, SendWrite, SendAnswer, SendCancel, Receive, RecvAsk, RecvHead,
       RecvIdx, RecvData, RecvSum, RecvCancel, Hit, vars, sender, receiver

LEMMA AckStart == Init => AckInv
<1> SUFFICES ASSUME Init PROVE AckInv
  OBVIOUS
<1>1. Acks(<<>>) = {}
  BY DEF Acks
<1>2. Count(up) = 0
  BY <1>1, FS_EmptySet DEF Init, Count
<1>3. /\ sent = 0 /\ Len(received) = 0 /\ Owed(rx, retry) = 0 /\ Final(rx) = 0
      /\ tx = "start" /\ Told(tx) = 0 /\ down = <<>> /\ rx = "ask"
  BY DEF Init, Owed, Final, Told
<1> QED
  BY <1>2, <1>3 DEF AckInv, taken

LEMMA AckStep ==
  ASSUME XModemInv, AckInv, Next \/ UNCHANGED vars
  PROVE  AckInv'
<1>0. tx' = "start" =>
        down' = <<>> /\ taken' = 0 /\ rx' \in {"ask", "head", "self_cancel"}
  <2> SUFFICES ASSUME tx' = "start"
               PROVE  down' = <<>> /\ Len(received') = 0 /\ rx' \in {"ask", "head", "self_cancel"}
    BY DEF taken
  <2>1. tx = "start"
    BY DEF Next, Send, SendStart, SendWrite, SendAnswer, SendCancel, Receive, RecvAsk, RecvHead,
           RecvIdx, RecvData, RecvSum, RecvCancel, Hit, vars, sender
  <2>2. down = <<>> /\ Len(received) = 0 /\ rx \in {"ask", "head", "self_cancel"}
    BY <2>1 DEF AckInv, taken
  <2>3. ~SendWrite /\ ~SendAnswer /\ ~RecvHead /\ ~RecvIdx /\ ~RecvData /\ ~RecvSum /\ ~CanHit(down)
    BY <2>1, <2>2 DEF SendWrite, SendAnswer, RecvHead, RecvIdx, RecvData, RecvSum, CanHit
  <2> QED
    BY <2>2, <2>3 DEF Next, Send, SendStart, SendCancel, Receive, RecvAsk, RecvCancel, Hit, vars,
                      receiver
<1> SUFFICES ASSUME "reply" \notin line.parts
             PROVE  sent' + Count(up') + Owed(rx', retry') + Told(tx') = Len(received') + Final(rx')
  BY <1>0, Kept DEF AckInv, taken
<1>1. sent + Count(up) + Owed(rx, retry) + Told(tx) = Len(received) + Final(rx)
  BY DEF AckInv, taken
<1>2. /\ SenderInv /\ ReceiverInv /\ LineInv
      /\ sent \in Nat /\ Len(received) \in Nat /\ Count(up) \in Nat
      /\ Owed(rx, retry) \in {0, 1} /\ Final(rx) \in {0, 1} /\ Told(tx) \in {0, 1}
  BY AcksAreFinite DEF XModemInv, SenderInv, ReceiverInv, LineInv, taken, Count, Owed, Final, Told
<1>3. up \in Seq(Replies) /\ up' \in Seq(Replies) /\ Count(up') \in Nat
  <2>1. up' \in Seq(Replies)
    BY LineStep DEF LineInv
  <2> QED
    BY <1>2, <2>1, AcksAreFinite DEF LineInv, Count
<1>4. up # <<>> =>
        /\ Head(up) = up[1]
        /\ Count(Tail(up)) + (IF up[1].val = ACK THEN 1 ELSE 0) = Count(up)
        /\ Count(Tail(up)) \in Nat
  <2> SUFFICES ASSUME up # <<>>
               PROVE  /\ Head(up) = up[1]
                      /\ Count(Tail(up)) + (IF up[1].val = ACK THEN 1 ELSE 0) = Count(up)
                      /\ Count(Tail(up)) \in Nat
    OBVIOUS
  <2>1. Head(up) = up[1] /\ Tail(up) \in Seq(Replies)
    BY <1>3, HeadTail
  <2> QED
    BY <1>3, <2>1, AcksOfTail, AcksAreFinite DEF Count
<1>5. /\ Count(Append(up, Byte(ACK, "reply"))) = Count(up) + 1
      /\ Count(Append(up, Byte(NAK, "reply"))) = Count(up)
      /\ Count(Append(up, Byte(CAN, "reply"))) = Count(up)
  <2>1. ACK \in 0..255 /\ NAK \in 0..255 /\ CAN \in 0..255 /\ NAK # ACK /\ CAN # ACK
    BY DEF ACK, NAK, CAN
  <2>2. /\ Count(Append(up, Byte(ACK, "reply"))) = Count(up) + (IF ACK = ACK THEN 1 ELSE 0)
        /\ Count(Append(up, Byte(NAK, "reply"))) = Count(up) + (IF NAK = ACK THEN 1 ELSE 0)
        /\ Count(Append(up, Byte(CAN, "reply"))) = Count(up) + (IF CAN = ACK THEN 1 ELSE 0)
    BY <1>2, <2>1, AcksOfAppend DEF Count
  <2> QED
    BY <1>2, <2>1, <2>2
<1>6. Again /\ rx \in Running => retry' # 0 /\ rx' # "complete"
  <2> SUFFICES ASSUME Again, rx \in Running PROVE retry' # 0 /\ rx' # "complete"
    OBVIOUS
  <2>1. retry' \in 1..255 /\ rx' \in {"error", "ask"}
    BY <1>2, AgainFacts
  <2> QED
    BY <2>1
<1>7. CASE SendStart
  <2>1. /\ sent' = sent /\ Owed(rx', retry') = Owed(rx, retry) /\ Len(received') = Len(received)
        /\ Final(rx') = Final(rx) /\ up # <<>> /\ up' = Tail(up)
        /\ tx = "start" /\ tx' \in {"cancel", "block", "start"}
    BY <1>7 DEF SendStart, receiver, Owed, Final
  <2>2. Told(tx) = 0 /\ Told(tx') = 0 /\ sent = 0 /\ Len(received) = 0 /\ Final(rx) = 0
    BY <1>2, <2>1 DEF Told, SenderInv, AckInv, taken, Final
  <2> QED
    BY <1>1, <1>2, <1>3, <1>4, <2>1, <2>2
<1>8. CASE SendAnswer
  <2>1. /\ Owed(rx', retry') = Owed(rx, retry) /\ Len(received') = Len(received)
        /\ Final(rx') = Final(rx) /\ up # <<>> /\ up' = Tail(up) /\ tx \in {"block", "finish"}
    BY <1>8 DEF SendAnswer, receiver, Owed, Final
  <2>2. ACK # CAN /\ ACK # NAK
    BY DEF ACK, CAN, NAK
  <2>3. CASE Head(up).val = ACK
    <3>1. \/ tx' = "ok" /\ sent' = sent
          \/ tx' \in {"finish", "block"} /\ sent' = sent + 1
      BY <1>8, <2>2, <2>3 DEF SendAnswer
    <3>2. Told(tx) = 0 /\ (tx' = "ok" => Told(tx') = 1) /\ (tx' # "ok" => Told(tx') = 0)
      BY <2>1 DEF Told
    <3>3. sent' + Told(tx') = sent + 1 /\ sent' \in Nat /\ Told(tx') \in Nat
      BY <1>2, <3>1, <3>2
    <3>4. Count(up') + 1 = Count(up)
      BY <1>4, <2>1, <2>3
    <3>5. sent + Count(up) + Owed(rx, retry) = Len(received) + Final(rx)
      BY <1>1, <1>2, <3>2
    <3>6. sent' + Told(tx') + Count(up') + Owed(rx, retry) = Len(received) + Final(rx)
      BY <1>2, <1>3, <3>3, <3>4, <3>5
    <3>7. sent' + Count(up') + Owed(rx, retry) + Told(tx') = Len(received) + Final(rx)
      BY <1>2, <1>3, <3>3, <3>6
    <3> QED
      BY <2>1, <3>7
  <2>4. CASE Head(up).val # ACK
    <3>1. sent' = sent /\ tx' # "ok"
      BY <1>8, <2>1, <2>4 DEF SendAnswer
    <3>2. Told(tx) = 0 /\ Told(tx') = 0
      BY <2>1, <3>1 DEF Told
    <3> QED
      BY <1>1, <1>2, <1>3, <1>4, <2>1, <2>4, <3>1, <3>2
  <2> QED
    BY <2>3, <2>4
<1>9. CASE SendWrite \/ SendCancel \/ UNCHANGED vars
  <2>1. /\ sent' = sent /\ Owed(rx', retry') = Owed(rx, retry) /\ Len(received') = Len(received)
        /\ Final(rx') = Final(rx) /\ up' = up /\ Told(tx') = Told(tx)
    BY <1>9 DEF SendWrite, SendCancel, vars, sender, receiver, Owed, Final, Told
  <2> QED
    BY <1>1, <2>1 DEF Count
<1>10. CASE Hit
  <2>1. ~CanHit(up)
    <3>1. ASSUME up # <<>> PROVE Head(up).part = "reply"
      BY <1>3, <3>1, HeadTail, RepliesFacts
    <3> QED
      BY <3>1 DEF CanHit
  <2>2. /\ sent' = sent /\ Owed(rx', retry') = Owed(rx, retry) /\ Len(received') = Len(received)
        /\ Final(rx') = Final(rx) /\ up' = up /\ Told(tx') = Told(tx)
    BY <1>10, <2>1 DEF Hit, sender, receiver, Owed, Final, Told
  <2> QED
    BY <1>1, <2>2 DEF Count
<1>11. CASE RecvAsk
  <2>1. /\ sent' = sent /\ Len(received') = Len(received) /\ rx = "ask" /\ rx' = "head"
        /\ Told(tx') = Told(tx)
        /\ up' = Append(up, Byte(IF retry # 0 THEN NAK ELSE ACK, "reply"))
    BY <1>11 DEF RecvAsk, Reply, sender, Told
  <2>2. Count(up') = Count(up) + Owed(rx, retry)
    <3>1. CASE retry = 0
      <4>1. up' = Append(up, Byte(ACK, "reply")) /\ Owed(rx, retry) = 1
        BY <2>1, <3>1 DEF Owed
      <4> QED
        BY <1>2, <1>5, <4>1
    <3>2. CASE retry # 0
      <4>1. up' = Append(up, Byte(NAK, "reply")) /\ Owed(rx, retry) = 0
        BY <2>1, <3>2 DEF Owed
      <4> QED
        BY <1>2, <1>5, <4>1
    <3> QED BY <3>1, <3>2
  <2>3. Owed(rx', retry') = 0 /\ Final(rx') = 0 /\ Final(rx) = 0
    BY <2>1 DEF Owed, Final
  <2> QED
    BY <1>1, <1>2, <1>3, <2>1, <2>2, <2>3
<1>12. CASE RecvHead
  <2>1. /\ sent' = sent /\ Len(received') = Len(received) /\ rx = "head" /\ Owed(rx, retry) = 0
        /\ Final(rx) = 0 /\ Told(tx') = Told(tx)
    BY <1>12 DEF RecvHead, sender, Owed, Final, Told
  <2>2. CASE Head(down).val = EOT
    <3>1. rx' = "complete" /\ up' = Append(up, Byte(ACK, "reply"))
      BY <1>12, <2>2, HeadFacts
    <3>2. Owed(rx', retry') = 0 /\ Final(rx') = 1 /\ Count(up') = Count(up) + 1
      BY <1>5, <3>1 DEF Owed, Final, Count
    <3>3. sent + Count(up) + 0 + Told(tx) = Len(received) + 0
      BY <1>1, <2>1
    <3>4. sent' + Count(up') + 0 + Told(tx') = Len(received') + 1
      BY <1>2, <2>1, <3>2, <3>3
    <3> QED
      BY <3>2, <3>4
  <2>3. CASE Head(down).val # EOT
    <3>1. up' = up /\ ((rx' \in {"cancel", "idx"} /\ retry' = retry) \/ Again)
      BY <1>12, <2>3 DEF RecvHead
    <3>2. rx \in Running
      BY <2>1 DEF Running
    <3>3. Owed(rx', retry') = 0 /\ Final(rx') = 0 /\ Count(up') = Count(up)
      BY <1>6, <2>1, <3>1, <3>2 DEF Owed, Final, Count
    <3> QED
      BY <1>1, <1>2, <2>1, <3>3
  <2> QED
    BY <2>2, <2>3
<1>13. CASE RecvIdx
  <2>1. /\ sent' = sent /\ Len(received') = Len(received) /\ Told(tx') = Told(tx)
        /\ rx \in {"idx", "inverse"} /\ rx' \in {"inverse", "data", "error"}
        /\ up' = up \/ up' = Append(up, Byte(CAN, "reply"))
    BY <1>13 DEF RecvIdx, Reply, sender, Told
  <2>2. Owed(rx, retry) = 0 /\ Final(rx) = 0 /\ Owed(rx', retry') = 0 /\ Final(rx') = 0
    BY <2>1 DEF Owed, Final
  <2>3. Count(up') = Count(up)
    <3>1. CASE up' = up
      <4>1. Count(up') = Count(up)
        BY <3>1 DEF Count
      <4> QED
        BY <1>2, <4>1
    <3>2. CASE up' = Append(up, Byte(CAN, "reply"))
      BY <1>5, <3>2 DEF Count
    <3> QED
      BY <2>1, <3>1, <3>2
  <2> QED
    BY <1>1, <1>2, <1>3, <2>1, <2>2, <2>3
<1>14. CASE RecvData \/ RecvCancel
  <2>1. /\ sent' = sent /\ Len(received') = Len(received) /\ up' = up /\ rx \in {"data", "head"}
        /\ rx' \in {"data", "self_cancel"} /\ Told(tx') = Told(tx)
    BY <1>14 DEF RecvData, RecvCancel, sender, Told
  <2>2. /\ Owed(rx, retry) = 0 /\ Final(rx) = 0 /\ Owed(rx', retry') = 0
        /\ Final(rx') = 0 /\ Count(up') = Count(up)
    BY <2>1 DEF Owed, Final, Count
  <2> QED
    BY <1>1, <2>1, <2>2
<1>15. CASE RecvSum
  <2>1. sent' = sent /\ up' = up /\ rx = "data" /\ rx \in Running /\ Told(tx') = Told(tx)
    BY <1>15 DEF RecvSum, sender, Running, Told
  <2>2. Owed(rx, retry) = 0 /\ Final(rx) = 0 /\ Count(up') = Count(up)
    BY <2>1 DEF Owed, Final, Count
  <2>3. CASE Again /\ UNCHANGED <<idx, received>>
    <3>1. Len(received') = Len(received) /\ Owed(rx', retry') = 0 /\ Final(rx') = 0
      BY <1>6, <2>1, <2>3 DEF Owed, Final
    <3> QED
      BY <1>1, <1>2, <2>1, <2>2, <3>1
  <2>4. CASE Len(received') = Len(received) + 1 /\ rx' = "ask" /\ retry' = 0
    <3>1. Len(received') = Len(received) + 1 /\ Final(rx') = 0 /\ Owed(rx', retry') = 1
      BY <2>4 DEF Owed, Final
    <3> QED
      BY <1>1, <1>2, <1>3, <2>1, <2>2, <3>1
  <2> QED
    BY <1>15, <2>3, <2>4, SumFacts
<1> QED
  BY <1>7, <1>8, <1>9, <1>10, <1>11, <1>12, <1>13, <1>14, <1>15 DEF Next, Send, Receive

-----------------------------------------------------------------------------
(* The places.                                                             *)
LEMMA AtAskStep ==
  ASSUME XModemInv, AtAsk, taken <= Len(file), Next \/ UNCHANGED vars
  PROVE  taken' <= Len(file') /\ (AtAsk' \/ Idle')
<1>1. /\ rx = "ask" /\ up = <<>> /\ down = <<>> /\ Len(received) \in Nat /\ sent \in Nat
      /\ tx = "start" => sent = 0 /\ Len(received) = 0
      /\ tx = "block" => waiting /\ sent \in (Len(received) - 1)..Len(received)
      /\ tx # "finish" /\ Len(received) <= Len(file)
  BY DEF AtAsk, taken, XModemInv, SenderInv, ReceiverInv
<1>2. CASE RecvAsk
  <2>1. /\ rx' = "head" /\ down' = <<>> /\ UNCHANGED <<file, tx, sent, waiting, received>>
        /\ up' = Append(<<>>, Byte(IF retry # 0 THEN NAK ELSE ACK, "reply"))
    BY <1>1, <1>2 DEF RecvAsk, Reply, sender
  <2>2. Len(up') = 1
    <3> DEFINE v == Byte(IF retry # 0 THEN NAK ELSE ACK, "reply")
    <3>1. Append(<<>>, v) = <<v>>
      OBVIOUS
    <3> QED
      BY <2>1, <3>1
  <2>3. Idle'
    BY <1>1, <2>1, <2>2 DEF Idle, taken
  <2> QED
    BY <1>1, <2>1, <2>3 DEF taken
<1>3. CASE SendCancel
  <2>1. tx' = "self_cancel" /\ UNCHANGED <<file, rx, up, down, received>>
    BY <1>3 DEF SendCancel, receiver
  <2> QED
    BY <1>1, <2>1 DEF AtAsk, taken
<1>4. CASE UNCHANGED vars
  BY <1>1, <1>4 DEF vars, sender, receiver, AtAsk, taken
<1>5. ~SendStart /\ ~SendWrite /\ ~SendAnswer /\ ~Hit
  BY <1>1 DEF SendStart, SendWrite, SendAnswer, Hit, CanHit
<1>6. ~RecvHead /\ ~RecvIdx /\ ~RecvData /\ ~RecvSum /\ ~RecvCancel
  BY <1>1 DEF RecvHead, RecvIdx, RecvData, RecvSum, RecvCancel
<1> QED
  BY <1>2, <1>3, <1>4, <1>5, <1>6 DEF Next, Send, Receive

LEMMA IdleStep ==
  ASSUME XModemInv, Idle, taken <= Len(file), Next \/ UNCHANGED vars
  PROVE  /\ taken' <= Len(file')
         /\ Idle' \/ HeadersComing' \/ EotComing' \/ rx' = "self_cancel"
<1>1. /\ rx = "head" /\ down = <<>> /\ Len(received) \in Nat /\ sent \in Nat
      /\ tx = "start" => sent = 0 /\ Len(received) = 0
      /\ tx = "block" => /\ sent \in (Len(received) - 1)..(Len(received) + 1)
                         /\ waiting /\ up # <<>> => sent <= Len(received)
      /\ tx \in {"block", "finish"} /\ ~waiting => up = <<>>
      /\ tx = "finish" => ~waiting
      /\ Len(up) <= 1 /\ Len(received) <= Len(file)
      /\ up \in Seq(Replies)
      /\ tx = "block" => sent < Len(file)
      /\ tx = "finish" => sent = Len(file)
      /\ file \in Files /\ Len(file) \in Nat
  BY DEF Idle, taken, XModemInv, SenderInv, ReceiverInv, LineInv
<1>2. up # <<>> => Tail(up) = <<>>
  BY <1>1, OneByte
<1>3. <<>> = <<>> /\ Len(<<>>) = 0
  BY EmptySeq
<1>4. CASE SendStart
  <2>1. /\ rx' = "head" /\ down' = <<>> /\ up' = <<>> /\ tx = "start"
        /\ tx' \in {"cancel", "block", "start"}
        /\ UNCHANGED <<file, sent, waiting, received>>
    BY <1>1, <1>2, <1>4 DEF SendStart, receiver
  <2>2. Idle'
    BY <1>1, <1>3, <2>1 DEF Idle, taken
  <2> QED
    BY <1>1, <2>1, <2>2 DEF taken
<1>5. CASE SendAnswer
  <2>1. /\ rx' = "head" /\ down' = <<>> /\ up' = <<>> /\ tx = "block" /\ waiting /\ up # <<>>
        /\ UNCHANGED <<file, received>>
    BY <1>1, <1>2, <1>5 DEF SendAnswer, receiver
  <2>2. \/ tx' = "cancel"
        \/ tx' = "block" /\ sent' = sent
        \/ tx' \in {"block", "finish"} /\ waiting' = FALSE /\ sent' = sent + 1
    BY <2>1, <1>5 DEF SendAnswer
  <2>3. Idle'
    BY <1>1, <1>3, <2>1, <2>2 DEF Idle, taken
  <2> QED
    BY <1>1, <2>1, <2>3 DEF taken
<1>6. CASE SendCancel
  <2>1. tx' = "self_cancel" /\ UNCHANGED <<file, rx, up, down, received>>
    BY <1>6 DEF SendCancel, receiver
  <2> QED
    BY <1>1, <2>1 DEF Idle, taken
<1>7. CASE UNCHANGED vars
  BY <1>1, <1>7 DEF vars, sender, receiver, Idle, taken
<1>8. CASE RecvCancel
  BY <1>1, <1>8 DEF RecvCancel, sender, taken
<1>9. CASE Hit
  <2>1. /\ CanHit(up) /\ up' \in Spoilt(up) /\ down' = <<>>
        /\ UNCHANGED <<rx, file, tx, sent, waiting, received>>
    BY <1>1, <1>9 DEF Hit, CanHit, sender, receiver
  <2>2. up # <<>> /\ Len(up') <= 1
    <3>1. up # <<>> /\ LineInv
      BY <2>1 DEF CanHit, XModemInv
    <3>2. \A c \in Spoilt(up) : Len(c) = Len(up) \/ Len(c) = Len(up) - 1
      BY <1>1, <3>1, RepliesFacts, SpoiltFacts
    <3>3. Len(up) \in Nat
      BY <1>1
    <3> QED
      BY <1>1, <2>1, <3>1, <3>2, <3>3
  <2>3. Idle'
    BY <1>1, <2>1, <2>2 DEF Idle, taken
  <2> QED
    BY <1>1, <2>1, <2>3 DEF taken
<1>10. CASE SendWrite
  <2>1. /\ rx' = "head" /\ tx \in {"block", "finish"} /\ up = <<>> /\ up' = <<>>
        /\ UNCHANGED <<file, sent, received>>
    BY <1>1, <1>10 DEF SendWrite, receiver
  <2>2. CASE tries = 0
    <3>1. tx' = "error" /\ down' = <<>>
      BY <1>1, <1>10, <2>2 DEF SendWrite
    <3> QED
      BY <1>1, <1>3, <2>1, <3>1 DEF Idle, taken
  <2>3. CASE tries # 0 /\ tx = "block"
    <3> DEFINE f == Frame(sent + 1, file[sent + 1])
    <3>1. f \in Seq(Traffic) /\ Len(f) = DataLen + 4
      <4>1. sent + 1 \in Nat /\ file[sent + 1] \in Blocks
        BY <1>1, <2>3, FilesAreBlocks
      <4> QED
        BY <4>1, FrameFacts
    <3>2. waiting' = TRUE /\ tx' = "block" /\ down' = <<>> \o f
      BY <1>1, <1>10, <2>3 DEF SendWrite
    <3> HIDE DEF f
    <3>3. down' = f
      BY <3>1, <3>2
    <3>4. Len(down') = DataLen + 4 - HeadersRead(rx')
      BY <2>1, <3>1, <3>3, Sizes DEF HeadersRead
    <3>5. \A k \in 1..Len(down') : down'[k] = f[k + HeadersRead(rx')]
      BY <2>1, <3>3 DEF HeadersRead
    <3>6. f = Frame(sent' + 1, file'[sent' + 1])
      BY <2>1 DEF f
    <3>7. HeadersComing'
      BY <1>1, <2>1, <2>3, <3>2, <3>4, <3>5, <3>6 DEF HeadersComing, taken
    <3> QED
      BY <1>1, <2>1, <3>7 DEF taken
  <2>4. CASE tries # 0 /\ tx = "finish"
    <3>1. waiting' = TRUE /\ tx' = "finish" /\ down' = <<>> \o <<Byte(EOT, "head")>>
      BY <1>1, <1>10, <2>4 DEF SendWrite
    <3>2. down' = <<Byte(EOT, "head")>>
      BY <3>1
    <3> QED
      BY <1>1, <2>1, <2>4, <3>1, <3>2 DEF EotComing, taken
  <2> QED
    BY <2>1, <2>2, <2>3, <2>4
<1>11. ~RecvAsk /\ ~RecvHead /\ ~RecvIdx /\ ~RecvData /\ ~RecvSum
  BY <1>1 DEF RecvAsk, RecvHead, RecvIdx, RecvData, RecvSum
<1> QED
  BY <1>4, <1>5, <1>6, <1>7, <1>8, <1>9, <1>10, <1>11 DEF Next, Send, Receive

\* What arrives, and what is left on the line.
LEMMA DownFacts ==
  ASSUME XModemInv, down # <<>>
  PROVE  /\ Head(down) = down[1] /\ down[1].val \in Values
         /\ Len(down) \in Nat \ {0} /\ Len(Tail(down)) = Len(down) - 1
         /\ \A k \in 1..(Len(down) - 1) : Tail(down)[k] = down[k + 1]
<1>1. down \in Seq(Traffic)
  BY DEF XModemInv, LineInv
<1> QED
  BY <1>1, HeadTail, TrafficFacts

\* Where no header is hit, the headers come as they were sent.
LEMMA NextHeader ==
  ASSUME XModemInv, HeadersComing, taken <= Len(file)
  PROVE  LET f == Frame(sent + 1, file[sent + 1])
         IN  /\ \A k \in 1..DataLen : f[k + 3].part = "payload"
             /\ f[DataLen + 4].part = "payload"
             /\ down # <<>> /\ Head(down) = down[1] /\ Len(Tail(down)) = Len(down) - 1
             /\ \A k \in 1..(Len(down) - 1) : Tail(down)[k] = down[k + 1]
             /\ rx = "head" => Head(down) = Byte(SOH, "head")
             /\ rx = "idx" => Head(down) = Byte((sent + 1) % 256, "head")
             /\ rx = "inverse" => Head(down) = Byte(255 - ((sent + 1) % 256), "head")
<1> DEFINE f == Frame(sent + 1, file[sent + 1])
<1>1. /\ rx \in {"head", "idx", "inverse"} /\ up = <<>>
      /\ tx = "self_cancel" \/ (tx = "block" /\ waiting)
      /\ Len(received) \in Nat /\ sent \in Nat /\ Len(file) \in Nat
      /\ sent \in (Len(received) - 1)..(Len(received) + 1) /\ sent < Len(file)
      /\ rx = "inverse" => sent = Len(received)
      /\ Len(received) <= Len(file) /\ file \in Files
      /\ Len(down) = DataLen + 4 - HeadersRead(rx)
      /\ \A k \in 1..Len(down) : down[k] = f[k + HeadersRead(rx)]
  BY DEF HeadersComing, taken, XModemInv, SenderInv, ReceiverInv
<1>2. /\ f[1] = Byte(SOH, "head") /\ f[2] = Byte((sent + 1) % 256, "head")
      /\ f[3] = Byte(255 - ((sent + 1) % 256), "head")
      /\ \A k \in 1..DataLen : f[k + 3].part = "payload"
      /\ f[DataLen + 4].part = "payload"
  <2> HIDE DEF f
  <2>1. sent + 1 \in Nat /\ file[sent + 1] \in Blocks
    BY <1>1, FilesAreBlocks
  <2> DEFINE m == sent + 1
             d == file[m]
  <2>2. /\ f[1] = Byte(SOH, "head") /\ f[2] = Byte(m % 256, "head")
        /\ f[3] = Byte(255 - (m % 256), "head")
        /\ \A k \in 1..DataLen : f[k + 3] = Byte(d[k], "payload")
        /\ f[DataLen + 4] = Byte(Checksum(d), "payload")
    <3>1. m \in Nat /\ d \in Blocks /\ f = Frame(m, d)
      BY <2>1 DEF f
    <3> HIDE DEF m, d
    <3>2. /\ Frame(m, d) \in Seq(Traffic) /\ Len(Frame(m, d)) = DataLen + 4
          /\ Frame(m, d)[1] = Byte(SOH, "head")
          /\ Frame(m, d)[2] = Byte(m % 256, "head")
          /\ Frame(m, d)[3] = Byte(255 - (m % 256), "head")
          /\ \A k \in 1..DataLen : Frame(m, d)[k + 3] = Byte(d[k], "payload")
          /\ Frame(m, d)[DataLen + 4] = Byte(Checksum(d), "payload")
      BY <3>1, FrameFacts, Zenon
    <3> QED
      BY <3>1, <3>2
  <2>3. \A v : Byte(v, "payload").part = "payload"
    BY DEF Byte
  <2> QED
    BY <2>2, <2>3
<1> HIDE DEF f
<1>3. /\ down # <<>> /\ Head(down) = down[1] /\ Len(Tail(down)) = Len(down) - 1
      /\ \A k \in 1..(Len(down) - 1) : Tail(down)[k] = down[k + 1]
  <2>1. Len(down) > 0
    BY <1>1, Sizes DEF HeadersRead
  <2>2. down # <<>>
    BY <2>1, EmptySeq
  <2> QED
    BY <2>2, DownFacts
<1>4. Head(down) = f[1 + HeadersRead(rx)]
  <2>1. 1 \in 1..Len(down)
    BY <1>1, Sizes DEF HeadersRead
  <2> QED
    BY <1>1, <1>3, <2>1
<1>5. /\ rx = "head" => Head(down) = Byte(SOH, "head")
      /\ rx = "idx" => Head(down) = Byte((sent + 1) % 256, "head")
      /\ rx = "inverse" => Head(down) = Byte(255 - ((sent + 1) % 256), "head")
  BY <1>2, <1>4 DEF HeadersRead
<1> QED
  BY <1>2, <1>3, <1>5 DEF f

LEMMA HeadersStep ==
  ASSUME XModemInv, HeadersComing, taken <= Len(file), Next \/ UNCHANGED vars,
         "head" \notin line.parts
  PROVE  /\ taken' <= Len(file')
         /\ HeadersComing' \/ DataComing' \/ rx' \in {"error", "self_cancel"}
<1> DEFINE f == Frame(sent + 1, file[sent + 1])
<1>1. /\ rx \in {"head", "idx", "inverse"} /\ up = <<>>
      /\ tx = "self_cancel" \/ (tx = "block" /\ waiting)
      /\ Len(received) \in Nat /\ sent \in Nat /\ Len(file) \in Nat
      /\ sent \in (Len(received) - 1)..(Len(received) + 1) /\ sent < Len(file)
      /\ rx = "inverse" => sent = Len(received)
      /\ Len(received) <= Len(file) /\ file \in Files
      /\ Len(down) = DataLen + 4 - HeadersRead(rx)
      /\ \A k \in 1..Len(down) : down[k] = f[k + HeadersRead(rx)]
  BY DEF HeadersComing, taken, XModemInv, SenderInv, ReceiverInv
<1>2. /\ \A k \in 1..DataLen : f[k + 3].part = "payload"
      /\ f[DataLen + 4].part = "payload"
  BY NextHeader
<1> HIDE DEF f
<1>3. /\ down # <<>> /\ Head(down) = down[1] /\ Len(Tail(down)) = Len(down) - 1
      /\ \A k \in 1..(Len(down) - 1) : Tail(down)[k] = down[k + 1]
  BY NextHeader
<1>5. /\ rx = "head" => Head(down) = Byte(SOH, "head")
      /\ rx = "idx" => Head(down) = Byte((sent + 1) % 256, "head")
      /\ rx = "inverse" => Head(down) = Byte(255 - ((sent + 1) % 256), "head")
  BY NextHeader
<1>6. CASE RecvHead
  <2>1. rx = "head" /\ Head(down).val = SOH
    BY <1>5, <1>6 DEF RecvHead, Byte
  <2>2. /\ rx' = "idx" /\ up' = <<>> /\ down' = Tail(down)
        /\ UNCHANGED <<file, tx, sent, waiting, received>>
    BY <1>1, <1>6, <2>1, HeadFacts DEF RecvHead, sender
  <2>3. Len(down') = DataLen + 4 - HeadersRead(rx')
    BY <1>1, <1>3, <2>1, <2>2, Sizes DEF HeadersRead
  <2>4. \A k \in 1..Len(down') : down'[k] = f[k + HeadersRead(rx')]
    <3>1. \A k \in 1..(Len(down) - 1) : k + 1 \in 1..Len(down)
      BY <1>1, Sizes DEF HeadersRead
    <3> QED
      BY <1>1, <1>3, <2>1, <2>2, <3>1 DEF HeadersRead
  <2>5. f = Frame(sent' + 1, file'[sent' + 1])
    BY <2>2 DEF f
  <2>6. HeadersComing'
    BY <1>1, <2>2, <2>3, <2>4, <2>5 DEF HeadersComing, taken
  <2> QED
    BY <1>1, <2>2, <2>6 DEF taken
<1>7. CASE RecvIdx /\ rx = "idx"
  <2>1. CASE Head(down).val # idx
    <3>1. rx' = "error" /\ UNCHANGED <<file, received>>
      BY <1>7, <2>1 DEF RecvIdx, sender
    <3> QED
      BY <1>1, <3>1 DEF taken
  <2>2. CASE Head(down).val = idx
    <3>1. /\ rx' = "inverse" /\ up' = <<>> /\ down' = Tail(down)
          /\ UNCHANGED <<file, tx, sent, waiting, received>>
      BY <1>1, <1>7, <2>2 DEF RecvIdx, sender
    <3>2. sent = Len(received)
      <4>1. (sent + 1) % 256 = (Len(received) + 1) % 256
        BY <1>5, <1>7, <2>2 DEF Byte, XModemInv, ReceiverInv, taken
      <4> QED
        BY <1>1, <4>1
    <3>3. Len(down') = DataLen + 4 - HeadersRead(rx')
      BY <1>1, <1>3, <1>7, <3>1, Sizes DEF HeadersRead
    <3>4. \A k \in 1..Len(down') : down'[k] = f[k + HeadersRead(rx')]
      <4>1. \A k \in 1..(Len(down) - 1) : k + 1 \in 1..Len(down)
        BY <1>1, Sizes DEF HeadersRead
      <4>2. \A k \in 1..(Len(down) - 1) : down[k + 1] = f[k + 1 + 1]
        BY <1>1, <1>7, <4>1 DEF HeadersRead
      <4> QED
        BY <1>1, <1>3, <1>7, <3>1, <4>2 DEF HeadersRead
    <3>5. f = Frame(sent' + 1, file'[sent' + 1])
      BY <3>1 DEF f
    <3>6. HeadersComing'
      BY <1>1, <3>1, <3>2, <3>3, <3>4, <3>5 DEF HeadersComing, taken
    <3> QED
      BY <1>1, <3>1, <3>6 DEF taken
  <2> QED
    BY <2>1, <2>2
<1>8. CASE RecvIdx /\ rx = "inverse"
  <2>1. CASE rx' = "error"
    BY <1>1, <1>8, <2>1 DEF RecvIdx, sender, taken
  <2>2. CASE rx' # "error"
    <3>1. /\ rx' = "data" /\ up' = <<>> /\ down' = Tail(down)
          /\ UNCHANGED <<file, tx, sent, waiting, received, data>>
      BY <1>1, <1>8, <2>2 DEF RecvIdx, sender
    <3>2. data = <<>>
      BY <1>8 DEF XModemInv, ReceiverInv
    <3>3. Len(down') = DataLen + 1 /\ Len(data') = 0
      BY <1>1, <1>3, <1>8, <3>1, <3>2, EmptySeq, Sizes DEF HeadersRead
    <3>4. \A k \in 1..Len(down') : down'[k].part = "payload"
      <4>1. \A k \in 1..(DataLen + 1) : down'[k] = f[k + 3]
        <5>1. \A k \in 1..(Len(down) - 1) : k + 1 \in 1..Len(down) /\ k + 1 + 2 = k + 3
          BY <1>1, Sizes DEF HeadersRead
        <5>2. \A k \in 1..(Len(down) - 1) : down[k + 1] = f[k + 3]
          BY <1>1, <1>8, <5>1 DEF HeadersRead
        <5>3. Len(down) - 1 = DataLen + 1
          BY <1>1, <1>8, Sizes DEF HeadersRead
        <5> QED
          BY <1>3, <3>1, <5>2, <5>3
      <4>2. \A k \in 1..(DataLen + 1) : k \in 1..DataLen \/ k = DataLen + 1
        BY Sizes
      <4>3. (DataLen + 1) + 3 = DataLen + 4
        BY Sizes
      <4> QED
        BY <1>2, <3>3, <4>1, <4>2, <4>3
    <3>5. DataComing'
      BY <1>1, <1>8, <3>1, <3>3, <3>4, Sizes DEF DataComing, taken
    <3> QED
      BY <1>1, <3>1, <3>5 DEF taken
  <2> QED
    BY <2>1, <2>2
<1>9. CASE SendCancel
  <2>1. tx' = "self_cancel" /\ UNCHANGED <<file, sent, rx, up, down, received>>
    BY <1>9 DEF SendCancel, receiver
  <2>2. f = Frame(sent' + 1, file'[sent' + 1])
    BY <2>1 DEF f
  <2> QED
    BY <1>1, <2>1, <2>2 DEF HeadersComing, taken
<1>10. CASE UNCHANGED vars
  <2>1. UNCHANGED <<tx, waiting, file, sent, rx, up, down, received>>
    BY <1>10 DEF vars, sender, receiver
  <2>2. f = Frame(sent' + 1, file'[sent' + 1])
    BY <2>1 DEF f
  <2> QED
    BY <1>1, <2>1, <2>2 DEF HeadersComing, taken
<1>11. CASE RecvCancel
  BY <1>1, <1>11 DEF RecvCancel, sender, taken
<1>12. ~Hit
  <2>1. Head(down).part = "head"
    BY <1>1, <1>5 DEF Byte
  <2> QED
    BY <1>1, <2>1 DEF Hit, CanHit
<1>13. ~SendStart /\ ~SendWrite /\ ~SendAnswer
  BY <1>1 DEF SendStart, SendWrite, SendAnswer
<1>14. ~RecvAsk /\ ~RecvData /\ ~RecvSum
  BY <1>1 DEF RecvAsk, RecvData, RecvSum
<1>15. RecvIdx => rx \in {"idx", "inverse"}
  BY DEF RecvIdx
<1> QED
  BY <1>6, <1>7, <1>8, <1>9, <1>10, <1>11, <1>12, <1>13, <1>14, <1>15 DEF Next, Send, Receive

LEMMA DataStep ==
  ASSUME XModemInv, DataComing, taken <= Len(file), Next \/ UNCHANGED vars
  PROVE  /\ taken' <= Len(file')
         /\ AtAsk' \/ DataComing' \/ rx' = "error"
<1>1. /\ rx = "data" /\ up = <<>>
      /\ tx = "self_cancel" \/ (tx = "block" /\ waiting)
      /\ Len(received) \in Nat /\ sent \in Nat /\ Len(file) \in Nat
      /\ sent = Len(received) /\ sent < Len(file)
      /\ Len(data) \in Nat /\ Len(data) + Len(down) <= DataLen + 1
      /\ \A k \in 1..Len(down) : down[k].part = "payload"
      /\ down \in Seq(Traffic) /\ Len(down) \in Nat
  BY DEF DataComing, taken, XModemInv, SenderInv, ReceiverInv, LineInv
<1>2. ASSUME down # <<>>
      PROVE  /\ Len(down) \in Nat \ {0} /\ Len(Tail(down)) = Len(down) - 1
             /\ \A k \in 1..(Len(down) - 1) : Tail(down)[k].part = "payload"
  <2>1. /\ Len(down) \in Nat \ {0} /\ Len(Tail(down)) = Len(down) - 1
        /\ \A k \in 1..(Len(down) - 1) : Tail(down)[k] = down[k + 1]
    BY <1>2, DownFacts
  <2>2. \A k \in 1..(Len(down) - 1) : k + 1 \in 1..Len(down)
    BY <2>1
  <2> QED
    BY <1>1, <2>1, <2>2
<1>3. CASE RecvData
  <2>1. /\ down # <<>> /\ down' = Tail(down)
        /\ UNCHANGED <<file, tx, sent, waiting, rx, up, received>>
    BY <1>3 DEF RecvData, sender
  <2>2. Len(data') = Len(data) + 1
    BY <1>3, DataFacts
  <2>3. Len(data') + Len(down') <= DataLen + 1
    BY <1>1, <1>2, <2>1, <2>2, Sizes
  <2>4. \A k \in 1..Len(down') : down'[k].part = "payload"
    BY <1>2, <2>1
  <2>5. DataComing'
    BY <1>1, <2>1, <2>3, <2>4 DEF DataComing, taken
  <2> QED
    BY <1>1, <2>1, <2>5 DEF taken
<1>4. CASE RecvSum
  <2>1. /\ down # <<>> /\ down' = Tail(down) /\ Len(data) = DataLen
        /\ UNCHANGED <<file, tx, sent, waiting, up>>
    BY <1>4 DEF RecvSum, sender
  <2>2. Len(down) <= 1
    BY <1>1, <2>1, Sizes
  <2>3. down' = <<>>
    BY <1>1, <2>1, <2>2, OneByte
  <2>4. CASE Again /\ UNCHANGED <<idx, received>>
    <3>1. rx' = "error" \/ rx' = "ask"
      BY <2>4 DEF Again
    <3> QED
      BY <1>1, <2>1, <2>3, <2>4, <3>1 DEF AtAsk, taken
  <2>5. CASE Len(received') = Len(received) + 1 /\ rx' = "ask"
    BY <1>1, <2>1, <2>3, <2>5 DEF AtAsk, taken
  <2> QED
    BY <1>4, <2>4, <2>5, SumFacts
<1>5. CASE SendCancel
  BY <1>1, <1>5 DEF SendCancel, receiver, DataComing, taken
<1>6. CASE UNCHANGED vars
  BY <1>1, <1>6 DEF vars, sender, receiver, DataComing, taken
<1>7. CASE Hit
  <2>1. /\ down # <<>> /\ down' \in Spoilt(down)
        /\ UNCHANGED <<file, tx, sent, waiting, rx, up, data, received>>
    BY <1>1, <1>7 DEF Hit, CanHit, sender, receiver
  <2>2. \A c \in Spoilt(down) :
          \/ /\ Len(c) = Len(down) /\ c[1].part = down[1].part
             /\ \A k \in 2..Len(down) : c[k] = down[k]
          \/ /\ Len(c) = Len(down) - 1
             /\ \A k \in 1..Len(c) : c[k] = down[k + 1]
    BY <1>1, <2>1, TrafficFacts, SpoiltFacts DEF XModemInv
  <2>3. Len(down) \in Nat \ {0}
    BY <1>2, <2>1
  <2>4. Len(down') <= Len(down) /\ Len(down') \in Nat
    BY <2>1, <2>2, <2>3
  <2>5. \A k \in 1..Len(down') : down'[k].part = "payload"
    <3>1. CASE Len(down') = Len(down) /\ down'[1].part = down[1].part
               /\ \A k \in 2..Len(down) : down'[k] = down[k]
      <4>1. \A k \in 1..Len(down) : k = 1 \/ k \in 2..Len(down)
        OBVIOUS
      <4>2. 1 \in 1..Len(down)
        BY <2>3
      <4> QED
        BY <1>1, <3>1, <4>1, <4>2
    <3>2. CASE Len(down') = Len(down) - 1
               /\ \A k \in 1..Len(down') : down'[k] = down[k + 1]
      <4>1. \A k \in 1..(Len(down) - 1) : k + 1 \in 1..Len(down)
        BY <2>3
      <4> QED
        BY <1>1, <3>2, <4>1
    <3> QED
      BY <2>1, <2>2, <3>1, <3>2
  <2>6. Len(data) + Len(down') <= DataLen + 1
    BY <1>1, <2>4, Sizes
  <2>7. DataComing'
    BY <1>1, <2>1, <2>5, <2>6 DEF DataComing, taken
  <2> QED
    BY <1>1, <2>1, <2>7 DEF taken
<1>8. ~SendStart /\ ~SendWrite /\ ~SendAnswer
  BY <1>1 DEF SendStart, SendWrite, SendAnswer
<1>9. ~RecvAsk /\ ~RecvHead /\ ~RecvIdx /\ ~RecvCancel
  BY <1>1 DEF RecvAsk, RecvHead, RecvIdx, RecvCancel
<1> QED
  BY <1>3, <1>4, <1>5, <1>6, <1>7, <1>8, <1>9 DEF Next, Send, Receive

LEMMA EotStep ==
  ASSUME XModemInv, AckInv, EotComing, taken <= Len(file), Next \/ UNCHANGED vars,
         "head" \notin line.parts
  PROVE  /\ taken' <= Len(file')
         /\ EotComing' \/ Completed' \/ rx' = "self_cancel"
<1>1. /\ rx = "head" /\ up = <<>> /\ down = <<Byte(EOT, "head")>> /\ sent = Len(file)
      /\ tx = "self_cancel" \/ (tx = "finish" /\ waiting)
      /\ Len(received) \in Nat /\ Len(file) \in Nat /\ Len(received) <= Len(file)
  BY DEF EotComing, taken, XModemInv, SenderInv, ReceiverInv
<1>2. down # <<>> /\ Head(down) = Byte(EOT, "head")
  BY <1>1
<1>3. line' = line
  BY Kept
<1>4. CASE RecvHead
  <2>1. Head(down).val = EOT
    BY <1>2 DEF Byte
  <2>2. rx' = "complete" /\ UNCHANGED <<file, sent, tx, received>>
    BY <1>4, <2>1, HeadFacts DEF RecvHead, sender
  <2>3. "reply" \notin line.parts => sent = Len(received)
    <3>1. Count(up) \in Nat /\ Owed(rx, retry) = 0 /\ Final(rx) = 0
      BY <1>1, AcksAreFinite DEF XModemInv, LineInv, Count, Owed, Final
    <3>2. Told(tx) = 0
      BY <1>1 DEF Told
    <3>3. "reply" \notin line.parts => sent + Count(up) + 0 + 0 = Len(received) + 0
      BY <3>1, <3>2 DEF AckInv, taken
    <3> QED
      BY <1>1, <3>1, <3>3
  <2> QED
    BY <1>1, <1>3, <2>2, <2>3 DEF Completed, taken
<1>5. CASE SendCancel
  BY <1>1, <1>5 DEF SendCancel, receiver, EotComing, taken
<1>6. CASE UNCHANGED vars
  BY <1>1, <1>6 DEF vars, sender, receiver, EotComing, taken
<1>7. CASE RecvCancel
  BY <1>1, <1>7 DEF RecvCancel, sender, taken
<1>8. ~Hit
  BY <1>1, <1>2 DEF Hit, CanHit, Byte
<1>9. ~SendStart /\ ~SendWrite /\ ~SendAnswer
  BY <1>1 DEF SendStart, SendWrite, SendAnswer
<1>10. ~RecvAsk /\ ~RecvIdx /\ ~RecvData /\ ~RecvSum
  BY <1>1 DEF RecvAsk, RecvIdx, RecvData, RecvSum
<1> QED
  BY <1>4, <1>5, <1>6, <1>7, <1>8, <1>9, <1>10 DEF Next, Send, Receive

LEMMA CompletedStep ==
  ASSUME XModemInv, Completed, taken <= Len(file), Next \/ UNCHANGED vars
  PROVE  taken' <= Len(file') /\ Completed'
<1>1. rx = "complete" /\ line' = line /\ file' = file
  BY Kept DEF Completed
<1>2. ~Receive /\ ~RecvCancel
  BY <1>1 DEF Receive, RecvAsk, RecvHead, RecvIdx, RecvData, RecvSum, RecvCancel
<1>3. rx' = rx /\ received' = received
  BY <1>2 DEF Next, Send, SendStart, SendWrite, SendAnswer, SendCancel, Hit, vars, receiver
<1>4. tx \notin {"start", "block"}
  BY DEF Completed
<1>5. sent' = sent /\ tx' \notin {"start", "block"}
  <2>1. CASE SendWrite \/ SendAnswer \/ SendCancel
    BY <1>4, <2>1 DEF SendWrite, SendAnswer, SendCancel
  <2>2. CASE Hit \/ UNCHANGED vars
    BY <1>4, <2>2 DEF Hit, vars, sender
  <2> QED
    BY <1>2, <1>4, <2>1, <2>2 DEF Next, Send, SendStart
<1> QED
  BY <1>1, <1>3, <1>5 DEF Completed, taken

LEMMA LockStart == Init => LockInv
<1> SUFFICES ASSUME Init PROVE LockInv
  OBVIOUS
<1>1. Len(received) = 0 /\ file \in Files
  BY EmptySeq DEF Init
<1>2. AtAsk
  BY <1>1 DEF Init, AtAsk, taken
<1> QED
  BY <1>1, <1>2, FilesAreBlocks DEF LockInv, taken

LEMMA LockStep ==
  ASSUME XModemInv, AckInv, LockInv, Next \/ UNCHANGED vars
  PROVE  LockInv'
<1> SUFFICES ASSUME "head" \notin line.parts
             PROVE  /\ taken' <= Len(file')
                    /\ rx' \in Running \cup {"complete"} =>
                         \/ AtAsk' \/ Idle' \/ HeadersComing' \/ DataComing' \/ EotComing'
                         \/ Completed'
  BY Kept DEF LockInv
<1>1. taken <= Len(file)
  BY DEF LockInv
<1>2. CASE rx \in Running \cup {"complete"}
  <2>1. {"error", "self_cancel"} \cap (Running \cup {"complete"}) = {}
    BY DEF Running
  <2>2. AtAsk \/ Idle \/ HeadersComing \/ DataComing \/ EotComing \/ Completed
    BY <1>2 DEF LockInv
  <2> QED
    BY <1>1, <2>1, <2>2, AtAskStep, IdleStep, HeadersStep, DataStep, EotStep, CompletedStep
<1>3. CASE rx \notin Running \cup {"complete"}
  <2>1. ~Receive /\ ~RecvCancel
    BY <1>3 DEF Receive, RecvAsk, RecvHead, RecvIdx, RecvData, RecvSum, RecvCancel, Running
  <2>2. rx' = rx /\ received' = received /\ file' = file
    BY <2>1, Kept DEF Next, Send, SendStart, SendWrite, SendAnswer, SendCancel, Hit, vars, receiver
  <2> QED
    BY <1>1, <1>3, <2>2 DEF taken
<1> QED
  BY <1>2, <1>3

LEMMA LockInvariant == Spec => [](XModemInv /\ AckInv /\ LockInv)
<1>1. Init => AckInv /\ LockInv
  BY AckStart, LockStart
<1>2. XModemInv /\ AckInv /\ LockInv /\ [Next]_vars => (AckInv /\ LockInv)'
  <2> SUFFICES ASSUME XModemInv, AckInv, LockInv, [Next]_vars PROVE (AckInv /\ LockInv)'
    OBVIOUS
  <2> QED
    BY AckStep, LockStep
<1> QED
  BY <1>1, <1>2, XModemInvariant, PTL DEF Spec

\* Whatever a line does to blocks or headers, the sender is never ahead of the
\* receiver, but for the block whose SOH was read as EOT.
THEOREM SenderNotAheadTheorem == Spec => []SenderNotAhead
<1>1. XModemInv /\ AckInv /\ LockInv => SenderNotAhead
  <2> SUFFICES ASSUME XModemInv, AckInv, LockInv, "reply" \notin line.parts
               PROVE  \/ sent <= Len(received)
                      \/ "head" \in line.parts /\ rx = "complete" /\ sent = Len(received) + 1
    BY DEF SenderNotAhead
  <2>1. /\ sent \in Nat /\ Len(received) \in Nat /\ Count(up) \in Nat
        /\ Owed(rx, retry) \in {0, 1}
        /\ Final(rx) = 0 \/ (Final(rx) = 1 /\ rx = "complete")
        /\ Told(tx) \in {0, 1}
        /\ sent + Count(up) + Owed(rx, retry) + Told(tx) = Len(received) + Final(rx)
    BY AcksAreFinite
       DEF XModemInv, SenderInv, ReceiverInv, LineInv, AckInv, taken, Count, Owed, Final, Told
  <2>2. sent <= Len(received) \/ (rx = "complete" /\ sent = Len(received) + 1)
    BY <2>1
  <2>3. CASE "head" \notin line.parts /\ rx = "complete"
    <3>1. Completed
      BY <2>3 DEF LockInv, AtAsk, Idle, HeadersComing, DataComing, EotComing
    <3> QED
      BY <2>1, <3>1 DEF Completed, taken
  <2> QED
    BY <2>2, <2>3
<1> QED
  BY <1>1, LockInvariant, PTL

-----------------------------------------------------------------------------
(* What has been received.                                                 *)

LEMMA BlocksAreSequences ==
  ASSUME NEW b \in Blocks
  PROVE  b \in Seq(Values) /\ Len(b) = DataLen /\ Checksum(b) \in Values
<1>1. b \in [1..DataLen -> 0..255] /\ DataLen \in Nat
  BY Sizes DEF Blocks
<1>2. 0..255 \subseteq Values /\ Checksum(b) \in Values
  BY DEF Values
<1>3. b \in [1..DataLen -> Values]
  BY <1>1, <1>2
<1> DEFINE n == DataLen
           V == Values
<1>4. n \in Nat /\ b \in [1..n -> V]
  BY <1>1, <1>3
<1> HIDE DEF n, V
<1>5. b \in Seq(V) /\ Len(b) = n
  BY <1>4
<1> QED
  BY <1>2, <1>5 DEF n, V

\* A block and its sum.
LEMMA WholeFacts ==
  ASSUME NEW b \in Blocks
  PROVE  /\ DOMAIN Whole(b) = 1..(DataLen + 1)
         /\ \A k \in 1..DataLen : Whole(b)[k] = b[k]
         /\ Whole(b)[DataLen + 1] = Checksum(b)
         /\ \A k \in 1..(DataLen + 1) : Whole(b)[k] \in Values
<1>1. b \in Seq(Values) /\ Len(b) = DataLen /\ Checksum(b) \in Values
  BY BlocksAreSequences
<1>2. /\ Whole(b) \in Seq(Values) /\ Len(Whole(b)) = Len(b) + 1
      /\ \A k \in 1..Len(b) : Whole(b)[k] = b[k]
      /\ Whole(b)[Len(b) + 1] = Checksum(b)
  <2> DEFINE c == Checksum(b)
  <2>1. c \in Values
    BY <1>1
  <2> HIDE DEF c
  <2>2. /\ Append(b, c) \in Seq(Values) /\ Len(Append(b, c)) = Len(b) + 1
        /\ \A k \in 1..Len(b) : Append(b, c)[k] = b[k]
        /\ Append(b, c)[Len(b) + 1] = c
    BY <1>1, <2>1, AppendProperties
  <2> QED
    BY <2>2 DEF Whole, c
<1>3. DOMAIN Whole(b) = 1..(DataLen + 1) /\ \A k \in 1..(DataLen + 1) : Whole(b)[k] \in Values
  BY <1>1, <1>2, LenProperties, ElementOfSeq
<1> QED
  BY <1>1, <1>2, <1>3

\* A block whose sum is right has been received as it was sent.
LEMMA SumIsEnough ==
  ASSUME NEW l \in Lines, SumShows(l), NEW f \in Files, NEW j \in 1..Len(f),
         NEW most \in 0..l.faults, NEW d \in Seq(Values), Len(d) = DataLen, NEW w,
         w[1].val = Checksum(d), w[1].val \in Values,
         NEW hit \in SUBSET (1..(DataLen + 1)), Explains(hit, l, most, d, w, f[j])
  PROVE  d = f[j]
<1> DEFINE b == f[j]
           whole == Whole(b)
           e == [k \in hit |-> Arrives(d, w, k)]
           spoilt == [k \in DOMAIN whole |-> IF k \in hit THEN e[k] ELSE whole[k]]
<1>1. b \in Blocks /\ DataLen \in Nat /\ l.faults \in Nat /\ j \in DOMAIN f
  <2>1. f \in Seq(Blocks)
    BY FilesAreBlocks
  <2> QED
    BY <2>1, FilesAreBlocks, Sizes, LineFacts
<1> HIDE DEF b
<1>2. /\ DOMAIN whole = 1..(DataLen + 1) /\ whole[DataLen + 1] = Checksum(b)
      /\ \A k \in 1..DataLen : whole[k] = b[k]
      /\ \A k \in 1..(DataLen + 1) : whole[k] \in Values
  BY <1>1, WholeFacts
<1>3. /\ \A k \in 1..DataLen : Arrives(d, w, k) = d[k] /\ d[k] \in Values
      /\ Arrives(d, w, DataLen + 1) = w[1].val
  BY <1>1, ElementOfSeq DEF Arrives
<1>4. /\ Cardinality(hit) <= most
      /\ hit # {} => "payload" \in l.parts
      /\ \A k \in 1..(DataLen + 1) :
           IF k \in hit THEN Arrives(d, w, k) \in l.noise ELSE Arrives(d, w, k) = whole[k]
  BY DEF Explains, b
<1>5. spoilt = [k \in 1..(DataLen + 1) |-> Arrives(d, w, k)]
  <2> HIDE DEF whole
  <2> QED
    BY <1>2, <1>4
<1>6. spoilt = whole
  <2>1. CASE hit = {}
    <3> HIDE DEF whole
    <3>1. spoilt = [k \in DOMAIN whole |-> whole[k]]
      BY <2>1
    <3>2. whole = [k \in DOMAIN whole |-> whole[k]]
      <4>1. b \in Seq(Values) /\ Checksum(b) \in Values
        BY <1>1, BlocksAreSequences
      <4>2. whole \in Seq(Values)
        BY <4>1, AppendProperties DEF whole, Whole
      <4> QED
        BY <4>2
    <3> QED
      BY <3>1, <3>2
  <2>2. CASE hit # {}
    <3>1. Cardinality(hit) <= l.faults
      <4>1. IsFiniteSet(1..(DataLen + 1))
        BY <1>1, FS_Interval
      <4>2. Cardinality(hit) \in Nat
        BY <4>1, FS_Subset, FS_CardinalityType
      <4> QED
        BY <1>1, <1>4, <4>2
    <3>2. e \in [hit -> l.noise]
      BY <1>4
    <3>3. "payload" \in l.parts /\ hit \in SUBSET DOMAIN whole
      BY <1>2, <1>4, <2>2
    <3>4. whole = Append(f[j], Checksum(f[j]))
      BY DEF Whole, b
    <3>5. spoilt # whole => spoilt[DataLen + 1] # Checksum(SubSeq(spoilt, 1, DataLen))
      <4>1. \A h \in SUBSET DOMAIN whole : \A x \in [h -> l.noise] :
              Cardinality(h) <= l.faults
              /\ [k \in DOMAIN whole |-> IF k \in h THEN x[k] ELSE whole[k]] # whole =>
                   [k \in DOMAIN whole |-> IF k \in h THEN x[k] ELSE whole[k]][DataLen + 1]
                     # Checksum(SubSeq([k \in DOMAIN whole |-> IF k \in h THEN x[k] ELSE whole[k]], 1, DataLen))
        BY <1>1, <3>3, Zenon DEF SumShows, Whole, b
      <4> HIDE DEF e, whole
      <4> QED
        BY <3>1, <3>2, <3>3, <4>1
    <3> HIDE DEF spoilt
    <3>6. SubSeq(spoilt, 1, DataLen) = d
      <4>1. \A k \in 1..DataLen : spoilt[k] = d[k] /\ spoilt[k] \in Values
        BY <1>1, <1>3, <1>5
      <4>2. /\ SubSeq(spoilt, 1, DataLen) \in Seq(Values)
            /\ Len(SubSeq(spoilt, 1, DataLen)) = IF 1 <= DataLen THEN DataLen - 1 + 1 ELSE 0
            /\ \A i \in 1..(DataLen - 1 + 1) : SubSeq(spoilt, 1, DataLen)[i] = spoilt[1 + i - 1]
        BY <1>1, <4>1, SubSeqProperties
      <4>3. /\ Len(SubSeq(spoilt, 1, DataLen)) = DataLen
            /\ \A i \in 1..DataLen : SubSeq(spoilt, 1, DataLen)[i] = d[i]
        BY <4>1, <4>2, Sizes
      <4> QED
        BY <4>2, <4>3, SeqEqual
    <3>7. spoilt[DataLen + 1] = Checksum(d)
      BY <1>1, <1>3, <1>5
    <3> QED
      BY <3>5, <3>6, <3>7
  <2> QED
    BY <2>1, <2>2
<1>7. \A k \in 1..DataLen : d[k] = b[k]
  <2> HIDE DEF spoilt, whole
  <2> QED
    BY <1>1, <1>2, <1>3, <1>5, <1>6
<1>8. b \in Seq(Values) /\ Len(b) = DataLen
  BY <1>1, BlocksAreSequences
<1> QED
  BY <1>7, <1>8, SeqEqual DEF b

\* A block that no hit explains is as it was sent, with its sum.
LEMMA UnhitBlock ==
  ASSUME NEW b \in Blocks, NEW l, NEW most, NEW d \in Seq(Values), Len(d) = DataLen, NEW w,
         Explains({}, l, most, d, w, b)
  PROVE  w[1].val = Checksum(d)
<1>1. \A k \in 1..(DataLen + 1) : Arrives(d, w, k) = Whole(b)[k]
  BY DEF Explains
<1>2. /\ DataLen \in Nat /\ b \in Seq(Values) /\ Len(b) = DataLen
      /\ \A k \in 1..DataLen : Whole(b)[k] = b[k]
      /\ Whole(b)[DataLen + 1] = Checksum(b)
  BY WholeFacts, BlocksAreSequences, Sizes
<1>3. /\ \A k \in 1..DataLen : Arrives(d, w, k) = d[k]
      /\ Arrives(d, w, DataLen + 1) = w[1].val
  BY <1>2 DEF Arrives
<1>4. \A k \in 1..DataLen : d[k] = b[k]
  BY <1>1, <1>2, <1>3
<1>5. d = b
  BY <1>2, <1>4, SeqEqual
<1> QED
  BY <1>1, <1>2, <1>3, <1>5

\* Where no header is hit, what comes first is a header or the EOT.
LEMMA HeadIsRight ==
  ASSUME XModemInv, LockInv, "head" \notin line.parts, RecvHead
  PROVE  rx' \in {"idx", "complete"} /\ UNCHANGED retry
<1>1. rx = "head" /\ down # <<>> /\ taken <= Len(file)
  BY DEF RecvHead, LockInv
<1>2. HeadersComing \/ EotComing
  BY <1>1 DEF LockInv, Running, AtAsk, Idle, DataComing, Completed
<1>3. CASE HeadersComing
  <2>1. Head(down) = Byte(SOH, "head")
    BY <1>1, <1>3, NextHeader
  <2> QED
    BY <2>1, HeadFacts DEF Byte
<1>4. CASE EotComing
  <2>1. Head(down) = Byte(EOT, "head")
    BY <1>4 DEF EotComing
  <2> QED
    BY <2>1, HeadFacts DEF Byte
<1> QED
  BY <1>2, <1>3, <1>4

\* The three ways in which the block that arrives changes: its headers have been
\* read, a byte of it is read, and a byte of it is hit.
LEMMA ExplainedWhole ==
  ASSUME NEW b \in Blocks, NEW l, NEW most \in Nat, NEW w,
         \A k \in 1..DataLen : w[k].val = b[k], w[DataLen + 1].val = Checksum(b)
  PROVE  Explains({}, l, most, <<>>, w, b)
<1>1. Len(<<>>) = 0 /\ Cardinality({}) = 0 /\ DataLen \in Nat
  BY EmptySeq, FS_EmptySet, Sizes
<1>2. /\ \A k \in 1..DataLen : Whole(b)[k] = b[k]
      /\ Whole(b)[DataLen + 1] = Checksum(b)
  BY WholeFacts
<1>3. \A k \in 1..(DataLen + 1) : Arrives(<<>>, w, k) = w[k].val
  BY <1>1 DEF Arrives
<1>4. \A k \in 1..(DataLen + 1) : k \in 1..DataLen \/ k = DataLen + 1
  BY <1>1
<1>5. \A k \in 1..(DataLen + 1) : Arrives(<<>>, w, k) = Whole(b)[k]
  BY <1>2, <1>3, <1>4
<1> QED
  BY <1>1, <1>5 DEF Explains

LEMMA ExplainedRead ==
  ASSUME NEW hit, NEW l, NEW most, NEW b, NEW d \in Seq(Values), NEW e \in Seq(Values),
         NEW w \in Seq(Traffic), NEW x \in Seq(Traffic),
         Len(e) = Len(d) + 1, \A k \in 1..Len(d) : e[k] = d[k], e[Len(d) + 1] = w[1].val,
         \A k \in 1..(Len(w) - 1) : x[k] = w[k + 1],
         Len(d) + Len(w) = DataLen + 1, Explains(hit, l, most, d, w, b)
  PROVE  Explains(hit, l, most, e, x, b)
<1>1. Len(d) \in Nat /\ Len(w) \in Nat /\ DataLen \in Nat
  BY Sizes
<1>2. \A k \in 1..(DataLen + 1) : Arrives(e, x, k) = Arrives(d, w, k)
  <2> TAKE k \in 1..(DataLen + 1)
  <2>1. CASE k <= Len(d)
    <3>1. k \in 1..Len(d) /\ k <= Len(e)
      BY <1>1, <2>1
    <3> QED
      BY <2>1, <3>1 DEF Arrives
  <2>2. CASE k = Len(d) + 1
    <3>1. ~(k <= Len(d)) /\ k - Len(d) = 1 /\ k <= Len(e)
      BY <1>1, <2>2
    <3> QED
      BY <2>2, <3>1 DEF Arrives
  <2>3. CASE k > Len(d) + 1
    <3> DEFINE j == k - Len(e)
    <3>1. ~(k <= Len(d)) /\ ~(k <= Len(e)) /\ j \in 1..(Len(w) - 1) /\ k - Len(d) = j + 1
      BY <1>1, <2>3
    <3>2. Arrives(e, x, k) = x[j].val
      BY <3>1 DEF Arrives
    <3> HIDE DEF j
    <3>3. x[j] = w[j + 1]
      BY <3>1
    <3>4. Arrives(d, w, k) = w[j + 1].val
      BY <3>1 DEF Arrives
    <3> QED
      BY <3>2, <3>3, <3>4
  <2> QED
    BY <1>1, <2>1, <2>2, <2>3
<1> QED
  BY <1>2 DEF Explains

LEMMA ExplainedHit ==
  ASSUME NEW hit \in SUBSET (1..(DataLen + 1)), NEW l, NEW most \in Nat, NEW b,
         NEW d \in Seq(Values), NEW w \in Seq(Traffic), NEW x \in Seq(Traffic),
         Len(x) = Len(w), x[1].val \in l.noise, "payload" \in l.parts,
         \A k \in 2..Len(w) : x[k] = w[k],
         Len(d) + Len(w) = DataLen + 1, Len(d) <= DataLen, Explains(hit, l, most, d, w, b)
  PROVE  \E more \in SUBSET (1..(DataLen + 1)) : Explains(more, l, most + 1, d, x, b)
<1> DEFINE p == Len(d) + 1
           more == hit \cup {p}
<1>1. Len(d) \in Nat /\ Len(w) \in Nat /\ DataLen \in Nat /\ p \in 1..(DataLen + 1)
  BY Sizes
<1>2. IsFiniteSet(hit)
  <2>1. IsFiniteSet(1..(DataLen + 1))
    BY <1>1, FS_Interval
  <2> QED
    BY <2>1, FS_Subset
<1>3. Cardinality(hit) \in Nat /\ Cardinality(hit) <= most
  BY <1>2, FS_CardinalityType DEF Explains
<1>4. Cardinality(more) <= most + 1
  <2>1. Cardinality(more) = IF p \in hit THEN Cardinality(hit) ELSE Cardinality(hit) + 1
    BY <1>2, FS_AddElement
  <2> HIDE DEF more
  <2> QED
    BY <1>3, <2>1
<1>5. Arrives(d, x, p) \in l.noise
  <2>1. ~(p <= Len(d)) /\ p - Len(d) = 1
    BY <1>1
  <2> HIDE DEF p
  <2> QED
    BY <2>1 DEF Arrives
<1>6. \A k \in 1..(DataLen + 1) : k # p => Arrives(d, x, k) = Arrives(d, w, k)
  <2> SUFFICES ASSUME NEW k \in 1..(DataLen + 1), k # p
               PROVE Arrives(d, x, k) = Arrives(d, w, k)
    OBVIOUS
  <2>1. CASE k <= Len(d)
    BY <2>1 DEF Arrives
  <2>2. CASE ~(k <= Len(d))
    <3> DEFINE j == k - Len(d)
    <3>1. j \in 2..Len(w)
      BY <1>1, <2>2
    <3>2. Arrives(d, x, k) = x[j].val /\ Arrives(d, w, k) = w[j].val
      BY <2>2 DEF Arrives
    <3> HIDE DEF j
    <3> QED
      BY <3>1, <3>2
  <2> QED
    BY <2>1, <2>2
<1> HIDE DEF p
<1>7. Explains(more, l, most + 1, d, x, b)
  <2>1. \A k \in 1..(DataLen + 1) :
          IF k \in more THEN Arrives(d, x, k) \in l.noise ELSE Arrives(d, x, k) = Whole(b)[k]
    <3>1. \A k \in 1..(DataLen + 1) :
            IF k \in hit THEN Arrives(d, w, k) \in l.noise ELSE Arrives(d, w, k) = Whole(b)[k]
      BY DEF Explains
    <3> QED
      BY <1>5, <1>6, <3>1
  <2> QED
    BY <1>4, <2>1 DEF Explains
<1> QED
  BY <1>1, <1>7

LEMMA ContentStart == Init => ContentInv
<1> SUFFICES ASSUME Init PROVE ContentInv
  OBVIOUS
<1>1. Len(received) = 0 /\ rx = "ask" /\ faults = 0 /\ retry = 1
  BY EmptySeq DEF Init
<1> QED
  BY <1>1 DEF ContentInv, NoneLost, Spare, taken

LEMMA ContentStep ==
  ASSUME XModemInv, LockInv, LockInv', ContentInv, Next \/ UNCHANGED vars
  PROVE  ContentInv'
<1> SUFFICES ASSUME "head" \notin line.parts, SumShows(line)
             PROVE  /\ \A k \in 1..Len(received') : received'[k] = file[k]
                    /\ Spare(faults', retry') >= 0
                    /\ NoneLost(rx', data', down') =>
                         \E hit \in SUBSET (1..(DataLen + 1)) :
                           Explains(hit, line, Spare(faults', retry'), data', down',
                                    file[Len(received') + 1])
  <2>1. line' = line /\ file' = file
    BY Kept
  <2>2. SumShows(line)' <=> SumShows(line')
    BY DEF SumShows
  <2> QED
    BY <2>1, <2>2 DEF ContentInv, taken
<1> DEFINE spare == Spare(faults, retry)
<1>1. /\ \A k \in 1..Len(received) : received[k] = file[k]
      /\ spare >= 0
      /\ NoneLost(rx, data, down) =>
           \E hit \in SUBSET (1..(DataLen + 1)) :
             Explains(hit, line, spare, data, down, file[Len(received) + 1])
  BY DEF ContentInv, taken
<1>2. /\ line \in Lines /\ line.faults \in Nat /\ faults \in 0..line.faults
      /\ data \in Seq(Values) /\ Len(data) <= DataLen /\ DataLen \in Nat /\ Len(data) \in Nat
      /\ down \in Seq(Traffic) /\ Len(down) \in Nat
      /\ Len(received) \in Nat /\ file \in Files /\ retry \in 0..255 /\ faults \in Nat
  BY Sizes, LineFacts DEF XModemInv, SenderInv, ReceiverInv, LineInv
<1>0. /\ spare \in 0..line.faults
      /\ UNCHANGED <<faults, retry>> => Spare(faults', retry') = spare
      /\ Spare(faults + 1, retry) = spare + 1
  BY <1>1, <1>2 DEF Spare
<1> HIDE DEF spare
<1>3. /\ rx = "data" => DataComing
      /\ rx = "inverse" => HeadersComing
  BY DEF LockInv, Running, AtAsk, Idle, HeadersComing, DataComing, EotComing, Completed
<1>4. DataComing \/ HeadersComing =>
        Len(received) + 1 \in 1..Len(file) \/ rx \in {"head", "idx"}
  BY <1>2 DEF DataComing, HeadersComing, taken, XModemInv, SenderInv
<1>5. rx \in {"data", "inverse"} => file[Len(received) + 1] \in Blocks
  BY <1>2, <1>3, <1>4, FilesAreBlocks
<1>6. CASE RecvSum
  <2>1. rx' # "data" /\ rx = "data" /\ down # <<>> /\ Len(data) = DataLen
    BY <1>6 DEF RecvSum, Again
  <2>2. CASE Again /\ UNCHANGED received
    <3>1. Head(down) = down[1] /\ down[1].val # Checksum(data) /\ Len(down) \in Nat \ {0}
      <4>1. ASSUME Head(down).val = Checksum(data) PROVE FALSE
        <5>1. received' = Append(received, data)
          BY <1>6, <4>1 DEF RecvSum
        <5>2. Len(received') = Len(received) + 1
          BY <5>1, AppendProperties DEF XModemInv, ReceiverInv
        <5> QED
          BY <1>2, <2>2, <5>2
      <4> QED
        BY <2>1, <4>1, DownFacts
    <3>2. Len(data) + Len(down) = DataLen + 1
      BY <1>2, <1>3, <2>1, <3>1 DEF DataComing
    <3>3. PICK hit \in SUBSET (1..(DataLen + 1)) :
                 Explains(hit, line, spare, data, down, file[Len(received) + 1])
      BY <1>1, <2>1, <3>2 DEF NoneLost
    <3>4. hit # {}
      <4> DEFINE b == file[Len(received) + 1]
      <4>1. b \in Blocks
        BY <1>5, <2>1
      <4>2. Explains(hit, line, spare, data, down, b)
        BY <3>3
      <4> HIDE DEF b
      <4>3. ASSUME hit = {} PROVE FALSE
        <5>1. Explains({}, line, spare, data, down, b)
          BY <4>2, <4>3
        <5>2. down[1].val = Checksum(data)
          BY <1>2, <2>1, <4>1, <5>1, UnhitBlock
        <5> QED
          BY <3>1, <5>2
      <4> QED
        BY <4>3
    <3>5. Cardinality(hit) \in Nat \ {0} /\ Cardinality(hit) <= spare
      <4>1. IsFiniteSet(1..(DataLen + 1))
        BY <1>2, FS_Interval
      <4>2. IsFiniteSet(hit)
        BY <4>1, FS_Subset
      <4> QED
        BY <3>3, <3>4, <4>2, FS_CardinalityType, FS_EmptySet DEF Explains
    <3>6. retry' = retry + 1 /\ faults' = faults
      BY <1>6, <2>1, <2>2, AgainFacts DEF RecvSum, XModemInv, Running
    <3>7. Spare(faults', retry') >= 0
      BY <1>0, <1>2, <3>5, <3>6 DEF Spare, spare
    <3> QED
      BY <1>1, <2>1, <2>2, <3>7 DEF NoneLost
  <2>3. CASE /\ Head(down).val = Checksum(data) /\ Len(received') = Len(received) + 1
             /\ \A k \in 1..Len(received) : received'[k] = received[k]
             /\ received'[Len(received) + 1] = data /\ retry' = 0
    <3>1. Head(down) = down[1] /\ down[1].val \in Values /\ Len(down) # 0
      BY <2>1, DownFacts
    <3>2. Len(data) + Len(down) = DataLen + 1
      BY <1>2, <1>3, <2>1, <3>1 DEF DataComing
    <3>3. PICK hit \in SUBSET (1..(DataLen + 1)) :
                 Explains(hit, line, spare, data, down, file[Len(received) + 1])
      BY <1>1, <2>1, <3>2 DEF NoneLost
    <3>4. data = file[Len(received) + 1]
      <4> DEFINE j == Len(received) + 1
      <4>1. j \in 1..Len(file)
        BY <1>3, <1>4, <2>1
      <4>2. Explains(hit, line, spare, data, down, file[j])
        BY <3>3
      <4> HIDE DEF j
      <4>3. data = file[j]
        BY <1>0, <1>2, <2>1, <2>3, <3>1, <4>1, <4>2, SumIsEnough
      <4> QED
        BY <4>3 DEF j
    <3>5. \A k \in 1..(Len(received) + 1) : k \in 1..Len(received) \/ k = Len(received) + 1
      BY <1>2
    <3>6. Spare(faults', retry') >= 0
      BY <1>2, <1>6, <2>3 DEF RecvSum, Spare
    <3> QED
      BY <1>1, <2>1, <2>3, <3>4, <3>5, <3>6 DEF NoneLost
  <2> QED
    BY <1>6, <2>2, <2>3, SumFacts
<1>7. CASE RecvIdx
  <2>1. UNCHANGED received /\ Spare(faults', retry') = spare
    BY <1>0, <1>7 DEF RecvIdx
  <2>2. CASE rx' # "data"
    BY <1>1, <2>1, <2>2 DEF NoneLost
  <2>3. CASE rx' = "data"
    <3>1. rx = "inverse" /\ down # <<>> /\ down' = Tail(down) /\ data' = data /\ data = <<>>
          /\ faults' = faults
      BY <1>7, <2>3 DEF RecvIdx, XModemInv, ReceiverInv
    <3> DEFINE b == file[Len(received) + 1]
               f == Frame(Len(received) + 1, b)
    <3>2. HeadersComing /\ b \in Blocks
      BY <1>3, <1>5, <3>1
    <3>3. Len(down) = DataLen + 2 /\ \A k \in 1..Len(down) : down[k] = f[k + 2]
      BY <1>2, <3>1, <3>2, Sizes DEF HeadersComing, HeadersRead, taken
    <3>4. \A k \in 1..(DataLen + 1) : down'[k] = f[k + 3]
      <4>1. \A k \in 1..(Len(down) - 1) : Tail(down)[k] = down[k + 1]
        BY <3>1, DownFacts
      <4>2. \A k \in 1..(DataLen + 1) :
              k \in 1..(Len(down) - 1) /\ k + 1 \in 1..Len(down) /\ k + 1 + 2 = k + 3
        BY <1>2, <3>3
      <4> HIDE DEF f
      <4> QED
        BY <3>1, <3>3, <4>1, <4>2
    <3> HIDE DEF b
    <3>5. /\ \A k \in 1..DataLen : f[k + 3] = Byte(b[k], "payload")
          /\ f[DataLen + 4] = Byte(Checksum(b), "payload")
      <4>1. Len(received) + 1 \in Nat
        BY <1>2
      <4> QED
        BY <3>2, <4>1, FrameFacts
    <3> HIDE DEF f
    <3>6. \A v : Byte(v, "payload").val = v
      BY DEF Byte
    <3>7. /\ \A k \in 1..DataLen : down'[k].val = b[k]
          /\ down'[DataLen + 1].val = Checksum(b)
      <4>1. \A k \in 1..DataLen : k \in 1..(DataLen + 1)
        BY <1>2
      <4>2. DataLen + 1 \in 1..(DataLen + 1) /\ (DataLen + 1) + 3 = DataLen + 4
        BY <1>2
      <4> QED
        BY <3>4, <3>5, <3>6, <4>1, <4>2
    <3>8. spare \in Nat
      BY <1>0, <1>2
    <3>9. Explains({}, line, spare, <<>>, down', b)
      BY <3>2, <3>7, <3>8, ExplainedWhole
    <3>10. Explains({}, line, Spare(faults', retry'), data', down', file[Len(received') + 1])
      BY <2>1, <3>1, <3>9 DEF b
    <3> QED
      BY <1>1, <2>1, <3>10
  <2> QED
    BY <2>2, <2>3
<1>8. CASE RecvData
  <2>1. /\ UNCHANGED <<received, rx>> /\ rx = "data" /\ down # <<>> /\ down' = Tail(down)
        /\ down' \in Seq(Traffic) /\ Spare(faults', retry') = spare
    BY <1>0, <1>8, LineStep DEF RecvData, LineInv
  <2>2. /\ data' \in Seq(Values) /\ Len(data') = Len(data) + 1
        /\ \A k \in 1..Len(data) : data'[k] = data[k]
        /\ data'[Len(data) + 1] = down[1].val
    BY <1>8, DataFacts
  <2>3. /\ Len(down') = Len(down) - 1
        /\ \A k \in 1..(Len(down) - 1) : down'[k] = down[k + 1]
    BY <2>1, DownFacts
  <2>4. CASE Len(data) + Len(down) # DataLen + 1
    <3>1. Len(data) \in Nat /\ Len(down) \in Nat /\ DataLen \in Nat
      BY <1>2
    <3>2. Len(data') = Len(data) + 1 /\ Len(down') = Len(down) - 1
      BY <2>2, <2>3
    <3>3. Len(data') + Len(down') # DataLen + 1
      BY <2>4, <3>1, <3>2
    <3> QED
      BY <1>1, <2>1, <3>3 DEF NoneLost
  <2>5. CASE Len(data) + Len(down) = DataLen + 1
    <3>1. PICK hit \in SUBSET (1..(DataLen + 1)) :
                 Explains(hit, line, spare, data, down, file[Len(received) + 1])
      BY <1>1, <2>1, <2>5 DEF NoneLost
    <3> DEFINE b == file[Len(received) + 1]
    <3>2. Explains(hit, line, spare, data, down, b)
      BY <3>1
    <3> HIDE DEF b
    <3>3. Explains(hit, line, spare, data', down', b)
      BY <1>2, <2>1, <2>2, <2>3, <2>5, <3>2, ExplainedRead
    <3>4. Explains(hit, line, Spare(faults', retry'), data', down', file[Len(received') + 1])
      BY <2>1, <3>3 DEF b
    <3> QED
      BY <1>1, <2>1, <3>4
  <2> QED
    BY <2>4, <2>5
<1>9. CASE Hit /\ rx = "data"
  <2>1. /\ UNCHANGED <<received, rx, data>> /\ down # <<>> /\ down' \in Spoilt(down)
        /\ Spare(faults', retry') = spare + 1
        /\ down' \in Seq(Traffic) /\ Head(down).part \in line.parts
    BY <1>0, <1>3, <1>9, LineStep DEF Hit, CanHit, receiver, DataComing, LineInv
  <2>2. \A c \in Spoilt(down) :
          \/ /\ Len(c) = Len(down) /\ c[1].val \in line.noise
             /\ \A k \in 2..Len(down) : c[k] = down[k]
          \/ Len(c) = Len(down) - 1
    BY <1>2, <2>1, TrafficFacts, SpoiltFacts DEF XModemInv
  <2>3. Len(down) \in Nat \ {0} /\ Head(down) = down[1]
    BY <2>1, DownFacts
  <2>4. "payload" \in line.parts
    <3>1. down[1].part = "payload"
      BY <1>3, <1>9, <2>3 DEF DataComing
    <3> QED
      BY <2>1, <2>3, <3>1
  <2>5. Len(data) + Len(down) <= DataLen + 1
    BY <1>3, <1>9 DEF DataComing
  <2>6. CASE Len(down') = Len(down) - 1 \/ Len(data) + Len(down) # DataLen + 1
    <3>1. Len(down') \in {Len(down), Len(down) - 1}
      BY <2>1, <2>2
    <3>2. Len(data') + Len(down') # DataLen + 1
      BY <1>2, <2>1, <2>3, <2>5, <2>6, <3>1
    <3>3. spare + 1 >= 0
      BY <1>0, <1>2
    <3> QED
      BY <1>1, <2>1, <3>2, <3>3 DEF NoneLost
  <2>7. CASE Len(down') # Len(down) - 1 /\ Len(data) + Len(down) = DataLen + 1
    <3>1. PICK hit \in SUBSET (1..(DataLen + 1)) :
                 Explains(hit, line, spare, data, down, file[Len(received) + 1])
      BY <1>1, <1>9, <2>7 DEF NoneLost
    <3>2. /\ Len(down') = Len(down) /\ down'[1].val \in line.noise
          /\ \A k \in 2..Len(down) : down'[k] = down[k]
      BY <2>1, <2>2, <2>7
    <3> DEFINE b == file[Len(received) + 1]
    <3>3. Explains(hit, line, spare, data, down, b) /\ spare \in Nat
      BY <1>0, <1>2, <3>1
    <3> HIDE DEF b
    <3>4. \E more \in SUBSET (1..(DataLen + 1)) : Explains(more, line, spare + 1, data, down', b)
      BY <1>2, <2>1, <2>4, <2>7, <3>2, <3>3, ExplainedHit
    <3>5. spare + 1 >= 0
      BY <1>0, <1>2
    <3> QED
      BY <1>1, <2>1, <3>4, <3>5 DEF b
  <2> QED
    BY <2>6, <2>7
<1>10. CASE Hit /\ rx # "data"
  <2>1. UNCHANGED <<received, rx>> /\ Spare(faults', retry') >= 0
    BY <1>0, <1>2, <1>10 DEF Hit, receiver
  <2> QED
    BY <1>1, <1>10, <2>1 DEF NoneLost
<1>11. CASE Send /\ rx = "data"
  BY <1>3, <1>11 DEF Send, SendStart, SendWrite, SendAnswer, DataComing
<1>12. CASE Send /\ rx # "data"
  <2>1. UNCHANGED <<received, rx>> /\ Spare(faults', retry') = spare
    BY <1>0, <1>12 DEF Send, SendStart, SendWrite, SendAnswer, receiver
  <2> QED
    BY <1>1, <1>12, <2>1 DEF NoneLost
<1>13. CASE SendCancel \/ UNCHANGED vars
  <2>1. UNCHANGED <<received, rx, data, down>> /\ Spare(faults', retry') = spare
    BY <1>0, <1>13 DEF SendCancel, vars, receiver
  <2> QED
    BY <1>1, <2>1 DEF NoneLost
<1>14. CASE RecvAsk \/ RecvHead \/ RecvCancel
  <2>1. UNCHANGED received /\ rx' # "data" /\ Spare(faults', retry') = spare
    <3>1. RecvHead => rx' # "data" /\ UNCHANGED retry
      BY HeadIsRight
    <3> QED
      BY <1>0, <1>14, <3>1 DEF RecvAsk, RecvHead, RecvCancel
  <2> QED
    BY <1>1, <2>1 DEF NoneLost
<1> QED
  BY <1>6, <1>7, <1>8, <1>9, <1>10, <1>11, <1>12, <1>13, <1>14 DEF Next, Receive

LEMMA ContentInvariant == Spec => []ContentInv
<1>1. XModemInv /\ LockInv /\ LockInv' /\ ContentInv /\ [Next]_vars => ContentInv'
  BY ContentStep
<1> QED
  BY <1>1, ContentStart, LockInvariant, PTL DEF Spec

\* On every line whose noise spares the headers, and whose noise the sum shows,
\* what has been received is a beginning of the file.
THEOREM ReceivesInOrderTheorem ==
  Spec => []("head" \notin line.parts /\ SumShows(line) => ReceivesInOrder)
<1>1. XModemInv /\ LockInv /\ ContentInv
        => ("head" \notin line.parts /\ SumShows(line) => ReceivesInOrder)
  <2> SUFFICES ASSUME XModemInv, LockInv, ContentInv, "head" \notin line.parts, SumShows(line)
               PROVE  ReceivesInOrder
    OBVIOUS
  <2> DEFINE n == Len(received)
             S == Seq(Values)
  <2>1. /\ n \in Nat /\ n <= Len(file) /\ \A k \in 1..n : received[k] = file[k]
        /\ received \in Seq(S)
    BY DEF XModemInv, ReceiverInv, LockInv, ContentInv, taken
  <2>2. \A k \in 1..n : received[k] \in S /\ file[k] \in S
    <3> HIDE DEF S
    <3> QED
      BY <2>1, ElementOfSeq
  <2> HIDE DEF n, S
  <2>3. /\ SubSeq(received, 1, n) \in Seq(S) /\ SubSeq(file, 1, n) \in Seq(S)
        /\ Len(SubSeq(received, 1, n)) = IF 1 <= n THEN n - 1 + 1 ELSE 0
        /\ Len(SubSeq(file, 1, n)) = IF 1 <= n THEN n - 1 + 1 ELSE 0
        /\ \A i \in 1..(n - 1 + 1) : SubSeq(received, 1, n)[i] = received[1 + i - 1]
        /\ \A i \in 1..(n - 1 + 1) : SubSeq(file, 1, n)[i] = file[1 + i - 1]
    BY <2>1, <2>2, SubSeqProperties
  <2>4. /\ Len(SubSeq(received, 1, n)) = n /\ Len(SubSeq(file, 1, n)) = n
        /\ \A i \in 1..n : SubSeq(received, 1, n)[i] = SubSeq(file, 1, n)[i]
    BY <2>1, <2>3
  <2>5. SubSeq(received, 1, n) = SubSeq(file, 1, n)
    BY <2>3, <2>4, SeqEqual
  <2> QED
    BY <2>1, <2>5 DEF ReceivesInOrder, IsPrefix, n
<1> QED
  BY <1>1, LockInvariant, ContentInvariant, PTL

-----------------------------------------------------------------------------
(* How the receiver ends.                                                  *)

LEMMA StopStep ==
  ASSUME XModemInv, AckInv, LockInv, StopInv, Next \/ UNCHANGED vars
  PROVE  StopInv'
<1> SUFFICES ASSUME OnlyPayload, rx' \in RxEnds
             PROVE  rx' \in {"complete", "self_cancel"} \/ (rx' = "error" /\ retry' > MaxRetry)
  BY Kept DEF StopInv, OnlyPayload
<1>1. "head" \notin line.parts /\ "reply" \notin line.parts
  BY DEF OnlyPayload
<1>2. CASE rx \in RxEnds
  <2>1. ~Receive /\ ~RecvCancel
    BY <1>2 DEF RxEnds, Receive, RecvAsk, RecvHead, RecvIdx, RecvData, RecvSum, RecvCancel
  <2>2. rx' = rx /\ retry' = retry
    BY <2>1 DEF Next, Send, SendStart, SendWrite, SendAnswer, SendCancel, Hit, vars, receiver
  <2> QED
    BY <1>2, <2>2 DEF StopInv
<1>3. CASE rx \in Running
  <2>1. rx' \notin Running
    BY DEF RxEnds, Running
  <2>2. CASE RecvHead
    BY <1>1, <2>1, <2>2, HeadIsRight DEF Running
  <2>3. CASE RecvIdx
    <3>1. rx \in {"idx", "inverse"} /\ HeadersComing /\ taken <= Len(file)
      BY <1>1, <1>3, <2>3 DEF RecvIdx, LockInv, AtAsk, Idle, DataComing, EotComing, Completed
    <3>2. sent = Len(received)
      <4>1. up = <<>> /\ tx \in {"self_cancel", "block"} /\ Len(received) \in Nat /\ sent \in Nat
        BY <3>1 DEF HeadersComing, XModemInv, SenderInv, ReceiverInv
      <4>2. Count(up) = 0
        <5>1. Acks(<<>>) = {}
          BY DEF Acks
        <5> QED
          BY <4>1, <5>1, FS_EmptySet DEF Count
      <4>3. Owed(rx, retry) = 0 /\ Final(rx) = 0 /\ Told(tx) = 0
        BY <3>1, <4>1 DEF Owed, Final, Told
      <4>4. sent + 0 + 0 + 0 = Len(received) + 0
        BY <1>1, <4>2, <4>3 DEF AckInv, taken
      <4> QED
        BY <4>1, <4>4
    <3>3. Head(down).val = IF rx = "idx" THEN idx ELSE 255 - idx
      <4>1. idx = (sent + 1) % 256
        BY <3>2 DEF XModemInv, ReceiverInv, taken
      <4> QED
        BY <3>1, <4>1, NextHeader DEF Byte
    <3>4. rx' \in {"inverse", "data"}
      BY <2>3, <3>3 DEF RecvIdx
    <3> QED
      BY <2>1, <3>4 DEF Running
  <2>4. CASE RecvSum
    <3>1. rx' = "ask" \/ Again
      BY <2>4, SumFacts
    <3>2. Again => rx' = "ask" \/ (rx' = "error" /\ retry' > MaxRetry)
      BY DEF Again
    <3> QED
      BY <2>1, <3>1, <3>2 DEF Running
  <2>5. CASE RecvAsk \/ RecvData
    BY <2>1, <2>5 DEF RecvAsk, RecvData, Running
  <2>6. CASE RecvCancel
    BY <2>6 DEF RecvCancel
  <2>7. CASE Send \/ SendCancel \/ Hit \/ UNCHANGED vars
    <3>1. rx' = rx
      BY <2>7 DEF Send, SendStart, SendWrite, SendAnswer, SendCancel, Hit, vars, receiver
    <3> QED
      BY <1>3, <2>1, <3>1
  <2> QED
    BY <2>2, <2>3, <2>4, <2>5, <2>6, <2>7 DEF Next, Receive
<1> QED
  BY <1>2, <1>3 DEF XModemInv, ReceiverInv

LEMMA StopInvariant == Spec => []StopInv
<1>1. Init => StopInv
  BY DEF Init, StopInv, RxEnds
<1>2. XModemInv /\ AckInv /\ LockInv /\ StopInv /\ [Next]_vars => StopInv'
  BY StopStep
<1> QED
  BY <1>1, <1>2, LockInvariant, PTL DEF Spec

-----------------------------------------------------------------------------
(* The loaders.                                                            *)

\* The loaders receive by the protocol.
LEMMA LoaderSteps ==
  ASSUME [LoaderNext]_loaderVars
  PROVE  (Next \/ UNCHANGED vars) /\ kind' = kind
<1>1. CASE Line
  BY <1>1 DEF Line, Next, loader
<1>2. CASE LoaderReceive
  BY <1>2 DEF LoaderReceive, Block, Data, Poll, Header, Keep, Next, Receive
<1>3. CASE LoaderCancel
  BY <1>3 DEF LoaderCancel, Next
<1>4. CASE UNCHANGED loaderVars
  BY <1>4 DEF loaderVars, loader
<1> QED
  BY <1>1, <1>2, <1>3, <1>4 DEF LoaderNext

\* Writing the bytes as they come and looking at their blocks afterwards takes
\* nothing from the protocol: without its memory, a loader is a receiver.
THEOREM LoaderImplementsXModem == LoaderSpec => Spec
<1>1. LoaderInit => Init
  BY DEF LoaderInit
<1>2. [LoaderNext]_loaderVars => [Next]_vars
  BY LoaderSteps
<1> QED
  BY <1>1, <1>2, PTL DEF LoaderSpec, Spec

\* RamLoader's Place, with the kind of loader as a parameter.
Spot(kd, b, j) == (b - 1) * DataLen + j - (IF kd = "bfb" THEN HeaderLen ELSE 0)

LEMMA Multiples ==
  \A a \in Nat, b \in Nat \ {0} : /\ (a \div b) \in Nat /\ (a \div b) * b <= a
                                  /\ (a + 1) * b = a * b + b
OBVIOUS

LEMMA Monotone == \A a, b, d \in Nat : a <= b => a * d <= b * d
OBVIOUS

LEMMA Memory ==
  /\ DataLen \in Nat \ {0} /\ HeaderLen \in 1..DataLen /\ SramBlocks \in Nat \ {0}
  /\ LoadMin \in Nat /\ LoadMax \in Nat /\ RamEnd \in Nat /\ LoadMax <= RamEnd - DataLen
  /\ CodeLen \in Nat /\ CodeLen = DataLen - HeaderLen
BY Sizes, LoaderAssumption DEF CodeLen

LEMMA RoomFacts ==
  ASSUME NEW s \in LoadMin..LoadMax
  PROVE  Room(s) \in Nat /\ s + CodeLen + Room(s) * DataLen <= RamEnd
<1>1. RamEnd - s - CodeLen \in Nat /\ s \in Nat /\ RamEnd \in Nat /\ DataLen \in Nat \ {0}
  BY Memory
<1> DEFINE a == RamEnd - s - CodeLen
<1>2. (a \div DataLen) \in Nat /\ (a \div DataLen) * DataLen <= a
  BY <1>1, Multiples
<1>3. Room(s) = a \div DataLen
  BY DEF Room
<1>4. Room(s) \in Nat /\ Room(s) * DataLen <= a /\ Room(s) * DataLen \in Nat
  BY <1>1, <1>2, <1>3
<1> QED
  BY <1>1, <1>4, Memory

LEMMA SpotFacts ==
  ASSUME NEW kd, NEW n \in Nat
  PROVE  /\ Spot(kd, n, DataLen) \in Int
         /\ Spot(kd, n + 1, DataLen) = Spot(kd, n, DataLen) + DataLen
         /\ \A j \in 1..DataLen : Spot(kd, n + 1, j) = Spot(kd, n, DataLen) + j
         /\ \A b \in 1..n, j \in 1..DataLen :
              Spot(kd, b, j) \in Int /\ Spot(kd, b, j) <= Spot(kd, n, DataLen)
<1> DEFINE h == IF kd = "bfb" THEN HeaderLen ELSE 0
           D == DataLen
<1>1. h \in Nat /\ D \in Nat \ {0}
  BY Memory
<1>2. \A b, j : Spot(kd, b, j) = (b - 1) * D + j - h
  BY DEF Spot
<1> HIDE DEF h, D
<1>3. (n - 1) * D + D = n * D /\ (n + 1 - 1) * D = n * D /\ n * D \in Nat /\ (n - 1) * D \in Int
  <2>1. (n - 1) * D + D = n * D
    BY <1>1
  <2>2. n + 1 - 1 = n
    OBVIOUS
  <2> QED
    BY <1>1, <2>1, <2>2
<1>4. Spot(kd, n, D) = n * D - h
  BY <1>1, <1>2, <1>3
<1>5. Spot(kd, n + 1, D) = n * D + D - h /\ \A j \in 1..D : Spot(kd, n + 1, j) = n * D + j - h
  BY <1>2, <1>3
<1>6. ASSUME NEW b \in 1..n, NEW j \in 1..D
      PROVE  Spot(kd, b, j) \in Int /\ Spot(kd, b, j) <= n * D - h
  <2>1. (b - 1) * D + D = b * D /\ (b - 1) * D \in Int
    BY <1>1
  <2>2. b * D <= n * D /\ b * D \in Nat
    BY <1>1, Monotone
  <2>3. Spot(kd, b, j) = (b - 1) * D + j - h
    BY <1>2
  <2> DEFINE x == (b - 1) * D
             y == b * D
             z == n * D
  <2>4. x \in Int /\ y \in Nat /\ z \in Nat /\ x + D = y /\ y <= z /\ Spot(kd, b, j) = x + j - h
    BY <1>3, <2>1, <2>2, <2>3
  <2>5. Spot(kd, b, j) \in Int /\ Spot(kd, b, j) <= z - h
    <3> HIDE DEF x, y, z
    <3> QED
      BY <1>1, <2>4
  <2> QED
    BY <2>5
<1>7. D = DataLen
  BY DEF D
<1> QED
  BY <1>1, <1>3, <1>4, <1>5, <1>6, <1>7

-----------------------------------------------------------------------------
\* What is left of the room, and how far has been written.
MemoryInv ==
  /\ kind \in {"bfb", "sram"} /\ load \in {"running", "launched", "stopped"}
  /\ load = "running" => rx \in Running
  /\ load = "launched" => rx = "complete"
  /\ image \in Seq(Values) /\ ptr \in Nat
  /\ start = None => /\ kind = "bfb" /\ image = <<>> /\ ptr = 0
                     /\ load # "stopped" => taken = 0
  /\ start # None => /\ Len(image) <= ptr + DataLen /\ left \in Nat
                     /\ kind = "bfb" => /\ start \in LoadMin..LoadMax
                                        /\ start + ptr + left * DataLen <= RamEnd

\* While it receives, everything that has been received is where it belongs.
CountInv ==
  load # "stopped" /\ start # None =>
    /\ ptr = Spot(kind, taken, DataLen) /\ ptr <= Len(image)
    /\ kind = "bfb" => taken > 0 /\ start = CodeStart(received[1]) /\ left + taken - 1 = Room(start)
    /\ kind = "sram" => left > 0 /\ left + taken = SramBlocks
    /\ \A b \in 1..taken, k \in 1..DataLen :
         Spot(kind, b, k) > 0 => image[Spot(kind, b, k)] = received[b][k]
    /\ \A k \in 1..Len(data) : ptr + k <= Len(image) /\ image[ptr + k] = data[k]

\* A loader that stops has no room for the file, or the transfer has failed.
GiveUpInv ==
  OnlyPayload /\ SumShows(line) /\ load = "stopped" => ~Fits \/ rx \in RxEnds \ {"complete"}

LEMMA EndedFacts ==
  ASSUME load = "running", NEW r \in Running \cup RxEnds
  PROVE  \/ r \in Running /\ Ended(r) = "running"
         \/ r = "complete" /\ Ended(r) = "launched"
         \/ r \in RxEnds \ {"complete"} /\ Ended(r) = "stopped"
<1>1. CASE r \in Running
  <2>1. r # "complete" /\ r \notin RxEnds \ {"complete"}
    BY <1>1 DEF Running, RxEnds
  <2> QED
    BY <1>1, <2>1 DEF Ended
<1>2. CASE r = "complete"
  BY <1>2 DEF Ended
<1>3. CASE r \in RxEnds \ {"complete"}
  <2>1. r # "complete"
    BY <1>3
  <2> QED
    BY <1>3, <2>1 DEF Ended
<1> QED
  BY <1>1, <1>2, <1>3 DEF RxEnds

LEMMA NothingReceived ==
  ASSUME load = "running", XModemInv', rx' \in Running \cup RxEnds, load' = Ended(rx')
  PROVE  /\ load' \in {"running", "launched", "stopped"}
         /\ load' = "running" => rx' \in Running
         /\ load' = "launched" => rx' = "complete"
BY EndedFacts DEF Running

\* A byte is put behind what is kept of the program, or over what a bad block left.
LEMMA PutFacts ==
  ASSUME NEW k \in 1..DataLen, NEW v \in Values, image \in Seq(Values), ptr \in Nat,
         start # None, Put(v, k), ptr + k - 1 <= Len(image)
  PROVE  /\ image' \in Seq(Values) /\ Len(image) <= Len(image')
         /\ Len(image') = Len(image) \/ (Len(image') = Len(image) + 1 /\ Len(image') = ptr + k)
         /\ ptr + k <= Len(image') /\ image'[ptr + k] = v
         /\ \A i \in 1..Len(image) : i # ptr + k => image'[i] = image[i]
<1>1. Len(image) \in Nat /\ k \in Nat \ {0} /\ ptr \in Nat /\ image \in Seq(Values)
  BY Memory
<1>2. CASE ptr + k > Len(image)
  <2>1. Len(image) + 1 = ptr + k
    BY <1>1, <1>2
  <2>2. image' = Append(image, v)
    BY <1>2 DEF Put
  <2>3. /\ image' \in Seq(Values) /\ Len(image') = Len(image) + 1
        /\ \A i \in 1..Len(image) : image'[i] = image[i]
        /\ image'[Len(image) + 1] = v
    BY <1>1, <2>2, AppendProperties
  <2> QED
    BY <1>1, <2>1, <2>3
<1>3. CASE ~(ptr + k > Len(image))
  <2> DEFINE p == ptr + k
  <2>1. p \in 1..Len(image)
    BY <1>1, <1>3
  <2>2. image' = [image EXCEPT ![p] = v]
    BY <1>3 DEF Put
  <2> HIDE DEF p
  <2>3. image' \in Seq(Values) /\ Len(image') = Len(image)
    BY <1>1, <2>1, <2>2, ExceptSeq
  <2>4. image'[p] = v /\ \A i \in 1..Len(image) : i # p => image'[i] = image[i]
    <3>1. DOMAIN image = 1..Len(image)
      BY <1>1, LenProperties
    <3> QED
      BY <2>1, <2>2, <3>1
  <2> QED
    BY <1>1, <2>1, <2>3, <2>4 DEF p
<1> QED
  BY <1>2, <1>3

LEMMA LoaderStart == LoaderInit => MemoryInv /\ CountInv
<1> SUFFICES ASSUME LoaderInit PROVE MemoryInv /\ CountInv
  OBVIOUS
<1>1. /\ Len(received) = 0 /\ rx = "ask" /\ kind \in {"bfb", "sram"} /\ load = "running"
      /\ ptr = 0 /\ image = <<>> /\ image \in Seq(Values) /\ Len(image) = 0 /\ Len(data) = 0
  BY EmptySeq DEF LoaderInit, Init
<1>2. CASE kind = "bfb"
  BY <1>1, <1>2 DEF LoaderInit, MemoryInv, CountInv, Running, taken, None
<1>3. CASE kind = "sram"
  <2>1. start = 0 /\ left = SramBlocks /\ start # None /\ kind # "bfb"
    BY <1>3 DEF LoaderInit, None
  <2>2. Spot(kind, 0, DataLen) = 0
    BY <2>1, Memory DEF Spot
  <2> QED
    BY <1>1, <2>1, <2>2, Memory DEF MemoryInv, CountInv, Running, taken
<1> QED
  BY <1>1, <1>2, <1>3

\* A step that neither writes nor keeps anything.
LEMMA NothingKept ==
  ASSUME MemoryInv, CountInv, UNCHANGED <<kind, start, left, ptr, image, received>>,
         data' = data \/ data' = <<>>,
         load' \in {"running", "launched", "stopped"},
         load' = "running" => rx' \in Running, load' = "launched" => rx' = "complete",
         load' = "stopped" \/ load # "stopped"
  PROVE  MemoryInv' /\ CountInv'
<1>1. MemoryInv'
  BY DEF MemoryInv, taken
<1>2. CountInv'
  <2>1. Len(<<>>) = 0
    BY EmptySeq
  <2>2. CASE load' = "stopped" \/ start = None
    BY <2>2 DEF CountInv
  <2>3. CASE load' # "stopped" /\ start # None
    <3>1. /\ ptr = Spot(kind, taken, DataLen) /\ ptr <= Len(image)
          /\ kind = "bfb" => taken > 0 /\ start = CodeStart(received[1]) /\ left + taken - 1 = Room(start)
          /\ kind = "sram" => left > 0 /\ left + taken = SramBlocks
          /\ \A b \in 1..taken, k \in 1..DataLen :
               Spot(kind, b, k) > 0 => image[Spot(kind, b, k)] = received[b][k]
          /\ \A k \in 1..Len(data) : ptr + k <= Len(image) /\ image[ptr + k] = data[k]
      BY <2>3 DEF CountInv
    <3>2. \A k \in 1..Len(data') : ptr + k <= Len(image) /\ image[ptr + k] = data'[k]
      BY <2>1, <3>1
    <3> QED
      BY <2>3, <3>1, <3>2 DEF CountInv, taken
  <2> QED
    BY <2>2, <2>3
<1> QED
  BY <1>1, <1>2

LEMMA DataPut ==
  ASSUME XModemInv, MemoryInv, CountInv, load = "running", Data
  PROVE  MemoryInv' /\ CountInv'
<1>1. /\ RecvData /\ Put(Head(down).val, Len(data) + 1)
      /\ UNCHANGED <<kind, load, start, left, ptr, rx, received>>
  BY DEF Data, RecvData
<1>2. /\ data' \in Seq(Values) /\ Len(data') = Len(data) + 1
      /\ \A k \in 1..Len(data) : data'[k] = data[k]
      /\ data'[Len(data) + 1] = down[1].val
  BY <1>1, DataFacts
<1>3. /\ Len(data) \in Nat /\ Len(data) < DataLen /\ image \in Seq(Values) /\ ptr \in Nat
      /\ Len(image) \in Nat /\ Len(received) \in Nat
      /\ Head(down).val = down[1].val /\ down[1].val \in Values
  BY <1>1, DownFacts DEF RecvData, XModemInv, ReceiverInv, MemoryInv
<1>4. CASE start = None
  <2>1. image' = image
    BY <1>1, <1>4 DEF Put
  <2> QED
    BY <1>1, <1>4, <2>1 DEF MemoryInv, CountInv, taken
<1>5. CASE start # None
  <2> DEFINE k0 == Len(data) + 1
             v == Head(down).val
             n == Len(received)
  <2>1. /\ ptr = Spot(kind, n, DataLen) /\ ptr <= Len(image)
        /\ kind = "bfb" => n > 0 /\ start = CodeStart(received[1]) /\ left + n - 1 = Room(start)
        /\ kind = "sram" => left > 0 /\ left + n = SramBlocks
        /\ \A b \in 1..n, k \in 1..DataLen :
             Spot(kind, b, k) > 0 => image[Spot(kind, b, k)] = received[b][k]
        /\ \A k \in 1..Len(data) : ptr + k <= Len(image) /\ image[ptr + k] = data[k]
    BY <1>5 DEF CountInv, taken
  <2>2. k0 \in 1..DataLen /\ v \in Values /\ k0 - 1 = Len(data)
    BY <1>3, Memory
  <2>3. ptr + k0 - 1 <= Len(image)
    <3>1. CASE Len(data) = 0
      BY <1>3, <2>1, <3>1
    <3>2. CASE Len(data) # 0
      <4>1. Len(data) \in 1..Len(data)
        BY <1>3, <3>2
      <4> QED
        BY <1>3, <2>1, <4>1
    <3> QED
      BY <3>1, <3>2
  <2>4. Put(v, k0)
    BY <1>1
  <2> HIDE DEF k0, v
  <2>5. /\ image' \in Seq(Values) /\ Len(image) <= Len(image')
        /\ Len(image') = Len(image) \/ (Len(image') = Len(image) + 1 /\ Len(image') = ptr + k0)
        /\ ptr + k0 <= Len(image') /\ image'[ptr + k0] = v
        /\ \A i \in 1..Len(image) : i # ptr + k0 => image'[i] = image[i]
    BY <1>3, <1>5, <2>2, <2>3, <2>4, PutFacts
  <2>6. Len(image') <= ptr + DataLen
    <3>1. Len(image) <= ptr + DataLen
      BY <1>5 DEF MemoryInv
    <3> QED
      BY <1>3, <2>2, <2>5, <3>1, Memory
  <2>7. MemoryInv'
    <3>1. start # None
      BY <1>5
    <3> QED
      BY <1>1, <2>5, <2>6, <3>1 DEF MemoryInv
  <2>8. \A b \in 1..n, k \in 1..DataLen :
          Spot(kind, b, k) > 0 => image'[Spot(kind, b, k)] = received[b][k]
    <3> TAKE b \in 1..n, k \in 1..DataLen
    <3> HAVE Spot(kind, b, k) > 0
    <3> DEFINE i == Spot(kind, b, k)
    <3>1. i \in Int /\ i <= ptr
      <4>1. n \in Nat
        BY <1>3
      <4> QED
        BY <2>1, <4>1, SpotFacts
    <3>2. i > 0 /\ image[i] = received[b][k]
      BY <2>1
    <3> HIDE DEF i
    <3>3. i \in 1..Len(image) /\ i # ptr + k0
      BY <1>3, <2>1, <2>2, <3>1, <3>2
    <3>4. image'[i] = received[b][k]
      BY <2>5, <3>2, <3>3
    <3> QED
      BY <3>4 DEF i
  <2>9. \A k \in 1..Len(data') : ptr + k <= Len(image') /\ image'[ptr + k] = data'[k]
    <3> TAKE k \in 1..Len(data')
    <3>1. CASE k = k0
      BY <1>2, <1>3, <2>5, <3>1 DEF k0, v
    <3>2. CASE k # k0
      <4>1. k \in 1..Len(data)
        BY <1>2, <1>3, <3>2 DEF k0
      <4>2. /\ ptr + k <= Len(image) /\ image[ptr + k] = data[k] /\ data'[k] = data[k]
            /\ ptr + k \in 1..Len(image) /\ ptr + k # ptr + k0
        BY <1>2, <1>3, <2>1, <2>2, <3>2, <4>1
      <4>3. image'[ptr + k] = image[ptr + k]
        BY <2>5, <4>2
      <4>4. ptr + k <= Len(image')
        BY <1>3, <2>5, <4>2
      <4> QED
        BY <4>2, <4>3, <4>4
    <3> QED
      BY <3>1, <3>2
  <2>10. ptr <= Len(image')
    BY <1>3, <2>1, <2>5
  <2>11. CountInv'
    BY <1>1, <2>1, <2>8, <2>9, <2>10 DEF CountInv, taken
  <2> QED
    BY <2>7, <2>11
<1> QED
  BY <1>4, <1>5

LEMMA HeaderKept ==
  ASSUME XModemInv, MemoryInv, CountInv, load = "running", start = None, Len(data) = DataLen,
         Header(data), rx' = "ask", data' = <<>>, Len(received') = Len(received) + 1,
         received'[Len(received) + 1] = data
  PROVE  MemoryInv' /\ CountInv'
<1>1. /\ kind = "bfb" /\ image = <<>> /\ ptr = 0 /\ Len(received) = 0 /\ kind' = "bfb"
      /\ data \in Seq(Values) /\ Len(data') = 0
  BY EmptySeq DEF MemoryInv, XModemInv, ReceiverInv, Header, taken
<1>2. Len(received') = 1 /\ received'[1] = data
  BY <1>1
<1>3. CASE CodeStart(data) \notin LoadMin..LoadMax
  <2>1. load' = "stopped" /\ UNCHANGED <<kind, start, left, ptr, image>>
    BY <1>3 DEF Header
  <2> QED
    BY <1>1, <2>1 DEF MemoryInv, CountInv
<1>4. CASE CodeStart(data) \in LoadMin..LoadMax
  <2> DEFINE s == CodeStart(data)
  <2>1. /\ start' = s /\ left' = Room(start') /\ ptr' = CodeLen /\ load' = "running"
        /\ image' = SubSeq(data, HeaderLen + 1, DataLen)
    BY <1>4 DEF Header
  <2>2. Room(s) \in Nat /\ s + CodeLen + Room(s) * DataLen <= RamEnd
    BY <1>4, RoomFacts
  <2>3. start' # None
    BY <1>4, <2>1, Memory DEF None
  <2>4. /\ image' \in Seq(Values) /\ Len(image') = CodeLen
        /\ \A i \in 1..CodeLen : image'[i] = data[HeaderLen + i]
    <3>1. \A i \in (HeaderLen + 1)..DataLen : data[i] \in Values
      BY <1>1, Memory, ElementOfSeq
    <3>2. /\ SubSeq(data, HeaderLen + 1, DataLen) \in Seq(Values)
          /\ Len(SubSeq(data, HeaderLen + 1, DataLen)) =
               IF HeaderLen + 1 <= DataLen THEN DataLen - (HeaderLen + 1) + 1 ELSE 0
          /\ \A i \in 1..(DataLen - (HeaderLen + 1) + 1) :
               SubSeq(data, HeaderLen + 1, DataLen)[i] = data[HeaderLen + 1 + i - 1]
      <4>1. HeaderLen + 1 \in Int /\ DataLen \in Int
        BY Memory
      <4> QED
        BY <3>1, <4>1, SubSeqProperties
    <3>3. DataLen - (HeaderLen + 1) + 1 = CodeLen
      BY Memory
    <3>4. Len(SubSeq(data, HeaderLen + 1, DataLen)) = CodeLen
      BY <3>2, <3>3, Memory
    <3>5. \A i \in 1..CodeLen : HeaderLen + 1 + i - 1 = HeaderLen + i
      BY Memory
    <3> QED
      BY <2>1, <3>2, <3>3, <3>4, <3>5
  <2>5. Spot("bfb", 1, DataLen) = CodeLen /\ \A k \in 1..DataLen : Spot("bfb", 1, k) = k - HeaderLen
    BY Memory DEF Spot
  <2>6. MemoryInv'
    <3>1. Len(image') <= ptr' + DataLen
      BY <2>1, <2>4, Memory
    <3>2. start' + ptr' + left' * DataLen <= RamEnd
      BY <2>1, <2>2
    <3>3. "running" \in {"running", "launched", "stopped"} /\ "ask" \in Running
      BY DEF Running
    <3> HIDE DEF s
    <3>4. s \in LoadMin..LoadMax
      BY <1>4 DEF s
    <3> QED
      BY <1>1, <2>1, <2>2, <2>3, <2>4, <3>1, <3>2, <3>3, <3>4, Memory DEF MemoryInv
  <2>7. \A b \in 1..1, k \in 1..DataLen :
          Spot("bfb", b, k) > 0 => image'[Spot("bfb", b, k)] = received'[b][k]
    <3> TAKE b \in 1..1, k \in 1..DataLen
    <3> HAVE Spot("bfb", b, k) > 0
    <3> DEFINE i == k - HeaderLen
    <3>1. b = 1 /\ Spot("bfb", b, k) = i /\ i \in 1..CodeLen /\ HeaderLen + i = k
      BY <2>5, Memory
    <3> HIDE DEF i
    <3> QED
      BY <1>2, <2>4, <3>1
  <2>8. CountInv'
    <3>1. left' + 1 - 1 = Room(start')
      BY <2>1, <2>2
    <3>2. ptr' = Spot("bfb", 1, DataLen) /\ ptr' <= Len(image')
      BY <2>1, <2>4, <2>5, Memory
    <3>3. start' = CodeStart(received'[1])
      BY <1>2, <2>1
    <3>4. /\ ptr' = Spot(kind', Len(received'), DataLen) /\ ptr' <= Len(image')
          /\ kind' = "bfb" => /\ Len(received') > 0 /\ start' = CodeStart(received'[1])
                             /\ left' + Len(received') - 1 = Room(start')
          /\ kind' # "sram"
      BY <1>1, <1>2, <3>1, <3>2, <3>3
    <3>5. \A b \in 1..Len(received'), k \in 1..DataLen :
            Spot(kind', b, k) > 0 => image'[Spot(kind', b, k)] = received'[b][k]
      BY <1>1, <1>2, <2>7
    <3>6. \A k \in 1..Len(data') : FALSE
      BY <1>1
    <3> QED
      BY <3>4, <3>5, <3>6 DEF CountInv, taken
  <2> QED
    BY <2>6, <2>8
<1> QED
  BY <1>3, <1>4

LEMMA BlockKept ==
  ASSUME XModemInv, MemoryInv, CountInv, load = "running", start # None, Len(data) = DataLen,
         Keep, rx' = "ask", data' = <<>>, Len(received') = Len(received) + 1,
         \A k \in 1..Len(received) : received'[k] = received[k],
         received'[Len(received) + 1] = data
  PROVE  MemoryInv' /\ CountInv'
<1> DEFINE n == Len(received)
<1>1. /\ UNCHANGED <<kind, start, image>> /\ n \in Nat /\ Len(data') = 0
      /\ ptr \in Nat /\ left \in Nat /\ image \in Seq(Values) /\ Len(image) \in Nat
      /\ Len(image) <= ptr + DataLen /\ kind \in {"bfb", "sram"}
      /\ kind = "bfb" => start \in LoadMin..LoadMax /\ start + ptr + left * DataLen <= RamEnd
  BY EmptySeq DEF Keep, MemoryInv, XModemInv, ReceiverInv
<1>2. /\ ptr = Spot(kind, n, DataLen) /\ ptr <= Len(image)
      /\ kind = "bfb" => n > 0 /\ start = CodeStart(received[1]) /\ left + n - 1 = Room(start)
      /\ kind = "sram" => left > 0 /\ left + n = SramBlocks
      /\ \A b \in 1..n, k \in 1..DataLen :
           Spot(kind, b, k) > 0 => image[Spot(kind, b, k)] = received[b][k]
      /\ \A k \in 1..DataLen : ptr + k <= Len(image) /\ image[ptr + k] = data[k]
  BY DEF CountInv, taken
<1> HIDE DEF n
<1>3. CASE left = 0 \/ (kind = "sram" /\ left = 1)
  <2>1. load' = "stopped" /\ UNCHANGED <<left, ptr>>
    BY <1>3 DEF Keep
  <2> QED
    BY <1>1, <2>1 DEF MemoryInv, CountInv
<1>4. CASE ~(left = 0 \/ (kind = "sram" /\ left = 1))
  <2>1. left' = left - 1 /\ ptr' = ptr + DataLen /\ load' = "running" /\ left' \in Nat /\ ptr' \in Nat
    BY <1>1, <1>4, Memory DEF Keep
  <2>2. Len(image) <= ptr' + DataLen
    BY <1>1, <2>1, Memory
  <2>3. kind = "bfb" => start + ptr' + left' * DataLen <= RamEnd
    <3> SUFFICES ASSUME kind = "bfb" PROVE start + ptr' + left' * DataLen <= RamEnd
      OBVIOUS
    <3> DEFINE x == left * DataLen
               y == left' * DataLen
    <3>1. x \in Nat /\ y \in Nat /\ x = y + DataLen
      <4>1. (left' + 1) * DataLen = left' * DataLen + DataLen
        BY <2>1, Memory, Multiples
      <4>2. left' + 1 = left
        BY <1>1, <2>1
      <4> QED
        BY <1>1, <2>1, <4>1, <4>2, Memory
    <3>2. start \in Nat /\ start + ptr + x <= RamEnd
      BY <1>1, Memory
    <3> HIDE DEF x, y
    <3>3. start + ptr' + y <= RamEnd
      BY <1>1, <2>1, <3>1, <3>2, Memory
    <3> QED
      BY <3>3 DEF y
  <2>4. MemoryInv'
    <3>1. "running" \in {"running", "launched", "stopped"} /\ "ask" \in Running
      BY DEF Running
    <3> QED
      BY <1>1, <2>1, <2>2, <2>3, <3>1 DEF MemoryInv
  <2>5. /\ Spot(kind, n + 1, DataLen) = ptr + DataLen
        /\ \A k \in 1..DataLen : Spot(kind, n + 1, k) = ptr + k
    BY <1>1, <1>2, SpotFacts
  <2>6. ptr + DataLen <= Len(image)
    <3>1. DataLen \in 1..DataLen
      BY Memory
    <3> QED
      BY <1>2, <3>1
  <2>7. \A b \in 1..(n + 1), k \in 1..DataLen :
          Spot(kind, b, k) > 0 => image[Spot(kind, b, k)] = received'[b][k]
    <3> TAKE b \in 1..(n + 1), k \in 1..DataLen
    <3>1. CASE b = n + 1
      <4>1. received'[b] = data /\ Spot(kind, b, k) = ptr + k
        BY <2>5, <3>1 DEF n
      <4> QED
        BY <1>2, <4>1
    <3>2. CASE b # n + 1
      <4>1. b \in 1..n
        BY <1>1, <3>2
      <4>2. received'[b] = received[b]
        BY <4>1 DEF n
      <4> QED
        BY <1>2, <4>1, <4>2
    <3> QED
      BY <3>1, <3>2
  <2>8. kind = "bfb" => start = CodeStart(received'[1]) /\ left' + (n + 1) - 1 = Room(start)
    <3>1. kind = "bfb" => 1 \in 1..n
      BY <1>1, <1>2
    <3>2. kind = "bfb" => received'[1] = received[1]
      BY <3>1 DEF n
    <3>3. left' + (n + 1) - 1 = left + n - 1
      BY <1>1, <2>1
    <3> QED
      BY <1>2, <3>2, <3>3
  <2>9. kind = "sram" => left' > 0 /\ left' + (n + 1) = SramBlocks
    BY <1>1, <1>2, <1>4, <2>1
  <2>10. Len(received') = n + 1 /\ n + 1 > 0
    BY <1>1 DEF n
  <2>11. CountInv'
    <3>1. /\ ptr' = Spot(kind', Len(received'), DataLen) /\ ptr' <= Len(image')
      BY <1>1, <2>1, <2>5, <2>6, <2>10
    <3>2. kind' = "bfb" => /\ Len(received') > 0 /\ start' = CodeStart(received'[1])
                          /\ left' + Len(received') - 1 = Room(start')
      BY <1>1, <2>8, <2>10
    <3>3. kind' = "sram" => left' > 0 /\ left' + Len(received') = SramBlocks
      BY <1>1, <2>9, <2>10
    <3>4. \A b \in 1..Len(received'), k \in 1..DataLen :
            Spot(kind', b, k) > 0 => image'[Spot(kind', b, k)] = received'[b][k]
      BY <1>1, <2>7, <2>10
    <3>5. \A k \in 1..Len(data') : FALSE
      BY <1>1
    <3> QED
      BY <3>1, <3>2, <3>3, <3>4, <3>5 DEF CountInv, taken
  <2> QED
    BY <2>4, <2>11
<1> QED
  BY <1>3, <1>4

LEMMA XModemAgain ==
  ASSUME XModemInv, Next \/ UNCHANGED vars
  PROVE  XModemInv'
BY SenderStep, ReceiverStep, LineStep DEF XModemInv

LEMMA LoaderStep ==
  ASSUME XModemInv, MemoryInv, CountInv, [LoaderNext]_loaderVars
  PROVE  MemoryInv' /\ CountInv'
<1>1. /\ load \in {"running", "launched", "stopped"}
      /\ load = "running" => rx \in Running
      /\ load = "launched" => rx = "complete"
  BY DEF MemoryInv
<1>2. XModemInv' /\ rx' \in Running \cup RxEnds
  BY LoaderSteps, XModemAgain DEF XModemInv, ReceiverInv
<1>3. CASE Line \/ UNCHANGED loaderVars
  <2>1. UNCHANGED <<kind, load, start, left, ptr, image, received, data, rx>>
    BY <1>3 DEF Line, Send, SendStart, SendWrite, SendAnswer, SendCancel, Hit, loaderVars, loader,
                vars, receiver
  <2> QED
    BY <1>1, <2>1, NothingKept
<1>4. CASE load = "running" /\ Data
  BY <1>4, DataPut
<1>5. CASE load = "running" /\ Poll
  <2>1. /\ UNCHANGED <<kind, start, left, ptr, image, received>>
        /\ data' = data \/ data' = <<>>
        /\ load' = Ended(rx')
    BY <1>5 DEF Poll, RecvAsk, RecvHead, RecvIdx
  <2>2. /\ load' \in {"running", "launched", "stopped"}
        /\ load' = "running" => rx' \in Running
        /\ load' = "launched" => rx' = "complete"
    BY <1>2, <1>5, <2>1, NothingReceived
  <2>3. load # "stopped"
    BY <1>5
  <2> QED
    BY <2>1, <2>2, <2>3, NothingKept
<1>6. CASE load = "running" /\ Block
  <2>1. RecvSum /\ Len(data) = DataLen /\ data' = <<>> /\ Len(received) \in Nat
    BY <1>6 DEF Block, RecvSum, XModemInv, ReceiverInv
  <2>2. CASE Again /\ UNCHANGED <<idx, received>>
    <3>1. UNCHANGED <<kind, start, left, ptr, image, received>> /\ load' = Ended(rx')
      BY <1>6, <2>2 DEF Block
    <3>2. /\ load' \in {"running", "launched", "stopped"}
          /\ load' = "running" => rx' \in Running
          /\ load' = "launched" => rx' = "complete"
      BY <1>2, <1>6, <3>1, NothingReceived
    <3>3. load # "stopped"
      BY <1>6
    <3> QED
      BY <2>1, <3>1, <3>2, <3>3, NothingKept
  <2>3. CASE /\ Len(received') = Len(received) + 1
             /\ \A k \in 1..Len(received) : received'[k] = received[k]
             /\ received'[Len(received) + 1] = data
             /\ rx' = "ask"
    <3>1. received' # received
      BY <2>1, <2>3
    <3>2. CASE start = None
      <4>1. Header(data)
        BY <1>6, <3>1, <3>2 DEF Block
      <4> QED
        BY <1>6, <2>1, <2>3, <3>2, <4>1, HeaderKept
    <3>3. CASE start # None
      <4>1. Keep
        BY <1>6, <3>1, <3>3 DEF Block
      <4> QED
        BY <1>6, <2>1, <2>3, <3>3, <4>1, BlockKept
    <3> QED
      BY <3>2, <3>3
  <2> QED
    BY <2>1, <2>2, <2>3, SumFacts
<1>7. CASE LoaderCancel
  <2>1. UNCHANGED <<kind, start, left, ptr, image, received, data>> /\ load' = "stopped"
    BY <1>7 DEF LoaderCancel, RecvCancel
  <2> QED
    BY <2>1, NothingKept
<1> QED
  BY <1>3, <1>4, <1>5, <1>6, <1>7 DEF LoaderNext, LoaderReceive

\* What the loaders have written is what was received, each byte in its place, and
\* what they count as left is what is left of the room; on any line.
THEOREM LoaderInvariant == LoaderSpec => [](MemoryInv /\ CountInv)
<1>1. XModemInv /\ MemoryInv /\ CountInv /\ [LoaderNext]_loaderVars => (MemoryInv /\ CountInv)'
  BY LoaderStep
<1>2. LoaderSpec => []XModemInv
  BY LoaderImplementsXModem, XModemInvariant, PTL
<1>3. LoaderSpec => LoaderInit /\ [][LoaderNext]_loaderVars
  BY PTL DEF LoaderSpec
<1> QED
  BY <1>1, <1>2, <1>3, LoaderStart, PTL

\* For every geometry of the memory, on every line: a BFB file of any length never
\* writes more than one block behind the palettes' end.
THEOREM StaysInRoomTheorem == LoaderSpec => []StaysInRoom
<1>1. MemoryInv => StaysInRoom
  <2> SUFFICES ASSUME MemoryInv, kind = "bfb", start # None
               PROVE  start + ptr <= RamEnd /\ start + Len(image) <= RamEnd + DataLen
    BY DEF StaysInRoom
  <2> DEFINE x == left * DataLen
  <2>1. /\ start \in LoadMin..LoadMax /\ start + ptr + x <= RamEnd
        /\ ptr \in Nat /\ left \in Nat /\ Len(image) \in Nat /\ Len(image) <= ptr + DataLen
    BY DEF MemoryInv
  <2>2. x \in Nat
    BY <2>1, Memory
  <2> HIDE DEF x
  <2> QED
    BY <2>1, <2>2, Memory
<1> QED
  BY <1>1, LoaderInvariant, PTL

\* As long as noise spares headers and answers, a transfer is only complete with its
\* last block: no program is launched from a start that was never set.
THEOREM LaunchesSomethingTheorem == LoaderSpec => [](OnlyPayload => LaunchesSomething)
<1>1. XModemInv /\ LockInv /\ MemoryInv => (OnlyPayload => LaunchesSomething)
  <2> SUFFICES ASSUME XModemInv, LockInv, MemoryInv, OnlyPayload,
                      kind = "bfb", load = "launched"
               PROVE  start # None
    BY DEF LaunchesSomething
  <2>1. "head" \notin line.parts /\ "reply" \notin line.parts
    BY DEF OnlyPayload
  <2>2. rx = "complete"
    BY DEF MemoryInv
  <2>3. Completed
    BY <2>1, <2>2 DEF LockInv, AtAsk, Idle, HeadersComing, DataComing, EotComing
  <2>4. taken > 0
    <3>1. taken = Len(file) /\ file \in Files
      BY <2>1, <2>3 DEF Completed, taken, XModemInv, SenderInv
    <3> QED
      BY <3>1, FilesAreBlocks
  <2> QED
    BY <2>4 DEF MemoryInv, taken
<1>2. LoaderSpec => [](XModemInv /\ LockInv)
  BY LoaderImplementsXModem, LockInvariant, PTL
<1> QED
  BY <1>1, <1>2, LoaderInvariant, PTL

\* On every line that only hits the payload, with noise that the sum shows: what the
\* loaders launch is the whole file, each byte in its place, and there is room for it.
THEOREM LaunchesTheFileTheorem == LoaderSpec => [](SumShows(line) => LaunchesTheFile)
<1>1. XModemInv /\ LockInv /\ ContentInv /\ MemoryInv /\ CountInv
        => (SumShows(line) => LaunchesTheFile)
  <2> SUFFICES ASSUME XModemInv, LockInv, ContentInv, MemoryInv, CountInv,
                      SumShows(line), OnlyPayload, load = "launched"
               PROVE  /\ Fits /\ ptr = Place(Len(file), DataLen) /\ ptr <= Len(image)
                      /\ \A b \in DOMAIN file, k \in 1..DataLen :
                           Place(b, k) > 0 => image[Place(b, k)] = file[b][k]
    BY DEF LaunchesTheFile
  <2>1. "head" \notin line.parts /\ "reply" \notin line.parts
    BY DEF OnlyPayload
  <2>2. rx = "complete"
    BY DEF MemoryInv
  <2>3. Completed
    BY <2>1, <2>2 DEF LockInv, AtAsk, Idle, HeadersComing, DataComing, EotComing
  <2> DEFINE n == Len(received)
  <2>4. n = Len(file) /\ n \in Nat /\ n > 0 /\ DOMAIN file = 1..n
    <3>1. n = Len(file) /\ n \in Nat /\ file \in Files
      BY <2>1, <2>3 DEF Completed, taken, XModemInv, SenderInv
    <3>2. file \in Seq(Blocks) /\ Len(file) > 0
      BY <3>1, FilesAreBlocks
    <3> QED
      BY <3>1, <3>2, LenProperties
  <2>5. \A k \in 1..n : received[k] = file[k]
    BY <2>1 DEF ContentInv, taken
  <2>6. start # None
    BY <2>4 DEF MemoryInv, taken
  <2>7. /\ ptr = Spot(kind, n, DataLen) /\ ptr <= Len(image)
        /\ kind = "bfb" => start = CodeStart(received[1]) /\ left + n - 1 = Room(start)
        /\ kind = "sram" => left > 0 /\ left + n = SramBlocks
        /\ \A b \in 1..n, k \in 1..DataLen :
             Spot(kind, b, k) > 0 => image[Spot(kind, b, k)] = received[b][k]
    BY <2>6 DEF CountInv, taken
  <2>8. \A b, k : Place(b, k) = Spot(kind, b, k)
    BY DEF Place, Spot
  <2>9. /\ kind \in {"bfb", "sram"} /\ left \in Nat
        /\ kind = "bfb" => start \in LoadMin..LoadMax
    BY <2>6 DEF MemoryInv
  <2>10. received[1] = file[1]
    BY <2>4, <2>5
  <2> HIDE DEF n
  <2>11. Fits
    <3>1. CASE kind = "bfb"
      <4>1. start \in LoadMin..LoadMax /\ start = CodeStart(file[1]) /\ n - 1 <= Room(start)
        <5>1. Room(start) = left + n - 1
          BY <2>7, <3>1
        <5> QED
          BY <2>4, <2>7, <2>9, <2>10, <3>1, <5>1
      <4> QED
        BY <2>4, <3>1, <4>1 DEF Fits
    <3>2. CASE kind = "sram"
      <4>1. n < SramBlocks
        BY <2>4, <2>7, <2>9, <3>2
      <4> QED
        BY <2>4, <3>2, <4>1 DEF Fits
    <3> QED
      BY <2>9, <3>1, <3>2
  <2> QED
    BY <2>4, <2>5, <2>7, <2>8, <2>11
<1>2. LoaderSpec => Spec /\ [](MemoryInv /\ CountInv)
  BY LoaderImplementsXModem, LoaderInvariant, PTL
<1> QED
  BY <1>1, <1>2, LockInvariant, ContentInvariant, PTL

\* A block is kept unless the file has too many of them.
LEMMA RefusesWhatDoesNotFit ==
  ASSUME XModemInv, LockInv, LockInv', ContentInv, ContentInv', MemoryInv, CountInv,
         "head" \notin line.parts, SumShows(line), load = "running", load' = "stopped",
         UNCHANGED <<file, kind, line>>, Len(received') = Len(received) + 1,
         received'[Len(received) + 1] = data,
         (start = None /\ Header(data)) \/ (start # None /\ Keep)
  PROVE  ~Fits
<1> DEFINE n == Len(received)
<1>1. n \in Nat /\ n + 1 <= Len(file) /\ Len(file) \in Nat
  <2>1. Len(received') <= Len(file')
    BY DEF LockInv, taken
  <2> QED
    BY <2>1 DEF XModemInv, SenderInv, ReceiverInv
<1>2. /\ \A k \in 1..n : received[k] = file[k]
      /\ data = file[n + 1]
  <2>1. SumShows(line)'
    <3>1. SumShows(line)' <=> SumShows(line')
      BY DEF SumShows
    <3> QED
      BY <3>1
  <2>2. \A k \in 1..(n + 1) : received'[k] = file[k]
    BY <2>1 DEF ContentInv, taken
  <2>3. n + 1 \in 1..(n + 1)
    BY <1>1
  <2> QED
    BY <2>2, <2>3 DEF ContentInv, taken
<1>3. CASE start = None /\ Header(data)
  <2>1. kind = "bfb" /\ n = 0
    BY <1>3 DEF MemoryInv, taken
  <2>2. CodeStart(data) \notin LoadMin..LoadMax
    BY <1>3 DEF Header
  <2>3. CodeStart(file[1]) \notin LoadMin..LoadMax
    BY <1>2, <2>1, <2>2
  <2> QED
    BY <2>1, <2>3 DEF Fits
<1>4. CASE start # None /\ Keep
  <2>1. left \in Nat /\ (left = 0 \/ (kind = "sram" /\ left = 1)) /\ kind \in {"bfb", "sram"}
    BY <1>4 DEF Keep, MemoryInv
  <2>2. /\ kind = "bfb" => n > 0 /\ start = CodeStart(received[1]) /\ left + n - 1 = Room(start)
        /\ kind = "sram" => left > 0 /\ left + n = SramBlocks
    BY <1>4 DEF CountInv, taken
  <2>3. CASE kind = "bfb"
    <3>1. left = 0 /\ n > 0 /\ left + n - 1 = Room(start)
      BY <2>1, <2>2, <2>3
    <3>2. start = CodeStart(file[1])
      <4>1. 1 \in 1..n
        BY <1>1, <3>1
      <4> QED
        BY <1>2, <2>2, <2>3, <4>1
    <3>3. Room(CodeStart(file[1])) = n - 1
      BY <1>1, <3>1, <3>2
    <3>4. ~(Len(file) - 1 <= n - 1)
      BY <1>1
    <3> QED
      BY <2>3, <3>3, <3>4 DEF Fits
  <2>4. CASE kind = "sram"
    <3>1. left = 1 /\ left + n = SramBlocks
      BY <2>1, <2>2, <2>4
    <3>2. ~(Len(file) < SramBlocks)
      BY <1>1, <3>1
    <3> QED
      BY <2>4, <3>2 DEF Fits
  <2> QED
    BY <2>1, <2>3, <2>4
<1> QED
  BY <1>3, <1>4

LEMMA GiveUpStep ==
  ASSUME XModemInv, LockInv, LockInv', ContentInv, ContentInv', MemoryInv, CountInv, GiveUpInv,
         [LoaderNext]_loaderVars
  PROVE  GiveUpInv'
<1>1. UNCHANGED <<line, file, kind>>
  BY LoaderSteps, Kept
<1>2. (Fits' <=> Fits) /\ (SumShows(line)' <=> SumShows(line))
  BY <1>1 DEF Fits, SumShows
<1> SUFFICES ASSUME OnlyPayload, SumShows(line), load' = "stopped"
             PROVE  ~Fits \/ rx' \in RxEnds \ {"complete"}
  BY <1>1, <1>2 DEF GiveUpInv, OnlyPayload
<1>3. CASE load = "stopped"
  <2>1. ~LoaderReceive /\ ~LoaderCancel
    BY <1>3 DEF LoaderReceive, LoaderCancel
  <2>2. rx' = rx
    BY <2>1 DEF LoaderNext, Line, Send, SendStart, SendWrite, SendAnswer, SendCancel, Hit,
                loaderVars, vars, receiver
  <2> QED
    BY <1>3, <2>2 DEF GiveUpInv
<1>4. CASE load # "stopped"
  <2>1. (LoaderReceive \/ LoaderCancel) /\ load = "running"
    BY <1>4 DEF LoaderNext, LoaderReceive, LoaderCancel, Line, loaderVars, loader
  <2>2. CASE LoaderCancel
    BY <2>2 DEF LoaderCancel, RecvCancel, RxEnds
  <2>3. CASE load' = Ended(rx')
    <3>1. rx' \in Running \cup RxEnds
      BY LoaderSteps, XModemAgain DEF XModemInv, ReceiverInv
    <3> QED
      BY <2>1, <2>3, <3>1, EndedFacts
  <2>4. CASE Data
    BY <2>1, <2>4 DEF Data
  <2>5. CASE Block /\ received' # received
    <3>1. RecvSum /\ (IF start = None THEN Header(data) ELSE Keep)
      BY <2>5 DEF Block
    <3>2. Len(received') = Len(received) + 1 /\ received'[Len(received) + 1] = data
      BY <2>5, <3>1, SumFacts
    <3>3. "head" \notin line.parts
      BY DEF OnlyPayload
    <3> QED
      BY <1>1, <2>1, <3>1, <3>2, <3>3, RefusesWhatDoesNotFit
  <2>6. Poll \/ (Block /\ received' = received) => load' = Ended(rx')
    BY DEF Poll, Block
  <2> QED
    BY <2>1, <2>2, <2>3, <2>4, <2>5, <2>6 DEF LoaderReceive
<1> QED
  BY <1>3, <1>4

\* What Completes says of a loader that has stopped, without that it will: on a line
\* that only hits the payload, ui_tool_sramcode_bfb and ui_tool_sramcode_xm refuse a
\* program for which there is room only when somebody has pressed B, or when noise
\* has spoilt as many blocks as there are retries.
RefusesForAReason ==
  OnlyPayload /\ SumShows(line) /\ load = "stopped" =>
    \/ ~Fits
    \/ rx = "self_cancel"
    \/ rx = "error" /\ faults >= MaxRetry

\* A program that fits is not refused because of noise that the retries are there for,
\* a block number that wraps, or an answer that comes twice; for files of any length.
THEOREM RefusesForAReasonTheorem == LoaderSpec => []RefusesForAReason
<1>1. LoaderInit => GiveUpInv
  BY DEF LoaderInit, GiveUpInv
<1>2. XModemInv /\ LockInv /\ LockInv' /\ ContentInv /\ ContentInv' /\ MemoryInv /\ CountInv
        /\ GiveUpInv /\ [LoaderNext]_loaderVars => GiveUpInv'
  BY GiveUpStep
<1>3. LoaderSpec => Spec /\ LoaderInit /\ [][LoaderNext]_loaderVars /\ [](MemoryInv /\ CountInv)
  BY LoaderImplementsXModem, LoaderInvariant, PTL DEF LoaderSpec
<1>4. LoaderSpec => [](XModemInv /\ LockInv /\ ContentInv /\ StopInv /\ GiveUpInv)
  BY <1>1, <1>2, <1>3, LockInvariant, ContentInvariant, StopInvariant, PTL
<1>5. XModemInv /\ ContentInv /\ StopInv /\ GiveUpInv => RefusesForAReason
  <2> SUFFICES ASSUME XModemInv, ContentInv, StopInv, GiveUpInv,
                      OnlyPayload, SumShows(line), load = "stopped", Fits, rx # "self_cancel"
               PROVE  rx = "error" /\ faults >= MaxRetry
    BY DEF RefusesForAReason
  <2>1. rx = "error" /\ retry > MaxRetry
    BY DEF GiveUpInv, StopInv
  <2>2. Spare(faults, retry) >= 0
    BY DEF ContentInv, OnlyPayload
  <2>3. retry \in 0..255 /\ faults \in Nat /\ MaxRetry \in 1..254
    BY LineFacts, Sizes DEF XModemInv, ReceiverInv, LineInv
  <2> QED
    BY <2>1, <2>2, <2>3 DEF Spare
<1> QED
  BY <1>4, <1>5, PTL
=============================================================================
