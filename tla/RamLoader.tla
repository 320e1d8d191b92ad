----------------------------- MODULE RamLoader -----------------------------
(***************************************************************************)
(* The loaders of the tools tab (src/src/ui_tools.c): they receive a       *)
(* program with XModem, straight into the memory that it will run in, and  *)
(* launch it when the transfer is complete.  ui_tool_sramcode_bfb loads a  *)
(* BFB file into internal RAM: its first block begins with a header that   *)
(* says where; ui_tool_sramcode_xm loads into SRAM.                        *)
(***************************************************************************)
EXTENDS XModem

CONSTANTS
  HeaderLen,   \* 4 bytes, the last of which stand for where the code starts
  LoadMin,     \* 0x6800: no code starts below
  LoadMax,     \* 0xFD80: nor above
  RamEnd,      \* 0xFE00: the palettes
  SramBlocks   \* 512

ASSUME LoaderAssumption ==
  /\ HeaderLen \in 1..DataLen /\ SramBlocks \in Nat \ {0}
  /\ LoadMin \in Nat /\ LoadMax \in LoadMin..(RamEnd - DataLen) /\ RamEnd \in Nat

VARIABLES
  kind,    \* "bfb" or "sram"
  load,    \* "running", "launched" or "stopped"
  start,   \* code_start_ptr; none before the header
  left,    \* code_blocks_left; none before the header.  sram_incrs, downwards
  ptr,     \* code_ptr, sram_ptr: how much is kept in front of it
  image    \* the memory from the start of the code on

loader == <<kind, load, start, left, ptr, image>>
loaderVars == <<vars, loader>>

None == -1
CodeLen == DataLen - HeaderLen
CodeStart(block) == block[HeaderLen]

\* Mutant: a begun block counts as room.
RoomRoundedUp(s) == (RamEnd - s) \div DataLen + 1

\* (0xFE00 - code_start - 124) >> 7
Room(s) == (RamEnd - s - CodeLen) \div DataLen

\* Mutant: what a bad block has written is not written over.
PutBehind(v, k) == image' = IF start = None THEN image ELSE Append(image, v)

\* xmodem_read_block writes what arrives where the block belongs, before it
\* knows the sum; the header's block is received elsewhere.
Put(v, k) ==
  image' = IF start = None THEN image
           ELSE IF ptr + k > Len(image) THEN Append(image, v) ELSE [image EXCEPT ![ptr + k] = v]

\* XMODEM_OK, first block of a BFB file.
Header(block) ==
  /\ IF CodeStart(block) \in LoadMin..LoadMax
     THEN /\ start' = CodeStart(block)
          /\ left' = Room(start')
          /\ image' = SubSeq(block, HeaderLen + 1, DataLen) /\ ptr' = CodeLen
          /\ UNCHANGED load
     ELSE load' = "stopped" /\ UNCHANGED <<start, left, ptr, image>>
  /\ UNCHANGED kind

\* XMODEM_OK, any other block: whether there was room is looked at afterwards,
\* before counting in internal RAM, after it in SRAM.
Keep ==
  /\ IF left = 0 \/ (kind = "sram" /\ left = 1)
     THEN load' = "stopped" /\ UNCHANGED <<left, ptr>>
     ELSE left' = left - 1 /\ ptr' = ptr + DataLen /\ UNCHANGED load
  /\ UNCHANGED <<kind, start, image>>

Ended(r) == CASE r = "complete" -> "launched"
              [] r \in RxEnds \ {"complete"} -> "stopped"
              [] OTHER -> load

Block ==
  /\ RecvSum
  /\ IF received' = received THEN load' = Ended(rx') /\ UNCHANGED <<kind, start, left, ptr, image>>
     ELSE IF start = None THEN Header(data) ELSE Keep

Data ==
  /\ RecvData
  /\ Put(Head(down).val, Len(data) + 1)
  /\ UNCHANGED <<kind, load, start, left, ptr>>

\* The other steps of xmodem_recv_block, and what its result leads to.
Poll ==
  /\ RecvAsk \/ RecvHead \/ RecvIdx
  /\ load' = Ended(rx')
  /\ UNCHANGED <<kind, start, left, ptr, image>>

LoaderReceive == load = "running" /\ (Block \/ Data \/ Poll)

\* The B button; while it runs, the loader only looks at it between blocks.
LoaderCancel ==
  /\ load = "running" /\ RecvCancel /\ load' = "stopped"
  /\ UNCHANGED <<kind, start, left, ptr, image>>

LoaderInit ==
  /\ Init
  /\ kind \in {"bfb", "sram"} /\ load = "running"
  /\ start = IF kind = "bfb" THEN None ELSE 0
  /\ left = IF kind = "bfb" THEN None ELSE SramBlocks
  /\ ptr = 0 /\ image = <<>>

Line == (Send \/ SendCancel \/ Hit) /\ UNCHANGED loader

LoaderNext == Line \/ LoaderReceive \/ LoaderCancel

\* Both sides run loops that nothing but a missing byte can hold up.
LoaderSpec ==
  LoaderInit /\ [][LoaderNext]_loaderVars /\ WF_loaderVars(Send /\ UNCHANGED loader)
  /\ WF_loaderVars(LoaderReceive)

-----------------------------------------------------------------------------
\* Where a byte of the sender's file belongs, and whether the loader has room for
\* the file.
Place(b, k) == (b - 1) * DataLen + k - (IF kind = "bfb" THEN HeaderLen ELSE 0)
Fits ==
  IF kind = "bfb" THEN /\ CodeStart(file[1]) \in LoadMin..LoadMax
                       /\ Len(file) - 1 <= Room(CodeStart(file[1]))
                  ELSE Len(file) < SramBlocks

OnlyPayload == line.parts \subseteq {"payload"}

\* What is launched is the whole program, each byte in its place, although what
\* noise has made of a block was written to the same place before.  (A header
\* byte that noise turns into EOT cuts the file, and nothing shows it.)
LaunchesTheFile ==
  OnlyPayload /\ load = "launched" =>
    /\ Fits /\ ptr = Place(Len(file), DataLen) /\ ptr <= Len(image)
    /\ \A b \in DOMAIN file, k \in 1..DataLen :
         Place(b, k) > 0 => image[Place(b, k)] = file[b][k]

\* A BFB file is launched where its header says, so not before that is there.
LaunchesSomething == kind = "bfb" /\ load = "launched" => start # None

\* The loader writes one block before it finds that it has no room: still
\* nothing behind the palettes, and nothing of it is kept.
StaysInRoom ==
  kind = "bfb" /\ start # None => /\ start + ptr <= RamEnd
                                  /\ start + Len(image) <= RamEnd + DataLen

\* Where no byte is lost, a program that fits is loaded, and one that does not is
\* refused, however often noise has spoilt a block, unless somebody presses B.
Completes ==
  OnlyPayload /\ ~line.loses =>
    <>(\/ load = (IF Fits THEN "launched" ELSE "stopped") /\ (Fits => tx = "ok")
       \/ rx = "self_cancel" \/ tx = "self_cancel")
=============================================================================
