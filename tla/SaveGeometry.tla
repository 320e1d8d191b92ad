---------------------------- MODULE SaveGeometry ----------------------------
(***************************************************************************)
(* Save blocks, the 64 KB banks in them and the regions programs own.      *)
(* A cell is one bank of one block; SaveBanks shows that distinct cells    *)
(* are distinct banks of the NOR flash and that a pair of banks is one     *)
(* erase sector, so that nothing below needs physical addresses.           *)
(***************************************************************************)
EXTENDS Integers

CONSTANTS Blocks,     \* the save blocks: 0 .. SRAM_SLOTS - 1
          Size,       \* 64 KB banks in a block, and in the cartridge's SRAM: 8
          Content,    \* what a bank can contain
          Blank,      \* the content of an erased bank: all 0xFF
          NoBlock     \* SRAM_SLOT_NONE

ASSUME GeometryAssumption ==
  /\ Size \in Nat \ {0}
  /\ Size % 2 = 0
  /\ Blank \in Content
  /\ NoBlock \notin Blocks

Banks == 0..(Size - 1)
Cells == Blocks \X Banks

\* active_sram_slot with active_sram_offset_size (bits 0-3 offset, 4-7 size):
\* the banks [off, off + len) of block blk.
Regions ==
  {r \in [blk : Blocks, off : Banks, len : 1..Size] : r.off + r.len <= Size}

\* SRAM_SLOT_NONE with SRAM_OFFSET_SIZE_DEFAULT.
None == [blk |-> NoBlock, off |-> 0, len |-> Size]

Covers(r, c) == r.blk = c[1] /\ c[2] \in r.off..(r.off + r.len - 1)

\* c is in a two-bank erase sector that r has a bank in.
SectorCovers(r, c) ==
  \E b \in Banks : b \div 2 = c[2] \div 2 /\ Covers(r, <<c[1], b>>)
=============================================================================
