---------------------------- MODULE MCSaveSwitch ----------------------------
(***************************************************************************)
(* Small instances of SaveSwitch.  Blocks of four banks keep the shapes of *)
(* the real ones (whole, two halves of whole sectors, single banks of      *)
(* either parity).  Every cell starts with a content of its own, so that a *)
(* bank copied to or from the wrong place is noticed.                      *)
(***************************************************************************)
EXTENDS SaveSwitch

MCSize == 4
MCBanks == 0..(MCSize - 1)
Value(n) == <<"written", n>>
CellToken(c) == <<"cell", c[1], c[2]>>
MCContent(blocks, values) ==
  {<<"blank", 0>>, <<"torn", 0>>, <<"junk", 0>>} \cup values
    \cup {CellToken(c) : c \in blocks \X MCBanks}

MCBlank == <<"blank", 0>>
MCTorn == <<"torn", 0>>
MCJunk == <<"junk", 0>>
MCNoBlock == 255
MCFirstBootBlock == 254
MCSramAtStart == [b \in MCBanks |-> MCJunk]

OneBlock == {0}
TwoBlocks == {0, 1}
OneValue == {Value(1)}

OneContent == MCContent(OneBlock, OneValue)
TwoContent == MCContent(TwoBlocks, OneValue)
OneNor == [c \in OneBlock \X MCBanks |-> CellToken(c)]
TwoNor == [c \in TwoBlocks \X MCBanks |-> CellToken(c)]

OneUnmapped == {[blk |-> MCNoBlock, off |-> 0, len |-> 2]}
Region(b, o, l) == [blk |-> b, off |-> o, len |-> l]
Singles == {Region(0, k, 1) : k \in 0..2}

\* A whole block; and in the other one half of it, and the two single banks
\* that share a sector.
Mixed == {Region(0, 0, 4), Region(1, 2, 2), Region(1, 2, 1), Region(1, 3, 1)}
=============================================================================
