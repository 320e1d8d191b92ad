----------------------------- MODULE MCScreens -----------------------------
(* Lists about as high as the visible part and as the tile map, with those *)
(* of the program: the settings menu with all its lines, the advanced      *)
(* settings, the save blocks, a WW environment's menu and a short list of  *)
(* programs; one with dividers next to each other; the empty list; the     *)
(* list of a cartridge with eight programs in three slots and one in the   *)
(* others, and the longest list there can be.                              *)
EXTENDS Screens

List(kind, height, dividers, asks) ==
  [kind |-> kind, height |-> height, dividers |-> dividers, asks |-> asks]
Plain(heights) == {List("other", h, {}, {}) : h \in heights}
ShortMenus ==
  Plain({1, 16}) \cup
  {List("browse", 2, {}, {}), List("saves", 19, {}, 0..18), List("manage", 4, {}, {3}),
   List("advanced", 5, {}, {3}), List("settings", 15, {5, 11}, {10, 13, 14}),
   List("other", 32, {8, 9, 10, 20}, {})}
EmptyMenus == {List("browse", 0, {}, {})} \cup Plain({3})
LongMenus == Plain({8, 36, 120})
=============================================================================
