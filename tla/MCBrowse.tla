------------------------------ MODULE MCBrowse ------------------------------
(* The launcher and two slots that can share ids and blocks; headers that  *)
(* state less than any slot's least, and 62 Mbit, after which the banks    *)
(* are no longer at the end of a megabyte.                                 *)
EXTENDS Browse
=============================================================================
