---------------------------- MODULE MCSaveSelect ----------------------------
(* The launcher and two slots; three blocks, so that one can be missing.   *)
EXTENDS SaveSelect
=============================================================================
