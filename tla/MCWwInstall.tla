---------------------------- MODULE MCWwInstall ----------------------------
(* Files of up to three blocks, the last of which fills the bank.          *)
EXTENDS WwInstall
=============================================================================
