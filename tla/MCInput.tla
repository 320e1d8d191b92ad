------------------------------ MODULE MCInput ------------------------------
(* Two keys, of which the loop meets one first; a tick counter that wraps   *)
(* after four, and a delay that is as long as it leaves room for.           *)
EXTENDS Input
=============================================================================
