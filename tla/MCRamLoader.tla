---------------------------- MODULE MCRamLoader ----------------------------
(***************************************************************************)
(* Two-byte blocks that contain the control characters as data, a one-byte *)
(* header, and files that fit in both memories, in one, or in neither.  A  *)
(* sum cannot tell two errors that cancel out; so, where two bytes of a    *)
(* block can be hit, noise can only turn them into 0, and the bytes are    *)
(* such that no two of these errors cancel.  The numbers of the first and  *)
(* of the fourth block are SOH and EOT.                                    *)
(***************************************************************************)
EXTENDS RamLoader

MCFiles ==
  {<<<<EOT, 7>>, <<SOH, 2>>, <<CAN, ACK>>, <<5, 6>>>>,
   <<<<7, 2>>, <<SOH, CAN>>, <<EOT, ACK>>>>,
   <<<<SOH, NAK>>>>}
ControlCharacters == {SOH, EOT, ACK, NAK, CAN, 0}
\* A line that spoils and loses headers and answers, three times, one that does so
\* to headers only, and one that spoils the data and their sums, twice.
MCLines ==
  {[noise |-> ControlCharacters, parts |-> {"head", "reply"}, loses |-> TRUE, faults |-> 3],
   [noise |-> ControlCharacters, parts |-> {"head"}, loses |-> TRUE, faults |-> 3],
   [noise |-> {0}, parts |-> {"payload"}, loses |-> FALSE, faults |-> 2]}

ASSUME SumAssumption == \A l \in MCLines : SumShows(l)
=============================================================================
