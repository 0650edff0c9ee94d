---------------------------- MODULE MCStreamOpen ----------------------------
(* StreamOpen with few dials and limits that they reach. *)
EXTENDS StreamOpen
=============================================================================
