-------------------------- MODULE MCReverseForward --------------------------
(* ReverseForward with few listeners and inbound connections. *)
EXTENDS ReverseForward
=============================================================================
