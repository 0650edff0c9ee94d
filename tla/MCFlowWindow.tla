---------------------------- MODULE MCFlowWindow ----------------------------
(* FlowWindow with up to two writers. *)
EXTENDS FlowWindow
=============================================================================
