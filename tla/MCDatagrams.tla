---------------------------- MODULE MCDatagrams ----------------------------
(* Datagrams with an association or a mapping, whichever is opened. *)
EXTENDS Datagrams
=============================================================================
