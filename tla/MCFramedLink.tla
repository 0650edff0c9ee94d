---------------------------- MODULE MCFramedLink ----------------------------
(* FramedLink with two writers and a few transports. *)
EXTENDS FramedLink, TLC

Symmetry == Permutations(Writers)
=============================================================================
