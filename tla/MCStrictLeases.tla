--------------------------- MODULE MCStrictLeases ---------------------------
(* StrictLeases with one TCP and one UDP lease and two relay sessions. *)
EXTENDS StrictLeases
=============================================================================
