--------------------------- MODULE MCUploadStream ---------------------------
(* UploadStream on small windows. *)
EXTENDS UploadStream
=============================================================================
