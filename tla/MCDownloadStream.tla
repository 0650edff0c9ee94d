-------------------------- MODULE MCDownloadStream --------------------------
(* DownloadStream on small windows. *)
EXTENDS DownloadStream
=============================================================================
