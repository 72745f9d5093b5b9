---------------------------- MODULE MCUploadSpool ----------------------------
(* TLC instance of UploadSpool; the bounds are set in the .cfg files. *)
EXTENDS UploadSpool
=============================================================================
