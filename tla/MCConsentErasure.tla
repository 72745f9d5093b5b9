-------------------------- MODULE MCConsentErasure --------------------------
(* TLC instance of ConsentErasure; the bounds are set in the .cfg files. *)
EXTENDS ConsentErasure
=============================================================================
