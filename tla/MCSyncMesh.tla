----------------------------- MODULE MCSyncMesh -----------------------------
(* Two devices, a suggestion, a server's suggestion and an override.       *)
EXTENDS SyncMesh

CONSTANTS s1, v1, o1

=============================================================================
