---------------------------- MODULE MCSyncPolling ----------------------------
(* Small instances of SyncPolling for TLC. *)
EXTENDS SyncPolling
=============================================================================
