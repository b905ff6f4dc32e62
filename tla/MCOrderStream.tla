--------------------------- MODULE MCOrderStream ---------------------------
(* Small instances of OrderStream for TLC.                                 *)
EXTENDS OrderStream
=============================================================================
