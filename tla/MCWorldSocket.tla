--------------------------- MODULE MCWorldSocket ---------------------------
(* One connection for TLC. *)
EXTENDS WorldSocket
=============================================================================
