----------------------------- MODULE MCBrookServer -----------------------------
(* BrookServer for TLC. *)
EXTENDS BrookServer
=============================================================================
