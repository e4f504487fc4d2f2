----------------------------- MODULE MCServerRelay -----------------------------
(* Model values for the streams of ServerRelay. *)
EXTENDS ServerRelay

=============================================================================
