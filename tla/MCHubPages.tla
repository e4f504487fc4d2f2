------------------------------ MODULE MCHubPages ------------------------------
(* The three pages for TLC; the bounds are in the configuration. *)
EXTENDS HubPages
=============================================================================
