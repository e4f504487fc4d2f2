---------------------------- MODULE MCBrookTunnel ----------------------------
(* BrookTunnel on small instances; the bounds are in the configurations. *)
EXTENDS BrookTunnelRefinement
=============================================================================
