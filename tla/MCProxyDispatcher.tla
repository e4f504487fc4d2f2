-------------------------- MODULE MCProxyDispatcher --------------------------
(* ProxyDispatcher on a small instance; the bounds are in the configuration. *)
EXTENDS ProxyDispatcher
=============================================================================
