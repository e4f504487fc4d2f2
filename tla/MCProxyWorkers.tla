--------------------------- MODULE MCProxyWorkers ---------------------------
(* ProxyWorkers on small instances; the bounds are in the configurations. *)
EXTENDS ProxyWorkers, TLC

\* No action or invariant tells the connections apart.
ConnSymmetry == Permutations(Conns)
=============================================================================
