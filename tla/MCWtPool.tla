------------------------------ MODULE MCWtPool ------------------------------
(* WtPool for TLC. *)
EXTENDS WtPool, TLC

\* Callers are interchangeable; the runs check invariants only.
Symmetry == Permutations(Callers)
=============================================================================
