---------------------------- MODULE TunnelContract ----------------------------
(***************************************************************************)
(* The contract of TunnelSteps as a specification of its own, for the      *)
(* tunnel to implement.                                                    *)
(***************************************************************************)
EXTENDS TunnelSteps

CONSTANT Final

VARIABLE s

Init == s = Fresh
Next == s' \in Successors(s, Final)
Spec == Init /\ [][Next]_s
=============================================================================
