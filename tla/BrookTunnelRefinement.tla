------------------------ MODULE BrookTunnelRefinement ------------------------
(***************************************************************************)
(* BrookTunnel implements TunnelContract.                                  *)
(***************************************************************************)
EXTENDS BrookTunnel

\* The contract's view of a tunnel.
Seen ==
    [f \in {"ending", "key", "hs", "refused", "read", "open", "returned"} |->
        CASE f = "ending"   -> isTerminated
          [] f = "key"      -> rxPc = "deriveKey"
          [] f = "hs"       -> serverHandshakeDone
          [] f = "refused"  -> "failure" \in replies
          [] f = "read"     -> reads > 0
          [] f = "open"     -> session = "live"
          [] f = "returned" -> upPc = "returned"]

Contract == INSTANCE TunnelContract WITH Final <- FinalAttempt, s <- Seen


\* The value run() returns says no more than what happened.
Outcome == [success  |-> Success,
            fault    |-> terminationReason \in {"client_abort", "rx_overflow"},
            received |-> totalRecv > 0]

OutcomeIsTold ==
    [][upPc # "returned" /\ upPc' = "returned" => (Outcome \in Contract!Outcomes(Seen))']_vars

\* Every behaviour of a tunnel is one the dispatcher reckons with: one
\* confirmation per nonce however late it comes, no reading of the client
\* before it, a closed session and, on the last attempt, a reply at return; and
\* the value it returns is one the contract allows.
KeepsContract == Contract!Spec /\ OutcomeIsTold
=============================================================================
