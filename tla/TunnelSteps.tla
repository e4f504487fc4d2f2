----------------------------- MODULE TunnelSteps -----------------------------
(***************************************************************************)
(* What ProxyDispatcher relies on about one call of BrookTunnel.run: which *)
(* of the callbacks it was given the call may use, in which order, up to   *)
(* which point, and what the call has done by the time it returns.         *)
(* BrookTunnelRefinement shows that the tunnel keeps the contract, and     *)
(* ProxyDispatcher is composed with the contract alone.                    *)
(*                                                                         *)
(* The fields of a state:                                                  *)
(*   ending    cleanup has been called                                     *)
(*   key       the decoder holds the server nonce and derives the key      *)
(*   hs        serverHandshakeDone; sendSuccess is called with it          *)
(*   refused   sendFailure has been called                                 *)
(*   read      onClientDataRead has been called                            *)
(*   open      the stream session can still be used                        *)
(*   returned  run() has returned; its decoder may still be running        *)
(***************************************************************************)
Fields == {"ending", "key", "hs", "refused", "read", "open", "returned"}
Fresh == [f \in Fields |-> f = "open"]

With(r, f) == [r EXCEPT ![f] = TRUE]
Without(r, f) == [r EXCEPT ![f] = FALSE]

-----------------------------------------------------------------------------
\* Each operator is the set of states one kind of step leads to from r; final
\* says that closeClientStreams is set and sendFailure is passed.

KeyArrives(r) == IF r.ending \/ r.key \/ r.hs THEN {} ELSE {With(r, "key")}

\* Neither the end of the tunnel nor the return of run() stops the decoder
\* from confirming a nonce it already holds.
Confirms(r) == IF r.key THEN {With(Without(r, "key"), "hs")} ELSE {}

Reads(r) == IF r.hs /\ ~r.returned THEN {With(r, "read")} ELSE {}

Ends(r) == {With(r, "ending")}

\* Only the last attempt refuses, and only what has not been confirmed.
Refuses(r, final) ==
    IF final /\ r.ending /\ ~r.hs /\ ~r.returned THEN {With(r, "refused")} ELSE {}

Closes(r) == {Without(r, "open")}

\* Mutant: the session is left open.
Returns_Open(r, final) ==
    IF r.ending /\ (final => r.hs \/ r.refused) THEN {With(r, "returned")} ELSE {}

\* A return without a reply, or with the session still open, is no return.
Returns(r, final) ==
    IF r.ending /\ ~r.open /\ (final => r.hs \/ r.refused)
    THEN {With(r, "returned")} ELSE {}

\* The steps, and the pairs of steps that one stretch of code takes at once.
Successors(r, final) ==
    (KeyArrives(r) \cup Confirms(r) \cup Reads(r) \cup Refuses(r, final) \cup Returns(r, final)
     \cup UNION {{q} \cup Ends(q) : q \in Closes(r) \cup {r}}) \ {r}

\* What run() may return in state r.  A fault is a client_abort or an
\* rx_overflow, which the dispatcher does not try again.
Outcomes(r) ==
    {o \in [success : BOOLEAN, fault : BOOLEAN, received : BOOLEAN] :
        /\ o.success => o.received /\ ~o.fault
        /\ o.received => r.hs}
=============================================================================
