------------------------------ MODULE BrookServer ------------------------------
(***************************************************************************)
(* The Go server: ListenAndServe and Close (ServerLifecycle) around one of *)
(* its connections (ServerConnection), which they accept, whose probes end *)
(* with the server's context and which dies with its transport.            *)
(***************************************************************************)
EXTENDS ServerLifecycle, ServerConnection

vars == <<lifeVars, connVars>>

Init == LifeInit /\ ConnInit

\* Accept returns a connection.
AcceptConn ==
    /\ serve = "accept" /\ ~ctxDone /\ res["listener"] = "open"
    /\ Dispatch
    /\ UNCHANGED lifeVars

\* s.cancel() also ends probeCtx, which is derived from s.ctx.
Cancel ==
    /\ CloseCancels
    /\ probeOver' = (probeOver \/ main # "none")
    /\ UNCHANGED <<client, main, place, probe, serving, orphan, alive>>

\* Closing the transport closes its connections; wtServer.Close may do so.
Free ==
    /\ CloseFrees
    /\ \/ /\ res'["transport"] = "closed" \/ (res'["wt"] = "closed" /\ main = "wt")
          /\ Dies /\ UNCHANGED <<client, main, place, probe, probeOver, serving, orphan>>
       \/ res'["transport"] # "closed" /\ UNCHANGED connVars

LifeStep == (ServeStep \/ CloseBegins \/ CloseReturns) /\ UNCHANGED connVars

Lost ==
    /\ alive /\ main # "none" /\ Dies
    /\ UNCHANGED <<client, main, place, probe, probeOver, serving, orphan>>
    /\ UNCHANGED lifeVars

Terminated ==
    closing = "done" /\ serve = "returned" /\ main \in {"none", "closed"} /\ UNCHANGED vars

Next ==
    \/ LifeStep \/ AcceptConn \/ Cancel \/ Free \/ Lost
    \/ ConnStep /\ UNCHANGED lifeVars
    \/ Terminated

Spec == Init /\ [][Next]_vars

\* Goroutines that can run are run and their timers fire: the 3 s of a peek, the
\* 800 ms, the 10 s.  Nothing is asked of the client, nor that anybody closes
\* the server; a Close that has begun goes on.
Fairness ==
    /\ WF_vars(ServeStep /\ UNCHANGED connVars)
    /\ WF_vars(Cancel) /\ WF_vars(Free) /\ WF_vars(CloseReturns /\ UNCHANGED connVars)
    /\ WF_vars(ProbeExpires /\ UNCHANGED lifeVars)
    /\ WF_vars(MainStep /\ UNCHANGED lifeVars)
    /\ \A k \in Kinds : WF_vars(ProbeStep(k) /\ UNCHANGED lifeVars)

FairSpec == Spec /\ Fairness

\* server.go:742: once Close is called, ListenAndServe returns, Close too, and
\* the goroutine of the connection ends.
StopEnds == closing # "idle" ~> closing = "done" /\ serve = "returned" /\ main \in {"none", "closed"}
=============================================================================
