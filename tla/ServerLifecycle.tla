---------------------------- MODULE ServerLifecycle ----------------------------
(***************************************************************************)
(* ListenAndServe and Close of the Go server (server.go), which run in     *)
(* two goroutines and meet at the mutex s.mu: what is opened, what has     *)
(* been published in the fields of the server, what Close has copied from  *)
(* them.  An action is a stretch under the lock or between two calls that  *)
(* open or close something.                                                *)
(***************************************************************************)
EXTENDS Integers

VARIABLES
    serve,      \* where ListenAndServe is
    closing,    \* where Close is
    closed,     \* s.closed
    ctxDone,    \* s.ctx is cancelled
    ready,      \* s.ready is closed
    res,        \* the state of what the server opens
    field,      \* what is published in the fields of the server
    copy        \* what Close has copied and not yet closed

lifeVars == <<serve, closing, closed, ctxDone, ready, res, field, copy>>

\* What the server opens, numbered in the order in which Close closes it.
CloseRank == [http |-> 1, wt |-> 2, listener |-> 3, transport |-> 4, socket |-> 5]
Resources == DOMAIN CloseRank

LifeInit ==
    /\ serve = "start" /\ closing = "idle"
    /\ closed = FALSE /\ ctxDone = FALSE /\ ready = FALSE
    /\ res = [r \in Resources |-> "none"]
    /\ field = {} /\ copy = {}

ServeTo(place) == serve' = place
OpenRes(rs) == res' = [r \in Resources |-> IF r \in rs THEN "open" ELSE res[r]]
CloseRes(rs) == res' = [r \in Resources |-> IF r \in rs /\ res[r] = "open" THEN "closed" ELSE res[r]]

-----------------------------------------------------------------------------
(* ListenAndServe *)

\* A certificate is loaded or made, or it fails.
SetupCert ==
    /\ serve = "start" /\ (ServeTo("bind") \/ ServeTo("returned"))
    /\ UNCHANGED <<closing, closed, ctxDone, ready, res, field, copy>>

\* Certificates by ACME: their HTTP server is published under the lock.
SetupAutocert ==
    /\ serve = "start"
    /\ IF closed
       THEN ServeTo("returned") /\ UNCHANGED <<res, field>>
       ELSE ServeTo("bind") /\ OpenRes({"http"}) /\ field' = field \cup {"http"}
    /\ UNCHANGED <<closing, closed, ctxDone, ready, copy>>

\* The address is resolved and bound, or not.
Bind ==
    /\ serve = "bind"
    /\ \/ ServeTo("publishSocket") /\ OpenRes({"socket"})
       \/ ServeTo("returned") /\ UNCHANGED res
    /\ UNCHANGED <<closing, closed, ctxDone, ready, field, copy>>

PublishSocket ==
    /\ serve = "publishSocket"
    /\ IF closed
       THEN ServeTo("returned") /\ CloseRes({"socket"}) /\ UNCHANGED field
       ELSE ServeTo("listen") /\ field' = field \cup {"socket"} /\ UNCHANGED res
    /\ UNCHANGED <<closing, closed, ctxDone, ready, copy>>

\* Also over a socket that Close has closed meanwhile.
ListenEarly ==
    /\ serve = "listen"
    /\ \/ ServeTo("publishListener") /\ OpenRes({"listener", "transport"})
       \/ ServeTo("returned") /\ UNCHANGED res
    /\ UNCHANGED <<closing, closed, ctxDone, ready, field, copy>>

\* Mutant: the server looks at s.closed once only, when the socket is bound.
PublishListener_Blind ==
    /\ serve = "publishListener"
    /\ ServeTo("setup") /\ field' = field \cup {"listener", "transport"}
    /\ UNCHANGED <<closing, closed, ctxDone, ready, res, copy>>

PublishListener ==
    /\ serve = "publishListener"
    /\ IF closed
       THEN ServeTo("returned") /\ CloseRes({"listener", "transport"}) /\ UNCHANGED field
       ELSE ServeTo("setup") /\ field' = field \cup {"listener", "transport"} /\ UNCHANGED res
    /\ UNCHANGED <<closing, closed, ctxDone, ready, copy>>

\* s.wtServer is published without the lock.
SetupServers ==
    /\ serve = "setup" /\ ServeTo("accept")
    /\ ready' = TRUE
    /\ OpenRes({"wt"}) /\ field' = field \cup {"wt"}
    /\ UNCHANGED <<closing, closed, ctxDone, copy>>

\* Accept fails: any other error than that of a closed server is retried.
AcceptEnds ==
    /\ serve = "accept" /\ (ctxDone \/ res["listener"] = "closed")
    /\ (ctxDone \/ closed)
    /\ ServeTo("returned")
    /\ UNCHANGED <<closing, closed, ctxDone, ready, res, field, copy>>

ServeStep ==
    \/ SetupCert \/ SetupAutocert \/ Bind \/ PublishSocket \/ ListenEarly
    \/ PublishListener \/ SetupServers \/ AcceptEnds

-----------------------------------------------------------------------------
(* Close, whose further calls return at once *)

\* What wtServer holds is read without synchronisation with SetupServers.
CloseBegins ==
    /\ closing = "idle" /\ closing' = "cancel"
    /\ closed' = TRUE
    /\ copy' \in {field, field \ {"wt"}}
    /\ UNCHANGED <<serve, ctxDone, ready, res, field>>

CloseCancels ==
    /\ closing = "cancel" /\ closing' = "free"
    /\ ctxDone' = TRUE /\ ready' = TRUE
    /\ UNCHANGED <<serve, closed, res, field, copy>>

CloseFrees ==
    /\ closing = "free" /\ copy # {}
    /\ LET r == CHOOSE x \in copy : \A y \in copy : CloseRank[x] <= CloseRank[y]
       IN  CloseRes({r}) /\ copy' = copy \ {r}
    /\ UNCHANGED <<serve, closing, closed, ctxDone, ready, field>>

CloseReturns ==
    /\ closing = "free" /\ copy = {} /\ closing' = "done"
    /\ UNCHANGED <<serve, closed, ctxDone, ready, res, field, copy>>

-----------------------------------------------------------------------------
LifeTypeOK ==
    /\ serve \in {"start", "bind", "publishSocket", "listen", "publishListener", "setup",
                  "accept", "returned"}
    /\ closing \in {"idle", "cancel", "free", "done"}
    /\ closed \in BOOLEAN /\ ctxDone \in BOOLEAN /\ ready \in BOOLEAN
    /\ res \in [Resources -> {"none", "open", "closed"}]
    /\ field \in SUBSET Resources /\ copy \in SUBSET field

\* The variables keep their types, and however Close and ListenAndServe
\* interleave: when both have returned nothing that holds a port or a
\* connection is open.
FreedByClose ==
    /\ LifeTypeOK
    /\ closing = "done" /\ serve = "returned" => \A r \in Resources \ {"wt"} : res[r] # "open"
=============================================================================
