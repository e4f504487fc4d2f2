-------------------------------- MODULE HubPages --------------------------------
(***************************************************************************)
(* The applications of the bundle.  The hub (hub/index.html) links to the  *)
(* proxy's page, the listener's and the client's; each is a program of its *)
(* own, hence one of them runs in a behaviour and the others wait.         *)
(***************************************************************************)
EXTENDS BrookApp, ListenerPage, ClientPage

VARIABLE page      \* "proxy", "listener" or "client"

hubVars == <<page, vars, listenerVars, clientVars, logVars>>

\* The network matters to the proxy.
HubInit ==
    /\ page \in {"proxy", "listener", "client"}
    /\ Init /\ ListenerInit /\ ClientInit /\ LogInit
    /\ page = "proxy" \/ net

HubNext ==
    \/ page = "proxy" /\ Next /\ UNCHANGED <<page, listenerVars, clientVars, logVars>>
    \/ page = "listener" /\ ListenerStep /\ UNCHANGED <<page, vars, clientVars, logVars>>
    \/ page = "client" /\ ClientStep /\ UNCHANGED <<page, vars, listenerVars>>

HubSpec == HubInit /\ [][HubNext]_hubVars

\* What is awaited settles: a write under way is taken by the other side or
\* refused, a cancel and a close are answered, and a read ends with its stream.
PagesFairness ==
    /\ \A c \in Clients :
           /\ WF_listenerVars(LoopEnds(c)) /\ WF_listenerVars(Closes(c))
           /\ WF_listenerVars(WriteSettles(c))
    /\ WF_<<clientVars, logVars>>(MessageSent) /\ WF_<<clientVars, logVars>>(Disconnecting)

FairHub == HubSpec /\ Fairness /\ PagesFairness

-----------------------------------------------------------------------------
(* Properties *)

\* The client's variables keep their types.  A click that connects finds nothing
\* left of the connection before: no connect() or disconnect() under way, no
\* read loop, no write, and no reader, writer or socket that the disconnect()
\* behind the awaits would take from the new one.  The interval sender runs only
\* while there is a connection.
FreshConnection ==
    /\ ClientTypeOK
    /\ btnToggleConnect /\ ~(isConnected \/ isConnecting) =>
           /\ connecting = "none" /\ disconnecting = "none"
           /\ socket \in {"null", "failed"} /\ ~streams /\ ~reading /\ sending = 0
    /\ repeatTimer => isConnected

\* "Start / Stop Server" (listener/app.js:126), "Start / Stop Button"
\* (listener/index.html:121), "Connect / Disconnect" (client/app.js:131): what a
\* page has brought up can be ended by the button that then says "Stop Server" or
\* "Disconnect Socket".
EndOffered == (isListening => btnToggleServer) /\ (isConnected => btnToggleConnect)

\* A client of the listener whose stream has ended, or whom the operator has
\* disconnected.
Parting(c) == client[c] = "open" /\ (~isAlive[c] \/ ended[c])

\* Whatever is echoed, sent and broadcast meanwhile, such a client leaves the
\* Map, and a client page that lost its server gets its button back: again and
\* again nobody is parting.
PeersPart == []<>(disconnecting = "none" /\ \A c \in Clients : ~Parting(c))
=============================================================================
