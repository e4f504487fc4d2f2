--------------------------- MODULE ProxyDispatcher ---------------------------
(***************************************************************************)
(* The client side of the proxy (server/proxy-dispatcher.js) with its      *)
(* listeners (server/tcp-listener.js) and the session tracker: accepted    *)
(* sockets, their handlers, the attempts to relay each of them, and the    *)
(* start and stop of the whole.                                            *)
(*                                                                         *)
(* A call of BrookTunnel.run is represented by its contract                *)
(* (TunnelSteps), a stream session by the attempt that acquired it.     *)
(* pc[c] is the await the handler of client c is suspended at.  The user   *)
(* interface allows one start() or stop() at a time.                       *)
(***************************************************************************)
EXTENDS Integers, Sequences, FiniteSets, TunnelSteps

CONSTANTS
    Clients,          \* sockets the operating system may hand to a listener
    NumListeners,     \* 2 for SOCKS5 and HTTP, 1 in auto-detect mode
    MaxConnections,   \* of each listener
    MAX_ATTEMPTS,
    MaxStarts         \* bound: calls of start()

ASSUME DispatcherAssumption ==
    /\ NumListeners \in Nat \ {0} /\ MaxConnections \in Nat \ {0}
    /\ MAX_ATTEMPTS \in Nat \ {0} /\ MaxStarts \in Nat

Listeners == 1..NumListeners

VARIABLES
    isRunning,
    call,             \* the call in progress: "none", "start" or "stop", and
                      \* "rollback" for the catch clause of start()
    stage,            \* where it is suspended
    at,               \* the listener it has got to
    awaited,          \* handlers whose promises stop() awaits
    starts,
    online,           \* networkMonitor.isOnline
    listener,         \* state of each TcpListener
    activeSockets,    \* of each listener
    activeHandlers,
    pc, via,          \* of each client: its handler, its listener
    attempt,
    quic,             \* the variable quicSession: an attempt, 0 for null
    open,             \* attempts whose stream session is open
    tun,              \* the contract state of the latest tunnel
    stale,            \* decoders of returned tunnels that still hold a nonce
    clientDataConsumed, proxyReplied,
    replies,          \* what rawSendSuccess and rawSendFailure were called for
    sessions,         \* clients with a session in the tracker
    cancelled         \* handlers whose cancel() has closed socket, reader and writer

ctlVars == <<isRunning, call, stage, at, awaited, starts>>
listenVars == <<listener, activeSockets>>
handlerVars == <<activeHandlers, cancelled>>
replyVars == <<proxyReplied, replies>>
tunVars == <<quic, open, tun, stale, clientDataConsumed>>
clientVars == <<pc, via, attempt, tunVars, replyVars, sessions>>
vars == <<ctlVars, online, listenVars, handlerVars, clientVars>>

Init ==
    /\ isRunning = TRUE /\ call = "none" /\ stage = "rest" /\ at = 1
    /\ awaited = {} /\ starts = 0
    /\ online = TRUE
    /\ listener = [l \in Listeners |-> "down"]
    /\ activeSockets = [l \in Listeners |-> {}]
    /\ activeHandlers = {} /\ cancelled = {}
    /\ pc = [c \in Clients |-> "none"]
    /\ via = [c \in Clients |-> 0]
    /\ attempt = [c \in Clients |-> 0]
    /\ quic = [c \in Clients |-> 0]
    /\ open = [c \in Clients |-> {}]
    /\ tun = [c \in Clients |-> Fresh]
    /\ stale = [c \in Clients |-> 0]
    /\ clientDataConsumed = [c \in Clients |-> FALSE]
    /\ proxyReplied = [c \in Clients |-> FALSE]
    /\ replies = [c \in Clients |-> <<>>]
    /\ sessions = {}

-----------------------------------------------------------------------------
(* TcpListener and _handleClient *)

HasRoom(l) == Cardinality(activeSockets[l]) < MaxConnections

\* _acceptLoop hands a socket on unless the listener is full; _handleClient
\* turns it away while the network is down.  A socket that was read just
\* before stop() is handed on after it.
Accept(c, l) ==
    /\ pc[c] = "none" /\ listener[l] \in {"up", "stopping"}
    /\ listener' = [listener EXCEPT ![l] = IF @ = "stopping" THEN "drained" ELSE @]
    /\ IF HasRoom(l) /\ online
       THEN /\ pc' = [pc EXCEPT ![c] = "opening"]
            /\ via' = [via EXCEPT ![c] = l]
            /\ activeSockets' = [activeSockets EXCEPT ![l] = @ \cup {c}]
            /\ activeHandlers' = activeHandlers \cup {c}
       ELSE /\ pc' = [pc EXCEPT ![c] = "done"]
            /\ UNCHANGED <<via, activeSockets, activeHandlers>>
    /\ UNCHANGED <<ctlVars, online, cancelled, attempt, tunVars, replyVars, sessions>>

\* The accept loop ends by itself: its finally clause calls stop().
ListenerFails(l) ==
    /\ listener[l] = "up"
    /\ listener' = [listener EXCEPT ![l] = "failing"]
    /\ UNCHANGED <<ctlVars, online, activeSockets, handlerVars, clientVars>>

\* The last step of TcpListener.stop: the clients' sockets are closed and
\* forgotten.
ListenerClosed(l) ==
    /\ listener[l] \in {"stopping", "drained", "failing"}
    /\ listener' = [listener EXCEPT ![l] = "down"]
    /\ activeSockets' = [activeSockets EXCEPT ![l] = {}]
    /\ UNCHANGED <<ctlVars, online, handlerVars, clientVars>>

-----------------------------------------------------------------------------
(* _processClient *)

IsFinal(c) == attempt[c] = MAX_ATTEMPTS

Goto(c, p) == pc' = [pc EXCEPT ![c] = p]

\* Mutant: no latch.
MaySend_Always(c) == TRUE

\* The latch of sendSuccessOnce and sendFailureOnce.
MaySend(c) == ~proxyReplied[c]

SendOnce(c, reply) ==
    /\ proxyReplied' = [proxyReplied EXCEPT ![c] = TRUE]
    /\ replies' = IF MaySend(c) THEN [replies EXCEPT ![c] = Append(@, reply)] ELSE replies

\* Opening the socket, its first read (10 s) and the proxy handshake (8 s) are
\* awaits that touch nothing outside the handler, in a row: "opening" stands
\* for all three.  Any of them may fail, which leads to the finally clause.
GivesUp(c) ==
    /\ pc[c] = "opening"
    /\ Goto(c, "closing")
    /\ UNCHANGED <<ctlVars, online, listenVars, handlerVars, via, attempt, tunVars,
                   replyVars, sessions>>

MayDial == isRunning /\ online

\* The head of the attempt loop, and the call of createSession.
LoopHead(c) ==
    IF MayDial
    THEN /\ Goto(c, "acquire")
         /\ attempt' = [attempt EXCEPT ![c] = @ + 1]
         /\ quic' = [quic EXCEPT ![c] = 0]
         /\ tun' = [tun EXCEPT ![c] = Fresh]
    ELSE Goto(c, "closing") /\ UNCHANGED <<attempt, quic, tun>>

\* The proxy handshake is over: sessionTracker.createSession, first attempt.
HandshakeDone(c) ==
    /\ pc[c] = "opening"
    /\ sessions' = sessions \cup {c}
    /\ LoopHead(c)
    /\ UNCHANGED <<ctlVars, online, listenVars, handlerVars, via, open, stale,
                   clientDataConsumed, replyVars>>

\* createSession resolves; BrookTunnel.run is called with the session.
Acquired(c) ==
    /\ pc[c] = "acquire"
    /\ quic' = [quic EXCEPT ![c] = attempt[c]]
    /\ open' = [open EXCEPT ![c] = @ \cup {attempt[c]}]
    /\ Goto(c, "tunnel")
    /\ UNCHANGED <<ctlVars, online, listenVars, handlerVars, via, attempt, tun, stale,
                   clientDataConsumed, replyVars, sessions>>

\* The end of the loop with an error: sendFailureOnce(0x05) is called.
Refuse(c) == Goto(c, "reply") /\ SendOnce(c, "failure")

\* createSession rejects: wait 300 ms, or give up after the last attempt.
AcquireFails(c) ==
    /\ pc[c] = "acquire"
    /\ IF IsFinal(c) THEN Refuse(c)
       ELSE Goto(c, "backoff") /\ UNCHANGED replyVars
    /\ UNCHANGED <<ctlVars, online, listenVars, handlerVars, via, attempt, tunVars,
                   sessions>>

BackedOff(c) ==
    /\ pc[c] = "backoff"
    /\ LoopHead(c)
    /\ UNCHANGED <<ctlVars, online, listenVars, handlerVars, via, open, stale,
                   clientDataConsumed, replyVars, sessions>>

-----------------------------------------------------------------------------
(* BrookTunnel.run, through its contract *)

\* The callbacks of a step of the tunnel from tun[c] to t.
Callbacks(c, t) ==
    /\ IF t.hs /\ ~tun[c].hs THEN SendOnce(c, "success")
       ELSE IF t.refused /\ ~tun[c].refused THEN SendOnce(c, "failure")
       ELSE UNCHANGED replyVars
    /\ clientDataConsumed' = [clientDataConsumed EXCEPT ![c] = @ \/ t.read]

\* A step of the running tunnel.
TunnelStep(c) ==
    /\ pc[c] = "tunnel"
    /\ \E t \in Successors(tun[c], IsFinal(c)) :
        /\ ~t.returned
        /\ tun' = [tun EXCEPT ![c] = t]
        /\ open' = [open EXCEPT ![c] = IF t.open THEN @ ELSE @ \ {attempt[c]}]
        /\ Callbacks(c, t)
    /\ UNCHANGED <<ctlVars, online, listenVars, handlerVars, pc, via, attempt, quic,
                   stale, sessions>>

\* The decoder a tunnel has left behind gets its key and calls sendSuccess.
StaleSuccess(c) ==
    /\ stale[c] > 0
    /\ stale' = [stale EXCEPT ![c] = @ - 1]
    /\ SendOnce(c, "success")
    /\ UNCHANGED <<ctlVars, online, listenVars, handlerVars, pc, via, attempt, quic,
                   open, tun, clientDataConsumed, sessions>>

\* Mutant: data the client has sent is no reason to stop.
NoRetry_Read(c, o) == o.received \/ o.fault

\* Why a failed attempt is the last one.
NoRetry(c, o) == clientDataConsumed[c] \/ o.received \/ o.fault

\* run() returns; its decoder lives on.  Success ends the loop; otherwise the
\* session is closed, and the handler backs off or refuses.
TunnelReturns(c) ==
    /\ pc[c] = "tunnel"
    /\ \E t \in Successors(tun[c], IsFinal(c)) : \E o \in Outcomes(t) :
        /\ t.returned
        /\ tun' = [tun EXCEPT ![c] = t]
        /\ stale' = [stale EXCEPT ![c] = IF t.key THEN @ + 1 ELSE @]
        /\ IF o.success THEN Goto(c, "closing") /\ UNCHANGED <<open, replyVars>>
           ELSE /\ open' = [open EXCEPT ![c] = @ \ {quic[c]}]
                /\ IF NoRetry(c, o) \/ IsFinal(c) THEN Refuse(c)
                   ELSE Goto(c, "backoff") /\ UNCHANGED replyVars
    /\ UNCHANGED <<ctlVars, online, listenVars, handlerVars, via, attempt, quic,
                   clientDataConsumed, sessions>>

\* sendFailureOnce settles.
Replied(c) ==
    /\ pc[c] = "reply"
    /\ Goto(c, "closing")
    /\ UNCHANGED <<ctlVars, online, listenVars, handlerVars, via, attempt, tunVars,
                   replyVars, sessions>>

\* The finally clauses of _processClient and _handleClient, and onComplete; the
\* locals of the handler are gone.
Finally(c) ==
    /\ pc[c] = "closing"
    /\ Goto(c, "done")
    /\ sessions' = sessions \ {c}
    /\ activeHandlers' = activeHandlers \ {c}
    /\ cancelled' = cancelled \ {c}
    /\ activeSockets' = [activeSockets EXCEPT ![via[c]] = @ \ {c}]
    /\ via' = [via EXCEPT ![c] = 0]
    /\ attempt' = [attempt EXCEPT ![c] = 0]
    /\ quic' = [quic EXCEPT ![c] = 0]
    /\ tun' = [tun EXCEPT ![c] = Fresh]
    /\ clientDataConsumed' = [clientDataConsumed EXCEPT ![c] = FALSE]
    /\ UNCHANGED <<ctlVars, online, listener, open, stale, replyVars>>

-----------------------------------------------------------------------------
(* start(), stop() and dropAllConnections() *)

\* Mutant: no handler is cancelled.
CancelAll_Nobody(H) == UNCHANGED <<cancelled, open, tun>>

\* handler.cancel() of each handler in H: its socket, its reader and writer,
\* and the session in quicSession, which is null while one is being acquired.
CancelAll(H) ==
    /\ cancelled' = cancelled \cup H
    /\ open' = [c \in Clients |-> IF c \in H THEN open[c] \ {quic[c]} ELSE open[c]]
    /\ tun' = [c \in Clients |->
                IF c \in H /\ quic[c] # 0 THEN [tun[c] EXCEPT !["open"] = FALSE] ELSE tun[c]]

BeginStop ==
    /\ isRunning' = FALSE
    /\ stage' = "listeners"
    /\ at' = 1

Start ==
    /\ call = "none" /\ starts < MaxStarts
    /\ starts' = starts + 1
    /\ call' = "start"
    /\ BeginStop
    /\ UNCHANGED <<awaited, online, listenVars, handlerVars, clientVars>>

Stop ==
    /\ call = "none" /\ isRunning
    /\ call' = "stop"
    /\ BeginStop
    /\ UNCHANGED <<awaited, starts, online, listenVars, handlerVars, clientVars>>

\* await listener.stop(): it returns at once if the listener has ended and has
\* no sockets.
StopListener ==
    /\ stage = "listeners" /\ at <= NumListeners
    /\ IF listener[at] = "up"
       THEN listener' = [listener EXCEPT ![at] = "stopping"] /\ UNCHANGED at
       ELSE /\ \/ listener[at] = "down"
               \/ listener[at] = "failing" /\ activeSockets[at] = {}
            /\ at' = at + 1 /\ UNCHANGED listener
    /\ UNCHANGED <<isRunning, call, stage, awaited, starts, online, activeSockets,
                   handlerVars, clientVars>>

\* What follows stop(): start() goes on to bind, the others are over.
AfterStop ==
    /\ stage' = IF call = "start" THEN "bind" ELSE "rest"
    /\ call' = IF call = "start" THEN "start" ELSE "none"
    /\ isRunning' = (call = "start")
    /\ at' = 1

\* Mutant: the handlers are cancelled but not awaited.
Awaited_None == {}

\* The promises stop() waits for: the handlers there are when the listeners
\* have been stopped.
Awaited == activeHandlers

CancelHandlers ==
    /\ stage = "listeners" /\ at > NumListeners
    /\ CancelAll(activeHandlers)
    /\ awaited' = Awaited
    /\ stage' = "handlers"
    /\ UNCHANGED <<isRunning, call, at, starts, online, listenVars, activeHandlers,
                   pc, via, attempt, quic, stale, clientDataConsumed, replyVars, sessions>>

HandlersSettled ==
    /\ stage = "handlers" /\ awaited \cap activeHandlers = {}
    /\ activeHandlers' = {}
    /\ awaited' = {}
    /\ AfterStop
    /\ UNCHANGED <<cancelled, starts, online, listenVars, clientVars>>

\* await listener.start() of the next listener; the last one ends start().
Bind ==
    /\ stage = "bind"
    /\ listener' = [listener EXCEPT ![at] = "up"]
    /\ IF at < NumListeners THEN at' = at + 1 /\ UNCHANGED <<stage, call>>
       ELSE at' = 1 /\ stage' = "rest" /\ call' = "none"
    /\ UNCHANGED <<isRunning, awaited, starts, online, activeSockets, handlerVars,
                   clientVars>>

\* No port could be bound: the listeners bound before are rolled back.
BindFails ==
    /\ stage = "bind"
    /\ call' = "rollback"
    /\ BeginStop
    /\ UNCHANGED <<awaited, starts, online, listenVars, handlerVars, clientVars>>

DropAllConnections ==
    /\ CancelAll(activeHandlers)
    /\ UNCHANGED <<ctlVars, online, listenVars, activeHandlers, pc, via, attempt, quic,
                   stale, clientDataConsumed, replyVars, sessions>>

\* The network monitor changes its mind.
NetworkFlips ==
    /\ online' = ~online
    /\ UNCHANGED <<ctlVars, listenVars, handlerVars, clientVars>>

-----------------------------------------------------------------------------
\* Steps of the handler of c that end by themselves: timers bound the reads
\* and the acquisition, and the replies are a few bytes.
HandlerOwn(c) ==
    \/ GivesUp(c) \/ HandshakeDone(c) \/ Acquired(c) \/ AcquireFails(c)
    \/ BackedOff(c) \/ Replied(c) \/ Finally(c)

TunnelOwn(c) == TunnelStep(c) \/ TunnelReturns(c)

ControlOwn ==
    \/ StopListener \/ CancelHandlers \/ HandlersSettled \/ Bind \/ BindFails

Next ==
    \/ \E c \in Clients : (HandlerOwn(c) \/ TunnelOwn(c) \/ StaleSuccess(c))
    \/ \E c \in Clients, l \in Listeners : Accept(c, l)
    \/ \E l \in Listeners : ListenerFails(l) \/ ListenerClosed(l)
    \/ ControlOwn \/ Start \/ Stop \/ DropAllConnections \/ NetworkFlips

Spec == Init /\ [][Next]_vars

\* Timers bound every await of a handler and of a listener, a cancelled handler's
\* tunnel ends with its client, and the few bytes of a reply are taken.  A
\* tunnel nobody cancels may relay for ever.
Fairness ==
    /\ \A c \in Clients : WF_vars(HandlerOwn(c)) /\ WF_vars(c \in cancelled /\ TunnelOwn(c))
    /\ \A l \in Listeners : WF_vars(ListenerClosed(l))
    /\ WF_vars(ControlOwn)

FairSpec == Spec /\ Fairness

-----------------------------------------------------------------------------
(* Properties *)

Pcs == {"none", "opening", "acquire", "tunnel", "backoff",
        "reply", "closing", "done"}
Live(c) == pc[c] \notin {"none", "done"}

\* Type invariant.
TypeOK ==
    /\ isRunning \in BOOLEAN /\ online \in BOOLEAN
    /\ call \in {"none", "start", "stop", "rollback"}
    /\ stage \in {"rest", "listeners", "handlers", "bind"}
    /\ at \in 1..NumListeners + 1 /\ starts \in 0..MaxStarts
    /\ awaited \subseteq Clients /\ activeHandlers \subseteq Clients
    /\ cancelled \subseteq activeHandlers /\ sessions \subseteq Clients
    /\ listener \in [Listeners -> {"down", "up", "stopping", "drained", "failing"}]
    /\ activeSockets \in [Listeners -> SUBSET Clients]
    /\ pc \in [Clients -> Pcs] /\ via \in [Clients -> 0..NumListeners]
    /\ attempt \in [Clients -> 0..MAX_ATTEMPTS]
    /\ quic \in [Clients -> 0..MAX_ATTEMPTS]
    /\ open \in [Clients -> SUBSET (1..MAX_ATTEMPTS)]
    /\ tun \in [Clients -> [DOMAIN Fresh -> BOOLEAN]]
    /\ stale \in [Clients -> 0..MAX_ATTEMPTS]
    /\ clientDataConsumed \in [Clients -> BOOLEAN]
    /\ proxyReplied \in [Clients -> BOOLEAN]
    /\ replies \in [Clients -> Seq({"success", "failure"})]

\* A client gets at most one reply to its proxy request, over all attempts, the
\* refusal of the last one and decoders of given up attempts that confirm late.
OneReply == \A c \in Clients : Len(replies[c]) <= 1

\* No stream session outlives its tunnel: whatever way an attempt ends, and
\* whatever cancels it, the server's stream is not left behind.
SessionsReleased ==
    \A c \in Clients : open[c] \subseteq (IF pc[c] = "tunnel" THEN {attempt[c]} ELSE {})

\* What the relay has read from the client exists nowhere else: no further
\* attempt is made once it has been consumed.
NoReplay ==
    [][\A c \in Clients : attempt'[c] > attempt[c] =>
        ~clientDataConsumed[c]]_vars

\* A client whose proxy request was understood is answered before its socket
\* is closed, unless the proxy is being stopped or the network is down.
ClientAnswered ==
    [][\A c \in Clients :
        c \in sessions /\ pc[c] # "closing" /\ pc'[c] = "closing" /\ isRunning /\ online =>
            replies'[c] # <<>>]_vars

\* A listener never serves more than its limit, and a client that is gone does
\* not count: slots are neither lost nor given out twice.
SlotsExact ==
    \A l \in Listeners :
        LET served == {c \in Clients : Live(c) /\ via[c] = l} IN
        /\ Cardinality(activeSockets[l]) <= MaxConnections
        /\ listener[l] = "up" => activeSockets[l] = {c \in served : c \in activeHandlers}

\* After stop() nothing is left: no listener, no handler, no tracked session,
\* no stream, although sockets may be handed over while it runs.
StopIsComplete ==
    ~isRunning /\ call = "none" =>
        /\ \A l \in Listeners : listener[l] \in {"down", "failing"}
        /\ \A c \in Clients : ~Live(c) /\ open[c] = {}
        /\ sessions = {}

\* start() and stop() return whatever the clients and the tunnels are doing.
CallsReturn == call # "none" ~> call = "none"
=============================================================================
