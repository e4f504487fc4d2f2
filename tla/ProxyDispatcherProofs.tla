------------------------ MODULE ProxyDispatcherProofs ------------------------
(***************************************************************************)
(* Invariance proofs about the dispatcher, for any clients, listeners,     *)
(* connection limit and number of attempts.  What the dispatcher relies on *)
(* about BrookTunnel.run is the lemma ContractStep.                        *)
(***************************************************************************)
EXTENDS ProxyDispatcher, FiniteSetTheorems, TLAPS

\* The states of one tunnel.
Tunnels == [Fields -> BOOLEAN]

USE DEF Listeners

\* A tunnel never reopens its session or takes back its confirmation, and it
\* returns only with the session closed.
LEMMA ContractStep ==
    ASSUME NEW r \in Tunnels, NEW final \in BOOLEAN, NEW t \in Successors(r, final)
    PROVE  /\ t \in Tunnels
           /\ t["open"] => r["open"]
           /\ r["hs"] => t["hs"]
           /\ r["returned"] => t["returned"]
           /\ t["returned"] => r["returned"] \/ (~r["open"] /\ (t["hs"] => r["hs"]))
<1> USE DEF With, Without, Tunnels, Fields
<1>1. \/ t = With(r, "key") \/ t = With(Without(r, "key"), "hs")
      \/ t = With(r, "read") \/ t = With(r, "refused") \/ t = With(r, "ending")
      \/ t = Without(r, "open") \/ t = With(Without(r, "open"), "ending")
      \/ t = With(r, "returned") /\ ~r["open"]
  BY DEF Successors, KeyArrives, Confirms, Reads, Refuses, Returns, Ends, Closes
<1>2. t \in Tunnels
  BY <1>1
<1>3. /\ t["open"] => r["open"]
      /\ r["hs"] => t["hs"]
      /\ r["returned"] => t["returned"]
      /\ t["returned"] => r["returned"] \/ (~r["open"] /\ (t["hs"] => r["hs"]))
  BY <1>1
<1>4. QED
  BY <1>2, <1>3

-----------------------------------------------------------------------------
\* Types: the Boolean variables, and the others.
FlagsOK ==
    /\ isRunning \in BOOLEAN /\ online \in BOOLEAN
    /\ tun \in [Clients -> Tunnels]
    /\ clientDataConsumed \in [Clients -> BOOLEAN]
    /\ proxyReplied \in [Clients -> BOOLEAN]

ControlOK ==
    /\ call \in {"none", "start", "stop", "rollback"}
    /\ stage \in {"rest", "listeners", "handlers", "bind"}
    /\ at \in 1..NumListeners + 1 /\ starts \in 0..MaxStarts
    /\ listener \in [Listeners -> {"down", "up", "stopping", "drained", "failing"}]

PlacesOK ==
    /\ activeSockets \in [Listeners -> SUBSET Clients]
    /\ pc \in [Clients -> Pcs] /\ via \in [Clients -> 0..NumListeners]

AttemptsOK ==
    /\ attempt \in [Clients -> 0..MAX_ATTEMPTS]
    /\ quic \in [Clients -> 0..MAX_ATTEMPTS]
    /\ stale \in [Clients -> 0..MAX_ATTEMPTS]

OpenOK == open \in [Clients -> SUBSET Nat]

DataOK == ControlOK /\ PlacesOK /\ AttemptsOK /\ OpenOK

\* Attempts and the decoders they may leave behind are counted together.
Attempts ==
    \A c \in Clients :
        /\ pc[c] \in {"none", "opening"} => attempt[c] = 0 /\ stale[c] = 0
        /\ pc[c] \in {"acquire", "tunnel"} => stale[c] < attempt[c]
        /\ pc[c] \in {"backoff", "reply", "closing"} => stale[c] <= attempt[c]
        /\ pc[c] = "backoff" => attempt[c] < MAX_ATTEMPTS

\* quicSession names the session of the running tunnel, and a session that the
\* tunnel has closed is not open.
Held ==
    \A c \in Clients :
        /\ pc[c] = "acquire" => quic[c] = 0 /\ tun[c] = Fresh
        /\ pc[c] = "tunnel" => /\ quic[c] = attempt[c]
                               /\ open[c] \subseteq {attempt[c]}
                               /\ tun[c]["open"] \/ open[c] = {}
                               /\ ~tun[c]["returned"]
        /\ pc[c] # "tunnel" => open[c] = {}

\* The latch and the reply go together.
Latch ==
    /\ replies \in [Clients -> Seq({"success", "failure"})]
    /\ \A c \in Clients : Len(replies[c]) <= 1 /\ (proxyReplied[c] <=> replies[c] # <<>>)

\* A confirmed tunnel has replied, and so has a handler that is done replying.
Told ==
    \A c \in Clients :
        /\ pc[c] = "reply" => replies[c] # <<>>
        /\ pc[c] = "tunnel" /\ tun[c]["hs"] => replies[c] # <<>>

\* Handlers are the live clients; the tracker and the sockets are theirs.
Handlers ==
    /\ activeHandlers = {c \in Clients : Live(c)}
    /\ cancelled \subseteq activeHandlers /\ awaited \subseteq Clients
    /\ sessions \subseteq activeHandlers
    /\ \A c \in Clients :
        /\ Live(c) <=> via[c] # 0
        /\ pc[c] = "opening" => c \notin sessions

\* What the client has sent is consumed in a tunnel and never before one.
Unread ==
    \A c \in Clients :
        pc[c] \in {"none", "opening", "acquire", "backoff"} => ~clientDataConsumed[c]

\* A listener that stop() has passed takes no more sockets.
Quiet(l) == listener[l] \in {"down", "failing"} /\ activeSockets[l] = {}

Sockets ==
    \A l \in Listeners :
        /\ IsFiniteSet(activeSockets[l])
        /\ Cardinality(activeSockets[l]) <= MaxConnections
        /\ listener[l] = "up" => activeSockets[l] = {c \in Clients : via[c] = l}
        /\ listener[l] = "down" => activeSockets[l] = {}

\* How far start() or stop() has got.
Control ==
    /\ stage = "rest" <=> call = "none"
    /\ stage \in {"listeners", "handlers"} => ~isRunning
    /\ stage = "bind" => isRunning /\ call = "start" /\ at <= NumListeners
    /\ stage = "listeners" => \A l \in Listeners : l < at => Quiet(l)
    /\ stage = "handlers" => (\A l \in Listeners : Quiet(l)) /\ activeHandlers \subseteq awaited
    /\ stage = "rest" /\ ~isRunning =>
           (\A l \in Listeners : Quiet(l)) /\ activeHandlers = {}
    /\ stage = "bind" => \A l \in Listeners : l >= at =>
           Quiet(l) /\ \A c \in Clients : via[c] # l

IInv == FlagsOK /\ DataOK /\ Attempts /\ Held /\ Latch /\ Told /\ Handlers /\ Unread
        /\ Sockets /\ Control

USE DispatcherAssumption
USE DEF ctlVars, listenVars, handlerVars, replyVars, tunVars, clientVars

LEMMA FreshTunnel ==
    /\ Fresh \in Tunnels
    /\ Fresh["open"] /\ ~Fresh["hs"] /\ ~Fresh["returned"]
  BY DEF Fresh, Tunnels, Fields

\* Cancelling handlers closes sessions and does nothing else to their tunnels.
LEMMA Cancelling ==
    ASSUME tun \in [Clients -> Tunnels], NEW H, CancelAll(H)
    PROVE  /\ tun' \in [Clients -> Tunnels]
           /\ \A c \in Clients :
                /\ tun'[c]["hs"] <=> tun[c]["hs"]
                /\ tun'[c]["returned"] <=> tun[c]["returned"]
                /\ tun'[c] = tun[c] \/ (c \in H /\ quic[c] # 0 /\ ~tun'[c]["open"])
<1>1. \A r \in Tunnels : LET t == [r EXCEPT !["open"] = FALSE] IN
         t \in Tunnels /\ ~t["open"] /\ (t["hs"] <=> r["hs"])
         /\ (t["returned"] <=> r["returned"])
  BY DEF Tunnels, Fields
<1>2. \A c \in Clients :
         tun'[c] = IF c \in H /\ quic[c] # 0 THEN [tun[c] EXCEPT !["open"] = FALSE] ELSE tun[c]
  BY Zenon DEF CancelAll
<1>3. tun' \in [Clients -> Tunnels]
  BY <1>1, Zenon DEF CancelAll
<1>4. QED
  BY <1>1, <1>2, <1>3

\* The Boolean variables stay Boolean.
LEMMA FlagsStep == ASSUME IInv, [Next]_vars PROVE FlagsOK'
<1> USE DEF IInv, FlagsOK
<1>1. ASSUME NEW c \in Clients, GivesUp(c) PROVE FlagsOK'
  BY <1>1, Zenon DEF GivesUp, Goto
<1>2. ASSUME NEW c \in Clients, HandshakeDone(c) PROVE FlagsOK'
  <2>1. CASE MayDial
    BY <1>2, <2>1, FreshTunnel, Zenon DEF HandshakeDone, LoopHead, Goto
  <2>2. CASE ~MayDial
    BY <1>2, <2>2, FreshTunnel, Zenon DEF HandshakeDone, LoopHead, Goto
  <2>q. QED
    BY <2>1, <2>2
<1>3. ASSUME NEW c \in Clients, Acquired(c) PROVE FlagsOK'
  BY <1>3, Zenon DEF Acquired, Goto
<1>4. ASSUME NEW c \in Clients, AcquireFails(c) PROVE FlagsOK'
  BY <1>4, Zenon DEF AcquireFails, Refuse, SendOnce, MaySend, IsFinal, Goto
<1>5. ASSUME NEW c \in Clients, BackedOff(c) PROVE FlagsOK'
  <2>1. CASE MayDial
    BY <1>5, <2>1, FreshTunnel, Zenon DEF BackedOff, LoopHead, Goto
  <2>2. CASE ~MayDial
    BY <1>5, <2>2, FreshTunnel, Zenon DEF BackedOff, LoopHead, Goto
  <2>q. QED
    BY <2>1, <2>2
<1>6. ASSUME NEW c \in Clients, Replied(c) PROVE FlagsOK'
  BY <1>6, Zenon DEF Replied, Goto
<1>7. ASSUME NEW c \in Clients, Finally(c) PROVE FlagsOK'
  BY <1>7, FreshTunnel, Zenon DEF Finally, Goto
<1>8. ASSUME NEW c \in Clients, TunnelStep(c) PROVE FlagsOK'
  <2>1. PICK t \in Successors(tun[c], IsFinal(c)) :
           tun' = [tun EXCEPT ![c] = t] /\ Callbacks(c, t)
    BY <1>8, Zenon DEF TunnelStep
  <2>2. t \in Tunnels
    BY ContractStep, IsFinal(c) \in BOOLEAN DEF IsFinal
  <2>q. QED
    BY <1>8, <2>1, <2>2, Zenon DEF TunnelStep, Callbacks, SendOnce
<1>9. ASSUME NEW c \in Clients, TunnelReturns(c) PROVE FlagsOK'
  <2>1. PICK t \in Successors(tun[c], IsFinal(c)) : tun' = [tun EXCEPT ![c] = t]
    BY <1>9, Zenon DEF TunnelReturns
  <2>2. t \in Tunnels
    BY ContractStep, IsFinal(c) \in BOOLEAN DEF IsFinal
  <2>3. proxyReplied' \in [Clients -> BOOLEAN]
    BY <1>9, Zenon DEF TunnelReturns, Refuse, SendOnce
  <2>q. QED
    BY <1>9, <2>1, <2>2, <2>3, Zenon DEF TunnelReturns
<1>10. ASSUME NEW c \in Clients, StaleSuccess(c) PROVE FlagsOK'
  BY <1>10, Zenon DEF StaleSuccess, SendOnce, MaySend
<1>11. ASSUME NEW c \in Clients, NEW l \in Listeners, Accept(c, l) PROVE FlagsOK'
  BY <1>11, Zenon DEF Accept, HasRoom
<1>12. ASSUME NEW l \in Listeners, ListenerFails(l) PROVE FlagsOK'
  BY <1>12, Zenon DEF ListenerFails
<1>13. ASSUME NEW l \in Listeners, ListenerClosed(l) PROVE FlagsOK'
  BY <1>13, Zenon DEF ListenerClosed
<1>14. CASE StopListener
  BY <1>14, Zenon DEF StopListener
<1>15. CASE CancelHandlers
  <2>1. tun' \in [Clients -> Tunnels]
    BY <1>15, Cancelling DEF CancelHandlers
  <2>q. QED
    BY <1>15, <2>1, Zenon DEF CancelHandlers
<1>16. CASE HandlersSettled
  BY <1>16, Zenon DEF HandlersSettled, AfterStop
<1>17. CASE Bind
  BY <1>17, Zenon DEF Bind
<1>18. CASE BindFails
  BY <1>18, Zenon DEF BindFails, BeginStop
<1>19. CASE Start
  BY <1>19, Zenon DEF Start, BeginStop
<1>20. CASE Stop
  BY <1>20, Zenon DEF Stop, BeginStop
<1>21. CASE DropAllConnections
  <2>1. tun' \in [Clients -> Tunnels]
    BY <1>21, Cancelling DEF DropAllConnections
  <2>q. QED
    BY <1>21, <2>1, Zenon DEF DropAllConnections
<1>22. CASE NetworkFlips
  BY <1>22, Zenon DEF NetworkFlips
<1>23. CASE UNCHANGED vars
  BY <1>23, Zenon DEF vars
<1>q. QED
  BY <1>1, <1>2, <1>3, <1>4, <1>5, <1>6, <1>7, <1>8, <1>9, <1>10, <1>11, <1>12,
     <1>13, <1>14, <1>15, <1>16, <1>17, <1>18, <1>19, <1>20, <1>21, <1>22, <1>23
     DEF Next, HandlerOwn, TunnelOwn, ControlOwn

\* Attempts and decoders left behind.
LEMMA AttemptsStep == ASSUME IInv, [Next]_vars PROVE Attempts'
<1> USE DEF Attempts
<1>t. /\ pc \in [Clients -> Pcs] /\ attempt \in [Clients -> Nat]
      /\ stale \in [Clients -> Nat] /\ MAX_ATTEMPTS \in Nat
      /\ \A c \in Clients : attempt[c] <= MAX_ATTEMPTS
        /\ Attempts
  BY DEF IInv, DataOK, PlacesOK, AttemptsOK, DispatcherAssumption
<1>1. ASSUME NEW c \in Clients, GivesUp(c) PROVE Attempts'
  BY <1>t, <1>1, SMT DEF GivesUp, Goto
<1>2. ASSUME NEW c \in Clients, HandshakeDone(c) PROVE Attempts'
  <2>1. CASE MayDial
    BY <1>t, <1>2, <2>1, SMTT(30) DEF HandshakeDone, LoopHead, Goto
  <2>2. CASE ~MayDial
    BY <1>t, <1>2, <2>2, SMTT(30) DEF HandshakeDone, LoopHead, Goto
  <2>q. QED
    BY <2>1, <2>2
<1>3. ASSUME NEW c \in Clients, Acquired(c) PROVE Attempts'
  BY <1>t, <1>3, SMT DEF Acquired, Goto
<1>4. ASSUME NEW c \in Clients, AcquireFails(c) PROVE Attempts'
  BY <1>t, <1>4, SMT DEF AcquireFails, Refuse, SendOnce, MaySend, IsFinal, Goto
<1>5. ASSUME NEW c \in Clients, BackedOff(c) PROVE Attempts'
  <2>1. CASE MayDial
    BY <1>t, <1>5, <2>1, SMTT(30) DEF BackedOff, LoopHead, Goto
  <2>2. CASE ~MayDial
    BY <1>t, <1>5, <2>2, SMTT(30) DEF BackedOff, LoopHead, Goto
  <2>q. QED
    BY <2>1, <2>2
<1>6. ASSUME NEW c \in Clients, Replied(c) PROVE Attempts'
  BY <1>t, <1>6, SMT DEF Replied, Goto
<1>7. ASSUME NEW c \in Clients, Finally(c) PROVE Attempts'
  BY <1>t, <1>7, SMT DEF Finally, Goto
<1>8. ASSUME NEW c \in Clients, TunnelStep(c) PROVE Attempts'
  BY <1>t, <1>8, SMT DEF TunnelStep, Callbacks, SendOnce, MaySend
<1>9. ASSUME NEW c \in Clients, TunnelReturns(c) PROVE Attempts'
  BY <1>t, <1>9, SMT
     DEF TunnelReturns, NoRetry, IsFinal, Refuse, SendOnce, MaySend, Goto
<1>10. ASSUME NEW c \in Clients, StaleSuccess(c) PROVE Attempts'
  BY <1>t, <1>10, SMT DEF StaleSuccess, SendOnce, MaySend
<1>11. ASSUME NEW c \in Clients, NEW l \in Listeners, Accept(c, l) PROVE Attempts'
  BY <1>t, <1>11, SMT DEF Accept, HasRoom
<1>12. ASSUME NEW l \in Listeners, ListenerFails(l) PROVE Attempts'
  BY <1>t, <1>12, SMT DEF ListenerFails
<1>13. ASSUME NEW l \in Listeners, ListenerClosed(l) PROVE Attempts'
  BY <1>t, <1>13, SMT DEF ListenerClosed
<1>14. CASE StopListener
  BY <1>t, <1>14, SMT DEF StopListener
<1>15. CASE CancelHandlers
  BY <1>t, <1>15, SMT DEF CancelHandlers, CancelAll, Awaited
<1>16. CASE HandlersSettled
  BY <1>t, <1>16, SMT DEF HandlersSettled, AfterStop
<1>17. CASE Bind
  BY <1>t, <1>17, SMT DEF Bind
<1>18. CASE BindFails
  BY <1>t, <1>18, SMT DEF BindFails, BeginStop
<1>19. CASE Start
  BY <1>t, <1>19, SMT DEF Start, BeginStop
<1>20. CASE Stop
  BY <1>t, <1>20, SMT DEF Stop, BeginStop
<1>21. CASE DropAllConnections
  BY <1>t, <1>21, SMT DEF DropAllConnections, CancelAll
<1>22. CASE NetworkFlips
  BY <1>t, <1>22, SMT DEF NetworkFlips
<1>23. CASE UNCHANGED vars
  BY <1>t, <1>23, SMT DEF vars
<1>q. QED
  BY <1>1, <1>2, <1>3, <1>4, <1>5, <1>6, <1>7, <1>8, <1>9, <1>10, <1>11, <1>12,
     <1>13, <1>14, <1>15, <1>16, <1>17, <1>18, <1>19, <1>20, <1>21, <1>22, <1>23
     DEF Next, HandlerOwn, TunnelOwn, ControlOwn

\* The variables of start() and stop() stay in their ranges.
LEMMA ControlTypes == ASSUME IInv, [Next]_vars PROVE ControlOK'
<1> USE DEF IInv, ControlOK, DataOK, Control, DispatcherAssumption
<1>1. ASSUME NEW c \in Clients, GivesUp(c) PROVE ControlOK'
  BY <1>1, SMT DEF GivesUp, Goto
<1>2. ASSUME NEW c \in Clients, HandshakeDone(c) PROVE ControlOK'
  BY <1>2, SMT DEF HandshakeDone, LoopHead, Goto, MayDial
<1>3. ASSUME NEW c \in Clients, Acquired(c) PROVE ControlOK'
  BY <1>3, SMT DEF Acquired, Goto
<1>4. ASSUME NEW c \in Clients, AcquireFails(c) PROVE ControlOK'
  BY <1>4, SMT DEF AcquireFails, Refuse, SendOnce, MaySend, IsFinal, Goto
<1>5. ASSUME NEW c \in Clients, BackedOff(c) PROVE ControlOK'
  BY <1>5, SMT DEF BackedOff, LoopHead, Goto, MayDial
<1>6. ASSUME NEW c \in Clients, Replied(c) PROVE ControlOK'
  BY <1>6, SMT DEF Replied, Goto
<1>7. ASSUME NEW c \in Clients, Finally(c) PROVE ControlOK'
  BY <1>7, SMT DEF Finally, Goto
<1>8. ASSUME NEW c \in Clients, TunnelStep(c) PROVE ControlOK'
  BY <1>8, SMT DEF TunnelStep, Callbacks, SendOnce, MaySend
<1>9. ASSUME NEW c \in Clients, TunnelReturns(c) PROVE ControlOK'
  BY <1>9, SMT DEF TunnelReturns, NoRetry, IsFinal, Refuse, SendOnce, MaySend, Goto
<1>10. ASSUME NEW c \in Clients, StaleSuccess(c) PROVE ControlOK'
  BY <1>10, SMT DEF StaleSuccess, SendOnce, MaySend
<1>11. ASSUME NEW c \in Clients, NEW l \in Listeners, Accept(c, l) PROVE ControlOK'
  BY <1>11, SMT DEF Accept, HasRoom
<1>12. ASSUME NEW l \in Listeners, ListenerFails(l) PROVE ControlOK'
  BY <1>12, SMT DEF ListenerFails
<1>13. ASSUME NEW l \in Listeners, ListenerClosed(l) PROVE ControlOK'
  BY <1>13, SMT DEF ListenerClosed
<1>14. CASE StopListener
  BY <1>14, SMT DEF StopListener
<1>15. CASE CancelHandlers
  BY <1>15, SMT DEF CancelHandlers, CancelAll, Awaited
<1>16. CASE HandlersSettled
  BY <1>16, SMT DEF HandlersSettled, AfterStop
<1>17. CASE Bind
  BY <1>17, SMT DEF Bind
<1>18. CASE BindFails
  BY <1>18, SMT DEF BindFails, BeginStop
<1>19. CASE Start
  BY <1>19, SMT DEF Start, BeginStop
<1>20. CASE Stop
  BY <1>20, SMT DEF Stop, BeginStop
<1>21. CASE DropAllConnections
  BY <1>21, SMT DEF DropAllConnections, CancelAll
<1>22. CASE NetworkFlips
  BY <1>22, SMT DEF NetworkFlips
<1>23. CASE UNCHANGED vars
  BY <1>23, SMT DEF vars
<1>q. QED
  BY <1>1, <1>2, <1>3, <1>4, <1>5, <1>6, <1>7, <1>8, <1>9, <1>10, <1>11, <1>12,
     <1>13, <1>14, <1>15, <1>16, <1>17, <1>18, <1>19, <1>20, <1>21, <1>22, <1>23
     DEF Next, HandlerOwn, TunnelOwn, ControlOwn

\* The places and sockets of the clients stay in their ranges.
LEMMA PlacesTypes == ASSUME IInv, [Next]_vars PROVE PlacesOK'
<1> USE DEF PlacesOK
<1>t. /\ activeSockets \in [Listeners -> SUBSET Clients]
      /\ pc \in [Clients -> Pcs] /\ via \in [Clients -> 0..NumListeners] /\ NumListeners \in Nat \ {0}
  BY DEF IInv, DataOK, PlacesOK, DispatcherAssumption
<1>1. ASSUME NEW c \in Clients, GivesUp(c) PROVE PlacesOK'
  BY <1>t, <1>1, SMT DEF GivesUp, Goto, Pcs
<1>2. ASSUME NEW c \in Clients, HandshakeDone(c) PROVE PlacesOK'
  <2>0. \E p \in Pcs : pc' = [pc EXCEPT ![c] = p]
    BY <1>t, <1>2, SMT DEF HandshakeDone, LoopHead, Goto, Pcs
  <2>1. pc' \in [Clients -> Pcs]
    BY <1>t, <2>0
  <2>2. via' \in [Clients -> 0..NumListeners]
    BY <1>t, <1>2, SMT DEF HandshakeDone, LoopHead, Goto
  <2>3. activeSockets' \in [Listeners -> SUBSET Clients]
    BY <1>t, <1>2, SMT DEF HandshakeDone, LoopHead, Goto
  <2>q. QED
    BY <2>1, <2>2, <2>3
<1>3. ASSUME NEW c \in Clients, Acquired(c) PROVE PlacesOK'
  BY <1>t, <1>3, SMT DEF Acquired, Goto, Pcs
<1>4. ASSUME NEW c \in Clients, AcquireFails(c) PROVE PlacesOK'
  BY <1>t, <1>4, SMT DEF AcquireFails, Refuse, SendOnce, MaySend, IsFinal, Goto, Pcs
<1>5. ASSUME NEW c \in Clients, BackedOff(c) PROVE PlacesOK'
  <2>0. \E p \in Pcs : pc' = [pc EXCEPT ![c] = p]
    BY <1>t, <1>5, SMT DEF BackedOff, LoopHead, Goto, Pcs
  <2>1. pc' \in [Clients -> Pcs]
    BY <1>t, <2>0
  <2>2. via' \in [Clients -> 0..NumListeners]
    BY <1>t, <1>5, SMT DEF BackedOff, LoopHead, Goto
  <2>3. activeSockets' \in [Listeners -> SUBSET Clients]
    BY <1>t, <1>5, SMT DEF BackedOff, LoopHead, Goto
  <2>q. QED
    BY <2>1, <2>2, <2>3
<1>6. ASSUME NEW c \in Clients, Replied(c) PROVE PlacesOK'
  BY <1>t, <1>6, SMT DEF Replied, Goto, Pcs
<1>7. ASSUME NEW c \in Clients, Finally(c) PROVE PlacesOK'
  <2>0. \E p \in Pcs : pc' = [pc EXCEPT ![c] = p]
    BY <1>t, <1>7, SMT DEF Finally, Goto, Pcs
  <2>1. pc' \in [Clients -> Pcs]
    BY <1>t, <2>0
  <2>2. via' \in [Clients -> 0..NumListeners]
    BY <1>t, <1>7, SMT DEF Finally, Goto
  <2>3. activeSockets' \in [Listeners -> SUBSET Clients]
    <3>1. activeSockets' = [activeSockets EXCEPT ![via[c]] = activeSockets[via[c]] \ {c}]
      BY <1>t, <1>7 DEF Finally
    <3>2. QED
      BY <1>t, <3>1
  <2>q. QED
    BY <2>1, <2>2, <2>3
<1>8. ASSUME NEW c \in Clients, TunnelStep(c) PROVE PlacesOK'
  BY <1>t, <1>8, SMT DEF TunnelStep, Callbacks, SendOnce, MaySend, Pcs
<1>9. ASSUME NEW c \in Clients, TunnelReturns(c) PROVE PlacesOK'
  <2>0. \E p \in Pcs : pc' = [pc EXCEPT ![c] = p]
    BY <1>t, <1>9, SMT DEF TunnelReturns, Refuse, Goto, Pcs
  <2>1. pc' \in [Clients -> Pcs]
    BY <1>t, <2>0
  <2>2. via' \in [Clients -> 0..NumListeners]
    BY <1>t, <1>9, SMT DEF TunnelReturns, Refuse, Goto
  <2>3. activeSockets' \in [Listeners -> SUBSET Clients]
    BY <1>t, <1>9, SMT DEF TunnelReturns, Refuse, Goto
  <2>q. QED
    BY <2>1, <2>2, <2>3
<1>10. ASSUME NEW c \in Clients, StaleSuccess(c) PROVE PlacesOK'
  BY <1>t, <1>10, SMT DEF StaleSuccess, SendOnce, MaySend, Pcs
<1>11. ASSUME NEW c \in Clients, NEW l \in Listeners, Accept(c, l) PROVE PlacesOK'
  <2>0. \E p \in Pcs : pc' = [pc EXCEPT ![c] = p]
    BY <1>t, <1>11, SMT DEF Accept, Pcs
  <2>1. pc' \in [Clients -> Pcs]
    BY <1>t, <2>0
  <2>2. via' \in [Clients -> 0..NumListeners]
    BY <1>t, <1>11, SMT DEF Accept
  <2>3. activeSockets' \in [Listeners -> SUBSET Clients]
    BY <1>t, <1>11, SMT DEF Accept
  <2>q. QED
    BY <2>1, <2>2, <2>3
<1>12. ASSUME NEW l \in Listeners, ListenerFails(l) PROVE PlacesOK'
  BY <1>t, <1>12, SMT DEF ListenerFails, Pcs
<1>13. ASSUME NEW l \in Listeners, ListenerClosed(l) PROVE PlacesOK'
  BY <1>t, <1>13, SMT DEF ListenerClosed, Pcs
<1>14. CASE StopListener
  BY <1>t, <1>14, SMT DEF StopListener, Pcs
<1>15. CASE CancelHandlers
  BY <1>t, <1>15, SMT DEF CancelHandlers, CancelAll, Awaited, Pcs
<1>16. CASE HandlersSettled
  BY <1>t, <1>16, SMT DEF HandlersSettled, AfterStop, Pcs
<1>17. CASE Bind
  BY <1>t, <1>17, SMT DEF Bind, Pcs
<1>18. CASE BindFails
  BY <1>t, <1>18, SMT DEF BindFails, BeginStop, Pcs
<1>19. CASE Start
  BY <1>t, <1>19, SMT DEF Start, BeginStop, Pcs
<1>20. CASE Stop
  BY <1>t, <1>20, SMT DEF Stop, BeginStop, Pcs
<1>21. CASE DropAllConnections
  BY <1>t, <1>21, SMT DEF DropAllConnections, CancelAll, Pcs
<1>22. CASE NetworkFlips
  BY <1>t, <1>22, SMT DEF NetworkFlips, Pcs
<1>23. CASE UNCHANGED vars
  BY <1>t, <1>23, SMT DEF vars, Pcs
<1>q. QED
  BY <1>1, <1>2, <1>3, <1>4, <1>5, <1>6, <1>7, <1>8, <1>9, <1>10, <1>11, <1>12,
     <1>13, <1>14, <1>15, <1>16, <1>17, <1>18, <1>19, <1>20, <1>21, <1>22, <1>23
     DEF Next, HandlerOwn, TunnelOwn, ControlOwn

\* The attempts of the clients stay in their ranges.
LEMMA AttemptsTypes == ASSUME IInv, [Next]_vars PROVE AttemptsOK'
<1> USE DEF AttemptsOK
<1>t. /\ pc \in [Clients -> Pcs]
      /\ attempt \in [Clients -> 0..MAX_ATTEMPTS] /\ quic \in [Clients -> 0..MAX_ATTEMPTS]
      /\ stale \in [Clients -> 0..MAX_ATTEMPTS] /\ MAX_ATTEMPTS \in Nat \ {0}
      /\ \A c \in Clients : /\ pc[c] = "tunnel" => stale[c] < attempt[c]
                            /\ pc[c] = "backoff" => attempt[c] < MAX_ATTEMPTS
                            /\ pc[c] = "opening" => attempt[c] = 0
  BY SMT DEF IInv, DataOK, PlacesOK, AttemptsOK, Attempts, DispatcherAssumption
<1>1. ASSUME NEW c \in Clients, GivesUp(c) PROVE AttemptsOK'
  BY <1>t, <1>1, SMT DEF GivesUp, Goto
<1>2. ASSUME NEW c \in Clients, HandshakeDone(c) PROVE AttemptsOK'
  <2>1. CASE MayDial
    BY <1>t, <1>2, <2>1, SMTT(30) DEF HandshakeDone, LoopHead, Goto
  <2>2. CASE ~MayDial
    BY <1>t, <1>2, <2>2, SMTT(30) DEF HandshakeDone, LoopHead, Goto
  <2>q. QED
    BY <2>1, <2>2
<1>3. ASSUME NEW c \in Clients, Acquired(c) PROVE AttemptsOK'
  BY <1>t, <1>3, SMT DEF Acquired, Goto
<1>4. ASSUME NEW c \in Clients, AcquireFails(c) PROVE AttemptsOK'
  BY <1>t, <1>4, SMT DEF AcquireFails, Refuse, SendOnce, MaySend, IsFinal, Goto
<1>5. ASSUME NEW c \in Clients, BackedOff(c) PROVE AttemptsOK'
  <2>1. CASE MayDial
    BY <1>t, <1>5, <2>1, SMTT(30) DEF BackedOff, LoopHead, Goto
  <2>2. CASE ~MayDial
    BY <1>t, <1>5, <2>2, SMTT(30) DEF BackedOff, LoopHead, Goto
  <2>q. QED
    BY <2>1, <2>2
<1>6. ASSUME NEW c \in Clients, Replied(c) PROVE AttemptsOK'
  BY <1>t, <1>6, SMT DEF Replied, Goto
<1>7. ASSUME NEW c \in Clients, Finally(c) PROVE AttemptsOK'
  BY <1>t, <1>7, SMT DEF Finally, Goto
<1>8. ASSUME NEW c \in Clients, TunnelStep(c) PROVE AttemptsOK'
  BY <1>t, <1>8, SMT DEF TunnelStep, Callbacks, SendOnce, MaySend
<1>9. ASSUME NEW c \in Clients, TunnelReturns(c) PROVE AttemptsOK'
  <2>1. /\ pc[c] = "tunnel" /\ UNCHANGED <<attempt, quic>>
        /\ (stale' = [stale EXCEPT ![c] = stale[c] + 1] \/ UNCHANGED stale)
    BY <1>t, <1>9 DEF TunnelReturns
  <2>2. stale[c] + 1 \in 0..MAX_ATTEMPTS
    BY <1>t, <2>1
  <2>q. QED
    BY <1>t, <2>1, <2>2
<1>10. ASSUME NEW c \in Clients, StaleSuccess(c) PROVE AttemptsOK'
  BY <1>t, <1>10, SMT DEF StaleSuccess, SendOnce, MaySend
<1>11. ASSUME NEW c \in Clients, NEW l \in Listeners, Accept(c, l) PROVE AttemptsOK'
  BY <1>t, <1>11, SMT DEF Accept, HasRoom
<1>12. ASSUME NEW l \in Listeners, ListenerFails(l) PROVE AttemptsOK'
  BY <1>t, <1>12, SMT DEF ListenerFails
<1>13. ASSUME NEW l \in Listeners, ListenerClosed(l) PROVE AttemptsOK'
  BY <1>t, <1>13, SMT DEF ListenerClosed
<1>14. CASE StopListener
  BY <1>t, <1>14, SMT DEF StopListener
<1>15. CASE CancelHandlers
  BY <1>t, <1>15, SMT DEF CancelHandlers, CancelAll, Awaited
<1>16. CASE HandlersSettled
  BY <1>t, <1>16, SMT DEF HandlersSettled, AfterStop
<1>17. CASE Bind
  BY <1>t, <1>17, SMT DEF Bind
<1>18. CASE BindFails
  BY <1>t, <1>18, SMT DEF BindFails, BeginStop
<1>19. CASE Start
  BY <1>t, <1>19, SMT DEF Start, BeginStop
<1>20. CASE Stop
  BY <1>t, <1>20, SMT DEF Stop, BeginStop
<1>21. CASE DropAllConnections
  BY <1>t, <1>21, SMT DEF DropAllConnections, CancelAll
<1>22. CASE NetworkFlips
  BY <1>t, <1>22, SMT DEF NetworkFlips
<1>23. CASE UNCHANGED vars
  BY <1>t, <1>23, SMT DEF vars
<1>q. QED
  BY <1>1, <1>2, <1>3, <1>4, <1>5, <1>6, <1>7, <1>8, <1>9, <1>10, <1>11, <1>12,
     <1>13, <1>14, <1>15, <1>16, <1>17, <1>18, <1>19, <1>20, <1>21, <1>22, <1>23
     DEF Next, HandlerOwn, TunnelOwn, ControlOwn

\* Sessions are named by attempts.
LEMMA OpenTypes == ASSUME IInv, [Next]_vars PROVE OpenOK'
<1> USE DEF OpenOK
<1>t. open \in [Clients -> SUBSET Nat] /\ attempt \in [Clients -> Nat] /\ quic \in [Clients -> Nat]
  BY DEF IInv, DataOK, AttemptsOK, OpenOK, DispatcherAssumption
<1>1. ASSUME NEW c \in Clients, GivesUp(c) PROVE OpenOK'
  BY <1>t, <1>1, SMT DEF GivesUp, Goto
<1>2. ASSUME NEW c \in Clients, HandshakeDone(c) PROVE OpenOK'
  BY <1>t, <1>2, SMT DEF HandshakeDone, LoopHead, Goto, MayDial
<1>3. ASSUME NEW c \in Clients, Acquired(c) PROVE OpenOK'
  BY <1>t, <1>3, SMT DEF Acquired, Goto
<1>4. ASSUME NEW c \in Clients, AcquireFails(c) PROVE OpenOK'
  BY <1>t, <1>4, SMT DEF AcquireFails, Refuse, SendOnce, MaySend, IsFinal, Goto
<1>5. ASSUME NEW c \in Clients, BackedOff(c) PROVE OpenOK'
  BY <1>t, <1>5, SMT DEF BackedOff, LoopHead, Goto, MayDial
<1>6. ASSUME NEW c \in Clients, Replied(c) PROVE OpenOK'
  BY <1>t, <1>6, SMT DEF Replied, Goto
<1>7. ASSUME NEW c \in Clients, Finally(c) PROVE OpenOK'
  BY <1>t, <1>7, SMT DEF Finally, Goto
<1>8. ASSUME NEW c \in Clients, TunnelStep(c) PROVE OpenOK'
  BY <1>t, <1>8, SMT DEF TunnelStep, Callbacks, SendOnce, MaySend
<1>9. ASSUME NEW c \in Clients, TunnelReturns(c) PROVE OpenOK'
  <2>1. open' = [open EXCEPT ![c] = open[c] \ {quic[c]}] \/ UNCHANGED open
    BY <1>t, <1>9 DEF TunnelReturns
  <2>q. QED
    BY <1>t, <2>1
<1>10. ASSUME NEW c \in Clients, StaleSuccess(c) PROVE OpenOK'
  BY <1>t, <1>10, SMT DEF StaleSuccess, SendOnce, MaySend
<1>11. ASSUME NEW c \in Clients, NEW l \in Listeners, Accept(c, l) PROVE OpenOK'
  BY <1>t, <1>11, SMT DEF Accept, HasRoom
<1>12. ASSUME NEW l \in Listeners, ListenerFails(l) PROVE OpenOK'
  BY <1>t, <1>12, SMT DEF ListenerFails
<1>13. ASSUME NEW l \in Listeners, ListenerClosed(l) PROVE OpenOK'
  BY <1>t, <1>13, SMT DEF ListenerClosed
<1>14. CASE StopListener
  BY <1>t, <1>14, SMT DEF StopListener
<1>15. CASE CancelHandlers
  BY <1>t, <1>15, SMT DEF CancelHandlers, CancelAll, Awaited
<1>16. CASE HandlersSettled
  BY <1>t, <1>16, SMT DEF HandlersSettled, AfterStop
<1>17. CASE Bind
  BY <1>t, <1>17, SMT DEF Bind
<1>18. CASE BindFails
  BY <1>t, <1>18, SMT DEF BindFails, BeginStop
<1>19. CASE Start
  BY <1>t, <1>19, SMT DEF Start, BeginStop
<1>20. CASE Stop
  BY <1>t, <1>20, SMT DEF Stop, BeginStop
<1>21. CASE DropAllConnections
  BY <1>t, <1>21, SMT DEF DropAllConnections, CancelAll
<1>22. CASE NetworkFlips
  BY <1>t, <1>22, SMT DEF NetworkFlips
<1>23. CASE UNCHANGED vars
  BY <1>t, <1>23, SMT DEF vars
<1>q. QED
  BY <1>1, <1>2, <1>3, <1>4, <1>5, <1>6, <1>7, <1>8, <1>9, <1>10, <1>11, <1>12,
     <1>13, <1>14, <1>15, <1>16, <1>17, <1>18, <1>19, <1>20, <1>21, <1>22, <1>23
     DEF Next, HandlerOwn, TunnelOwn, ControlOwn

\* SendOnce: at most one reply, and no reply is taken back.
LEMMA Replying ==
    ASSUME NEW c \in Clients, NEW reply \in {"success", "failure"},
           Latch, proxyReplied \in [Clients -> BOOLEAN], SendOnce(c, reply)
    PROVE  /\ Latch' /\ replies'[c] # <<>>
           /\ \A d \in Clients : replies[d] # <<>> => replies'[d] # <<>>
<1> USE DEF Latch
<1>1. proxyReplied' \in [Clients -> BOOLEAN] /\ proxyReplied'[c]
      /\ \A d \in Clients \ {c} : proxyReplied'[d] <=> proxyReplied[d]
  BY Zenon DEF SendOnce
<1>2. CASE proxyReplied[c]
  <2>1. replies' = replies
    BY <1>2, Zenon DEF SendOnce, MaySend
  <2>2. QED
    BY <1>1, <1>2, <2>1
<1>3. CASE ~proxyReplied[c]
  <2>1. replies' = [replies EXCEPT ![c] = Append(@, reply)] /\ replies[c] = <<>>
    BY <1>3, Zenon DEF SendOnce, MaySend
  <2>2. Append(replies[c], reply) \in Seq({"success", "failure"})
        /\ Len(Append(replies[c], reply)) = 1
    BY <2>1
  <2>3. /\ replies' \in [Clients -> Seq({"success", "failure"})]
        /\ \A d \in Clients \ {c} : replies'[d] = replies[d]
    BY <2>1, <2>2
  <2>4. replies'[c] = Append(replies[c], reply)
    BY <2>1
  <2>5. replies'[c] # <<>>
    BY <2>2, <2>4
  <2>6. Latch'
    <3>1. ASSUME NEW d \in Clients, d # c
          PROVE  Len(replies'[d]) <= 1 /\ (proxyReplied'[d] <=> replies'[d] # <<>>)
      BY <1>1, <2>3, <3>1
    <3>2. Len(replies'[c]) <= 1 /\ (proxyReplied'[c] <=> replies'[c] # <<>>)
      BY <1>1, <2>2, <2>4, <2>5
    <3>3. QED
      BY <2>3, <3>1, <3>2
  <2>7. QED
    BY <2>1, <2>3, <2>5, <2>6
<1>4. QED
  BY <1>2, <1>3

\* Sessions and the tunnels that hold them.
LEMMA HeldStep == ASSUME IInv, [Next]_vars PROVE Held'
<1> USE DEF Held
<1>t. /\ pc \in [Clients -> Pcs] /\ tun \in [Clients -> Tunnels] /\ open \in [Clients -> SUBSET Nat]
      /\ attempt \in [Clients -> Nat] /\ quic \in [Clients -> Nat] /\ Held
      /\ \A c \in Clients : pc[c] \in {"acquire", "tunnel"} => attempt[c] # 0
  BY DEF IInv, FlagsOK, DataOK, PlacesOK, AttemptsOK, OpenOK, Attempts,
       DispatcherAssumption
<1>1. ASSUME NEW c \in Clients, GivesUp(c) PROVE Held'
  BY <1>t, <1>1, SMT DEF GivesUp, Goto
<1>2. ASSUME NEW c \in Clients, HandshakeDone(c) PROVE Held'
  <2>1. CASE MayDial
    BY <1>t, <1>2, <2>1, SMTT(30) DEF HandshakeDone, LoopHead, Goto
  <2>2. CASE ~MayDial
    BY <1>t, <1>2, <2>2, SMTT(30) DEF HandshakeDone, LoopHead, Goto
  <2>q. QED
    BY <2>1, <2>2
<1>3. ASSUME NEW c \in Clients, Acquired(c) PROVE Held'
  BY <1>t, <1>3, FreshTunnel, SMT DEF Acquired, Goto
<1>4. ASSUME NEW c \in Clients, AcquireFails(c) PROVE Held'
  BY <1>t, <1>4, SMT DEF AcquireFails, Refuse, SendOnce, MaySend, IsFinal, Goto
<1>5. ASSUME NEW c \in Clients, BackedOff(c) PROVE Held'
  <2>1. CASE MayDial
    BY <1>t, <1>5, <2>1, SMTT(30) DEF BackedOff, LoopHead, Goto
  <2>2. CASE ~MayDial
    BY <1>t, <1>5, <2>2, SMTT(30) DEF BackedOff, LoopHead, Goto
  <2>q. QED
    BY <2>1, <2>2
<1>6. ASSUME NEW c \in Clients, Replied(c) PROVE Held'
  BY <1>t, <1>6, SMT DEF Replied, Goto
<1>7. ASSUME NEW c \in Clients, Finally(c) PROVE Held'
  BY <1>t, <1>7, SMT DEF Finally, Goto
<1>8. ASSUME NEW c \in Clients, TunnelStep(c) PROVE Held'
  <2>1. PICK t \in Successors(tun[c], IsFinal(c)) :
           tun' = [tun EXCEPT ![c] = t] /\ ~t.returned /\ pc[c] = "tunnel"
           /\ open' = [open EXCEPT ![c] = IF t.open THEN open[c] ELSE open[c] \ {attempt[c]}]
           /\ UNCHANGED <<pc, quic, attempt>>
    BY <1>t, <1>8 DEF TunnelStep
  <2>2. /\ t \in Tunnels /\ (t["open"] => tun[c]["open"])
        /\ (t["returned"] => tun[c]["returned"] \/ ~tun[c]["open"])
    BY <1>t, ContractStep, IsFinal(c) \in BOOLEAN DEF IsFinal
  <2>q. QED
    BY <1>t, <2>1, <2>2
<1>9. ASSUME NEW c \in Clients, TunnelReturns(c) PROVE Held'
  <2>1. PICK t \in Successors(tun[c], IsFinal(c)) :
           tun' = [tun EXCEPT ![c] = t] /\ t.returned /\ pc[c] = "tunnel" 
    BY <1>t, <1>9 DEF TunnelReturns
  <2>2. /\ t \in Tunnels /\ (t["open"] => tun[c]["open"])
        /\ (t["returned"] => tun[c]["returned"] \/ ~tun[c]["open"])
    BY <1>t, ContractStep, IsFinal(c) \in BOOLEAN DEF IsFinal
  <2>3. open[c] = {}
    BY <1>t, <2>1, <2>2
  <2>t. open' = open \/ open' = [open EXCEPT ![c] = @ \ {quic[c]}]
    BY <1>9, ZenonT(30) DEF TunnelReturns
  <2>4. \A d \in Clients : open'[d] = open[d]
    BY <1>t, <2>3, <2>t
  <2>5. \E p \in {"closing", "reply", "backoff"} : pc' = [pc EXCEPT ![c] = p]
    BY <1>t, <1>9 DEF TunnelReturns, Refuse, Goto
  <2>6. UNCHANGED <<quic, attempt>>
    BY <1>t, <1>9 DEF TunnelReturns
  <2>q. QED
    BY <1>t, <2>1, <2>3, <2>4, <2>5, <2>6
<1>10. ASSUME NEW c \in Clients, StaleSuccess(c) PROVE Held'
  BY <1>t, <1>10, SMT DEF StaleSuccess, SendOnce, MaySend
<1>11. ASSUME NEW c \in Clients, NEW l \in Listeners, Accept(c, l) PROVE Held'
  BY <1>t, <1>11, SMT DEF Accept, HasRoom
<1>12. ASSUME NEW l \in Listeners, ListenerFails(l) PROVE Held'
  BY <1>t, <1>12, SMT DEF ListenerFails
<1>13. ASSUME NEW l \in Listeners, ListenerClosed(l) PROVE Held'
  BY <1>t, <1>13, SMT DEF ListenerClosed
<1>14. CASE StopListener
  BY <1>t, <1>14, SMT DEF StopListener
<1>15. CASE CancelHandlers
  <2>1. /\ UNCHANGED <<pc, quic, attempt>>
        /\ open' = [c \in Clients |-> IF c \in activeHandlers THEN open[c] \ {quic[c]} ELSE open[c]]
    BY <1>t, <1>15 DEF CancelHandlers, CancelAll
  <2>2. \A c \in Clients :
           /\ (tun'[c]["returned"] <=> tun[c]["returned"])
           /\ (tun'[c] = tun[c] \/ (c \in activeHandlers /\ quic[c] # 0 /\ ~tun'[c]["open"]))
    BY <1>t, <1>t, <1>15, Cancelling DEF CancelHandlers
  <2>q. QED
    BY <1>t, <2>1, <2>2
<1>16. CASE HandlersSettled
  BY <1>t, <1>16, SMT DEF HandlersSettled, AfterStop
<1>17. CASE Bind
  BY <1>t, <1>17, SMT DEF Bind
<1>18. CASE BindFails
  BY <1>t, <1>18, SMT DEF BindFails, BeginStop
<1>19. CASE Start
  BY <1>t, <1>19, SMT DEF Start, BeginStop
<1>20. CASE Stop
  BY <1>t, <1>20, SMT DEF Stop, BeginStop
<1>21. CASE DropAllConnections
  <2>1. /\ UNCHANGED <<pc, quic, attempt>>
        /\ open' = [c \in Clients |-> IF c \in activeHandlers THEN open[c] \ {quic[c]} ELSE open[c]]
    BY <1>t, <1>21 DEF DropAllConnections, CancelAll
  <2>2. \A c \in Clients :
           /\ (tun'[c]["returned"] <=> tun[c]["returned"])
           /\ (tun'[c] = tun[c] \/ (c \in activeHandlers /\ quic[c] # 0 /\ ~tun'[c]["open"]))
    BY <1>t, <1>t, <1>21, Cancelling DEF DropAllConnections
  <2>q. QED
    BY <1>t, <2>1, <2>2
<1>22. CASE NetworkFlips
  BY <1>t, <1>22, SMT DEF NetworkFlips
<1>23. CASE UNCHANGED vars
  BY <1>t, <1>23, SMT DEF vars
<1>q. QED
  BY <1>1, <1>2, <1>3, <1>4, <1>5, <1>6, <1>7, <1>8, <1>9, <1>10, <1>11, <1>12,
     <1>13, <1>14, <1>15, <1>16, <1>17, <1>18, <1>19, <1>20, <1>21, <1>22, <1>23
     DEF Next, HandlerOwn, TunnelOwn, ControlOwn

\* One reply, whoever sends it.
LEMMA LatchStep == ASSUME IInv, [Next]_vars PROVE Latch'
<1> USE DEF Latch
<1>t. /\ Latch /\ proxyReplied \in [Clients -> BOOLEAN]
  BY DEF IInv, FlagsOK
<1>1. ASSUME NEW c \in Clients, GivesUp(c) PROVE Latch'
  BY <1>t, <1>1, SMT DEF GivesUp, Goto
<1>2. ASSUME NEW c \in Clients, HandshakeDone(c) PROVE Latch'
  BY <1>t, <1>2, SMT DEF HandshakeDone, LoopHead, Goto, MayDial
<1>3. ASSUME NEW c \in Clients, Acquired(c) PROVE Latch'
  BY <1>t, <1>3, SMT DEF Acquired, Goto
<1>4. ASSUME NEW c \in Clients, AcquireFails(c) PROVE Latch'
  <2>1. SendOnce(c, "failure") \/ UNCHANGED replyVars
    BY <1>t, <1>4, Zenon DEF AcquireFails, Refuse
  <2>2. CASE UNCHANGED replyVars
    BY <1>t, <2>2 DEF Latch
  <2>q. QED
    BY <1>t, <2>1, <2>2, Replying
<1>5. ASSUME NEW c \in Clients, BackedOff(c) PROVE Latch'
  BY <1>t, <1>5, SMT DEF BackedOff, LoopHead, Goto, MayDial
<1>6. ASSUME NEW c \in Clients, Replied(c) PROVE Latch'
  BY <1>t, <1>6, SMT DEF Replied, Goto
<1>7. ASSUME NEW c \in Clients, Finally(c) PROVE Latch'
  BY <1>t, <1>7, SMT DEF Finally, Goto
<1>8. ASSUME NEW c \in Clients, TunnelStep(c) PROVE Latch'
  <2>1. SendOnce(c, "failure") \/ SendOnce(c, "success") \/ UNCHANGED replyVars
    BY <1>t, <1>8, Zenon DEF TunnelStep, Callbacks
  <2>2. CASE UNCHANGED replyVars
    BY <1>t, <2>2 DEF Latch
  <2>q. QED
    BY <1>t, <2>1, <2>2, Replying
<1>9. ASSUME NEW c \in Clients, TunnelReturns(c) PROVE Latch'
  <2>1. SendOnce(c, "failure") \/ UNCHANGED replyVars
    BY <1>t, <1>9, Zenon DEF TunnelReturns, Refuse
  <2>2. CASE UNCHANGED replyVars
    BY <1>t, <2>2 DEF Latch
  <2>q. QED
    BY <1>t, <2>1, <2>2, Replying
<1>10. ASSUME NEW c \in Clients, StaleSuccess(c) PROVE Latch'
  <2>1. SendOnce(c, "failure") \/ SendOnce(c, "success") \/ UNCHANGED replyVars
    BY <1>t, <1>10, Zenon DEF StaleSuccess
  <2>2. CASE UNCHANGED replyVars
    BY <1>t, <2>2 DEF Latch
  <2>q. QED
    BY <1>t, <2>1, <2>2, Replying
<1>11. ASSUME NEW c \in Clients, NEW l \in Listeners, Accept(c, l) PROVE Latch'
  BY <1>t, <1>11, SMT DEF Accept, HasRoom
<1>12. ASSUME NEW l \in Listeners, ListenerFails(l) PROVE Latch'
  BY <1>t, <1>12, SMT DEF ListenerFails
<1>13. ASSUME NEW l \in Listeners, ListenerClosed(l) PROVE Latch'
  BY <1>t, <1>13, SMT DEF ListenerClosed
<1>14. CASE StopListener
  BY <1>t, <1>14, SMT DEF StopListener
<1>15. CASE CancelHandlers
  BY <1>t, <1>15, SMT DEF CancelHandlers, CancelAll, Awaited
<1>16. CASE HandlersSettled
  BY <1>t, <1>16, SMT DEF HandlersSettled, AfterStop
<1>17. CASE Bind
  BY <1>t, <1>17, SMT DEF Bind
<1>18. CASE BindFails
  BY <1>t, <1>18, SMT DEF BindFails, BeginStop
<1>19. CASE Start
  BY <1>t, <1>19, SMT DEF Start, BeginStop
<1>20. CASE Stop
  BY <1>t, <1>20, SMT DEF Stop, BeginStop
<1>21. CASE DropAllConnections
  BY <1>t, <1>21, SMT DEF DropAllConnections, CancelAll
<1>22. CASE NetworkFlips
  BY <1>t, <1>22, SMT DEF NetworkFlips
<1>23. CASE UNCHANGED vars
  BY <1>t, <1>23, SMT DEF vars
<1>q. QED
  BY <1>1, <1>2, <1>3, <1>4, <1>5, <1>6, <1>7, <1>8, <1>9, <1>10, <1>11, <1>12,
     <1>13, <1>14, <1>15, <1>16, <1>17, <1>18, <1>19, <1>20, <1>21, <1>22, <1>23
     DEF Next, HandlerOwn, TunnelOwn, ControlOwn

\* A confirmed tunnel has replied.
LEMMA ToldStep == ASSUME IInv, [Next]_vars PROVE Told'
<1> USE DEF Told
<1>t. /\ pc \in [Clients -> Pcs] /\ tun \in [Clients -> Tunnels]
      /\ Latch /\ proxyReplied \in [Clients -> BOOLEAN]
      /\ Held /\ Told /\ Latch'
  BY LatchStep DEF IInv, FlagsOK, DataOK, PlacesOK
<1>r. ASSUME NEW d \in Clients, NEW reply \in {"success", "failure"}, SendOnce(d, reply)
      PROVE  replies'[d] # <<>> /\ \A e \in Clients : replies[e] # <<>> => replies'[e] # <<>>
  BY <1>t, <1>r, Replying
<1>1. ASSUME NEW c \in Clients, GivesUp(c) PROVE Told'
  BY <1>t, <1>1, SMT DEF GivesUp, Goto, Held
<1>2. ASSUME NEW c \in Clients, HandshakeDone(c) PROVE Told'
  <2>1. CASE MayDial
    BY <1>t, <1>2, <2>1, SMTT(30) DEF HandshakeDone, LoopHead, Goto
  <2>2. CASE ~MayDial
    BY <1>t, <1>2, <2>2, SMTT(30) DEF HandshakeDone, LoopHead, Goto
  <2>q. QED
    BY <2>1, <2>2
<1>3. ASSUME NEW c \in Clients, Acquired(c) PROVE Told'
  BY <1>t, <1>3, FreshTunnel, SMT DEF Acquired, Goto, Held
<1>4. ASSUME NEW c \in Clients, AcquireFails(c) PROVE Told'
  <2>1. \/ UNCHANGED replyVars /\ pc' = [pc EXCEPT ![c] = "backoff"]
        \/ SendOnce(c, "failure") /\ pc' = [pc EXCEPT ![c] = "reply"]
    <3>1. CASE IsFinal(c)
      BY <1>t, <1>4, <3>1, Zenon DEF AcquireFails, Refuse, Goto
    <3>2. CASE ~IsFinal(c)
      BY <1>t, <1>4, <3>2, Zenon DEF AcquireFails, Goto
    <3>3. QED
      BY <3>1, <3>2
  <2>2. UNCHANGED tun
    BY <1>t, <1>4 DEF AcquireFails
  <2>3. \A e \in Clients : replies[e] # <<>> => replies'[e] # <<>>
    BY <1>r, <2>1
  <2>4. pc'[c] = "reply" => replies'[c] # <<>>
    BY <1>t, <1>r, <2>1
  <2>q. QED
    BY <1>t, <2>1, <2>2, <2>3, <2>4
<1>5. ASSUME NEW c \in Clients, BackedOff(c) PROVE Told'
  <2>1. CASE MayDial
    BY <1>t, <1>5, <2>1, SMTT(30) DEF BackedOff, LoopHead, Goto
  <2>2. CASE ~MayDial
    BY <1>t, <1>5, <2>2, SMTT(30) DEF BackedOff, LoopHead, Goto
  <2>q. QED
    BY <2>1, <2>2
<1>6. ASSUME NEW c \in Clients, Replied(c) PROVE Told'
  BY <1>t, <1>6, SMT DEF Replied, Goto, Held
<1>7. ASSUME NEW c \in Clients, Finally(c) PROVE Told'
  BY <1>t, <1>7, SMT DEF Finally, Goto, Held
<1>8. ASSUME NEW c \in Clients, TunnelStep(c) PROVE Told'
  <2>1. PICK t \in Successors(tun[c], IsFinal(c)) :
           /\ tun' = [tun EXCEPT ![c] = t] /\ Callbacks(c, t) /\ pc[c] = "tunnel" /\ UNCHANGED pc
    BY <1>t, <1>8 DEF TunnelStep
  <2>2. SendOnce(c, "failure") \/ SendOnce(c, "success") \/ UNCHANGED replyVars
    BY <2>1, Zenon DEF Callbacks
  <2>3. \A e \in Clients : replies[e] # <<>> => replies'[e] # <<>>
    BY <1>r, <2>2
  <2>4. t["hs"] => replies'[c] # <<>>
    <3>1. CASE tun[c]["hs"]
      BY <1>t, <2>1, <2>3, <3>1
    <3>2. CASE t["hs"] /\ ~tun[c]["hs"]
      <4>1. SendOnce(c, "success")
        BY <2>1, <3>2, Zenon DEF Callbacks
      <4>2. QED
        BY <1>r, <4>1
    <3>3. QED
      BY <3>1, <3>2
  <2>q. QED
    BY <1>t, <2>1, <2>3, <2>4
<1>9. ASSUME NEW c \in Clients, TunnelReturns(c) PROVE Told'
  <2>0. pc[c] = "tunnel"
    BY <1>t, <1>9 DEF TunnelReturns
  <2>1. \/ UNCHANGED replyVars /\ \E p \in {"closing", "backoff"} : pc' = [pc EXCEPT ![c] = p]
        \/ SendOnce(c, "failure") /\ pc' = [pc EXCEPT ![c] = "reply"]
    BY <1>t, <1>9 DEF TunnelReturns, Refuse, Goto
  <2>2. PICK t : tun' = [tun EXCEPT ![c] = t]
    BY <1>t, <1>9 DEF TunnelReturns
  <2>3. \A e \in Clients : replies[e] # <<>> => replies'[e] # <<>>
    BY <1>r, <2>1
  <2>4. pc'[c] = "reply" => replies'[c] # <<>>
    BY <1>t, <1>r, <2>1
  <2>5. pc'[c] # "tunnel" /\ \A e \in Clients : e # c => pc'[e] = pc[e] /\ tun'[e] = tun[e]
    BY <1>t, <2>1, <2>2
  <2>q. QED
    BY <2>3, <2>4, <2>5, <1>t
<1>10. ASSUME NEW c \in Clients, StaleSuccess(c) PROVE Told'
  <2>1. UNCHANGED <<pc, tun>> /\ \A e \in Clients : replies[e] # <<>> => replies'[e] # <<>>
    BY <1>r, <1>t, <1>10 DEF StaleSuccess
  <2>q. QED
    BY <1>t, <2>1
<1>11. ASSUME NEW c \in Clients, NEW l \in Listeners, Accept(c, l) PROVE Told'
  BY <1>t, <1>11, SMT DEF Accept, HasRoom, Held
<1>12. ASSUME NEW l \in Listeners, ListenerFails(l) PROVE Told'
  BY <1>t, <1>12, SMT DEF ListenerFails, Held
<1>13. ASSUME NEW l \in Listeners, ListenerClosed(l) PROVE Told'
  BY <1>t, <1>13, SMT DEF ListenerClosed, Held
<1>14. CASE StopListener
  BY <1>t, <1>14, SMT DEF StopListener, Held
<1>15. CASE CancelHandlers
  <2>1. /\ UNCHANGED <<pc, replies>>
        /\ \A c \in Clients : tun'[c]["hs"] <=> tun[c]["hs"]
    BY <1>t, <1>t, <1>15, Cancelling DEF CancelHandlers
  <2>q. QED
    BY <1>t, <2>1
<1>16. CASE HandlersSettled
  BY <1>t, <1>16, SMT DEF HandlersSettled, AfterStop, Held
<1>17. CASE Bind
  BY <1>t, <1>17, SMT DEF Bind, Held
<1>18. CASE BindFails
  BY <1>t, <1>18, SMT DEF BindFails, BeginStop, Held
<1>19. CASE Start
  BY <1>t, <1>19, SMT DEF Start, BeginStop, Held
<1>20. CASE Stop
  BY <1>t, <1>20, SMT DEF Stop, BeginStop, Held
<1>21. CASE DropAllConnections
  <2>1. /\ UNCHANGED <<pc, replies>>
        /\ \A c \in Clients : tun'[c]["hs"] <=> tun[c]["hs"]
    BY <1>t, <1>t, <1>21, Cancelling DEF DropAllConnections
  <2>q. QED
    BY <1>t, <2>1
<1>22. CASE NetworkFlips
  BY <1>t, <1>22, SMT DEF NetworkFlips, Held
<1>23. CASE UNCHANGED vars
  BY <1>t, <1>23, SMT DEF vars, Held
<1>q. QED
  BY <1>1, <1>2, <1>3, <1>4, <1>5, <1>6, <1>7, <1>8, <1>9, <1>10, <1>11, <1>12,
     <1>13, <1>14, <1>15, <1>16, <1>17, <1>18, <1>19, <1>20, <1>21, <1>22, <1>23
     DEF Next, HandlerOwn, TunnelOwn, ControlOwn

\* Handlers, live clients, and what is kept for them.
LEMMA HandlersStep == ASSUME IInv, [Next]_vars PROVE Handlers'
<1> USE DEF Handlers
<1>t. /\ pc \in [Clients -> Pcs] /\ via \in [Clients -> 0..NumListeners] /\ Handlers
      /\ (stage = "handlers" => activeHandlers \subseteq awaited)
  BY DEF IInv, DataOK, PlacesOK, Control
<1>1. ASSUME NEW c \in Clients, GivesUp(c) PROVE Handlers'
  BY <1>t, <1>1, SMT DEF GivesUp, Goto, Live
<1>2. ASSUME NEW c \in Clients, HandshakeDone(c) PROVE Handlers'
  <2>1. CASE MayDial
    BY <1>t, <1>2, <2>1, SMTT(30) DEF HandshakeDone, LoopHead, Goto, Live
  <2>2. CASE ~MayDial
    BY <1>t, <1>2, <2>2, SMTT(30) DEF HandshakeDone, LoopHead, Goto, Live
  <2>q. QED
    BY <2>1, <2>2
<1>3. ASSUME NEW c \in Clients, Acquired(c) PROVE Handlers'
  BY <1>t, <1>3, SMT DEF Acquired, Goto, Live
<1>4. ASSUME NEW c \in Clients, AcquireFails(c) PROVE Handlers'
  <2>1. /\ pc[c] = "acquire"
        /\ \E p \in {"reply", "backoff"} : pc' = [pc EXCEPT ![c] = p]
        /\ UNCHANGED <<via, activeHandlers, cancelled, awaited, sessions>>
    BY <1>t, <1>4, Zenon DEF AcquireFails, Refuse, Goto
  <2>q. QED
    BY <1>t, <2>1 DEF Live
<1>5. ASSUME NEW c \in Clients, BackedOff(c) PROVE Handlers'
  <2>1. CASE MayDial
    BY <1>t, <1>5, <2>1, SMTT(30) DEF BackedOff, LoopHead, Goto, Live
  <2>2. CASE ~MayDial
    BY <1>t, <1>5, <2>2, SMTT(30) DEF BackedOff, LoopHead, Goto, Live
  <2>q. QED
    BY <2>1, <2>2
<1>6. ASSUME NEW c \in Clients, Replied(c) PROVE Handlers'
  BY <1>t, <1>6, SMT DEF Replied, Goto, Live
<1>7. ASSUME NEW c \in Clients, Finally(c) PROVE Handlers'
  BY <1>t, <1>7, SMT DEF Finally, Goto, Live
<1>8. ASSUME NEW c \in Clients, TunnelStep(c) PROVE Handlers'
  BY <1>t, <1>8, SMT DEF TunnelStep, Callbacks, SendOnce, MaySend, Live
<1>9. ASSUME NEW c \in Clients, TunnelReturns(c) PROVE Handlers'
  <2>1. /\ pc[c] = "tunnel"
        /\ \E p \in {"closing", "reply", "backoff"} : pc' = [pc EXCEPT ![c] = p]
        /\ UNCHANGED <<via, activeHandlers, cancelled, awaited, sessions>>
    BY <1>t, <1>9, Zenon DEF TunnelReturns, Refuse, Goto
  <2>q. QED
    BY <1>t, <2>1 DEF Live
<1>10. ASSUME NEW c \in Clients, StaleSuccess(c) PROVE Handlers'
  BY <1>t, <1>10, SMT DEF StaleSuccess, SendOnce, MaySend, Live
<1>11. ASSUME NEW c \in Clients, NEW l \in Listeners, Accept(c, l) PROVE Handlers'
  <2>1. CASE HasRoom(l) /\ online
    BY <1>t, <1>11, <2>1 DEF Accept, Live
  <2>2. CASE ~(HasRoom(l) /\ online)
    BY <1>t, <1>11, <2>2, SMTT(30) DEF Accept, Live
  <2>q. QED
    BY <2>1, <2>2
<1>12. ASSUME NEW l \in Listeners, ListenerFails(l) PROVE Handlers'
  BY <1>t, <1>12, SMT DEF ListenerFails, Live
<1>13. ASSUME NEW l \in Listeners, ListenerClosed(l) PROVE Handlers'
  BY <1>t, <1>13, SMT DEF ListenerClosed, Live
<1>14. CASE StopListener
  BY <1>t, <1>14, SMT DEF StopListener, Live
<1>15. CASE CancelHandlers
  BY <1>t, <1>15, SMT DEF CancelHandlers, CancelAll, Awaited, Live
<1>16. CASE HandlersSettled
  BY <1>t, <1>16, SMT DEF HandlersSettled, AfterStop, Live
<1>17. CASE Bind
  BY <1>t, <1>17, SMT DEF Bind, Live
<1>18. CASE BindFails
  BY <1>t, <1>18, SMT DEF BindFails, BeginStop, Live
<1>19. CASE Start
  BY <1>t, <1>19, SMT DEF Start, BeginStop, Live
<1>20. CASE Stop
  BY <1>t, <1>20, SMT DEF Stop, BeginStop, Live
<1>21. CASE DropAllConnections
  BY <1>t, <1>21, SMT DEF DropAllConnections, CancelAll, Live
<1>22. CASE NetworkFlips
  BY <1>t, <1>22, SMT DEF NetworkFlips, Live
<1>23. CASE UNCHANGED vars
  BY <1>t, <1>23, SMT DEF vars, Live
<1>q. QED
  BY <1>1, <1>2, <1>3, <1>4, <1>5, <1>6, <1>7, <1>8, <1>9, <1>10, <1>11, <1>12,
     <1>13, <1>14, <1>15, <1>16, <1>17, <1>18, <1>19, <1>20, <1>21, <1>22, <1>23
     DEF Next, HandlerOwn, TunnelOwn, ControlOwn

\* Where the client's data has not been touched.
LEMMA UnreadStep == ASSUME IInv, [Next]_vars PROVE Unread'
<1> USE DEF Unread
<1>t. /\ pc \in [Clients -> Pcs] /\ clientDataConsumed \in [Clients -> BOOLEAN] /\ Unread
  BY DEF IInv, FlagsOK, DataOK, PlacesOK
<1>1. ASSUME NEW c \in Clients, GivesUp(c) PROVE Unread'
  BY <1>t, <1>1, SMT DEF GivesUp, Goto
<1>2. ASSUME NEW c \in Clients, HandshakeDone(c) PROVE Unread'
  <2>1. CASE MayDial
    BY <1>t, <1>2, <2>1, SMTT(30) DEF HandshakeDone, LoopHead, Goto
  <2>2. CASE ~MayDial
    BY <1>t, <1>2, <2>2, SMTT(30) DEF HandshakeDone, LoopHead, Goto
  <2>q. QED
    BY <2>1, <2>2
<1>3. ASSUME NEW c \in Clients, Acquired(c) PROVE Unread'
  BY <1>t, <1>3, SMT DEF Acquired, Goto
<1>4. ASSUME NEW c \in Clients, AcquireFails(c) PROVE Unread'
  <2>1. /\ pc[c] = "acquire" /\ UNCHANGED clientDataConsumed
        /\ \E p \in {"reply", "backoff"} : pc' = [pc EXCEPT ![c] = p]
    BY <1>t, <1>4, Zenon DEF AcquireFails, Refuse, Goto
  <2>q. QED
    BY <1>t, <2>1
<1>5. ASSUME NEW c \in Clients, BackedOff(c) PROVE Unread'
  <2>1. CASE MayDial
    BY <1>t, <1>5, <2>1, SMTT(30) DEF BackedOff, LoopHead, Goto
  <2>2. CASE ~MayDial
    BY <1>t, <1>5, <2>2, SMTT(30) DEF BackedOff, LoopHead, Goto
  <2>q. QED
    BY <2>1, <2>2
<1>6. ASSUME NEW c \in Clients, Replied(c) PROVE Unread'
  BY <1>t, <1>6, SMT DEF Replied, Goto
<1>7. ASSUME NEW c \in Clients, Finally(c) PROVE Unread'
  BY <1>t, <1>7, SMT DEF Finally, Goto
<1>8. ASSUME NEW c \in Clients, TunnelStep(c) PROVE Unread'
  <2>1. /\ pc[c] = "tunnel" /\ UNCHANGED pc
        /\ \E t : clientDataConsumed' = [clientDataConsumed EXCEPT ![c] = clientDataConsumed[c] \/ t.read]
    BY <1>t, <1>8, Zenon DEF TunnelStep, Callbacks
  <2>q. QED
    BY <1>t, <2>1
<1>9. ASSUME NEW c \in Clients, TunnelReturns(c) PROVE Unread'
  <2>1. /\ pc[c] = "tunnel" /\ UNCHANGED clientDataConsumed
        /\ \/ \E p \in {"closing", "reply"} : pc' = [pc EXCEPT ![c] = p]
           \/ ~clientDataConsumed[c] /\ pc' = [pc EXCEPT ![c] = "backoff"]
    BY <1>t, <1>9, Zenon DEF TunnelReturns, NoRetry, Refuse, Goto
  <2>q. QED
    BY <1>t, <2>1
<1>10. ASSUME NEW c \in Clients, StaleSuccess(c) PROVE Unread'
  BY <1>t, <1>10, SMT DEF StaleSuccess, SendOnce, MaySend
<1>11. ASSUME NEW c \in Clients, NEW l \in Listeners, Accept(c, l) PROVE Unread'
  BY <1>t, <1>11, SMT DEF Accept, HasRoom
<1>12. ASSUME NEW l \in Listeners, ListenerFails(l) PROVE Unread'
  BY <1>t, <1>12, SMT DEF ListenerFails
<1>13. ASSUME NEW l \in Listeners, ListenerClosed(l) PROVE Unread'
  BY <1>t, <1>13, SMT DEF ListenerClosed
<1>14. CASE StopListener
  BY <1>t, <1>14, SMT DEF StopListener
<1>15. CASE CancelHandlers
  BY <1>t, <1>15, SMT DEF CancelHandlers, CancelAll, Awaited
<1>16. CASE HandlersSettled
  BY <1>t, <1>16, SMT DEF HandlersSettled, AfterStop
<1>17. CASE Bind
  BY <1>t, <1>17, SMT DEF Bind
<1>18. CASE BindFails
  BY <1>t, <1>18, SMT DEF BindFails, BeginStop
<1>19. CASE Start
  BY <1>t, <1>19, SMT DEF Start, BeginStop
<1>20. CASE Stop
  BY <1>t, <1>20, SMT DEF Stop, BeginStop
<1>21. CASE DropAllConnections
  BY <1>t, <1>21, SMT DEF DropAllConnections, CancelAll
<1>22. CASE NetworkFlips
  BY <1>t, <1>22, SMT DEF NetworkFlips
<1>23. CASE UNCHANGED vars
  BY <1>t, <1>23, SMT DEF vars
<1>q. QED
  BY <1>1, <1>2, <1>3, <1>4, <1>5, <1>6, <1>7, <1>8, <1>9, <1>10, <1>11, <1>12,
     <1>13, <1>14, <1>15, <1>16, <1>17, <1>18, <1>19, <1>20, <1>21, <1>22, <1>23
     DEF Next, HandlerOwn, TunnelOwn, ControlOwn

\* The slots of the listeners.
LEMMA SocketsStep == ASSUME IInv, [Next]_vars PROVE Sockets'
<1> USE DEF Sockets
<1>t. /\ activeSockets \in [Listeners -> SUBSET Clients] /\ via \in [Clients -> Nat]
      /\ listener \in [Listeners -> {"down", "up", "stopping", "drained", "failing"}]
      /\ MaxConnections \in Nat \ {0} /\ pc \in [Clients -> Pcs] /\ Sockets
      /\ \A c \in Clients : Live(c) <=> via[c] # 0
      /\ stage = "bind" => /\ at \in Listeners /\ Quiet(at) /\ \A c \in Clients : via[c] # at
  BY DEF IInv, DataOK, PlacesOK, ControlOK, Handlers, Control, DispatcherAssumption
<1>1. ASSUME NEW c \in Clients, GivesUp(c) PROVE Sockets'
  BY <1>t, <1>1, SMT DEF GivesUp, Goto
<1>2. ASSUME NEW c \in Clients, HandshakeDone(c) PROVE Sockets'
  <2>1. UNCHANGED <<activeSockets, via, listener>>
    BY <1>t, <1>2, Zenon DEF HandshakeDone
  <2>q. QED
    BY <1>t, <2>1
<1>3. ASSUME NEW c \in Clients, Acquired(c) PROVE Sockets'
  BY <1>t, <1>3, SMT DEF Acquired, Goto
<1>4. ASSUME NEW c \in Clients, AcquireFails(c) PROVE Sockets'
  <2>1. UNCHANGED <<activeSockets, via, listener>>
    BY <1>t, <1>4, Zenon DEF AcquireFails
  <2>q. QED
    BY <1>t, <2>1
<1>5. ASSUME NEW c \in Clients, BackedOff(c) PROVE Sockets'
  <2>1. UNCHANGED <<activeSockets, via, listener>>
    BY <1>t, <1>5, Zenon DEF BackedOff
  <2>q. QED
    BY <1>t, <2>1
<1>6. ASSUME NEW c \in Clients, Replied(c) PROVE Sockets'
  BY <1>t, <1>6, SMT DEF Replied, Goto
<1>7. ASSUME NEW c \in Clients, Finally(c) PROVE Sockets'
  <2> DEFINE m == via[c]
  <2>1. /\ activeSockets' = [activeSockets EXCEPT ![m] = activeSockets[m] \ {c}]
        /\ via' = [via EXCEPT ![c] = 0] /\ UNCHANGED listener /\ pc[c] = "closing"
    BY <1>t, <1>7 DEF Finally
  <2>2. ASSUME NEW l \in Listeners
        PROVE  activeSockets'[l] = IF l = m THEN activeSockets[l] \ {c} ELSE activeSockets[l]
    BY <1>t, <2>1
  <2>3. ASSUME NEW l \in Listeners
        PROVE  {d \in Clients : via'[d] = l} = {d \in Clients : via[d] = l} \ {c}
    BY <1>t, <2>1
  <2>4. ASSUME NEW l \in Listeners
        PROVE  /\ IsFiniteSet(activeSockets[l] \ {c})
               /\ Cardinality(activeSockets[l] \ {c}) <= MaxConnections
    <3>1. IsFiniteSet(activeSockets[l]) /\ Cardinality(activeSockets[l]) <= MaxConnections
      BY <1>t
    <3>2. Cardinality(activeSockets[l]) \in Nat
      BY <3>1, FS_CardinalityType
    <3>3. /\ IsFiniteSet(activeSockets[l] \ {c})
          /\ Cardinality(activeSockets[l] \ {c}) =
               IF c \in activeSockets[l] THEN Cardinality(activeSockets[l]) - 1
               ELSE Cardinality(activeSockets[l])
      BY <3>1, FS_RemoveElement
    <3>q. QED
      BY <1>t, <3>1, <3>2, <3>3
  <2> HIDE DEF m
  <2>5. ASSUME NEW l \in Listeners
        PROVE  /\ listener[l] = "up" => activeSockets'[l] = {d \in Clients : via'[d] = l}
               /\ listener[l] = "down" => activeSockets'[l] = {}
    <3>1. CASE l = m
      BY <1>t, <2>2, <2>3, <3>1
    <3>2. CASE l # m
      <4>1. {d \in Clients : via[d] = l} \ {c} = {d \in Clients : via[d] = l}
        BY <3>2 DEF m
      <4>2. activeSockets'[l] = activeSockets[l]
        BY <2>2, <3>2
      <4>3. QED
        BY <1>t, <2>3, <4>1, <4>2
    <3>q. QED
      BY <3>1, <3>2
  <2>6. ASSUME NEW l \in Listeners
        PROVE  IsFiniteSet(activeSockets'[l]) /\ Cardinality(activeSockets'[l]) <= MaxConnections
    <3>1. CASE l = m
      BY <2>2, <2>4, <3>1
    <3>2. CASE l # m
      BY <1>t, <2>2, <3>2
    <3>q. QED
      BY <3>1, <3>2
  <2>q. QED
    BY <2>1, <2>5, <2>6
<1>8. ASSUME NEW c \in Clients, TunnelStep(c) PROVE Sockets'
  BY <1>t, <1>8, SMT DEF TunnelStep, Callbacks, SendOnce, MaySend
<1>9. ASSUME NEW c \in Clients, TunnelReturns(c) PROVE Sockets'
  <2>1. UNCHANGED <<activeSockets, via, listener>>
    BY <1>t, <1>9, Zenon DEF TunnelReturns
  <2>q. QED
    BY <1>t, <2>1
<1>10. ASSUME NEW c \in Clients, StaleSuccess(c) PROVE Sockets'
  BY <1>t, <1>10, SMT DEF StaleSuccess, SendOnce, MaySend
<1>11. ASSUME NEW c \in Clients, NEW l \in Listeners, Accept(c, l) PROVE Sockets'
  <2>1. CASE HasRoom(l) /\ online
    <3>1. /\ activeSockets' = [activeSockets EXCEPT ![l] = activeSockets[l] \cup {c}]
          /\ via' = [via EXCEPT ![c] = l] /\ via[c] = 0 /\ l # 0
          /\ Cardinality(activeSockets[l]) < MaxConnections
      BY <1>t, <1>11, <2>1 DEF Accept, HasRoom, Live
    <3>2. /\ listener' = [listener EXCEPT ![l] = IF listener[l] = "stopping" THEN "drained" ELSE listener[l]]
          /\ listener[l] \in {"up", "stopping"}
      BY <1>t, <1>11 DEF Accept
    <3>3. /\ IsFiniteSet(activeSockets[l] \cup {c})
          /\ Cardinality(activeSockets[l] \cup {c}) <= MaxConnections
      <4>1. IsFiniteSet(activeSockets[l])
        BY <1>t
      <4>2. Cardinality(activeSockets[l]) \in Nat
        BY <4>1, FS_CardinalityType
      <4>3. /\ IsFiniteSet(activeSockets[l] \cup {c})
            /\ Cardinality(activeSockets[l] \cup {c}) =
                 IF c \in activeSockets[l] THEN Cardinality(activeSockets[l])
                 ELSE Cardinality(activeSockets[l]) + 1
        BY <4>1, FS_AddElement
      <4>4. QED
        BY <1>t, <3>1, <4>2, <4>3
    <3>4. listener[l] = "up" => activeSockets[l] \cup {c} = {d \in Clients : via'[d] = l}
      BY <1>t, <3>1
    <3>5. ASSUME NEW m \in Listeners, m # l
          PROVE  /\ activeSockets'[m] = activeSockets[m] /\ listener'[m] = listener[m]
                 /\ {d \in Clients : via'[d] = m} = {d \in Clients : via[d] = m}
      BY <1>t, <3>1, <3>2, <3>5
    <3>6. /\ activeSockets'[l] = activeSockets[l] \cup {c}
          /\ listener'[l] = IF listener[l] = "stopping" THEN "drained" ELSE listener[l]
      BY <1>t, <3>1, <3>2
    <3>7. ASSUME NEW m \in Listeners
          PROVE  /\ IsFiniteSet(activeSockets'[m])
                 /\ Cardinality(activeSockets'[m]) <= MaxConnections
                 /\ listener'[m] = "up" => activeSockets'[m] = {d \in Clients : via'[d] = m}
                 /\ listener'[m] = "down" => activeSockets'[m] = {}
      <4>0. /\ IsFiniteSet(activeSockets'[l])
            /\ Cardinality(activeSockets'[l]) <= MaxConnections
            /\ listener'[l] = "up" => activeSockets'[l] = {d \in Clients : via'[d] = l}
            /\ listener'[l] # "down"
        BY <3>2, <3>3, <3>4, <3>6
      <4>1. CASE m = l
        BY <4>0, <4>1
      <4>2. CASE m # l
        BY <1>t, <3>5, <4>2
      <4>3. QED
        BY <4>1, <4>2
    <3>q. QED
      BY <3>7
  <2>2. CASE ~(HasRoom(l) /\ online)
    BY <1>t, <1>11, <2>2 DEF Accept
  <2>q. QED
    BY <2>1, <2>2
<1>12. ASSUME NEW l \in Listeners, ListenerFails(l) PROVE Sockets'
  BY <1>t, <1>12, SMT DEF ListenerFails
<1>13. ASSUME NEW l \in Listeners, ListenerClosed(l) PROVE Sockets'
  <2>1. /\ activeSockets' = [activeSockets EXCEPT ![l] = {}] /\ UNCHANGED via
        /\ listener' = [listener EXCEPT ![l] = "down"]
    BY <1>t, <1>13 DEF ListenerClosed
  <2>q. QED
    BY <1>t, <2>1, FS_EmptySet
<1>14. CASE StopListener
  <2>1. UNCHANGED <<activeSockets, via>>
    BY <1>t, <1>14 DEF StopListener
  <2>2. \/ UNCHANGED listener
        \/ listener' = [listener EXCEPT ![at] = "stopping"] 
    BY <1>t, <1>14 DEF StopListener
  <2>q. QED
    BY <1>t, <2>1, <2>2
<1>15. CASE CancelHandlers
  BY <1>t, <1>15, SMT DEF CancelHandlers, CancelAll, Awaited
<1>16. CASE HandlersSettled
  BY <1>t, <1>16, SMT DEF HandlersSettled, AfterStop
<1>17. CASE Bind
  <2>1. /\ listener' = [listener EXCEPT ![at] = "up"] /\ UNCHANGED <<activeSockets, via>>
        /\ stage = "bind"
    BY <1>t, <1>17 DEF Bind
  <2>q. QED
    BY <1>t, <2>1 DEF Quiet
<1>18. CASE BindFails
  BY <1>t, <1>18, SMT DEF BindFails, BeginStop
<1>19. CASE Start
  BY <1>t, <1>19, SMT DEF Start, BeginStop
<1>20. CASE Stop
  BY <1>t, <1>20, SMT DEF Stop, BeginStop
<1>21. CASE DropAllConnections
  BY <1>t, <1>21, SMT DEF DropAllConnections, CancelAll
<1>22. CASE NetworkFlips
  BY <1>t, <1>22, SMT DEF NetworkFlips
<1>23. CASE UNCHANGED vars
  BY <1>t, <1>23, SMT DEF vars
<1>q. QED
  BY <1>1, <1>2, <1>3, <1>4, <1>5, <1>6, <1>7, <1>8, <1>9, <1>10, <1>11, <1>12,
     <1>13, <1>14, <1>15, <1>16, <1>17, <1>18, <1>19, <1>20, <1>21, <1>22, <1>23
     DEF Next, HandlerOwn, TunnelOwn, ControlOwn

\* How far start() and stop() have got.
LEMMA ControlStep == ASSUME IInv, [Next]_vars PROVE Control'
<1> USE DEF Control
<1>t. /\ ControlOK /\ PlacesOK /\ Control /\ NumListeners \in Nat \ {0}
      /\ activeHandlers = {c \in Clients : Live(c)}
      /\ \A c \in Clients : Live(c) <=> via[c] # 0
      /\ \A l \in Listeners : listener[l] = "down" => activeSockets[l] = {}
  BY DEF IInv, DataOK, Handlers, Sockets, DispatcherAssumption
<1>1. ASSUME NEW c \in Clients, GivesUp(c) PROVE Control'
  BY <1>t, <1>1, SMTT(30) DEF GivesUp, Goto, ControlOK, PlacesOK, Quiet
<1>2. ASSUME NEW c \in Clients, HandshakeDone(c) PROVE Control'
  BY <1>t, <1>2, SMTT(30)
     DEF HandshakeDone, LoopHead, Goto, MayDial, ControlOK, PlacesOK, Quiet
<1>3. ASSUME NEW c \in Clients, Acquired(c) PROVE Control'
  BY <1>t, <1>3, SMTT(30) DEF Acquired, Goto, ControlOK, PlacesOK, Quiet
<1>4. ASSUME NEW c \in Clients, AcquireFails(c) PROVE Control'
  BY <1>t, <1>4, SMTT(30)
     DEF AcquireFails, Refuse, SendOnce, MaySend, IsFinal, Goto, ControlOK, PlacesOK,
         Quiet
<1>5. ASSUME NEW c \in Clients, BackedOff(c) PROVE Control'
  BY <1>t, <1>5, SMTT(30)
     DEF BackedOff, LoopHead, Goto, MayDial, ControlOK, PlacesOK, Quiet
<1>6. ASSUME NEW c \in Clients, Replied(c) PROVE Control'
  BY <1>t, <1>6, SMTT(30) DEF Replied, Goto, ControlOK, PlacesOK, Quiet
<1>7. ASSUME NEW c \in Clients, Finally(c) PROVE Control'
  BY <1>t, <1>7, SMTT(30) DEF Finally, Goto, ControlOK, PlacesOK, Quiet
<1>8. ASSUME NEW c \in Clients, TunnelStep(c) PROVE Control'
  BY <1>t, <1>8, SMTT(30)
     DEF TunnelStep, Callbacks, SendOnce, MaySend, ControlOK, PlacesOK, Quiet
<1>9. ASSUME NEW c \in Clients, TunnelReturns(c) PROVE Control'
  BY <1>t, <1>9, SMTT(30)
     DEF TunnelReturns, NoRetry, IsFinal, Refuse, SendOnce, MaySend, Goto, ControlOK,
         PlacesOK, Quiet
<1>10. ASSUME NEW c \in Clients, StaleSuccess(c) PROVE Control'
  BY <1>t, <1>10, SMTT(30)
     DEF StaleSuccess, SendOnce, MaySend, ControlOK, PlacesOK, Quiet
<1>11. ASSUME NEW c \in Clients, NEW l \in Listeners, Accept(c, l) PROVE Control'
  BY <1>t, <1>11, SMTT(30) DEF Accept, HasRoom, ControlOK, PlacesOK, Quiet
<1>12. ASSUME NEW l \in Listeners, ListenerFails(l) PROVE Control'
  BY <1>t, <1>12, SMTT(30) DEF ListenerFails, ControlOK, PlacesOK, Quiet
<1>13. ASSUME NEW l \in Listeners, ListenerClosed(l) PROVE Control'
  BY <1>t, <1>13, SMTT(30) DEF ListenerClosed, ControlOK, PlacesOK, Quiet
<1>14. CASE StopListener
  BY <1>t, <1>14, SMTT(30) DEF StopListener, ControlOK, PlacesOK, Quiet
<1>15. CASE CancelHandlers
  BY <1>t, <1>15, SMTT(30)
     DEF CancelHandlers, CancelAll, Awaited, ControlOK, PlacesOK, Quiet
<1>16. CASE HandlersSettled
  <2>1. activeHandlers = {}
    BY <1>t, <1>t, <1>16 DEF HandlersSettled
  <2>2. \A c \in Clients : via[c] = 0
    BY <1>t, <2>1
  <2>3. CASE call = "start"
    <3>1. isRunning'
      BY <1>t, <1>16, <2>3, Zenon DEF HandlersSettled, AfterStop
    <3>2. /\ stage' = "bind" /\ call' = "start" /\ at' = 1
          /\ UNCHANGED <<listener, activeSockets, via>> /\ stage = "handlers"
      BY <1>t, <1>16, <2>3 DEF HandlersSettled, AfterStop
    <3>3. QED
      BY <1>t, <2>2, <3>1, <3>2 DEF ControlOK, PlacesOK, Quiet
  <2>4. CASE call # "start"
    BY <1>t, <1>t, <1>16, <2>1, <2>2, <2>4, SMT
       DEF HandlersSettled, AfterStop, ControlOK, PlacesOK, Quiet
  <2>q. QED
    BY <2>3, <2>4
<1>17. CASE Bind
  BY <1>t, <1>17, SMTT(30) DEF Bind, ControlOK, PlacesOK, Quiet
<1>18. CASE BindFails
  BY <1>t, <1>18, SMTT(30) DEF BindFails, BeginStop, ControlOK, PlacesOK, Quiet
<1>19. CASE Start
  BY <1>t, <1>19, SMTT(30) DEF Start, BeginStop, ControlOK, PlacesOK, Quiet
<1>20. CASE Stop
  BY <1>t, <1>20, SMTT(30) DEF Stop, BeginStop, ControlOK, PlacesOK, Quiet
<1>21. CASE DropAllConnections
  BY <1>t, <1>21, SMTT(30) DEF DropAllConnections, CancelAll, ControlOK, PlacesOK, Quiet
<1>22. CASE NetworkFlips
  BY <1>t, <1>22, SMTT(30) DEF NetworkFlips, ControlOK, PlacesOK, Quiet
<1>23. CASE UNCHANGED vars
  BY <1>t, <1>23, SMTT(30) DEF vars, ControlOK, PlacesOK, Quiet
<1>q. QED
  BY <1>1, <1>2, <1>3, <1>4, <1>5, <1>6, <1>7, <1>8, <1>9, <1>10, <1>11, <1>12,
     <1>13, <1>14, <1>15, <1>16, <1>17, <1>18, <1>19, <1>20, <1>21, <1>22, <1>23
     DEF Next, HandlerOwn, TunnelOwn, ControlOwn

LEMMA InitInv == Init => IInv
<1> SUFFICES ASSUME Init PROVE IInv
  OBVIOUS
<1> USE DEF Init
<1>1. FlagsOK
  BY FreshTunnel, Zenon DEF FlagsOK
<1>2. ControlOK /\ PlacesOK /\ AttemptsOK /\ OpenOK
  BY DEF ControlOK, PlacesOK, AttemptsOK, OpenOK, Pcs, DispatcherAssumption
<1>3. Attempts /\ Held /\ Told
  BY FreshTunnel DEF Attempts, Held, Told
<1>4. Latch
  BY DEF Latch
<1>5. Handlers /\ Unread
  BY DEF Handlers, Live, Unread
<1>6. Sockets
  BY FS_EmptySet, DispatcherAssumption DEF Sockets, DispatcherAssumption
<1>7. Control
  BY DEF Control, Quiet
<1>8. QED
  BY <1>1, <1>2, <1>3, <1>4, <1>5, <1>6, <1>7 DEF IInv, DataOK

LEMMA Invariance == Spec => []IInv
<1>1. ASSUME IInv, [Next]_vars PROVE IInv'
  BY <1>1, FlagsStep, ControlTypes, PlacesTypes, AttemptsTypes, OpenTypes, AttemptsStep,
     HeldStep, LatchStep, ToldStep, HandlersStep, UnreadStep, SocketsStep, ControlStep
     DEF IInv, DataOK
<1>2. QED
  BY <1>1, InitInv, PTL DEF Spec

-----------------------------------------------------------------------------
\* Types: no handler makes more than MAX_ATTEMPTS attempts or leaves more than
\* that many decoders behind, and only live handlers are cancelled.
THEOREM TypeCorrect == Spec => []TypeOK
<1>1. ASSUME IInv PROVE TypeOK
  <2>1. tun \in [Clients -> [DOMAIN Fresh -> BOOLEAN]]
    <3>1. DOMAIN Fresh = Fields
      BY DEF Fresh
    <3>2. QED
      BY <1>1, <3>1, Zenon DEF IInv, FlagsOK, Tunnels
  <2>2. open \in [Clients -> SUBSET (1..MAX_ATTEMPTS)]
    <3>1. ASSUME NEW c \in Clients PROVE open[c] \subseteq 1..MAX_ATTEMPTS
      <4>1. attempt[c] \in 0..MAX_ATTEMPTS /\ stale[c] \in 0..MAX_ATTEMPTS
        BY <1>1 DEF IInv, DataOK, AttemptsOK
      <4>2. CASE pc[c] = "tunnel"
        <5>1. stale[c] < attempt[c]
          BY <1>1, <4>2 DEF IInv, Attempts
        <5>2. attempt[c] \in 1..MAX_ATTEMPTS
          BY <4>1, <5>1
        <5>3. QED
          BY <1>1, <4>2, <5>2 DEF IInv, Held
      <4>3. CASE pc[c] # "tunnel"
        BY <1>1, <4>3 DEF IInv, Held
      <4>4. QED
        BY <4>2, <4>3
    <3>2. QED
      BY <1>1, <3>1 DEF IInv, DataOK, OpenOK
  <2>3. /\ isRunning \in BOOLEAN /\ online \in BOOLEAN
        /\ clientDataConsumed \in [Clients -> BOOLEAN]
        /\ proxyReplied \in [Clients -> BOOLEAN]
    BY <1>1, Zenon DEF IInv, FlagsOK
  <2>4. activeHandlers \subseteq Clients /\ cancelled \subseteq activeHandlers
        /\ awaited \subseteq Clients /\ sessions \subseteq Clients
    BY <1>1 DEF IInv, Handlers
  <2>5. ControlOK /\ PlacesOK /\ AttemptsOK
        /\ replies \in [Clients -> Seq({"success", "failure"})]
    BY <1>1 DEF IInv, DataOK, Latch
  <2>6. QED
    BY <2>1, <2>2, <2>3, <2>4, <2>5 DEF TypeOK, ControlOK, PlacesOK, AttemptsOK
<1>2. QED
  BY <1>1, Invariance, PTL

\* sendSuccessOnce, sendFailureOnce: one reply, whatever number of attempts and
\* of decoders that outlive them.
THEOREM AnsweredOnce == Spec => []OneReply
<1>1. IInv => OneReply
  BY DEF IInv, Latch, OneReply
<1>2. QED
  BY <1>1, Invariance, PTL

\* _processClient: no way out of an attempt leaves its session open.
THEOREM NoSessionLeft == Spec => []SessionsReleased
<1>1. IInv => SessionsReleased
  BY DEF IInv, Held, SessionsReleased
<1>2. QED
  BY <1>1, Invariance, PTL

\* TcpListener: the limit holds, and the slots in use are the live clients.
THEOREM SlotsAreExact == Spec => []SlotsExact
<1>1. IInv => SlotsExact
  BY DEF IInv, Sockets, Handlers, SlotsExact
<1>2. QED
  BY <1>1, Invariance, PTL

\* stop(): when it has returned nothing is left of any client.
THEOREM StopLeavesNothing == Spec => []StopIsComplete
<1>1. ASSUME IInv, ~isRunning, call = "none"
      PROVE  /\ \A l \in Listeners : listener[l] \in {"down", "failing"}
             /\ \A c \in Clients : ~Live(c) /\ open[c] = {}
             /\ sessions = {}
  <2>1. (\A l \in Listeners : Quiet(l)) /\ activeHandlers = {}
    BY <1>1 DEF IInv, Control
  <2>2. (\A c \in Clients : ~Live(c)) /\ sessions = {}
    BY <1>1, <2>1 DEF IInv, Handlers
  <2>3. QED
    BY <1>1, <2>1, <2>2 DEF IInv, Held, Live, Quiet
<1>2. IInv => StopIsComplete
  BY <1>1 DEF StopIsComplete
<1>3. QED
  BY <1>2, Invariance, PTL

\* The attempts: what has been read from the client is never sent again.
THEOREM NoAttemptAfterData == Spec => NoReplay
<1> DEFINE A == \A c \in Clients : attempt'[c] > attempt[c] => ~clientDataConsumed[c]
<1>1. ASSUME IInv, [Next]_vars PROVE [A]_vars
  <2> SUFFICES ASSUME Next, NEW c \in Clients, attempt'[c] > attempt[c]
               PROVE  ~clientDataConsumed[c]
    BY <1>1
  <2>1. attempt \in [Clients -> Nat] /\ DispatcherAssumption
    BY <1>1 DEF IInv, DataOK, AttemptsOK, DispatcherAssumption
  <2>2. attempt'[c] # attempt[c]
    BY <2>1
  <2>3. HandshakeDone(c) \/ BackedOff(c)
    <3>1. \/ UNCHANGED attempt
          \/ \E d \in Clients : HandshakeDone(d) \/ BackedOff(d) \/ Finally(d)
      BY DEF Next, HandlerOwn, TunnelOwn, ControlOwn, GivesUp, Acquired,
           AcquireFails, Replied,
             TunnelStep, TunnelReturns, StaleSuccess, Accept, ListenerFails, ListenerClosed,
             StopListener, CancelHandlers, HandlersSettled, Bind, BindFails, Start, Stop,
             DropAllConnections, NetworkFlips
    <3>2. PICK d \in Clients : HandshakeDone(d) \/ BackedOff(d) \/ Finally(d)
      BY <2>2, <3>1
    <3>3. CASE Finally(d)
      BY <2>1, <2>2, <3>3 DEF Finally
    <3>4. CASE HandshakeDone(d) \/ BackedOff(d)
      <4>1. \/ UNCHANGED attempt
            \/ attempt' = [attempt EXCEPT ![d] = attempt[d] + 1]
        BY <3>4 DEF HandshakeDone, BackedOff, LoopHead
      <4>2. c = d
        BY <2>1, <2>2, <4>1
      <4>3. QED
        BY <3>4, <4>2
    <3>5. QED
      BY <3>2, <3>3, <3>4
  <2>4. pc[c] \in {"opening", "backoff"}
    BY <2>3 DEF HandshakeDone, BackedOff
  <2>5. QED
    BY <1>1, <2>4 DEF IInv, Unread
<1>2. QED
  BY <1>1, Invariance, PTL DEF Spec, NoReplay

\* The finally clause: a tracked client of a running proxy has had its reply.
THEOREM EveryClientAnswered == Spec => ClientAnswered
<1> DEFINE A == \A c \in Clients :
        c \in sessions /\ pc[c] # "closing" /\ pc'[c] = "closing" /\ isRunning /\ online =>
            replies'[c] # <<>>
<1>1. ASSUME IInv, [Next]_vars PROVE [A]_vars
  <2> SUFFICES ASSUME Next, NEW c \in Clients, c \in sessions, pc[c] # "closing",
                      pc'[c] = "closing", isRunning, online
               PROVE  replies'[c] # <<>>
    BY <1>1
  <2>1. /\ pc \in [Clients -> Pcs] /\ tun \in [Clients -> Tunnels]
        /\ Told /\ Latch /\ Held /\ pc[c] # "opening"
    BY <1>1 DEF IInv, FlagsOK, DataOK, PlacesOK, Handlers
  <2>2. TunnelReturns(c) \/ Replied(c)
    <3>1. PICK d \in Clients : \/ HandshakeDone(d) \/ BackedOff(d) \/ GivesUp(d)
                               \/ TunnelReturns(d) \/ Replied(d)
      BY <2>1
         DEF Next, HandlerOwn, TunnelOwn, ControlOwn, Acquired, AcquireFails, Refuse,
             Goto,
             TunnelStep, StaleSuccess, Accept, ListenerFails, ListenerClosed, Finally,
             StopListener, CancelHandlers, HandlersSettled, Bind, BindFails, Start, Stop,
             DropAllConnections, NetworkFlips
    <3>2. d = c
      <4>1. \E p : pc' = [pc EXCEPT ![d] = p]
        BY <3>1
           DEF HandshakeDone, BackedOff, LoopHead, GivesUp, TunnelReturns, Refuse,
               Replied,
                    Goto
      <4>2. QED
        BY <2>1, <4>1
    <3>3. ~GivesUp(c)
      BY <2>1 DEF GivesUp
    <3>4. ~HandshakeDone(c) /\ ~BackedOff(c)
      BY <2>1 DEF HandshakeDone, BackedOff, LoopHead, MayDial, Goto
    <3>5. QED
      BY <3>1, <3>2, <3>3, <3>4
  <2>3. CASE Replied(c)
    BY <2>1, <2>3 DEF Replied, Told
  <2>4. CASE TunnelReturns(c)
    <3>0. PICK t \in Successors(tun[c], IsFinal(c)) :
              /\ t.returned /\ pc[c] = "tunnel"
              /\ \E o \in Outcomes(t) : IF o.success THEN UNCHANGED replyVars
                                       ELSE (Refuse(c) \/ Goto(c, "backoff"))
      BY <2>4, Zenon DEF TunnelReturns
    <3>1. PICK o \in Outcomes(t) : IF o.success THEN UNCHANGED replyVars
                                  ELSE (Refuse(c) \/ Goto(c, "backoff"))
      BY <3>0, Zenon
    <3>2. o.success
      BY <2>1, <3>0, <3>1 DEF Refuse, Goto
    <3>3. t["hs"]
      BY <3>2, Zenon DEF Outcomes
    <3>4. tun[c]["hs"]
      <4>1. IsFinal(c) \in BOOLEAN
        BY DEF IsFinal
      <4>2. QED
        BY <2>1, <3>0, <3>3, <4>1, ContractStep DEF Held
    <3>5. QED
      BY <2>1, <3>0, <3>1, <3>2, <3>4 DEF Told
  <2>5. QED
    BY <2>2, <2>3, <2>4
<1>2. QED
  BY <1>1, Invariance, PTL DEF Spec, ClientAnswered
=============================================================================
