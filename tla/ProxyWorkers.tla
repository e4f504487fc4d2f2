----------------------------- MODULE ProxyWorkers -----------------------------
(***************************************************************************)
(* The proxy run in workers (workers/*.js but for the bridge): the main    *)
(* thread with its ListenerWorkerClient and its WtWorkerManager, the       *)
(* listener worker that owns the sockets, and one session worker for each  *)
(* connection, which relays it in up to MAX_ATTEMPTS calls of              *)
(* BrookTunnel.run (TunnelSteps).                                          *)
(*                                                                         *)
(* A worker that is terminated takes what it has posted to the main thread *)
(* and not been heard yet with it; what it has posted to the other end of  *)
(* a MessagePort stays there.  STREAM_FIN, STREAM_CANCEL and STREAM_ERROR  *)
(* are one message, END.  A session that was cleaned up hears no more: its *)
(* handler still runs, but writes to a released writer.  The variables of  *)
(* a worker that has ended are back at their initial values.               *)
(***************************************************************************)
EXTENDS Integers, Sequences, FiniteSets, TunnelSteps

CONSTANTS
    Conns,             \* the sockets clients may open
    maxConnections,    \* of the TcpListener
    MAX_ATTEMPTS,
    MaxStarts          \* bound: calls of ListenerWorkerClient.start

Nobody == "nobody"     \* in the manager's map: no entry

ASSUME WorkersAssumption ==
    /\ maxConnections \in Nat /\ MAX_ATTEMPTS \in Nat \ {0} /\ MaxStarts \in Nat
    /\ IsFiniteSet(Conns) /\ Nobody \notin Conns

SessionIds == 1..Cardinality(Conns)

VARIABLES
    (* the listener worker *)
    starts,            \* listener workers made so far
    listener,          \* "none", "up" from the first attempt to bind on, or "failed"
    sessionCounter,
    sock,              \* each connection
    id,                \* its session id, 0 for none
    activeSockets,     \* of the TcpListener
    hasSentSuccess,
    told,              \* the proxy reply the client has got
    got,               \* the client has got data
    inbox,             \* messages at port1
    (* the main thread *)
    workers,           \* the manager's map
    mgrClosed,
    tracked,           \* ids with a session in the tracker
    (* the session workers *)
    wk, attempt, tun, wrote, stale, proxyReplied, consumed

listenVars == <<starts, listener, sessionCounter>>
clientVars == <<sock, id, activeSockets, hasSentSuccess, told, got>>
mainVars == <<workers, mgrClosed, tracked>>
tunVars == <<attempt, tun, wrote, stale, consumed>>
vars == <<listenVars, clientVars, inbox, mainVars, wk, tunVars, proxyReplied>>

Init ==
    /\ starts = 0 /\ listener = "none" /\ sessionCounter = 0
    /\ sock = [c \in Conns |-> "none"]
    /\ id = [c \in Conns |-> 0]
    /\ activeSockets = {}
    /\ hasSentSuccess = [c \in Conns |-> FALSE]
    /\ told = [c \in Conns |-> "none"]
    /\ got = [c \in Conns |-> FALSE]
    /\ inbox = [c \in Conns |-> <<>>]
    /\ workers = [i \in SessionIds |-> Nobody] /\ mgrClosed = FALSE /\ tracked = {}
    /\ wk = [c \in Conns |-> "none"]
    /\ attempt = [c \in Conns |-> 1]
    /\ tun = [c \in Conns |-> Fresh]
    /\ wrote = [c \in Conns |-> FALSE]
    /\ stale = [c \in Conns |-> FALSE]
    /\ proxyReplied = [c \in Conns |-> FALSE]
    /\ consumed = [c \in Conns |-> FALSE]

-----------------------------------------------------------------------------
(* ListenerWorkerClient and the life of the listener worker *)

\* terminate(): the sockets are closed, and with them the ports the listener
\* worker holds; requests the main thread has not heard are lost.
Terminated(state) ==
    /\ listener' = state /\ activeSockets' = {}
    /\ sock' = [c \in Conns |-> IF sock[c] = "none" THEN "none" ELSE "dead"]
    /\ inbox' = [c \in Conns |-> <<>>]
    /\ wk' = [c \in Conns |-> IF wk[c] = "requested" THEN "gone" ELSE wk[c]]
    /\ hasSentSuccess' = [c \in Conns |-> FALSE] /\ UNCHANGED id
    /\ told' = [c \in Conns |-> "none"] /\ got' = [c \in Conns |-> FALSE]

\* start() stops the worker there is before it makes a new one.
Start ==
    /\ starts < MaxStarts /\ starts' = starts + 1
    /\ Terminated("up") /\ sessionCounter' = 0
    /\ UNCHANGED <<mainVars, tunVars, proxyReplied>>

\* stop() does not wait for the STOP_LISTENERS it posts.
Stop ==
    /\ listener # "none" /\ Terminated("none")
    /\ UNCHANGED <<starts, sessionCounter, mainVars, tunVars, proxyReplied>>

\* What the sessions in the map become when they are closed: nothing is told to
\* their clients, and onDone is not called.
SessionsClosed ==
    /\ sock' = [c \in Conns |-> IF sock[c] = "open" THEN "flushed" ELSE sock[c]]
    /\ inbox' = [c \in Conns |-> IF sock[c] = "open" THEN <<>> ELSE inbox[c]]

\* startListeners cannot bind one of the two: stopListeners stops the other, which
\* may have accepted clients, and closes the sessions, and LISTENERS_ERROR is
\* posted.  A client whose handshake is under way finds its socket closed.  When
\* both are bound nothing changes but that this cannot happen any more; as binding
\* has no limit, nobody could tell.
BindFails ==
    /\ listener = "up" /\ listener' = "failed"
    /\ activeSockets' = {} /\ SessionsClosed
    /\ UNCHANGED <<starts, sessionCounter, id, hasSentSuccess, told, got, mainVars, wk, tunVars,
                   proxyReplied>>

-----------------------------------------------------------------------------
(* handleClientConnection *)

\* The SOCKS5 listener accepts as soon as it is up, while the other one binds.
Accept(c) ==
    /\ listener = "up" /\ sock[c] = "none"
    /\ IF Cardinality(activeSockets) < maxConnections
       THEN /\ sessionCounter' = sessionCounter + 1
            /\ id' = [id EXCEPT ![c] = sessionCounter + 1]
            /\ activeSockets' = activeSockets \cup {c}
            /\ sock' = [sock EXCEPT ![c] = "handshake"]
       ELSE sock' = [sock EXCEPT ![c] = "cleaned"] /\ UNCHANGED <<sessionCounter, id, activeSockets>>
    /\ UNCHANGED <<starts, listener, hasSentSuccess, told, got, inbox, mainVars, wk, tunVars,
                   proxyReplied>>

\* cleanupSession.
Cleanup(c) ==
    /\ sock' = [sock EXCEPT ![c] = "cleaned"] /\ inbox' = [inbox EXCEPT ![c] = <<>>]
    /\ activeSockets' = activeSockets \ {c}

\* Nothing was sent, or the handshake failed or took more than 8 s.
HandshakeFails(c) ==
    /\ sock[c] = "handshake" /\ Cleanup(c)
    /\ UNCHANGED <<listenVars, id, hasSentSuccess, told, got, mainVars, wk, tunVars, proxyReplied>>

RequestTunnel(c) ==
    /\ sock[c] = "handshake" /\ sock' = [sock EXCEPT ![c] = "open"]
    /\ wk' = [wk EXCEPT ![c] = "requested"]
    /\ UNCHANGED <<listenVars, id, activeSockets, hasSentSuccess, told, got, inbox, mainVars,
                   tunVars, proxyReplied>>

Reply(c, reply) ==
    /\ hasSentSuccess' = [hasSentSuccess EXCEPT ![c] = TRUE]
    /\ told' = IF ~hasSentSuccess[c] THEN [told EXCEPT ![c] = reply] ELSE told

\* port1.onmessage: one message, with the clean-up it leads to.  A write the
\* client does not take cleans up as well.
Hears(c) ==
    /\ inbox[c] # <<>>
    /\ LET m == Head(inbox[c])
           heard == inbox' = [inbox EXCEPT ![c] = Tail(@)] /\ UNCHANGED <<sock, activeSockets>>
       IN  \/ m = "READY" /\ Reply(c, "ready") /\ heard /\ UNCHANGED got
           \/ m = "FAILED" /\ Reply(c, "failed") /\ Cleanup(c) /\ UNCHANGED got
           \/ m = "DATA" /\ heard /\ got' = [got EXCEPT ![c] = TRUE]
              /\ UNCHANGED <<hasSentSuccess, told>>
           \/ m \in {"DATA", "END"} /\ Cleanup(c) /\ UNCHANGED <<hasSentSuccess, told, got>>
    /\ UNCHANGED <<listenVars, id, mainVars, wk, tunVars, proxyReplied>>

\* FLUSH_SESSIONS closes the ports and streams of the sessions in the map and
\* forgets them, which is all.
FlushSessions ==
    /\ \E c \in Conns : sock[c] = "open"
    /\ SessionsClosed
    /\ UNCHANGED <<listenVars, id, activeSockets, hasSentSuccess, told, got, mainVars, wk, tunVars,
                   proxyReplied>>

-----------------------------------------------------------------------------
(* The session worker: runWtTunnel *)

\* The messages at port1 once c's worker has posted m; after an END nothing
\* changes for the client any more.
Post(box, c, m) ==
    IF sock[c] # "open" \/ (box # <<>> /\ box[Len(box)] \in {"END", m}) THEN box
    ELSE Append(box, m)

\* sendSuccessOnce and sendFailureOnce.
ReplyOnce(c, m) == IF proxyReplied[c] THEN inbox[c] ELSE Post(inbox[c], c, m)

IsFinal(c) == attempt[c] = MAX_ATTEMPTS

\* The variables of the workers of cs, which have ended.
Forgotten(cs) ==
    /\ attempt' = [c \in Conns |-> IF c \in cs THEN 1 ELSE attempt[c]]
    /\ tun' = [c \in Conns |-> IF c \in cs THEN Fresh ELSE tun[c]]
    /\ wrote' = [c \in Conns |-> c \notin cs /\ wrote[c]]
    /\ stale' = [c \in Conns |-> c \notin cs /\ stale[c]]
    /\ consumed' = [c \in Conns |-> c \notin cs /\ consumed[c]]
    /\ proxyReplied' = [c \in Conns |-> c \notin cs /\ proxyReplied[c]]

\* Mutant: the client is not told of the failure.
Finish_Silent(c, ok) ==
    /\ wk' = [wk EXCEPT ![c] = "done"] /\ Forgotten({c}) /\ UNCHANGED inbox

\* The loop is left: on failure sendFailureOnce, then DONE and bridge.close().
Finish(c, ok) ==
    /\ wk' = [wk EXCEPT ![c] = "done"]
    /\ inbox' = [inbox EXCEPT ![c] = IF ok THEN @ ELSE ReplyOnce(c, "FAILED")]
    /\ Forgotten({c})

\* createSession, with the streams of a connection of its own.
Connects(c) ==
    /\ wk[c] = "connect" /\ wk' = [wk EXCEPT ![c] = "run"]
    /\ UNCHANGED <<listenVars, clientVars, inbox, mainVars, tunVars, proxyReplied>>

NextAttempt(c) ==
    /\ wk' = [wk EXCEPT ![c] = "connect"]
    /\ attempt' = [attempt EXCEPT ![c] = @ + 1]
    /\ tun' = [tun EXCEPT ![c] = Fresh] /\ wrote' = [wrote EXCEPT ![c] = FALSE]
    /\ UNCHANGED <<inbox, proxyReplied, consumed>>

ConnectFails(c) ==
    /\ wk[c] = "connect"
    /\ \/ IsFinal(c) /\ Finish(c, FALSE)
       \/ ~IsFinal(c) /\ NextAttempt(c) /\ UNCHANGED stale
    /\ UNCHANGED <<listenVars, clientVars, mainVars>>

\* One step of the running tunnel but its return: it confirms, refuses and reads
\* with the callbacks it was given.  Its session is closed with the return: no
\* step here depends on when.
TunnelRuns(c) ==
    /\ wk[c] = "run"
    /\ \E r \in Successors(tun[c], IsFinal(c)) :
          /\ ~r.returned /\ r.open
          /\ LET confirms == r.hs /\ ~tun[c].hs
                 refuses == r.refused /\ ~tun[c].refused
             IN  /\ inbox' = [inbox EXCEPT ![c] = IF confirms THEN ReplyOnce(c, "READY")
                                                  ELSE IF refuses THEN ReplyOnce(c, "FAILED") ELSE @]
                 /\ proxyReplied' = [proxyReplied EXCEPT ![c] = @ \/ confirms \/ refuses]
                 /\ consumed' = [consumed EXCEPT ![c] = @ \/ r.read]
          /\ tun' = [tun EXCEPT ![c] = r]
    /\ UNCHANGED <<listenVars, clientVars, mainVars, wk, attempt, wrote, stale>>

\* Mutant: data is passed on before the success reply.
Writes_Early(c) ==
    /\ wk[c] = "run" /\ ~wrote[c]
    /\ inbox' = [inbox EXCEPT ![c] = Post(@, c, "DATA")]
    /\ UNCHANGED <<listenVars, clientVars, mainVars, wk, tunVars, proxyReplied>>

\* Its writes through the bridge.
Writes(c) ==
    /\ wk[c] = "run" /\ tun[c].hs /\ ~wrote[c]
    /\ inbox' = [inbox EXCEPT ![c] = Post(@, c, "DATA")]
    /\ UNCHANGED <<listenVars, clientVars, mainVars, wk, tunVars, proxyReplied>>

\* The FIN of the server, which may come before its nonce, closes the writer, as
\* does the clean-up of a confirmed tunnel and of the last one: STREAM_FIN.
ClosesWriter(c) ==
    /\ wk[c] = "run" /\ ~wrote[c] /\ wrote' = [wrote EXCEPT ![c] = TRUE]
    /\ tun[c].ending => tun[c].hs \/ tun[c].refused
    /\ inbox' = [inbox EXCEPT ![c] = Post(@, c, "END")]
    /\ UNCHANGED <<listenVars, clientVars, mainVars, wk, attempt, tun, stale, consumed, proxyReplied>>

\* A failed attempt is not tried again.
GivesUp(c, o) == consumed[c] \/ proxyReplied[c] \/ o.received \/ o.fault \/ IsFinal(c)

TunnelReturns(c) ==
    /\ wk[c] = "run"
    /\ Returns(Without(tun[c], "open"), IsFinal(c)) # {} /\ (tun[c].hs \/ IsFinal(c) => wrote[c])
    /\ LET over == {o \in Outcomes(tun[c]) : o.success \/ GivesUp(c, o)}
       IN  \/ \E success \in {o.success : o \in over} : Finish(c, success)
           \/ Outcomes(tun[c]) # over /\ NextAttempt(c)
              /\ stale' = [stale EXCEPT ![c] = @ \/ tun[c].key]
    /\ UNCHANGED <<listenVars, clientVars, mainVars>>

\* A decoder of an earlier attempt confirms; it may hold the FIN as well.
StaleConfirms(c) ==
    /\ stale[c] /\ stale' = [stale EXCEPT ![c] = FALSE]
    /\ \E fin \in BOOLEAN :
          inbox' = [inbox EXCEPT ![c] = IF fin THEN Post(ReplyOnce(c, "READY"), c, "END")
                                        ELSE ReplyOnce(c, "READY")]
    /\ proxyReplied' = [proxyReplied EXCEPT ![c] = TRUE]
    /\ UNCHANGED <<listenVars, clientVars, mainVars, wk, attempt, tun, wrote, consumed>>

-----------------------------------------------------------------------------
(* WtWorkerManager *)

\* The entries of the ids are deleted and their sessions closed.
Forget(ids) ==
    /\ workers' = [i \in SessionIds |-> IF i \in ids THEN Nobody ELSE workers[i]]
    /\ tracked' = tracked \ ids

\* Mutant: the entry is deleted before it is looked up.
TerminateWorkers_MapOnly(ids) == Forget(ids) /\ UNCHANGED <<wk, tunVars, proxyReplied>>

\* _terminateWorker for each of the ids: it is the worker found in the map that
\* is terminated.
TerminateWorkers(ids) ==
    /\ Forget(ids)
    /\ LET cs == {c \in Conns : \E i \in ids : workers[i] = c}
       IN  wk' = [c \in Conns |-> IF c \in cs THEN "gone" ELSE wk[c]] /\ Forgotten(cs)

mgrUnchanged == <<listenVars, clientVars>>

\* spawnTunnelWorker.
Spawn(c) ==
    /\ wk[c] = "requested"
    /\ IF mgrClosed
       THEN /\ wk' = [wk EXCEPT ![c] = "gone"] /\ inbox' = [inbox EXCEPT ![c] = Post(@, c, "FAILED")]
            /\ UNCHANGED <<workers, tracked>>
       ELSE /\ wk' = [wk EXCEPT ![c] = "connect"]
            /\ workers' = [workers EXCEPT ![id[c]] = c]
            /\ tracked' = tracked \cup {id[c]}
            /\ UNCHANGED inbox
    /\ UNCHANGED <<mgrUnchanged, mgrClosed, tunVars, proxyReplied>>

\* DONE, or onerror when the script does not load: the entry of this id is
\* terminated, whosever it is; a worker that is not found there is left alone.
Done(c) ==
    /\ wk[c] = "done" \/ (wk[c] = "connect" /\ attempt[c] = 1)
    /\ Forget({id[c]})
    /\ wk' = [d \in Conns |-> IF workers[id[c]] = d THEN "gone" ELSE IF d = c THEN "left" ELSE wk[d]]
    /\ Forgotten({c} \cup {d \in Conns : workers[id[c]] = d})
    /\ UNCHANGED <<mgrUnchanged, inbox, mgrClosed>>

\* 120 s without a message.
Reap(i) ==
    /\ workers[i] # Nobody /\ ~mgrClosed
    /\ TerminateWorkers({i})
    /\ UNCHANGED <<mgrUnchanged, inbox, mgrClosed>>

FlushStalled ==
    /\ \E i \in SessionIds : workers[i] # Nobody
    /\ TerminateWorkers(SessionIds)
    /\ UNCHANGED <<mgrUnchanged, inbox, mgrClosed>>

MgrClose ==
    /\ ~mgrClosed /\ mgrClosed' = TRUE
    /\ TerminateWorkers({i \in SessionIds : workers[i] # Nobody})
    /\ UNCHANGED <<mgrUnchanged, inbox>>

-----------------------------------------------------------------------------
ListenerStep(c) == Accept(c) \/ HandshakeFails(c) \/ RequestTunnel(c) \/ Hears(c)

WorkerStep(c) ==
    \/ Connects(c) \/ ConnectFails(c) \/ TunnelRuns(c) \/ Writes(c) \/ ClosesWriter(c)
    \/ TunnelReturns(c) \/ StaleConfirms(c)

Next ==
    \/ Start \/ Stop \/ BindFails \/ FlushSessions \/ FlushStalled \/ MgrClose
    \/ \E c \in Conns : ListenerStep(c) \/ WorkerStep(c) \/ Spawn(c) \/ Done(c)
    \/ \E i \in SessionIds : Reap(i)

Spec == Init /\ [][Next]_vars

TypeOK ==
    /\ starts \in 0..MaxStarts /\ listener \in {"none", "up", "failed"}
    /\ sessionCounter \in 0..Cardinality(Conns)
    /\ sock \in [Conns -> {"none", "handshake", "open", "cleaned", "flushed", "dead"}]
    /\ id \in [Conns -> 0..Cardinality(Conns)]
    /\ activeSockets \subseteq Conns /\ Cardinality(activeSockets) <= maxConnections
    /\ hasSentSuccess \in [Conns -> BOOLEAN] /\ got \in [Conns -> BOOLEAN]
    /\ told \in [Conns -> {"none", "ready", "failed"}]
    /\ inbox \in [Conns -> Seq({"READY", "FAILED", "DATA", "END"})]
    /\ workers \in [SessionIds -> Conns \cup {Nobody}] /\ mgrClosed \in BOOLEAN
    /\ tracked \subseteq SessionIds
    /\ wk \in [Conns -> {"none", "requested", "connect", "run", "done", "gone", "left"}]
    /\ attempt \in [Conns -> 1..MAX_ATTEMPTS]
    /\ tun \in [Conns -> [Fields -> BOOLEAN]]
    /\ wrote \in [Conns -> BOOLEAN] /\ stale \in [Conns -> BOOLEAN]
    /\ proxyReplied \in [Conns -> BOOLEAN] /\ consumed \in [Conns -> BOOLEAN]

-----------------------------------------------------------------------------
(* Properties *)

Running(c) == wk[c] \in {"connect", "run", "done"}

\* A client that has got data was told of success before it, and of nothing
\* else: no attempt, late decoder or clean-up puts a second answer on the wire.
OneAnswer == \A c \in Conns : got[c] => told[c] = "ready"

\* As long as no other connection got its id from a later listener worker,
\* which counts from 1 again.
Known ==
    \A c \in Conns :
        Running(c) => workers[id[c]] = c \/ \E d \in Conns \ {c} : id[d] = id[c]

\* wt-worker-manager.js:27: a running worker can be found in the map, by the
\* reaper, the flush and close().  The variables keep their types, and the
\* tracker counts one session for each id that has an entry in the map, whoever
\* ended the others.
WorkersKnown == TypeOK /\ Known /\ tracked = {i \in SessionIds : workers[i] # Nobody}

\* A worker that is done has answered its client or closed the connection, even
\* when a late decoder used up its only answer.
Answered ==
    \A c \in Conns : wk[c] = "done" /\ inbox[c] = <<>> => told[c] # "none" \/ sock[c] # "open"
=============================================================================
