-------------------------------- MODULE WtPool --------------------------------
(***************************************************************************)
(* The pool of WebTransport connections                                    *)
(* (webtransport/wt-connection-manager.js) and the stream sessions that    *)
(* createSession hands out on them (webtransport/wt-stream-adapter.js).    *)
(*                                                                         *)
(* A dial <<s, n>> is one run of the body of _connectSlot for slot s,      *)
(* together with the transport it makes; flight[s] is the dial behind      *)
(* connectPromise and connectAbortController, which are set and cleared    *)
(* together.  A caller is a handler of the dispatcher: it asks for a       *)
(* session, holds it, closes it and may ask again.  Promises that are      *)
(* settled resume those who await them before the next event of the        *)
(* network; a dial that is over is as one that never was.                  *)
(***************************************************************************)
EXTENDS Integers, FiniteSets

CONSTANTS
    PoolSize,
    Callers,
    NumDials,         \* bound: dials of a slot alive at a time
    MaxResets         \* bound: calls of resetSession(), none by the application

ASSUME PoolAssumption ==
    /\ PoolSize \in Nat \ {0, 1} /\ NumDials \in Nat \ {0} /\ MaxResets \in Nat

Slots == 1..PoolSize
Dials == Slots \X (1..NumDials)
None == <<0, 0>>          \* null, where a dial or its transport may be

VARIABLES
    supported,                      \* getWebTransportClass() finds a class here, or never
    isClosed, online,
    slotState, transport, flight,   \* of each slot
    activeStreams,                  \* of each slot: callers with a session on it
    link, aborted,                  \* of each dial
    pc, awaits, chosen, on,         \* of each caller: the dial it awaits, the
                                    \* slot it chose, the transport that is to
                                    \* open its stream (None: that has rejected)
    joined,                         \* dials connect() still awaits
    connecting,                     \* connect() is in progress
    aggregate,                      \* this.state
    resets

slotVars == <<slotState, transport, flight>>
dialVars == <<link, aborted>>
callerVars == <<pc, awaits, chosen, on>>
connectVars == <<joined, connecting>>
poolVars == <<supported, isClosed, online, resets>>
vars == <<poolVars, slotVars, activeStreams, dialVars, callerVars, connectVars, aggregate>>

\* A browser or the bundle has the class; the package that stands in for it
\* elsewhere may be missing.
getWebTransportClass == supported \in BOOLEAN

Init ==
    /\ getWebTransportClass
    /\ isClosed = FALSE /\ online = TRUE /\ resets = 0
    /\ slotState = [s \in Slots |-> "disconnected"]
    /\ transport = [s \in Slots |-> None]
    /\ flight = [s \in Slots |-> None]
    /\ activeStreams = [s \in Slots |-> {}]
    /\ link = [d \in Dials |-> "closed"]
    /\ aborted = [d \in Dials |-> FALSE]
    /\ pc = [k \in Callers |-> "idle"]
    /\ awaits = [k \in Callers |-> None]
    /\ chosen = [k \in Callers |-> 0]
    /\ on = [k \in Callers |-> None]
    /\ joined = {} /\ connecting = FALSE
    /\ aggregate = "disconnected"

Connected == {s \in Slots : slotState[s] = "connected" /\ transport[s] # None}

\* _updateAggregateState
Summary(states, transports) ==
    IF \E s \in Slots : states[s] = "connected" /\ transports[s] # None THEN "connected"
    ELSE IF \E s \in Slots : states[s] = "connecting" THEN "connecting"
    ELSE "disconnected"

UpdateAggregate == aggregate' = Summary(slotState', transport')

-----------------------------------------------------------------------------
(* _connectSlot *)

\* Mutant: no single flight.
Dialable_Again(S) ==
    IF isClosed \/ ~online THEN {} ELSE {s \in S : s \notin Connected}

\* The slots of S for which _connectSlot starts a dial; for the others it
\* returns, throws, or returns the promise of the dial in flight.
Dialable(S) ==
    IF isClosed \/ ~online THEN {} ELSE {s \in S : s \notin Connected /\ flight[s] = None}

Free(s) == {n \in 1..NumDials : link[<<s, n>>] = "closed"}
NewDial(s) == <<s, CHOOSE n \in Free(s) : TRUE>>

\* _connectSlot, up to its first await, for each slot of S.
Dial(S) ==
    LET new == {NewDial(s) : s \in S} IN
    /\ \A s \in S : Free(s) # {}
    /\ slotState' = [s \in Slots |-> IF s \in S THEN "connecting" ELSE slotState[s]]
    /\ flight' = [s \in Slots |-> IF s \in S THEN NewDial(s) ELSE flight[s]]
    /\ link' = [d \in Dials |-> IF d \in new THEN "dialling" ELSE link[d]]
    /\ aborted' = [d \in Dials |-> d \notin new /\ aborted[d]]

\* The dials of ds are over, their transports closed; those of cut are aborted,
\* if they are not over yet.
Over(ds, cut) ==
    /\ link' = [d \in Dials |-> IF d \in ds THEN "closed" ELSE link[d]]
    /\ aborted' = [d \in Dials |->
                     d \notin ds /\ (aborted[d] \/ (d \in cut /\ link[d] = "dialling"))]

\* No caller is about to resume.
Resumed == \A k \in Callers : pc[k] # "dialled"
Delivered == Resumed /\ \A k \in Callers : pc[k] = "stream" => on[k] # None

\* connectPromise is settled: everyone who awaits it resumes.
Resume(d, to) == pc' = [k \in Callers |-> IF awaits[k] = d THEN to ELSE pc[k]]

Settle(d, to) ==
    /\ Resume(d, to)
    /\ awaits' = [k \in Callers |-> IF awaits[k] = d THEN None ELSE awaits[k]]
    /\ joined' = joined \ {d}

\* Mutant: the promise of a dial that is over is kept.
Cleared_Kept(s) == flight

\* The finally clause, for whichever promise the slot has got.
Cleared(s) == [flight EXCEPT ![s] = None]

\* The class cannot be had.  It is awaited before the try: promise and state of
\* the slot stay, and whoever asks for the slot gets the rejected promise, until
\* a reset.
ClassRejects(d) ==
    /\ link[d] = "dialling" /\ ~supported /\ Delivered
    /\ Over({d}, {})
    /\ Settle(d, "idle")
    /\ UNCHANGED <<poolVars, slotVars, activeStreams, chosen, on, connecting, aggregate>>

\* The transport is ready in time and the dial was not aborted.
DialReady(d) ==
    LET s == d[1] IN
    /\ link[d] = "dialling" /\ supported /\ ~aborted[d] /\ Delivered
    /\ link' = [link EXCEPT ![d] = "open"]
    /\ transport' = [transport EXCEPT ![s] = d]
    /\ slotState' = [slotState EXCEPT ![s] = "connected"]
    /\ flight' = Cleared(s)
    /\ Settle(d, "dialled")
    /\ UpdateAggregate
    /\ UNCHANGED <<poolVars, activeStreams, aborted, chosen, on, connecting>>

\* What the catch clause sets the state of the slot to, whatever it was.
FailedState(s) == "disconnected"

\* The dial fails, takes more than 5 s, or finds itself aborted: catch, finally.
DialFails(d) ==
    LET s == d[1] IN
    /\ link[d] = "dialling" /\ supported /\ Delivered
    /\ Over({d}, {})
    /\ slotState' = [slotState EXCEPT ![s] = FailedState(s)]
    /\ flight' = Cleared(s)
    /\ UNCHANGED transport
    /\ Settle(d, "idle")
    /\ UpdateAggregate
    /\ UNCHANGED <<poolVars, activeStreams, chosen, on, connecting>>

\* The rejections that the end of transport d owes.
Rejected(d) == [k \in Callers |-> IF on[k] = d THEN None ELSE on[k]]

\* The connection is lost: the handler of localTransport.closed.
LinkDies(d) ==
    LET s == d[1] IN
    /\ link[d] = "open" /\ Delivered
    /\ Over({d}, {})
    /\ on' = Rejected(d)
    /\ IF transport[s] = d
       THEN /\ transport' = [transport EXCEPT ![s] = None]
            /\ slotState' = [slotState EXCEPT ![s] = "disconnected"]
            /\ IF isClosed THEN UNCHANGED aggregate ELSE UpdateAggregate
       ELSE UNCHANGED <<transport, slotState, aggregate>>
    /\ UNCHANGED <<poolVars, flight, activeStreams, pc, awaits, chosen, connectVars>>

-----------------------------------------------------------------------------
(* connect(), one call at a time (bound) *)

\* Every slot that is not connected is dialled or its dial joined; a promise
\* that has rejected is not waited for.
Connect ==
    /\ ~isClosed /\ online /\ ~connecting
    /\ connecting' = TRUE
    /\ Dial(Dialable(Slots))
    /\ joined' = {d \in {flight'[s] : s \in Slots} \ {None} : link'[d] = "dialling"}
    /\ aggregate' = "connecting"
    /\ UNCHANGED <<poolVars, transport, activeStreams, callerVars>>

\* The network went down between the event and the call.
ConnectOffline ==
    /\ ~isClosed /\ ~online /\ ~connecting
    /\ aggregate' = "disconnected"
    /\ UNCHANGED <<poolVars, slotVars, activeStreams, dialVars, callerVars, connectVars>>

\* allSettled.
ConnectSettled ==
    /\ connecting /\ joined = {}
    /\ connecting' = FALSE
    /\ aggregate' = IF Connected = {} THEN "disconnected" ELSE Summary(slotState, transport)
    /\ UNCHANGED <<poolVars, slotVars, activeStreams, dialVars, callerVars, joined>>

-----------------------------------------------------------------------------
(* createSession() *)

\* The sort is stable: of the slots with the fewest streams, the first.
LeastLoaded(S) ==
    CHOOSE s \in S : \A t \in S :
        LET n == Cardinality(activeStreams[s])
            m == Cardinality(activeStreams[t])
        IN  n < m \/ (n = m /\ s <= t)

\* The stream is asked of the least loaded connection; the other slots are
\* dialled in the background.
Allocate(k) ==
    /\ Dial(Dialable({s \in Slots : slotState[s] = "disconnected"}))
    /\ pc' = [pc EXCEPT ![k] = "stream"]
    /\ chosen' = [chosen EXCEPT ![k] = LeastLoaded(Connected)]
    /\ on' = [on EXCEPT ![k] = transport[LeastLoaded(Connected)]]

GiveUp(k) ==
    /\ pc' = [pc EXCEPT ![k] = "idle"]
    /\ chosen' = [chosen EXCEPT ![k] = 0]

\* createSession, up to its first await; without a connection it is the dial
\* of the first slot, started now or joined.  Where that has rejected for want
\* of a class, so does createSession, at once.
CreateSession(k) ==
    /\ pc[k] = "idle" /\ ~isClosed /\ online
    /\ IF Connected # {}
       THEN Allocate(k) /\ UNCHANGED awaits
       ELSE /\ Dial(Dialable({1}))
            /\ pc' = [pc EXCEPT ![k] = "dial"]
            /\ link'[flight'[1]] = "dialling"
            /\ awaits' = [awaits EXCEPT ![k] = flight'[1]]
            /\ UNCHANGED <<chosen, on>>
    /\ UNCHANGED <<poolVars, transport, activeStreams, connectVars, aggregate>>

\* The dial it awaited is up; the rest of the pool is warmed.
Dialled(k) ==
    /\ pc[k] = "dialled"
    /\ Allocate(k)
    /\ aggregate' = Summary(slotState, transport)
    /\ UNCHANGED <<poolVars, transport, activeStreams, awaits, connectVars>>

\* createBidirectionalStream resolves.
StreamOpened(k) ==
    /\ pc[k] = "stream" /\ on[k] # None
    /\ pc' = [pc EXCEPT ![k] = "holding"]
    /\ on' = [on EXCEPT ![k] = None]
    /\ activeStreams' = [activeStreams EXCEPT ![chosen[k]] = @ \cup {k}]
    /\ UNCHANGED <<poolVars, slotVars, dialVars, awaits, chosen, connectVars, aggregate>>

\* It takes more than 5 s.
StreamTimesOut(k) ==
    /\ pc[k] = "stream" /\ on[k] # None
    /\ GiveUp(k)
    /\ on' = [on EXCEPT ![k] = None]
    /\ UNCHANGED <<poolVars, slotVars, activeStreams, dialVars, awaits, connectVars, aggregate>>

\* The dials that a fatal error on slot s closes.
ClosedBy(s) == {transport[s]}

\* It rejects with an error of the transport: the slot's transport is closed.
StreamFails(k) ==
    LET s == chosen[k] IN
    /\ pc[k] = "stream" /\ Resumed
    /\ IF transport[s] # None
       THEN /\ slotState' = [slotState EXCEPT ![s] = "disconnected"]
            /\ Over(ClosedBy(s), {})
            /\ on' = [Rejected(transport[s]) EXCEPT ![k] = None]
            /\ transport' = [transport EXCEPT ![s] = None]
            /\ UpdateAggregate
       ELSE /\ on' = [on EXCEPT ![k] = None]
            /\ UNCHANGED <<slotState, dialVars, transport, aggregate>>
    /\ GiveUp(k)
    /\ UNCHANGED <<poolVars, flight, activeStreams, awaits, connectVars>>

\* Mutant: onClose does not leave the slot.
Released_Kept(k) == activeStreams

\* onClose of the session of k.
Released(k) == [activeStreams EXCEPT ![chosen[k]] = @ \ {k}]

\* WtStreamSession.close(), called by its tunnel, or by its read pump when the
\* stream has ended or its connection is lost.
SessionClosed(k) ==
    /\ pc[k] = "holding"
    /\ activeStreams' = Released(k)
    /\ GiveUp(k)
    /\ UNCHANGED <<poolVars, slotVars, dialVars, awaits, on, connectVars, aggregate>>

-----------------------------------------------------------------------------
(* close(), resetSession() and the network *)

\* Callers whose sessions close() and resetSession() close.
Holders == UNION {activeStreams[s] : s \in Slots}

Evict ==
    /\ pc' = [k \in Callers |-> IF k \in Holders THEN "idle" ELSE pc[k]]
    /\ chosen' = [k \in Callers |-> IF k \in Holders THEN 0 ELSE chosen[k]]
    /\ activeStreams' = [s \in Slots |-> {}]

CloseTransports(cut) ==
    /\ Over({transport[s] : s \in Slots}, cut)
    /\ on' = [k \in Callers |-> IF \E s \in Slots : transport[s] = on[k] THEN None ELSE on[k]]
    /\ transport' = [s \in Slots |-> None]
    /\ slotState' = [s \in Slots |-> "disconnected"]

\* close(): the application has awaited dispatcher.stop(), so that no caller is
\* inside createSession.  Dials in flight are not aborted.
Close ==
    /\ ~isClosed /\ \A k \in Callers : pc[k] \in {"idle", "holding"}
    /\ isClosed' = TRUE
    /\ Evict
    /\ CloseTransports({})
    /\ aggregate' = "disconnected"
    /\ UNCHANGED <<supported, online, resets, flight, awaits, connectVars>>

\* resetSession(): dials in flight are aborted and forgotten.
ResetSession ==
    /\ resets < MaxResets /\ Delivered
    /\ resets' = resets + 1
    /\ Evict
    /\ CloseTransports({flight[s] : s \in Slots})
    /\ flight' = [s \in Slots |-> None]
    /\ aggregate' = "disconnected"
    /\ UNCHANGED <<supported, isClosed, online, awaits, connectVars>>

NetworkFlips ==
    /\ online' = ~online
    /\ UNCHANGED <<supported, isClosed, resets, slotVars, activeStreams, dialVars, callerVars,
                   connectVars, aggregate>>

-----------------------------------------------------------------------------
Next ==
    \/ \E d \in Dials : ClassRejects(d) \/ DialReady(d) \/ DialFails(d) \/ LinkDies(d)
    \/ \E k \in Callers :
          \/ CreateSession(k) \/ Dialled(k)
          \/ StreamOpened(k) \/ StreamTimesOut(k) \/ StreamFails(k) \/ SessionClosed(k)
    \/ Connect \/ ConnectOffline \/ ConnectSettled
    \/ Close \/ ResetSession \/ NetworkFlips

Spec == Init /\ [][Next]_vars

-----------------------------------------------------------------------------
(* Properties *)

States == {"disconnected", "connecting", "connected"}

\* Type invariant.
TypeOK ==
    /\ {supported, isClosed, online} \subseteq BOOLEAN /\ resets \in 0..MaxResets
    /\ slotState \in [Slots -> States] /\ aggregate \in States
    /\ transport \in [Slots -> Dials \cup {None}] /\ flight \in [Slots -> Dials \cup {None}]
    /\ activeStreams \in [Slots -> SUBSET Callers]
    /\ link \in [Dials -> {"dialling", "open", "closed"}]
    /\ aborted \in [Dials -> BOOLEAN]
    /\ pc \in [Callers -> {"idle", "dial", "dialled", "stream", "holding"}]
    /\ awaits \in [Callers -> Dials \cup {None}]
    /\ chosen \in [Callers -> 0..PoolSize] /\ on \in [Callers -> Dials \cup {None}]
    /\ joined \subseteq Dials /\ connecting \in BOOLEAN

\* Nobody called close() or resetSession(): neither takes back what the dials
\* in flight will still do.
Running == ~isClosed /\ resets = 0

\* _connectSlot, "single-flight deduplication": a slot never has a second dial
\* or a second connection, however many requests, refills and calls of
\* connect() ask for it (wt-connection-manager.js:185, CHANGELOG.md:49).
SingleFlight ==
    LET Alive(d) == link[d] # "closed" /\ ~aborted[d]
    IN  \A d, e \in Dials : d[1] = e[1] /\ Alive(d) /\ Alive(e) => d = e

\* Of a pool that is not reset: single flight, and a connection that is up is in
\* its slot, where requests find it and close() closes it: none is replaced, and
\* none forgotten.
OneDialPerSlot ==
    resets = 0 =>
        /\ SingleFlight
        /\ \A d \in Dials : link[d] = "open" =>
               transport[d[1]] = d /\ slotState[d[1]] = "connected"

\* Where there is a class, a slot that is not connected is being dialled or can
\* be: no order of failures leaves it "connecting" with nothing in flight,
\* holding on to a connection that is gone, or sharing a promise that is
\* settled.  Where there is none, every slot ends so, see ClassRejects.
NeverStuck ==
    Running /\ supported => \A s \in Slots :
        /\ slotState[s] = "connecting" <=> flight[s] # None
        /\ flight[s] # None => flight[s][1] = s /\ link[flight[s]] = "dialling"
        /\ transport[s] # None => link[transport[s]] = "open"

\* The variables keep their types, and the load of a slot is the number of
\* sessions that are open on it: a request is never sent to a crowded connection
\* by sessions that are gone; a pool that is closed hands out none and keeps none.
LoadExact ==
    /\ TypeOK
    /\ \A s \in Slots : activeStreams[s] = {k \in Callers : pc[k] = "holding" /\ chosen[k] = s}
    /\ isClosed => \A k \in Callers : pc[k] = "idle"

\* Everyone who waits for a shared dial waits for one that is under way, whose
\* timer ends it: no order of resets, losses, joins and missing classes leaves a
\* request, or a call of connect(), on a promise nobody will settle; nor is a
\* slot stuck where there is a class to dial with.
NobodyStranded ==
    /\ NeverStuck
    /\ \A k \in Callers : pc[k] = "dial" <=> awaits[k] # None
    /\ \A d \in (joined \cup {awaits[k] : k \in Callers}) \ {None} : link[d] = "dialling"
=============================================================================
