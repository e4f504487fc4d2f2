------------------------------ MODULE ServerRelay ------------------------------
(***************************************************************************)
(* The Go server's work on one stream each (brook_stream.go), as the       *)
(* accept loops of quic.go and webtransport.go start it under the global   *)
(* limit of server.go.                                                     *)
(*                                                                         *)
(* A stream has three goroutines: its handler, which is HandleBrookStream, *)
(* and the legs "down" (target to client) and "up" (client to target), in  *)
(* whose terms the sealed and the plain relay are the same program.  A leg *)
(* reads from its source and writes to its sink.                           *)
(*                                                                         *)
(* Every operation of a leg is under a deadline, the idle timeout or the   *)
(* 5 s of unblockOther, and may fail at any moment; how long it takes is   *)
(* left open, and so is what of a half that was cancelled behind its FIN   *)
(* still reaches the client.                                               *)
(***************************************************************************)
EXTENDS Integers, FiniteSets

CONSTANTS
    Streams,          \* streams the clients open
    MaxStreams        \* capacity of streamSem

ASSUME ServerAssumption == MaxStreams \in Nat \ {0}

Legs == {"down", "up"}

VARIABLES
    slots,            \* len(streamSem)
    sealed,           \* of each stream: the client speaks in sealed frames
    handler,          \* where its HandleBrookStream is
    leg,              \* where its legs are
    ended,            \* how each leg has ended
    teardown,         \* teardownCh is closed
    inHand,           \* each leg has read what it has not yet written
    clientIn,         \* the stream's receiving half: open or cancelled
    clientOut,        \* its sending half: open, ended by a FIN or by a reset
    target,           \* remote: none, open, half (CloseWrite) or closed
    relayErr,
    result            \* what HandleBrookStream has returned

endVars == <<clientIn, clientOut, target>>
legVars == <<leg, ended, inHand>>
relayVars == <<slots, sealed, handler, teardown, legVars, endVars, relayErr, result>>

RelayInit ==
    /\ slots = 0
    /\ sealed = [s \in Streams |-> TRUE]
    /\ handler = [s \in Streams |-> "none"]
    /\ leg = [s \in Streams |-> [d \in Legs |-> "none"]]
    /\ ended = [s \in Streams |-> [d \in Legs |-> "no"]]
    /\ teardown = [s \in Streams |-> FALSE]
    /\ inHand = [s \in Streams |-> [d \in Legs |-> FALSE]]
    /\ clientIn = [s \in Streams |-> "open"]
    /\ clientOut = [s \in Streams |-> "open"]
    /\ target = [s \in Streams |-> "none"]
    /\ relayErr = [s \in Streams |-> "nil"]
    /\ result = [s \in Streams |-> "none"]

-----------------------------------------------------------------------------
(* Ends of the connections *)

\* Mutant: the stream is closed before its sending half is cancelled.
CloseClient_First(s) ==
    /\ clientIn' = [clientIn EXCEPT ![s] = "cancelled"]
    /\ clientOut' = [clientOut EXCEPT ![s] = IF @ = "open" THEN "fin" ELSE @]

\* CancelRead, CancelWrite and Close, in this order: the sending half ends by
\* a reset unless the FIN has been sent before, and Close() adds none.
CloseClient(s) ==
    /\ clientIn' = [clientIn EXCEPT ![s] = "cancelled"]
    /\ clientOut' = [clientOut EXCEPT ![s] = IF @ = "open" THEN "reset" ELSE @]

\* Close() of a connection to a target is told apart from CloseWrite(): it sends
\* a FIN, or a reset, whatever was written before, so that "closed" does not say
\* what the target takes the end for.
CloseTarget(s) == target' = [target EXCEPT ![s] = IF @ = "none" THEN @ ELSE "closed"]

\* HandleBrookStream returns r: the deferred calls, and the slot.
Return(s, r) ==
    /\ handler' = [handler EXCEPT ![s] = "returned"]
    /\ result' = [result EXCEPT ![s] = r]
    /\ slots' = slots - 1
    /\ CloseClient(s) /\ CloseTarget(s)

-----------------------------------------------------------------------------
(* handler *)

\* takeStreamSlot succeeds.
Admit(s) ==
    /\ handler[s] = "none" /\ slots < MaxStreams
    /\ handler' = [handler EXCEPT ![s] = "opening"]
    /\ slots' = slots + 1
    /\ UNCHANGED <<sealed, teardown, legVars, endVars, relayErr, result>>

\* takeStreamSlot fails: a WebTransport stream is reset, a stream of a raw
\* connection is ended with a FIN (there is no CancelWrite).
Refuse(s) ==
    /\ handler[s] = "none" /\ slots = MaxStreams
    /\ handler' = [handler EXCEPT ![s] = "refused"]
    /\ \/ CloseClient(s)
       \/ /\ clientIn' = [clientIn EXCEPT ![s] = "cancelled"]
          /\ clientOut' = [clientOut EXCEPT ![s] = "fin"]
    /\ UNCHANGED <<slots, sealed, teardown, legVars, target, relayErr, result>>

\* The header is read and understood, the server nonce of a sealed stream
\* written and the target dialled: the two legs start.
Dialled(s) ==
    /\ handler[s] = "opening"
    /\ handler' = [handler EXCEPT ![s] = "relay"]
    /\ target' = [target EXCEPT ![s] = "open"]
    /\ leg' = [leg EXCEPT ![s] = [d \in Legs |-> "read"]]
    /\ \E b \in BOOLEAN : sealed' = [sealed EXCEPT ![s] = b]
    /\ UNCHANGED <<slots, teardown, ended, inHand, clientIn, clientOut,
                   relayErr, result>>

\* A limit of 10 s passes, the header is refused or the dial fails.
OpeningFails(s) ==
    /\ handler[s] = "opening"
    /\ Return(s, "error")
    /\ UNCHANGED <<sealed, teardown, legVars, relayErr>>

LegsDone(s) == \A d \in Legs : leg[s][d] = "done"

\* <-waitCh, in either of the three selects.
LegsFinished(s) ==
    /\ handler[s] \in {"relay", "grace", "forced"} /\ LegsDone(s)
    /\ Return(s, IF handler[s] = "forced" /\ relayErr[s] = "nil" THEN "error" ELSE relayErr[s])
    /\ UNCHANGED <<sealed, teardown, legVars, relayErr>>

\* <-teardownCh
BeginGrace(s) ==
    /\ handler[s] = "relay" /\ teardown[s]
    /\ handler' = [handler EXCEPT ![s] = "grace"]
    /\ UNCHANGED <<slots, sealed, teardown, legVars, endVars, relayErr, result>>

\* 10 s later a leg is still at it: everything is closed under it.
ForceClose(s) ==
    /\ handler[s] = "grace"
    /\ handler' = [handler EXCEPT ![s] = "forced"]
    /\ CloseTarget(s) /\ CloseClient(s)
    /\ UNCHANGED <<slots, sealed, teardown, legVars, relayErr, result>>

\* Mutant: the relay waits for its legs however long it takes.
Abandon_Never(s) ==
    /\ handler[s] = "forced" /\ LegsDone(s)
    /\ Return(s, "error")
    /\ UNCHANGED <<sealed, teardown, legVars, relayErr>>

\* 2 s later: the legs are left to themselves.  relayErr is read and written
\* here without a lock; whatever is read, an error is returned.
Abandon(s) ==
    /\ handler[s] = "forced"
    /\ Return(s, "error")
    /\ UNCHANGED <<sealed, teardown, legVars, relayErr>>

-----------------------------------------------------------------------------
(* The legs *)

SourceOpen(s, d) == IF d = "down" THEN target[s] \in {"open", "half"} ELSE clientIn[s] = "open"
SinkOpen(s, d) == IF d = "down" THEN clientOut[s] = "open" ELSE target[s] = "open"

LegAt(s, d, places) == leg[s][d] \in places
LegTo(s, d, place) == leg' = [leg EXCEPT ![s][d] = place]

\* A read yields data; "writeLast" if the end came with it, which the reads of
\* whole frames by the upward leg of a sealed stream do not report.  An empty
\* frame is skipped.
ReadData(s, d) ==
    /\ LegAt(s, d, {"read"}) /\ SourceOpen(s, d)
    /\ inHand' = [inHand EXCEPT ![s][d] = TRUE]
    /\ IF d = "up" /\ sealed[s] THEN LegTo(s, d, "payload")
       ELSE LegTo(s, d, "write") \/ LegTo(s, d, "writeLast")
    /\ UNCHANGED <<slots, sealed, handler, teardown, ended, endVars, relayErr, result>>

\* The payload of a sealed frame, opened.
PayloadRead(s) ==
    /\ LegAt(s, "up", {"payload"}) /\ SourceOpen(s, "up")
    /\ LegTo(s, "up", "write")
    /\ UNCHANGED <<slots, sealed, handler, teardown, ended, inHand, endVars, relayErr, result>>

\* The deferred calls: unblockOther, whose first caller closes teardownCh, and
\* wg.Done.
LegExit(s, d) ==
    /\ LegAt(s, d, {"exit"}) /\ LegTo(s, d, "done")
    /\ teardown' = [teardown EXCEPT ![s] = TRUE]
    /\ UNCHANGED <<slots, sealed, handler, ended, inHand, endVars, relayErr, result>>

\* io.EOF: the end is handed on to the sink, unless that is a UDP socket, which
\* has no sending half to close.
HandOnEof(s, d) ==
    /\ LegTo(s, d, "exit")
    /\ ended' = [ended EXCEPT ![s][d] = "eof"]
    /\ IF d = "down"
       THEN /\ clientOut' = [clientOut EXCEPT ![s] = IF @ = "open" THEN "fin" ELSE @]
            /\ UNCHANGED target
       ELSE /\ \/ target' = [target EXCEPT ![s] = IF @ = "open" THEN "half" ELSE @]
               \/ UNCHANGED target
            /\ UNCHANGED clientOut
    /\ UNCHANGED <<slots, sealed, handler, teardown, clientIn, relayErr, result>>

\* A plain stream's source ends, or a sealed one between two frames.
ReadEof(s, d) ==
    /\ LegAt(s, d, {"read"}) /\ SourceOpen(s, d)
    /\ HandOnEof(s, d)
    /\ UNCHANGED inHand

WriteDone(s, d) ==
    /\ SinkOpen(s, d)
    /\ inHand' = [inHand EXCEPT ![s][d] = FALSE]
    /\ \/ /\ LegAt(s, d, {"write"}) /\ LegTo(s, d, "read")
          /\ UNCHANGED <<slots, sealed, handler, teardown, ended, endVars, relayErr, result>>
       \/ LegAt(s, d, {"writeLast"}) /\ HandOnEof(s, d)

\* An operation fails, or a frame does not open: recordErr takes the first
\* failure that isNormalStreamClose does not let pass.  Deadlines, resets by the
\* peer and operations on what was closed are normal, and so is the end of a
\* sealed stream between the length of a frame and its payload.
LegFails(s, d) ==
    \E how \in {"normal", "error"} :
        /\ LegAt(s, d, {"read", "payload", "write", "writeLast"})
        /\ LegTo(s, d, "exit")
        /\ ended' = [ended EXCEPT ![s][d] = how]
        /\ relayErr' = [relayErr EXCEPT ![s] = IF @ = "nil" /\ how = "error" THEN "error" ELSE @]
        /\ UNCHANGED <<slots, sealed, handler, teardown, inHand, endVars, result>>

-----------------------------------------------------------------------------
HandlerStep(s) ==
    \/ Dialled(s) \/ OpeningFails(s) \/ LegsFinished(s)
    \/ BeginGrace(s) \/ ForceClose(s) \/ Abandon(s)

\* What waits for the source or the sink of a leg.
LegIO(s, d) == ReadData(s, d) \/ ReadEof(s, d) \/ WriteDone(s, d) \/ LegFails(s, d)

RelayTerminated ==
    (\A s \in Streams : handler[s] \in {"refused", "returned"}) /\ UNCHANGED relayVars

RelayNext ==
    \/ \E s \in Streams : Admit(s) \/ Refuse(s) \/ HandlerStep(s) \/ PayloadRead(s)
    \/ \E s \in Streams, d \in Legs : LegExit(s, d) \/ LegIO(s, d)
    \/ RelayTerminated

RelaySpec == RelayInit /\ [][RelayNext]_relayVars

\* Goroutines that can run are run, the limits of 10 s on header and dial and
\* the timers of 10 s and 2 s fire.  Of a leg's reads and writes nothing is
\* asked, not even that they notice a deadline or a close.
RelayFairness == \A s \in Streams :
    WF_relayVars(HandlerStep(s)) /\ \A d \in Legs : WF_relayVars(LegExit(s, d))

RelayFairSpec == RelaySpec /\ RelayFairness

-----------------------------------------------------------------------------
(* Properties *)

Admitted == {s \in Streams : handler[s] \in {"opening", "relay", "grace", "forced"}}

\* Type invariant.
TypeOK ==
    /\ slots \in Nat
    /\ sealed \in [Streams -> BOOLEAN]
    /\ handler \in [Streams -> {"none", "refused", "opening", "relay", "grace", "forced", "returned"}]
    /\ leg \in [Streams -> [Legs -> {"none", "read", "payload", "write", "writeLast",
                                     "exit", "done"}]]
    /\ ended \in [Streams -> [Legs -> {"no", "eof", "normal", "error"}]]
    /\ teardown \in [Streams -> BOOLEAN]
    /\ inHand \in [Streams -> [Legs -> BOOLEAN]]
    /\ clientIn \in [Streams -> {"open", "cancelled"}]
    /\ clientOut \in [Streams -> {"open", "fin", "reset"}]
    /\ target \in [Streams -> {"none", "open", "half", "closed"}]
    /\ relayErr \in [Streams -> {"nil", "error"}]
    /\ result \in [Streams -> {"none", "nil", "error"}]

\* The limit of takeStreamSlot holds, and every way out of HandleBrookStream,
\* the abandoning of stuck legs included, gives back exactly one slot.
SlotsExact == slots = Cardinality(Admitted) /\ slots <= MaxStreams

\* The FIN of a relayed stream is a promise: the client gets one only when the
\* target has ended and all it sent was written; a download that is cut by a
\* failure, a deadline or by force ends in a reset.  And the relay half-closes a
\* target, whose answer it goes on reading, only when the client has ended at the
\* end of a frame and all it sent was written.  Of the end that a target sees when
\* its connection is closed nothing is said: Close() sends it a FIN even when the
\* upload was cut.
FinIsWhole ==
    \A s \in Streams \ {t \in Streams : handler[t] = "refused"} :
        /\ clientOut[s] = "fin" => ended[s]["down"] = "eof" /\ ~inHand[s]["down"]
        /\ target[s] = "half" => ended[s]["up"] = "eof" /\ ~inHand[s]["up"]

\* Nothing is left open of a stream that is over, so that a leg that was
\* abandoned fails at its next operation and its goroutine can end.
NothingLeftOpen ==
    \A s \in Streams : handler[s] \in {"refused", "returned"} =>
        /\ clientIn[s] = "cancelled" /\ clientOut[s] # "open"
        /\ target[s] \in {"none", "closed"}

\* CHANGELOG.md:17, 18: the relay does not return nil when a leg has failed
\* with an error that is not normal, or when force had to be used.
NilIsEarned ==
    [][\A s \in Streams : handler[s] # "returned" /\ handler'[s] = "returned" /\ result'[s] = "nil" =>
        handler[s] # "forced" /\ LegsDone(s) /\ \A d \in Legs : ended[s][d] # "error"]_relayVars

\* "Never block HandleBrookStream forever" (brook_stream.go:440): once a leg has
\* ended, the handler returns and its slot is free, even if the other leg does
\* not react to any close.
TeardownEnds ==
    \A s \in Streams : (\E d \in Legs : ended[s][d] # "no") ~> handler[s] = "returned"
=============================================================================
