------------------------------ MODULE WorkerBridge ------------------------------
(***************************************************************************)
(* What one client sends on its way from the listener worker to the tunnel *)
(* of its session worker: the reader loop of handleClientConnection, the   *)
(* MessagePort and createPortStreamBridge.  Chunks are numbered as the     *)
(* client sends them; sizes are in units of the limit's fraction.          *)
(***************************************************************************)
EXTENDS Integers, Sequences

CONSTANTS
    Sizes,                   \* what a chunk may measure
    MAX_READ_QUEUE_BYTES,
    MaxChunks                \* bound: chunks the client sends

ASSUME BridgeAssumption ==
    Sizes \subseteq Nat \ {0} /\ MAX_READ_QUEUE_BYTES \in Nat /\ MaxChunks \in Nat

\* What travels and what a read returns is the number of a chunk or one of these.
FIN == 0
ABORT == -1
WAIT == -2

VARIABLES
    size,            \* sizes of the chunks read from the client so far
    loop,            \* the reader loop: "reading", "fin" or "abort" once it has ended
    port,            \* messages on their way: numbers of chunks, FIN or ABORT
    readQueue,       \* chunks, then FIN
    readQueueBytes,
    waiting,         \* pendingReadResolvers is not empty: the tunnel reads one at a time
    isClosed,
    abortError,      \* it is set
    overflowed,      \* abortInbound has told the listener STREAM_ERROR
    left,            \* the tunnel has cancelled the reader or runWtTunnel has ended
    delivered        \* what reads have returned: chunks, then FIN, or ABORT if it was rejected

bridgeVars == <<size, loop, port, readQueue, readQueueBytes, waiting, isClosed, abortError,
                overflowed, left, delivered>>

BridgeInit ==
    /\ size = <<>> /\ loop = "reading" /\ port = <<>>
    /\ readQueue = <<>> /\ readQueueBytes = 0 /\ waiting = FALSE
    /\ isClosed = FALSE /\ abortError = FALSE /\ overflowed = FALSE
    /\ left = FALSE /\ delivered = <<>>

-----------------------------------------------------------------------------
(* The listener worker *)

LoopReads ==
    /\ loop = "reading" /\ Len(size) < MaxChunks
    /\ \E s \in Sizes : size' = Append(size, s)
    /\ port' = Append(port, Len(size) + 1)
    /\ UNCHANGED <<loop, readQueue, readQueueBytes, waiting, isClosed, abortError, overflowed,
                   left, delivered>>

\* The client has sent everything, or its socket fails.  A session that is
\* cleaned up cancels the reader, which looks like the former.
LoopEnds ==
    /\ loop = "reading" /\ loop' \in {"fin", "abort"}
    /\ port' = Append(port, IF loop' = "fin" THEN FIN ELSE ABORT)
    /\ UNCHANGED <<size, readQueue, readQueueBytes, waiting, isClosed, abortError, overflowed,
                   left, delivered>>

-----------------------------------------------------------------------------
(* createPortStreamBridge: port.onmessage *)

\* A read that waits gets r.
Resolve(r) == delivered' = (IF waiting THEN Append(delivered, r) ELSE delivered) /\ waiting' = FALSE

\* Everything queued is dropped, reads fail from now on.
Abort ==
    /\ isClosed' = TRUE /\ abortError' = TRUE
    /\ readQueue' = <<>> /\ readQueueBytes' = 0
    /\ Resolve(ABORT)

\* Mutant: what does not fit is dropped in silence.
Data_Drop(k) ==
    /\ IF waiting THEN Resolve(k) /\ UNCHANGED <<readQueue, readQueueBytes>>
       ELSE /\ readQueue' = IF readQueueBytes + size[k] > MAX_READ_QUEUE_BYTES
                            THEN readQueue ELSE Append(readQueue, k)
            /\ readQueueBytes' = IF readQueueBytes + size[k] > MAX_READ_QUEUE_BYTES
                                 THEN readQueueBytes ELSE readQueueBytes + size[k]
            /\ UNCHANGED <<waiting, delivered>>
    /\ UNCHANGED <<isClosed, abortError, overflowed>>

\* CLIENT_DATA: handed to the read that waits, else queued, else all is given up.
Data(k) ==
    \/ waiting /\ Resolve(k) /\ UNCHANGED <<readQueue, readQueueBytes, isClosed, abortError, overflowed>>
    \/ ~waiting /\ readQueueBytes + size[k] > MAX_READ_QUEUE_BYTES /\ Abort /\ overflowed' = TRUE
    \/ /\ ~waiting /\ readQueueBytes + size[k] <= MAX_READ_QUEUE_BYTES
       /\ readQueue' = Append(readQueue, k) /\ readQueueBytes' = readQueueBytes + size[k]
       /\ UNCHANGED <<waiting, delivered, isClosed, abortError, overflowed>>

\* Mutant: a read that waits is not told of the end.
Fin_Queue ==
    /\ isClosed' = TRUE
    /\ readQueue' = Append(readQueue, FIN)
    /\ UNCHANGED <<readQueueBytes, abortError, overflowed, waiting, delivered>>

Fin ==
    /\ isClosed' = TRUE
    /\ readQueue' = IF waiting THEN readQueue ELSE Append(readQueue, FIN)
    /\ Resolve(FIN)
    /\ UNCHANGED <<readQueueBytes, abortError, overflowed>>

Message ==
    /\ port # <<>> /\ port' = Tail(port)
    /\ LET m == Head(port) IN
       \/ m = ABORT /\ Abort /\ UNCHANGED overflowed
       \/ m # ABORT /\ isClosed
          /\ UNCHANGED <<readQueue, readQueueBytes, waiting, isClosed, abortError, overflowed, delivered>>
       \/ m = FIN /\ ~isClosed /\ Fin
       \/ m > 0 /\ ~isClosed /\ Data(m)
    /\ UNCHANGED <<size, loop, left>>

-----------------------------------------------------------------------------
(* clientReader *)

\* What a read returns at once, WAIT if nothing.
ReadResult ==
    IF abortError THEN ABORT
    ELSE IF readQueue # <<>> THEN Head(readQueue)
    ELSE IF isClosed THEN FIN ELSE WAIT

\* clientReader.read(), by a tunnel that reads on until it gets the end or an error.
Read ==
    /\ ~waiting /\ ~left
    /\ \A i \in DOMAIN delivered : delivered[i] > 0
    /\ waiting' = (ReadResult = WAIT)
    /\ delivered' = IF ReadResult = WAIT THEN delivered ELSE Append(delivered, ReadResult)
    /\ IF abortError \/ readQueue = <<>> THEN UNCHANGED <<readQueue, readQueueBytes>>
       ELSE /\ readQueue' = Tail(readQueue)
            /\ readQueueBytes' = IF Head(readQueue) > 0
                                 THEN readQueueBytes - size[Head(readQueue)] ELSE readQueueBytes
    /\ UNCHANGED <<size, loop, port, isClosed, abortError, overflowed, left>>

\* clientReader.cancel(), by the clean-up of the tunnel.
CancelReader ==
    /\ ~left /\ left' = TRUE /\ isClosed' = TRUE
    /\ Resolve(FIN)
    /\ UNCHANGED <<size, loop, port, readQueue, readQueueBytes, abortError, overflowed>>

\* bridge.close(): what is on its way is lost; a read that waits is forgotten.
CloseBridge ==
    /\ isClosed' = TRUE /\ port' = <<>> /\ left' = TRUE
    /\ ~left \/ port # <<>>
    /\ UNCHANGED <<size, loop, readQueue, readQueueBytes, waiting, abortError, overflowed, delivered>>

BridgeStep ==
    LoopReads \/ LoopEnds \/ Message \/ Read \/ CancelReader \/ CloseBridge

BridgeTypeOK ==
    /\ size \in Seq(Sizes) /\ Len(size) <= MaxChunks
    /\ loop \in {"reading", "fin", "abort"}
    /\ port \in Seq(1..MaxChunks \cup {FIN, ABORT})
    /\ readQueue \in Seq(1..MaxChunks \cup {FIN})
    /\ readQueueBytes \in 0..MAX_READ_QUEUE_BYTES
    /\ waiting \in BOOLEAN /\ isClosed \in BOOLEAN /\ abortError \in BOOLEAN
    /\ overflowed \in BOOLEAN /\ left \in BOOLEAN
    /\ delivered \in Seq(1..MaxChunks \cup {FIN, ABORT})

-----------------------------------------------------------------------------
(* Properties *)

\* The end, or the error, is the last thing a read returns.
AtEnd == delivered # <<>> /\ delivered[Len(delivered)] <= 0

\* The chunks that reads have returned before it.
Chunks == IF AtEnd THEN SubSeq(delivered, 1, Len(delivered) - 1) ELSE delivered

\* worker-tunnel-bridge.js:47: the tunnel reads the client's bytes without a gap,
\* and the end only when the client has sent it and everything before it has
\* been read; what does not fit is an error, never a hole.
UploadWhole ==
    /\ Chunks = [i \in 1..Len(Chunks) |-> i]
    /\ delivered # <<>> /\ delivered[Len(delivered)] = FIN /\ ~left =>
          loop = "fin" /\ Len(Chunks) = Len(size)

\* What the chunks of a queue measure together.
Weight(k) == IF k > 0 THEN size[k] ELSE 0
Measure(q) ==
    LET sum[n \in 0..Len(q)] == IF n = 0 THEN 0 ELSE sum[n - 1] + Weight(q[n])
    IN  sum[Len(q)]

\* The variables keep their types, and no read waits while there is something
\* to return, an end included, and the gauge the limit goes by is what the
\* queue holds.
ReadIsServed ==
    /\ BridgeTypeOK
    /\ waiting /\ ~left => readQueue = <<>> /\ ~isClosed
    /\ readQueueBytes = Measure(readQueue)
=============================================================================
