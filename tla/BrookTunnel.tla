----------------------------- MODULE BrookTunnel -----------------------------
(***************************************************************************)
(* One call of BrookTunnel.run (core/brook-tunnel.js): the relay between a *)
(* local TCP client and one stream to the Brook server, as the JavaScript  *)
(* event loop runs it.                                                     *)
(*                                                                         *)
(* Three activities share the locals of run():                             *)
(*   up  the body of run: handshake prelude, then client -> server loop    *)
(*   rx  processRxQueue: decodes server -> client frames                   *)
(*   cl  the async body of cleanup                                         *)
(* Each has a program counter whose values are the awaits it can be        *)
(* suspended at.  Code between two awaits runs to completion: while        *)
(* "Busy" holds the engine is inside such a stretch and only its own       *)
(* continuation may step.                                                  *)
(*                                                                         *)
(* Bytes are counted in units: a server nonce is NONCE units, a frame is a *)
(* sealed length of LENGTH units and a sealed payload of PAYLOAD units, so *)
(* a chunk of the stream may end anywhere inside any of them.              *)
(***************************************************************************)
EXTENDS Integers, Sequences

CONSTANTS
    FinalAttempt,     \* closeClientStreams, and sendFailure # null
    LeftoverChunks,   \* 32 KiB slices of data read before the tunnel started
    NONCE, LENGTH, PAYLOAD,
    RxCap,            \* MAX_RX_BUFFER_BYTES, in units
    MaxChunk,         \* bound: units one onData call delivers
    MaxFed,           \* bound: units the server sends in all
    MaxReads,         \* bound: chunks the client sends in all
    MaxSlices         \* bound: 32 KiB slices of one client chunk

ASSUME TunnelAssumption ==
    /\ FinalAttempt \in BOOLEAN
    /\ NONCE \in Nat \ {0} /\ LENGTH \in Nat \ {0} /\ PAYLOAD \in Nat \ {0}
    /\ RxCap \in Nat /\ MaxChunk \in Nat \ {0} /\ MaxSlices \in Nat \ {0}
    /\ LeftoverChunks \in Nat /\ MaxFed \in Nat /\ MaxReads \in Nat

VARIABLES
    upPc,               \* where run() is suspended
    toSend,             \* slices of the current buffer still to be sent
    uploadPending,      \* globalMetrics.uploadPendingBytes, this tunnel's share
    rxPc,               \* where processRxQueue is suspended, "idle" if it is not running
    rxQueue,            \* chunks not yet merged into rxBuffer; 0 is the FIN item
    rxQueuedBytes,      \* units of rxQueue as the code counts them
    rxGlobal,           \* globalMetrics.rxQueuedBytes, this tunnel's share
    rxBuf,              \* rxBuffer.length - rxOffset
    expecting,          \* expectedPayloadLen # -1
    totalRecv,          \* totalBytesRecv, in frames
    clPc,               \* where cleanup is suspended, "none" before it is called
    terminationReason,
    handshake,          \* handshakePromise
    serverHandshakeDone, clientReadClosed, clientWriteClosed,
    serverFinReceived, transportClosed,
    replies,            \* which of sendSuccess and sendFailure have been called
    handshakeTimer, idleTimer,
    reads,              \* client chunks read (onClientDataRead calls)
    readerCancelled, writerClosed,
    delivered,          \* frames whose write to the client completed
    session,            \* the stream session below: live, finished (FIN seen) or closed
    registered,         \* the session holds this tunnel's handlers
    fed                 \* units given to onData so far

upVars == <<upPc, toSend, uploadPending>>
bufVars == <<rxBuf, expecting, totalRecv>>
queueVars == <<rxQueue, rxQueuedBytes, rxGlobal>>
endVars == <<clPc, terminationReason, handshake>>
closeVars == <<clientReadClosed, clientWriteClosed, serverFinReceived, transportClosed>>
hsVars == <<serverHandshakeDone, replies>>
timerVars == <<handshakeTimer, idleTimer>>
clientVars == <<reads, readerCancelled, writerClosed, delivered>>
wireVars == <<session, registered, fed>>

vars == <<upVars, rxPc, bufVars, queueVars, endVars, closeVars, hsVars,
          timerVars, clientVars, wireVars>>

-----------------------------------------------------------------------------
FIN == 0
isTerminated == clPc # "none"
successSent == "success" \in replies

\* The engine is inside a synchronous stretch of this tunnel's code.
Busy == clPc = "called" \/ rxPc \in {"loop", "exit"}

\* cleanup(reason): the first caller wins; "none" stands for no call.  The
\* handshake promise is rejected only while the server nonce is missing.
Cleanup(r) ==
    IF r = "none" \/ isTerminated THEN UNCHANGED endVars
    ELSE /\ clPc' = "called"
         /\ terminationReason' = r
         /\ handshake' = IF serverHandshakeDone THEN handshake ELSE "rejected"

\* Mutant: a partial frame is not looked for.
FullCloseReason_NoFraming(readClosed, finSeen) ==
    IF ~(readClosed /\ finSeen) THEN "none"
    ELSE IF ~serverHandshakeDone THEN "client_abort"
    ELSE IF totalRecv = 0 THEN "target_dial_refused" ELSE "both_closed"

\* checkFullClose, given the two half-close flags as they are at the call.
FullCloseReason(readClosed, finSeen) ==
    IF ~(readClosed /\ finSeen) THEN "none"
    ELSE IF ~serverHandshakeDone THEN "client_abort"
    ELSE IF expecting \/ rxBuf > 0 THEN "framing_error"
    ELSE IF totalRecv = 0 THEN "target_dial_refused"
    ELSE "both_closed"

\* Mutant: the timer is cleared only.
ResetIdle_Never == idleTimer' = FALSE

\* resetIdleTimer: the old timer always goes, a new one only while running.
ResetIdle == idleTimer' = ~isTerminated

\* An earlier attempt, or the handler's cancel, may have closed the client's
\* two halves before this call.
Init ==
    /\ upPc = "start" /\ toSend = 0 /\ uploadPending = 0
    /\ rxPc = "idle" /\ rxQueue = <<>> /\ rxQueuedBytes = 0 /\ rxGlobal = 0
    /\ rxBuf = 0 /\ expecting = FALSE /\ totalRecv = 0
    /\ clPc = "none" /\ terminationReason = "unknown" /\ handshake = "pending"
    /\ serverHandshakeDone = FALSE /\ replies = {}
    /\ clientReadClosed = FALSE /\ clientWriteClosed = FALSE
    /\ serverFinReceived = FALSE /\ transportClosed = FALSE
    /\ handshakeTimer = FALSE /\ idleTimer = FALSE
    /\ reads = 0 /\ delivered = 0
    /\ readerCancelled \in BOOLEAN /\ writerClosed = readerCancelled
    /\ session = "live" /\ registered = FALSE /\ fed = 0

-----------------------------------------------------------------------------
(* up: the body of run() *)

\* registerStream with the three handlers, then resetIdleTimer.
Register ==
    /\ ~Busy /\ upPc = "start"
    /\ registered' = TRUE
    /\ ResetIdle
    /\ upPc' = "ensure"
    /\ UNCHANGED <<toSend, uploadPending, rxPc, bufVars, queueVars, endVars, closeVars,
                   hsVars, handshakeTimer, clientVars, session, fed>>

\* The prelude: at each of these awaits run() goes on to call sendStreamData,
\* which throws on a closed session; a throw lands in the catch clause.
PreludeNext ==
    CASE upPc = "ensure"     -> "nonce"
      [] upPc = "nonce"      -> "sealHeader"
      [] upPc = "sealHeader" -> "header"
      [] upPc = "header"     -> IF LeftoverChunks > 0 THEN "sealLeft" ELSE "awaitHs"
      [] upPc = "sealLeft"   -> "sendLeft"
      [] upPc = "sendLeft"   -> IF toSend > 1 THEN "sealLeft" ELSE "awaitHs"

PreludePcs == {"ensure", "nonce", "sealHeader", "header", "sealLeft", "sendLeft"}
CallsSend == {"ensure", "sealHeader", "sealLeft"}

\* Entering awaitHs arms the handshake timer, whatever happened meanwhile.
Prelude ==
    /\ ~Busy /\ upPc \in PreludePcs
    /\ upPc \in CallsSend => session = "live"
    /\ upPc' = PreludeNext
    /\ toSend' = CASE upPc = "header"   -> LeftoverChunks
                   [] upPc = "sendLeft" -> toSend - 1
                   [] OTHER             -> toSend
    /\ handshakeTimer' = (handshakeTimer \/ upPc' = "awaitHs")
    /\ UNCHANGED <<uploadPending, rxPc, bufVars, queueVars, endVars, closeVars,
                   hsVars, idleTimer, clientVars, wireVars>>

\* ensureConnected or a send throws, or a pending write rejects or times out.
PreludeFails ==
    /\ ~Busy /\ upPc \in PreludePcs
    /\ upPc \in CallsSend => session # "live"
    /\ Cleanup("tunnel_error")
    /\ upPc' = "finish"
    /\ UNCHANGED <<toSend, uploadPending, rxPc, bufVars, queueVars, closeVars,
                   hsVars, timerVars, clientVars, wireVars>>

HandshakeOver == handshake # "pending"

MayReadClient == serverHandshakeDone /\ ~isTerminated

\* await handshakePromise settles; the client is read only after success.
HandshakeSettled ==
    /\ ~Busy /\ upPc = "awaitHs" /\ HandshakeOver
    /\ upPc' = IF MayReadClient THEN "read" ELSE "finish"
    /\ UNCHANGED <<toSend, uploadPending, rxPc, bufVars, queueVars, endVars, closeVars,
                   hsVars, timerVars, clientVars, wireVars>>

\* clientReader.read() yields a chunk of n slices.
ReadData(n) ==
    /\ ~Busy /\ upPc = "read" /\ ~readerCancelled /\ reads < MaxReads
    /\ reads' = reads + 1
    /\ uploadPending' = uploadPending + n
    /\ toSend' = n
    /\ ResetIdle
    /\ upPc' = "seal"
    /\ UNCHANGED <<rxPc, bufVars, queueVars, endVars, closeVars, hsVars, handshakeTimer,
                   readerCancelled, writerClosed, delivered, wireVars>>

\* clientReader.read() yields done: the client's FIN, or a cancelled reader.
\* sendStreamData(fin) is called; it is awaited, its errors are swallowed.
ReadDone ==
    /\ ~Busy /\ upPc = "read"
    /\ clientReadClosed' = TRUE
    /\ upPc' = "sendFin"
    /\ UNCHANGED <<toSend, uploadPending, rxPc, bufVars, queueVars, endVars,
                   clientWriteClosed, serverFinReceived, transportClosed, hsVars,
                   timerVars, clientVars, wireVars>>

\* clientReader.read() rejects: the client's connection was reset.
ReadFails ==
    /\ ~Busy /\ upPc = "read" /\ ~readerCancelled
    /\ Cleanup("client_abort")
    /\ upPc' = "finish"
    /\ UNCHANGED <<toSend, uploadPending, rxPc, bufVars, queueVars, closeVars, hsVars,
                   timerVars, clientVars, wireVars>>

\* sealFrame resolves and sendStreamData is called on a live session.
SealChunk ==
    /\ ~Busy /\ upPc = "seal" /\ session = "live"
    /\ upPc' = "send"
    /\ UNCHANGED <<toSend, uploadPending, rxPc, bufVars, queueVars, endVars, closeVars,
                   hsVars, timerVars, clientVars, wireVars>>

\* One slice is on the wire; the last one goes back to the loop head.
SendDone ==
    /\ ~Busy /\ upPc = "send"
    /\ toSend' = toSend - 1
    /\ uploadPending' = uploadPending - 1
    /\ upPc' = IF toSend > 1 THEN "seal" ELSE IF isTerminated THEN "finish" ELSE "read"
    /\ UNCHANGED <<rxPc, bufVars, queueVars, endVars, closeVars, hsVars, timerVars,
                   clientVars, wireVars>>

\* value.length - offset
Unsent == toSend

\* The send throws on a closed session, or rejects: the rest is given up.
SendFails ==
    /\ ~Busy
    /\ \/ upPc = "seal" /\ session # "live"
       \/ upPc = "send"
    /\ uploadPending' = uploadPending - Unsent
    /\ toSend' = 0
    /\ Cleanup("upstream_write_failed")
    /\ upPc' = "finish"
    /\ UNCHANGED <<rxPc, bufVars, queueVars, closeVars, hsVars, timerVars, clientVars,
                   wireVars>>

MustWait(r) == r = "none" /\ ~isTerminated /\ ~serverFinReceived

\* The FIN's await is over: checkFullClose, then wait for the server's half.
FinSent ==
    /\ ~Busy /\ upPc = "sendFin"
    /\ LET r == FullCloseReason(clientReadClosed, serverFinReceived) IN
       /\ Cleanup(r)
       /\ upPc' = IF MustWait(r) THEN "awaitDone" ELSE "finish"
       /\ IF MustWait(r) THEN ResetIdle ELSE UNCHANGED idleTimer
    /\ UNCHANGED <<toSend, uploadPending, rxPc, bufVars, queueVars, closeVars, hsVars,
                   handshakeTimer, clientVars, wireVars>>

\* await completionPromise.
Completed ==
    /\ ~Busy /\ upPc = "awaitDone" /\ clPc = "done"
    /\ upPc' = "finish"
    /\ UNCHANGED <<toSend, uploadPending, rxPc, bufVars, queueVars, endVars, closeVars,
                   hsVars, timerVars, clientVars, wireVars>>

\* finally { await (cleanupPromise || cleanup('loop_exit')) }, then return.
Finish ==
    /\ ~Busy /\ upPc = "finish" /\ clPc \in {"none", "done"}
    /\ Cleanup("loop_exit")
    /\ upPc' = IF clPc = "done" THEN "returned" ELSE "finish"
    /\ UNCHANGED <<toSend, uploadPending, rxPc, bufVars, queueVars, closeVars, hsVars,
                   timerVars, clientVars, wireVars>>

-----------------------------------------------------------------------------
(* rx: processRxQueue *)

\* What the decoder does with b units in the buffer: start the next await, or
\* go back for another queue item when they are too few.
Decode(b) ==
    IF ~serverHandshakeDone
    THEN /\ rxBuf' = IF b < NONCE THEN b ELSE b - NONCE
         /\ rxPc' = IF b < NONCE THEN "loop" ELSE "deriveKey"
    ELSE IF ~expecting
    THEN /\ rxBuf' = IF b < LENGTH THEN b ELSE b - LENGTH
         /\ rxPc' = IF b < LENGTH THEN "loop" ELSE "openLength"
    ELSE /\ rxBuf' = IF b < PAYLOAD THEN b ELSE b - PAYLOAD
         /\ rxPc' = IF b < PAYLOAD THEN "loop" ELSE "openPayload"

\* The inner decode loop's head, after an await.
DecodeOrExit ==
    IF isTerminated THEN rxPc' = "exit" /\ UNCHANGED rxBuf ELSE Decode(rxBuf)

\* The outer loop: nothing left to do.
RxDrained ==
    /\ clPc # "called" /\ rxPc = "loop"
    /\ rxQueue = <<>> \/ isTerminated
    /\ rxPc' = "exit"
    /\ UNCHANGED <<upVars, bufVars, queueVars, endVars, closeVars, hsVars, timerVars,
                   clientVars, wireVars>>

\* The outer loop: shift a data chunk and decode.
RxShift ==
    /\ clPc # "called" /\ rxPc = "loop" /\ ~isTerminated
    /\ rxQueue # <<>> /\ Head(rxQueue) # FIN
    /\ rxQueue' = Tail(rxQueue)
    /\ rxQueuedBytes' = rxQueuedBytes - Head(rxQueue)
    /\ rxGlobal' = rxGlobal - Head(rxQueue)
    /\ Decode(rxBuf + Head(rxQueue))
    /\ UNCHANGED <<upVars, expecting, totalRecv, endVars, closeVars, hsVars, timerVars,
                   clientVars, wireVars>>

\* The outer loop: shift the FIN item; the client's write side is closed.
RxFin ==
    /\ clPc # "called" /\ rxPc = "loop" /\ ~isTerminated
    /\ rxQueue # <<>> /\ Head(rxQueue) = FIN
    /\ rxQueue' = Tail(rxQueue)
    /\ serverFinReceived' = TRUE
    /\ clientWriteClosed' = TRUE
    /\ writerClosed' = TRUE
    /\ rxPc' = "closeWriter"
    /\ UNCHANGED <<upVars, bufVars, rxQueuedBytes, rxGlobal, endVars, clientReadClosed,
                   transportClosed, hsVars, timerVars, reads, readerCancelled, delivered,
                   wireVars>>

\* clientWriter.close() settles: classify the end of the server's half.
RxFinClosed ==
    /\ ~Busy /\ rxPc = "closeWriter"
    /\ LET r == IF expecting \/ rxBuf > 0 THEN "framing_error"
                ELSE IF ~serverHandshakeDone THEN "target_dial_refused"
                ELSE FullCloseReason(clientReadClosed, serverFinReceived) IN
       /\ Cleanup(r)
       /\ IF r = "none" /\ ~clientReadClosed THEN ResetIdle ELSE UNCHANGED idleTimer
    /\ rxPc' = "exit"
    /\ UNCHANGED <<upVars, bufVars, queueVars, closeVars, hsVars, handshakeTimer,
                   clientVars, wireVars>>

\* deriveKey(sn) resolves.  isTerminated is not looked at again here.
KeyDerived ==
    /\ ~Busy /\ rxPc = "deriveKey"
    /\ serverHandshakeDone' = TRUE
    /\ handshakeTimer' = FALSE
    /\ replies' = replies \cup {"success"}
    /\ rxPc' = "sendSuccess"
    /\ UNCHANGED <<upVars, bufVars, queueVars, endVars, closeVars, idleTimer, clientVars,
                   wireVars>>

\* sendSuccess() settles (its errors are swallowed): run() may read the client.
SuccessSettled ==
    /\ ~Busy /\ rxPc = "sendSuccess"
    /\ handshake' = IF handshake = "pending" THEN "resolved" ELSE handshake
    /\ DecodeOrExit
    /\ UNCHANGED <<upVars, expecting, totalRecv, queueVars, clPc, terminationReason,
                   closeVars, hsVars, timerVars, clientVars, wireVars>>

\* openLength resolves; the payload is looked for whether or not the tunnel
\* has been terminated meanwhile.
LengthOpened ==
    /\ ~Busy /\ rxPc = "openLength"
    /\ expecting' = TRUE
    /\ rxBuf' = IF rxBuf < PAYLOAD THEN rxBuf ELSE rxBuf - PAYLOAD
    /\ rxPc' = IF rxBuf < PAYLOAD THEN "loop" ELSE "openPayload"
    /\ UNCHANGED <<upVars, totalRecv, queueVars, endVars, closeVars, hsVars, timerVars,
                   clientVars, wireVars>>

\* openLength or openPayload rejects: a bad tag.
OpenFails ==
    /\ ~Busy /\ rxPc \in {"openLength", "openPayload"}
    /\ Cleanup("decrypt_error")
    /\ rxPc' = "exit"
    /\ UNCHANGED <<upVars, bufVars, queueVars, closeVars, hsVars, timerVars, clientVars,
                   wireVars>>

\* openPayload resolves: the bytes are counted, then written to the client.  A
\* writer that was closed meanwhile refuses the write.
PayloadOpened ==
    /\ ~Busy /\ rxPc = "openPayload"
    /\ expecting' = FALSE
    /\ totalRecv' = totalRecv + 1
    /\ rxPc' = IF writerClosed THEN "exit" ELSE "write"
    /\ Cleanup(IF writerClosed THEN "client_write_error" ELSE "none")
    /\ UNCHANGED <<upVars, rxBuf, queueVars, closeVars, hsVars, timerVars, clientVars,
                   wireVars>>

\* clientWriter.write resolves.
WriteDone ==
    /\ ~Busy /\ rxPc = "write"
    /\ delivered' = delivered + 1
    /\ ResetIdle
    /\ DecodeOrExit
    /\ UNCHANGED <<upVars, expecting, totalRecv, queueVars, endVars, closeVars, hsVars,
                   handshakeTimer, reads, readerCancelled, writerClosed, wireVars>>

\* clientWriter.write rejects, or 15 s pass.
WriteFails ==
    /\ ~Busy /\ rxPc = "write"
    /\ Cleanup("client_write_error")
    /\ rxPc' = "exit"
    /\ UNCHANGED <<upVars, bufVars, queueVars, closeVars, hsVars, timerVars, clientVars,
                   wireVars>>

\* Mutant: the finally clause forgets the transport that closed meanwhile.
FinallyReason_Lost(again) == "none"

FinallyReason(again) ==
    IF ~again /\ transportClosed /\ ~serverFinReceived THEN "transport_closed" ELSE "none"

\* The finally clause: run again for items that came meanwhile, or report a
\* transport that closed while the queue was being worked off.
RxFinally ==
    /\ clPc # "called" /\ rxPc = "exit"
    /\ LET again == rxQueue # <<>> /\ ~isTerminated IN
       /\ rxPc' = IF again THEN "loop" ELSE "idle"
       /\ Cleanup(FinallyReason(again))
    /\ UNCHANGED <<upVars, bufVars, queueVars, closeVars, hsVars, timerVars, clientVars,
                   wireVars>>

-----------------------------------------------------------------------------
(* cl: the async body of cleanup *)

\* Mutant: the client is never told of a failed dial.
AfterWrite_Untold == "cancelReader"

\* Where cleanup goes once no client write is pending.
AfterWrite ==
    IF ~serverHandshakeDone /\ ~successSent /\ FinalAttempt THEN "sendFailure"
    ELSE IF FinalAttempt \/ serverHandshakeDone THEN "cancelReader" ELSE "done"

\* Where cleanup goes once the client's reader is cancelled.
AfterReader == IF clientWriteClosed THEN "done" ELSE "closeWriter"

\* The calls made on the way into the next await.
EnterCleanup(pc) ==
    /\ clPc' = pc
    /\ replies' = IF pc = "sendFailure" THEN replies \cup {"failure"} ELSE replies
    /\ readerCancelled' = (readerCancelled \/ pc = "cancelReader")
    /\ clientWriteClosed' = (clientWriteClosed \/ pc = "closeWriter")
    /\ writerClosed' = (writerClosed \/ pc = "closeWriter")
    /\ session' = IF pc = "done" THEN "closed" ELSE session

\* Mutant: the queued bytes are not taken off the process-wide gauge.
Discarded_Leak == 0

\* The units of rxQueue that the global gauge still counts.
Discarded == rxQueuedBytes

\* The synchronous head: timers, stream release, the receive gauge.
CleanupBody ==
    /\ clPc = "called"
    /\ handshakeTimer' = FALSE
    /\ idleTimer' = FALSE
    /\ registered' = FALSE
    /\ rxGlobal' = rxGlobal - Discarded
    /\ rxQueuedBytes' = 0
    /\ EnterCleanup(IF rxPc = "write" THEN "waitWrite" ELSE AfterWrite)
    /\ UNCHANGED <<upVars, rxPc, bufVars, rxQueue, terminationReason, handshake,
                   clientReadClosed, serverFinReceived, transportClosed,
                   serverHandshakeDone, reads, delivered, fed>>

\* The later awaits.  waitWrite ends with the write or after 5 s, the reader's
\* and the writer's awaits after at most 500 ms; onClose closes the session.
CleanupStep ==
    /\ ~Busy
    /\ \/ clPc = "waitWrite" /\ EnterCleanup(AfterWrite)
       \/ clPc = "sendFailure" /\ EnterCleanup("cancelReader")
       \/ clPc = "cancelReader" /\ EnterCleanup(AfterReader)
       \/ clPc = "closeWriter" /\ EnterCleanup("done")
    /\ UNCHANGED <<upVars, rxPc, bufVars, queueVars, terminationReason, handshake,
                   clientReadClosed, serverFinReceived, transportClosed,
                   serverHandshakeDone, timerVars, reads, delivered, registered, fed>>

-----------------------------------------------------------------------------
(* timers *)

HandshakeTimeout ==
    /\ ~Busy /\ handshakeTimer
    /\ handshakeTimer' = FALSE
    /\ Cleanup(IF serverHandshakeDone THEN "none" ELSE "handshake_timeout")
    /\ UNCHANGED <<upVars, rxPc, bufVars, queueVars, closeVars, hsVars, idleTimer,
                   clientVars, wireVars>>

IdleTimeout ==
    /\ ~Busy /\ idleTimer
    /\ idleTimer' = FALSE
    /\ Cleanup("idle_timeout")
    /\ UNCHANGED <<upVars, rxPc, bufVars, queueVars, closeVars, hsVars, handshakeTimer,
                   clientVars, wireVars>>

-----------------------------------------------------------------------------
(* the handlers the session calls, and the session around them *)

\* Mutant: unshift for push.
Enqueued_Front(item) == <<item>> \o rxQueue

Enqueued(item) == Append(rxQueue, item)

StartPump == rxPc' = IF rxPc = "idle" THEN "loop" ELSE rxPc

\* onData(data, false) of n units.
OnData(n) ==
    /\ ~Busy /\ registered /\ session = "live" /\ fed + n <= MaxFed
    /\ fed' = fed + n
    /\ ResetIdle
    /\ IF rxQueuedBytes + n > RxCap
       THEN Cleanup("rx_overflow") /\ UNCHANGED <<rxPc, queueVars>>
       ELSE /\ rxQueue' = Enqueued(n)
            /\ rxQueuedBytes' = rxQueuedBytes + n
            /\ rxGlobal' = rxGlobal + n
            /\ StartPump
            /\ UNCHANGED endVars
    /\ UNCHANGED <<upVars, bufVars, closeVars, hsVars, handshakeTimer, clientVars, session,
                   registered>>

\* The read pump sees the server's FIN: onData(empty, true), onClose, and
\* the session closes itself, which refuses every later sendStreamData.
OnFin ==
    /\ ~Busy /\ registered /\ session = "live"
    /\ session' = "finished"
    /\ rxQueue' = Enqueued(FIN)
    /\ transportClosed' = TRUE
    /\ ResetIdle
    /\ StartPump
    /\ UNCHANGED <<upVars, bufVars, rxQueuedBytes, rxGlobal, endVars, clientReadClosed,
                   clientWriteClosed, serverFinReceived, hsVars, handshakeTimer, clientVars,
                   registered, fed>>

\* onError: the stream was reset; the session's close follows at once.
OnError ==
    /\ ~Busy /\ registered /\ session = "live"
    /\ session' = "closed"
    /\ transportClosed' = TRUE
    /\ Cleanup("stream_error")
    /\ UNCHANGED <<upVars, rxPc, bufVars, queueVars, clientReadClosed, clientWriteClosed,
                   serverFinReceived, hsVars, timerVars, clientVars, registered, fed>>

\* What the onClose handler calls cleanup with.
CloseReason ==
    IF ~registered \/ rxQueue # <<>> \/ rxPc # "idle" THEN "none"
    ELSE IF ~serverFinReceived THEN "transport_closed"
    ELSE FullCloseReason(clientReadClosed, serverFinReceived)

\* The session closes without a FIN: onClose, if the handlers are there.
OnClose ==
    /\ session' = "closed"
    /\ transportClosed' = (transportClosed \/ registered)
    /\ Cleanup(CloseReason)

SessionLost ==
    /\ ~Busy /\ session = "live"
    /\ OnClose
    /\ UNCHANGED <<upVars, rxPc, bufVars, queueVars, clientReadClosed, clientWriteClosed,
                   serverFinReceived, hsVars, timerVars, clientVars, registered, fed>>

\* handlerEntry.cancel() of the dispatcher, on stop or on a lost network: the
\* client's two halves and the session are closed under the tunnel.
HandlerCancel ==
    /\ ~Busy /\ session # "closed"
    /\ readerCancelled' = TRUE
    /\ writerClosed' = TRUE
    /\ IF session = "live" THEN OnClose
       ELSE session' = "closed" /\ UNCHANGED <<transportClosed, endVars>>
    /\ UNCHANGED <<upVars, rxPc, bufVars, queueVars, clientReadClosed, clientWriteClosed,
                   serverFinReceived, hsVars, timerVars, reads, delivered, registered, fed>>

-----------------------------------------------------------------------------
\* run() has returned and the decoder is quiet.
Terminated ==
    /\ upPc = "returned" /\ rxPc = "idle"
    /\ UNCHANGED vars

\* Steps of run() whose promises settle: sealing is local, sends are raced
\* against 15 s.  The FIN is not: its writer.close() is taken to settle when the
\* transport has passed it on or is lost.
UpOwn == \/ Register \/ Prelude \/ PreludeFails \/ HandshakeSettled
         \/ SealChunk \/ SendDone \/ SendFails \/ FinSent \/ Completed \/ Finish

UpRead == (\E n \in 1..MaxSlices : ReadData(n)) \/ ReadDone \/ ReadFails

\* Steps of the decoder that settle by themselves.  A write is raced against
\* 15 s; the close of the client's writer on FIN is awaited without a bound.
RxOwn == \/ RxDrained \/ RxShift \/ RxFin \/ KeyDerived \/ SuccessSettled
         \/ LengthOpened \/ OpenFails \/ PayloadOpened \/ WriteDone \/ WriteFails
         \/ RxFinally

Cl == CleanupBody \/ CleanupStep

Env == \/ \E n \in 1..MaxChunk : OnData(n)
       \/ OnFin \/ OnError \/ SessionLost \/ HandlerCancel

Next == \/ UpOwn \/ UpRead \/ RxOwn \/ RxFinClosed \/ Cl
        \/ HandshakeTimeout \/ IdleTimeout \/ Env \/ Terminated

Spec == Init /\ [][Next]_vars

\* The event loop runs what is ready, an armed timer that is not reset fires,
\* a cancelled reader resolves its pending read, and the few bytes of a reply
\* are taken by the client's socket (sendSuccess, sendFailure), the stream's FIN
\* by the transport.  Nothing is asked of the server's data, of the client's
\* reads and writes, or of the close of the client's writer.
Fairness ==
    /\ WF_vars(UpOwn) /\ WF_vars(RxOwn) /\ WF_vars(Cl)
    /\ WF_vars(IdleTimeout)
    /\ WF_vars(readerCancelled /\ ReadDone)

FairSpec == Spec /\ Fairness

-----------------------------------------------------------------------------
(* Properties *)

RxPcs == {"idle", "loop", "exit", "deriveKey", "sendSuccess", "openLength",
          "openPayload", "write", "closeWriter"}
UpPcs == {"start", "ensure", "nonce", "sealHeader", "header", "sealLeft", "sendLeft",
          "awaitHs", "read", "seal", "send", "sendFin", "awaitDone", "finish", "returned"}
ClPcs == {"none", "called", "waitWrite", "sendFailure", "cancelReader", "closeWriter", "done"}
Reasons == {"unknown", "tunnel_error", "client_abort", "upstream_write_failed",
            "framing_error", "target_dial_refused", "both_closed", "loop_exit",
            "decrypt_error", "client_write_error", "transport_closed",
            "handshake_timeout", "idle_timeout", "rx_overflow", "stream_error"}

FlagsOK ==
    /\ expecting \in BOOLEAN /\ serverHandshakeDone \in BOOLEAN
    /\ clientReadClosed \in BOOLEAN /\ clientWriteClosed \in BOOLEAN
    /\ serverFinReceived \in BOOLEAN /\ transportClosed \in BOOLEAN
    /\ handshakeTimer \in BOOLEAN /\ idleTimer \in BOOLEAN
    /\ readerCancelled \in BOOLEAN /\ writerClosed \in BOOLEAN /\ registered \in BOOLEAN
    /\ replies \subseteq {"success", "failure"}

DataOK ==
    /\ upPc \in UpPcs /\ toSend \in Nat /\ uploadPending \in Nat
    /\ rxPc \in RxPcs /\ rxQueue \in Seq(0..MaxChunk)
    /\ rxQueuedBytes \in Int /\ rxGlobal \in Int /\ rxBuf \in Nat /\ totalRecv \in Nat
    /\ clPc \in ClPcs /\ terminationReason \in Reasons
    /\ handshake \in {"pending", "resolved", "rejected"}
    /\ reads \in Nat /\ delivered \in Nat /\ fed \in Nat
    /\ session \in {"live", "finished", "closed"}

\* Type invariant.
TypeOK == FlagsOK /\ DataOK

\* The bounded-idle watchdog of resetIdleTimer: from registration to
\* termination some idle timer is always armed, so no tunnel can sit on its
\* client for ever, and none fires into a tunnel already cleaned up, although
\* late awaits (a write that settles after cleanup) call resetIdleTimer too.
IdleWatchdog ==
    /\ registered /\ ~isTerminated => idleTimer
    /\ isTerminated /\ clPc # "called" => ~idleTimer

\* processRxQueue loses no wakeup: when it is not running in a live tunnel,
\* every chunk handed to onData has been taken up, and an onClose that came
\* while it ran has been acted upon.
NoLostWakeup ==
    rxPc = "idle" /\ ~isTerminated =>
        rxQueue = <<>> /\ (transportClosed => serverFinReceived)

\* "transport_closed" is only reported of a server that never sent its FIN, and
\* only after everything received before the loss has been worked off: the
\* FIN is not overtaken by the onClose that follows it.
CutOffIsReal ==
    terminationReason = "transport_closed" =>
        session # "finished" /\ ~serverFinReceived /\ rxQueue = <<>>

\* "both_closed" is a complete transfer: each unit the server sent belongs to
\* the nonce or to a frame whose write to the client has completed.
BothClosedComplete ==
    terminationReason = "both_closed" =>
        /\ clientReadClosed /\ serverFinReceived
        /\ delivered = totalRecv /\ delivered > 0
        /\ fed = NONCE + delivered * (LENGTH + PAYLOAD)

\* The target's bytes and the client's bytes move only behind the reply: no
\* payload is counted, and the client's socket is not read, until the success
\* reply has been written.
ReplyBeforeData ==
    totalRecv > 0 \/ upPc \in {"read", "seal", "send", "sendFin", "awaitDone"} =>
        successSent /\ rxPc \notin {"deriveKey", "sendSuccess"}

\* A client that was told of a failure has lost no data to this tunnel and got
\* none from it, even when the server nonce is being digested at that moment.
FailureIsClean == "failure" \in replies => totalRecv = 0 /\ reads = 0

\* run() never falls out of its loops unnoticed: the 'loop_exit' of the finally
\* clause is dead code, every end has a reason of its own.
NamedReason == terminationReason # "loop_exit"

\* The upload gauge counts the slices of the chunk in hand and nothing else; on
\* each way out, a failed send in mid-chunk included, it is given back.
UploadGauge == uploadPending = IF upPc \in {"seal", "send"} THEN toSend ELSE 0

\* The units of a queue; a FIN item weighs nothing.
Units(q) ==
    LET sum[n \in 0..Len(q)] == IF n = 0 THEN 0 ELSE sum[n - 1] + q[n] IN sum[Len(q)]

\* The process-wide gauge of queued downstream bytes is exact: it counts this
\* tunnel's queue while the tunnel runs and nothing of it afterwards, whatever
\* the queue still held when cleanup came between two of its items.
RxGauge ==
    /\ rxGlobal = rxQueuedBytes
    /\ rxQueuedBytes = IF clPc \in {"none", "called"} THEN Units(rxQueue) ELSE 0

\* isSuccess of the value run() returns.
Success == \/ terminationReason = "both_closed"
           \/ /\ serverHandshakeDone /\ totalRecv > 0
              /\ terminationReason \in {"idle_timeout", "client_closed", "transport_closed"}

\* A tunnel reported as a success served its client: the client was sent the
\* success reply and bytes of the target.
SuccessServed == upPc = "returned" /\ Success =>
    successSent /\ "failure" \notin replies /\ totalRecv > 0

\* A dial that fails before the server nonce has not touched the client's
\* input, so that a further attempt can be made with it.
RetryKeepsReader ==
    upPc = "returned" /\ ~FinalAttempt /\ ~serverHandshakeDone =>
        reads = 0 /\ ~clientReadClosed

\* A final attempt leaves neither half of the client's socket open.
FinalCloses == upPc = "returned" /\ FinalAttempt => readerCancelled /\ writerClosed

\* The server's FIN reaches the client after all its data: when the decoder
\* takes up the FIN, each frame that is complete has been written.
FinAfterData ==
    [][~serverFinReceived /\ serverFinReceived' =>
        /\ rxQueue' = <<>> /\ delivered = totalRecv
        /\ rxBuf < (IF ~serverHandshakeDone THEN NONCE
                    ELSE IF expecting THEN PAYLOAD ELSE LENGTH)]_vars

\* run() returns whatever the server and the client send, and whenever they stop.
Returns == <>(upPc = "returned")
=============================================================================
