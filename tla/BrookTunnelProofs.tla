-------------------------- MODULE BrookTunnelProofs --------------------------
(***************************************************************************)
(* Invariance proofs about one tunnel, for every value of the constants.   *)
(* IInv is the inductive strengthening: it adds to the stated invariants   *)
(* where the three activities can be relative to each other.  Flow adds    *)
(* what becomes of each unit of the stream; the last part shows that the   *)
(* tunnel implements TunnelContract, in both kinds of attempt.             *)
(***************************************************************************)
EXTENDS BrookTunnelRefinement, WellFoundedInduction, TLAPS

\* The places of run() that come after the handshake promise was resolved.
Relaying == {"read", "seal", "send", "sendFin", "awaitDone"}

\* Nothing has happened before run() registers its handlers.
NotStarted ==
    upPc = "start" => /\ ~isTerminated /\ ~registered /\ rxPc = "idle"
                      /\ ~idleTimer /\ ~handshakeTimer

\* A slice loop has a slice in hand.
SlicesLeft == upPc \in {"sealLeft", "sendLeft", "seal", "send"} => toSend > 0

\* The server nonce orders the decoder, the promise and the read loop.
DialOrder ==
    /\ serverHandshakeDone => successSent /\ rxPc # "deriveKey"
    /\ ~serverHandshakeDone =>
          /\ rxPc \notin {"sendSuccess", "openLength", "openPayload", "write"}
          /\ totalRecv = 0 /\ reads = 0 /\ ~clientReadClosed /\ upPc \notin Relaying
          /\ handshake # "resolved" /\ ~successSent
    /\ handshake = "resolved" => rxPc # "sendSuccess"
    /\ handshake = "rejected" => isTerminated
    /\ upPc \in Relaying \/ totalRecv > 0 => rxPc # "sendSuccess"
    /\ upPc \in Relaying => handshake = "resolved"

\* A failure reply comes from cleanup and freezes the transfer.
FailureFreezes ==
    "failure" \in replies =>
        /\ isTerminated /\ totalRecv = 0 /\ reads = 0 /\ upPc \notin Relaying
        /\ rxPc \notin {"openLength", "openPayload", "write"}

\* After the head of cleanup the session has dropped the handlers.
Released == isTerminated /\ clPc # "called" => ~registered

\* A FIN that was delivered and not yet taken up is the last item of the queue.
FinQueued ==
    session = "finished" /\ ~serverFinReceived /\ ~isTerminated =>
        Len(rxQueue) > 0 /\ rxQueue[Len(rxQueue)] = FIN

\* The reason is set by the call that terminates, and full close is not
\* reported without a byte of the target.
ReasonSet ==
    /\ ~isTerminated => terminationReason = "unknown"
    /\ terminationReason = "both_closed" => serverHandshakeDone /\ totalRecv > 0

\* run() ends behind a cleanup, and a final cleanup closes both client halves.
Ending ==
    /\ upPc \in {"finish", "returned"} => isTerminated
    /\ upPc = "sendFin" => clientReadClosed
    /\ upPc = "returned" => clPc = "done"
    /\ clientWriteClosed => writerClosed
    /\ clPc = "cancelReader" => readerCancelled
    /\ clPc = "closeWriter" => readerCancelled /\ writerClosed
    /\ clPc = "done" /\ FinalAttempt => readerCancelled /\ writerClosed

SInv ==
    /\ DataOK /\ NotStarted /\ SlicesLeft /\ UploadGauge
    /\ DialOrder /\ FailureFreezes
    /\ Released /\ IdleWatchdog /\ NoLostWakeup
    /\ FinQueued /\ ReasonSet /\ CutOffIsReal /\ Ending /\ NamedReason

IInv == FlagsOK /\ SInv

USE DEF isTerminated, successSent, Busy, Cleanup, FIN,
        upVars, bufVars, queueVars, endVars, closeVars, hsVars, timerVars,
        clientVars, wireVars

-----------------------------------------------------------------------------
\* The Boolean locals of run() stay Boolean (Zenon reads x' = FALSE as a value).
LEMMA FlagsStep == ASSUME FlagsOK, [Next]_vars PROVE FlagsOK'
<1> USE DEF FlagsOK
<1>1. CASE Register
  BY <1>1, Zenon DEF Register, ResetIdle
<1>2. CASE Prelude
  BY <1>2, Zenon DEF Prelude, PreludeNext, PreludePcs, CallsSend
<1>3. CASE PreludeFails
  BY <1>3, Zenon DEF PreludeFails, PreludePcs, CallsSend
<1>4. CASE HandshakeSettled
  BY <1>4, Zenon DEF HandshakeSettled, HandshakeOver, MayReadClient
<1>5. ASSUME NEW n \in 1..MaxSlices, ReadData(n) PROVE FlagsOK'
  BY <1>5, Zenon DEF ReadData, ResetIdle
<1>6. CASE ReadDone
  BY <1>6, Zenon DEF ReadDone
<1>7. CASE ReadFails
  BY <1>7, Zenon DEF ReadFails
<1>8. CASE SealChunk
  BY <1>8, Zenon DEF SealChunk
<1>9. CASE SendDone
  BY <1>9, Zenon DEF SendDone
<1>10. CASE SendFails
  BY <1>10, Zenon DEF SendFails, Unsent
<1>11. CASE FinSent
  BY <1>11, Zenon DEF FinSent, MustWait, FullCloseReason, ResetIdle
<1>12. CASE Completed
  BY <1>12, Zenon DEF Completed
<1>13. CASE Finish
  BY <1>13, Zenon DEF Finish
<1>14. CASE RxDrained
  BY <1>14, Zenon DEF RxDrained
<1>15. CASE RxShift
  BY <1>15, Zenon DEF RxShift, Decode
<1>16. CASE RxFin
  BY <1>16, Zenon DEF RxFin
<1>17. CASE RxFinClosed
  BY <1>17, Zenon DEF RxFinClosed, FullCloseReason, ResetIdle
<1>18. CASE KeyDerived
  BY <1>18, Zenon DEF KeyDerived
<1>19. CASE SuccessSettled
  BY <1>19, Zenon DEF SuccessSettled, DecodeOrExit, Decode
<1>20. CASE LengthOpened
  BY <1>20, Zenon DEF LengthOpened
<1>21. CASE OpenFails
  BY <1>21, Zenon DEF OpenFails
<1>22. CASE PayloadOpened
  BY <1>22, Zenon DEF PayloadOpened
<1>23. CASE WriteDone
  BY <1>23, Zenon DEF WriteDone, DecodeOrExit, Decode, ResetIdle
<1>24. CASE WriteFails
  BY <1>24, Zenon DEF WriteFails
<1>25. CASE RxFinally
  BY <1>25, Zenon DEF RxFinally, FinallyReason
<1>26. CASE CleanupBody
  BY <1>26, Zenon DEF CleanupBody, EnterCleanup, AfterWrite, Discarded
<1>27. CASE CleanupStep
  BY <1>27, Zenon DEF CleanupStep, EnterCleanup, AfterWrite, AfterReader
<1>28. CASE HandshakeTimeout
  BY <1>28, Zenon DEF HandshakeTimeout
<1>29. CASE IdleTimeout
  BY <1>29, Zenon DEF IdleTimeout
<1>30. ASSUME NEW n \in 1..MaxChunk, OnData(n) PROVE FlagsOK'
  BY <1>30, Zenon DEF OnData, ResetIdle, Enqueued, StartPump
<1>31. CASE OnFin
  BY <1>31, Zenon DEF OnFin, ResetIdle, Enqueued, StartPump
<1>32. CASE OnError
  BY <1>32, Zenon DEF OnError
<1>33. CASE SessionLost
  BY <1>33, Zenon DEF SessionLost, OnClose, CloseReason, FullCloseReason
<1>34. CASE HandlerCancel
  BY <1>34, Zenon DEF HandlerCancel, OnClose, CloseReason, FullCloseReason
<1>35. CASE UNCHANGED vars
  BY <1>35, Zenon DEF vars
<1>q. QED
  BY <1>1, <1>2, <1>3, <1>4, <1>5, <1>6, <1>7, <1>8, <1>9, <1>10, <1>11,
     <1>12, <1>13, <1>14, <1>15, <1>16, <1>17, <1>18, <1>19, <1>20, <1>21,
     <1>22, <1>23, <1>24, <1>25, <1>26, <1>27, <1>28, <1>29, <1>30, <1>31,
     <1>32, <1>33, <1>34, <1>35 DEF Next, UpOwn, UpRead, RxOwn, Cl, Env,
     Terminated

\* Each step keeps everything else.
LEMMA SafetyStep == ASSUME IInv, [Next]_vars PROVE SInv'
<1> USE TunnelAssumption
    DEF IInv, SInv, FlagsOK, DataOK, NotStarted, SlicesLeft, UploadGauge, DialOrder,
        FailureFreezes, Released, IdleWatchdog, NoLostWakeup, FinQueued, ReasonSet,
        CutOffIsReal, Ending, NamedReason, Relaying, UpPcs, RxPcs, ClPcs, Reasons
<1>1. CASE Register
  <2>1. IdleWatchdog'
    BY <1>1, Zenon DEF Register, ResetIdle
  <2>2. QED
    BY <1>1, <2>1, SMTT(30) DEF Register
<1>2. CASE Prelude
  BY <1>2, SMTT(30) DEF Prelude, PreludeNext, PreludePcs, CallsSend
<1>3. CASE PreludeFails
  BY <1>3, SMTT(30) DEF PreludeFails, PreludePcs, CallsSend
<1>4. CASE HandshakeSettled
  BY <1>4, SMTT(30) DEF HandshakeSettled, HandshakeOver, MayReadClient
<1>5. ASSUME NEW n \in 1..MaxSlices, ReadData(n) PROVE SInv'
  BY <1>5, SMTT(30) DEF ReadData, ResetIdle
<1>6. CASE ReadDone
  BY <1>6, SMTT(30) DEF ReadDone
<1>7. CASE ReadFails
  BY <1>7, SMTT(30) DEF ReadFails
<1>8. CASE SealChunk
  BY <1>8, SMTT(30) DEF SealChunk
<1>9. CASE SendDone
  BY <1>9, SMTT(30) DEF SendDone
<1>10. CASE SendFails
  BY <1>10, SMTT(30) DEF SendFails, Unsent
<1>11. CASE FinSent
  BY <1>11, SMTT(30) DEF FinSent, MustWait, FullCloseReason, ResetIdle
<1>12. CASE Completed
  BY <1>12, SMTT(30) DEF Completed
<1>13. CASE Finish
  BY <1>13, SMTT(30) DEF Finish
<1>14. CASE RxDrained
  BY <1>14, SMTT(30) DEF RxDrained
<1>15. CASE RxShift
  <2>1. rxQueue \in Seq(0..MaxChunk) /\ rxQueue # <<>> /\ rxQueue' = Tail(rxQueue)
    BY <1>15, Zenon DEF RxShift
  <2>2. /\ rxQueue' \in Seq(0..MaxChunk) /\ Head(rxQueue) \in Nat
        /\ Len(rxQueue') = Len(rxQueue) - 1 /\ Len(rxQueue) \in Nat
        /\ \A i \in 1..Len(rxQueue') : rxQueue'[i] = rxQueue[i + 1]
        /\ Head(rxQueue) = rxQueue[1]
    <3> HIDE DEF IInv, SInv, DataOK
    <3>1. QED
      BY <2>1, SMT
  <2>3. DataOK'
    <3>1. rxQueuedBytes' \in Int /\ rxGlobal' \in Int
      BY <1>15, <2>2, SMT DEF RxShift
    <3>2. rxBuf' \in Nat /\ rxPc' \in RxPcs
      <4>1. Decode(rxBuf + Head(rxQueue)) /\ rxBuf \in Nat
        BY <1>15 DEF RxShift
      <4> HIDE DEF IInv, SInv
      <4>2. QED
        BY <4>1, <2>2, SMT DEF Decode
    <3>3. QED
      BY <1>15, <2>2, <3>1, <3>2, Zenon DEF RxShift
  <2>4. FinQueued'
    BY <1>15, <2>2, SMTT(30) DEF RxShift
  <2>5. QED
    BY <1>15, <2>3, <2>4, SMTT(30) DEF RxShift, Decode
<1>16. CASE RxFin
  BY <1>16, SMTT(30) DEF RxFin
<1>17. CASE RxFinClosed
  BY <1>17, SMTT(30) DEF RxFinClosed, FullCloseReason, ResetIdle
<1>18. CASE KeyDerived
  BY <1>18, SMTT(30) DEF KeyDerived
<1>19. CASE SuccessSettled
  BY <1>19, SMTT(30) DEF SuccessSettled, DecodeOrExit, Decode
<1>20. CASE LengthOpened
  BY <1>20, SMTT(30) DEF LengthOpened
<1>21. CASE OpenFails
  BY <1>21, SMTT(30) DEF OpenFails
<1>22. CASE PayloadOpened
  BY <1>22, SMTT(30) DEF PayloadOpened
<1>23. CASE WriteDone
  BY <1>23, SMTT(30) DEF WriteDone, DecodeOrExit, Decode, ResetIdle
<1>24. CASE WriteFails
  BY <1>24, SMTT(30) DEF WriteFails
<1>25. CASE RxFinally
  BY <1>25, SMTT(30) DEF RxFinally, FinallyReason
<1>26. CASE CleanupBody
  BY <1>26, SMTT(30) DEF CleanupBody, EnterCleanup, AfterWrite, Discarded
<1>27. CASE CleanupStep
  <2> USE DEF CleanupStep, EnterCleanup, AfterWrite, AfterReader
  <2>1. Ending'
    <3>1. clientWriteClosed' => writerClosed'
      BY <1>27, Zenon
    <3>2. clPc' = "cancelReader" => readerCancelled'
      BY <1>27, Zenon
    <3>3. clPc' = "closeWriter" => readerCancelled' /\ writerClosed'
      BY <1>27, Zenon
    <3>4. clPc' = "done" /\ FinalAttempt => readerCancelled' /\ writerClosed'
      BY <1>27, Zenon
    <3>5. QED
      BY <1>27, <3>1, <3>2, <3>3, <3>4, SMTT(30)
  <2>2. FailureFreezes'
    BY <1>27, SMTT(30)
  <2>3. DialOrder'
    BY <1>27, SMTT(30)
  <2>4. QED
    BY <1>27, <2>1, <2>2, <2>3, SMTT(30)
<1>28. CASE HandshakeTimeout
  BY <1>28, SMTT(30) DEF HandshakeTimeout
<1>29. CASE IdleTimeout
  BY <1>29, SMTT(30) DEF IdleTimeout
<1>30. ASSUME NEW n \in 1..MaxChunk, OnData(n) PROVE SInv'
  <2>1. CASE rxQueuedBytes + n > RxCap
    BY <1>30, <2>1, SMTT(30) DEF OnData, ResetIdle
  <2>2. CASE ~(rxQueuedBytes + n > RxCap)
    <3>1. rxQueue' \in Seq(0..MaxChunk)
      BY <1>30, <2>2, SMTT(30) DEF OnData, Enqueued
    <3>2. QED
      BY <1>30, <2>2, <3>1, SMTT(30) DEF OnData, ResetIdle, Enqueued, StartPump
  <2>3. QED
    BY <2>1, <2>2
<1>31. CASE OnFin
  BY <1>31, SMTT(30) DEF OnFin, ResetIdle, Enqueued, StartPump
<1>32. CASE OnError
  BY <1>32, SMTT(30) DEF OnError
<1>33. CASE SessionLost
  BY <1>33, SMTT(30) DEF SessionLost, OnClose, CloseReason, FullCloseReason
<1>34. CASE HandlerCancel
  BY <1>34, SMTT(30) DEF HandlerCancel, OnClose, CloseReason,
     FullCloseReason
<1>35. CASE UNCHANGED vars
  BY <1>35, SMTT(30) DEF vars
<1>q. QED
  BY <1>1, <1>2, <1>3, <1>4, <1>5, <1>6, <1>7, <1>8, <1>9, <1>10, <1>11,
     <1>12, <1>13, <1>14, <1>15, <1>16, <1>17, <1>18, <1>19, <1>20, <1>21,
     <1>22, <1>23, <1>24, <1>25, <1>26, <1>27, <1>28, <1>29, <1>30, <1>31,
     <1>32, <1>33, <1>34, <1>35 DEF Next, UpOwn, UpRead, RxOwn, Cl, Env,
     Terminated

LEMMA InitInv == Init => IInv
<1> SUFFICES ASSUME Init PROVE IInv
  OBVIOUS
<1> USE DEF Init
<1>1. FlagsOK
  BY Zenon DEF FlagsOK
<1>2. SInv
  BY SMTT(30)
     DEF SInv, DataOK, NotStarted, SlicesLeft, UploadGauge, DialOrder,
         FailureFreezes, Released, IdleWatchdog, NoLostWakeup, FinQueued, ReasonSet,
         CutOffIsReal, Ending, NamedReason, Relaying, UpPcs, RxPcs, ClPcs, Reasons
<1>3. QED
  BY <1>1, <1>2 DEF IInv

LEMMA Invariance == Spec => []IInv
<1>1. ASSUME IInv, [Next]_vars PROVE IInv'
  BY <1>1, FlagsStep, SafetyStep DEF IInv
<1>2. QED
  BY <1>1, InitInv, PTL DEF Spec

-----------------------------------------------------------------------------
\* Types: every local of run() stays in its range; the decoder never takes more
\* off its buffer than it holds, nor the sender off the upload gauge.
THEOREM TypeCorrect == Spec => []TypeOK
<1>1. IInv => TypeOK
  BY DEF IInv, SInv, TypeOK
<1>2. QED
  BY <1>1, Invariance, PTL

\* resetIdleTimer: a registered tunnel is never without its idle timer, and a
\* terminated one never keeps one.
THEOREM Watchdog == Spec => []IdleWatchdog
<1>1. IInv => IdleWatchdog
  BY DEF IInv, SInv
<1>2. QED
  BY <1>1, Invariance, PTL

\* processRxQueue: no chunk and no onClose is left behind by a decoder that has
\* gone to sleep.
THEOREM WakeupKept == Spec => []NoLostWakeup
<1>1. IInv => NoLostWakeup
  BY DEF IInv, SInv
<1>2. QED
  BY <1>1, Invariance, PTL

\* onClose against onData(fin): an orderly FIN is never reported as a transport
\* that was cut off.
THEOREM FinNotOvertaken == Spec => []CutOffIsReal
<1>1. IInv => CutOffIsReal
  BY DEF IInv, SInv
<1>2. QED
  BY <1>1, Invariance, PTL

\* Payload moves, in either direction, only behind the written success reply.
THEOREM ReplyFirst == Spec => []ReplyBeforeData
<1>1. IInv => ReplyBeforeData
  BY SMT DEF IInv, SInv, DialOrder, DataOK, ReplyBeforeData, Relaying
<1>2. QED
  BY <1>1, Invariance, PTL

\* A failure reply excludes any transfer, whichever await it raced with.
THEOREM FailureExclusive == Spec => []FailureIsClean
<1>1. IInv => FailureIsClean
  BY DEF IInv, SInv, FailureFreezes, FailureIsClean
<1>2. QED
  BY <1>1, Invariance, PTL

\* The upload gauge is exact on every path out of the read loop.
THEOREM UploadExact == Spec => []UploadGauge
<1>1. IInv => UploadGauge
  BY DEF IInv, SInv
<1>2. QED
  BY <1>1, Invariance, PTL

\* The finally clause of run() never has to invent a reason.
THEOREM NoUnnamedEnd == Spec => []NamedReason
<1>1. IInv => NamedReason
  BY DEF IInv, SInv
<1>2. QED
  BY <1>1, Invariance, PTL

\* isSuccess implies that the client got the reply and bytes of the target.
THEOREM SuccessIsService == Spec => []SuccessServed
<1>1. IInv => SuccessServed
  BY SMT DEF IInv, SInv, DialOrder, FailureFreezes, ReasonSet, DataOK,
             SuccessServed, Success
<1>2. QED
  BY <1>1, Invariance, PTL

\* run() of the last attempt returns with both halves of the client closed.
THEOREM FinalClosesBoth == Spec => []FinalCloses
<1>1. IInv => FinalCloses
  BY DEF IInv, SInv, Ending, FinalCloses
<1>2. QED
  BY <1>1, Invariance, PTL

\* A dial that failed has read nothing of the client.
THEOREM ReaderKept == Spec => []RetryKeepsReader
<1>1. IInv => RetryKeepsReader
  BY DEF IInv, SInv, DialOrder, RetryKeepsReader
<1>2. QED
  BY <1>1, Invariance, PTL

-----------------------------------------------------------------------------
(* What comes out of the decoder: the FIN after all data, and all of it. *)

\* Nothing is queued behind the FIN, and once it is taken up the decoder rests.
FinPart ==
    /\ \A i \in 1..Len(rxQueue) : rxQueue[i] = FIN => i = Len(rxQueue) /\ session # "live"
    /\ serverFinReceived => /\ rxQueue = <<>> /\ session # "live"
                            /\ rxPc \in {"closeWriter", "exit", "idle"}
    /\ rxPc = "closeWriter" => serverFinReceived

\* Units the decoder waits for.
Need == IF ~serverHandshakeDone THEN NONCE ELSE IF expecting THEN PAYLOAD ELSE LENGTH

\* Where the decoder is in a frame.
FramePart ==
    /\ ~serverHandshakeDone => ~expecting
    /\ rxPc = "openPayload" => expecting
    /\ rxPc \in {"openLength", "write"} => ~expecting

\* In a live tunnel each frame counted is written or being written, and whoever
\* looks for queue items has used up those before.
CountPart ==
    ~isTerminated =>
        /\ totalRecv = delivered + (IF rxPc = "write" THEN 1 ELSE 0)
        /\ ~serverFinReceived /\ rxPc \in {"loop", "exit", "idle"} => rxBuf < Need

\* Only OnFin queues a FIN, as the last item it can queue.
LEMMA FinStep == ASSUME IInv, FinPart, [Next]_vars PROVE FinPart'
<1> USE TunnelAssumption DEF IInv, SInv, DataOK, FinPart, RxPcs
<1>1. CASE Register
  BY <1>1, SMTT(30) DEF Register, ResetIdle
<1>2. CASE Prelude
  BY <1>2, SMTT(30) DEF Prelude, PreludeNext, PreludePcs, CallsSend
<1>3. CASE PreludeFails
  BY <1>3, SMTT(30) DEF PreludeFails, PreludePcs, CallsSend
<1>4. CASE HandshakeSettled
  BY <1>4, SMTT(30) DEF HandshakeSettled, HandshakeOver, MayReadClient
<1>5. ASSUME NEW n \in 1..MaxSlices, ReadData(n) PROVE FinPart'
  BY <1>5, SMTT(30) DEF ReadData, ResetIdle
<1>6. CASE ReadDone
  BY <1>6, SMTT(30) DEF ReadDone
<1>7. CASE ReadFails
  BY <1>7, SMTT(30) DEF ReadFails
<1>8. CASE SealChunk
  BY <1>8, SMTT(30) DEF SealChunk
<1>9. CASE SendDone
  BY <1>9, SMTT(30) DEF SendDone
<1>10. CASE SendFails
  BY <1>10, SMTT(30) DEF SendFails, Unsent
<1>11. CASE FinSent
  BY <1>11, SMTT(30) DEF FinSent, MustWait, FullCloseReason, ResetIdle
<1>12. CASE Completed
  BY <1>12, SMTT(30) DEF Completed
<1>13. CASE Finish
  BY <1>13, SMTT(30) DEF Finish
<1>14. CASE RxDrained
  BY <1>14, SMTT(30) DEF RxDrained
<1>15. CASE RxShift
  BY <1>15, SMTT(30) DEF RxShift, Decode
<1>16. CASE RxFin
  BY <1>16, SMTT(30) DEF RxFin
<1>17. CASE RxFinClosed
  BY <1>17, SMTT(30) DEF RxFinClosed, FullCloseReason, ResetIdle
<1>18. CASE KeyDerived
  BY <1>18, SMTT(30) DEF KeyDerived
<1>19. CASE SuccessSettled
  BY <1>19, SMTT(30) DEF SuccessSettled, DecodeOrExit, Decode
<1>20. CASE LengthOpened
  BY <1>20, SMTT(30) DEF LengthOpened
<1>21. CASE OpenFails
  BY <1>21, SMTT(30) DEF OpenFails
<1>22. CASE PayloadOpened
  BY <1>22, SMTT(30) DEF PayloadOpened
<1>23. CASE WriteDone
  BY <1>23, SMTT(30) DEF WriteDone, DecodeOrExit, Decode, ResetIdle
<1>24. CASE WriteFails
  BY <1>24, SMTT(30) DEF WriteFails
<1>25. CASE RxFinally
  BY <1>25, SMTT(30) DEF RxFinally, FinallyReason
<1>26. CASE CleanupBody
  BY <1>26, SMTT(30) DEF CleanupBody, EnterCleanup, AfterWrite, Discarded
<1>27. CASE CleanupStep
  BY <1>27, SMTT(30) DEF CleanupStep, EnterCleanup, AfterWrite, AfterReader
<1>28. CASE HandshakeTimeout
  BY <1>28, SMTT(30) DEF HandshakeTimeout
<1>29. CASE IdleTimeout
  BY <1>29, SMTT(30) DEF IdleTimeout
<1>30. ASSUME NEW n \in 1..MaxChunk, OnData(n) PROVE FinPart'
  <2>1. CASE rxQueuedBytes + n > RxCap
    BY <1>30, <2>1, SMTT(30) DEF OnData, ResetIdle
  <2>2. CASE ~(rxQueuedBytes + n > RxCap)
    <3>1. rxQueue' = Append(rxQueue, n) /\ session = "live"
      BY <1>30, <2>2, SMTT(30) DEF OnData, Enqueued
    <3>2. rxQueue \in Seq(0..MaxChunk) /\ n \in Nat /\ n # FIN /\ n \in 0..MaxChunk
      BY SMT
    <3>3. /\ Len(rxQueue') = Len(rxQueue) + 1 /\ Len(rxQueue) \in Nat
          /\ \A i \in 1..Len(rxQueue) : rxQueue'[i] = rxQueue[i]
          /\ rxQueue'[Len(rxQueue) + 1] = n
      BY <3>1, <3>2, SMT
    <3>4. \A i \in 1..Len(rxQueue) : rxQueue[i] # FIN
      BY <3>1, SMT
    <3>5. \A i \in 1..Len(rxQueue') : rxQueue'[i] # FIN
      BY <3>2, <3>3, <3>4, SMTT(30)
    <3>6. ~serverFinReceived /\ serverFinReceived' = serverFinReceived /\ rxPc # "closeWriter"
          /\ rxPc' # "closeWriter"
      BY <3>1, <1>30, <2>2, SMT DEF OnData, StartPump
    <3>7. QED
      BY <3>5, <3>6 DEF FinPart
  <2>3. QED
    BY <2>1, <2>2
<1>31. CASE OnFin
  BY <1>31, SMTT(30) DEF OnFin, ResetIdle, Enqueued, StartPump
<1>32. CASE OnError
  BY <1>32, SMTT(30) DEF OnError
<1>33. CASE SessionLost
  BY <1>33, SMTT(30) DEF SessionLost, OnClose, CloseReason, FullCloseReason
<1>34. CASE HandlerCancel
  BY <1>34, SMTT(30) DEF HandlerCancel, OnClose, CloseReason, FullCloseReason
<1>35. CASE UNCHANGED vars
  BY <1>35, SMTT(30) DEF vars
<1>q. QED
  BY <1>1, <1>2, <1>3, <1>4, <1>5, <1>6, <1>7, <1>8, <1>9, <1>10, <1>11,
     <1>12, <1>13, <1>14, <1>15, <1>16, <1>17, <1>18, <1>19, <1>20, <1>21,
     <1>22, <1>23, <1>24, <1>25, <1>26, <1>27, <1>28, <1>29, <1>30, <1>31,
     <1>32, <1>33, <1>34, <1>35 DEF Next, UpOwn, UpRead, RxOwn, Cl, Env,
     Terminated

LEMMA FrameStep == ASSUME IInv, FramePart, [Next]_vars PROVE FramePart'
<1> USE TunnelAssumption DEF IInv, SInv, FlagsOK, DataOK, DialOrder, FramePart, RxPcs
<1>1. CASE Register
  BY <1>1, SMTT(30) DEF Register, ResetIdle
<1>2. CASE Prelude
  BY <1>2, SMTT(30) DEF Prelude, PreludeNext, PreludePcs, CallsSend
<1>3. CASE PreludeFails
  BY <1>3, SMTT(30) DEF PreludeFails, PreludePcs, CallsSend
<1>4. CASE HandshakeSettled
  BY <1>4, SMTT(30) DEF HandshakeSettled, HandshakeOver, MayReadClient
<1>5. ASSUME NEW n \in 1..MaxSlices, ReadData(n) PROVE FramePart'
  BY <1>5, SMTT(30) DEF ReadData, ResetIdle
<1>6. CASE ReadDone
  BY <1>6, SMTT(30) DEF ReadDone
<1>7. CASE ReadFails
  BY <1>7, SMTT(30) DEF ReadFails
<1>8. CASE SealChunk
  BY <1>8, SMTT(30) DEF SealChunk
<1>9. CASE SendDone
  BY <1>9, SMTT(30) DEF SendDone
<1>10. CASE SendFails
  BY <1>10, SMTT(30) DEF SendFails, Unsent
<1>11. CASE FinSent
  BY <1>11, SMTT(30) DEF FinSent, MustWait, FullCloseReason, ResetIdle
<1>12. CASE Completed
  BY <1>12, SMTT(30) DEF Completed
<1>13. CASE Finish
  BY <1>13, SMTT(30) DEF Finish
<1>14. CASE RxDrained
  BY <1>14, SMTT(30) DEF RxDrained
<1>15. CASE RxShift
  BY <1>15, SMTT(30) DEF RxShift, Decode
<1>16. CASE RxFin
  BY <1>16, SMTT(30) DEF RxFin
<1>17. CASE RxFinClosed
  BY <1>17, SMTT(30) DEF RxFinClosed, FullCloseReason, ResetIdle
<1>18. CASE KeyDerived
  BY <1>18, SMTT(30) DEF KeyDerived
<1>19. CASE SuccessSettled
  BY <1>19, SMTT(30) DEF SuccessSettled, DecodeOrExit, Decode
<1>20. CASE LengthOpened
  BY <1>20, SMTT(30) DEF LengthOpened
<1>21. CASE OpenFails
  BY <1>21, SMTT(30) DEF OpenFails
<1>22. CASE PayloadOpened
  BY <1>22, SMTT(30) DEF PayloadOpened
<1>23. CASE WriteDone
  BY <1>23, SMTT(30) DEF WriteDone, DecodeOrExit, Decode, ResetIdle
<1>24. CASE WriteFails
  BY <1>24, SMTT(30) DEF WriteFails
<1>25. CASE RxFinally
  BY <1>25, SMTT(30) DEF RxFinally, FinallyReason
<1>26. CASE CleanupBody
  BY <1>26, SMTT(30) DEF CleanupBody, EnterCleanup, AfterWrite, Discarded
<1>27. CASE CleanupStep
  BY <1>27, SMTT(30) DEF CleanupStep, EnterCleanup, AfterWrite, AfterReader
<1>28. CASE HandshakeTimeout
  BY <1>28, SMTT(30) DEF HandshakeTimeout
<1>29. CASE IdleTimeout
  BY <1>29, SMTT(30) DEF IdleTimeout
<1>30. ASSUME NEW n \in 1..MaxChunk, OnData(n) PROVE FramePart'
  BY <1>30, SMTT(30) DEF OnData, ResetIdle, Enqueued, StartPump
<1>31. CASE OnFin
  BY <1>31, SMTT(30) DEF OnFin, ResetIdle, Enqueued, StartPump
<1>32. CASE OnError
  BY <1>32, SMTT(30) DEF OnError
<1>33. CASE SessionLost
  BY <1>33, SMTT(30) DEF SessionLost, OnClose, CloseReason, FullCloseReason
<1>34. CASE HandlerCancel
  BY <1>34, SMTT(30) DEF HandlerCancel, OnClose, CloseReason, FullCloseReason
<1>35. CASE UNCHANGED vars
  BY <1>35, SMTT(30) DEF vars
<1>q. QED
  BY <1>1, <1>2, <1>3, <1>4, <1>5, <1>6, <1>7, <1>8, <1>9, <1>10, <1>11,
     <1>12, <1>13, <1>14, <1>15, <1>16, <1>17, <1>18, <1>19, <1>20, <1>21,
     <1>22, <1>23, <1>24, <1>25, <1>26, <1>27, <1>28, <1>29, <1>30, <1>31,
     <1>32, <1>33, <1>34, <1>35 DEF Next, UpOwn, UpRead, RxOwn, Cl, Env,
     Terminated

LEMMA CountStep == ASSUME IInv, FinPart, FramePart, CountPart, [Next]_vars PROVE CountPart'
<1> USE TunnelAssumption
    DEF IInv, SInv, FlagsOK, DataOK, DialOrder, FinPart, FramePart, CountPart, Need, RxPcs, ClPcs
<1>1. CASE Register
  BY <1>1, SMTT(30) DEF Register, ResetIdle
<1>2. CASE Prelude
  BY <1>2, SMTT(30) DEF Prelude, PreludeNext, PreludePcs, CallsSend
<1>3. CASE PreludeFails
  BY <1>3, SMTT(30) DEF PreludeFails, PreludePcs, CallsSend
<1>4. CASE HandshakeSettled
  BY <1>4, SMTT(30) DEF HandshakeSettled, HandshakeOver, MayReadClient
<1>5. ASSUME NEW n \in 1..MaxSlices, ReadData(n) PROVE CountPart'
  BY <1>5, SMTT(30) DEF ReadData, ResetIdle
<1>6. CASE ReadDone
  BY <1>6, SMTT(30) DEF ReadDone
<1>7. CASE ReadFails
  BY <1>7, SMTT(30) DEF ReadFails
<1>8. CASE SealChunk
  BY <1>8, SMTT(30) DEF SealChunk
<1>9. CASE SendDone
  BY <1>9, SMTT(30) DEF SendDone
<1>10. CASE SendFails
  BY <1>10, SMTT(30) DEF SendFails, Unsent
<1>11. CASE FinSent
  BY <1>11, SMTT(30) DEF FinSent, MustWait, FullCloseReason, ResetIdle
<1>12. CASE Completed
  BY <1>12, SMTT(30) DEF Completed
<1>13. CASE Finish
  BY <1>13, SMTT(30) DEF Finish
<1>14. CASE RxDrained
  BY <1>14, SMTT(30) DEF RxDrained
<1>15. CASE RxShift
  BY <1>15, SMTT(30) DEF RxShift, Decode
<1>16. CASE RxFin
  BY <1>16, SMTT(30) DEF RxFin
<1>17. CASE RxFinClosed
  BY <1>17, SMTT(30) DEF RxFinClosed, FullCloseReason, ResetIdle
<1>18. CASE KeyDerived
  BY <1>18, SMTT(30) DEF KeyDerived
<1>19. CASE SuccessSettled
  BY <1>19, SMTT(30) DEF SuccessSettled, DecodeOrExit, Decode
<1>20. CASE LengthOpened
  BY <1>20, SMTT(30) DEF LengthOpened
<1>21. CASE OpenFails
  BY <1>21, SMTT(30) DEF OpenFails
<1>22. CASE PayloadOpened
  BY <1>22, SMTT(30) DEF PayloadOpened
<1>23. CASE WriteDone
  BY <1>23, SMTT(30) DEF WriteDone, DecodeOrExit, Decode, ResetIdle
<1>24. CASE WriteFails
  BY <1>24, SMTT(30) DEF WriteFails
<1>25. CASE RxFinally
  BY <1>25, SMTT(30) DEF RxFinally, FinallyReason
<1>26. CASE CleanupBody
  BY <1>26, SMTT(30) DEF CleanupBody, EnterCleanup, AfterWrite, Discarded
<1>27. CASE CleanupStep
  BY <1>27, SMTT(30) DEF CleanupStep, EnterCleanup, AfterWrite, AfterReader
<1>28. CASE HandshakeTimeout
  BY <1>28, SMTT(30) DEF HandshakeTimeout
<1>29. CASE IdleTimeout
  BY <1>29, SMTT(30) DEF IdleTimeout
<1>30. ASSUME NEW n \in 1..MaxChunk, OnData(n) PROVE CountPart'
  BY <1>30, SMTT(30) DEF OnData, ResetIdle, Enqueued, StartPump
<1>31. CASE OnFin
  BY <1>31, SMTT(30) DEF OnFin, ResetIdle, Enqueued, StartPump
<1>32. CASE OnError
  BY <1>32, SMTT(30) DEF OnError
<1>33. CASE SessionLost
  BY <1>33, SMTT(30) DEF SessionLost, OnClose, CloseReason, FullCloseReason
<1>34. CASE HandlerCancel
  BY <1>34, SMTT(30) DEF HandlerCancel, OnClose, CloseReason, FullCloseReason
<1>35. CASE UNCHANGED vars
  BY <1>35, SMTT(30) DEF vars
<1>q. QED
  BY <1>1, <1>2, <1>3, <1>4, <1>5, <1>6, <1>7, <1>8, <1>9, <1>10, <1>11,
     <1>12, <1>13, <1>14, <1>15, <1>16, <1>17, <1>18, <1>19, <1>20, <1>21,
     <1>22, <1>23, <1>24, <1>25, <1>26, <1>27, <1>28, <1>29, <1>30, <1>31,
     <1>32, <1>33, <1>34, <1>35 DEF Next, UpOwn, UpRead, RxOwn, Cl, Env,
     Terminated


-----------------------------------------------------------------------------
(* All of it: the units of a live tunnel are queued, buffered or taken. *)

\* total is the sum of the queue q: the partial sums are the witness.
SumIs(q, total) ==
    \E p \in [0..Len(q) -> Int] :
        /\ p[0] = 0 /\ p[Len(q)] = total
        /\ \A i \in 1..Len(q) : p[i] = p[i - 1] + q[i]

LEMMA SumOfNone == SumIs(<<>>, 0) /\ \A t : SumIs(<<>>, t) => t = 0
<1>1. [i \in 0..0 |-> 0] \in [0..Len(<<>>) -> Int]
  BY SMT
<1>2. SumIs(<<>>, 0)
  <2> DEFINE r == [i \in 0..0 |-> 0]
  <2>1. Len(<<>>) = 0 /\ r[0] = 0 /\ r[Len(<<>>)] = 0 /\ 1..Len(<<>>) = {}
    BY SMT
  <2>2. r \in [0..Len(<<>>) -> Int]
    BY <1>1
  <2> HIDE DEF r
  <2>3. QED
    BY <2>1, <2>2 DEF SumIs
<1>3. QED
  BY <1>2, SMT DEF SumIs

LEMMA SumOfAppend ==
  ASSUME NEW q \in Seq(Nat), NEW n \in Nat, NEW t \in Int, SumIs(q, t)
  PROVE  SumIs(Append(q, n), t + n)
<1> DEFINE N == Len(q)
<1>1. N \in Nat /\ Len(Append(q, n)) = N + 1
      /\ Append(q, n)[N + 1] = n /\ \A i \in 1..N : Append(q, n)[i] = q[i]
  BY SMT
<1>2. PICK p \in [0..N -> Int] : /\ p[0] = 0 /\ p[N] = t
                                 /\ \A i \in 1..N : p[i] = p[i - 1] + q[i]
  BY DEF SumIs
<1> DEFINE r == [i \in 0..N + 1 |-> IF i = N + 1 THEN t + n ELSE p[i]]
<1>3. r \in [0..N + 1 -> Int]
  BY <1>1, <1>2, SMT
<1>4. r[0] = 0 /\ r[N + 1] = t + n /\ \A i \in 0..N : r[i] = p[i]
  BY <1>1, <1>2, SMT
<1> HIDE DEF r
<1>5. ASSUME NEW i \in 1..N + 1 PROVE r[i] = r[i - 1] + Append(q, n)[i]
  <2>1. CASE i = N + 1
    BY <2>1, <1>1, <1>2, <1>4, SMTT(30)
  <2>2. CASE i # N + 1
    <3>1. i \in 1..N /\ i - 1 \in 0..N /\ i \in 0..N
      BY <2>2, <1>1, SMT
    <3>2. QED
      BY <3>1, <1>1, <1>2, <1>4
  <2>3. QED
    BY <2>1, <2>2
<1>6. QED
  BY <1>1, <1>3, <1>4, <1>5 DEF SumIs

LEMMA SumOfTail ==
  ASSUME NEW q \in Seq(Nat), q # <<>>, NEW t \in Int, SumIs(q, t)
  PROVE  SumIs(Tail(q), t - Head(q))
<1> DEFINE N == Len(q)
<1>1. N \in Nat /\ N > 0 /\ Len(Tail(q)) = N - 1 /\ Head(q) = q[1]
      /\ (\A i \in 1..N - 1 : Tail(q)[i] = q[i + 1]) /\ \A i \in 1..N : q[i] \in Nat
  BY SMT
<1>2. PICK p \in [0..N -> Int] : /\ p[0] = 0 /\ p[N] = t
                                 /\ \A i \in 1..N : p[i] = p[i - 1] + q[i]
  BY DEF SumIs
<1>3. p[1] = q[1] /\ q[1] \in Nat
  BY <1>1, <1>2, SMT
<1> DEFINE r == [i \in 0..N - 1 |-> p[i + 1] - q[1]]
<1>4. r \in [0..N - 1 -> Int]
  BY <1>1, <1>2, <1>3, SMT
<1>5. r[0] = 0 /\ r[N - 1] = t - q[1] /\ \A i \in 0..N - 1 : r[i] = p[i + 1] - q[1]
  BY <1>1, <1>2, <1>3, SMT
<1> HIDE DEF r
<1>6. ASSUME NEW i \in 1..N - 1 PROVE r[i] = r[i - 1] + Tail(q)[i]
  <2>1. i \in 0..N - 1 /\ i - 1 \in 0..N - 1 /\ i + 1 \in 1..N /\ i \in 0..N /\ i + 1 \in 0..N
        /\ (i - 1) + 1 = i /\ (i + 1) - 1 = i
    BY <1>1, SMT
  <2>2. p[i + 1] = p[i] + q[i + 1]
    BY <1>2, <2>1
  <2>3. r[i] = p[i + 1] - q[1] /\ r[i - 1] = p[i] - q[1] /\ Tail(q)[i] = q[i + 1]
    BY <1>1, <1>5, <2>1
  <2>4. p[i] \in Int /\ q[i + 1] \in Int /\ q[1] \in Int
    <3>1. p[i] \in Int
      BY <1>2, <2>1
    <3>2. q[i + 1] \in Nat
      BY <1>1, <2>1
    <3>3. QED
      BY <3>1, <3>2, <1>3, SMT
  <2>5. QED
    BY <2>2, <2>3, <2>4, SMT
<1>7. QED
  BY <1>1, <1>4, <1>5, <1>6 DEF SumIs

LEMMA LeastNat == ASSUME NEW T, T \subseteq Nat, T # {} PROVE \E x \in T : \A y \in T : x <= y
<1>1. IsWellFoundedOn(OpToRel(<, Nat), Nat)
  BY NatLessThanWellFounded
<1>2. PICK x \in T : \A y \in T : ~(<<y, x>> \in OpToRel(<, Nat))
  BY <1>1, WFMin
<1>3. ASSUME NEW y \in T PROVE x <= y
  <2>1. ~(y < x)
    BY <1>2 DEF OpToRel
  <2>2. QED
    BY <2>1
<1>4. QED
  BY <1>3

\* The recursive sum is the witnessed one: the least index at which the two
\* differed would not be an index at which they differ.
LEMMA UnitsIs == ASSUME NEW q, Len(q) \in Nat, NEW t, SumIs(q, t) PROVE Units(q) = t
<1> DEFINE L == Len(q)
           Eq(g) == g = [n \in 0..L |-> IF n = 0 THEN 0 ELSE g[n - 1] + q[n]]
           sum == CHOOSE g : Eq(g)
<1>1. PICK f \in [0..L -> Int] : /\ f[0] = 0 /\ f[L] = t
                                 /\ \A i \in 1..L : f[i] = f[i - 1] + q[i]
  BY DEF SumIs
<1>2. Eq(f)
  <2>1. ASSUME NEW n \in 0..L PROVE f[n] = IF n = 0 THEN 0 ELSE f[n - 1] + q[n]
    BY <1>1
  <2> HIDE DEF L
  <2>2. QED
    BY <2>1, <1>1
<1>3. Eq(sum)
  BY <1>2
<1>4. Units(q) = sum[L]
  BY DEF Units
<1>5. sum[L] = f[L]
  <2> DEFINE Bad == {n \in 0..L : sum[n] # f[n]}
  <2> SUFFICES ASSUME sum[L] # f[L] PROVE FALSE
    OBVIOUS
  <2>1. L \in Bad
    <3>1. L \in 0..L
      OBVIOUS
    <3> HIDE DEF L, sum
    <3>2. QED
      BY <3>1
  <2>2. PICK n \in Bad : \A m \in Bad : n <= m
    <3>1. Bad \subseteq Nat
      OBVIOUS
    <3> HIDE DEF Bad
    <3>2. QED
      BY <2>1, <3>1, LeastNat
  <2> HIDE DEF sum
  <2>3. \A m \in 0..L : sum[m] = IF m = 0 THEN 0 ELSE sum[m - 1] + q[m]
    BY <1>3
  <2>4. CASE n = 0
    BY <2>2, <2>3, <2>4, <1>1
  <2>5. CASE n # 0
    <3>1. n - 1 \in 0..L /\ n \in 1..L /\ ~(n <= n - 1)
      BY <2>5, <2>2
    <3>2. sum[n - 1] = f[n - 1]
      BY <3>1, <2>2
    <3>3. sum[n] = f[n]
      BY <3>1, <3>2, <2>3, <2>5, <1>1
    <3>4. QED
      BY <3>3, <2>2
  <2>6. QED
    BY <2>4, <2>5
<1>6. QED
  BY <1>1, <1>4, <1>5

LEMMA QueueIsNat == \A q : q \in Seq(0..MaxChunk) => q \in Seq(Nat)
  BY TunnelAssumption, SMT

LEMMA HeadIsNat == \A q \in Seq(Nat) : q # <<>> => Head(q) \in Nat
  BY SMT

\* Units a number of frames takes on the wire.
FrameUnits(n) == n * (LENGTH + PAYLOAD)

LEMMA FrameUnitsStep ==
  /\ FrameUnits(0) = 0
  /\ \A n \in Nat : /\ FrameUnits(n) \in Nat
                    /\ FrameUnits(n + 1) = FrameUnits(n) + LENGTH + PAYLOAD
<1> DEFINE d == LENGTH + PAYLOAD
<1>1. d \in Nat
  BY TunnelAssumption, SMT
<1> HIDE DEF d
<1>2. 0 * d = 0 /\ \A n \in Nat : n * d \in Nat /\ (n + 1) * d = n * d + d
  BY <1>1, SMT
<1>3. QED
  BY <1>2, TunnelAssumption, SMT DEF d, FrameUnits

\* The gauge of the queue is the sum of its items.
SumPart == clPc \in {"none", "called"} => SumIs(rxQueue, rxQueuedBytes)

\* The process counts the same; a tunnel that was cleaned up counts nothing.
GaugePart ==
    /\ rxGlobal = rxQueuedBytes
    /\ clPc \notin {"none", "called"} => rxQueuedBytes = 0

\* Units the decoder has taken off its buffer.
Taken ==
    (IF serverHandshakeDone \/ rxPc = "deriveKey" THEN NONCE ELSE 0)
    + FrameUnits(totalRecv)
    + (IF expecting \/ rxPc = "openLength" THEN LENGTH ELSE 0)
    + (IF rxPc = "openPayload" THEN PAYLOAD ELSE 0)

BalancePart == ~isTerminated => fed = rxQueuedBytes + rxBuf + Taken

\* The property, and the FIN that freezes it.
CompletePart == BothClosedComplete /\ (terminationReason = "both_closed" => serverFinReceived)

\* Append adds an item to the sum, Tail takes one off.
LEMMA SumStep == ASSUME IInv, SumPart, [Next]_vars PROVE SumPart'
<1> USE TunnelAssumption DEF IInv, SInv, DataOK
<1>1. CASE Register
  BY <1>1, SMTT(30) DEF SumPart, Register, ResetIdle
<1>2. CASE Prelude
  BY <1>2, SMTT(30) DEF SumPart, Prelude, PreludeNext, PreludePcs, CallsSend
<1>3. CASE PreludeFails
  BY <1>3, SMTT(30) DEF SumPart, PreludeFails, PreludePcs, CallsSend
<1>4. CASE HandshakeSettled
  BY <1>4, SMTT(30) DEF SumPart, HandshakeSettled, HandshakeOver, MayReadClient
<1>5. ASSUME NEW n \in 1..MaxSlices, ReadData(n) PROVE SumPart'
  BY <1>5, SMTT(30) DEF SumPart, ReadData, ResetIdle
<1>6. CASE ReadDone
  BY <1>6, SMTT(30) DEF SumPart, ReadDone
<1>7. CASE ReadFails
  BY <1>7, SMTT(30) DEF SumPart, ReadFails
<1>8. CASE SealChunk
  BY <1>8, SMTT(30) DEF SumPart, SealChunk
<1>9. CASE SendDone
  BY <1>9, SMTT(30) DEF SumPart, SendDone
<1>10. CASE SendFails
  BY <1>10, SMTT(30) DEF SumPart, SendFails, Unsent
<1>11. CASE FinSent
  BY <1>11, SMTT(30) DEF SumPart, FinSent, MustWait, FullCloseReason, ResetIdle
<1>12. CASE Completed
  BY <1>12, SMTT(30) DEF SumPart, Completed
<1>13. CASE Finish
  BY <1>13, SMTT(30) DEF SumPart, Finish
<1>14. CASE RxDrained
  BY <1>14, SMTT(30) DEF SumPart, RxDrained
<1>15. CASE RxShift
  <2>1. rxQueue' = Tail(rxQueue) /\ rxQueuedBytes' = rxQueuedBytes - Head(rxQueue)
        /\ rxQueue # <<>> /\ ~isTerminated
    BY <1>15, SMT DEF RxShift
  <2>2. rxQueue \in Seq(Nat) /\ rxQueuedBytes \in Int
    BY QueueIsNat, SMT
  <2>3. SumIs(rxQueue', rxQueuedBytes')
    BY <2>1, <2>2, SumOfTail DEF SumPart
  <2>4. QED
    BY <2>3 DEF SumPart
<1>16. CASE RxFin
  <2>1. rxQueue' = Tail(rxQueue) /\ rxQueuedBytes' = rxQueuedBytes /\ Head(rxQueue) = 0
        /\ rxQueue # <<>> /\ ~isTerminated
    BY <1>16, SMT DEF RxFin
  <2>2. rxQueue \in Seq(Nat) /\ rxQueuedBytes \in Int /\ rxQueuedBytes - 0 = rxQueuedBytes
    BY QueueIsNat, SMT
  <2>3. SumIs(rxQueue', rxQueuedBytes')
    <3>1. SumIs(Tail(rxQueue), rxQueuedBytes - Head(rxQueue))
      BY <2>1, <2>2, SumOfTail DEF SumPart
    <3>2. QED
      BY <3>1, <2>1, <2>2
  <2>4. QED
    BY <2>3 DEF SumPart
<1>17. CASE RxFinClosed
  BY <1>17, SMTT(30) DEF SumPart, RxFinClosed, FullCloseReason, ResetIdle
<1>18. CASE KeyDerived
  BY <1>18, SMTT(30) DEF SumPart, KeyDerived
<1>19. CASE SuccessSettled
  BY <1>19, SMTT(30) DEF SumPart, SuccessSettled, DecodeOrExit, Decode
<1>20. CASE LengthOpened
  BY <1>20, SMTT(30) DEF SumPart, LengthOpened
<1>21. CASE OpenFails
  BY <1>21, SMTT(30) DEF SumPart, OpenFails
<1>22. CASE PayloadOpened
  BY <1>22, SMTT(30) DEF SumPart, PayloadOpened
<1>23. CASE WriteDone
  BY <1>23, SMTT(30) DEF SumPart, WriteDone, DecodeOrExit, Decode, ResetIdle
<1>24. CASE WriteFails
  BY <1>24, SMTT(30) DEF SumPart, WriteFails
<1>25. CASE RxFinally
  BY <1>25, SMTT(30) DEF SumPart, RxFinally, FinallyReason
<1>26. CASE CleanupBody
  BY <1>26, SMTT(30) DEF SumPart, CleanupBody, EnterCleanup, AfterWrite, Discarded
<1>27. CASE CleanupStep
  BY <1>27, SMTT(30) DEF SumPart, CleanupStep, EnterCleanup, AfterWrite, AfterReader
<1>28. CASE HandshakeTimeout
  BY <1>28, SMTT(30) DEF SumPart, HandshakeTimeout
<1>29. CASE IdleTimeout
  BY <1>29, SMTT(30) DEF SumPart, IdleTimeout
<1>30. ASSUME NEW n \in 1..MaxChunk, OnData(n) PROVE SumPart'
  <2>1. CASE rxQueuedBytes + n > RxCap
    BY <1>30, <2>1, SMT DEF OnData, ResetIdle, SumPart
  <2>2. CASE ~(rxQueuedBytes + n > RxCap)
    <3>1. rxQueue' = Append(rxQueue, n) /\ rxQueuedBytes' = rxQueuedBytes + n /\ clPc' = clPc
      BY <1>30, <2>2, SMT DEF OnData, Enqueued
    <3>2. rxQueue \in Seq(Nat) /\ rxQueuedBytes \in Int /\ n \in Nat
      BY QueueIsNat, SMT
    <3>3. SumIs(rxQueue, rxQueuedBytes) => SumIs(rxQueue', rxQueuedBytes')
      BY <3>1, <3>2, SumOfAppend
    <3>4. QED
      BY <3>1, <3>3 DEF SumPart
  <2>3. QED
    BY <2>1, <2>2
<1>31. CASE OnFin
  <2>1. rxQueue' = Append(rxQueue, 0) /\ rxQueuedBytes' = rxQueuedBytes /\ clPc' = clPc
    BY <1>31, SMT DEF OnFin, Enqueued
  <2>2. rxQueue \in Seq(Nat) /\ rxQueuedBytes \in Int /\ rxQueuedBytes + 0 = rxQueuedBytes
    BY QueueIsNat, SMT
  <2>3. SumIs(rxQueue, rxQueuedBytes) => SumIs(rxQueue', rxQueuedBytes')
    <3>1. SumIs(rxQueue, rxQueuedBytes) => SumIs(Append(rxQueue, 0), rxQueuedBytes + 0)
      BY <2>2, SumOfAppend, SMT
    <3>2. QED
      BY <3>1, <2>1, <2>2
  <2>4. QED
    BY <2>1, <2>3 DEF SumPart
<1>32. CASE OnError
  BY <1>32, SMTT(30) DEF SumPart, OnError
<1>33. CASE SessionLost
  BY <1>33, SMTT(30) DEF SumPart, SessionLost, OnClose, CloseReason, FullCloseReason
<1>34. CASE HandlerCancel
  BY <1>34, SMTT(30) DEF SumPart, HandlerCancel, OnClose, CloseReason, FullCloseReason
<1>35. CASE UNCHANGED vars
  BY <1>35, SMTT(30) DEF SumPart, vars
<1>q. QED
  BY <1>1, <1>2, <1>3, <1>4, <1>5, <1>6, <1>7, <1>8, <1>9, <1>10, <1>11,
     <1>12, <1>13, <1>14, <1>15, <1>16, <1>17, <1>18, <1>19, <1>20, <1>21,
     <1>22, <1>23, <1>24, <1>25, <1>26, <1>27, <1>28, <1>29, <1>30, <1>31,
     <1>32, <1>33, <1>34, <1>35 DEF Next, UpOwn, UpRead, RxOwn, Cl, Env,
     Terminated

\* The two gauges move together; cleanup leaves nothing, and nothing can be
\* queued once the handlers are gone.
LEMMA GaugeStep == ASSUME IInv, GaugePart, [Next]_vars PROVE GaugePart'
<1> USE TunnelAssumption DEF IInv, SInv, DataOK, Released, GaugePart
<1>1. CASE Register
  BY <1>1, SMTT(30) DEF Register, ResetIdle
<1>2. CASE Prelude
  BY <1>2, SMTT(30) DEF Prelude, PreludeNext, PreludePcs, CallsSend
<1>3. CASE PreludeFails
  BY <1>3, SMTT(30) DEF PreludeFails, PreludePcs, CallsSend
<1>4. CASE HandshakeSettled
  BY <1>4, SMTT(30) DEF HandshakeSettled
<1>5. ASSUME NEW n \in 1..MaxSlices, ReadData(n) PROVE GaugePart'
  BY <1>5, SMTT(30) DEF ReadData, ResetIdle
<1>6. CASE ReadDone
  BY <1>6, SMTT(30) DEF ReadDone
<1>7. CASE ReadFails
  BY <1>7, SMTT(30) DEF ReadFails
<1>8. CASE SealChunk
  BY <1>8, SMTT(30) DEF SealChunk
<1>9. CASE SendDone
  BY <1>9, SMTT(30) DEF SendDone
<1>10. CASE SendFails
  BY <1>10, SMTT(30) DEF SendFails, Unsent
<1>11. CASE FinSent
  BY <1>11, SMTT(30) DEF FinSent, MustWait, FullCloseReason, ResetIdle
<1>12. CASE Completed
  BY <1>12, SMTT(30) DEF Completed
<1>13. CASE Finish
  BY <1>13, SMTT(30) DEF Finish
<1>14. CASE RxDrained
  BY <1>14, SMTT(30) DEF RxDrained
<1>15. CASE RxShift
  BY <1>15, SMTT(30) DEF RxShift
<1>16. CASE RxFin
  BY <1>16, SMTT(30) DEF RxFin
<1>17. CASE RxFinClosed
  BY <1>17, SMTT(30) DEF RxFinClosed, FullCloseReason, ResetIdle
<1>18. CASE KeyDerived
  BY <1>18, SMTT(30) DEF KeyDerived
<1>19. CASE SuccessSettled
  BY <1>19, SMTT(30) DEF SuccessSettled, DecodeOrExit, Decode
<1>20. CASE LengthOpened
  BY <1>20, SMTT(30) DEF LengthOpened
<1>21. CASE OpenFails
  BY <1>21, SMTT(30) DEF OpenFails
<1>22. CASE PayloadOpened
  BY <1>22, SMTT(30) DEF PayloadOpened
<1>23. CASE WriteDone
  BY <1>23, SMTT(30) DEF WriteDone, DecodeOrExit, Decode, ResetIdle
<1>24. CASE WriteFails
  BY <1>24, SMTT(30) DEF WriteFails
<1>25. CASE RxFinally
  BY <1>25, SMTT(30) DEF RxFinally, FinallyReason
<1>26. CASE CleanupBody
  BY <1>26, SMTT(30) DEF CleanupBody, EnterCleanup, AfterWrite, Discarded
<1>27. CASE CleanupStep
  BY <1>27, SMTT(30) DEF CleanupStep, EnterCleanup, AfterWrite, AfterReader
<1>28. CASE HandshakeTimeout
  BY <1>28, SMTT(30) DEF HandshakeTimeout
<1>29. CASE IdleTimeout
  BY <1>29, SMTT(30) DEF IdleTimeout
<1>30. ASSUME NEW n \in 1..MaxChunk, OnData(n) PROVE GaugePart'
  BY <1>30, SMTT(30) DEF OnData, ResetIdle, Enqueued, StartPump
<1>31. CASE OnFin
  BY <1>31, SMTT(30) DEF OnFin, ResetIdle, Enqueued, StartPump
<1>32. CASE OnError
  BY <1>32, SMTT(30) DEF OnError
<1>33. CASE SessionLost
  BY <1>33, SMTT(30) DEF SessionLost, OnClose, CloseReason, FullCloseReason
<1>34. CASE HandlerCancel
  BY <1>34, SMTT(30) DEF HandlerCancel, OnClose, CloseReason, FullCloseReason
<1>35. CASE UNCHANGED vars
  BY <1>35, SMTT(30) DEF vars
<1>q. QED
  BY <1>1, <1>2, <1>3, <1>4, <1>5, <1>6, <1>7, <1>8, <1>9, <1>10, <1>11,
     <1>12, <1>13, <1>14, <1>15, <1>16, <1>17, <1>18, <1>19, <1>20, <1>21,
     <1>22, <1>23, <1>24, <1>25, <1>26, <1>27, <1>28, <1>29, <1>30, <1>31,
     <1>32, <1>33, <1>34, <1>35 DEF Next, UpOwn, UpRead, RxOwn, Cl, Env,
     Terminated


\* A queue item moves to the buffer.
LEMMA Moved ==
  ASSUME NEW f \in Int, NEW q \in Int, NEW b \in Nat, NEW h \in Nat, NEW t \in Int,
         f = q + b + t
  PROVE  b + h \in Nat /\ f = (q - h) + (b + h) + t
  BY SMT

\* Every step moves units between the queue, the buffer and what was taken.
LEMMA BalanceStep ==
  ASSUME IInv, FinPart, FramePart, CountPart, BalancePart, [Next]_vars
  PROVE  BalancePart'
<1> USE TunnelAssumption
    DEF IInv, SInv, FlagsOK, DataOK, DialOrder, FramePart, BalancePart, Taken, RxPcs
<1>f. /\ FrameUnits(totalRecv) \in Nat
      /\ FrameUnits(totalRecv + 1) = FrameUnits(totalRecv) + LENGTH + PAYLOAD
  BY FrameUnitsStep
<1>1. CASE Register
  BY <1>1, <1>f, SMTT(30) DEF Register, ResetIdle
<1>2. CASE Prelude
  BY <1>2, <1>f, SMTT(30) DEF Prelude, PreludeNext, PreludePcs, CallsSend
<1>3. CASE PreludeFails
  BY <1>3, <1>f, SMTT(30) DEF PreludeFails, PreludePcs, CallsSend
<1>4. CASE HandshakeSettled
  BY <1>4, <1>f, SMTT(30) DEF HandshakeSettled, HandshakeOver, MayReadClient
<1>5. ASSUME NEW n \in 1..MaxSlices, ReadData(n) PROVE BalancePart'
  BY <1>5, <1>f, SMTT(30) DEF ReadData, ResetIdle
<1>6. CASE ReadDone
  BY <1>6, <1>f, SMTT(30) DEF ReadDone
<1>7. CASE ReadFails
  BY <1>7, <1>f, SMTT(30) DEF ReadFails
<1>8. CASE SealChunk
  BY <1>8, <1>f, SMTT(30) DEF SealChunk
<1>9. CASE SendDone
  BY <1>9, <1>f, SMTT(30) DEF SendDone
<1>10. CASE SendFails
  BY <1>10, <1>f, SMTT(30) DEF SendFails, Unsent
<1>11. CASE FinSent
  BY <1>11, <1>f, SMTT(30) DEF FinSent, MustWait, FullCloseReason, ResetIdle
<1>12. CASE Completed
  BY <1>12, <1>f, SMTT(30) DEF Completed
<1>13. CASE Finish
  BY <1>13, <1>f, SMTT(30) DEF Finish
<1>14. CASE RxDrained
  BY <1>14, <1>f, SMTT(30) DEF RxDrained
<1>15. CASE RxShift
  <2>1. Head(rxQueue) \in Nat
    <3>1. rxQueue \in Seq(Nat)
      BY QueueIsNat
    <3>2. rxQueue # <<>>
      BY <1>15 DEF RxShift
    <3>3. QED
      BY <3>1, <3>2, HeadIsNat
  <2>2. /\ ~isTerminated /\ rxPc = "loop" /\ rxQueuedBytes' = rxQueuedBytes - Head(rxQueue)
        /\ fed' = fed /\ totalRecv' = totalRecv /\ expecting' = expecting
        /\ serverHandshakeDone' = serverHandshakeDone /\ clPc' = clPc
        /\ Decode(rxBuf + Head(rxQueue))
    BY <1>15, SMT DEF RxShift
  <2>3. fed = rxQueuedBytes + rxBuf + Taken
    BY <2>2
  <2>4. Taken \in Nat /\ rxBuf \in Nat /\ rxQueuedBytes \in Int /\ fed \in Nat
    BY <1>f, SMT
  <2> DEFINE b == rxBuf + Head(rxQueue)
  <2>5. b \in Nat /\ fed = rxQueuedBytes' + b + Taken
    <3>1. rxQueuedBytes' = rxQueuedBytes - Head(rxQueue)
      BY <2>2
    <3> HIDE DEF Taken
    <3>2. QED
      BY <3>1, <2>1, <2>3, <2>4, Moved, SMTT(30)
  <2>f. /\ ~isTerminated /\ rxPc = "loop" /\ fed' = fed /\ totalRecv' = totalRecv
        /\ expecting' = expecting /\ serverHandshakeDone' = serverHandshakeDone /\ Decode(b)
    BY <2>2
  <2> HIDE DEF b
  <2>g. /\ FrameUnits(totalRecv') = FrameUnits(totalRecv) /\ fed \in Nat
        /\ rxQueuedBytes' \in Int
    BY <2>1, <2>2, <2>4, SMT
  <2>6. CASE ~serverHandshakeDone
    BY <2>f, <2>g, <2>5, <2>6, <1>f, SMTT(30) DEF Decode
  <2>7. CASE serverHandshakeDone /\ ~expecting
    BY <2>f, <2>g, <2>5, <2>7, <1>f, SMTT(30) DEF Decode
  <2>8. CASE serverHandshakeDone /\ expecting
    BY <2>f, <2>g, <2>5, <2>8, <1>f, SMTT(30) DEF Decode
  <2>9. QED
    BY <2>6, <2>7, <2>8
<1>16. CASE RxFin
  BY <1>16, <1>f, SMTT(30) DEF RxFin
<1>17. CASE RxFinClosed
  BY <1>17, <1>f, SMTT(30) DEF RxFinClosed, FullCloseReason, ResetIdle
<1>18. CASE KeyDerived
  BY <1>18, <1>f, SMTT(30) DEF KeyDerived
<1>19. CASE SuccessSettled
  BY <1>19, <1>f, SMTT(30) DEF SuccessSettled, DecodeOrExit, Decode
<1>20. CASE LengthOpened
  BY <1>20, <1>f, SMTT(30) DEF LengthOpened
<1>21. CASE OpenFails
  BY <1>21, <1>f, SMTT(30) DEF OpenFails
<1>22. CASE PayloadOpened
  BY <1>22, <1>f, SMTT(30) DEF PayloadOpened
<1>23. CASE WriteDone
  BY <1>23, <1>f, SMTT(30) DEF WriteDone, DecodeOrExit, Decode, ResetIdle
<1>24. CASE WriteFails
  BY <1>24, <1>f, SMTT(30) DEF WriteFails
<1>25. CASE RxFinally
  BY <1>25, <1>f, SMTT(30) DEF RxFinally, FinallyReason
<1>26. CASE CleanupBody
  BY <1>26, <1>f, SMTT(30) DEF CleanupBody, EnterCleanup, AfterWrite, Discarded
<1>27. CASE CleanupStep
  BY <1>27, <1>f, SMTT(30) DEF CleanupStep, EnterCleanup, AfterWrite, AfterReader
<1>28. CASE HandshakeTimeout
  BY <1>28, <1>f, SMTT(30) DEF HandshakeTimeout
<1>29. CASE IdleTimeout
  BY <1>29, <1>f, SMTT(30) DEF IdleTimeout
<1>30. ASSUME NEW n \in 1..MaxChunk, OnData(n) PROVE BalancePart'
  <2>1. CASE rxQueuedBytes + n > RxCap
    BY <1>30, <2>1, SMT DEF OnData, ResetIdle
  <2>2. CASE ~(rxQueuedBytes + n > RxCap)
    <3>1. /\ rxQueuedBytes' = rxQueuedBytes + n /\ fed' = fed + n /\ StartPump
          /\ rxBuf' = rxBuf /\ totalRecv' = totalRecv /\ expecting' = expecting
          /\ serverHandshakeDone' = serverHandshakeDone /\ clPc' = clPc
      BY <1>30, <2>2, SMT DEF OnData
    <3>2. Taken' = Taken
      BY <3>1, SMT DEF StartPump
    <3>3. Taken \in Nat /\ rxBuf \in Nat /\ rxQueuedBytes \in Int /\ fed \in Nat /\ n \in Nat
      BY <1>f, SMT
    <3> HIDE DEF Taken
    <3>4. QED
      BY <3>1, <3>2, <3>3, SMT
  <2>3. QED
    BY <2>1, <2>2
<1>31. CASE OnFin
  BY <1>31, <1>f, SMTT(30) DEF OnFin, ResetIdle, Enqueued, StartPump
<1>32. CASE OnError
  BY <1>32, <1>f, SMTT(30) DEF OnError
<1>33. CASE SessionLost
  BY <1>33, <1>f, SMTT(30) DEF SessionLost, OnClose, CloseReason, FullCloseReason
<1>34. CASE HandlerCancel
  BY <1>34, <1>f, SMTT(30) DEF HandlerCancel, OnClose, CloseReason, FullCloseReason
<1>35. CASE UNCHANGED vars
  BY <1>35, <1>f, SMTT(30) DEF vars
<1>q. QED
  BY <1>1, <1>2, <1>3, <1>4, <1>5, <1>6, <1>7, <1>8, <1>9, <1>10, <1>11,
     <1>12, <1>13, <1>14, <1>15, <1>16, <1>17, <1>18, <1>19, <1>20, <1>21,
     <1>22, <1>23, <1>24, <1>25, <1>26, <1>27, <1>28, <1>29, <1>30, <1>31,
     <1>32, <1>33, <1>34, <1>35 DEF Next, UpOwn, UpRead, RxOwn, Cl, Env,
     Terminated

\* Behind the FIN and with no frame begun, all of the stream is delivered.
LEMMA AllTaken ==
  ASSUME IInv, FinPart, CountPart, SumPart, BalancePart, ~isTerminated, serverFinReceived,
         serverHandshakeDone, ~expecting, ~(rxBuf > 0)
  PROVE  delivered = totalRecv /\ fed = NONCE + delivered * (LENGTH + PAYLOAD)
<1>1. rxQueuedBytes = 0
  BY SumOfNone DEF FinPart, SumPart
<1>2. rxPc \notin {"write", "openLength", "openPayload"} /\ rxBuf = 0 /\ totalRecv \in Nat
  BY TunnelAssumption, SMT DEF FinPart, IInv, SInv, DataOK
<1>3. delivered = totalRecv
  BY <1>2, SMT DEF CountPart, IInv, SInv, DataOK
<1>4. fed = NONCE + FrameUnits(totalRecv)
  <2>1. FrameUnits(totalRecv) \in Nat
    BY <1>2, FrameUnitsStep
  <2>2. Taken = NONCE + FrameUnits(totalRecv)
    BY <1>2, <2>1, TunnelAssumption, SMT DEF Taken
  <2>3. QED
    BY <1>1, <1>2, <2>1, <2>2, TunnelAssumption, SMT DEF BalancePart
<1>5. QED
  BY <1>3, <1>4 DEF FrameUnits

\* Only a call that saw both halves closed ends with both_closed, and the FIN
\* stops everything it would count.
LEMMA CompleteStep ==
  ASSUME IInv, FinPart, FramePart, CountPart, SumPart, BalancePart, CompletePart, [Next]_vars
  PROVE  CompletePart'
<1> USE TunnelAssumption DEF IInv, SInv, FlagsOK, DataOK, DialOrder, ReasonSet, FinPart,
    CompletePart, BothClosedComplete, RxPcs
<1>1. CASE Register
  BY <1>1, AllTaken, SMTT(30) DEF Register, ResetIdle
<1>2. CASE Prelude
  BY <1>2, AllTaken, SMTT(30) DEF Prelude, PreludeNext, PreludePcs, CallsSend
<1>3. CASE PreludeFails
  BY <1>3, AllTaken, SMTT(30) DEF PreludeFails, PreludePcs, CallsSend
<1>4. CASE HandshakeSettled
  BY <1>4, AllTaken, SMTT(30) DEF HandshakeSettled, HandshakeOver, MayReadClient
<1>5. ASSUME NEW n \in 1..MaxSlices, ReadData(n) PROVE CompletePart'
  BY <1>5, AllTaken, SMTT(30) DEF ReadData, ResetIdle
<1>6. CASE ReadDone
  BY <1>6, AllTaken, SMTT(30) DEF ReadDone
<1>7. CASE ReadFails
  BY <1>7, AllTaken, SMTT(30) DEF ReadFails
<1>8. CASE SealChunk
  BY <1>8, AllTaken, SMTT(30) DEF SealChunk
<1>9. CASE SendDone
  BY <1>9, AllTaken, SMTT(30) DEF SendDone
<1>10. CASE SendFails
  BY <1>10, AllTaken, SMTT(30) DEF SendFails, Unsent
<1>11. CASE FinSent
  BY <1>11, AllTaken, SMTT(30) DEF FinSent, MustWait, FullCloseReason, ResetIdle
<1>12. CASE Completed
  BY <1>12, AllTaken, SMTT(30) DEF Completed
<1>13. CASE Finish
  BY <1>13, AllTaken, SMTT(30) DEF Finish
<1>14. CASE RxDrained
  BY <1>14, AllTaken, SMTT(30) DEF RxDrained
<1>15. CASE RxShift
  BY <1>15, AllTaken, SMTT(30) DEF RxShift, Decode
<1>16. CASE RxFin
  BY <1>16, AllTaken, SMTT(30) DEF RxFin
<1>17. CASE RxFinClosed
  BY <1>17, AllTaken, SMTT(30) DEF RxFinClosed, FullCloseReason, ResetIdle
<1>18. CASE KeyDerived
  BY <1>18, AllTaken, SMTT(30) DEF KeyDerived
<1>19. CASE SuccessSettled
  BY <1>19, AllTaken, SMTT(30) DEF SuccessSettled, DecodeOrExit, Decode
<1>20. CASE LengthOpened
  BY <1>20, AllTaken, SMTT(30) DEF LengthOpened
<1>21. CASE OpenFails
  BY <1>21, AllTaken, SMTT(30) DEF OpenFails
<1>22. CASE PayloadOpened
  BY <1>22, AllTaken, SMTT(30) DEF PayloadOpened
<1>23. CASE WriteDone
  BY <1>23, AllTaken, SMTT(30) DEF WriteDone, DecodeOrExit, Decode, ResetIdle
<1>24. CASE WriteFails
  BY <1>24, AllTaken, SMTT(30) DEF WriteFails
<1>25. CASE RxFinally
  BY <1>25, AllTaken, SMTT(30) DEF RxFinally, FinallyReason
<1>26. CASE CleanupBody
  BY <1>26, AllTaken, SMTT(30) DEF CleanupBody, EnterCleanup, AfterWrite, Discarded
<1>27. CASE CleanupStep
  BY <1>27, AllTaken, SMTT(30) DEF CleanupStep, EnterCleanup, AfterWrite, AfterReader
<1>28. CASE HandshakeTimeout
  BY <1>28, AllTaken, SMTT(30) DEF HandshakeTimeout
<1>29. CASE IdleTimeout
  BY <1>29, AllTaken, SMTT(30) DEF IdleTimeout
<1>30. ASSUME NEW n \in 1..MaxChunk, OnData(n) PROVE CompletePart'
  BY <1>30, AllTaken, SMTT(30) DEF OnData, ResetIdle, Enqueued, StartPump
<1>31. CASE OnFin
  BY <1>31, AllTaken, SMTT(30) DEF OnFin, ResetIdle, Enqueued, StartPump
<1>32. CASE OnError
  BY <1>32, AllTaken, SMTT(30) DEF OnError
<1>33. CASE SessionLost
  BY <1>33, AllTaken, SMTT(30) DEF SessionLost, OnClose, CloseReason, FullCloseReason
<1>34. CASE HandlerCancel
  BY <1>34, AllTaken, SMTT(30) DEF HandlerCancel, OnClose, CloseReason, FullCloseReason
<1>35. CASE UNCHANGED vars
  BY <1>35, AllTaken, SMTT(30) DEF vars
<1>q. QED
  BY <1>1, <1>2, <1>3, <1>4, <1>5, <1>6, <1>7, <1>8, <1>9, <1>10, <1>11,
     <1>12, <1>13, <1>14, <1>15, <1>16, <1>17, <1>18, <1>19, <1>20, <1>21,
     <1>22, <1>23, <1>24, <1>25, <1>26, <1>27, <1>28, <1>29, <1>30, <1>31,
     <1>32, <1>33, <1>34, <1>35 DEF Next, UpOwn, UpRead, RxOwn, Cl, Env,
     Terminated

\* processRxQueue alone sets serverFinReceived.
LEMMA FinOnlyByRxFin ==
  ASSUME IInv, ~serverFinReceived, serverFinReceived', [Next]_vars
  PROVE  RxFin
<1> USE DEF IInv, FlagsOK, SInv, DataOK
<1>1. CASE Register
  BY <1>1, SMTT(30) DEF Register, ResetIdle
<1>2. CASE Prelude
  BY <1>2, SMTT(30) DEF Prelude, PreludeNext, PreludePcs, CallsSend
<1>3. CASE PreludeFails
  BY <1>3, SMTT(30) DEF PreludeFails, PreludePcs, CallsSend
<1>4. CASE HandshakeSettled
  BY <1>4, SMTT(30) DEF HandshakeSettled, HandshakeOver, MayReadClient
<1>5. ASSUME NEW n \in 1..MaxSlices, ReadData(n) PROVE RxFin
  BY <1>5, SMTT(30) DEF ReadData, ResetIdle
<1>6. CASE ReadDone
  BY <1>6, SMTT(30) DEF ReadDone
<1>7. CASE ReadFails
  BY <1>7, SMTT(30) DEF ReadFails
<1>8. CASE SealChunk
  BY <1>8, SMTT(30) DEF SealChunk
<1>9. CASE SendDone
  BY <1>9, SMTT(30) DEF SendDone
<1>10. CASE SendFails
  BY <1>10, SMTT(30) DEF SendFails, Unsent
<1>11. CASE FinSent
  BY <1>11, SMTT(30) DEF FinSent, MustWait, FullCloseReason, ResetIdle
<1>12. CASE Completed
  BY <1>12, SMTT(30) DEF Completed
<1>13. CASE Finish
  BY <1>13, SMTT(30) DEF Finish
<1>14. CASE RxDrained
  BY <1>14, SMTT(30) DEF RxDrained
<1>15. CASE RxShift
  BY <1>15, SMTT(30) DEF RxShift, Decode
<1>16. CASE RxFin
  BY <1>16, SMTT(30) DEF RxFin
<1>17. CASE RxFinClosed
  BY <1>17, SMTT(30) DEF RxFinClosed, FullCloseReason, ResetIdle
<1>18. CASE KeyDerived
  BY <1>18, SMTT(30) DEF KeyDerived
<1>19. CASE SuccessSettled
  BY <1>19, SMTT(30) DEF SuccessSettled, DecodeOrExit, Decode
<1>20. CASE LengthOpened
  BY <1>20, SMTT(30) DEF LengthOpened
<1>21. CASE OpenFails
  BY <1>21, SMTT(30) DEF OpenFails
<1>22. CASE PayloadOpened
  BY <1>22, SMTT(30) DEF PayloadOpened
<1>23. CASE WriteDone
  BY <1>23, SMTT(30) DEF WriteDone, DecodeOrExit, Decode, ResetIdle
<1>24. CASE WriteFails
  BY <1>24, SMTT(30) DEF WriteFails
<1>25. CASE RxFinally
  BY <1>25, SMTT(30) DEF RxFinally, FinallyReason
<1>26. CASE CleanupBody
  BY <1>26, SMTT(30) DEF CleanupBody, EnterCleanup, AfterWrite, Discarded
<1>27. CASE CleanupStep
  BY <1>27, SMTT(30) DEF CleanupStep, EnterCleanup, AfterWrite, AfterReader
<1>28. CASE HandshakeTimeout
  BY <1>28, SMTT(30) DEF HandshakeTimeout
<1>29. CASE IdleTimeout
  BY <1>29, SMTT(30) DEF IdleTimeout
<1>30. ASSUME NEW n \in 1..MaxChunk, OnData(n) PROVE RxFin
  BY <1>30, SMTT(30) DEF OnData, ResetIdle, Enqueued, StartPump
<1>31. CASE OnFin
  BY <1>31, SMTT(30) DEF OnFin, ResetIdle, Enqueued, StartPump
<1>32. CASE OnError
  BY <1>32, SMTT(30) DEF OnError
<1>33. CASE SessionLost
  BY <1>33, SMTT(30) DEF SessionLost, OnClose, CloseReason, FullCloseReason
<1>34. CASE HandlerCancel
  BY <1>34, SMTT(30) DEF HandlerCancel, OnClose, CloseReason, FullCloseReason
<1>35. CASE UNCHANGED vars
  BY <1>35, SMTT(30) DEF vars
<1>q. QED
  BY <1>1, <1>2, <1>3, <1>4, <1>5, <1>6, <1>7, <1>8, <1>9, <1>10, <1>11,
     <1>12, <1>13, <1>14, <1>15, <1>16, <1>17, <1>18, <1>19, <1>20, <1>21,
     <1>22, <1>23, <1>24, <1>25, <1>26, <1>27, <1>28, <1>29, <1>30, <1>31,
     <1>32, <1>33, <1>34, <1>35 DEF Next, UpOwn, UpRead, RxOwn, Cl, Env,
     Terminated

-----------------------------------------------------------------------------
Flow ==
    /\ IInv /\ FinPart /\ FramePart /\ CountPart
    /\ SumPart /\ GaugePart /\ BalancePart /\ CompletePart

LEMMA FlowInvariance == Spec => []Flow
<1>1. Init => Flow
  <2> SUFFICES ASSUME Init PROVE Flow
    OBVIOUS
  <2>1. SumPart
    BY SumOfNone DEF SumPart, Init
  <2>2. FinPart /\ FramePart /\ CountPart /\ CompletePart
    BY TunnelAssumption, SMT DEF FinPart, FramePart, CountPart, CompletePart,
       BothClosedComplete, Need, Init
  <2>3. BalancePart
    BY TunnelAssumption, FrameUnitsStep, SMT DEF BalancePart, Taken, Init
  <2>4. GaugePart
    BY DEF GaugePart, Init
  <2>5. QED
    BY <2>1, <2>2, <2>3, <2>4, InitInv DEF Flow
<1>2. ASSUME Flow, [Next]_vars PROVE Flow'
  BY <1>2, FlagsStep, SafetyStep, FinStep, FrameStep, CountStep, SumStep, GaugeStep,
     BalanceStep, CompleteStep DEF Flow, IInv
<1>3. QED
  BY <1>1, <1>2, PTL DEF Spec

\* checkFullClose: a tunnel reported as both_closed has given the client every
\* byte the server sent, whole frames only, and has seen both ends.
THEOREM BothClosedIsComplete == Spec => []BothClosedComplete
<1>1. Flow => BothClosedComplete
  BY DEF Flow, CompletePart
<1>2. QED
  BY <1>1, FlowInvariance, PTL

\* cleanup, onData and processRxQueue: what the process-wide gauge counts of a
\* tunnel is the sum of its queued chunks, and nothing once it is cleaned up.
THEOREM ReceiveGaugeIsExact == Spec => []RxGauge
<1>1. ASSUME Flow PROVE RxGauge
  <2>1. rxGlobal = rxQueuedBytes
    BY <1>1 DEF Flow, GaugePart
  <2>2. CASE clPc \in {"none", "called"}
    <3>1. SumIs(rxQueue, rxQueuedBytes) /\ rxQueue \in Seq(0..MaxChunk)
      BY <1>1, <2>2 DEF Flow, SumPart, IInv, SInv, DataOK
    <3>2. Len(rxQueue) \in Nat
      BY <3>1, SMT
    <3>3. QED
      BY <2>1, <2>2, <3>1, <3>2, UnitsIs DEF RxGauge
  <2>3. CASE clPc \notin {"none", "called"}
    BY <1>1, <2>1, <2>3 DEF Flow, GaugePart, RxGauge
  <2>4. QED
    BY <2>2, <2>3
<1>2. QED
  BY <1>1, FlowInvariance, PTL

\* processRxQueue: the server's FIN is taken up only behind all data queued
\* before it and with every whole frame written to the client.
THEOREM FinIsLast == Spec => FinAfterData
<1>1. ASSUME Flow, [Next]_vars, ~serverFinReceived, serverFinReceived'
      PROVE  /\ rxQueue' = <<>> /\ delivered = totalRecv
             /\ rxBuf < (IF ~serverHandshakeDone THEN NONCE
                         ELSE IF expecting THEN PAYLOAD ELSE LENGTH)
  <2>1. RxFin
    BY <1>1, FinOnlyByRxFin DEF Flow
  <2>2. FinPart'
    BY <1>1, FinStep DEF Flow
  <2>3. CountPart /\ DataOK
    BY <1>1 DEF Flow, IInv, SInv
  <2>4. QED
    BY <1>1, <2>1, <2>2, <2>3, TunnelAssumption, SMT
       DEF RxFin, FinPart, CountPart, DataOK, Need
<1>2. ASSUME Flow, [Next]_vars
      PROVE  [~serverFinReceived /\ serverFinReceived' =>
                 /\ rxQueue' = <<>> /\ delivered = totalRecv
                 /\ rxBuf < (IF ~serverHandshakeDone THEN NONCE
                             ELSE IF expecting THEN PAYLOAD ELSE LENGTH)]_vars
  BY <1>1, <1>2
<1>3. QED
  BY <1>2, FlowInvariance, PTL DEF Spec, FinAfterData

-----------------------------------------------------------------------------
(* BrookTunnel implements TunnelContract *)

\* On a last attempt the client has had a reply once cleanup is past the point
\* where it would send one; a cleanup that is over has closed the session.
Answered ==
    /\ FinalAttempt /\ clPc \in {"sendFailure", "cancelReader", "closeWriter", "done"} =>
           serverHandshakeDone \/ "failure" \in replies
    /\ clPc = "done" => session = "closed"

Kept == IInv /\ Answered

USE DEF isTerminated, successSent, Busy, Cleanup, FIN,
        upVars, bufVars, queueVars, endVars, closeVars, hsVars, timerVars,
        clientVars, wireVars

-----------------------------------------------------------------------------
(* The contract, field by field *)

States == [Contract!Fields -> BOOLEAN]

\* Nothing but the fields of fs differs between r and q.
Only(fs, r, q) == \A f \in Contract!Fields \ fs : q[f] = r[f]

\* A stretch of code that does no more than end the tunnel or close its session.
LEMMA EndOrClose ==
    ASSUME NEW r \in States, NEW q \in States, NEW final \in BOOLEAN,
           Only({"ending", "open"}, r, q),
           r["ending"] => q["ending"], q["open"] => r["open"]
    PROVE  q = r \/ q \in Contract!Successors(r, final)
<1> DEFINE c == IF q["open"] = r["open"] THEN r ELSE Contract!Without(r, "open")
<1>1. c \in Contract!Closes(r) \cup {r}
  BY DEF Contract!Closes
<1>c. c \in States /\ c["open"] = q["open"] /\ \A f \in Contract!Fields \ {"open"} : c[f] = r[f]
  BY DEF States, Contract!Fields, Contract!Without
<1>2. q \in {c} \cup Contract!Ends(c)
  <2>1. CASE q["ending"] = r["ending"]
    <3>1. \A f \in Contract!Fields : q[f] = c[f]
      BY <1>c, <2>1 DEF Only, Contract!Fields
    <3>2. q = c
      BY <1>c, <3>1 DEF States
    <3>3. QED
      BY <3>2
  <2>2. CASE q["ending"] # r["ending"]
    <3>1. q["ending"] = TRUE
      BY <2>2 DEF States, Contract!Fields
    <3>2. \A f \in Contract!Fields : q[f] = [c EXCEPT !["ending"] = TRUE][f]
      BY <1>c, <3>1 DEF Only, States, Contract!Fields
    <3>3. q = [c EXCEPT !["ending"] = TRUE]
      BY <1>c, <3>2 DEF States
    <3>4. QED
      BY <3>3 DEF Contract!Ends, Contract!With
  <2>3. QED
    BY <2>1, <2>2
<1>3. q \in UNION {{p} \cup Contract!Ends(p) : p \in Contract!Closes(r) \cup {r}}
  BY <1>1, <1>2
<1>4. QED
  BY <1>3 DEF Contract!Successors

\* The other steps: each sets one field, and says when it may be set.
LEMMA OneField ==
    ASSUME NEW r \in States, NEW q \in States, NEW final \in BOOLEAN,
           \/ Only({"key"}, r, q) /\ q["key"] /\ ~r["ending"] /\ ~r["key"] /\ ~r["hs"]
           \/ Only({"key", "hs"}, r, q) /\ r["key"] /\ ~q["key"] /\ q["hs"]
           \/ Only({"read"}, r, q) /\ q["read"] /\ r["hs"] /\ ~r["returned"]
           \/ /\ Only({"refused"}, r, q) /\ q["refused"]
              /\ final /\ r["ending"] /\ ~r["hs"] /\ ~r["returned"]
           \/ /\ Only({"returned"}, r, q) /\ q["returned"]
              /\ r["ending"] /\ ~r["open"] /\ (final => r["hs"] \/ r["refused"])
    PROVE  q = r \/ q \in Contract!Successors(r, final)
<1> USE DEF States, Only, Contract!Fields, Contract!With, Contract!Without
<1>1. CASE Only({"key"}, r, q) /\ q["key"] /\ ~r["ending"] /\ ~r["key"] /\ ~r["hs"]
  <2>1. q = Contract!With(r, "key")
    BY <1>1
  <2>2. QED
    BY <1>1, <2>1 DEF Contract!Successors, Contract!KeyArrives
<1>2. CASE Only({"key", "hs"}, r, q) /\ r["key"] /\ ~q["key"] /\ q["hs"]
  <2>1. q = Contract!With(Contract!Without(r, "key"), "hs")
    BY <1>2
  <2>2. QED
    BY <1>2, <2>1 DEF Contract!Successors, Contract!Confirms
<1>3. CASE Only({"read"}, r, q) /\ q["read"] /\ r["hs"] /\ ~r["returned"]
  <2>1. q = Contract!With(r, "read")
    BY <1>3
  <2>2. QED
    BY <1>3, <2>1 DEF Contract!Successors, Contract!Reads
<1>4. CASE /\ Only({"refused"}, r, q) /\ q["refused"]
           /\ final /\ r["ending"] /\ ~r["hs"] /\ ~r["returned"]
  <2>1. q = Contract!With(r, "refused")
    BY <1>4
  <2>2. QED
    BY <1>4, <2>1 DEF Contract!Successors, Contract!Refuses
<1>5. CASE /\ Only({"returned"}, r, q) /\ q["returned"]
           /\ r["ending"] /\ ~r["open"] /\ (final => r["hs"] \/ r["refused"])
  <2>1. q = Contract!With(r, "returned")
    BY <1>5
  <2>2. QED
    BY <1>5, <2>1 DEF Contract!Successors, Contract!Returns
<1>6. QED
  BY <1>1, <1>2, <1>3, <1>4, <1>5

-----------------------------------------------------------------------------
(* What a step of the tunnel does to the contract's view of it *)

SameEnding == isTerminated' <=> isTerminated
SameKey == rxPc' = "deriveKey" <=> rxPc = "deriveKey"
SameHs == serverHandshakeDone' <=> serverHandshakeDone
SameRefused == "failure" \in replies' <=> "failure" \in replies
SameRead == reads' > 0 <=> reads > 0
SameOpen == session' = "live" <=> session = "live"
SameReturned == upPc' = "returned" <=> upPc = "returned"

Ended == /\ SameKey /\ SameHs /\ SameRefused /\ SameRead /\ SameReturned
         /\ isTerminated => isTerminated'
         /\ session' = "live" => session = "live"

Keyed == /\ SameEnding /\ SameHs /\ SameRefused /\ SameRead /\ SameOpen /\ SameReturned
         /\ ~isTerminated /\ ~serverHandshakeDone
         /\ rxPc # "deriveKey" /\ rxPc' = "deriveKey"

Confirmed == /\ SameEnding /\ SameRefused /\ SameRead /\ SameOpen /\ SameReturned
             /\ rxPc = "deriveKey" /\ rxPc' # "deriveKey" /\ serverHandshakeDone'

HasRead == /\ SameEnding /\ SameKey /\ SameHs /\ SameRefused /\ SameOpen /\ SameReturned
           /\ reads' > 0 /\ serverHandshakeDone /\ upPc # "returned"

Refused == /\ SameEnding /\ SameKey /\ SameHs /\ SameRead /\ SameOpen /\ SameReturned
           /\ "failure" \in replies' /\ FinalAttempt
           /\ isTerminated /\ ~serverHandshakeDone /\ upPc # "returned"

HasReturned == /\ SameEnding /\ SameKey /\ SameHs /\ SameRefused /\ SameRead /\ SameOpen
               /\ upPc' = "returned" /\ isTerminated /\ session # "live"
               /\ FinalAttempt => serverHandshakeDone \/ "failure" \in replies

Move == Ended \/ Keyed \/ Confirmed \/ HasRead \/ Refused \/ HasReturned

LEMMA StepMoves == ASSUME Kept, [Next]_vars PROVE Move
<1> USE TunnelAssumption
    DEF Kept, Answered, IInv, SInv, FlagsOK, DataOK, DialOrder, FailureFreezes, Ending,
        Relaying, UpPcs, RxPcs, ClPcs, Move,
        SameEnding, SameKey, SameHs, SameRefused, SameRead, SameOpen, SameReturned
<1>1. CASE Register
  BY <1>1, SMTT(30) DEF Ended, Register
<1>2. CASE Prelude
  BY <1>2, SMTT(30) DEF Ended, Prelude, PreludeNext, PreludePcs, CallsSend
<1>3. CASE PreludeFails
  BY <1>3, SMTT(30) DEF Ended, PreludeFails, PreludePcs
<1>4. CASE HandshakeSettled
  BY <1>4, SMTT(30) DEF Ended, HandshakeSettled
<1>5. ASSUME NEW n \in 1..MaxSlices, ReadData(n) PROVE Move
  BY <1>5, SMTT(30) DEF HasRead, ReadData
<1>6. CASE ReadDone
  BY <1>6, SMTT(30) DEF Ended, ReadDone
<1>7. CASE ReadFails
  BY <1>7, SMTT(30) DEF Ended, ReadFails
<1>8. CASE SealChunk
  BY <1>8, SMTT(30) DEF Ended, SealChunk
<1>9. CASE SendDone
  BY <1>9, SMTT(30) DEF Ended, SendDone
<1>10. CASE SendFails
  BY <1>10, SMTT(30) DEF Ended, SendFails
<1>11. CASE FinSent
  BY <1>11, SMTT(30) DEF Ended, FinSent, MustWait, FullCloseReason, ResetIdle
<1>12. CASE Completed
  BY <1>12, SMTT(30) DEF Ended, Completed
<1>13. CASE Finish
  BY <1>13, SMTT(30) DEF Ended, Keyed, Refused, HasReturned, Finish
<1>14. CASE RxDrained
  BY <1>14, SMTT(30) DEF Ended, RxDrained
<1>15. CASE RxShift
  BY <1>15, SMTT(30) DEF Ended, Keyed, Refused, HasReturned, RxShift, Decode
<1>16. CASE RxFin
  BY <1>16, SMTT(30) DEF Ended, RxFin
<1>17. CASE RxFinClosed
  BY <1>17, SMTT(30) DEF Ended, RxFinClosed
<1>18. CASE KeyDerived
  BY <1>18, SMTT(30) DEF Confirmed, KeyDerived
<1>19. CASE SuccessSettled
  BY <1>19, SMTT(30) DEF Ended, SuccessSettled, DecodeOrExit, Decode
<1>20. CASE LengthOpened
  BY <1>20, SMTT(30) DEF Ended, LengthOpened
<1>21. CASE OpenFails
  BY <1>21, SMTT(30) DEF Ended, OpenFails
<1>22. CASE PayloadOpened
  BY <1>22, SMTT(30) DEF Ended, PayloadOpened
<1>23. CASE WriteDone
  BY <1>23, SMTT(30) DEF Ended, WriteDone, DecodeOrExit, Decode
<1>24. CASE WriteFails
  BY <1>24, SMTT(30) DEF Ended, WriteFails
<1>25. CASE RxFinally
  BY <1>25, SMTT(30) DEF Ended, RxFinally
<1>26. CASE CleanupBody
  BY <1>26, SMTT(30) DEF Ended, Keyed, Refused, HasReturned, CleanupBody, EnterCleanup, AfterWrite
<1>27. CASE CleanupStep
  BY <1>27, SMTT(30) DEF Ended, Keyed, Refused, HasReturned, CleanupStep, EnterCleanup, AfterWrite, AfterReader
<1>28. CASE HandshakeTimeout
  BY <1>28, SMTT(30) DEF Ended, HandshakeTimeout
<1>29. CASE IdleTimeout
  BY <1>29, SMTT(30) DEF Ended, IdleTimeout
<1>30. ASSUME NEW n \in 1..MaxChunk, OnData(n) PROVE Move
  BY <1>30, SMTT(30) DEF Ended, OnData, StartPump
<1>31. CASE OnFin
  BY <1>31, SMTT(30) DEF Ended, OnFin, StartPump
<1>32. CASE OnError
  BY <1>32, SMTT(30) DEF Ended, OnError
<1>33. CASE SessionLost
  BY <1>33, SMTT(30) DEF Ended, SessionLost, OnClose
<1>34. CASE HandlerCancel
  BY <1>34, SMTT(30) DEF Ended, HandlerCancel, OnClose
<1>35. CASE UNCHANGED vars
  BY <1>35, SMTT(30) DEF Ended, vars
<1>q. QED
  BY <1>1, <1>2, <1>3, <1>4, <1>5, <1>6, <1>7, <1>8, <1>9, <1>10, <1>11,
     <1>12, <1>13, <1>14, <1>15, <1>16, <1>17, <1>18, <1>19, <1>20, <1>21,
     <1>22, <1>23, <1>24, <1>25, <1>26, <1>27, <1>28, <1>29, <1>30, <1>31,
     <1>32, <1>33, <1>34, <1>35 DEF Next, UpOwn, UpRead, RxOwn,
     Cl, Env, Terminated

LEMMA AnsweredStep == ASSUME Kept, [Next]_vars PROVE Answered'
<1> USE TunnelAssumption
    DEF Kept, Answered, IInv, SInv, FlagsOK, DataOK, DialOrder, ClPcs, RxPcs
<1>1. CASE Register
  BY <1>1, SMTT(30) DEF Register
<1>2. CASE Prelude
  BY <1>2, SMTT(30) DEF Prelude, PreludeNext, PreludePcs, CallsSend
<1>3. CASE PreludeFails
  BY <1>3, SMTT(30) DEF PreludeFails, PreludePcs
<1>4. CASE HandshakeSettled
  BY <1>4, SMTT(30) DEF HandshakeSettled
<1>5. ASSUME NEW n \in 1..MaxSlices, ReadData(n) PROVE Answered'
  BY <1>5, SMTT(30) DEF ReadData
<1>6. CASE ReadDone
  BY <1>6, SMTT(30) DEF ReadDone
<1>7. CASE ReadFails
  BY <1>7, SMTT(30) DEF ReadFails
<1>8. CASE SealChunk
  BY <1>8, SMTT(30) DEF SealChunk
<1>9. CASE SendDone
  BY <1>9, SMTT(30) DEF SendDone
<1>10. CASE SendFails
  BY <1>10, SMTT(30) DEF SendFails
<1>11. CASE FinSent
  BY <1>11, SMTT(30) DEF FinSent
<1>12. CASE Completed
  BY <1>12, SMTT(30) DEF Completed
<1>13. CASE Finish
  BY <1>13, SMTT(30) DEF Finish
<1>14. CASE RxDrained
  BY <1>14, SMTT(30) DEF RxDrained
<1>15. CASE RxShift
  BY <1>15, SMTT(30) DEF RxShift, Decode
<1>16. CASE RxFin
  BY <1>16, SMTT(30) DEF RxFin
<1>17. CASE RxFinClosed
  BY <1>17, SMTT(30) DEF RxFinClosed
<1>18. CASE KeyDerived
  BY <1>18, SMTT(30) DEF KeyDerived
<1>19. CASE SuccessSettled
  BY <1>19, SMTT(30) DEF SuccessSettled, DecodeOrExit, Decode
<1>20. CASE LengthOpened
  BY <1>20, SMTT(30) DEF LengthOpened
<1>21. CASE OpenFails
  BY <1>21, SMTT(30) DEF OpenFails
<1>22. CASE PayloadOpened
  BY <1>22, SMTT(30) DEF PayloadOpened
<1>23. CASE WriteDone
  BY <1>23, SMTT(30) DEF WriteDone, DecodeOrExit, Decode
<1>24. CASE WriteFails
  BY <1>24, SMTT(30) DEF WriteFails
<1>25. CASE RxFinally
  BY <1>25, SMTT(30) DEF RxFinally
<1>26. CASE CleanupBody
  BY <1>26, SMTT(30) DEF CleanupBody, EnterCleanup, AfterWrite
<1>27. CASE CleanupStep
  BY <1>27, SMTT(30) DEF CleanupStep, EnterCleanup, AfterWrite, AfterReader
<1>28. CASE HandshakeTimeout
  BY <1>28, SMTT(30) DEF HandshakeTimeout
<1>29. CASE IdleTimeout
  BY <1>29, SMTT(30) DEF IdleTimeout
<1>30. ASSUME NEW n \in 1..MaxChunk, OnData(n) PROVE Answered'
  BY <1>30, SMTT(30) DEF OnData, StartPump
<1>31. CASE OnFin
  BY <1>31, SMTT(30) DEF OnFin, StartPump
<1>32. CASE OnError
  BY <1>32, SMTT(30) DEF OnError
<1>33. CASE SessionLost
  BY <1>33, SMTT(30) DEF SessionLost, OnClose
<1>34. CASE HandlerCancel
  BY <1>34, SMTT(30) DEF HandlerCancel, OnClose
<1>35. CASE UNCHANGED vars
  BY <1>35, SMTT(30) DEF vars
<1>q. QED
  BY <1>1, <1>2, <1>3, <1>4, <1>5, <1>6, <1>7, <1>8, <1>9, <1>10, <1>11,
     <1>12, <1>13, <1>14, <1>15, <1>16, <1>17, <1>18, <1>19, <1>20, <1>21,
     <1>22, <1>23, <1>24, <1>25, <1>26, <1>27, <1>28, <1>29, <1>30, <1>31,
     <1>32, <1>33, <1>34, <1>35 DEF Next, UpOwn, UpRead, RxOwn,
     Cl, Env, Terminated
-----------------------------------------------------------------------------
(* The contract is kept *)

LEMMA InitKept == Init => Kept
<1>1. Init => Answered
  BY DEF Init, Answered
<1>2. QED
  BY <1>1, InitInv DEF Kept

LEMMA KeptAlways == Spec => []Kept
<1>1. ASSUME Kept, [Next]_vars PROVE Kept'
  BY <1>1, FlagsStep, SafetyStep, AnsweredStep DEF Kept, IInv
<1>2. QED
  BY <1>1, InitKept, PTL DEF Spec

LEMMA SeenNow ==
    ASSUME FlagsOK, reads \in Nat
    PROVE  /\ Seen \in States
           /\ Seen["ending"] = isTerminated
           /\ Seen["key"] = (rxPc = "deriveKey")
           /\ Seen["hs"] = serverHandshakeDone
           /\ Seen["refused"] = ("failure" \in replies)
           /\ Seen["read"] <=> reads > 0
           /\ Seen["open"] = (session = "live")
           /\ Seen["returned"] = (upPc = "returned")
<1>1. /\ Seen["ending"] = isTerminated
      /\ Seen["key"] = (rxPc = "deriveKey")
      /\ Seen["hs"] = serverHandshakeDone
      /\ Seen["refused"] = ("failure" \in replies)
      /\ Seen["read"] = (reads > 0)
      /\ Seen["open"] = (session = "live")
      /\ Seen["returned"] = (upPc = "returned")
  BY DEF Seen
<1>2. Seen = [f \in Contract!Fields |-> Seen[f]]
  BY DEF Seen, Contract!Fields
<1>3. \A f \in Contract!Fields : Seen[f] \in BOOLEAN
  <2>1. Seen["read"] \in BOOLEAN
    <3>1. CASE reads > 0
      BY <1>1, <3>1
    <3>2. CASE ~(reads > 0)
      BY <1>1, <3>2
    <3>3. QED
      BY <3>1, <3>2
  <2>2. Seen["hs"] \in BOOLEAN
    BY <1>1 DEF FlagsOK
  <2>3. /\ Seen["ending"] \in BOOLEAN /\ Seen["key"] \in BOOLEAN
        /\ Seen["refused"] \in BOOLEAN /\ Seen["open"] \in BOOLEAN
        /\ Seen["returned"] \in BOOLEAN
    <3>1. \A x, y : (x = y) \in BOOLEAN /\ (x # y) \in BOOLEAN /\ (x \in y) \in BOOLEAN
      OBVIOUS
    <3>2. QED
      BY <1>1, <3>1
  <2>4. QED
    BY <2>1, <2>2, <2>3 DEF Contract!Fields
<1>4. QED
  BY <1>1, <1>2, <1>3 DEF States

LEMMA SeenNext ==
    ASSUME FlagsOK', reads' \in Nat
    PROVE  /\ Seen' \in States
           /\ Seen'["ending"] = isTerminated'
           /\ Seen'["key"] = (rxPc' = "deriveKey")
           /\ Seen'["hs"] = serverHandshakeDone'
           /\ Seen'["refused"] = ("failure" \in replies')
           /\ Seen'["read"] <=> reads' > 0
           /\ Seen'["open"] = (session' = "live")
           /\ Seen'["returned"] = (upPc' = "returned")
<1>1. /\ Seen'["ending"] = isTerminated'
      /\ Seen'["key"] = (rxPc' = "deriveKey")
      /\ Seen'["hs"] = serverHandshakeDone'
      /\ Seen'["refused"] = ("failure" \in replies')
      /\ Seen'["read"] = (reads' > 0)
      /\ Seen'["open"] = (session' = "live")
      /\ Seen'["returned"] = (upPc' = "returned")
  BY DEF Seen
<1>2. Seen' = [f \in Contract!Fields |-> Seen'[f]]
  BY DEF Seen, Contract!Fields
<1>3. \A f \in Contract!Fields : Seen'[f] \in BOOLEAN
  <2>1. Seen'["read"] \in BOOLEAN
    <3>1. CASE reads' > 0
      BY <1>1, <3>1
    <3>2. CASE ~(reads' > 0)
      BY <1>1, <3>2
    <3>3. QED
      BY <3>1, <3>2
  <2>2. Seen'["hs"] \in BOOLEAN
    BY <1>1 DEF FlagsOK
  <2>3. /\ Seen'["ending"] \in BOOLEAN /\ Seen'["key"] \in BOOLEAN
        /\ Seen'["refused"] \in BOOLEAN /\ Seen'["open"] \in BOOLEAN
        /\ Seen'["returned"] \in BOOLEAN
    <3>1. \A x, y : (x = y) \in BOOLEAN /\ (x # y) \in BOOLEAN /\ (x \in y) \in BOOLEAN
      OBVIOUS
    <3>2. QED
      BY <1>1, <3>1
  <2>4. QED
    BY <2>1, <2>2, <2>3 DEF Contract!Fields
<1>4. QED
  BY <1>1, <1>2, <1>3 DEF States

\* Every step of a tunnel is a step of the contract, or changes nothing of it.
LEMMA ContractStep ==
    ASSUME Kept, Kept', [Next]_vars
    PROVE  Seen' = Seen \/ Seen' \in Contract!Successors(Seen, FinalAttempt)
<1> DEFINE r == Seen
           q == Seen'
<1>f. FlagsOK /\ FlagsOK' /\ reads \in Nat /\ reads' \in Nat /\ FinalAttempt \in BOOLEAN
  BY TunnelAssumption DEF Kept, IInv, SInv, DataOK
<1>1. /\ r \in States /\ q \in States
      /\ r["ending"] = isTerminated /\ q["ending"] = isTerminated'
      /\ r["key"] = (rxPc = "deriveKey") /\ q["key"] = (rxPc' = "deriveKey")
      /\ r["hs"] = serverHandshakeDone /\ q["hs"] = serverHandshakeDone'
      /\ r["refused"] = ("failure" \in replies) /\ q["refused"] = ("failure" \in replies')
      /\ r["read"] <=> reads > 0
      /\ q["read"] <=> reads' > 0
      /\ r["open"] = (session = "live") /\ q["open"] = (session' = "live")
      /\ r["returned"] = (upPc = "returned") /\ q["returned"] = (upPc' = "returned")
  BY <1>f, SeenNow, SeenNext
<1>b. /\ serverHandshakeDone \in BOOLEAN /\ serverHandshakeDone' \in BOOLEAN
      /\ r["read"] \in BOOLEAN /\ q["read"] \in BOOLEAN
  BY <1>f, <1>1 DEF FlagsOK, States, Contract!Fields
<1> HIDE DEF r, q
<1> USE DEF SameEnding, SameKey, SameHs, SameRefused, SameRead, SameOpen, SameReturned
<1>2. CASE Ended
  <2>1. Only({"ending", "open"}, r, q)
    BY <1>1, <1>b, <1>2 DEF Ended, Only, Contract!Fields
  <2>2. (r["ending"] => q["ending"]) /\ (q["open"] => r["open"])
    BY <1>1, <1>2 DEF Ended
  <2>3. QED
    BY <1>f, <1>1, <2>1, <2>2, EndOrClose DEF r, q
<1>3. CASE Keyed
  <2>1. Only({"key"}, r, q)
    BY <1>1, <1>b, <1>3 DEF Keyed, Only, Contract!Fields
  <2>2. q["key"] /\ ~r["ending"] /\ ~r["key"] /\ ~r["hs"]
    BY <1>1, <1>3 DEF Keyed
  <2>3. QED
    BY <1>f, <1>1, <2>1, <2>2, OneField DEF r, q
<1>4. CASE Confirmed
  <2>1. Only({"key", "hs"}, r, q)
    BY <1>1, <1>b, <1>4 DEF Confirmed, Only, Contract!Fields
  <2>2. r["key"] /\ ~q["key"] /\ q["hs"]
    BY <1>1, <1>4 DEF Confirmed
  <2>3. QED
    BY <1>f, <1>1, <2>1, <2>2, OneField DEF r, q
<1>5. CASE HasRead
  <2>1. Only({"read"}, r, q)
    <3>1. SameEnding /\ SameKey /\ SameHs /\ SameRefused /\ SameOpen /\ SameReturned
      BY <1>5 DEF HasRead
    <3>2. QED
      BY <1>1, <1>b, <3>1 DEF Only, Contract!Fields
  <2>2. q["read"] /\ r["hs"] /\ ~r["returned"]
    BY <1>1, <1>5 DEF HasRead
  <2>3. QED
    BY <1>f, <1>1, <2>1, <2>2, OneField DEF r, q
<1>6. CASE Refused
  <2>1. Only({"refused"}, r, q)
    BY <1>1, <1>b, <1>6 DEF Refused, Only, Contract!Fields
  <2>2. q["refused"] /\ FinalAttempt /\ r["ending"] /\ ~r["hs"] /\ ~r["returned"]
    BY <1>1, <1>6 DEF Refused
  <2>3. QED
    BY <1>f, <1>1, <2>1, <2>2, OneField DEF r, q
<1>7. CASE HasReturned
  <2>1. Only({"returned"}, r, q)
    BY <1>1, <1>b, <1>7 DEF HasReturned, Only, Contract!Fields
  <2>2. q["returned"] /\ r["ending"] /\ ~r["open"] /\ (FinalAttempt => r["hs"] \/ r["refused"])
    BY <1>1, <1>7 DEF HasReturned
  <2>3. QED
    BY <1>f, <1>1, <2>1, <2>2, OneField DEF r, q
<1>8. QED
  BY <1>2, <1>3, <1>4, <1>5, <1>6, <1>7, StepMoves DEF Move

LEMMA FreshAtFirst == Init => Contract!Init
<1> SUFFICES ASSUME Init PROVE Contract!Init
  OBVIOUS
<1>1. FlagsOK /\ reads \in Nat
  BY InitInv DEF IInv, SInv, DataOK
<1>s. /\ Seen \in States
      /\ Seen["ending"] = isTerminated /\ Seen["key"] = (rxPc = "deriveKey")
      /\ Seen["hs"] = serverHandshakeDone /\ Seen["refused"] = ("failure" \in replies)
      /\ Seen["read"] <=> reads > 0
      /\ Seen["open"] = (session = "live") /\ Seen["returned"] = (upPc = "returned")
  BY <1>1, SeenNow
<1>2. \A f \in Contract!Fields : Seen[f] = (f = "open")
  <2>1. /\ ~Seen["ending"] /\ ~Seen["key"] /\ ~Seen["hs"] /\ ~Seen["refused"]
        /\ ~Seen["read"] /\ Seen["open"] /\ ~Seen["returned"]
    <3>1. /\ clPc = "none" /\ rxPc = "idle" /\ serverHandshakeDone = FALSE
          /\ replies = {} /\ session = "live" /\ upPc = "start" /\ ~(reads > 0)
      BY DEF Init
    <3>2. QED
      BY <1>s, <3>1
  <2>2. QED
    BY <1>s, <2>1 DEF Contract!Fields, States
<1>3. Seen = Contract!Fresh
  BY <1>1, <1>2, SeenNow DEF States, Contract!Fresh
<1>4. QED
  BY <1>3 DEF Contract!Init

LEMMA TrueOutcome == ASSUME Kept PROVE Outcome \in Contract!Outcomes(Seen)
<1>1. FlagsOK /\ reads \in Nat /\ (totalRecv > 0) \in BOOLEAN /\ Success \in BOOLEAN
  BY DEF Kept, IInv, SInv, DataOK, Success
<1>2. Success => totalRecv > 0 /\ terminationReason \notin {"client_abort", "rx_overflow"}
  BY DEF Kept, IInv, SInv, ReasonSet, Success
<1>3. totalRecv > 0 => Seen["hs"]
  BY <1>1, SeenNow DEF Kept, IInv, SInv, DialOrder, DataOK
<1>4. Outcome \in [success : BOOLEAN, fault : BOOLEAN, received : BOOLEAN]
  BY <1>1 DEF Outcome
<1>5. QED
  BY <1>2, <1>3, <1>4 DEF Outcome, Contract!Outcomes

-----------------------------------------------------------------------------
\* A call of BrookTunnel.run is a call as the dispatcher reckons with it, in each
\* of the two kinds of attempt, however the three activities, the timers, the
\* stream and the client interleave: one confirmation per nonce, no reading of
\* the client before it, at return a closed session and, on the last attempt, a
\* reply; and the value returned claims no more than what happened.
THEOREM ContractKept == Spec => KeepsContract
<1>1. Init => Contract!Init
  BY FreshAtFirst
<1>2. ASSUME Kept, Kept', [Next]_vars PROVE [Contract!Next]_Seen
  BY <1>2, ContractStep DEF Contract!Next
<1>3. Kept => Outcome \in Contract!Outcomes(Seen)
  BY TrueOutcome
<1>4. QED
  BY <1>1, <1>2, <1>3, KeptAlways, PTL
     DEF Spec, KeepsContract, OutcomeIsTold, Contract!Spec
=============================================================================
