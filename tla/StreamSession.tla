----------------------------- MODULE StreamSession -----------------------------
(***************************************************************************)
(* WtStreamSession (webtransport/wt-stream-adapter.js): a WebTransport     *)
(* stream, the pump that reads it, the handlers the tunnel registers and   *)
(* the buffer for what comes before it has.  Chunks are numbered as the    *)
(* server sends them, all of them of one size; 0 is the FIN.               *)
(***************************************************************************)
EXTENDS Integers, Sequences, SequencesExt

CONSTANTS
    MAX_PENDING,     \* chunks that MAX_PENDING_BYTES has room for
    MaxIncoming,     \* bound: chunks the server sends
    MaxSends         \* bound: calls of sendStreamData

ASSUME SessionAssumption == MAX_PENDING \in Nat /\ MaxIncoming \in Nat /\ MaxSends \in Nat

VARIABLES
    arrived,         \* chunks the server has sent
    ending,          \* "no", "fin" or "error": how the stream ends after them
    taken,           \* chunks the pump has read
    pump,            \* "reading" or "ended"
    handlers,        \* "none", "registered", "released" or, by close(), "cleared"
    pending,         \* _pendingChunks
    shut,            \* isClosed
    passed,          \* what onData got: chunks, 0 for the FIN
    closes, errors,  \* whether onClose, onError were called
    sending,         \* the call of sendStreamData in progress: "no", "write" or "close"
    sends,           \* calls so far
    refused,         \* one of them threw
    early            \* close() was called before the handlers were there

sessionVars == <<arrived, ending, taken, pump, handlers, pending, shut, passed, closes, errors,
                 sending, sends, refused, early>>

SessionInit ==
    /\ arrived = 0 /\ ending = "no" /\ taken = 0 /\ pump = "reading"
    /\ handlers = "none" /\ pending = <<>> /\ shut = FALSE
    /\ passed = <<>> /\ closes = FALSE /\ errors = FALSE
    /\ sending = "no" /\ sends = 0 /\ refused = FALSE /\ early = FALSE

-----------------------------------------------------------------------------
(* The server and the connection *)

Arrives ==
    /\ ending = "no"
    /\ \/ arrived < MaxIncoming /\ arrived' = arrived + 1 /\ UNCHANGED ending
       \/ ending' \in {"fin", "error"} /\ UNCHANGED arrived
    /\ UNCHANGED <<taken, pump, handlers, pending, shut, passed, closes, errors, sending, sends,
                   refused, early>>

-----------------------------------------------------------------------------
(* close() *)

\* Mutant: nobody is told.
Close_Silent ==
    /\ shut' = TRUE
    /\ handlers' = IF handlers = "registered" THEN "cleared" ELSE handlers
    /\ closes' = closes

\* Idempotent; the handlers are told and forgotten.
Close ==
    /\ shut' = TRUE
    /\ handlers' = IF handlers = "registered" /\ ~shut THEN "cleared" ELSE handlers
    /\ closes' = (closes \/ (handlers = "registered" /\ ~shut))

\* Whoever owns the session closes it: the attempt's clean-up, a client that is
\* gone, the connection manager on a reset or a stop.  The tunnel may still be
\* deriving its key, its handlers not there yet.
OwnerCloses ==
    /\ ~shut /\ Close
    /\ early' = (early \/ handlers = "none")
    /\ UNCHANGED <<arrived, ending, taken, pump, pending, passed, errors, sending, sends, refused>>

-----------------------------------------------------------------------------
(* _startReadPump *)

\* A chunk goes to the handlers, or into the buffer; when that is full the
\* stream is closed.  A read that was served before close() brings its chunk, and
\* is the last.
PumpData ==
    /\ pump = "reading" /\ taken < arrived /\ taken' = taken + 1
    /\ \/ /\ handlers = "registered" /\ passed' = Append(passed, taken + 1)
          /\ pump' = IF shut THEN "ended" ELSE "reading"
          /\ UNCHANGED <<pending, shut, handlers, closes>>
       \/ /\ handlers # "registered" /\ Len(pending) < MAX_PENDING
          /\ pending' = Append(pending, taken + 1)
          /\ pump' = IF shut THEN "ended" ELSE "reading"
          /\ UNCHANGED <<passed, shut, handlers, closes>>
       \/ /\ handlers # "registered" /\ Len(pending) >= MAX_PENDING
          /\ pending' = <<>> /\ pump' = "ended" /\ Close
          /\ UNCHANGED passed
    /\ UNCHANGED <<arrived, ending, errors, sending, sends, refused, early>>

\* FIN; the finally clause closes the session.
PumpFin ==
    /\ pump = "reading" /\ ~shut /\ taken = arrived /\ ending = "fin"
    /\ pump' = "ended" /\ Close
    /\ IF handlers = "registered"
       THEN passed' = Append(passed, 0) /\ UNCHANGED pending
       ELSE pending' = Append(pending, 0) /\ UNCHANGED passed
    /\ UNCHANGED <<arrived, ending, taken, errors, sending, sends, refused, early>>

\* The stream is reset or its connection lost: what the stream still held is
\* lost with it.  Of a session that is closed already nobody is told.
PumpError ==
    /\ pump = "reading" /\ ending = "error"
    /\ pump' = "ended" /\ Close
    /\ errors' = (errors \/ (handlers = "registered" /\ ~shut))
    /\ UNCHANGED <<arrived, ending, taken, pending, passed, sending, sends, refused, early>>

\* close() has cancelled the reader: its read returns done, which the pump takes
\* for the server's FIN.
PumpCancelled ==
    /\ pump = "reading" /\ shut /\ pump' = "ended"
    /\ \/ /\ handlers = "registered" /\ passed' = Append(passed, 0) /\ closes' = TRUE
          /\ UNCHANGED pending
       \/ /\ handlers # "registered" /\ pending' = Append(pending, 0)
          /\ UNCHANGED <<passed, closes>>
    /\ UNCHANGED <<arrived, ending, taken, handlers, shut, errors, sending, sends, refused, early>>

-----------------------------------------------------------------------------
(* The interface the tunnel uses *)

\* Mutant: the buffer is handed over before the handlers are there, and again.
RegisterStream_Twice ==
    /\ handlers = "none" /\ handlers' = "registered"
    /\ passed' = passed \o pending \o pending
    /\ pending' = <<>>
    /\ closes' = (closes \/ Contains(pending, 0))
    /\ UNCHANGED <<arrived, ending, taken, pump, shut, errors, sending, sends, refused, early>>

\* The buffer is handed over at once.
RegisterStream ==
    /\ handlers = "none" /\ handlers' = "registered"
    /\ passed' = passed \o pending
    /\ pending' = <<>>
    /\ closes' = (closes \/ Contains(pending, 0))
    /\ UNCHANGED <<arrived, ending, taken, pump, shut, errors, sending, sends, refused, early>>

ReleaseStream ==
    /\ handlers = "registered" /\ handlers' = "released"
    /\ UNCHANGED <<arrived, ending, taken, pump, pending, shut, passed, closes, errors, sending,
                   sends, refused, early>>

\* sendStreamData throws when the session is closed.
Send ==
    /\ handlers # "none" /\ sending = "no" /\ ~refused /\ sends < MaxSends
    /\ sends' = sends + 1
    /\ sending' = IF shut THEN "no" ELSE "write"
    /\ refused' = shut
    /\ UNCHANGED <<arrived, ending, taken, pump, handlers, pending, shut, passed, closes, errors,
                   early>>

\* The write is done, fails, or has taken 15 s.
Written ==
    /\ sending = "write"
    /\ \/ sending' \in {"no", "close"} /\ UNCHANGED refused
       \/ sending' = "no" /\ refused' = TRUE
    /\ UNCHANGED <<arrived, ending, taken, pump, handlers, pending, shut, passed, closes, errors,
                   sends, early>>

\* writer.close() is awaited without a limit; what it throws is swallowed.
FinSent ==
    /\ sending = "close" /\ sending' = "no"
    /\ UNCHANGED <<arrived, ending, taken, pump, handlers, pending, shut, passed, closes, errors,
                   sends, refused, early>>

Pump == PumpData \/ PumpFin \/ PumpError \/ PumpCancelled

SessionStep ==
    Arrives \/ OwnerCloses \/ Pump \/ RegisterStream \/ ReleaseStream \/ Send \/ Written \/ FinSent

SessionTypeOK ==
    /\ arrived \in 0..MaxIncoming /\ taken \in 0..arrived
    /\ ending \in {"no", "fin", "error"} /\ pump \in {"reading", "ended"}
    /\ handlers \in {"none", "registered", "released", "cleared"}
    /\ pending \in Seq(0..MaxIncoming) /\ passed \in Seq(0..MaxIncoming)
    /\ Len(pending) <= MAX_PENDING + 1
    /\ shut \in BOOLEAN /\ closes \in BOOLEAN /\ errors \in BOOLEAN /\ refused \in BOOLEAN
    /\ early \in BOOLEAN
    /\ sending \in {"no", "write", "close"} /\ sends \in 0..MaxSends

-----------------------------------------------------------------------------
(* Properties *)

\* The variables keep their types, and the handlers get the chunks the server
\* sent, without a gap, a change of order or a repetition, whichever of them
\* were buffered; and a FIN only after the last of them, unless close() came before
\* the handlers were there: then the end of the cancelled read is handed over as
\* if the server had sent it, wherever in the stream that was.
StreamInOrder ==
    /\ SessionTypeOK
    /\ \E n \in 0..arrived :
           LET chunks == [i \in 1..n |-> i]
           IN  \/ passed = chunks
               \/ passed = chunks \o <<0>> /\ (early \/ (ending = "fin" /\ n = arrived))

\* A tunnel learns that its stream has ended before or after it registered: its
\* handlers are told, or what it sends is refused.
EndIsLearnt ==
    handlers \in {"registered", "cleared"} /\ shut /\ sends > 0 => closes \/ errors \/ refused
=============================================================================
