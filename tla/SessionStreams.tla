---------------------------- MODULE SessionStreams ----------------------------
(***************************************************************************)
(* What BrookTunnel.run has on either side of it in a session worker: the  *)
(* client behind WorkerBridge and the server behind StreamSession.  Of the *)
(* tunnel only the order of its calls is kept: it registers its handlers,  *)
(* sends the prelude, and then reads a chunk and sends it, again and again.*)
(***************************************************************************)
EXTENDS WorkerBridge, StreamSession

streamsVars == <<bridgeVars, sessionVars>>

StreamsInit == BridgeInit /\ SessionInit

\* The chunk read last was sent; the first thing sent is the prelude.
UpToDate == sending = "no" /\ ~refused /\ sends = Len(Chunks) + 1

TunnelReads == UpToDate /\ Read /\ UNCHANGED sessionVars

TunnelSends == sends < Len(Chunks) + 1 /\ Send /\ UNCHANGED bridgeVars

BridgeMoves ==
    (LoopReads \/ LoopEnds \/ Message \/ CancelReader \/ CloseBridge) /\ UNCHANGED sessionVars

SessionMoves ==
    /\ Arrives \/ OwnerCloses \/ Pump \/ RegisterStream \/ ReleaseStream \/ Written \/ FinSent
    /\ UNCHANGED bridgeVars

StreamsNext == TunnelReads \/ TunnelSends \/ BridgeMoves \/ SessionMoves

StreamsSpec == StreamsInit /\ [][StreamsNext]_streamsVars
=============================================================================
