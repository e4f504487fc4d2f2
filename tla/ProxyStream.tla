------------------------------- MODULE ProxyStream -------------------------------
(***************************************************************************)
(* The bytes of one client from its first one to the target and back: the  *)
(* handshake, whose destination and leftover are the first things the      *)
(* tunnel seals, the stream, and the client's further bytes.               *)
(***************************************************************************)
EXTENDS ProxyHandshake, BrookFraming

proxyVars == <<handshakeVars, framingVars>>

ProxyInit == HandshakeInit /\ FramingInit

Prelude ==
    /\ stage = "done" /\ ~replySent
    /\ SendNonce \/ SendHeader(dst, leftover)
    /\ UNCHANGED handshakeVars

\* The upstream loop reads the next bytes of the client.
ReadClient ==
    \E n \in 1..(Len(wire) - given) :
        /\ UpstreamReads(SubSeq(wire, given + 1, given + n))
        /\ given' = given + n
        /\ UNCHANGED <<wire, type, stage, buf, replies, dst, leftover, isConnect, replySent>>

ClientCloses == given = Len(wire) /\ TunnelFin /\ UNCHANGED handshakeVars

\* The server's nonce is taken for success, anything else for a failure.
NonceTaken == TakeNonce /\ SendSuccess
Failed == decoder = "error" /\ SendFailure /\ UNCHANGED framingVars

ProxyNext ==
    \/ HandshakeStep /\ UNCHANGED framingVars
    \/ FramingStep /\ UNCHANGED handshakeVars
    \/ Prelude \/ ReadClient \/ ClientCloses \/ NonceTaken \/ Failed

ProxySpec == ProxyInit /\ [][ProxyNext]_proxyVars

ProxyTypeOK == HandshakeTypeOK /\ FramingTypeOK
=============================================================================
