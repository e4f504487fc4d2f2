------------------------------ MODULE StreamPath ------------------------------
(***************************************************************************)
(* The way of a client's stream, looked at twice: byte by byte through     *)
(* handshake, framing and server (ProxyClients), and chunk by chunk        *)
(* through the buffers before and behind the tunnel (SessionStreams).  The *)
(* two share no state, so a behaviour follows one, and the other waits.    *)
(***************************************************************************)
EXTENDS ProxyClients, SessionStreams

VARIABLE follows      \* "bytes" or "chunks"

pathVars == <<follows, proxyVars, streamsVars>>

\* What the bytes start from does not matter to the chunks.
PathInit ==
    /\ follows \in {"bytes", "chunks"}
    /\ ProxyInit /\ StreamsInit
    /\ follows = "chunks" =>
           /\ wire = CHOOSE w \in Wires : TRUE
           /\ type = CHOOSE t \in ListenerTypes : TRUE
           /\ conf = CHOOSE c \in Confs : TRUE
           /\ clock = CHOOSE n \in ClientClocks : TRUE

PathNext ==
    \/ follows = "bytes" /\ ProxyNext /\ UNCHANGED <<follows, streamsVars>>
    \/ follows = "chunks" /\ StreamsNext /\ UNCHANGED <<follows, proxyVars>>

PathSpec == PathInit /\ [][PathNext]_pathVars
=============================================================================
