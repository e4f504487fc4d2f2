---------------------------- MODULE ServerConnection ----------------------------
(***************************************************************************)
(* One connection of the Go server whose ALPN is "h3", which a browser     *)
(* and a raw Brook client both use: dispatchConnection and                 *)
(* classifyBidiFirst, the two probe goroutines, the wrapper interceptedConn*)
(* and HandleRawQUICConn (server.go, quic.go).  The relay of a stream      *)
(* begins at "served"; connections share nothing but the stream slots,     *)
(* whose answer is left open here.                                         *)
(***************************************************************************)
EXTENDS Integers

CONSTANT MaxOpened     \* bound on the streams of either kind the client opens

ASSUME ConnectionAssumption == MaxOpened \in Nat

Kinds == {"bidi", "uni"}
Ids == 1..MaxOpened

VARIABLES
    client,     \* "raw", who opens no uni streams, or "wt", a browser
    main,       \* where dispatchConnection is
    place,      \* where each stream is
    probe,      \* where the two probe goroutines are
    probeOver,  \* probeCtx has ended
    serving,    \* where the accept calls of the HTTP/3 server are
    orphan,     \* the goroutine of the raw case that drains uniChan for 200 ms
    alive       \* the QUIC connection

connVars == <<client, main, place, probe, probeOver, serving, orphan, alive>>

ConnInit ==
    /\ client \in {"raw", "wt"}
    /\ main = "none"
    /\ place = [k \in Kinds |-> [i \in Ids |-> "none"]]
    /\ probe = [k \in Kinds |-> "off"]
    /\ probeOver = FALSE
    /\ serving = [k \in Kinds |-> "off"]
    /\ orphan = "off"
    /\ alive = TRUE

\* The streams of kind k at p; a channel holds one, and so does main.
At(k, p) == {i \in Ids : place[k][i] = p}
IsFirst(k, p, i) == i \in At(k, p) /\ \A j \in At(k, p) : i <= j

\* place with the streams of either kind at p(k) moved to q.
Moved(pl, k, p, q) == [pl EXCEPT ![k] = [i \in Ids |-> IF pl[k][i] = p THEN q ELSE pl[k][i]]]

-----------------------------------------------------------------------------
(* The client and the connection *)

\* Streams of either kind are numbered in the order they are opened.
Open(k) ==
    /\ alive /\ main # "none" /\ (k = "uni" => client = "wt")
    /\ \E i \in Ids : /\ place[k][i] = "none" /\ \A j \in Ids : j < i => place[k][j] # "none"
                      /\ place' = [place EXCEPT ![k][i] = "queued"]
    /\ UNCHANGED <<client, main, probe, probeOver, serving, orphan, alive>>

\* Both probes are started with the connection.
Dispatch ==
    /\ main = "none" /\ main' = "probing"
    /\ probe' = [k \in Kinds |-> "waiting"]
    /\ UNCHANGED <<client, place, probeOver, serving, orphan, alive>>

\* The peer leaves, the connection idles out or its transport is closed.
Dies == alive' = FALSE

-----------------------------------------------------------------------------
(* The probes.  AcceptStream returns a stream that is there even when its
   context is cancelled. *)

ProbeAccepts(k) ==
    /\ probe[k] = "waiting" /\ alive
    /\ \E i \in Ids : IsFirst(k, "queued", i) /\ place' = [place EXCEPT ![k][i] = "probe"]
    /\ probe' = [probe EXCEPT ![k] = "sending"]
    /\ UNCHANGED <<client, main, probeOver, serving, orphan, alive>>

ProbeSends(k) ==
    /\ probe[k] = "sending"
    /\ place' = Moved(place, k, "probe", "chan")
    /\ probe' = [probe EXCEPT ![k] = "ended"]
    /\ UNCHANGED <<client, main, probeOver, serving, orphan, alive>>

ProbeFails(k) ==
    /\ probe[k] = "waiting" /\ (probeOver \/ ~alive)
    /\ probe' = [probe EXCEPT ![k] = "ended"]
    /\ UNCHANGED <<client, main, place, probeOver, serving, orphan, alive>>

\* Its 10 s are over.
ProbeExpires ==
    /\ main \in {"probing", "peek", "accepting", "control"} /\ ~probeOver
    /\ probeOver' = TRUE
    /\ UNCHANGED <<client, main, place, probe, serving, orphan, alive>>

-----------------------------------------------------------------------------
(* Classification *)

\* The connection is closed and dispatchConnection returns, with the streams pl.
CloseConn(pl) ==
    /\ main' = "closed" /\ alive' = FALSE /\ probeOver' = TRUE
    /\ place' = pl
    /\ UNCHANGED <<client, probe, orphan>>

\* ServeQUICConn gets the connection with the streams main holds, and the
\* channels.
ToWebTransport(pl) ==
    /\ main' = "wt" /\ probeOver' = TRUE
    /\ place' = Moved(Moved(pl, "bidi", "held", "buffered"), "uni", "held", "buffered")
    /\ serving' = [k \in Kinds |-> "poll"]
    /\ UNCHANGED <<client, probe, orphan, alive>>

\* Mutant: the handler is not given the stream that was accepted before it.
ToRaw_NoFirst(pl) ==
    /\ main' = "raw" /\ probeOver' = TRUE /\ orphan' = "waiting"
    /\ place' = pl
    /\ UNCHANGED <<client, probe, alive, serving>>

\* HandleRawQUICConn gets the connection and the stream main holds, whose two
\* bytes it will read again; when there is no slot for it the connection is
\* closed.
ToRaw(pl) ==
    /\ UNCHANGED serving
    /\ \/ /\ main' = "raw" /\ probeOver' = TRUE /\ orphan' = "waiting"
          /\ place' = Moved(pl, "bidi", "held", "served")
          /\ UNCHANGED <<client, probe, alive>>
       \/ CloseConn(Moved(pl, "bidi", "held", "closed"))

UniFirst ==
    /\ main = "probing" /\ At("uni", "chan") # {}
    /\ ToWebTransport(Moved(place, "uni", "chan", "buffered"))

BidiFirst ==
    /\ main = "probing" /\ At("bidi", "chan") # {} /\ main' = "peek"
    /\ place' = Moved(place, "bidi", "chan", "held")
    /\ UNCHANGED <<client, probe, probeOver, serving, orphan, alive>>

ProbeTimeout ==
    /\ main = "probing" /\ probeOver
    /\ CloseConn(Moved(Moved(place, "bidi", "chan", "closed"), "uni", "chan", "closed"))
    /\ UNCHANGED serving

\* drainUni
Drained == Moved(place, "uni", "chan", "held")

\* No stream is usable: those harvested are cancelled.
Unusable(pl) == CloseConn(Moved(pl, "uni", "held", "closed")) /\ UNCHANGED serving

\* The first stream is reset or sends nothing for 3 s: the next one is tried.
PeekFails ==
    /\ main = "peek"
    /\ LET pl == Moved(Drained, "bidi", "held", "closed")
       IN  IF probeOver THEN Unusable(pl)
           ELSE /\ main' = "accepting" /\ place' = pl
                /\ UNCHANGED <<client, probe, probeOver, serving, orphan, alive>>

\* acceptBidiWithContext
AcceptNext ==
    /\ main = "accepting" /\ alive /\ main' = "peek"
    /\ \E i \in Ids : IsFirst("bidi", "queued", i) /\ place' = [place EXCEPT !["bidi"][i] = "held"]
    /\ UNCHANGED <<client, probe, probeOver, serving, orphan, alive>>

\* Mutant: the wait for another stream has no limit but the connection's.
AcceptFails_Unbounded ==
    /\ main = "accepting" /\ ~alive
    /\ Unusable(place)

\* The limit passes, or the connection dies.  A stream that its helper got too
\* late is closed by the helper.
AcceptFails ==
    /\ main = "accepting" /\ (probeOver \/ ~alive)
    /\ \/ Unusable(place)
       \/ \E i \in Ids : IsFirst("bidi", "queued", i)
                         /\ Unusable([place EXCEPT !["bidi"][i] = "closed"])

\* One or two bytes come.  A browser's first stream begins with the type of an
\* HTTP/3 frame; the first byte of a later one may come alone and tell nothing.
\* The nonce of a raw client may look like one.
PeekReads ==
    /\ main = "peek" /\ alive
    /\ IF \E i \in Ids : Drained["uni"][i] = "held" THEN ToWebTransport(Drained)
       ELSE \/ /\ main' = "control" /\ place' = Drained
               /\ UNCHANGED <<client, probe, probeOver, serving, orphan, alive>>
            \/ (client = "wt" => place["bidi"][1] # "held") /\ ToRaw(Drained)

\* Mutant: who looks like HTTP/3 is taken for it, control stream or not.
ControlWaitEnds_Magic ==
    /\ main = "control"
    /\ ToWebTransport(Drained)

\* A control stream comes, or controlStreamWait or probeCtx is over; uniChan is
\* drained in either case.
ControlWaitEnds ==
    /\ main = "control"
    /\ IF At("uni", "chan") # {} THEN ToWebTransport(Drained) ELSE ToRaw(place)

-----------------------------------------------------------------------------
(* The connection as a WebTransport connection *)

\* interceptedConn, AcceptStream and AcceptUniStream: what is buffered, then
\* what is in the channel, else the connection is asked.
ServePoll(k) ==
    /\ main = "wt" /\ serving[k] = "poll"
    /\ IF At(k, "buffered") # {}
       THEN /\ \E i \in Ids : IsFirst(k, "buffered", i)
                              /\ place' = [place EXCEPT ![k][i] = "served"]
            /\ UNCHANGED serving
       ELSE IF At(k, "chan") # {}
       THEN place' = Moved(place, k, "chan", "served") /\ UNCHANGED serving
       ELSE serving' = [serving EXCEPT ![k] = "asking"] /\ UNCHANGED place
    /\ UNCHANGED <<client, main, probe, probeOver, orphan, alive>>

ServeAsked(k) ==
    /\ main = "wt" /\ serving[k] = "asking" /\ alive
    /\ \E i \in Ids : IsFirst(k, "queued", i) /\ place' = [place EXCEPT ![k][i] = "served"]
    /\ serving' = [serving EXCEPT ![k] = "poll"]
    /\ UNCHANGED <<client, main, probe, probeOver, orphan, alive>>

\* ServeQUICConn returns; interceptedConn.CloseWithError closes what it holds.
WebTransportEnds ==
    /\ main = "wt" /\ ~alive
    /\ CloseConn([k \in Kinds |-> [i \in Ids |->
           IF place[k][i] \in {"buffered", "chan"} THEN "closed" ELSE place[k][i]]])
    /\ serving' = [k \in Kinds |-> "off"]

-----------------------------------------------------------------------------
(* The connection as a raw one *)

\* With a slot a stream is relayed, without one it is closed.
RawAccept ==
    /\ main = "raw" /\ alive
    /\ \E i \in Ids, q \in {"served", "closed"} :
           IsFirst("bidi", "queued", i) /\ place' = [place EXCEPT !["bidi"][i] = q]
    /\ UNCHANGED <<client, main, probe, probeOver, serving, orphan, alive>>

\* Mutant: an accept that fails is tried again.
RawEnds_Retry == main = "raw" /\ ~alive /\ UNCHANGED connVars

RawEnds ==
    /\ main = "raw" /\ ~alive
    /\ CloseConn(place) /\ UNCHANGED serving

\* The drain of uniChan takes a stream, or its 200 ms pass.
OrphanDrained ==
    /\ orphan = "waiting" /\ orphan' = "ended"
    /\ place' = Moved(place, "uni", "chan", "closed")
    /\ UNCHANGED <<client, main, probe, probeOver, serving, alive>>

-----------------------------------------------------------------------------
MainStep ==
    \/ UniFirst \/ BidiFirst \/ ProbeTimeout \/ PeekFails \/ AcceptNext \/ AcceptFails
    \/ PeekReads \/ ControlWaitEnds \/ WebTransportEnds \/ RawAccept \/ RawEnds

ProbeStep(k) == ProbeAccepts(k) \/ ProbeSends(k) \/ ProbeFails(k)

ConnStep ==
    \/ \E k \in Kinds : Open(k) \/ ProbeStep(k) \/ ServePoll(k) \/ ServeAsked(k)
    \/ ProbeExpires \/ MainStep \/ OrphanDrained

ConnTypeOK ==
    /\ client \in {"raw", "wt"}
    /\ main \in {"none", "probing", "peek", "accepting", "control", "wt", "raw", "closed"}
    /\ place \in [Kinds -> [Ids -> {"none", "queued", "probe", "chan", "held", "buffered",
                                    "served", "closed"}]]
    /\ probe \in [Kinds -> {"off", "waiting", "sending", "ended"}]
    /\ probeOver \in BOOLEAN
    /\ serving \in [Kinds -> {"off", "poll", "asking"}]
    /\ orphan \in {"off", "waiting", "ended"}
    /\ alive \in BOOLEAN

-----------------------------------------------------------------------------
(* Properties *)

\* A raw client is never taken for a browser, whatever its nonce looks like
\* (server.go:319), and a browser is given up as a raw client only when none of
\* its unidirectional streams is in the channel or was taken from it, however
\* late it came there (server.go:311-314); one that is still with its probe is
\* told too late.
ClassifiedRight ==
    [][/\ client = "raw" => main' # "wt"
       /\ client = "wt" /\ main # "raw" /\ main' = "raw" =>
              At("uni", "chan") = {} /\ At("uni", "held") = {}]_connVars

\* The variables keep their types, and every bidirectional stream a raw
\* connection has accepted is relayed or closed: none is left with a probe, in a
\* channel or in a buffer, whichever were tried before.
NothingHeld ==
    /\ ConnTypeOK
    /\ main = "raw" => \A p \in {"probe", "chan", "held", "buffered"} : At("bidi", p) = {}

\* Every connection is classified or closed, whatever its client does.
Decided == main = "probing" ~> main \in {"wt", "raw", "closed"}

\* server.go:540, 541: when ServeQUICConn asks the connection for streams the
\* losing probe has stopped, so that none is stranded in its channel.
NoneStranded == \A k \in Kinds : serving[k] = "asking" => At(k, "chan") = {}
=============================================================================
