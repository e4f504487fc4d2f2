--------------------------- MODULE BrookServerProofs ---------------------------
(***************************************************************************)
(* Invariance proofs about the Go server.  LifeInv is about ListenAndServe *)
(* and Close alone, ConnInv about the one connection, for any number of    *)
(* streams; the steps of one leave the other's invariant alone.  The last  *)
(* part is about the relays, for any finite or infinite set of streams and *)
(* any capacity; the two systems share no variable.                        *)
(***************************************************************************)
EXTENDS BrookServer, ServerRelay, FiniteSetTheorems, TLAPS

USE DEF Resources, CloseRank, Kinds

-----------------------------------------------------------------------------
(* ListenAndServe and Close *)

\* What has not been published when ListenAndServe is at a place.
Unpublished ==
    /\ serve = "start" => "http" \notin field
    /\ serve \in {"start", "bind", "publishSocket"} => "socket" \notin field
    /\ serve \in {"start", "bind", "publishSocket", "listen", "publishListener"} =>
           field \cap {"listener", "transport"} = {}

\* What is open has been published, but for what ListenAndServe is about to
\* publish.
OpenIsKnown ==
    /\ res["http"] = "open" => "http" \in field
    /\ res["socket"] = "open" => serve = "publishSocket" \/ "socket" \in field
    /\ res["listener"] = "open" => serve = "publishListener" \/ "listener" \in field
    /\ res["transport"] = "open" => serve = "publishListener" \/ "transport" \in field

\* Once Close has begun nothing is published any more, and what was is closed
\* or in Close's copy.
ClosesAll ==
    /\ closing = "idle" <=> ~closed
    /\ closing = "idle" => copy = {}
    /\ closing # "idle" => \A r \in field \ {"wt"} : r \in copy \/ res[r] # "open"
    /\ closing = "done" => copy = {}

LifeInv == LifeTypeOK /\ Unpublished /\ OpenIsKnown /\ ClosesAll

LifeMove == ServeStep \/ CloseBegins \/ CloseCancels \/ CloseFrees \/ CloseReturns

LEMMA LifeKept == ASSUME LifeInv, LifeMove \/ UNCHANGED lifeVars PROVE LifeInv'
<1> USE DEF LifeInv, LifeTypeOK, Unpublished, OpenIsKnown, ClosesAll, ServeTo, OpenRes, CloseRes
<1>1. CASE SetupCert
  BY <1>1 DEF SetupCert
<1>2. CASE SetupAutocert
  BY <1>2 DEF SetupAutocert
<1>3. CASE Bind
  BY <1>3 DEF Bind
<1>4. CASE PublishSocket
  BY <1>4 DEF PublishSocket
<1>5. CASE ListenEarly
  BY <1>5 DEF ListenEarly
<1>6. CASE PublishListener
  BY <1>6 DEF PublishListener
<1>7. CASE SetupServers
  BY <1>7 DEF SetupServers
<1>8. CASE AcceptEnds
  BY <1>8 DEF AcceptEnds
<1>9. CASE CloseBegins
  BY <1>9 DEF CloseBegins
<1>10. CASE CloseCancels
  BY <1>10 DEF CloseCancels
<1>11. CASE CloseFrees
  <2> DEFINE r == CHOOSE x \in copy : \A y \in copy : CloseRank[x] <= CloseRank[y]
  <2>1. copy # {} /\ copy \subseteq Resources /\ CloseRes({r}) /\ copy' = copy \ {r}
    BY <1>11 DEF CloseFrees
  <2>2. \E x \in copy : \A y \in copy : CloseRank[x] <= CloseRank[y]
    BY <2>1
  <2>3. r \in copy
    BY <2>2
  <2> HIDE DEF r
  <2>4. res' \in [Resources -> {"none", "open", "closed"}]
    BY <2>1
  <2>5. \A x \in Resources : res'[x] = IF x = r /\ res[x] = "open" THEN "closed" ELSE res[x]
    BY <2>1
  <2>6. ClosesAll'
    BY <1>11, <2>1, <2>3, <2>5 DEF CloseFrees
  <2>7. OpenIsKnown'
    BY <1>11, <2>5 DEF CloseFrees
  <2>8. QED
    BY <1>11, <2>1, <2>4, <2>6, <2>7 DEF CloseFrees
<1>12. CASE CloseReturns
  BY <1>12 DEF CloseReturns
<1>13. CASE UNCHANGED lifeVars
  BY <1>13 DEF lifeVars
<1>q. QED
  BY <1>1, <1>2, <1>3, <1>4, <1>5, <1>6, <1>7,
     <1>8, <1>9, <1>10, <1>11, <1>12, <1>13 DEF LifeMove, ServeStep

-----------------------------------------------------------------------------
(* The connection *)

Spots == {"none", "queued", "probe", "chan", "held", "buffered", "served", "closed"}
Places == [Kinds -> [Ids -> Spots]]

\* Moved and the placing of one stream, stream by stream.
LEMMA MovedIs ==
    ASSUME NEW pl \in Places, NEW k \in Kinds, NEW p, NEW q \in Spots
    PROVE  /\ Moved(pl, k, p, q) \in Places
           /\ \A h \in Kinds, i \in Ids :
                  Moved(pl, k, p, q)[h][i] = IF h = k /\ pl[h][i] = p THEN q ELSE pl[h][i]
<1> DEFINE f == [i \in Ids |-> IF pl[k][i] = p THEN q ELSE pl[k][i]]
<1>1. f \in [Ids -> Spots]
  BY DEF Places
<1>2. Moved(pl, k, p, q) = [pl EXCEPT ![k] = f]
  BY DEF Moved
<1>3. \A i \in Ids : f[i] = IF pl[k][i] = p THEN q ELSE pl[k][i]
  OBVIOUS
<1> HIDE DEF f
<1>4. QED
  BY <1>1, <1>2, <1>3 DEF Places

Put(pl, k, s, q) == [pl EXCEPT ![k][s] = q]

LEMMA PutIs ==
    ASSUME NEW pl \in Places, NEW k \in Kinds, NEW s \in Ids, NEW q \in Spots
    PROVE  /\ Put(pl, k, s, q) \in Places
           /\ \A h \in Kinds, i \in Ids :
                  Put(pl, k, s, q)[h][i] = IF h = k /\ i = s THEN q ELSE pl[h][i]
  BY DEF Places, Put

\* Where a bidirectional stream may be, given its probe and the dispatcher.
BidiPlaced == \A i \in Ids :
    /\ place["bidi"][i] = "probe" => probe["bidi"] = "sending"
    /\ place["bidi"][i] = "chan" =>
           probe["bidi"] = "ended" /\ main \notin {"peek", "accepting", "control", "raw"}
    /\ place["bidi"][i] = "held" => main \in {"peek", "control"}
    /\ place["bidi"][i] = "buffered" => main = "wt"

ProbeIsOver ==
    /\ main = "none" => probe["bidi"] = "off"
    /\ main \in {"peek", "accepting", "control", "raw"} => probe["bidi"] = "ended"

UniPlaced == \A i \in Ids :
    /\ client = "raw" => place["uni"][i] = "none"
    /\ main = "control" => place["uni"][i] # "held"

Flags == probeOver \in BOOLEAN /\ alive \in BOOLEAN

Typed ==
    /\ client \in {"raw", "wt"}
    /\ main \in {"none", "probing", "peek", "accepting", "control", "wt", "raw", "closed"}
    /\ probe \in [Kinds -> {"off", "waiting", "sending", "ended"}]
    /\ serving \in [Kinds -> {"off", "poll", "asking"}]
    /\ orphan \in {"off", "waiting", "ended"}

Placed == place \in Places /\ BidiPlaced /\ ProbeIsOver /\ UniPlaced

Browser == main = "wt" => client = "wt"

ConnInv == Flags /\ Typed /\ Placed /\ Browser

\* The context ends or the connection dies.
Shaken ==
    /\ probeOver' \in BOOLEAN /\ alive' \in BOOLEAN
    /\ UNCHANGED <<client, main, place, probe, serving, orphan>>

ConnMove == ConnStep \/ Dispatch \/ Shaken

LEMMA FlagsKept == ASSUME Flags, ConnMove \/ UNCHANGED connVars PROVE Flags'
<1> USE DEF Flags
<1>1. ASSUME NEW k \in Kinds, Open(k) PROVE Flags'
  BY <1>1, Zenon DEF Open
<1>2. ASSUME NEW k \in Kinds, ProbeAccepts(k) PROVE Flags'
  BY <1>2, Zenon DEF ProbeAccepts
<1>3. ASSUME NEW k \in Kinds, ProbeSends(k) PROVE Flags'
  BY <1>3, Zenon DEF ProbeSends
<1>4. ASSUME NEW k \in Kinds, ProbeFails(k) PROVE Flags'
  BY <1>4, Zenon DEF ProbeFails
<1>5. ASSUME NEW k \in Kinds, ServePoll(k) PROVE Flags'
  BY <1>5, Zenon DEF ServePoll
<1>6. ASSUME NEW k \in Kinds, ServeAsked(k) PROVE Flags'
  BY <1>6, Zenon DEF ServeAsked
<1>7. CASE ProbeExpires
  BY <1>7, Zenon DEF ProbeExpires
<1>8. CASE UniFirst
  BY <1>8, Zenon DEF UniFirst, ToWebTransport
<1>9. CASE BidiFirst
  BY <1>9, Zenon DEF BidiFirst
<1>10. CASE ProbeTimeout
  BY <1>10, Zenon DEF ProbeTimeout, CloseConn
<1>11. CASE PeekFails
  BY <1>11, Zenon DEF PeekFails, Unusable, CloseConn
<1>12. CASE AcceptNext
  BY <1>12, Zenon DEF AcceptNext
<1>13. CASE AcceptFails
  BY <1>13, Zenon DEF AcceptFails, Unusable, CloseConn
<1>14. CASE PeekReads
  BY <1>14, Zenon DEF PeekReads, ToWebTransport, ToRaw, CloseConn
<1>15. CASE ControlWaitEnds
  BY <1>15, Zenon DEF ControlWaitEnds, ToWebTransport, ToRaw, CloseConn
<1>16. CASE WebTransportEnds
  BY <1>16, Zenon DEF WebTransportEnds, CloseConn
<1>17. CASE RawAccept
  BY <1>17, Zenon DEF RawAccept
<1>18. CASE RawEnds
  BY <1>18, Zenon DEF RawEnds, CloseConn
<1>19. CASE OrphanDrained
  BY <1>19, Zenon DEF OrphanDrained
<1>20. CASE Dispatch
  BY <1>20, Zenon DEF Dispatch
<1>21. CASE Shaken
  BY <1>21, Zenon DEF Shaken
<1>22. CASE UNCHANGED connVars
  BY <1>22, Zenon DEF connVars
<1>q. QED
  BY <1>1, <1>2, <1>3, <1>4, <1>5, <1>6, <1>7, <1>8, <1>9, <1>10, <1>11,
     <1>12, <1>13, <1>14, <1>15, <1>16, <1>17, <1>18, <1>19, <1>20, <1>21, <1>22
     DEF ConnMove, ConnStep, ProbeStep, MainStep

LEMMA TypedKept == ASSUME Typed, ConnMove \/ UNCHANGED connVars PROVE Typed'
<1> USE DEF Typed
<1>1. ASSUME NEW k \in Kinds, Open(k) PROVE Typed'
  BY <1>1 DEF Open
<1>2. ASSUME NEW k \in Kinds, ProbeAccepts(k) PROVE Typed'
  BY <1>2 DEF ProbeAccepts
<1>3. ASSUME NEW k \in Kinds, ProbeSends(k) PROVE Typed'
  BY <1>3 DEF ProbeSends
<1>4. ASSUME NEW k \in Kinds, ProbeFails(k) PROVE Typed'
  BY <1>4 DEF ProbeFails
<1>5. ASSUME NEW k \in Kinds, ServePoll(k) PROVE Typed'
  BY <1>5 DEF ServePoll
<1>6. ASSUME NEW k \in Kinds, ServeAsked(k) PROVE Typed'
  BY <1>6 DEF ServeAsked
<1>7. CASE ProbeExpires
  BY <1>7 DEF ProbeExpires
<1>8. CASE UniFirst
  BY <1>8 DEF UniFirst, ToWebTransport
<1>9. CASE BidiFirst
  BY <1>9 DEF BidiFirst
<1>10. CASE ProbeTimeout
  BY <1>10 DEF ProbeTimeout, CloseConn
<1>11. CASE PeekFails
  BY <1>11 DEF PeekFails, Unusable, CloseConn
<1>12. CASE AcceptNext
  BY <1>12 DEF AcceptNext
<1>13. CASE AcceptFails
  BY <1>13 DEF AcceptFails, Unusable, CloseConn
<1>14. CASE PeekReads
  BY <1>14 DEF PeekReads, ToWebTransport, ToRaw, CloseConn
<1>15. CASE ControlWaitEnds
  BY <1>15 DEF ControlWaitEnds, ToWebTransport, ToRaw, CloseConn
<1>16. CASE WebTransportEnds
  BY <1>16 DEF WebTransportEnds, CloseConn
<1>17. CASE RawAccept
  BY <1>17 DEF RawAccept
<1>18. CASE RawEnds
  BY <1>18 DEF RawEnds, CloseConn
<1>19. CASE OrphanDrained
  BY <1>19 DEF OrphanDrained
<1>20. CASE Dispatch
  BY <1>20 DEF Dispatch
<1>21. CASE Shaken
  BY <1>21 DEF Shaken
<1>22. CASE UNCHANGED connVars
  BY <1>22 DEF connVars
<1>q. QED
  BY <1>1, <1>2, <1>3, <1>4, <1>5, <1>6, <1>7, <1>8, <1>9, <1>10, <1>11,
     <1>12, <1>13, <1>14, <1>15, <1>16, <1>17, <1>18, <1>19, <1>20, <1>21, <1>22
     DEF ConnMove, ConnStep, ProbeStep, MainStep

LEMMA PlacedKept == ASSUME Typed, Placed, ConnMove \/ UNCHANGED connVars PROVE Placed'
<1>s. /\ "queued" \in Spots /\ "probe" \in Spots /\ "chan" \in Spots /\ "held" \in Spots
      /\ "buffered" \in Spots /\ "served" \in Spots /\ "closed" \in Spots
  BY DEF Spots
<1>p. place \in Places
  BY DEF Placed
<1> USE DEF Placed, BidiPlaced, ProbeIsOver, UniPlaced, Typed
<1>1. ASSUME NEW k \in Kinds, Open(k) PROVE Placed'
  <2>1. PICK s \in Ids : place' = Put(place, k, s, "queued")
    BY <1>1, Zenon DEF Open, IsFirst, At, Put
  <2>2. /\ place' \in Places
        /\ \A h \in Kinds, i \in Ids :
               place'[h][i] = IF h = k /\ i = s THEN "queued" ELSE place[h][i]
    <3> HIDE DEF Placed, BidiPlaced, ProbeIsOver, UniPlaced, Typed
    <3>1. "queued" \in Spots
      BY DEF Spots
    <3>2. Put(place, k, s, "queued") \in Places
      BY <1>p, <3>1, PutIs
    <3>3. \A h \in Kinds, i \in Ids :
               Put(place, k, s, "queued")[h][i] = IF h = k /\ i = s THEN "queued" ELSE place[h][i]
      BY <1>p, <3>1, PutIs
    <3>4. QED
      BY <2>1, <3>2, <3>3
  <2>3. QED
    BY <1>1, <2>2 DEF Open
<1>2. ASSUME NEW k \in Kinds, ProbeAccepts(k) PROVE Placed'
  <2>1. PICK s \in Ids : place[k][s] = "queued" /\ place' = Put(place, k, s, "probe")
    BY <1>2, Zenon DEF ProbeAccepts, IsFirst, At, Put
  <2>2. /\ place' \in Places
        /\ \A h \in Kinds, i \in Ids :
               place'[h][i] = IF h = k /\ i = s THEN "probe" ELSE place[h][i]
    <3> HIDE DEF Placed, BidiPlaced, ProbeIsOver, UniPlaced, Typed
    <3>1. "probe" \in Spots
      BY DEF Spots
    <3>2. Put(place, k, s, "probe") \in Places
      BY <1>p, <3>1, PutIs
    <3>3. \A h \in Kinds, i \in Ids :
               Put(place, k, s, "probe")[h][i] = IF h = k /\ i = s THEN "probe" ELSE place[h][i]
      BY <1>p, <3>1, PutIs
    <3>4. QED
      BY <2>1, <3>2, <3>3
  <2>3. QED
    BY <1>2, <2>1, <2>2 DEF ProbeAccepts
<1>3. ASSUME NEW k \in Kinds, ProbeSends(k) PROVE Placed'
  <2>1. place' = Moved(place, k, "probe", "chan")
    BY <1>3, Zenon DEF ProbeSends
  <2>2. /\ place' \in Places
        /\ \A h \in Kinds, i \in Ids :
               place'[h][i] = IF h = k /\ place[h][i] = "probe" THEN "chan" ELSE place[h][i]
    BY <1>p, <1>s, <2>1, MovedIs
  <2>3. QED
    BY <1>3, <2>2 DEF ProbeSends, At
<1>4. ASSUME NEW k \in Kinds, ProbeFails(k) PROVE Placed'
  BY <1>4 DEF ProbeFails
<1>5. ASSUME NEW k \in Kinds, ServePoll(k) PROVE Placed'
  <2>m. main = "wt" /\ UNCHANGED <<client, main, probe>>
    BY <1>5 DEF ServePoll
  <2>1. CASE \E s \in Ids : place[k][s] = "buffered" /\ place' = Put(place, k, s, "served")
    <3>1. PICK s \in Ids : place[k][s] = "buffered" /\ place' = Put(place, k, s, "served")
      BY <2>1
    <3>2. /\ place' \in Places
          /\ \A h \in Kinds, i \in Ids :
                 place'[h][i] = IF h = k /\ i = s THEN "served" ELSE place[h][i]
      <4> HIDE DEF Placed, BidiPlaced, ProbeIsOver, UniPlaced, Typed
      <4>1. "served" \in Spots
        BY DEF Spots
      <4>2. Put(place, k, s, "served") \in Places
        BY <1>p, <4>1, PutIs
      <4>3. \A h \in Kinds, i \in Ids :
                 Put(place, k, s, "served")[h][i] = IF h = k /\ i = s THEN "served" ELSE place[h][i]
        BY <1>p, <4>1, PutIs
      <4>4. QED
        BY <3>1, <4>2, <4>3
    <3>3. QED
      BY <2>m, <3>1, <3>2
  <2>2. CASE place' = Moved(place, k, "chan", "served")
    <3>1. /\ place' \in Places
          /\ \A h \in Kinds, i \in Ids :
                 place'[h][i] = IF h = k /\ place[h][i] = "chan" THEN "served" ELSE place[h][i]
      BY <1>p, <1>s, <2>2, MovedIs
    <3>2. QED
      BY <2>m, <3>1
  <2>3. CASE UNCHANGED place
    BY <2>m, <2>3
  <2>4. QED
    BY <1>5, <2>1, <2>2, <2>3, Zenon DEF ServePoll, IsFirst, At, Put
<1>6. ASSUME NEW k \in Kinds, ServeAsked(k) PROVE Placed'
  <2>1. PICK s \in Ids : place[k][s] = "queued" /\ place' = Put(place, k, s, "served")
    BY <1>6, Zenon DEF ServeAsked, IsFirst, At, Put
  <2>2. /\ place' \in Places
        /\ \A h \in Kinds, i \in Ids :
               place'[h][i] = IF h = k /\ i = s THEN "served" ELSE place[h][i]
    <3> HIDE DEF Placed, BidiPlaced, ProbeIsOver, UniPlaced, Typed
    <3>1. "served" \in Spots
      BY DEF Spots
    <3>2. Put(place, k, s, "served") \in Places
      BY <1>p, <3>1, PutIs
    <3>3. \A h \in Kinds, i \in Ids :
               Put(place, k, s, "served")[h][i] = IF h = k /\ i = s THEN "served" ELSE place[h][i]
      BY <1>p, <3>1, PutIs
    <3>4. QED
      BY <2>1, <3>2, <3>3
  <2>3. QED
    BY <1>6, <2>1, <2>2 DEF ServeAsked
<1>7. CASE ProbeExpires
  BY <1>7 DEF ProbeExpires
<1>8. CASE UniFirst
  <2> DEFINE p1 == Moved(place, "uni", "chan", "buffered")
           p2 == Moved(p1, "bidi", "held", "buffered")
  <2>1. place' = Moved(p2, "uni", "held", "buffered")
    BY <1>8, Zenon DEF UniFirst, ToWebTransport
  <2>2. /\ p1 \in Places
        /\ \A h \in Kinds, i \in Ids :
               p1[h][i] = IF h = "uni" /\ place[h][i] = "chan" THEN "buffered" ELSE place[h][i]
    BY <1>p, <1>s, MovedIs
  <2> HIDE DEF p1
  <2>3. /\ p2 \in Places
        /\ \A h \in Kinds, i \in Ids :
               p2[h][i] = IF h = "bidi" /\ p1[h][i] = "held" THEN "buffered" ELSE p1[h][i]
    BY <2>2, <1>s, MovedIs
  <2> HIDE DEF p2
  <2>4. /\ place' \in Places
        /\ \A h \in Kinds, i \in Ids :
               place'[h][i] = IF h = "uni" /\ p2[h][i] = "held" THEN "buffered" ELSE p2[h][i]
    BY <2>3, <1>s, <2>1, MovedIs
  <2>5. QED
    BY <1>8, <2>2, <2>3, <2>4 DEF UniFirst, ToWebTransport, At
<1>9. CASE BidiFirst
  <2>m. /\ main = "probing" /\ main' = "peek" /\ UNCHANGED <<client, probe>>
        /\ \E i \in Ids : place["bidi"][i] = "chan"
    BY <1>9 DEF BidiFirst, At
  <2>1. place' = Moved(place, "bidi", "chan", "held")
    BY <1>9, Zenon DEF BidiFirst
  <2>2. /\ place' \in Places
        /\ \A h \in Kinds, i \in Ids :
               place'[h][i] = IF h = "bidi" /\ place[h][i] = "chan" THEN "held" ELSE place[h][i]
    BY <1>p, <1>s, <2>1, MovedIs
  <2>3. QED
    BY <2>m, <2>2
<1>10. CASE ProbeTimeout
  <2> DEFINE p1 == Moved(place, "bidi", "chan", "closed")
  <2>1. place' = Moved(p1, "uni", "chan", "closed")
    BY <1>10, Zenon DEF ProbeTimeout, CloseConn
  <2>2. /\ p1 \in Places
        /\ \A h \in Kinds, i \in Ids :
               p1[h][i] = IF h = "bidi" /\ place[h][i] = "chan" THEN "closed" ELSE place[h][i]
    BY <1>p, <1>s, MovedIs
  <2> HIDE DEF p1
  <2>3. /\ place' \in Places
        /\ \A h \in Kinds, i \in Ids :
               place'[h][i] = IF h = "uni" /\ p1[h][i] = "chan" THEN "closed" ELSE p1[h][i]
    BY <2>2, <1>s, <2>1, MovedIs
  <2>4. QED
    BY <1>10, <2>2, <2>3 DEF ProbeTimeout, CloseConn, At
<1>11. CASE PeekFails
  <2> DEFINE pl == Drained
  <2>p. /\ pl \in Places
        /\ \A h \in Kinds, i \in Ids :
               pl[h][i] = IF h = "uni" /\ place[h][i] = "chan" THEN "held" ELSE place[h][i]
    BY <1>p, <1>s, MovedIs DEF Drained
  <2> HIDE DEF pl
  <2> DEFINE px == Moved(pl, "bidi", "held", "closed")
  <2>1. main = "peek"
    BY <1>11 DEF PeekFails
  <2>2. /\ px \in Places
        /\ \A h \in Kinds, i \in Ids :
               px[h][i] = IF h = "bidi" /\ pl[h][i] = "held" THEN "closed" ELSE pl[h][i]
    BY <2>p, <1>s, MovedIs
  <2> HIDE DEF px
  <2>3. CASE Unusable(px)
    <3>1. /\ place' = Moved(px, "uni", "held", "closed") /\ main' = "closed"
          /\ UNCHANGED <<client, probe>>
      BY <2>3 DEF Unusable, CloseConn
    <3>2. /\ place' \in Places
          /\ \A h \in Kinds, i \in Ids :
                 place'[h][i] = IF h = "uni" /\ px[h][i] = "held" THEN "closed" ELSE px[h][i]
      BY <1>s, <2>2, <3>1, MovedIs
    <3>3. QED
      BY <2>p, <2>1, <2>2, <3>1, <3>2
  <2>4. CASE main' = "accepting" /\ place' = px /\ UNCHANGED <<client, probe>>
    BY <2>p, <2>1, <2>2, <2>4
  <2>5. QED
    BY <1>11, <2>3, <2>4, Zenon DEF PeekFails, pl, px
<1>12. CASE AcceptNext
  <2>1. PICK s \in Ids : place["bidi"][s] = "queued" /\ place' = Put(place, "bidi", s, "held")
    BY <1>12, Zenon DEF AcceptNext, IsFirst, At, Put
  <2>2. /\ place' \in Places
        /\ \A h \in Kinds, i \in Ids :
               place'[h][i] = IF h = "bidi" /\ i = s THEN "held" ELSE place[h][i]
    <3> HIDE DEF Placed, BidiPlaced, ProbeIsOver, UniPlaced, Typed
    <3>1. "held" \in Spots
      BY DEF Spots
    <3>2. Put(place, "bidi", s, "held") \in Places
      BY <1>p, <3>1, PutIs
    <3>3. \A h \in Kinds, i \in Ids :
               Put(place, "bidi", s, "held")[h][i] = IF h = "bidi" /\ i = s THEN "held" ELSE place[h][i]
      BY <1>p, <3>1, PutIs
    <3>4. QED
      BY <2>1, <3>2, <3>3
  <2>3. QED
    BY <1>12, <2>1, <2>2 DEF AcceptNext
<1>13. CASE AcceptFails
  <2>1. main = "accepting"
    BY <1>13 DEF AcceptFails
  <2>2. CASE Unusable(place)
    <3>1. /\ place' = Moved(place, "uni", "held", "closed") /\ main' = "closed"
          /\ UNCHANGED <<client, probe>>
      BY <2>2 DEF Unusable, CloseConn
    <3>2. /\ place' \in Places
          /\ \A h \in Kinds, i \in Ids :
                 place'[h][i] = IF h = "uni" /\ place[h][i] = "held" THEN "closed" ELSE place[h][i]
      BY <1>p, <1>s, <3>1, MovedIs
    <3>3. QED
      BY <2>1, <3>1, <3>2
  <2>3. CASE \E s \in Ids : Unusable(Put(place, "bidi", s, "closed"))
    <3>0. PICK s \in Ids : Unusable(Put(place, "bidi", s, "closed"))
      BY <2>3
    <3> DEFINE px == Put(place, "bidi", s, "closed")
    <3>p. /\ px \in Places
          /\ \A h \in Kinds, i \in Ids :
                 px[h][i] = IF h = "bidi" /\ i = s THEN "closed" ELSE place[h][i]
      <4> HIDE DEF Placed, BidiPlaced, ProbeIsOver, UniPlaced, Typed
      <4>1. "closed" \in Spots
        BY DEF Spots
      <4>2. Put(place, "bidi", s, "closed") \in Places
        BY <1>p, <4>1, PutIs
      <4>3. \A h \in Kinds, i \in Ids :
                 Put(place, "bidi", s, "closed")[h][i] = IF h = "bidi" /\ i = s THEN "closed" ELSE place[h][i]
        BY <1>p, <4>1, PutIs
      <4>4. QED
        BY <3>0, <4>2, <4>3
    <3>u. Unusable(px)
      BY <3>0
    <3> HIDE DEF px
    <3>1. /\ place' = Moved(px, "uni", "held", "closed") /\ main' = "closed"
          /\ UNCHANGED <<client, probe>>
      BY <3>u DEF Unusable, CloseConn
    <3>2. /\ place' \in Places
          /\ \A h \in Kinds, i \in Ids :
                 place'[h][i] = IF h = "uni" /\ px[h][i] = "held" THEN "closed" ELSE px[h][i]
      BY <1>s, <3>p, <3>1, MovedIs
    <3>3. QED
      BY <2>1, <3>p, <3>1, <3>2
  <2>4. QED
    BY <1>13, <2>2, <2>3, Zenon DEF AcceptFails, Put
<1>14. CASE PeekReads
  <2> DEFINE pl == Drained
  <2>p. /\ pl \in Places
        /\ \A h \in Kinds, i \in Ids :
               pl[h][i] = IF h = "uni" /\ place[h][i] = "chan" THEN "held" ELSE place[h][i]
    BY <1>p, <1>s, MovedIs DEF Drained
  <2> HIDE DEF pl
  <2>1. main = "peek" /\ probe["bidi"] = "ended"
    BY <1>14 DEF PeekReads
  <2>2. CASE ToWebTransport(pl)
    <3> DEFINE w == Moved(pl, "bidi", "held", "buffered")
    <3>1. /\ main' = "wt" /\ place' = Moved(w, "uni", "held", "buffered")
          /\ UNCHANGED <<client, probe>>
      BY <2>2, Zenon DEF ToWebTransport
    <3>2. /\ w \in Places
          /\ \A h \in Kinds, i \in Ids :
                 w[h][i] = IF h = "bidi" /\ pl[h][i] = "held" THEN "buffered" ELSE pl[h][i]
      BY <2>p, <1>s, MovedIs
    <3> HIDE DEF w
    <3>3. /\ place' \in Places
          /\ \A h \in Kinds, i \in Ids :
                 place'[h][i] = IF h = "uni" /\ w[h][i] = "held" THEN "buffered" ELSE w[h][i]
      BY <1>s, <3>1, <3>2, MovedIs
    <3>4. QED
      BY <2>p, <2>1, <3>1, <3>2, <3>3
  <2>3. CASE /\ ~(\E i \in Ids : pl["uni"][i] = "held")
             /\ main' = "control" /\ place' = pl /\ UNCHANGED <<client, probe>>
    BY <2>p, <2>1, <2>3
  <2>4. CASE ToRaw(pl)
    <3>1. CASE main' = "raw" /\ place' = Moved(pl, "bidi", "held", "served") /\ UNCHANGED <<client, probe>>
      <4>1. /\ place' \in Places
            /\ \A h \in Kinds, i \in Ids :
                   place'[h][i] = IF h = "bidi" /\ pl[h][i] = "held" THEN "served" ELSE pl[h][i]
        BY <1>p, <2>p, <1>s, <3>1, MovedIs
      <4>2. QED
        BY <2>p, <2>1, <3>1, <4>1
    <3>2. CASE CloseConn(Moved(pl, "bidi", "held", "closed"))
      <4>1. /\ place' \in Places
            /\ \A h \in Kinds, i \in Ids :
                   place'[h][i] = IF h = "bidi" /\ pl[h][i] = "held" THEN "closed" ELSE pl[h][i]
        BY <1>p, <2>p, <1>s, <3>2, MovedIs DEF CloseConn
      <4>2. QED
        BY <2>p, <2>1, <3>2, <4>1 DEF CloseConn
    <3>3. QED
      BY <2>4, <3>1, <3>2, Zenon DEF ToRaw
  <2>5. QED
    BY <1>14, <2>2, <2>3, <2>4, Zenon DEF PeekReads, pl
<1>15. CASE ControlWaitEnds
  <2> DEFINE pl == Drained
  <2>p. /\ pl \in Places
        /\ \A h \in Kinds, i \in Ids :
               pl[h][i] = IF h = "uni" /\ place[h][i] = "chan" THEN "held" ELSE place[h][i]
    BY <1>p, <1>s, MovedIs DEF Drained
  <2> HIDE DEF pl
  <2>1. main = "control" /\ probe["bidi"] = "ended"
    BY <1>15 DEF ControlWaitEnds
  <2>2. CASE ToWebTransport(pl)
    <3> DEFINE w == Moved(pl, "bidi", "held", "buffered")
    <3>1. /\ main' = "wt" /\ place' = Moved(w, "uni", "held", "buffered")
          /\ UNCHANGED <<client, probe>>
      BY <2>2, Zenon DEF ToWebTransport
    <3>2. /\ w \in Places
          /\ \A h \in Kinds, i \in Ids :
                 w[h][i] = IF h = "bidi" /\ pl[h][i] = "held" THEN "buffered" ELSE pl[h][i]
      BY <2>p, <1>s, MovedIs
    <3> HIDE DEF w
    <3>3. /\ place' \in Places
          /\ \A h \in Kinds, i \in Ids :
                 place'[h][i] = IF h = "uni" /\ w[h][i] = "held" THEN "buffered" ELSE w[h][i]
      BY <1>s, <3>1, <3>2, MovedIs
    <3>4. QED
      BY <2>p, <2>1, <3>1, <3>2, <3>3
  <2>3. CASE ToRaw(place)
    <3>1. CASE main' = "raw" /\ place' = Moved(place, "bidi", "held", "served") /\ UNCHANGED <<client, probe>>
      <4>1. /\ place' \in Places
            /\ \A h \in Kinds, i \in Ids :
                   place'[h][i] = IF h = "bidi" /\ place[h][i] = "held" THEN "served" ELSE place[h][i]
        BY <1>p, <2>p, <1>s, <3>1, MovedIs
      <4>2. QED
        BY <2>p, <2>1, <3>1, <4>1
    <3>2. CASE CloseConn(Moved(place, "bidi", "held", "closed"))
      <4>1. /\ place' \in Places
            /\ \A h \in Kinds, i \in Ids :
                   place'[h][i] = IF h = "bidi" /\ place[h][i] = "held" THEN "closed" ELSE place[h][i]
        BY <1>p, <2>p, <1>s, <3>2, MovedIs DEF CloseConn
      <4>2. QED
        BY <2>p, <2>1, <3>2, <4>1 DEF CloseConn
    <3>3. QED
      BY <2>3, <3>1, <3>2, Zenon DEF ToRaw
  <2>4. QED
    BY <1>15, <2>2, <2>3, Zenon DEF ControlWaitEnds, pl
<1>16. CASE WebTransportEnds
  <2> DEFINE f(k) == [i \in Ids |-> IF place[k][i] \in {"buffered", "chan"} THEN "closed"
                                    ELSE place[k][i]]
  <2>1. /\ place' = [k \in Kinds |-> f(k)]
        /\ main = "wt" /\ main' = "closed" /\ UNCHANGED <<client, probe>>
    BY <1>16, Zenon DEF WebTransportEnds, CloseConn
  <2>2. \A k \in Kinds : /\ f(k) \in [Ids -> Spots]
                         /\ \A i \in Ids : f(k)[i] = IF place[k][i] \in {"buffered", "chan"}
                                                     THEN "closed" ELSE place[k][i]
    BY <1>p, <1>s DEF Places
  <2> HIDE DEF f
  <2>3. /\ place' \in Places
        /\ \A h \in Kinds, i \in Ids :
               place'[h][i] = IF place[h][i] \in {"buffered", "chan"} THEN "closed"
                              ELSE place[h][i]
    BY <2>1, <2>2 DEF Places
  <2>4. QED
    BY <2>1, <2>3
<1>17. CASE RawAccept
  <2>1. /\ main = "raw" /\ UNCHANGED <<client, main, probe>>
        /\ \E s \in Ids, q \in {"served", "closed"} : place' = Put(place, "bidi", s, q)
    BY <1>17, Zenon DEF RawAccept, Put
  <2>2. PICK s \in Ids, q \in {"served", "closed"} : place' = Put(place, "bidi", s, q)
    BY <2>1
  <2>3. /\ place' \in Places
        /\ \A h \in Kinds, i \in Ids :
               place'[h][i] = IF h = "bidi" /\ i = s THEN q ELSE place[h][i]
    <3> HIDE DEF Placed, BidiPlaced, ProbeIsOver, UniPlaced, Typed
    <3>1. q \in Spots
      BY DEF Spots
    <3>2. Put(place, "bidi", s, q) \in Places
      BY <1>p, <3>1, PutIs
    <3>3. \A h \in Kinds, i \in Ids :
               Put(place, "bidi", s, q)[h][i] = IF h = "bidi" /\ i = s THEN q ELSE place[h][i]
      BY <1>p, <3>1, PutIs
    <3>4. QED
      BY <2>2, <3>2, <3>3
  <2>4. QED
    BY <2>1, <2>3
<1>18. CASE RawEnds
  BY <1>18 DEF RawEnds, CloseConn
<1>19. CASE OrphanDrained
  <2>1. place' = Moved(place, "uni", "chan", "closed")
    BY <1>19, Zenon DEF OrphanDrained
  <2>2. /\ place' \in Places
        /\ \A h \in Kinds, i \in Ids :
               place'[h][i] = IF h = "uni" /\ place[h][i] = "chan" THEN "closed" ELSE place[h][i]
    BY <1>p, <1>s, <2>1, MovedIs
  <2>3. QED
    BY <1>19, <2>2 DEF OrphanDrained, At
<1>20. CASE Dispatch
  BY <1>20 DEF Dispatch
<1>21. CASE Shaken
  BY <1>21 DEF Shaken
<1>22. CASE UNCHANGED connVars
  BY <1>22 DEF connVars
<1>q. QED
  BY <1>1, <1>2, <1>3, <1>4, <1>5, <1>6, <1>7, <1>8, <1>9, <1>10, <1>11,
     <1>12, <1>13, <1>14, <1>15, <1>16, <1>17, <1>18, <1>19, <1>20, <1>21, <1>22
     DEF ConnMove, ConnStep, ProbeStep, MainStep

\* What a step may make of the kind of the connection.
Choice ==
    /\ client' = client
    /\ client = "raw" => main' # "wt"
    /\ client = "wt" /\ main # "raw" /\ main' = "raw" =>
           At("uni", "chan") = {} /\ At("uni", "held") = {}

LEMMA Decision ==
    ASSUME Typed, Placed, Browser, ConnMove \/ UNCHANGED connVars
    PROVE  Choice
<1>u. client = "raw" => \A i \in Ids : place["uni"][i] = "none"
  BY DEF Placed, UniPlaced
<1>d. \A i \in Ids : Drained["uni"][i] =
          IF place["uni"][i] = "chan" THEN "held" ELSE place["uni"][i]
  <2>1. place \in Places /\ "uni" \in Kinds /\ "held" \in Spots
    BY DEF Placed, Spots
  <2>2. QED
    BY <2>1, MovedIs DEF Drained
<1> USE DEF Choice, Browser, Typed
<1>1. ASSUME NEW k \in Kinds, Open(k) PROVE Choice
  BY <1>1 DEF Open
<1>2. ASSUME NEW k \in Kinds, ProbeAccepts(k) PROVE Choice
  BY <1>2 DEF ProbeAccepts
<1>3. ASSUME NEW k \in Kinds, ProbeSends(k) PROVE Choice
  BY <1>3 DEF ProbeSends
<1>4. ASSUME NEW k \in Kinds, ProbeFails(k) PROVE Choice
  BY <1>4 DEF ProbeFails
<1>5. ASSUME NEW k \in Kinds, ServePoll(k) PROVE Choice
  BY <1>5 DEF ServePoll
<1>6. ASSUME NEW k \in Kinds, ServeAsked(k) PROVE Choice
  BY <1>6 DEF ServeAsked
<1>7. CASE ProbeExpires
  BY <1>7 DEF ProbeExpires
<1>8. CASE UniFirst
  <2>1. client # "raw"
    BY <1>u, <1>8 DEF UniFirst, At
  <2>2. QED
    BY <1>8, <2>1 DEF UniFirst, ToWebTransport
<1>9. CASE BidiFirst
  BY <1>9 DEF BidiFirst
<1>10. CASE ProbeTimeout
  BY <1>10 DEF ProbeTimeout, CloseConn
<1>11. CASE PeekFails
  BY <1>11 DEF PeekFails, Unusable, CloseConn
<1>12. CASE AcceptNext
  BY <1>12 DEF AcceptNext
<1>13. CASE AcceptFails
  BY <1>13 DEF AcceptFails, Unusable, CloseConn
<1>14. CASE PeekReads
  <2>1. CASE \E i \in Ids : Drained["uni"][i] = "held"
    <3>1. client # "raw"
      BY <1>u, <1>d, <2>1
    <3>2. ToWebTransport(Drained)
      BY <1>14, <2>1, Zenon DEF PeekReads
    <3>3. QED
      BY <3>1, <3>2 DEF ToWebTransport
  <2>2. CASE ~\E i \in Ids : Drained["uni"][i] = "held"
    <3>1. At("uni", "chan") = {} /\ At("uni", "held") = {}
      BY <1>d, <2>2 DEF At
    <3>2. client' = client /\ main' # "wt"
      BY <1>14, <2>2 DEF PeekReads, ToRaw, CloseConn
    <3>3. QED
      BY <3>1, <3>2
  <2>3. QED
    BY <2>1, <2>2
<1>15. CASE ControlWaitEnds
  <2>1. CASE At("uni", "chan") # {}
    <3>1. client # "raw"
      BY <1>u, <2>1 DEF At
    <3>2. ToWebTransport(Drained)
      BY <1>15, <2>1, Zenon DEF ControlWaitEnds
    <3>3. QED
      BY <3>1, <3>2 DEF ToWebTransport
  <2>2. CASE At("uni", "chan") = {}
    <3>1. At("uni", "held") = {}
      BY <1>15 DEF ControlWaitEnds, Placed, UniPlaced, At
    <3>2. client' = client /\ main' # "wt"
      BY <1>15, <2>2 DEF ControlWaitEnds, ToRaw, CloseConn
    <3>3. QED
      BY <2>2, <3>1, <3>2
  <2>3. QED
    BY <2>1, <2>2
<1>16. CASE WebTransportEnds
  BY <1>16 DEF WebTransportEnds, CloseConn
<1>17. CASE RawAccept
  BY <1>17 DEF RawAccept
<1>18. CASE RawEnds
  BY <1>18 DEF RawEnds, CloseConn
<1>19. CASE OrphanDrained
  BY <1>19 DEF OrphanDrained
<1>20. CASE Dispatch
  BY <1>20 DEF Dispatch
<1>21. CASE Shaken
  BY <1>21 DEF Shaken
<1>22. CASE UNCHANGED connVars
  BY <1>22 DEF connVars
<1>q. QED
  BY <1>1, <1>2, <1>3, <1>4, <1>5, <1>6, <1>7, <1>8, <1>9, <1>10, <1>11,
     <1>12, <1>13, <1>14, <1>15, <1>16, <1>17, <1>18, <1>19, <1>20, <1>21, <1>22
     DEF ConnMove, ConnStep, ProbeStep, MainStep

LEMMA ConnKept == ASSUME ConnInv, ConnMove \/ UNCHANGED connVars PROVE ConnInv'
<1>1. Flags' /\ Typed' /\ Placed' /\ Choice
  BY FlagsKept, TypedKept, PlacedKept, Decision DEF ConnInv
<1>2. Browser'
  BY <1>1 DEF Choice, Browser, Typed, ConnInv
<1>3. QED
  BY <1>1, <1>2 DEF ConnInv
-----------------------------------------------------------------------------
(* The server *)

IInv == LifeInv /\ ConnInv

LEMMA InitInv == Init => IInv
<1> SUFFICES ASSUME Init PROVE IInv
  OBVIOUS
<1>1. LifeInv
  BY DEF Init, LifeInit, LifeInv, LifeTypeOK, Unpublished, OpenIsKnown, ClosesAll
<1>2. Flags /\ Typed
  BY DEF Init, ConnInit, Flags, Typed
<1>3. Placed
  <2>1. /\ place = [k \in Kinds |-> [i \in Ids |-> "none"]]
        /\ main = "none" /\ probe = [k \in Kinds |-> "off"]
    BY DEF Init, ConnInit
  <2>2. place \in Places
    BY <2>1 DEF Places, Spots
  <2>3. QED
    BY <2>1, <2>2 DEF Placed, BidiPlaced, ProbeIsOver, UniPlaced
<1>4. QED
  BY <1>1, <1>2, <1>3 DEF IInv, ConnInv, Browser, Init, ConnInit

\* A step of the server is a step of each half, or leaves it alone.
LEMMA Halves ==
    ASSUME IInv, [Next]_vars
    PROVE  /\ LifeMove \/ UNCHANGED lifeVars
           /\ ConnMove \/ UNCHANGED connVars
<1> USE DEF vars, LifeMove, ConnMove
<1>1. CASE LifeStep
  BY <1>1 DEF LifeStep
<1>2. CASE AcceptConn
  BY <1>2 DEF AcceptConn
<1>3. CASE Cancel
  BY <1>3, Zenon DEF Cancel, Shaken, CloseCancels, IInv, ConnInv, Flags
<1>4. CASE Free
  BY <1>4, Zenon DEF Free, Shaken, Dies, IInv, ConnInv, Flags
<1>5. CASE Lost
  BY <1>5, Zenon DEF Lost, Shaken, Dies, IInv, ConnInv, Flags
<1>6. CASE ConnStep /\ UNCHANGED lifeVars
  BY <1>6
<1>7. CASE Terminated \/ UNCHANGED vars
  BY <1>7 DEF Terminated
<1>8. QED
  BY <1>1, <1>2, <1>3, <1>4, <1>5, <1>6, <1>7 DEF Next

LEMMA Invariance == Spec => []IInv
<1>1. ASSUME IInv, [Next]_vars PROVE IInv'
  BY <1>1, Halves, LifeKept, ConnKept DEF IInv
<1>2. QED
  BY <1>1, InitInv, PTL DEF Spec

-----------------------------------------------------------------------------
\* However Close and ListenAndServe interleave, and whichever step of the latter
\* fails: when both have returned, no HTTP server for certificates, no socket, no
\* listener and no transport of this server is open.
THEOREM CloseFreesAll == Spec => []FreedByClose
<1>1. IInv => FreedByClose
  BY DEF IInv, LifeInv, FreedByClose, OpenIsKnown, ClosesAll, LifeTypeOK
<1>2. QED
  BY <1>1, Invariance, PTL

\* However many streams the client opens and in whatever order its probes, its
\* peeks and its harvest go: while a connection is relayed as a raw one, no
\* bidirectional stream it has accepted is left in a probe, in a channel or in a
\* buffer.  Of its unidirectional streams nothing is said.
THEOREM NothingStays == Spec => []NothingHeld
<1>1. IInv => NothingHeld
  BY DEF IInv, ConnInv, NothingHeld, ConnTypeOK, Flags, Typed, Placed, Places, Spots,
         BidiPlaced, ProbeIsOver, At
<1>2. QED
  BY <1>1, Invariance, PTL

\* A raw client is never taken for a browser; and in the step in which a browser
\* is given up as a raw client none of its unidirectional streams lies in the
\* channel or has been taken from it.  One that the probe has accepted and not
\* yet sent, or that is still on its way, comes too late.
THEOREM RightlyClassified == Spec => ClassifiedRight
<1>1. ASSUME IInv, [Next]_vars
      PROVE  [/\ client = "raw" => main' # "wt"
              /\ client = "wt" /\ main # "raw" /\ main' = "raw" =>
                     At("uni", "chan") = {} /\ At("uni", "held") = {}]_connVars
  <2>1. Typed /\ Placed /\ Browser
    BY <1>1 DEF IInv, ConnInv
  <2>2. ConnMove \/ UNCHANGED connVars
    BY <1>1, Halves
  <2>3. QED
    BY <2>1, <2>2, Decision DEF Choice
<1>2. QED
  BY <1>1, Invariance, PTL DEF Spec, ClassifiedRight

-----------------------------------------------------------------------------
(* The relays *)

\* Types: the Boolean variables, and the others but the slots.
FlagsOK ==
    /\ sealed \in [Streams -> BOOLEAN]
    /\ teardown \in [Streams -> BOOLEAN]
    /\ inHand \in [Streams -> [Legs -> BOOLEAN]]

RelayPlaces == {"none", "read", "payload", "write", "writeLast", "exit", "done"}

LegsOK ==
    /\ leg \in [Streams -> [Legs -> RelayPlaces]]
    /\ ended \in [Streams -> [Legs -> {"no", "eof", "normal", "error"}]]

MainOK ==
    /\ handler \in [Streams -> {"none", "refused", "opening", "relay", "grace", "forced", "returned"}]
    /\ relayErr \in [Streams -> {"nil", "error"}]
    /\ result \in [Streams -> {"none", "nil", "error"}]

EndsOK ==
    /\ clientIn \in [Streams -> {"open", "cancelled"}]
    /\ clientOut \in [Streams -> {"open", "fin", "reset"}]
    /\ target \in [Streams -> {"none", "open", "half", "closed"}]

DataOK == LegsOK /\ MainOK /\ EndsOK

\* The slots are those of the admitted streams, who are finitely many.
Slots == slots \in Nat /\ IsFiniteSet(Admitted) /\ SlotsExact

\* Before the dial there are no legs and nothing has ended.
Started ==
    \A s \in Streams : handler[s] \in {"none", "refused", "opening"} =>
        /\ leg[s] = [d \in Legs |-> "none"]
        /\ target[s] = "none"
        /\ handler[s] # "refused" => clientOut[s] = "open"

\* A leg has an end exactly when it has left its loop, and an orderly one only
\* with empty hands.
Ended ==
    \A s \in Streams, d \in Legs :
        /\ ended[s][d] # "no" <=> leg[s][d] \in {"exit", "done"}
        /\ leg[s][d] \in {"none", "read"} \/ ended[s][d] = "eof" => ~inHand[s][d]

\* recordErr misses no error.
Recorded ==
    \A s \in Streams, d \in Legs : ended[s][d] = "error" => relayErr[s] = "error"

RelayInv == FlagsOK /\ DataOK /\ Slots /\ Started /\ Ended /\ Recorded /\ FinIsWhole
        /\ NothingLeftOpen

USE ServerAssumption
USE DEF endVars, legVars, Legs

-----------------------------------------------------------------------------
LEMMA FlagsStep == ASSUME FlagsOK, [RelayNext]_relayVars PROVE FlagsOK'
<1> USE DEF FlagsOK
<1>1. ASSUME NEW s \in Streams, Admit(s) \/ Refuse(s) \/ HandlerStep(s) \/ PayloadRead(s)
      PROVE FlagsOK'
  <2>1. CASE Dialled(s)
    BY <2>1 DEF Dialled
  <2>2. CASE Admit(s) \/ Refuse(s) \/ OpeningFails(s) \/ LegsFinished(s) \/ BeginGrace(s)
             \/ ForceClose(s) \/ Abandon(s) \/ PayloadRead(s)
    BY <2>2 DEF Admit, Refuse, OpeningFails, LegsFinished, BeginGrace, ForceClose, Abandon,
                PayloadRead
  <2>3. QED
    BY <1>1, <2>1, <2>2 DEF HandlerStep
<1>2. ASSUME NEW s \in Streams, NEW d \in Legs, LegExit(s, d) PROVE FlagsOK'
  BY <1>2 DEF LegExit
<1>3. ASSUME NEW s \in Streams, NEW d \in Legs, LegIO(s, d) PROVE FlagsOK'
  <2>1. UNCHANGED <<sealed, teardown>>
    BY <1>3 DEF LegIO, ReadData, ReadEof, WriteDone, LegFails, HandOnEof
  <2>2. \/ UNCHANGED inHand
        \/ \E b \in BOOLEAN : inHand' = [inHand EXCEPT ![s][d] = b]
    BY <1>3 DEF LegIO, ReadData, ReadEof, WriteDone, LegFails, HandOnEof
  <2>3. \A b \in BOOLEAN :
            [inHand EXCEPT ![s][d] = b] \in [Streams -> [Legs -> BOOLEAN]]
    BY Zenon
  <2>4. QED
    BY <2>1, <2>2, <2>3
<1>4. CASE UNCHANGED relayVars
  BY <1>4 DEF relayVars
<1>5. QED
  BY <1>1, <1>2, <1>3, <1>4 DEF RelayNext, RelayTerminated

LEMMA LegsTypes == ASSUME LegsOK, [RelayNext]_relayVars PROVE LegsOK'
<1> USE DEF LegsOK, RelayPlaces
<1>1. ASSUME NEW s \in Streams, NEW d \in Legs, NEW p \in RelayPlaces
      PROVE [leg EXCEPT ![s][d] = p] \in [Streams -> [Legs -> RelayPlaces]]
  OBVIOUS
<1>2. ASSUME NEW s \in Streams, NEW d \in Legs, NEW h \in {"eof", "normal", "error"}
      PROVE [ended EXCEPT ![s][d] = h] \in [Streams -> [Legs -> {"no", "eof", "normal", "error"}]]
  OBVIOUS
<1>3. ASSUME NEW s \in Streams, Admit(s) \/ Refuse(s) \/ HandlerStep(s) PROVE LegsOK'
  BY <1>3 DEF Admit, Refuse, HandlerStep, Dialled, OpeningFails, LegsFinished, BeginGrace,
              ForceClose, Abandon
<1>4. ASSUME NEW s \in Streams, PayloadRead(s) PROVE LegsOK'
  BY <1>1, <1>4 DEF PayloadRead, LegTo
<1>5. ASSUME NEW s \in Streams, NEW d \in Legs, LegExit(s, d) \/ LegIO(s, d) PROVE LegsOK'
  <2>1. \E p \in RelayPlaces : leg' = [leg EXCEPT ![s][d] = p]
    BY <1>5, Zenon DEF LegExit, LegIO, ReadData, ReadEof, WriteDone, LegFails, HandOnEof, LegTo
  <2>2. \/ UNCHANGED ended
        \/ \E h \in {"eof", "normal", "error"} : ended' = [ended EXCEPT ![s][d] = h]
    BY <1>5 DEF LegExit, LegIO, ReadData, ReadEof, WriteDone, LegFails, HandOnEof
  <2>3. leg' \in [Streams -> [Legs -> RelayPlaces]]
    BY <1>1, <2>1
  <2>4. ended' \in [Streams -> [Legs -> {"no", "eof", "normal", "error"}]]
    BY <1>2, <2>2
  <2>5. QED
    BY <2>3, <2>4
<1>6. CASE UNCHANGED relayVars
  BY <1>6 DEF relayVars
<1>7. QED
  BY <1>3, <1>4, <1>5, <1>6 DEF RelayNext, RelayTerminated

LEMMA MainTypes == ASSUME MainOK, [RelayNext]_relayVars PROVE MainOK'
<1> USE DEF MainOK
<1>1. ASSUME NEW s \in Streams, Admit(s) \/ Refuse(s) \/ HandlerStep(s) \/ PayloadRead(s)
      PROVE MainOK'
  BY <1>1 DEF Admit, Refuse, HandlerStep, Dialled, OpeningFails, LegsFinished, BeginGrace,
              ForceClose, Abandon, PayloadRead, Return
<1>2. ASSUME NEW s \in Streams, NEW d \in Legs, LegExit(s, d) \/ LegIO(s, d) PROVE MainOK'
  BY <1>2 DEF LegExit, LegIO, ReadData, ReadEof, WriteDone, LegFails, HandOnEof
<1>3. CASE UNCHANGED relayVars
  BY <1>3 DEF relayVars
<1>4. QED
  BY <1>1, <1>2, <1>3 DEF RelayNext, RelayTerminated

LEMMA EndsTypes == ASSUME EndsOK, [RelayNext]_relayVars PROVE EndsOK'
<1> USE DEF EndsOK
<1>1. ASSUME NEW s \in Streams, Admit(s) \/ Refuse(s) \/ HandlerStep(s) \/ PayloadRead(s)
      PROVE EndsOK'
  BY <1>1 DEF Admit, Refuse, HandlerStep, Dialled, OpeningFails, LegsFinished, BeginGrace,
              ForceClose, Abandon, PayloadRead, Return, CloseClient, CloseTarget
<1>2. ASSUME NEW s \in Streams, NEW d \in Legs, LegExit(s, d) \/ LegIO(s, d) PROVE EndsOK'
  BY <1>2 DEF LegExit, LegIO, ReadData, ReadEof, WriteDone, LegFails, HandOnEof
<1>3. CASE UNCHANGED relayVars
  BY <1>3 DEF relayVars
<1>4. QED
  BY <1>1, <1>2, <1>3 DEF RelayNext, RelayTerminated

-----------------------------------------------------------------------------
\* One stream enters the admitted ones or leaves them, or they stay.
LEMMA SlotsStep == ASSUME DataOK, Slots, [RelayNext]_relayVars PROVE Slots'
<1> USE DEF Slots, SlotsExact
<1>1. ASSUME NEW s \in Streams, Admit(s) PROVE Slots'
  <2>1. s \notin Admitted /\ Admitted' = Admitted \cup {s}
    BY <1>1 DEF Admit, Admitted, DataOK, MainOK
  <2>2. IsFiniteSet(Admitted') /\ Cardinality(Admitted') = Cardinality(Admitted) + 1
    BY <2>1, FS_AddElement
  <2>3. QED
    BY <1>1, <2>2 DEF Admit
<1>2. ASSUME NEW s \in Streams, OpeningFails(s) \/ LegsFinished(s) \/ Abandon(s) PROVE Slots'
  <2>1. s \in Admitted /\ Admitted' = Admitted \ {s} /\ slots' = slots - 1
    BY <1>2 DEF OpeningFails, LegsFinished, Abandon, Return, Admitted, DataOK, MainOK
  <2>2. IsFiniteSet(Admitted') /\ Cardinality(Admitted') = Cardinality(Admitted) - 1
    BY <2>1, FS_RemoveElement
  <2>3. Cardinality(Admitted') \in Nat
    BY <2>2, FS_CardinalityType
  <2>4. QED
    BY <2>1, <2>2, <2>3
<1>3. ASSUME NEW s \in Streams,
             Refuse(s) \/ Dialled(s) \/ BeginGrace(s) \/ ForceClose(s) \/ PayloadRead(s)
      PROVE Slots'
  <2>1. Admitted' = Admitted /\ slots' = slots
    BY <1>3 DEF Refuse, Dialled, BeginGrace, ForceClose, PayloadRead, Admitted, DataOK, MainOK
  <2>2. QED
    BY <2>1
<1>4. ASSUME NEW s \in Streams, NEW d \in Legs, LegExit(s, d) \/ LegIO(s, d) PROVE Slots'
  <2>1. handler' = handler /\ slots' = slots
    BY <1>4 DEF LegExit, LegIO, ReadData, ReadEof, WriteDone, LegFails, HandOnEof
  <2>2. QED
    BY <2>1 DEF Admitted
<1>5. CASE UNCHANGED relayVars
  BY <1>5 DEF relayVars, Admitted
<1>6. QED
  BY <1>1, <1>2, <1>3, <1>4, <1>5 DEF RelayNext, HandlerStep, RelayTerminated

-----------------------------------------------------------------------------
LEMMA StartedStep == ASSUME FlagsOK, DataOK, Started, [RelayNext]_relayVars PROVE Started'
<1> USE DEF Started, DataOK, LegsOK, MainOK, EndsOK
<1>1. ASSUME NEW s \in Streams, Admit(s) \/ Refuse(s) PROVE Started'
  BY <1>1 DEF Admit, Refuse, CloseClient
<1>2. ASSUME NEW s \in Streams, HandlerStep(s) PROVE Started'
  BY <1>2 DEF HandlerStep, Dialled, OpeningFails, LegsFinished, BeginGrace, ForceClose, Abandon,
              Return, CloseClient, CloseTarget
<1>3. ASSUME NEW s \in Streams, PayloadRead(s) PROVE Started'
  <2>1. leg[s]["up"] = "payload" /\ leg' = [leg EXCEPT ![s]["up"] = "write"]
        /\ UNCHANGED <<handler, target, clientOut>>
    BY <1>3 DEF PayloadRead, LegAt, LegTo
  <2>2. handler[s] \notin {"none", "refused", "opening"}
    BY <2>1
  <2>3. QED
    BY <2>1, <2>2
<1>4. ASSUME NEW s \in Streams, NEW d \in Legs, LegExit(s, d) \/ LegIO(s, d) PROVE Started'
  <2>1. handler[s] \notin {"none", "refused", "opening"}
    BY <1>4 DEF LegExit, LegIO, ReadData, ReadEof, WriteDone, LegFails, LegAt
  <2>2. handler' = handler /\ \A t \in Streams \ {s} :
            leg'[t] = leg[t] /\ target'[t] = target[t] /\ clientOut'[t] = clientOut[t]
    BY <1>4 DEF LegExit, LegIO, ReadData, ReadEof, WriteDone, LegFails, LegTo, HandOnEof
  <2>3. QED
    BY <2>1, <2>2
<1>5. CASE UNCHANGED relayVars
  BY <1>5 DEF relayVars
<1>6. QED
  BY <1>1, <1>2, <1>3, <1>4, <1>5 DEF RelayNext, RelayTerminated

\* What a step does to one leg.
LEMMA LegChange ==
    ASSUME FlagsOK, DataOK, NEW s \in Streams, NEW d \in Legs, LegExit(s, d) \/ LegIO(s, d)
    PROVE  /\ leg[s][d] \notin {"none", "done"}
           /\ \A t \in Streams, x \in Legs : t # s \/ x # d =>
                 leg'[t][x] = leg[t][x] /\ ended'[t][x] = ended[t][x] /\ inHand'[t][x] = inHand[t][x]
<1> USE DEF FlagsOK, DataOK, LegsOK
<1>1. leg[s][d] \notin {"none", "done"}
  BY DEF LegExit, LegIO, ReadData, ReadEof, WriteDone, LegFails, LegAt
<1>2. ASSUME NEW t \in Streams, NEW x \in Legs, t # s \/ x # d
      PROVE leg'[t][x] = leg[t][x] /\ ended'[t][x] = ended[t][x] /\ inHand'[t][x] = inHand[t][x]
  BY <1>2 DEF LegExit, LegIO, ReadData, ReadEof, WriteDone, LegFails, LegTo, HandOnEof
<1>3. QED
  BY <1>1, <1>2

LEMMA EndedStep == ASSUME FlagsOK, DataOK, Started, Ended, [RelayNext]_relayVars PROVE Ended'
<1> USE DEF Ended
<1>1. ASSUME NEW s \in Streams, Dialled(s) PROVE Ended'
  BY <1>1 DEF Dialled, Started, DataOK, LegsOK
<1>2. ASSUME NEW s \in Streams, Admit(s) \/ Refuse(s) \/ OpeningFails(s) \/ LegsFinished(s)
                                \/ BeginGrace(s) \/ ForceClose(s) \/ Abandon(s)
      PROVE Ended'
  BY <1>2 DEF Admit, Refuse, OpeningFails, LegsFinished, BeginGrace, ForceClose, Abandon
<1>3. ASSUME NEW s \in Streams, PayloadRead(s) PROVE Ended'
  BY <1>3 DEF PayloadRead, LegAt, LegTo, DataOK, LegsOK
<1>4. ASSUME NEW s \in Streams, NEW d \in Legs, LegExit(s, d) \/ LegIO(s, d) PROVE Ended'
  <2>1. /\ ended'[s][d] # "no" <=> leg'[s][d] \in {"exit", "done"}
        /\ leg'[s][d] \in {"none", "read"} \/ ended'[s][d] = "eof" => ~inHand'[s][d]
    BY <1>4 DEF LegExit, LegIO, ReadData, ReadEof, WriteDone, LegFails, LegAt, LegTo, HandOnEof,
                FlagsOK, DataOK, LegsOK
  <2>2. QED
    BY <1>4, <2>1, LegChange
<1>5. CASE UNCHANGED relayVars
  BY <1>5 DEF relayVars
<1>6. QED
  BY <1>1, <1>2, <1>3, <1>4, <1>5 DEF RelayNext, HandlerStep, RelayTerminated

LEMMA RecordedStep ==
    ASSUME FlagsOK, DataOK, Ended, Recorded, [RelayNext]_relayVars PROVE Recorded'
<1> USE DEF Recorded, DataOK, LegsOK, MainOK
<1>1. ASSUME NEW s \in Streams, Admit(s) \/ Refuse(s) \/ HandlerStep(s) \/ PayloadRead(s)
      PROVE Recorded'
  BY <1>1 DEF Admit, Refuse, HandlerStep, Dialled, OpeningFails, LegsFinished, BeginGrace,
              ForceClose, Abandon, PayloadRead
<1>2. ASSUME NEW s \in Streams, NEW d \in Legs, LegExit(s, d) \/ LegIO(s, d) PROVE Recorded'
  <2>1. ended'[s][d] = "error" => relayErr'[s] = "error"
    BY <1>2 DEF LegExit, LegIO, ReadData, ReadEof, WriteDone, LegFails, HandOnEof
  <2>2. \A t \in Streams : relayErr[t] = "error" => relayErr'[t] = "error"
    BY <1>2 DEF LegExit, LegIO, ReadData, ReadEof, WriteDone, LegFails, HandOnEof
  <2>3. QED
    BY <1>2, <2>1, <2>2, LegChange
<1>3. CASE UNCHANGED relayVars
  BY <1>3 DEF relayVars
<1>4. QED
  BY <1>1, <1>2, <1>3 DEF RelayNext, RelayTerminated

-----------------------------------------------------------------------------
\* Who sends a FIN has ended in order, and a leg that has ended takes no step
\* but its exit.
LEMMA FinStep ==
    ASSUME FlagsOK, DataOK, Ended, Ended', FinIsWhole, [RelayNext]_relayVars PROVE FinIsWhole'
<1> USE DEF FinIsWhole, DataOK, LegsOK, MainOK, EndsOK
<1>1. ASSUME NEW s \in Streams, Admit(s) \/ Refuse(s) \/ PayloadRead(s) PROVE FinIsWhole'
  <2>1. CASE Admit(s)
    BY <2>1 DEF Admit
  <2>2. CASE Refuse(s)
    BY <2>2 DEF Refuse, CloseClient
  <2>3. CASE PayloadRead(s)
    BY <2>3 DEF PayloadRead
  <2>4. QED
    BY <1>1, <2>1, <2>2, <2>3
<1>2. ASSUME NEW s \in Streams, HandlerStep(s) PROVE FinIsWhole'
  <2>1. ended' = ended /\ inHand' = inHand
    BY <1>2 DEF HandlerStep, Dialled, OpeningFails, LegsFinished, BeginGrace, ForceClose, Abandon
  <2>2. \A t \in Streams : handler'[t] # "refused" => handler[t] # "refused"
    BY <1>2 DEF HandlerStep, Dialled, OpeningFails, LegsFinished, BeginGrace, ForceClose, Abandon,
                Return
  <2>3. \A t \in Streams : /\ clientOut'[t] = "fin" => clientOut[t] = "fin"
                           /\ target'[t] = "half" => target[t] = "half"
    BY <1>2 DEF HandlerStep, Dialled, OpeningFails, LegsFinished, BeginGrace, ForceClose, Abandon,
                Return, CloseClient, CloseTarget
  <2>4. QED
    BY <2>1, <2>2, <2>3
<1>3. ASSUME NEW s \in Streams, NEW d \in Legs, LegExit(s, d) \/ LegIO(s, d)
      PROVE FinIsWhole'
  <2>1. handler' = handler
    BY <1>3 DEF LegExit, LegIO, ReadData, ReadEof, WriteDone, LegFails, HandOnEof
  <2>2. \A t \in Streams :
            /\ clientOut'[t] = "fin" => \/ clientOut[t] = "fin"
                                        \/ t = s /\ d = "down" /\ ended'[s]["down"] = "eof"
            /\ target'[t] = "half" => \/ target[t] = "half"
                                      \/ t = s /\ d = "up" /\ ended'[s]["up"] = "eof"
    BY <1>3 DEF LegExit, LegIO, ReadData, ReadEof, WriteDone, LegFails, HandOnEof
  <2>3. ended[s][d] = "eof" => ended'[s][d] = "eof"
    BY <1>3 DEF LegExit, LegIO, ReadData, ReadEof, WriteDone, LegFails, LegAt, Ended
  <2>4. \A t \in Streams, x \in Legs : ended[t][x] = "eof" => ended'[t][x] = "eof"
    BY <1>3, <2>3, LegChange
  <2>5. \A t \in Streams, x \in Legs : ended'[t][x] = "eof" => ~inHand'[t][x]
    BY DEF Ended
  <2>6. QED
    BY <2>1, <2>2, <2>4, <2>5
<1>4. CASE UNCHANGED relayVars
  BY <1>4 DEF relayVars
<1>5. QED
  BY <1>1, <1>2, <1>3, <1>4 DEF RelayNext, RelayTerminated

\* What handler has closed no leg opens again.
LEMMA LeftStep ==
    ASSUME DataOK, Started, NothingLeftOpen, [RelayNext]_relayVars PROVE NothingLeftOpen'
<1> USE DEF NothingLeftOpen, DataOK, MainOK, EndsOK
<1>1. ASSUME NEW s \in Streams, Admit(s) \/ Refuse(s) \/ PayloadRead(s)
      PROVE NothingLeftOpen'
  BY <1>1 DEF Admit, Refuse, PayloadRead, CloseClient, Started
<1>2. ASSUME NEW s \in Streams, HandlerStep(s) PROVE NothingLeftOpen'
  BY <1>2 DEF HandlerStep, Dialled, OpeningFails, LegsFinished, BeginGrace, ForceClose, Abandon,
              Return, CloseClient, CloseTarget
<1>3. ASSUME NEW s \in Streams, NEW d \in Legs, LegExit(s, d) \/ LegIO(s, d)
      PROVE NothingLeftOpen'
  <2>1. handler' = handler /\ clientIn' = clientIn
    BY <1>3 DEF LegExit, LegIO, ReadData, ReadEof, WriteDone, LegFails, HandOnEof
  <2>2. \A t \in Streams : /\ clientOut[t] # "open" => clientOut'[t] = clientOut[t]
                           /\ target[t] # "open" => target'[t] = target[t]
    BY <1>3 DEF LegExit, LegIO, ReadData, ReadEof, WriteDone, LegFails, HandOnEof
  <2>3. QED
    BY <2>1, <2>2
<1>4. CASE UNCHANGED relayVars
  BY <1>4 DEF relayVars
<1>5. QED
  BY <1>1, <1>2, <1>3, <1>4 DEF RelayNext, RelayTerminated

-----------------------------------------------------------------------------
LEMMA RelayInitInv == RelayInit => RelayInv
<1> SUFFICES ASSUME RelayInit PROVE RelayInv
  OBVIOUS
<1>1. FlagsOK /\ DataOK
  BY DEF RelayInit, FlagsOK, DataOK, LegsOK, MainOK, EndsOK, RelayPlaces
<1>2. Slots
  <2>1. Admitted = {}
    BY DEF RelayInit, Admitted
  <2>2. QED
    BY <2>1, FS_EmptySet DEF RelayInit, Slots, SlotsExact
<1>3. Started /\ Ended /\ Recorded /\ FinIsWhole /\ NothingLeftOpen
  BY DEF RelayInit, Started, Ended, Recorded, FinIsWhole, NothingLeftOpen
<1>4. QED
  BY <1>1, <1>2, <1>3 DEF RelayInv

LEMMA StepInv == ASSUME RelayInv, [RelayNext]_relayVars PROVE RelayInv'
<1> USE DEF RelayInv
<1>1. FlagsOK'
  BY FlagsStep
<1>2. DataOK'
  BY LegsTypes, MainTypes, EndsTypes DEF DataOK
<1>3. Slots' /\ Started' /\ Ended' /\ Recorded'
  BY SlotsStep, StartedStep, EndedStep, RecordedStep
<1>4. FinIsWhole' /\ NothingLeftOpen'
  BY <1>3, FinStep, LeftStep
<1>5. QED
  BY <1>1, <1>2, <1>3, <1>4

LEMMA RelayInvariance == RelaySpec => []RelayInv
<1>1. RelayInit => RelayInv
  BY RelayInitInv
<1>2. RelayInv /\ [RelayNext]_relayVars => RelayInv'
  BY StepInv
<1>3. QED
  BY <1>1, <1>2, PTL DEF RelaySpec

\* Type correctness of the relays.
THEOREM TypeCorrect == RelaySpec => []TypeOK
<1>1. RelayInv => TypeOK
  <2>1. ASSUME RelayInv PROVE TypeOK
    <3>1. slots \in Nat /\ FlagsOK /\ LegsOK /\ MainOK /\ EndsOK
      BY <2>1 DEF RelayInv, Slots, DataOK
    <3>2. QED
      BY <3>1 DEF TypeOK, FlagsOK, LegsOK, MainOK, EndsOK, RelayPlaces
  <2>2. QED
    BY <2>1
<1>2. QED
  BY <1>1, RelayInvariance, PTL

\* takeStreamSlot keeps its limit, and every way out of HandleBrookStream gives
\* back exactly one slot.
THEOREM SlotsAreExact == RelaySpec => []SlotsExact
<1>1. RelayInv => SlotsExact
  BY DEF RelayInv, Slots
<1>2. QED
  BY <1>1, RelayInvariance, PTL

\* A FIN of the relay to the client tells that the target has ended and that all
\* it sent was written; a target is half-closed only behind the whole upload.
THEOREM FinMeansWhole == RelaySpec => []FinIsWhole
<1>1. RelayInv => FinIsWhole
  BY DEF RelayInv
<1>2. QED
  BY <1>1, RelayInvariance, PTL

\* When HandleBrookStream has returned, and when a stream is refused, both its
\* halves and the target are closed, abandoned legs or not.
THEOREM NothingIsLeft == RelaySpec => []NothingLeftOpen
<1>1. RelayInv => NothingLeftOpen
  BY DEF RelayInv
<1>2. QED
  BY <1>1, RelayInvariance, PTL

\* HandleBrookStream returns nil only without force, when both legs have ended
\* and neither with an error.
THEOREM NilMeansClean == RelaySpec => NilIsEarned
<1> DEFINE Earned == \A s \in Streams :
               handler[s] # "returned" /\ handler'[s] = "returned" /\ result'[s] = "nil" =>
               handler[s] # "forced" /\ LegsDone(s) /\ \A d \in Legs : ended[s][d] # "error"
<1>1. ASSUME RelayInv, RelayNext PROVE Earned
  <2> SUFFICES ASSUME NEW s \in Streams, handler[s] # "returned", handler'[s] = "returned",
                      result'[s] = "nil"
               PROVE  handler[s] # "forced" /\ LegsDone(s) /\ \A d \in Legs : ended[s][d] # "error"
    OBVIOUS
  <2> USE DEF RelayInv, DataOK, MainOK
  <2>1. \A t \in Streams, d \in Legs : LegExit(t, d) \/ LegIO(t, d) => handler' = handler
    BY DEF LegExit, LegIO, ReadData, ReadEof, WriteDone, LegFails, HandOnEof
  <2>2. LegsFinished(s)
    BY <1>1, <2>1
    DEF RelayNext, RelayTerminated, relayVars, Admit, Refuse, PayloadRead, HandlerStep, Dialled,
                      OpeningFails, LegsFinished, BeginGrace, ForceClose, Abandon, Return
  <2>3. handler[s] # "forced" /\ relayErr[s] = "nil" /\ LegsDone(s)
    BY <1>1, <2>2 DEF LegsFinished, Return
  <2>4. QED
    BY <1>1, <2>3 DEF Recorded
<1>2. RelayInv /\ [RelayNext]_relayVars => [Earned]_relayVars
  BY <1>1
<1>3. QED
  BY <1>2, RelayInvariance, PTL DEF RelaySpec, NilIsEarned
=============================================================================
