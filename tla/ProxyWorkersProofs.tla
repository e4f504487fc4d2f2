--------------------------- MODULE ProxyWorkersProofs ---------------------------
(***************************************************************************)
(* Invariance proofs about the proxy in workers, for any connections, any  *)
(* limit of them, any number of attempts and of listener workers.  As in   *)
(* ProxyDispatcherProofs, nothing is used of the tunnel but its contract.  *)
(*                                                                         *)
(* And about the two buffers around the tunnel in a session worker, for    *)
(* any sizes of chunks and limits and any number of chunks, reads and      *)
(* sends.  The steps of the bridge leave the session's variables alone,    *)
(* and those of the session the bridge's.                                  *)
(***************************************************************************)
EXTENDS ProxyWorkers, SessionStreams, FiniteSetTheorems, WellFoundedInduction, TLAPS

\* The messages at a port; a gate is an answer or the end of the connection.
Messages == {"READY", "FAILED", "DATA", "END"}
Box == Seq(Messages)
Gates == {"READY", "FAILED", "END"}
HasGate(b) == \E i \in DOMAIN b : b[i] \in Gates
DataGated(b) == \A i \in DOMAIN b : b[i] = "DATA" => \E j \in DOMAIN b : j < i /\ b[j] \in Gates

\* The states of one tunnel.
Tunnels == [Fields -> BOOLEAN]

\* With b at its port the client has its answer, will find one there, or is gone.
Gated(c, b) == sock[c] # "open" \/ told[c] = "ready" \/ HasGate(b)

\* b may be at the port of c.
Fits(c, b) ==
    /\ b \in Box /\ (b # <<>> => sock[c] = "open")
    /\ told[c] = "ready" \/ DataGated(b)

\* The port and the client.
Port ==
    \A c \in Conns :
        /\ Fits(c, inbox[c])
        /\ told[c] # "none" <=> hasSentSuccess[c]
        /\ sock[c] = "open" => told[c] # "failed"
        /\ sock[c] \in {"none", "handshake"} => told[c] = "none" /\ wk[c] = "none"

\* Who has replied has answered, and only a worker that runs remembers anything.
WorkerOf(c) ==
    /\ proxyReplied[c] \/ wk[c] = "done" => Gated(c, inbox[c])
    /\ tun[c]["hs"] => proxyReplied[c]
    /\ wk[c] \notin {"connect", "run"} => ~proxyReplied[c] /\ ~stale[c] /\ ~tun[c]["hs"]

Worker == \A c \in Conns : WorkerOf(c)

\* The ids: given once for each listener worker, to the sockets it has accepted.
Seen == {c \in Conns : sock[c] # "none"}

Numbered ==
    /\ sessionCounter <= Cardinality(Seen)
    /\ \A c \in Conns :
          /\ sock[c] = "none" => id[c] = 0
          /\ sock[c] = "handshake" \/ wk[c] # "none" => id[c] \in SessionIds
          /\ \A i \in SessionIds : workers[i] = c => wk[c] # "none"

\* The types, the Booleans first.
FlagsOK ==
    /\ hasSentSuccess \in [Conns -> BOOLEAN] /\ got \in [Conns -> BOOLEAN]
    /\ mgrClosed \in BOOLEAN
    /\ tun \in [Conns -> Tunnels]
    /\ wrote \in [Conns -> BOOLEAN] /\ stale \in [Conns -> BOOLEAN]
    /\ proxyReplied \in [Conns -> BOOLEAN] /\ consumed \in [Conns -> BOOLEAN]

PlacesOK ==
    /\ starts \in 0..MaxStarts /\ listener \in {"none", "up", "failed"}
    /\ sock \in [Conns -> {"none", "handshake", "open", "cleaned", "flushed", "dead"}]
    /\ told \in [Conns -> {"none", "ready", "failed"}]
    /\ wk \in [Conns -> {"none", "requested", "connect", "run", "done", "gone", "left"}]
    /\ attempt \in [Conns -> 1..MAX_ATTEMPTS]
    /\ inbox \in [Conns -> Box]

BooksOK ==
    /\ sessionCounter \in 0..Cardinality(Conns) /\ id \in [Conns -> 0..Cardinality(Conns)]
    /\ activeSockets \subseteq Conns /\ Cardinality(activeSockets) <= maxConnections
    /\ workers \in [SessionIds -> Conns \cup {Nobody}] /\ tracked \subseteq SessionIds

Types == FlagsOK /\ PlacesOK /\ BooksOK

\* The tracker and the manager's map.
Tracked == tracked = {i \in SessionIds : workers[i] # Nobody}

IInv == Types /\ Port /\ Worker /\ Numbered /\ OneAnswer /\ Known /\ Tracked

USE DEF listenVars, clientVars, mainVars, tunVars, mgrUnchanged

-----------------------------------------------------------------------------
(* Ports *)

LEMMA Appended ==
    ASSUME NEW b \in Box, NEW m \in Messages
    PROVE  /\ Append(b, m) \in Box
           /\ HasGate(Append(b, m)) <=> HasGate(b) \/ m \in Gates
           /\ DataGated(b) /\ (m # "DATA" \/ HasGate(b)) => DataGated(Append(b, m))
<1>1. Append(b, m) \in Box
  BY DEF Box
<1>2. HasGate(Append(b, m)) <=> HasGate(b) \/ m \in Gates
  <2>1. /\ Len(b) \in Nat /\ DOMAIN b = 1..Len(b)
        /\ DOMAIN Append(b, m) = 1..(Len(b) + 1)
        /\ \A i \in 1..Len(b) : Append(b, m)[i] = b[i]
        /\ Append(b, m)[Len(b) + 1] = m
    BY DEF Box
  <2>2. QED
    BY <2>1 DEF HasGate
<1>3. ASSUME DataGated(b), m # "DATA" \/ HasGate(b) PROVE DataGated(Append(b, m))
  BY <1>3 DEF Box, HasGate, DataGated
<1>4. QED
  BY <1>1, <1>2, <1>3

\* What a message leaves at a port.
LEMMA Posted ==
    ASSUME NEW c \in Conns, NEW b \in Box, NEW m \in Messages
    PROVE  /\ Post(b, c, m) \in Box
           /\ HasGate(b) => HasGate(Post(b, c, m))
           /\ sock[c] = "open" /\ m \in Gates => HasGate(Post(b, c, m))
           /\ sock[c] # "open" => Post(b, c, m) = b
           /\ DataGated(b) /\ (m # "DATA" \/ HasGate(b)) => DataGated(Post(b, c, m))
<1>1. CASE sock[c] # "open"
  BY <1>1 DEF Post
<1>2. CASE sock[c] = "open" /\ b # <<>> /\ b[Len(b)] \in {"END", m}
  <2>1. Post(b, c, m) = b
    BY <1>2 DEF Post
  <2>2. m \in Gates => HasGate(b)
    BY <1>2 DEF Box, Gates, HasGate
  <2>3. QED
    BY <1>2, <2>1, <2>2
<1>3. CASE sock[c] = "open" /\ ~(b # <<>> /\ b[Len(b)] \in {"END", m})
  <2>1. Post(b, c, m) = Append(b, m)
    BY <1>3 DEF Post
  <2>2. QED
    BY <1>3, <2>1, Appended
<1>4. QED
  BY <1>1, <1>2, <1>3

LEMMA NoMessage == <<>> \in Box /\ ~HasGate(<<>>) /\ DataGated(<<>>)
  BY DEF Box, HasGate, DataGated

LEMMA Shortened == ASSUME NEW b \in Box, b # <<>>
                   PROVE  /\ Tail(b) \in Box /\ Head(b) \in Messages
                          /\ DataGated(b) => Head(b) # "DATA"
<1>1. Tail(b) \in Box /\ Head(b) \in Messages
  BY DEF Box
<1>2. ASSUME DataGated(b) PROVE Head(b) # "DATA"
  BY <1>2 DEF Box, DataGated
<1>3. QED
  BY <1>1, <1>2

-----------------------------------------------------------------------------
(* Types *)

\* What follows of a tunnel keeping its contract: a step leads to a state.
LEMMA ContractStep ==
    ASSUME NEW r \in Tunnels, NEW final \in BOOLEAN, NEW t \in Successors(r, final)
    PROVE  t \in Tunnels
<1> USE DEF With, Without, Tunnels, Fields
<1>1. \/ t = With(r, "key") \/ t = With(Without(r, "key"), "hs")
      \/ t = With(r, "read") \/ t = With(r, "refused") \/ t = With(r, "ending")
      \/ t = Without(r, "open") \/ t = With(Without(r, "open"), "ending")
      \/ t = With(r, "returned")
  BY DEF Successors, KeyArrives, Confirms, Reads, Refuses, Returns, Ends, Closes
<1>2. QED
  BY <1>1

LEMMA FreshTunnel == Fresh \in Tunnels /\ ~Fresh["hs"]
  BY DEF Fresh, Tunnels, Fields

LEMMA ForgottenFlags == ASSUME FlagsOK, NEW cs, Forgotten(cs)
    PROVE  /\ tun' \in [Conns -> Tunnels]
           /\ wrote' \in [Conns -> BOOLEAN] /\ stale' \in [Conns -> BOOLEAN]
           /\ proxyReplied' \in [Conns -> BOOLEAN] /\ consumed' \in [Conns -> BOOLEAN]
<1>1. tun' \in [Conns -> Tunnels]
  BY FreshTunnel DEF FlagsOK, Forgotten
<1>2. QED
  BY <1>1, Zenon DEF FlagsOK, Forgotten

LEMMA FlagsStep == ASSUME FlagsOK, [Next]_vars PROVE FlagsOK'
<1>1. CASE Start
  BY <1>1, Zenon DEF FlagsOK, Start, Terminated
<1>2. CASE Stop
  BY <1>2, Zenon DEF FlagsOK, Stop, Terminated
<1>3. CASE BindFails
  BY <1>3, Zenon DEF FlagsOK, BindFails, SessionsClosed
<1>4. CASE FlushSessions
  BY <1>4, Zenon DEF FlagsOK, FlushSessions, SessionsClosed
<1>5. CASE FlushStalled
  BY <1>5, ForgottenFlags, Zenon DEF FlagsOK, FlushStalled, TerminateWorkers
<1>6. CASE MgrClose
  BY <1>6, ForgottenFlags, Zenon DEF FlagsOK, MgrClose, TerminateWorkers
<1>7. ASSUME NEW c \in Conns, Accept(c) PROVE FlagsOK'
  BY <1>7, Zenon DEF FlagsOK, Accept
<1>8. ASSUME NEW c \in Conns, HandshakeFails(c) PROVE FlagsOK'
  BY <1>8, Zenon DEF FlagsOK, HandshakeFails, Cleanup
<1>9. ASSUME NEW c \in Conns, RequestTunnel(c) PROVE FlagsOK'
  BY <1>9, Zenon DEF FlagsOK, RequestTunnel
<1>10. ASSUME NEW c \in Conns, Hears(c) PROVE FlagsOK'
  BY <1>10, Zenon DEF FlagsOK, Hears, Cleanup, Reply
<1>11. ASSUME NEW c \in Conns, Connects(c) PROVE FlagsOK'
  BY <1>11, Zenon DEF FlagsOK, Connects
<1>12. ASSUME NEW c \in Conns, ConnectFails(c) PROVE FlagsOK'
  BY <1>12, ForgottenFlags, FreshTunnel, Zenon DEF FlagsOK, ConnectFails, Finish, NextAttempt
<1>13. ASSUME NEW c \in Conns, TunnelRuns(c) PROVE FlagsOK'
  <2>1. PICK t \in Successors(tun[c], IsFinal(c)) :
           /\ tun' = [tun EXCEPT ![c] = t]
           /\ consumed' = [consumed EXCEPT ![c] = @ \/ t.read]
    BY <1>13, Zenon DEF TunnelRuns
  <2>2. t \in Tunnels
    BY ContractStep, IsFinal(c) \in BOOLEAN DEF IsFinal, FlagsOK
  <2>3. t.read \in BOOLEAN
    BY <2>2 DEF Tunnels, Fields
  <2>4. tun' \in [Conns -> Tunnels] /\ consumed' \in [Conns -> BOOLEAN]
    BY <2>1, <2>2, <2>3, Zenon DEF FlagsOK
  <2>5. proxyReplied' \in [Conns -> BOOLEAN]
    BY <1>13, Zenon DEF TunnelRuns, FlagsOK
  <2>q. QED
    BY <1>13, <2>4, <2>5, Zenon DEF TunnelRuns, FlagsOK
<1>14. ASSUME NEW c \in Conns, Writes(c) PROVE FlagsOK'
  BY <1>14, Zenon DEF FlagsOK, Writes
<1>15. ASSUME NEW c \in Conns, ClosesWriter(c) PROVE FlagsOK'
  BY <1>15, Zenon DEF FlagsOK, ClosesWriter
<1>16. ASSUME NEW c \in Conns, TunnelReturns(c) PROVE FlagsOK'
  BY <1>16, ForgottenFlags, FreshTunnel, Zenon DEF FlagsOK, TunnelReturns, Finish, NextAttempt
<1>17. ASSUME NEW c \in Conns, StaleConfirms(c) PROVE FlagsOK'
  BY <1>17, Zenon DEF FlagsOK, StaleConfirms
<1>18. ASSUME NEW c \in Conns, Spawn(c) PROVE FlagsOK'
  BY <1>18, Zenon DEF FlagsOK, Spawn
<1>19. ASSUME NEW c \in Conns, Done(c) PROVE FlagsOK'
  BY <1>19, ForgottenFlags, Zenon DEF FlagsOK, Done
<1>20. ASSUME NEW i \in SessionIds, Reap(i) PROVE FlagsOK'
  BY <1>20, ForgottenFlags, Zenon DEF FlagsOK, Reap, TerminateWorkers
<1>21. CASE UNCHANGED vars
  BY <1>21, Zenon DEF FlagsOK, vars
<1>q. QED
  BY <1>1, <1>2, <1>3, <1>4, <1>5, <1>6, <1>7, <1>8, <1>9, <1>10, <1>11, <1>12, <1>13, <1>14, <1>15,
     <1>16, <1>17, <1>18, <1>19, <1>20, <1>21 DEF Next, ListenerStep, WorkerStep

LEMMA ForgottenAttempt == ASSUME PlacesOK, NEW cs, Forgotten(cs)
    PROVE  attempt' \in [Conns -> 1..MAX_ATTEMPTS]
  BY WorkersAssumption DEF PlacesOK, Forgotten

LEMMA ReplyPosted ==
    ASSUME PlacesOK, NEW c \in Conns, NEW m \in Messages
    PROVE  ReplyOnce(c, m) \in Box
  BY Posted DEF PlacesOK, ReplyOnce

LEMMA MessagesAre == \A m \in {"READY", "FAILED", "DATA", "END"} : m \in Messages
  BY DEF Messages

LEMMA PlacesStep == ASSUME Types, [Next]_vars PROVE PlacesOK'
<1> USE WorkersAssumption DEF Types
<1>1. CASE Start
  BY <1>1, NoMessage DEF PlacesOK, Start, Terminated
<1>2. CASE Stop
  BY <1>2, NoMessage DEF PlacesOK, Stop, Terminated
<1>3. CASE BindFails
  BY <1>3, NoMessage DEF PlacesOK, BindFails, SessionsClosed
<1>4. CASE FlushSessions
  BY <1>4, NoMessage DEF PlacesOK, FlushSessions, SessionsClosed
<1>5. CASE FlushStalled
  BY <1>5, ForgottenAttempt DEF PlacesOK, FlushStalled, TerminateWorkers
<1>6. CASE MgrClose
  BY <1>6, ForgottenAttempt DEF PlacesOK, MgrClose, TerminateWorkers
<1>7. ASSUME NEW c \in Conns, Accept(c) PROVE PlacesOK'
  BY <1>7 DEF PlacesOK, Accept
<1>8. ASSUME NEW c \in Conns, HandshakeFails(c) PROVE PlacesOK'
  BY <1>8, NoMessage DEF PlacesOK, HandshakeFails, Cleanup
<1>9. ASSUME NEW c \in Conns, RequestTunnel(c) PROVE PlacesOK'
  BY <1>9 DEF PlacesOK, RequestTunnel
<1>10. ASSUME NEW c \in Conns, Hears(c) PROVE PlacesOK'
  <2>1. inbox[c] \in Box
    BY DEF PlacesOK
  <2>2. inbox' \in [Conns -> Box]
    BY <1>10, <2>1, Shortened, NoMessage DEF PlacesOK, Hears, Cleanup
  <2>3. told' \in [Conns -> {"none", "ready", "failed"}]
    BY <1>10 DEF PlacesOK, Hears, Reply
  <2>4. sock' \in [Conns -> {"none", "handshake", "open", "cleaned", "flushed", "dead"}]
    BY <1>10 DEF PlacesOK, Hears, Cleanup
  <2>q. QED
    BY <1>10, <2>2, <2>3, <2>4 DEF PlacesOK, Hears
<1>11. ASSUME NEW c \in Conns, Connects(c) PROVE PlacesOK'
  BY <1>11 DEF PlacesOK, Connects
<1>12. ASSUME NEW c \in Conns, ConnectFails(c) PROVE PlacesOK'
  <2>1. inbox' \in [Conns -> Box]
    BY <1>12, ReplyPosted, MessagesAre DEF PlacesOK, ConnectFails, Finish, NextAttempt
  <2>2. attempt' \in [Conns -> 1..MAX_ATTEMPTS]
    BY <1>12, ForgottenAttempt, WorkersAssumption DEF PlacesOK, ConnectFails, Finish, NextAttempt,
       IsFinal
  <2>q. QED
    BY <1>12, <2>1, <2>2 DEF PlacesOK, ConnectFails, Finish, NextAttempt
<1>13. ASSUME NEW c \in Conns, TunnelRuns(c) PROVE PlacesOK'
  <2>1. inbox' \in [Conns -> Box]
    BY <1>13, ReplyPosted, MessagesAre DEF PlacesOK, TunnelRuns
  <2>q. QED
    BY <1>13, <2>1 DEF PlacesOK, TunnelRuns
<1>14. ASSUME NEW c \in Conns, Writes(c) PROVE PlacesOK'
  BY <1>14, Posted, MessagesAre DEF PlacesOK, Writes
<1>15. ASSUME NEW c \in Conns, ClosesWriter(c) PROVE PlacesOK'
  BY <1>15, Posted, MessagesAre DEF PlacesOK, ClosesWriter
<1>16. ASSUME NEW c \in Conns, TunnelReturns(c) PROVE PlacesOK'
  <2>1. inbox' \in [Conns -> Box]
    BY <1>16, ReplyPosted, MessagesAre DEF PlacesOK, TunnelReturns, Finish, NextAttempt
  <2>2. attempt' \in [Conns -> 1..MAX_ATTEMPTS]
    BY <1>16, ForgottenAttempt, WorkersAssumption DEF PlacesOK, TunnelReturns, Finish, NextAttempt,
       IsFinal, GivesUp
  <2>q. QED
    BY <1>16, <2>1, <2>2 DEF PlacesOK, TunnelReturns, Finish, NextAttempt
<1>17. ASSUME NEW c \in Conns, StaleConfirms(c) PROVE PlacesOK'
  <2>1. ReplyOnce(c, "READY") \in Box
    BY ReplyPosted, MessagesAre
  <2>2. Post(ReplyOnce(c, "READY"), c, "END") \in Box
    BY <2>1, Posted, MessagesAre
  <2>3. inbox' \in [Conns -> Box]
    BY <1>17, <2>1, <2>2 DEF PlacesOK, StaleConfirms
  <2>q. QED
    BY <1>17, <2>3 DEF PlacesOK, StaleConfirms
<1>18. ASSUME NEW c \in Conns, Spawn(c) PROVE PlacesOK'
  <2>1. inbox' \in [Conns -> Box]
    <3>1. Post(inbox[c], c, "FAILED") \in Box
      BY Posted, MessagesAre DEF PlacesOK
    <3>q. QED
      BY <1>18, <3>1 DEF PlacesOK, Spawn
  <2>q. QED
    BY <1>18, <2>1 DEF PlacesOK, Spawn
<1>19. ASSUME NEW c \in Conns, Done(c) PROVE PlacesOK'
  BY <1>19, ForgottenAttempt DEF PlacesOK, Done
<1>20. ASSUME NEW i \in SessionIds, Reap(i) PROVE PlacesOK'
  BY <1>20, ForgottenAttempt DEF PlacesOK, Reap, TerminateWorkers
<1>21. CASE UNCHANGED vars
  BY <1>21 DEF PlacesOK, vars
<1>q. QED
  BY <1>1, <1>2, <1>3, <1>4, <1>5, <1>6, <1>7, <1>8, <1>9, <1>10, <1>11, <1>12, <1>13, <1>14, <1>15,
     <1>16, <1>17, <1>18, <1>19, <1>20, <1>21 DEF Next, ListenerStep, WorkerStep

-----------------------------------------------------------------------------
(* Ids, workers and sockets *)

LEMMA SeenSize == /\ Cardinality(Conns) \in Nat /\ Cardinality(Seen) \in Nat
                  /\ Cardinality(Seen) <= Cardinality(Conns)
  BY WorkersAssumption, FS_CardinalityType, FS_Subset DEF Seen

\* A socket that was seen stays seen.
LEMMA SeenGrows ==
    ASSUME \A c \in Conns : sock[c] # "none" => sock'[c] # "none"
    PROVE  /\ Cardinality(Seen') \in Nat /\ Cardinality(Seen) <= Cardinality(Seen')
           /\ \A d \in Conns : sock[d] = "none" /\ sock'[d] # "none"
                                  => Cardinality(Seen) + 1 <= Cardinality(Seen')
<1>1. Seen \subseteq Seen' /\ Seen' \subseteq Conns
  BY DEF Seen
<1>2. IsFiniteSet(Seen') /\ IsFiniteSet(Seen)
  BY <1>1, FS_Subset, WorkersAssumption
<1>3. Cardinality(Seen') \in Nat /\ Cardinality(Seen) <= Cardinality(Seen')
  BY <1>1, <1>2, FS_CardinalityType, FS_Subset
<1>4. ASSUME NEW d \in Conns, sock[d] = "none", sock'[d] # "none"
      PROVE  Cardinality(Seen) + 1 <= Cardinality(Seen')
  <2>1. Seen \cup {d} \subseteq Seen' /\ d \notin Seen
    BY <1>1, <1>4 DEF Seen
  <2>2. Cardinality(Seen \cup {d}) = Cardinality(Seen) + 1
    BY <1>2, <2>1, FS_AddElement
  <2>3. QED
    BY <1>2, <2>1, <2>2, FS_Subset
<1>5. QED
  BY <1>3, <1>4

\* A slot taken and slots given back.
LEMMA SlotTaken ==
    ASSUME NEW s, s \subseteq Conns, NEW c \in Conns, Cardinality(s) < maxConnections
    PROVE  Cardinality(s \cup {c}) <= maxConnections
<1>1. IsFiniteSet(s)
  BY WorkersAssumption, FS_Subset
<1>2. Cardinality(s) \in Nat
  BY <1>1, FS_CardinalityType
<1>3. Cardinality(s \cup {c}) = IF c \in s THEN Cardinality(s) ELSE Cardinality(s) + 1
  BY <1>1, FS_AddElement
<1>4. QED
  BY <1>2, <1>3, WorkersAssumption

LEMMA SlotFreed ==
    ASSUME NEW s, s \subseteq Conns, NEW t, t \subseteq s, Cardinality(s) <= maxConnections
    PROVE  Cardinality(t) <= maxConnections
<1>1. IsFiniteSet(s)
  BY WorkersAssumption, FS_Subset
<1>2. IsFiniteSet(t) /\ Cardinality(t) <= Cardinality(s)
  BY <1>1, FS_Subset
<1>3. QED
  BY <1>1, <1>2, WorkersAssumption, FS_CardinalityType

LEMMA NoSlot == Cardinality({}) = 0 /\ 0 <= maxConnections
  BY FS_EmptySet, WorkersAssumption

LEMMA BooksStep == ASSUME Types, Port, Numbered, [Next]_vars PROVE BooksOK'
<1> USE DEF Types
<1>1. CASE Start
  BY <1>1, NoSlot, SeenSize DEF BooksOK, Start, Terminated
<1>2. CASE Stop
  BY <1>2, NoSlot, SeenSize DEF BooksOK, Stop, Terminated
<1>3. CASE BindFails
  BY <1>3, NoSlot DEF BooksOK, BindFails, SessionsClosed
<1>4. CASE FlushSessions
  BY <1>4 DEF BooksOK, FlushSessions, SessionsClosed
<1>5. CASE FlushStalled
  BY <1>5 DEF BooksOK, FlushStalled, TerminateWorkers, Forget
<1>6. CASE MgrClose
  BY <1>6 DEF BooksOK, MgrClose, TerminateWorkers, Forget
<1>7. ASSUME NEW c \in Conns, Accept(c) PROVE BooksOK'
  <2>1. sessionCounter + 1 <= Cardinality(Conns)
    <3>1. sock[c] = "none" /\ c \notin Seen
      BY <1>7 DEF Accept, Seen
    <3>2. IsFiniteSet(Seen) /\ Seen \cup {c} \subseteq Conns
      BY FS_Subset, WorkersAssumption DEF Seen
    <3>3. Cardinality(Seen \cup {c}) = Cardinality(Seen) + 1
      BY <3>1, <3>2, FS_AddElement
    <3>4. Cardinality(Seen \cup {c}) <= Cardinality(Conns)
      BY <3>2, FS_Subset, WorkersAssumption
    <3>q. QED
      BY <3>3, <3>4, SeenSize DEF BooksOK, Numbered
  <2>2. activeSockets' \subseteq Conns /\ Cardinality(activeSockets') <= maxConnections
    BY <1>7, SlotTaken DEF Accept, BooksOK
  <2>3. sessionCounter' \in 0..Cardinality(Conns) /\ id' \in [Conns -> 0..Cardinality(Conns)]
    BY <1>7, <2>1, SeenSize DEF Accept, BooksOK
  <2>q. QED
    BY <1>7, <2>2, <2>3 DEF BooksOK, Accept
<1>8. ASSUME NEW c \in Conns, HandshakeFails(c) PROVE BooksOK'
  <2>1. activeSockets' \subseteq Conns /\ Cardinality(activeSockets') <= maxConnections
    BY <1>8, SlotFreed DEF HandshakeFails, Cleanup, BooksOK
  <2>q. QED
    BY <1>8, <2>1 DEF BooksOK, HandshakeFails
<1>9. ASSUME NEW c \in Conns, RequestTunnel(c) PROVE BooksOK'
  BY <1>9 DEF BooksOK, RequestTunnel
<1>10. ASSUME NEW c \in Conns, Hears(c) PROVE BooksOK'
  <2>1. activeSockets' \subseteq Conns /\ Cardinality(activeSockets') <= maxConnections
    BY <1>10, SlotFreed DEF Hears, Cleanup, BooksOK
  <2>q. QED
    BY <1>10, <2>1 DEF BooksOK, Hears
<1>11. ASSUME NEW c \in Conns, Connects(c) PROVE BooksOK'
  BY <1>11 DEF BooksOK, Connects
<1>12. ASSUME NEW c \in Conns, ConnectFails(c) PROVE BooksOK'
  BY <1>12 DEF BooksOK, ConnectFails
<1>13. ASSUME NEW c \in Conns, TunnelRuns(c) PROVE BooksOK'
  BY <1>13 DEF BooksOK, TunnelRuns
<1>14. ASSUME NEW c \in Conns, Writes(c) PROVE BooksOK'
  BY <1>14 DEF BooksOK, Writes
<1>15. ASSUME NEW c \in Conns, ClosesWriter(c) PROVE BooksOK'
  BY <1>15 DEF BooksOK, ClosesWriter
<1>16. ASSUME NEW c \in Conns, TunnelReturns(c) PROVE BooksOK'
  BY <1>16 DEF BooksOK, TunnelReturns
<1>17. ASSUME NEW c \in Conns, StaleConfirms(c) PROVE BooksOK'
  BY <1>17 DEF BooksOK, StaleConfirms
<1>18. ASSUME NEW c \in Conns, Spawn(c) PROVE BooksOK'
  <2>1. id[c] \in SessionIds
    BY <1>18 DEF Spawn, Numbered
  <2>q. QED
    BY <1>18, <2>1 DEF BooksOK, Spawn
<1>19. ASSUME NEW c \in Conns, Done(c) PROVE BooksOK'
  BY <1>19 DEF BooksOK, Done, Forget
<1>20. ASSUME NEW i \in SessionIds, Reap(i) PROVE BooksOK'
  BY <1>20 DEF BooksOK, Reap, TerminateWorkers, Forget
<1>21. CASE UNCHANGED vars
  BY <1>21 DEF BooksOK, vars
<1>q. QED
  BY <1>1, <1>2, <1>3, <1>4, <1>5, <1>6, <1>7, <1>8, <1>9, <1>10, <1>11, <1>12, <1>13, <1>14, <1>15,
     <1>16, <1>17, <1>18, <1>19, <1>20, <1>21 DEF Next, ListenerStep, WorkerStep

LEMMA NumberedStep == ASSUME Types, Port, Numbered, [Next]_vars PROVE Numbered'
<1>1. CASE Start
  <2>1. sessionCounter' <= Cardinality(Seen')
    <3>1. \A d \in Conns : sock[d] # "none" => sock'[d] # "none"
      BY <1>1 DEF Types, PlacesOK, Start, Terminated
    <3>q. QED
      BY <1>1, <3>1, SeenGrows DEF Start
  <2>q. QED
    BY <1>1, <2>1 DEF Types, PlacesOK, Numbered, Port, Start, Terminated
<1>2. CASE Stop
  <2>1. /\ \A d \in Conns : sock[d] # "none" => sock'[d] # "none"
        /\ sessionCounter' = sessionCounter
    BY <1>2 DEF Types, PlacesOK, Stop, Terminated
  <2>2. sessionCounter' <= Cardinality(Seen')
    BY <2>1, SeenGrows, SeenSize DEF Types, BooksOK, Numbered
  <2>q. QED
    BY <1>2, <2>2 DEF Types, PlacesOK, Numbered, Port, Stop, Terminated
<1>3. CASE BindFails
  <2>1. /\ \A d \in Conns : sock[d] # "none" => sock'[d] # "none"
        /\ sessionCounter' = sessionCounter
    BY <1>3 DEF Types, PlacesOK, BindFails, SessionsClosed
  <2>2. sessionCounter' <= Cardinality(Seen')
    BY <2>1, SeenGrows, SeenSize DEF Types, BooksOK, Numbered
  <2>q. QED
    BY <1>3, <2>2 DEF Types, PlacesOK, Numbered, Port, BindFails, SessionsClosed
<1>4. CASE FlushSessions
  <2>1. /\ \A d \in Conns : sock[d] # "none" => sock'[d] # "none"
        /\ sessionCounter' = sessionCounter
    BY <1>4 DEF Types, PlacesOK, FlushSessions, SessionsClosed
  <2>2. sessionCounter' <= Cardinality(Seen')
    BY <2>1, SeenGrows, SeenSize DEF Types, BooksOK, Numbered
  <2>q. QED
    BY <1>4, <2>2 DEF Types, PlacesOK, Numbered, Port, FlushSessions, SessionsClosed
<1>5. CASE FlushStalled
  <2>1. \A d \in Conns : wk'[d] = wk[d] \/ (wk[d] # "none" /\ wk'[d] # "none")
    BY <1>5 DEF Types, PlacesOK, BooksOK, Numbered, FlushStalled, TerminateWorkers, SessionIds
  <2>2. \A j \in SessionIds : workers'[j] = workers[j] \/ workers'[j] = Nobody
    BY <1>5 DEF FlushStalled, TerminateWorkers, Forget
  <2>3. UNCHANGED <<sessionCounter, sock, id>>
    BY <1>5 DEF FlushStalled
  <2>q. QED
    BY <2>1, <2>2, <2>3, WorkersAssumption DEF Numbered, Seen
<1>6. CASE MgrClose
  <2>1. \A d \in Conns : wk'[d] = wk[d] \/ (wk[d] # "none" /\ wk'[d] # "none")
    BY <1>6 DEF Types, PlacesOK, BooksOK, Numbered, MgrClose, TerminateWorkers, SessionIds
  <2>2. \A j \in SessionIds : workers'[j] = workers[j] \/ workers'[j] = Nobody
    BY <1>6 DEF MgrClose, TerminateWorkers, Forget
  <2>3. UNCHANGED <<sessionCounter, sock, id>>
    BY <1>6 DEF MgrClose
  <2>q. QED
    BY <2>1, <2>2, <2>3, WorkersAssumption DEF Numbered, Seen
<1>7. ASSUME NEW c \in Conns, Accept(c) PROVE Numbered'
  <2>1. sock[c] = "none" /\ sock'[c] # "none" /\ \A d \in Conns : sock[d] # "none" => sock'[d] # "none"
    BY <1>7 DEF Types, PlacesOK, Accept
  <2>2. sessionCounter' <= Cardinality(Seen')
    BY <1>7, <2>1, SeenGrows, SeenSize DEF Types, BooksOK, Numbered, Accept
  <2>3. id'[c] = id[c] \/ (id'[c] = sessionCounter + 1 /\ id'[c] \in SessionIds)
    <3>1. sessionCounter' \in 0..Cardinality(Conns)
      BY BooksStep DEF BooksOK
    <3>q. QED
      BY <1>7, <3>1, SeenSize DEF Accept, Types, BooksOK, SessionIds
  <2>q. QED
    BY <1>7, <2>2, <2>3 DEF Types, PlacesOK, BooksOK, Numbered, Port, Accept
<1>8. ASSUME NEW c \in Conns, HandshakeFails(c) PROVE Numbered'
  <2>1. /\ \A d \in Conns : sock[d] # "none" => sock'[d] # "none"
        /\ sessionCounter' = sessionCounter
    BY <1>8 DEF Types, PlacesOK, HandshakeFails, Cleanup
  <2>2. sessionCounter' <= Cardinality(Seen')
    BY <2>1, SeenGrows, SeenSize DEF Types, BooksOK, Numbered
  <2>q. QED
    BY <1>8, <2>2 DEF Types, PlacesOK, Numbered, Port, HandshakeFails, Cleanup
<1>9. ASSUME NEW c \in Conns, RequestTunnel(c) PROVE Numbered'
  <2>1. /\ \A d \in Conns : sock[d] # "none" => sock'[d] # "none"
        /\ sessionCounter' = sessionCounter
    BY <1>9 DEF Types, PlacesOK, RequestTunnel
  <2>2. sessionCounter' <= Cardinality(Seen')
    BY <2>1, SeenGrows, SeenSize DEF Types, BooksOK, Numbered
  <2>q. QED
    BY <1>9, <2>2 DEF Types, PlacesOK, Numbered, Port, RequestTunnel
<1>10. ASSUME NEW c \in Conns, Hears(c) PROVE Numbered'
  <2>1. /\ \A d \in Conns : sock[d] # "none" => sock'[d] # "none"
        /\ sessionCounter' = sessionCounter
    BY <1>10 DEF Types, PlacesOK, Hears, Cleanup
  <2>2. sessionCounter' <= Cardinality(Seen')
    BY <2>1, SeenGrows, SeenSize DEF Types, BooksOK, Numbered
  <2>q. QED
    BY <1>10, <2>2 DEF Types, PlacesOK, Numbered, Port, Hears, Cleanup
<1>11. ASSUME NEW c \in Conns, Connects(c) PROVE Numbered'
  BY <1>11 DEF Types, BooksOK, PlacesOK, Numbered, Seen, Connects
<1>12. ASSUME NEW c \in Conns, ConnectFails(c) PROVE Numbered'
  BY <1>12 DEF Types, BooksOK, PlacesOK, Numbered, Seen, ConnectFails, Finish, NextAttempt
<1>13. ASSUME NEW c \in Conns, TunnelRuns(c) PROVE Numbered'
  BY <1>13 DEF Types, BooksOK, PlacesOK, Numbered, Seen, TunnelRuns
<1>14. ASSUME NEW c \in Conns, Writes(c) PROVE Numbered'
  BY <1>14 DEF Types, BooksOK, PlacesOK, Numbered, Seen, Writes
<1>15. ASSUME NEW c \in Conns, ClosesWriter(c) PROVE Numbered'
  BY <1>15 DEF Types, BooksOK, PlacesOK, Numbered, Seen, ClosesWriter
<1>16. ASSUME NEW c \in Conns, TunnelReturns(c) PROVE Numbered'
  BY <1>16 DEF Types, BooksOK, PlacesOK, Numbered, Seen, TunnelReturns, Finish, NextAttempt
<1>17. ASSUME NEW c \in Conns, StaleConfirms(c) PROVE Numbered'
  BY <1>17 DEF Types, BooksOK, PlacesOK, Numbered, Seen, StaleConfirms
<1>18. ASSUME NEW c \in Conns, Spawn(c) PROVE Numbered'
  BY <1>18 DEF Types, BooksOK, PlacesOK, Numbered, Seen, Spawn
<1>19. ASSUME NEW c \in Conns, Done(c) PROVE Numbered'
  <2>1. \A d \in Conns : wk'[d] = wk[d] \/ (wk[d] # "none" /\ wk'[d] # "none")
    BY <1>19 DEF Types, PlacesOK, BooksOK, Numbered, Done, SessionIds
  <2>2. \A j \in SessionIds : workers'[j] = workers[j] \/ workers'[j] = Nobody
    BY <1>19 DEF Done, Forget
  <2>3. UNCHANGED <<sessionCounter, sock, id>>
    BY <1>19 DEF Done
  <2>q. QED
    BY <2>1, <2>2, <2>3, WorkersAssumption DEF Numbered, Seen
<1>20. ASSUME NEW i \in SessionIds, Reap(i) PROVE Numbered'
  <2>1. \A d \in Conns : wk'[d] = wk[d] \/ (wk[d] # "none" /\ wk'[d] # "none")
    BY <1>20 DEF Types, PlacesOK, BooksOK, Numbered, Reap, TerminateWorkers, SessionIds
  <2>2. \A j \in SessionIds : workers'[j] = workers[j] \/ workers'[j] = Nobody
    BY <1>20 DEF Reap, TerminateWorkers, Forget
  <2>3. UNCHANGED <<sessionCounter, sock, id>>
    BY <1>20 DEF Reap
  <2>q. QED
    BY <2>1, <2>2, <2>3, WorkersAssumption DEF Numbered, Seen
<1>21. CASE UNCHANGED vars
  BY <1>21 DEF Numbered, Seen, vars
<1>q. QED
  BY <1>1, <1>2, <1>3, <1>4, <1>5, <1>6, <1>7, <1>8, <1>9, <1>10, <1>11, <1>12, <1>13, <1>14, <1>15,
     <1>16, <1>17, <1>18, <1>19, <1>20, <1>21 DEF Next, ListenerStep, WorkerStep

LEMMA TrackerForgets ==
    ASSUME Tracked, NEW ids, Forget(ids) PROVE Tracked'
  BY DEF Forget, Tracked

LEMMA TrackerStep == ASSUME Types, Numbered, Tracked, [Next]_vars PROVE Tracked'
<1>1. CASE Start
  BY <1>1 DEF Tracked, Start
<1>2. CASE Stop
  BY <1>2 DEF Tracked, Stop
<1>3. CASE BindFails
  BY <1>3 DEF Tracked, BindFails, SessionsClosed
<1>4. CASE FlushSessions
  BY <1>4 DEF Tracked, FlushSessions, SessionsClosed
<1>5. CASE FlushStalled
  BY <1>5, TrackerForgets DEF FlushStalled, TerminateWorkers
<1>6. CASE MgrClose
  BY <1>6, TrackerForgets DEF MgrClose, TerminateWorkers
<1>7. ASSUME NEW c \in Conns, Accept(c) PROVE Tracked'
  BY <1>7 DEF Tracked, Accept
<1>8. ASSUME NEW c \in Conns, HandshakeFails(c) PROVE Tracked'
  BY <1>8 DEF Tracked, HandshakeFails
<1>9. ASSUME NEW c \in Conns, RequestTunnel(c) PROVE Tracked'
  BY <1>9 DEF Tracked, RequestTunnel
<1>10. ASSUME NEW c \in Conns, Hears(c) PROVE Tracked'
  BY <1>10 DEF Tracked, Hears
<1>11. ASSUME NEW c \in Conns, Connects(c) PROVE Tracked'
  BY <1>11 DEF Tracked, Connects
<1>12. ASSUME NEW c \in Conns, ConnectFails(c) PROVE Tracked'
  BY <1>12 DEF Tracked, ConnectFails
<1>13. ASSUME NEW c \in Conns, TunnelRuns(c) PROVE Tracked'
  BY <1>13 DEF Tracked, TunnelRuns
<1>14. ASSUME NEW c \in Conns, Writes(c) PROVE Tracked'
  BY <1>14 DEF Tracked, Writes
<1>15. ASSUME NEW c \in Conns, ClosesWriter(c) PROVE Tracked'
  BY <1>15 DEF Tracked, ClosesWriter
<1>16. ASSUME NEW c \in Conns, TunnelReturns(c) PROVE Tracked'
  BY <1>16 DEF Tracked, TunnelReturns
<1>17. ASSUME NEW c \in Conns, StaleConfirms(c) PROVE Tracked'
  BY <1>17 DEF Tracked, StaleConfirms
<1>18. ASSUME NEW c \in Conns, Spawn(c) PROVE Tracked'
  <2>1. id[c] \in SessionIds
    BY <1>18 DEF Spawn, Numbered
  <2>q. QED
    BY <1>18, <2>1, WorkersAssumption DEF Tracked, Spawn, Types, BooksOK
<1>19. ASSUME NEW c \in Conns, Done(c) PROVE Tracked'
  BY <1>19, TrackerForgets DEF Done
<1>20. ASSUME NEW i \in SessionIds, Reap(i) PROVE Tracked'
  BY <1>20, TrackerForgets DEF Reap, TerminateWorkers
<1>21. CASE UNCHANGED vars
  BY <1>21 DEF Tracked, vars
<1>q. QED
  BY <1>1, <1>2, <1>3, <1>4, <1>5, <1>6, <1>7, <1>8, <1>9, <1>10, <1>11, <1>12, <1>13, <1>14, <1>15,
     <1>16, <1>17, <1>18, <1>19, <1>20, <1>21 DEF Next, ListenerStep, WorkerStep

LEMMA KnownIfTerminated ==
    ASSUME Types, Numbered, Known, NEW ids, TerminateWorkers(ids), UNCHANGED id
    PROVE  Known'
<1> SUFFICES ASSUME NEW c \in Conns, Running(c)'
             PROVE  workers'[id[c]] = c \/ \E d \in Conns \ {c} : id[d] = id[c]
  BY DEF Known
<1>1. wk'[c] = wk[c] /\ Running(c) /\ \A i \in ids : workers[i] # c
  BY DEF TerminateWorkers, Types, PlacesOK, Running
<1>2. id[c] \in SessionIds
  BY <1>1 DEF Running, Numbered, Types, PlacesOK
<1>3. QED
  BY <1>1, <1>2 DEF Known, TerminateWorkers, Forget

LEMMA KnownStep == ASSUME Types, Port, Numbered, Known, [Next]_vars PROVE Known'
<1>1. CASE Start
  BY <1>1 DEF Known, Running, Types, PlacesOK, Start, Terminated
<1>2. CASE Stop
  BY <1>2 DEF Known, Running, Types, PlacesOK, Stop, Terminated
<1>3. CASE BindFails
  BY <1>3 DEF Known, Running, Types, PlacesOK, BindFails, SessionsClosed
<1>4. CASE FlushSessions
  BY <1>4 DEF Known, Running, Types, PlacesOK, FlushSessions, SessionsClosed
<1>5. CASE FlushStalled
  BY <1>5, KnownIfTerminated DEF FlushStalled
<1>6. CASE MgrClose
  BY <1>6, KnownIfTerminated DEF MgrClose
<1>7. ASSUME NEW c \in Conns, Accept(c) PROVE Known'
  <2>1. wk[c] = "none" /\ id[c] = 0 /\ \A d \in Conns : wk[d] # "none" => id[d] # 0
    BY <1>7 DEF Accept, Port, Numbered, SessionIds
  <2>2. \A d \in Conns : d # c => id'[d] = id[d]
    BY <1>7 DEF Accept, Types, BooksOK
  <2>3. UNCHANGED <<wk, workers>>
    BY <1>7 DEF Accept
  <2>q. QED
    BY <2>1, <2>2, <2>3 DEF Known, Running
<1>8. ASSUME NEW c \in Conns, HandshakeFails(c) PROVE Known'
  BY <1>8 DEF Known, Running, Types, PlacesOK, HandshakeFails, Cleanup
<1>9. ASSUME NEW c \in Conns, RequestTunnel(c) PROVE Known'
  BY <1>9 DEF Known, Running, Types, PlacesOK, RequestTunnel
<1>10. ASSUME NEW c \in Conns, Hears(c) PROVE Known'
  BY <1>10 DEF Known, Running, Types, PlacesOK, Hears, Cleanup
<1>11. ASSUME NEW c \in Conns, Connects(c) PROVE Known'
  BY <1>11 DEF Known, Running, Types, PlacesOK, Connects
<1>12. ASSUME NEW c \in Conns, ConnectFails(c) PROVE Known'
  BY <1>12 DEF Known, Running, Types, PlacesOK, ConnectFails, Finish, NextAttempt
<1>13. ASSUME NEW c \in Conns, TunnelRuns(c) PROVE Known'
  BY <1>13 DEF Known, Running, Types, PlacesOK, TunnelRuns
<1>14. ASSUME NEW c \in Conns, Writes(c) PROVE Known'
  BY <1>14 DEF Known, Running, Types, PlacesOK, Writes
<1>15. ASSUME NEW c \in Conns, ClosesWriter(c) PROVE Known'
  BY <1>15 DEF Known, Running, Types, PlacesOK, ClosesWriter
<1>16. ASSUME NEW c \in Conns, TunnelReturns(c) PROVE Known'
  BY <1>16 DEF Known, Running, Types, PlacesOK, TunnelReturns, Finish, NextAttempt
<1>17. ASSUME NEW c \in Conns, StaleConfirms(c) PROVE Known'
  BY <1>17 DEF Known, Running, Types, PlacesOK, StaleConfirms
<1>18. ASSUME NEW c \in Conns, Spawn(c) PROVE Known'
  <2>1. id[c] \in SessionIds
    BY <1>18 DEF Spawn, Numbered
  <2>2. UNCHANGED id
    BY <1>18 DEF Spawn
  <2>3. ASSUME Running(c)' PROVE workers'[id[c]] = c
    BY <1>18, <2>1, <2>3 DEF Spawn, Running, Types, PlacesOK, BooksOK
  <2>4. ASSUME NEW d \in Conns, d # c, Running(d)', id[d] # id[c]
        PROVE  Running(d) /\ workers'[id[d]] = workers[id[d]]
    <3>1. Running(d) /\ id[d] \in SessionIds
      BY <1>18, <2>4 DEF Spawn, Running, Types, PlacesOK, Numbered
    <3>q. QED
      BY <1>18, <2>1, <2>4, <3>1 DEF Spawn, Types, BooksOK
  <2>q. QED
    BY <2>1, <2>2, <2>3, <2>4 DEF Known
<1>19. ASSUME NEW c \in Conns, Done(c) PROVE Known'
  <2>1. id[c] \in SessionIds /\ UNCHANGED id
    BY <1>19 DEF Done, Numbered, Types, PlacesOK
  <2>2. ASSUME NEW d \in Conns, Running(d)'
        PROVE  workers'[id[d]] = d \/ \E e \in Conns \ {d} : id[e] = id[d]
    <3>1. d # c /\ Running(d) /\ wk[d] # "none"
      BY <1>19, <2>2 DEF Done, Running, Types, PlacesOK
    <3>2. id[d] \in SessionIds
      BY <3>1 DEF Numbered
    <3>q. QED
      BY <1>19, <2>1, <3>1, <3>2 DEF Known, Done, Forget
  <2>q. QED
    BY <2>1, <2>2 DEF Known
<1>20. ASSUME NEW i \in SessionIds, Reap(i) PROVE Known'
  BY <1>20, KnownIfTerminated DEF Reap
<1>21. CASE UNCHANGED vars
  BY <1>21 DEF Known, Running, vars
<1>q. QED
  BY <1>1, <1>2, <1>3, <1>4, <1>5, <1>6, <1>7, <1>8, <1>9, <1>10, <1>11, <1>12, <1>13, <1>14, <1>15,
     <1>16, <1>17, <1>18, <1>19, <1>20, <1>21 DEF Next, ListenerStep, WorkerStep

-----------------------------------------------------------------------------
(* The port and the client *)

LEMMA FitsPosted ==
    ASSUME NEW c \in Conns, NEW b, Fits(c, b), NEW m \in Messages, m # "DATA" \/ Gated(c, b)
    PROVE  /\ Fits(c, Post(b, c, m))
           /\ Gated(c, b) \/ m \in Gates => Gated(c, Post(b, c, m))
  BY Posted DEF Fits, Gated

LEMMA FitsReply ==
    ASSUME Port, Worker, NEW c \in Conns, NEW m \in {"READY", "FAILED"}
    PROVE  Fits(c, ReplyOnce(c, m)) /\ Gated(c, ReplyOnce(c, m))
<1>1. Fits(c, inbox[c]) /\ (proxyReplied[c] => Gated(c, inbox[c])) /\ m \in Messages /\ m \in Gates
  BY DEF Port, Worker, WorkerOf, Messages, Gates
<1>2. QED
  BY <1>1, FitsPosted DEF ReplyOnce, Gates

LEMMA FitsEmpty == ASSUME NEW c \in Conns PROVE Fits(c, <<>>)
  BY NoMessage DEF Fits

\* After a message the client has its answer or is gone.
LEMMA Heard ==
    ASSUME Types, Port, NEW c \in Conns, Hears(c)
    PROVE  /\ \/ sock'[c] \notin {"open", "none", "handshake"} /\ inbox'[c] = <<>>
              \/ sock'[c] = "open" /\ inbox'[c] \in Box /\ told'[c] = "ready"
           /\ told'[c] # "none" <=> hasSentSuccess'[c]
           /\ \A d \in Conns \ {c} : /\ inbox'[d] = inbox[d] /\ sock'[d] = sock[d]
                                    /\ told'[d] = told[d] /\ hasSentSuccess'[d] = hasSentSuccess[d]
<1>1. inbox[c] # <<>> /\ Fits(c, inbox[c]) /\ sock[c] = "open"
  BY DEF Hears, Port, Fits
<1>2. Tail(inbox[c]) \in Box /\ (Head(inbox[c]) = "DATA" => told[c] = "ready")
  BY <1>1, Shortened DEF Fits
<1>3. \/ sock'[c] \notin {"open", "none", "handshake"} /\ inbox'[c] = <<>>
      \/ sock'[c] = "open" /\ inbox'[c] \in Box /\ told'[c] = "ready"
  BY <1>1, <1>2 DEF Hears, Cleanup, Reply, Types, FlagsOK, PlacesOK, Port
<1>4. told'[c] # "none" <=> hasSentSuccess'[c]
  BY DEF Hears, Reply, Types, FlagsOK, PlacesOK, Port
<1>5. \A d \in Conns \ {c} : /\ inbox'[d] = inbox[d] /\ sock'[d] = sock[d]
                             /\ told'[d] = told[d] /\ hasSentSuccess'[d] = hasSentSuccess[d]
  BY DEF Hears, Cleanup, Reply, Types, FlagsOK, PlacesOK
<1>6. QED
  BY <1>3, <1>4, <1>5

\* A worker posts.
LEMMA PortPosts ==
    ASSUME Types, Port, NEW c \in Conns, NEW b, Fits(c, b),
           inbox' = [inbox EXCEPT ![c] = b], UNCHANGED clientVars,
           \A d \in Conns : wk'[d] = wk[d] \/ wk[d] # "none"
    PROVE  Port'
  BY DEF Types, PlacesOK, Port, Fits

\* The listener worker ends.
LEMMA PortTerminated == ASSUME Types, Port, NEW state, Terminated(state) PROVE Port'
<1> SUFFICES ASSUME NEW c \in Conns
             PROVE  /\ Fits(c, <<>>)'
                    /\ sock'[c] \notin {"open", "handshake"}
                    /\ sock[c] = "none" => sock'[c] = "none" /\ wk'[c] = "none"
                    /\ sock[c] # "none" => sock'[c] # "none"
  BY DEF Terminated, Port
<1>1. Fits(c, <<>>)'
  BY NoMessage DEF Fits
<1>2. QED
  BY <1>1 DEF Terminated, Types, PlacesOK, Port

\* The manager ends workers.
LEMMA PortKept ==
    ASSUME Types, Port, UNCHANGED <<inbox, clientVars>>,
           \A d \in Conns : wk'[d] = wk[d] \/ wk[d] # "none"
    PROVE  Port'
  BY DEF Types, PlacesOK, Port, Fits

LEMMA PortStep == ASSUME Types, Port, Worker, Numbered, [Next]_vars PROVE Port'
<1>1. CASE Start
  BY <1>1, PortTerminated DEF Start
<1>2. CASE Stop
  BY <1>2, PortTerminated DEF Stop
<1>3. CASE BindFails
  BY <1>3, FitsEmpty DEF Port, Fits, Types, FlagsOK, PlacesOK, BindFails, SessionsClosed
<1>4. CASE FlushSessions
  BY <1>4, FitsEmpty DEF Port, Fits, Types, FlagsOK, PlacesOK, FlushSessions, SessionsClosed
<1>5. CASE FlushStalled
  <2>1. \A d \in Conns : wk'[d] = wk[d] \/ wk[d] # "none"
    BY <1>5 DEF Types, PlacesOK, BooksOK, Numbered, FlushStalled, TerminateWorkers, SessionIds
  <2>q. QED
    BY <1>5, <2>1, PortKept DEF FlushStalled
<1>6. CASE MgrClose
  <2>1. \A d \in Conns : wk'[d] = wk[d] \/ wk[d] # "none"
    BY <1>6 DEF Types, PlacesOK, BooksOK, Numbered, MgrClose, TerminateWorkers, SessionIds
  <2>q. QED
    BY <1>6, <2>1, PortKept DEF MgrClose
<1>7. ASSUME NEW c \in Conns, Accept(c) PROVE Port'
  BY <1>7, FitsEmpty DEF Port, Fits, Types, FlagsOK, PlacesOK, Accept
<1>8. ASSUME NEW c \in Conns, HandshakeFails(c) PROVE Port'
  BY <1>8, FitsEmpty DEF Port, Fits, Types, FlagsOK, PlacesOK, HandshakeFails, Cleanup
<1>9. ASSUME NEW c \in Conns, RequestTunnel(c) PROVE Port'
  BY <1>9, FitsEmpty DEF Port, Fits, Types, FlagsOK, PlacesOK, RequestTunnel
<1>10. ASSUME NEW c \in Conns, Hears(c) PROVE Port'
  <2>1. UNCHANGED wk
    BY <1>10 DEF Hears
  <2>q. QED
    BY <1>10, <2>1, Heard, NoMessage DEF Port, Fits
<1>11. ASSUME NEW c \in Conns, Connects(c) PROVE Port'
  <2>1. \A d \in Conns : wk'[d] = wk[d] \/ wk[d] # "none"
    BY <1>11 DEF Types, PlacesOK, BooksOK, Numbered, Connects, SessionIds
  <2>q. QED
    BY <1>11, <2>1, PortKept DEF Connects
<1>12. ASSUME NEW c \in Conns, ConnectFails(c) PROVE Port'
  <2>0. Fits(c, inbox[c]) /\ inbox = [inbox EXCEPT ![c] = @]
    BY DEF Port, Types, PlacesOK
  <2>1. PICK b : Fits(c, b) /\ inbox' = [inbox EXCEPT ![c] = b]
    BY <1>12, <2>0, FitsReply DEF ConnectFails, Finish, NextAttempt
  <2>2. \A d \in Conns : wk'[d] = wk[d] \/ wk[d] # "none"
    BY <1>12 DEF Types, PlacesOK, ConnectFails, Finish, NextAttempt
  <2>q. QED
    BY <1>12, <2>1, <2>2, PortPosts DEF ConnectFails
<1>13. ASSUME NEW c \in Conns, TunnelRuns(c) PROVE Port'
  <2>0. Fits(c, inbox[c]) /\ inbox = [inbox EXCEPT ![c] = @]
    BY DEF Port, Types, PlacesOK
  <2>1. PICK b : Fits(c, b) /\ inbox' = [inbox EXCEPT ![c] = b]
    BY <1>13, <2>0, FitsReply DEF TunnelRuns
  <2>2. \A d \in Conns : wk'[d] = wk[d] \/ wk[d] # "none"
    BY <1>13 DEF Types, PlacesOK, TunnelRuns
  <2>q. QED
    BY <1>13, <2>1, <2>2, PortPosts DEF TunnelRuns
<1>14. ASSUME NEW c \in Conns, Writes(c) PROVE Port'
  <2>0. Fits(c, inbox[c]) /\ inbox = [inbox EXCEPT ![c] = @]
    BY DEF Port, Types, PlacesOK
  <2>1. PICK b : Fits(c, b) /\ inbox' = [inbox EXCEPT ![c] = b]
    BY <1>14, <2>0, FitsPosted, MessagesAre DEF Writes, Worker, WorkerOf
  <2>2. \A d \in Conns : wk'[d] = wk[d] \/ wk[d] # "none"
    BY <1>14 DEF Types, PlacesOK, Writes
  <2>q. QED
    BY <1>14, <2>1, <2>2, PortPosts DEF Writes
<1>15. ASSUME NEW c \in Conns, ClosesWriter(c) PROVE Port'
  <2>0. Fits(c, inbox[c]) /\ inbox = [inbox EXCEPT ![c] = @]
    BY DEF Port, Types, PlacesOK
  <2>1. PICK b : Fits(c, b) /\ inbox' = [inbox EXCEPT ![c] = b]
    BY <1>15, <2>0, FitsPosted, MessagesAre DEF ClosesWriter
  <2>2. \A d \in Conns : wk'[d] = wk[d] \/ wk[d] # "none"
    BY <1>15 DEF Types, PlacesOK, ClosesWriter
  <2>q. QED
    BY <1>15, <2>1, <2>2, PortPosts DEF ClosesWriter
<1>16. ASSUME NEW c \in Conns, TunnelReturns(c) PROVE Port'
  <2>0. Fits(c, inbox[c]) /\ inbox = [inbox EXCEPT ![c] = @]
    BY DEF Port, Types, PlacesOK
  <2>1. PICK b : Fits(c, b) /\ inbox' = [inbox EXCEPT ![c] = b]
    BY <1>16, <2>0, FitsReply DEF TunnelReturns, Finish, NextAttempt
  <2>2. \A d \in Conns : wk'[d] = wk[d] \/ wk[d] # "none"
    BY <1>16 DEF Types, PlacesOK, TunnelReturns, Finish, NextAttempt
  <2>q. QED
    BY <1>16, <2>1, <2>2, PortPosts DEF TunnelReturns
<1>17. ASSUME NEW c \in Conns, StaleConfirms(c) PROVE Port'
  <2>0. Fits(c, inbox[c]) /\ inbox = [inbox EXCEPT ![c] = @]
    BY DEF Port, Types, PlacesOK
  <2>1. PICK b : Fits(c, b) /\ inbox' = [inbox EXCEPT ![c] = b]
    BY <1>17, <2>0, FitsReply, FitsPosted, MessagesAre DEF StaleConfirms
  <2>2. \A d \in Conns : wk'[d] = wk[d] \/ wk[d] # "none"
    BY <1>17 DEF Types, PlacesOK, StaleConfirms
  <2>q. QED
    BY <1>17, <2>1, <2>2, PortPosts DEF StaleConfirms
<1>18. ASSUME NEW c \in Conns, Spawn(c) PROVE Port'
  <2>0. Fits(c, inbox[c]) /\ inbox = [inbox EXCEPT ![c] = @]
    BY DEF Port, Types, PlacesOK
  <2>1. PICK b : Fits(c, b) /\ inbox' = [inbox EXCEPT ![c] = b]
    BY <1>18, <2>0, FitsPosted, MessagesAre DEF Spawn
  <2>2. \A d \in Conns : wk'[d] = wk[d] \/ wk[d] # "none"
    BY <1>18 DEF Types, PlacesOK, Spawn
  <2>q. QED
    BY <1>18, <2>1, <2>2, PortPosts DEF Spawn
<1>19. ASSUME NEW c \in Conns, Done(c) PROVE Port'
  <2>1. \A d \in Conns : wk'[d] = wk[d] \/ wk[d] # "none"
    BY <1>19 DEF Types, PlacesOK, BooksOK, Numbered, Done, SessionIds
  <2>q. QED
    BY <1>19, <2>1, PortKept DEF Done
<1>20. ASSUME NEW i \in SessionIds, Reap(i) PROVE Port'
  <2>1. \A d \in Conns : wk'[d] = wk[d] \/ wk[d] # "none"
    BY <1>20 DEF Types, PlacesOK, BooksOK, Numbered, Reap, TerminateWorkers, SessionIds
  <2>q. QED
    BY <1>20, <2>1, PortKept DEF Reap
<1>21. CASE UNCHANGED vars
  BY <1>21 DEF Port, Fits, vars
<1>q. QED
  BY <1>1, <1>2, <1>3, <1>4, <1>5, <1>6, <1>7, <1>8, <1>9, <1>10, <1>11, <1>12, <1>13, <1>14, <1>15,
     <1>16, <1>17, <1>18, <1>19, <1>20, <1>21 DEF Next, ListenerStep, WorkerStep

-----------------------------------------------------------------------------
(* The session workers *)

LEMMA ForgottenFacts ==
    ASSUME FlagsOK, NEW cs, Forgotten(cs), NEW d \in Conns
    PROVE  /\ d \in cs => ~proxyReplied'[d] /\ ~stale'[d] /\ ~tun'[d]["hs"]
           /\ d \notin cs => /\ proxyReplied'[d] = proxyReplied[d] /\ stale'[d] = stale[d]
                             /\ tun'[d] = tun[d]
<1>1. d \in cs => ~proxyReplied'[d] /\ ~stale'[d]
  BY Zenon DEF Forgotten
<1>2. d \notin cs => proxyReplied'[d] = proxyReplied[d] /\ stale'[d] = stale[d]
  <2>1. proxyReplied'[d] = (d \notin cs /\ proxyReplied[d]) /\ stale'[d] = (d \notin cs /\ stale[d])
    BY Zenon DEF Forgotten
  <2>2. proxyReplied[d] \in BOOLEAN /\ stale[d] \in BOOLEAN
    BY Zenon DEF FlagsOK
  <2>3. QED
    BY <2>1, <2>2
<1>3. (d \in cs => ~tun'[d]["hs"]) /\ (d \notin cs => tun'[d] = tun[d])
  BY FreshTunnel DEF Forgotten
<1>4. QED
  BY <1>1, <1>2, <1>3

\* The workers of cs end.
LEMMA WorkersEnd ==
    ASSUME Types, Worker, UNCHANGED <<inbox, clientVars>>, NEW cs, Forgotten(cs),
           \A d \in Conns : IF d \in cs THEN wk'[d] \in {"gone", "left"} ELSE wk'[d] = wk[d]
    PROVE  Worker'
<1> SUFFICES ASSUME NEW d \in Conns PROVE WorkerOf(d)'
  BY DEF WorkerOf, Worker
<1>1. CASE d \in cs
  BY <1>1, ForgottenFacts DEF Types, WorkerOf
<1>2. CASE d \notin cs
  BY <1>2, ForgottenFacts DEF Types, Worker, WorkerOf, Gated
<1>3. QED
  BY <1>1, <1>2

\* Nothing but what c's worker does, and what is posted for it.
LEMMA WorkerPosts ==
    ASSUME Types, Worker, NEW c \in Conns, NEW b, inbox' = [inbox EXCEPT ![c] = b],
           UNCHANGED <<sock, told>>, WorkerOf(c)',
           \A d \in Conns \ {c} : /\ wk'[d] = wk[d] /\ proxyReplied'[d] = proxyReplied[d]
                                  /\ tun'[d] = tun[d] /\ stale'[d] = stale[d]
    PROVE  Worker'
<1> SUFFICES ASSUME NEW d \in Conns, d # c PROVE WorkerOf(d)'
  BY DEF WorkerOf, Worker
<1>1. inbox'[d] = inbox[d]
  BY DEF Types, PlacesOK
<1>2. QED
  BY <1>1 DEF Worker, WorkerOf, Gated

\* Nothing is replied or finished; who is gated before is so after.
LEMMA WorkerKept ==
    ASSUME Worker, UNCHANGED <<proxyReplied, tun, stale>>,
           \A c \in Conns : /\ \/ wk'[c] = wk[c]
                               \/ /\ wk'[c] # "done"
                                  /\ wk'[c] \in {"connect", "run"} \/ wk[c] \notin {"connect", "run"}
                            /\ wk[c] # "none" /\ Gated(c, inbox[c]) => Gated(c, inbox[c])'
                            /\ wk'[c] # "none" /\ wk[c] = "none" => ~proxyReplied[c]
    PROVE  Worker'
  BY DEF Worker, WorkerOf

LEMMA WorkerPart == ASSUME Types, Port, Worker, [Next]_vars PROVE Worker'
<1>1. CASE Start
  <2>1. \A d \in Conns : wk[d] = "none" => ~proxyReplied[d]
    BY DEF Worker, WorkerOf
  <2>2. \A d \in Conns : Gated(d, inbox[d]) => wk[d] = "none" \/ Gated(d, inbox[d])'
    BY <1>1 DEF Gated, Port, Types, PlacesOK, Start, Terminated
  <2>3. \A d \in Conns : \/ wk'[d] = wk[d]
                         \/ /\ wk'[d] # "done"
                            /\ wk'[d] \in {"connect", "run"} \/ wk[d] \notin {"connect", "run"}
    BY <1>1 DEF Port, Types, PlacesOK, Start, Terminated
  <2>q. QED
    BY <1>1, <2>1, <2>2, <2>3, WorkerKept DEF Start
<1>2. CASE Stop
  <2>1. \A d \in Conns : wk[d] = "none" => ~proxyReplied[d]
    BY DEF Worker, WorkerOf
  <2>2. \A d \in Conns : Gated(d, inbox[d]) => wk[d] = "none" \/ Gated(d, inbox[d])'
    BY <1>2 DEF Gated, Port, Types, PlacesOK, Stop, Terminated
  <2>3. \A d \in Conns : \/ wk'[d] = wk[d]
                         \/ /\ wk'[d] # "done"
                            /\ wk'[d] \in {"connect", "run"} \/ wk[d] \notin {"connect", "run"}
    BY <1>2 DEF Port, Types, PlacesOK, Stop, Terminated
  <2>q. QED
    BY <1>2, <2>1, <2>2, <2>3, WorkerKept DEF Stop
<1>3. CASE BindFails
  <2>1. \A d \in Conns : wk[d] = "none" => ~proxyReplied[d]
    BY DEF Worker, WorkerOf
  <2>2. \A d \in Conns : Gated(d, inbox[d]) => wk[d] = "none" \/ Gated(d, inbox[d])'
    BY <1>3 DEF Gated, Port, Types, PlacesOK, BindFails, SessionsClosed
  <2>3. \A d \in Conns : \/ wk'[d] = wk[d]
                         \/ /\ wk'[d] # "done"
                            /\ wk'[d] \in {"connect", "run"} \/ wk[d] \notin {"connect", "run"}
    BY <1>3 DEF Port, Types, PlacesOK, BindFails, SessionsClosed
  <2>q. QED
    BY <1>3, <2>1, <2>2, <2>3, WorkerKept DEF BindFails, SessionsClosed
<1>4. CASE FlushSessions
  <2>1. \A d \in Conns : wk[d] = "none" => ~proxyReplied[d]
    BY DEF Worker, WorkerOf
  <2>2. \A d \in Conns : Gated(d, inbox[d]) => wk[d] = "none" \/ Gated(d, inbox[d])'
    BY <1>4 DEF Gated, Port, Types, PlacesOK, FlushSessions, SessionsClosed
  <2>3. \A d \in Conns : \/ wk'[d] = wk[d]
                         \/ /\ wk'[d] # "done"
                            /\ wk'[d] \in {"connect", "run"} \/ wk[d] \notin {"connect", "run"}
    BY <1>4 DEF Port, Types, PlacesOK, FlushSessions, SessionsClosed
  <2>q. QED
    BY <1>4, <2>1, <2>2, <2>3, WorkerKept DEF FlushSessions, SessionsClosed
<1>5. CASE FlushStalled
  <2>1. PICK cs : /\ Forgotten(cs)
                  /\ \A d \in Conns : IF d \in cs THEN wk'[d] \in {"gone", "left"} ELSE wk'[d] = wk[d]
    BY <1>5 DEF FlushStalled, TerminateWorkers
  <2>q. QED
    BY <1>5, <2>1, WorkersEnd DEF FlushStalled
<1>6. CASE MgrClose
  <2>1. PICK cs : /\ Forgotten(cs)
                  /\ \A d \in Conns : IF d \in cs THEN wk'[d] \in {"gone", "left"} ELSE wk'[d] = wk[d]
    BY <1>6 DEF MgrClose, TerminateWorkers
  <2>q. QED
    BY <1>6, <2>1, WorkersEnd DEF MgrClose
<1>7. ASSUME NEW c \in Conns, Accept(c) PROVE Worker'
  <2>1. \A d \in Conns : wk[d] = "none" => ~proxyReplied[d]
    BY DEF Worker, WorkerOf
  <2>2. \A d \in Conns : Gated(d, inbox[d]) => wk[d] = "none" \/ Gated(d, inbox[d])'
    BY <1>7 DEF Gated, Port, Types, PlacesOK, Accept
  <2>3. \A d \in Conns : \/ wk'[d] = wk[d]
                         \/ /\ wk'[d] # "done"
                            /\ wk'[d] \in {"connect", "run"} \/ wk[d] \notin {"connect", "run"}
    BY <1>7 DEF Port, Types, PlacesOK, Accept
  <2>q. QED
    BY <1>7, <2>1, <2>2, <2>3, WorkerKept DEF Accept
<1>8. ASSUME NEW c \in Conns, HandshakeFails(c) PROVE Worker'
  <2>1. \A d \in Conns : wk[d] = "none" => ~proxyReplied[d]
    BY DEF Worker, WorkerOf
  <2>2. \A d \in Conns : Gated(d, inbox[d]) => wk[d] = "none" \/ Gated(d, inbox[d])'
    BY <1>8 DEF Gated, Port, Types, PlacesOK, HandshakeFails, Cleanup
  <2>3. \A d \in Conns : \/ wk'[d] = wk[d]
                         \/ /\ wk'[d] # "done"
                            /\ wk'[d] \in {"connect", "run"} \/ wk[d] \notin {"connect", "run"}
    BY <1>8 DEF Port, Types, PlacesOK, HandshakeFails
  <2>q. QED
    BY <1>8, <2>1, <2>2, <2>3, WorkerKept DEF HandshakeFails
<1>9. ASSUME NEW c \in Conns, RequestTunnel(c) PROVE Worker'
  <2>1. \A d \in Conns : wk[d] = "none" => ~proxyReplied[d]
    BY DEF Worker, WorkerOf
  <2>2. \A d \in Conns : Gated(d, inbox[d]) => wk[d] = "none" \/ Gated(d, inbox[d])'
    BY <1>9 DEF Gated, Port, Types, PlacesOK, RequestTunnel
  <2>3. \A d \in Conns : \/ wk'[d] = wk[d]
                         \/ /\ wk'[d] # "done"
                            /\ wk'[d] \in {"connect", "run"} \/ wk[d] \notin {"connect", "run"}
    BY <1>9 DEF Port, Types, PlacesOK, RequestTunnel
  <2>q. QED
    BY <1>9, <2>1, <2>2, <2>3, WorkerKept DEF RequestTunnel
<1>10. ASSUME NEW c \in Conns, Hears(c) PROVE Worker'
  <2>1. \A d \in Conns : Gated(d, inbox[d]) => Gated(d, inbox[d])'
    BY <1>10, Heard DEF Gated
  <2>q. QED
    BY <1>10, <2>1, WorkerKept DEF Hears
<1>11. ASSUME NEW c \in Conns, Connects(c) PROVE Worker'
  <2>1. \A d \in Conns : wk[d] = "none" => ~proxyReplied[d]
    BY DEF Worker, WorkerOf
  <2>2. \A d \in Conns : Gated(d, inbox[d]) => wk[d] = "none" \/ Gated(d, inbox[d])'
    BY <1>11 DEF Gated, Port, Types, PlacesOK, Connects
  <2>3. \A d \in Conns : \/ wk'[d] = wk[d]
                         \/ /\ wk'[d] # "done"
                            /\ wk'[d] \in {"connect", "run"} \/ wk[d] \notin {"connect", "run"}
    BY <1>11 DEF Port, Types, PlacesOK, Connects
  <2>q. QED
    BY <1>11, <2>1, <2>2, <2>3, WorkerKept DEF Connects
<1>12. ASSUME NEW c \in Conns, ConnectFails(c) PROVE Worker'
  <2>0. /\ Fits(c, inbox[c]) /\ inbox = [inbox EXCEPT ![c] = @] /\ WorkerOf(c)
        /\ \A b : Gated(c, b)' <=> Gated(c, b)
    BY <1>12 DEF Port, Worker, WorkerOf, Types, PlacesOK, Gated, ConnectFails
  <2>1. PICK b : inbox' = [inbox EXCEPT ![c] = b] /\ WorkerOf(c)'
    <3>1. CASE Finish(c, FALSE)
      <4>1. WorkerOf(c)' /\ inbox' = [inbox EXCEPT ![c] = ReplyOnce(c, "FAILED")]
        BY <2>0, <3>1, FitsReply, ForgottenFacts DEF Finish, Types, PlacesOK, WorkerOf
      <4>2. QED
        BY <4>1
    <3>2. CASE NextAttempt(c)
      BY <2>0, <3>2, FreshTunnel DEF NextAttempt, Types, FlagsOK, PlacesOK, WorkerOf
    <3>3. QED
      BY <1>12, <3>1, <3>2 DEF ConnectFails
  <2>2. \A d \in Conns \ {c} : /\ wk'[d] = wk[d] /\ proxyReplied'[d] = proxyReplied[d]
                               /\ tun'[d] = tun[d] /\ stale'[d] = stale[d]
    BY <1>12, ForgottenFacts DEF ConnectFails, Types, FlagsOK, PlacesOK, Finish, NextAttempt
  <2>q. QED
    BY <1>12, <2>1, <2>2, WorkerPosts DEF ConnectFails
<1>13. ASSUME NEW c \in Conns, TunnelRuns(c) PROVE Worker'
  <2>0. /\ Fits(c, inbox[c]) /\ inbox = [inbox EXCEPT ![c] = @] /\ WorkerOf(c)
        /\ \A b : Gated(c, b)' <=> Gated(c, b)
    BY <1>13 DEF Port, Worker, WorkerOf, Types, PlacesOK, Gated, TunnelRuns
  <2>1. PICK b : inbox' = [inbox EXCEPT ![c] = b] /\ WorkerOf(c)'
    <3>1. PICK r, confirms, refuses :
             /\ r \in Successors(tun[c], IsFinal(c))
             /\ confirms = (r.hs /\ ~tun[c].hs)
             /\ inbox' = [inbox EXCEPT ![c] = IF confirms THEN ReplyOnce(c, "READY")
                                              ELSE IF refuses THEN ReplyOnce(c, "FAILED") ELSE @]
             /\ proxyReplied' = [proxyReplied EXCEPT ![c] = @ \/ confirms \/ refuses]
             /\ tun' = [tun EXCEPT ![c] = r]
      BY <1>13, Zenon DEF TunnelRuns
    <3>2. QED
      BY <1>13, <2>0, <3>1, FitsReply DEF TunnelRuns, Types, FlagsOK, PlacesOK, WorkerOf
  <2>2. \A d \in Conns \ {c} : /\ wk'[d] = wk[d] /\ proxyReplied'[d] = proxyReplied[d]
                               /\ tun'[d] = tun[d] /\ stale'[d] = stale[d]
    BY <1>13 DEF TunnelRuns, Types, FlagsOK, PlacesOK
  <2>q. QED
    BY <1>13, <2>1, <2>2, WorkerPosts DEF TunnelRuns
<1>14. ASSUME NEW c \in Conns, Writes(c) PROVE Worker'
  <2>0. /\ Fits(c, inbox[c]) /\ inbox = [inbox EXCEPT ![c] = @] /\ WorkerOf(c)
        /\ \A b : Gated(c, b)' <=> Gated(c, b)
    BY <1>14 DEF Port, Worker, WorkerOf, Types, PlacesOK, Gated, Writes
  <2>1. PICK b : inbox' = [inbox EXCEPT ![c] = b] /\ WorkerOf(c)'
    BY <1>14, <2>0, FitsPosted, MessagesAre DEF Writes, Types, PlacesOK, WorkerOf
  <2>2. \A d \in Conns \ {c} : /\ wk'[d] = wk[d] /\ proxyReplied'[d] = proxyReplied[d]
                               /\ tun'[d] = tun[d] /\ stale'[d] = stale[d]
    BY <1>14 DEF Writes, Types, FlagsOK, PlacesOK
  <2>q. QED
    BY <1>14, <2>1, <2>2, WorkerPosts DEF Writes
<1>15. ASSUME NEW c \in Conns, ClosesWriter(c) PROVE Worker'
  <2>0. /\ Fits(c, inbox[c]) /\ inbox = [inbox EXCEPT ![c] = @] /\ WorkerOf(c)
        /\ \A b : Gated(c, b)' <=> Gated(c, b)
    BY <1>15 DEF Port, Worker, WorkerOf, Types, PlacesOK, Gated, ClosesWriter
  <2>1. PICK b : inbox' = [inbox EXCEPT ![c] = b] /\ WorkerOf(c)'
    BY <1>15, <2>0, FitsPosted, MessagesAre DEF ClosesWriter, Types, PlacesOK, WorkerOf
  <2>2. \A d \in Conns \ {c} : /\ wk'[d] = wk[d] /\ proxyReplied'[d] = proxyReplied[d]
                               /\ tun'[d] = tun[d] /\ stale'[d] = stale[d]
    BY <1>15 DEF ClosesWriter, Types, FlagsOK, PlacesOK
  <2>q. QED
    BY <1>15, <2>1, <2>2, WorkerPosts DEF ClosesWriter
<1>16. ASSUME NEW c \in Conns, TunnelReturns(c) PROVE Worker'
  <2>0. /\ Fits(c, inbox[c]) /\ inbox = [inbox EXCEPT ![c] = @] /\ WorkerOf(c)
        /\ \A b : Gated(c, b)' <=> Gated(c, b)
    BY <1>16 DEF Port, Worker, WorkerOf, Types, PlacesOK, Gated, TunnelReturns
  <2>1. PICK b : inbox' = [inbox EXCEPT ![c] = b] /\ WorkerOf(c)'
    <3>1. PICK o \in Outcomes(tun[c]) :
             \/ Finish(c, o.success)
             \/ NextAttempt(c)
      BY <1>16 DEF TunnelReturns
    <3>2. CASE Finish(c, o.success)
      <4>1. DEFINE b == IF o.success THEN inbox[c] ELSE ReplyOnce(c, "FAILED")
      <4>2. Gated(c, b)
        BY <2>0, FitsReply DEF Outcomes, WorkerOf
      <4>3. inbox' = [inbox EXCEPT ![c] = b] /\ WorkerOf(c)'
        BY <2>0, <3>2, <4>2, ForgottenFacts DEF Finish, Types, PlacesOK, WorkerOf
      <4>4. QED
        BY <4>3
    <3>3. CASE NextAttempt(c)
      BY <2>0, <3>3, FreshTunnel DEF NextAttempt, Types, FlagsOK, PlacesOK, WorkerOf
    <3>4. QED
      BY <3>1, <3>2, <3>3
  <2>2. \A d \in Conns \ {c} : /\ wk'[d] = wk[d] /\ proxyReplied'[d] = proxyReplied[d]
                               /\ tun'[d] = tun[d] /\ stale'[d] = stale[d]
    BY <1>16, ForgottenFacts DEF TunnelReturns, Types, FlagsOK, PlacesOK, Finish, NextAttempt
  <2>q. QED
    BY <1>16, <2>1, <2>2, WorkerPosts DEF TunnelReturns
<1>17. ASSUME NEW c \in Conns, StaleConfirms(c) PROVE Worker'
  <2>0. /\ Fits(c, inbox[c]) /\ inbox = [inbox EXCEPT ![c] = @] /\ WorkerOf(c)
        /\ \A b : Gated(c, b)' <=> Gated(c, b)
    BY <1>17 DEF Port, Worker, WorkerOf, Types, PlacesOK, Gated, StaleConfirms
  <2>1. PICK b : inbox' = [inbox EXCEPT ![c] = b] /\ WorkerOf(c)'
    <3>1. PICK fin \in BOOLEAN :
             inbox' = [inbox EXCEPT ![c] = IF fin THEN Post(ReplyOnce(c, "READY"), c, "END")
                                           ELSE ReplyOnce(c, "READY")]
      BY <1>17 DEF StaleConfirms
    <3>2. \E b : inbox' = [inbox EXCEPT ![c] = b] /\ Gated(c, b)
      BY <3>1, FitsReply, FitsPosted, MessagesAre
    <3>3. PICK b : inbox' = [inbox EXCEPT ![c] = b] /\ Gated(c, b)
      BY <3>2
    <3>4. WorkerOf(c)'
      BY <1>17, <2>0, <3>3 DEF StaleConfirms, Types, FlagsOK, PlacesOK, WorkerOf
    <3>5. QED
      BY <3>3, <3>4
  <2>2. \A d \in Conns \ {c} : /\ wk'[d] = wk[d] /\ proxyReplied'[d] = proxyReplied[d]
                               /\ tun'[d] = tun[d] /\ stale'[d] = stale[d]
    BY <1>17 DEF StaleConfirms, Types, FlagsOK, PlacesOK
  <2>q. QED
    BY <1>17, <2>1, <2>2, WorkerPosts DEF StaleConfirms
<1>18. ASSUME NEW c \in Conns, Spawn(c) PROVE Worker'
  <2>0. /\ Fits(c, inbox[c]) /\ inbox = [inbox EXCEPT ![c] = @] /\ WorkerOf(c)
        /\ \A b : Gated(c, b)' <=> Gated(c, b)
    BY <1>18 DEF Port, Worker, WorkerOf, Types, PlacesOK, Gated, Spawn
  <2>1. PICK b : inbox' = [inbox EXCEPT ![c] = b] /\ WorkerOf(c)'
    BY <1>18, <2>0, FitsPosted, MessagesAre DEF Spawn, Types, PlacesOK, WorkerOf
  <2>2. \A d \in Conns \ {c} : /\ wk'[d] = wk[d] /\ proxyReplied'[d] = proxyReplied[d]
                               /\ tun'[d] = tun[d] /\ stale'[d] = stale[d]
    BY <1>18 DEF Spawn, Types, FlagsOK, PlacesOK
  <2>q. QED
    BY <1>18, <2>1, <2>2, WorkerPosts DEF Spawn
<1>19. ASSUME NEW c \in Conns, Done(c) PROVE Worker'
  <2>1. \A d \in Conns : IF d \in {c} \cup {e \in Conns : workers[id[c]] = e}
                       THEN wk'[d] \in {"gone", "left"} ELSE wk'[d] = wk[d]
    BY <1>19 DEF Done
  <2>q. QED
    BY <1>19, <2>1, WorkersEnd DEF Done
<1>20. ASSUME NEW i \in SessionIds, Reap(i) PROVE Worker'
  <2>1. PICK cs : /\ Forgotten(cs)
                  /\ \A d \in Conns : IF d \in cs THEN wk'[d] \in {"gone", "left"} ELSE wk'[d] = wk[d]
    BY <1>20 DEF Reap, TerminateWorkers
  <2>q. QED
    BY <1>20, <2>1, WorkersEnd DEF Reap
<1>21. CASE UNCHANGED vars
  BY <1>21 DEF Worker, WorkerOf, Gated, vars
<1>q. QED
  BY <1>1, <1>2, <1>3, <1>4, <1>5, <1>6, <1>7, <1>8, <1>9, <1>10, <1>11, <1>12, <1>13, <1>14, <1>15,
     <1>16, <1>17, <1>18, <1>19, <1>20, <1>21 DEF Next, ListenerStep, WorkerStep

-----------------------------------------------------------------------------
(* What the client is told *)

LEMMA AnswerStep == ASSUME Types, Port, OneAnswer, [Next]_vars PROVE OneAnswer'
<1>1. CASE Start
  BY <1>1 DEF OneAnswer, Types, FlagsOK, PlacesOK, Start, Terminated
<1>2. CASE Stop
  BY <1>2 DEF OneAnswer, Types, FlagsOK, PlacesOK, Stop, Terminated
<1>3. CASE BindFails
  BY <1>3 DEF OneAnswer, Types, FlagsOK, PlacesOK, BindFails, SessionsClosed
<1>4. CASE FlushSessions
  BY <1>4 DEF OneAnswer, Types, FlagsOK, PlacesOK, FlushSessions, SessionsClosed
<1>5. CASE FlushStalled
  BY <1>5 DEF OneAnswer, Types, FlagsOK, PlacesOK, FlushStalled
<1>6. CASE MgrClose
  BY <1>6 DEF OneAnswer, Types, FlagsOK, PlacesOK, MgrClose
<1>7. ASSUME NEW c \in Conns, Accept(c) PROVE OneAnswer'
  BY <1>7 DEF OneAnswer, Types, FlagsOK, PlacesOK, Accept
<1>8. ASSUME NEW c \in Conns, HandshakeFails(c) PROVE OneAnswer'
  BY <1>8 DEF OneAnswer, Types, FlagsOK, PlacesOK, HandshakeFails
<1>9. ASSUME NEW c \in Conns, RequestTunnel(c) PROVE OneAnswer'
  BY <1>9 DEF OneAnswer, Types, FlagsOK, PlacesOK, RequestTunnel
<1>10. ASSUME NEW c \in Conns, Hears(c) PROVE OneAnswer'
  <2>1. Fits(c, inbox[c]) /\ inbox[c] # <<>>
    BY <1>10 DEF Hears, Port
  <2>2. Head(inbox[c]) = "DATA" => told[c] = "ready"
    BY <2>1, Shortened DEF Fits
  <2>3. hasSentSuccess[c] <=> told[c] # "none"
    BY DEF Port
  <2>4. got'[c] => told'[c] = "ready"
    BY <1>10, <2>2, <2>3 DEF OneAnswer, Hears, Reply, Types, FlagsOK, PlacesOK
  <2>5. \A d \in Conns \ {c} : got'[d] = got[d] /\ told'[d] = told[d]
    BY <1>10 DEF Hears, Reply, Types, FlagsOK, PlacesOK
  <2>q. QED
    BY <2>4, <2>5 DEF OneAnswer
<1>11. ASSUME NEW c \in Conns, Connects(c) PROVE OneAnswer'
  BY <1>11 DEF OneAnswer, Types, FlagsOK, PlacesOK, Connects
<1>12. ASSUME NEW c \in Conns, ConnectFails(c) PROVE OneAnswer'
  BY <1>12 DEF OneAnswer, Types, FlagsOK, PlacesOK, ConnectFails
<1>13. ASSUME NEW c \in Conns, TunnelRuns(c) PROVE OneAnswer'
  BY <1>13 DEF OneAnswer, Types, FlagsOK, PlacesOK, TunnelRuns
<1>14. ASSUME NEW c \in Conns, Writes(c) PROVE OneAnswer'
  BY <1>14 DEF OneAnswer, Types, FlagsOK, PlacesOK, Writes
<1>15. ASSUME NEW c \in Conns, ClosesWriter(c) PROVE OneAnswer'
  BY <1>15 DEF OneAnswer, Types, FlagsOK, PlacesOK, ClosesWriter
<1>16. ASSUME NEW c \in Conns, TunnelReturns(c) PROVE OneAnswer'
  BY <1>16 DEF OneAnswer, Types, FlagsOK, PlacesOK, TunnelReturns
<1>17. ASSUME NEW c \in Conns, StaleConfirms(c) PROVE OneAnswer'
  BY <1>17 DEF OneAnswer, Types, FlagsOK, PlacesOK, StaleConfirms
<1>18. ASSUME NEW c \in Conns, Spawn(c) PROVE OneAnswer'
  BY <1>18 DEF OneAnswer, Types, FlagsOK, PlacesOK, Spawn
<1>19. ASSUME NEW c \in Conns, Done(c) PROVE OneAnswer'
  BY <1>19 DEF OneAnswer, Types, FlagsOK, PlacesOK, Done
<1>20. ASSUME NEW i \in SessionIds, Reap(i) PROVE OneAnswer'
  BY <1>20 DEF OneAnswer, Types, FlagsOK, PlacesOK, Reap
<1>21. CASE UNCHANGED vars
  BY <1>21 DEF OneAnswer, vars
<1>q. QED
  BY <1>1, <1>2, <1>3, <1>4, <1>5, <1>6, <1>7, <1>8, <1>9, <1>10, <1>11, <1>12, <1>13, <1>14, <1>15,
     <1>16, <1>17, <1>18, <1>19, <1>20, <1>21 DEF Next, ListenerStep, WorkerStep

-----------------------------------------------------------------------------
LEMMA InitInv == Init => IInv
<1> SUFFICES ASSUME Init PROVE IInv
  OBVIOUS
<1>1. FlagsOK
  BY FreshTunnel DEF Init, FlagsOK
<1>2. PlacesOK
  BY NoMessage, WorkersAssumption DEF Init, PlacesOK
<1>3. BooksOK
  BY NoSlot, SeenSize DEF Init, BooksOK
<1>4. Port /\ OneAnswer
  BY FitsEmpty DEF Init, Port, OneAnswer
<1>5. Worker
  BY FreshTunnel DEF Init, Worker, WorkerOf
<1>6. Numbered
  BY SeenSize, WorkersAssumption DEF Init, Numbered
<1>7. Known /\ Tracked
  BY DEF Init, Known, Running, Tracked
<1>8. QED
  BY <1>1, <1>2, <1>3, <1>4, <1>5, <1>6, <1>7 DEF IInv, Types

LEMMA NextInv == IInv /\ [Next]_vars => IInv'
<1> SUFFICES ASSUME IInv, [Next]_vars PROVE IInv'
  OBVIOUS
<1> USE DEF IInv
<1>1. Types'
  BY FlagsStep, PlacesStep, BooksStep DEF Types
<1>2. Port' /\ Worker' /\ Numbered'
  BY PortStep, WorkerPart, NumberedStep
<1>3. OneAnswer' /\ Known' /\ Tracked'
  BY AnswerStep, KnownStep, TrackerStep
<1>4. QED
  BY <1>1, <1>2, <1>3

LEMMA Invariance == Spec => []IInv
  BY InitInv, NextInv, PTL DEF Spec

-----------------------------------------------------------------------------
(* Theorems *)

\* A client gets data only after its one success reply: no attempt, late
\* decoder, flush or restart of the listener worker puts another answer, or data
\* without one, on the wire.
THEOREM OneAnswerEach == Spec => []OneAnswer
<1>1. IInv => OneAnswer
  BY DEF IInv
<1>2. QED
  BY <1>1, Invariance, PTL

\* A session worker that runs can be found by the reaper, the flush and close(),
\* unless a later listener worker has given its id away; and the tracker counts
\* one session for each worker in the manager's map.
THEOREM WorkersAreKnown == Spec => []WorkersKnown
<1>1. IInv => WorkersKnown
  <2> SUFFICES ASSUME IInv PROVE TypeOK
    BY DEF IInv, WorkersKnown, Tracked
  <2>1. inbox \in [Conns -> Seq({"READY", "FAILED", "DATA", "END"})]
    BY DEF IInv, Types, PlacesOK, Box, Messages
  <2>2. tun \in [Conns -> [Fields -> BOOLEAN]]
    BY DEF IInv, Types, FlagsOK, Tunnels
  <2>3. QED
    BY <2>1, <2>2 DEF IInv, Types, FlagsOK, PlacesOK, BooksOK, TypeOK
<1>2. QED
  BY <1>1, Invariance, PTL

\* The client of a worker that is done has an answer or is gone, once it has
\* heard what the worker had posted.
THEOREM EveryoneIsAnswered == Spec => []Answered
<1>1. IInv => Answered
  <2> SUFFICES ASSUME IInv, NEW c \in Conns, wk[c] = "done", inbox[c] = <<>>
               PROVE  told[c] # "none" \/ sock[c] # "open"
    BY DEF Answered
  <2>1. Gated(c, inbox[c])
    BY DEF IInv, Worker, WorkerOf
  <2>2. QED
    BY <2>1, NoMessage DEF Gated
<1>2. QED
  BY <1>1, Invariance, PTL

-----------------------------------------------------------------------------
(* The gauge of the queue *)

LEMMA LeastNat == ASSUME NEW T, T \subseteq Nat, T # {} PROVE \E x \in T : \A y \in T : x <= y
<1>1. IsWellFoundedOn(OpToRel(<, Nat), Nat)
  BY NatLessThanWellFounded
<1>2. PICK x \in T : \A y \in T : ~(<<y, x>> \in OpToRel(<, Nat))
  BY <1>1, WFMin
<1>3. ASSUME NEW y \in T PROVE x <= y
  <2>1. ~(y < x)
    BY <1>2 DEF OpToRel
  <2>2. QED
    BY <2>1
<1>4. QED
  BY <1>3

\* There are partial sums over the queue that never fall and end at total.
Sums(q, total) ==
    \E f \in [0..Len(q) -> Nat] :
        /\ f[0] = 0 /\ f[Len(q)] = total
        /\ \A i \in 1..Len(q) : Weight(q[i]) = f[i] - f[i - 1]
        /\ \A i, j \in 0..Len(q) : i <= j => f[i] <= f[j]

LEMMA MeasureIs == ASSUME NEW q, Len(q) \in Nat, NEW t, Sums(q, t) PROVE Measure(q) = t
<1> DEFINE L == Len(q)
           Eq(g) == g = [n \in 0..L |-> IF n = 0 THEN 0 ELSE g[n - 1] + Weight(q[n])]
           sum == CHOOSE g : Eq(g)
<1>1. PICK f \in [0..L -> Nat] : /\ f[0] = 0 /\ f[L] = t
                                 /\ \A i \in 1..L : Weight(q[i]) = f[i] - f[i - 1]
  BY DEF Sums
<1>2. Eq(f)
  <2>1. ASSUME NEW n \in 0..L PROVE f[n] = IF n = 0 THEN 0 ELSE f[n - 1] + Weight(q[n])
    <3>1. CASE n = 0
      BY <1>1, <3>1
    <3>2. CASE n # 0
      <4>1. L \in Nat
        OBVIOUS
      <4> HIDE DEF L
      <4>2. n \in 1..L /\ n - 1 \in 0..L
        BY <3>2, <4>1
      <4>3. Weight(q[n]) = f[n] - f[n - 1] /\ f[n] \in Nat /\ f[n - 1] \in Nat
        BY <1>1, <4>2
      <4>4. QED
        BY <3>2, <4>3
    <3>3. QED
      BY <3>1, <3>2
  <2> HIDE DEF L
  <2>2. QED
    BY <2>1, <1>1
<1>3. Eq(sum)
  BY <1>2
<1>4. Measure(q) = sum[L]
  BY DEF Measure
<1>5. sum[L] = f[L]
  <2> DEFINE Bad == {n \in 0..L : sum[n] # f[n]}
  <2> SUFFICES ASSUME sum[L] # f[L] PROVE FALSE
    OBVIOUS
  <2>1. L \in Bad
    <3>1. L \in 0..L
      OBVIOUS
    <3> HIDE DEF L, sum
    <3>2. QED
      BY <3>1
  <2>2. PICK n \in Bad : \A m \in Bad : n <= m
    <3>1. Bad \subseteq Nat
      OBVIOUS
    <3> HIDE DEF Bad
    <3>2. QED
      BY <2>1, <3>1, LeastNat
  <2> HIDE DEF sum
  <2>3. \A m \in 0..L : sum[m] = IF m = 0 THEN 0 ELSE sum[m - 1] + Weight(q[m])
    BY <1>3
  <2>4. CASE n = 0
    BY <2>2, <2>3, <2>4, <1>1
  <2>5. CASE n # 0
    <3>1. n - 1 \in 0..L /\ n \in 1..L /\ ~(n <= n - 1)
      BY <2>5, <2>2
    <3>2. sum[n - 1] = f[n - 1]
      BY <3>1, <2>2
    <3>3. sum[n] = f[n]
      BY <3>1, <3>2, <2>3, <2>5, <1>1
    <3>4. QED
      BY <3>3, <2>2
  <2>6. QED
    BY <2>4, <2>5
<1>6. QED
  BY <1>1, <1>4, <1>5

LEMMA SumsOfNone == Sums(<<>>, 0)
<1> DEFINE f == [i \in 0..0 |-> 0]
<1>1. Len(<<>>) = 0 /\ f[0] = 0 /\ f \in [0..0 -> Nat] /\ 1..0 = {} /\ \A i \in 0..0 : f[i] = 0
  BY SMT
<1> HIDE DEF f
<1>2. QED
  BY <1>1 DEF Sums

LEMMA SumsOfAppend ==
    ASSUME NEW q \in Seq(Int), NEW t, Sums(q, t), NEW k \in Int, Weight(k) \in Nat
    PROVE  Sums(Append(q, k), t + Weight(k))
<1> DEFINE N == Len(q)
<1>1. N \in Nat /\ Len(Append(q, k)) = N + 1
      /\ Append(q, k)[N + 1] = k /\ \A i \in 1..N : Append(q, k)[i] = q[i]
  BY SMT
<1>2. PICK f \in [0..N -> Nat] : /\ f[0] = 0 /\ f[N] = t
                                 /\ \A i \in 1..N : Weight(q[i]) = f[i] - f[i - 1]
                                 /\ \A i, j \in 0..N : i <= j => f[i] <= f[j]
  BY DEF Sums
<1> DEFINE w == Weight(k)
           g == [i \in 0..N + 1 |-> IF i = N + 1 THEN t + w ELSE f[i]]
<1> HIDE DEF N, w
<1>3. t \in Nat /\ g \in [0..N + 1 -> Nat] /\ w \in Nat
  BY <1>1, <1>2, SMT DEF w
<1>4. g[0] = 0 /\ g[N + 1] = t + w /\ \A i \in 0..N : g[i] = f[i]
  BY <1>1, <1>2, SMT
<1> HIDE DEF g
<1>5. ASSUME NEW i \in 1..N + 1 PROVE Weight(Append(q, k)[i]) = g[i] - g[i - 1]
  <2>1. CASE i = N + 1
    BY <2>1, <1>1, <1>2, <1>3, <1>4, SMT DEF w
  <2>2. CASE i # N + 1
    <3>1. i \in 1..N /\ i - 1 \in 0..N /\ i \in 0..N
      BY <2>2, <1>1, SMT
    <3>2. QED
      BY <3>1, <1>1, <1>2, <1>4
  <2>3. QED
    BY <2>1, <2>2
<1>6. ASSUME NEW i \in 0..N + 1, NEW j \in 0..N + 1, i <= j PROVE g[i] <= g[j]
  <2>1. \A m \in 0..N : f[m] <= t
    BY <1>1, <1>2
  <2>2. CASE j = N + 1 /\ i # N + 1
    <3>1. i \in 0..N
      BY <2>2, <1>1, SMT
    <3>2. g[i] = f[i] /\ f[i] <= t /\ g[j] = t + w /\ f[i] \in Nat
      BY <3>1, <2>1, <2>2, <1>2, <1>4
    <3>3. QED
      BY <3>2, <1>3, SMT
  <2>3. CASE j # N + 1
    <3>1. i \in 0..N /\ j \in 0..N
      BY <2>3, <1>1, <1>6, SMT
    <3>2. QED
      BY <3>1, <1>2, <1>4, <1>6
  <2>4. CASE i = N + 1 /\ j = N + 1
    BY <2>4, <1>3, <1>4, SMT
  <2>5. QED
    BY <2>2, <2>3, <2>4
<1>7. QED
  BY <1>1, <1>3, <1>4, <1>5, <1>6 DEF Sums, w

LEMMA SumsOfTail ==
    ASSUME NEW q \in Seq(Int), q # <<>>, NEW t, Sums(q, t), Weight(Head(q)) \in Nat
    PROVE  Sums(Tail(q), t - Weight(Head(q))) /\ Weight(Head(q)) <= t
<1> DEFINE N == Len(q)
           w == Weight(Head(q))
<1>1. N \in Nat /\ N > 0 /\ Len(Tail(q)) = N - 1 /\ Head(q) = q[1]
      /\ (\A i \in 1..N - 1 : Tail(q)[i] = q[i + 1])
  BY SMT
<1>2. PICK f \in [0..N -> Nat] : /\ f[0] = 0 /\ f[N] = t
                                 /\ \A i \in 1..N : Weight(q[i]) = f[i] - f[i - 1]
                                 /\ \A i, j \in 0..N : i <= j => f[i] <= f[j]
  BY DEF Sums
<1> HIDE DEF N, w
<1>3. f[1] = w /\ w \in Nat
  BY <1>1, <1>2, SMT DEF w
<1>4. \A i \in 0..N - 1 : i + 1 \in 0..N /\ w <= f[i + 1] /\ f[i + 1] \in Nat
  BY <1>1, <1>2, <1>3, SMT
<1> DEFINE g == [i \in 0..N - 1 |-> f[i + 1] - w]
<1>5. g \in [0..N - 1 -> Nat]
  BY <1>3, <1>4, SMT
<1>6. \A i \in 0..N - 1 : g[i] = f[i + 1] - w
  OBVIOUS
<1> HIDE DEF g
<1>7. g[0] = 0 /\ g[N - 1] = t - w /\ w <= t
  <2>1. 0 \in 0..N - 1 /\ N - 1 \in 0..N - 1 /\ (N - 1) + 1 = N /\ 0 + 1 = 1
    BY <1>1, SMT
  <2>2. g[0] = f[1] - w /\ g[N - 1] = t - w /\ w <= t
    BY <2>1, <1>2, <1>4, <1>6
  <2>3. QED
    BY <2>2, <1>3, SMT
<1>8. ASSUME NEW i \in 1..N - 1 PROVE Weight(Tail(q)[i]) = g[i] - g[i - 1]
  <2>1. i \in 0..N - 1 /\ i - 1 \in 0..N - 1 /\ i + 1 \in 1..N
        /\ (i - 1) + 1 = i /\ (i + 1) - 1 = i
    BY <1>1, SMT
  <2>2. Weight(q[i + 1]) = f[i + 1] - f[i]
    BY <1>2, <2>1
  <2>3. g[i] = f[i + 1] - w /\ g[i - 1] = f[i] - w /\ Tail(q)[i] = q[i + 1]
    BY <1>1, <1>6, <2>1
  <2>4. f[i] \in Nat /\ f[i + 1] \in Nat
    BY <2>1, <1>4
  <2>5. Weight(Tail(q)[i]) = f[i + 1] - f[i]
    BY <2>2, <2>3
  <2>6. g[i] - g[i - 1] = f[i + 1] - f[i]
    BY <2>3, <2>4, <1>3, SMT
  <2>7. QED
    BY <2>5, <2>6
<1>9. ASSUME NEW i \in 0..N - 1, NEW j \in 0..N - 1, i <= j PROVE g[i] <= g[j]
  <2>1. i + 1 \in 0..N /\ j + 1 \in 0..N /\ i + 1 <= j + 1
    BY <1>1, <1>9, SMT
  <2>2. f[i + 1] <= f[j + 1]
    BY <2>1, <1>2
  <2>3. QED
    BY <2>2, <1>3, <1>4, <1>6, SMT
<1>10. QED
  BY <1>1, <1>3, <1>5, <1>7, <1>8, <1>9 DEF Sums, w

-----------------------------------------------------------------------------
(* The bridge *)

Got == Len(Chunks)

\* Whatever is queued or on its way was read from the client before.
ReadBefore ==
    /\ \A i \in DOMAIN readQueue : readQueue[i] <= Len(size)
    /\ \A i \in DOMAIN port : port[i] <= Len(size)

\* What reads have returned and whom the bridge lets wait.
Returned ==
    /\ \A i \in 1..Got : delivered[i] = i
    /\ waiting => ~AtEnd
    /\ waiting /\ ~left => readQueue = <<>> /\ ~isClosed
    /\ abortError => isClosed /\ readQueue = <<>>
    /\ left => isClosed

\* An open bridge: what has been returned, is queued and is on its way are the
\* client's chunks in a row, and the end of the reader loop comes after them.
OnTheWay ==
    ~isClosed =>
        /\ ~AtEnd
        /\ \A i \in DOMAIN readQueue : readQueue[i] = Got + i
        /\ \A i \in 1..Len(size) - (Got + Len(readQueue)) : port[i] = Got + Len(readQueue) + i
        /\ Len(port) = Len(size) - (Got + Len(readQueue)) + (IF loop = "reading" THEN 0 ELSE 1)
        /\ loop = "fin" => port[Len(port)] = FIN
        /\ loop = "abort" => port[Len(port)] = ABORT

\* A bridge that the client's end has closed: the rest is queued, the end last.
AfterFin ==
    isClosed /\ ~abortError /\ ~left =>
        /\ loop = "fin"
        /\ ~AtEnd => /\ readQueue # <<>> /\ Len(readQueue) = Len(size) - Got + 1
                     /\ readQueue[Len(readQueue)] = FIN
                     /\ \A i \in 1..Len(readQueue) - 1 : readQueue[i] = Got + i

EndIsWhole ==
    AtEnd /\ delivered[Len(delivered)] = FIN /\ ~left => loop = "fin" /\ Got = Len(size)

Gauge == Sums(readQueue, readQueueBytes)

BridgeInv == BridgeTypeOK /\ ReadBefore /\ Returned /\ OnTheWay /\ AfterFin /\ EndIsWhole /\ Gauge

USE BridgeAssumption

LEMMA ChunkSize ==
    ASSUME BridgeTypeOK, NEW k \in Int, k <= Len(size) PROVE Weight(k) \in Nat
<1>1. k > 0 => size[k] \in Sizes
  BY DEF BridgeTypeOK
<1>2. QED
  BY <1>1 DEF Weight

\* What a step does that returns nothing, or one thing more.
LEMMA SameReturns ==
    ASSUME UNCHANGED delivered PROVE Got' = Got /\ AtEnd' = AtEnd
  BY DEF Got, Chunks, AtEnd

LEMMA GotIs ==
    ASSUME BridgeTypeOK
    PROVE  /\ Got \in Nat
           /\ ~AtEnd => Got = Len(delivered)
           /\ AtEnd => Got = Len(delivered) - 1
<1>1. delivered \in Seq(Int)
  BY DEF BridgeTypeOK, FIN, ABORT
<1>2. Len(delivered) \in Nat /\ (AtEnd => Len(delivered) > 0)
  BY <1>1 DEF AtEnd
<1>3. AtEnd => Len(SubSeq(delivered, 1, Len(delivered) - 1)) = Len(delivered) - 1
  BY <1>1, <1>2, SMTT(30)
<1>4. QED
  BY <1>2, <1>3 DEF Got, Chunks

LEMMA OneMore ==
    ASSUME BridgeTypeOK, ~AtEnd, NEW r \in Int, delivered' = Append(delivered, r)
    PROVE  /\ r > 0 => ~AtEnd' /\ Got' = Got + 1
           /\ r <= 0 => AtEnd' /\ Got' = Got
           /\ delivered'[Len(delivered')] = r /\ delivered'[Got + 1] = r
           /\ \A i \in 1..Got : delivered'[i] = delivered[i]
<1>1. delivered \in Seq(Int)
  BY DEF BridgeTypeOK, FIN, ABORT
<1>2. Len(delivered) \in Nat /\ Len(delivered') = Len(delivered) + 1 /\ delivered' # <<>>
      /\ delivered'[Len(delivered) + 1] = r
      /\ \A i \in 1..Len(delivered) : delivered'[i] = delivered[i]
  BY <1>1, SMT
<1>3. Got = Len(delivered)
  BY GotIs
<1>4. AtEnd' <=> r <= 0
  BY <1>2 DEF AtEnd
<1>5. r > 0 => Got' = Got + 1
  BY <1>2, <1>3, <1>4 DEF Got, Chunks
<1>6. r <= 0 => Got' = Got
  <2>1. delivered' \in Seq(Int)
    BY <1>1
  <2>2. Len(SubSeq(delivered', 1, Len(delivered') - 1)) = Len(delivered') - 1
    BY <1>2, <2>1
  <2>3. ASSUME r <= 0 PROVE Got' = Got
    <3>1. Chunks' = SubSeq(delivered', 1, Len(delivered') - 1)
      BY <1>4, <2>3 DEF Chunks
    <3>2. Got' = Len(delivered') - 1
      BY <2>2, <3>1 DEF Got
    <3>3. QED
      BY <3>2, <1>2, <1>3
  <2>4. QED
    BY <2>3
<1>7. QED
  BY <1>2, <1>3, <1>4, <1>5, <1>6

\* Resolve returns r to a read that waits.
LEMMA ResolveIs ==
    ASSUME BridgeTypeOK, waiting => ~AtEnd, NEW r \in 1..MaxChunks \cup {FIN, ABORT}, Resolve(r)
    PROVE  /\ ~waiting' /\ delivered' \in Seq(1..MaxChunks \cup {FIN, ABORT})
           /\ waiting => delivered' = Append(delivered, r)
           /\ ~waiting => delivered' = delivered
<1>1. delivered \in Seq(1..MaxChunks \cup {FIN, ABORT}) /\ waiting \in BOOLEAN
  BY DEF BridgeTypeOK
<1>2. Append(delivered, r) \in Seq(1..MaxChunks \cup {FIN, ABORT})
  BY <1>1
<1>3. QED
  BY <1>1, <1>2 DEF Resolve


-----------------------------------------------------------------------------
(* The steps of the bridge *)

\* What is taken from the port.
LEMMA TakenFromPort ==
    ASSUME BridgeTypeOK, ReadBefore, port # <<>>, port' = Tail(port), UNCHANGED size
    PROVE  /\ Len(port) \in Nat \ {0} /\ Len(port') = Len(port) - 1 /\ Head(port) = port[1]
           /\ \A i \in 1..Len(port) - 1 : port'[i] = port[i + 1]
           /\ port' \in Seq(1..MaxChunks \cup {FIN, ABORT})
           /\ \A i \in DOMAIN port' : port'[i] <= Len(size)'
           /\ Head(port) <= Len(size) /\ Head(port) \in 1..MaxChunks \cup {FIN, ABORT}
<1>1. port \in Seq(Int) /\ port \in Seq(1..MaxChunks \cup {FIN, ABORT})
  BY DEF BridgeTypeOK, FIN, ABORT
<1>2. /\ Len(port) \in Nat \ {0} /\ Len(port') = Len(port) - 1 /\ Head(port) = port[1]
      /\ \A i \in 1..Len(port) - 1 : port'[i] = port[i + 1]
      /\ DOMAIN port = 1..Len(port) /\ DOMAIN port' = 1..Len(port) - 1
  BY <1>1
<1>3. port' \in Seq(1..MaxChunks \cup {FIN, ABORT})
  BY <1>1
<1>4. Head(port) \in 1..MaxChunks \cup {FIN, ABORT} /\ Head(port) <= Len(size)
  BY <1>1, <1>2 DEF ReadBefore
<1>5. \A i \in DOMAIN port' : port'[i] <= Len(size)'
  BY <1>2 DEF ReadBefore
<1>6. QED
  BY <1>2, <1>3, <1>4, <1>5

LEMMA LoopReads_Step == ASSUME BridgeInv, LoopReads PROVE BridgeInv'
<1> USE DEF BridgeInv
<1>1. PICK s \in Sizes : size' = Append(size, s)
  BY DEF LoopReads
<1>2. /\ loop = "reading" /\ Len(size) < MaxChunks /\ port' = Append(port, Len(size) + 1)
      /\ UNCHANGED <<loop, readQueue, readQueueBytes, waiting, isClosed, abortError, overflowed,
                     left, delivered>>
  BY DEF LoopReads
<1>3. /\ Len(size) \in Nat /\ Len(size') = Len(size) + 1 /\ size' \in Seq(Sizes)
      /\ \A k \in 1..Len(size) : size'[k] = size[k]
  BY <1>1 DEF BridgeTypeOK
<1>4. port \in Seq(Int) /\ Len(port) \in Nat
  BY DEF BridgeTypeOK, FIN, ABORT
<1>5. /\ Len(port') = Len(port) + 1 /\ port'[Len(port) + 1] = Len(size) + 1
      /\ \A i \in 1..Len(port) : port'[i] = port[i]
      /\ DOMAIN port = 1..Len(port) /\ DOMAIN port' = 1..Len(port) + 1
  BY <1>2, <1>3, <1>4
<1>6. Got' = Got /\ AtEnd' = AtEnd /\ Got \in Nat
  BY <1>2, SameReturns, GotIs
<1>7. BridgeTypeOK'
  <2>1. Len(size) + 1 \in 1..MaxChunks \cup {FIN, ABORT}
    BY <1>2, <1>3
  <2>2. port' \in Seq(1..MaxChunks \cup {FIN, ABORT})
    BY <2>1, <1>2 DEF BridgeTypeOK
  <2>3. QED
    BY <2>2, <1>2, <1>3 DEF BridgeTypeOK
<1>8. ReadBefore'
  <2>1. \A i \in DOMAIN port' : port'[i] <= Len(size')
    BY <1>3, <1>4, <1>5 DEF ReadBefore
  <2>2. \A i \in DOMAIN readQueue : readQueue[i] \in Int
    BY DEF BridgeTypeOK, FIN
  <2>3. \A i \in DOMAIN readQueue : readQueue[i] <= Len(size')
    BY <2>2, <1>3 DEF ReadBefore
  <2>4. QED
    BY <2>1, <2>3, <1>2 DEF ReadBefore
<1>9. Returned'
  BY <1>2, <1>6 DEF Returned
<1>10. OnTheWay'
  <2>1. Len(readQueue) \in Nat
    BY DEF BridgeTypeOK, FIN
  <2> DEFINE on == Len(size) - (Got + Len(readQueue))
  <2>2. ASSUME ~isClosed PROVE Len(port) = on
    BY <2>2, <1>2, <1>3, <1>4, <1>6, <2>1 DEF OnTheWay
  <2>3. ASSUME ~isClosed, NEW i \in 1..on + 1 PROVE port'[i] = Got + Len(readQueue) + i
    <3>1. on \in Nat /\ on = Len(port)
      BY <2>2, <2>3, <1>4
    <3>2. CASE i = on + 1
      <4>1. i = Len(port) + 1
        BY <3>1, <3>2
      <4>2. Len(size) + 1 = Got + Len(readQueue) + i
        BY <3>1, <3>2, <1>3, <1>6, <2>1
      <4>3. QED
        BY <4>1, <4>2, <1>5
    <3>3. CASE i # on + 1
      <4>1. i \in 1..on /\ i \in 1..Len(port)
        BY <3>1, <3>3
      <4>2. QED
        BY <4>1, <2>3, <1>5 DEF OnTheWay
    <3>4. QED
      BY <3>2, <3>3
  <2>4. Len(size') - (Got' + Len(readQueue')) = on + 1
    BY <1>2, <1>3, <1>6, <2>1
  <2>5. QED
    BY <2>2, <2>3, <2>4, <1>2, <1>4, <1>5, <1>6 DEF OnTheWay
<1>11. AfterFin' /\ EndIsWhole'
  BY <1>2, <1>6 DEF AfterFin, EndIsWhole
<1>12. Gauge'
  <2>1. \A i \in 1..Len(readQueue) : Weight(readQueue[i])' = Weight(readQueue[i])
    <3>1. \A i \in 1..Len(readQueue) : readQueue[i] \in Int /\ readQueue[i] <= Len(size)
      BY DEF BridgeTypeOK, FIN, ReadBefore
    <3>2. QED
      BY <3>1, <1>2, <1>3 DEF Weight
  <2>2. QED
    BY <2>1, <1>2 DEF Gauge, Sums
<1>13. QED
  BY <1>7, <1>8, <1>9, <1>10, <1>11, <1>12

LEMMA LoopEnds_Step == ASSUME BridgeInv, LoopEnds PROVE BridgeInv'
<1> USE DEF BridgeInv
<1> DEFINE m == IF loop' = "fin" THEN FIN ELSE ABORT
<1>1. /\ loop = "reading" /\ loop' \in {"fin", "abort"} /\ port' = Append(port, m)
      /\ UNCHANGED <<size, readQueue, readQueueBytes, waiting, isClosed, abortError, overflowed,
                     left, delivered>>
  BY DEF LoopEnds
<1>2. port \in Seq(Int) /\ Len(port) \in Nat /\ m \in {0, -1} /\ Len(size) \in Nat
  BY DEF BridgeTypeOK, FIN, ABORT
<1>3. /\ Len(port') = Len(port) + 1 /\ port'[Len(port) + 1] = m
      /\ \A i \in 1..Len(port) : port'[i] = port[i]
      /\ DOMAIN port = 1..Len(port) /\ DOMAIN port' = 1..Len(port) + 1
  BY <1>1, <1>2
<1>4. Got' = Got /\ AtEnd' = AtEnd /\ Got \in Nat
  BY <1>1, SameReturns, GotIs
<1>5. BridgeTypeOK'
  BY <1>1 DEF BridgeTypeOK
<1>6. ReadBefore'
  BY <1>1, <1>2, <1>3 DEF ReadBefore
<1>7. Returned'
  BY <1>1, <1>4 DEF Returned
<1>8. OnTheWay'
  <2>1. Len(readQueue) \in Nat
    BY DEF BridgeTypeOK, FIN
  <2> DEFINE on == Len(size) - (Got + Len(readQueue))
  <2>2. ASSUME ~isClosed PROVE Len(port) = on
    BY <2>2, <1>1, <1>2, <1>4, <2>1 DEF OnTheWay
  <2>3. ASSUME ~isClosed, NEW i \in 1..on PROVE port'[i] = Got + Len(readQueue) + i
    BY <2>2, <2>3, <1>3 DEF OnTheWay
  <2> HIDE DEF m
  <2>4. QED
    BY <2>2, <2>3, <1>1, <1>2, <1>3, <1>4 DEF OnTheWay, m
<1>9. AfterFin' /\ EndIsWhole'
  BY <1>1, <1>4 DEF AfterFin, EndIsWhole
<1>10. Gauge'
  BY <1>1 DEF Gauge, Sums, Weight
<1>11. QED
  BY <1>5, <1>6, <1>7, <1>8, <1>9, <1>10

LEMMA SumsKept ==
    ASSUME UNCHANGED size, Sums(readQueue', readQueueBytes') PROVE Gauge'
  BY DEF Gauge, Sums, Weight

LEMMA Abort_Step ==
    ASSUME BridgeInv, Abort, UNCHANGED <<size, loop, left>>, overflowed' \in BOOLEAN,
           port' \in Seq(1..MaxChunks \cup {FIN, ABORT}),
           \A i \in DOMAIN port' : port'[i] <= Len(size)'
    PROVE  BridgeInv'
<1> USE DEF BridgeInv
<1>1. /\ isClosed' = TRUE /\ abortError' = TRUE /\ readQueue' = <<>> /\ readQueueBytes' = 0
      /\ Resolve(ABORT)
  BY DEF Abort
<1>2. /\ ~waiting' /\ delivered' \in Seq(1..MaxChunks \cup {FIN, ABORT})
      /\ waiting => delivered' = Append(delivered, ABORT) /\ ~AtEnd
      /\ ~waiting => delivered' = delivered
  BY <1>1, ResolveIs DEF Returned
<1>3. Got \in Nat
  BY GotIs
<1>4. /\ Got' = Got /\ \A i \in 1..Got : delivered'[i] = delivered[i]
      /\ AtEnd' /\ delivered'[Len(delivered')] = FIN =>
            AtEnd /\ delivered[Len(delivered)] = FIN
  <2>1. CASE waiting
    BY <2>1, <1>2, OneMore DEF FIN, ABORT
  <2>2. CASE ~waiting
    BY <2>2, <1>2, SameReturns
  <2>3. QED
    BY <2>1, <2>2
<1>5. BridgeTypeOK'
  <2>1. readQueue' \in Seq(1..MaxChunks \cup {FIN}) /\ readQueueBytes' \in 0..MAX_READ_QUEUE_BYTES
    BY <1>1
  <2>2. waiting' \in BOOLEAN
    BY <1>1 DEF Resolve
  <2>3. QED
    BY <2>1, <2>2, <1>1, <1>2 DEF BridgeTypeOK
<1>6. ReadBefore' /\ OnTheWay' /\ AfterFin'
  BY <1>1 DEF ReadBefore, OnTheWay, AfterFin
<1>7. Returned'
  BY <1>1, <1>2, <1>4 DEF Returned
<1>8. EndIsWhole'
  BY <1>4 DEF EndIsWhole
<1>9. Gauge'
  BY <1>1, SumsOfNone, SumsKept
<1>10. QED
  BY <1>5, <1>6, <1>7, <1>8, <1>9

\* Of an open bridge, what is at the head of the port.
LEMMA PortHead ==
    ASSUME BridgeInv, ~isClosed, port # <<>>
    PROVE  /\ Head(port) > 0 => /\ Head(port) = Got + Len(readQueue) + 1
                                /\ Got + Len(readQueue) < Len(size)
           /\ Head(port) = FIN => loop = "fin" /\ Got + Len(readQueue) = Len(size)
<1> USE DEF BridgeInv
<1>1. port \in Seq(Int) /\ Len(port) \in Nat \ {0} /\ Head(port) = port[1]
  BY DEF BridgeTypeOK, FIN, ABORT
<1>2. Len(readQueue) \in Nat /\ Len(size) \in Nat /\ Got \in Nat
  BY GotIs DEF BridgeTypeOK, FIN
<1> DEFINE on == Len(size) - (Got + Len(readQueue))
<1>3. /\ \A i \in 1..on : port[i] = Got + Len(readQueue) + i
      /\ Len(port) = on + (IF loop = "reading" THEN 0 ELSE 1)
      /\ loop = "fin" => port[Len(port)] = FIN
      /\ loop = "abort" => port[Len(port)] = ABORT
  BY DEF OnTheWay
<1>4. on \in Int
  BY <1>2
<1> HIDE DEF on
<1>5. CASE on > 0
  <2>1. Head(port) = Got + Len(readQueue) + 1
    BY <1>1, <1>3, <1>4, <1>5
  <2>2. QED
    BY <2>1, <1>2, <1>5 DEF on, FIN
<1>6. CASE on <= 0
  <2>1. on = 0 /\ Len(port) = 1 /\ loop # "reading"
    BY <1>1, <1>3, <1>4, <1>6
  <2>2. loop = "fin" \/ loop = "abort"
    BY <2>1 DEF BridgeTypeOK
  <2>3. Head(port) = IF loop = "fin" THEN FIN ELSE ABORT
    BY <2>1, <2>2, <1>1, <1>3
  <2>4. QED
    BY <2>1, <2>2, <2>3, <1>2 DEF on, FIN, ABORT
<1>7. QED
  BY <1>4, <1>5, <1>6

LEMMA Fin_Step ==
    ASSUME BridgeInv, ~isClosed, port # <<>>, Head(port) = FIN, port' = Tail(port), Fin,
           UNCHANGED <<size, loop, left>>
    PROVE  BridgeInv'
<1> USE DEF BridgeInv
<1>1. /\ isClosed' = TRUE /\ Resolve(FIN) /\ UNCHANGED <<readQueueBytes, abortError, overflowed>>
      /\ waiting => readQueue' = readQueue
      /\ ~waiting => readQueue' = Append(readQueue, FIN)
  BY DEF Fin
<1>2. /\ ~waiting' /\ delivered' \in Seq(1..MaxChunks \cup {FIN, ABORT})
      /\ waiting => delivered' = Append(delivered, FIN)
      /\ ~waiting => delivered' = delivered
  BY <1>1, ResolveIs DEF Returned
<1>3. /\ loop = "fin" /\ Got + Len(readQueue) = Len(size) /\ ~AtEnd /\ ~abortError /\ ~left
      /\ waiting => readQueue = <<>>
  BY PortHead DEF OnTheWay, Returned
<1>4. /\ Len(readQueue) \in Nat /\ Len(size) \in Nat /\ Got \in Nat /\ readQueue \in Seq(Int)
      /\ DOMAIN readQueue = 1..Len(readQueue)
  BY GotIs DEF BridgeTypeOK, FIN
<1>5. /\ Got' = Got /\ \A i \in 1..Got : delivered'[i] = delivered[i]
      /\ waiting => AtEnd' /\ delivered'[Len(delivered')] = FIN
      /\ ~waiting => ~AtEnd'
  <2>1. CASE waiting
    BY <2>1, <1>2, <1>3, OneMore DEF FIN
  <2>2. CASE ~waiting
    BY <2>2, <1>2, <1>3, SameReturns
  <2>3. QED
    BY <2>1, <2>2
<1>6. ~waiting => /\ Len(readQueue') = Len(readQueue) + 1 /\ readQueue'[Len(readQueue) + 1] = FIN
                  /\ \A i \in 1..Len(readQueue) : readQueue'[i] = readQueue[i]
                  /\ DOMAIN readQueue' = 1..Len(readQueue) + 1
  BY <1>1, <1>4, SMTT(30) DEF FIN
<1>7. BridgeTypeOK'
  <2>1. readQueue' \in Seq(1..MaxChunks \cup {FIN})
    BY <1>1, SMTT(30) DEF BridgeTypeOK
  <2>2. waiting' \in BOOLEAN
    BY <1>1 DEF Resolve
  <2>3. port' \in Seq(1..MaxChunks \cup {FIN, ABORT})
    BY TakenFromPort
  <2>4. QED
    BY <2>1, <2>2, <2>3, <1>1, <1>2 DEF BridgeTypeOK
<1>8. ReadBefore'
  <2>1. \A i \in DOMAIN port' : port'[i] <= Len(size)'
    BY TakenFromPort
  <2>2. CASE waiting
    BY <2>1, <2>2, <1>1 DEF ReadBefore
  <2>3. CASE ~waiting
    <3>1. \A i \in DOMAIN readQueue' : readQueue'[i] <= Len(size)
      BY <2>3, <1>4, <1>6 DEF ReadBefore, FIN
    <3>2. QED
      BY <2>1, <3>1 DEF ReadBefore
  <2>4. QED
    BY <2>2, <2>3
<1>9. Returned'
  BY <1>1, <1>2, <1>3, <1>5 DEF Returned
<1>10. OnTheWay'
  BY <1>1 DEF OnTheWay
<1>11. AfterFin'
  <2>1. CASE waiting
    BY <2>1, <1>3, <1>5 DEF AfterFin
  <2>2. CASE ~waiting
    <3>1. \A i \in 1..Len(readQueue) : readQueue'[i] = Got + i
      BY <2>2, <1>4, <1>6 DEF OnTheWay
    <3>2. /\ Len(readQueue') = Len(size) - Got + 1 /\ Len(readQueue') - 1 = Len(readQueue)
          /\ readQueue' # <<>>
      BY <2>2, <1>3, <1>4, <1>6
    <3>3. QED
      BY <3>1, <3>2, <2>2, <1>3, <1>5, <1>6 DEF AfterFin
  <2>3. QED
    BY <2>1, <2>2
<1>12. EndIsWhole'
  <2>1. CASE waiting
    <3>1. Len(readQueue) = 0
      BY <2>1, <1>3
    <3>2. QED
      BY <3>1, <1>3, <1>4, <1>5 DEF EndIsWhole
  <2>2. CASE ~waiting
    BY <2>2, <1>5 DEF EndIsWhole
  <2>3. QED
    BY <2>1, <2>2
<1>13. Gauge'
  <2>1. CASE waiting
    BY <2>1, <1>1, SumsKept DEF Gauge
  <2>2. CASE ~waiting
    <3>1. Weight(FIN) = 0 /\ FIN \in Int /\ readQueueBytes \in Nat
      BY DEF Weight, FIN, BridgeTypeOK
    <3>2. Sums(Append(readQueue, FIN), readQueueBytes + Weight(FIN))
      BY <3>1, <1>4, SumsOfAppend DEF Gauge
    <3>3. readQueueBytes + Weight(FIN) = readQueueBytes'
      BY <3>1, <1>1
    <3>4. QED
      BY <3>2, <3>3, <2>2, <1>1, SumsKept
  <2>3. QED
    BY <2>1, <2>2
<1>14. QED
  BY <1>7, <1>8, <1>9, <1>10, <1>11, <1>12, <1>13

\* What Data does when it does not give up, from the head of the port.
LEMMA DataGiven_Step ==
    ASSUME BridgeInv, ~isClosed, port # <<>>, Head(port) > 0, port' = Tail(port), waiting,
           Resolve(Head(port)), UNCHANGED <<readQueue, readQueueBytes, isClosed, abortError,
           overflowed, size, loop, left>>
    PROVE  BridgeInv'
<1> USE DEF BridgeInv
<1> DEFINE k == Head(port)
<1>1. /\ Len(port) \in Nat \ {0} /\ Len(port') = Len(port) - 1
      /\ \A i \in 1..Len(port) - 1 : port'[i] = port[i + 1]
      /\ port' \in Seq(1..MaxChunks \cup {FIN, ABORT})
      /\ \A i \in DOMAIN port' : port'[i] <= Len(size)'
      /\ k \in 1..MaxChunks \cup {FIN, ABORT} /\ k \in Int
  BY TakenFromPort DEF FIN, ABORT
<1>2. readQueue = <<>> /\ Len(readQueue) = 0 /\ ~AtEnd
  BY DEF Returned, OnTheWay
<1>3. Got \in Nat /\ Len(size) \in Nat
  BY GotIs DEF BridgeTypeOK
<1>4. k = Got + 1 /\ Got < Len(size)
  BY <1>2, <1>3, PortHead
<1> HIDE DEF k
<1>5. /\ ~waiting' /\ delivered' \in Seq(1..MaxChunks \cup {FIN, ABORT})
      /\ delivered' = Append(delivered, k)
  BY <1>1, ResolveIs DEF Returned, k
<1>6. /\ ~AtEnd' /\ Got' = Got + 1 /\ delivered'[Got + 1] = k
      /\ \A i \in 1..Got : delivered'[i] = delivered[i]
  <2>1. k \in Int /\ k > 0
    BY <1>1, <1>3, <1>4
  <2>2. QED
    BY <2>1, <1>2, <1>5, OneMore
<1>7. BridgeTypeOK' /\ ReadBefore'
  <2>1. waiting' \in BOOLEAN
    BY DEF Resolve
  <2>2. QED
    BY <1>1, <1>5, <2>1 DEF BridgeTypeOK, ReadBefore
<1>8. Returned'
  <2>1. \A i \in 1..Got' : delivered'[i] = i
    BY <1>3, <1>4, <1>6 DEF Returned
  <2>2. QED
    BY <2>1, <1>5 DEF Returned
<1>9. OnTheWay'
  <2> DEFINE on == Len(size) - Got
  <2>1. /\ \A i \in 1..on : port[i] = Got + i
        /\ Len(port) = on + (IF loop = "reading" THEN 0 ELSE 1)
        /\ loop = "fin" => port[Len(port)] = FIN
        /\ loop = "abort" => port[Len(port)] = ABORT
    BY <1>2, <1>3 DEF OnTheWay
  <2>2. on \in Nat \ {0} /\ Len(size)' - (Got' + Len(readQueue)') = on - 1
    BY <1>2, <1>3, <1>4, <1>6
  <2>3. \A i \in 1..on - 1 : port'[i] = Got' + Len(readQueue)' + i
    <3> HIDE DEF on
    <3>1. ASSUME NEW i \in 1..on - 1 PROVE port'[i] = Got' + i
      <4>1. i \in Int /\ i \in 1..Len(port) - 1 /\ i + 1 \in 1..on
        BY <2>1, <2>2
      <4>2. port'[i] = Got + (i + 1)
        BY <4>1, <1>1, <2>1
      <4>3. QED
        BY <4>1, <4>2, <1>3, <1>6, SMT
    <3>2. Got' + Len(readQueue)' = Got' /\ Got' \in Nat
      BY <1>2, <1>3, <1>6
    <3>3. QED
      BY <3>1, <3>2
  <2>4. Len(port') = on - 1 + (IF loop = "reading" THEN 0 ELSE 1)
    <3> HIDE DEF on
    <3>1. QED
      BY <1>1, <2>1, <2>2, SMT
  <2>5. loop # "reading" => port'[Len(port')] = port[Len(port)]
    <3> HIDE DEF on
    <3>1. ASSUME loop # "reading" PROVE Len(port') \in 1..Len(port) - 1 /\ Len(port') + 1 = Len(port)
      BY <3>1, <1>1, <2>1, <2>2
    <3>2. QED
      BY <3>1, <1>1
  <2>6. QED
    BY <2>1, <2>2, <2>3, <2>4, <2>5, <1>2, <1>6 DEF OnTheWay
<1>10. AfterFin' /\ EndIsWhole'
  BY <1>6 DEF AfterFin, EndIsWhole
<1>11. Gauge'
  BY SumsKept DEF Gauge
<1>12. QED
  BY <1>7, <1>8, <1>9, <1>10, <1>11

LEMMA DataQueued_Step ==
    ASSUME BridgeInv, ~isClosed, port # <<>>, Head(port) > 0, port' = Tail(port), ~waiting,
           readQueueBytes + size[Head(port)] <= MAX_READ_QUEUE_BYTES,
           readQueue' = Append(readQueue, Head(port)),
           readQueueBytes' = readQueueBytes + size[Head(port)],
           UNCHANGED <<waiting, delivered, isClosed, abortError, overflowed, size, loop, left>>
    PROVE  BridgeInv'
<1> USE DEF BridgeInv
<1> DEFINE k == Head(port)
<1>1. /\ Len(port) \in Nat \ {0} /\ Len(port') = Len(port) - 1
      /\ \A i \in 1..Len(port) - 1 : port'[i] = port[i + 1]
      /\ port' \in Seq(1..MaxChunks \cup {FIN, ABORT})
      /\ \A i \in DOMAIN port' : port'[i] <= Len(size)'
      /\ k \in 1..MaxChunks \cup {FIN, ABORT} /\ k \in Int /\ k <= Len(size)
  BY TakenFromPort DEF FIN, ABORT
<1>2. /\ Len(readQueue) \in Nat /\ readQueue \in Seq(Int) /\ Got \in Nat /\ Len(size) \in Nat
      /\ DOMAIN readQueue = 1..Len(readQueue)
  BY GotIs DEF BridgeTypeOK, FIN
<1>3. k = Got + Len(readQueue) + 1 /\ Got + Len(readQueue) < Len(size)
  BY PortHead
<1>4. Weight(k) \in Nat /\ Weight(k) = size[k] /\ readQueueBytes \in Nat
  <2>1. Weight(k) \in Nat
    BY <1>1, ChunkSize
  <2>2. QED
    BY <2>1, <1>1 DEF Weight, BridgeTypeOK
<1> HIDE DEF k
<1>5. Got' = Got /\ AtEnd' = AtEnd
  BY SameReturns
<1>6. /\ Len(readQueue') = Len(readQueue) + 1 /\ readQueue'[Len(readQueue) + 1] = k
      /\ \A i \in 1..Len(readQueue) : readQueue'[i] = readQueue[i]
      /\ DOMAIN readQueue' = 1..Len(readQueue) + 1
  BY <1>1, <1>2 DEF k
<1>7. BridgeTypeOK'
  <2>1. k \in 1..MaxChunks
    BY <1>1, <1>2, <1>3 DEF FIN, ABORT
  <2>2. readQueue' \in Seq(1..MaxChunks \cup {FIN})
    BY <2>1 DEF BridgeTypeOK, k
  <2>3. readQueueBytes' \in 0..MAX_READ_QUEUE_BYTES
    BY <1>4 DEF k
  <2>4. QED
    BY <2>2, <2>3, <1>1 DEF BridgeTypeOK
<1>8. ReadBefore'
  BY <1>1, <1>2, <1>6 DEF ReadBefore
<1>9. Returned'
  BY <1>5 DEF Returned
<1>10. OnTheWay'
  <2> DEFINE q == Got + Len(readQueue)
             on == Len(size) - q
  <2>1. /\ \A i \in 1..on : port[i] = q + i
        /\ Len(port) = on + (IF loop = "reading" THEN 0 ELSE 1)
        /\ loop = "fin" => port[Len(port)] = FIN
        /\ loop = "abort" => port[Len(port)] = ABORT
        /\ \A i \in 1..Len(readQueue) : readQueue[i] = Got + i
    BY <1>2 DEF OnTheWay
  <2>2. /\ q \in Nat /\ on \in Nat \ {0} /\ Got' + Len(readQueue)' = q + 1
        /\ Len(size)' - (Got' + Len(readQueue)') = on - 1
    BY <1>2, <1>3, <1>5, <1>6
  <2>3. \A i \in 1..on - 1 : port'[i] = Got' + Len(readQueue)' + i
    <3> HIDE DEF on, q
    <3>1. ASSUME NEW i \in 1..on - 1 PROVE port'[i] = (q + 1) + i
      <4>1. i \in Int /\ i \in 1..Len(port) - 1 /\ i + 1 \in 1..on
        BY <2>1, <2>2
      <4>2. port'[i] = q + (i + 1)
        BY <4>1, <1>1, <2>1
      <4>3. QED
        BY <4>1, <4>2, <2>2, SMT
    <3>2. QED
      BY <3>1, <2>2
  <2>4. Len(port') = on - 1 + (IF loop = "reading" THEN 0 ELSE 1)
    <3> HIDE DEF on
    <3>1. QED
      BY <1>1, <2>1, <2>2, SMT
  <2>5. loop # "reading" => port'[Len(port')] = port[Len(port)]
    <3> HIDE DEF on
    <3>1. ASSUME loop # "reading" PROVE Len(port') \in 1..Len(port) - 1 /\ Len(port') + 1 = Len(port)
      BY <3>1, <1>1, <2>1, <2>2
    <3>2. QED
      BY <3>1, <1>1
  <2>6. ASSUME NEW i \in DOMAIN readQueue' PROVE readQueue'[i] = Got' + i
    <3>1. CASE i = Len(readQueue) + 1
      BY <3>1, <1>2, <1>3, <1>5, <1>6
    <3>2. CASE i # Len(readQueue) + 1
      <4>1. i \in 1..Len(readQueue)
        BY <3>2, <2>6, <1>2, <1>6
      <4>2. QED
        BY <4>1, <1>5, <1>6, <2>1
    <3>3. QED
      BY <3>1, <3>2
  <2>7. QED
    BY <2>1, <2>2, <2>3, <2>4, <2>5, <2>6, <1>5 DEF OnTheWay
<1>11. AfterFin' /\ EndIsWhole'
  BY <1>5 DEF AfterFin, EndIsWhole
<1>12. Gauge'
  <2>1. Sums(Append(readQueue, k), readQueueBytes + Weight(k))
    BY <1>1, <1>2, <1>4, SumsOfAppend DEF Gauge
  <2>2. QED
    BY <2>1, <1>4, SumsKept DEF k
<1>13. QED
  BY <1>7, <1>8, <1>9, <1>10, <1>11, <1>12

LEMMA Message_Step == ASSUME BridgeInv, Message PROVE BridgeInv'
<1> DEFINE m == Head(port)
<1>1. port # <<>> /\ port' = Tail(port) /\ UNCHANGED <<size, loop, left>>
  BY DEF Message
<1>2. /\ port' \in Seq(1..MaxChunks \cup {FIN, ABORT})
      /\ \A i \in DOMAIN port' : port'[i] <= Len(size)'
  BY <1>1, TakenFromPort DEF BridgeInv
<1>3. overflowed \in BOOLEAN
  BY DEF BridgeInv, BridgeTypeOK
<1>4. CASE m = ABORT /\ Abort /\ UNCHANGED overflowed
  BY <1>1, <1>2, <1>3, <1>4, Abort_Step
<1>5. CASE isClosed /\ UNCHANGED <<readQueue, readQueueBytes, waiting, isClosed, abortError,
                                   overflowed, delivered>>
  <2>1. Got' = Got /\ AtEnd' = AtEnd
    BY <1>5, SameReturns
  <2>2. BridgeTypeOK' /\ ReadBefore'
    BY <1>1, <1>2, <1>5 DEF BridgeInv, BridgeTypeOK, ReadBefore
  <2>3. Returned' /\ OnTheWay' /\ AfterFin' /\ EndIsWhole'
    BY <1>1, <1>5, <2>1 DEF BridgeInv, Returned, OnTheWay, AfterFin, EndIsWhole
  <2>4. Gauge'
    BY <1>1, <1>5, SumsKept DEF BridgeInv, Gauge
  <2>5. QED
    BY <2>2, <2>3, <2>4 DEF BridgeInv
<1>6. CASE m = FIN /\ ~isClosed /\ Fin
  BY <1>1, <1>6, Fin_Step
<1>7. CASE m > 0 /\ ~isClosed /\ Data(m)
  <2>1. CASE /\ waiting /\ Resolve(m)
             /\ UNCHANGED <<readQueue, readQueueBytes, isClosed, abortError, overflowed>>
    BY <1>1, <1>7, <2>1, DataGiven_Step
  <2>2. CASE Abort /\ overflowed' = TRUE
    BY <1>1, <1>2, <2>2, Abort_Step
  <2>3. CASE /\ ~waiting /\ readQueueBytes + size[m] <= MAX_READ_QUEUE_BYTES
             /\ readQueue' = Append(readQueue, m) /\ readQueueBytes' = readQueueBytes + size[m]
             /\ UNCHANGED <<waiting, delivered, isClosed, abortError, overflowed>>
    BY <1>1, <1>7, <2>3, DataQueued_Step
  <2>4. QED
    BY <1>7, <2>1, <2>2, <2>3 DEF Data
<1>8. QED
  BY <1>4, <1>5, <1>6, <1>7 DEF Message

LEMMA ReadQueue_Step ==
    ASSUME BridgeInv, ~waiting, ~left, ~AtEnd, ~abortError, readQueue # <<>>,
           delivered' = Append(delivered, Head(readQueue)), readQueue' = Tail(readQueue),
           readQueueBytes' = IF Head(readQueue) > 0
                             THEN readQueueBytes - size[Head(readQueue)] ELSE readQueueBytes,
           waiting' = FALSE,
           UNCHANGED <<size, loop, port, isClosed, abortError, overflowed, left>>
    PROVE  BridgeInv'
<1> USE DEF BridgeInv
<1> DEFINE r == Head(readQueue)
           L == Len(readQueue)
<1>1. readQueue \in Seq(1..MaxChunks \cup {FIN}) /\ readQueue \in Seq(Int)
  BY DEF BridgeTypeOK, FIN
<1>2. /\ L \in Nat \ {0} /\ Len(readQueue') = L - 1 /\ r = readQueue[1] /\ r \in Int
      /\ \A i \in 1..L - 1 : readQueue'[i] = readQueue[i + 1]
      /\ DOMAIN readQueue = 1..L /\ DOMAIN readQueue' = 1..L - 1
  BY <1>1
<1>3. r \in 1..MaxChunks \cup {FIN} /\ r <= Len(size) /\ r >= 0
  <2> HIDE DEF r, L
  <2>1. 1 \in DOMAIN readQueue
    BY <1>2
  <2>2. readQueue[1] <= Len(size)
    BY <2>1 DEF ReadBefore
  <2>3. readQueue[1] \in 1..MaxChunks \cup {FIN}
    BY <1>1, <2>1
  <2>4. QED
    BY <2>2, <2>3, <1>2 DEF FIN
<1>4. Got \in Nat /\ Len(size) \in Nat
  BY GotIs DEF BridgeTypeOK
<1> HIDE DEF r, L
<1>5. r > 0 => r = Got + 1 /\ (isClosed => L > 1)
  <2>1. CASE ~isClosed
    BY <2>1, <1>2 DEF OnTheWay
  <2>2. CASE isClosed
    BY <2>2, <1>2, <1>3, <1>4 DEF AfterFin, L, FIN
  <2>3. QED
    BY <2>1, <2>2
<1>6. r = FIN => isClosed /\ loop = "fin" /\ Got = Len(size)
  <2>1. isClosed /\ ~(r > 0) => L = 1
    BY <1>2, <1>3, <1>4 DEF AfterFin, L, FIN
  <2>2. ~isClosed => r > 0
    BY <1>2, <1>4 DEF OnTheWay
  <2>3. QED
    BY <2>1, <2>2, <1>4 DEF AfterFin, L, FIN
<1>7. /\ r > 0 => ~AtEnd' /\ Got' = Got + 1
      /\ r <= 0 => AtEnd' /\ Got' = Got
      /\ delivered'[Len(delivered')] = r /\ delivered'[Got + 1] = r
      /\ \A i \in 1..Got : delivered'[i] = delivered[i]
  BY <1>2, OneMore DEF r
<1>8. BridgeTypeOK' /\ Gauge'
  <2>1. readQueue' \in Seq(1..MaxChunks \cup {FIN})
    BY <1>1
  <2>2. delivered' \in Seq(1..MaxChunks \cup {FIN, ABORT})
    BY <1>3 DEF BridgeTypeOK, r
  <2>3. /\ Weight(r) \in Nat /\ readQueueBytes' = readQueueBytes - Weight(r)
        /\ readQueueBytes \in 0..MAX_READ_QUEUE_BYTES
    <3>1. Weight(r) \in Nat /\ readQueueBytes \in 0..MAX_READ_QUEUE_BYTES
      BY <1>2, <1>3, ChunkSize DEF BridgeTypeOK
    <3>2. CASE r > 0
      BY <3>1, <3>2 DEF Weight, r
    <3>3. CASE ~(r > 0)
      BY <3>1, <3>3 DEF Weight, r
    <3>4. QED
      BY <3>1, <3>2, <3>3
  <2>4. Sums(Tail(readQueue), readQueueBytes - Weight(r)) /\ Weight(r) <= readQueueBytes
    BY <1>1, <2>3, SumsOfTail DEF Gauge, r
  <2>5. readQueueBytes' \in 0..MAX_READ_QUEUE_BYTES
    BY <2>3, <2>4
  <2>6. BridgeTypeOK'
    BY <2>1, <2>2, <2>5 DEF BridgeTypeOK
  <2>7. Gauge'
    BY <2>3, <2>4, SumsKept
  <2>8. QED
    BY <2>6, <2>7
<1>9. ReadBefore'
  <2>1. \A i \in DOMAIN readQueue' : readQueue'[i] <= Len(size)
    BY <1>2 DEF ReadBefore
  <2>2. QED
    BY <2>1 DEF ReadBefore
<1>10. Returned'
  <2>1. \A i \in 1..Got' : delivered'[i] = i
    <3> SUFFICES ASSUME NEW i \in 1..Got' PROVE delivered'[i] = i
      OBVIOUS
    <3>1. CASE i \in 1..Got
      BY <3>1, <1>7 DEF Returned
    <3>2. CASE i \notin 1..Got
      <4>1. r > 0 /\ i = Got + 1
        BY <3>2, <1>2, <1>4, <1>7
      <4>2. QED
        BY <4>1, <1>5, <1>7
    <3>3. QED
      BY <3>1, <3>2
  <2>2. QED
    BY <2>1 DEF Returned
<1>11. r > 0 => \A i \in 1..L - 1 : (i < L - 1 \/ ~isClosed) => readQueue'[i] = Got' + i
  <2>1. SUFFICES ASSUME r > 0, NEW i \in 1..L - 1, i < L - 1 \/ ~isClosed
                 PROVE readQueue'[i] = Got' + i
    OBVIOUS
  <2>2. i \in Int /\ i + 1 \in 1..L /\ readQueue'[i] = readQueue[i + 1]
    BY <1>2
  <2>3. readQueue[i + 1] = Got + (i + 1)
    <3>1. CASE ~isClosed
      BY <3>1, <1>2, <2>2 DEF OnTheWay
    <3>2. CASE isClosed
      <4>1. i + 1 \in 1..L - 1
        BY <3>2, <2>1, <2>2, <1>2
      <4>2. QED
        BY <3>2, <4>1 DEF AfterFin, L
    <3>3. QED
      BY <3>1, <3>2
  <2>4. Got' = Got + 1
    BY <2>1, <1>7
  <2>5. Got' + i = Got + (i + 1)
    BY <2>2, <2>4, <1>4
  <2>6. QED
    BY <2>2, <2>3, <2>5
<1>12. OnTheWay'
  <2>1. CASE isClosed
    BY <2>1 DEF OnTheWay
  <2>2. CASE ~isClosed
    <3>1. r > 0 /\ Got' = Got + 1 /\ ~AtEnd'
      BY <2>2, <1>3, <1>6, <1>7 DEF FIN
    <3>2. Got' + Len(readQueue') = Got + Len(readQueue)
      BY <3>1, <1>2, <1>4 DEF L
    <3>3. \A i \in DOMAIN readQueue' : readQueue'[i] = Got' + i
      BY <3>1, <2>2, <1>2, <1>11
    <3>4. QED
      BY <3>1, <3>2, <3>3, <2>2 DEF OnTheWay
  <2>3. QED
    BY <2>1, <2>2
<1>13. AfterFin'
  <2>1. CASE r > 0 /\ isClosed
    <3>1. /\ L > 1 /\ Len(readQueue') \in 1..L - 1 /\ Len(readQueue') + 1 = L
          /\ Got' = Got + 1
      BY <2>1, <1>2, <1>5, <1>7
    <3>2. /\ L = Len(size) - Got + 1 /\ readQueue[L] = FIN /\ loop = "fin"
      BY <2>1 DEF AfterFin, L
    <3>3. readQueue'[Len(readQueue')] = FIN /\ readQueue' # <<>>
      <4>1. L - 1 \in 1..L - 1 /\ (L - 1) + 1 = L /\ Len(readQueue') = L - 1
        BY <3>1, <1>2
      <4>2. readQueue'[L - 1] = readQueue[(L - 1) + 1]
        BY <4>1, <1>2
      <4>3. readQueue' # <<>>
        BY <4>1
      <4>4. QED
        BY <4>1, <4>2, <4>3, <3>2
    <3>4. Len(readQueue') = Len(size) - Got' + 1
      BY <3>1, <3>2, <1>2, <1>4
    <3>5. \A i \in 1..Len(readQueue') - 1 : readQueue'[i] = Got' + i
      BY <3>1, <2>1, <1>2, <1>11
    <3>6. QED
      BY <3>2, <3>3, <3>4, <3>5 DEF AfterFin
  <2>2. CASE r <= 0
    BY <2>2, <1>3, <1>6, <1>7 DEF AfterFin, FIN
  <2>3. CASE ~isClosed
    BY <2>3 DEF AfterFin
  <2>4. QED
    BY <2>1, <2>2, <2>3, <1>2
<1>14. EndIsWhole'
  BY <1>2, <1>6, <1>7 DEF EndIsWhole
<1>15. QED
  BY <1>8, <1>9, <1>10, <1>12, <1>13, <1>14

LEMMA Read_Step == ASSUME BridgeInv, Read PROVE BridgeInv'
<1> USE DEF BridgeInv
<1>1. ~waiting /\ ~left /\ UNCHANGED <<size, loop, port, isClosed, abortError, overflowed, left>>
  BY DEF Read
<1>2. ~AtEnd
  <2>1. delivered \in Seq(Int)
    BY DEF BridgeTypeOK, FIN, ABORT
  <2>2. ASSUME AtEnd PROVE FALSE
    <3>1. Len(delivered) \in DOMAIN delivered
      BY <2>1, <2>2 DEF AtEnd
    <3>2. delivered[Len(delivered)] > 0 /\ delivered[Len(delivered)] \in Int
      BY <2>1, <3>1 DEF Read
    <3>3. QED
      BY <3>2, <2>2 DEF AtEnd
  <2>3. QED
    BY <2>2
<1>3. CASE abortError
  <2>1. ReadResult = ABORT /\ ABORT # WAIT
    BY <1>3 DEF ReadResult, ABORT, WAIT
  <2>2. /\ waiting' = FALSE /\ delivered' = Append(delivered, ABORT)
        /\ UNCHANGED <<readQueue, readQueueBytes>>
    BY <1>3, <2>1 DEF Read
  <2>3. /\ AtEnd' /\ Got' = Got /\ delivered'[Len(delivered')] = ABORT
        /\ \A i \in 1..Got : delivered'[i] = delivered[i]
    <3>1. ABORT \in Int /\ ABORT <= 0
      BY DEF ABORT
    <3>2. QED
      BY <3>1, <1>2, <2>2, OneMore
  <2>4. BridgeTypeOK' /\ ReadBefore'
    <3>1. delivered' \in Seq(1..MaxChunks \cup {FIN, ABORT})
      BY <2>2 DEF BridgeTypeOK
    <3>2. QED
      BY <3>1, <1>1, <2>2 DEF BridgeTypeOK, ReadBefore
  <2>5. Returned'
    BY <1>1, <2>2, <2>3 DEF Returned
  <2>6. OnTheWay' /\ AfterFin' /\ EndIsWhole'
    BY <1>1, <1>3, <2>3 DEF OnTheWay, AfterFin, EndIsWhole, Returned, FIN, ABORT
  <2>7. Gauge'
    BY <1>1, <2>2, SumsKept DEF Gauge
  <2>8. QED
    BY <2>4, <2>5, <2>6, <2>7
<1>4. CASE ~abortError /\ readQueue # <<>>
  <2>1. readQueue \in Seq(1..MaxChunks \cup {FIN})
    BY DEF BridgeTypeOK
  <2>2. ReadResult = Head(readQueue) /\ Head(readQueue) # WAIT
    BY <1>4, <2>1 DEF ReadResult, WAIT, FIN
  <2>3. /\ waiting' = FALSE /\ delivered' = Append(delivered, Head(readQueue))
        /\ readQueue' = Tail(readQueue)
        /\ readQueueBytes' = IF Head(readQueue) > 0
                             THEN readQueueBytes - size[Head(readQueue)] ELSE readQueueBytes
    BY <1>4, <2>2 DEF Read
  <2>4. QED
    BY <1>1, <1>2, <1>4, <2>3, ReadQueue_Step
<1>5. CASE ~abortError /\ readQueue = <<>>
  <2>1. ~isClosed
    BY <1>1, <1>2, <1>5 DEF AfterFin
  <2>2. ReadResult = WAIT
    BY <1>5, <2>1 DEF ReadResult
  <2>3. waiting' = TRUE /\ delivered' = delivered /\ UNCHANGED <<readQueue, readQueueBytes>>
    BY <1>5, <2>2 DEF Read
  <2>4. Got' = Got /\ AtEnd' = AtEnd
    BY <2>3, SameReturns
  <2>5. BridgeTypeOK' /\ ReadBefore'
    BY <1>1, <2>3 DEF BridgeTypeOK, ReadBefore
  <2>6. Returned' /\ OnTheWay' /\ AfterFin' /\ EndIsWhole'
    BY <1>1, <1>2, <1>5, <2>1, <2>3, <2>4 DEF Returned, OnTheWay, AfterFin, EndIsWhole
  <2>7. Gauge'
    BY <1>1, <2>3, SumsKept DEF Gauge
  <2>8. QED
    BY <2>5, <2>6, <2>7
<1>6. QED
  BY <1>3, <1>4, <1>5

LEMMA CancelReader_Step == ASSUME BridgeInv, CancelReader PROVE BridgeInv'
<1> USE DEF BridgeInv
<1>1. /\ ~left /\ left' = TRUE /\ isClosed' = TRUE /\ Resolve(FIN)
      /\ UNCHANGED <<size, loop, port, readQueue, readQueueBytes, abortError, overflowed>>
  BY DEF CancelReader
<1>2. /\ ~waiting' /\ delivered' \in Seq(1..MaxChunks \cup {FIN, ABORT})
      /\ waiting => delivered' = Append(delivered, FIN) /\ ~AtEnd
      /\ ~waiting => delivered' = delivered
  BY <1>1, ResolveIs DEF Returned
<1>3. Got' = Got /\ \A i \in 1..Got : delivered'[i] = delivered[i]
  BY <1>2, OneMore, SameReturns DEF FIN
<1>4. BridgeTypeOK' /\ ReadBefore'
  <2>1. waiting' \in BOOLEAN
    BY <1>1 DEF Resolve
  <2>2. QED
    BY <2>1, <1>1, <1>2 DEF BridgeTypeOK, ReadBefore
<1>5. Returned' /\ OnTheWay' /\ AfterFin' /\ EndIsWhole'
  BY <1>1, <1>2, <1>3 DEF Returned, OnTheWay, AfterFin, EndIsWhole
<1>6. Gauge'
  BY <1>1, SumsKept DEF Gauge
<1>7. QED
  BY <1>4, <1>5, <1>6

LEMMA CloseBridge_Step == ASSUME BridgeInv, CloseBridge PROVE BridgeInv'
<1> USE DEF BridgeInv
<1>1. /\ isClosed' = TRUE /\ port' = <<>> /\ left' = TRUE
      /\ UNCHANGED <<size, loop, readQueue, readQueueBytes, waiting, abortError, overflowed,
                     delivered>>
  BY DEF CloseBridge
<1>2. Got' = Got /\ AtEnd' = AtEnd
  BY <1>1, SameReturns
<1>3. BridgeTypeOK' /\ ReadBefore'
  BY <1>1 DEF BridgeTypeOK, ReadBefore
<1>4. Returned' /\ OnTheWay' /\ AfterFin' /\ EndIsWhole'
  BY <1>1, <1>2 DEF Returned, OnTheWay, AfterFin, EndIsWhole
<1>5. Gauge'
  BY <1>1, SumsKept DEF Gauge
<1>6. QED
  BY <1>3, <1>4, <1>5

LEMMA Bridge_Same == ASSUME BridgeInv, UNCHANGED bridgeVars PROVE BridgeInv'
<1>1. Got' = Got /\ AtEnd' = AtEnd
  BY SameReturns DEF bridgeVars
<1>2. Gauge'
  BY SumsKept DEF bridgeVars, BridgeInv, Gauge
<1>3. QED
  BY <1>1, <1>2 DEF bridgeVars, BridgeInv, BridgeTypeOK, ReadBefore, Returned, OnTheWay, AfterFin,
                    EndIsWhole

LEMMA Bridge_Init == ASSUME BridgeInit PROVE BridgeInv
<1> USE DEF BridgeInit
<1>1. ~AtEnd /\ Got = 0
  BY DEF AtEnd, Got, Chunks
<1>2. BridgeTypeOK
  <2>1. size \in Seq(Sizes) /\ Len(size) <= MaxChunks
    BY BridgeAssumption
  <2>2. readQueueBytes \in 0..MAX_READ_QUEUE_BYTES
    BY BridgeAssumption
  <2>3. /\ port \in Seq(1..MaxChunks \cup {FIN, ABORT}) /\ readQueue \in Seq(1..MaxChunks \cup {FIN})
        /\ delivered \in Seq(1..MaxChunks \cup {FIN, ABORT})
    OBVIOUS
  <2>4. QED
    BY <2>1, <2>2, <2>3 DEF BridgeTypeOK
<1>3. ReadBefore /\ Returned /\ OnTheWay /\ AfterFin /\ EndIsWhole
  BY <1>1 DEF ReadBefore, Returned, OnTheWay, AfterFin, EndIsWhole
<1>4. Gauge
  BY SumsOfNone DEF Gauge
<1>5. QED
  BY <1>2, <1>3, <1>4 DEF BridgeInv

LEMMA BridgeGives == ASSUME BridgeInv PROVE UploadWhole /\ ReadIsServed
<1> USE DEF BridgeInv
<1>1. /\ Got \in Nat /\ (~AtEnd => Got = Len(delivered)) /\ (AtEnd => Got = Len(delivered) - 1)
      /\ delivered \in Seq(Int)
  BY GotIs DEF BridgeTypeOK, FIN, ABORT
<1>2. Chunks \in Seq(Int) /\ Len(Chunks) = Got /\ \A i \in 1..Got : Chunks[i] = delivered[i]
  BY <1>1 DEF Chunks, Got
<1>3. Chunks = [i \in 1..Len(Chunks) |-> i]
  BY <1>2 DEF Returned
<1>4. delivered # <<>> /\ delivered[Len(delivered)] = FIN /\ ~left =>
          loop = "fin" /\ Len(Chunks) = Len(size)
  BY <1>2 DEF EndIsWhole, AtEnd, FIN
<1>5. Len(readQueue) \in Nat
  BY DEF BridgeTypeOK, FIN
<1>6. readQueueBytes = Measure(readQueue)
  BY <1>5, MeasureIs DEF Gauge
<1>7. QED
  BY <1>3, <1>4, <1>6 DEF UploadWhole, ReadIsServed, Returned

-----------------------------------------------------------------------------
(* The session *)

Count(n) == [i \in 1..n |-> i]

\* What the handlers got: the first n chunks, and the FIN only behind all or
\* after a close() that came before the handlers.
InOrder ==
    \E n \in 0..arrived :
        \/ passed = Count(n)
        \/ passed = Count(n) \o <<0>> /\ (early \/ (ending = "fin" /\ n = arrived))

\* Before the tunnel registers, all the pump has read is buffered, unless it has
\* given the stream up; afterwards all of it has been handed over.
Buffered ==
    /\ pump = "reading" => Len(pending) <= MAX_PENDING
    /\ handlers = "none" =>
        /\ passed = <<>> /\ sends = 0
        /\ pump = "reading" => ~shut \/ early
        /\ \/ pending = <<>> /\ pump = "ended"
           \/ pending = Count(taken)
           \/ /\ pending = Count(taken) \o <<0>> /\ pump = "ended"
              /\ early \/ (ending = "fin" /\ taken = arrived)
    /\ handlers = "registered" /\ pump = "reading" => passed = Count(taken) /\ (~shut \/ early)

\* close() tells the handlers it clears, and a tunnel that registers on a closed
\* stream is refused when it sends.
Told ==
    /\ handlers = "cleared" => closes
    /\ handlers = "registered" /\ shut /\ sends > 0 => refused

SessionInv == SessionTypeOK /\ InOrder /\ Buffered /\ Told

USE SessionAssumption

LEMMA CountIs ==
    ASSUME NEW n \in Nat
    PROVE  /\ Append(Count(n), n + 1) = Count(n + 1)
           /\ Append(Count(n), 0) = Count(n) \o <<0>>
<1>1. Count(n) \in Seq(Int) /\ Len(Count(n)) = n
  BY DEF Count
<1>2. Append(Count(n), n + 1) = Count(n + 1)
  <2>1. /\ Append(Count(n), n + 1) \in Seq(Int) /\ Len(Append(Count(n), n + 1)) = n + 1
        /\ \A i \in 1..n + 1 : Append(Count(n), n + 1)[i] = IF i = n + 1 THEN n + 1 ELSE Count(n)[i]
    BY <1>1
  <2>2. \A i \in 1..n : Count(n)[i] = i
    BY DEF Count
  <2>3. /\ Count(n + 1) \in Seq(Int) /\ Len(Count(n + 1)) = n + 1
        /\ \A i \in 1..n + 1 : Count(n + 1)[i] = i
    BY DEF Count
  <2> DEFINE s == Append(Count(n), n + 1)
             t == Count(n + 1)
  <2>4. ASSUME NEW i \in 1..n + 1 PROVE s[i] = t[i]
    BY <2>1, <2>2, <2>3
  <2> HIDE DEF s, t
  <2>5. s = t
    BY <2>1, <2>3, <2>4 DEF s, t
  <2>6. QED
    BY <2>5 DEF s, t
<1>3. Append(Count(n), 0) = Count(n) \o <<0>>
  BY <1>1
<1>4. QED
  BY <1>2, <1>3

LEMMA CountOfNone == Count(0) = <<>>
  BY DEF Count

LEMMA Session_Init == ASSUME SessionInit PROVE SessionInv
<1> USE DEF SessionInit
<1>1. SessionTypeOK
  <2>1. pending \in Seq(0..MaxIncoming) /\ passed \in Seq(0..MaxIncoming)
    OBVIOUS
  <2>2. arrived \in 0..MaxIncoming /\ taken \in 0..arrived /\ Len(pending) <= MAX_PENDING + 1
        /\ sends \in 0..MaxSends
    OBVIOUS
  <2>3. QED
    BY <2>1, <2>2 DEF SessionTypeOK
<1>2. InOrder
  <2>1. 0 \in 0..arrived /\ passed = Count(0)
    BY CountOfNone
  <2>2. QED
    BY <2>1 DEF InOrder
<1>3. Buffered /\ Told
  BY CountOfNone DEF Buffered, Told
<1>4. QED
  BY <1>1, <1>2, <1>3 DEF SessionInv

\* The chunks handed over stay in order when nothing is handed over.
LEMMA InOrderKept ==
    ASSUME SessionInv, UNCHANGED passed, arrived' \in Nat, arrived <= arrived',
           ending = "fin" => ending' = "fin" /\ arrived' = arrived,
           early => early'
    PROVE  InOrder'
<1>1. arrived \in Nat
  BY DEF SessionInv, SessionTypeOK
<1>2. PICK n \in 0..arrived :
        \/ passed = Count(n)
        \/ passed = Count(n) \o <<0>> /\ (early \/ (ending = "fin" /\ n = arrived))
  BY DEF SessionInv, InOrder
<1>3. n \in 0..arrived'
  BY <1>1
<1>4. \/ passed' = Count(n)
      \/ passed' = Count(n) \o <<0>> /\ (early' \/ (ending' = "fin" /\ n = arrived'))
  BY <1>2
<1>5. QED
  BY <1>3, <1>4 DEF InOrder, Count

LEMMA Arrives_Step == ASSUME SessionInv, Arrives PROVE SessionInv'
<1> USE DEF SessionInv
<1>1. /\ ending = "no"
      /\ UNCHANGED <<taken, pump, handlers, pending, shut, passed, closes, errors, sending, sends,
                     refused, early>>
      /\ \/ arrived < MaxIncoming /\ arrived' = arrived + 1 /\ UNCHANGED ending
         \/ ending' \in {"fin", "error"} /\ UNCHANGED arrived
  BY DEF Arrives
<1>2. arrived \in 0..MaxIncoming /\ taken \in 0..arrived
  BY DEF SessionTypeOK
<1>3. arrived' \in 0..MaxIncoming /\ taken' \in 0..arrived' /\ arrived <= arrived' /\ arrived' \in Nat
  BY <1>1, <1>2
<1>4. SessionTypeOK'
  BY <1>1, <1>3 DEF SessionTypeOK
<1>5. InOrder'
  BY <1>1, <1>3, InOrderKept
<1>6. Buffered' /\ Told'
  BY <1>1 DEF Buffered, Told, Count
<1>7. QED
  BY <1>4, <1>5, <1>6

LEMMA OwnerCloses_Step == ASSUME SessionInv, OwnerCloses PROVE SessionInv'
<1> USE DEF SessionInv
<1>1. /\ ~shut /\ shut' = TRUE /\ early' = (early \/ handlers = "none")
      /\ handlers' = IF handlers = "registered" THEN "cleared" ELSE handlers
      /\ closes' = (closes \/ handlers = "registered")
      /\ UNCHANGED <<arrived, ending, taken, pump, pending, passed, errors, sending, sends, refused>>
  BY DEF OwnerCloses, Close, SessionTypeOK
<1>2. SessionTypeOK'
  BY <1>1 DEF SessionTypeOK
<1>3. InOrder'
  BY <1>1, InOrderKept DEF SessionTypeOK
<1>4. Buffered' /\ Told'
  BY <1>1 DEF Buffered, Told, Count
<1>5. QED
  BY <1>2, <1>3, <1>4

LEMMA PumpData_Step == ASSUME SessionInv, PumpData PROVE SessionInv'
<1> USE DEF SessionInv
<1>1. /\ pump = "reading" /\ taken < arrived /\ taken' = taken + 1
      /\ UNCHANGED <<arrived, ending, errors, sending, sends, refused, early>>
  BY DEF PumpData
<1>2. /\ arrived \in 0..MaxIncoming /\ taken \in 0..arrived /\ taken' \in 0..arrived /\ taken \in Nat
      /\ taken + 1 \in 0..MaxIncoming /\ pending \in Seq(0..MaxIncoming) /\ Len(pending) \in Nat
  BY <1>1 DEF SessionTypeOK
<1>3. Append(Count(taken), taken + 1) = Count(taken + 1)
  BY <1>2, CountIs
<1>4. CASE /\ handlers = "registered" /\ passed' = Append(passed, taken + 1)
           /\ pump' = IF shut THEN "ended" ELSE "reading"
           /\ UNCHANGED <<pending, shut, handlers, closes>>
  <2>1. passed' = Count(taken')
    BY <1>1, <1>3, <1>4 DEF Buffered
  <2>2. SessionTypeOK'
    BY <1>1, <1>2, <1>4 DEF SessionTypeOK
  <2>3. InOrder'
    BY <1>1, <1>2, <2>1 DEF InOrder, Count
  <2>4. Buffered' /\ Told'
    BY <1>1, <1>4, <2>1 DEF Buffered, Told, Count
  <2>5. QED
    BY <2>2, <2>3, <2>4
<1>5. CASE /\ handlers # "registered" /\ Len(pending) < MAX_PENDING
           /\ pending' = Append(pending, taken + 1)
           /\ pump' = IF shut THEN "ended" ELSE "reading"
           /\ UNCHANGED <<passed, shut, handlers, closes>>
  <2>1. Len(pending') = Len(pending) + 1 /\ pending' \in Seq(0..MaxIncoming)
    BY <1>2, <1>5
  <2>2. SessionTypeOK'
    BY <1>1, <1>2, <1>5, <2>1 DEF SessionTypeOK
  <2>3. InOrder'
    BY <1>1, <1>2, <1>5, InOrderKept
  <2>4. handlers = "none" => pending' = Count(taken')
    <3>1. handlers = "none" => pending = Count(taken)
      BY <1>1 DEF Buffered
    <3>2. QED
      BY <3>1, <1>1, <1>3, <1>5
  <2>5. Len(pending') <= MAX_PENDING
    BY <1>2, <1>5, <2>1
  <2>6. Buffered' /\ Told'
    BY <1>1, <1>5, <2>4, <2>5 DEF Buffered, Told, Count
  <2>7. QED
    BY <2>2, <2>3, <2>6
<1>6. CASE /\ handlers # "registered" /\ Len(pending) >= MAX_PENDING
           /\ pending' = <<>> /\ pump' = "ended" /\ Close
           /\ UNCHANGED passed
  <2>1. shut' = TRUE /\ handlers' = handlers /\ closes' = closes
    BY <1>6 DEF Close, SessionTypeOK
  <2>2. pending' \in Seq(0..MaxIncoming) /\ Len(pending') <= MAX_PENDING + 1
    BY <1>6
  <2>3. SessionTypeOK'
    BY <1>1, <1>2, <1>6, <2>1, <2>2 DEF SessionTypeOK
  <2>4. InOrder'
    BY <1>1, <1>2, <1>6, InOrderKept
  <2>5. Buffered' /\ Told'
    BY <1>1, <1>6, <2>1 DEF Buffered, Told, Count
  <2>6. QED
    BY <2>3, <2>4, <2>5
<1>7. QED
  BY <1>4, <1>5, <1>6 DEF PumpData

LEMMA PumpFin_Step == ASSUME SessionInv, PumpFin PROVE SessionInv'
<1> USE DEF SessionInv
<1>1. /\ pump = "reading" /\ ~shut /\ taken = arrived /\ ending = "fin" /\ pump' = "ended"
      /\ shut' = TRUE /\ handlers' = IF handlers = "registered" THEN "cleared" ELSE handlers
      /\ closes' = (closes \/ handlers = "registered")
      /\ UNCHANGED <<arrived, ending, taken, errors, sending, sends, refused, early>>
  BY DEF PumpFin, Close, SessionTypeOK
<1>2. /\ arrived \in 0..MaxIncoming /\ taken \in 0..arrived /\ taken \in Nat
      /\ pending \in Seq(0..MaxIncoming) /\ Len(pending) \in Nat
  BY DEF SessionTypeOK
<1>3. Append(Count(taken), 0) = Count(taken) \o <<0>>
  BY <1>2, CountIs
<1>4. CASE handlers = "registered" /\ passed' = Append(passed, 0) /\ UNCHANGED pending
  <2>1. passed' = Count(taken) \o <<0>>
    BY <1>1, <1>3, <1>4 DEF Buffered
  <2>2. SessionTypeOK'
    BY <1>1, <1>2, <1>4 DEF SessionTypeOK
  <2>3. InOrder'
    BY <1>1, <1>2, <2>1 DEF InOrder, Count
  <2>4. Buffered' /\ Told'
    BY <1>1, <1>4 DEF Buffered, Told, Count
  <2>5. QED
    BY <2>2, <2>3, <2>4
<1>5. CASE handlers # "registered" /\ pending' = Append(pending, 0) /\ UNCHANGED passed
  <2>1. Len(pending') = Len(pending) + 1 /\ pending' \in Seq(0..MaxIncoming)
    BY <1>2, <1>5
  <2>2. Len(pending') <= MAX_PENDING + 1
    BY <1>1, <1>2, <2>1 DEF Buffered
  <2>3. SessionTypeOK'
    BY <1>1, <1>2, <1>5, <2>1, <2>2 DEF SessionTypeOK
  <2>4. InOrder'
    BY <1>1, <1>2, <1>5, InOrderKept
  <2>5. handlers = "none" => pending' = Count(taken) \o <<0>>
    <3>1. handlers = "none" => pending = Count(taken)
      BY <1>1 DEF Buffered
    <3>2. QED
      BY <3>1, <1>3, <1>5
  <2>6. Buffered' /\ Told'
    BY <1>1, <1>5, <2>5 DEF Buffered, Told, Count
  <2>7. QED
    BY <2>3, <2>4, <2>6
<1>6. QED
  BY <1>4, <1>5 DEF PumpFin

LEMMA PumpError_Step == ASSUME SessionInv, PumpError PROVE SessionInv'
<1> USE DEF SessionInv
<1>1. /\ pump = "reading" /\ pump' = "ended" /\ shut' = TRUE
      /\ handlers' = IF handlers = "registered" /\ ~shut THEN "cleared" ELSE handlers
      /\ closes' = (closes \/ (handlers = "registered" /\ ~shut))
      /\ errors' = (errors \/ (handlers = "registered" /\ ~shut))
      /\ UNCHANGED <<arrived, ending, taken, pending, passed, sending, sends, refused, early>>
  BY DEF PumpError, Close, SessionTypeOK
<1>2. SessionTypeOK'
  BY <1>1 DEF SessionTypeOK
<1>3. InOrder'
  BY <1>1, InOrderKept DEF SessionTypeOK
<1>4. Buffered' /\ Told'
  BY <1>1 DEF Buffered, Told, Count
<1>5. QED
  BY <1>2, <1>3, <1>4

LEMMA PumpCancelled_Step == ASSUME SessionInv, PumpCancelled PROVE SessionInv'
<1> USE DEF SessionInv
<1>1. /\ pump = "reading" /\ shut /\ pump' = "ended"
      /\ UNCHANGED <<arrived, ending, taken, handlers, shut, errors, sending, sends, refused, early>>
  BY DEF PumpCancelled
<1>2. /\ pending \in Seq(0..MaxIncoming) /\ Len(pending) \in Nat /\ Len(pending) <= MAX_PENDING
      /\ taken \in 0..arrived /\ taken \in Nat /\ arrived \in 0..MaxIncoming /\ 0 \in 0..MaxIncoming
  BY <1>1 DEF SessionTypeOK, Buffered
<1>3. Append(Count(taken), 0) = Count(taken) \o <<0>>
  BY <1>2, CountIs
<1>4. CASE /\ handlers = "registered" /\ passed' = Append(passed, 0) /\ closes' = TRUE
           /\ UNCHANGED pending
  <2>1. passed' = Count(taken) \o <<0>> /\ early
    BY <1>1, <1>3, <1>4 DEF Buffered
  <2>2. SessionTypeOK'
    BY <1>1, <1>2, <1>4 DEF SessionTypeOK
  <2>3. InOrder'
    BY <1>1, <1>2, <2>1 DEF InOrder, Count
  <2>4. Buffered' /\ Told'
    BY <1>1, <1>4 DEF Buffered, Told, Count
  <2>5. QED
    BY <2>2, <2>3, <2>4
<1>5. CASE handlers # "registered" /\ pending' = Append(pending, 0) /\ UNCHANGED <<passed, closes>>
  <2>1. pending' \in Seq(0..MaxIncoming) /\ Len(pending') <= MAX_PENDING + 1
    BY <1>2, <1>5
  <2>2. SessionTypeOK'
    BY <1>1, <1>5, <2>1 DEF SessionTypeOK
  <2>3. InOrder'
    BY <1>1, <1>2, <1>5, InOrderKept
  <2>4. handlers = "none" => pending' = Count(taken) \o <<0>> /\ early
    BY <1>1, <1>3, <1>5 DEF Buffered
  <2>5. Buffered' /\ Told'
    BY <1>1, <1>5, <2>4 DEF Buffered, Told, Count
  <2>6. QED
    BY <2>2, <2>3, <2>5
<1>6. QED
  BY <1>4, <1>5 DEF PumpCancelled

LEMMA RegisterStream_Step == ASSUME SessionInv, RegisterStream PROVE SessionInv'
<1> USE DEF SessionInv
<1>1. /\ handlers = "none" /\ handlers' = "registered"
      /\ passed' = passed \o pending /\ pending' = <<>>
      /\ UNCHANGED <<arrived, ending, taken, pump, shut, errors, sending, sends, refused, early>>
  BY DEF RegisterStream
<1>2. closes' \in BOOLEAN
  BY DEF RegisterStream, SessionTypeOK
<1>3. /\ arrived \in 0..MaxIncoming /\ taken \in 0..arrived /\ taken \in Nat /\ sends = 0
      /\ pending \in Seq(0..MaxIncoming) /\ passed = <<>>
  BY <1>1 DEF SessionTypeOK, Buffered
<1>4. passed' = pending
  BY <1>1, <1>3
<1>5. /\ pump = "reading" => (~shut \/ early) /\ passed' = Count(taken)
      /\ \/ passed' = <<>>
         \/ passed' = Count(taken)
         \/ passed' = Count(taken) \o <<0>> /\ (early \/ (ending = "fin" /\ taken = arrived))
  BY <1>1, <1>4 DEF Buffered
<1>6. SessionTypeOK'
  <2>1. pending' \in Seq(0..MaxIncoming) /\ Len(pending') <= MAX_PENDING + 1
    BY <1>1
  <2>2. QED
    BY <1>1, <1>2, <1>3, <1>4, <2>1 DEF SessionTypeOK
<1>7. InOrder'
  <2>1. CASE passed' = <<>>
    <3>1. 0 \in 0..arrived' /\ passed' = Count(0)
      BY <2>1, <1>1, <1>3, CountOfNone
    <3>2. QED
      BY <3>1 DEF InOrder, Count
  <2>2. CASE passed' = Count(taken)
    BY <2>2, <1>1, <1>3 DEF InOrder, Count
  <2>3. CASE /\ passed' = Count(taken) \o <<0>>
             /\ early \/ (ending = "fin" /\ taken = arrived)
    BY <2>3, <1>1, <1>3 DEF InOrder, Count
  <2>4. QED
    BY <1>5, <2>1, <2>2, <2>3
<1>8. Buffered' /\ Told'
  <2>1. Len(pending') = 0
    BY <1>1
  <2>2. QED
    BY <2>1, <1>1, <1>3, <1>5 DEF Buffered, Told, Count
<1>9. QED
  BY <1>6, <1>7, <1>8

LEMMA ReleaseStream_Step == ASSUME SessionInv, ReleaseStream PROVE SessionInv'
<1> USE DEF SessionInv
<1>1. /\ handlers = "registered" /\ handlers' = "released"
      /\ UNCHANGED <<arrived, ending, taken, pump, pending, shut, passed, closes, errors, sending,
                     sends, refused, early>>
  BY DEF ReleaseStream
<1>2. SessionTypeOK'
  BY <1>1 DEF SessionTypeOK
<1>3. InOrder'
  BY <1>1, InOrderKept DEF SessionTypeOK
<1>4. Buffered' /\ Told'
  BY <1>1 DEF Buffered, Told, Count
<1>5. QED
  BY <1>2, <1>3, <1>4

\* The calls of sendStreamData.
LEMMA Sending_Step == ASSUME SessionInv, Send \/ Written \/ FinSent PROVE SessionInv'
<1> USE DEF SessionInv
<1>1. UNCHANGED <<arrived, ending, taken, pump, handlers, pending, shut, passed, closes, errors,
                  early>>
  BY DEF Send, Written, FinSent
<1>2. /\ sending' \in {"no", "write", "close"} /\ sends' \in 0..MaxSends /\ refused' \in BOOLEAN
      /\ refused => refused'
      /\ sends' > 0 /\ sends' # sends => refused' = shut
      /\ sends' # sends => handlers # "none"
  <2>1. CASE Send
    BY <2>1 DEF Send, SessionTypeOK
  <2>2. CASE Written
    BY <2>2 DEF Written, SessionTypeOK
  <2>3. CASE FinSent
    BY <2>3 DEF FinSent, SessionTypeOK
  <2>4. QED
    BY <2>1, <2>2, <2>3
<1>3. SessionTypeOK'
  BY <1>1, <1>2 DEF SessionTypeOK
<1>4. InOrder'
  BY <1>1, InOrderKept DEF SessionTypeOK
<1>5. Buffered'
  <2>1. handlers = "none" => sends' = 0
    BY <1>2 DEF Buffered
  <2>2. QED
    BY <1>1, <2>1 DEF Buffered, Count
<1>6. Told'
  <2>1. handlers = "cleared" => closes
    BY DEF Told
  <2>2. ASSUME handlers = "registered", shut, sends' > 0 PROVE refused'
    <3>1. CASE sends' = sends
      <4>1. refused
        BY <2>2, <3>1, Zenon DEF Told
      <4>2. QED
        BY <4>1, <1>2, Zenon
    <3>2. CASE sends' # sends
      BY <2>2, <3>2, <1>2, Zenon
    <3>3. QED
      BY <3>1, <3>2
  <2>3. QED
    BY <2>1, <2>2, <1>1, Zenon DEF Told
<1>7. QED
  BY <1>3, <1>4, <1>5, <1>6

LEMMA Session_Same == ASSUME SessionInv, UNCHANGED sessionVars PROVE SessionInv'
<1>1. SessionTypeOK' /\ Told'
  BY DEF sessionVars, SessionInv, SessionTypeOK, Told
<1>2. InOrder'
  BY InOrderKept DEF sessionVars, SessionInv, SessionTypeOK
<1>3. Buffered'
  BY DEF sessionVars, SessionInv, Buffered, Count
<1>4. QED
  BY <1>1, <1>2, <1>3 DEF SessionInv

LEMMA SessionGives == ASSUME SessionInv PROVE StreamInOrder /\ EndIsLearnt
<1>1. StreamInOrder
  BY DEF SessionInv, InOrder, StreamInOrder, Count
<1>2. EndIsLearnt
  BY DEF SessionInv, Told, EndIsLearnt
<1>3. QED
  BY <1>1, <1>2

-----------------------------------------------------------------------------
(* Both of them around a tunnel *)

StreamsInv == BridgeInv /\ SessionInv

LEMMA StreamsInv_Init == StreamsInit => StreamsInv
  BY Bridge_Init, Session_Init DEF StreamsInit, StreamsInv

LEMMA StreamsInv_Next == StreamsInv /\ [StreamsNext]_streamsVars => StreamsInv'
<1> SUFFICES ASSUME StreamsInv, [StreamsNext]_streamsVars PROVE StreamsInv'
  OBVIOUS
<1> USE DEF StreamsInv
<1>1. CASE TunnelReads
  BY <1>1, Read_Step, Session_Same DEF TunnelReads
<1>2. CASE TunnelSends
  BY <1>2, Bridge_Same, Sending_Step DEF TunnelSends
<1>3. CASE BridgeMoves
  BY <1>3, LoopReads_Step, LoopEnds_Step, Message_Step, CancelReader_Step, CloseBridge_Step,
     Session_Same DEF BridgeMoves
<1>4. CASE SessionMoves
  BY <1>4, Arrives_Step, OwnerCloses_Step, PumpData_Step, PumpFin_Step, PumpError_Step,
     PumpCancelled_Step, RegisterStream_Step, ReleaseStream_Step, Sending_Step, Bridge_Same
  DEF SessionMoves, Pump
<1>5. CASE UNCHANGED streamsVars
  BY <1>5, Bridge_Same, Session_Same DEF streamsVars
<1>6. QED
  BY <1>1, <1>2, <1>3, <1>4, <1>5 DEF StreamsNext

LEMMA StreamsInvHolds == StreamsSpec => []StreamsInv
  BY StreamsInv_Init, StreamsInv_Next, PTL DEF StreamsSpec

\* worker-tunnel-bridge.js:47: whatever a chunk measures and however much the
\* limit is, the tunnel reads what the client sent without a gap, and an end only
\* when the client has sent it and all before it was read.
THEOREM UploadIsWhole == StreamsSpec => []UploadWhole
<1>1. StreamsInv => UploadWhole
  BY BridgeGives DEF StreamsInv
<1>2. QED
  BY <1>1, StreamsInvHolds, PTL

\* No read of the tunnel waits while the bridge has something for it or has been
\* closed, and the gauge is the sum of what is queued.
THEOREM ReadsAreServed == StreamsSpec => []ReadIsServed
<1>1. StreamsInv => ReadIsServed
  BY BridgeGives DEF StreamsInv
<1>2. QED
  BY <1>1, StreamsInvHolds, PTL

\* The handlers get what the server sent in its order, without a gap and once,
\* whatever was buffered before they were there, and a FIN behind all of it, or
\* after a close() that came before they were registered.
THEOREM StreamIsInOrder == StreamsSpec => []StreamInOrder
<1>1. StreamsInv => StreamInOrder
  BY SessionGives DEF StreamsInv
<1>2. QED
  BY <1>1, StreamsInvHolds, PTL

\* A tunnel is told of the end of its stream or refused when it sends, also when
\* the stream ended before the tunnel registered.
THEOREM EndsAreLearnt == StreamsSpec => []EndIsLearnt
<1>1. StreamsInv => EndIsLearnt
  BY SessionGives DEF StreamsInv
<1>2. QED
  BY <1>1, StreamsInvHolds, PTL
=============================================================================
