------------------------------ MODULE ListenerPage ------------------------------
(***************************************************************************)
(* The TCP listener (listener/app.js): one server socket, its accept loop, *)
(* the Map of clients with a read loop, a writer and a disconnectClient()  *)
(* for each, and broadcasts that walk the Map while it changes.  A client  *)
(* is the number it was accepted under.  The boxes for echo and welcome    *)
(* and the simulator's button may be clicked at any moment, hence what     *)
(* they switch happens or does not: the simulator writes nothing.          *)
(*                                                                         *)
(* stopServer() has no action, because no state enables it: the button is  *)
(* disabled when the server starts and is not enabled again once it        *)
(* listens, see EndOffered in HubPages.                                    *)
(* What is logged is left out: the log is the client's, see TrafficLog.    *)
(***************************************************************************)
EXTENDS Integers, Sequences, FiniteSets

CONSTANTS
    MaxClients,      \* bound on the sockets accepted
    MaxWrites,       \* bound on the writes under way for a client, broadcasts aside
    MaxCasts         \* bound on the broadcasts

ASSUME ListenerAssumption == MaxClients \in Nat /\ MaxWrites \in Nat /\ MaxCasts \in Nat

VARIABLES
    btnToggleServer, \* it is enabled
    server,          \* "stopped", "starting", "listening" or "simulated"
    accepting,       \* listenForConnections runs
    clientCounter,
    client,          \* each one: "none", "opening", "open" (in the Map) or "gone"
    order,           \* the order in which clients came into the Map
    isAlive,
    loop,            \* readClientStream: "none", "reading", "echo" or "over"
    ended,           \* its stream has ended or failed
    closing,         \* what its disconnectClient awaits: "none", "reader", "writer" or "socket"
    writer,          \* it has got a writer
    writes,          \* who awaits the writes under way: USER, ECHO or the number of a broadcast
    cast             \* each broadcast: its place, whom it should reach, how often it wrote to whom

serverVars == <<btnToggleServer, server, accepting>>
mapVars == <<clientCounter, client, order>>
readVars == <<isAlive, loop, ended, closing>>
writeVars == <<writer, writes, cast>>
listenerVars == <<serverVars, mapVars, readVars, writeVars>>

USER == 0
ECHO == -1

Clients == 1..MaxClients
Casts == 1..MaxCasts

ListenerInit ==
    /\ btnToggleServer = TRUE /\ server = "stopped" /\ accepting = FALSE
    /\ clientCounter = 0 /\ client = [c \in Clients |-> "none"] /\ order = <<>>
    /\ isAlive = [c \in Clients |-> FALSE] /\ loop = [c \in Clients |-> "none"]
    /\ ended = [c \in Clients |-> FALSE] /\ closing = [c \in Clients |-> "none"]
    /\ writer = [c \in Clients |-> FALSE] /\ writes = [c \in Clients |-> <<>>]
    /\ cast = [b \in Casts |->
                 [pc |-> "new", at |-> 0, base |-> {}, sent |-> [c \in Clients |-> 0]]]

isListening == server \in {"listening", "simulated"}
InMap == {c \in Clients : client[c] = "open"}

-----------------------------------------------------------------------------
(* The server *)

\* The button: without Direct Sockets, or with the simulator on, nothing is
\* awaited.
StartServer ==
    /\ btnToggleServer /\ ~isListening
    /\ btnToggleServer' = FALSE /\ server' \in {"starting", "simulated"}
    /\ UNCHANGED <<accepting, mapVars, readVars, writeVars>>

Opened ==
    /\ server = "starting"
    /\ \/ server' = "listening" /\ accepting' = TRUE /\ UNCHANGED btnToggleServer
       \/ server' = "stopped" /\ btnToggleServer' = TRUE /\ UNCHANGED accepting
    /\ UNCHANGED <<mapVars, readVars, writeVars>>

\* The server socket ends, or fails: the loop is left, the page stays as it is.
AcceptEnds ==
    /\ accepting /\ accepting' = FALSE
    /\ UNCHANGED <<btnToggleServer, server, mapVars, readVars, writeVars>>

Accept ==
    /\ accepting /\ clientCounter < MaxClients
    /\ clientCounter' = clientCounter + 1
    /\ client' = [client EXCEPT ![clientCounter + 1] = "opening"]
    /\ UNCHANGED <<serverVars, order, readVars, writeVars>>

\* simulateClientConnect, 1.5 s after the start: a client without streams or socket.
Simulate ==
    /\ server = "simulated" /\ clientCounter = 0 /\ MaxClients > 0
    /\ clientCounter' = 1 /\ client' = [client EXCEPT ![1] = "open"] /\ order' = <<1>>
    /\ isAlive' = [isAlive EXCEPT ![1] = TRUE]
    /\ UNCHANGED <<serverVars, loop, ended, closing, writeVars>>

-----------------------------------------------------------------------------
(* One client *)

\* What sendToClient does first.
Writes(c, who) ==
    /\ writes' = [writes EXCEPT ![c] = Append(@, who)]
    /\ writer' = [writer EXCEPT ![c] = TRUE]

\* handleIncomingClient behind its await, with the welcome message or without.
ClientOpened(c) ==
    /\ client[c] = "opening"
    /\ client' = [client EXCEPT ![c] = "open"] /\ order' = Append(order, c)
    /\ isAlive' = [isAlive EXCEPT ![c] = TRUE] /\ loop' = [loop EXCEPT ![c] = "reading"]
    /\ Writes(c, USER) \/ UNCHANGED <<writes, writer>>
    /\ UNCHANGED <<serverVars, clientCounter, ended, closing, cast>>

ClientFails(c) ==
    /\ client[c] = "opening" /\ client' = [client EXCEPT ![c] = "gone"]
    /\ UNCHANGED <<serverVars, clientCounter, order, readVars, writeVars>>

\* A chunk is echoed, and the loop awaits the write.
Echo(c) ==
    /\ loop[c] = "reading" /\ isAlive[c] /\ ~ended[c] /\ Len(writes[c]) < MaxWrites
    /\ Writes(c, ECHO) /\ loop' = [loop EXCEPT ![c] = "echo"]
    /\ UNCHANGED <<serverVars, mapVars, isAlive, ended, closing, cast>>

\* The quick reply, and the message to one client.
SendTo(c) ==
    /\ isAlive[c] /\ loop[c] # "none" /\ Len(writes[c]) < MaxWrites
    /\ Writes(c, USER)
    /\ UNCHANGED <<serverVars, mapVars, readVars, cast>>

\* disconnectClient up to its first await; a simulated client has nothing to await.
Disconnects(c) ==
    /\ isAlive' = [isAlive EXCEPT ![c] = FALSE]
    /\ IF loop[c] = "none"
       THEN client' = [client EXCEPT ![c] = "gone"] /\ UNCHANGED closing
       ELSE closing' = [closing EXCEPT ![c] = "reader"] /\ UNCHANGED client

\* The operator's button.
Disconnect(c) ==
    /\ isAlive[c] /\ Disconnects(c)
    /\ UNCHANGED <<serverVars, clientCounter, order, loop, ended, writeVars>>

ReadOver(c) == loop[c] = "reading" /\ (ended[c] \/ ~isAlive[c])

\* Mutant of LoopEnds: nobody disconnects a client whose stream has ended.
LoopEnds_NoFinally(c) ==
    /\ ReadOver(c) /\ loop' = [loop EXCEPT ![c] = "over"]
    /\ UNCHANGED <<serverVars, mapVars, isAlive, ended, closing, writeVars>>

\* The read ends with the stream, or because the reader was cancelled; finally.
LoopEnds(c) ==
    /\ ReadOver(c) /\ loop' = [loop EXCEPT ![c] = "over"]
    /\ IF isAlive[c] THEN Disconnects(c) ELSE UNCHANGED <<isAlive, client, closing>>
    /\ UNCHANGED <<serverVars, clientCounter, order, ended, writeVars>>

\* The awaits of disconnectClient: the cancel of the reader, the close of the
\* writer, which comes after the writes under way, and that of the socket.
Closes(c) ==
    /\ \/ /\ closing[c] = "reader"
          /\ closing' = [closing EXCEPT ![c] = IF writer[c] THEN "writer" ELSE "socket"]
          /\ UNCHANGED <<client, writer, ended>>
       \/ /\ closing[c] = "writer" /\ writes[c] = <<>>
          /\ closing' = [closing EXCEPT ![c] = "socket"]
          /\ UNCHANGED <<client, writer, ended>>
       \/ /\ closing[c] = "socket" /\ closing' = [closing EXCEPT ![c] = "none"]
          /\ client' = [client EXCEPT ![c] = "gone"]
          /\ writer' = [writer EXCEPT ![c] = FALSE] /\ ended' = [ended EXCEPT ![c] = FALSE]
    /\ UNCHANGED <<serverVars, clientCounter, order, isAlive, loop, writes, cast>>

\* The remote host ends its stream, or the connection breaks.
PeerEnds(c) ==
    /\ isAlive[c] /\ loop[c] # "none" /\ ~ended[c]
    /\ ended' = [ended EXCEPT ![c] = TRUE]
    /\ UNCHANGED <<serverVars, mapVars, isAlive, loop, closing, writeVars>>

-----------------------------------------------------------------------------
(* Broadcasts *)

\* The entries of the Map behind the i-th that ever came into it.
Behind(i) == {j \in i + 1..Len(order) : client[order[j]] = "open"}

\* x is at c: sendToClient writes, unless the client is not alive any more, or
\* is a simulated one, which has no stream.
Reach(b, x, c, w) ==
    IF isAlive[c] /\ loop[c] # "none"
    THEN /\ cast' = [cast EXCEPT ![b] = [x EXCEPT !.pc = "write", !.sent[c] = @ + 1]]
         /\ writes' = [w EXCEPT ![c] = Append(@, b)]
         /\ writer' = [writer EXCEPT ![c] = TRUE]
    ELSE /\ cast' = [cast EXCEPT ![b] = [x EXCEPT !.pc = "next"]]
         /\ writes' = w /\ UNCHANGED writer

CastOver(b, x, w) ==
    cast' = [cast EXCEPT ![b] = [x EXCEPT !.pc = "over"]] /\ writes' = w /\ UNCHANGED writer

\* Mutant of Visit: the walk counts places of the Map as it is by now.
Visit_ByPlace(b, x, w) ==
    LET next == {j \in Behind(0) : Cardinality({k \in Behind(0) : k < j}) = x.at}
    IN  IF next = {} THEN CastOver(b, x, w)
        ELSE \E j \in next : Reach(b, [x EXCEPT !.at = @ + 1], order[j], w)

\* Broadcast b, whose state is x, goes on behind the entry it was at, with the
\* writes w under way: a Map is walked in the order of insertion, while it
\* changes.
Visit(b, x, w) ==
    IF Behind(x.at) = {} THEN CastOver(b, x, w)
    ELSE \E j \in Behind(x.at) :
            (\A k \in Behind(x.at) : j <= k) /\ Reach(b, [x EXCEPT !.at = j], order[j], w)

\* Who has a stream to write to.
Reachable == {c \in Clients : isAlive[c] /\ loop[c] # "none"}

\* The message box, for all clients.
Broadcast(b) ==
    /\ cast[b].pc = "new" /\ InMap # {}
    /\ Visit(b, [cast[b] EXCEPT !.base = Reachable], writes)
    /\ UNCHANGED <<serverVars, mapVars, readVars>>

\* A call of sendToClient that wrote nothing has returned.
CastGoesOn(b) ==
    /\ cast[b].pc = "next" /\ Visit(b, cast[b], writes)
    /\ UNCHANGED <<serverVars, mapVars, readVars>>

\* A write of c settles, well or badly, and whoever awaits it goes on; the read
\* loop does so only while the client is alive, and its finally finds that it
\* is being disconnected already.
WriteSettles(c) ==
    /\ writes[c] # <<>>
    /\ LET who == Head(writes[c])
           w == [writes EXCEPT ![c] = Tail(@)]
       IN  /\ loop' = IF who # ECHO THEN loop
                      ELSE [loop EXCEPT ![c] = IF isAlive[c] THEN "reading" ELSE "over"]
           /\ IF who \in Casts THEN Visit(who, cast[who], w)
              ELSE writes' = w /\ UNCHANGED <<cast, writer>>
    /\ UNCHANGED <<serverVars, mapVars, isAlive, ended, closing>>

ListenerStep ==
    \/ StartServer \/ Opened \/ AcceptEnds \/ Accept \/ Simulate
    \/ \E c \in Clients :
           \/ ClientOpened(c) \/ ClientFails(c) \/ Echo(c) \/ SendTo(c) \/ Disconnect(c)
           \/ LoopEnds(c) \/ Closes(c) \/ PeerEnds(c) \/ WriteSettles(c)
    \/ \E b \in Casts : Broadcast(b) \/ CastGoesOn(b)

-----------------------------------------------------------------------------
ListenerTypeOK ==
    /\ btnToggleServer \in BOOLEAN /\ accepting \in BOOLEAN
    /\ server \in {"stopped", "starting", "listening", "simulated"}
    /\ clientCounter \in 0..MaxClients
    /\ client \in [Clients -> {"none", "opening", "open", "gone"}] /\ order \in Seq(Clients)
    /\ isAlive \in [Clients -> BOOLEAN] /\ ended \in [Clients -> BOOLEAN]
    /\ loop \in [Clients -> {"none", "reading", "echo", "over"}]
    /\ closing \in [Clients -> {"none", "reader", "writer", "socket"}]
    /\ writer \in [Clients -> BOOLEAN] /\ writes \in [Clients -> Seq({USER, ECHO} \cup Casts)]
    /\ cast \in [Casts -> [pc : {"new", "write", "next", "over"}, at : Nat, base : SUBSET Clients,
                            sent : [Clients -> Nat]]]

\* The variables keep their types, and a broadcast writes to no client twice and
\* leaves none out that was there when it began and still is, whoever comes and
\* goes meanwhile.
BroadcastOnce ==
    /\ ListenerTypeOK
    /\ \A b \in Casts : \A c \in Clients :
           /\ cast[b].sent[c] <= 1
           /\ cast[b].pc = "over" /\ c \in cast[b].base /\ isAlive[c] => cast[b].sent[c] = 1
=============================================================================
