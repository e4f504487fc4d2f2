------------------------------- MODULE ClientPage -------------------------------
(***************************************************************************)
(* The TCP client (client/app.js): one socket at a time, the read loop     *)
(* whose end disconnects, a sender on an interval, the simulator and its   *)
(* timers.  What is sent and received matters only by its log entries.     *)
(* The simulator's button may be clicked at any moment, hence a connection *)
(* and a message go to the simulator or to the network.                    *)
(*                                                                         *)
(* disconnect() has no action for the user, because no state enables it:   *)
(* the button is disabled when connect() begins and is not enabled again   *)
(* before disconnect() is over, see EndOffered in HubPages.                *)
(***************************************************************************)
EXTENDS TrafficLog

CONSTANT MaxSends     \* bound on the writes, and on the simulated echoes, under way

ASSUME ClientAssumption == MaxSends \in Nat

VARIABLES
    btnToggleConnect,     \* it is enabled
    isConnected,
    isConnecting,
    connecting,           \* what connect() waits for: "none", "opened" or "timer"
    socket,               \* this.socket: "null", "failed", "opening" or "open"
    streams,              \* this.reader and this.writer are set
    reading,              \* readStream runs
    disconnecting,        \* what disconnect() awaits: "none", "reader", "writer" or "socket"
    sending,              \* writes under way
    repeatTimer,          \* it is armed, and its box is ticked
    echoes                \* simulated answers to come

connectVars == <<btnToggleConnect, isConnected, isConnecting, connecting>>
socketVars == <<socket, streams, reading, disconnecting>>
sendVars == <<sending, repeatTimer, echoes>>
clientVars == <<connectVars, socketVars, sendVars>>

ClientInit ==
    /\ btnToggleConnect = TRUE /\ isConnected = FALSE /\ isConnecting = FALSE
    /\ connecting = "none" /\ socket = "null" /\ streams = FALSE /\ reading = FALSE
    /\ disconnecting = "none" /\ sending = 0 /\ repeatTimer = FALSE /\ echoes = 0

-----------------------------------------------------------------------------
(* connect() *)

\* The button, with a valid port; without Direct Sockets the simulator steps in.
Connect ==
    /\ btnToggleConnect /\ ~(isConnected \/ isConnecting)
    /\ btnToggleConnect' = FALSE /\ isConnecting' = TRUE
    /\ \/ connecting' = "opened" /\ socket' = "opening" /\ Log("evt")
       \/ connecting' = "timer" /\ UNCHANGED socket /\ (Log("evt") \/ UNCHANGED logVars)
    /\ UNCHANGED <<isConnected, streams, reading, disconnecting, sendVars>>

Connects ==
    /\ connecting = "opened" /\ connecting' = "none"
    /\ isConnected' = TRUE /\ isConnecting' = FALSE
    /\ socket' = "open" /\ streams' = TRUE /\ reading' = TRUE /\ Log("evt")
    /\ UNCHANGED <<btnToggleConnect, disconnecting, sendVars>>

ConnectFails ==
    /\ connecting = "opened" /\ connecting' = "none"
    /\ isConnecting' = FALSE /\ socket' = "failed" /\ btnToggleConnect' = TRUE /\ Log("err")
    /\ UNCHANGED <<isConnected, streams, reading, disconnecting, sendVars>>

\* connectSimulated: 600 ms later, without a socket; the welcome comes as an echo.
SimConnects ==
    /\ connecting = "timer" /\ connecting' = "none"
    /\ isConnected' = TRUE /\ isConnecting' = FALSE /\ echoes' = echoes + 1 /\ Log("evt")
    /\ UNCHANGED <<btnToggleConnect, socketVars, sending, repeatTimer>>

\* The simulator's button, which says so when it is switched on.
ToggleSim == Log("evt") /\ UNCHANGED clientVars

-----------------------------------------------------------------------------
(* A connection *)

\* A chunk that readStream has got, or the echo of the simulator.
Receive ==
    /\ \/ reading /\ isConnected /\ Log("rx") /\ UNCHANGED echoes
       \/ /\ echoes > 0 /\ echoes' = echoes - 1
          /\ IF isConnected THEN Log("rx") ELSE UNCHANGED logVars
    /\ UNCHANGED <<connectVars, socketVars, sending, repeatTimer>>

\* sendMessage, for the user or the interval: to the simulator, which answers
\* later, or to the writer; without one nothing is sent.
SendMessage ==
    /\ isConnected
    /\ \/ echoes < MaxSends /\ echoes' = echoes + 1 /\ Log("tx") /\ UNCHANGED sending
       \/ streams /\ sending < MaxSends /\ sending' = sending + 1 /\ UNCHANGED <<echoes, logVars>>
    /\ UNCHANGED <<connectVars, socketVars, repeatTimer>>

MessageSent ==
    /\ sending > 0 /\ sending' = sending - 1
    /\ Log("tx") \/ Log("err")
    /\ UNCHANGED <<connectVars, socketVars, repeatTimer, echoes>>

\* The box of the interval sender, which ticks itself off without a connection.
Repeat ==
    /\ repeatTimer' = (~repeatTimer /\ isConnected)
    /\ UNCHANGED <<connectVars, socketVars, sending, echoes, logVars>>

\* Mutant of ReadEnds: the page says "Disconnected" before the awaits.
ReadEnds_Early ==
    /\ reading /\ reading' = FALSE
    /\ repeatTimer' = FALSE /\ isConnected' = FALSE /\ disconnecting' = "reader"
    /\ btnToggleConnect' = TRUE
    /\ UNCHANGED logVars \/ Log("err")
    /\ UNCHANGED <<isConnecting, connecting, socket, streams, sending, echoes>>

\* The server closes or the read fails; finally disconnect(), to its first await.
ReadEnds ==
    /\ reading /\ reading' = FALSE
    /\ repeatTimer' = FALSE /\ isConnected' = FALSE /\ disconnecting' = "reader"
    /\ UNCHANGED logVars \/ Log("err")
    /\ UNCHANGED <<btnToggleConnect, isConnecting, connecting, socket, streams, sending, echoes>>

\* Its awaits: the cancel of the reader, the close of the writer, which comes
\* after the writes under way, and that of the socket.
Disconnecting ==
    /\ \/ /\ disconnecting = "reader" /\ disconnecting' = "writer"
          /\ UNCHANGED <<btnToggleConnect, socket, streams, logVars>>
       \/ /\ disconnecting = "writer" /\ sending = 0 /\ disconnecting' = "socket"
          /\ UNCHANGED <<btnToggleConnect, socket, streams, logVars>>
       \/ /\ disconnecting = "socket" /\ disconnecting' = "none"
          /\ btnToggleConnect' = TRUE /\ socket' = "null" /\ streams' = FALSE /\ Log("evt")
    /\ UNCHANGED <<isConnected, isConnecting, connecting, reading, sendVars>>

ClientStep ==
    \/ Connect \/ Connects \/ ConnectFails \/ SimConnects \/ ToggleSim
    \/ Receive \/ SendMessage \/ MessageSent \/ Repeat \/ ReadEnds \/ Disconnecting
    \/ LogStep /\ UNCHANGED clientVars

-----------------------------------------------------------------------------
ClientTypeOK ==
    /\ btnToggleConnect \in BOOLEAN /\ isConnected \in BOOLEAN /\ isConnecting \in BOOLEAN
    /\ connecting \in {"none", "opened", "timer"}
    /\ socket \in {"null", "failed", "opening", "open"}
    /\ streams \in BOOLEAN /\ reading \in BOOLEAN /\ repeatTimer \in BOOLEAN
    /\ disconnecting \in {"none", "reader", "writer", "socket"}
    /\ sending \in 0..MaxSends /\ echoes \in 0..MaxSends + 1
=============================================================================
