-------------------------------- MODULE BrookApp --------------------------------
(***************************************************************************)
(* The application (app.js) around its parts: onStart and onStop behind    *)
(* the one button of UiController, the NetworkMonitor with its periodic    *)
(* probes, and the onStatusChange callback, which is asynchronous and      *)
(* works on whatever dispatcher and pool the module's variables hold when  *)
(* it gets there.  The g-th start makes the monitor, the pool and the      *)
(* dispatcher number g.  Dispatcher and pool are reduced to what the       *)
(* application sees of them; ProxyDispatcher and WtPool have the rest.     *)
(*                                                                         *)
(* measureClockDrift() arms a timer of 2 s for its fetch and clears it     *)
(* when the headers are there: the body that it reads then has no limit.   *)
(***************************************************************************)
EXTENDS Naturals, FiniteSets

CONSTANTS
    MaxStarts,      \* bound: how often the user starts the proxy
    MaxCallbacks    \* bound on the callbacks of a monitor out at a time and sure to go on

ASSUME AppAssumption == MaxStarts \in Nat /\ MaxCallbacks \in Nat

Runs == 1..MaxStarts

VARIABLES
    gen,            \* how many starts there were
    button,         \* what the button says: "start", "stop", or "busy"
    pc,             \* the await of onStart or onStop
    networkMonitor, fallbackWtManager, fallbackDispatcher,  \* 0 is null
    isRunning, isOnline, isChecking,    \* of each monitor
    measuring,      \* how many onStatusChange(true) of each monitor measure the clock and will
                    \* go on; one whose measurement never ends does nothing more
    pool,           \* "none", "open" or "closed"
    dialling, up,   \* some dial of the pool is in flight; some connection is open
    listening,      \* the dispatcher has a listener that accepts
    net             \* one of the probe endpoints can be reached

monitorVars == <<isRunning, isOnline, isChecking>>
poolVars == <<pool, dialling, up>>
globals == <<networkMonitor, fallbackWtManager, fallbackDispatcher>>
controlVars == <<gen, button, pc>>
vars == <<controlVars, globals, monitorVars, measuring, poolVars, listening, net>>

Init ==
    /\ gen = 0 /\ button = "start" /\ pc = "idle"
    /\ networkMonitor = 0 /\ fallbackWtManager = 0 /\ fallbackDispatcher = 0
    /\ isRunning = [g \in Runs |-> FALSE] /\ isOnline = [g \in Runs |-> TRUE]
    /\ isChecking = [g \in Runs |-> FALSE]
    /\ measuring = [g \in Runs |-> 0]
    /\ pool = [g \in Runs |-> "none"]
    /\ dialling = [g \in Runs |-> FALSE] /\ up = [g \in Runs |-> FALSE]
    /\ listening = [g \in Runs |-> FALSE]
    /\ net \in BOOLEAN

-----------------------------------------------------------------------------
(* The pool *)

\* connect() of pool g refuses: it throws before its first await.
Refuses(g) == pool[g] # "open" \/ ~isOnline[g]

\* connect() dials the slots that are not connected or joins their dials; if
\* there are none it is settled at once.
Dials(g) == \E d \in BOOLEAN :
    /\ up[g] \/ d    \* only a pool that is up may have nothing to dial
    /\ dialling' = [dialling EXCEPT ![g] = @ \/ d]

\* A dial succeeds while others are in flight.
DialUp(g) ==
    /\ dialling[g] /\ up' = [up EXCEPT ![g] = TRUE]
    /\ UNCHANGED <<controlVars, globals, monitorVars, measuring, pool, dialling, listening, net>>

\* The last dial in flight ends, well or not, also after close(); the onStart
\* that awaits connect() goes on.
DialsEnd(g) ==
    /\ dialling[g] /\ dialling' = [dialling EXCEPT ![g] = FALSE]
    /\ up' \in {up, [up EXCEPT ![g] = TRUE]}
    /\ pc' = IF pc = "connect" /\ g = gen THEN "settled" ELSE pc
    /\ UNCHANGED <<gen, button, globals, monitorVars, measuring, pool, listening, net>>

\* A handler of the dispatcher asks for a session, and slots are dialled.
HandlerDials(g) ==
    /\ listening[g] /\ ~Refuses(g) /\ ~dialling[g]
    /\ dialling' = [dialling EXCEPT ![g] = TRUE]
    /\ UNCHANGED <<controlVars, globals, monitorVars, measuring, pool, up, listening, net>>

\* The last connection is lost.
LinkDies(g) ==
    /\ up[g] /\ up' = [up EXCEPT ![g] = FALSE]
    /\ UNCHANGED <<controlVars, globals, monitorVars, measuring, pool, dialling, listening, net>>

-----------------------------------------------------------------------------
(* NetworkMonitor *)

\* Mutant: no probes once the network was found offline.
MayCheck_Online(g) == isRunning[g] /\ ~isChecking[g] /\ isOnline[g]

\* The interval; a check under way is not begun again.
MayCheck(g) == isRunning[g] /\ ~isChecking[g]

CheckStarts(g) ==
    /\ MayCheck(g)
    /\ isChecking' = [isChecking EXCEPT ![g] = TRUE]
    /\ UNCHANGED <<controlVars, globals, isRunning, isOnline, measuring, poolVars, listening,
                   net>>

\* The three probes are over, in 3 s at most: only their headers are awaited.
\* A change is told, also by a monitor that was stopped meanwhile.  Nobody waits
\* for the callback, hence any number of them may be out when the next begins;
\* those that are not counted never end.
CheckEnds(g) ==
    /\ isChecking[g]
    /\ isChecking' = [isChecking EXCEPT ![g] = FALSE]
    /\ isOnline' = [isOnline EXCEPT ![g] = net]
    /\ \/ UNCHANGED measuring
       \/ /\ net /\ ~isOnline[g] /\ measuring[g] < MaxCallbacks
          /\ measuring' = [measuring EXCEPT ![g] = @ + 1]
    /\ UNCHANGED <<controlVars, globals, isRunning, poolVars, listening, net>>

\* A callback has got its measurement, whenever that is; then the pool is told
\* to connect, whichever it is by now, if there is one.
CallbackMeasured(g) ==
    /\ measuring[g] > 0 /\ measuring' = [measuring EXCEPT ![g] = @ - 1]
    /\ IF fallbackWtManager # 0 => Refuses(fallbackWtManager)
       THEN UNCHANGED dialling
       ELSE Dials(fallbackWtManager)
    /\ UNCHANGED <<controlVars, globals, monitorVars, pool, up, listening, net>>

-----------------------------------------------------------------------------
(* onStart *)

\* The button starts the proxy: a monitor is made and begins with a check.
Start ==
    /\ button = "start" /\ gen < MaxStarts
    /\ gen' = gen + 1 /\ button' = "busy" /\ pc' = "fetch"
    /\ networkMonitor' = gen + 1
    /\ isRunning' = [isRunning EXCEPT ![gen + 1] = TRUE]
    /\ isChecking' = [isChecking EXCEPT ![gen + 1] = TRUE]
    /\ UNCHANGED <<fallbackWtManager, fallbackDispatcher, isOnline, measuring, poolVars,
                   listening, net>>

\* The headers of the answer are there: the abort timer is cleared, and the
\* body is awaited.
DriftHeaders ==
    /\ pc = "fetch" /\ pc' = "body"
    /\ UNCHANGED <<gen, button, globals, monitorVars, measuring, poolVars, listening, net>>

\* The clock is measured, or the fetch was aborted, when the await was at at;
\* the pool is made and told to connect.  When it refuses, the dispatcher is
\* made at once.
Measured(at) ==
    /\ pc = at
    /\ fallbackWtManager' = gen
    /\ pool' = [pool EXCEPT ![gen] = "open"]
    /\ IF isOnline[gen]
       THEN /\ dialling' = [dialling EXCEPT ![gen] = TRUE]
            /\ pc' = "connect"
            /\ UNCHANGED fallbackDispatcher
       ELSE /\ pc' = "listen"
            /\ fallbackDispatcher' = gen
            /\ UNCHANGED dialling
    /\ UNCHANGED <<gen, button, networkMonitor, monitorVars, measuring, up, listening, net>>

\* connect() is over; its failure is only logged.
Connected ==
    /\ pc = "settled" /\ pc' = "listen"
    /\ fallbackDispatcher' = gen
    /\ UNCHANGED <<gen, button, networkMonitor, fallbackWtManager, monitorVars, measuring,
                   poolVars, listening, net>>

\* The dispatcher has bound a first listener, which accepts from then on.
Binds ==
    /\ pc = "listen" /\ listening' = [listening EXCEPT ![gen] = TRUE]
    /\ UNCHANGED <<controlVars, globals, monitorVars, measuring, poolVars, net>>

Started ==
    /\ pc = "listen" /\ listening[gen]
    /\ pc' = "idle" /\ button' = "stop"
    /\ UNCHANGED <<gen, globals, monitorVars, measuring, poolVars, listening, net>>

StopMonitor ==
    /\ networkMonitor' = 0
    /\ isRunning' = [isRunning EXCEPT ![networkMonitor] = FALSE]

\* start() of the dispatcher fails, after its own rollback: everything is
\* taken down again.
StartFails ==
    /\ pc = "listen" /\ pc' = "stopping"
    /\ listening' = [listening EXCEPT ![gen] = FALSE]
    /\ StopMonitor
    /\ UNCHANGED <<gen, button, fallbackWtManager, fallbackDispatcher, isOnline, isChecking,
                   measuring, poolVars, net>>

-----------------------------------------------------------------------------
(* onStop, and the end of an onStart that fails *)

Stop ==
    /\ button = "stop" /\ button' = "busy" /\ pc' = "stopping"
    /\ StopMonitor
    /\ UNCHANGED <<gen, fallbackWtManager, fallbackDispatcher, isOnline, isChecking,
                   measuring, poolVars, listening, net>>

ClosePool(g) ==
    /\ pool' = [pool EXCEPT ![g] = "closed"] /\ up' = [up EXCEPT ![g] = FALSE]

\* Mutant: the pool is closed under the dispatcher.
DispatcherStopped_PoolFirst ==
    /\ pc = "stopping"
    /\ ClosePool(fallbackWtManager) /\ pc' = "closing"
    /\ fallbackDispatcher' = 0 /\ UNCHANGED listening
    /\ UNCHANGED <<gen, button, networkMonitor, fallbackWtManager, monitorVars, measuring,
                   dialling, net>>

\* dispatcher.stop() has returned: close() of the pool.
DispatcherStopped ==
    /\ pc = "stopping"
    /\ listening' = [listening EXCEPT ![fallbackDispatcher] = FALSE]
    /\ fallbackDispatcher' = 0
    /\ ClosePool(fallbackWtManager) /\ pc' = "closing"
    /\ UNCHANGED <<gen, button, networkMonitor, fallbackWtManager, monitorVars, measuring,
                   dialling, net>>

\* Mutant: the button is left as it is.
Pressable_Kept == button
Pressable == "start"

Stopped ==
    /\ pc = "closing" /\ pc' = "idle"
    /\ fallbackWtManager' = 0
    /\ button' = Pressable
    /\ UNCHANGED <<gen, networkMonitor, fallbackDispatcher, monitorVars, measuring, poolVars,
                   listening, net>>

NetFlips ==
    /\ net' = ~net
    /\ UNCHANGED <<controlVars, globals, monitorVars, measuring, poolVars, listening>>

-----------------------------------------------------------------------------
Onward ==
    \/ DriftHeaders \/ Measured("fetch")
    \/ Connected \/ Started \/ StartFails \/ DispatcherStopped \/ Stopped

Next ==
    \/ Start \/ Stop \/ Onward \/ Measured("body") \/ Binds \/ NetFlips
    \/ \E g \in Runs :
        \/ DialUp(g) \/ DialsEnd(g) \/ HandlerDials(g) \/ LinkDies(g)
        \/ CheckStarts(g) \/ CheckEnds(g) \/ CallbackMeasured(g)

Spec == Init /\ [][Next]_vars

\* The fetch of a measurement, dials and probes have time limits, a dispatcher's
\* start() and stop() return, and the interval goes off.  Nothing makes the body
\* of a measurement come, for onStart or for a callback.
Fairness ==
    /\ WF_vars(Onward)
    /\ \A g \in Runs : WF_vars(DialsEnd(g)) /\ WF_vars(CheckStarts(g)) /\ WF_vars(CheckEnds(g))

FairSpec == Spec /\ Fairness

TypeOK ==
    /\ gen \in 0..MaxStarts /\ button \in {"start", "stop", "busy"}
    /\ pc \in {"idle", "fetch", "body", "connect", "settled", "listen", "stopping", "closing"}
    /\ {networkMonitor, fallbackWtManager, fallbackDispatcher} \subseteq {0, gen}
    /\ isRunning \in [Runs -> BOOLEAN] /\ isOnline \in [Runs -> BOOLEAN]
    /\ isChecking \in [Runs -> BOOLEAN]
    /\ measuring \in [Runs -> 0..MaxCallbacks]
    /\ pool \in [Runs -> {"none", "open", "closed"}]
    /\ dialling \in [Runs -> BOOLEAN] /\ up \in [Runs -> BOOLEAN]
    /\ listening \in [Runs -> BOOLEAN] /\ net \in BOOLEAN

\* The variables keep their types and, whatever fails on the way, and however
\* often the proxy is started and stopped: there is one monitor that probes,
\* one pool that is open and one dispatcher that listens, of the latest start,
\* and none of them while the button says "Start".  A dispatcher that accepts
\* clients has a pool that is open, until the last of its handlers is gone:
\* close() meets no handler in createSession.
OneStack ==
    /\ TypeOK
    /\ LET Alive(g) == isRunning[g] \/ pool[g] = "open" \/ listening[g]
       IN  \A g \in Runs :
              /\ Alive(g) => g = gen /\ button # "start"
              /\ listening[g] => pool[g] = "open" /\ fallbackWtManager = g

\* The button comes back: start and stop end, whatever the network, the
\* callbacks of the monitors and the listeners do, unless onStart waits for the
\* body of its measurement, which nothing limits.
ButtonReturns == button = "busy" ~> button # "busy" \/ pc = "body"

\* While the proxy runs and the network stays up, the monitor in force finds
\* out and sticks to it, however many callbacks measure or never end: dispatcher
\* and pool, which refuse everything while it says offline, serve again.
Recovers ==
    <>[](net /\ button = "stop") => <>[](networkMonitor # 0 /\ isOnline[networkMonitor])
=============================================================================
