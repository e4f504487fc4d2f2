---------------------------- MODULE HubPagesProofs ----------------------------
(***************************************************************************)
(* Invariance proofs about the three pages.                                *)
(*                                                                         *)
(* The application, for any number of starts: the strengthening says which *)
(* of the module's variables hold the parts of the latest start at each    *)
(* await of onStart and onStop, and that no part is alive that they do not *)
(* hold.                                                                   *)
(*                                                                         *)
(* The listener and the client, for any number of clients, broadcasts and  *)
(* messages: where the Map and a walk over it are relative to each other,  *)
(* and what is there at each await of connect() and disconnect().          *)
(***************************************************************************)
EXTENDS HubPages, TLAPS

On == button = "stop"
Monitored == On \/ pc \in {"fetch", "body", "connect", "settled", "listen"}
Pooled == On \/ pc \in {"connect", "settled", "listen", "stopping"}
Dispatched == On \/ pc \in {"listen", "stopping"}

\* The button is off exactly while onStart or onStop runs.
Modal == (button = "busy" <=> pc # "idle") /\ (button # "start" => gen \in Runs)

\* What the variables of the module hold.
Held ==
    /\ networkMonitor = IF Monitored THEN gen ELSE 0
    /\ fallbackWtManager = IF Pooled \/ pc = "closing" THEN gen ELSE 0
    /\ fallbackDispatcher = IF Dispatched THEN gen ELSE 0

\* What is alive is held.
Owned == \A g \in Runs :
    /\ isRunning[g] => g = networkMonitor
    /\ pool[g] = "open" <=> Pooled /\ g = gen
    /\ listening[g] => g = fallbackDispatcher

IInv == TypeOK /\ Modal /\ Held /\ Owned

USE AppAssumption DEF Runs

LEMMA InitInv == Init => IInv
  BY DEF Init, IInv, TypeOK, Modal, Held, Owned, On, Monitored, Pooled, Dispatched

LEMMA TypeStep == ASSUME IInv, [Next]_vars PROVE TypeOK'
<1> USE DEF IInv, TypeOK, Modal, Held, Owned, On, Monitored, Pooled, Dispatched,
        controlVars, globals, monitorVars, poolVars
<1>1. CASE Start
  BY <1>1, SMTT(30) DEF Start
<1>2. CASE Stop
  BY <1>2, SMTT(30) DEF Stop, StopMonitor
<1>3. ASSUME NEW at \in {"fetch", "body"}, Measured(at) PROVE TypeOK'
  <2>1. gen \in Runs
    BY <1>3, SMTT(30) DEF Measured
  <2>2. pool' \in [Runs -> {"none", "open", "closed"}]
    BY <1>3, <2>1, SMTT(30) DEF Measured
  <2>3. dialling' \in [Runs -> BOOLEAN]
    <3>1. dialling' = [dialling EXCEPT ![gen] = TRUE] \/ dialling' = dialling
      BY <1>3, Zenon DEF Measured
    <3>2. QED
      BY <2>1, <3>1
  <2>4. /\ pc' \in {"connect", "listen"}
        /\ {networkMonitor', fallbackWtManager', fallbackDispatcher'} \subseteq {0, gen'}
    BY <1>3, SMTT(30) DEF Measured
  <2>5. QED
    BY <1>3, <2>2, <2>3, <2>4, SMTT(30) DEF Measured
<1>4. CASE Connected
  BY <1>4, SMTT(30) DEF Connected
<1>5. CASE Started
  BY <1>5, SMTT(30) DEF Started
<1>6. CASE StartFails
  BY <1>6, SMTT(30) DEF StartFails, StopMonitor
<1>7. CASE DispatcherStopped
  BY <1>7, SMTT(30) DEF DispatcherStopped, ClosePool
<1>8. CASE Stopped
  BY <1>8, SMTT(30) DEF Stopped, Pressable
<1>9. CASE Binds
  BY <1>9, SMTT(30) DEF Binds
<1>10. CASE NetFlips
  BY <1>10, SMTT(30) DEF NetFlips
<1>11. ASSUME NEW g \in Runs, DialUp(g) PROVE TypeOK'
  BY <1>11, SMTT(30) DEF DialUp
<1>12. ASSUME NEW g \in Runs, DialsEnd(g) PROVE TypeOK'
  <2>2. up' \in [Runs -> BOOLEAN] /\ dialling' \in [Runs -> BOOLEAN]
    <3>1. /\ up' = up \/ up' = [up EXCEPT ![g] = TRUE]
          /\ dialling' = [dialling EXCEPT ![g] = FALSE]
      BY <1>12, Zenon DEF DialsEnd
    <3>2. QED
      BY <1>12, <3>1
  <2>3. pc' \in {pc, "settled"}
    BY <1>12, SMTT(30) DEF DialsEnd
  <2>4. QED
    BY <1>12, <2>2, <2>3, SMTT(30) DEF DialsEnd
<1>13. ASSUME NEW g \in Runs, HandlerDials(g) PROVE TypeOK'
  BY <1>13, SMTT(30) DEF HandlerDials, Refuses
<1>14. ASSUME NEW g \in Runs, LinkDies(g) PROVE TypeOK'
  BY <1>14, SMTT(30) DEF LinkDies
<1>15. ASSUME NEW g \in Runs, CheckStarts(g) PROVE TypeOK'
  BY <1>15, SMTT(30) DEF CheckStarts, MayCheck
<1>16. ASSUME NEW g \in Runs, CheckEnds(g) PROVE TypeOK'
  BY <1>16, SMTT(30) DEF CheckEnds
<1>17. ASSUME NEW g \in Runs, CallbackMeasured(g) PROVE TypeOK'
  <2>1. dialling' \in [Runs -> BOOLEAN]
    BY <1>17, SMTT(30) DEF CallbackMeasured, Dials
  <2>2. measuring[g] \in 0..MaxCallbacks /\ measuring[g] > 0
    BY <1>17 DEF CallbackMeasured
  <2>3. measuring[g] - 1 \in 0..MaxCallbacks
    BY <2>2
  <2>4. measuring' \in [Runs -> 0..MaxCallbacks]
    BY <1>17, <2>3 DEF CallbackMeasured
  <2>5. QED
    BY <1>17, <2>1, <2>4, SMTT(30) DEF CallbackMeasured
<1>18. CASE DriftHeaders
  BY <1>18, SMTT(30) DEF DriftHeaders
<1>19. CASE UNCHANGED vars
  BY <1>19, SMTT(30) DEF vars
<1>q. QED
  BY <1>1, <1>2, <1>3, <1>4, <1>5, <1>6, <1>7, <1>8, <1>9, <1>10, <1>11,
     <1>12, <1>13, <1>14, <1>15, <1>16, <1>17, <1>18, <1>19 DEF Next, Onward

LEMMA InvStep == ASSUME IInv, [Next]_vars PROVE (Modal /\ Held /\ Owned)'
<1> USE DEF IInv, TypeOK, Modal, Held, Owned, On, Monitored, Pooled, Dispatched,
        controlVars, globals, monitorVars, poolVars
<1>1. CASE Start
  BY <1>1, SMTT(30) DEF Start
<1>2. CASE Stop
  BY <1>2, SMTT(30) DEF Stop, StopMonitor
<1>3. ASSUME NEW at \in {"fetch", "body"}, Measured(at) PROVE (Modal /\ Held /\ Owned)'
  BY <1>3, SMTT(30) DEF Measured
<1>4. CASE Connected
  BY <1>4, SMTT(30) DEF Connected
<1>5. CASE Started
  BY <1>5, SMTT(30) DEF Started
<1>6. CASE StartFails
  BY <1>6, SMTT(30) DEF StartFails, StopMonitor
<1>7. CASE DispatcherStopped
  BY <1>7, SMTT(30) DEF DispatcherStopped, ClosePool
<1>8. CASE Stopped
  BY <1>8, SMTT(30) DEF Stopped, Pressable
<1>9. CASE Binds
  BY <1>9, SMTT(30) DEF Binds
<1>10. CASE NetFlips
  BY <1>10, SMTT(30) DEF NetFlips
<1>11. ASSUME NEW g \in Runs, DialUp(g) PROVE (Modal /\ Held /\ Owned)'
  BY <1>11, SMTT(30) DEF DialUp
<1>12. ASSUME NEW g \in Runs, DialsEnd(g) PROVE (Modal /\ Held /\ Owned)'
  BY <1>12, SMTT(30) DEF DialsEnd
<1>13. ASSUME NEW g \in Runs, HandlerDials(g) PROVE (Modal /\ Held /\ Owned)'
  BY <1>13, SMTT(30) DEF HandlerDials, Refuses
<1>14. ASSUME NEW g \in Runs, LinkDies(g) PROVE (Modal /\ Held /\ Owned)'
  BY <1>14, SMTT(30) DEF LinkDies
<1>15. ASSUME NEW g \in Runs, CheckStarts(g) PROVE (Modal /\ Held /\ Owned)'
  BY <1>15, SMTT(30) DEF CheckStarts, MayCheck
<1>16. ASSUME NEW g \in Runs, CheckEnds(g) PROVE (Modal /\ Held /\ Owned)'
  BY <1>16, SMTT(30) DEF CheckEnds
<1>17. ASSUME NEW g \in Runs, CallbackMeasured(g) PROVE (Modal /\ Held /\ Owned)'
  BY <1>17, SMTT(30) DEF CallbackMeasured, Refuses, Dials
<1>18. CASE DriftHeaders
  BY <1>18, SMTT(30) DEF DriftHeaders
<1>19. CASE UNCHANGED vars
  BY <1>19, SMTT(30) DEF vars
<1>q. QED
  BY <1>1, <1>2, <1>3, <1>4, <1>5, <1>6, <1>7, <1>8, <1>9, <1>10, <1>11,
     <1>12, <1>13, <1>14, <1>15, <1>16, <1>17, <1>18, <1>19 DEF Next, Onward

LEMMA Invariance == Spec => []IInv
<1>1. ASSUME IInv, [Next]_vars PROVE IInv'
  BY <1>1, TypeStep, InvStep DEF IInv
<1>2. QED
  BY <1>1, InitInv, PTL DEF Spec

HIDE AppAssumption DEF Runs

\* A step of another page is none of the application's.
LEMMA OnItsPage == HubSpec => Spec
<1>1. HubInit => Init
  BY DEF HubInit
<1>2. [HubNext]_hubVars => [Next]_vars
  BY DEF HubNext, hubVars
<1>3. QED
  BY <1>1, <1>2, PTL DEF HubSpec, Spec

-----------------------------------------------------------------------------
\* However often the user starts and stops, whatever fails on the way and
\* whichever callbacks of earlier monitors are still out: at most one monitor
\* probes, one pool is open and one dispatcher listens, those of the latest
\* start, and none while the button says "Start".  And clients are accepted
\* only while the pool they need is open: onStart makes it first, onStop and a
\* failed onStart close it last.
THEOREM OneStackAlways == HubSpec => []OneStack
<1>1. IInv => OneStack
  BY AppAssumption DEF IInv, OneStack, TypeOK, Modal, Held, Owned, On, Monitored, Pooled,
     Dispatched, Runs
<1>2. QED
  BY <1>1, Invariance, OnItsPage, PTL
-----------------------------------------------------------------------------
(* The traffic log *)

\* What is logged, and by whom, does not matter.
LogChange ==
    \/ \E type \in Types : Log(type)
    \/ LogStep
    \/ UNCHANGED logVars

\* The array after an entry was pushed, and the oldest shifted out if need be; the
\* nodes that are kept of s when there were n entries; each of them older by one;
\* the new node behind them, if its age 0 is in B.
PushedTo(L, type) ==
    IF Len(Append(L, type)) > MAX_LOGS THEN Tail(Append(L, type)) ELSE Append(L, type)
KeptOf(s, n) == IF n = MAX_LOGS /\ s # <<>> THEN Tail(s) ELSE s
OlderOf(k) == [i \in DOMAIN k |-> k[i] + 1]
WithNewest(o, B) == IF 0 \in B THEN Append(o, 0) ELSE o

LEMMA FunctionIsSeq ==
    ASSUME NEW S, NEW n \in Nat, NEW f \in [1..n -> S]
    PROVE  f \in Seq(S) /\ Len(f) = n
  OBVIOUS

LEMMA OneMore == \A n \in Nat, a \in Nat : a + 1 < n => a + 1 \in 0..n - 1
  OBVIOUS

LEMMA Pushed ==
    ASSUME NEW L \in Seq(Types), NEW type \in Types, Len(L) <= MAX_LOGS
    PROVE  LET M == PushedTo(L, type)
           IN  /\ M \in Seq(Types) /\ Len(M) <= MAX_LOGS
               /\ Len(M) = IF Len(L) = MAX_LOGS THEN Len(L) ELSE Len(L) + 1
               /\ M[Len(M)] = type
               /\ \A a \in Nat : a + 1 < Len(M) => M[Len(M) - (a + 1)] = L[Len(L) - a]
<1> DEFINE M == PushedTo(L, type)
<1> USE LogAssumption
<1>1. /\ Append(L, type) \in Seq(Types) /\ Len(Append(L, type)) = Len(L) + 1
      /\ Append(L, type)[Len(L) + 1] = type
      /\ \A i \in 1..Len(L) : Append(L, type)[i] = L[i]
      /\ Len(L) \in Nat
  OBVIOUS
<1>2. CASE Len(L) = MAX_LOGS
  <2>1. M = Tail(Append(L, type))
    BY <1>1, <1>2 DEF PushedTo
  <2>2. M \in Seq(Types) /\ Len(M) = Len(L) /\ \A i \in 1..Len(L) : M[i] = Append(L, type)[i + 1]
    BY <1>1, <1>2, <2>1
  <2>3. M[Len(M)] = type
    BY <1>1, <1>2, <2>2
  <2>4. ASSUME NEW a \in Nat, a + 1 < Len(M) PROVE M[Len(M) - (a + 1)] = L[Len(L) - a]
    <3>1. Len(L) - (a + 1) \in 1..Len(L) /\ Len(L) - a \in 1..Len(L)
      BY <1>1, <2>2, <2>4
    <3>2. M[Len(L) - (a + 1)] = Append(L, type)[(Len(L) - (a + 1)) + 1]
      BY <2>2, <3>1
    <3>3. (Len(L) - (a + 1)) + 1 = Len(L) - a
      BY <1>1
    <3>4. QED
      BY <1>1, <2>2, <3>1, <3>2, <3>3
  <2>5. QED
    BY <1>2, <2>2, <2>3, <2>4
<1>3. CASE Len(L) # MAX_LOGS
  <2>1. M = Append(L, type) /\ Len(M) = Len(L) + 1 /\ Len(M) <= MAX_LOGS
    BY <1>1, <1>3 DEF PushedTo
  <2>2. ASSUME NEW a \in Nat, a + 1 < Len(M) PROVE M[Len(M) - (a + 1)] = L[Len(L) - a]
    <3>1. Len(M) - (a + 1) = Len(L) - a /\ Len(L) - a \in 1..Len(L)
      BY <1>1, <2>1, <2>2
    <3>2. QED
      BY <1>1, <2>1, <3>1
  <2>3. QED
    BY <1>1, <1>3, <2>1, <2>2
<1>4. QED
  BY <1>2, <1>3

\* What the ages of the entries become: each is older by one, the oldest goes.
LEMMA Aged ==
    ASSUME NEW L \in Seq(Types), NEW M \in Seq(Types), NEW type, NEW tab,
           Len(M) = (IF Len(L) = MAX_LOGS THEN Len(L) ELSE Len(L) + 1),
           Len(L) <= MAX_LOGS, M[Len(M)] = type,
           \A a \in Nat : a + 1 < Len(M) => M[Len(M) - (a + 1)] = L[Len(L) - a]
    PROVE  /\ \A a \in Nat : a + 1 \in Ages(M, tab) <=> (a \in Ages(L, tab) /\ a + 1 < Len(M))
           /\ 0 \in Ages(M, tab) <=> Passes(tab, type)
<1> USE LogAssumption
<1>1. Len(L) \in Nat /\ Len(M) \in Nat \ {0}
  OBVIOUS
<1>2. ASSUME NEW a \in Nat
      PROVE  a + 1 \in Ages(M, tab) <=> (a \in Ages(L, tab) /\ a + 1 < Len(M))
  <2>1. a + 1 \in Ages(M, tab) <=> (a + 1 < Len(M) /\ Passes(tab, M[Len(M) - (a + 1)]))
    BY <1>1 DEF Ages
  <2>2. a \in Ages(L, tab) <=> (a < Len(L) /\ Passes(tab, L[Len(L) - a]))
    BY <1>1 DEF Ages
  <2>3. a + 1 < Len(M) => a < Len(L)
    BY <1>1
  <2>4. QED
    BY <2>1, <2>2, <2>3
<1>3. 0 \in Ages(M, tab) <=> Passes(tab, type)
  <2>1. 0 \in 0..Len(M) - 1 /\ Len(M) - 0 = Len(M)
    BY <1>1
  <2>2. 0 \in Ages(M, tab) <=> Passes(tab, M[Len(M) - 0])
    BY <2>1 DEF Ages
  <2>3. QED
    BY <2>1, <2>2
<1>4. QED
  BY <1>2, <1>3

\* The nodes of a tab, with the entries they may stand for: in order, the latest
\* without a gap, and all of them under "all".
Agree(s, ages, all) ==
    /\ \A i \in DOMAIN s : s[i] \in ages
    /\ \A i, j \in DOMAIN s : i < j => s[i] > s[j]
    /\ \A a \in ages, j \in DOMAIN s : a <= s[j] => \E i \in DOMAIN s : s[i] = a
    /\ all => \A a \in ages : \E i \in DOMAIN s : s[i] = a

\* Of the nodes, those that are kept when n entries become m.
LEMMA KeptNodes ==
    ASSUME NEW n \in Nat, NEW m \in Nat, m = (IF n = MAX_LOGS THEN n ELSE n + 1),
           NEW A \in SUBSET (0..n - 1), NEW all \in BOOLEAN, all => A = 0..n - 1,
           NEW s \in Seq(0..MAX_LOGS - 1), Agree(s, A, all)
    PROVE  /\ KeptOf(s, n) \in Seq(0..MAX_LOGS - 1)
           /\ Agree(KeptOf(s, n), {a \in A : a + 1 < m}, all)
<1> DEFINE k == KeptOf(s, n)
           B == {a \in A : a + 1 < m}
<1> USE LogAssumption
<1>1. /\ \A i \in DOMAIN s : s[i] \in A /\ s[i] \in Nat /\ s[i] < n
      /\ \A i, j \in DOMAIN s : i < j => s[i] > s[j]
      /\ \A a \in A, j \in DOMAIN s : a <= s[j] => \E i \in DOMAIN s : s[i] = a
      /\ all => \A a \in A : \E i \in DOMAIN s : s[i] = a
  BY DEF Agree
<1>2. CASE n # MAX_LOGS
  <2>1. k = s
    BY <1>2 DEF KeptOf
  <2>2. \A a \in A : a + 1 < m
    BY <1>2
  <2>3. B = A
    BY <2>2
  <2>4. QED
    BY <2>1, <2>3
<1>3. CASE n = MAX_LOGS /\ s = <<>>
  <2>1. k = s /\ DOMAIN k = {} /\ n \in Nat \ {0}
    BY <1>3 DEF KeptOf
  <2>2. ~all
    <3>1. all => n - 1 \in A
      BY <2>1
    <3>2. QED
      BY <1>1, <2>1, <3>1
  <2>3. QED
    BY <2>1, <2>2 DEF Agree
<1>4. CASE n = MAX_LOGS /\ s # <<>>
  <2>1. k = Tail(s) /\ m = n
    BY <1>4 DEF KeptOf
  <2>2. /\ k \in Seq(0..MAX_LOGS - 1) /\ 1 \in DOMAIN s /\ Len(k) \in Nat /\ DOMAIN k = 1..Len(k)
        /\ DOMAIN s = 1..Len(k) + 1 /\ \A i \in DOMAIN k : k[i] = s[i + 1]
    BY <1>4, <2>1
  <2>3. \A i \in DOMAIN k : i + 1 \in DOMAIN s /\ 1 < i + 1
    BY <2>2
  <2>4. \A i \in DOMAIN k : k[i] \in B
    <3>1. SUFFICES ASSUME NEW i \in DOMAIN k PROVE k[i] \in A /\ k[i] + 1 < m
      OBVIOUS
    <3>2. s[1] > s[i + 1] /\ k[i] = s[i + 1] /\ i + 1 \in DOMAIN s
      BY <1>1, <2>2, <2>3
    <3>3. s[1] < n /\ s[1] \in Nat /\ s[i + 1] \in Nat /\ s[i + 1] \in A
      BY <1>1, <2>2, <3>2
    <3>4. QED
      BY <2>1, <3>2, <3>3
  <2>5. \A i, j \in DOMAIN k : i < j => k[i] > k[j]
    <3>1. SUFFICES ASSUME NEW i \in DOMAIN k, NEW j \in DOMAIN k, i < j PROVE k[i] > k[j]
      OBVIOUS
    <3>2. i + 1 \in DOMAIN s /\ j + 1 \in DOMAIN s /\ i + 1 < j + 1
      BY <2>2, <2>3, <3>1
    <3>3. s[i + 1] > s[j + 1]
      BY <1>1, <3>2
    <3>4. QED
      BY <2>2, <3>3
  <2>6. \A i \in DOMAIN s : s[i] # s[1] => \E j \in DOMAIN k : k[j] = s[i]
    <3>1. SUFFICES ASSUME NEW i \in DOMAIN s, s[i] # s[1] PROVE \E j \in DOMAIN k : k[j] = s[i]
      OBVIOUS
    <3>2. i - 1 \in DOMAIN k /\ (i - 1) + 1 = i
      BY <2>2, <3>1, SMTT(30)
    <3>3. QED
      BY <2>2, <3>2
  <2>7. \A a \in B, j \in DOMAIN k : a <= k[j] => \E i \in DOMAIN k : k[i] = a
    <3>1. SUFFICES ASSUME NEW a \in B, NEW j \in DOMAIN k, a <= k[j]
                   PROVE  \E i \in DOMAIN k : k[i] = a
      OBVIOUS
    <3>2. a <= s[j + 1] /\ s[1] > s[j + 1]
      BY <1>1, <2>2, <2>3, <3>1
    <3>3. PICK i \in DOMAIN s : s[i] = a
      BY <1>1, <2>3, <3>1, <3>2
    <3>4. s[i] # s[1]
      BY <1>1, <2>2, <2>3, <3>2, <3>3
    <3>5. QED
      BY <2>6, <3>3, <3>4
  <2>8. ASSUME all, NEW a \in B PROVE \E i \in DOMAIN k : k[i] = a
    <3>1. PICK i \in DOMAIN s : s[i] = a
      BY <1>1, <2>8
    <3>2. PICK j \in DOMAIN s : s[j] = n - 1
      <4>1. n - 1 \in A
        BY <1>4, <2>8
      <4>2. QED
        BY <1>1, <2>8, <4>1
    <3>3. s[1] = n - 1
      <4>1. s[1] \in Nat /\ s[1] < n
        BY <1>1, <2>2
      <4>2. j \in Nat /\ j >= 1
        BY <2>2, <3>2
      <4>3. j > 1 => s[1] > s[j]
        BY <1>1, <2>2, <4>2
      <4>4. QED
        BY <3>2, <4>1, <4>2, <4>3
    <3>4. s[i] # s[1]
      BY <2>1, <2>8, <3>1, <3>3
    <3>5. QED
      BY <2>6, <3>1, <3>4
  <2>9. QED
    BY <2>2, <2>4, <2>5, <2>7, <2>8 DEF Agree
<1>5. QED
  BY <1>2, <1>3, <1>4

\* The new one behind those that are older.
LEMMA NewestNode ==
    ASSUME NEW o \in Seq(0..MAX_LOGS - 1), NEW B \in SUBSET Nat, NEW all \in BOOLEAN,
           Agree(o, B \ {0}, all), 0 \in B
    PROVE  Append(o, 0) \in Seq(0..MAX_LOGS - 1) /\ Agree(Append(o, 0), B, all)
<1> DEFINE t == Append(o, 0)
<1> USE LogAssumption
<1>1. /\ t \in Seq(0..MAX_LOGS - 1) /\ Len(o) \in Nat
      /\ DOMAIN o = 1..Len(o) /\ DOMAIN t = 1..Len(o) + 1
      /\ t[Len(o) + 1] = 0 /\ \A i \in 1..Len(o) : t[i] = o[i]
  <2>1. t = Append(o, 0) /\ 0 \in 0..MAX_LOGS - 1 /\ o \in Seq(0..MAX_LOGS - 1)
    OBVIOUS
  <2>2. t \in Seq(0..MAX_LOGS - 1) /\ Len(t) = Len(o) + 1
    BY <2>1
  <2>3. QED
    BY <2>1, <2>2
<1> HIDE DEF t
<1>2. /\ \A i \in DOMAIN o : i \in DOMAIN t /\ i < Len(o) + 1
      /\ \A i \in DOMAIN t : i \in DOMAIN o \/ i = Len(o) + 1
  BY <1>1
<1>3. /\ \A i \in DOMAIN o : o[i] \in B /\ o[i] \in Nat /\ o[i] > 0
      /\ \A i, j \in DOMAIN o : i < j => o[i] > o[j]
      /\ \A b \in B, j \in DOMAIN o : (b # 0 /\ b <= o[j]) => \E i \in DOMAIN o : o[i] = b
      /\ all => \A b \in B : b # 0 => \E i \in DOMAIN o : o[i] = b
  <2>1. \A b \in B : b # 0 => b \in B \ {0}
    OBVIOUS
  <2>2. \A b \in B \ {0} : b \in B /\ b \in Nat /\ b > 0
    OBVIOUS
  <2>3. QED
    BY <2>1, <2>2, Zenon DEF Agree
<1>4. \A i \in DOMAIN t : t[i] \in B
  BY <1>1, <1>2, <1>3
<1>5. \A i, j \in DOMAIN t : i < j => t[i] > t[j]
  <2>1. SUFFICES ASSUME NEW i \in DOMAIN t, NEW j \in DOMAIN t, i < j PROVE t[i] > t[j]
    OBVIOUS
  <2>2. i \in DOMAIN o /\ t[i] = o[i]
    BY <1>1, <2>1
  <2>3. CASE j \in DOMAIN o
    BY <1>1, <1>3, <2>1, <2>2, <2>3
  <2>4. CASE j = Len(o) + 1
    BY <1>1, <1>3, <2>2, <2>4
  <2>5. QED
    BY <1>2, <2>3, <2>4
<1>6. \A b \in B : b = 0 => \E i \in DOMAIN t : t[i] = b
  <2>1. Len(o) + 1 \in DOMAIN t
    BY <1>1
  <2>2. QED
    BY <1>1, <2>1
<1>7. \A b \in B, j \in DOMAIN t : b <= t[j] => \E i \in DOMAIN t : t[i] = b
  <2>1. SUFFICES ASSUME NEW b \in B, NEW j \in DOMAIN t, b <= t[j], b # 0
                 PROVE  \E i \in DOMAIN t : t[i] = b
    BY <1>6
  <2>2. j # Len(o) + 1
    BY <1>1, <2>1
  <2>3. j \in DOMAIN o /\ b <= o[j]
    BY <1>1, <1>2, <2>1, <2>2
  <2>4. PICK i \in DOMAIN o : o[i] = b
    BY <1>3, <2>1, <2>3
  <2>5. i \in DOMAIN t /\ t[i] = b
    BY <1>1, <1>2, <2>4
  <2>6. QED
    BY <2>5
<1>8. ASSUME all, NEW b \in B PROVE \E i \in DOMAIN t : t[i] = b
  <2>1. CASE b # 0
    <3>1. PICK i \in DOMAIN o : o[i] = b
      BY <1>3, <1>8, <2>1
    <3>2. i \in DOMAIN t /\ t[i] = b
      BY <1>1, <1>2, <3>1
    <3>3. QED
      BY <3>2
  <2>2. QED
    BY <1>6, <2>1
<1>9. Agree(t, B, all)
  BY <1>1, <1>4, <1>5, <1>7, <1>8 DEF Agree
<1>10. QED
  BY <1>1, <1>9 DEF t

\* All of them older by one, and behind them the new one if the tab lets it through.
LEMMA AgedNodes ==
    ASSUME NEW k \in Seq(0..MAX_LOGS - 1), NEW A \in SUBSET Nat, NEW B \in SUBSET Nat,
           NEW all \in BOOLEAN, Agree(k, A, all), \A a \in A : a + 1 < MAX_LOGS,
           \A a \in Nat : a + 1 \in B <=> a \in A
    PROVE  /\ WithNewest(OlderOf(k), B) \in Seq(0..MAX_LOGS - 1)
           /\ Agree(WithNewest(OlderOf(k), B), B, all)
<1> DEFINE o == OlderOf(k)
           t == WithNewest(o, B)
<1> USE LogAssumption
<1>1. /\ \A i \in DOMAIN k : k[i] \in A /\ k[i] \in Nat
      /\ \A i, j \in DOMAIN k : i < j => k[i] > k[j]
      /\ \A a \in A, j \in DOMAIN k : a <= k[j] => \E i \in DOMAIN k : k[i] = a
      /\ all => \A a \in A : \E i \in DOMAIN k : k[i] = a
  BY DEF Agree
<1>2. /\ DOMAIN o = DOMAIN k /\ o \in Seq(0..MAX_LOGS - 1)
      /\ \A i \in DOMAIN o : o[i] = k[i] + 1
  <2>1. Len(k) \in Nat /\ DOMAIN k = 1..Len(k)
    OBVIOUS
  <2>2. ASSUME NEW i \in 1..Len(k) PROVE k[i] + 1 \in 0..MAX_LOGS - 1
    <3>1. k[i] \in A /\ k[i] \in Nat
      BY <1>1, <2>1
    <3>2. k[i] + 1 < MAX_LOGS
      BY <3>1
    <3>3. QED
      BY <3>1, <3>2, OneMore
  <2>3. o \in [1..Len(k) -> 0..MAX_LOGS - 1] /\ \A i \in 1..Len(k) : o[i] = k[i] + 1
    BY <2>1, <2>2 DEF OlderOf
  <2> HIDE DEF o
  <2>4. o \in Seq(0..MAX_LOGS - 1) /\ Len(o) = Len(k)
    BY <2>1, <2>3, FunctionIsSeq
  <2>5. DOMAIN o = DOMAIN k
    BY <2>1, <2>4
  <2>6. QED
    BY <2>1, <2>3, <2>4, <2>5
<1> HIDE DEF o
<1>3. \A b \in B : b # 0 => b - 1 \in A /\ b - 1 \in Nat /\ (b - 1) + 1 = b
  <2>1. \A b \in B : b # 0 => b - 1 \in Nat /\ (b - 1) + 1 = b
    OBVIOUS
  <2>2. QED
    BY <2>1
<1>4. Agree(o, B \ {0}, all)
  <2>1. \A i \in DOMAIN o : o[i] \in B \ {0}
    BY <1>1, <1>2
  <2>2. \A i, j \in DOMAIN o : i < j => o[i] > o[j]
    BY <1>1, <1>2
  <2>3. \A b \in B \ {0}, j \in DOMAIN o : b <= o[j] => \E i \in DOMAIN o : o[i] = b
    <3>1. SUFFICES ASSUME NEW b \in B \ {0}, NEW j \in DOMAIN o, b <= o[j]
                   PROVE  \E i \in DOMAIN o : o[i] = b
      OBVIOUS
    <3>2. b - 1 \in A /\ b - 1 <= k[j] /\ j \in DOMAIN k /\ (b - 1) + 1 = b
      BY <1>1, <1>2, <1>3, <3>1
    <3>3. PICK i \in DOMAIN k : k[i] = b - 1
      BY <1>1, <3>2
    <3>4. QED
      BY <1>2, <3>2, <3>3
  <2>4. ASSUME all, NEW b \in B \ {0} PROVE \E i \in DOMAIN o : o[i] = b
    <3>1. b - 1 \in A /\ (b - 1) + 1 = b
      BY <1>3, <2>4
    <3>2. PICK i \in DOMAIN k : k[i] = b - 1
      BY <1>1, <2>4, <3>1
    <3>3. QED
      BY <1>2, <3>1, <3>2
  <2>5. QED
    BY <2>1, <2>2, <2>3, <2>4 DEF Agree
<1>5. CASE 0 \notin B
  <2>1. t = o /\ B \ {0} = B
    BY <1>5 DEF WithNewest
  <2>2. t \in Seq(0..MAX_LOGS - 1) /\ Agree(t, B, all)
    BY <1>2, <1>4, <2>1
  <2>3. QED
    BY <2>2 DEF o
<1>6. CASE 0 \in B
  <2>1. t = Append(o, 0)
    BY <1>6 DEF WithNewest
  <2> HIDE DEF t
  <2>2. t \in Seq(0..MAX_LOGS - 1) /\ Agree(t, B, all)
    BY <1>2, <1>4, <1>6, <2>1, NewestNode
  <2>3. QED
    BY <2>2 DEF o, t
<1>7. QED
  BY <1>5, <1>6

LEMMA AgreementIs ==
    ShownAgrees <=> LogTypeOK /\ Agree(view.shown, Ages(view.logs, filterMode), filterMode = "all")
  BY DEF ShownAgrees, Agree

LEMMA LogEntry == ASSUME ShownAgrees, NEW type \in Types, Log(type) PROVE ShownAgrees'
<1> DEFINE L == view.logs
           s == view.shown
           n == Len(L)
           k == KeptOf(s, n)
           o == OlderOf(k)
           M == view'.logs
           t == view'.shown
           A == Ages(L, filterMode)
           B == Ages(M, filterMode)
           all == filterMode = "all"
<1> USE LogAssumption
<1>1. /\ L \in Seq(Types) /\ n <= MAX_LOGS /\ n \in Nat
      /\ s \in Seq(0..MAX_LOGS - 1) /\ filterMode \in Tabs
      /\ Agree(s, A, all)
  BY AgreementIs DEF LogTypeOK
<1>2. (Len(Append(L, type)) > MAX_LOGS) <=> (n = MAX_LOGS)
  BY <1>1
<1>3. /\ M = PushedTo(L, type)
      /\ t = IF Passes(filterMode, type) THEN Append(o, 0) ELSE o
      /\ filterMode' = filterMode
  BY <1>2 DEF Log, Logged, PushedTo, KeptOf, OlderOf
<1>4. /\ M \in Seq(Types) /\ Len(M) <= MAX_LOGS
      /\ Len(M) = IF n = MAX_LOGS THEN n ELSE n + 1
      /\ M[Len(M)] = type
      /\ \A a \in Nat : a + 1 < Len(M) => M[Len(M) - (a + 1)] = L[n - a]
  <2>1. M = PushedTo(L, type)
    BY <1>3
  <2>2. L \in Seq(Types) /\ Len(L) <= MAX_LOGS
    BY <1>1
  <2> HIDE DEF M, L
  <2>3. QED
    BY <2>1, <2>2, Pushed
<1>5. /\ \A a \in Nat : a + 1 \in B <=> (a \in A /\ a + 1 < Len(M))
      /\ 0 \in B <=> Passes(filterMode, type)
  <2> HIDE DEF M, L
  <2>1. QED
    BY <1>1, <1>4, Aged
<1>6. A \in SUBSET (0..n - 1) /\ (all => A = 0..n - 1) /\ B \in SUBSET Nat
  BY <1>1, <1>4 DEF Ages, Passes
<1>7. k \in Seq(0..MAX_LOGS - 1) /\ Agree(k, {a \in A : a + 1 < Len(M)}, all)
  <2>1. Len(M) \in Nat /\ n \in Nat /\ all \in BOOLEAN
    BY <1>1, <1>4
  <2>2. Len(M) = IF n = MAX_LOGS THEN n ELSE n + 1
    BY <1>4
  <2>3. A \in SUBSET (0..n - 1) /\ (all => A = 0..n - 1)
    BY <1>6
  <2>4. s \in Seq(0..MAX_LOGS - 1) /\ Agree(s, A, all)
    BY <1>1
  <2> HIDE DEF M, L, A, s, all, n
  <2>5. QED
    BY <2>1, <2>2, <2>3, <2>4, KeptNodes
<1>8. t \in Seq(0..MAX_LOGS - 1) /\ Agree(t, B, all)
  <2> DEFINE K == {a \in A : a + 1 < Len(M)}
  <2>1. K \in SUBSET Nat /\ \A a \in K : a + 1 < MAX_LOGS
    BY <1>1, <1>4, <1>6
  <2>2. \A a \in Nat : a + 1 \in B <=> a \in K
    BY <1>5
  <2>3. t = WithNewest(o, B)
    BY <1>3, <1>5 DEF WithNewest
  <2>4. all \in BOOLEAN
    OBVIOUS
  <2>5. Agree(k, K, all) /\ k \in Seq(0..MAX_LOGS - 1)
    BY <1>7
  <2>6. B \in SUBSET Nat
    BY <1>6
  <2> HIDE DEF K, B, t, k, all
  <2>7. QED
    BY <2>1, <2>2, <2>3, <2>4, <2>5, <2>6, AgedNodes
<1>9. LogTypeOK'
  BY <1>1, <1>3, <1>4, <1>8 DEF LogTypeOK
<1>10. Agree(view'.shown, Ages(view'.logs, filterMode'), filterMode' = "all")
  BY <1>3, <1>8
<1>11. QED
  BY <1>9, <1>10 DEF ShownAgrees, Agree

LEMMA LogInv == ASSUME ShownAgrees, LogChange PROVE ShownAgrees'
<1>1. CASE \E type \in Types : Log(type)
  BY <1>1, LogEntry
<1>2. CASE SelectTab
  <2>1. PICK tab \in Tabs : filterMode' = tab /\ RenderLogs(view.logs, tab)
    BY <1>2 DEF SelectTab
  <2>n. PICK n \in 0..Len(view.logs) : \E s \in [1..n -> Ages(view.logs, tab)] :
           IsRendering(s, view.logs, tab) /\ view' = [logs |-> view.logs, shown |-> s]
    BY <2>1 DEF RenderLogs
  <2>2. PICK s \in [1..n -> Ages(view.logs, tab)] :
           IsRendering(s, view.logs, tab) /\ view' = [logs |-> view.logs, shown |-> s]
    BY <2>n
  <2>3. view.logs \in Seq(Types) /\ Len(view.logs) <= MAX_LOGS
    BY DEF ShownAgrees, LogTypeOK
  <2>4. \A a \in Ages(view.logs, tab) : a \in 0..MAX_LOGS - 1
    BY <2>3, LogAssumption DEF Ages
  <2>5. s \in Seq(0..MAX_LOGS - 1)
    <3>1. n \in Nat
      BY <2>3
    <3>2. s \in [1..n -> 0..MAX_LOGS - 1]
      BY <2>2, <2>4
    <3>3. QED
      BY <3>1, <3>2, FunctionIsSeq
  <2>6. LogTypeOK'
    BY <2>1, <2>2, <2>3, <2>5 DEF LogTypeOK
  <2>7. {s[i] : i \in DOMAIN s} = Ages(view.logs, tab) /\ \A i, j \in DOMAIN s : i < j => s[i] > s[j]
    BY <2>2 DEF IsRendering
  <2>8. QED
    BY <2>1, <2>2, <2>6, <2>7 DEF ShownAgrees
<1>3. CASE ClearLogs
  <2>1. view' = [logs |-> <<>>, shown |-> <<>>] /\ filterMode' = filterMode
    BY <1>3 DEF ClearLogs
  <2>2. Ages(view'.logs, filterMode) = {} /\ DOMAIN view'.shown = {}
    BY <2>1 DEF Ages
  <2>3. LogTypeOK'
    BY <2>1, LogAssumption DEF ShownAgrees, LogTypeOK
  <2>4. QED
    BY <2>1, <2>2, <2>3 DEF ShownAgrees
<1>4. CASE UNCHANGED logVars
  BY <1>4 DEF logVars, ShownAgrees, LogTypeOK, Ages
<1>5. QED
  BY <1>1, <1>2, <1>3, <1>4 DEF LogChange, LogStep

-----------------------------------------------------------------------------
(* The client *)

\* What is there at each await of connect(): nothing is left of the connection
\* before, and nobody disconnects.
Connecting ==
    /\ isConnecting <=> connecting # "none"
    /\ connecting # "none" =>
           /\ ~btnToggleConnect /\ ~isConnected /\ ~streams /\ ~reading
           /\ disconnecting = "none" /\ sending = 0
    /\ connecting = "timer" => socket \in {"null", "failed"} /\ echoes <= MaxSends

\* While there is a connection or the last one is taken down.
Connection ==
    /\ isConnected => ~btnToggleConnect /\ connecting = "none" /\ disconnecting = "none"
    /\ reading => isConnected /\ streams
    /\ disconnecting # "none" => ~btnToggleConnect /\ ~isConnected /\ connecting = "none"
    /\ disconnecting = "socket" => sending = 0
    /\ repeatTimer => isConnected

\* The button is enabled only once everything is gone; only a connection of the
\* simulator, which nothing ends, adds an answer to those that may be to come.
Idle ==
    /\ btnToggleConnect =>
           /\ ~isConnected /\ ~isConnecting /\ connecting = "none" /\ disconnecting = "none"
           /\ socket \in {"null", "failed"} /\ ~streams /\ ~reading /\ sending = 0
    /\ echoes = MaxSends + 1 =>
           /\ ~btnToggleConnect /\ connecting = "none" /\ disconnecting = "none" /\ ~reading

ClientInv == ClientTypeOK /\ Connecting /\ Connection /\ Idle

LEMMA ClientInitInv == ClientInit => ClientInv
<1> SUFFICES ASSUME ClientInit PROVE ClientInv
  OBVIOUS
<1>1. /\ btnToggleConnect /\ ~isConnected /\ ~isConnecting /\ ~streams /\ ~reading /\ ~repeatTimer
      /\ {btnToggleConnect, isConnected, isConnecting, streams, reading, repeatTimer} \subseteq BOOLEAN
  BY Zenon DEF ClientInit
<1>2. QED
  BY <1>1, ClientAssumption DEF ClientInit, ClientInv, ClientTypeOK, Connecting, Connection, Idle

LEMMA ClientStepInv == ASSUME ClientInv, ClientStep PROVE ClientInv'
<1> USE ClientAssumption DEF ClientInv, ClientTypeOK, Connecting, Connection, Idle,
        connectVars, socketVars, sendVars
<1>1. CASE Connect
  <2>1. ~btnToggleConnect' /\ isConnecting' /\ {btnToggleConnect', isConnecting'} \subseteq BOOLEAN
    BY <1>1, Zenon DEF Connect
  <2>2. btnToggleConnect /\ ~isConnected /\ ~isConnecting
    BY <1>1 DEF Connect
  <2>3. QED
    BY <1>1, <2>1, <2>2, SMTT(30) DEF Connect
<1>2. CASE Connects
  <2>1. isConnected' /\ ~isConnecting' /\ streams' /\ reading' /\ {isConnected', isConnecting', streams', reading'} \subseteq BOOLEAN
    BY <1>2, Zenon DEF Connects
  <2>2. QED
    BY <1>2, <2>1, SMTT(30) DEF Connects
<1>3. CASE ConnectFails
  <2>1. ~isConnecting' /\ btnToggleConnect' /\ {isConnecting', btnToggleConnect'} \subseteq BOOLEAN
    BY <1>3, Zenon DEF ConnectFails
  <2>2. QED
    BY <1>3, <2>1, SMTT(30) DEF ConnectFails
<1>4. CASE SimConnects
  <2>1. isConnected' /\ ~isConnecting' /\ {isConnected', isConnecting'} \subseteq BOOLEAN
    BY <1>4, Zenon DEF SimConnects
  <2>2. QED
    BY <1>4, <2>1, SMTT(30) DEF SimConnects
<1>5. CASE ToggleSim
  BY <1>5, SMTT(30) DEF ToggleSim, clientVars
<1>6. CASE Receive
  BY <1>6, SMTT(30) DEF Receive
<1>7. CASE SendMessage
  BY <1>7, SMTT(30) DEF SendMessage
<1>8. CASE MessageSent
  BY <1>8, SMTT(30) DEF MessageSent
<1>9. CASE Repeat
  BY <1>9, SMTT(30) DEF Repeat
<1>10. CASE ReadEnds
  <2>1. ~reading' /\ ~repeatTimer' /\ ~isConnected' /\ {reading', repeatTimer', isConnected'} \subseteq BOOLEAN
    BY <1>10, Zenon DEF ReadEnds
  <2>2. QED
    BY <1>10, <2>1, SMTT(30) DEF ReadEnds
<1>11. CASE Disconnecting
  <2>1. CASE disconnecting = "socket"
    <3>1. btnToggleConnect' /\ ~streams' /\ {btnToggleConnect', streams'} \subseteq BOOLEAN
      BY <1>11, <2>1, Zenon DEF Disconnecting
    <3>2. QED
      BY <1>11, <2>1, <3>1, SMTT(30) DEF Disconnecting
  <2>2. CASE disconnecting # "socket"
    BY <1>11, <2>2, SMTT(30) DEF Disconnecting
  <2>3. QED
    BY <2>1, <2>2
<1>12. CASE LogStep /\ UNCHANGED clientVars
  BY <1>12 DEF clientVars
<1>13. QED
  BY <1>1, <1>2, <1>3, <1>4, <1>5, <1>6, <1>7, <1>8, <1>9, <1>10, <1>11, <1>12 DEF ClientStep

-----------------------------------------------------------------------------
(* The listener *)

\* Before the server listens there is nobody.
Serving ==
    /\ btnToggleServer => server = "stopped"
    /\ server \in {"stopped", "starting"} => ~accepting /\ clientCounter = 0
    /\ accepting => server = "listening"

\* A client is numbered, opens, comes into the Map once, and goes.
Listed ==
    /\ \A c \in Clients :
           /\ client[c] = "none" <=> c > clientCounter
           /\ client[c] \in {"none", "opening"} =>
                  /\ loop[c] = "none" /\ ~isAlive[c] /\ closing[c] = "none" /\ writes[c] = <<>>
                  /\ \A i \in DOMAIN order : order[i] # c
           /\ client[c] = "open" => \E i \in DOMAIN order : order[i] = c
           /\ isAlive[c] => client[c] = "open" /\ closing[c] = "none"
    /\ \A i, j \in DOMAIN order : order[i] = order[j] => i = j

\* Where a broadcast x has got to in the Map: it has written once to those of its
\* clients that are still there, and to nobody behind.
Walked(x) ==
    /\ x.at <= Len(order) /\ (x.pc = "new" => x.at = 0)
    /\ \A c \in x.base : loop[c] # "none"
    /\ \A c \in Clients :
           /\ x.sent[c] <= 1
           /\ client[c] \in {"none", "opening"} => x.sent[c] = 0
           /\ x.pc = "over" /\ c \in x.base /\ isAlive[c] => x.sent[c] = 1
    /\ \A i \in DOMAIN order :
           /\ i > x.at => x.sent[order[i]] = 0
           /\ i <= x.at /\ order[i] \in x.base /\ isAlive[order[i]] => x.sent[order[i]] = 1

\* The strengthening of BroadcastOnce.
ListenerInv == ListenerTypeOK /\ Serving /\ Listed /\ \A b \in Casts : Walked(cast[b])
CastType == [pc : {"new", "write", "next", "over"}, at : Nat, base : SUBSET Clients,
             sent : [Clients -> Nat]]
WriteType == [Clients -> Seq({USER, ECHO} \cup Casts)]

\* Clients that come and go, and loops that end, do not matter to a broadcast.
LEMMA WalksKept ==
    ASSUME ListenerInv, cast' = cast, Len(order) <= Len(order'), order' \in Seq(Clients),
           \A i \in DOMAIN order : order'[i] = order[i],
           \A i \in DOMAIN order' :
               i > Len(order) => client[order'[i]] \in {"none", "opening"},
           \A c \in Clients :
               /\ loop[c] # "none" => loop'[c] # "none"
               /\ isAlive'[c] => isAlive[c] \/ loop[c] = "none"
               /\ client'[c] \in {"none", "opening"} => client[c] \in {"none", "opening"}
    PROVE  \A b \in Casts : Walked(cast[b])'
<1> SUFFICES ASSUME NEW b \in Casts PROVE Walked(cast[b])'
  OBVIOUS
<1> DEFINE x == cast[b]
<1>1. /\ x \in CastType /\ order \in Seq(Clients)
      /\ x.at \in Nat /\ x.base \subseteq Clients /\ x.sent \in [Clients -> Nat]
      /\ cast'[b] = x
  BY DEF ListenerInv, ListenerTypeOK, CastType
<1>2. Walked(x)
  BY DEF ListenerInv
<1> HIDE DEF x
<1>3. x.at <= Len(order') /\ (x.pc = "new" => x.at = 0) /\ \A c \in x.base : loop'[c] # "none"
  BY <1>1, <1>2 DEF Walked
<1>4. ASSUME NEW c \in Clients
      PROVE  /\ x.sent[c] <= 1
             /\ client'[c] \in {"none", "opening"} => x.sent[c] = 0
             /\ x.pc = "over" /\ c \in x.base /\ isAlive'[c] => x.sent[c] = 1
  BY <1>2 DEF Walked
<1>5. ASSUME NEW i \in DOMAIN order'
      PROVE  /\ i > x.at => x.sent[order'[i]] = 0
             /\ i <= x.at /\ order'[i] \in x.base /\ isAlive'[order'[i]] => x.sent[order'[i]] = 1
  <2>1. order'[i] \in Clients /\ i \in Nat
    OBVIOUS
  <2>2. CASE i > Len(order)
    <3>1. i > x.at /\ ~(i <= x.at) /\ client[order'[i]] \in {"none", "opening"}
      BY <1>1, <1>2, <2>1, <2>2 DEF Walked
    <3>2. QED
      BY <1>2, <2>1, <3>1 DEF Walked
  <2>3. CASE i \in DOMAIN order
    BY <1>1, <1>2, <2>1, <2>3 DEF Walked
  <2>4. i \in DOMAIN order \/ i > Len(order)
    BY <1>1
  <2>5. QED
    BY <2>2, <2>3, <2>4
<1>6. QED
  BY <1>1, <1>3, <1>4, <1>5 DEF Walked

\* A broadcast goes on to the next entry of the Map, or is over.
LEMMA WalkGoesOn ==
    ASSUME ListenerInv, NEW b \in Casts, NEW x \in CastType, Walked(x), NEW w \in WriteType,
           Visit(b, x, w), UNCHANGED <<client, order, isAlive, loop>>
    PROVE  /\ cast' \in [Casts -> CastType] /\ writes' \in WriteType
           /\ writer' \in [Clients -> BOOLEAN]
           /\ \A d \in Clients : client[d] # "open" => writes'[d] = w[d]
           /\ \A d \in Casts : Walked(cast[d])'
<1>1. /\ cast \in [Casts -> CastType] /\ order \in Seq(Clients) /\ writer \in [Clients -> BOOLEAN]
      /\ x.at \in Nat /\ x.base \subseteq Clients /\ x.sent \in [Clients -> Nat]
  BY DEF ListenerInv, ListenerTypeOK, CastType
<1>2. /\ \A d \in Casts : Walked(cast[d])
      /\ \A c \in Clients : client[c] = "open" => \E i \in DOMAIN order : order[i] = c
      /\ \A c \in Clients : isAlive[c] => client[c] = "open"
      /\ \A i, j \in DOMAIN order : order[i] = order[j] => i = j
  BY DEF ListenerInv, Listed
<1>3. ASSUME NEW r \in CastType, cast' = [cast EXCEPT ![b] = r], Walked(r)
      PROVE  cast' \in [Casts -> CastType] /\ \A d \in Casts : Walked(cast[d])'
  <2>1. \A d \in Casts : Walked(cast'[d])
    BY <1>1, <1>2, <1>3
  <2>2. QED
    BY <1>1, <1>3, <2>1 DEF Walked
<1>4. CASE Behind(x.at) = {}
  <2> DEFINE r == [x EXCEPT !.pc = "over"]
  <2>1. cast' = [cast EXCEPT ![b] = r] /\ writes' = w /\ writer' = writer
    BY <1>4 DEF Visit, CastOver
  <2>2. /\ r \in CastType /\ r.pc = "over" /\ r.at = x.at /\ r.base = x.base /\ r.sent = x.sent
    BY DEF CastType
  <2>3. ASSUME NEW c \in x.base, isAlive[c] PROVE x.sent[c] = 1
    <3>1. PICK i \in DOMAIN order : order[i] = c
      BY <1>1, <1>2, <2>3
    <3>2. i <= x.at
      <4>1. i > x.at => i \in x.at + 1..Len(order)
        BY <1>1
      <4>2. client[order[i]] = "open"
        BY <1>1, <1>2, <2>3, <3>1
      <4>3. QED
        BY <1>1, <1>4, <4>1, <4>2 DEF Behind
    <3>3. QED
      BY <2>3, <3>1, <3>2 DEF Walked
  <2> HIDE DEF r
  <2>4. Walked(r)
    BY <2>2, <2>3 DEF Walked
  <2>5. QED
    BY <1>1, <1>3, <2>1, <2>2, <2>4
<1>5. CASE Behind(x.at) # {}
  <2>1. PICK j \in Behind(x.at) :
           (\A k \in Behind(x.at) : j <= k) /\ Reach(b, [x EXCEPT !.at = j], order[j], w)
    BY <1>5 DEF Visit
  <2> DEFINE c == order[j]
             y == [x EXCEPT !.at = j]
  <2>2. /\ j \in Nat /\ j > x.at /\ j <= Len(order) /\ j \in DOMAIN order
        /\ c \in Clients /\ client[c] = "open" /\ x.sent[c] = 0
    <3>1. j \in x.at + 1..Len(order) /\ client[c] = "open"
      BY <2>1 DEF Behind
    <3>2. QED
      BY <1>1, <3>1 DEF Walked
  <2>3. \A i \in DOMAIN order : x.at < i /\ i < j => ~isAlive[order[i]]
    <3>1. SUFFICES ASSUME NEW i \in DOMAIN order, x.at < i, i < j PROVE ~isAlive[order[i]]
      OBVIOUS
    <3>a. i \in x.at + 1..Len(order) /\ ~(j <= i)
      BY <1>1, <2>2, <3>1
    <3>2. i \in x.at + 1..Len(order) /\ i \notin Behind(x.at)
      BY <2>1, <3>a
    <3>3. client[order[i]] # "open" /\ order[i] \in Clients
      BY <1>1, <3>2 DEF Behind
    <3>4. QED
      BY <1>2, <3>3
  <2>4. y \in CastType /\ y.at = j /\ y.base = x.base /\ y.sent = x.sent
    BY <2>2 DEF CastType
  <2>5. /\ \A d \in x.base : loop[d] # "none"
        /\ \A d \in Clients : x.sent[d] <= 1 /\ (client[d] \in {"none", "opening"} => x.sent[d] = 0)
        /\ \A i \in DOMAIN order :
              /\ i > x.at => x.sent[order[i]] = 0
              /\ i <= x.at /\ order[i] \in x.base /\ isAlive[order[i]] => x.sent[order[i]] = 1
    BY DEF Walked
  <2>6. CASE isAlive[c] /\ loop[c] # "none"
    <3> DEFINE r == [y EXCEPT !.pc = "write", !.sent[c] = @ + 1]
    <3>1. /\ cast' = [cast EXCEPT ![b] = r]
          /\ writes' = [w EXCEPT ![c] = Append(@, b)] /\ writer' = [writer EXCEPT ![c] = TRUE]
      BY <2>1, <2>6 DEF Reach
    <3>2. /\ r \in CastType /\ r.pc = "write" /\ r.at = j /\ r.base = x.base
          /\ r.sent = [x.sent EXCEPT ![c] = @ + 1]
      <4>1. r = [y EXCEPT !.pc = "write", !.sent = [y.sent EXCEPT ![c] = @ + 1]]
        BY <2>4 DEF CastType
      <4>2. y.sent \in [Clients -> Nat] /\ [y.sent EXCEPT ![c] = @ + 1] \in [Clients -> Nat]
        BY <1>1, <2>2, <2>4
      <4> HIDE DEF r, y
      <4>3. QED
        BY <2>4, <4>1, <4>2 DEF CastType
    <3>3. r.sent[c] = 1 /\ \A d \in Clients : d # c => r.sent[d] = x.sent[d]
      BY <1>1, <2>2, <3>2
    <3> HIDE DEF r, y
    <3>4. ASSUME NEW i \in DOMAIN order
          PROVE  /\ i > j => r.sent[order[i]] = 0
                 /\ i <= j /\ order[i] \in x.base /\ isAlive[order[i]] => r.sent[order[i]] = 1
      <4>1. order[i] \in Clients /\ i \in Nat /\ (order[i] = c => i = j)
        BY <1>1, <1>2, <2>2
      <4>2. QED
        BY <1>1, <2>2, <2>3, <2>5, <3>3, <4>1
    <3>5. Walked(r)
      BY <2>2, <2>5, <3>2, <3>3, <3>4 DEF Walked
    <3>6. writes' \in WriteType /\ \A d \in Clients : client[d] # "open" => writes'[d] = w[d]
      <4>1. b \in {USER, ECHO} \cup Casts
        OBVIOUS
      <4>2. QED
        BY <2>2, <3>1, <4>1 DEF WriteType
    <3>7. writer' \in [Clients -> BOOLEAN]
      BY <1>1, <2>2, <3>1
    <3>8. QED
      BY <1>3, <3>1, <3>2, <3>5, <3>6, <3>7
  <2>7. CASE ~(isAlive[c] /\ loop[c] # "none")
    <3> DEFINE r == [y EXCEPT !.pc = "next"]
    <3>1. cast' = [cast EXCEPT ![b] = r] /\ writes' = w /\ writer' = writer
      BY <2>1, <2>7 DEF Reach
    <3>2. /\ r \in CastType /\ r.pc = "next" /\ r.at = j /\ r.base = x.base /\ r.sent = x.sent
      BY <2>4 DEF CastType
    <3> HIDE DEF r, y
    <3>3. ASSUME NEW i \in DOMAIN order
          PROVE  /\ i > j => x.sent[order[i]] = 0
                 /\ i <= j /\ order[i] \in x.base /\ isAlive[order[i]] => x.sent[order[i]] = 1
      <4>1. i \in Nat /\ (i = j => ~(order[i] \in x.base /\ isAlive[order[i]]))
        BY <1>1, <2>5, <2>7
      <4>2. QED
        BY <1>1, <2>2, <2>3, <2>5, <4>1
    <3>4. Walked(r)
      BY <2>2, <2>5, <3>2, <3>3 DEF Walked
    <3>5. QED
      BY <1>1, <1>3, <3>1, <3>2, <3>4
  <2>8. QED
    BY <2>6, <2>7
<1>6. QED
  BY <1>4, <1>5

\* The three steps in which a broadcast goes on: its types, that nobody is written
\* to who is not in the Map yet, and how far the broadcasts have got.
Unstarted ==
    /\ UNCHANGED <<client, order, isAlive, closing, clientCounter, ended>>
    /\ cast' \in [Casts -> CastType] /\ writes' \in WriteType /\ writer' \in [Clients -> BOOLEAN]
    /\ \A d \in Clients : client[d] \in {"none", "opening"} => writes'[d] = <<>>
    /\ \A d \in Casts : Walked(cast[d])'

LEMMA BroadcastWalk == ASSUME ListenerInv, NEW b \in Casts, Broadcast(b) PROVE Unstarted
<1> DEFINE x == [cast[b] EXCEPT !.base = Reachable]
<1>1. Visit(b, x, writes) /\ UNCHANGED <<client, order, isAlive, closing, loop, clientCounter, ended>>
      /\ cast[b].pc = "new"
  BY DEF Broadcast, mapVars, readVars
<1>2. cast[b] \in CastType /\ writes \in WriteType /\ Walked(cast[b])
  BY DEF ListenerInv, ListenerTypeOK, CastType, WriteType
<1>3. x \in CastType /\ x.pc = "new" /\ x.at = cast[b].at /\ x.sent = cast[b].sent /\ x.base = Reachable
  BY <1>1, <1>2 DEF CastType, Reachable
<1>4. cast[b].at = 0 /\ \A c \in Reachable : c \in Clients /\ loop[c] # "none"
  BY <1>1, <1>2 DEF Walked, Reachable
<1> HIDE DEF x
<1>5. \A i \in DOMAIN order : ~(i <= 0)
  BY DEF ListenerInv, ListenerTypeOK
<1>6. Walked(x)
  BY <1>2, <1>3, <1>4, <1>5 DEF Walked
<1>7. QED
  BY <1>1, <1>2, <1>3, <1>6, WalkGoesOn DEF Unstarted, ListenerInv, Listed

LEMMA SteppedWalk == ASSUME ListenerInv, NEW b \in Casts, CastGoesOn(b) PROVE Unstarted
<1>1. Visit(b, cast[b], writes) /\ UNCHANGED <<client, order, isAlive, closing, loop, clientCounter, ended>>
  BY DEF CastGoesOn, mapVars, readVars
<1>2. cast[b] \in CastType /\ writes \in WriteType /\ Walked(cast[b])
  BY DEF ListenerInv, ListenerTypeOK, CastType, WriteType
<1>3. QED
  BY <1>1, <1>2, WalkGoesOn DEF Unstarted, ListenerInv, Listed

LEMMA SettledWalk == ASSUME ListenerInv, NEW c \in Clients, WriteSettles(c) PROVE Unstarted
<1> DEFINE who == Head(writes[c])
           w == [writes EXCEPT ![c] = Tail(@)]
<1>1. UNCHANGED <<client, order, isAlive, closing, clientCounter, ended>> /\ writes[c] # <<>>
  BY DEF WriteSettles, mapVars
<1>2. /\ writes \in WriteType /\ cast \in [Casts -> CastType] /\ writer \in [Clients -> BOOLEAN]
      /\ \A b \in Casts : Walked(cast[b])
  BY DEF ListenerInv, ListenerTypeOK, CastType, WriteType
<1>3. w \in WriteType /\ who \in {USER, ECHO} \cup Casts
  BY <1>1, <1>2 DEF WriteType
<1>4. \A d \in Clients : client[d] \in {"none", "opening"} => d # c /\ writes[d] = <<>> /\ w[d] = <<>>
  BY <1>1, <1>2 DEF ListenerInv, Listed, WriteType
<1>5. CASE who \in Casts
  <2>1. who # ECHO
    BY <1>5, ListenerAssumption DEF ECHO, Casts
  <2>2. Visit(who, cast[who], w) /\ UNCHANGED loop
    BY <1>5, <2>1 DEF WriteSettles
  <2> HIDE DEF who, w
  <2>3. QED
    BY <1>1, <1>2, <1>3, <1>4, <1>5, <2>2, WalkGoesOn DEF Unstarted
<1>6. CASE who \notin Casts
  <2>1. writes' = w /\ UNCHANGED <<cast, writer>>
    BY <1>6 DEF WriteSettles
  <2>2. \A d \in Clients : loop[d] # "none" => loop'[d] # "none"
    <3>1. loop \in [Clients -> {"none", "reading", "echo", "over"}]
      BY DEF ListenerInv, ListenerTypeOK
    <3>2. loop' = loop \/ \E p \in {"reading", "over"} : loop' = [loop EXCEPT ![c] = p]
      BY DEF WriteSettles
    <3>3. QED
      BY <3>1, <3>2
  <2>3. \A b \in Casts : Walked(cast[b])'
    <3>1. order \in Seq(Clients)
      BY DEF ListenerInv, ListenerTypeOK
    <3>2. \A i \in DOMAIN order' : ~(i > Len(order))
      BY <1>1, <3>1
    <3>3. Len(order) <= Len(order')
      BY <1>1, <3>1
    <3>4. QED
      BY <1>1, <2>1, <2>2, <3>1, <3>2, <3>3, WalksKept
  <2>4. QED
    BY <1>1, <1>2, <1>3, <1>4, <2>1, <2>3 DEF Unstarted
<1>7. QED
  BY <1>5, <1>6

LEMMA ServingStep == ASSUME ListenerInv, ListenerStep PROVE Serving'
<1> USE ListenerAssumption DEF ListenerInv, ListenerTypeOK, Serving,
        serverVars, mapVars, readVars, writeVars, Clients
<1>1. CASE StartServer
  BY <1>1, SMTT(30) DEF StartServer
<1>2. CASE Opened
  BY <1>2, SMTT(30) DEF Opened
<1>3. CASE AcceptEnds
  BY <1>3, SMTT(30) DEF AcceptEnds
<1>4. CASE Accept
  BY <1>4, SMTT(30) DEF Accept
<1>5. CASE Simulate
  BY <1>5, SMTT(30) DEF Simulate
<1>6. ASSUME NEW c \in Clients, ClientOpened(c) PROVE Serving'
  BY <1>6, SMTT(30) DEF ClientOpened, Writes
<1>7. ASSUME NEW c \in Clients, ClientFails(c) PROVE Serving'
  BY <1>7, SMTT(30) DEF ClientFails
<1>8. ASSUME NEW c \in Clients, Echo(c) PROVE Serving'
  BY <1>8, SMTT(30) DEF Echo, Writes
<1>9. ASSUME NEW c \in Clients, SendTo(c) PROVE Serving'
  BY <1>9, SMTT(30) DEF SendTo, Writes
<1>10. ASSUME NEW c \in Clients, Disconnect(c) PROVE Serving'
  BY <1>10, SMTT(30) DEF Disconnect, Disconnects
<1>11. ASSUME NEW c \in Clients, LoopEnds(c) PROVE Serving'
  BY <1>11, SMTT(30) DEF LoopEnds, ReadOver, Disconnects
<1>12. ASSUME NEW c \in Clients, Closes(c) PROVE Serving'
  BY <1>12, SMTT(30) DEF Closes
<1>13. ASSUME NEW c \in Clients, PeerEnds(c) PROVE Serving'
  BY <1>13, SMTT(30) DEF PeerEnds
<1>14. ASSUME NEW c \in Clients, WriteSettles(c) PROVE Serving'
  BY <1>14, SMTT(30) DEF WriteSettles
<1>15. ASSUME NEW b \in Casts, Broadcast(b) PROVE Serving'
  BY <1>15, SMTT(30) DEF Broadcast
<1>16. ASSUME NEW b \in Casts, CastGoesOn(b) PROVE Serving'
  BY <1>16, SMTT(30) DEF CastGoesOn
<1>17. QED
  BY <1>1, <1>2, <1>3, <1>4, <1>5, <1>6, <1>7, <1>8, <1>9, <1>10,
     <1>11, <1>12, <1>13, <1>14, <1>15, <1>16 DEF ListenerStep

\* Most steps leave the Map as it is, disconnect, or end the client's time in it.
KeepsMap ==
    /\ UNCHANGED <<order, clientCounter>>
    /\ \A d \in Clients :
           /\ client'[d] = client[d] \/ (client[d] \in {"opening", "open"} /\ client'[d] = "gone")
           /\ client[d] \in {"none", "opening"} =>
                  loop'[d] = "none" /\ ~isAlive'[d] /\ closing'[d] = "none" /\ writes'[d] = <<>>
           /\ isAlive'[d] =>
                  isAlive[d] /\ client'[d] = client[d] /\ closing'[d] = closing[d]

LEMMA MapKept == ASSUME ListenerInv, KeepsMap PROVE Listed'
<1>1. Listed
  BY DEF ListenerInv
<1>2. QED
  BY <1>1 DEF Listed, KeepsMap

\* What the steps need of the state.
Ready ==
    /\ client \in [Clients -> {"none", "opening", "open", "gone"}]
    /\ isAlive \in [Clients -> BOOLEAN] /\ loop \in [Clients -> {"none", "reading", "echo", "over"}]
    /\ closing \in [Clients -> {"none", "reader", "writer", "socket"}]
    /\ writes \in [Clients -> Seq({USER, ECHO} \cup Casts)]
    /\ \A d \in Clients :
           /\ client[d] \in {"none", "opening"} =>
                  loop[d] = "none" /\ ~isAlive[d] /\ closing[d] = "none" /\ writes[d] = <<>>
           /\ isAlive[d] => client[d] = "open" /\ closing[d] = "none"

LEMMA IsReady == ASSUME ListenerInv PROVE Ready
  BY DEF ListenerInv, ListenerTypeOK, Listed, Ready

LEMMA OpenedIsListed == ASSUME ListenerInv, NEW c \in Clients, ClientOpened(c) PROVE Listed'
<1>1. /\ client' = [client EXCEPT ![c] = "open"] /\ order' = Append(order, c)
      /\ isAlive' = [isAlive EXCEPT ![c] = TRUE] /\ loop' = [loop EXCEPT ![c] = "reading"]
      /\ writes' = [writes EXCEPT ![c] = Append(@, USER)] \/ writes' = writes
      /\ client[c] = "opening" /\ clientCounter' = clientCounter /\ closing' = closing
  BY DEF ClientOpened, Writes
<1>2. Ready /\ Listed /\ order \in Seq(Clients)
  BY IsReady DEF ListenerInv, ListenerTypeOK
<1>3. /\ DOMAIN order = 1..Len(order) /\ DOMAIN order' = 1..Len(order) + 1 /\ Len(order) \in Nat
      /\ order'[Len(order) + 1] = c /\ \A i \in 1..Len(order) : order'[i] = order[i]
  BY <1>1, <1>2
<1>4. /\ \A i \in DOMAIN order' : i \in DOMAIN order \/ i = Len(order) + 1
      /\ \A i \in DOMAIN order : i \in DOMAIN order' /\ order'[i] = order[i]
      /\ Len(order) + 1 \in DOMAIN order'
  BY <1>3
<1>5. /\ \A i \in DOMAIN order : order[i] # c
      /\ \A i, j \in DOMAIN order : order[i] = order[j] => i = j
      /\ c <= clientCounter \/ ~(c > clientCounter)
  BY <1>1, <1>2 DEF Listed
<1>6. ASSUME NEW d \in Clients, d # c
      PROVE  /\ client'[d] = client[d] /\ isAlive'[d] = isAlive[d] /\ loop'[d] = loop[d]
             /\ writes'[d] = writes[d] /\ closing'[d] = closing[d]
             /\ (\E i \in DOMAIN order' : order'[i] = d) <=> \E i \in DOMAIN order : order[i] = d
  <2>1. /\ client'[d] = client[d] /\ isAlive'[d] = isAlive[d] /\ loop'[d] = loop[d]
        /\ writes'[d] = writes[d] /\ closing'[d] = closing[d]
    BY <1>1, <1>2, <1>6 DEF Ready
  <2>2. (\E i \in DOMAIN order' : order'[i] = d) <=> \E i \in DOMAIN order : order[i] = d
    BY <1>3, <1>4, <1>6
  <2>3. QED
    BY <2>1, <2>2
<1>7. client'[c] = "open" /\ closing'[c] = "none"
  BY <1>1, <1>2 DEF Ready
<1>8. ASSUME NEW d \in Clients
      PROVE  /\ client'[d] = "none" <=> d > clientCounter
             /\ client'[d] \in {"none", "opening"} =>
                   /\ loop'[d] = "none" /\ ~isAlive'[d] /\ closing'[d] = "none" /\ writes'[d] = <<>>
                   /\ \A i \in DOMAIN order' : order'[i] # d
             /\ client'[d] = "open" => \E i \in DOMAIN order' : order'[i] = d
             /\ isAlive'[d] => client'[d] = "open" /\ closing'[d] = "none"
  <2>1. CASE d = c
    <3>1. ~(c > clientCounter)
      BY <1>1, <1>2 DEF Listed
    <3>2. QED
      BY <1>3, <1>4, <1>7, <2>1, <3>1
  <2>2. CASE d # c
    <3>1. /\ client[d] = "none" <=> d > clientCounter
          /\ client[d] \in {"none", "opening"} =>
                /\ loop[d] = "none" /\ ~isAlive[d] /\ closing[d] = "none" /\ writes[d] = <<>>
                /\ \A i \in DOMAIN order : order[i] # d
          /\ client[d] = "open" => \E i \in DOMAIN order : order[i] = d
          /\ isAlive[d] => client[d] = "open" /\ closing[d] = "none"
      BY <1>2 DEF Listed
    <3>2. QED
      BY <1>6, <2>2, <3>1
  <2>3. QED
    BY <2>1, <2>2
<1>9. \A i, j \in DOMAIN order' : order'[i] = order'[j] => i = j
  BY <1>3, <1>4, <1>5
<1>10. QED
  BY <1>1, <1>8, <1>9 DEF Listed

LEMMA SimulatedIsListed == ASSUME ListenerInv, Simulate PROVE Listed'
<1>1. /\ client' = [client EXCEPT ![1] = "open"] /\ order' = <<1>>
      /\ isAlive' = [isAlive EXCEPT ![1] = TRUE] /\ UNCHANGED <<loop, closing, writes>>
      /\ clientCounter = 0 /\ clientCounter' = 1 /\ MaxClients > 0
  BY DEF Simulate, writeVars
<1>2. Ready /\ Listed
  BY IsReady DEF ListenerInv
<1>3. 1 \in Clients /\ \A d \in Clients : d \in Nat /\ d >= 1 /\ (d # 1 => d > 1)
  BY <1>1, ListenerAssumption DEF Clients
<1>4. \A d \in Clients : client[d] = "none"
  BY <1>1, <1>2, <1>3 DEF Listed
<1>5. \A d \in Clients : loop[d] = "none" /\ ~isAlive[d] /\ closing[d] = "none" /\ writes[d] = <<>>
  BY <1>2, <1>4 DEF Ready
<1>6. /\ DOMAIN order' = {1} /\ order'[1] = 1
      /\ client'[1] = "open" /\ \A d \in Clients : d # 1 => client'[d] = "none" /\ ~isAlive'[d]
  BY <1>1, <1>2, <1>3, <1>4, <1>5 DEF Ready
<1>7. QED
  BY <1>1, <1>3, <1>5, <1>6 DEF Listed

\* A step of client c, who is in the Map or on the way into it.
Others(c) ==
    \A d \in Clients \ {c} : client'[d] = client[d] /\ isAlive'[d] = isAlive[d]
                          /\ loop'[d] = loop[d] /\ closing'[d] = closing[d]
                          /\ writes'[d] = writes[d]

LEMMA StepOfOne ==
    ASSUME ListenerInv, NEW c \in Clients, Others(c), UNCHANGED <<order, clientCounter>>,
           client'[c] = client[c] \/ (client[c] \in {"opening", "open"} /\ client'[c] = "gone"),
           client[c] \in {"none", "opening"} => UNCHANGED <<loop, isAlive, closing, writes>>,
           isAlive'[c] => isAlive[c] /\ client'[c] = client[c] /\ closing'[c] = closing[c]
    PROVE  Listed'
<1>1. Ready
  BY IsReady
<1>2. KeepsMap
  <2>1. SUFFICES ASSUME NEW d \in Clients
        PROVE  /\ client'[d] = client[d] \/ (client[d] \in {"opening", "open"} /\ client'[d] = "gone")
               /\ client[d] \in {"none", "opening"} =>
                      loop'[d] = "none" /\ ~isAlive'[d] /\ closing'[d] = "none" /\ writes'[d] = <<>>
               /\ isAlive'[d] => isAlive[d] /\ client'[d] = client[d] /\ closing'[d] = closing[d]
    BY DEF KeepsMap
  <2>2. CASE d = c
    BY <1>1, <2>2 DEF Ready
  <2>3. CASE d # c
    BY <1>1, <2>3 DEF Ready, Others
  <2>4. QED
    BY <2>2, <2>3
<1>3. QED
  BY <1>2, MapKept

LEMMA ListedStep == ASSUME ListenerInv, ListenerStep PROVE Listed'
<1> USE DEF Others, Ready, serverVars, mapVars, readVars, writeVars
<1>0. Ready
  BY IsReady
<1>1. CASE UNCHANGED <<mapVars, readVars, writeVars>>
  <2>1. Listed
    BY DEF ListenerInv
  <2>2. QED
    BY <1>1, <2>1 DEF Listed
<1>2. CASE Accept
  <2>1. /\ clientCounter \in Nat /\ clientCounter' = clientCounter + 1
        /\ clientCounter + 1 \in Clients /\ UNCHANGED <<order, loop, isAlive, closing, writes>>
        /\ client' = [client EXCEPT ![clientCounter + 1] = "opening"]
    BY <1>2, ListenerAssumption DEF Accept, Clients, ListenerInv, ListenerTypeOK
  <2>2. \A d \in Clients : d # clientCounter + 1 => client'[d] = client[d]
    BY <1>0, <2>1
  <2>3. client[clientCounter + 1] = "none" /\ client'[clientCounter + 1] = "opening"
    BY <1>0, <2>1 DEF ListenerInv, Listed
  <2>4. \A d \in Clients : d \in Nat /\ (d > clientCounter + 1 <=> d > clientCounter /\ d # clientCounter + 1)
    BY <2>1, ListenerAssumption DEF Clients
  <2>5. Listed
    BY DEF ListenerInv
  <2>6. QED
    BY <2>1, <2>2, <2>3, <2>4, <2>5 DEF Listed
<1>3. CASE Simulate
  BY <1>3, SimulatedIsListed
<1>4. ASSUME NEW c \in Clients, ClientOpened(c) PROVE Listed'
  BY <1>4, OpenedIsListed
<1>5. ASSUME NEW c \in Clients, ClientFails(c) PROVE Listed'
  <2>1. /\ client' = [client EXCEPT ![c] = "gone"] /\ client[c] = "opening"
        /\ UNCHANGED <<order, clientCounter, loop, isAlive, closing, writes>>
    BY <1>5 DEF ClientFails
  <2>2. Others(c) /\ client'[c] = "gone" /\ ~isAlive'[c]
    BY <1>0, <2>1
  <2>3. QED
    BY <2>1, <2>2, StepOfOne
<1>6. ASSUME NEW c \in Clients, PeerEnds(c) PROVE Listed'
  <2>1. UNCHANGED <<client, order, clientCounter, loop, isAlive, closing, writes>>
    BY <1>6 DEF PeerEnds
  <2>2. QED
    BY <2>1, StepOfOne
<1>7. ASSUME NEW c \in Clients, Echo(c) PROVE Listed'
  <2>1. /\ loop' = [loop EXCEPT ![c] = "echo"] /\ writes' = [writes EXCEPT ![c] = Append(@, ECHO)]
        /\ UNCHANGED <<client, order, clientCounter, isAlive, closing>>
        /\ isAlive[c]
    BY <1>7 DEF Echo, Writes
  <2>2. Others(c)
    BY <1>0, <2>1
  <2>3. client[c] = "open"
    BY <1>0, <2>1
  <2>4. QED
    BY <2>1, <2>2, <2>3, StepOfOne
<1>8. ASSUME NEW c \in Clients, SendTo(c) PROVE Listed'
  <2>1. /\ writes' = [writes EXCEPT ![c] = Append(@, USER)]
        /\ UNCHANGED <<client, order, clientCounter, isAlive, closing, loop>>
        /\ isAlive[c]
    BY <1>8 DEF SendTo, Writes
  <2>2. Others(c)
    BY <1>0, <2>1
  <2>3. client[c] = "open"
    BY <1>0, <2>1
  <2>4. QED
    BY <2>1, <2>2, <2>3, StepOfOne
<1>9. ASSUME NEW c \in Clients, isAlive[c], Disconnects(c), UNCHANGED <<order, clientCounter, writes>>,
             loop' = loop \/ loop' = [loop EXCEPT ![c] = "over"]
      PROVE  Listed'
  <2>1. /\ isAlive' = [isAlive EXCEPT ![c] = FALSE]
        /\ client' = client \/ client' = [client EXCEPT ![c] = "gone"]
        /\ closing' = closing \/ closing' = [closing EXCEPT ![c] = "reader"]
    BY <1>9 DEF Disconnects
  <2>2. Others(c)
    BY <1>0, <1>9, <2>1
  <2>3. client[c] = "open" /\ ~isAlive'[c] /\ client'[c] \in {"open", "gone"}
    BY <1>0, <1>9, <2>1
  <2>4. QED
    BY <1>9, <2>2, <2>3, StepOfOne
<1>10. ASSUME NEW c \in Clients, Disconnect(c) PROVE Listed'
  BY <1>9, <1>10 DEF Disconnect
<1>11. ASSUME NEW c \in Clients, LoopEnds(c) PROVE Listed'
  <2>1. CASE isAlive[c]
    BY <1>9, <1>11, <2>1 DEF LoopEnds
  <2>2. CASE ~isAlive[c]
    <3>1. /\ UNCHANGED <<client, order, clientCounter, isAlive, closing, writes>>
          /\ loop' = [loop EXCEPT ![c] = "over"] /\ loop[c] = "reading"
      BY <1>11, <2>2 DEF LoopEnds, ReadOver
    <3>2. Others(c) /\ client[c] \notin {"none", "opening"}
      BY <1>0, <3>1
    <3>3. QED
      BY <3>1, <3>2, StepOfOne
  <2>3. QED
    BY <2>1, <2>2
<1>12. ASSUME NEW c \in Clients, Closes(c) PROVE Listed'
  <2>1. /\ client' = client \/ client' = [client EXCEPT ![c] = "gone"]
        /\ \E p \in {"writer", "socket", "none"} : closing' = [closing EXCEPT ![c] = p]
        /\ closing[c] # "none" /\ UNCHANGED <<order, clientCounter, isAlive, loop, writes>>
    BY <1>12 DEF Closes
  <2>2. Others(c)
    BY <1>0, <2>1
  <2>3. ~isAlive[c] /\ client[c] \notin {"none", "opening"} /\ ~isAlive'[c]
    BY <1>0, <2>1
  <2>4. client'[c] = client[c] \/ (client[c] = "open" /\ client'[c] = "gone")
    BY <1>0, <2>1, <2>3
  <2>5. QED
    BY <2>1, <2>2, <2>3, <2>4, StepOfOne
<1>13. ASSUME NEW c \in Clients, WriteSettles(c) PROVE Listed'
  <2>1. client[c] \notin {"none", "opening"}
    BY <1>0, <1>13 DEF WriteSettles
  <2>2. loop' = loop \/ \E p \in {"reading", "over"} : loop' = [loop EXCEPT ![c] = p]
    BY <1>13 DEF WriteSettles
  <2>3. \A d \in Clients : d # c => loop'[d] = loop[d]
    BY <1>0, <2>2
  <2>4. Unstarted
    BY <1>13, SettledWalk
  <2>5. KeepsMap
    BY <1>0, <2>1, <2>3, <2>4 DEF Unstarted, KeepsMap
  <2>6. QED
    BY <2>5, MapKept
<1>14. ASSUME NEW b \in Casts, Broadcast(b) \/ CastGoesOn(b) PROVE Listed'
  <2>1. UNCHANGED loop
    BY <1>14 DEF Broadcast, CastGoesOn
  <2>2. Unstarted
    BY <1>14, BroadcastWalk, SteppedWalk
  <2>3. KeepsMap
    BY <1>0, <2>1, <2>2 DEF Unstarted, KeepsMap
  <2>4. QED
    BY <2>3, MapKept
<1>15. CASE StartServer \/ Opened \/ AcceptEnds
  BY <1>1, <1>15 DEF StartServer, Opened, AcceptEnds
<1>16. QED
  BY <1>2, <1>3, <1>4, <1>5, <1>6, <1>7, <1>8, <1>10, <1>11, <1>12, <1>13, <1>14, <1>15
  DEF ListenerStep

\* A step that neither lets anybody in nor moves a broadcast.
LEMMA WalksStay ==
    ASSUME ListenerInv, UNCHANGED <<cast, order>>,
           \A c \in Clients :
               /\ loop[c] # "none" => loop'[c] # "none"
               /\ isAlive'[c] => isAlive[c]
               /\ client'[c] \in {"none", "opening"} => client[c] \in {"none", "opening"}
    PROVE  \A b \in Casts : Walked(cast[b])'
<1>1. order \in Seq(Clients)
  BY DEF ListenerInv, ListenerTypeOK
<1>2. Len(order) <= Len(order') /\ \A i \in DOMAIN order' : ~(i > Len(order))
  BY <1>1
<1>3. QED
  BY <1>1, <1>2, WalksKept

LEMMA WalkedStep == ASSUME ListenerInv, ListenerStep PROVE \A b \in Casts : Walked(cast[b])'
<1> USE DEF Ready, serverVars, mapVars, readVars, writeVars
<1>0. Ready /\ Listed /\ order \in Seq(Clients)
  BY IsReady DEF ListenerInv, ListenerTypeOK
<1>1. CASE UNCHANGED <<mapVars, readVars, writeVars>>
  BY <1>1, WalksStay
<1>2. CASE Accept
  <2>1. /\ client' = [client EXCEPT ![clientCounter + 1] = "opening"]
        /\ UNCHANGED <<order, loop, isAlive, cast>> /\ clientCounter \in Nat
    BY <1>2 DEF Accept, ListenerInv, ListenerTypeOK
  <2>2. \A d \in Clients : client'[d] \in {"none", "opening"} => client[d] \in {"none", "opening"}
    <3>1. clientCounter + 1 \in Clients => client[clientCounter + 1] = "none"
      BY <1>0, <2>1 DEF Listed
    <3>2. QED
      BY <1>0, <2>1, <3>1
  <2>3. QED
    BY <2>1, <2>2, WalksStay
<1>3. CASE Simulate
  <2>1. /\ client' = [client EXCEPT ![1] = "open"] /\ order' = <<1>>
        /\ isAlive' = [isAlive EXCEPT ![1] = TRUE] /\ UNCHANGED <<loop, cast>>
        /\ clientCounter = 0 /\ MaxClients > 0
    BY <1>3 DEF Simulate
  <2>2. 1 \in Clients /\ \A d \in Clients : d > clientCounter
    BY <2>1, ListenerAssumption DEF Clients
  <2>3. \A d \in Clients : client[d] = "none"
    BY <1>0, <2>2 DEF Listed
  <2>4. \A i \in DOMAIN order : FALSE
    <3>1. \A i \in DOMAIN order : order[i] \in Clients
      BY <1>0
    <3>2. QED
      BY <1>0, <2>3, <3>1 DEF Listed
  <2>5. Len(order) <= Len(order') /\ order' \in Seq(Clients)
    <3>1. Len(order) = 0
      <4>1. Len(order) \in Nat /\ DOMAIN order = 1..Len(order)
        BY <1>0
      <4>2. QED
        BY <2>4, <4>1
    <3>2. QED
      BY <2>1, <2>2, <3>1
  <2>6. \A i \in DOMAIN order' : client[order'[i]] \in {"none", "opening"}
    BY <2>1, <2>2, <2>3
  <2>7. \A d \in Clients : loop[d] = "none" /\ client[d] \in {"none", "opening"}
    BY <1>0, <2>3
  <2>8. QED
    BY <2>1, <2>4, <2>5, <2>6, <2>7, WalksKept
<1>4. ASSUME NEW c \in Clients, ClientOpened(c) PROVE \A b \in Casts : Walked(cast[b])'
  <2>1. /\ client' = [client EXCEPT ![c] = "open"] /\ order' = Append(order, c)
        /\ isAlive' = [isAlive EXCEPT ![c] = TRUE] /\ loop' = [loop EXCEPT ![c] = "reading"]
        /\ client[c] = "opening" /\ cast' = cast
    BY <1>4 DEF ClientOpened
  <2>2. /\ Len(order) <= Len(order') /\ order' \in Seq(Clients)
        /\ \A i \in DOMAIN order : order'[i] = order[i]
        /\ \A i \in DOMAIN order' : i > Len(order) => order'[i] = c
    BY <1>0, <2>1
  <2>3. \A d \in Clients : /\ loop[d] # "none" => loop'[d] # "none"
                           /\ isAlive'[d] => isAlive[d] \/ loop[d] = "none"
                           /\ client'[d] \in {"none", "opening"} => client[d] \in {"none", "opening"}
    BY <1>0, <2>1
  <2>4. QED
    BY <2>1, <2>2, <2>3, WalksKept
<1>5. ASSUME NEW c \in Clients, ClientFails(c) PROVE \A b \in Casts : Walked(cast[b])'
  <2>1. client' = [client EXCEPT ![c] = "gone"] /\ UNCHANGED <<order, loop, isAlive, cast>>
    BY <1>5 DEF ClientFails
  <2>2. \A d \in Clients : client'[d] \in {"none", "opening"} => client[d] \in {"none", "opening"}
    BY <1>0, <2>1
  <2>3. QED
    BY <2>1, <2>2, WalksStay
<1>6. ASSUME NEW c \in Clients, PeerEnds(c) \/ SendTo(c) PROVE \A b \in Casts : Walked(cast[b])'
  <2>1. UNCHANGED <<client, order, loop, isAlive, cast>>
    BY <1>6 DEF PeerEnds, SendTo
  <2>2. QED
    BY <2>1, WalksStay
<1>7. ASSUME NEW c \in Clients, Echo(c) PROVE \A b \in Casts : Walked(cast[b])'
  <2>1. loop' = [loop EXCEPT ![c] = "echo"] /\ UNCHANGED <<client, order, isAlive, cast>>
    BY <1>7 DEF Echo
  <2>2. \A d \in Clients : loop[d] # "none" => loop'[d] # "none"
    BY <1>0, <2>1
  <2>3. QED
    BY <2>1, <2>2, WalksStay
<1>8. ASSUME NEW c \in Clients, isAlive[c], Disconnects(c), UNCHANGED <<order, cast>>,
             loop' = loop \/ loop' = [loop EXCEPT ![c] = "over"]
      PROVE  \A b \in Casts : Walked(cast[b])'
  <2>1. /\ isAlive' = [isAlive EXCEPT ![c] = FALSE]
        /\ client' = client \/ client' = [client EXCEPT ![c] = "gone"]
    BY <1>8 DEF Disconnects
  <2>2. \A d \in Clients : /\ loop[d] # "none" => loop'[d] # "none"
                           /\ isAlive'[d] => isAlive[d]
                           /\ client'[d] \in {"none", "opening"} => client[d] \in {"none", "opening"}
    BY <1>0, <1>8, <2>1
  <2>3. QED
    BY <1>8, <2>2, WalksStay
<1>9. ASSUME NEW c \in Clients, Disconnect(c) PROVE \A b \in Casts : Walked(cast[b])'
  BY <1>8, <1>9 DEF Disconnect
<1>10. ASSUME NEW c \in Clients, LoopEnds(c) PROVE \A b \in Casts : Walked(cast[b])'
  <2>1. CASE isAlive[c]
    BY <1>8, <1>10, <2>1 DEF LoopEnds
  <2>2. CASE ~isAlive[c]
    <3>1. loop' = [loop EXCEPT ![c] = "over"] /\ UNCHANGED <<client, order, isAlive, cast>>
      BY <1>10, <2>2 DEF LoopEnds
    <3>2. \A d \in Clients : loop[d] # "none" => loop'[d] # "none"
      BY <1>0, <3>1
    <3>3. QED
      BY <3>1, <3>2, WalksStay
  <2>3. QED
    BY <2>1, <2>2
<1>11. ASSUME NEW c \in Clients, Closes(c) PROVE \A b \in Casts : Walked(cast[b])'
  <2>1. /\ client' = client \/ client' = [client EXCEPT ![c] = "gone"]
        /\ UNCHANGED <<order, isAlive, loop, cast>>
    BY <1>11 DEF Closes
  <2>2. \A d \in Clients : client'[d] \in {"none", "opening"} => client[d] \in {"none", "opening"}
    BY <1>0, <2>1
  <2>3. QED
    BY <2>1, <2>2, WalksStay
<1>12. ASSUME NEW c \in Clients, WriteSettles(c) PROVE \A b \in Casts : Walked(cast[b])'
  BY <1>12, SettledWalk DEF Unstarted
<1>13. ASSUME NEW b \in Casts, Broadcast(b) \/ CastGoesOn(b) PROVE \A d \in Casts : Walked(cast[d])'
  BY <1>13, BroadcastWalk, SteppedWalk DEF Unstarted
<1>14. CASE StartServer \/ Opened \/ AcceptEnds
  BY <1>1, <1>14 DEF StartServer, Opened, AcceptEnds
<1>15. QED
  BY <1>2, <1>3, <1>4, <1>5, <1>6, <1>7, <1>9, <1>10, <1>11, <1>12, <1>13, <1>14 DEF ListenerStep

LEMMA ListenerTypeStep == ASSUME ListenerInv, ListenerStep PROVE ListenerTypeOK'
<1> USE DEF ListenerTypeOK, serverVars, mapVars, readVars, writeVars
<1>0. ListenerTypeOK
  BY DEF ListenerInv
<1>1. CASE StartServer \/ Opened \/ AcceptEnds
  BY <1>0, <1>1 DEF StartServer, Opened, AcceptEnds
<1>2. CASE Accept
  <2>1. clientCounter' \in 0..MaxClients
    BY <1>0, <1>2, ListenerAssumption DEF Accept
  <2>2. client' = [client EXCEPT ![clientCounter + 1] = "opening"]
    BY <1>2 DEF Accept
  <2>3. client' \in [Clients -> {"none", "opening", "open", "gone"}]
    BY <1>0, <2>2
  <2>4. UNCHANGED <<serverVars, order, readVars, writeVars>>
    BY <1>2 DEF Accept
  <2>5. QED
    BY <1>0, <2>1, <2>3, <2>4
<1>3. CASE Simulate
  <2>1. 1 \in Clients /\ 1 \in 0..MaxClients
    BY <1>3, ListenerAssumption DEF Simulate, Clients
  <2>2. QED
    BY <1>0, <1>3, <2>1 DEF Simulate
<1>4. ASSUME NEW c \in Clients, NEW who \in {USER, ECHO}, Writes(c, who)
      PROVE  writes' \in [Clients -> Seq({USER, ECHO} \cup Casts)] /\ writer' \in [Clients -> BOOLEAN]
  <2>1. writes' = [writes EXCEPT ![c] = Append(@, who)] /\ writer' = [writer EXCEPT ![c] = TRUE]
    BY <1>4 DEF Writes
  <2>2. Append(writes[c], who) \in Seq({USER, ECHO} \cup Casts)
    BY <1>0
  <2>3. QED
    BY <1>0, <2>1, <2>2
<1>5. ASSUME NEW c \in Clients, ClientOpened(c) PROVE ListenerTypeOK'
  <2>1. writes' \in [Clients -> Seq({USER, ECHO} \cup Casts)] /\ writer' \in [Clients -> BOOLEAN]
    <3>1. USER \in {USER, ECHO}
      OBVIOUS
    <3>2. QED
      BY <1>0, <1>4, <1>5, <3>1 DEF ClientOpened
  <2>2. /\ client' = [client EXCEPT ![c] = "open"] /\ order' = Append(order, c)
        /\ isAlive' = [isAlive EXCEPT ![c] = TRUE] /\ loop' = [loop EXCEPT ![c] = "reading"]
        /\ UNCHANGED <<serverVars, clientCounter, ended, closing, cast>>
    BY <1>5 DEF ClientOpened
  <2>3. order' \in Seq(Clients)
    BY <1>0, <2>2
  <2>4. /\ client' \in [Clients -> {"none", "opening", "open", "gone"}]
        /\ isAlive' \in [Clients -> BOOLEAN]
        /\ loop' \in [Clients -> {"none", "reading", "echo", "over"}]
    BY <1>0, <2>2
  <2>5. QED
    BY <1>0, <2>1, <2>2, <2>3, <2>4
<1>6. ASSUME NEW c \in Clients, ClientFails(c) PROVE ListenerTypeOK'
  BY <1>0, <1>6 DEF ClientFails
<1>7. ASSUME NEW c \in Clients, Echo(c) \/ SendTo(c) PROVE ListenerTypeOK'
  <2>1. writes' \in [Clients -> Seq({USER, ECHO} \cup Casts)] /\ writer' \in [Clients -> BOOLEAN]
    <3>1. {USER, ECHO} \subseteq {USER, ECHO}
      OBVIOUS
    <3>2. QED
      BY <1>4, <1>7, <3>1 DEF Echo, SendTo
  <2>2. loop' = loop \/ loop' = [loop EXCEPT ![c] = "echo"]
    BY <1>7 DEF Echo, SendTo
  <2>3. UNCHANGED <<serverVars, mapVars, isAlive, ended, closing, cast>>
    BY <1>7 DEF Echo, SendTo
  <2>4. QED
    BY <1>0, <2>1, <2>2, <2>3
<1>8. ASSUME NEW c \in Clients, Disconnects(c)
      PROVE  /\ client' \in [Clients -> {"none", "opening", "open", "gone"}]
             /\ isAlive' \in [Clients -> BOOLEAN]
             /\ closing' \in [Clients -> {"none", "reader", "writer", "socket"}]
  BY <1>0, <1>8 DEF Disconnects
<1>9. ASSUME NEW c \in Clients, Disconnect(c) PROVE ListenerTypeOK'
  BY <1>0, <1>8, <1>9 DEF Disconnect
<1>10. ASSUME NEW c \in Clients, LoopEnds(c) PROVE ListenerTypeOK'
  BY <1>0, <1>8, <1>10 DEF LoopEnds
<1>11. ASSUME NEW c \in Clients, Closes(c) PROVE ListenerTypeOK'
  <2>1. \E p \in {"writer", "socket", "none"} : closing' = [closing EXCEPT ![c] = p]
    BY <1>11 DEF Closes
  <2>2. client' = client \/ client' = [client EXCEPT ![c] = "gone"]
    BY <1>11 DEF Closes
  <2>3. writer' = writer \/ writer' = [writer EXCEPT ![c] = FALSE]
    BY <1>11 DEF Closes
  <2>4. ended' = ended \/ ended' = [ended EXCEPT ![c] = FALSE]
    BY <1>11 DEF Closes
  <2>5. QED
    BY <1>0, <1>11, <2>1, <2>2, <2>3, <2>4 DEF Closes
<1>12. ASSUME NEW c \in Clients, PeerEnds(c) PROVE ListenerTypeOK'
  BY <1>0, <1>12 DEF PeerEnds
<1>13. ASSUME NEW c \in Clients, WriteSettles(c) PROVE ListenerTypeOK'
  <2>1. Unstarted
    BY <1>13, SettledWalk
  <2>2. loop' = loop \/ \E p \in {"reading", "over"} : loop' = [loop EXCEPT ![c] = p]
    BY <1>13 DEF WriteSettles
  <2>3. UNCHANGED <<serverVars, mapVars, isAlive, ended, closing>>
    BY <1>13 DEF WriteSettles
  <2>4. /\ cast' \in [Casts -> CastType] /\ writes' \in WriteType
        /\ writer' \in [Clients -> BOOLEAN]
    BY <2>1 DEF Unstarted
  <2>5. loop' \in [Clients -> {"none", "reading", "echo", "over"}]
    BY <1>0, <2>2
  <2>6. QED
    BY <1>0, <2>3, <2>4, <2>5 DEF CastType, WriteType
<1>14. ASSUME NEW b \in Casts, Broadcast(b) \/ CastGoesOn(b) PROVE ListenerTypeOK'
  <2>1. Unstarted
    BY <1>14, BroadcastWalk, SteppedWalk
  <2>2. UNCHANGED <<serverVars, mapVars, readVars>>
    BY <1>14 DEF Broadcast, CastGoesOn
  <2>3. /\ cast' \in [Casts -> CastType] /\ writes' \in WriteType
        /\ writer' \in [Clients -> BOOLEAN]
    BY <2>1 DEF Unstarted
  <2>4. QED
    BY <1>0, <2>2, <2>3 DEF CastType, WriteType
<1>15. QED
  BY <1>1, <1>2, <1>3, <1>5, <1>6, <1>7, <1>9, <1>10, <1>11, <1>12, <1>13, <1>14 DEF ListenerStep

LEMMA ListenerInitInv == ASSUME ListenerInit PROVE ListenerInv
<1> USE DEF ListenerInit
<1>1. ListenerTypeOK
  <2>1. cast \in [Casts -> CastType]
    BY DEF CastType
  <2>2. /\ writes \in [Clients -> Seq({USER, ECHO} \cup Casts)] /\ order \in Seq(Clients)
        /\ clientCounter \in 0..MaxClients
    BY ListenerAssumption
  <2>3. QED
    BY <2>1, <2>2 DEF ListenerTypeOK, CastType
<1>2. Serving
  BY DEF Serving
<1>3. Listed
  BY ListenerAssumption DEF Listed, Clients
<1>4. \A b \in Casts : Walked(cast[b])
  BY DEF Walked
<1>5. QED
  BY <1>1, <1>2, <1>3, <1>4 DEF ListenerInv

LEMMA ListenerStepInv ==
    ASSUME ListenerInv, ListenerStep \/ UNCHANGED listenerVars PROVE ListenerInv'
<1>1. CASE ListenerStep
  BY <1>1, ListenerTypeStep, ServingStep, ListedStep, WalkedStep DEF ListenerInv
<1>2. CASE UNCHANGED listenerVars
  <2>1. UNCHANGED <<mapVars, readVars, writeVars, serverVars>>
    BY <1>2 DEF listenerVars
  <2>2. \A b \in Casts : Walked(cast[b])'
    BY <2>1, WalksStay DEF mapVars, readVars, writeVars
  <2>3. QED
    BY <2>1, <2>2 DEF ListenerInv, ListenerTypeOK, Serving, Listed, mapVars, readVars, writeVars, serverVars
<1>3. QED
  BY <1>1, <1>2

-----------------------------------------------------------------------------
(* The pages of the hub *)

PagesInv == ListenerInv /\ ClientInv /\ ShownAgrees

LEMMA PagesInit == ASSUME HubInit PROVE PagesInv
<1>1. ListenerInv /\ ClientInv
  BY ListenerInitInv, ClientInitInv DEF HubInit
<1>2. view = [logs |-> <<>>, shown |-> <<>>] /\ filterMode = "all"
  BY DEF HubInit, LogInit
<1>3. ShownAgrees
  <2>1. LogTypeOK
    BY <1>2, LogAssumption DEF LogTypeOK, Tabs
  <2>2. Ages(view.logs, filterMode) = {} /\ DOMAIN view.shown = {}
    BY <1>2 DEF Ages
  <2>3. QED
    BY <2>1, <2>2 DEF ShownAgrees
<1>4. QED
  BY <1>1, <1>3 DEF PagesInv

LEMMA ClientLogs == ASSUME ClientStep PROVE LogChange
<1> USE DEF LogChange, Types
<1>1. CASE Connect
  BY <1>1 DEF Connect
<1>2. CASE Connects \/ ConnectFails \/ SimConnects \/ ToggleSim \/ MessageSent \/ Repeat \/ ReadEnds
  BY <1>2 DEF Connects, ConnectFails, SimConnects, ToggleSim, MessageSent, Repeat, ReadEnds
<1>3. CASE Receive \/ SendMessage \/ Disconnecting
  BY <1>3 DEF Receive, SendMessage, Disconnecting, logVars
<1>4. QED
  BY <1>1, <1>2, <1>3 DEF ClientStep

LEMMA PagesStep == ASSUME PagesInv, [HubNext]_hubVars PROVE PagesInv'
<1>1. ListenerStep \/ UNCHANGED listenerVars
  BY DEF HubNext, hubVars
<1>2. ListenerInv'
  BY <1>1, ListenerStepInv DEF PagesInv
<1>3. ClientStep \/ UNCHANGED <<clientVars, logVars>>
  BY DEF HubNext, hubVars
<1>4. ClientInv'
  <2>1. CASE UNCHANGED clientVars
    BY <2>1 DEF PagesInv, ClientInv, ClientTypeOK, Connecting, Connection, Idle, clientVars,
                connectVars, socketVars, sendVars
  <2>2. QED
    BY <1>3, <2>1, ClientStepInv DEF PagesInv
<1>5. ShownAgrees'
  <2>1. LogChange
    BY <1>3, ClientLogs DEF LogChange
  <2>2. QED
    BY <2>1, LogInv DEF PagesInv
<1>6. QED
  BY <1>2, <1>4, <1>5 DEF PagesInv

LEMMA PagesInvariance == HubSpec => []PagesInv
<1>1. HubInit => PagesInv
  BY PagesInit
<1>2. PagesInv /\ [HubNext]_hubVars => PagesInv'
  BY PagesStep
<1>3. QED
  BY <1>1, <1>2, PTL DEF HubSpec

\* However many entries come and whatever tab is chosen between them: the nodes on
\* the page are entries that are still kept and that the tab lets through, in
\* order and the latest of them without a gap.
THEOREM TheLogShowsItsEntries == HubSpec => []ShownAgrees
<1>1. PagesInv => ShownAgrees
  BY DEF PagesInv
<1>2. QED
  BY <1>1, PagesInvariance, PTL

\* Whatever the server, the reads, the writes and the interval sender do: a click
\* that connects the client finds no connect() or disconnect() under way and no
\* reader, writer, socket or write of the connection before, for any bound on the
\* writes.
THEOREM ConnectsAfresh == HubSpec => []FreshConnection
<1>1. ASSUME PagesInv PROVE FreshConnection
  BY <1>1 DEF PagesInv, ClientInv, ClientTypeOK, Connecting, Connection, Idle, FreshConnection
<1>2. QED
  BY <1>1, PagesInvariance, PTL

\* For any number of clients and of broadcasts at a time, though the Map is walked
\* while clients come into it and leave it: a broadcast writes to nobody twice,
\* and to everybody who was there when it began and is still there at its end.
THEOREM BroadcastsReachAll == HubSpec => []BroadcastOnce
<1>1. ASSUME PagesInv PROVE BroadcastOnce
  BY <1>1 DEF PagesInv, ListenerInv, BroadcastOnce, Walked
<1>2. QED
  BY <1>1, PagesInvariance, PTL

=============================================================================
