---------------------------- MODULE WtPoolProofs ----------------------------
(***************************************************************************)
(* Invariance proofs about the pool, for any size of it, any callers, any  *)
(* number of dials and of resets.                                          *)
(***************************************************************************)
EXTENDS WtPool, TLAPS, FiniteSetTheorems, WellFoundedInduction

\* What is in flight is being dialled, unless there is no class to dial with, what is
\* in a slot is up, each for that slot.
Own ==
    /\ \A s \in Slots :
           flight[s] # None => flight[s][1] = s /\ (supported => link[flight[s]] = "dialling")
    /\ \A s \in Slots : transport[s] # None => transport[s][1] = s /\ link[transport[s]] = "open"

\* Until the pool is reset, a slot knows all its dials and has one at most.
Known ==
    resets = 0 =>
        /\ \A d \in Dials : link[d] = "dialling" => flight[d[1]] = d
        /\ \A d \in Dials : link[d] = "open" => transport[d[1]] = d
        /\ \A s \in Slots : transport[s] # None => slotState[s] = "connected" /\ flight[s] = None

\* Until it is closed, too, the state of a slot tells whether it is being dialled.
Told == Running => \A s \in Slots : slotState[s] = "connecting" <=> flight[s] # None

\* Who awaits a dial awaits one that is under way.
Waiting ==
    /\ \A k \in Callers : pc[k] = "dial" <=> awaits[k] # None
    /\ \A k \in Callers : awaits[k] # None => link[awaits[k]] = "dialling"
    /\ \A d \in joined : link[d] = "dialling"

\* The loads, and what keeps them finite and in the pool.
Load ==
    /\ \A s \in Slots : activeStreams[s] = {k \in Callers : pc[k] = "holding" /\ chosen[k] = s}
    /\ \A s \in Slots : IsFiniteSet(activeStreams[s])
    /\ \A k \in Callers : pc[k] \in {"stream", "holding"} => chosen[k] \in Slots
    /\ isClosed => \A k \in Callers : pc[k] = "idle"

\* Whoever resumes after its dial finds a connection.
Served == (\E k \in Callers : pc[k] = "dialled") => Connected # {}

IInv == TypeOK /\ Own /\ Known /\ Told /\ Waiting /\ Load /\ Served

-----------------------------------------------------------------------------
(* The operators of the pool *)

LEMMA NoneIsNone == None \notin Dials
  BY DEF None, Dials, Slots

LEMMA DialParts == ASSUME NEW d \in Dials PROVE d[1] \in Slots
  BY DEF Dials

LEMMA LeastNat == ASSUME NEW T, T \subseteq Nat, T # {} PROVE \E x \in T : \A y \in T : x <= y
<1>1. IsWellFoundedOn(OpToRel(<, Nat), Nat)
  BY NatLessThanWellFounded
<1>2. PICK x \in T : \A y \in T : ~(<<y, x>> \in OpToRel(<, Nat))
  BY <1>1, WFMin
<1>3. ASSUME NEW y \in T PROVE x <= y
  <2>1. ~(y < x)
    BY <1>2 DEF OpToRel
  <2>2. QED
    BY <2>1
<1>4. QED
  BY <1>3

\* The least loaded of some slots is one of them.
LEMMA LeastLoadedIs ==
    ASSUME NEW S, S \subseteq Slots, S # {}, \A s \in Slots : IsFiniteSet(activeStreams[s])
    PROVE  LeastLoaded(S) \in S
<1> DEFINE n(s) == Cardinality(activeStreams[s])
           T == {n(s) : s \in S}
<1>1. \A s \in Slots : n(s) \in Nat
  BY FS_CardinalityType
<1> HIDE DEF n
<1>2. PICK m \in T : \A y \in T : m <= y
  <2>1. T \subseteq Nat /\ T # {}
    BY <1>1
  <2>2. QED
    BY <2>1, LeastNat
<1> DEFINE U == {s \in S : n(s) = m}
<1>3. PICK u \in U : \A y \in U : u <= y
  <2>1. U \subseteq Nat /\ U # {}
    BY DEF Slots
  <2>2. QED
    BY <2>1, LeastNat
<1>4. \A t \in S : n(u) < n(t) \/ (n(u) = n(t) /\ u <= t)
  BY <1>1, <1>2, <1>3
<1>5. \E s \in S : \A t \in S :
         LET a == Cardinality(activeStreams[s])
             b == Cardinality(activeStreams[t])
         IN  a < b \/ (a = b /\ s <= t)
  BY <1>4 DEF n
<1>6. QED
  BY <1>5, Zenon DEF LeastLoaded

\* What dialling the slots of S does, slot by slot and dial by dial.
LEMMA DialIs ==
    ASSUME TypeOK, NEW S, S \subseteq Slots, Dial(S)
    PROVE  /\ slotState' \in [Slots -> States] /\ flight' \in [Slots -> Dials \cup {None}]
           /\ link' \in [Dials -> {"dialling", "open", "closed"}]
           /\ aborted' \in [Dials -> BOOLEAN]
           /\ \A s \in S : /\ flight'[s] \in Dials /\ flight'[s][1] = s
                           /\ link[flight'[s]] = "closed" /\ link'[flight'[s]] = "dialling"
                           /\ slotState'[s] = "connecting"
           /\ \A s \in Slots \ S : flight'[s] = flight[s] /\ slotState'[s] = slotState[s]
           /\ \A d \in Dials : link'[d] = link[d] \/ (d[1] \in S /\ d = flight'[d[1]])
<1>1. ASSUME NEW s \in S
      PROVE  NewDial(s) \in Dials /\ NewDial(s)[1] = s /\ link[NewDial(s)] = "closed"
  <2>1. (CHOOSE n \in Free(s) : TRUE) \in Free(s)
    BY DEF Dial
  <2> DEFINE n == CHOOSE m \in Free(s) : TRUE
  <2>2. n \in 1..NumDials /\ link[<<s, n>>] = "closed"
    BY <2>1 DEF Free
  <2>3. NewDial(s) = <<s, n>>
    BY DEF NewDial
  <2> HIDE DEF n
  <2>4. QED
    BY <2>2, <2>3 DEF Dials
<1> DEFINE new == {NewDial(s) : s \in S}
<1>2. /\ slotState' = [s \in Slots |-> IF s \in S THEN "connecting" ELSE slotState[s]]
      /\ flight' = [s \in Slots |-> IF s \in S THEN NewDial(s) ELSE flight[s]]
      /\ link' = [d \in Dials |-> IF d \in new THEN "dialling" ELSE link[d]]
      /\ aborted' = [d \in Dials |-> d \notin new /\ aborted[d]]
  BY DEF Dial
<1>3. \A d \in new : d[1] \in S /\ d = NewDial(d[1])
  BY <1>1
<1>4. aborted' \in [Dials -> BOOLEAN]
  BY <1>2, Zenon
<1>5. /\ slotState' \in [Slots -> States] /\ flight' \in [Slots -> Dials \cup {None}]
      /\ link' \in [Dials -> {"dialling", "open", "closed"}]
  BY <1>1, <1>2 DEF TypeOK, States
<1>6. \A s \in S : flight'[s] = NewDial(s) /\ NewDial(s) \in new /\ slotState'[s] = "connecting"
  BY <1>2
<1>7. \A s \in Slots \ S : flight'[s] = flight[s] /\ slotState'[s] = slotState[s]
  BY <1>2
<1>8. \A d \in Dials : link'[d] = IF d \in new THEN "dialling" ELSE link[d]
  BY <1>2
<1> HIDE DEF new
<1>9. \A d \in Dials : link'[d] = link[d] \/ (d[1] \in S /\ d = flight'[d[1]])
  BY <1>3, <1>6, <1>8
<1>10. QED
  BY <1>1, <1>4, <1>5, <1>6, <1>7, <1>8, <1>9
\* What the end of some dials does, dial by dial.
LEMMA OverIs ==
    ASSUME TypeOK, NEW ds, NEW cut, Over(ds, cut)
    PROVE  /\ link' \in [Dials -> {"dialling", "open", "closed"}]
           /\ aborted' \in [Dials -> BOOLEAN]
           /\ \A d \in Dials : link'[d] = IF d \in ds THEN "closed" ELSE link[d]
<1>1. link' \in [Dials -> {"dialling", "open", "closed"}]
  BY DEF TypeOK, Over
<1>2. aborted' \in [Dials -> BOOLEAN]
  BY Zenon DEF Over
<1>3. \A d \in Dials : link'[d] = IF d \in ds THEN "closed" ELSE link[d]
  BY DEF Over
<1>4. QED
  BY <1>1, <1>2, <1>3

LEMMA AggregateIs == \A st, tr : Summary(st, tr) \in States
  BY DEF Summary, States

LEMMA ChosenIs == ASSUME IInv, Connected # {} PROVE LeastLoaded(Connected) \in Connected
  BY LeastLoadedIs DEF IInv, Load, Connected

LEMMA DialableIs == \A S \in SUBSET Slots : Dialable(S) \subseteq S /\ Dialable(S) \subseteq Slots
  BY DEF Dialable

-----------------------------------------------------------------------------
(* Each part of the invariant is kept by every step *)

\* What follows from a dial of some slots, whoever asks for it.
LEMMA DialsKeptByDial ==
    ASSUME TypeOK, Own, Known, Told, NEW S, S \subseteq Slots, Dial(Dialable(S)),
           UNCHANGED <<transport, resets, isClosed, supported>>
    PROVE  Own' /\ Known' /\ Told'
<1> DEFINE T == Dialable(S)
<1>1. T \subseteq Slots
  BY DialableIs
<1>2. \A s \in T : flight[s] = None /\ (slotState[s] # "connected" \/ transport[s] = None)
  BY DEF Dialable, Connected
<1> HIDE DEF T
<1>3. /\ \A s \in T : /\ flight'[s] \in Dials /\ flight'[s][1] = s
                       /\ link[flight'[s]] = "closed" /\ link'[flight'[s]] = "dialling"
                       /\ slotState'[s] = "connecting"
      /\ \A s \in Slots \ T : flight'[s] = flight[s] /\ slotState'[s] = slotState[s]
      /\ \A d \in Dials : link'[d] = link[d] \/ (d[1] \in T /\ d = flight'[d[1]])
  BY <1>1, DialIs DEF T
<1>4. /\ transport' = transport /\ resets' = resets /\ isClosed' = isClosed
      /\ supported' = supported
      /\ transport \in [Slots -> Dials \cup {None}] /\ flight \in [Slots -> Dials \cup {None}]
  BY DEF TypeOK
<1>5. Own'
  BY <1>1, <1>2, <1>3, <1>4 DEF Own
<1>6. Known'
  BY <1>1, <1>2, <1>3, <1>4, DialParts, NoneIsNone DEF Known
<1>7. Told'
  BY <1>1, <1>2, <1>3, <1>4, NoneIsNone DEF Told, Running
<1>8. QED
  BY <1>5, <1>6, <1>7

\* The dials and their slots.
LEMMA DialsKept == ASSUME IInv, [Next]_vars PROVE Own' /\ Known' /\ Told'
<1> USE DEF IInv
<1>1. ASSUME NEW d \in Dials, DialReady(d) PROVE Own' /\ Known' /\ Told'
  <2>1. /\ link[d] = "dialling" /\ UNCHANGED <<resets, isClosed, supported>>
        /\ link' = [link EXCEPT ![d] = "open"]
        /\ transport' = [transport EXCEPT ![d[1]] = d]
        /\ slotState' = [slotState EXCEPT ![d[1]] = "connected"]
        /\ flight' = [flight EXCEPT ![d[1]] = None]
    BY <1>1 DEF DialReady, Cleared, poolVars
  <2>2. d[1] \in Slots
    BY DialParts
  <2>3. Own'
    BY <2>1, <2>2 DEF TypeOK, Own
  <2>4. Known'
    <3> SUFFICES ASSUME resets = 0 PROVE Known'
      BY <2>1 DEF Known
    <3>1. /\ \A e \in Dials : link'[e] = IF e = d THEN "open" ELSE link[e]
          /\ \A s \in Slots : /\ transport'[s] = IF s = d[1] THEN d ELSE transport[s]
                              /\ flight'[s] = IF s = d[1] THEN None ELSE flight[s]
                              /\ slotState'[s] = IF s = d[1] THEN "connected" ELSE slotState[s]
      BY <2>1, <2>2 DEF TypeOK
    <3>2. flight[d[1]] = d /\ transport[d[1]] = None
      BY <2>1, <2>2, NoneIsNone DEF Known
    <3>3. \A e \in Dials : link'[e] = "dialling" => flight'[e[1]] = e
      BY <3>1, <3>2, DialParts DEF Known
    <3>4. \A e \in Dials : link'[e] = "open" => transport'[e[1]] = e
      BY <3>1, <3>2, DialParts, NoneIsNone DEF Known
    <3>5. \A s \in Slots : transport'[s] # None => slotState'[s] = "connected" /\ flight'[s] = None
      BY <3>1 DEF Known
    <3>6. QED
      BY <3>3, <3>4, <3>5 DEF Known
  <2>5. Told'
    BY <2>1, <2>2 DEF TypeOK, Told, Running
  <2>6. QED
    BY <2>3, <2>4, <2>5
<1>2. ASSUME NEW d \in Dials, DialFails(d) PROVE Own' /\ Known' /\ Told'
  <2>1. /\ link[d] = "dialling" /\ UNCHANGED <<resets, isClosed, supported, transport>> /\ Over({d}, {})
        /\ slotState' = [slotState EXCEPT ![d[1]] = "disconnected"]
        /\ flight' = [flight EXCEPT ![d[1]] = None]
    BY <1>2 DEF DialFails, Cleared, FailedState, poolVars
  <2>2. d[1] \in Slots
    BY DialParts
  <2>3. \A e \in Dials : link'[e] = IF e = d THEN "closed" ELSE link[e]
    BY <2>1, OverIs
  <2>4. Own'
    BY <2>1, <2>2, <2>3 DEF TypeOK, Own
  <2>5. Known'
    BY <2>1, <2>2, <2>3, DialParts, NoneIsNone DEF TypeOK, Own, Known
  <2>6. Told'
    BY <2>1, <2>2 DEF TypeOK, Told, Running
  <2>7. QED
    BY <2>4, <2>5, <2>6
<1>3. ASSUME NEW d \in Dials, LinkDies(d) PROVE Own' /\ Known' /\ Told'
  <2>1. /\ link[d] = "open" /\ UNCHANGED <<resets, isClosed, supported, flight>> /\ Over({d}, {})
        /\ IF transport[d[1]] = d
           THEN /\ transport' = [transport EXCEPT ![d[1]] = None]
                /\ slotState' = [slotState EXCEPT ![d[1]] = "disconnected"]
           ELSE UNCHANGED <<transport, slotState>>
    BY <1>3 DEF LinkDies, poolVars
  <2>2. d[1] \in Slots
    BY DialParts
  <2>3. \A e \in Dials : link'[e] = IF e = d THEN "closed" ELSE link[e]
    BY <2>1, OverIs
  <2>4. Own'
    BY <2>1, <2>2, <2>3 DEF TypeOK, Own
  <2>5. Known'
    BY <2>1, <2>2, <2>3, DialParts, NoneIsNone DEF TypeOK, Own, Known
  <2>6. Told'
    BY <2>1, <2>2, NoneIsNone DEF TypeOK, Known, Told, Running
  <2>7. QED
    BY <2>4, <2>5, <2>6
<1>4. ASSUME NEW k \in Callers, CreateSession(k) PROVE Own' /\ Known' /\ Told'
  <2>1. \E S \in SUBSET Slots : Dial(Dialable(S))
    BY <1>4, PoolAssumption DEF CreateSession, Allocate, Slots
  <2>2. UNCHANGED <<transport, resets, isClosed, supported>>
    BY <1>4 DEF CreateSession, poolVars
  <2>3. QED
    BY <2>1, <2>2, DialsKeptByDial
<1>5. ASSUME NEW k \in Callers, Dialled(k) PROVE Own' /\ Known' /\ Told'
  <2>1. \E S \in SUBSET Slots : Dial(Dialable(S))
    BY <1>5 DEF Dialled, Allocate
  <2>2. UNCHANGED <<transport, resets, isClosed, supported>>
    BY <1>5 DEF Dialled, poolVars
  <2>3. QED
    BY <2>1, <2>2, DialsKeptByDial
<1>6. ASSUME NEW k \in Callers, StreamOpened(k) PROVE Own' /\ Known' /\ Told'
  BY <1>6 DEF StreamOpened, poolVars, slotVars, dialVars, Own, Known, Told, Running
<1>7. ASSUME NEW k \in Callers, StreamTimesOut(k) PROVE Own' /\ Known' /\ Told'
  BY <1>7 DEF StreamTimesOut, poolVars, slotVars, dialVars, Own, Known, Told, Running
<1>8. ASSUME NEW k \in Callers, StreamFails(k) PROVE Own' /\ Known' /\ Told'
  <2>1. CASE transport[chosen[k]] = None
    BY <1>8, <2>1 DEF StreamFails, poolVars, slotVars, dialVars, Own, Known, Told, Running
  <2>2. CASE transport[chosen[k]] # None
    <3> DEFINE s == chosen[k]
    <3>1. s \in Slots
      BY <1>8 DEF StreamFails, Load
    <3>2. /\ UNCHANGED <<resets, isClosed, supported, flight>> /\ Over({transport[s]}, {})
          /\ transport' = [transport EXCEPT ![s] = None]
          /\ slotState' = [slotState EXCEPT ![s] = "disconnected"]
      BY <1>8, <2>2 DEF StreamFails, ClosedBy, poolVars
    <3> HIDE DEF s
    <3>3. \A e \in Dials : link'[e] = IF e = transport[s] THEN "closed" ELSE link[e]
      BY <3>2, OverIs
    <3>4. Own'
      BY <3>1, <3>2, <3>3, <2>2 DEF TypeOK, Own, s
    <3>5. Known'
      BY <3>1, <3>2, <3>3, <2>2, DialParts, NoneIsNone DEF TypeOK, Own, Known, s
    <3>6. Told'
      BY <3>1, <3>2, <2>2 DEF TypeOK, Known, Told, Running, s
    <3>7. QED
      BY <3>4, <3>5, <3>6
  <2>3. QED
    BY <2>1, <2>2
<1>9. ASSUME NEW k \in Callers, SessionClosed(k) PROVE Own' /\ Known' /\ Told'
  BY <1>9 DEF SessionClosed, poolVars, slotVars, dialVars, Own, Known, Told, Running
<1>10. CASE Connect
  <2>1. UNCHANGED <<transport, resets, isClosed, supported>> /\ Dial(Dialable(Slots))
    BY <1>10 DEF Connect, poolVars
  <2>2. QED
    BY <2>1, DialsKeptByDial
<1>11. CASE ConnectOffline
  BY <1>11 DEF ConnectOffline, poolVars, slotVars, dialVars, Own, Known, Told, Running
<1>12. CASE ConnectSettled
  BY <1>12 DEF ConnectSettled, poolVars, slotVars, dialVars, Own, Known, Told, Running
<1>13. CASE Close
  <2>1. /\ isClosed' /\ UNCHANGED <<resets, supported, flight>> /\ Over({transport[s] : s \in Slots}, {})
        /\ transport' = [s \in Slots |-> None] /\ slotState' = [s \in Slots |-> "disconnected"]
    BY <1>13 DEF Close, CloseTransports
  <2>2. \A d \in Dials : link'[d] = IF d \in {transport[s] : s \in Slots} THEN "closed" ELSE link[d]
    BY <2>1, OverIs
  <2>3. \A d \in Dials : link[d] = "dialling" => link'[d] = "dialling"
    BY <2>2, NoneIsNone DEF Own
  <2>4. Own'
    BY <2>1, <2>3 DEF TypeOK, Own
  <2>5. Known'
    BY <2>1, <2>2, DialParts DEF TypeOK, Known
  <2>6. Told'
    BY <2>1 DEF Told, Running
  <2>7. QED
    BY <2>4, <2>5, <2>6
<1>14. CASE ResetSession
  <2>1. /\ resets' = resets + 1 /\ resets \in Nat
        /\ transport' = [s \in Slots |-> None] /\ flight' = [s \in Slots |-> None]
    BY <1>14, PoolAssumption DEF ResetSession, CloseTransports, TypeOK
  <2>2. QED
    BY <2>1 DEF Own, Known, Told, Running
<1>15. CASE NetworkFlips
  BY <1>15 DEF NetworkFlips, poolVars, slotVars, dialVars, Own, Known, Told, Running
<1>16. CASE UNCHANGED vars
  BY <1>16 DEF vars, poolVars, slotVars, dialVars, Own, Known, Told, Running
<1>17. ASSUME NEW d \in Dials, ClassRejects(d) PROVE Own' /\ Known' /\ Told'
  <2>1. /\ link[d] = "dialling" /\ ~supported /\ Over({d}, {})
        /\ UNCHANGED <<resets, isClosed, supported, transport, flight, slotState>>
    BY <1>17 DEF ClassRejects, poolVars, slotVars
  <2>2. \A e \in Dials : link'[e] = IF e = d THEN "closed" ELSE link[e]
    BY <2>1, OverIs
  <2>3. Own'
    BY <2>1, <2>2 DEF TypeOK, Own
  <2>4. Known' /\ Told'
    BY <2>1, <2>2 DEF Known, Told, Running
  <2>5. QED
    BY <2>3, <2>4
<1>q. QED
  BY <1>1, <1>2, <1>3, <1>4, <1>5, <1>6, <1>7, <1>8, <1>9,
      <1>10, <1>11, <1>12, <1>13, <1>14, <1>15, <1>16, <1>17 DEF Next

\* No dial ends because others begin, and a slot that is asked for has a dial.
LEMMA DialKeeps ==
    ASSUME TypeOK, NEW S, S \subseteq Slots, Dial(Dialable(S))
    PROVE  /\ \A d \in Dials : link[d] = "dialling" => link'[d] = "dialling"
           /\ \A s \in S : ~isClosed /\ online /\ s \notin Connected => flight'[s] \in Dials
           /\ flight' \in [Slots -> Dials \cup {None}]
<1> DEFINE T == Dialable(S)
<1>1. T \subseteq Slots /\ T \subseteq S
  BY DialableIs
<1>2. ASSUME NEW s \in S, ~isClosed, online, s \notin Connected, s \notin T
      PROVE  flight[s] # None
  BY <1>2 DEF Dialable
<1> HIDE DEF T
<1>3. /\ \A s \in T : flight'[s] \in Dials /\ link'[flight'[s]] = "dialling"
      /\ \A s \in Slots \ T : flight'[s] = flight[s]
      /\ \A d \in Dials : link'[d] = link[d] \/ (d[1] \in T /\ d = flight'[d[1]])
      /\ flight' \in [Slots -> Dials \cup {None}]
  BY <1>1, DialIs DEF T
<1>4. \A d \in Dials : link[d] = "dialling" => link'[d] = "dialling"
  BY <1>3
<1>5. \A s \in Slots : flight[s] # None => flight[s] \in Dials
  BY DEF TypeOK
<1>6. QED
  BY <1>1, <1>2, <1>3, <1>4, <1>5

\* close() and resetSession() end sessions and connections, no dial and no request.
LEMMA Ousted ==
    ASSUME IInv, NEW cut, Over({transport[s] : s \in Slots}, cut), Evict
    PROVE  /\ \A d \in Dials : link[d] = "dialling" => link'[d] = "dialling"
           /\ \A k \in Callers : IF pc[k] = "holding" THEN pc'[k] = "idle" /\ chosen'[k] = 0
                                 ELSE pc'[k] = pc[k] /\ chosen'[k] = chosen[k]
<1>1. \A d \in Dials : link'[d] = IF d \in {transport[s] : s \in Slots} THEN "closed" ELSE link[d]
  BY OverIs DEF IInv
<1>2. \A s \in Slots : transport[s] # None => link[transport[s]] = "open"
  BY DEF IInv, Own
<1>3. \A d \in Dials : link[d] = "dialling" => link'[d] = "dialling"
  BY <1>1, <1>2, NoneIsNone
<1>4. \A k \in Callers : k \in Holders <=> pc[k] = "holding"
  BY DEF IInv, Load, Holders
<1>5. QED
  BY <1>3, <1>4 DEF Evict, IInv, TypeOK

\* The waits.
LEMMA WaitingKept == ASSUME IInv, [Next]_vars PROVE Waiting'
<1> USE DEF IInv
<1>1. ASSUME NEW d \in Dials, DialReady(d) PROVE Waiting'
  <2>1. Settle(d, "dialled") /\ link' = [link EXCEPT ![d] = "open"]
    BY <1>1 DEF DialReady
  <2>2. QED
    BY <2>1, NoneIsNone DEF TypeOK, Waiting, Settle, Resume
<1>2. ASSUME NEW d \in Dials, DialFails(d) PROVE Waiting'
  <2>1. Settle(d, "idle") /\ Over({d}, {})
    BY <1>2 DEF DialFails
  <2>2. \A e \in Dials : link'[e] = IF e = d THEN "closed" ELSE link[e]
    BY <2>1, OverIs
  <2>3. QED
    BY <2>1, <2>2, NoneIsNone DEF TypeOK, Waiting, Settle, Resume
<1>3. ASSUME NEW d \in Dials, LinkDies(d) PROVE Waiting'
  <2>1. link[d] = "open" /\ UNCHANGED <<pc, awaits, joined>> /\ Over({d}, {})
    BY <1>3 DEF LinkDies, connectVars
  <2>2. \A e \in Dials : link'[e] = IF e = d THEN "closed" ELSE link[e]
    BY <2>1, OverIs
  <2>3. QED
    BY <2>1, <2>2 DEF TypeOK, Waiting
<1>4. ASSUME NEW k \in Callers, CreateSession(k) PROVE Waiting'
  <2>1. UNCHANGED joined /\ pc[k] = "idle" /\ ~isClosed /\ online /\ 1 \in Slots
    BY <1>4, PoolAssumption DEF CreateSession, connectVars, Slots
  <2>2. CASE Connected # {}
    <3>1. Allocate(k) /\ UNCHANGED awaits
      BY <1>4, <2>2 DEF CreateSession
    <3>2. pc' = [pc EXCEPT ![k] = "stream"] /\ \E S \in SUBSET Slots : Dial(Dialable(S))
      BY <3>1 DEF Allocate
    <3>3. \A d \in Dials : link[d] = "dialling" => link'[d] = "dialling"
      BY <3>2, DialKeeps
    <3>4. QED
      BY <2>1, <3>1, <3>2, <3>3 DEF TypeOK, Waiting
  <2>3. CASE Connected = {}
    <3>1. /\ Dial(Dialable({1})) /\ pc' = [pc EXCEPT ![k] = "dial"]
          /\ awaits' = [awaits EXCEPT ![k] = flight'[1]] /\ link'[flight'[1]] = "dialling"
      BY <1>4, <2>3 DEF CreateSession
    <3>2. \A d \in Dials : link[d] = "dialling" => link'[d] = "dialling"
      BY <2>1, <3>1, DialKeeps
    <3>3. flight'[1] \in Dials /\ link'[flight'[1]] = "dialling"
      <4>1. {1} \subseteq Slots
        BY <2>1
      <4>2. \A s \in {1} : ~isClosed /\ online /\ s \notin Connected => flight'[s] \in Dials
        BY <4>1, <3>1, DialKeeps
      <4>3. QED
        BY <2>1, <2>3, <3>1, <4>2
    <3>4. QED
      BY <2>1, <3>1, <3>2, <3>3, NoneIsNone DEF TypeOK, Waiting
  <2>4. QED
    BY <2>2, <2>3
<1>5. ASSUME NEW k \in Callers, Dialled(k) PROVE Waiting'
  <2>1. /\ pc[k] = "dialled" /\ UNCHANGED <<joined, awaits>>
        /\ pc' = [pc EXCEPT ![k] = "stream"] /\ \E S \in SUBSET Slots : Dial(Dialable(S))
    BY <1>5 DEF Dialled, Allocate, connectVars
  <2>2. \A d \in Dials : link[d] = "dialling" => link'[d] = "dialling"
    BY <2>1, DialKeeps
  <2>3. QED
    BY <2>1, <2>2 DEF TypeOK, Waiting
<1>6. ASSUME NEW k \in Callers, StreamOpened(k) PROVE Waiting'
  BY <1>6 DEF StreamOpened, dialVars, connectVars, TypeOK, Waiting
<1>7. ASSUME NEW k \in Callers, StreamTimesOut(k) PROVE Waiting'
  BY <1>7 DEF StreamTimesOut, GiveUp, dialVars, connectVars, TypeOK, Waiting
<1>8. ASSUME NEW k \in Callers, StreamFails(k) PROVE Waiting'
  <2>1. /\ pc[k] = "stream" /\ UNCHANGED <<awaits, joined>> /\ pc' = [pc EXCEPT ![k] = "idle"]
        /\ chosen[k] \in Slots
    BY <1>8 DEF StreamFails, GiveUp, connectVars, Load
  <2>2. \A d \in Dials : link[d] = "dialling" => link'[d] = "dialling"
    <3> DEFINE s == chosen[k]
    <3>1. CASE transport[s] # None
      <4>1. Over({transport[s]}, {}) /\ link[transport[s]] = "open"
        BY <1>8, <2>1, <3>1 DEF StreamFails, ClosedBy, Own
      <4>2. QED
        BY <4>1, OverIs
    <3>2. CASE transport[s] = None
      BY <1>8, <3>2 DEF StreamFails, dialVars
    <3>3. QED
      BY <3>1, <3>2
  <2>3. QED
    BY <2>1, <2>2 DEF TypeOK, Waiting
<1>9. ASSUME NEW k \in Callers, SessionClosed(k) PROVE Waiting'
  BY <1>9 DEF SessionClosed, GiveUp, dialVars, connectVars, TypeOK, Waiting
<1>10. CASE Connect
  <2>1. Dial(Dialable(Slots)) /\ UNCHANGED <<pc, awaits>>
    BY <1>10 DEF Connect, callerVars
  <2>2. \A d \in Dials : link[d] = "dialling" => link'[d] = "dialling"
    BY <2>1, DialKeeps
  <2>4. \A d \in joined' : link'[d] = "dialling"
    BY <1>10 DEF Connect
  <2>3. QED
    BY <2>1, <2>2, <2>4 DEF TypeOK, Waiting
<1>11. CASE ConnectOffline
  BY <1>11 DEF ConnectOffline, dialVars, callerVars, connectVars, Waiting
<1>12. CASE ConnectSettled
  BY <1>12 DEF ConnectSettled, dialVars, callerVars, connectVars, Waiting
<1>13. CASE Close
  <2>1. UNCHANGED <<awaits, joined>> /\ Over({transport[s] : s \in Slots}, {}) /\ Evict
    BY <1>13 DEF Close, CloseTransports, connectVars
  <2>2. QED
    BY <2>1, Ousted DEF Waiting, TypeOK
<1>14. CASE ResetSession
  <2>1. /\ UNCHANGED <<awaits, joined>> /\ Evict
        /\ Over({transport[s] : s \in Slots}, {flight[s] : s \in Slots})
    BY <1>14 DEF ResetSession, CloseTransports, connectVars
  <2>2. QED
    BY <2>1, Ousted DEF Waiting, TypeOK
<1>15. CASE NetworkFlips
  BY <1>15 DEF NetworkFlips, dialVars, callerVars, connectVars, Waiting
<1>16. CASE UNCHANGED vars
  BY <1>16 DEF vars, poolVars, slotVars, dialVars, callerVars, connectVars, Waiting
<1>17. ASSUME NEW d \in Dials, ClassRejects(d) PROVE Waiting'
  <2>1. Settle(d, "idle") /\ Over({d}, {})
    BY <1>17 DEF ClassRejects
  <2>2. \A e \in Dials : link'[e] = IF e = d THEN "closed" ELSE link[e]
    BY <2>1, OverIs
  <2>3. QED
    BY <2>1, <2>2, NoneIsNone DEF TypeOK, Waiting, Settle, Resume
<1>q. QED
  BY <1>1, <1>2, <1>3, <1>4, <1>5, <1>6, <1>7, <1>8, <1>9,
      <1>10, <1>11, <1>12, <1>13, <1>14, <1>15, <1>16, <1>17 DEF Next

\* The loads.
LEMMA LoadKept == ASSUME IInv, [Next]_vars PROVE Load'
<1> USE DEF IInv
<1>1. ASSUME NEW d \in Dials, DialReady(d) PROVE Load'
  <2>1. UNCHANGED <<isClosed, activeStreams, chosen>> /\ Resume(d, "dialled")
    BY <1>1 DEF DialReady, Settle, poolVars
  <2>2. QED
    BY <2>1, NoneIsNone DEF Resume, Load, Waiting, TypeOK
<1>2. ASSUME NEW d \in Dials, DialFails(d) PROVE Load'
  <2>1. UNCHANGED <<isClosed, activeStreams, chosen>> /\ Resume(d, "idle")
    BY <1>2 DEF DialFails, Settle, poolVars
  <2>2. QED
    BY <2>1, NoneIsNone DEF Resume, Load, Waiting, TypeOK
<1>3. ASSUME NEW d \in Dials, LinkDies(d) PROVE Load'
  BY <1>3 DEF LinkDies, poolVars, callerVars, Load
<1>4. ASSUME NEW k \in Callers, CreateSession(k) PROVE Load'
  <2>1. pc[k] = "idle" /\ ~isClosed /\ UNCHANGED <<isClosed, activeStreams>>
    BY <1>4 DEF CreateSession, poolVars
  <2>2. CASE Connected # {}
    <3>1. /\ pc' = [pc EXCEPT ![k] = "stream"]
          /\ chosen' = [chosen EXCEPT ![k] = LeastLoaded(Connected)]
      BY <1>4, <2>2 DEF CreateSession, Allocate
    <3>2. LeastLoaded(Connected) \in Slots
      BY <2>2, ChosenIs DEF Connected
    <3>3. QED
      BY <2>1, <3>1, <3>2 DEF TypeOK, Load
  <2>3. CASE Connected = {}
    <3>1. pc' = [pc EXCEPT ![k] = "dial"] /\ UNCHANGED chosen
      BY <1>4, <2>3 DEF CreateSession
    <3>2. QED
      BY <2>1, <3>1 DEF TypeOK, Load
  <2>4. QED
    BY <2>2, <2>3
<1>5. ASSUME NEW k \in Callers, Dialled(k) PROVE Load'
  <2>1. /\ pc[k] = "dialled" /\ UNCHANGED <<isClosed, activeStreams>>
        /\ pc' = [pc EXCEPT ![k] = "stream"]
        /\ chosen' = [chosen EXCEPT ![k] = LeastLoaded(Connected)]
    BY <1>5 DEF Dialled, Allocate, poolVars
  <2>2. LeastLoaded(Connected) \in Slots
    BY <2>1, ChosenIs DEF Connected, Served
  <2>3. QED
    BY <2>1, <2>2 DEF TypeOK, Load
<1>6. ASSUME NEW k \in Callers, StreamOpened(k) PROVE Load'
  <2>1. /\ pc[k] = "stream" /\ UNCHANGED <<isClosed, chosen>> /\ chosen[k] \in Slots
        /\ pc' = [pc EXCEPT ![k] = "holding"]
        /\ activeStreams' = [activeStreams EXCEPT ![chosen[k]] = @ \cup {k}]
    BY <1>6 DEF StreamOpened, poolVars, Load
  <2>2. \A s \in Slots : IsFiniteSet(activeStreams'[s])
    BY <2>1, FS_AddElement DEF TypeOK, Load
  <2>3. \A s \in Slots : activeStreams'[s] = {j \in Callers : pc'[j] = "holding" /\ chosen'[j] = s}
    BY <2>1 DEF TypeOK, Load
  <2>4. \A j \in Callers : pc'[j] \in {"stream", "holding"} => chosen'[j] \in Slots
    BY <2>1 DEF TypeOK, Load
  <2>5. ~isClosed'
    BY <2>1 DEF Load
  <2>6. QED
    BY <2>2, <2>3, <2>4, <2>5 DEF Load
<1>7. ASSUME NEW k \in Callers, StreamTimesOut(k) PROVE Load'
  BY <1>7 DEF StreamTimesOut, GiveUp, poolVars, TypeOK, Load
<1>8. ASSUME NEW k \in Callers, StreamFails(k) PROVE Load'
  <2>1. /\ pc[k] = "stream" /\ UNCHANGED <<isClosed, activeStreams>>
        /\ pc' = [pc EXCEPT ![k] = "idle"] /\ chosen' = [chosen EXCEPT ![k] = 0]
    BY <1>8 DEF StreamFails, GiveUp, poolVars
  <2>2. QED
    BY <2>1 DEF TypeOK, Load
<1>9. ASSUME NEW k \in Callers, SessionClosed(k) PROVE Load'
  <2>1. /\ pc[k] = "holding" /\ UNCHANGED isClosed /\ chosen[k] \in Slots
        /\ pc' = [pc EXCEPT ![k] = "idle"] /\ chosen' = [chosen EXCEPT ![k] = 0]
        /\ activeStreams' = [activeStreams EXCEPT ![chosen[k]] = @ \ {k}]
    BY <1>9 DEF SessionClosed, GiveUp, Released, poolVars, Load
  <2>2. \A s \in Slots : IsFiniteSet(activeStreams'[s])
    BY <2>1, FS_RemoveElement DEF TypeOK, Load
  <2>3. \A s \in Slots : activeStreams'[s] = {j \in Callers : pc'[j] = "holding" /\ chosen'[j] = s}
    BY <2>1 DEF TypeOK, Load
  <2>4. \A j \in Callers : pc'[j] \in {"stream", "holding"} => chosen'[j] \in Slots
    BY <2>1 DEF TypeOK, Load
  <2>5. ~isClosed'
    BY <2>1 DEF Load
  <2>6. QED
    BY <2>2, <2>3, <2>4, <2>5 DEF Load
<1>10. CASE Connect
  BY <1>10 DEF Connect, poolVars, callerVars, Load
<1>11. CASE ConnectOffline
  BY <1>11 DEF ConnectOffline, poolVars, callerVars, Load
<1>12. CASE ConnectSettled
  BY <1>12 DEF ConnectSettled, poolVars, callerVars, Load
<1>13. CASE Close
  <2>1. /\ \A k \in Callers : pc[k] \in {"idle", "holding"}
        /\ Over({transport[s] : s \in Slots}, {}) /\ Evict
    BY <1>13 DEF Close, CloseTransports
  <2>2. activeStreams' = [s \in Slots |-> {}]
    BY <2>1 DEF Evict
  <2>3. QED
    BY <2>1, <2>2, Ousted, FS_EmptySet DEF Load
<1>14. CASE ResetSession
  <2>1. /\ UNCHANGED isClosed /\ Evict
        /\ Over({transport[s] : s \in Slots}, {flight[s] : s \in Slots})
    BY <1>14 DEF ResetSession, CloseTransports
  <2>2. activeStreams' = [s \in Slots |-> {}]
    BY <2>1 DEF Evict
  <2>3. QED
    BY <2>1, <2>2, Ousted, FS_EmptySet DEF Load
<1>15. CASE NetworkFlips
  BY <1>15 DEF NetworkFlips, poolVars, callerVars, Load
<1>16. CASE UNCHANGED vars
  BY <1>16 DEF vars, poolVars, callerVars, Load
<1>17. ASSUME NEW d \in Dials, ClassRejects(d) PROVE Load'
  <2>1. UNCHANGED <<isClosed, activeStreams, chosen>> /\ Resume(d, "idle")
    BY <1>17 DEF ClassRejects, Settle, poolVars
  <2>2. QED
    BY <2>1, NoneIsNone DEF Resume, Load, Waiting, TypeOK
<1>q. QED
  BY <1>1, <1>2, <1>3, <1>4, <1>5, <1>6, <1>7, <1>8, <1>9,
      <1>10, <1>11, <1>12, <1>13, <1>14, <1>15, <1>16, <1>17 DEF Next

\* What is connected is not dialled.
LEMMA StillConnected ==
    ASSUME TypeOK, NEW S, S \subseteq Slots, Dial(Dialable(S)), UNCHANGED transport, Connected # {}
    PROVE  Connected' # {}
<1> DEFINE T == Dialable(S)
<1>1. T \subseteq Slots /\ \A s \in T : s \notin Connected
  BY DialableIs DEF Dialable
<1> HIDE DEF T
<1>2. \A s \in Slots \ T : slotState'[s] = slotState[s]
  BY <1>1, DialIs DEF T
<1>3. QED
  BY <1>1, <1>2 DEF Connected

\* The connection of who resumes.
LEMMA ServedKept == ASSUME IInv, [Next]_vars PROVE Served'
<1> USE DEF IInv
<1>1. ASSUME NEW d \in Dials, DialReady(d) PROVE Served'
  <2>1. d[1] \in Slots /\ transport'[d[1]] = d /\ slotState'[d[1]] = "connected"
    BY <1>1, DialParts DEF DialReady, TypeOK
  <2>2. QED
    BY <2>1, NoneIsNone DEF Served, Connected
<1>2. ASSUME NEW d \in Dials, DialFails(d) PROVE Served'
  <2>1. \A j \in Callers : pc'[j] # "dialled"
    BY <1>2 DEF DialFails, Delivered, Resumed, Settle, Resume, TypeOK
  <2>2. QED
    BY <2>1 DEF Served
<1>3. ASSUME NEW d \in Dials, LinkDies(d) PROVE Served'
  <2>1. \A j \in Callers : pc'[j] # "dialled"
    BY <1>3 DEF LinkDies, Delivered, Resumed
  <2>2. QED
    BY <2>1 DEF Served
<1>4. ASSUME NEW k \in Callers, CreateSession(k) PROVE Served'
  <2>1. CASE Connected # {}
    <3>1. UNCHANGED transport /\ \E S \in SUBSET Slots : Dial(Dialable(S))
      BY <1>4, <2>1 DEF CreateSession, Allocate
    <3>2. Connected' # {}
      BY <2>1, <3>1, StillConnected
    <3>3. QED
      BY <3>2 DEF Served
  <2>2. CASE Connected = {}
    <3>1. pc' = [pc EXCEPT ![k] = "dial"] /\ \A j \in Callers : pc[j] # "dialled"
      BY <1>4, <2>2 DEF CreateSession, Served
    <3>2. QED
      BY <3>1 DEF TypeOK, Served
  <2>3. QED
    BY <2>1, <2>2
<1>5. ASSUME NEW k \in Callers, Dialled(k) PROVE Served'
  <2>1. UNCHANGED transport /\ \E S \in SUBSET Slots : Dial(Dialable(S))
    BY <1>5 DEF Dialled, Allocate
  <2>2. Connected # {}
    BY <1>5 DEF Dialled, Served
  <2>3. Connected' # {}
    BY <2>1, <2>2, StillConnected
  <2>4. QED
    BY <2>3 DEF Served
<1>6. ASSUME NEW k \in Callers, StreamOpened(k) PROVE Served'
  BY <1>6 DEF StreamOpened, slotVars, Served, Connected, TypeOK
<1>7. ASSUME NEW k \in Callers, StreamTimesOut(k) PROVE Served'
  BY <1>7 DEF StreamTimesOut, GiveUp, slotVars, Served, Connected, TypeOK
<1>8. ASSUME NEW k \in Callers, StreamFails(k) PROVE Served'
  <2>1. \A j \in Callers : pc'[j] # "dialled"
    BY <1>8 DEF StreamFails, Resumed, GiveUp, TypeOK
  <2>2. QED
    BY <2>1 DEF Served
<1>9. ASSUME NEW k \in Callers, SessionClosed(k) PROVE Served'
  BY <1>9 DEF SessionClosed, GiveUp, slotVars, Served, Connected, TypeOK
<1>10. CASE Connect
  <2>1. UNCHANGED <<transport, pc>> /\ Dial(Dialable(Slots))
    BY <1>10 DEF Connect, callerVars
  <2>2. Connected # {} => Connected' # {}
    BY <2>1, StillConnected
  <2>3. QED
    BY <2>1, <2>2 DEF Served
<1>11. CASE ConnectOffline
  BY <1>11 DEF ConnectOffline, slotVars, callerVars, Served, Connected
<1>12. CASE ConnectSettled
  BY <1>12 DEF ConnectSettled, slotVars, callerVars, Served, Connected
<1>13. CASE Close
  <2>1. /\ \A k \in Callers : pc[k] \in {"idle", "holding"}
        /\ Over({transport[s] : s \in Slots}, {}) /\ Evict
    BY <1>13 DEF Close, CloseTransports
  <2>2. QED
    BY <2>1, Ousted DEF Served
<1>14. CASE ResetSession
  <2>1. /\ \A k \in Callers : pc[k] # "dialled"
        /\ Over({transport[s] : s \in Slots}, {flight[s] : s \in Slots}) /\ Evict
    BY <1>14 DEF ResetSession, CloseTransports, Delivered, Resumed
  <2>2. QED
    BY <2>1, Ousted DEF Served
<1>15. CASE NetworkFlips
  BY <1>15 DEF NetworkFlips, slotVars, callerVars, Served, Connected
<1>16. CASE UNCHANGED vars
  BY <1>16 DEF vars, slotVars, callerVars, Served, Connected
<1>17. ASSUME NEW d \in Dials, ClassRejects(d) PROVE Served'
  <2>1. \A j \in Callers : pc'[j] # "dialled"
    BY <1>17 DEF ClassRejects, Delivered, Resumed, Settle, Resume, TypeOK
  <2>2. QED
    BY <2>1 DEF Served
<1>q. QED
  BY <1>1, <1>2, <1>3, <1>4, <1>5, <1>6, <1>7, <1>8, <1>9,
      <1>10, <1>11, <1>12, <1>13, <1>14, <1>15, <1>16, <1>17 DEF Next

\* The types.
LEMMA TypeKept == ASSUME IInv, [Next]_vars PROVE TypeOK'
<1> USE DEF IInv
<1>1. ASSUME NEW d \in Dials, DialReady(d) PROVE TypeOK'
  <2>1. d[1] \in Slots /\ aggregate' \in States
    BY <1>1, DialParts, AggregateIs DEF DialReady, UpdateAggregate
  <2>2. QED
    BY <1>1, <2>1 DEF DialReady, Cleared, Settle, Resume, TypeOK, States, poolVars
<1>2. ASSUME NEW d \in Dials, DialFails(d) PROVE TypeOK'
  <2>1. link' \in [Dials -> {"dialling", "open", "closed"}] /\ aborted' \in [Dials -> BOOLEAN]
    BY <1>2, OverIs DEF DialFails
  <2>2. d[1] \in Slots /\ aggregate' \in States
    BY <1>2, DialParts, AggregateIs DEF DialFails, UpdateAggregate
  <2>3. QED
    BY <1>2, <2>1, <2>2 DEF DialFails, Cleared, FailedState, Settle, Resume, TypeOK, States, poolVars
<1>3. ASSUME NEW d \in Dials, LinkDies(d) PROVE TypeOK'
  <2>1. link' \in [Dials -> {"dialling", "open", "closed"}] /\ aborted' \in [Dials -> BOOLEAN]
    BY <1>3, OverIs DEF LinkDies
  <2>2. d[1] \in Slots /\ aggregate' \in States
    BY <1>3, DialParts, AggregateIs DEF LinkDies, UpdateAggregate, TypeOK
  <2>3. on' \in [Callers -> Dials \cup {None}]
    BY <1>3 DEF LinkDies, Rejected, TypeOK
  <2>4. QED
    BY <1>3, <2>1, <2>2, <2>3 DEF LinkDies, TypeOK, States, poolVars, connectVars
<1>4. ASSUME NEW k \in Callers, CreateSession(k) PROVE TypeOK'
  <2>1. \E S \in SUBSET Slots : Dial(Dialable(S))
    BY <1>4, PoolAssumption DEF CreateSession, Allocate, Slots
  <2>2. /\ slotState' \in [Slots -> States] /\ flight' \in [Slots -> Dials \cup {None}]
        /\ link' \in [Dials -> {"dialling", "open", "closed"}]
        /\ aborted' \in [Dials -> BOOLEAN]
    BY <2>1, DialIs, DialableIs
  <2>3. CASE Connected # {}
    <3>1. LeastLoaded(Connected) \in Slots /\ transport[LeastLoaded(Connected)] \in Dials \cup {None}
      BY <2>3, ChosenIs DEF Connected, TypeOK
    <3>2. /\ pc' = [pc EXCEPT ![k] = "stream"] /\ UNCHANGED awaits
          /\ chosen' = [chosen EXCEPT ![k] = LeastLoaded(Connected)]
          /\ on' = [on EXCEPT ![k] = transport[LeastLoaded(Connected)]]
          /\ UNCHANGED <<poolVars, transport, activeStreams, connectVars, aggregate>>
      BY <1>4, <2>3 DEF CreateSession, Allocate
    <3>3. LeastLoaded(Connected) \in 0..PoolSize
      BY <3>1, PoolAssumption DEF Slots
    <3> HIDE DEF Slots
    <3>4. QED
      BY <2>2, <3>1, <3>2, <3>3 DEF TypeOK, poolVars, connectVars
  <2>4. CASE Connected = {}
    <3>1. flight'[1] \in Dials \cup {None}
      BY <2>2, PoolAssumption DEF Slots
    <3>2. QED
      BY <1>4, <2>2, <2>4, <3>1 DEF CreateSession, TypeOK, poolVars, connectVars
  <2>q. QED
    BY <2>3, <2>4
<1>5. ASSUME NEW k \in Callers, Dialled(k) PROVE TypeOK'
  <2>1. \E S \in SUBSET Slots : Dial(Dialable(S))
    BY <1>5, PoolAssumption DEF Dialled, Allocate, Slots
  <2>2. /\ slotState' \in [Slots -> States] /\ flight' \in [Slots -> Dials \cup {None}]
        /\ link' \in [Dials -> {"dialling", "open", "closed"}]
        /\ aborted' \in [Dials -> BOOLEAN]
    BY <2>1, DialIs, DialableIs
  <2>3. /\ LeastLoaded(Connected) \in Slots /\ transport[LeastLoaded(Connected)] \in Dials \cup {None}
        /\ Summary(slotState, transport) \in States
    BY <1>5, ChosenIs, AggregateIs DEF Dialled, Served, Connected, TypeOK
  <2>q. QED
    BY <1>5, <2>2, <2>3 DEF Dialled, Allocate, TypeOK, poolVars, connectVars, Slots
<1>6. ASSUME NEW k \in Callers, StreamOpened(k) PROVE TypeOK'
  <2>1. chosen[k] \in Slots
    BY <1>6 DEF StreamOpened, Load
  <2>2. QED
    BY <1>6, <2>1 DEF StreamOpened, TypeOK, poolVars, slotVars, dialVars, connectVars
<1>7. ASSUME NEW k \in Callers, StreamTimesOut(k) PROVE TypeOK'
  BY <1>7, PoolAssumption DEF StreamTimesOut, GiveUp, TypeOK, poolVars, slotVars, dialVars, connectVars
<1>8. ASSUME NEW k \in Callers, StreamFails(k) PROVE TypeOK'
  <2>1. chosen[k] \in Slots /\ aggregate' \in States
    BY <1>8, AggregateIs DEF StreamFails, UpdateAggregate, Load, TypeOK
  <2>2. link' \in [Dials -> {"dialling", "open", "closed"}] /\ aborted' \in [Dials -> BOOLEAN]
    <3>1. CASE UNCHANGED dialVars
      BY <3>1 DEF dialVars, TypeOK
    <3>2. CASE Over(ClosedBy(chosen[k]), {})
      BY <3>2, OverIs
    <3>3. QED
      BY <1>8, <3>1, <3>2, Zenon DEF StreamFails
  <2>3. on' \in [Callers -> Dials \cup {None}]
    BY <1>8 DEF StreamFails, Rejected, TypeOK
  <2>4. /\ UNCHANGED <<poolVars, flight, activeStreams, awaits, connectVars>>
        /\ pc' = [pc EXCEPT ![k] = "idle"] /\ chosen' = [chosen EXCEPT ![k] = 0]
        /\ \/ UNCHANGED <<slotState, transport>>
           \/ /\ slotState' = [slotState EXCEPT ![chosen[k]] = "disconnected"]
              /\ transport' = [transport EXCEPT ![chosen[k]] = None]
    BY <1>8 DEF StreamFails, GiveUp
  <2>5. 0 \in 0..PoolSize
    BY PoolAssumption
  <2>6. QED
    BY <2>1, <2>2, <2>3, <2>4, <2>5 DEF TypeOK, States, poolVars, connectVars
<1>9. ASSUME NEW k \in Callers, SessionClosed(k) PROVE TypeOK'
  <2>1. chosen[k] \in Slots
    BY <1>9 DEF SessionClosed, Load
  <2>2. QED
    BY <1>9, <2>1, PoolAssumption DEF SessionClosed, Released, GiveUp, TypeOK, poolVars, slotVars, dialVars, connectVars
<1>10. CASE Connect
  <2>1. Dial(Dialable(Slots))
    BY <1>10, Zenon DEF Connect
  <2>2. /\ slotState' \in [Slots -> States] /\ flight' \in [Slots -> Dials \cup {None}]
        /\ link' \in [Dials -> {"dialling", "open", "closed"}]
        /\ aborted' \in [Dials -> BOOLEAN]
    BY <2>1, DialIs, DialableIs
  <2>q. QED
    BY <1>10, <2>2 DEF Connect, TypeOK, poolVars, callerVars, States
<1>11. CASE ConnectOffline
  BY <1>11 DEF ConnectOffline, TypeOK, States, poolVars, slotVars, dialVars, callerVars, connectVars
<1>12. CASE ConnectSettled
  <2>1. aggregate' \in States
    BY <1>12, AggregateIs DEF ConnectSettled, States
  <2>2. QED
    BY <1>12, <2>1 DEF ConnectSettled, TypeOK, poolVars, slotVars, dialVars, callerVars
<1>13. CASE Close
  <2>1. link' \in [Dials -> {"dialling", "open", "closed"}] /\ aborted' \in [Dials -> BOOLEAN]
    BY <1>13, OverIs DEF Close, CloseTransports
  <2>2. QED
    BY <1>13, <2>1, PoolAssumption DEF Close, Evict, CloseTransports, TypeOK, States, connectVars
<1>14. CASE ResetSession
  <2>1. link' \in [Dials -> {"dialling", "open", "closed"}] /\ aborted' \in [Dials -> BOOLEAN]
    BY <1>14, OverIs DEF ResetSession, CloseTransports
  <2>2. QED
    BY <1>14, <2>1, PoolAssumption DEF ResetSession, Evict, CloseTransports, TypeOK, States, connectVars
<1>15. CASE NetworkFlips
  <2>1. online' \in BOOLEAN
    BY <1>15, Zenon DEF NetworkFlips
  <2>2. QED
    BY <1>15, <2>1 DEF NetworkFlips, TypeOK, slotVars, dialVars, callerVars, connectVars
<1>16. CASE UNCHANGED vars
  BY <1>16, Zenon DEF vars, poolVars, slotVars, dialVars, callerVars, connectVars, TypeOK
<1>17. ASSUME NEW d \in Dials, ClassRejects(d) PROVE TypeOK'
  <2>1. link' \in [Dials -> {"dialling", "open", "closed"}] /\ aborted' \in [Dials -> BOOLEAN]
    BY <1>17, OverIs DEF ClassRejects
  <2>2. QED
    BY <1>17, <2>1 DEF ClassRejects, Settle, Resume, TypeOK, States, poolVars, slotVars
<1>q. QED
  BY <1>1, <1>2, <1>3, <1>4, <1>5, <1>6, <1>7, <1>8, <1>9,
      <1>10, <1>11, <1>12, <1>13, <1>14, <1>15, <1>16, <1>17 DEF Next

LEMMA InitInv == Init => IInv
<1> SUFFICES ASSUME Init PROVE IInv
  OBVIOUS
<1>1. /\ supported \in BOOLEAN /\ isClosed \in BOOLEAN /\ online \in BOOLEAN
      /\ connecting \in BOOLEAN /\ aborted \in [Dials -> BOOLEAN]
  BY Zenon DEF Init, getWebTransportClass
<1>2. /\ slotState \in [Slots -> States] /\ aggregate \in States
      /\ link \in [Dials -> {"dialling", "open", "closed"}]
      /\ transport \in [Slots -> Dials \cup {None}] /\ flight \in [Slots -> Dials \cup {None}]
      /\ activeStreams \in [Slots -> SUBSET Callers]
  BY DEF Init, States
<1>3. /\ pc \in [Callers -> {"idle", "dial", "dialled", "stream", "holding"}]
      /\ awaits \in [Callers -> Dials \cup {None}] /\ on \in [Callers -> Dials \cup {None}]
      /\ chosen \in [Callers -> 0..PoolSize] /\ joined \subseteq Dials /\ resets \in 0..MaxResets
  BY PoolAssumption DEF Init
<1>4. TypeOK
  BY <1>1, <1>2, <1>3, Zenon DEF TypeOK
<1>5. QED
  BY <1>4, FS_EmptySet DEF Init, IInv, Own, Known, Told, Waiting, Load, Served

LEMMA Invariance == Spec => []IInv
<1>1. IInv /\ [Next]_vars => IInv'
  BY TypeKept, DialsKept, WaitingKept, LoadKept, ServedKept, Zenon DEF IInv
<1>2. QED
  BY <1>1, InitInv, PTL DEF Spec

-----------------------------------------------------------------------------
\* Single flight: of a pool that is not reset a slot never has two dials or
\* connections, and every connection that is up is in its slot.
THEOREM SlotsAreSingle == Spec => []OneDialPerSlot
<1>1. IInv => OneDialPerSlot
  <2> SUFFICES ASSUME IInv, resets = 0
               PROVE  /\ SingleFlight
                      /\ \A d \in Dials : link[d] = "open" =>
                             transport[d[1]] = d /\ slotState[d[1]] = "connected"
    BY DEF OneDialPerSlot
  <2>1. /\ \A d \in Dials : link[d] = "dialling" => flight[d[1]] = d
        /\ \A d \in Dials : link[d] = "open" => transport[d[1]] = d
        /\ \A s \in Slots : transport[s] # None => slotState[s] = "connected" /\ flight[s] = None
    BY DEF IInv, Known
  <2>2. \A d \in Dials : link[d] = "dialling" \/ link[d] = "open" \/ link[d] = "closed"
    BY DEF IInv, TypeOK
  <2>3. \A d, e \in Dials : d[1] = e[1] /\ link[d] # "closed" /\ link[e] # "closed" => d = e
    BY <2>1, <2>2, DialParts, NoneIsNone
  <2>4. SingleFlight
    BY <2>3 DEF SingleFlight
  <2>5. QED
    BY <2>1, <2>4, DialParts, NoneIsNone
<1>2. QED
  BY <1>1, Invariance, PTL

\* The load of a slot is the number of sessions open on it, whatever is lost,
\* reset or closed; a closed pool hands out none.
THEOREM LoadIsExact == Spec => []LoadExact
<1>1. IInv => LoadExact
  BY DEF IInv, Load, LoadExact
<1>2. QED
  BY <1>1, Invariance, PTL

\* Whoever awaits a dial awaits one under way, even after a reset has erased it
\* from its slot or where there is no class to dial with; and where there is one,
\* no slot of a pool that was not reset is stuck.
THEOREM NobodyIsStranded == Spec => []NobodyStranded
<1>1. IInv => NobodyStranded
  BY DEF IInv, Own, Known, Told, Waiting, NobodyStranded, NeverStuck, Running, TypeOK
<1>2. QED
  BY <1>1, Invariance, PTL
=============================================================================
