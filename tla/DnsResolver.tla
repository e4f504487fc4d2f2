------------------------------- MODULE DnsResolver -------------------------------
(***************************************************************************)
(* DnsResolver.resolveIpv4 and _resolveViaBrook (dns-resolver.js): a cache *)
(* of answers that are handed out in turn, one query at a time for a host  *)
(* and for whoever else asks meanwhile, and the query itself, whose onData *)
(* is an asynchronous callback that nothing keeps from running again while *)
(* it waits.                                                               *)
(***************************************************************************)
EXTENDS Naturals, Sequences, FiniteSets

None == "none"

CONSTANTS
    Calls,              \* calls of resolveIpv4
    Hosts,
    Records,            \* the addresses a host has, in the order of the answer
    MAX_CACHE_SIZE,     \* 1000 in the code
    MaxData,            \* bound on the chunks of one answer
    MaxClears           \* bound on the calls of clear()

ASSUME DnsAssumption ==
    /\ MAX_CACHE_SIZE \in Nat \ {0} /\ MaxData \in Nat /\ MaxClears \in Nat
    /\ \A h \in Hosts : Len(Records[h]) \in Nat \ {0} /\ DOMAIN Records[h] = 1..Len(Records[h])
    /\ Calls \cap {None, "new", "session", "waiting", "answered", "failed", "done"} = {}
    /\ None \notin Hosts
Units == <<"nonce", "length", "payload">>   \* the server's bytes, cut between or inside

VARIABLES
    pc,         \* where each call is
    host,       \* whom it asks for
    result,     \* what it returned: an index into Records, or 0 for null
    cache,      \* the Map, in insertion order
    pending,    \* the call whose query answers for a host
    query,      \* the query of each call that makes one
    clears

vars == <<pc, host, result, cache, pending, query, clears>>

\* promise    "open", or how the promise around the stream was settled
\* come       how many units have come; rx: those in rxBuf
\* sn, sk     the server's nonce is known, its key is there
\* expected   the length is known; opened: how often the nonce was advanced
\* ops        the awaits of the onData calls, and whether they will succeed
NoQuery ==
    [promise |-> "open", come |-> 0, data |-> 0, rx |-> <<>>, sn |-> FALSE, sk |-> FALSE,
     expected |-> FALSE, opened |-> 0, ops |-> <<>>]

Init ==
    /\ pc = [c \in Calls |-> "new"]
    /\ host = [c \in Calls |-> None] /\ result = [c \in Calls |-> 0]
    /\ cache = <<>>
    /\ pending = [h \in Hosts |-> None]
    /\ query = [c \in Calls |-> NoQuery]
    /\ clears = 0

-----------------------------------------------------------------------------
(* The cache *)

Entries(h) == {i \in DOMAIN cache : cache[i].host = h}
Cached(h) == Entries(h) # {}
Entry(h) == CHOOSE i \in Entries(h) : TRUE
Without(i) == SubSeq(cache, 1, i - 1) \o SubSeq(cache, i + 1, Len(cache))

\* Mutant: the turn does not move on.
Advanced_Not(e) == [e EXCEPT !.served[e.next] = @ + 1]

\* roundRobinIdx moves on; `served` counts how often each address was chosen.
Advanced(e) == [e EXCEPT !.served[e.next] = @ + 1, !.next = (e.next % Len(Records[e.host])) + 1]

NewEntry(h) ==
    [host |-> h, next |-> 1, fresh |-> TRUE, served |-> [i \in DOMAIN Records[h] |-> 0]]

\* _setCache: the oldest entry goes when the Map is full; a host that is
\* there keeps its place.
SetCache(h) ==
    LET room == IF Len(cache) >= MAX_CACHE_SIZE THEN Tail(cache) ELSE cache
        same == {i \in DOMAIN room : room[i].host = h}
    IN  IF same = {} THEN Append(room, NewEntry(h))
        ELSE [i \in DOMAIN room |-> IF i \in same THEN NewEntry(h) ELSE room[i]]

Expire(h) ==
    /\ Cached(h) /\ cache[Entry(h)].fresh
    /\ cache' = [cache EXCEPT ![Entry(h)].fresh = FALSE]
    /\ UNCHANGED <<pc, host, result, pending, query, clears>>

Clear ==
    /\ clears < MaxClears /\ clears' = clears + 1
    /\ cache' = <<>> /\ pending' = [h \in Hosts |-> None]
    /\ UNCHANGED <<pc, host, result, query>>

-----------------------------------------------------------------------------
(* resolveIpv4 *)

Goto(c, p) == pc' = [pc EXCEPT ![c] = p]

Return(c, ip) == Goto(c, "done") /\ result' = [result EXCEPT ![c] = ip]

\* The address whose turn it is.
Serve(c, h) ==
    /\ Return(c, cache[Entry(h)].next)
    /\ cache' = [cache EXCEPT ![Entry(h)] = Advanced(@)]

MustAsk(h) == pending[h] = None

Resolve(c, h) ==
    /\ pc[c] = "new" /\ host' = [host EXCEPT ![c] = h]
    /\ IF Cached(h) /\ cache[Entry(h)].fresh
       THEN Serve(c, h) /\ UNCHANGED <<pending, query>>
       ELSE /\ cache' = IF Cached(h) THEN Without(Entry(h)) ELSE cache
            /\ IF MustAsk(h)
               THEN Goto(c, "session") /\ pending' = [pending EXCEPT ![h] = c]
               ELSE pc' = [pc EXCEPT ![c] = pending[h]] /\ UNCHANGED pending
            /\ UNCHANGED <<result, query>>
    /\ UNCHANGED clears

\* The query is over: its owner, and whoever waits for it, go on one by one.
\* Without an entry (clear() was called, or the Map was full) an owner takes
\* the first address and another call any.
QueryOver(q) == pc[q] \in {"answered", "failed", "done"}
Succeeded(q) == query[q].promise = "answer"

\* Mutant of OwnerReturns: the promise stays in the Map when it fails.
OwnerReturns_Keeps(c) ==
    /\ pc[c] \in {"answered", "failed"}
    /\ pending' = IF pc[c] = "failed" THEN pending ELSE [pending EXCEPT ![host[c]] = None]
    /\ IF pc[c] = "failed" THEN Return(c, 0) /\ UNCHANGED cache
       ELSE IF Cached(host[c]) THEN Serve(c, host[c])
       ELSE Return(c, 1) /\ UNCHANGED cache
    /\ UNCHANGED <<host, query, clears>>

OwnerReturns(c) ==
    /\ pc[c] \in {"answered", "failed"}
    /\ pending' = [pending EXCEPT ![host[c]] = None]    \* whoever's it is
    /\ IF pc[c] = "failed" THEN Return(c, 0) /\ UNCHANGED cache
       ELSE IF Cached(host[c]) THEN Serve(c, host[c])
       ELSE Return(c, 1) /\ UNCHANGED cache
    /\ UNCHANGED <<host, query, clears>>

SharerReturns(c) ==
    /\ pc[c] \in Calls /\ QueryOver(pc[c])
    /\ IF ~Succeeded(pc[c]) THEN Return(c, 0) /\ UNCHANGED cache
       ELSE IF Cached(host[c]) THEN Serve(c, host[c])
       ELSE (\E i \in DOMAIN Records[host[c]] : Return(c, i)) /\ UNCHANGED cache
    /\ UNCHANGED <<host, pending, query, clears>>

-----------------------------------------------------------------------------
(* _resolveViaBrook *)

\* createSession, and then the keys, the frames and ensureConnected; any of
\* them may fail.
Prepare(c) ==
    /\ pc[c] = "session"
    /\ Goto(c, "waiting") \/ Goto(c, "failed")
    /\ UNCHANGED <<host, result, cache, pending, query, clears>>

\* The first to settle the promise decides.
Settled(q, how) == [q EXCEPT !.promise = IF @ = "open" THEN how ELSE @]

\* The timer, a send that fails, onError and onClose.
Stops(c) ==
    /\ pc[c] = "waiting" /\ query[c].promise = "open"
    /\ query' = [query EXCEPT ![c] = Settled(@, "nothing")]
    /\ UNCHANGED <<pc, host, result, cache, pending, clears>>

Awaits(q, i, op, good) == [q EXCEPT !.ops[i] = [op |-> op, good |-> good]]

\* What the i-th onData does next: at most one await, for which the nonce is
\* advanced before and the buffer cut after.
Payload(q, i) ==
    IF q.sk /\ q.expected /\ q.rx # <<>>
    THEN Awaits([q EXCEPT !.opened = @ + 1], i, "payload", q.opened = 1 /\ q.rx[1] = "payload")
    ELSE Awaits(q, i, "over", TRUE)

Length(q, i) ==
    IF q.sk /\ ~q.expected /\ q.rx # <<>>
    THEN Awaits([q EXCEPT !.opened = @ + 1], i, "length", q.opened = 0 /\ q.rx[1] = "length")
    ELSE Payload(q, i)

Nonce(q, i) ==
    IF ~q.sn /\ q.rx # <<>>
    THEN Awaits([q EXCEPT !.sn = TRUE, !.rx = Tail(@)], i, "key", TRUE)
    ELSE Length(q, i)

\* onData with n more whole units; 0 when the chunk ends inside one.
Data(c, n) ==
    /\ pc[c] = "waiting" /\ query[c].promise = "open"
    /\ query[c].come < Len(Units) /\ query[c].data < MaxData
    /\ n \in 0..(Len(Units) - query[c].come)
    /\ LET q == query[c]
           merged == [q EXCEPT !.come = @ + n, !.data = @ + 1,
                               !.rx = @ \o SubSeq(Units, q.come + 1, q.come + n),
                               !.ops = Append(@, [op |-> "over", good |-> TRUE])]
       IN  query' = [query EXCEPT ![c] = Nonce(merged, Len(merged.ops))]
    /\ UNCHANGED <<pc, host, result, cache, pending, clears>>

\* The await of the i-th onData ends.  An answer may hold no address.
Resumed(q, i) ==
    CASE ~q.ops[i].good -> {Settled(Awaits(q, i, "over", TRUE), "nothing")}
      [] q.ops[i].good /\ q.ops[i].op = "key" -> {Length([q EXCEPT !.sk = TRUE], i)}
      [] q.ops[i].good /\ q.ops[i].op = "length" ->
           {Payload([q EXCEPT !.expected = TRUE, !.rx = Tail(@)], i)}
      [] q.ops[i].good /\ q.ops[i].op = "payload" ->
           {Settled(Awaits(q, i, "over", TRUE), how) : how \in {"answer", "nothing"}}

Resume(c, i) ==
    /\ pc[c] = "waiting" /\ query[c].promise = "open" /\ query[c].ops[i].op # "over"
    /\ \E q \in Resumed(query[c], i) : query' = [query EXCEPT ![c] = q]
    /\ UNCHANGED <<pc, host, result, cache, pending, clears>>

\* The promise is settled: the answer is kept, the session closed and the
\* stream forgotten.
Settle(c) ==
    /\ pc[c] = "waiting" /\ query[c].promise # "open"
    /\ IF query[c].promise = "answer"
       THEN Goto(c, "answered") /\ cache' = SetCache(host[c])
       ELSE Goto(c, "failed") /\ UNCHANGED cache
    /\ query' = [query EXCEPT ![c] = [NoQuery EXCEPT !.promise = query[c].promise]]
    /\ UNCHANGED <<host, result, pending, clears>>

-----------------------------------------------------------------------------
Next ==
    \/ \E c \in Calls :
        \/ \E h \in Hosts : Resolve(c, h)
        \/ Prepare(c) \/ Stops(c) \/ Settle(c)
        \/ \E n \in 0..Len(Units) : Data(c, n)
        \/ \E i \in DOMAIN query[c].ops : Resume(c, i)
        \/ OwnerReturns(c) \/ SharerReturns(c)
    \/ \E h \in Hosts : Expire(h)
    \/ Clear

Spec == Init /\ [][Next]_vars

TypeOK ==
    /\ pc \in [Calls -> {"new", "session", "waiting", "answered", "failed", "done"} \cup Calls]
    /\ \A c \in Calls : /\ host[c] \in Hosts \cup {None}
                        /\ result[c] # 0 => result[c] \in DOMAIN Records[host[c]]
                        /\ Len(query[c].rx) <= Len(Units) /\ query[c].come <= Len(Units)
                        /\ query[c].promise \in {"open", "answer", "nothing"}
    /\ \A i \in DOMAIN cache : cache[i].next \in DOMAIN Records[cache[i].host]
    /\ pending \in [Hosts -> Calls \cup {None}]
    /\ clears \in 0..MaxClears

Asking(h) == {c \in Calls : host[c] = h /\ pc[c] \in {"session", "waiting"}}

\* The variables keep their types, and without clear() a host is asked for by
\* one query at a time, whatever the order in which queries, their owners and
\* those who share them go on; the Map never holds a promise nobody is behind;
\* and who shares a query shares one that was begun for the same host.
OneQuery ==
    /\ TypeOK
    /\ clears = 0 => \A h \in Hosts : Cardinality(Asking(h)) <= 1
    /\ \A h \in Hosts : pending[h] # None => pc[pending[h]] # "done"
    /\ \A c \in Calls : pc[c] \in Calls => pc[pc[c]] # "new" /\ host[pc[c]] = host[c]

\* The Map is bounded and has one entry for a host, and the addresses of an
\* entry are handed out evenly, to hits, owners and sharers alike.
EvenlyServed ==
    /\ Len(cache) <= MAX_CACHE_SIZE
    /\ \A i, j \in DOMAIN cache : cache[i].host = cache[j].host => i = j
    /\ \A k \in DOMAIN cache : \A i, j \in DOMAIN cache[k].served :
           cache[k].served[i] <= cache[k].served[j] + 1
=============================================================================
