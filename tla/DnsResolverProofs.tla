--------------------------- MODULE DnsResolverProofs ---------------------------
(***************************************************************************)
(* Invariance proofs about the resolver, for any calls, hosts, records and *)
(* size of the Map.  Three parts that need one another: what the callbacks *)
(* of a query can have done to its buffer, which calls a promise of the    *)
(* Map can belong to, and whose turn it is in an entry.                    *)
(***************************************************************************)
EXTENDS DnsResolver, FiniteSetTheorems, TLAPS

-----------------------------------------------------------------------------
(* The query's callbacks *)

OpNames == {"over", "key", "length", "payload"}

Cuts == {"nonce", "length", "payload"}

Ops == Seq([op : OpNames, good : BOOLEAN])

Queries ==
    [promise : {"open", "answer", "nothing"}, come : 0..Len(Units), data : Nat, rx : Seq(Cuts),
     sn : BOOLEAN, sk : BOOLEAN, expected : BOOLEAN, opened : Nat,
     ops : Ops]

\* The awaits that will resolve with a length.
Lengths(q) == {i \in DOMAIN q.ops : q.ops[i].op = "length" /\ q.ops[i].good}

\* Only one await opens the length, with the nonce it was sealed with, and
\* while it is pending its bytes are in the buffer.  L is the set of those awaits.
SoundBut(q, L) ==
    /\ Len(q.rx) <= q.come
    /\ q.sk => q.sn
    /\ \A i \in DOMAIN q.ops : q.ops[i].op = "key" => q.sn
    /\ q.expected => q.opened > 0
    /\ \A i \in L : q.sn /\ ~q.expected /\ q.opened > 0 /\ q.rx # <<>>
    /\ \A i, j \in L : i = j

Sound(q) == q \in Queries /\ SoundBut(q, Lengths(q))

\* The i-th callback is about to go on.
Going(q, i) ==
    q \in Queries /\ i \in DOMAIN q.ops /\ SoundBut(q, Lengths(q) \ {i})

LEMMA UnitsLen == Len(Units) = 3 /\ Units \in Seq(Cuts)
  BY SMT DEF Units, Cuts

LEMMA AwaitsShape ==
    ASSUME NEW q \in Queries, NEW i \in DOMAIN q.ops, NEW op \in OpNames, NEW good \in BOOLEAN
    PROVE  /\ Awaits(q, i, op, good) \in Queries
           /\ DOMAIN Awaits(q, i, op, good).ops = DOMAIN q.ops
           /\ Awaits(q, i, op, good).ops[i] = [op |-> op, good |-> good]
           /\ \A j \in DOMAIN q.ops : j # i => Awaits(q, i, op, good).ops[j] = q.ops[j]
           /\ Awaits(q, i, op, good).rx = q.rx /\ Awaits(q, i, op, good).come = q.come
           /\ Awaits(q, i, op, good).sn = q.sn /\ Awaits(q, i, op, good).sk = q.sk
           /\ Awaits(q, i, op, good).expected = q.expected
           /\ Awaits(q, i, op, good).opened = q.opened
<1> DEFINE a == [q.ops EXCEPT ![i] = [op |-> op, good |-> good]]
<1>1. Awaits(q, i, op, good) = [q EXCEPT !.ops = a]
  BY DEF Awaits, Queries
<1>2. q.ops \in Ops /\ [op |-> op, good |-> good] \in [op : OpNames, good : BOOLEAN]
  BY DEF Queries
<1>3. a \in Ops /\ DOMAIN a = DOMAIN q.ops
      /\ a[i] = [op |-> op, good |-> good] /\ \A j \in DOMAIN q.ops : j # i => a[j] = q.ops[j]
  BY <1>2 DEF Ops
<1> HIDE DEF a
<1>4. QED
  BY <1>1, <1>3 DEF Queries

\* An await that is no good length leaves the others as they are.
LEMMA AwaitsSound ==
    ASSUME NEW q, NEW i, Going(q, i), NEW op \in OpNames, NEW good \in BOOLEAN,
           op = "length" => ~good, op = "key" => q.sn
    PROVE  Sound(Awaits(q, i, op, good))
<1> DEFINE r == Awaits(q, i, op, good)
<1>1. q \in Queries /\ i \in DOMAIN q.ops
  BY DEF Going
<1>2. /\ r \in Queries /\ DOMAIN r.ops = DOMAIN q.ops
      /\ r.ops[i] = [op |-> op, good |-> good]
      /\ \A j \in DOMAIN q.ops : j # i => r.ops[j] = q.ops[j]
      /\ r.rx = q.rx /\ r.come = q.come /\ r.sn = q.sn /\ r.sk = q.sk
      /\ r.expected = q.expected /\ r.opened = q.opened
  BY <1>1, AwaitsShape
<1> HIDE DEF r
<1>3. Lengths(r) = Lengths(q) \ {i}
  BY <1>1, <1>2 DEF Lengths
<1>4. SoundBut(q, Lengths(q) \ {i})
  BY DEF Going
<1>5. \A j \in DOMAIN r.ops : r.ops[j].op = "key" => r.sn
  BY <1>1, <1>2, <1>4 DEF SoundBut
<1>6. SoundBut(r, Lengths(r))
  BY <1>2, <1>3, <1>4, <1>5 DEF SoundBut
<1>7. QED
  BY <1>2, <1>6 DEF Sound, r

\* The nonce is advanced once more.
LEMMA OpenedGoing ==
    ASSUME NEW q, NEW i, Going(q, i)
    PROVE  Going([q EXCEPT !.opened = @ + 1], i)
<1> DEFINE r == [q EXCEPT !.opened = @ + 1]
<1>1. q \in Queries /\ q.opened \in Nat
  BY DEF Going, Queries
<1>2. /\ r \in Queries /\ r.ops = q.ops /\ r.opened = q.opened + 1 /\ r.rx = q.rx /\ r.come = q.come
      /\ r.sn = q.sn /\ r.sk = q.sk /\ r.expected = q.expected
  BY <1>1 DEF Queries
<1> HIDE DEF r
<1>3. Lengths(r) = Lengths(q)
  BY <1>2 DEF Lengths
<1>4. r.opened > 0
  BY <1>1, <1>2
<1>5. SoundBut(r, Lengths(r) \ {i})
  BY <1>2, <1>3, <1>4 DEF Going, SoundBut
<1>6. QED
  BY <1>2, <1>5 DEF Going, r

LEMMA PayloadSound ==
    ASSUME NEW q, NEW i, Going(q, i)
    PROVE  Sound(Payload(q, i))
<1>1. Sound(Awaits(q, i, "over", TRUE))
  BY AwaitsSound DEF OpNames
<1>2. ASSUME NEW good \in BOOLEAN
      PROVE Sound(Awaits([q EXCEPT !.opened = @ + 1], i, "payload", good))
  BY OpenedGoing, AwaitsSound DEF OpNames
<1>3. (q.opened = 1 /\ q.rx[1] = "payload") \in BOOLEAN
  OBVIOUS
<1>4. QED
  BY <1>1, <1>2, <1>3 DEF Payload

\* The one await that can be a good length is begun with the nonce unused.
LEMMA LengthSound ==
    ASSUME NEW q, NEW i, Going(q, i)
    PROVE  Sound(Length(q, i))
<1> DEFINE p == [q EXCEPT !.opened = @ + 1]
           good == q.opened = 0 /\ q.rx[1] = "length"
           r == Awaits(p, i, "length", good)
<1>1. CASE ~(q.sk /\ ~q.expected /\ q.rx # <<>>)
  BY <1>1, PayloadSound DEF Length
<1>2. CASE q.sk /\ ~q.expected /\ q.rx # <<>>
  <2>1. Length(q, i) = r
    BY <1>2 DEF Length
  <2>2. Going(p, i)
    BY OpenedGoing
  <2> good \in BOOLEAN
    OBVIOUS
  <2>3. CASE ~good
    <3>1. Sound(r)
      BY <2>2, <2>3, AwaitsSound DEF OpNames
    <3>2. QED
      BY <2>1, <3>1
  <2>4. CASE good
    <3>1. q \in Queries /\ q.opened = 0 /\ SoundBut(q, Lengths(q) \ {i}) /\ i \in DOMAIN q.ops
      BY <2>4 DEF Going
    <3>2. Lengths(q) \ {i} = {}
      BY <3>1 DEF SoundBut
    <3>3. /\ p \in Queries /\ p.ops = q.ops /\ p.opened = 1 /\ p.rx = q.rx /\ p.come = q.come
          /\ p.sn = q.sn /\ p.sk = q.sk /\ p.expected = q.expected
      BY <3>1 DEF Queries
    <3> HIDE DEF p, good
    <3>4. /\ r \in Queries /\ DOMAIN r.ops = DOMAIN q.ops
          /\ r.ops[i] = [op |-> "length", good |-> good]
          /\ \A j \in DOMAIN q.ops : j # i => r.ops[j] = q.ops[j]
          /\ r.rx = q.rx /\ r.come = q.come /\ r.sn = q.sn /\ r.sk = q.sk
          /\ r.expected = q.expected /\ r.opened = 1
      BY <3>1, <3>3, AwaitsShape DEF OpNames
    <3> HIDE DEF r
    <3>5. Lengths(r) \subseteq {i}
      BY <3>2, <3>4 DEF Lengths
    <3>6. \A j \in DOMAIN r.ops : r.ops[j].op = "key" => r.sn
      BY <3>1, <3>4 DEF SoundBut
    <3>7. SoundBut(r, Lengths(r))
      BY <1>2, <3>1, <3>4, <3>5, <3>6 DEF SoundBut
    <3>8. QED
      BY <2>1, <3>4, <3>7 DEF Sound
  <2>5. QED
    BY <2>3, <2>4
<1>3. QED
  BY <1>1, <1>2

LEMMA TailShape ==
    ASSUME NEW S, NEW s \in Seq(S), s # <<>>
    PROVE  /\ Tail(s) \in Seq(S) /\ Len(s) \in Nat /\ Len(Tail(s)) = Len(s) - 1
           /\ \A i \in 1..Len(s) - 1 : Tail(s)[i] = s[i + 1]
  BY SMT

LEMMA ItemIn == ASSUME NEW S, NEW s \in Seq(S), NEW i \in DOMAIN s PROVE s[i] \in S
  BY SMT

LEMMA SliceShape ==
    ASSUME NEW S, NEW s \in Seq(S), NEW a \in Nat, NEW b \in Nat, a + b <= Len(s)
    PROVE  SubSeq(s, a + 1, a + b) \in Seq(S) /\ Len(SubSeq(s, a + 1, a + b)) = b
  BY SMT

LEMMA NonceSound ==
    ASSUME NEW q, NEW i, Going(q, i)
    PROVE  Sound(Nonce(q, i))
<1> DEFINE p == [q EXCEPT !.sn = TRUE, !.rx = Tail(@)]
<1>1. CASE ~(~q.sn /\ q.rx # <<>>)
  BY <1>1, LengthSound DEF Nonce
<1>2. CASE ~q.sn /\ q.rx # <<>>
  <2>1. Nonce(q, i) = Awaits(p, i, "key", TRUE)
    BY <1>2 DEF Nonce
  <2>2. q \in Queries /\ SoundBut(q, Lengths(q) \ {i}) /\ i \in DOMAIN q.ops
    BY DEF Going
  <2>3. q.rx \in Seq(Cuts) /\ q.come \in Nat /\ Len(q.rx) <= q.come
    BY <2>2, UnitsLen DEF Queries, SoundBut
  <2>4. Tail(q.rx) \in Seq(Cuts) /\ Len(Tail(q.rx)) <= q.come
    BY <1>2, <2>3, TailShape
  <2>5. /\ p \in Queries /\ p.ops = q.ops /\ p.opened = q.opened /\ p.rx = Tail(q.rx)
        /\ p.come = q.come /\ p.sn = TRUE /\ p.sk = q.sk /\ p.expected = q.expected
    BY <2>2, <2>4 DEF Queries
  <2>6. Lengths(q) \ {i} = {} /\ Lengths(p) = Lengths(q)
    BY <1>2, <2>2, <2>5 DEF SoundBut, Lengths
  <2> HIDE DEF p
  <2>7. SoundBut(p, Lengths(p) \ {i})
    BY <2>2, <2>4, <2>5, <2>6 DEF SoundBut
  <2>8. Going(p, i)
    BY <2>2, <2>5, <2>7 DEF Going
  <2>9. QED
    BY <2>1, <2>5, <2>8, AwaitsSound DEF OpNames
<1>3. QED
  BY <1>1, <1>2

-----------------------------------------------------------------------------
QueryInv == query \in [Calls -> Queries] /\ \A c \in Calls : Sound(query[c])

LEMMA MergedShape ==
    ASSUME NEW q \in Queries, NEW come \in 0..Len(Units), NEW data \in Nat, NEW rx \in Seq(Cuts),
           NEW ops \in Ops
    PROVE  [q EXCEPT !.come = come, !.data = data, !.rx = rx, !.ops = ops] \in Queries
  BY DEF Queries

LEMMA SettledSound ==
    ASSUME NEW q, Sound(q), NEW how \in {"answer", "nothing"}
    PROVE  Sound(Settled(q, how))
<1> DEFINE r == Settled(q, how)
<1>1. q \in Queries
  BY DEF Sound
<1>2. /\ r \in Queries /\ r.ops = q.ops /\ r.opened = q.opened /\ r.rx = q.rx /\ r.come = q.come
      /\ r.sn = q.sn /\ r.sk = q.sk /\ r.expected = q.expected
  BY <1>1 DEF Settled, Queries
<1> HIDE DEF r
<1>3. Lengths(r) = Lengths(q)
  BY <1>2 DEF Lengths
<1>4. QED
  BY <1>2, <1>3 DEF Sound, SoundBut, r

LEMMA NoQuerySound ==
    /\ Sound(NoQuery)
    /\ \A p \in {"open", "answer", "nothing"} : Sound([NoQuery EXCEPT !.promise = p])
<1>1. <<>> \in Seq(Cuts) /\ <<>> \in Ops /\ DOMAIN <<>> = {} /\ Len(<<>>) = 0
  BY SMT DEF Ops
<1>2. /\ NoQuery \in Queries /\ NoQuery.ops = <<>> /\ NoQuery.rx = <<>> /\ NoQuery.come = 0
      /\ NoQuery.sk = FALSE /\ NoQuery.expected = FALSE
  BY <1>1, UnitsLen DEF NoQuery, Queries
<1>3. ASSUME NEW r, r \in Queries, r.ops = <<>>, r.rx = <<>>, r.come = 0, ~r.sk, ~r.expected
      PROVE  Sound(r)
  <2>1. Lengths(r) = {}
    BY <1>1, <1>3 DEF Lengths
  <2>2. QED
    BY <1>1, <1>3, <2>1 DEF Sound, SoundBut
<1>4. ASSUME NEW p \in {"open", "answer", "nothing"} PROVE Sound([NoQuery EXCEPT !.promise = p])
  <2> DEFINE r == [NoQuery EXCEPT !.promise = p]
  <2>1. /\ r \in Queries /\ r.ops = <<>> /\ r.rx = <<>> /\ r.come = 0
        /\ r.sk = FALSE /\ r.expected = FALSE
    BY <1>2 DEF Queries
  <2> HIDE DEF r
  <2>2. QED
    BY <1>3, <2>1 DEF r
<1>5. QED
  BY <1>2, <1>3, <1>4

\* A chunk is merged, and its callback is the last of them.
LEMMA MergedGoing ==
    ASSUME NEW q, Sound(q), NEW n \in 0..(Len(Units) - q.come)
    PROVE  LET merged == [q EXCEPT !.come = @ + n, !.data = @ + 1,
                                   !.rx = @ \o SubSeq(Units, q.come + 1, q.come + n),
                                   !.ops = Append(@, [op |-> "over", good |-> TRUE])]
           IN  Going(merged, Len(merged.ops))
<1> DEFINE more == SubSeq(Units, q.come + 1, q.come + n)
           r == [q EXCEPT !.come = @ + n, !.data = @ + 1, !.rx = @ \o more,
                          !.ops = Append(@, [op |-> "over", good |-> TRUE])]
           new == Append(q.ops, [op |-> "over", good |-> TRUE])
           N == Len(new)
<1>1. q \in Queries /\ q.come \in 0..3 /\ n \in 0..3 /\ q.come + n \in 0..3 /\ q.data \in Nat
      /\ q.rx \in Seq(Cuts) /\ Len(q.rx) <= q.come
  BY UnitsLen DEF Sound, Queries, SoundBut
<1>2. more \in Seq(Cuts) /\ Len(more) = n
  <2>1. q.come \in Nat /\ n \in Nat /\ q.come + n <= Len(Units)
    BY <1>1, UnitsLen
  <2>2. QED
    BY <2>1, UnitsLen, SliceShape
<1> HIDE DEF more
<1>3. q.rx \o more \in Seq(Cuts) /\ Len(q.rx \o more) = Len(q.rx) + n /\ Len(q.rx) \in Nat
      /\ (q.rx # <<>> => q.rx \o more # <<>>)
  BY <1>1, <1>2, SMT
<1>4. [op |-> "over", good |-> TRUE] \in [op : OpNames, good : BOOLEAN]
      /\ q.ops \in Seq([op : OpNames, good : BOOLEAN])
  BY <1>1 DEF OpNames, Queries, Ops
<1>5. /\ new \in Seq([op : OpNames, good : BOOLEAN]) /\ N \in DOMAIN new
      /\ new[N] = [op |-> "over", good |-> TRUE]
      /\ \A i \in DOMAIN new : i # N => i \in DOMAIN q.ops /\ new[i] = q.ops[i]
      /\ \A i \in DOMAIN q.ops : i \in DOMAIN new /\ i # N
  BY <1>4, SMT
<1> HIDE DEF new, N
<1>6. /\ r.ops = new /\ r.opened = q.opened /\ r.rx = q.rx \o more /\ r.come = q.come + n
      /\ r.sn = q.sn /\ r.sk = q.sk /\ r.expected = q.expected /\ r.data = q.data + 1
      /\ r.promise = q.promise
  BY <1>1 DEF Queries, new
<1>7. r \in Queries
  <2>1. r = [q EXCEPT !.come = q.come + n, !.data = q.data + 1, !.rx = q.rx \o more, !.ops = new]
    BY DEF new
  <2>2. new \in Ops
    BY <1>5 DEF Ops
  <2>3. q.come + n \in 0..Len(Units) /\ q.data + 1 \in Nat
    BY <1>1, UnitsLen
  <2> HIDE DEF r
  <2>4. QED
    BY <1>1, <1>3, <2>1, <2>2, <2>3, MergedShape
<1> HIDE DEF r
<1>8. Lengths(r) = Lengths(q)
  BY <1>5, <1>6 DEF Lengths
<1>9. \A i \in DOMAIN r.ops : r.ops[i].op = "key" => r.sn
  BY <1>5, <1>6 DEF Sound, SoundBut
<1>10. Len(r.rx) <= r.come
  BY <1>1, <1>3, <1>6
<1>11. SoundBut(r, Lengths(r) \ {N})
  BY <1>3, <1>6, <1>8, <1>9, <1>10 DEF Sound, SoundBut
<1>12. Going(r, N) /\ N = Len(r.ops)
  BY <1>5, <1>6, <1>7, <1>11 DEF Going, N
<1>13. QED
  BY <1>12 DEF r, more

\* Whatever the await gave, the callback leaves the query sound.
LEMMA ResumedSound ==
    ASSUME NEW q, Sound(q), NEW i \in DOMAIN q.ops, q.ops[i].op # "over", NEW r \in Resumed(q, i)
    PROVE  Sound(r)
<1>1. q \in Queries /\ SoundBut(q, Lengths(q))
  BY DEF Sound
<1>2. q.ops[i] \in [op : OpNames, good : BOOLEAN]
  <2>1. q.ops \in Seq([op : OpNames, good : BOOLEAN])
    BY <1>1 DEF Queries, Ops
  <2>2. QED
    BY <2>1, ItemIn
<1>3. Going(q, i)
  BY <1>1 DEF Going, SoundBut
<1>4. Sound(Awaits(q, i, "over", TRUE))
  BY <1>3, AwaitsSound DEF OpNames
<1>5. CASE ~q.ops[i].good
  <2>1. r = Settled(Awaits(q, i, "over", TRUE), "nothing")
    BY <1>5 DEF Resumed
  <2>2. QED
    BY <2>1, <1>4, SettledSound
<1>6. CASE q.ops[i].good /\ q.ops[i].op = "key"
  <2> DEFINE p == [q EXCEPT !.sk = TRUE]
  <2>1. r = Length(p, i)
    BY <1>6 DEF Resumed
  <2>2. /\ p \in Queries /\ p.ops = q.ops /\ p.opened = q.opened /\ p.rx = q.rx
        /\ p.come = q.come /\ p.sn = q.sn /\ p.expected = q.expected
    BY <1>1 DEF Queries
  <2>3. q.sn
    BY <1>1, <1>6 DEF SoundBut
  <2> HIDE DEF p
  <2>4. Lengths(p) = Lengths(q)
    BY <2>2 DEF Lengths
  <2>5. Going(p, i)
    BY <1>3, <2>2, <2>3, <2>4 DEF Going, SoundBut
  <2>6. QED
    BY <2>1, <2>5, LengthSound
<1>7. CASE q.ops[i].good /\ q.ops[i].op = "length"
  <2> DEFINE p == [q EXCEPT !.expected = TRUE, !.rx = Tail(@)]
  <2>1. r = Payload(p, i)
    BY <1>7 DEF Resumed
  <2>2. i \in Lengths(q)
    BY <1>7 DEF Lengths
  <2>3. q.rx # <<>> /\ q.opened > 0 /\ Lengths(q) \ {i} = {}
    BY <1>1, <2>2 DEF SoundBut
  <2>4. q.rx \in Seq(Cuts) /\ q.come \in Nat /\ Len(q.rx) <= q.come
    BY <1>1, UnitsLen DEF Queries, SoundBut
  <2>5. Tail(q.rx) \in Seq(Cuts) /\ Len(Tail(q.rx)) <= q.come
    BY <2>3, <2>4, TailShape
  <2>6. /\ p \in Queries /\ p.ops = q.ops /\ p.opened = q.opened /\ p.rx = Tail(q.rx)
        /\ p.come = q.come /\ p.sn = q.sn /\ p.sk = q.sk /\ p.expected = TRUE
    BY <1>1, <2>5 DEF Queries
  <2> HIDE DEF p
  <2>7. Lengths(p) \ {i} = {}
    BY <2>3, <2>6 DEF Lengths
  <2>8. SoundBut(p, Lengths(p) \ {i})
    BY <1>1, <2>3, <2>5, <2>6, <2>7 DEF SoundBut
  <2>9. Going(p, i)
    BY <2>6, <2>8 DEF Going
  <2>10. QED
    BY <2>1, <2>9, PayloadSound
<1>8. CASE q.ops[i].good /\ q.ops[i].op = "payload"
  <2>1. PICK how \in {"answer", "nothing"} : r = Settled(Awaits(q, i, "over", TRUE), how)
    BY <1>8 DEF Resumed
  <2>2. QED
    BY <2>1, <1>4, SettledSound
<1>9. QED
  BY <1>2, <1>5, <1>6, <1>7, <1>8 DEF OpNames

LEMMA QueryStep == ASSUME QueryInv, [Next]_vars PROVE QueryInv'
<1>1. ASSUME NEW c \in Calls, NEW q, Sound(q), query' = [query EXCEPT ![c] = q] PROVE QueryInv'
  BY <1>1 DEF QueryInv, Sound
<1>2. CASE UNCHANGED query
  BY <1>2 DEF QueryInv
<1>3. ASSUME NEW c \in Calls, NEW h \in Hosts, Resolve(c, h) PROVE QueryInv'
  BY <1>2, <1>3 DEF Resolve, Serve
<1>4. ASSUME NEW c \in Calls, Prepare(c) \/ OwnerReturns(c) \/ SharerReturns(c) PROVE QueryInv'
  BY <1>2, <1>4 DEF Prepare, OwnerReturns, SharerReturns
<1>5. ASSUME NEW c \in Calls, Stops(c) PROVE QueryInv'
  <2>1. query' = [query EXCEPT ![c] = Settled(query[c], "nothing")]
    BY <1>5 DEF Stops
  <2>2. Sound(Settled(query[c], "nothing"))
    BY SettledSound DEF QueryInv
  <2>3. QED
    BY <2>1, <2>2, <1>1
<1>6. ASSUME NEW c \in Calls, Settle(c) PROVE QueryInv'
  <2>1. query' = [query EXCEPT ![c] = [NoQuery EXCEPT !.promise = query[c].promise]]
    BY <1>6 DEF Settle
  <2>2. query[c].promise \in {"open", "answer", "nothing"}
    BY DEF QueryInv, Queries
  <2>3. QED
    BY <2>1, <2>2, <1>1, NoQuerySound
<1>7. ASSUME NEW c \in Calls, NEW n \in 0..Len(Units), Data(c, n) PROVE QueryInv'
  <2> DEFINE q == query[c]
             merged == [q EXCEPT !.come = @ + n, !.data = @ + 1,
                                 !.rx = @ \o SubSeq(Units, q.come + 1, q.come + n),
                                 !.ops = Append(@, [op |-> "over", good |-> TRUE])]
  <2>1. query' = [query EXCEPT ![c] = Nonce(merged, Len(merged.ops))]
        /\ n \in 0..(Len(Units) - q.come)
    BY <1>7 DEF Data
  <2>2. Sound(q)
    BY DEF QueryInv
  <2>3. Going(merged, Len(merged.ops))
    <3> HIDE DEF q
    <3>1. QED
      BY <2>1, <2>2, MergedGoing
  <2> HIDE DEF q, merged
  <2>4. QED
    BY <2>1, <2>3, <1>1, NonceSound
<1>8. ASSUME NEW c \in Calls, NEW i \in DOMAIN query[c].ops, Resume(c, i) PROVE QueryInv'
  <2>1. PICK q \in Resumed(query[c], i) : query' = [query EXCEPT ![c] = q]
    BY <1>8 DEF Resume
  <2>2. Sound(query[c]) /\ query[c].ops[i].op # "over"
    BY <1>8 DEF QueryInv, Resume
  <2>3. QED
    BY <2>1, <2>2, <1>1, ResumedSound
<1>9. CASE Clear \/ UNCHANGED vars \/ \E h \in Hosts : Expire(h)
  BY <1>2, <1>9 DEF Clear, Expire, vars
<1>10. QED
  BY <1>3, <1>4, <1>5, <1>6, <1>7, <1>8, <1>9 DEF Next

-----------------------------------------------------------------------------
(* The Map *)

SlotsOf(h) ==
    [host : {h}, next : DOMAIN Records[h], fresh : BOOLEAN, served : [DOMAIN Records[h] -> Nat]]

\* Each address before the one whose turn it is was chosen once more than those
\* from there on.
Turn(e) == \E b \in Nat : \A i \in DOMAIN e.served : e.served[i] = IF i < e.next THEN b + 1 ELSE b

Slots == {e \in UNION {SlotsOf(h) : h \in Hosts} : Turn(e)}

OneEach(q) == \A i, j \in DOMAIN q : q[i].host = q[j].host => i = j

CacheInv == cache \in Seq(Slots) /\ Len(cache) <= MAX_CACHE_SIZE /\ OneEach(cache)

LEMMA RecordsShape == ASSUME NEW h \in Hosts
    PROVE Len(Records[h]) \in Nat \ {0} /\ DOMAIN Records[h] = 1..Len(Records[h])
  BY DnsAssumption

LEMMA NewEntrySlot == ASSUME NEW h \in Hosts PROVE NewEntry(h) \in Slots /\ NewEntry(h).host = h
<1> DEFINE e == NewEntry(h)
<1>1. e \in SlotsOf(h) /\ e.served = [i \in DOMAIN Records[h] |-> 0] /\ e.next = 1 /\ e.host = h
  BY RecordsShape DEF NewEntry, SlotsOf
<1>2. \A i \in DOMAIN e.served : e.served[i] = IF i < e.next THEN 0 + 1 ELSE 0
  <2> HIDE DEF e
  <2>1. QED
    BY <1>1, RecordsShape
<1>3. Turn(e)
  BY <1>2 DEF Turn
<1>4. QED
  BY <1>1, <1>3 DEF Slots

LEMMA StaleSlot ==
    ASSUME NEW e \in Slots
    PROVE  [e EXCEPT !.fresh = FALSE] \in Slots /\ [e EXCEPT !.fresh = FALSE].host = e.host
<1> DEFINE r == [e EXCEPT !.fresh = FALSE]
<1>1. PICK h \in Hosts : e \in SlotsOf(h) /\ Turn(e)
  BY DEF Slots
<1>2. r \in SlotsOf(h) /\ r.served = e.served /\ r.next = e.next /\ r.host = e.host
  BY <1>1 DEF SlotsOf
<1> HIDE DEF r
<1>3. Turn(r)
  BY <1>1, <1>2 DEF Turn
<1>4. QED
  BY <1>2, <1>3 DEF Slots, r

\* The next index, with the wrap of the remainder.
LEMMA NextIndex ==
    ASSUME NEW n \in Nat \ {0}, NEW k \in 1..n
    PROVE  (k % n) + 1 = IF k = n THEN 1 ELSE k + 1
<1>1. CASE k = n
  <2>1. n % n = 0
    BY SMT
  <2>2. QED
    BY <1>1, <2>1
<1>2. CASE k # n
  <2>1. k % n = k
    BY <1>2, SMT
  <2>2. QED
    BY <1>2, <2>1
<1>3. QED
  BY <1>1, <1>2

LEMMA AdvancedSlot ==
    ASSUME NEW e \in Slots PROVE Advanced(e) \in Slots /\ Advanced(e).host = e.host
<1> DEFINE r == Advanced(e)
<1>1. PICK h \in Hosts : e \in SlotsOf(h) /\ Turn(e)
  BY DEF Slots
<1> DEFINE n == Len(Records[h])
           k == e.next
           k1 == (k % n) + 1
           s == e.served
           s1 == [s EXCEPT ![k] = @ + 1]
<1>2. n \in Nat \ {0} /\ DOMAIN Records[h] = 1..n
  BY RecordsShape
<1>3. e.host = h /\ k \in 1..n /\ s \in [1..n -> Nat]
  BY <1>1, <1>2 DEF SlotsOf
<1>4. k1 = (IF k = n THEN 1 ELSE k + 1) /\ k1 \in 1..n
  <2> HIDE DEF n, k
  <2>1. k1 = IF k = n THEN 1 ELSE k + 1
    BY <1>2, <1>3, NextIndex
  <2>2. QED
    BY <1>2, <1>3, <2>1
<1>5. r = [e EXCEPT !.served = s1, !.next = k1]
  BY <1>1, <1>3 DEF Advanced, SlotsOf
<1>6. s1 \in [1..n -> Nat] /\ \A i \in 1..n : s1[i] = IF i = k THEN s[i] + 1 ELSE s[i]
  BY <1>3
<1>7. r \in SlotsOf(h) /\ r.served = s1 /\ r.next = k1 /\ r.host = h
  <2> HIDE DEF r, s1, k1, n
  <2>1. QED
    BY <1>1, <1>2, <1>3, <1>4, <1>5, <1>6 DEF SlotsOf
<1>8. PICK b \in Nat : \A i \in 1..n : s[i] = IF i < k THEN b + 1 ELSE b
  BY <1>1, <1>3 DEF Turn
<1> HIDE DEF r, s1, k1, n, s, k
<1>9. CASE k = n
  <2>1. \A i \in 1..n : s1[i] = IF i < k1 THEN (b + 1) + 1 ELSE b + 1
    BY <1>2, <1>3, <1>4, <1>6, <1>8, <1>9
  <2>2. DOMAIN r.served = 1..n /\ b + 1 \in Nat
    BY <1>6, <1>7
  <2>3. Turn(r)
    BY <1>7, <2>1, <2>2 DEF Turn
  <2>4. QED
    BY <1>3, <1>7, <2>3 DEF Slots, r
<1>10. CASE k # n
  <2>1. \A i \in 1..n : s1[i] = IF i < k1 THEN b + 1 ELSE b
    BY <1>2, <1>3, <1>4, <1>6, <1>8, <1>10
  <2>2. DOMAIN r.served = 1..n
    BY <1>6, <1>7
  <2>3. Turn(r)
    BY <1>7, <2>1, <2>2 DEF Turn
  <2>4. QED
    BY <1>3, <1>7, <2>3 DEF Slots, r
<1>11. QED
  BY <1>9, <1>10

LEMMA EntryIn == ASSUME NEW h, Cached(h)
    PROVE Entry(h) \in DOMAIN cache /\ cache[Entry(h)].host = h
  BY DEF Entry, Entries, Cached

\* One entry is replaced by another one of its host.
LEMMA Replaced ==
    ASSUME NEW q \in Seq(Slots), OneEach(q), NEW i \in DOMAIN q, NEW e \in Slots, e.host = q[i].host
    PROVE  /\ [q EXCEPT ![i] = e] \in Seq(Slots) /\ OneEach([q EXCEPT ![i] = e])
           /\ Len([q EXCEPT ![i] = e]) = Len(q)
<1> DEFINE r == [q EXCEPT ![i] = e]
<1>1. r \in Seq(Slots) /\ Len(r) = Len(q)
  BY SMT
<1>2. DOMAIN r = DOMAIN q /\ \A j \in DOMAIN q : r[j].host = q[j].host
  OBVIOUS
<1> HIDE DEF r
<1>3. OneEach(r)
  BY <1>2 DEF OneEach
<1>4. QED
  BY <1>1, <1>3 DEF r

LEMMA JoinShape ==
    ASSUME NEW S, NEW a \in Seq(S), NEW b \in Seq(S), NEW r, r = a \o b
    PROVE  /\ r \in Seq(S) /\ Len(r) = Len(a) + Len(b)
           /\ \A j \in 1..Len(a) : r[j] = a[j]
           /\ \A j \in 1..Len(b) : r[Len(a) + j] = b[j]
<1>1. r \in Seq(S) /\ Len(r) = Len(a) + Len(b) /\ Len(a) \in Nat /\ Len(b) \in Nat
  BY SMT
<1>2. ASSUME NEW j \in 1..Len(a) PROVE r[j] = a[j]
  BY SMT
<1>3. ASSUME NEW j \in 1..Len(b) PROVE r[Len(a) + j] = b[j]
  BY SMT
<1>4. QED
  BY <1>1, <1>2, <1>3

LEMMA CutShape ==
    ASSUME NEW S, NEW s \in Seq(S), NEW i \in 1..Len(s)
    PROVE  LET r == SubSeq(s, 1, i - 1) \o SubSeq(s, i + 1, Len(s))
           IN  /\ r \in Seq(S) /\ Len(r) = Len(s) - 1
               /\ \A j \in 1..Len(s) - 1 : r[j] = IF j < i THEN s[j] ELSE s[j + 1]
<1> DEFINE n == Len(s)
           a == SubSeq(s, 1, i - 1)
           b == SubSeq(s, i + 1, n)
           r == a \o b
<1>1. n \in Nat /\ i \in 1..n
  BY SMT
<1>2. a \in Seq(S) /\ Len(a) = i - 1 /\ \A j \in 1..i - 1 : a[j] = s[j]
  BY <1>1, SMT
<1>3. b \in Seq(S) /\ Len(b) = n - i /\ \A j \in 1..n - i : b[j] = s[j + i]
  BY <1>1, SMT
<1> HIDE DEF a, b, n
<1>4. r \in Seq(S) /\ Len(r) = Len(a) + Len(b)
      /\ (\A j \in 1..Len(a) : r[j] = a[j])
      /\ \A j \in 1..Len(b) : r[Len(a) + j] = b[j]
  <2>1. a \in Seq(S) /\ b \in Seq(S) /\ r = a \o b
    BY <1>2, <1>3
  <2> HIDE DEF r
  <2>2. QED
    BY <2>1, JoinShape
<1> HIDE DEF r
<1>5. ASSUME NEW j \in 1..n - 1 PROVE r[j] = IF j < i THEN s[j] ELSE s[j + 1]
  <2>1. CASE j < i
    <3>1. j \in 1..i - 1
      BY <1>1, <2>1
    <3>2. QED
      BY <1>2, <1>4, <2>1, <3>1
  <2>2. CASE ~(j < i)
    <3>1. j - (i - 1) \in 1..n - i /\ (i - 1) + (j - (i - 1)) = j /\ (j - (i - 1)) + i = j + 1
      BY <1>1, <2>2
    <3>2. r[j] = b[j - (i - 1)] /\ b[j - (i - 1)] = s[j + 1]
      BY <1>2, <1>3, <1>4, <3>1
    <3>3. QED
      BY <2>2, <3>2
  <2>3. QED
    BY <2>1, <2>2
<1>6. Len(r) = n - 1
  BY <1>1, <1>2, <1>3, <1>4
<1>7. QED
  BY <1>4, <1>5, <1>6 DEF r, a, b, n

\* Map.delete
LEMMA WithoutShape ==
    ASSUME CacheInv, NEW i \in DOMAIN cache
    PROVE  /\ Without(i) \in Seq(Slots) /\ OneEach(Without(i)) /\ Len(Without(i)) <= MAX_CACHE_SIZE
<1> DEFINE n == Len(cache)
           r == Without(i)
<1>1. cache \in Seq(Slots) /\ n \in Nat /\ i \in 1..n /\ DOMAIN cache = 1..n
  BY SMT DEF CacheInv
<1>2. r \in Seq(Slots) /\ Len(r) = n - 1
      /\ \A j \in 1..n - 1 : r[j] = IF j < i THEN cache[j] ELSE cache[j + 1]
  BY <1>1, CutShape DEF Without
<1> HIDE DEF r
<1>3. ASSUME NEW a \in DOMAIN r, NEW b \in DOMAIN r, r[a].host = r[b].host PROVE a = b
  <2> DEFINE f(j) == IF j < i THEN j ELSE j + 1
  <2>1. DOMAIN r = 1..n - 1
    BY <1>1, <1>2, SMT
  <2>2. a \in 1..n - 1 /\ b \in 1..n - 1 /\ f(a) \in 1..n /\ f(b) \in 1..n
    BY <1>1, <1>3, <2>1
  <2>3. r[a] = cache[f(a)] /\ r[b] = cache[f(b)]
    BY <1>2, <2>2
  <2>4. f(a) = f(b)
    <3> HIDE DEF f
    <3>1. QED
      BY <1>1, <1>3, <2>2, <2>3 DEF CacheInv, OneEach
  <2>5. QED
    BY <1>1, <2>2, <2>4
<1>4. n - 1 <= MAX_CACHE_SIZE
  BY <1>1, DnsAssumption DEF CacheInv
<1>5. QED
  BY <1>2, <1>3, <1>4 DEF OneEach, r

\* _setCache
LEMMA SetCacheShape ==
    ASSUME CacheInv, NEW h \in Hosts
    PROVE  /\ SetCache(h) \in Seq(Slots) /\ OneEach(SetCache(h))
           /\ Len(SetCache(h)) <= MAX_CACHE_SIZE
<1> DEFINE room == IF Len(cache) >= MAX_CACHE_SIZE THEN Tail(cache) ELSE cache
           same == {i \in DOMAIN room : room[i].host = h}
           new == NewEntry(h)
<1>1. cache \in Seq(Slots) /\ Len(cache) \in Nat /\ Len(cache) <= MAX_CACHE_SIZE
      /\ OneEach(cache) /\ MAX_CACHE_SIZE \in Nat \ {0}
  BY DnsAssumption, SMT DEF CacheInv
<1>2. room \in Seq(Slots) /\ OneEach(room) /\ Len(room) \in Nat /\ Len(room) < MAX_CACHE_SIZE
  <2>1. CASE Len(cache) >= MAX_CACHE_SIZE
    <3>1. cache # <<>>
      BY <1>1, <2>1, SMT
    <3>2. Tail(cache) \in Seq(Slots) /\ Len(Tail(cache)) = Len(cache) - 1
          /\ \A i \in 1..Len(cache) - 1 : Tail(cache)[i] = cache[i + 1]
      BY <1>1, <3>1, TailShape
    <3>3. DOMAIN Tail(cache) = 1..Len(cache) - 1 /\ DOMAIN cache = 1..Len(cache)
      BY <1>1, <3>2, SMT
    <3>4. OneEach(Tail(cache))
      <4>1. ASSUME NEW i \in 1..Len(cache) - 1, NEW j \in 1..Len(cache) - 1,
                   Tail(cache)[i].host = Tail(cache)[j].host
            PROVE  i = j
        <5>1. i + 1 \in DOMAIN cache /\ j + 1 \in DOMAIN cache
          BY <1>1, <3>3
        <5>2. i + 1 = j + 1
          BY <1>1, <3>2, <4>1, <5>1 DEF OneEach
        <5>3. QED
          BY <5>2
      <4>2. QED
        BY <3>3, <4>1 DEF OneEach
    <3>5. QED
      BY <1>1, <2>1, <3>2, <3>4
  <2>2. CASE ~(Len(cache) >= MAX_CACHE_SIZE)
    BY <1>1, <2>2
  <2>3. QED
    BY <2>1, <2>2
<1>3. new \in Slots /\ new.host = h
  BY NewEntrySlot
<1>4. SetCache(h) = IF same = {} THEN Append(room, new)
                    ELSE [i \in DOMAIN room |-> IF i \in same THEN new ELSE room[i]]
  BY DEF SetCache
<1> HIDE DEF room, new
<1>5. CASE same = {}
  <2> DEFINE r == Append(room, new)
             N == Len(room) + 1
  <2>1. r \in Seq(Slots) /\ Len(r) = N /\ DOMAIN r = 1..N /\ r[N] = new
        /\ (\A i \in 1..N - 1 : r[i] = room[i]) /\ DOMAIN room = 1..N - 1
    BY <1>2, <1>3, SMT
  <2> HIDE DEF r
  <2>2. \A i \in 1..N - 1 : r[i].host # h
    BY <1>5, <2>1
  <2>3. OneEach(r)
    <3>1. ASSUME NEW i \in 1..N, NEW j \in 1..N, r[i].host = r[j].host PROVE i = j
      <4>1. CASE i = N \/ j = N
        <5>1. \A a \in 1..N : a # N => a \in 1..N - 1
          BY <1>2
        <5>2. QED
          BY <1>3, <2>1, <2>2, <3>1, <4>1, <5>1
      <4>2. CASE i # N /\ j # N
        <5>1. i \in 1..N - 1 /\ j \in 1..N - 1
          BY <1>2, <4>2
        <5>2. QED
          BY <1>2, <2>1, <3>1, <5>1 DEF OneEach
      <4>3. QED
        BY <4>1, <4>2
    <3>2. QED
      BY <2>1, <3>1 DEF OneEach
  <2>4. N <= MAX_CACHE_SIZE
    BY <1>1, <1>2
  <2>5. QED
    BY <1>4, <1>5, <2>1, <2>3, <2>4 DEF r
<1>6. CASE same # {}
  <2> DEFINE r == [i \in DOMAIN room |-> IF i \in same THEN new ELSE room[i]]
  <2>1. DOMAIN room = 1..Len(room) /\ \A i \in DOMAIN room : room[i] \in Slots
    BY <1>2, SMT
  <2>2. DOMAIN r = 1..Len(room) /\ (\A i \in DOMAIN r : r[i] \in Slots)
        /\ \A i \in DOMAIN r : r[i].host = room[i].host
    BY <1>3, <2>1
  <2>3. r \in [1..Len(room) -> Slots]
    BY <1>3, <2>1
  <2> HIDE DEF r
  <2>4. r \in Seq(Slots) /\ Len(r) = Len(room)
    BY <1>2, <2>3, SMT
  <2>5. OneEach(r)
    BY <1>2, <2>1, <2>2 DEF OneEach
  <2>6. Len(r) <= MAX_CACHE_SIZE
    BY <1>1, <1>2, <2>4
  <2>7. QED
    BY <1>4, <1>6, <2>4, <2>5, <2>6 DEF r
<1>7. QED
  BY <1>5, <1>6

-----------------------------------------------------------------------------
(* The calls and the promises of the Map *)

Running == {"session", "waiting", "answered", "failed"}

CallInv ==
    /\ pc \in [Calls -> {"new", "done"} \cup Running \cup Calls]
    /\ host \in [Calls -> Hosts \cup {None}]
    /\ result \in [Calls -> Nat]
    /\ pending \in [Hosts -> Calls \cup {None}]
    /\ clears \in 0..MaxClears
    /\ \A c \in Calls : pc[c] # "new" => host[c] \in Hosts
    /\ \A c \in Calls : pc[c] # "done" => result[c] = 0
    /\ \A c \in Calls : pc[c] = "done" /\ result[c] # 0 => result[c] \in DOMAIN Records[host[c]]

\* A promise of the Map is that of a running query for its host, without clear()
\* every running query's is in the Map, and who shares a query shares one that
\* was begun for its own host.
OwnerInv ==
    /\ \A h \in Hosts : pending[h] # None => host[pending[h]] = h /\ pc[pending[h]] \in Running
    /\ clears = 0 => \A c \in Calls : pc[c] \in Running => pending[host[c]] = c
    /\ \A c \in Calls : pc[c] \in Calls =>
           pc[pc[c]] \in Running \cup {"done"} /\ host[pc[c]] = host[c]

ResolverInv == QueryInv /\ CacheInv /\ CallInv /\ OwnerInv

LEMMA Apart ==
    /\ None \notin Calls /\ "new" \notin Calls /\ "done" \notin Calls /\ None \notin Hosts
    /\ Running \cap Calls = {} /\ "new" \notin Running /\ "done" \notin Running
  BY DnsAssumption DEF Running, None

\* A hit, an owner or a sharer takes its turn.
LEMMA Served ==
    ASSUME CacheInv, NEW c, NEW h \in Hosts, Cached(h), Serve(c, h)
    PROVE  CacheInv' /\ cache[Entry(h)].next \in DOMAIN Records[h]
<1> DEFINE i == Entry(h)
           e == cache[i]
<1>1. i \in DOMAIN cache /\ e.host = h /\ cache \in Seq(Slots)
  BY EntryIn DEF CacheInv
<1>2. e \in Slots
  BY <1>1, ItemIn
<1>3. Advanced(e) \in Slots /\ Advanced(e).host = e.host
  BY <1>2, AdvancedSlot
<1>4. cache' = [cache EXCEPT ![i] = Advanced(e)]
  BY DEF Serve
<1> HIDE DEF i
<1>5. CacheInv'
  BY <1>1, <1>3, <1>4, Replaced DEF CacheInv
<1>6. e.next \in DOMAIN Records[h]
  BY <1>1, <1>2 DEF Slots, SlotsOf
<1>7. QED
  BY <1>5, <1>6 DEF i

LEMMA CacheStep == ASSUME CacheInv, CallInv, OwnerInv, [Next]_vars PROVE CacheInv'
<1>1. CASE UNCHANGED cache
  BY <1>1 DEF CacheInv
<1>2. ASSUME NEW c \in Calls, NEW h \in Hosts, Resolve(c, h) PROVE CacheInv'
  <2>1. CASE Cached(h) /\ cache[Entry(h)].fresh
    BY <1>2, <2>1, Served DEF Resolve
  <2>2. CASE ~(Cached(h) /\ cache[Entry(h)].fresh)
    <3>1. cache' = IF Cached(h) THEN Without(Entry(h)) ELSE cache
      BY <1>2, <2>2 DEF Resolve
    <3>2. CASE Cached(h)
      BY <3>1, <3>2, EntryIn, WithoutShape DEF CacheInv
    <3>3. QED
      BY <1>1, <3>1, <3>2
  <2>3. QED
    BY <2>1, <2>2
<1>3. ASSUME NEW c \in Calls, OwnerReturns(c) \/ SharerReturns(c) PROVE CacheInv'
  <2>1. host[c] \in Hosts
    BY <1>3, Apart DEF CallInv, OwnerReturns, SharerReturns, Running
  <2>2. UNCHANGED cache \/ (Cached(host[c]) /\ Serve(c, host[c]))
    BY <1>3 DEF OwnerReturns, SharerReturns
  <2>3. QED
    BY <2>1, <2>2, <1>1, Served
<1>4. ASSUME NEW c \in Calls, Settle(c) PROVE CacheInv'
  <2>1. host[c] \in Hosts
    BY <1>4 DEF CallInv, Settle
  <2>2. UNCHANGED cache \/ cache' = SetCache(host[c])
    BY <1>4 DEF Settle
  <2>3. QED
    BY <2>1, <2>2, <1>1, SetCacheShape DEF CacheInv
<1>5. ASSUME NEW h \in Hosts, Expire(h) PROVE CacheInv'
  <2> DEFINE i == Entry(h)
  <2>1. i \in DOMAIN cache /\ cache \in Seq(Slots)
    BY <1>5, EntryIn DEF CacheInv, Expire
  <2>2. cache[i] \in Slots
    BY <2>1, ItemIn
  <2>3. cache' = [cache EXCEPT ![i] = [cache[i] EXCEPT !.fresh = FALSE]]
    BY <1>5 DEF Expire
  <2> HIDE DEF i
  <2>4. QED
    BY <2>1, <2>2, <2>3, StaleSlot, Replaced DEF CacheInv
<1>6. CASE Clear
  <2>1. cache' = <<>>
    BY <1>6 DEF Clear
  <2>2. cache' \in Seq(Slots) /\ Len(cache') = 0 /\ DOMAIN cache' = {}
    BY <2>1, SMT
  <2>3. QED
    BY <2>2, DnsAssumption DEF CacheInv, OneEach
<1>7. ASSUME NEW c \in Calls,
             \/ Prepare(c) \/ Stops(c) \/ \E n \in 0..Len(Units) : Data(c, n)
             \/ \E i \in DOMAIN query[c].ops : Resume(c, i)
      PROVE  CacheInv'
  BY <1>1, <1>7 DEF Prepare, Stops, Data, Resume
<1>8. CASE UNCHANGED vars
  BY <1>1, <1>8 DEF vars
<1>9. QED
  BY <1>2, <1>3, <1>4, <1>5, <1>6, <1>7, <1>8 DEF Next

\* A call returns an address of its host or null.
LEMMA Returned ==
    ASSUME CallInv, NEW c \in Calls, pc[c] # "new", NEW ip \in Nat, Return(c, ip),
           ip # 0 => ip \in DOMAIN Records[host[c]],
           UNCHANGED <<host, clears>>, pending' \in [Hosts -> Calls \cup {None}]
    PROVE  CallInv'
  BY DEF CallInv, Return, Goto

\* A call goes on that has begun and is not over.
LEMMA Moved ==
    ASSUME CallInv, NEW c \in Calls, pc[c] \in Running, NEW p \in Running, Goto(c, p),
           UNCHANGED <<host, result, pending, clears>>
    PROVE  CallInv'
  BY Apart DEF CallInv, Goto

LEMMA CallStep == ASSUME CacheInv, CallInv, OwnerInv, [Next]_vars PROVE CallInv'
<1>1. CASE UNCHANGED <<pc, host, result, pending, clears>>
  BY <1>1 DEF CallInv
<1>2. ASSUME NEW c \in Calls, NEW h \in Hosts, Resolve(c, h) PROVE CallInv'
  <2>1. pc[c] = "new" /\ result[c] = 0 /\ host' = [host EXCEPT ![c] = h] /\ UNCHANGED clears
    BY <1>2 DEF Resolve, CallInv
  <2>2. CASE Cached(h) /\ cache[Entry(h)].fresh
    <3>1. Serve(c, h) /\ UNCHANGED pending
      BY <1>2, <2>2 DEF Resolve
    <3>2. cache[Entry(h)].next \in DOMAIN Records[h]
      BY <2>2, <3>1, Served
    <3>3. cache[Entry(h)].next \in Nat
      BY <3>2, RecordsShape
    <3>4. QED
      BY <2>1, <3>1, <3>2, <3>3, Apart DEF CallInv, Serve, Return, Goto
  <2>3. CASE ~(Cached(h) /\ cache[Entry(h)].fresh)
    <3>1. UNCHANGED result
      BY <1>2, <2>3 DEF Resolve
    <3>2. CASE MustAsk(h)
      <4>1. Goto(c, "session") /\ pending' = [pending EXCEPT ![h] = c]
        BY <1>2, <2>3, <3>2 DEF Resolve
      <4>2. QED
        BY <2>1, <3>1, <4>1, Apart DEF CallInv, Goto, Running
    <3>3. CASE ~MustAsk(h)
      <4>1. pc' = [pc EXCEPT ![c] = pending[h]] /\ UNCHANGED pending /\ pending[h] \in Calls
        BY <1>2, <2>3, <3>3 DEF Resolve, MustAsk, CallInv
      <4>2. QED
        BY <2>1, <3>1, <4>1, Apart DEF CallInv
    <3>4. QED
      BY <3>2, <3>3
  <2>4. QED
    BY <2>2, <2>3
<1>3. ASSUME NEW c \in Calls, OwnerReturns(c) \/ SharerReturns(c) PROVE CallInv'
  <2>1. host[c] \in Hosts /\ pc[c] # "new"
    BY <1>3, Apart DEF CallInv, OwnerReturns, SharerReturns, Running
  <2>2. 1 \in DOMAIN Records[host[c]] /\ DOMAIN Records[host[c]] \subseteq Nat
    BY <2>1, RecordsShape
  <2>3. \/ Return(c, 0)
        \/ Cached(host[c]) /\ Serve(c, host[c])
        \/ \E i \in DOMAIN Records[host[c]] : Return(c, i)
    BY <1>3, <2>2 DEF OwnerReturns, SharerReturns
  <2>4. PICK ip \in Nat : Return(c, ip) /\ (ip # 0 => ip \in DOMAIN Records[host[c]])
    <3>1. CASE Cached(host[c]) /\ Serve(c, host[c])
      <4>1. cache[Entry(host[c])].next \in DOMAIN Records[host[c]]
            /\ Return(c, cache[Entry(host[c])].next)
        BY <2>1, <3>1, Served DEF Serve
      <4>2. QED
        BY <2>2, <4>1
    <3>2. QED
      BY <2>2, <2>3, <3>1
  <2>5. pending' \in [Hosts -> Calls \cup {None}] /\ UNCHANGED <<host, clears>>
    BY <1>3, <2>1 DEF CallInv, OwnerReturns, SharerReturns
  <2>6. QED
    BY <2>1, <2>4, <2>5, Returned
<1>4. ASSUME NEW c \in Calls, Prepare(c) \/ Settle(c) PROVE CallInv'
  <2>1. pc[c] \in Running /\ (\E p \in Running : Goto(c, p))
        /\ UNCHANGED <<host, result, pending, clears>>
    BY <1>4 DEF Prepare, Settle, Running
  <2>2. QED
    BY <2>1, Moved
<1>5. CASE Clear
  BY <1>5, DnsAssumption DEF Clear, CallInv
<1>6. CASE \E h \in Hosts : Expire(h)
  BY <1>1, <1>6 DEF Expire
<1>7. ASSUME NEW c \in Calls,
             \/ Stops(c) \/ \E n \in 0..Len(Units) : Data(c, n)
             \/ \E i \in DOMAIN query[c].ops : Resume(c, i)
      PROVE  CallInv'
  BY <1>1, <1>7 DEF Stops, Data, Resume
<1>8. CASE UNCHANGED vars
  BY <1>1, <1>8 DEF vars
<1>9. QED
  BY <1>2, <1>3, <1>4, <1>5, <1>6, <1>7, <1>8 DEF Next

LEMMA OwnerStep == ASSUME CallInv, OwnerInv, [Next]_vars PROVE OwnerInv'
<1>1. CASE UNCHANGED <<pc, host, pending, clears>>
  BY <1>1 DEF OwnerInv
<1>2. ASSUME NEW c \in Calls, NEW h \in Hosts, Resolve(c, h) PROVE OwnerInv'
  <2>1. pc[c] = "new" /\ host' = [host EXCEPT ![c] = h] /\ UNCHANGED clears
    BY <1>2 DEF Resolve
  <2>2. CASE Cached(h) /\ cache[Entry(h)].fresh
    <3>1. Goto(c, "done") /\ UNCHANGED pending
      BY <1>2, <2>2 DEF Resolve, Serve, Return
    <3>2. QED
      BY <2>1, <3>1, Apart DEF CallInv, OwnerInv, Goto
  <2>3. CASE ~(Cached(h) /\ cache[Entry(h)].fresh) /\ MustAsk(h)
    <3>1. Goto(c, "session") /\ pending' = [pending EXCEPT ![h] = c] /\ pending[h] = None
      BY <1>2, <2>3 DEF Resolve, MustAsk
    <3>2. QED
      BY <2>1, <3>1, Apart DEF CallInv, OwnerInv, Goto, Running
  <2>4. CASE ~(Cached(h) /\ cache[Entry(h)].fresh) /\ ~MustAsk(h)
    <3>1. pc' = [pc EXCEPT ![c] = pending[h]] /\ UNCHANGED pending /\ pending[h] # None
      BY <1>2, <2>4 DEF Resolve, MustAsk
    <3>2. QED
      BY <2>1, <3>1, Apart DEF CallInv, OwnerInv
  <2>5. QED
    BY <2>2, <2>3, <2>4
<1>3. ASSUME NEW c \in Calls, OwnerReturns(c) PROVE OwnerInv'
  <2>1. /\ Goto(c, "done") /\ UNCHANGED <<host, clears>>
        /\ pending' = [pending EXCEPT ![host[c]] = None]
    BY <1>3 DEF OwnerReturns, Serve, Return
  <2>2. host[c] \in Hosts /\ pc[c] \in Running
    BY <1>3, Apart DEF CallInv, OwnerReturns, Running
  <2>3. QED
    BY <2>1, <2>2, Apart DEF CallInv, OwnerInv, Goto
<1>4. ASSUME NEW c \in Calls, SharerReturns(c) PROVE OwnerInv'
  <2>1. Goto(c, "done") /\ UNCHANGED <<host, clears, pending>> /\ pc[c] \in Calls
    BY <1>4 DEF SharerReturns, Serve, Return
  <2>2. QED
    BY <2>1, Apart DEF CallInv, OwnerInv, Goto
<1>5. ASSUME NEW c \in Calls, Prepare(c) \/ Settle(c) PROVE OwnerInv'
  <2>1. pc[c] \in Running /\ (\E p \in Running : Goto(c, p)) /\ UNCHANGED <<host, pending, clears>>
    BY <1>5 DEF Prepare, Settle, Running
  <2>2. QED
    BY <2>1, Apart DEF CallInv, OwnerInv, Goto
<1>6. CASE Clear
  BY <1>6, DnsAssumption DEF Clear, CallInv, OwnerInv
<1>7. CASE \E h \in Hosts : Expire(h)
  BY <1>1, <1>7 DEF Expire
<1>8. ASSUME NEW c \in Calls,
             \/ Stops(c) \/ \E n \in 0..Len(Units) : Data(c, n)
             \/ \E i \in DOMAIN query[c].ops : Resume(c, i)
      PROVE  OwnerInv'
  BY <1>1, <1>8 DEF Stops, Data, Resume
<1>9. CASE UNCHANGED vars
  BY <1>1, <1>9 DEF vars
<1>10. QED
  BY <1>2, <1>3, <1>4, <1>5, <1>6, <1>7, <1>8, <1>9 DEF Next

LEMMA ResolverInvariance == Spec => []ResolverInv
<1>1. Init => ResolverInv
  <2> SUFFICES ASSUME Init PROVE ResolverInv
    OBVIOUS
  <2>1. QueryInv
    BY NoQuerySound DEF Init, QueryInv, Sound
  <2>2. <<>> \in Seq(Slots) /\ Len(<<>>) = 0 /\ DOMAIN <<>> = {}
    BY SMT
  <2>3. CacheInv
    BY <2>2, DnsAssumption DEF Init, CacheInv, OneEach
  <2>4. CallInv
    BY DnsAssumption DEF Init, CallInv
  <2>5. OwnerInv
    BY Apart DEF Init, OwnerInv
  <2>6. QED
    BY <2>1, <2>3, <2>4, <2>5 DEF ResolverInv
<1>2. ResolverInv /\ [Next]_vars => ResolverInv'
  BY QueryStep, CacheStep, CallStep, OwnerStep DEF ResolverInv
<1>3. QED
  BY <1>1, <1>2, PTL DEF Spec

\* resolveIpv4: without clear() there is at most one query for a host at a time,
\* no promise outlives its query, and a query is shared by calls for its host.
THEOREM OneQueryForAHost == Spec => []OneQuery
<1>1. ASSUME ResolverInv PROVE TypeOK
  <2>1. ASSUME NEW c \in Calls
        PROVE  /\ host[c] \in Hosts \cup {None}
               /\ result[c] # 0 => result[c] \in DOMAIN Records[host[c]]
    BY <1>1 DEF ResolverInv, CallInv
  <2>2. ASSUME NEW c \in Calls
        PROVE  /\ Len(query[c].rx) <= Len(Units) /\ query[c].come <= Len(Units)
               /\ query[c].promise \in {"open", "answer", "nothing"}
    <3>1. query[c] \in Queries /\ Len(query[c].rx) <= query[c].come
      BY <1>1 DEF ResolverInv, QueryInv, Sound, SoundBut
    <3>2. query[c].come \in 0..3 /\ query[c].promise \in {"open", "answer", "nothing"}
          /\ query[c].rx \in Seq(Cuts)
      BY <3>1, UnitsLen DEF Queries
    <3>3. Len(query[c].rx) \in Nat
      BY <3>2, SMT
    <3>4. QED
      BY <3>1, <3>2, <3>3, UnitsLen
  <2>3. ASSUME NEW i \in DOMAIN cache PROVE cache[i].next \in DOMAIN Records[cache[i].host]
    <3>1. cache[i] \in Slots
      BY <1>1, ItemIn DEF ResolverInv, CacheInv
    <3>2. QED
      BY <3>1 DEF Slots, SlotsOf
  <2>4. QED
    BY <1>1, <2>1, <2>2, <2>3 DEF TypeOK, ResolverInv, CallInv, Running
<1>2. ASSUME ResolverInv, clears = 0, NEW h \in Hosts PROVE Cardinality(Asking(h)) <= 1
  <2>1. Asking(h) \subseteq {pending[h]}
    BY <1>2 DEF ResolverInv, OwnerInv, Asking, Running
  <2>2. IsFiniteSet({pending[h]}) /\ Cardinality({pending[h]}) = 1
    BY FS_Singleton
  <2>3. Cardinality(Asking(h)) <= Cardinality({pending[h]})
    BY <2>1, <2>2, FS_Subset
  <2>4. QED
    BY <2>2, <2>3
<1>3. ResolverInv => OneQuery
  BY <1>1, <1>2, Apart DEF OneQuery, ResolverInv, OwnerInv
<1>4. QED
  BY <1>3, ResolverInvariance, PTL

\* The cache and roundRobinIdx: the Map keeps to its size with one entry for a
\* host, and no address of an entry is chosen twice more than another.
THEOREM AddressesTakeTurns == Spec => []EvenlyServed
<1>1. ASSUME ResolverInv, NEW k \in DOMAIN cache, NEW i \in DOMAIN cache[k].served,
             NEW j \in DOMAIN cache[k].served
      PROVE  cache[k].served[i] <= cache[k].served[j] + 1
  <2>1. cache[k] \in Slots
    BY <1>1, ItemIn DEF ResolverInv, CacheInv
  <2>2. PICK b \in Nat : \A a \in DOMAIN cache[k].served :
            cache[k].served[a] = IF a < cache[k].next THEN b + 1 ELSE b
    BY <2>1 DEF Slots, Turn
  <2>3. cache[k].served[i] \in {b, b + 1} /\ cache[k].served[j] \in {b, b + 1}
    BY <2>2
  <2>4. QED
    BY <2>3
<1>2. ResolverInv => EvenlyServed
  BY <1>1 DEF ResolverInv, CacheInv, OneEach, EvenlyServed
<1>3. QED
  BY <1>2, ResolverInvariance, PTL
=============================================================================
