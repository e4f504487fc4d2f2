----------------------------- MODULE StreamProofs -----------------------------
(***************************************************************************)
(* Invariance proofs about the bytes of a stream.                          *)
(*                                                                         *)
(* The encrypted framing, for any sizes of words, nonces, tags and frames  *)
(* and any bytes: what is in flight, from where one side reads to where    *)
(* the other seals, is a sequence of nonce, length and payload boxes,      *)
(* each under the nonce after the one before it.                           *)
(*                                                                         *)
(* The proxied stream, for any clients that speak SOCKS5 or HTTP, any      *)
(* hosts and any chunks: what was taken of a client's bytes is at any time *)
(* the beginning of the message and of the body that the client sends, and *)
(* the stage of the handshake is the one those bytes lead to.  The loops   *)
(* over sequences (the lines of a header, the words of an address) are     *)
(* recursive functions; what they compute is shown by a least              *)
(* counterexample.                                                         *)
(***************************************************************************)
EXTENDS ProxyClients, SequenceTheorems, WellFoundedInduction, TLAPS

-----------------------------------------------------------------------------
(* What is laid on an encrypted stream *)

Nonces == 0..(WORD * WORD - 1)
Keys == {"shared", "other"} \X BOOLEAN \X Nonces
Units == [key : {<<>>} \cup Keys, nonce : Nonces, plain : Seq(Nat), at : Nat]

\* A place in the bytes of a stream where a box or a nonce begins: of which kind,
\* under which nonce, how many bytes of the text were before it, and of a
\* payload how long it is.
Place == [kind : {"nonce", "length", "body"}, nonce : Nonces, off : Nat, len : Nat]

At(kind, nonce, off, len) == [kind |-> kind, nonce |-> nonce, off |-> off, len |-> len]

Size(p, plain) == IF p.kind = "nonce" THEN NONCE_LENGTH ELSE Len(plain) + TAG_LENGTH

UnitAt(key, p, plain, i) ==
    [key |-> IF p.kind = "nonce" THEN <<>> ELSE key, nonce |-> p.nonce, plain |-> plain, at |-> i]

\* What stands at a place p whose text is plain.
BoxAt(key, p, plain) == [i \in 1..Size(p, plain) |-> UnitAt(key, p, plain, i)]

\* plain may stand at p, where the payloads are those of bodies, which are pairs
\* of what is before one and the payload.
Fits(bodies, p, plain) ==
    CASE p.kind = "nonce" -> plain = <<>>
      [] p.kind = "length" -> \E n \in Nat \ {0} : plain = PortBytes(n)
      [] p.kind = "body" -> Len(plain) = p.len /\ <<p.off, plain>> \in bodies

After(p, plain) ==
    CASE p.kind = "nonce" -> At("length", p.nonce, p.off, 0)
      [] p.kind = "length" -> At("body", NextNonce(p.nonce), p.off, plain[1] * 256 + plain[2])
      [] p.kind = "body" -> At("length", NextNonce(p.nonce), p.off + Len(plain), 0)

\* S is cut off from the m texts T at the places P, which begin at the units at.
Laid(S, key, bodies, m, P, T, at) ==
    /\ P \in [1..m + 1 -> Place] /\ T \in [1..m -> Seq(Nat)] /\ at \in [1..m + 1 -> Nat]
    /\ at[1] = 0 /\ Len(S) <= at[m + 1]
    /\ \A i, j \in 1..m + 1 : i <= j => at[i] <= at[j]
    /\ \A j \in 1..m :
           /\ Fits(bodies, P[j], T[j])
           /\ P[j + 1] = After(P[j], T[j])
           /\ at[j + 1] = at[j] + Size(P[j], T[j])
           /\ \A k \in 1..Size(P[j], T[j]) :
                  at[j] + k <= Len(S) => S[at[j] + k] = UnitAt(key, P[j], T[j], k)

\* S begins at the place first and leads to the place last; whole: up to it, and
\* not only on the way to it.
Flow(S, key, bodies, first, last, whole) ==
    /\ S \in Seq(Units)
    /\ \E m \in Nat : \E P, T, at :
           /\ Laid(S, key, bodies, m, P, T, at)
           /\ P[1] = first /\ P[m + 1] = last
           /\ whole => Len(S) = at[m + 1]

-----------------------------------------------------------------------------
(* How a stream is written and read *)

LEMMA NonceFacts ==
    /\ WORD \in Nat \ {0}
    /\ \A n \in Nonces : n \in Nat /\ NextNonce(n) \in Nonces
<1>1. WORD \in Nat \ {0}
  BY FramingAssumption
<1>2. WORD * WORD \in Nat \ {0}
  BY <1>1
<1>3. \A N \in Nat \ {0} : \A n \in 0..(N - 1) : n \in Nat /\ (n + 1) % N \in 0..(N - 1)
  OBVIOUS
<1>4. QED
  BY <1>1, <1>2, <1>3 DEF Nonces, NextNonce

LEMMA PortBytesFacts ==
    ASSUME NEW n \in Nat
    PROVE  /\ PortBytes(n) \in Seq(Nat) /\ Len(PortBytes(n)) = 2
           /\ PortBytes(n)[1] * 256 + PortBytes(n)[2] = n
<1>1. n \div 256 \in Nat /\ n % 256 \in Nat /\ (n \div 256) * 256 + (n % 256) = n
  OBVIOUS
<1>2. QED
  BY <1>1 DEF PortBytes

LEMMA PlaceFacts ==
    ASSUME NEW bodies, NEW p \in Place, NEW plain \in Seq(Nat), Fits(bodies, p, plain),
           NEW key \in Keys
    PROVE  /\ After(p, plain) \in Place
           /\ Size(p, plain) \in Nat \ {0}
           /\ BoxAt(key, p, plain) \in Seq(Units)
           /\ Len(BoxAt(key, p, plain)) = Size(p, plain)
<1>1. Size(p, plain) \in Nat \ {0}
  BY FramingAssumption DEF Size
<1>2. \A i \in 1..Size(p, plain) : UnitAt(key, p, plain, i) \in Units
  BY <1>1 DEF UnitAt, Units, Place
<1>3. /\ BoxAt(key, p, plain) \in Seq(Units)
      /\ Len(BoxAt(key, p, plain)) = Size(p, plain)
  BY <1>1, <1>2 DEF BoxAt
<1>4. NextNonce(p.nonce) \in Nonces /\ p.nonce \in Nonces
  BY NonceFacts DEF Place
<1>5. After(p, plain) \in Place
  <2>1. CASE p.kind = "nonce"
    BY <2>1, <1>4 DEF After, At, Place
  <2>2. CASE p.kind = "length"
    <3>1. PICK n \in Nat \ {0} : plain = PortBytes(n)
      BY <2>2 DEF Fits
    <3>2. plain[1] * 256 + plain[2] \in Nat
      BY <3>1, PortBytesFacts
    <3>3. QED
      BY <2>2, <3>2, <1>4 DEF After, At, Place
  <2>3. CASE p.kind = "body"
    BY <2>3, <1>4 DEF After, At, Place
  <2>4. QED
    BY <2>1, <2>2, <2>3 DEF Place
<1>6. QED
  BY <1>1, <1>3, <1>5

LEMMA FlowStarts ==
    ASSUME NEW key, NEW bodies, NEW first \in Place, NEW whole \in BOOLEAN
    PROVE  Flow(<<>>, key, bodies, first, first, whole)
<1> DEFINE P == [j \in 1..1 |-> first]
           T == [j \in 1..0 |-> <<>>]
           at == [j \in 1..1 |-> 0]
<1>1. Laid(<<>>, key, bodies, 0, P, T, at)
  BY DEF Laid
<1>2. P[1] = first /\ P[0 + 1] = first /\ Len(<<>>) = at[0 + 1]
  OBVIOUS
<1> HIDE DEF P, T, at
<1>3. <<>> \in Seq(Units)
  OBVIOUS
<1>4. QED
  BY <1>1, <1>2, <1>3 DEF Flow

\* A whole stream without a unit leads nowhere.
LEMMA FlowEnds ==
    ASSUME NEW S, NEW key, NEW bodies, NEW first, NEW last,
           Flow(S, key, bodies, first, last, TRUE), S = <<>>
    PROVE  first = last
<1>1. PICK m \in Nat : \E P, T, at : /\ Laid(S, key, bodies, m, P, T, at)
                                     /\ P[1] = first /\ P[m + 1] = last
                                     /\ Len(S) = at[m + 1]
  BY DEF Flow
<1>2. PICK P, T, at : /\ Laid(S, key, bodies, m, P, T, at)
                      /\ P[1] = first /\ P[m + 1] = last
                      /\ Len(S) = at[m + 1]
  BY <1>1
<1>3. CASE m = 0
  BY <1>2, <1>3
<1>4. CASE m # 0
  <2>1. 1 \in 1..m /\ 2 \in 1..m + 1 /\ m + 1 \in 1..m + 1
    BY <1>4
  <2>2. P[1] \in Place /\ T[1] \in Seq(Nat) /\ at[1] = 0 /\ at[2] = at[1] + Size(P[1], T[1])
    BY <1>2, <2>1 DEF Laid
  <2>3. Size(P[1], T[1]) \in Nat \ {0}
    BY <2>2, FramingAssumption DEF Size
  <2>4. at[2] <= at[m + 1] /\ at[2] \in Nat /\ at[m + 1] = 0
    BY <1>2, <1>4, <2>1 DEF Laid
  <2>5. QED
    BY <2>2, <2>3, <2>4
<1>5. QED
  BY <1>3, <1>4

\* What is left of a stream that was cut off still leads to where it led.
\* A payload that was announced was sealed: the sealing side stops only before a length.
LEMMA FlowBody ==
    ASSUME NEW S, NEW key, NEW bodies, NEW first, NEW last, NEW whole,
           Flow(S, key, bodies, first, last, whole), first.kind = "body", last.kind # "body"
    PROVE  \E plain \in Seq(Nat) : Len(plain) = first.len /\ <<first.off, plain>> \in bodies
<1>1. PICK m \in Nat : \E P, T, at : Laid(S, key, bodies, m, P, T, at) /\ P[1] = first /\ P[m + 1] = last
  BY DEF Flow
<1>2. PICK P, T, at : Laid(S, key, bodies, m, P, T, at) /\ P[1] = first /\ P[m + 1] = last
  BY <1>1
<1>3. m # 0
  BY <1>2
<1>4. 1 \in 1..m
  BY <1>1, <1>3
<1>5. Fits(bodies, P[1], T[1]) /\ T[1] \in Seq(Nat)
  BY <1>2, <1>4 DEF Laid
<1>6. QED
  BY <1>2, <1>5 DEF Fits

LEMMA FlowCut ==
    ASSUME NEW S, NEW key, NEW bodies, NEW first, NEW last, NEW whole \in BOOLEAN,
           Flow(S, key, bodies, first, last, whole), NEW n \in 0..Len(S)
    PROVE  Flow(SubSeq(S, 1, n), key, bodies, first, last, FALSE)
<1> DEFINE R == SubSeq(S, 1, n)
<1>1. S \in Seq(Units)
  BY DEF Flow
<1>2. R \in Seq(Units) /\ Len(R) = n /\ \A i \in 1..n : R[i] = S[i]
  BY <1>1
<1>3. PICK m \in Nat : \E P, T, at : Laid(S, key, bodies, m, P, T, at) /\ P[1] = first /\ P[m + 1] = last
  BY DEF Flow
<1>4. PICK P, T, at : Laid(S, key, bodies, m, P, T, at) /\ P[1] = first /\ P[m + 1] = last
  BY <1>3
<1> HIDE DEF R
<1>5. Laid(R, key, bodies, m, P, T, at)
  <2>1. at[m + 1] \in Nat /\ Len(S) <= at[m + 1] /\ Len(R) <= Len(S) /\ Len(S) \in Nat /\ Len(R) \in Nat
    BY <1>1, <1>2, <1>4 DEF Laid
  <2>2. Len(R) <= at[m + 1]
    BY <2>1
  <2>3. ASSUME NEW j \in 1..m, NEW k \in 1..Size(P[j], T[j]), at[j] + k <= Len(R)
        PROVE  R[at[j] + k] = UnitAt(key, P[j], T[j], k)
    <3>1. at[j] \in Nat
      BY <1>4 DEF Laid
    <3>2. at[j] + k \in 1..n
      BY <3>1, <1>2, <2>3
    <3>3. at[j] + k <= Len(S) /\ R[at[j] + k] = S[at[j] + k]
      BY <3>2, <1>2, <2>1, <3>1, <2>3
    <3>4. QED
      BY <3>3, <1>4 DEF Laid
  <2>4. QED
    BY <1>4, <2>2, <2>3 DEF Laid
<1>6. QED
  BY <1>2, <1>4, <1>5 DEF Flow, R

LEMMA FlowWeakens ==
    ASSUME NEW S, NEW key, NEW bodies, NEW first, NEW last, NEW whole \in BOOLEAN,
           Flow(S, key, bodies, first, last, whole)
    PROVE  Flow(S, key, bodies, first, last, FALSE)
<1>1. QED
  BY DEF Flow

\* A box written at the end of a whole stream.
LEMMA FlowGrows ==
    ASSUME NEW S, NEW key \in Keys, NEW bodies, NEW first, NEW last \in Place, NEW plain \in Seq(Nat),
           Flow(S, key, bodies, first, last, TRUE), Fits(bodies, last, plain)
    PROVE  Flow(S \o BoxAt(key, last, plain), key, bodies, first, After(last, plain), TRUE)
<1>1. S \in Seq(Units)
  BY DEF Flow
<1>2. PICK m \in Nat : \E P, T, at : /\ Laid(S, key, bodies, m, P, T, at)
                                     /\ P[1] = first /\ P[m + 1] = last
                                     /\ Len(S) = at[m + 1]
  BY DEF Flow
<1>3. PICK P, T, at : /\ Laid(S, key, bodies, m, P, T, at)
                      /\ P[1] = first /\ P[m + 1] = last
                      /\ Len(S) = at[m + 1]
  BY <1>2
<1> DEFINE n == Size(last, plain)
           box == BoxAt(key, last, plain)
           R == S \o box
           next == After(last, plain)
           Q == [j \in 1..m + 2 |-> IF j = m + 2 THEN next ELSE P[j]]
           U == [j \in 1..m + 1 |-> IF j = m + 1 THEN plain ELSE T[j]]
           to == [j \in 1..m + 2 |-> IF j = m + 2 THEN at[m + 1] + n ELSE at[j]]
<1>4. /\ next \in Place /\ n \in Nat \ {0} /\ box \in Seq(Units) /\ Len(box) = n
      /\ \A k \in 1..n : box[k] = UnitAt(key, last, plain, k)
  <2>1. next \in Place /\ n \in Nat \ {0} /\ box \in Seq(Units) /\ Len(box) = n
    BY PlaceFacts
  <2>2. \A k \in 1..n : box[k] = UnitAt(key, last, plain, k)
    BY DEF BoxAt
  <2>3. QED
    BY <2>1, <2>2
<1> HIDE DEF n, box, next
<1>5. R \in Seq(Units) /\ Len(R) = Len(S) + n /\ \A i \in 1..Len(S) + n : R[i] = IF i <= Len(S) THEN S[i] ELSE box[i - Len(S)]
  BY <1>1, <1>4
<1> HIDE DEF R
<1>6. /\ P \in [1..m + 1 -> Place] /\ T \in [1..m -> Seq(Nat)] /\ at \in [1..m + 1 -> Nat]
      /\ at[1] = 0 /\ at[m + 1] = Len(S) /\ Len(S) \in Nat
      /\ \A i, j \in 1..m + 1 : i <= j => at[i] <= at[j]
  BY <1>1, <1>3 DEF Laid
<1>7. /\ Q \in [1..m + 2 -> Place] /\ U \in [1..m + 1 -> Seq(Nat)] /\ to \in [1..m + 2 -> Nat]
      /\ to[1] = 0 /\ to[m + 2] = Len(R) /\ Q[1] = first /\ Q[m + 2] = next
      /\ Q[m + 1] = last /\ U[m + 1] = plain /\ to[m + 1] = Len(S)
      /\ \A j \in 1..m : Q[j] = P[j] /\ Q[j + 1] = P[j + 1] /\ U[j] = T[j] /\ to[j] = at[j] /\ to[j + 1] = at[j + 1]
  <2>1. Q \in [1..m + 2 -> Place] /\ U \in [1..m + 1 -> Seq(Nat)]
    BY <1>4, <1>6
  <2>2. to \in [1..m + 2 -> Nat]
    BY <1>4, <1>6
  <2>3. /\ to[1] = 0 /\ to[m + 2] = Len(R)
        /\ Q[m + 2] = next /\ Q[m + 1] = last /\ U[m + 1] = plain /\ to[m + 1] = Len(S)
    BY <1>3, <1>4, <1>5, <1>6
  <2>4. Q[1] = first
    BY <1>3
  <2>5. ASSUME NEW j \in 1..m
        PROVE  Q[j] = P[j] /\ Q[j + 1] = P[j + 1] /\ U[j] = T[j] /\ to[j] = at[j] /\ to[j + 1] = at[j + 1]
    <3>1. j \in 1..m + 2 /\ j + 1 \in 1..m + 2 /\ j \in 1..m + 1 /\ j # m + 1 /\ j # m + 2 /\ j + 1 # m + 2
      OBVIOUS
    <3>2. QED
      BY <3>1
  <2>6. QED
    BY <2>1, <2>2, <2>3, <2>4, <2>5
<1>8. \A i, j \in 1..m + 2 : i <= j => to[i] <= to[j]
  <2>1. \A i \in 1..m + 1 : to[i] = at[i] /\ at[i] \in Nat /\ at[i] <= at[m + 1]
    BY <1>6
  <2>2. to[m + 2] = at[m + 1] + n
    OBVIOUS
  <2>3. QED
    BY <1>4, <1>6, <2>1, <2>2
<1> HIDE DEF Q, U, to
<1>9. ASSUME NEW j \in 1..m + 1
      PROVE  /\ Fits(bodies, Q[j], U[j])
             /\ Q[j + 1] = After(Q[j], U[j])
             /\ to[j + 1] = to[j] + Size(Q[j], U[j])
             /\ \A k \in 1..Size(Q[j], U[j]) :
                    to[j] + k <= Len(R) => R[to[j] + k] = UnitAt(key, Q[j], U[j], k)
  <2>1. CASE j = m + 1
    <3>1. Q[j] = last /\ U[j] = plain /\ to[j] = Len(S) /\ Q[j + 1] = next /\ to[j + 1] = Len(S) + n
      BY <2>1, <1>7, <1>5
    <3>2. ASSUME NEW k \in 1..n PROVE R[Len(S) + k] = UnitAt(key, last, plain, k)
      <4>1. Len(S) + k \in 1..Len(S) + n /\ ~(Len(S) + k <= Len(S)) /\ (Len(S) + k) - Len(S) = k
        BY <1>6, <1>4
      <4>2. R[Len(S) + k] = box[k]
        BY <4>1, <1>5
      <4>3. QED
        BY <4>2, <1>4
    <3>3. QED
      BY <3>1, <3>2 DEF n, next
  <2>2. CASE j # m + 1
    <3>1. j \in 1..m
      BY <2>2
    <3>2. /\ Fits(bodies, P[j], T[j]) /\ P[j + 1] = After(P[j], T[j]) /\ at[j + 1] = at[j] + Size(P[j], T[j])
          /\ \A k \in 1..Size(P[j], T[j]) : at[j] + k <= Len(S) => S[at[j] + k] = UnitAt(key, P[j], T[j], k)
      BY <3>1, <1>3 DEF Laid
    <3>3. Q[j] = P[j] /\ Q[j + 1] = P[j + 1] /\ U[j] = T[j] /\ to[j] = at[j] /\ to[j + 1] = at[j + 1]
      BY <3>1, <1>7
    <3>4. ASSUME NEW k \in 1..Size(P[j], T[j]) PROVE R[at[j] + k] = UnitAt(key, P[j], T[j], k)
      <4>1. at[j] \in Nat /\ at[j + 1] \in Nat /\ at[j + 1] <= Len(S)
        <5>1. j \in 1..m + 1 /\ j + 1 \in 1..m + 1 /\ m + 1 \in 1..m + 1 /\ j + 1 <= m + 1
          BY <3>1
        <5>2. QED
          BY <5>1, <1>6
      <4>2. Size(P[j], T[j]) \in Nat
        BY <3>1, <1>6, FramingAssumption DEF Size
      <4> DEFINE z == Size(P[j], T[j])
      <4>3. z \in Nat /\ k \in 1..z /\ at[j + 1] = at[j] + z
        BY <4>2, <3>2
      <4> HIDE DEF z
      <4>4. n \in Nat /\ Len(S) \in Nat
        BY <1>4, <1>6
      <4>5. k \in Nat \ {0} /\ at[j] + k <= Len(S)
        BY <4>1, <4>3, <4>4
      <4>6. at[j] + k \in 1..Len(S) /\ at[j] + k \in 1..Len(S) + n /\ at[j] + k <= Len(S)
        BY <4>1, <4>4, <4>5
      <4>7. R[at[j] + k] = S[at[j] + k]
        BY <4>6, <1>5
      <4>8. QED
        BY <4>6, <4>7, <3>2
    <3>5. QED
      BY <3>2, <3>3, <3>4
  <2>3. QED
    BY <2>1, <2>2
<1>10. Laid(R, key, bodies, m + 1, Q, U, to)
  <2>1. (m + 1) + 1 = m + 2 /\ Len(R) <= to[m + 2]
    BY <1>5, <1>6, <1>7, <1>4
  <2>2. QED
    BY <2>1, <1>7, <1>8, <1>9 DEF Laid
<1>11. m + 1 \in Nat /\ Q[1] = first /\ Q[(m + 1) + 1] = next /\ Len(R) = to[(m + 1) + 1]
  <2>1. (m + 1) + 1 = m + 2
    OBVIOUS
  <2>2. QED
    BY <2>1, <1>7
<1>12. Flow(R, key, bodies, first, next, TRUE)
  BY <1>5, <1>10, <1>11 DEF Flow
<1>13. QED
  BY <1>12 DEF R, box, next

\* A stream begins with the whole first box or with a part of it.
Headed(S, key, bodies, first, last, whole) ==
    \E plain \in Seq(Nat) :
        /\ Fits(bodies, first, plain)
        /\ \A k \in 1..Size(first, plain) : k <= Len(S) => S[k] = UnitAt(key, first, plain, k)
        /\ Len(S) >= Size(first, plain) =>
               Flow(SubSeq(S, Size(first, plain) + 1, Len(S)), key, bodies, After(first, plain), last, whole)
        /\ whole => Len(S) >= Size(first, plain)

LEMMA FlowTaken ==
    ASSUME NEW S, NEW key \in Keys, NEW bodies, NEW first \in Place, NEW last, NEW whole \in BOOLEAN,
           Flow(S, key, bodies, first, last, whole), S # <<>>
    PROVE  Headed(S, key, bodies, first, last, whole)
<1>1. S \in Seq(Units) /\ Len(S) \in Nat \ {0}
  BY DEF Flow
<1>2. PICK m \in Nat : \E P, T, at : /\ Laid(S, key, bodies, m, P, T, at)
                                     /\ P[1] = first /\ P[m + 1] = last
                                     /\ whole => Len(S) = at[m + 1]
  BY DEF Flow
<1>3. PICK P, T, at : /\ Laid(S, key, bodies, m, P, T, at)
                      /\ P[1] = first /\ P[m + 1] = last
                      /\ whole => Len(S) = at[m + 1]
  BY <1>2
<1>4. /\ P \in [1..m + 1 -> Place] /\ T \in [1..m -> Seq(Nat)] /\ at \in [1..m + 1 -> Nat]
      /\ at[1] = 0 /\ Len(S) <= at[m + 1]
      /\ \A i, j \in 1..m + 1 : i <= j => at[i] <= at[j]
  BY <1>3 DEF Laid
<1>5. \A j \in 1..m :
         /\ Fits(bodies, P[j], T[j])
         /\ P[j + 1] = After(P[j], T[j])
         /\ at[j + 1] = at[j] + Size(P[j], T[j])
         /\ \A k \in 1..Size(P[j], T[j]) :
                at[j] + k <= Len(S) => S[at[j] + k] = UnitAt(key, P[j], T[j], k)
  BY <1>3 DEF Laid
<1>6. m \in Nat \ {0} /\ 1 \in 1..m /\ 2 \in 1..m + 1 /\ m + 1 \in 1..m + 1 /\ 2 <= m + 1
  BY <1>1, <1>4
<1> DEFINE plain == T[1]
           n == Size(first, plain)
<1>7. plain \in Seq(Nat) /\ Fits(bodies, first, plain)
  BY <1>3, <1>4, <1>5, <1>6
<1>8. n \in Nat \ {0} /\ After(first, plain) \in Place /\ P[2] = After(first, plain) /\ at[2] = n
  <2>1. n \in Nat \ {0} /\ After(first, plain) \in Place
    BY <1>7, PlaceFacts
  <2>2. P[2] = After(first, plain) /\ at[2] = at[1] + n
    BY <1>3, <1>5, <1>6
  <2>3. QED
    BY <2>1, <2>2, <1>4
<1>9. \A k \in 1..n : k <= Len(S) => S[k] = UnitAt(key, first, plain, k)
  <2>1. \A k \in 1..n : at[1] + k <= Len(S) => S[at[1] + k] = UnitAt(key, P[1], T[1], k)
    BY <1>3, <1>5, <1>6
  <2>2. \A k \in 1..n : at[1] + k = k
    BY <1>4, <1>8
  <2>3. QED
    BY <2>1, <2>2, <1>3
<1>10. at[2] <= at[m + 1]
  BY <1>4, <1>6
<1>11. whole => Len(S) >= n
  BY <1>1, <1>3, <1>8, <1>10
<1> HIDE DEF n, plain
<1>12. ASSUME Len(S) >= n
       PROVE  Flow(SubSeq(S, n + 1, Len(S)), key, bodies, After(first, plain), last, whole)
  <2> DEFINE R == SubSeq(S, n + 1, Len(S))
             Q == [j \in 1..m |-> P[j + 1]]
             U == [j \in 1..m - 1 |-> T[j + 1]]
             to == [j \in 1..m |-> at[j + 1] - n]
  <2>1. R \in Seq(Units) /\ Len(R) = Len(S) - n /\ \A i \in 1..Len(S) - n : R[i] = S[n + i]
    BY <1>1, <1>8, <1>12
  <2> HIDE DEF R
  <2>2. \A j \in 1..m : j + 1 \in 1..m + 1 /\ at[j + 1] \in Nat /\ at[j + 1] >= n
    <3>1. ASSUME NEW j \in 1..m PROVE j + 1 \in 1..m + 1 /\ 2 <= j + 1
      BY <1>6
    <3>2. QED
      BY <3>1, <1>4, <1>6, <1>8
  <2>3. to \in [1..m -> Nat]
    BY <2>2, <1>8
  <2>4. /\ Q \in [1..m -> Place] /\ U \in [1..m - 1 -> Seq(Nat)]
        /\ to[1] = 0 /\ to[m] = at[m + 1] - n /\ Q[1] = After(first, plain) /\ Q[m] = last
    <3>1. \A j \in 1..m - 1 : j + 1 \in 1..m
      BY <1>6
    <3>2. QED
      BY <1>3, <1>4, <1>6, <1>8, <2>2, <3>1
  <2>5. \A i, j \in 1..m : i <= j => to[i] <= to[j]
    <3>1. ASSUME NEW i \in 1..m, NEW j \in 1..m, i <= j PROVE at[i + 1] <= at[j + 1]
      <4>1. i + 1 <= j + 1
        BY <3>1
      <4>2. QED
        BY <4>1, <2>2, <1>4
    <3>2. QED
      BY <3>1, <2>2, <1>8
  <2>6. Len(R) <= to[m] /\ (whole => Len(R) = to[m])
    <3>1. Len(R) = Len(S) - n /\ to[m] = at[m + 1] - n
      BY <2>1, <2>4
    <3>2. Len(S) \in Nat /\ at[m + 1] \in Nat /\ n \in Nat /\ Len(S) <= at[m + 1] /\ (whole => Len(S) = at[m + 1])
      BY <1>1, <1>3, <1>4, <1>6, <1>8
    <3> HIDE DEF to
    <3>3. QED
      BY <3>1, <3>2
  <2>7. ASSUME NEW j \in 1..m - 1
        PROVE  /\ Fits(bodies, Q[j], U[j])
               /\ Q[j + 1] = After(Q[j], U[j])
               /\ to[j + 1] = to[j] + Size(Q[j], U[j])
               /\ \A k \in 1..Size(Q[j], U[j]) :
                      to[j] + k <= Len(R) => R[to[j] + k] = UnitAt(key, Q[j], U[j], k)
    <3> DEFINE l == j + 1
    <3>1. l \in 1..m /\ j \in 1..m /\ l + 1 \in 1..m + 1
      BY <1>6
    <3>2. Q[j] = P[l] /\ U[j] = T[l] /\ Q[j + 1] = P[l + 1] /\ to[j] = at[l] - n /\ to[j + 1] = at[l + 1] - n
      BY <3>1
    <3> HIDE DEF l, Q, U, to
    <3>3. /\ Fits(bodies, P[l], T[l]) /\ P[l + 1] = After(P[l], T[l]) /\ at[l + 1] = at[l] + Size(P[l], T[l])
          /\ \A k \in 1..Size(P[l], T[l]) : at[l] + k <= Len(S) => S[at[l] + k] = UnitAt(key, P[l], T[l], k)
      BY <3>1, <1>5
    <3>4. Size(P[l], T[l]) \in Nat /\ at[l] \in Nat /\ at[l] >= n
      <4>1. P[l] \in Place /\ T[l] \in Seq(Nat)
        BY <3>1, <1>4, <1>6
      <4>2. Size(P[l], T[l]) \in Nat
        BY <4>1, FramingAssumption DEF Size
      <4>3. QED
        BY <4>2, <2>2, <3>1 DEF l
    <3>5. to[j + 1] = to[j] + Size(P[l], T[l])
      BY <3>2, <3>3, <3>4, <1>8
    <3>6. ASSUME NEW k \in 1..Size(P[l], T[l]), to[j] + k <= Len(R)
          PROVE  R[to[j] + k] = UnitAt(key, P[l], T[l], k)
      <4>1. k \in Nat \ {0} /\ to[j] = at[l] - n /\ at[l] \in Nat /\ at[l] >= n /\ n \in Nat /\ Len(S) \in Nat
            /\ to[j] + k <= Len(S) - n
        BY <3>2, <3>4, <3>6, <2>1, <1>1, <1>8
      <4>2. to[j] + k \in 1..Len(S) - n /\ n + (to[j] + k) = at[l] + k /\ at[l] + k <= Len(S)
        BY <4>1
      <4>3. R[to[j] + k] = S[at[l] + k]
        BY <4>2, <2>1
      <4>4. QED
        BY <4>2, <4>3, <3>3
    <3>7. QED
      BY <3>2, <3>3, <3>5, <3>6
  <2>8. Laid(R, key, bodies, m - 1, Q, U, to)
    <3> HIDE DEF Q, U, to
    <3>1. (m - 1) + 1 = m
      BY <1>6
    <3>2. QED
      BY <3>1, <2>3, <2>4, <2>5, <2>6, <2>7 DEF Laid
  <2> HIDE DEF Q, U, to
  <2>9. m - 1 \in Nat /\ (m - 1) + 1 = m
    BY <1>6
  <2>10. Flow(R, key, bodies, After(first, plain), last, whole)
    BY <2>1, <2>4, <2>6, <2>8, <2>9 DEF Flow
  <2>11. QED
    BY <2>10 DEF R
<1>13. QED
  BY <1>7, <1>9, <1>11, <1>12 DEF n, Headed

-----------------------------------------------------------------------------
(* Sequences *)

\* A part of a part of a sequence is a part of it.
LEMMA PartOfPart ==
    ASSUME NEW X, NEW S \in Seq(X), NEW R \in Seq(X), NEW a \in Nat, NEW k \in Nat,
           NEW e \in 0..Len(R), a + Len(R) <= Len(S),
           \A i \in 1..Len(R) : R[i] = S[a + i]
    PROVE  SubSeq(R, k + 1, e) = SubSeq(S, (a + k) + 1, a + e)
<1> DEFINE c == SubSeq(R, k + 1, e)
           d == SubSeq(S, (a + k) + 1, a + e)
           n == IF k <= e THEN e - k ELSE 0
<1>1. n \in Nat /\ e \in Nat
  OBVIOUS
<1>2. c \in Seq(X) /\ Len(c) = n /\ \A i \in 1..n : c[i] = R[k + i]
  <2>1. c \in Seq(X) /\ Len(c) = n
    OBVIOUS
  <2>2. \A i \in 1..n : c[i] = R[k + i]
    OBVIOUS
  <2>3. QED
    BY <2>1, <2>2
<1>3. d \in Seq(X) /\ Len(d) = n /\ \A i \in 1..n : d[i] = S[(a + k) + i]
  <2>1. (a + k) + 1 \in Nat /\ a + e \in Nat /\ a + e <= Len(S)
    OBVIOUS
  <2>2. d \in Seq(X) /\ Len(d) = n
    BY <2>1
  <2>3. \A i \in 1..n : d[i] = S[(a + k) + i]
    BY <2>1
  <2>4. QED
    BY <2>2, <2>3
<1> HIDE DEF c, d
<1>4. ASSUME NEW i \in 1..n PROVE c[i] = d[i]
  <2>1. k + i \in 1..Len(R) /\ a + (k + i) = (a + k) + i
    OBVIOUS
  <2>2. R[k + i] = S[(a + k) + i]
    BY <2>1
  <2>3. QED
    BY <2>2, <1>2, <1>3
<1> HIDE DEF n
<1>5. c = d
  BY <1>1, <1>2, <1>3, <1>4, SeqEqual
<1>6. QED
  BY <1>5 DEF c, d

LEMMA SubSeqFacts ==
    ASSUME NEW X, NEW S \in Seq(X), NEW a \in Nat, NEW b \in Nat, a + b <= Len(S)
    PROVE  LET R == SubSeq(S, a + 1, Len(S))
           IN  /\ R \in Seq(X) /\ Len(R) = Len(S) - a /\ \A i \in 1..Len(S) - a : R[i] = S[a + i]
               /\ SubSeq(R, 1, b) = SubSeq(S, a + 1, a + b)
               /\ SubSeq(R, b + 1, Len(R)) = SubSeq(S, a + b + 1, Len(S))
<1> DEFINE R == SubSeq(S, a + 1, Len(S))
           n == Len(S)
<1>1. n \in Nat /\ a + b <= n /\ a <= n
  OBVIOUS
<1>2. R \in Seq(X) /\ Len(R) = n - a /\ \A i \in 1..n - a : R[i] = S[a + i]
  OBVIOUS
<1>3. SubSeq(R, 1, b) = SubSeq(S, a + 1, a + b) /\ SubSeq(R, b + 1, n - a) = SubSeq(S, (a + b) + 1, a + (n - a))
  <2> HIDE DEF n, R
  <2>1. a + (n - a) = n /\ b \in 0..(n - a) /\ n - a \in Nat
    BY <1>1
  <2>2. a + 0 = a /\ 0 + 1 = 1
    OBVIOUS
  <2>3. /\ SubSeq(R, 0 + 1, b) = SubSeq(S, (a + 0) + 1, a + b)
        /\ SubSeq(R, b + 1, n - a) = SubSeq(S, (a + b) + 1, a + (n - a))
    BY <2>1, <1>1, <1>2, PartOfPart DEF n
  <2>4. QED
    BY <2>2, <2>3
<1>4. a + (n - a) = n
  BY <1>1
<1>5. QED
  BY <1>2, <1>3, <1>4

LEMMA TailFacts ==
    \A S \in Seq(Units) : \A a, b \in Nat : a + b <= Len(S) =>
        /\ SubSeq(SubSeq(S, a + 1, Len(S)), 1, b) = SubSeq(S, a + 1, a + b)
        /\ SubSeq(SubSeq(S, a + 1, Len(S)), b + 1, Len(SubSeq(S, a + 1, Len(S)))) = SubSeq(S, a + b + 1, Len(S))
<1>1. QED
  BY SubSeqFacts

\* The first unit of a part that is not empty.
LEMMA FirstOfPart ==
    \A S \in Seq(Units) : \A a \in Nat : \A e \in 1..Len(S) : a < e => SubSeq(S, a + 1, e)[1] = S[a + 1]
<1>1. ASSUME NEW S \in Seq(Units), NEW a \in Nat, NEW e \in 1..Len(S), a < e
      PROVE  SubSeq(S, a + 1, e)[1] = S[a + 1]
  <2>1. a + 1 \in 1..Len(S) /\ e - a \in Nat \ {0} /\ 1 \in 1..(e - a) /\ a + 1 = 1 + a
    BY <1>1
  <2>2. \A i \in 1..(e - a) : SubSeq(S, a + 1, e)[i] = S[i + a]
    BY <1>1
  <2>3. QED
    BY <2>1, <2>2
<1>2. QED
  BY <1>1

LEMMA CutFacts ==
    ASSUME NEW X, NEW S \in Seq(X), NEW a \in 0..Len(S)
    PROVE  /\ SubSeq(S, 1, a) \in Seq(X) /\ Len(SubSeq(S, 1, a)) = a
           /\ SubSeq(S, a + 1, Len(S)) \in Seq(X) /\ Len(SubSeq(S, a + 1, Len(S))) = Len(S) - a
           /\ SubSeq(S, 1, a) \o SubSeq(S, a + 1, Len(S)) = S
<1>1. SubSeq(S, 1, a) \in Seq(X) /\ Len(SubSeq(S, 1, a)) = a
  OBVIOUS
<1>2. SubSeq(S, a + 1, Len(S)) \in Seq(X) /\ Len(SubSeq(S, a + 1, Len(S))) = Len(S) - a
  OBVIOUS
<1>3. SubSeq(S, 1, a) \o SubSeq(S, a + 1, Len(S)) = SubSeq(S, 1, Len(S))
  <2>1. a \in (1 - 1)..Len(S) /\ 1 \in 1..(Len(S) + 1) /\ Len(S) \in a..Len(S)
    OBVIOUS
  <2>2. QED
    BY <2>1, ConcatAdjacentSubSeq
<1>4. QED
  BY <1>1, <1>2, <1>3, SubSeqFull

LEMMA BytesCut ==
    \A S \in Seq(Nat) : \A a \in 0..Len(S) :
        /\ SubSeq(S, 1, a) \in Seq(Nat) /\ Len(SubSeq(S, 1, a)) = a
        /\ SubSeq(S, a + 1, Len(S)) \in Seq(Nat) /\ Len(SubSeq(S, a + 1, Len(S))) = Len(S) - a
<1>1. QED
  BY CutFacts

LEMMA JoinFacts ==
    ASSUME NEW X, NEW a \in Seq(X), NEW b \in Seq(X), NEW c \in Seq(X)
    PROVE  a \o b \in Seq(X) /\ (a \o b) \o c = a \o (b \o c)
<1>1. QED
  BY ConcatAssociative

LEMMA UnitsClosed == \A a, b \in Seq(Units) : a \o b \in Seq(Units)
<1>1. QED
  OBVIOUS

LEMMA UnitsJoin == \A a, b, c \in Seq(Units) : (a \o b) \o c = a \o (b \o c)
<1>1. QED
  BY JoinFacts

LEMMA BytesJoin == \A a, b, c \in Seq(Nat) : (a \o b) \o c = a \o (b \o c)
<1>1. QED
  BY JoinFacts

LEMMA SliceFacts ==
    ASSUME NEW X, NEW S \in Seq(X), NEW a \in Nat, NEW e \in Nat, a <= e, e <= Len(S), NEW k \in 0..(e - a)
    PROVE  LET R == SubSeq(S, a + 1, e)
           IN  /\ R \in Seq(X) /\ Len(R) = e - a
               /\ SubSeq(R, 1, k) = SubSeq(S, a + 1, a + k)
               /\ SubSeq(R, k + 1, Len(R)) = SubSeq(S, (a + k) + 1, e)
<1> DEFINE R == SubSeq(S, a + 1, e)
<1>1. R \in Seq(X) /\ Len(R) = e - a /\ \A i \in 1..(e - a) : R[i] = S[a + i]
  OBVIOUS
<1> HIDE DEF R
<1>2. SubSeq(R, 1, k) = SubSeq(S, a + 1, a + k)
  <2>1. k \in 0..Len(R) /\ a + Len(R) <= Len(S) /\ a + 0 = a /\ 0 + 1 = 1
    BY <1>1
  <2>2. SubSeq(R, 0 + 1, k) = SubSeq(S, (a + 0) + 1, a + k)
    BY <2>1, <1>1, PartOfPart
  <2>3. QED
    BY <2>1, <2>2
<1>3. SubSeq(R, k + 1, Len(R)) = SubSeq(S, (a + k) + 1, e)
  <2>1. k \in Nat /\ Len(R) \in 0..Len(R) /\ a + Len(R) <= Len(S) /\ a + Len(R) = e
    BY <1>1
  <2>2. SubSeq(R, k + 1, Len(R)) = SubSeq(S, (a + k) + 1, a + Len(R))
    BY <2>1, <1>1, PartOfPart
  <2>3. QED
    BY <2>1, <2>2
<1>4. QED
  BY <1>1, <1>2, <1>3 DEF R

LEMMA TakeFacts ==
    ASSUME NEW X, NEW a \in Seq(X), NEW b \in Seq(X), NEW k \in 0..Len(a)
    PROVE  /\ a \o b \in Seq(X) /\ Len(a \o b) = Len(a) + Len(b)
           /\ SubSeq(a \o b, k + 1, Len(a \o b)) = SubSeq(a, k + 1, Len(a)) \o b
           /\ SubSeq(a \o b, 1, k) = SubSeq(a, 1, k)
           /\ a # <<>> => (a \o b)[1] = a[1]
<1> DEFINE S == a \o b
           c == SubSeq(a, k + 1, Len(a))
           L == SubSeq(S, k + 1, Len(S))
           R == c \o b
<1>1. S \in Seq(X) /\ Len(S) = Len(a) + Len(b)
      /\ \A i \in 1..(Len(a) + Len(b)) : S[i] = IF i <= Len(a) THEN a[i] ELSE b[i - Len(a)]
  BY ConcatProperties
<1>2. c \in Seq(X) /\ Len(c) = Len(a) - k /\ \A i \in 1..(Len(a) - k) : c[i] = a[k + i]
  OBVIOUS
<1> HIDE DEF S, c
<1>3. L \in Seq(X) /\ Len(L) = (Len(a) + Len(b)) - k /\ \A i \in 1..((Len(a) + Len(b)) - k) : L[i] = S[k + i]
  <2>1. Len(S) \in Nat /\ k \in 0..Len(S)
    BY <1>1
  <2>2. L \in Seq(X) /\ Len(L) = Len(S) - k
    BY <1>1, <2>1
  <2>3. \A i \in 1..(Len(S) - k) : L[i] = S[k + i]
    BY <1>1, <2>1
  <2>4. QED
    BY <1>1, <2>2, <2>3
<1>4. R \in Seq(X) /\ Len(R) = (Len(a) - k) + Len(b)
      /\ \A i \in 1..((Len(a) - k) + Len(b)) : R[i] = IF i <= Len(a) - k THEN c[i] ELSE b[i - (Len(a) - k)]
  <2>1. /\ R \in Seq(X) /\ Len(R) = Len(c) + Len(b)
        /\ \A i \in 1..(Len(c) + Len(b)) : R[i] = IF i <= Len(c) THEN c[i] ELSE b[i - Len(c)]
    BY <1>2, ConcatProperties
  <2> HIDE DEF R
  <2>2. QED
    BY <2>1, <1>2
<1>5. ASSUME NEW i \in 1..((Len(a) + Len(b)) - k) PROVE L[i] = R[i]
  <2>1. k + i \in 1..(Len(a) + Len(b)) /\ i \in 1..((Len(a) - k) + Len(b)) /\ Len(a) \in Nat /\ i \in Int
    OBVIOUS
  <2>2. L[i] = S[k + i]
    BY <1>3
  <2>3. CASE i <= Len(a) - k
    <3>1. k + i <= Len(a) /\ i \in 1..(Len(a) - k)
      BY <2>1, <2>3
    <3>2. S[k + i] = a[k + i] /\ R[i] = c[i] /\ c[i] = a[k + i]
      BY <3>1, <2>1, <2>3, <1>1, <1>2, <1>4
    <3>3. QED
      BY <3>2, <2>2
  <2>4. CASE ~(i <= Len(a) - k)
    <3>1. ~(k + i <= Len(a)) /\ (k + i) - Len(a) = i - (Len(a) - k)
      BY <2>1, <2>4
    <3>2. S[k + i] = b[i - (Len(a) - k)] /\ R[i] = b[i - (Len(a) - k)]
      BY <3>1, <2>1, <2>4, <1>1, <1>4
    <3>3. QED
      BY <3>2, <2>2
  <2>5. QED
    BY <2>3, <2>4
<1> HIDE DEF L, R
<1>6. Len(L) = Len(R) /\ Len(L) = (Len(a) + Len(b)) - k
  <2>1. (Len(a) - k) + Len(b) = (Len(a) + Len(b)) - k
    OBVIOUS
  <2>2. QED
    BY <2>1, <1>3, <1>4
<1>7. L = R
  BY <1>3, <1>4, <1>5, <1>6, SeqEqual
<1>8. SubSeq(S, 1, k) = SubSeq(a, 1, k)
  <2>1. SubSeq(S, 1, k) = [i \in 1..k |-> S[i]] /\ SubSeq(a, 1, k) = [i \in 1..k |-> a[i]]
    BY <1>1
  <2>2. \A i \in 1..k : S[i] = a[i]
    BY <1>1
  <2>3. QED
    BY <2>1, <2>2
<1>9. a # <<>> => S[1] = a[1]
  BY <1>1
<1>10. QED
  BY <1>1, <1>7, <1>8, <1>9 DEF S, L, R, c

-----------------------------------------------------------------------------
(* Boxes: the code seals one by one and opens what stands first. *)

LEMMA BoxIsSeal ==
    ASSUME NEW key, NEW p \in Place, NEW plain \in Seq(Nat)
    PROVE  /\ p.kind # "nonce" => BoxAt(key, p, plain) = Seal(key, p.nonce, plain)
           /\ p.kind = "nonce" /\ plain = <<>> => BoxAt(key, p, plain) = RawNonce(p.nonce)
<1>1. CASE p.kind # "nonce"
  BY <1>1 DEF BoxAt, Seal, UnitAt, Size
<1>2. CASE p.kind = "nonce"
  BY <1>2 DEF BoxAt, RawNonce, UnitAt, Size
<1>3. QED
  BY <1>1, <1>2

LEMMA BoxOpens ==
    ASSUME NEW S \in Seq(Units), NEW key \in Keys, NEW p \in Place, p.kind # "nonce",
           NEW plain \in Seq(Nat), Len(S) >= Size(p, plain),
           \A k \in 1..Size(p, plain) : k <= Len(S) => S[k] = UnitAt(key, p, plain, k)
    PROVE  /\ Opens(key, p.nonce, SubSeq(S, 1, Size(p, plain)))
           /\ SubSeq(S, 1, Size(p, plain))[1] = S[1]
           /\ S[1].plain = plain /\ S[1].nonce = p.nonce /\ S[1].key = key
<1> DEFINE n == Size(p, plain)
           box == SubSeq(S, 1, n)
<1>1. n \in Nat \ {0} /\ n = Len(plain) + TAG_LENGTH
  BY FramingAssumption DEF Size
<1> HIDE DEF n
<1>2. Len(box) = n /\ box \in Seq(Units) /\ \A k \in 1..n : box[k] = S[k]
  BY <1>1 DEF n
<1>3. \A k \in 1..n : S[k] = [key |-> key, nonce |-> p.nonce, plain |-> plain, at |-> k]
  BY <1>1 DEF n, UnitAt
<1> HIDE DEF box
<1>4. box = Seal(key, p.nonce, plain)
  <2>1. box = [k \in 1..n |-> box[k]]
    BY <1>2
  <2> DEFINE unit(k) == [key |-> key, nonce |-> p.nonce, plain |-> plain, at |-> k]
  <2>2. \A k \in 1..n : box[k] = unit(k)
    BY <1>2, <1>3
  <2> HIDE DEF unit
  <2>3. box = [k \in 1..n |-> unit(k)]
    BY <2>1, <2>2
  <2>4. QED
    BY <2>3, <1>1 DEF Seal, unit
<1>5. 1 \in 1..n
  BY <1>1
<1>6. box[1] = S[1] /\ S[1].plain = plain /\ S[1].nonce = p.nonce /\ S[1].key = key
  <2>1. S[1] = [key |-> key, nonce |-> p.nonce, plain |-> plain, at |-> 1]
    BY <1>3, <1>5, Zenon
  <2>2. QED
    BY <1>2, <1>5, <2>1
<1>7. QED
  BY <1>4, <1>6 DEF Opens, box, n

LEMMA SealUnits ==
    ASSUME NEW key \in Keys, NEW n \in Nonces, NEW plain \in Seq(Nat)
    PROVE  /\ Seal(key, n, plain) \in Seq(Units) /\ Seal(key, n, plain) # <<>>
           /\ RawNonce(n) \in Seq(Units)
<1> DEFINE sealed(i) == [key |-> key, nonce |-> n, plain |-> plain, at |-> i]
           clear(i) == [key |-> <<>>, nonce |-> n, plain |-> <<>>, at |-> i]
<1>1. \A m \in Nat : \A i \in 1..m : sealed(i) \in Units /\ clear(i) \in Units
  BY DEF Units
<1> HIDE DEF sealed, clear
<1>2. \A m \in Nat : /\ [i \in 1..m |-> sealed(i)] \in Seq(Units) /\ Len([i \in 1..m |-> sealed(i)]) = m
                    /\ [i \in 1..m |-> clear(i)] \in Seq(Units)
  BY <1>1
<1>3. Len(plain) + TAG_LENGTH \in Nat \ {0} /\ NONCE_LENGTH \in Nat
  BY FramingAssumption
<1>4. [i \in 1..(Len(plain) + TAG_LENGTH) |-> sealed(i)] # <<>>
  BY <1>2, <1>3
<1>5. QED
  BY <1>2, <1>3, <1>4 DEF sealed, clear, Seal, RawNonce

\* A frame is two boxes, the length and the payload.
LEMMA FlowFrame ==
    ASSUME NEW S, NEW key \in Keys, NEW bodies, NEW first, NEW n \in Nonces, NEW off \in Nat,
           NEW plain \in Seq(Nat), plain # <<>>, <<off, plain>> \in bodies,
           Flow(S, key, bodies, first, At("length", n, off, 0), TRUE)
    PROVE  Flow(S \o Seal(key, n, PortBytes(Len(plain))) \o Seal(key, NextNonce(n), plain), key, bodies,
                first, At("length", NextNonce(NextNonce(n)), off + Len(plain), 0), TRUE)
<1> DEFINE p == At("length", n, off, 0)
           q == At("body", NextNonce(n), off, Len(plain))
           bytes == PortBytes(Len(plain))
<1>1. Len(plain) \in Nat \ {0}
  OBVIOUS
<1>2. bytes \in Seq(Nat) /\ Len(plain) \in Nat \ {0} /\ bytes[1] * 256 + bytes[2] = Len(plain)
  BY <1>1, PortBytesFacts
<1>3. p \in Place /\ q \in Place /\ p.kind = "length" /\ q.kind = "body"
      /\ p.nonce = n /\ q.nonce = NextNonce(n) /\ q.off = off /\ q.len = Len(plain)
  BY <1>2, NonceFacts DEF Place, At
<1>4. Fits(bodies, p, bytes) /\ Fits(bodies, q, plain)
  BY <1>2, <1>3 DEF Fits
<1>5. After(p, bytes) = q /\ After(q, plain) = At("length", NextNonce(NextNonce(n)), off + Len(plain), 0)
  BY <1>2, <1>3 DEF After, At
<1> HIDE DEF q, bytes
<1>6. Flow(S \o BoxAt(key, p, bytes), key, bodies, first, q, TRUE)
  BY <1>2, <1>3, <1>4, <1>5, FlowGrows
<1>7. Flow((S \o BoxAt(key, p, bytes)) \o BoxAt(key, q, plain), key, bodies, first, After(q, plain), TRUE)
  BY <1>3, <1>4, <1>6, FlowGrows
<1>8. BoxAt(key, p, bytes) = Seal(key, n, bytes) /\ BoxAt(key, q, plain) = Seal(key, NextNonce(n), plain)
  BY <1>2, <1>3, BoxIsSeal
<1>9. QED
  BY <1>5, <1>7, <1>8 DEF bytes

\* Who is at a length and has the units of its box opens it, and is at its payload.
LEMMA LengthBoxTaken ==
    ASSUME NEW S, NEW key \in Keys, NEW bodies, NEW n \in Nonces, NEW off \in Nat, NEW last,
           NEW whole \in BOOLEAN, S # <<>>,
           Flow(S, key, bodies, At("length", n, off, 0), last, whole)
    PROVE  /\ whole => Len(S) >= LENGTH_BOX
           /\ S[1].nonce = n
           /\ Len(S) >= LENGTH_BOX =>
                  /\ Opens(key, n, SubSeq(S, 1, LENGTH_BOX))
                  /\ SubSeq(S, 1, LENGTH_BOX)[1] = S[1] /\ S[1].key = key
                  /\ LengthIn(S) \in Nat \ {0}
                  /\ Flow(SubSeq(S, LENGTH_BOX + 1, Len(S)), key, bodies,
                          At("body", NextNonce(n), off, LengthIn(S)), last, whole)
<1> DEFINE p == At("length", n, off, 0)
<1>1. p \in Place /\ p.kind = "length" /\ p.nonce = n /\ p.off = off
  BY DEF Place, At
<1>2. Flow(S, key, bodies, p, last, whole)
  OBVIOUS
<1> HIDE DEF p
<1>3. PICK plain \in Seq(Nat) :
         /\ Fits(bodies, p, plain)
         /\ \A k \in 1..Size(p, plain) : k <= Len(S) => S[k] = UnitAt(key, p, plain, k)
         /\ Len(S) >= Size(p, plain) =>
                Flow(SubSeq(S, Size(p, plain) + 1, Len(S)), key, bodies, After(p, plain), last, whole)
         /\ whole => Len(S) >= Size(p, plain)
  <2>1. Headed(S, key, bodies, p, last, whole)
    BY <1>2, <1>1, FlowTaken
  <2>2. QED
    BY <2>1 DEF Headed
<1>4. PICK m \in Nat \ {0} : plain = PortBytes(m)
  BY <1>1, <1>3 DEF Fits
<1>5. Len(plain) = 2 /\ plain[1] * 256 + plain[2] = m
  BY <1>4, PortBytesFacts
<1>6. Size(p, plain) = LENGTH_BOX /\ LENGTH_BOX \in Nat \ {0}
  BY <1>1, <1>5, FramingAssumption DEF Size, LENGTH_BOX
<1>7. S \in Seq(Units) /\ Len(S) \in Nat \ {0}
  BY DEF Flow
<1>8. S[1].nonce = n
  <2>1. 1 \in 1..Size(p, plain) /\ 1 <= Len(S)
    BY <1>6, <1>7
  <2>2. S[1] = UnitAt(key, p, plain, 1)
    BY <1>3, <2>1
  <2>3. QED
    BY <1>1, <2>2 DEF UnitAt
<1>9. ASSUME Len(S) >= LENGTH_BOX
      PROVE  /\ Opens(key, n, SubSeq(S, 1, LENGTH_BOX))
             /\ SubSeq(S, 1, LENGTH_BOX)[1] = S[1] /\ S[1].key = key
             /\ LengthIn(S) = m
  <2>1. p.kind # "nonce" /\ Len(S) >= Size(p, plain)
    BY <1>1, <1>6, <1>9
  <2>2. /\ Opens(key, p.nonce, SubSeq(S, 1, Size(p, plain)))
        /\ SubSeq(S, 1, Size(p, plain))[1] = S[1]
        /\ S[1].plain = plain /\ S[1].nonce = p.nonce /\ S[1].key = key
    BY <1>1, <1>3, <1>7, <2>1, BoxOpens
  <2>3. LengthIn(S) = m
    BY <2>2, <1>5 DEF LengthIn
  <2>4. QED
    BY <2>2, <2>3, <1>1, <1>6
<1>10. After(p, plain) = At("body", NextNonce(n), off, m)
  BY <1>1, <1>5 DEF After
<1>11. QED
  BY <1>3, <1>6, <1>8, <1>9, <1>10

\* Who is at a payload opens it and gets one of bodies, at its offset.
LEMMA BodyBoxTaken ==
    ASSUME NEW S, NEW key \in Keys, NEW bodies, NEW n \in Nonces, NEW off \in Nat, NEW len \in Nat,
           NEW last, NEW whole \in BOOLEAN, S # <<>>,
           Flow(S, key, bodies, At("body", n, off, len), last, whole)
    PROVE  /\ whole => Len(S) >= len + TAG_LENGTH
           /\ Len(S) >= len + TAG_LENGTH =>
                  /\ Opens(key, n, SubSeq(S, 1, len + TAG_LENGTH))
                  /\ SubSeq(S, 1, len + TAG_LENGTH)[1] = S[1] /\ S[1].key = key /\ S[1].nonce = n
                  /\ S[1].plain \in Seq(Nat) /\ Len(S[1].plain) = len /\ <<off, S[1].plain>> \in bodies
                  /\ Flow(SubSeq(S, (len + TAG_LENGTH) + 1, Len(S)), key, bodies,
                          At("length", NextNonce(n), off + len, 0), last, whole)
<1> DEFINE p == At("body", n, off, len)
<1>1. p \in Place /\ p.kind = "body" /\ p.nonce = n /\ p.off = off /\ p.len = len
  BY DEF Place, At
<1>2. Flow(S, key, bodies, p, last, whole)
  OBVIOUS
<1> HIDE DEF p
<1>3. PICK plain \in Seq(Nat) :
         /\ Fits(bodies, p, plain)
         /\ \A k \in 1..Size(p, plain) : k <= Len(S) => S[k] = UnitAt(key, p, plain, k)
         /\ Len(S) >= Size(p, plain) =>
                Flow(SubSeq(S, Size(p, plain) + 1, Len(S)), key, bodies, After(p, plain), last, whole)
         /\ whole => Len(S) >= Size(p, plain)
  <2>1. Headed(S, key, bodies, p, last, whole)
    BY <1>2, <1>1, FlowTaken
  <2>2. QED
    BY <2>1 DEF Headed
<1>4. Len(plain) = len /\ <<off, plain>> \in bodies
  BY <1>1, <1>3 DEF Fits
<1>5. Size(p, plain) = len + TAG_LENGTH
  BY <1>1, <1>4, FramingAssumption DEF Size
<1>6. S \in Seq(Units)
  BY DEF Flow
<1>7. ASSUME Len(S) >= len + TAG_LENGTH
      PROVE  /\ Opens(key, n, SubSeq(S, 1, len + TAG_LENGTH))
             /\ SubSeq(S, 1, len + TAG_LENGTH)[1] = S[1]
             /\ S[1].plain = plain /\ S[1].key = key /\ S[1].nonce = n
  <2>1. p.kind # "nonce" /\ Len(S) >= Size(p, plain)
    BY <1>1, <1>5, <1>7
  <2>2. /\ Opens(key, p.nonce, SubSeq(S, 1, Size(p, plain)))
        /\ SubSeq(S, 1, Size(p, plain))[1] = S[1]
        /\ S[1].plain = plain /\ S[1].nonce = p.nonce /\ S[1].key = key
    BY <1>1, <1>3, <1>6, <2>1, BoxOpens
  <2>3. QED
    BY <2>2, <1>1, <1>5
<1>8. After(p, plain) = At("length", NextNonce(n), off + len, 0)
  BY <1>1, <1>4 DEF After
<1>9. QED
  BY <1>3, <1>4, <1>5, <1>7, <1>8

LEMMA NonceBoxTaken ==
    ASSUME NEW S, NEW key \in Keys, NEW bodies, NEW n \in Nonces, NEW off \in Nat,
           NEW last, NEW whole \in BOOLEAN, S # <<>>,
           Flow(S, key, bodies, At("nonce", n, off, 0), last, whole)
    PROVE  /\ whole => Len(S) >= NONCE_LENGTH
           /\ S[1].nonce = n
           /\ Len(S) >= NONCE_LENGTH =>
                  Flow(SubSeq(S, NONCE_LENGTH + 1, Len(S)), key, bodies, At("length", n, off, 0), last, whole)
<1> DEFINE p == At("nonce", n, off, 0)
<1>1. p \in Place /\ p.kind = "nonce" /\ p.nonce = n /\ p.off = off
  BY DEF Place, At
<1>2. Flow(S, key, bodies, p, last, whole)
  OBVIOUS
<1> HIDE DEF p
<1>3. PICK plain \in Seq(Nat) :
         /\ Fits(bodies, p, plain)
         /\ \A k \in 1..Size(p, plain) : k <= Len(S) => S[k] = UnitAt(key, p, plain, k)
         /\ Len(S) >= Size(p, plain) =>
                Flow(SubSeq(S, Size(p, plain) + 1, Len(S)), key, bodies, After(p, plain), last, whole)
         /\ whole => Len(S) >= Size(p, plain)
  <2>1. Headed(S, key, bodies, p, last, whole)
    BY <1>2, <1>1, FlowTaken
  <2>2. QED
    BY <2>1 DEF Headed
<1>4. Size(p, plain) = NONCE_LENGTH /\ NONCE_LENGTH \in Nat \ {0}
  BY <1>1, FramingAssumption DEF Size
<1>5. S \in Seq(Units) /\ Len(S) \in Nat \ {0}
  BY DEF Flow
<1>6. S[1].nonce = n
  <2>1. 1 \in 1..Size(p, plain) /\ 1 <= Len(S)
    BY <1>4, <1>5
  <2>2. S[1] = UnitAt(key, p, plain, 1)
    BY <1>3, <2>1
  <2>3. QED
    BY <1>1, <2>2 DEF UnitAt
<1>7. After(p, plain) = At("length", n, off, 0)
  BY <1>1 DEF After
<1>8. QED
  BY <1>3, <1>4, <1>6, <1>7

-----------------------------------------------------------------------------
(* The client's nonces *)

Pairs == [low : 0..(WORD - 1), high : 0..(WORD - 1)]

\* The two words count as the one number of the server does: NextWords carries
\* where NextNonce does, and both wrap at the same value.
LEMMA WordsFacts ==
    /\ \A n \in Nonces : ToWords(n) \in Pairs /\ Value(ToWords(n)) = n
    /\ \A w \in Pairs : /\ NextWords(w) \in Pairs /\ Value(w) \in Nonces
                        /\ Value(NextWords(w)) = NextNonce(Value(w))
<1>1. WORD \in Nat \ {0}
  BY FramingAssumption
<1>2. ASSUME NEW n \in Nonces PROVE ToWords(n) \in Pairs /\ Value(ToWords(n)) = n
  <2>1. n \in Nat /\ n < WORD * WORD
    BY <1>1, NonceFacts DEF Nonces
  <2>2. n % WORD \in 0..(WORD - 1) /\ n \div WORD \in Nat /\ (n \div WORD) * WORD + (n % WORD) = n
    BY <1>1, <2>1
  <2>3. n \div WORD \in 0..(WORD - 1)
    <3>1. SUFFICES ASSUME n \div WORD >= WORD PROVE FALSE
      BY <1>1, <2>2
    <3>2. \A a, b \in Nat : a >= b => a * b >= b * b
      OBVIOUS
    <3>3. (n \div WORD) * WORD >= WORD * WORD
      BY <1>1, <2>2, <3>1, <3>2
    <3>4. \A a, r, N \in Nat : a >= N => a + r >= N
      OBVIOUS
    <3>5. n >= WORD * WORD
      BY <1>1, <2>2, <3>3, <3>4
    <3>6. QED
      BY <1>1, <2>1, <3>5
  <2>4. QED
    BY <2>2, <2>3 DEF ToWords, Pairs, Value
<1>3. ASSUME NEW w \in Pairs
      PROVE  /\ NextWords(w) \in Pairs /\ Value(w) \in Nonces
             /\ Value(NextWords(w)) = NextNonce(Value(w))
  <2> DEFINE l == w.low
             h == w.high
  <2>1. l \in 0..(WORD - 1) /\ h \in 0..(WORD - 1)
    BY DEF Pairs
  <2> HIDE DEF l, h
  <2>2. h * WORD + l \in Nonces
    <3>1. \A a, b \in Nat : a <= b => a * WORD <= b * WORD
      BY <1>1
    <3>2. h * WORD <= (WORD - 1) * WORD
      BY <1>1, <2>1, <3>1
    <3>3. (WORD - 1) * WORD = WORD * WORD - WORD
      BY <1>1
    <3>4. h * WORD \in Nat /\ WORD * WORD \in Nat
      BY <1>1, <2>1
    <3>5. QED
      BY <1>1, <2>1, <3>2, <3>3, <3>4 DEF Nonces
  <2>3. CASE l + 1 < WORD
    <3>1. (l + 1) % WORD = l + 1 /\ l + 1 # 0
      BY <1>1, <2>1, <2>3
    <3>2. NextWords(w) = [low |-> l + 1, high |-> h]
      BY <3>1 DEF NextWords, l, h
    <3>3. NextWords(w) \in Pairs
      BY <3>2, <1>1, <2>1, <2>3 DEF Pairs
    <3>4. Value(NextWords(w)) = (h * WORD + l) + 1
      BY <3>2, <1>1, <2>1 DEF Value
    <3>5. (h * WORD + l) + 1 < WORD * WORD
      <4>1. \A a, b \in Nat : a <= b => a * WORD <= b * WORD
        BY <1>1
      <4>2. h * WORD <= (WORD - 1) * WORD
        BY <1>1, <2>1, <4>1
      <4>3. (WORD - 1) * WORD = WORD * WORD - WORD
        BY <1>1
      <4>4. h * WORD \in Nat /\ WORD * WORD \in Nat
        BY <1>1, <2>1
      <4>5. QED
        BY <1>1, <2>1, <2>3, <4>2, <4>3, <4>4
    <3>6. \A N \in Nat \ {0} : \A n \in Nat : n < N => n % N = n
      OBVIOUS
    <3>7. ((h * WORD + l) + 1) % (WORD * WORD) = (h * WORD + l) + 1
      <4>1. WORD * WORD \in Nat \ {0} /\ (h * WORD + l) + 1 \in Nat
        BY <1>1, <2>1
      <4>2. QED
        BY <4>1, <3>5, <3>6
    <3>8. QED
      BY <3>3, <3>4, <3>7, <2>2 DEF Value, NextNonce, l, h
  <2>4. CASE l + 1 = WORD
    <3>1. (l + 1) % WORD = 0
      BY <1>1, <2>1, <2>4
    <3>2. NextWords(w) = [low |-> 0, high |-> (h + 1) % WORD]
      BY <3>1 DEF NextWords, l, h
    <3>3. (h + 1) % WORD \in 0..(WORD - 1)
      BY <1>1, <2>1
    <3>4. NextWords(w) \in Pairs
      BY <1>1, <3>2, <3>3 DEF Pairs
    <3>5. Value(NextWords(w)) = ((h + 1) % WORD) * WORD
      BY <3>2, <3>3, <1>1 DEF Value
    <3>6. (h * WORD + l) + 1 = (h + 1) * WORD
      BY <1>1, <2>1, <2>4
    <3>7. ((h + 1) * WORD) % (WORD * WORD) = ((h + 1) % WORD) * WORD
      <4>1. CASE h + 1 = WORD
        <5>1. (h + 1) % WORD = 0 /\ (h + 1) * WORD = WORD * WORD
          BY <1>1, <4>1
        <5>2. \A N \in Nat \ {0} : N % N = 0
          OBVIOUS
        <5>3. WORD * WORD \in Nat \ {0} /\ 0 * WORD = 0
          BY <1>1
        <5>4. QED
          BY <5>1, <5>2, <5>3
      <4>2. CASE h + 1 < WORD
        <5>1. (h + 1) % WORD = h + 1
          BY <1>1, <2>1, <4>2
        <5>2. \A a, b \in Nat : a < b => a * WORD < b * WORD
          BY <1>1
        <5>3. (h + 1) * WORD < WORD * WORD
          BY <1>1, <2>1, <4>2, <5>2
        <5>4. \A N \in Nat \ {0} : \A n \in Nat : n < N => n % N = n
          OBVIOUS
        <5>5. WORD * WORD \in Nat \ {0} /\ (h + 1) * WORD \in Nat
          BY <1>1, <2>1
        <5>6. QED
          BY <5>1, <5>3, <5>4, <5>5
      <4>3. QED
        BY <1>1, <2>1, <4>1, <4>2
    <3>8. QED
      BY <3>4, <3>5, <3>6, <3>7, <2>2 DEF Value, NextNonce, l, h
  <2>5. QED
    BY <1>1, <2>1, <2>3, <2>4
<1>4. QED
  BY <1>2, <1>3

-----------------------------------------------------------------------------
(* The invariant *)

\* The payloads of the upstream when H is the header and T the text sealed after it.
Uploads(H, T) ==
    {a \in Nat \X Seq(Nat) :
        /\ a[2] # <<>>
        /\ \/ a = <<0, H>>
           \/ /\ Len(H) <= a[1] /\ (a[1] - Len(H)) + Len(a[2]) <= Len(T)
              /\ a[2] = SubSeq(T, (a[1] - Len(H)) + 1, (a[1] - Len(H)) + Len(a[2]))}

\* The payloads of the downstream: pieces of the reply, at their offsets.
Answers ==
    {a \in Nat \X Seq(Nat) : /\ a[1] + Len(a[2]) <= Len(Reply) /\ Len(a[2]) <= MAX_FRAME_PAYLOAD
                             /\ a[2] = SubSeq(Reply, a[1] + 1, a[1] + Len(a[2]))}

Types ==
    /\ conf \in Confs /\ clock \in ClientClocks
    /\ tunnel \in {"idle", "header", "leftover", "fin"}
    /\ cn \in [start : Nonces, words : Pairs] /\ cn.start \in ClientNonces
    /\ unsealed \in Seq(Nat) /\ sent \in Seq(Nat) /\ asked \in Seq(Nat) /\ remote \in Seq(Nat)
    /\ server \in {"reading", "dialling", "udp", "relay", "ended"}
    /\ scn \in [start : Nonces, next : Nonces] /\ mode \in BOOLEAN
    /\ answered \in 0..Len(Reply) /\ raw \in Seq(Nat)
    /\ sn \in [start : Nonces, next : Nonces]
    /\ up \in Seq(Units) /\ rx \in Seq(Units) /\ down \in Seq(Units) /\ downEnd \in {"open", "fin", "reset"}
    /\ csn \in [start : Nonces, words : Pairs]
    /\ expected \in Nat \cup {-1} /\ got \in Seq(Nat)
    /\ decoder \in {"nonce", "frames", "error", "fin"}

\* Where the server reads on.
ServerReads(off) ==
    IF server = "reading" THEN At("nonce", cn.start, off, 0) ELSE At("length", scn.next, off, 0)

\* What the client seals first: the time it shows and the destination.
Opening == <<Even(clock), 0, 0, 0>> \o asked

\* What is in flight leads from where the server reads to where the client seals;
\* H and T are what the client has sealed, and of T the target got what is before
\* the server's place.
Upstream(H, T, a) ==
    /\ Flow(up, ClientKey, Uploads(H, T), ServerReads(a), At("length", Value(cn.words), Len(H) + Len(T), 0), TRUE)
    /\ IF tunnel = "header" THEN H = <<>> /\ T = <<>> ELSE H = Opening /\ T \o unsealed = sent
    /\ IF server = "reading" THEN a = 0
       ELSE Len(H) <= a /\ a <= Len(H) + Len(T) /\ remote = SubSeq(T, 1, a - Len(H))

Uploading == \E H, T \in Seq(Nat) : \E a \in Nat : Upstream(H, T, a)

Delivered == Len(remote) <= Len(sent) /\ remote = SubSeq(sent, 1, Len(remote))

UpFlows ==
    /\ Delivered
    /\ tunnel = "idle" => up = <<>> /\ Value(cn.words) = cn.start
    /\ tunnel \in {"idle", "header"} => unsealed = <<>> /\ sent = <<>>
    /\ target = Refused => server \in {"reading", "ended"} /\ remote = <<>>
    /\ target # Refused => /\ server # "reading" /\ tunnel \notin {"idle", "header"}
                           /\ conf.samePassword /\ mode = conf.withoutBrook /\ scn.start = cn.start
                           /\ target = ParseBrookDestination(asked) /\ server # "udp"
    /\ server = "ended" /\ up = <<>> => remote \o unsealed = sent
    /\ server # "ended" /\ tunnel # "idle" => Uploading

\* Where the client's decoder reads on, and where the server seals.
ClientReads ==
    IF decoder = "nonce" THEN At("nonce", sn.start, 0, 0)
    ELSE IF expected = -1 THEN At("length", Value(csn.words), Len(got), 0)
    ELSE At("body", Value(csn.words), Len(got), expected)

ServerSends == At("length", sn.next, answered - Len(raw), 0)

\* What is in rx and in flight leads from the one to the other, unless a reset cut
\* it off; what is raw is the piece of the reply before what was read of it.
DownFlows ==
    /\ server # "ended" => downEnd = "open"
    /\ decoder = "error" => downEnd = "reset"
    /\ Len(got) <= Len(Reply) /\ got = SubSeq(Reply, 1, Len(got))
    /\ decoder = "fin" => got = Reply
    /\ Len(raw) <= answered /\ raw = SubSeq(Reply, answered - Len(raw) + 1, answered)
    /\ downEnd = "fin" => raw = <<>> /\ answered = Len(Reply)
    /\ decoder = "nonce" => expected = -1 /\ got = <<>>
    /\ expected <= MAX_FRAME_PAYLOAD
    /\ target = Refused => /\ rx = <<>> /\ down = <<>> /\ decoder \in {"nonce", "error"}
                           /\ sn.next = sn.start /\ answered = 0 /\ raw = <<>> /\ downEnd # "fin"
    /\ target # Refused /\ decoder \in {"nonce", "frames"} =>
           /\ decoder = "frames" => csn.start = sn.start
           /\ Flow(rx \o down, ServerKey, Answers, ClientReads, ServerSends, downEnd # "reset")

FramingInv == Types /\ UpFlows /\ DownFlows

-----------------------------------------------------------------------------
(* The steps *)

LEMMA KeyFacts ==
    ASSUME Types
    PROVE  /\ ClientKey \in Keys /\ ServerKey \in Keys
           /\ conf.samePassword \in BOOLEAN /\ conf.withoutBrook \in BOOLEAN /\ conf.default \in BOOLEAN
           /\ cn.start \in Nonces /\ cn.words \in Pairs /\ Value(cn.words) \in Nonces
           /\ csn.words \in Pairs /\ Value(csn.words) \in Nonces
           /\ sn.start \in Nonces /\ sn.next \in Nonces /\ scn.start \in Nonces /\ scn.next \in Nonces
<1>1. conf \in [samePassword : BOOLEAN, withoutBrook : BOOLEAN, default : BOOLEAN]
  BY FramingAssumption DEF Types
<1>2. cn.start \in Nonces /\ cn.words \in Pairs /\ csn.words \in Pairs
      /\ sn.start \in Nonces /\ sn.next \in Nonces /\ scn.start \in Nonces /\ scn.next \in Nonces
  BY DEF Types
<1>3. ClientKey \in Keys /\ ServerKey \in Keys
  BY <1>1, <1>2 DEF Types, ClientKey, ServerKey, Key, ClientPassword, Keys
<1>4. QED
  BY <1>1, <1>2, <1>3, WordsFacts

LEMMA OpeningFacts ==
    ASSUME Types
    PROVE  /\ Opening \in Seq(Nat) /\ Opening # <<>>
           /\ SubSeq(Opening, 5, Len(Opening)) = asked
           /\ Opening[1] \in Nat /\ Opening[1] % 2 = 0
<1>1. clock \in Nat /\ asked \in Seq(Nat)
  BY FramingAssumption DEF Types
<1>2. Even(clock) \in Nat /\ Even(clock) % 2 = 0
  BY <1>1 DEF Even
<1> DEFINE t == Even(clock)
           head == <<t, 0, 0, 0>>
<1> HIDE DEF t
<1>3. head \in Seq(Nat) /\ Len(head) = 4 /\ head[1] = t
  BY <1>2 DEF t
<1> HIDE DEF head
<1>4. /\ head \o asked \in Seq(Nat) /\ Len(head \o asked) = 4 + Len(asked) /\ (head \o asked)[1] = t
      /\ \A i \in 1..Len(asked) : (head \o asked)[4 + i] = asked[i]
  <2>1. /\ head \o asked \in Seq(Nat) /\ Len(head \o asked) = Len(head) + Len(asked)
        /\ \A i \in 1..(Len(head) + Len(asked)) :
               (head \o asked)[i] = IF i <= Len(head) THEN head[i] ELSE asked[i - Len(head)]
    BY <1>1, <1>3, ConcatProperties
  <2>2. Len(asked) \in Nat
    BY <1>1
  <2> DEFINE all == head \o asked
  <2> HIDE DEF all
  <2>3. \A i \in 1..(4 + Len(asked)) : all[i] = IF i <= 4 THEN head[i] ELSE asked[i - 4]
    BY <1>3, <2>1 DEF all
  <2>4. all[1] = t
    BY <1>3, <2>2, <2>3
  <2>5. ASSUME NEW i \in 1..Len(asked) PROVE all[4 + i] = asked[i]
    <3>1. 4 + i \in 1..(4 + Len(asked)) /\ ~(4 + i <= 4) /\ (4 + i) - 4 = i
      BY <2>2
    <3>2. QED
      BY <2>3, <3>1
  <2>6. QED
    BY <1>3, <2>1, <2>4, <2>5 DEF all
<1> DEFINE all == head \o asked
           rest == SubSeq(all, 5, Len(all))
<1> HIDE DEF all
<1>5. rest \in Seq(Nat) /\ Len(rest) = Len(asked) /\ \A i \in 1..Len(asked) : rest[i] = asked[i]
  <2>1. all \in Seq(Nat) /\ Len(all) = 4 + Len(asked) /\ \A i \in 1..Len(asked) : all[4 + i] = asked[i]
    BY <1>4 DEF all
  <2>2. rest \in Seq(Nat) /\ Len(rest) = Len(asked)
    BY <1>1, <2>1
  <2>3. \A i \in 1..Len(asked) : rest[i] = all[4 + i]
    BY <1>1, <2>1
  <2>4. QED
    BY <2>1, <2>2, <2>3
<1> HIDE DEF rest
<1>6. rest = asked
  BY <1>1, <1>5, SeqEqual
<1>7. Opening = all
  BY DEF Opening, all, head, t
<1>8. all # <<>>
  BY <1>1, <1>4 DEF all
<1>9. QED
  BY <1>2, <1>4, <1>6, <1>7, <1>8 DEF rest, all, t

LEMMA FramingStarts == FramingInit => FramingInv
<1> SUFFICES ASSUME FramingInit PROVE FramingInv
  OBVIOUS
<1>1. ClientNonces \cup ServerNonces \subseteq Nonces
  BY FramingAssumption DEF Nonces
<1>2. PICK n \in ClientNonces : cn = [start |-> n, words |-> ToWords(n)]
  BY DEF FramingInit
<1>3. PICK m \in ServerNonces : sn = [start |-> m, next |-> m]
  BY DEF FramingInit
<1>4. 0 \in Nonces
  BY NonceFacts DEF Nonces
<1>5. cn \in [start : Nonces, words : Pairs] /\ cn.start \in ClientNonces /\ sn \in [start : Nonces, next : Nonces]
      /\ Value(cn.words) = cn.start /\ sn.next = sn.start
  BY <1>1, <1>2, <1>3, WordsFacts
<1>6. csn \in [start : Nonces, words : Pairs] /\ scn \in [start : Nonces, next : Nonces]
  BY <1>4, WordsFacts DEF FramingInit
<1>7. Reply \in Seq(Nat)
  BY FramingAssumption
<1>8. Types
  <2>1. 0 \in 0..Len(Reply) /\ -1 \in Nat \cup {-1} /\ FALSE \in BOOLEAN
    BY <1>7
  <2>2. \A U : <<>> \in Seq(U)
    OBVIOUS
  <2>3. QED
    BY <1>5, <1>6, <2>1, <2>2 DEF FramingInit, Types
<1>9. UpFlows
  <2>1. remote = <<>> /\ sent = <<>> /\ unsealed = <<>> /\ Len(<<>>) = 0
    BY DEF FramingInit
  <2>2. <<>> = SubSeq(<<>>, 1, 0)
    OBVIOUS
  <2>3. QED
    BY <1>5, <2>1, <2>2 DEF FramingInit, UpFlows, Delivered
<1>10. DownFlows
  <2>1. expected <= MAX_FRAME_PAYLOAD
    BY FramingAssumption DEF FramingInit
  <2>2. QED
    BY <1>5, <1>7, <2>1 DEF FramingInit, DownFlows
<1>11. QED
  BY <1>8, <1>9, <1>10 DEF FramingInv

\* A step the client and the server take without touching what is in flight.
LEMMA UploadingKept ==
    ASSUME Uploading, UNCHANGED <<conf, clock, cn, unsealed, sent, asked, up, scn, remote>>,
           tunnel' = tunnel \/ (tunnel # "header" /\ tunnel' # "header"),
           server' = server \/ (server # "reading" /\ server' # "reading")
    PROVE  Uploading'
<1>1. ClientKey' = ClientKey /\ \A a : ServerReads(a)' = ServerReads(a)
  BY DEF ClientKey, ClientPassword, ServerReads
<1>2. PICK H \in Seq(Nat), T \in Seq(Nat), a \in Nat : Upstream(H, T, a)
  BY DEF Uploading
<1>3. Flow(up', ClientKey', Uploads(H, T), ServerReads(a)', At("length", Value(cn.words)', Len(H) + Len(T), 0), TRUE)
  <2>1. Value(cn.words)' = Value(cn.words)
    BY DEF Value
  <2>2. QED
    BY <1>1, <1>2, <2>1 DEF Upstream
<1>4. /\ IF tunnel' = "header" THEN H = <<>> /\ T = <<>> ELSE H = Opening' /\ T \o unsealed' = sent'
      /\ IF server' = "reading" THEN a = 0
         ELSE Len(H) <= a /\ a <= Len(H) + Len(T) /\ remote' = SubSeq(T, 1, a - Len(H))
  BY <1>2 DEF Upstream, Opening
<1>5. Upstream(H, T, a)'
  BY <1>3, <1>4 DEF Upstream
<1>6. QED
  BY <1>2, <1>5 DEF Uploading

\* The steps that leave one of the two directions alone.
LEMMA UpSame ==
    ASSUME UpFlows, UNCHANGED <<conf, clock, tunnel, cn, unsealed, sent, asked, up, server, scn, mode, target, remote>>
    PROVE  UpFlows'
<1>1. Uploading => Uploading'
  BY UploadingKept
<1>2. QED
  BY <1>1 DEF UpFlows, Delivered

LEMMA DownSame ==
    ASSUME DownFlows, UNCHANGED <<server, mode, target, replyVars, down, downEnd, decoderVars>>
    PROVE  DownFlows'
<1>1. ServerKey' = ServerKey /\ ClientReads' = ClientReads /\ ServerSends' = ServerSends
  BY DEF ServerKey, ClientReads, ServerSends, replyVars, decoderVars
<1>2. QED
  BY <1>1 DEF DownFlows, replyVars, decoderVars

LEMMA FlowWidens ==
    ASSUME NEW S, NEW key, NEW bodies, NEW wider, NEW first, NEW last, NEW whole \in BOOLEAN,
           Flow(S, key, bodies, first, last, whole), bodies \subseteq wider
    PROVE  Flow(S, key, wider, first, last, whole)
<1>1. \A p \in Place : \A plain : Fits(bodies, p, plain) => Fits(wider, p, plain)
  BY DEF Fits, Place
<1>2. ASSUME NEW m \in Nat, NEW P, NEW T, NEW at, Laid(S, key, bodies, m, P, T, at)
      PROVE  Laid(S, key, wider, m, P, T, at)
  <2>1. \A j \in 1..m : P[j] \in Place
    BY <1>2 DEF Laid
  <2>2. \A j \in 1..m : Fits(wider, P[j], T[j])
    BY <1>1, <1>2, <2>1 DEF Laid
  <2>3. QED
    BY <1>2, <2>2 DEF Laid
<1>3. QED
  BY <1>2 DEF Flow

LEMMA PartFacts ==
    ASSUME NEW X, NEW a \in Seq(X), NEW b \in Seq(X), NEW i \in Nat, NEW j \in Nat, i + j <= Len(a)
    PROVE  SubSeq(a \o b, i + 1, i + j) = SubSeq(a, i + 1, i + j)
<1>1. a \o b \in Seq(X) /\ Len(a \o b) = Len(a) + Len(b)
      /\ \A k \in 1..(Len(a) + Len(b)) : (a \o b)[k] = IF k <= Len(a) THEN a[k] ELSE b[k - Len(a)]
  BY ConcatProperties
<1> DEFINE S == a \o b
<1> HIDE DEF S
<1>2. S \in Seq(X) /\ Len(S) = Len(a) + Len(b) /\ \A k \in 1..Len(a) : S[k] = a[k]
  BY <1>1 DEF S
<1>3. SubSeq(S, i + 1, i + j) = SubSeq(a, i + 1, i + j)
  <2>1. /\ i + j \in 0..Len(a) /\ 0 + Len(a) <= Len(S) /\ 0 \in Nat
        /\ \A k \in 1..Len(a) : a[k] = S[0 + k]
    BY <1>2
  <2>2. SubSeq(a, i + 1, i + j) = SubSeq(S, (0 + i) + 1, 0 + (i + j))
    BY <2>1, <1>2, PartOfPart
  <2>3. 0 + i = i /\ 0 + (i + j) = i + j
    OBVIOUS
  <2>4. QED
    BY <2>2, <2>3
<1>4. QED
  BY <1>3 DEF S

LEMMA UploadsGrow ==
    ASSUME NEW H \in Seq(Nat), NEW T \in Seq(Nat), NEW plain \in Seq(Nat), plain # <<>>
    PROVE  /\ Uploads(H, T) \subseteq Uploads(H, T \o plain)
           /\ <<Len(H) + Len(T), plain>> \in Uploads(H, T \o plain)
<1> DEFINE U == T \o plain
<1>1. U \in Seq(Nat) /\ Len(U) = Len(T) + Len(plain)
  BY ConcatProperties
<1>2. ASSUME NEW a \in Uploads(H, T) PROVE a \in Uploads(H, U)
  <2>1. a \in Nat \X Seq(Nat) /\ a[1] \in Nat /\ a[2] \in Seq(Nat)
    BY DEF Uploads
  <2>2. CASE a = <<0, H>>
    BY <2>2 DEF Uploads
  <2>3. CASE a # <<0, H>>
    <3> DEFINE i == a[1] - Len(H)
               j == Len(a[2])
    <3>1. Len(H) <= a[1] /\ i + j <= Len(T) /\ a[2] = SubSeq(T, i + 1, i + j) /\ a[2] # <<>>
      BY <2>3 DEF Uploads
    <3>2. i \in Nat /\ j \in Nat
      BY <2>1, <3>1
    <3> HIDE DEF i, j, U
    <3>3. SubSeq(U, i + 1, i + j) = SubSeq(T, i + 1, i + j)
      BY <3>1, <3>2, PartFacts DEF U
    <3>4. i + j <= Len(U)
      BY <3>1, <3>2, <1>1
    <3>5. Len(H) <= a[1] /\ i + j <= Len(U) /\ a[2] = SubSeq(U, i + 1, i + j) /\ a[2] # <<>>
      BY <3>1, <3>3, <3>4
    <3>6. QED
      BY <3>5, <2>1 DEF Uploads, i, j
  <2>4. QED
    BY <2>2, <2>3
<1>3. SubSeq(U, Len(T) + 1, Len(U)) = plain
  <2>1. Len(T) \in 0..Len(T)
    OBVIOUS
  <2>2. SubSeq(U, Len(T) + 1, Len(U)) = SubSeq(T, Len(T) + 1, Len(T)) \o plain
    BY <2>1, TakeFacts
  <2>3. SubSeq(T, Len(T) + 1, Len(T)) = <<>>
    OBVIOUS
  <2>4. <<>> \o plain = plain
    BY ConcatEmptySeq
  <2>5. QED
    BY <2>2, <2>3, <2>4
<1> HIDE DEF U
<1>4. <<Len(H) + Len(T), plain>> \in Uploads(H, U)
  <2> DEFINE a == <<Len(H) + Len(T), plain>>
  <2>1. a \in Nat \X Seq(Nat) /\ a[1] = Len(H) + Len(T) /\ a[2] = plain
    OBVIOUS
  <2> HIDE DEF a
  <2>2. Len(H) <= a[1] /\ a[1] - Len(H) = Len(T)
    BY <2>1
  <2>3. (a[1] - Len(H)) + 1 = Len(T) + 1 /\ (a[1] - Len(H)) + Len(a[2]) = Len(U)
    BY <2>1, <2>2, <1>1
  <2>4. a[2] = SubSeq(U, (a[1] - Len(H)) + 1, (a[1] - Len(H)) + Len(a[2]))
    BY <2>1, <2>3, <1>3
  <2>5. (a[1] - Len(H)) + Len(a[2]) <= Len(U)
    BY <2>3, <1>1
  <2>6. a \in Uploads(H, U)
    BY <2>1, <2>2, <2>4, <2>5 DEF Uploads
  <2>7. QED
    BY <2>6 DEF a
<1>5. QED
  BY <1>2, <1>4 DEF U

\* What the client seals is at the end of what is in flight, and is a payload.
LEMMA ClientSealsStep ==
    ASSUME Types, NEW first, NEW bodies, NEW b \in Nat, NEW plain \in Seq(Nat), plain # <<>>,
           ClientSeals(plain), <<b, plain>> \in bodies,
           Flow(up, ClientKey, bodies, first, At("length", Value(cn.words), b, 0), TRUE)
    PROVE  Flow(up', ClientKey, bodies, first, At("length", Value(cn'.words), b + Len(plain), 0), TRUE)
<1>1. Flow(up \o Seal(ClientKey, Value(cn.words), PortBytes(Len(plain)))
              \o Seal(ClientKey, NextNonce(Value(cn.words)), plain), ClientKey, bodies, first,
           At("length", NextNonce(NextNonce(Value(cn.words))), b + Len(plain), 0), TRUE)
  BY KeyFacts, FlowFrame
<1>2. /\ Value(NextWords(cn.words)) = NextNonce(Value(cn.words))
      /\ Value(NextWords(NextWords(cn.words))) = NextNonce(NextNonce(Value(cn.words)))
  BY KeyFacts, WordsFacts
<1>3. cn'.words = NextWords(NextWords(cn.words))
  BY DEF ClientSeals, Types
<1>4. up' = up \o Seal(ClientKey, Value(cn.words), PortBytes(Len(plain)))
               \o Seal(ClientKey, NextNonce(Value(cn.words)), plain)
  BY <1>2 DEF ClientSeals
<1>5. QED
  BY <1>1, <1>2, <1>3, <1>4

LEMMA ClientSealsTypes ==
    ASSUME Types, NEW plain \in Seq(Nat), ClientSeals(plain)
    PROVE  /\ cn' \in [start : Nonces, words : Pairs] /\ cn'.start = cn.start
           /\ up' \in Seq(Units) /\ up' # <<>>
<1>1. cn.words \in Pairs /\ NextWords(cn.words) \in Pairs /\ NextWords(NextWords(cn.words)) \in Pairs
  BY KeyFacts, WordsFacts
<1>2. cn' \in [start : Nonces, words : Pairs] /\ cn'.start = cn.start
  BY <1>1 DEF ClientSeals, Types
<1>3. PICK s, t \in Seq(Units) : up' = up \o s \o t /\ s # <<>>
  <2>1. Value(cn.words) \in Nonces /\ Value(NextWords(cn.words)) \in Nonces
    BY <1>1, WordsFacts
  <2>2. PortBytes(Len(plain)) \in Seq(Nat)
    BY PortBytesFacts
  <2>3. /\ Seal(ClientKey, Value(cn.words), PortBytes(Len(plain))) \in Seq(Units)
        /\ Seal(ClientKey, Value(cn.words), PortBytes(Len(plain))) # <<>>
        /\ Seal(ClientKey, Value(NextWords(cn.words)), plain) \in Seq(Units)
    BY <2>1, <2>2, KeyFacts, SealUnits
  <2>4. QED
    BY <2>3 DEF ClientSeals
<1>4. up \in Seq(Units)
  BY DEF Types
<1>5. up \o s \in Seq(Units) /\ up \o s # <<>>
  BY <1>3, <1>4
<1>6. (up \o s) \o t \in Seq(Units) /\ (up \o s) \o t # <<>>
  BY <1>3, <1>5
<1>7. QED
  BY <1>2, <1>3, <1>6

LEMMA SendNonceKeeps == ASSUME FramingInv, SendNonce PROVE FramingInv'
<1> USE DEF FramingInv
<1>1. Types'
  <2>1. ClientKey \in Keys /\ cn.start \in Nonces /\ <<>> \in Seq(Nat)
    BY KeyFacts
  <2>2. RawNonce(cn.start) \in Seq(Units)
    BY <2>1, SealUnits
  <2>3. QED
    BY <2>2 DEF Types, SendNonce, serverVars, replyVars, decoderVars
<1>2. DownFlows'
  <2>1. UNCHANGED <<server, mode, target, replyVars, down, downEnd, decoderVars>>
    BY DEF SendNonce, serverVars
  <2>2. QED
    BY <2>1, DownSame
<1>3. UpFlows'
  <2>1. /\ tunnel = "idle" /\ tunnel' = "header" /\ up' = RawNonce(cn.start)
        /\ UNCHANGED <<conf, clock, cn, unsealed, sent, asked, server, scn, mode, target, remote>>
    BY DEF SendNonce, serverVars
  <2>2. /\ target = Refused /\ server \in {"reading", "ended"} /\ Value(cn.words) = cn.start
        /\ unsealed = <<>> /\ sent = <<>>
    BY <2>1 DEF UpFlows
  <2> DEFINE bodies == Uploads(<<>>, <<>>)
  <2> HIDE DEF bodies
  <2>3. Flow(RawNonce(cn.start), ClientKey, bodies, At("nonce", cn.start, 0, 0), At("length", cn.start, 0, 0), TRUE)
    <3> DEFINE p == At("nonce", cn.start, 0, 0)
    <3>1. p \in Place /\ p.kind = "nonce" /\ p.nonce = cn.start /\ p.off = 0
      BY KeyFacts DEF At, Place
    <3>2. Fits(bodies, p, <<>>) /\ After(p, <<>>) = At("length", cn.start, 0, 0)
      BY <3>1 DEF Fits, After
    <3> HIDE DEF p
    <3>3. <<>> \in Seq(Nat)
      OBVIOUS
    <3>4. BoxAt(ClientKey, p, <<>>) = RawNonce(cn.start)
      BY <3>1, <3>3, BoxIsSeal
    <3>5. Flow(<<>>, ClientKey, bodies, p, p, TRUE)
      BY <3>1, FlowStarts
    <3>6. Flow(<<>> \o BoxAt(ClientKey, p, <<>>), ClientKey, bodies, p, After(p, <<>>), TRUE)
      BY <3>1, <3>2, <3>3, <3>5, KeyFacts, FlowGrows
    <3>7. BoxAt(ClientKey, p, <<>>) \in Seq(Units)
      BY <3>1, <3>2, <3>3, KeyFacts, PlaceFacts
    <3>8. <<>> \o BoxAt(ClientKey, p, <<>>) = RawNonce(cn.start)
      BY <3>4, <3>7
    <3>9. QED
      BY <3>2, <3>6, <3>8 DEF p
  <2>4. ClientKey' = ClientKey
    BY <2>1 DEF ClientKey, ClientPassword
  <2>5. ServerReads(0)' = At("nonce", cn.start, 0, 0) \/ server' = "ended"
    BY <2>1, <2>2 DEF ServerReads
  <2>6. server' # "ended" => Flow(up', ClientKey', bodies, ServerReads(0)', At("length", Value(cn'.words), 0, 0), TRUE)
    BY <2>1, <2>2, <2>3, <2>4, <2>5
  <2>7. server' # "ended" => Upstream(<<>>, <<>>, 0)'
    <3>1. Len(<<>>) + Len(<<>>) = 0
      OBVIOUS
    <3>2. server' # "ended" => server' = "reading"
      BY <2>1, <2>2
    <3>3. At("length", Value(cn'.words), Len(<<>>) + Len(<<>>), 0) = At("length", Value(cn'.words), 0, 0)
      BY <3>1
    <3>4. QED
      BY <2>1, <2>6, <3>2, <3>3 DEF Upstream, bodies
  <2>8. server' # "ended" => Uploading'
    <3>1. <<>> \in Seq(Nat) /\ 0 \in Nat
      OBVIOUS
    <3>2. QED
      BY <2>7, <3>1 DEF Uploading
  <2>9. Delivered'
    BY <2>1 DEF UpFlows, Delivered
  <2>10. remote' \o unsealed' = sent'
    BY <2>1, <2>2 DEF UpFlows
  <2>11. QED
    BY <2>1, <2>2, <2>8, <2>9, <2>10 DEF UpFlows
<1>4. QED
  BY <1>1, <1>2, <1>3

LEMMA SealingKeeps ==
    ASSUME FramingInv, NEW plain \in Seq(Nat), ClientSeals(plain),
           tunnel # "idle", tunnel' \in {"leftover", "fin"},
           unsealed' \in Seq(Nat), sent' \in Seq(Nat), asked' \in Seq(Nat),
           target # Refused => asked' = asked,
           Delivered', server # "ended" => Uploading',
           UNCHANGED <<conf, clock, upEnd, serverVars, replyVars, down, downEnd, decoderVars>>
    PROVE  FramingInv'
<1> USE DEF FramingInv
<1>1. /\ cn' \in [start : Nonces, words : Pairs] /\ cn'.start = cn.start
      /\ up' \in Seq(Units) /\ up' # <<>>
  BY ClientSealsTypes
<1>2. Types'
  BY <1>1 DEF Types, serverVars, replyVars, decoderVars
<1>3. DownFlows'
  <2>1. UNCHANGED <<server, mode, target, replyVars, down, downEnd, decoderVars>>
    BY DEF serverVars
  <2>2. QED
    BY <2>1, DownSame
<1>4. UpFlows'
  <2>1. UNCHANGED <<server, scn, mode, target, conf, remote>>
    BY DEF serverVars
  <2>2. QED
    BY <1>1, <2>1 DEF UpFlows
<1>5. QED
  BY <1>2, <1>3, <1>4

LEMMA SendHeaderKeeps ==
    ASSUME FramingInv, NEW destination \in Seq(Nat), NEW first \in Seq(Nat), SendHeader(destination, first)
    PROVE  FramingInv'
<1> DEFINE plain == <<Even(clock), 0, 0, 0>> \o destination
<1>1. clock \in Nat
  BY FramingAssumption DEF FramingInv, Types
<1>2. Even(clock) \in Nat
  BY <1>1 DEF Even
<1>3. plain \in Seq(Nat) /\ plain # <<>>
  BY <1>2
<1>4. PICK head \in Seq(Nat) : head = plain /\ head # <<>>
  BY <1>3
<1>5. /\ ClientSeals(head) /\ tunnel = "header" /\ tunnel' = "leftover"
      /\ unsealed' = first /\ sent' = first /\ asked' = destination
      /\ UNCHANGED <<conf, clock, upEnd, serverVars, replyVars, down, downEnd, decoderVars>>
  BY <1>4 DEF SendHeader
<1>6. target = Refused /\ server \in {"reading", "ended"} /\ remote = <<>>
  BY <1>5 DEF FramingInv, UpFlows
<1>7. Delivered'
  BY <1>5, <1>6 DEF Delivered, serverVars
<1>8. ASSUME server # "ended" PROVE Upstream(head, <<>>, 0)'
  <2>1. PICK H \in Seq(Nat), T \in Seq(Nat), a \in Nat : Upstream(H, T, a)
    BY <1>5, <1>8 DEF FramingInv, UpFlows, Uploading
  <2>2. H = <<>> /\ T = <<>> /\ a = 0 /\ server = "reading"
    BY <1>5, <1>6, <1>8, <2>1 DEF Upstream
  <2> DEFINE bodies == Uploads(head, <<>>)
             reads == ServerReads(0)
  <2>3. Uploads(H, T) \subseteq bodies /\ <<0, head>> \in bodies
    <3>1. ASSUME NEW p \in Uploads(H, T) PROVE FALSE
      <4>1. p \in Nat \X Seq(Nat) /\ p[2] \in Seq(Nat) /\ p[2] # <<>>
        BY DEF Uploads
      <4>2. p # <<0, H>>
        BY <2>2, <4>1
      <4>3. Len(H) <= p[1] /\ (p[1] - Len(H)) + Len(p[2]) <= Len(T)
        BY <4>2 DEF Uploads
      <4>4. Len(p[2]) \in Nat \ {0} /\ p[1] \in Nat /\ Len(H) = 0 /\ Len(T) = 0
        BY <2>2, <4>1
      <4>5. QED
        BY <4>3, <4>4
    <3>2. <<0, head>> \in bodies
      <4> DEFINE p == <<0, head>>
      <4>1. p \in Nat \X Seq(Nat) /\ p[2] = head
        OBVIOUS
      <4>2. QED
        BY <1>4, <4>1 DEF Uploads
    <3>3. QED
      BY <3>1, <3>2
  <2> HIDE DEF bodies, reads
  <2>4. Len(H) + Len(T) = 0
    BY <2>2
  <2>5. Flow(up, ClientKey, Uploads(H, T), ServerReads(a), At("length", Value(cn.words), Len(H) + Len(T), 0), TRUE)
    BY <2>1 DEF Upstream
  <2>6. Flow(up, ClientKey, Uploads(H, T), reads, At("length", Value(cn.words), 0, 0), TRUE)
    <3>1. a = 0
      BY <2>2
    <3>2. QED
      BY <2>4, <2>5, <3>1 DEF reads
  <2>7. Flow(up, ClientKey, bodies, reads, At("length", Value(cn.words), 0, 0), TRUE)
    BY <2>3, <2>6, FlowWidens
  <2>8. Flow(up', ClientKey, bodies, reads, At("length", Value(cn'.words), 0 + Len(head), 0), TRUE)
    BY <1>4, <1>5, <2>3, <2>7, ClientSealsStep DEF FramingInv
  <2>9. server' = "reading" /\ cn'.start = cn.start /\ conf' = conf
    BY <1>4, <1>5, <2>2, ClientSealsTypes DEF FramingInv, serverVars
  <2>10. ClientKey' = ClientKey /\ ServerReads(0)' = reads
    BY <2>2, <2>9 DEF ClientKey, ClientPassword, ServerReads, reads
  <2>11. 0 + Len(head) = Len(head) + Len(<<>>) /\ <<>> \o first = first
    BY <1>4, ConcatEmptySeq
  <2>12. head = Opening'
    BY <1>4, <1>5 DEF Opening
  <2>13. QED
    BY <1>4, <1>5, <2>8, <2>9, <2>10, <2>11, <2>12 DEF Upstream, bodies
<1>9. server # "ended" => Uploading'
  <2>1. <<>> \in Seq(Nat) /\ 0 \in Nat
    OBVIOUS
  <2>2. QED
    BY <1>4, <1>8, <2>1 DEF Uploading
<1>10. QED
  BY <1>4, <1>5, <1>6, <1>7, <1>9, SealingKeeps

LEMMA SendFrameKeeps == ASSUME FramingInv, SendFrame PROVE FramingInv'
<1> DEFINE n == IF Len(unsealed) > CHUNK_SIZE THEN CHUNK_SIZE ELSE Len(unsealed)
           plain == SubSeq(unsealed, 1, n)
<1>1. /\ unsealed \in Seq(Nat) /\ unsealed # <<>> /\ tunnel \in {"leftover", "fin"}
      /\ tunnel' = tunnel /\ sent' = sent /\ sent \in Seq(Nat) /\ asked' = asked /\ asked \in Seq(Nat)
      /\ UNCHANGED <<conf, clock, upEnd, serverVars, replyVars, down, downEnd, decoderVars>>
  BY DEF SendFrame, FramingInv, UpFlows, Types
<1>2. n \in 1..Len(unsealed)
  BY <1>1, FramingAssumption
<1>3. ClientSeals(plain) /\ unsealed' = SubSeq(unsealed, n + 1, Len(unsealed))
  BY DEF SendFrame
<1> HIDE DEF n
<1>4. plain \in Seq(Nat) /\ plain # <<>> /\ unsealed' \in Seq(Nat) /\ plain \o unsealed' = unsealed
  <2>1. n \in 0..Len(unsealed) /\ n # 0
    BY <1>2
  <2>2. plain \in Seq(Nat) /\ Len(plain) = n /\ unsealed' \in Seq(Nat) /\ plain \o unsealed' = unsealed
    BY <1>1, <1>3, <2>1, CutFacts
  <2>3. QED
    BY <2>1, <2>2
<1> HIDE DEF plain
<1>5. PICK chunk \in Seq(Nat) :
         /\ chunk # <<>> /\ ClientSeals(chunk) /\ unsealed' \in Seq(Nat) /\ chunk \o unsealed' = unsealed
  BY <1>3, <1>4
<1>6. ASSUME server # "ended" PROVE Uploading'
  <2>1. PICK H \in Seq(Nat), T \in Seq(Nat), a \in Nat : Upstream(H, T, a)
    BY <1>1, <1>6 DEF FramingInv, UpFlows, Uploading
  <2>2. H = Opening' /\ T \o unsealed = sent
    BY <1>1, <2>1 DEF Upstream, Opening
  <2> DEFINE U == T \o chunk
             bodies == Uploads(H, U)
             reads == ServerReads(a)
             b == Len(H) + Len(T)
  <2>3. U \in Seq(Nat) /\ Len(U) = Len(T) + Len(chunk) /\ b \in Nat
    BY <1>5, ConcatProperties
  <2>4. Uploads(H, T) \subseteq bodies /\ <<b, chunk>> \in bodies
    BY <1>5, UploadsGrow
  <2>5. Flow(up, ClientKey, Uploads(H, T), reads, At("length", Value(cn.words), b, 0), TRUE)
    BY <2>1 DEF Upstream
  <2> HIDE DEF bodies, reads, b
  <2>6. Flow(up, ClientKey, bodies, reads, At("length", Value(cn.words), b, 0), TRUE)
    BY <2>4, <2>5, FlowWidens
  <2>7. Flow(up', ClientKey, bodies, reads, At("length", Value(cn'.words), b + Len(chunk), 0), TRUE)
    BY <1>5, <2>3, <2>4, <2>6, ClientSealsStep DEF FramingInv
  <2>8. /\ server' = server /\ scn' = scn /\ remote' = remote /\ cn'.start = cn.start /\ conf' = conf
    BY <1>1, <1>5, ClientSealsTypes DEF FramingInv, serverVars
  <2>9. ClientKey' = ClientKey /\ ServerReads(a)' = reads
    BY <2>8 DEF ClientKey, ClientPassword, ServerReads, reads
  <2>10. b + Len(chunk) = Len(H) + Len(U)
    BY <1>5, <2>3 DEF b
  <2>11. U \o unsealed' = sent
    <3>1. (T \o chunk) \o unsealed' = T \o (chunk \o unsealed')
      BY <1>5, BytesJoin, Zenon
    <3>2. QED
      BY <1>5, <2>2, <3>1
  <2>12. server = "reading" => a = 0
    BY <2>1 DEF Upstream
  <2>13. ASSUME server # "reading"
         PROVE  Len(H) <= a /\ a <= Len(H) + Len(U) /\ remote = SubSeq(U, 1, a - Len(H))
    <3>1. Len(H) <= a /\ a <= Len(H) + Len(T) /\ remote = SubSeq(T, 1, a - Len(H))
      BY <2>1, <2>13 DEF Upstream
    <3>2. a - Len(H) \in 0..Len(T)
      BY <3>1
    <3>3. SubSeq(U, 1, a - Len(H)) = SubSeq(T, 1, a - Len(H))
      BY <1>5, <3>2, TakeFacts
    <3>4. a <= Len(H) + Len(U)
      BY <1>5, <2>3, <3>1
    <3>5. QED
      BY <3>1, <3>3, <3>4
  <2> HIDE DEF U
  <2>14. Upstream(H, U, a)'
    BY <1>1, <2>2, <2>7, <2>8, <2>9, <2>10, <2>11, <2>12, <2>13 DEF Upstream, bodies
  <2>15. QED
    BY <2>3, <2>14 DEF Uploading
<1>7. Delivered'
  BY <1>1 DEF FramingInv, UpFlows, Delivered, serverVars
<1>8. QED
  BY <1>1, <1>5, <1>6, <1>7, SealingKeeps

LEMMA UpstreamReadsKeeps ==
    ASSUME FramingInv, NEW chunk \in Seq(Nat), UpstreamReads(chunk) PROVE FramingInv'
<1> USE DEF FramingInv
<1>1. /\ tunnel = "leftover" /\ unsealed = <<>> /\ unsealed' = chunk /\ sent' = sent \o chunk
      /\ UNCHANGED <<conf, clock, tunnel, cn, asked, up, server, scn, mode, target, remote, replyVars, down, downEnd,
                     decoderVars>>
  BY DEF UpstreamReads, TunnelMayRead, serverVars
<1>2. sent \in Seq(Nat) /\ sent' \in Seq(Nat) /\ Len(sent') = Len(sent) + Len(chunk)
  BY <1>1, ConcatProperties DEF Types
<1>3. Types'
  BY <1>1, <1>2 DEF Types, replyVars, decoderVars
<1>4. DownFlows'
  BY <1>1, DownSame
<1>5. Delivered'
  <2>1. Len(remote) <= Len(sent) /\ remote = SubSeq(sent, 1, Len(remote)) /\ Len(remote) \in Nat
    <3>1. remote \in Seq(Nat)
      BY DEF Types
    <3>2. QED
      BY <3>1 DEF UpFlows, Delivered
  <2>2. Len(remote) \in 0..Len(sent)
    BY <2>1, <1>2
  <2>3. SubSeq(sent', 1, Len(remote)) = SubSeq(sent, 1, Len(remote))
    BY <2>2, <1>1, <1>2, TakeFacts
  <2>4. Len(remote) <= Len(sent')
    BY <2>1, <1>2
  <2>5. QED
    BY <2>1, <2>3, <2>4, <1>1 DEF Delivered
<1>6. ClientKey' = ClientKey /\ \A a : ServerReads(a)' = ServerReads(a)
  BY <1>1 DEF ClientKey, ClientPassword, ServerReads
<1>7. ASSUME NEW H \in Seq(Nat), NEW T \in Seq(Nat), NEW a \in Nat, Upstream(H, T, a)
      PROVE  Upstream(H, T, a)'
  <2>1. T \o <<>> = sent
    BY <1>1, <1>7 DEF Upstream
  <2>2. T \o chunk = sent'
    BY <2>1, <1>1, ConcatEmptySeq
  <2>3. QED
    BY <2>2, <1>1, <1>6, <1>7 DEF Upstream, Opening
<1>8. UpFlows'
  <2>1. Uploading => Uploading'
    BY <1>7 DEF Uploading
  <2>2. ASSUME server' = "ended", up' = <<>> PROVE remote' \o unsealed' = sent'
    <3>1. remote \o <<>> = sent /\ remote \in Seq(Nat)
      BY <1>1, <2>2 DEF UpFlows, Types
    <3>2. remote = sent
      BY <3>1, ConcatEmptySeq
    <3>3. QED
      BY <3>2, <1>1
  <2>3. QED
    BY <1>1, <1>5, <2>1, <2>2 DEF UpFlows
<1>9. QED
  BY <1>3, <1>4, <1>8

LEMMA TunnelFinKeeps == ASSUME FramingInv, TunnelFin PROVE FramingInv'
<1> USE DEF FramingInv
<1>1. /\ tunnel = "leftover" /\ tunnel' = "fin"
      /\ UNCHANGED <<conf, clock, cn, unsealed, sent, asked, up, server, scn, mode, target, remote, replyVars, down, downEnd, decoderVars>>
  BY DEF TunnelFin, TunnelMayRead, serverVars
<1>2. Types'
  BY <1>1 DEF Types, replyVars, decoderVars
<1>3. DownFlows'
  BY <1>1, DownSame
<1>4. Uploading => Uploading'
  <2>1. tunnel # "header" /\ tunnel' # "header" /\ server' = server
    BY <1>1
  <2>2. UNCHANGED <<conf, clock, cn, unsealed, sent, asked, up, scn, remote>>
    BY <1>1
  <2>3. QED
    BY <2>1, <2>2, UploadingKept
<1>5. UpFlows'
  BY <1>1, <1>4 DEF UpFlows, Delivered
<1>6. QED
  BY <1>2, <1>3, <1>5

\* While the server reads on and nothing is in flight, the target has got all that
\* was sealed.
LEMMA Emptied ==
    ASSUME FramingInv, up = <<>>, server # "ended"
    PROVE  remote \o unsealed = sent
<1> USE DEF FramingInv
<1>1. CASE tunnel = "idle"
  <2>1. unsealed = <<>> /\ sent = <<>> /\ remote = <<>>
    BY <1>1 DEF UpFlows
  <2>2. QED
    BY <2>1
<1>2. CASE tunnel # "idle"
  <2>1. PICK H \in Seq(Nat), T \in Seq(Nat), a \in Nat : Upstream(H, T, a)
    BY <1>2 DEF UpFlows, Uploading
  <2>2. ServerReads(a) = At("length", Value(cn.words), Len(H) + Len(T), 0)
    <3>1. Flow(up, ClientKey, Uploads(H, T), ServerReads(a), At("length", Value(cn.words), Len(H) + Len(T), 0), TRUE)
      BY <2>1 DEF Upstream
    <3>2. QED
      BY <3>1, FlowEnds
  <2>3. server # "reading"
    BY <2>2 DEF ServerReads, At
  <2>4. tunnel \notin {"idle", "header"}
    BY <2>3 DEF UpFlows
  <2>5. a = Len(H) + Len(T)
    BY <2>2, <2>3 DEF ServerReads, At
  <2>6. T \o unsealed = sent /\ remote = SubSeq(T, 1, a - Len(H))
    BY <2>1, <2>3, <2>4 DEF Upstream
  <2>7. a - Len(H) = Len(T)
    BY <2>5
  <2>8. remote = T
    BY <2>6, <2>7, SubSeqFull
  <2>9. QED
    BY <2>6, <2>8
<1>3. QED
  BY <1>1, <1>2

\* The server ends the stream, in whichever way.
LEMMA EndsKeeps ==
    ASSUME FramingInv, NEW how \in {"reset", "fin"}, Ends(how),
           server = "reading" => how = "reset",
           server # "ended",
           how = "fin" => server = "relay" /\ raw = <<>> /\ answered = Len(Reply)
    PROVE  FramingInv'
<1> USE DEF FramingInv
<1>1. /\ server' = "ended" /\ downEnd' = how
      /\ UNCHANGED <<conf, clock, tunnel, cn, unsealed, sent, asked, up, scn, mode, target, remote, replyVars, down, decoderVars>>
  BY DEF Ends, clientVars
<1>2. Types'
  BY <1>1 DEF Types, replyVars, decoderVars
<1>3. UpFlows'
  <2>1. up = <<>> => remote \o unsealed = sent
    BY Emptied
  <2>2. QED
    BY <1>1, <2>1 DEF UpFlows, Delivered
<1>4. DownFlows'
  <2>1. ServerKey' = ServerKey /\ ClientReads' = ClientReads /\ ServerSends' = ServerSends
    BY <1>1 DEF ServerKey, ClientReads, ServerSends, replyVars, decoderVars
  <2>2. downEnd = "open"
    BY DEF DownFlows
  <2>3. ASSUME target # Refused, decoder \in {"nonce", "frames"}
        PROVE  Flow(rx \o down, ServerKey, Answers, ClientReads, ServerSends, downEnd' # "reset")
    <3>1. Flow(rx \o down, ServerKey, Answers, ClientReads, ServerSends, TRUE)
      BY <2>2, <2>3 DEF DownFlows
    <3>2. Flow(rx \o down, ServerKey, Answers, ClientReads, ServerSends, FALSE)
      BY <3>1, FlowWeakens
    <3>3. CASE downEnd' = "reset"
      BY <3>2, <3>3
    <3>4. CASE downEnd' # "reset"
      BY <3>1, <3>4
    <3>5. QED
      BY <3>3, <3>4
  <2>4. decoder # "error"
    BY <2>2 DEF DownFlows
  <2>5. target = Refused => server = "reading"
    BY DEF UpFlows
  <2>6. downEnd' = "fin" => raw = <<>> /\ answered = Len(Reply) /\ target # Refused
    BY <1>1, <2>5
  <2>7. /\ rx' \o down' = rx \o down /\ target' = target /\ decoder' = decoder
        /\ got' = got /\ raw' = raw /\ answered' = answered /\ expected' = expected
        /\ csn' = csn /\ sn' = sn /\ rx' = rx /\ down' = down
    BY <1>1 DEF replyVars, decoderVars
  <2>8. QED
    BY <1>1, <2>1, <2>2, <2>3, <2>4, <2>6, <2>7 DEF DownFlows
<1>5. QED
  BY <1>2, <1>3, <1>4

LEMMA ServerEndsKeeps == ASSUME FramingInv, ServerEnds, server # "ended" PROVE FramingInv'
<1>1. QED
  BY EndsKeeps DEF ServerEnds

LEMMA OpenHeaderKeeps == ASSUME FramingInv, OpenHeader PROVE FramingInv'
<1> USE DEF FramingInv
<1> DEFINE nonce == up[1].nonce
           modes == OpeningModes(nonce, HeaderBox)
           m == Candidates[CHOOSE i \in modes : \A j \in modes : i <= j]
           box == SubSeq(up, NONCE_LENGTH + LENGTH_BOX + 1, HeaderLength)
           header == box[1].plain
           dest == ParseBrookDestination(SubSeq(header, 5, Len(header)))
<1>1. server = "reading" /\ Len(up) > NONCE_LENGTH /\ Len(up) >= HeaderLength
  BY DEF OpenHeader
<1>2. ServerEnds \/
      (/\ modes # {}
       /\ Opens(Key("shared", m, nonce), NextNonce(nonce), box)
       /\ dest # Refused
       /\ server' = IF header[1] % 2 = 0 THEN "dialling" ELSE "udp"
       /\ scn' = [start |-> nonce, next |-> NextNonce(NextNonce(nonce))]
       /\ mode' = m /\ target' = dest
       /\ up' = SubSeq(up, HeaderLength + 1, Len(up))
       /\ down' = RawNonce(sn.start)
       /\ UNCHANGED <<clientVars, upEnd, remote, replyVars, downEnd, decoderVars>>)
  BY DEF OpenHeader
<1>3. CASE ServerEnds
  BY <1>1, <1>3, ServerEndsKeeps
<1>4. ASSUME /\ modes # {}
             /\ dest # Refused
             /\ server' = IF header[1] % 2 = 0 THEN "dialling" ELSE "udp"
             /\ scn' = [start |-> nonce, next |-> NextNonce(NextNonce(nonce))]
             /\ mode' = m /\ target' = dest
             /\ up' = SubSeq(up, HeaderLength + 1, Len(up))
             /\ down' = RawNonce(sn.start)
             /\ UNCHANGED <<clientVars, upEnd, remote, replyVars, downEnd, decoderVars>>
      PROVE  FramingInv'
  <2>1. target = Refused /\ remote = <<>>
    BY <1>1 DEF UpFlows
  <2>2. NONCE_LENGTH \in Nat \ {0} /\ TAG_LENGTH \in Nat \ {0} /\ LENGTH_BOX = 2 + TAG_LENGTH
        /\ LENGTH_BOX \in Nat \ {0}
    BY FramingAssumption DEF LENGTH_BOX
  <2>3. tunnel # "idle"
    BY <1>1, <2>2 DEF UpFlows
  <2>4. PICK H \in Seq(Nat), T \in Seq(Nat), a \in Nat : Upstream(H, T, a)
    BY <1>1, <2>3 DEF UpFlows, Uploading
  <2> DEFINE bodies == Uploads(H, T)
             b == Len(H) + Len(T)
  <2>5. a = 0 /\ Flow(up, ClientKey, bodies, At("nonce", cn.start, a, 0), At("length", Value(cn.words), b, 0), TRUE)
    BY <1>1, <2>4 DEF Upstream, ServerReads
  <2> HIDE DEF bodies, b
  <2>6. up \in Seq(Units) /\ up # <<>>
    BY <1>1, <2>2, <2>5 DEF Flow
  <2> DEFINE R == SubSeq(up, NONCE_LENGTH + 1, Len(up))
             last == At("length", Value(cn.words), b, 0)
  <2>7. nonce = cn.start /\ Flow(R, ClientKey, bodies, At("length", cn.start, a, 0), last, TRUE)
    BY <1>1, <2>2, <2>5, <2>6, KeyFacts, NonceBoxTaken
  <2>8. R \in Seq(Units) /\ Len(R) = Len(up) - NONCE_LENGTH /\ R # <<>>
    <3>1. NONCE_LENGTH \in 0..Len(up) /\ Len(up) - NONCE_LENGTH > 0
      BY <1>1, <2>2, <2>6
    <3>2. R \in Seq(Units) /\ Len(R) = Len(up) - NONCE_LENGTH
      BY <2>6, <3>1, CutFacts
    <3> HIDE DEF R
    <3>3. QED
      BY <3>1, <3>2
  <2>9. Len(R) >= LENGTH_BOX
    BY <2>7, <2>8, KeyFacts, LengthBoxTaken
  <2> HIDE DEF last
  <2>10. /\ SubSeq(R, 1, LENGTH_BOX)[1] = R[1] /\ R[1].key = ClientKey
        /\ LengthIn(R) \in Nat \ {0}
        /\ Flow(SubSeq(R, LENGTH_BOX + 1, Len(R)), ClientKey, bodies,
                At("body", NextNonce(cn.start), a, LengthIn(R)), last, TRUE)
    BY <2>7, <2>8, <2>9, KeyFacts, LengthBoxTaken
  <2>11. /\ HeaderBox = SubSeq(R, 1, LENGTH_BOX)
         /\ SubSeq(R, LENGTH_BOX + 1, Len(R)) = SubSeq(up, NONCE_LENGTH + LENGTH_BOX + 1, Len(up))
    <3>1. NONCE_LENGTH + LENGTH_BOX <= Len(up)
      BY <2>2, <2>6, <2>8, <2>9
    <3>2. QED
      BY <3>1, <2>2, <2>6, TailFacts, Zenon DEF HeaderBox
  <2>12. HeaderBox[1].key = ClientKey /\ LengthIn(HeaderBox) = LengthIn(R)
    BY <2>10, <2>11 DEF LengthIn
  <2> HIDE DEF R
  <2> DEFINE n == LengthIn(HeaderBox)
             Q == SubSeq(up, NONCE_LENGTH + LENGTH_BOX + 1, Len(up))
  <2>13. n \in Nat \ {0} /\ HeaderLength = NONCE_LENGTH + LENGTH_BOX + n + TAG_LENGTH
    BY <2>10, <2>12 DEF HeaderLength
  <2> HIDE DEF n
  <2>14. Flow(Q, ClientKey, bodies, At("body", NextNonce(cn.start), a, n), last, TRUE)
    BY <2>10, <2>11, <2>12 DEF n
  <2>15. Q \in Seq(Units) /\ Len(Q) = Len(up) - (NONCE_LENGTH + LENGTH_BOX) /\ Q # <<>>
         /\ Len(Q) >= n + TAG_LENGTH
    <3> DEFINE k == NONCE_LENGTH + LENGTH_BOX
    <3>1. k \in 0..Len(up) /\ Len(up) - k >= n + TAG_LENGTH /\ n + TAG_LENGTH > 0
      BY <1>1, <2>2, <2>6, <2>13
    <3> HIDE DEF k
    <3>2. Q \in Seq(Units) /\ Len(Q) = Len(up) - k
      BY <2>6, <3>1, CutFacts DEF k
    <3> HIDE DEF Q
    <3>3. Q # <<>> /\ Len(Q) >= n + TAG_LENGTH
      BY <3>1, <3>2, <2>2, <2>13
    <3>4. QED
      BY <3>2, <3>3 DEF k
  <2>16. Flow(SubSeq(Q, (n + TAG_LENGTH) + 1, Len(Q)), ClientKey, bodies,
              At("length", NextNonce(NextNonce(cn.start)), a + n, 0), last, TRUE)
         /\ Q[1].plain \in Seq(Nat) /\ Len(Q[1].plain) = n /\ <<a, Q[1].plain>> \in bodies
    <3>1. NextNonce(cn.start) \in Nonces
      BY KeyFacts, NonceFacts
    <3> DEFINE q == NextNonce(cn.start)
    <3> HIDE DEF Q, q
    <3>2. q \in Nonces /\ ClientKey \in Keys /\ n \in Nat /\ Q # <<>> /\ Len(Q) >= n + TAG_LENGTH
      BY <3>1, <2>13, <2>15, KeyFacts DEF q
    <3>3. Flow(Q, ClientKey, bodies, At("body", q, a, n), last, TRUE)
      BY <2>14 DEF q
    <3>4. Flow(SubSeq(Q, (n + TAG_LENGTH) + 1, Len(Q)), ClientKey, bodies,
               At("length", NextNonce(q), a + n, 0), last, TRUE)
          /\ Q[1].plain \in Seq(Nat) /\ Len(Q[1].plain) = n /\ <<a, Q[1].plain>> \in bodies
      <4> HIDE DEF bodies, last
      <4>1. Q # <<>> /\ n \in Nat /\ a \in Nat /\ q \in Nonces /\ ClientKey \in Keys /\ TRUE \in BOOLEAN
        BY <3>2
      <4>2. Len(Q) >= n + TAG_LENGTH =>
                /\ Q[1].plain \in Seq(Nat) /\ Len(Q[1].plain) = n /\ <<a, Q[1].plain>> \in bodies
                /\ Flow(SubSeq(Q, (n + TAG_LENGTH) + 1, Len(Q)), ClientKey, bodies,
                        At("length", NextNonce(q), a + n, 0), last, TRUE)
        BY <3>3, <4>1, BodyBoxTaken
      <4>3. QED
        BY <3>2, <4>2
    <3>5. QED
      BY <3>4 DEF q
  <2>17. SubSeq(Q, (n + TAG_LENGTH) + 1, Len(Q)) = up'
    <3>1. SubSeq(Q, (n + TAG_LENGTH) + 1, Len(Q))
             = SubSeq(up, (NONCE_LENGTH + LENGTH_BOX) + (n + TAG_LENGTH) + 1, Len(up))
      <4>1. (NONCE_LENGTH + LENGTH_BOX) + (n + TAG_LENGTH) <= Len(up)
        BY <1>1, <2>2, <2>13
      <4>2. NONCE_LENGTH + LENGTH_BOX \in Nat /\ n + TAG_LENGTH \in Nat
        BY <2>2, <2>13
      <4>3. QED
        BY <4>1, <4>2, <2>6, <2>11, TailFacts
    <3>2. (NONCE_LENGTH + LENGTH_BOX) + (n + TAG_LENGTH) + 1 = HeaderLength + 1
      BY <2>2, <2>13
    <3>3. QED
      BY <3>1, <3>2, <1>4
  <2>18. tunnel # "header" /\ H = Opening /\ T \o unsealed = sent /\ n = Len(H) /\ Q[1].plain = H
    <3>1. PICK plain \in Seq(Nat) : plain = Q[1].plain
      BY <2>16
    <3>2. Len(plain) = n /\ <<a, plain>> \in bodies
      BY <3>1, <2>16
    <3> DEFINE p == <<a, plain>>
    <3>3. p[1] = 0 /\ p[2] = plain
      BY <2>5
    <3> HIDE DEF p
    <3>4. /\ plain # <<>>
          /\ p = <<0, H>> \/ (Len(H) <= 0 /\ (0 - Len(H)) + n <= Len(T))
      BY <3>2, <3>3 DEF Uploads, bodies, p
    <3>5. Len(H) # 0 \/ Len(T) # 0
      <4>1. plain = H \/ (Len(H) <= 0 /\ (0 - Len(H)) + n <= Len(T))
        BY <3>3, <3>4
      <4>2. Len(plain) = n /\ n \in Nat \ {0} /\ Len(H) \in Nat /\ Len(T) \in Nat
        BY <2>13, <3>2
      <4> HIDE DEF Q, n
      <4>3. CASE plain = H
        BY <4>2, <4>3
      <4>4. CASE Len(H) <= 0 /\ (0 - Len(H)) + n <= Len(T)
        BY <4>2, <4>4
      <4>5. QED
        BY <4>1, <4>3, <4>4
    <3>6. tunnel # "header" /\ H = Opening /\ T \o unsealed = sent
      BY <3>5, <2>4 DEF Upstream
    <3>7. Len(H) \in Nat \ {0}
      BY <3>6, OpeningFacts
    <3>8. plain = H
      <4>1. ~(Len(H) <= 0)
        BY <3>7
      <4>2. QED
        BY <3>3, <3>4, <4>1
    <3>9. QED
      BY <3>1, <3>2, <3>6, <3>8
  <2>19. conf.samePassword /\ m = conf.withoutBrook
    <3>1. modes \subseteq {1, 2} /\ modes # {}
      BY <1>4 DEF OpeningModes
    <3>2. (CHOOSE i \in modes : \A j \in modes : i <= j) \in modes
      <4>1. \E i \in modes : \A j \in modes : i <= j
        BY <3>1
      <4> HIDE DEF modes
      <4>2. QED
        BY <4>1
    <3>3. PICK i \in modes : m = Candidates[i]
      BY <3>2
    <3>4. Opens(Key("shared", Candidates[i], nonce), nonce, HeaderBox)
      BY <3>3 DEF OpeningModes
    <3>5. ClientKey = Key("shared", m, nonce)
      BY <3>3, <3>4, <2>12 DEF Opens
    <3>6. ClientPassword = "shared" /\ m = conf.withoutBrook
      <4> HIDE DEF m, nonce
      <4>1. QED
        BY <3>5 DEF ClientKey, Key
    <3>7. QED
      BY <3>6, KeyFacts DEF ClientPassword
  <2>20. header = H
    <3> DEFINE k == NONCE_LENGTH + LENGTH_BOX
    <3>1. k \in Nat /\ HeaderLength \in 1..Len(up) /\ k < HeaderLength /\ Len(up) \in 1..Len(up) /\ k < Len(up)
      BY <1>1, <2>2, <2>6, <2>13
    <3> HIDE DEF k
    <3>2. SubSeq(up, k + 1, HeaderLength)[1] = up[k + 1] /\ SubSeq(up, k + 1, Len(up))[1] = up[k + 1]
      BY <3>1, <2>6, FirstOfPart, Zenon
    <3>3. box[1] = Q[1]
      BY <3>2 DEF k
    <3>4. QED
      BY <3>3, <2>18
  <2>21. header[1] % 2 = 0 /\ dest = ParseBrookDestination(asked)
    <3>1. H[1] % 2 = 0 /\ SubSeq(H, 5, Len(H)) = asked
      BY <2>18, OpeningFacts
    <3>2. QED
      BY <3>1, <2>20
  <2> HIDE DEF nonce, m, modes, header, dest
  <2>22. /\ UNCHANGED <<conf, clock, tunnel, cn, unsealed, sent, asked, remote, downEnd, answered, raw, sn, rx, csn, expected, got, decoder>>
    BY <1>4 DEF clientVars, replyVars, decoderVars
  <2>23. scn' = [start |-> cn.start, next |-> NextNonce(NextNonce(cn.start))] /\ scn'.next = NextNonce(NextNonce(cn.start))
         /\ scn'.start = cn.start
    BY <1>4, <2>7
  <2>24. UpFlows'
    <3>1. ClientKey' = ClientKey
      BY <2>22 DEF ClientKey, ClientPassword
    <3>2. server' # "reading" /\ server' # "ended"
      BY <1>4, <2>21
    <3>3. PICK o \in Nat : o = a + n
      BY <2>13
    <3>4. ServerReads(o)' = At("length", NextNonce(NextNonce(cn.start)), a + n, 0)
      BY <2>23, <3>2, <3>3 DEF ServerReads
    <3>5. Flow(up', ClientKey', bodies, ServerReads(o)', At("length", Value(cn'.words), b, 0), TRUE)
      BY <2>16, <2>17, <2>22, <3>1, <3>4 DEF last
    <3>6. tunnel' # "idle" /\ tunnel' # "header" /\ target' # Refused /\ conf'.samePassword /\ mode' = conf'.withoutBrook
          /\ scn'.start = cn'.start
      BY <1>4, <2>3, <2>18, <2>19, <2>22, <2>23
    <3>7. Len(H) <= o /\ o <= Len(H) + Len(T) /\ remote = SubSeq(T, 1, o - Len(H))
      <4>1. o = Len(H) /\ Len(H) \in Nat /\ Len(T) \in Nat
        BY <2>5, <2>18, <3>3
      <4>2. o - Len(H) = 0 /\ SubSeq(T, 1, 0) = <<>>
        BY <4>1
      <4>3. QED
        BY <4>1, <4>2, <2>1
    <3>8. Upstream(H, T, o)'
      BY <2>18, <2>22, <3>2, <3>5, <3>6, <3>7 DEF Upstream, bodies, b, Opening
    <3>9. Uploading'
      BY <3>8 DEF Uploading
    <3>10. Delivered'
      BY <2>22 DEF UpFlows, Delivered
    <3>11. QED
      BY <1>4, <2>21, <2>22, <3>2, <3>6, <3>9, <3>10 DEF UpFlows
  <2>25. Flow(RawNonce(sn.start), ServerKey', Answers, At("nonce", sn.start, 0, 0), At("length", sn.start, 0, 0), TRUE)
    <3> DEFINE p == At("nonce", sn.start, 0, 0)
    <3>1. p \in Place /\ p.kind = "nonce" /\ p.nonce = sn.start /\ p.off = 0
      BY KeyFacts DEF At, Place
    <3>2. Fits(Answers, p, <<>>) /\ After(p, <<>>) = At("length", sn.start, 0, 0)
      BY <3>1 DEF Fits, After
    <3> HIDE DEF p
    <3>3. <<>> \in Seq(Nat)
      OBVIOUS
    <3>4. BoxAt(ServerKey', p, <<>>) = RawNonce(sn.start)
      BY <3>1, <3>3, BoxIsSeal
    <3>5. Flow(<<>>, ServerKey', Answers, p, p, TRUE)
      BY <3>1, FlowStarts
    <3>6. ServerKey' \in Keys
      BY <2>19, <2>22, <1>4, KeyFacts DEF ServerKey, Key, Keys
    <3>7. Flow(<<>> \o BoxAt(ServerKey', p, <<>>), ServerKey', Answers, p, After(p, <<>>), TRUE)
      BY <3>1, <3>2, <3>3, <3>5, <3>6, FlowGrows
    <3>8. BoxAt(ServerKey', p, <<>>) \in Seq(Units)
      BY <3>1, <3>2, <3>3, <3>6, PlaceFacts
    <3>9. <<>> \o BoxAt(ServerKey', p, <<>>) = RawNonce(sn.start)
      BY <3>4, <3>8
    <3>10. QED
      BY <3>2, <3>7, <3>9 DEF p
  <2>26. Types'
    <3>1. scn' \in [start : Nonces, next : Nonces]
      BY <2>23, KeyFacts, NonceFacts
    <3>2. mode' \in BOOLEAN
      BY <1>4, <2>19, KeyFacts
    <3>3. down' \in Seq(Units)
      BY <2>25, <1>4 DEF Flow
    <3>4. server' \in {"reading", "dialling", "udp", "relay", "ended"}
      BY <1>4
    <3>5. up' \in Seq(Units)
      BY <2>16, <2>17 DEF Flow
    <3>6. QED
      BY <3>1, <3>2, <3>3, <3>4, <3>5, <2>22 DEF Types
  <2>27. DownFlows'
    <3>1. rx = <<>> /\ decoder \in {"nonce", "error"} /\ sn.next = sn.start /\ answered = 0 /\ raw = <<>>
          /\ downEnd = "open"
      BY <1>1, <2>1 DEF DownFlows
    <3>2. rx' \o down' = RawNonce(sn.start)
      <4>1. down' \in Seq(Units) /\ down' = RawNonce(sn.start)
        BY <2>26, <1>4 DEF Types
      <4>2. <<>> \o down' = down'
        BY <4>1
      <4>3. QED
        BY <4>1, <4>2, <3>1, <2>22
    <3>3. decoder' = "nonce" => ClientReads' = At("nonce", sn.start, 0, 0)
      BY <2>22 DEF ClientReads
    <3>4. ServerSends' = At("length", sn.start, 0, 0)
      BY <2>22, <3>1 DEF ServerSends
    <3>5. decoder' # "frames" /\ downEnd' # "reset"
      BY <2>22, <3>1
    <3>6. decoder' = "nonce" => Flow(rx' \o down', ServerKey', Answers, ClientReads', ServerSends', downEnd' # "reset")
      BY <2>25, <3>2, <3>3, <3>4, <3>5
    <3>7. target' # Refused
      BY <1>4
    <3>8. QED
      BY <2>22, <3>1, <3>5, <3>6, <3>7 DEF DownFlows
  <2>28. QED
    BY <2>24, <2>26, <2>27
<1>5. QED
  BY <1>2, <1>3, <1>4

LEMMA DialKeeps == ASSUME FramingInv, Dial PROVE FramingInv'
<1> USE DEF FramingInv
<1>1. CASE ServerEnds
  BY <1>1, ServerEndsKeeps DEF Dial
<1>2. CASE ~ServerEnds
  <2>1. /\ server = "dialling" /\ server' = "relay"
        /\ UNCHANGED <<conf, clock, tunnel, cn, unsealed, sent, asked, up, scn, mode, target, remote, replyVars, down, downEnd, decoderVars>>
    BY <1>2 DEF Dial, clientVars
  <2>2. Types'
    BY <2>1 DEF Types, replyVars, decoderVars
  <2>3. UpFlows'
    <3>1. target # Refused
      BY <2>1 DEF UpFlows
    <3>2. Uploading => Uploading'
      <4>1. tunnel' = tunnel /\ server # "reading" /\ server' # "reading"
        BY <2>1
      <4>2. UNCHANGED <<conf, clock, cn, unsealed, sent, asked, up, scn, remote>>
        BY <2>1
      <4>3. QED
        BY <4>1, <4>2, UploadingKept
    <3>3. QED
      BY <2>1, <3>1, <3>2 DEF UpFlows, Delivered
  <2>4. DownFlows'
    <3>1. ServerKey' = ServerKey /\ ClientReads' = ClientReads /\ ServerSends' = ServerSends
      BY <2>1 DEF ServerKey, ClientReads, ServerSends, replyVars, decoderVars
    <3>2. QED
      BY <2>1, <3>1 DEF DownFlows, replyVars, decoderVars
  <2>5. QED
    BY <2>2, <2>3, <2>4
<1>3. QED
  BY <1>1, <1>2

LEMMA OpenFrameKeeps == ASSUME FramingInv, OpenFrame PROVE FramingInv'
<1> USE DEF FramingInv
<1>1. server = "relay" /\ up # <<>> /\ Len(up) >= LENGTH_BOX
  BY DEF OpenFrame
<1>2. target # Refused /\ tunnel \notin {"idle", "header"}
  BY <1>1 DEF UpFlows
<1>3. PICK H \in Seq(Nat), T \in Seq(Nat), a \in Nat : Upstream(H, T, a)
  BY <1>1, <1>2 DEF UpFlows, Uploading
<1> DEFINE bodies == Uploads(H, T)
           b == Len(H) + Len(T)
<1>4. Flow(up, ClientKey, bodies, At("length", scn.next, a, 0), At("length", Value(cn.words), b, 0), TRUE)
  BY <1>1, <1>3 DEF Upstream, ServerReads
<1>5. /\ H = Opening /\ H # <<>> /\ T \o unsealed = sent
      /\ Len(H) <= a /\ a <= Len(H) + Len(T) /\ remote = SubSeq(T, 1, a - Len(H))
  BY <1>1, <1>2, <1>3, OpeningFacts DEF Upstream
<1> HIDE DEF bodies, b
<1> DEFINE last == At("length", Value(cn.words), b, 0)
           n == LengthIn(up)
           R == SubSeq(up, LENGTH_BOX + 1, Len(up))
           q == NextNonce(scn.next)
<1>6. n \in Nat \ {0} /\ Flow(R, ClientKey, bodies, At("body", q, a, n), last, TRUE)
  <2> HIDE DEF last
  <2>1. Flow(up, ClientKey, bodies, At("length", scn.next, a, 0), last, TRUE)
    BY <1>4 DEF last
  <2>2. scn.next \in Nonces /\ ClientKey \in Keys
    BY KeyFacts
  <2>3. QED
    BY <1>1, <2>1, <2>2, LengthBoxTaken
<1>7. CASE ServerEnds
  BY <1>1, <1>7, ServerEndsKeeps
<1>8. CASE ~ServerEnds
  <2>1. /\ Len(up) >= FrameLength
        /\ up' = SubSeq(up, FrameLength + 1, Len(up))
        /\ scn' = [scn EXCEPT !.next = NextNonce(NextNonce(@))]
        /\ remote' = remote \o SubSeq(up, LENGTH_BOX + 1, FrameLength)[1].plain
        /\ UNCHANGED <<clientVars, upEnd, server, mode, target, replyVars, down, downEnd, decoderVars>>
    BY <1>6, <1>8 DEF OpenFrame
  <2>2. UNCHANGED <<conf, clock, tunnel, cn, unsealed, sent, asked, server, mode, target, replyVars, down, downEnd, decoderVars>>
    BY <2>1 DEF clientVars
  <2>3. TAG_LENGTH \in Nat \ {0} /\ LENGTH_BOX \in Nat \ {0} /\ FrameLength = LENGTH_BOX + n + TAG_LENGTH
    BY FramingAssumption DEF LENGTH_BOX, FrameLength
  <2>4. up \in Seq(Units) /\ q \in Nonces
    BY <1>4, KeyFacts, NonceFacts DEF Flow
  <2> HIDE DEF n, q, last
  <2> DEFINE k == n + TAG_LENGTH
  <2>5. /\ Len(up) \in Nat /\ k \in Nat \ {0} /\ LENGTH_BOX \in Nat \ {0}
              /\ FrameLength = LENGTH_BOX + k /\ Len(up) >= FrameLength
    <3>1. n \in Nat \ {0} /\ Len(up) >= FrameLength
      BY <1>6, <2>1
    <3>2. Len(up) \in Nat /\ k \in Nat \ {0}
      BY <2>3, <2>4, <3>1
    <3>3. FrameLength = LENGTH_BOX + k
      BY <2>3, <3>1
    <3>4. QED
      BY <2>3, <3>1, <3>2, <3>3
  <2>6. Len(R) = Len(up) - LENGTH_BOX /\ R # <<>> /\ Len(R) >= n + TAG_LENGTH
    <3>1. LENGTH_BOX \in 0..Len(up)
      BY <1>1, <2>3, <2>4
    <3>2. Len(R) = Len(up) - LENGTH_BOX
      BY <3>1, <2>4, CutFacts
    <3> HIDE DEF R
    <3> HIDE DEF k
    <3>3. Len(R) >= k /\ k > 0
      BY <3>2, <2>5
    <3>4. QED
      BY <3>2, <3>3, <2>5 DEF k
  <2>7. SubSeq(R, (n + TAG_LENGTH) + 1, Len(R)) = up'
    <3> HIDE DEF k
    <3>1. LENGTH_BOX + k <= Len(up) /\ k \in Nat /\ LENGTH_BOX \in Nat
      BY <2>5
    <3>2. SubSeq(R, k + 1, Len(R)) = SubSeq(up, LENGTH_BOX + k + 1, Len(up))
      BY <3>1, <2>4, TailFacts, Zenon
    <3>3. QED
      BY <3>2, <2>1, <2>5 DEF k
  <2>8. SubSeq(up, LENGTH_BOX + 1, FrameLength)[1] = R[1]
    <3>1. /\ LENGTH_BOX \in Nat /\ FrameLength \in 1..Len(up) /\ LENGTH_BOX < FrameLength
          /\ Len(up) \in 1..Len(up) /\ LENGTH_BOX < Len(up)
      <4> HIDE DEF k
      <4>1. QED
        BY <2>5
    <3>2. SubSeq(up, LENGTH_BOX + 1, FrameLength)[1] = up[LENGTH_BOX + 1]
      BY <3>1, <2>4, FirstOfPart, Zenon
    <3>3. R[1] = up[LENGTH_BOX + 1]
      BY <3>1, <2>4, FirstOfPart, Zenon
    <3>4. QED
      BY <3>2, <3>3
  <2> DEFINE plain == R[1].plain
  <2>9. remote' = remote \o plain
    BY <2>1, <2>8
  <2> HIDE DEF R
  <2>10. /\ Flow(up', ClientKey, bodies, At("length", NextNonce(q), a + n, 0), last, TRUE)
        /\ plain \in Seq(Nat) /\ Len(plain) = n /\ <<a, plain>> \in bodies
    <3>1. n \in Nat
      BY <1>6
    <3>2. R # <<>> /\ n \in Nat /\ a \in Nat /\ q \in Nonces /\ ClientKey \in Keys /\ Len(R) >= n + TAG_LENGTH
          /\ Flow(R, ClientKey, bodies, At("body", q, a, n), last, TRUE)
      BY <3>1, <1>6, <2>4, <2>6, KeyFacts
    <3>3. Flow(SubSeq(R, (n + TAG_LENGTH) + 1, Len(R)), ClientKey, bodies,
               At("length", NextNonce(q), a + n, 0), last, TRUE)
          /\ plain \in Seq(Nat) /\ Len(plain) = n /\ <<a, plain>> \in bodies
      <4> HIDE DEF plain
      <4>1. R # <<>> /\ n \in Nat /\ a \in Nat /\ q \in Nonces /\ ClientKey \in Keys /\ TRUE \in BOOLEAN
        BY <3>2
      <4>2. Flow(R, ClientKey, bodies, At("body", q, a, n), last, TRUE)
        BY <3>2
      <4>3. Len(R) >= n + TAG_LENGTH =>
                /\ R[1].plain \in Seq(Nat) /\ Len(R[1].plain) = n /\ <<a, R[1].plain>> \in bodies
                /\ Flow(SubSeq(R, (n + TAG_LENGTH) + 1, Len(R)), ClientKey, bodies,
                        At("length", NextNonce(q), a + n, 0), last, TRUE)
        BY <4>1, <4>2, BodyBoxTaken
      <4>4. QED
        BY <3>2, <4>3 DEF plain
    <3>4. QED
      BY <3>3, <2>7
  <2>11. scn \in [start : Nonces, next : Nonces] /\ NextNonce(q) \in Nonces
    BY <2>4, NonceFacts DEF Types
  <2>12. scn' \in [start : Nonces, next : Nonces] /\ scn'.start = scn.start /\ scn'.next = NextNonce(q)
    BY <2>1, <2>11 DEF q
  <2> HIDE DEF plain
  <2> DEFINE i == a - Len(H)
  <2>13. i \in Nat /\ a = Len(H) + i /\ i + n <= Len(T) /\ plain = SubSeq(T, i + 1, i + n)
    <3> DEFINE p == <<a, plain>>
    <3>1. p[1] = a /\ p[2] = plain /\ a # 0 /\ Len(H) \in Nat
      BY <1>5
    <3> HIDE DEF p
    <3>2. p # <<0, H>>
      BY <3>1
    <3>3. i + n <= Len(T) /\ plain = SubSeq(T, i + 1, i + n)
      BY <3>1, <3>2, <2>10 DEF Uploads, bodies, p
    <3>4. QED
      BY <3>1, <3>3, <1>5
  <2> HIDE DEF i
  <2>14. remote' = SubSeq(T, 1, i + n) /\ remote' \in Seq(Nat) /\ Len(remote') = i + n
    <3>1. remote = SubSeq(T, 1, i)
      BY <1>5 DEF i
    <3>2. SubSeq(T, 1, i) \o SubSeq(T, i + 1, i + n) = SubSeq(T, 1, i + n)
      <4>1. 1 \in 1..(Len(T) + 1) /\ i \in (1 - 1)..Len(T) /\ i + n \in i..Len(T)
        BY <1>6, <2>13
      <4>2. QED
        BY <4>1, ConcatAdjacentSubSeq
    <3>3. remote' = SubSeq(T, 1, i + n)
      BY <2>9, <2>13, <3>1, <3>2
    <3>4. i + n \in 0..Len(T)
      BY <1>6, <2>13
    <3>5. QED
      BY <3>3, <3>4, CutFacts
  <2>15. Delivered'
    <3>1. i + n \in 0..Len(T) /\ unsealed \in Seq(Nat)
      BY <1>6, <2>13 DEF Types
    <3>2. SubSeq(T \o unsealed, 1, i + n) = SubSeq(T, 1, i + n) /\ Len(T \o unsealed) = Len(T) + Len(unsealed)
      BY <3>1, TakeFacts
    <3>3. SubSeq(sent, 1, i + n) = SubSeq(T, 1, i + n) /\ i + n <= Len(sent)
      BY <1>5, <3>1, <3>2
    <3>4. QED
      BY <2>2, <2>14, <3>3 DEF Delivered
  <2>16. Types'
    <3>1. up' \in Seq(Units)
      BY <2>10 DEF Flow
    <3>2. QED
      BY <3>1, <2>2, <2>12, <2>14 DEF Types, replyVars, decoderVars
  <2>17. DownFlows'
    BY <2>2, DownSame DEF replyVars, decoderVars
  <2>18. UpFlows'
    <3>1. ClientKey' = ClientKey
      BY <2>2 DEF ClientKey, ClientPassword
    <3>2. PICK o \in Nat : o = a + n
      BY <1>6
    <3>3. ServerReads(o)' = At("length", NextNonce(q), a + n, 0)
      BY <1>1, <2>2, <2>12, <3>2 DEF ServerReads
    <3>4. Flow(up', ClientKey', bodies, ServerReads(o)', At("length", Value(cn'.words), b, 0), TRUE)
      BY <2>2, <2>10, <3>1, <3>3 DEF last
    <3>5. Len(H) <= o /\ o <= Len(H) + Len(T) /\ remote' = SubSeq(T, 1, o - Len(H))
      <4>1. o - Len(H) = i + n /\ Len(H) <= o /\ o <= Len(H) + Len(T)
        BY <1>6, <2>13, <3>2
      <4>2. QED
        BY <4>1, <2>14
    <3>6. Upstream(H, T, o)'
      BY <1>1, <1>2, <1>5, <2>2, <3>4, <3>5 DEF Upstream, bodies, b, Opening
    <3>7. Uploading'
      BY <3>6 DEF Uploading
    <3>8. conf'.samePassword /\ mode' = conf'.withoutBrook /\ scn'.start = cn'.start
      BY <1>2, <2>2, <2>12 DEF UpFlows
    <3>9. QED
      BY <1>1, <1>2, <2>2, <2>15, <3>7, <3>8 DEF UpFlows
  <2>19. QED
    BY <2>16, <2>17, <2>18
<1>9. QED
  BY <1>7, <1>8

LEMMA ReadReplyKeeps == ASSUME FramingInv, NEW n \in Nat, ReadReply(n) PROVE FramingInv'
<1> USE DEF FramingInv
<1>1. /\ server = "relay" /\ raw = <<>> /\ n \in 1..(Len(Reply) - answered)
      /\ answered' = answered + n /\ raw' = SubSeq(Reply, answered + 1, answered + n)
      /\ UNCHANGED <<conf, clock, tunnel, cn, unsealed, sent, asked, up, server, scn, mode, target, remote, sn, down, downEnd, decoderVars>>
  BY DEF ReadReply, clientVars, serverVars
<1>2. Reply \in Seq(Nat) /\ answered \in 0..Len(Reply)
  BY FramingAssumption DEF Types
<1>3. answered' \in 0..Len(Reply) /\ raw' \in Seq(Nat) /\ Len(raw') = n /\ answered' - n = answered
  BY <1>1, <1>2
<1>4. Types'
  BY <1>1, <1>3 DEF Types, decoderVars
<1>5. UpFlows'
  BY <1>1, UpSame
<1>6. DownFlows'
  <2>1. ServerKey' = ServerKey /\ ClientReads' = ClientReads
    BY <1>1 DEF ServerKey, ClientReads, decoderVars
  <2>2. ServerSends' = ServerSends
    <3>1. answered - Len(raw) = answered /\ answered' - Len(raw') = answered
      BY <1>1, <1>2, <1>3
    <3>2. QED
      BY <1>1, <3>1 DEF ServerSends
  <2>3. Len(raw') <= answered' /\ raw' = SubSeq(Reply, answered' - Len(raw') + 1, answered')
    BY <1>1, <1>2, <1>3
  <2>4. target # Refused /\ downEnd = "open"
    BY <1>1 DEF UpFlows, DownFlows
  <2>5. QED
    BY <1>1, <2>1, <2>2, <2>3, <2>4 DEF DownFlows, decoderVars
<1>7. QED
  BY <1>4, <1>5, <1>6

LEMMA SealReplyKeeps == ASSUME FramingInv, SealReply PROVE FramingInv'
<1> USE DEF FramingInv
<1> DEFINE n == IF Len(raw) > MAX_FRAME_PAYLOAD THEN MAX_FRAME_PAYLOAD ELSE Len(raw)
           plain == SubSeq(raw, 1, n)
           second == NextNonce(sn.next)
           off == answered - Len(raw)
<1>1. /\ server = "relay" /\ raw # <<>>
      /\ down' = down \o Seal(ServerKey, sn.next, PortBytes(n)) \o Seal(ServerKey, second, plain)
      /\ raw' = SubSeq(raw, n + 1, Len(raw))
      /\ sn' = [sn EXCEPT !.next = NextNonce(second)]
      /\ UNCHANGED <<conf, clock, tunnel, cn, unsealed, sent, asked, up, server, scn, mode, target, remote, answered, downEnd, decoderVars>>
  BY DEF SealReply, clientVars, serverVars
<1>2. raw \in Seq(Nat) /\ Reply \in Seq(Nat) /\ answered \in 0..Len(Reply) /\ Len(raw) \in Nat \ {0}
      /\ Len(raw) <= answered /\ raw = SubSeq(Reply, off + 1, answered) /\ off \in Nat
  <2>1. raw \in Seq(Nat) /\ Reply \in Seq(Nat) /\ answered \in 0..Len(Reply) /\ raw # <<>>
    BY <1>1, FramingAssumption DEF Types
  <2>2. Len(raw) <= answered /\ raw = SubSeq(Reply, off + 1, answered)
    BY DEF DownFlows
  <2> HIDE DEF off
  <2>3. Len(raw) \in Nat \ {0} /\ Len(Reply) \in Nat
    BY <2>1
  <2>4. off \in Nat
    BY <2>1, <2>2, <2>3 DEF off
  <2>5. QED
    BY <2>1, <2>2, <2>3, <2>4
<1>3. n \in 1..Len(raw) /\ n <= MAX_FRAME_PAYLOAD
  BY <1>2, FramingAssumption
<1> HIDE DEF n
<1>4. plain \in Seq(Nat) /\ Len(plain) = n /\ raw' \in Seq(Nat) /\ Len(raw') = Len(raw) - n
  <2>1. n \in 0..Len(raw)
    BY <1>3
  <2>2. raw \in Seq(Nat) /\ plain = SubSeq(raw, 1, n) /\ raw' = SubSeq(raw, n + 1, Len(raw))
    BY <1>1, <1>2
  <2>3. plain \in Seq(Nat) /\ Len(plain) = n
    BY <2>1, <2>2, BytesCut, Zenon
  <2>4. raw' \in Seq(Nat) /\ Len(raw') = Len(raw) - n
    BY <2>1, <2>2, BytesCut, Zenon
  <2>5. QED
    BY <2>3, <2>4
<1> HIDE DEF off
<1>5. off \in Nat /\ answered \in Nat /\ Len(raw) = answered - off /\ off <= answered /\ n \in Nat \ {0}
      /\ answered - (Len(raw) - n) = off + n /\ off + n <= answered /\ answered <= Len(Reply)
      /\ Len(raw) - n \in Nat /\ Len(raw) - n <= answered /\ Len(raw) \in Nat
  <2>1. answered \in Nat /\ answered <= Len(Reply) /\ n \in Nat \ {0} /\ n <= Len(raw) /\ Len(raw) \in Nat
    BY <1>2, <1>3
  <2>2. off = answered - Len(raw)
    BY DEF off
  <2>3. QED
    BY <1>2, <2>1, <2>2
<1>6. raw' = SubSeq(Reply, (off + n) + 1, answered) /\ plain = SubSeq(Reply, off + 1, off + n)
  <2>1. n \in 0..(answered - off)
    BY <1>5
  <2>2. raw = SubSeq(Reply, off + 1, answered)
    BY <1>2
  <2>3. SubSeq(raw, 1, n) = SubSeq(Reply, off + 1, off + n)
        /\ SubSeq(raw, n + 1, Len(raw)) = SubSeq(Reply, (off + n) + 1, answered)
    BY <1>2, <1>5, <2>1, <2>2, SliceFacts
  <2>4. QED
    BY <1>1, <2>3
<1>7. second \in Nonces /\ NextNonce(second) \in Nonces /\ sn.next \in Nonces /\ ServerKey \in Keys
  BY KeyFacts, NonceFacts
<1>8. sn' \in [start : Nonces, next : Nonces] /\ sn'.start = sn.start /\ sn'.next = NextNonce(second)
  BY <1>1, <1>7 DEF Types
<1>9. target # Refused /\ downEnd = "open"
  BY <1>1 DEF UpFlows, DownFlows
<1> DEFINE frames == Seal(ServerKey, sn.next, PortBytes(n)) \o Seal(ServerKey, second, plain)
<1>10. Seal(ServerKey, sn.next, PortBytes(n)) \in Seq(Units) /\ Seal(ServerKey, second, plain) \in Seq(Units)
  <2>1. \A p \in Seq(Nat) : \A v \in Nonces : Seal(ServerKey, v, p) \in Seq(Units)
    <3> SUFFICES ASSUME NEW p \in Seq(Nat), NEW v \in Nonces PROVE Seal(ServerKey, v, p) \in Seq(Units)
      OBVIOUS
    <3>1. Len(p) + TAG_LENGTH \in Nat
      BY FramingAssumption
    <3>2. \A i \in 1..(Len(p) + TAG_LENGTH) :
             [key |-> ServerKey, nonce |-> v, plain |-> p, at |-> i] \in Units
      BY <1>7, <3>1 DEF Units
    <3>3. QED
      BY <3>1, <3>2 DEF Seal
  <2>2. PortBytes(n) \in Seq(Nat)
    <3>1. n \in Nat
      BY <1>3
    <3>2. QED
      BY <3>1, PortBytesFacts
  <2>3. QED
    BY <2>1, <2>2, <1>4, <1>7
<1>11. Types'
  <2>1. down' \in Seq(Units)
    BY <1>1, <1>10 DEF Types
  <2>2. QED
    BY <1>1, <1>4, <1>8, <2>1 DEF Types, decoderVars
<1>12. UpFlows'
  BY <1>1, UpSame
<1>13. DownFlows'
  <2>1. ServerKey' = ServerKey /\ ClientReads' = ClientReads
    BY <1>1, <1>8 DEF ServerKey, ClientReads, decoderVars
  <2>2. answered' - Len(raw') = off + n
    BY <1>1, <1>4, <1>5
  <2>3. ServerSends' = At("length", NextNonce(second), off + n, 0)
    BY <1>8, <2>2 DEF ServerSends
  <2>4. ASSUME decoder \in {"nonce", "frames"}
        PROVE  Flow(rx' \o down', ServerKey, Answers, ClientReads, ServerSends', TRUE)
    <3>1. Flow(rx \o down, ServerKey, Answers, ClientReads, At("length", sn.next, off, 0), TRUE)
      BY <1>9, <2>4 DEF DownFlows, ServerSends, off
    <3>2. <<off, plain>> \in Answers /\ plain # <<>>
      <4> HIDE DEF plain
      <4>1. off + Len(plain) <= Len(Reply) /\ plain = SubSeq(Reply, off + 1, off + Len(plain))
        BY <1>2, <1>4, <1>6, <1>5
      <4>2. <<off, plain>> \in Nat \X Seq(Nat) /\ <<off, plain>>[1] = off /\ <<off, plain>>[2] = plain
        BY <1>4, <1>5
      <4>3. <<off, plain>> \in Answers
        BY <4>1, <4>2, <1>3, <1>4 DEF Answers
      <4>4. QED
        BY <4>3, <1>4, <1>5
    <3> HIDE DEF plain, second
    <3>3. Flow((rx \o down) \o Seal(ServerKey, sn.next, PortBytes(Len(plain)))
                  \o Seal(ServerKey, NextNonce(sn.next), plain), ServerKey, Answers, ClientReads,
               At("length", NextNonce(NextNonce(sn.next)), off + Len(plain), 0), TRUE)
      BY <1>2, <1>4, <1>7, <3>1, <3>2, FlowFrame
    <3>4. rx' \o down' = (rx \o down) \o Seal(ServerKey, sn.next, PortBytes(n)) \o Seal(ServerKey, second, plain)
      <4> DEFINE f == Seal(ServerKey, sn.next, PortBytes(n))
                 g == Seal(ServerKey, second, plain)
      <4>1. rx' = rx /\ rx \in Seq(Units) /\ down \in Seq(Units)
        BY <1>1 DEF Types, decoderVars
      <4>2. f \in Seq(Units) /\ g \in Seq(Units) /\ down' = (down \o f) \o g
        BY <1>1, <1>10
      <4> HIDE DEF f, g
      <4>3. down \o f \in Seq(Units)
        BY <4>1, <4>2, UnitsClosed, Zenon
      <4>4. rx' \o down' = ((rx \o down) \o f) \o g
        <5>1. rx \o ((down \o f) \o g) = (rx \o (down \o f)) \o g
          BY <4>1, <4>2, <4>3, UnitsJoin, Zenon
        <5>2. rx \o (down \o f) = (rx \o down) \o f
          BY <4>1, <4>2, UnitsJoin, Zenon
        <5>3. QED
          BY <4>1, <4>2, <5>1, <5>2
      <4>5. QED
        BY <4>4 DEF f, g
    <3>5. QED
      BY <3>3, <3>4, <1>4, <2>3 DEF second
  <2>5. Len(raw') <= answered' /\ raw' = SubSeq(Reply, answered' - Len(raw') + 1, answered')
    <3>1. Len(raw') <= answered'
      BY <1>1, <1>4, <1>5
    <3>2. answered' = answered
      BY <1>1
    <3>3. QED
      BY <3>1, <3>2, <1>6, <2>2
  <2>6. /\ UNCHANGED <<rx, csn, expected, got, decoder>>
    BY <1>1 DEF decoderVars
  <2>7. QED
    BY <1>1, <1>8, <1>9, <2>1, <2>4, <2>5, <2>6 DEF DownFlows
<1>14. QED
  BY <1>11, <1>12, <1>13

LEMMA LostKeeps == ASSUME FramingInv, Lost PROVE FramingInv'
<1> USE DEF FramingInv
<1>1. /\ server = "ended" /\ down # <<>> /\ downEnd' = "reset" /\ down' = <<>>
      /\ UNCHANGED <<conf, clock, tunnel, cn, unsealed, sent, asked, up, server, scn, mode, target, remote, replyVars, decoderVars>>
  BY DEF Lost, clientVars, serverVars
<1>2. Types'
  BY <1>1 DEF Types, replyVars, decoderVars
<1>3. UpFlows'
  BY <1>1, UpSame
<1>4. DownFlows'
  <2>1. ServerKey' = ServerKey /\ ClientReads' = ClientReads /\ ServerSends' = ServerSends
    BY <1>1 DEF ServerKey, ClientReads, ServerSends, replyVars, decoderVars
  <2>2. target # Refused
    BY <1>1 DEF DownFlows
  <2>3. ASSUME decoder \in {"nonce", "frames"}
        PROVE  Flow(rx' \o down', ServerKey, Answers, ClientReads, ServerSends, FALSE)
    <3> DEFINE S == rx \o down
    <3>1. rx \in Seq(Units) /\ down \in Seq(Units)
      BY DEF Types
    <3>2. S \in Seq(Units) /\ Len(rx) \in 0..Len(S) /\ SubSeq(S, 1, Len(rx)) = rx
      <4>1. Len(rx) \in 0..Len(rx) /\ Len(rx) \in Nat /\ Len(down) \in Nat
        BY <3>1
      <4>2. S \in Seq(Units) /\ Len(S) = Len(rx) + Len(down) /\ SubSeq(S, 1, Len(rx)) = SubSeq(rx, 1, Len(rx))
        BY <3>1, <4>1, TakeFacts
      <4>3. SubSeq(rx, 1, Len(rx)) = rx
        BY <3>1, SubSeqFull
      <4>4. QED
        BY <4>1, <4>2, <4>3
    <3>3. Flow(S, ServerKey, Answers, ClientReads, ServerSends, downEnd # "reset")
      BY <2>2, <2>3 DEF DownFlows
    <3> HIDE DEF S
    <3>4. Flow(SubSeq(S, 1, Len(rx)), ServerKey, Answers, ClientReads, ServerSends, FALSE)
      BY <3>2, <3>3, FlowCut
    <3>5. rx' \o down' = rx
      <4>1. rx \o <<>> = rx
        BY <3>1, ConcatEmptySeq
      <4>2. QED
        BY <4>1, <1>1 DEF decoderVars
    <3>6. QED
      BY <3>2, <3>4, <3>5
  <2>4. UNCHANGED <<answered, raw, sn, rx, csn, expected, got, decoder>>
    BY <1>1 DEF replyVars, decoderVars
  <2>5. QED
    BY <1>1, <2>1, <2>2, <2>3, <2>4 DEF DownFlows
<1>5. QED
  BY <1>2, <1>3, <1>4

LEMMA ReceiveKeeps == ASSUME FramingInv, NEW n \in Nat, Receive(n) PROVE FramingInv'
<1> USE DEF FramingInv
<1>1. /\ n \in 1..Len(down) /\ rx' = rx \o SubSeq(down, 1, n) /\ down' = SubSeq(down, n + 1, Len(down))
      /\ UNCHANGED <<conf, clock, tunnel, cn, unsealed, sent, asked, up, server, scn, mode, target, remote, replyVars, downEnd, csn, expected, got, decoder>>
  BY DEF Receive, clientVars, serverVars
<1>2. rx \in Seq(Units) /\ down \in Seq(Units) /\ n \in 0..Len(down)
  BY <1>1 DEF Types
<1> DEFINE a == SubSeq(down, 1, n)
           b == SubSeq(down, n + 1, Len(down))
<1>3. a \in Seq(Units) /\ b \in Seq(Units) /\ a \o b = down
  BY <1>2, CutFacts
<1> HIDE DEF a, b
<1>4. rx' = rx \o a /\ down' = b
  BY <1>1 DEF a, b
<1>5. rx' \in Seq(Units) /\ rx' \o down' = rx \o down
  <2>1. rx \o a \in Seq(Units)
    BY <1>2, <1>3, UnitsClosed, Zenon
  <2>2. (rx \o a) \o b = rx \o (a \o b)
    BY <1>2, <1>3, UnitsJoin, Zenon
  <2>3. QED
    BY <2>1, <2>2, <1>3, <1>4, Zenon
<1>6. Types'
  <2>1. down' \in Seq(Units)
    BY <1>3, <1>4
  <2>2. rx' \in Seq(Units)
    BY <1>5
  <2>3. QED
    BY <1>1, <2>1, <2>2 DEF Types, replyVars
<1>7. UpFlows'
  BY <1>1, UpSame
<1>8. DownFlows'
  <2>1. ServerKey' = ServerKey /\ ClientReads' = ClientReads /\ ServerSends' = ServerSends
    BY <1>1 DEF ServerKey, ClientReads, ServerSends, replyVars
  <2>2. target # Refused
    BY <1>1, <1>2 DEF DownFlows
  <2>3. QED
    BY <1>1, <1>5, <2>1, <2>2 DEF DownFlows, replyVars
<1>9. QED
  BY <1>6, <1>7, <1>8

\* A decoder that has a unit is one of a client whose header was opened, and so
\* of one with the server's password.
LEMMA DecoderFacts ==
    ASSUME FramingInv, rx # <<>>, decoder \in {"nonce", "frames"}
    PROVE  /\ target # Refused /\ conf.samePassword /\ mode = conf.withoutBrook
           /\ rx \o down \in Seq(Units) /\ rx \o down # <<>> /\ (rx \o down)[1] = rx[1]
           /\ Len(rx \o down) \in Nat /\ Len(rx \o down) >= Len(rx) /\ Len(rx) \in Nat
           /\ (downEnd # "reset") \in BOOLEAN
           /\ Flow(rx \o down, ServerKey, Answers, ClientReads, ServerSends, downEnd # "reset")
           /\ decoder = "frames" => ClientServerKey = ServerKey
<1> USE DEF FramingInv
<1>1. rx \in Seq(Units) /\ down \in Seq(Units)
  BY DEF Types
<1>2. target # Refused
  BY DEF DownFlows
<1>3. conf.samePassword /\ mode = conf.withoutBrook
  BY <1>2 DEF UpFlows
<1>4. 0 \in 0..Len(rx) /\ Len(rx) \in Nat \ {0} /\ Len(down) \in Nat
  BY <1>1
<1>5. rx \o down \in Seq(Units) /\ Len(rx \o down) = Len(rx) + Len(down) /\ (rx \o down)[1] = rx[1]
  BY <1>1, <1>4, TakeFacts
<1>6. rx \o down # <<>> /\ Len(rx \o down) \in Nat /\ Len(rx \o down) >= Len(rx)
  BY <1>4, <1>5
<1>7. Flow(rx \o down, ServerKey, Answers, ClientReads, ServerSends, downEnd # "reset")
  BY <1>2 DEF DownFlows
<1>8. decoder = "frames" => ClientServerKey = ServerKey
  <2>1. decoder = "frames" => csn.start = sn.start
    BY <1>2 DEF DownFlows
  <2>2. QED
    BY <2>1, <1>3 DEF ClientServerKey, ServerKey, ClientPassword
<1>9. QED
  BY <1>2, <1>3, <1>4, <1>5, <1>6, <1>7, <1>8

LEMMA TakeNonceKeeps == ASSUME FramingInv, TakeNonce PROVE FramingInv'
<1> USE DEF FramingInv
<1>1. /\ decoder = "nonce" /\ Len(rx) >= NONCE_LENGTH /\ decoder' = "frames"
      /\ csn' = [start |-> rx[1].nonce, words |-> ToWords(rx[1].nonce)]
      /\ rx' = SubSeq(rx, NONCE_LENGTH + 1, Len(rx))
      /\ UNCHANGED <<conf, clock, tunnel, cn, unsealed, sent, asked, up, server, scn, mode, target, remote, replyVars, down, downEnd, expected, got>>
  BY DEF TakeNonce, HasNonce, Decodes, clientVars, serverVars
<1>2. rx \in Seq(Units) /\ down \in Seq(Units) /\ NONCE_LENGTH \in 1..Len(rx) /\ rx # <<>>
  BY <1>1, FramingAssumption DEF Types
<1> DEFINE S == rx \o down
           whole == downEnd # "reset"
<1>3. /\ target # Refused /\ S \in Seq(Units) /\ S # <<>> /\ S[1] = rx[1] /\ Len(S) >= Len(rx)
      /\ Len(S) \in Nat /\ whole \in BOOLEAN
      /\ Flow(S, ServerKey, Answers, ClientReads, ServerSends, whole)
  BY <1>1, <1>2, DecoderFacts
<1>4. SubSeq(S, NONCE_LENGTH + 1, Len(S)) = rx' \o down'
  <2>1. NONCE_LENGTH \in 0..Len(rx)
    BY <1>2
  <2>2. QED
    BY <2>1, <1>1, <1>2, TakeFacts
<1>5. ClientReads = At("nonce", sn.start, 0, 0)
  BY <1>1 DEF ClientReads
<1> HIDE DEF S, whole
<1>6. S[1].nonce = sn.start
      /\ Flow(rx' \o down', ServerKey, Answers, At("length", sn.start, 0, 0), ServerSends, whole)
  <2>1. Len(S) >= NONCE_LENGTH
    BY <1>2, <1>3
  <2>2. Flow(S, ServerKey, Answers, At("nonce", sn.start, 0, 0), ServerSends, whole)
    BY <1>3, <1>5
  <2>3. ServerKey \in Keys /\ sn.start \in Nonces /\ 0 \in Nat
    BY KeyFacts
  <2>4. /\ S[1].nonce = sn.start
        /\ Flow(SubSeq(S, NONCE_LENGTH + 1, Len(S)), ServerKey, Answers,
                At("length", sn.start, 0, 0), ServerSends, whole)
    BY <2>1, <2>2, <2>3, <1>3, NonceBoxTaken
  <2>5. QED
    BY <2>4, <1>4
<1>7. csn' \in [start : Nonces, words : Pairs] /\ Value(csn'.words) = sn.start /\ csn'.start = sn.start
  BY <1>1, <1>3, <1>6, KeyFacts, WordsFacts
<1>8. Types'
  <2>1. rx' \in Seq(Units)
    BY <1>1, <1>2
  <2>2. QED
    BY <1>1, <1>7, <2>1 DEF Types, replyVars
<1>9. UpFlows'
  BY <1>1, UpSame
<1>10. DownFlows'
  <2>1. ServerKey' = ServerKey /\ ServerSends' = ServerSends
    BY <1>1 DEF ServerKey, ServerSends, replyVars
  <2>2. expected = -1 /\ got = <<>>
    BY <1>1 DEF DownFlows
  <2>3. ClientReads' = At("length", sn.start, 0, 0)
    BY <1>1, <1>7, <2>2 DEF ClientReads
  <2>4. Flow(rx' \o down', ServerKey', Answers, ClientReads', ServerSends', downEnd' # "reset")
    BY <1>1, <1>6, <2>1, <2>3 DEF whole
  <2>5. csn'.start = sn'.start
    BY <1>1, <1>7 DEF replyVars
  <2>6. QED
    BY <1>1, <1>3, <2>4, <2>5 DEF DownFlows, replyVars
<1>11. QED
  BY <1>8, <1>9, <1>10

LEMMA OpenLengthKeeps == ASSUME FramingInv, OpenLength PROVE FramingInv'
<1> USE DEF FramingInv
<1>1. decoder = "frames" /\ expected = -1 /\ Len(rx) >= LENGTH_BOX
  BY DEF OpenLength, HasLength
<1>2. rx \in Seq(Units) /\ down \in Seq(Units) /\ LENGTH_BOX \in 1..Len(rx) /\ rx # <<>>
  BY <1>1, FramingAssumption DEF Types, LENGTH_BOX
<1> DEFINE S == rx \o down
           whole == downEnd # "reset"
           n == LengthIn(rx)
           v == Value(csn.words)
<1>3. /\ target # Refused /\ S \in Seq(Units) /\ S # <<>> /\ S[1] = rx[1] /\ Len(S) >= Len(rx)
      /\ Len(S) \in Nat /\ whole \in BOOLEAN /\ ClientServerKey = ServerKey
      /\ Flow(S, ServerKey, Answers, ClientReads, ServerSends, whole)
  BY <1>1, <1>2, DecoderFacts
<1>4. SubSeq(S, LENGTH_BOX + 1, Len(S)) = SubSeq(rx, LENGTH_BOX + 1, Len(rx)) \o down
      /\ SubSeq(S, 1, LENGTH_BOX) = SubSeq(rx, 1, LENGTH_BOX)
  <2>1. LENGTH_BOX \in 0..Len(rx)
    BY <1>2
  <2>2. QED
    BY <2>1, <1>2, TakeFacts
<1>5. ClientReads = At("length", v, Len(got), 0) /\ v \in Nonces /\ Len(got) \in Nat
  BY <1>1, KeyFacts DEF ClientReads, Types
<1>6. LengthIn(S) = n
  BY <1>3 DEF LengthIn
<1> HIDE DEF S, whole, n, v
<1>7. /\ Opens(ServerKey, v, SubSeq(rx, 1, LENGTH_BOX)) /\ n \in Nat \ {0}
      /\ Flow(SubSeq(rx, LENGTH_BOX + 1, Len(rx)) \o down, ServerKey, Answers,
              At("body", NextNonce(v), Len(got), n), ServerSends, whole)
  <2>1. Len(S) >= LENGTH_BOX
    BY <1>2, <1>3
  <2>2. Flow(S, ServerKey, Answers, At("length", v, Len(got), 0), ServerSends, whole)
    BY <1>3, <1>5
  <2>3. ServerKey \in Keys
    BY KeyFacts
  <2>4. /\ Opens(ServerKey, v, SubSeq(S, 1, LENGTH_BOX)) /\ LengthIn(S) \in Nat \ {0}
        /\ Flow(SubSeq(S, LENGTH_BOX + 1, Len(S)), ServerKey, Answers,
                At("body", NextNonce(v), Len(got), LengthIn(S)), ServerSends, whole)
    BY <2>1, <2>2, <2>3, <1>3, <1>5, LengthBoxTaken
  <2>5. QED
    BY <2>4, <1>4, <1>6
<1>8. /\ expected' = n /\ csn' = [csn EXCEPT !.words = NextWords(@)]
      /\ rx' = SubSeq(rx, LENGTH_BOX + 1, Len(rx))
      /\ UNCHANGED <<conf, clock, tunnel, cn, unsealed, sent, asked, up, server, scn, mode, target, remote, replyVars, down, downEnd, got, decoder>>
  BY <1>3, <1>7 DEF OpenLength, Decodes, clientVars, serverVars, n, v
<1>9. csn' \in [start : Nonces, words : Pairs] /\ csn'.start = csn.start /\ Value(csn'.words) = NextNonce(v)
  <2>1. csn.words \in Pairs /\ csn \in [start : Nonces, words : Pairs]
    BY DEF Types
  <2>2. NextWords(csn.words) \in Pairs /\ Value(NextWords(csn.words)) = NextNonce(v)
    BY <2>1, WordsFacts DEF v
  <2>3. QED
    BY <1>8, <2>1, <2>2
<1>10. Types'
  <2>1. rx' \in Seq(Units)
    BY <1>8, <1>2
  <2>2. expected' \in Nat \cup {-1}
    BY <1>7, <1>8
  <2>3. QED
    BY <1>8, <1>9, <2>1, <2>2 DEF Types, replyVars
<1>11. UpFlows'
  BY <1>8, UpSame
<1>12. DownFlows'
  <2>1. ServerKey' = ServerKey /\ ServerSends' = ServerSends
    BY <1>8 DEF ServerKey, ServerSends, replyVars
  <2>2. ClientReads' = At("body", NextNonce(v), Len(got), n)
    <3>1. expected' # -1 /\ decoder' # "nonce"
      BY <1>1, <1>7, <1>8
    <3>2. QED
      BY <3>1, <1>8, <1>9 DEF ClientReads
  <2>3. Flow(rx' \o down', ServerKey', Answers, ClientReads', ServerSends', downEnd' # "reset")
    BY <1>7, <1>8, <2>1, <2>2 DEF whole
  <2>4. csn'.start = sn'.start
    BY <1>1, <1>3, <1>8, <1>9 DEF replyVars, DownFlows
  <2>5. expected' <= MAX_FRAME_PAYLOAD
    <3> DEFINE p == At("body", NextNonce(v), Len(got), n)
    <3>1. p.kind = "body" /\ p.len = n /\ p.off = Len(got) /\ ServerSends.kind # "body"
      BY DEF At, ServerSends
    <3>2. Flow(SubSeq(rx, LENGTH_BOX + 1, Len(rx)) \o down, ServerKey, Answers, p, ServerSends, whole)
      BY <1>7
    <3> HIDE DEF p
    <3>3. PICK plain \in Seq(Nat) : Len(plain) = p.len /\ <<p.off, plain>> \in Answers
      BY <3>1, <3>2, FlowBody
    <3>4. Len(plain) <= MAX_FRAME_PAYLOAD
      BY <3>3 DEF Answers
    <3>5. QED
      BY <3>1, <3>3, <3>4, <1>8
  <2>6. QED
    BY <1>1, <1>3, <1>8, <2>3, <2>4, <2>5 DEF DownFlows, replyVars
<1>13. QED
  BY <1>10, <1>11, <1>12

LEMMA OpenPayloadKeeps == ASSUME FramingInv, OpenPayload PROVE FramingInv'
<1> USE DEF FramingInv
<1> DEFINE n == expected
           k == n + TAG_LENGTH
<1>1. decoder = "frames" /\ n \in Nat /\ Len(rx) >= k
  BY DEF OpenPayload, HasPayload, Types
<1>2. rx \in Seq(Units) /\ down \in Seq(Units) /\ k \in 1..Len(rx) /\ rx # <<>>
  BY <1>1, FramingAssumption DEF Types
<1> DEFINE S == rx \o down
           whole == downEnd # "reset"
           v == Value(csn.words)
           plain == rx[1].plain
<1>3. /\ target # Refused /\ S \in Seq(Units) /\ S # <<>> /\ S[1] = rx[1] /\ Len(S) >= Len(rx)
      /\ Len(S) \in Nat /\ whole \in BOOLEAN /\ ClientServerKey = ServerKey
      /\ Flow(S, ServerKey, Answers, ClientReads, ServerSends, whole)
  BY <1>1, <1>2, DecoderFacts
<1>4. SubSeq(S, k + 1, Len(S)) = SubSeq(rx, k + 1, Len(rx)) \o down
      /\ SubSeq(S, 1, k) = SubSeq(rx, 1, k)
  <2>1. k \in 0..Len(rx)
    BY <1>2
  <2> HIDE DEF k
  <2>2. QED
    BY <2>1, <1>2, TakeFacts
<1>5. ClientReads = At("body", v, Len(got), n) /\ v \in Nonces /\ Len(got) \in Nat
  BY <1>1, KeyFacts DEF ClientReads, Types
<1> HIDE DEF S, whole, v, n
<1>6. /\ Opens(ServerKey, v, SubSeq(rx, 1, k))
      /\ plain \in Seq(Nat) /\ Len(plain) = n /\ <<Len(got), plain>> \in Answers
      /\ Flow(SubSeq(rx, k + 1, Len(rx)) \o down, ServerKey, Answers,
              At("length", NextNonce(v), Len(got) + n, 0), ServerSends, whole)
  <2>1. Len(S) >= k
    BY <1>2, <1>3
  <2>2. Flow(S, ServerKey, Answers, At("body", v, Len(got), n), ServerSends, whole)
    BY <1>3, <1>5
  <2>3. ServerKey \in Keys
    BY KeyFacts
  <2> DEFINE o == Len(got)
  <2> HIDE DEF o
  <2>4. o \in Nat /\ n \in Nat /\ v \in Nonces /\ Len(S) >= n + TAG_LENGTH
         /\ Flow(S, ServerKey, Answers, At("body", v, o, n), ServerSends, whole)
    BY <2>1, <2>2, <1>1, <1>5 DEF o
  <2>5. /\ Opens(ServerKey, v, SubSeq(S, 1, n + TAG_LENGTH))
         /\ S[1].plain \in Seq(Nat) /\ Len(S[1].plain) = n /\ <<o, S[1].plain>> \in Answers
         /\ Flow(SubSeq(S, (n + TAG_LENGTH) + 1, Len(S)), ServerKey, Answers,
                 At("length", NextNonce(v), o + n, 0), ServerSends, whole)
    BY <2>3, <2>4, <1>3, BodyBoxTaken
  <2>6. /\ Opens(ServerKey, v, SubSeq(S, 1, n + TAG_LENGTH))
        /\ S[1].plain \in Seq(Nat) /\ Len(S[1].plain) = n /\ <<Len(got), S[1].plain>> \in Answers
        /\ Flow(SubSeq(S, (n + TAG_LENGTH) + 1, Len(S)), ServerKey, Answers,
                At("length", NextNonce(v), Len(got) + n, 0), ServerSends, whole)
    BY <2>5 DEF o
  <2>7. QED
    BY <2>6, <1>3, <1>4
<1>7. /\ got' = got \o plain /\ expected' = -1 /\ csn' = [csn EXCEPT !.words = NextWords(@)]
      /\ rx' = SubSeq(rx, k + 1, Len(rx))
      /\ UNCHANGED <<conf, clock, tunnel, cn, unsealed, sent, asked, up, server, scn, mode, target, remote, replyVars, down, downEnd, decoder>>
  BY <1>3, <1>6 DEF OpenPayload, Decodes, clientVars, serverVars, n, v
<1>8. csn' \in [start : Nonces, words : Pairs] /\ csn'.start = csn.start /\ Value(csn'.words) = NextNonce(v)
  <2>1. csn.words \in Pairs /\ csn \in [start : Nonces, words : Pairs]
    BY DEF Types
  <2>2. NextWords(csn.words) \in Pairs /\ Value(NextWords(csn.words)) = NextNonce(v)
    BY <2>1, WordsFacts DEF v
  <2>3. QED
    BY <1>7, <2>1, <2>2
<1> HIDE DEF k, plain
<1>9. got' \in Seq(Nat) /\ Len(got') = Len(got) + n /\ Len(got') <= Len(Reply) /\ got' = SubSeq(Reply, 1, Len(got'))
  <2>1. got \in Seq(Nat) /\ Reply \in Seq(Nat) /\ Len(got) <= Len(Reply) /\ got = SubSeq(Reply, 1, Len(got))
    BY FramingAssumption DEF Types, DownFlows
  <2>2. Len(got) + n <= Len(Reply) /\ plain = SubSeq(Reply, Len(got) + 1, Len(got) + n)
    <3>1. <<Len(got), plain>>[1] = Len(got) /\ <<Len(got), plain>>[2] = plain
      OBVIOUS
    <3>2. QED
      BY <3>1, <1>6 DEF Answers
  <2>3. got \o plain \in Seq(Nat) /\ Len(got \o plain) = Len(got) + n
    BY <2>1, <1>6, ConcatProperties
  <2>4. SubSeq(Reply, 1, Len(got)) \o SubSeq(Reply, Len(got) + 1, Len(got) + n) = SubSeq(Reply, 1, Len(got) + n)
    <3>1. 1 \in 1..(Len(Reply) + 1) /\ Len(got) \in (1 - 1)..Len(Reply) /\ Len(got) + n \in Len(got)..Len(Reply)
      BY <1>1, <2>1, <2>2
    <3>2. QED
      BY <2>1, <3>1, ConcatAdjacentSubSeq
  <2>5. got \o plain = SubSeq(Reply, 1, Len(got) + n)
    BY <2>1, <2>2, <2>4
  <2>6. QED
    BY <2>2, <2>3, <2>5, <1>7
<1>10. Types'
  <2>1. rx' \in Seq(Units)
    BY <1>7, <1>2
  <2>2. expected' \in Nat \cup {-1}
    BY <1>7
  <2>3. QED
    BY <1>7, <1>8, <1>9, <2>1, <2>2 DEF Types, replyVars
<1>11. UpFlows'
  BY <1>7, UpSame
<1>12. DownFlows'
  <2>1. ServerKey' = ServerKey /\ ServerSends' = ServerSends
    BY <1>7 DEF ServerKey, ServerSends, replyVars
  <2>2. ClientReads' = At("length", NextNonce(v), Len(got) + n, 0)
    BY <1>1, <1>7, <1>8, <1>9 DEF ClientReads
  <2>3. Flow(rx' \o down', ServerKey', Answers, ClientReads', ServerSends', downEnd' # "reset")
    BY <1>6, <1>7, <2>1, <2>2 DEF whole
  <2>4. csn'.start = sn'.start
    BY <1>1, <1>3, <1>7, <1>8 DEF replyVars, DownFlows
  <2>5. expected' <= MAX_FRAME_PAYLOAD
    BY <1>7, FramingAssumption
  <2>6. QED
    BY <1>1, <1>3, <1>7, <1>9, <2>3, <2>4, <2>5 DEF DownFlows, replyVars
<1>13. QED
  BY <1>10, <1>11, <1>12

\* Where nothing was cut off and nothing is in flight, what is in rx is whole boxes,
\* and the decoder has taken those.
LEMMA WholeBoxes ==
    ASSUME FramingInv, decoder \in {"nonce", "frames"}, ~(HasNonce \/ HasLength \/ HasPayload),
           down = <<>>, downEnd # "reset", target # Refused
    PROVE  rx = <<>>
<1> SUFFICES ASSUME rx # <<>> PROVE FALSE
  OBVIOUS
<1> USE DEF FramingInv
<1>1. rx \in Seq(Units) /\ rx \o down = rx
  <2>1. rx \in Seq(Units)
    BY DEF Types
  <2>2. QED
    BY <2>1, ConcatEmptySeq
<1>2. Flow(rx, ServerKey, Answers, ClientReads, ServerSends, TRUE)
  BY <1>1 DEF DownFlows
<1>3. ServerKey \in Keys /\ sn.start \in Nonces /\ Value(csn.words) \in Nonces /\ Len(got) \in Nat
  BY KeyFacts DEF Types
<1>4. CASE decoder = "nonce"
  <2>1. Flow(rx, ServerKey, Answers, At("nonce", sn.start, 0, 0), ServerSends, TRUE)
    BY <1>2, <1>4 DEF ClientReads
  <2>2. Len(rx) >= NONCE_LENGTH
    BY <2>1, <1>3, NonceBoxTaken
  <2>3. QED
    BY <2>2, <1>4 DEF HasNonce
<1>5. CASE decoder = "frames" /\ expected = -1
  <2>1. Flow(rx, ServerKey, Answers, At("length", Value(csn.words), Len(got), 0), ServerSends, TRUE)
    BY <1>2, <1>5 DEF ClientReads
  <2>2. Len(rx) >= LENGTH_BOX
    BY <2>1, <1>3, LengthBoxTaken
  <2>3. QED
    BY <2>2, <1>5 DEF HasLength
<1>6. CASE decoder = "frames" /\ expected # -1
  <2>1. Flow(rx, ServerKey, Answers, At("body", Value(csn.words), Len(got), expected), ServerSends, TRUE)
    BY <1>2, <1>6 DEF ClientReads
  <2>2. expected \in Nat
    BY <1>6 DEF Types
  <2>3. Len(rx) >= expected + TAG_LENGTH
    BY <2>1, <2>2, <1>3, BodyBoxTaken
  <2>4. QED
    BY <2>2, <2>3, <1>6 DEF HasPayload
<1>7. QED
  BY <1>4, <1>5, <1>6

LEMMA FinishKeeps == ASSUME FramingInv, Finish PROVE FramingInv'
<1> USE DEF FramingInv
<1>1. /\ decoder \in {"nonce", "frames"} /\ ~(HasNonce \/ HasLength \/ HasPayload)
      /\ downEnd # "open" /\ down = <<>>
      /\ decoder' = IF downEnd = "reset" \/ rx # <<>> \/ expected # -1 \/ decoder = "nonce" THEN "error" ELSE "fin"
      /\ rx' = SubSeq(rx, 0 + 1, Len(rx))
      /\ UNCHANGED <<conf, clock, tunnel, cn, unsealed, sent, asked, up, server, scn, mode, target, remote, replyVars, down, downEnd, csn, expected, got>>
  BY DEF Finish, Decodes, clientVars, serverVars
<1>2. rx' = rx
  <2>1. rx \in Seq(Units) /\ 0 + 1 = 1
    BY DEF Types
  <2>2. QED
    BY <1>1, <2>1, SubSeqFull
<1>3. Types'
  BY <1>1, <1>2 DEF Types, replyVars
<1>4. UpFlows'
  BY <1>1, UpSame
<1>5. CASE downEnd = "reset"
  <2>1. decoder' = "error"
    BY <1>1, <1>5
  <2>2. DownFlows'
    BY <1>1, <1>2, <1>5, <2>1 DEF DownFlows, replyVars
  <2>3. QED
    BY <1>3, <1>4, <2>2
<1>6. CASE downEnd # "reset"
  <2>1. downEnd = "fin" /\ raw = <<>> /\ answered = Len(Reply) /\ target # Refused
    BY <1>1, <1>6 DEF Types, DownFlows
  <2>2. rx = <<>>
    BY <1>1, <1>6, <2>1, WholeBoxes
  <2>3. ClientReads = ServerSends
    <3>1. rx \o down = <<>>
      BY <1>1, <2>2
    <3>2. Flow(rx \o down, ServerKey, Answers, ClientReads, ServerSends, TRUE)
      BY <1>1, <1>6, <2>1 DEF DownFlows
    <3>3. QED
      BY <3>1, <3>2, FlowEnds
  <2>4. ServerSends = At("length", sn.next, Len(Reply), 0)
    <3>1. answered - Len(raw) = Len(Reply)
      BY <2>1, FramingAssumption
    <3>2. QED
      BY <3>1 DEF ServerSends
  <2>5. decoder # "nonce" /\ expected = -1 /\ Len(got) = Len(Reply)
    BY <1>1, <2>3, <2>4 DEF ClientReads, At
  <2>6. got = Reply
    <3>1. got = SubSeq(Reply, 1, Len(Reply)) /\ Reply \in Seq(Nat)
      BY <2>5, FramingAssumption DEF DownFlows
    <3>2. QED
      BY <3>1, SubSeqFull
  <2>7. decoder' = "fin"
    BY <1>1, <1>6, <2>2, <2>5
  <2>8. DownFlows'
    BY <1>1, <1>2, <2>1, <2>6, <2>7 DEF DownFlows, replyVars
  <2>9. QED
    BY <1>3, <1>4, <2>8
<1>7. QED
  BY <1>5, <1>6

-----------------------------------------------------------------------------
(* The results *)

LEMMA FramingInvInductive == ASSUME FramingInv, [FramingNext]_framingVars PROVE FramingInv'
<1>1. CASE UNCHANGED framingVars
  <2>1. UNCHANGED <<conf, clock, tunnel, cn, unsealed, sent, asked, up, server, scn, mode, target, remote, replyVars, down, downEnd, decoderVars>>
    BY <1>1 DEF framingVars, clientVars, serverVars
  <2>2. Types'
    BY <2>1 DEF FramingInv, Types, replyVars, decoderVars
  <2>3. QED
    BY <2>1, <2>2, UpSame, DownSame DEF FramingInv
<1>2. CASE SendNonce
  BY <1>2, SendNonceKeeps
<1>3. ASSUME NEW bytes \in Seq(Nat), UpstreamReads(bytes) PROVE FramingInv'
  BY <1>3, UpstreamReadsKeeps
<1>4. ASSUME NEW bytes \in Seq(Nat), NEW destination \in Seq(Nat), SendHeader(destination, bytes) PROVE FramingInv'
  BY <1>4, SendHeaderKeeps
<1>5. CASE TunnelFin
  BY <1>5, TunnelFinKeeps
<1>6. CASE TakeNonce
  BY <1>6, TakeNonceKeeps
<1>7. CASE SendFrame
  BY <1>7, SendFrameKeeps
<1>8. CASE OpenHeader
  BY <1>8, OpenHeaderKeeps
<1>9. CASE Deadline
  BY <1>9, ServerEndsKeeps DEF Deadline
<1>10. CASE Dial
  BY <1>10, DialKeeps
<1>11. CASE OpenFrame
  BY <1>11, OpenFrameKeeps
<1>12. ASSUME NEW n \in 1..Len(Reply), ReadReply(n) PROVE FramingInv'
  <2>1. n \in Nat
    BY FramingAssumption
  <2>2. QED
    BY <1>12, <2>1, ReadReplyKeeps
<1>13. CASE SealReply
  BY <1>13, SealReplyKeeps
<1>14. CASE ServerFin
  BY <1>14, EndsKeeps DEF ServerFin
<1>15. CASE TornDown
  BY <1>15, ServerEndsKeeps DEF TornDown
<1>16. CASE Lost
  BY <1>16, LostKeeps
<1>17. ASSUME NEW n \in 1..Len(down), Receive(n) PROVE FramingInv'
  <2>1. n \in Nat
    BY DEF FramingInv, Types
  <2>2. QED
    BY <1>17, <2>1, ReceiveKeeps
<1>18. CASE OpenLength
  BY <1>18, OpenLengthKeeps
<1>19. CASE OpenPayload
  BY <1>19, OpenPayloadKeeps
<1>20. CASE Finish
  BY <1>20, FinishKeeps
<1>21. QED
  BY <1>1, <1>2, <1>3, <1>4, <1>5, <1>6, <1>7, <1>8, <1>9, <1>10, <1>11, <1>12, <1>13, <1>14, <1>15,
     <1>16, <1>17, <1>18, <1>19, <1>20 DEF FramingNext, FramingStep

LEMMA FramingInvHolds == FramingSpec => []FramingInv
<1>1. FramingInv /\ [FramingNext]_framingVars => FramingInv'
  BY FramingInvInductive
<1>2. QED
  BY FramingStarts, <1>1, PTL DEF FramingSpec

LEMMA FramingInvImplies == ASSUME FramingInv PROVE BytesInOrder
<1> USE DEF FramingInv
<1>1. ASSUME server = "relay"
      PROVE  \E H, T \in Seq(Nat) : \E a \in Nat :
                Flow(up, ClientKey, Uploads(H, T), At("length", scn.next, a, 0),
                     At("length", Value(cn.words), Len(H) + Len(T), 0), TRUE)
  <2>1. tunnel \notin {"idle", "header"}
    BY <1>1 DEF UpFlows
  <2>2. PICK H \in Seq(Nat), T \in Seq(Nat), a \in Nat : Upstream(H, T, a)
    BY <1>1, <2>1 DEF UpFlows, Uploading
  <2>3. ServerReads(a) = At("length", scn.next, a, 0)
    BY <1>1 DEF ServerReads
  <2>4. QED
    BY <1>1, <2>1, <2>2, <2>3 DEF Upstream
<1>2. ASSUME server = "relay", up # <<>> PROVE up[1].nonce = scn.next
  <2>1. PICK H \in Seq(Nat), T \in Seq(Nat), a \in Nat :
            Flow(up, ClientKey, Uploads(H, T), At("length", scn.next, a, 0),
                 At("length", Value(cn.words), Len(H) + Len(T), 0), TRUE)
    BY <1>1, <1>2
  <2> DEFINE bodies == Uploads(H, T)
             last == At("length", Value(cn.words), Len(H) + Len(T), 0)
  <2>2. Flow(up, ClientKey, bodies, At("length", scn.next, a, 0), last, TRUE)
    BY <2>1
  <2> HIDE DEF bodies, last
  <2>3. ClientKey \in Keys /\ scn.next \in Nonces
    BY KeyFacts
  <2>4. QED
    BY <1>2, <2>2, <2>3, LengthBoxTaken
<1>3. InStep
  BY <1>2 DEF InStep, DownFlows
<1>4. IsPrefix(remote, sent)
  <2>1. Len(remote) <= Len(sent) /\ remote = SubSeq(sent, 1, Len(remote)) /\ remote \in Seq(Nat)
    BY DEF UpFlows, Delivered, Types
  <2>2. SubSeq(remote, 1, Len(remote)) = remote
    BY <2>1, SubSeqFull
  <2>3. QED
    BY <2>1, <2>2 DEF IsPrefix
<1>5. ASSUME unsealed = <<>>, up = <<>> PROVE remote = sent
  <2>1. remote \o <<>> = sent
    BY <1>5, Emptied DEF UpFlows
  <2>2. remote \in Seq(Nat)
    BY DEF Types
  <2>3. QED
    BY <2>1, <2>2, ConcatEmptySeq
<1>6. UploadInOrder
  BY <1>4, <1>5 DEF UploadInOrder, UpFlows
<1>7. IsPrefix(got, Reply)
  <2>1. Len(got) <= Len(Reply) /\ got = SubSeq(Reply, 1, Len(got)) /\ Reply \in Seq(Nat) /\ got \in Seq(Nat)
    BY FramingAssumption DEF DownFlows, Types
  <2>2. SubSeq(got, 1, Len(got)) = got
    BY <2>1, SubSeqFull
  <2>3. QED
    BY <2>1, <2>2 DEF IsPrefix
<1>8. DownloadInOrder
  BY <1>7 DEF DownloadInOrder, DownFlows
<1>9. QED
  BY <1>3, <1>6, <1>8 DEF BytesInOrder

LEMMA FramingTypes == FramingInv => FramingTypeOK
<1> SUFFICES ASSUME FramingInv PROVE FramingTypeOK
  OBVIOUS
<1>1. Types /\ expected <= MAX_FRAME_PAYLOAD
  BY DEF FramingInv, DownFlows
<1>2. /\ Value(cn.words) \in 0..(WORD * WORD - 1)
      /\ sn.next \in 0..(WORD * WORD - 1) /\ scn.next \in 0..(WORD * WORD - 1)
  BY <1>1, KeyFacts, Zenon DEF Nonces
<1>3. expected \in -1..LONGEST
  <2>1. expected \in Nat \cup {-1}
    BY <1>1 DEF Types
  <2>2. LONGEST \in Nat /\ MAX_FRAME_PAYLOAD \in Nat /\ MAX_FRAME_PAYLOAD <= LONGEST
    BY FramingAssumption, LengthsAssumption DEF LONGEST
  <2>3. QED
    BY <1>1, <2>1, <2>2
<1>4. QED
  BY <1>1, <1>2, <1>3, Zenon DEF Types, FramingTypeOK

\* Whatever the words, nonces, lengths and frame limits, whatever the client and
\* the target send, and wherever the stream is cut: the two sides count alike,
\* the target gets the client's bytes and the client the target's, in order
\* and without a gap, and all of them where an end was clean.
THEOREM BytesInOrderHolds == FramingSpec => []BytesInOrder
<1>1. QED
  BY FramingInvHolds, FramingInvImplies, PTL

-----------------------------------------------------------------------------
(* What a loop over a sequence picks out *)

LEMMA LeastNat == ASSUME NEW T, T \subseteq Nat, T # {} PROVE \E x \in T : \A y \in T : x <= y
<1>1. IsWellFoundedOn(OpToRel(<, Nat), Nat)
  BY NatLessThanWellFounded
<1>2. PICK x \in T : \A y \in T : ~(<<y, x>> \in OpToRel(<, Nat))
  BY <1>1, WFMin
<1>3. ASSUME NEW y \in T PROVE x <= y
  <2>1. ~(y < x)
    BY <1>2 DEF OpToRel
  <2>2. QED
    BY <2>1
<1>4. QED
  BY <1>3

LEMMA JoinTwice ==
    ASSUME NEW a \in Seq(Nat), NEW b \in Seq(Nat), NEW d \in Seq(Nat)
    PROVE  (a \o b) \o d = a \o (b \o d)
<1> DEFINE s == (a \o b) \o d
           t == a \o (b \o d)
<1>1. s \in Seq(Nat) /\ t \in Seq(Nat)
  OBVIOUS
<1>2. Len(s) = Len(a) + Len(b) + Len(d) /\ Len(t) = Len(s)
  OBVIOUS
<1>3. ASSUME NEW i \in 1..(Len(a) + Len(b) + Len(d)) PROVE s[i] = t[i]
  <2>1. /\ a \o b \in Seq(Nat) /\ Len(a \o b) = Len(a) + Len(b)
        /\ b \o d \in Seq(Nat) /\ Len(b \o d) = Len(b) + Len(d)
    OBVIOUS
  <2>2. CASE i <= Len(a)
    BY <2>1, <2>2
  <2>3. CASE ~(i <= Len(a)) /\ i <= Len(a) + Len(b)
    BY <2>1, <2>3
  <2>4. CASE ~(i <= Len(a) + Len(b))
    BY <2>1, <2>4
  <2>5. QED
    BY <2>2, <2>3, <2>4
<1> HIDE DEF s, t
<1>4. s = t
  BY <1>1, <1>2, <1>3, SeqEqual
<1>5. QED
  BY <1>4 DEF s, t

\* g is what the loop has picked out of s, step by step, up to the step n.
Filters(g, s, S, n) ==
    g = [i \in 0..n |-> IF i = 0 THEN <<>> ELSE IF s[i] \in S THEN Append(g[i - 1], s[i]) ELSE g[i - 1]]

LEMMA FiltersOnce ==
    ASSUME NEW s, NEW S, NEW n \in Nat, NEW g, NEW h, Filters(g, s, S, n), Filters(h, s, S, n)
    PROVE  \A i \in 0..n : g[i] = h[i]
<1> DEFINE Bad == {i \in 0..n : g[i] # h[i]}
<1> SUFFICES ASSUME Bad # {} PROVE FALSE
  OBVIOUS
<1>1. PICK i \in Bad : \A j \in Bad : i <= j
  <2>1. Bad \subseteq Nat
    OBVIOUS
  <2>2. QED
    BY <2>1, LeastNat
<1>2. \A j \in 0..n : /\ g[j] = IF j = 0 THEN <<>> ELSE IF s[j] \in S THEN Append(g[j - 1], s[j]) ELSE g[j - 1]
                      /\ h[j] = IF j = 0 THEN <<>> ELSE IF s[j] \in S THEN Append(h[j - 1], s[j]) ELSE h[j - 1]
  BY DEF Filters
<1>3. i \in 0..n /\ i # 0
  BY <1>1, <1>2
<1>4. i - 1 \in 0..n /\ ~(i <= i - 1)
  BY <1>3
<1>5. g[i - 1] = h[i - 1]
  BY <1>1, <1>4
<1>6. g[i] = h[i]
  BY <1>2, <1>3, <1>5
<1>7. QED
  BY <1>1, <1>6

LEMMA FiltersExist == ASSUME NEW s, NEW S PROVE \A n \in Nat : \E g : Filters(g, s, S, n)
<1> DEFINE Bad == {n \in Nat : ~\E g : Filters(g, s, S, n)}
<1> SUFFICES ASSUME Bad # {} PROVE FALSE
  OBVIOUS
<1>1. PICK n \in Bad : \A m \in Bad : n <= m
  <2>1. Bad \subseteq Nat
    OBVIOUS
  <2> HIDE DEF Bad
  <2>2. QED
    BY <2>1, LeastNat
<1>2. CASE n = 0
  <2> DEFINE g == [i \in 0..0 |-> <<>>]
  <2>1. Filters(g, s, S, 0)
    BY DEF Filters
  <2>2. QED
    BY <1>1, <1>2, <2>1
<1>3. CASE n # 0
  <2>1. n \in Nat /\ n - 1 \in Nat /\ ~(n <= n - 1)
    BY <1>1, <1>3
  <2>2. PICK g : Filters(g, s, S, n - 1)
    BY <1>1, <2>1
  <2> DEFINE Step(i) == IF s[i] \in S THEN Append(g[i - 1], s[i]) ELSE g[i - 1]
             h == [i \in 0..n |-> IF i = n THEN Step(n) ELSE g[i]]
  <2>3. \A i \in 0..(n - 1) : g[i] = IF i = 0 THEN <<>> ELSE Step(i)
    BY <2>2 DEF Filters
  <2> HIDE DEF Step
  <2>4. \A i \in 0..n : h[i] = IF i = 0 THEN <<>> ELSE Step(i)
    <3> SUFFICES ASSUME NEW i \in 0..n PROVE h[i] = IF i = 0 THEN <<>> ELSE Step(i)
      OBVIOUS
    <3>1. CASE i = n
      BY <3>1, <1>3
    <3>2. CASE i # n
      <4>1. i \in 0..(n - 1)
        BY <2>1, <3>2
      <4>2. QED
        BY <4>1, <2>3, <3>2
    <3>3. QED
      BY <3>1, <3>2
  <2>5. \A i \in 1..n : h[i - 1] = g[i - 1]
    <3> SUFFICES ASSUME NEW i \in 1..n PROVE h[i - 1] = g[i - 1]
      OBVIOUS
    <3>1. i - 1 \in 0..n /\ i - 1 # n
      BY <2>1
    <3>2. QED
      BY <3>1
  <2>6. \A i \in 0..n : h[i] = IF i = 0 THEN <<>> ELSE IF s[i] \in S THEN Append(h[i - 1], s[i]) ELSE h[i - 1]
    <3> SUFFICES ASSUME NEW i \in 0..n, i # 0
                 PROVE  h[i] = IF s[i] \in S THEN Append(h[i - 1], s[i]) ELSE h[i - 1]
      BY <2>4
    <3>1. i \in 1..n
      BY <2>1
    <3>2. h[i - 1] = g[i - 1]
      BY <3>1, <2>5
    <3>3. h[i] = Step(i)
      BY <2>4
    <3> HIDE DEF h
    <3>4. QED
      BY <3>2, <3>3 DEF Step
  <2>7. h = [i \in 0..n |-> h[i]]
    OBVIOUS
  <2> HIDE DEF h
  <2>8. Filters(h, s, S, n)
    BY <2>6, <2>7 DEF Filters
  <2>9. QED
    BY <1>1, <2>8
<1>4. QED
  BY <1>2, <1>3

LEMMA OnlyIs ==
    ASSUME NEW s, Len(s) \in Nat, NEW S, NEW g, Filters(g, s, S, Len(s))
    PROVE  Only(s, S) = g[Len(s)]
<1> DEFINE only == CHOOSE h : Filters(h, s, S, Len(s))
<1>1. Filters(only, s, S, Len(s))
  OBVIOUS
<1>2. Only(s, S) = only[Len(s)]
  BY DEF Only, Filters
<1> HIDE DEF only
<1>3. only[Len(s)] = g[Len(s)]
  BY <1>1, FiltersOnce
<1>4. QED
  BY <1>2, <1>3

LEMMA OnlySeq == ASSUME NEW s, Len(s) \in Nat, NEW S PROVE Only(s, S) \in Seq(S)
<1>1. PICK g : Filters(g, s, S, Len(s))
  BY FiltersExist
<1>2. Only(s, S) = g[Len(s)]
  BY <1>1, OnlyIs
<1> DEFINE n == Len(s)
           Bad == {i \in 0..n : g[i] \notin Seq(S)}
<1> HIDE DEF n
<1>3. \A j \in 0..n : g[j] = IF j = 0 THEN <<>> ELSE IF s[j] \in S THEN Append(g[j - 1], s[j]) ELSE g[j - 1]
  BY <1>1 DEF Filters, n
<1>4. n \in Nat
  BY DEF n
<1>5. ASSUME Bad # {} PROVE FALSE
  <2>1. PICK i \in Bad : \A j \in Bad : i <= j
    <3>1. Bad \subseteq Nat
      BY <1>4
    <3> HIDE DEF Bad
    <3>2. QED
      BY <1>5, <3>1, LeastNat
  <2>2. i \in 0..n /\ i # 0
    <3>1. g[0] = <<>> /\ <<>> \in Seq(S)
      BY <1>3, <1>4
    <3>2. QED
      BY <2>1, <3>1
  <2>3. i - 1 \in 0..n /\ ~(i <= i - 1)
    BY <1>4, <2>2
  <2>4. g[i - 1] \in Seq(S)
    BY <2>1, <2>3
  <2>5. g[i] \in Seq(S)
    <3>1. g[i] = IF s[i] \in S THEN Append(g[i - 1], s[i]) ELSE g[i - 1]
      BY <1>3, <2>2
    <3>2. \A u \in S : Append(g[i - 1], u) \in Seq(S)
      BY <2>4
    <3>3. QED
      BY <2>4, <3>1, <3>2
  <2>6. QED
    BY <2>1, <2>5
<1>6. g[n] \in Seq(S)
  BY <1>4, <1>5
<1>7. QED
  BY <1>2, <1>6 DEF n

-----------------------------------------------------------------------------
(* Addresses *)

LEMMA WordBytesFacts ==
    ASSUME NEW words, \A i \in 1..8 : words[i] \in Nat
    PROVE  WordBytes(words) \in Seq(Nat) /\ Len(WordBytes(words)) = 16
<1> DEFINE byte(i) == PortBytes(words[(i + 1) \div 2])[((i + 1) % 2) + 1]
<1>1. ASSUME NEW i \in 1..16 PROVE byte(i) \in Nat
  <2>1. (i + 1) \div 2 \in 1..8 /\ ((i + 1) % 2) + 1 \in 1..2
    OBVIOUS
  <2>2. \A w \in Nat : \A k \in 1..2 : PortBytes(w)[k] \in Nat
    <3> SUFFICES ASSUME NEW w \in Nat, NEW k \in 1..2 PROVE PortBytes(w)[k] \in Nat
      OBVIOUS
    <3>1. PortBytes(w) \in Seq(Nat) /\ Len(PortBytes(w)) = 2
      BY PortBytesFacts
    <3>2. QED
      BY <3>1, ElementOfSeq
  <2>3. QED
    BY <2>1, <2>2
<1> HIDE DEF byte
<1>2. [i \in 1..16 |-> byte(i)] \in Seq(Nat) /\ Len([i \in 1..16 |-> byte(i)]) = 16
  BY <1>1
<1>3. QED
  BY <1>2 DEF WordBytes, byte

LEMMA HostFacts ==
    ASSUME NEW host, IsHost(host)
    PROVE  /\ HostType(host) \in {IPv4, Domain, IPv6} /\ HostBytes(host) \in Seq(Nat)
           /\ HostType(host) = IPv4 => Len(HostBytes(host)) = 4
           /\ HostType(host) = IPv6 => Len(HostBytes(host)) = 16
           /\ HostType(host) = Domain => HostBytes(host) = host.parts
<1>1. host.parts \in Seq(Nat)
  BY DEF IsHost
<1>2. CASE IsIpv6(host)
  <2>1. \A i \in 1..8 : Words(host)[i] \in Nat
    <3>1. \A i \in 1..8 : Words(host)[i] \in Word
      BY <1>2 DEF IsIpv6
    <3>2. Word \subseteq Nat
      BY DEF Word
    <3>3. QED
      BY <3>1, <3>2
  <2>2. HostBytes(host) \in Seq(Nat) /\ Len(HostBytes(host)) = 16
    BY <1>2, <2>1, WordBytesFacts DEF HostBytes
  <2>3. ~IsIpv4(host)
    BY <1>2 DEF IsIpv6, IsIpv4
  <2>4. QED
    BY <1>2, <2>2, <2>3 DEF HostType, IPv4, IPv6, Domain
<1>3. CASE ~IsIpv6(host)
  <2>1. IsIpv4(host) => Len(host.parts) = 4
    BY DEF IsHost, IsIpv4
  <2>2. QED
    BY <1>1, <1>3, <2>1 DEF HostType, HostBytes, IPv4, IPv6, Domain
<1>4. QED
  BY <1>2, <1>3

LEMMA JoinAt ==
    ASSUME NEW X, NEW a \in Seq(X), NEW b \in Seq(X)
    PROVE  /\ a \o b \in Seq(X) /\ Len(a \o b) = Len(a) + Len(b)
           /\ \A i \in 1..Len(a) : (a \o b)[i] = a[i]
           /\ \A i \in 1..Len(b) : (a \o b)[Len(a) + i] = b[i]
<1> DEFINE all == a \o b
           m == Len(a)
           n == Len(b)
<1>1. /\ all \in Seq(X) /\ Len(all) = Len(a) + Len(b)
      /\ \A i \in 1..(Len(a) + Len(b)) : all[i] = IF i <= Len(a) THEN a[i] ELSE b[i - Len(a)]
  BY ConcatProperties
<1> HIDE DEF all
<1>2. m \in Nat /\ n \in Nat
  OBVIOUS
<1>3. \A i \in 1..(m + n) : all[i] = IF i <= m THEN a[i] ELSE b[i - m]
  BY <1>1
<1> HIDE DEF m, n
<1>4. \A i \in 1..m : i \in 1..(m + n) /\ i <= m
  BY <1>2
<1>5. \A i \in 1..n : m + i \in 1..(m + n) /\ ~(m + i <= m) /\ (m + i) - m = i
  BY <1>2
<1>6. \A i \in 1..m : all[i] = a[i]
  BY <1>3, <1>4
<1>7. \A i \in 1..n : all[m + i] = b[i]
  <2> SUFFICES ASSUME NEW i \in 1..n PROVE all[m + i] = b[i]
    OBVIOUS
  <2>1. all[m + i] = b[(m + i) - m]
    BY <1>3, <1>5
  <2>2. QED
    BY <1>5, <2>1
<1>8. QED
  BY <1>1, <1>6, <1>7 DEF all, m, n

\* How a destination is laid out; a name has its length before it.
IsLayout(all, head, host, port, h, n) ==
    /\ all \in Seq(Nat) /\ Len(all) = h + n + 2
    /\ \A i \in 1..h : all[i] = head[i]
    /\ \A i \in 1..n : all[h + i] = host[i]
    /\ all[h + n + 1] = port[1] /\ all[h + n + 2] = port[2]

LEMMA LayoutFacts ==
    ASSUME NEW head \in Seq(Nat), NEW host \in Seq(Nat), NEW port \in Seq(Nat), Len(port) = 2
    PROVE  IsLayout(head \o host \o port, head, host, port, Len(head), Len(host))
<1> DEFINE h == Len(head)
           n == Len(host)
           front == head \o host
           all == front \o port
<1>1. h \in Nat /\ n \in Nat
  OBVIOUS
<1>2. /\ front \in Seq(Nat) /\ Len(front) = h + n
      /\ \A i \in 1..h : front[i] = head[i]
      /\ \A i \in 1..n : front[h + i] = host[i]
  BY JoinAt
<1> HIDE DEF front, h, n
<1>3. front \in Seq(Nat)
  BY <1>2
<1>4. /\ all \in Seq(Nat) /\ Len(all) = (h + n) + 2
      /\ \A i \in 1..(h + n) : all[i] = front[i]
      /\ \A i \in 1..2 : all[(h + n) + i] = port[i]
  <2>1. /\ all \in Seq(Nat) /\ Len(all) = Len(front) + Len(port)
        /\ \A i \in 1..Len(front) : all[i] = front[i]
        /\ \A i \in 1..Len(port) : all[Len(front) + i] = port[i]
    <3>1. \A P \in Seq(Nat), Q \in Seq(Nat) :
              /\ P \o Q \in Seq(Nat) /\ Len(P \o Q) = Len(P) + Len(Q)
              /\ \A i \in 1..Len(P) : (P \o Q)[i] = P[i]
              /\ \A i \in 1..Len(Q) : (P \o Q)[Len(P) + i] = Q[i]
      BY JoinAt
    <3>2. QED
      BY <1>3, <3>1
  <2> HIDE DEF all
  <2>2. QED
    BY <1>2, <2>1
<1> HIDE DEF all
<1>5. (\A i \in 1..h : i \in 1..(h + n)) /\ (\A i \in 1..n : h + i \in 1..(h + n)) /\ 1 \in 1..2 /\ 2 \in 1..2
  BY <1>1
<1>6. \A i \in 1..h : all[i] = head[i]
  BY <1>2, <1>4, <1>5
<1>7. \A i \in 1..n : all[h + i] = host[i]
  BY <1>2, <1>4, <1>5
<1>8. all[h + n + 1] = port[1] /\ all[h + n + 2] = port[2]
  BY <1>4, <1>5
<1>9. IsLayout(all, head, host, port, h, n)
  BY <1>4, <1>6, <1>7, <1>8 DEF IsLayout
<1>10. QED
  BY <1>9 DEF all, front, h, n

\* Where the host begins is behind the octet HostAt(d).
HostAt(d) == IF d.type = Domain THEN 2 ELSE 1

LaidOut(d, dest, h, n) ==
    /\ dest \in Seq(Nat) /\ Len(dest) = h + n + 2 /\ n \in Nat
    /\ (d.type = Domain => h = 2 /\ dest[2] = n) /\ (d.type # Domain => h = 1)
    /\ dest[1] = d.type
    /\ \A i \in 1..n : dest[h + i] = d.host[i]
    /\ dest[h + n + 1] * 256 + dest[h + n + 2] = d.port

LEMMA DestinationFacts ==
    ASSUME NEW d, d.type \in Nat, d.host \in Seq(Nat), d.port \in Nat
    PROVE  LaidOut(d, DestinationBytes(d), HostAt(d), Len(d.host))
<1> DEFINE pre == IF d.type = Domain THEN <<Len(d.host)>> ELSE <<>>
           head == <<d.type>> \o pre
           port == PortBytes(d.port)
           all == head \o d.host \o port
           n == Len(d.host)
           h == HostAt(d)
<1>1. n \in Nat /\ (d.type = Domain => h = 2) /\ (d.type # Domain => h = 1)
  BY DEF HostAt
<1>2. head \in Seq(Nat) /\ Len(head) = h /\ head[1] = d.type /\ (d.type = Domain => head[2] = n)
  <2> DEFINE one == <<d.type>>
  <2>1. one \in Seq(Nat) /\ Len(one) = 1 /\ one[1] = d.type
    OBVIOUS
  <2>2. pre \in Seq(Nat) /\ (d.type = Domain => Len(pre) = 1 /\ pre[1] = n) /\ (d.type # Domain => Len(pre) = 0)
    OBVIOUS
  <2>3. h \in {1, 2} /\ (h = 2 <=> d.type = Domain) /\ (h = 1 <=> d.type # Domain)
    BY DEF HostAt
  <2> HIDE DEF one, pre, n, h
  <2>4. one \in Seq(Nat)
    BY <2>1
  <2>5. pre \in Seq(Nat)
    BY <2>2
  <2>6. /\ one \o pre \in Seq(Nat) /\ Len(one \o pre) = Len(one) + Len(pre)
        /\ \A i \in 1..Len(one) : (one \o pre)[i] = one[i]
        /\ \A i \in 1..Len(pre) : (one \o pre)[Len(one) + i] = pre[i]
    BY <2>4, <2>5, JoinAt
  <2>7. head = one \o pre
    BY DEF one
  <2> HIDE DEF head
  <2>8. head \in Seq(Nat) /\ Len(head) = 1 + Len(pre) /\ head[1] = d.type
    BY <2>1, <2>6, <2>7
  <2>9. ASSUME d.type = Domain PROVE head[2] = n
    <3>1. Len(one) = 1 /\ Len(pre) = 1
      BY <2>1, <2>2, <2>9
    <3>2. 1 \in 1..Len(pre) /\ Len(one) + 1 = 2
      BY <3>1
    <3>3. head[2] = pre[1]
      BY <2>6, <2>7, <3>2
    <3>4. QED
      BY <2>2, <2>9, <3>3
  <2>10. Len(head) = h
    <3>1. CASE d.type = Domain
      <4>1. h = 2 /\ Len(pre) = 1
        BY <2>3, <2>2, <3>1
      <4>2. QED
        BY <2>8, <4>1
    <3>2. CASE d.type # Domain
      <4>1. h = 1 /\ Len(pre) = 0
        BY <2>3, <2>2, <3>2
      <4>2. QED
        BY <2>8, <4>1
    <3>3. QED
      BY <3>1, <3>2
  <2>11. QED
    BY <2>8, <2>9, <2>10
<1>3. port \in Seq(Nat) /\ Len(port) = 2 /\ port[1] * 256 + port[2] = d.port
  BY PortBytesFacts
<1>4. DestinationBytes(d) = all
  BY DEF DestinationBytes
<1> HIDE DEF head, port
<1>5. IsLayout(all, head, d.host, port, Len(head), n)
  <2>1. head \in Seq(Nat)
    BY <1>2
  <2>2. port \in Seq(Nat) /\ Len(port) = 2
    BY <1>3
  <2>3. QED
    BY <2>1, <2>2, LayoutFacts
<1> HIDE DEF all, n, h
<1>6. 1 \in 1..h /\ (d.type = Domain => 2 \in 1..h)
  BY <1>1
<1>7. all[1] = d.type /\ (d.type = Domain => all[2] = n)
  BY <1>2, <1>5, <1>6 DEF IsLayout
<1>8. all[h + n + 1] * 256 + all[h + n + 2] = d.port
  BY <1>2, <1>3, <1>5 DEF IsLayout
<1>9. LaidOut(d, all, h, n)
  BY <1>1, <1>2, <1>5, <1>7, <1>8 DEF LaidOut, IsLayout
<1>10. QED
  BY <1>4, <1>9 DEF n, h

\* The server dials what was encoded: the same type, host and port.
LEMMA ParseIsTo ==
    ASSUME NEW d, d.type \in {IPv4, Domain, IPv6}, d.host \in Seq(Nat), d.port \in Nat,
           d.type = IPv4 => Len(d.host) = 4, d.type = IPv6 => Len(d.host) = 16,
           d.type = Domain => Len(d.host) \in 1..255
    PROVE  ParseBrookDestination(DestinationBytes(d)) = ToAddress(d.type, d.host, d.port)
<1> DEFINE dest == DestinationBytes(d)
           n == Len(d.host)
           h == HostAt(d)
           addr == SubSeq(dest, 2, Len(dest) - 2)
           port == dest[Len(dest) - 1] * 256 + dest[Len(dest)]
<1>1. d.type \in Nat
  BY DEF IPv4, Domain, IPv6
<1>2. LaidOut(d, dest, h, n)
  BY <1>1, DestinationFacts
<1>3. d.type = IPv4 => n = 4
  OBVIOUS
<1>4. d.type = IPv6 => n = 16
  OBVIOUS
<1>5. d.type = Domain => n \in 1..255
  OBVIOUS
<1> HIDE DEF n, h, dest
<1>6. h \in {1, 2} /\ n \in Nat /\ (d.type = Domain => h = 2) /\ (d.type # Domain => h = 1)
  BY <1>2 DEF LaidOut
<1>7. /\ dest \in Seq(Nat) /\ Len(dest) = h + n + 2 /\ dest[1] = d.type /\ (d.type = Domain => dest[2] = n)
      /\ \A i \in 1..n : dest[h + i] = d.host[i]
      /\ dest[h + n + 1] * 256 + dest[h + n + 2] = d.port
  BY <1>2 DEF LaidOut
<1>8. ~(Len(dest) < 3) /\ port = d.port
  <2>1. Len(dest) - 1 = h + n + 1 /\ ~(Len(dest) < 3)
    BY <1>6, <1>7
  <2>2. QED
    BY <1>7, <2>1
<1>9. addr \in Seq(Nat) /\ Len(addr) = n + h - 1 /\ \A i \in 1..(n + h - 1) : addr[i] = dest[1 + i]
  <2> DEFINE e == Len(dest) - 2
  <2>1. e = n + h /\ e \in Nat /\ e <= Len(dest)
    BY <1>6, <1>7
  <2> HIDE DEF e
  <2>2. SubSeq(dest, 2, e) \in Seq(Nat)
    BY <1>7, <2>1
  <2>3. Len(SubSeq(dest, 2, e)) = e - 1
    BY <1>7, <2>1, <1>6
  <2>4. \A i \in 1..(e - 1) : SubSeq(dest, 2, e)[i] = dest[1 + i]
    BY <1>7, <2>1
  <2>5. e - 1 = n + h - 1
    BY <2>1, <1>6
  <2>6. QED
    BY <2>2, <2>3, <2>4, <2>5 DEF e
<1> HIDE DEF port
<1>10. CASE d.type # Domain
  <2>1. h = 1 /\ n + h - 1 = n
    BY <1>6, <1>10
  <2> HIDE DEF addr
  <2>2. Len(addr) = n /\ \A i \in 1..n : addr[i] = d.host[i]
    BY <1>7, <1>9, <2>1
  <2>3. addr = d.host
    BY <1>9, <2>2, SeqEqual DEF n
  <2>4. (d.type = IPv4 /\ Len(addr) = 4) \/ (d.type = IPv6 /\ Len(addr) = 16)
    BY <1>10, <1>3, <1>4, <2>2
  <2>5. ParseBrookDestination(dest) = ToAddress(d.type, addr, d.port)
    <3>1. (dest[1] = IPv4 /\ Len(addr) = 4 /\ d.type = IPv4) \/ (dest[1] = IPv6 /\ Len(addr) = 16 /\ d.type = IPv6)
      BY <1>7, <2>4
    <3>2. QED
      BY <1>8, <3>1 DEF ParseBrookDestination, addr, port, IPv4, IPv6, Domain
  <2>6. QED
    BY <2>3, <2>5 DEF dest
<1>11. CASE d.type = Domain
  <2>1. h = 2 /\ n + h - 1 = n + 1 /\ n \in 1..255
    BY <1>6, <1>11, <1>5
  <2> HIDE DEF addr
  <2>2. Len(addr) = n + 1 /\ addr[1] = n /\ addr # <<>>
    <3>1. 1 \in 1..(n + 1) /\ 1 + 1 = 2
      BY <2>1
    <3>2. addr[1] = dest[1 + 1]
      BY <1>9, <2>1, <3>1
    <3>3. Len(addr) = n + h - 1
      BY <1>9
    <3>4. Len(addr) = n + 1
      BY <2>1, <3>3
    <3>5. n + 1 # 0
      BY <2>1
    <3>6. QED
      BY <1>7, <1>11, <3>1, <3>2, <3>4, <3>5
  <2>3. Tail(addr) = d.host
    <3>1. Tail(addr) \in Seq(Nat) /\ Len(Tail(addr)) = n
      BY <1>9, <2>1, <2>2
    <3>2. \A i \in 1..n : Tail(addr)[i] = addr[i + 1]
      BY <1>9, <2>2, <3>1, HeadTailProperties
    <3>3. \A i \in 1..n : i + 1 \in 1..(n + 1) /\ 1 + (i + 1) = 2 + i
      BY <2>1
    <3>4. \A i \in 1..n : Tail(addr)[i] = d.host[i]
      <4> SUFFICES ASSUME NEW i \in 1..n PROVE Tail(addr)[i] = d.host[i]
        OBVIOUS
      <4>1. addr[i + 1] = dest[1 + (i + 1)]
        <5>1. i + 1 \in 1..(n + h - 1)
          BY <2>1
        <5>2. QED
          BY <1>9, <5>1
      <4>2. dest[2 + i] = d.host[i]
        BY <1>7, <2>1
      <4>3. QED
        BY <3>2, <3>3, <4>1, <4>2
    <3>5. QED
      BY <3>1, <3>4, SeqEqual DEF n
  <2>4. NameOf(addr) = d.host
    BY <2>2, <2>3 DEF NameOf
  <2>5. addr # <<0>>
    <3>1. <<0>>[1] = 0
      OBVIOUS
    <3>2. QED
      BY <2>1, <2>2, <3>1
  <2>6. Len(NameOf(addr)) <= 255
    <3>1. n <= 255
      BY <2>1
    <3>2. QED
      BY <2>4, <3>1 DEF n
  <2>7. ParseBrookDestination(dest) = ToAddress(Domain, NameOf(addr), d.port)
    <3>1. dest[1] = Domain /\ addr # <<>>
      BY <1>7, <1>11, <2>2
    <3>2. QED
      BY <1>8, <2>5, <2>6, <3>1 DEF ParseBrookDestination, addr, port, IPv4, IPv6, Domain
  <2>8. ParseBrookDestination(dest) = ToAddress(d.type, d.host, d.port)
    BY <1>11, <2>4, <2>7
  <2>9. QED
    BY <2>8 DEF dest
<1>12. QED
  BY <1>10, <1>11

\* byte-utils.js:144 against socks5.go:44: the server reads a destination that the
\* proxy encoded, whatever the form of the host, as that type, those bytes and that
\* port, where an IPv4 address in IPv6 form counts as the IPv4 address.
THEOREM AddressesAgree ==
    ASSUME NEW host, IsHost(host), NEW port, Encodable(host, port)
    PROVE  /\ EncodeAddress(host, port) \in Seq(Nat)
           /\ ParseBrookDestination(EncodeAddress(host, port)) = ToAddress(HostType(host), HostBytes(host), port)
<1> DEFINE d == Destination(HostType(host), HostBytes(host), port)
<1>1. d.type = HostType(host) /\ d.host = HostBytes(host) /\ d.port = port
  BY Zenon DEF Destination
<1>2. port \in Nat
  BY DEF Encodable, Word
<1>3. HostType(host) = Domain => Len(host.parts) \in 1..255
  BY DEF Encodable
<1>4. EncodeAddress(host, port) = DestinationBytes(d)
  BY DEF EncodeAddress
<1> HIDE DEF d
<1>5. /\ d.type \in {IPv4, Domain, IPv6} /\ d.host \in Seq(Nat) /\ d.port \in Nat
      /\ d.type = IPv4 => Len(d.host) = 4
      /\ d.type = IPv6 => Len(d.host) = 16
      /\ d.type = Domain => Len(d.host) \in 1..255
  BY <1>1, <1>2, <1>3, HostFacts
<1>6. d.type \in Nat
  BY <1>5 DEF IPv4, Domain, IPv6
<1>7. DestinationBytes(d) \in Seq(Nat)
  <2>1. LaidOut(d, DestinationBytes(d), HostAt(d), Len(d.host))
    BY <1>5, <1>6, DestinationFacts
  <2>2. QED
    BY <2>1 DEF LaidOut
<1>8. ParseBrookDestination(DestinationBytes(d)) = ToAddress(d.type, d.host, d.port)
  BY <1>5, ParseIsTo
<1>9. QED
  BY <1>1, <1>4, <1>7, <1>8

-----------------------------------------------------------------------------
(* Lines and their ends *)

LEMMA UnitFacts == /\ Unit \subseteq Nat /\ CR \in Unit /\ LF \in Unit /\ CR \notin DOMAIN Text /\ LF \notin DOMAIN Text
                   /\ \A s \in Seq(Unit) : s \in Seq(Nat)
<1>1. DOMAIN Text \subseteq Nat \ Octet
  BY HandshakeAssumption
<1>2. Unit \subseteq Nat
  BY <1>1 DEF Unit, Octet
<1>3. CR \in Octet /\ LF \in Octet
  BY DEF CR, LF, Octet
<1>4. \A s \in Seq(Unit) : s \in Seq(Nat)
  BY <1>2, SeqMonotonic
<1>5. QED
  BY <1>1, <1>2, <1>3, <1>4 DEF Unit

\* The places of the lines and of their ends, of `w` units a line.
LEMMA Placed ==
    ASSUME NEW w \in {2, 3}, NEW n \in Nat, NEW i \in 1..n, NEW j \in 0..(w - 1)
    PROVE  /\ (i - 1) * w + 1 + j \in 1..(n * w)
           /\ ((i - 1) * w + 1 + j - 1) % w = j /\ ((i - 1) * w + 1 + j - 1) \div w = i - 1
<1>1. CASE w = 2
  BY <1>1
<1>2. CASE w = 3
  BY <1>2
<1>3. QED
  BY <1>1, <1>2

LEMMA Places ==
    ASSUME NEW w \in {2, 3}, NEW n \in Nat, NEW p \in 1..(n * w)
    PROVE  /\ (p - 1) % w \in 0..(w - 1) /\ ((p - 1) \div w) + 1 \in 1..n
           /\ p = (((p - 1) \div w) + 1 - 1) * w + 1 + ((p - 1) % w)
<1>1. CASE w = 2
  BY <1>1
<1>2. CASE w = 3
  BY <1>2
<1>3. QED
  BY <1>1, <1>2

Lined(each, lines, end, n, w) ==
    /\ Len(each) = n * w
    /\ \A i \in 1..n : each[(i - 1) * w + 1] = lines[i]
    /\ \A i \in 1..n : \A j \in 1..(w - 1) : each[(i - 1) * w + 1 + j] = end[j]

LEMMA EachWithFacts ==
    ASSUME NEW S, CR \in S, LF \in S, NEW lines \in Seq(S), NEW end \in {CRLF, <<LF>>}
    PROVE  /\ EachWith(lines, end) \in Seq(S) /\ Len(end) + 1 \in {2, 3} /\ end \in Seq(S)
           /\ Lined(EachWith(lines, end), lines, end, Len(lines), Len(end) + 1)
<1> DEFINE w == Len(end) + 1
           n == Len(lines)
           at(p) == IF (p - 1) % w = 0 THEN lines[((p - 1) \div w) + 1] ELSE end[(p - 1) % w]
           each == [p \in 1..(n * w) |-> at(p)]
<1>1. w \in {2, 3} /\ n \in Nat /\ end \in Seq(S) /\ \A j \in 1..(w - 1) : end[j] \in S
  <2>1. CASE end = CRLF
    <3>1. end \in Seq(S) /\ Len(end) = 2 /\ end[1] \in S /\ end[2] \in S
      BY <2>1 DEF CRLF
    <3>2. w = 3
      BY <3>1
    <3> HIDE DEF w
    <3>3. QED
      BY <3>1, <3>2
  <2>2. CASE end = <<LF>>
    <3>1. end \in Seq(S) /\ Len(end) = 1 /\ end[1] \in S
      BY <2>2
    <3>2. w = 2
      BY <3>1
    <3> HIDE DEF w
    <3>3. QED
      BY <3>1, <3>2
  <2>3. QED
    BY <2>1, <2>2
<1>2. \A i \in 1..n : lines[i] \in S
  OBVIOUS
<1>3. EachWith(lines, end) = each
  BY DEF EachWith
<1> HIDE DEF w, n
<1>4. ASSUME NEW p \in 1..(n * w) PROVE at(p) \in S
  <2>1. (p - 1) % w \in 0..(w - 1) /\ ((p - 1) \div w) + 1 \in 1..n
    BY <1>1, Places
  <2>2. (p - 1) % w # 0 => (p - 1) % w \in 1..(w - 1)
    BY <1>1, <2>1
  <2>3. QED
    BY <1>1, <1>2, <2>1, <2>2
<1>5. ASSUME NEW i \in 1..n PROVE (i - 1) * w + 1 \in 1..(n * w) /\ at((i - 1) * w + 1) = lines[i]
  <2> DEFINE p == (i - 1) * w + 1
  <2>1. 0 \in 0..(w - 1) /\ (i - 1) * w + 1 = (i - 1) * w + 1 + 0
    BY <1>1
  <2>2. /\ (i - 1) * w + 1 + 0 \in 1..(n * w)
        /\ ((i - 1) * w + 1 + 0 - 1) % w = 0 /\ ((i - 1) * w + 1 + 0 - 1) \div w = i - 1
    BY <1>1, <2>1, Placed
  <2>3. p \in 1..(n * w) /\ (p - 1) % w = 0 /\ (p - 1) \div w = i - 1
    BY <2>1, <2>2
  <2> HIDE DEF p
  <2>4. at(p) = lines[i]
    BY <2>3
  <2>5. QED
    BY <2>3, <2>4 DEF p
<1>6. ASSUME NEW i \in 1..n, NEW j \in 1..(w - 1)
      PROVE  (i - 1) * w + 1 + j \in 1..(n * w) /\ at((i - 1) * w + 1 + j) = end[j]
  <2> DEFINE p == (i - 1) * w + 1 + j
  <2>1. j \in 0..(w - 1) /\ j # 0
    BY <1>1
  <2>2. p \in 1..(n * w) /\ (p - 1) % w = j
    BY <1>1, <2>1, Placed
  <2> HIDE DEF p
  <2>3. at(p) = end[j]
    BY <2>1, <2>2
  <2>4. QED
    BY <2>2, <2>3 DEF p
<1> HIDE DEF at
<1>7. n * w \in Nat
  BY <1>1
<1>8. each \in Seq(S) /\ Len(each) = n * w
  BY <1>4, <1>7
<1>9. \A i \in 1..n : each[(i - 1) * w + 1] = lines[i]
  BY <1>5
<1>10. \A i \in 1..n : \A j \in 1..(w - 1) : each[(i - 1) * w + 1 + j] = end[j]
  BY <1>6
<1> HIDE DEF each
<1>11. Lined(each, lines, end, n, w)
  BY <1>8, <1>9, <1>10 DEF Lined
<1>12. QED
  BY <1>1, <1>3, <1>8, <1>11 DEF n, w

LEMMA RewrittenSeq ==
    ASSUME NEW request \in DOMAIN Text, NEW lines \in Seq(Unit)
    PROVE  Rewritten(request, lines) \in Seq(Nat)
<1> DEFINE kept == Kept(Texts(lines))
           first == IF Is(request, {"absolute"}) THEN Text[request].path ELSE request
           body == IF kept = <<>> THEN CRLF ELSE EachWith(kept, CRLF)
<1>1. DOMAIN Text \subseteq Nat /\ \A u \in DOMAIN Text : Text[u].path \in Nat
  BY HandshakeAssumption
<1>2. CRLF \in Seq(Nat) /\ CR \in Nat /\ LF \in Nat
  BY DEF CRLF, CR, LF
<1>3. kept \in Seq(Nat)
  <2> DEFINE texts == Texts(lines)
             S == {u \in DOMAIN Text : ~Is(u, {"proxy"})}
  <2>1. texts \in Seq(DOMAIN Text)
    BY OnlySeq DEF Texts
  <2> HIDE DEF texts
  <2>2. Len(texts) \in Nat
    BY <2>1
  <2>3. Only(texts, S) \in Seq(S)
    BY <2>2, OnlySeq
  <2>4. S \subseteq Nat
    BY <1>1
  <2>5. kept = Only(texts, S)
    BY DEF Kept, texts
  <2> HIDE DEF S, kept
  <2>6. Only(texts, S) \in Seq(Nat)
    BY <2>3, <2>4, SeqMonotonic
  <2>7. QED
    BY <2>5, <2>6
<1> HIDE DEF kept
<1>4. body \in Seq(Nat)
  <2>1. EachWith(kept, CRLF) \in Seq(Nat)
    BY <1>2, <1>3, EachWithFacts
  <2>2. QED
    BY <1>2, <2>1
<1>5. <<first>> \in Seq(Nat)
  <2>1. first \in Nat
    BY <1>1
  <2> HIDE DEF first
  <2>2. QED
    BY <2>1
<1> HIDE DEF first, body
<1>6. \A s, t \in Seq(Nat) : s \o t \in Seq(Nat)
  OBVIOUS
<1>7. Rewritten(request, lines) = <<first>> \o CRLF \o body \o CRLF
  BY DEF Rewritten, first, body, kept
<1>8. <<first>> \o CRLF \in Seq(Nat)
  BY <1>2, <1>5, <1>6
<1>9. (<<first>> \o CRLF) \o body \in Seq(Nat)
  BY <1>4, <1>6, <1>8
<1>10. QED
  BY <1>2, <1>6, <1>7, <1>9

-----------------------------------------------------------------------------
(* The handshake: types and stages *)

\* What a stage says of the type and of what was read.
Stages ==
    /\ stage = "first" => given = 0 /\ buf = <<>>
    /\ stage \in {"greeting", "methods", "request", "name", "address"} => type = "socks5"
    /\ stage = "header" => type = "http"
    /\ stage = "methods" => Len(buf) >= 2
    /\ stage \in {"name", "address"} => Len(buf) >= 4 /\ buf[1] = 5 /\ buf[2] = 1
    /\ stage = "name" => buf[4] = Domain
    /\ stage = "address" => buf[4] \in {IPv4, IPv6} \/ (buf[4] = Domain /\ Len(buf) >= 5 /\ buf[5] # 0)

HandshakeInv == HandshakeTypeOK /\ Stages

Codes == {"no_auth", "no_acceptable_method", "command_not_supported",
          "address_type_not_supported", "400", "431", "success", "failure"}

LEMMA HandshakeStarts == HandshakeInit => HandshakeInv
<1> SUFFICES ASSUME HandshakeInit PROVE HandshakeInv
  OBVIOUS
<1>1. wire \in Seq(Unit)
  BY HandshakeAssumption DEF HandshakeInit
<1>2. HandshakeTypeOK
  <2>1. 0 \in 0..Len(wire)
    BY <1>1
  <2>2. type \in {"auto", "socks5", "http"}
    BY HandshakeAssumption DEF HandshakeInit
  <2>3. \A S : <<>> \in Seq(S)
    OBVIOUS
  <2>4. wire \in Wires /\ given \in 0..Len(wire) /\ buf \in Seq(Unit) /\ dst \in Seq(Nat) /\ leftover \in Seq(Nat)
    BY <2>1, <2>3 DEF HandshakeInit
  <2>5. /\ stage = "first" /\ isConnect = FALSE /\ replySent = FALSE
        /\ replies \in Seq({"no_auth", "no_acceptable_method", "command_not_supported",
                           "address_type_not_supported", "400", "431", "success", "failure"})
    BY <2>3 DEF HandshakeInit
  <2>6. QED
    BY <2>2, <2>4, <2>5 DEF HandshakeTypeOK
<1>3. Stages
  BY DEF HandshakeInit, Stages
<1>4. QED
  BY <1>2, <1>3 DEF HandshakeInv

LEMMA UnitIsNat == \A s \in Seq(Unit) : \A i \in 1..Len(s) : s[i] \in Unit /\ s[i] \in Nat
<1>1. \A s \in Seq(Unit) : \A i \in 1..Len(s) : s[i] \in Unit
  OBVIOUS
<1>2. QED
  BY <1>1, UnitFacts

LEMMA WireFacts == HandshakeTypeOK => wire \in Seq(Unit) /\ Len(wire) \in Nat /\ given \in 0..Len(wire)
<1>1. HandshakeTypeOK => wire \in Seq(Unit) /\ given \in 0..Len(wire)
  BY HandshakeAssumption DEF HandshakeTypeOK
<1>2. QED
  BY <1>1

\* A step that fails keeps everything but the stage and the replies.
LEMMA FailsKeeps ==
    ASSUME HandshakeInv, NEW code \in Codes \cup {"none"}, Fails(code) PROVE HandshakeInv'
<1>1. replies' \in Seq(Codes)
  <2>1. replies \in Seq(Codes)
    BY DEF HandshakeInv, HandshakeTypeOK, Codes
  <2>2. code # "none" => code \in Codes
    OBVIOUS
  <2>3. replies' = IF code = "none" THEN replies ELSE Append(replies, code)
    BY DEF Fails
  <2> HIDE DEF Codes
  <2>4. QED
    BY <2>1, <2>2, <2>3
<1>2. HandshakeTypeOK'
  BY <1>1 DEF HandshakeInv, HandshakeTypeOK, Fails, Stay, Codes
<1>3. Stages'
  BY DEF Fails, Stages
<1>4. QED
  BY <1>2, <1>3 DEF HandshakeInv

\* A step that only goes on to another stage.
LEMMA GoesTypes ==
    ASSUME HandshakeTypeOK, NEW next \in {"methods", "address", "name"}, Goes(next) PROVE HandshakeTypeOK'
<1>1. QED
  BY DEF HandshakeTypeOK, Goes, Stay

LEMMA BufFacts == HandshakeTypeOK => buf \in Seq(Unit) /\ Len(buf) \in Nat
<1>1. QED
  BY DEF HandshakeTypeOK

LEMMA ChunkKeeps == ASSUME HandshakeInv, NEW n \in Nat, Chunk(n) PROVE HandshakeInv'
<1> DEFINE part == SubSeq(wire, given + 1, given + n)
<1>1. wire \in Seq(Unit) /\ Len(wire) \in Nat /\ given \in 0..Len(wire) /\ n \in 1..(Len(wire) - given)
  BY WireFacts DEF HandshakeInv, Chunk
<1>2. part \in Seq(Unit)
  BY <1>1
<1>3. buf \in Seq(Unit) /\ Len(buf) \in Nat
  BY BufFacts DEF HandshakeInv
<1>4. buf' = buf \o part /\ given' = given + n
  BY DEF Chunk
<1> HIDE DEF part
<1>5. buf' \in Seq(Unit) /\ Len(buf') = Len(buf) + Len(part) /\ \A i \in 1..Len(buf) : buf'[i] = buf[i]
  BY <1>2, <1>3, <1>4, JoinAt
<1>6. HandshakeTypeOK'
  <2>1. given' \in 0..Len(wire) /\ wire' = wire
    BY <1>1, <1>4 DEF Chunk
  <2>2. type' \in {"auto", "socks5", "http", "unknown"} /\ stage' \in {"greeting", "header", "failed", stage}
    <3>1. type \in {"auto", "socks5", "http", "unknown"}
      BY DEF HandshakeInv, HandshakeTypeOK
    <3>2. CASE stage = "first"
      BY <3>1, <3>2 DEF Chunk, Detect
    <3>3. CASE stage # "first"
      BY <3>1, <3>3 DEF Chunk
    <3>4. QED
      BY <3>2, <3>3
  <2>3. UNCHANGED <<replies, dst, leftover, isConnect, replySent>>
    BY DEF Chunk
  <2>4. QED
    BY <1>5, <2>1, <2>2, <2>3 DEF HandshakeInv, HandshakeTypeOK
<1>7. Stages'
  <2>1. CASE stage = "first"
    <3>1. /\ stage' \in {"greeting", "header", "failed"}
          /\ (stage' = "greeting" => type' = "socks5") /\ (stage' = "header" => type' = "http")
      BY <2>1 DEF Chunk
    <3>2. QED
      BY <3>1 DEF Stages
  <2>2. CASE stage # "first"
    <3>1. stage' = stage /\ type' = type
      BY <2>2 DEF Chunk
    <3>2. Len(part) \in Nat
      BY <1>2
    <3>3. /\ Len(buf') >= Len(buf)
          /\ (Len(buf) >= 4 => buf'[1] = buf[1] /\ buf'[2] = buf[2] /\ buf'[4] = buf[4])
          /\ (Len(buf) >= 5 => buf'[5] = buf[5])
      BY <1>3, <1>5, <3>2
    <3>4. Len(buf') \in Nat
      BY <1>3, <1>5, <3>2
    <3>5. Stages
      BY DEF HandshakeInv
    <3>6. stage' = "methods" => Len(buf') >= 2
      BY <1>3, <3>1, <3>3, <3>4, <3>5 DEF Stages
    <3>7. stage' \in {"name", "address"} => Len(buf') >= 4 /\ buf'[1] = 5 /\ buf'[2] = 1 /\ buf'[4] = buf[4]
      BY <1>3, <3>1, <3>3, <3>4, <3>5 DEF Stages
    <3>8. stage' = "address" => buf'[4] \in {IPv4, IPv6} \/ (buf'[4] = Domain /\ Len(buf') >= 5 /\ buf'[5] # 0)
      <4>1. stage' = "address" => buf[4] \in {IPv4, IPv6} \/ (buf[4] = Domain /\ Len(buf) >= 5 /\ buf[5] # 0)
        BY <3>1, <3>5 DEF Stages
      <4>2. Len(buf) >= 5 => Len(buf') >= 5
        BY <1>3, <3>3, <3>4
      <4>3. QED
        BY <3>3, <3>7, <4>1, <4>2
    <3>9. QED
      BY <2>2, <3>1, <3>5, <3>6, <3>7, <3>8 DEF Stages
  <2>3. QED
    BY <2>1, <2>2
<1>8. QED
  BY <1>6, <1>7 DEF HandshakeInv

LEMMA VersionKeeps == ASSUME HandshakeInv, Version PROVE HandshakeInv'
<1>1. CASE Fails("none")
  BY <1>1, FailsKeeps
<1>2. CASE Goes("methods")
  <2>1. HandshakeTypeOK'
    BY <1>2, GoesTypes DEF HandshakeInv
  <2>2. stage = "greeting" /\ Len(buf) >= 2 /\ stage' = "methods" /\ buf' = buf /\ type' = type
    BY <1>2 DEF Version, Has, Need, Goes, Stay
  <2>3. Stages'
    BY <2>2 DEF HandshakeInv, Stages
  <2>4. QED
    BY <2>1, <2>3 DEF HandshakeInv
<1>3. QED
  BY <1>1, <1>2 DEF Version

LEMMA MethodsKeeps == ASSUME HandshakeInv, Methods PROVE HandshakeInv'
<1>1. CASE Fails("none")
  BY <1>1, FailsKeeps
<1>2. CASE Fails("no_acceptable_method")
  BY <1>2, FailsKeeps DEF Codes
<1>3. CASE /\ replies' = Append(replies, "no_auth")
           /\ buf' = SubSeq(buf, 3 + buf[2], Len(buf))
           /\ stage' = "request"
           /\ Stay(<<dst, leftover, isConnect, replySent>>)
  <2>1. replies \in Seq(Codes)
    BY DEF HandshakeInv, HandshakeTypeOK, Codes
  <2>2. replies' \in Seq(Codes)
    <3>1. "no_auth" \in Codes
      BY DEF Codes
    <3>2. QED
      BY <1>3, <2>1, <3>1
  <2>3. buf' \in Seq(Unit)
    <3>1. buf \in Seq(Unit) /\ Len(buf) \in Nat /\ Len(buf) >= 2 /\ Unit \subseteq Nat
      BY BufFacts, UnitFacts DEF HandshakeInv, Stages, Methods, Has
    <3>2. buf[2] \in Nat
      <4>1. 2 \in 1..Len(buf)
        BY <3>1
      <4>2. QED
        BY <3>1, <4>1, UnitIsNat
    <3>3. QED
      BY <1>3, <3>1, <3>2
  <2>4. HandshakeTypeOK'
    BY <1>3, <2>2, <2>3 DEF HandshakeInv, HandshakeTypeOK, Stay, Codes
  <2>5. Stages'
    BY <1>3 DEF HandshakeInv, Stages, Methods, Has, Stay
  <2>6. QED
    BY <2>4, <2>5 DEF HandshakeInv
<1>4. QED
  BY <1>1, <1>2, <1>3 DEF Methods

LEMMA RequestKeeps == ASSUME HandshakeInv, Request PROVE HandshakeInv'
<1>1. CASE \E code \in {"none", "command_not_supported", "address_type_not_supported"} : Fails(code)
  BY <1>1, FailsKeeps DEF Codes
<1>2. CASE /\ buf[1] = 5 /\ buf[2] = 1 
           /\ (Goes("address") /\ buf[4] \in {IPv4, IPv6}) \/ (Goes("name") /\ buf[4] = Domain)
  <2>1. HandshakeTypeOK'
    BY <1>2, GoesTypes DEF HandshakeInv
  <2>2. stage = "request" /\ Len(buf) >= 4 /\ buf' = buf /\ type' = type
    BY <1>2 DEF Request, Has, Need, Goes, Stay
  <2>3. Stages'
    BY <1>2, <2>2 DEF HandshakeInv, Stages, Goes
  <2>4. QED
    BY <2>1, <2>3 DEF HandshakeInv
<1>3. QED
  BY <1>1, <1>2 DEF Request

LEMMA NameLengthKeeps == ASSUME HandshakeInv, NameLength PROVE HandshakeInv'
<1>1. CASE Fails("none")
  BY <1>1, FailsKeeps
<1>2. CASE buf[5] # 0 /\ Goes("address")
  <2>1. HandshakeTypeOK'
    BY <1>2, GoesTypes DEF HandshakeInv
  <2>2. stage = "name" /\ Len(buf) >= 5 /\ buf' = buf /\ type' = type /\ stage' = "address"
    BY <1>2 DEF NameLength, Has, Need, Goes, Stay
  <2>3. Stages'
    BY <1>2, <2>2 DEF HandshakeInv, Stages
  <2>4. QED
    BY <2>1, <2>3 DEF HandshakeInv
<1>3. QED
  BY <1>1, <1>2 DEF NameLength

LEMMA AddressKeeps == ASSUME HandshakeInv, Address PROVE HandshakeInv'
<1>1. buf \in Seq(Unit) /\ Len(buf) \in Nat /\ Unit \subseteq Nat
  BY BufFacts, UnitFacts DEF HandshakeInv
<1>2. Need \in Nat
  <2>1. /\ Len(buf) >= 4
        /\ buf[4] \in {IPv4, IPv6} \/ (buf[4] = Domain /\ Len(buf) >= 5 /\ buf[5] # 0)
    BY DEF HandshakeInv, Stages, Address, Has
  <2>2. buf[4] = Domain => buf[5] \in Nat
    <3>1. buf[4] = Domain => 5 \in 1..Len(buf)
      BY <1>1, <2>1 DEF IPv4, IPv6, Domain
    <3>2. QED
      BY <1>1, <3>1, UnitIsNat
  <2>3. QED
    BY <2>1, <2>2 DEF Need, Address, Has
<1>3. dst' = SubSeq(buf, 4, Need) /\ leftover' = SubSeq(buf, Need + 1, Len(buf)) /\ Len(buf) >= Need
  BY DEF Address, Has
<1> DEFINE m == Need
<1>4. m \in Nat /\ dst' = SubSeq(buf, 4, m) /\ leftover' = SubSeq(buf, m + 1, Len(buf)) /\ Len(buf) >= m
  BY <1>2, <1>3
<1> HIDE DEF m
<1>5. dst' \in Seq(Unit)
  BY <1>1, <1>4
<1>6. leftover' \in Seq(Unit)
  BY <1>1, <1>4
<1>7. dst' \in Seq(Nat) /\ leftover' \in Seq(Nat)
  BY <1>5, <1>6, UnitFacts
<1>8. HandshakeTypeOK'
  BY <1>7 DEF HandshakeInv, HandshakeTypeOK, Address, Stay
<1>9. Stages'
  BY DEF Address, Stages
<1>10. QED
  BY <1>8, <1>9 DEF HandshakeInv

\* The end of a header, when there is one, is the first.
LEMMA HeaderEndFacts ==
    ASSUME NEW b \in Seq(Unit)
    PROVE  /\ HeaderEnds(b) \subseteq 1..Len(b)
           /\ HeaderEnds(b) = {} => HeaderEnd(b) = 0
           /\ HeaderEnds(b) # {} => HeaderEnd(b) \in HeaderEnds(b) /\ \A f \in HeaderEnds(b) : HeaderEnd(b) <= f
           /\ HeaderEnd(b) \in 0..Len(b)
<1>1. Len(b) \in Nat
  OBVIOUS
<1>2. HeaderEnds(b) \subseteq 1..Len(b)
  BY <1>1 DEF HeaderEnds
<1>3. ASSUME HeaderEnds(b) # {}
      PROVE  HeaderEnd(b) \in HeaderEnds(b) /\ \A f \in HeaderEnds(b) : HeaderEnd(b) <= f
  <2>1. HeaderEnds(b) \subseteq Nat
    BY <1>2
  <2>2. \E e \in HeaderEnds(b) : \A f \in HeaderEnds(b) : e <= f
    BY <1>3, <2>1, LeastNat
  <2>3. HeaderEnd(b) = CHOOSE e \in HeaderEnds(b) : \A f \in HeaderEnds(b) : e <= f
    BY <1>3 DEF HeaderEnd
  <2>4. QED
    BY <2>2, <2>3
<1>4. HeaderEnds(b) = {} => HeaderEnd(b) = 0
  BY DEF HeaderEnd
<1>5. HeaderEnd(b) \in 0..Len(b)
  BY <1>1, <1>2, <1>3, <1>4
<1>6. QED
  BY <1>2, <1>3, <1>4, <1>5

\* The Host header is one of the units of the header.
LEMMA HostLineIs == ASSUME NEW h, HostLine(h) # 0, Len(h) \in Nat PROVE HostLine(h) \in DOMAIN Text
<1> DEFINE lines == {i \in 2..Len(h) : h[i - 1] = LF /\ Is(h[i], {"host"})}
           i == CHOOSE i \in lines : \A j \in lines : i <= j
<1>1. lines # {} /\ HostLine(h) = h[i]
  BY DEF HostLine
<1>2. lines \subseteq Nat
  OBVIOUS
<1>3. \A k \in lines : Is(h[k], {"host"})
  OBVIOUS
<1> HIDE DEF lines
<1>4. i \in lines
  <2>1. \E k \in lines : \A j \in lines : k <= j
    BY <1>1, <1>2, LeastNat
  <2>2. QED
    BY <2>1
<1>5. QED
  BY <1>1, <1>3, <1>4 DEF Is, IsText

\* A header ends with a line feed.
LEMMA EndsWithLF == ASSUME NEW b \in Seq(Unit), NEW e \in HeaderEnds(b) PROVE e \in 1..Len(b) /\ b[e] = LF
<1>1. Len(b) \in Nat /\ e \in 1..Len(b)
  BY HeaderEndFacts
<1>2. CASE \E j \in 1..(Len(b) - 1) : e = j + 1 /\ SubSeq(b, j, j + 1) = <<LF, LF>>
  <2>1. PICK j \in 1..(Len(b) - 1) : e = j + 1 /\ SubSeq(b, j, j + 1) = <<LF, LF>>
    BY <1>2
  <2>2. SubSeq(b, j, j + 1)[2] = b[j + 1]
    BY <1>1
  <2>3. <<LF, LF>>[2] = LF
    OBVIOUS
  <2>4. QED
    BY <1>1, <2>1, <2>2, <2>3
<1>3. CASE \E j \in 1..(Len(b) - 3) : e = j + 3 /\ SubSeq(b, j, j + 3) = CRLF \o CRLF
  <2>1. PICK j \in 1..(Len(b) - 3) : e = j + 3 /\ SubSeq(b, j, j + 3) = CRLF \o CRLF
    BY <1>3
  <2>2. SubSeq(b, j, j + 3)[4] = b[j + 3]
    BY <1>1
  <2>3. (CRLF \o CRLF)[4] = LF
    BY DEF CRLF
  <2>4. QED
    BY <1>1, <2>1, <2>2, <2>3
<1>4. \/ \E j \in 1..(Len(b) - 1) : e = j + 1 /\ SubSeq(b, j, j + 1) = <<LF, LF>>
      \/ \E j \in 1..(Len(b) - 3) : e = j + 3 /\ SubSeq(b, j, j + 3) = CRLF \o CRLF
  BY DEF HeaderEnds
<1>5. QED
  BY <1>2, <1>3, <1>4

LEMMA FirstLineFacts ==
    ASSUME NEW h \in Seq(Unit), NEW i \in 1..Len(h), h[i] = LF PROVE FirstLineEnd(h) \in 1..Len(h)
<1> DEFINE crlf == {k \in 1..(Len(h) - 1) : SubSeq(h, k, k + 1) = CRLF}
           ends == IF crlf # {} THEN crlf ELSE {k \in 1..Len(h) : h[k] = LF}
           first == CHOOSE e \in ends : \A f \in ends : e <= f
<1>1. FirstLineEnd(h) = first
  BY DEF FirstLineEnd
<1>2. Len(h) \in Nat
  OBVIOUS
<1>3. ends \subseteq 1..Len(h) /\ ends # {}
  <2>1. crlf \subseteq 1..Len(h)
    BY <1>2
  <2>2. i \in {k \in 1..Len(h) : h[k] = LF}
    OBVIOUS
  <2> HIDE DEF crlf
  <2>3. QED
    BY <2>1, <2>2
<1> HIDE DEF ends
<1>4. \E e \in ends : \A f \in ends : e <= f
  <2>1. ends \subseteq Nat
    BY <1>2, <1>3
  <2>2. QED
    BY <1>3, <2>1, LeastNat
<1>5. first \in ends
  BY <1>4
<1>6. QED
  BY <1>1, <1>3, <1>5

\* What a plain request sends on is made of the client's units and of text.
LEMMA HeaderTypes ==
    ASSUME HandshakeTypeOK, HeaderEnd(buf) # 0
    PROVE  LET h == SubSeq(buf, 1, HeaderEnd(buf))
               rest == SubSeq(buf, HeaderEnd(buf) + 1, Len(buf))
               end == FirstLineEnd(h)
               words == Texts(SubSeq(h, 1, end - 1))
               request == words[1]
               connect == Is(request, {"connect"})
               authority == IF Is(request, {"connect", "absolute"}) THEN request ELSE HostLine(h)
               host == Text[authority].host
               port == PortOf(authority, IF connect THEN 443 ELSE 80)
           IN  /\ rest \in Seq(Nat)
               /\ words # <<>> => Rewritten(request, SubSeq(h, end, Len(h))) \o rest \in Seq(Nat)
               /\ authority # 0 /\ Encodable(host, port) => EncodeAddress(host, port) \in Seq(Nat)
<1> DEFINE H == HeaderEnd(buf)
           h == SubSeq(buf, 1, H)
           rest == SubSeq(buf, H + 1, Len(buf))
           end == FirstLineEnd(h)
           words == Texts(SubSeq(h, 1, end - 1))
           request == words[1]
           connect == Is(request, {"connect"})
           authority == IF Is(request, {"connect", "absolute"}) THEN request ELSE HostLine(h)
           host == Text[authority].host
           port == PortOf(authority, IF connect THEN 443 ELSE 80)
<1>1. buf \in Seq(Unit) /\ Len(buf) \in Nat
  BY BufFacts
<1>2. H \in 0..Len(buf)
  BY <1>1, HeaderEndFacts
<1> HIDE DEF H
<1>3. h \in Seq(Unit) /\ rest \in Seq(Unit)
  BY <1>1, <1>2
<1>4. rest \in Seq(Nat)
  BY <1>3, UnitFacts
<1> HIDE DEF h, rest
<1>5. end \in 1..Len(h)
  <2>1. HeaderEnds(buf) # {}
    BY <1>1, HeaderEndFacts DEF H
  <2>2. H \in HeaderEnds(buf)
    BY <1>1, <2>1, HeaderEndFacts DEF H
  <2>3. H \in 1..Len(buf) /\ buf[H] = LF
    BY <1>1, <2>2, EndsWithLF
  <2>4. H \in 1..Len(h) /\ h[H] = LF
    BY <1>1, <2>3 DEF h
  <2>5. QED
    BY <1>3, <2>4, FirstLineFacts
<1>6. ASSUME words # <<>> PROVE Rewritten(request, SubSeq(h, end, Len(h))) \o rest \in Seq(Nat)
  <2> HIDE DEF end
  <2> DEFINE first == SubSeq(h, 1, end - 1)
             lines == SubSeq(h, end, Len(h))
  <2>1. Len(first) \in Nat
    BY <1>3, <1>5
  <2>2. words = Texts(first)
    OBVIOUS
  <2>3. lines \in Seq(Unit)
    <3>1. Len(h) \in Nat /\ end \in 1..Len(h)
      BY <1>3, <1>5
    <3>2. QED
      BY <1>3, <3>1
  <2> HIDE DEF first, lines, words
  <2>4. words \in Seq(DOMAIN Text)
    BY <2>1, <2>2, OnlySeq DEF Texts
  <2>5. request \in DOMAIN Text
    BY <1>6, <2>4
  <2> HIDE DEF request
  <2>6. Rewritten(request, lines) \in Seq(Nat)
    BY <2>3, <2>5, RewrittenSeq
  <2>7. Rewritten(request, lines) \o rest \in Seq(Nat)
    BY <1>4, <2>6
  <2>8. QED
    BY <2>7 DEF lines
<1> HIDE DEF words, request
<1>7. ASSUME authority # 0, Encodable(host, port) PROVE EncodeAddress(host, port) \in Seq(Nat)
  <2>1. authority \in DOMAIN Text
    <3>1. Len(h) \in Nat
      BY <1>3
    <3>2. CASE Is(request, {"connect", "absolute"})
      BY <3>2 DEF Is, IsText
    <3>3. CASE ~Is(request, {"connect", "absolute"})
      BY <1>7, <3>1, <3>3, HostLineIs
    <3>4. QED
      BY <3>2, <3>3
  <2> HIDE DEF authority
  <2>2. IsHost(host)
    BY <2>1, HandshakeAssumption
  <2> HIDE DEF host, port
  <2>3. QED
    BY <1>7, <2>2, AddressesAgree
<1>8. QED
  BY <1>4, <1>6, <1>7 DEF H, h, rest, words, request

LEMMA HeaderKeeps == ASSUME HandshakeInv, Header PROVE HandshakeInv'
<1> DEFINE h == SubSeq(buf, 1, HeaderEnd(buf))
           rest == SubSeq(buf, HeaderEnd(buf) + 1, Len(buf))
           end == FirstLineEnd(h)
           words == Texts(SubSeq(h, 1, end - 1))
           request == words[1]
           connect == Is(request, {"connect"})
           authority == IF Is(request, {"connect", "absolute"}) THEN request ELSE HostLine(h)
           host == Text[authority].host
           port == PortOf(authority, IF connect THEN 443 ELSE 80)
           rewritten == Rewritten(request, SubSeq(h, end, Len(h))) \o rest
<1>1. /\ rest \in Seq(Nat)
      /\ words # <<>> => rewritten \in Seq(Nat)
      /\ authority # 0 /\ Encodable(host, port) => EncodeAddress(host, port) \in Seq(Nat)
  BY HeaderTypes DEF HandshakeInv, Header
<1>2. \/ Fails("400") \/ Fails("none")
      \/ /\ words # <<>> /\ authority # 0 /\ Encodable(host, port)
         /\ dst' = EncodeAddress(host, port)
         /\ leftover' = IF connect THEN rest ELSE rewritten
         /\ isConnect' = connect
         /\ stage' = "done"
         /\ Stay(<<buf, replies, replySent>>)
  BY DEF Header
<1> HIDE DEF words, connect, authority, host, port, rest, rewritten
<1>3. CASE Fails("400") \/ Fails("none")
  BY <1>3, FailsKeeps DEF Codes
<1>4. CASE /\ words # <<>> /\ authority # 0 /\ Encodable(host, port)
           /\ dst' = EncodeAddress(host, port)
           /\ leftover' = IF connect THEN rest ELSE rewritten
           /\ isConnect' = connect
           /\ stage' = "done"
           /\ Stay(<<buf, replies, replySent>>)
  <2>1. dst' \in Seq(Nat) /\ leftover' \in Seq(Nat)
    BY <1>1, <1>4
  <2>2. isConnect' \in BOOLEAN
    BY <1>4 DEF connect, Is
  <2>3. HandshakeTypeOK'
    BY <1>4, <2>1, <2>2 DEF HandshakeInv, HandshakeTypeOK, Stay
  <2>4. Stages'
    BY <1>4 DEF Stages
  <2>5. QED
    BY <2>3, <2>4 DEF HandshakeInv
<1>5. QED
  BY <1>2, <1>3, <1>4

LEMMA HandshakeStepKeeps == ASSUME HandshakeInv, HandshakeStep PROVE HandshakeInv'
<1>1. CASE \E n \in 1..Len(wire) : Chunk(n)
  <2>1. PICK n \in 1..Len(wire) : Chunk(n)
    BY <1>1
  <2>2. n \in Nat
    BY WireFacts DEF HandshakeInv
  <2>3. QED
    BY <2>1, <2>2, ChunkKeeps
<1>2. CASE Abandon
  BY <1>2, FailsKeeps DEF Abandon
<1>3. CASE TooLarge
  BY <1>3, FailsKeeps DEF TooLarge, Codes
<1>4. QED
  BY <1>1, <1>2, <1>3, VersionKeeps, MethodsKeeps, RequestKeeps, NameLengthKeeps, AddressKeeps, HeaderKeeps
     DEF HandshakeStep

LEMMA AnswerKeeps == ASSUME HandshakeInv, NEW says \in Codes \cup {""}, Answer(says) PROVE HandshakeInv'
<1>1. replies' \in Seq(Codes)
  <2>1. replies \in Seq(Codes)
    BY DEF HandshakeInv, HandshakeTypeOK, Codes
  <2>2. replies' = IF says = "" THEN replies ELSE Append(replies, says)
    BY DEF Answer
  <2>3. \A code \in Codes : Append(replies, code) \in Seq(Codes)
    BY <2>1, AppendProperties
  <2>4. CASE says = ""
    BY <2>1, <2>2, <2>4
  <2>5. CASE says \in Codes
    <3>1. says # ""
      BY <2>5 DEF Codes
    <3>2. QED
      BY <2>2, <2>3, <2>5, <3>1
  <2>6. QED
    BY <2>4, <2>5
<1>2. HandshakeTypeOK'
  BY <1>1 DEF HandshakeInv, HandshakeTypeOK, Answer, Codes
<1>3. Stages'
  BY DEF Answer, HandshakeInv, Stages
<1>4. QED
  BY <1>2, <1>3 DEF HandshakeInv

-----------------------------------------------------------------------------
(* The handshake and the tunnel *)

\* What of the tunnel the handshake depends on.
TunnelInv ==
    /\ tunnel \in {"idle", "header", "leftover", "fin"} /\ sent \in Seq(Nat)
    /\ tunnel # "idle" => stage = "done"
    /\ tunnel \in {"idle", "header"} => asked = <<>> /\ sent = <<>>
    /\ tunnel \in {"leftover", "fin"} => asked = dst
    /\ tunnel = "fin" => given = Len(wire)

LinkInv == HandshakeInv /\ TunnelInv

LEMMA LinkStarts == ProxyInit => LinkInv
<1> SUFFICES ASSUME ProxyInit PROVE LinkInv
  OBVIOUS
<1>1. HandshakeInv
  BY HandshakeStarts DEF ProxyInit
<1>2. tunnel = "idle" /\ sent = <<>> /\ asked = <<>>
  BY DEF ProxyInit, FramingInit
<1>3. TunnelInv
  BY <1>2 DEF TunnelInv
<1>4. QED
  BY <1>1, <1>3 DEF LinkInv

\* The steps of either side leave the tunnel's upstream alone.
LEMMA FramingLeaves == ASSUME FramingStep \/ TakeNonce PROVE UNCHANGED <<tunnel, sent, asked>>
<1> USE DEF clientVars
<1>1. ASSUME SendFrame PROVE UNCHANGED <<tunnel, sent, asked>>
  BY <1>1 DEF SendFrame
<1>2. ASSUME OpenHeader PROVE UNCHANGED <<tunnel, sent, asked>>
  BY <1>2 DEF OpenHeader, ServerEnds, Ends
<1>3. ASSUME Deadline \/ Dial \/ ServerFin \/ TornDown PROVE UNCHANGED <<tunnel, sent, asked>>
  BY <1>3 DEF Deadline, Dial, ServerFin, TornDown, ServerEnds, Ends
<1>4. ASSUME OpenFrame PROVE UNCHANGED <<tunnel, sent, asked>>
  BY <1>4 DEF OpenFrame, ServerEnds, Ends
<1>5. ASSUME NEW n, ReadReply(n) \/ Receive(n) PROVE UNCHANGED <<tunnel, sent, asked>>
  BY <1>5 DEF ReadReply, Receive
<1>6. ASSUME SealReply \/ Lost PROVE UNCHANGED <<tunnel, sent, asked>>
  BY <1>6 DEF SealReply, Lost
<1>7. ASSUME TakeNonce \/ OpenLength \/ OpenPayload \/ Finish PROVE UNCHANGED <<tunnel, sent, asked>>
  BY <1>7 DEF TakeNonce, OpenLength, OpenPayload, Finish, Breaks, Decodes
<1>8. QED
  BY <1>1, <1>2, <1>3, <1>4, <1>5, <1>6, <1>7 DEF FramingStep

LEMMA HandshakeSame == ASSUME HandshakeInv, UNCHANGED handshakeVars PROVE HandshakeInv'
<1>1. UNCHANGED <<wire, given, type, stage, buf, replies, dst, leftover, isConnect, replySent>>
  BY DEF handshakeVars
<1>2. HandshakeTypeOK'
  BY <1>1 DEF HandshakeInv, HandshakeTypeOK
<1>3. Stages'
  BY <1>1 DEF HandshakeInv, Stages
<1>4. QED
  BY <1>2, <1>3 DEF HandshakeInv

\* Every step of the handshake is one before it is done.
LEMMA StepIsBefore ==
    ASSUME HandshakeStep
    PROVE  /\ stage # "done" /\ wire' = wire
           /\ \/ UNCHANGED <<given, type>>
              \/ \E n \in 1..Len(wire) : Chunk(n)
<1>1. CASE \E n \in 1..Len(wire) : Chunk(n)
  BY <1>1 DEF Chunk, Waits
<1>2. CASE Abandon
  BY <1>2 DEF Abandon, Waits, Fails, Stay
<1>3. CASE Version \/ Methods \/ Request \/ NameLength \/ Address
  BY <1>3 DEF Version, Methods, Request, NameLength, Address, Has, Fails, Goes, Stay
<1>4. CASE TooLarge
  BY <1>4 DEF TooLarge, Fails, Stay
<1>5. CASE Header
  BY <1>5 DEF Header, Fails, Stay
<1>6. QED
  BY <1>1, <1>2, <1>3, <1>4, <1>5 DEF HandshakeStep

LEMMA LinkKept == ASSUME LinkInv, [ProxyNext]_proxyVars PROVE LinkInv'
<1>1. CASE HandshakeStep /\ UNCHANGED framingVars
  <2>1. HandshakeInv'
    BY <1>1, HandshakeStepKeeps DEF LinkInv
  <2>2. UNCHANGED <<tunnel, sent, asked>>
    BY <1>1 DEF framingVars, clientVars
  <2>3. tunnel = "idle"
    BY <1>1, StepIsBefore DEF LinkInv, TunnelInv
  <2>4. TunnelInv'
    BY <2>2, <2>3 DEF LinkInv, TunnelInv
  <2>5. QED
    BY <2>1, <2>4 DEF LinkInv
<1>2. CASE (FramingStep \/ UNCHANGED framingVars) /\ UNCHANGED handshakeVars
  <2>1. HandshakeInv'
    BY <1>2, HandshakeSame DEF LinkInv
  <2>2. UNCHANGED <<tunnel, sent, asked>>
    BY <1>2, FramingLeaves DEF framingVars, clientVars
  <2>3. TunnelInv'
    BY <1>2, <2>2 DEF LinkInv, TunnelInv, handshakeVars
  <2>4. QED
    BY <2>1, <2>3 DEF LinkInv
<1>3. CASE Prelude
  <2>1. stage = "done" /\ UNCHANGED handshakeVars /\ (SendNonce \/ SendHeader(dst, leftover))
    BY <1>3 DEF Prelude
  <2>2. HandshakeInv'
    BY <2>1, HandshakeSame DEF LinkInv
  <2>3. leftover \in Seq(Nat)
    BY DEF LinkInv, HandshakeInv, HandshakeTypeOK
  <2>4. CASE SendHeader(dst, leftover)
    <3>1. tunnel' = "leftover" /\ sent' = leftover /\ asked' = dst
      BY <2>4 DEF SendHeader
    <3>2. TunnelInv'
      BY <2>1, <2>3, <3>1 DEF TunnelInv, handshakeVars
    <3>3. QED
      BY <2>2, <3>2 DEF LinkInv
  <2>5. CASE SendNonce
    <3>1. tunnel = "idle" /\ tunnel' = "header" /\ UNCHANGED <<sent, asked>>
      BY <2>5 DEF SendNonce
    <3>2. TunnelInv'
      BY <2>1, <3>1 DEF LinkInv, TunnelInv, handshakeVars
    <3>3. QED
      BY <2>2, <3>2 DEF LinkInv
  <2>6. QED
    BY <2>1, <2>4, <2>5
<1>4. CASE ReadClient
  <2>1. PICK n \in 1..(Len(wire) - given) :
            /\ UpstreamReads(SubSeq(wire, given + 1, given + n))
            /\ given' = given + n
            /\ UNCHANGED <<wire, type, stage, buf, replies, dst, leftover, isConnect, replySent>>
    BY <1>4 DEF ReadClient
  <2> DEFINE chunk == SubSeq(wire, given + 1, given + n)
  <2>2. wire \in Seq(Unit) /\ Len(wire) \in Nat /\ given \in 0..Len(wire)
    BY WireFacts DEF LinkInv, HandshakeInv
  <2>3. chunk \in Seq(Nat)
    <3>1. chunk \in Seq(Unit)
      BY <2>2
    <3>2. QED
      BY <3>1, UnitFacts
  <2>4. tunnel = "leftover" /\ tunnel' = tunnel /\ asked' = asked /\ sent' = sent \o chunk
    BY <2>1 DEF UpstreamReads, TunnelMayRead
  <2> HIDE DEF chunk
  <2>5. sent' \in Seq(Nat)
    BY <2>3, <2>4 DEF LinkInv, TunnelInv
  <2>6. TunnelInv'
    BY <2>1, <2>4, <2>5 DEF LinkInv, TunnelInv
  <2>7. given' \in 0..Len(wire')
    BY <2>1, <2>2
  <2>8. HandshakeTypeOK'
    BY <2>1, <2>7 DEF LinkInv, HandshakeInv, HandshakeTypeOK
  <2>9. Stages'
    BY <2>1, <2>4 DEF LinkInv, TunnelInv, Stages
  <2>10. QED
    BY <2>6, <2>8, <2>9 DEF LinkInv, HandshakeInv
<1>5. CASE ClientCloses
  <2>1. given = Len(wire) /\ UNCHANGED handshakeVars /\ tunnel = "leftover" /\ tunnel' = "fin"
        /\ UNCHANGED <<sent, asked>>
    BY <1>5 DEF ClientCloses, TunnelFin, TunnelMayRead
  <2>2. HandshakeInv'
    BY <2>1, HandshakeSame DEF LinkInv
  <2>3. TunnelInv'
    BY <2>1 DEF LinkInv, TunnelInv, handshakeVars
  <2>4. QED
    BY <2>2, <2>3 DEF LinkInv
<1>6. CASE NonceTaken \/ Failed
  <2>1. UNCHANGED <<tunnel, sent, asked>>
    BY <1>6, FramingLeaves DEF NonceTaken, Failed, framingVars, clientVars
  <2>2. \E says \in Codes \cup {""} : Answer(says)
    BY <1>6 DEF NonceTaken, Failed, SendSuccess, SendFailure, Codes
  <2>3. PICK says \in Codes \cup {""} : Answer(says)
    BY <2>2
  <2>4. HandshakeInv'
    BY <2>3, AnswerKeeps DEF LinkInv
  <2>5. UNCHANGED <<wire, given, stage, dst>>
    BY <2>3 DEF Answer
  <2>6. TunnelInv'
    BY <2>1, <2>5 DEF LinkInv, TunnelInv
  <2>7. QED
    BY <2>4, <2>6 DEF LinkInv
<1>7. QED
  BY <1>1, <1>2, <1>3, <1>4, <1>5, <1>6 DEF ProxyNext, proxyVars

-----------------------------------------------------------------------------
(* The invariant of the clients *)

\* Who is at the other end.
Client(c) == c \in Clients /\ c.protocol # "other" /\ Bytes(c) = wire /\ type \in {"auto", "unknown", c.protocol}

Acceptable == {"no_auth", "success", "failure"}

\* A SOCKS5 client: what was read, first with the greeting and then without.
GreetingLength(c) == 2 + Len(c.methods)

SocksInv(c) ==
    /\ stage \in {"first", "greeting", "methods"} => buf = SubSeq(wire, 1, given)
    /\ stage \in {"request", "name", "address"} =>
           /\ \E i \in DOMAIN c.methods : c.methods[i] = 0
           /\ given >= GreetingLength(c) /\ buf = SubSeq(wire, GreetingLength(c) + 1, given)

HttpInv(c) == stage = "header" => buf = SubSeq(wire, 1, given)

Bare(c) == Plain(c) /\ PassedOn(c.lines) = <<>>

\* What the tunnel was given, or took.
Taken == IF tunnel \in {"idle", "header"} THEN leftover ELSE sent

Says(c) == Right(c) => \A i \in DOMAIN replies : replies[i] \in Acceptable

Served(c) ==
    stage = "done" =>
        /\ ParseBrookDestination(dst) = Asks(c)
        /\ ~Bare(c) => Taken \o SubSeq(wire, given + 1, Len(wire)) = Upload(c)

ClientInv ==
    \A c \in Clients : Client(c) =>
        /\ c.protocol = "socks5" => SocksInv(c)
        /\ c.protocol = "http" => HttpInv(c)
        /\ Says(c) /\ Served(c)

ProxyInv == LinkInv /\ ClientInv

-----------------------------------------------------------------------------
(* What the clients send *)

LEMMA SuffixIs ==
    ASSUME NEW X, NEW a \in Seq(X), NEW b \in Seq(X)
    PROVE  SubSeq(a \o b, Len(a) + 1, Len(a \o b)) = b
<1> DEFINE n == Len(a)
<1>1. n \in 0..Len(a) /\ n \in Nat
  OBVIOUS
<1> HIDE DEF n
<1>2. SubSeq(a \o b, n + 1, Len(a \o b)) = SubSeq(a, n + 1, Len(a)) \o b
  BY <1>1, TakeFacts
<1>3. SubSeq(a, n + 1, Len(a)) = <<>>
  BY DEF n
<1>4. <<>> \o b = b
  OBVIOUS
<1>5. QED
  BY <1>2, <1>3, <1>4 DEF n

\* A message before the body, wherever the wire is read.
BodyBehind(W, H, M, B) ==
    /\ W \in Seq(Nat) /\ H \in Nat /\ Len(W) = H + Len(B)
    /\ \A i \in 1..H : W[i] = M[i]
    /\ SubSeq(W, H + 1, Len(W)) = B

LEMMA BodyIsBehind ==
    ASSUME NEW M \in Seq(Nat), NEW B \in Seq(Nat) PROVE BodyBehind(M \o B, Len(M), M, B)
<1>1. /\ M \o B \in Seq(Nat) /\ Len(M \o B) = Len(M) + Len(B)
      /\ \A i \in 1..Len(M) : (M \o B)[i] = M[i]
  BY JoinAt
<1>2. SubSeq(M \o B, Len(M) + 1, Len(M \o B)) = B
  BY SuffixIs
<1>3. QED
  BY <1>1, <1>2 DEF BodyBehind

\* A SOCKS5 client's greeting of G octets, its request with the destination D and
\* its body.
SocksLaid(c, W, G, D) ==
    /\ W \in Seq(Nat) /\ G = 2 + Len(c.methods) /\ G \in Nat /\ Len(D) \in Nat
    /\ BodyBehind(W, G + 3 + Len(D), SocksMessage(c), c.body)
    /\ Len(SocksMessage(c)) = G + 3 + Len(D)
    /\ W[1] = 5 /\ W[2] = Len(c.methods)
    /\ \A i \in 1..Len(c.methods) : W[2 + i] = c.methods[i]
    /\ W[G + 1] = c.version /\ W[G + 2] = c.command
    /\ \A i \in 1..Len(D) : W[G + 3 + i] = D[i]

LEMMA OctetsAre == Octet \subseteq Nat /\ Word \subseteq Nat /\ \A s \in Seq(Octet) : s \in Seq(Nat)
<1>1. Octet \subseteq Nat /\ Word \subseteq Nat
  BY DEF Octet, Word
<1>2. QED
  BY <1>1, SeqMonotonic

Socks(c) == c \in Clients /\ c.protocol = "socks5"

LEMMA SocksFacts ==
    ASSUME NEW c, Socks(c)
    PROVE  /\ c.methods \in Seq(Nat) /\ Len(c.methods) \in Nat /\ c.version \in Nat /\ c.command \in Nat
           /\ c.body \in Seq(Nat) /\ Bytes(c) = SocksMessage(c) \o c.body
           /\ c.to.type \in Nat /\ c.to.host \in Seq(Nat) /\ c.to.port \in Nat /\ IsDestination(c.to)
           /\ LaidOut(c.to, DestinationBytes(c.to), HostAt(c.to), Len(c.to.host))
<1>1. /\ c.methods \in Seq(Octet) /\ c.version \in Octet /\ c.command \in Octet /\ IsDestination(c.to)
      /\ c.body \in Seq(Unit)
  BY ClientsAssumption DEF Socks
<1>2. c.to.type \in Octet /\ c.to.host \in Seq(Octet) /\ c.to.port \in Word
  BY <1>1 DEF IsDestination
<1>3. c.methods \in Seq(Nat) /\ c.body \in Seq(Nat) /\ c.to.host \in Seq(Nat)
  BY <1>1, <1>2, OctetsAre, UnitFacts
<1>4. c.version \in Nat /\ c.command \in Nat /\ c.to.type \in Nat /\ c.to.port \in Nat
  BY <1>1, <1>2, OctetsAre
<1>5. LaidOut(c.to, DestinationBytes(c.to), HostAt(c.to), Len(c.to.host))
  BY <1>3, <1>4, DestinationFacts
<1>6. Bytes(c) = SocksMessage(c) \o c.body
  BY DEF Bytes, MessageOf, Socks
<1>7. Len(c.methods) \in Nat
  BY <1>3
<1>8. QED
  BY <1>1, <1>3, <1>4, <1>5, <1>6, <1>7

LEMMA SocksIsLaid == ASSUME NEW c, Socks(c) PROVE SocksLaid(c, Bytes(c), GreetingLength(c), DestinationBytes(c.to))
<1> DEFINE D == DestinationBytes(c.to)
           n == Len(c.methods)
           open == <<5, n>>
           ask == <<c.version, c.command, 0>>
           a == open \o c.methods
           b == a \o ask
           M == b \o D
<1>1. /\ c.methods \in Seq(Nat) /\ n \in Nat /\ c.version \in Nat /\ c.command \in Nat
      /\ c.body \in Seq(Nat) /\ Bytes(c) = SocksMessage(c) \o c.body
  BY SocksFacts
<1>2. D \in Seq(Nat) /\ Len(D) \in Nat
  <2>1. LaidOut(c.to, D, HostAt(c.to), Len(c.to.host))
    BY SocksFacts
  <2> HIDE DEF D
  <2>2. D \in Seq(Nat)
    BY <2>1 DEF LaidOut
  <2>3. QED
    BY <2>2
<1>3. open \in Seq(Nat) /\ Len(open) = 2 /\ open[1] = 5 /\ open[2] = n
  BY <1>1
<1>4. ask \in Seq(Nat) /\ Len(ask) = 3 /\ ask[1] = c.version /\ ask[2] = c.command
  BY <1>1
<1>5. SocksMessage(c) = M
  BY DEF SocksMessage
<1>6. \A P \in Seq(Nat), Q \in Seq(Nat) :
          /\ P \o Q \in Seq(Nat) /\ Len(P \o Q) = Len(P) + Len(Q)
          /\ \A i \in 1..Len(P) : (P \o Q)[i] = P[i]
          /\ \A i \in 1..Len(Q) : (P \o Q)[Len(P) + i] = Q[i]
  BY JoinAt
<1> HIDE DEF D, open, ask
<1>7. /\ a \in Seq(Nat) /\ Len(a) = Len(open) + Len(c.methods)
      /\ \A i \in 1..Len(open) : a[i] = open[i]
      /\ \A i \in 1..Len(c.methods) : a[Len(open) + i] = c.methods[i]
  BY <1>1, <1>3, <1>6
<1> HIDE DEF a
<1>8. /\ b \in Seq(Nat) /\ Len(b) = Len(a) + Len(ask)
      /\ \A i \in 1..Len(a) : b[i] = a[i]
      /\ \A i \in 1..Len(ask) : b[Len(a) + i] = ask[i]
  BY <1>4, <1>7, <1>6
<1> HIDE DEF b
<1>9. /\ M \in Seq(Nat) /\ Len(M) = Len(b) + Len(D)
      /\ \A i \in 1..Len(b) : M[i] = b[i]
      /\ \A i \in 1..Len(D) : M[Len(b) + i] = D[i]
  BY <1>2, <1>8, <1>6
<1> HIDE DEF M
<1> DEFINE G == 2 + n
           H == G + 3 + Len(D)
           W == M \o c.body
<1>10. BodyBehind(W, Len(M), M, c.body)
  BY <1>1, <1>9, BodyIsBehind
<1> HIDE DEF W, n
<1>11. n = Len(c.methods)
  BY DEF n
<1>12. Len(a) = G /\ Len(b) = G + 3 /\ Len(M) = H /\ G \in Nat /\ H \in Nat
  BY <1>1, <1>2, <1>3, <1>4, <1>7, <1>8, <1>9, <1>11
<1>13. \A i \in 1..G : i \in 1..(G + 3) /\ i \in 1..H
  BY <1>2, <1>12
<1>14. \A i \in 1..G : W[i] = a[i]
  BY <1>8, <1>9, <1>10, <1>12, <1>13 DEF BodyBehind
<1>15. W[1] = 5 /\ W[2] = n
  <2>1. 1 \in 1..G /\ 2 \in 1..G /\ 1 \in 1..2 /\ 2 \in 1..2
    BY <1>1
  <2>2. QED
    BY <1>3, <1>7, <1>14, <2>1
<1>16. \A i \in 1..n : W[2 + i] = c.methods[i]
  <2>1. \A i \in 1..n : 2 + i \in 1..G
    BY <1>1
  <2>2. QED
    BY <1>3, <1>7, <1>14, <1>11, <2>1
<1>17. \A k \in 1..(G + 3) : k \in 1..H
  BY <1>2, <1>12
<1>18. \A k \in 1..(G + 3) : W[k] = b[k]
  BY <1>9, <1>10, <1>12, <1>17 DEF BodyBehind
<1>19. W[G + 1] = c.version /\ W[G + 2] = c.command
  <2>1. G + 1 \in 1..(G + 3) /\ G + 2 \in 1..(G + 3) /\ 1 \in 1..3 /\ 2 \in 1..3
    BY <1>12
  <2>2. QED
    BY <1>4, <1>8, <1>12, <1>18, <2>1
<1>20. \A i \in 1..Len(D) : W[G + 3 + i] = D[i]
  <2>1. \A i \in 1..Len(D) : G + 3 + i \in 1..H
    BY <1>2, <1>12
  <2>2. QED
    BY <1>9, <1>10, <1>12, <2>1 DEF BodyBehind
<1>21. W = Bytes(c) /\ GreetingLength(c) = G /\ W \in Seq(Nat)
  BY <1>1, <1>5, <1>10 DEF W, GreetingLength, n, BodyBehind
<1>22. SocksLaid(c, W, G, D)
  BY <1>2, <1>10, <1>12, <1>15, <1>16, <1>19, <1>20, <1>21, <1>5, <1>11 DEF SocksLaid
<1>23. QED
  BY <1>21, <1>22 DEF D

-----------------------------------------------------------------------------
(* A SOCKS5 client is understood *)

LEMMA PartIs ==
    ASSUME NEW X, NEW S \in Seq(X), NEW a \in Nat, NEW e \in Nat, a <= e, e <= Len(S)
    PROVE  /\ SubSeq(S, a + 1, e) \in Seq(X) /\ Len(SubSeq(S, a + 1, e)) = e - a
           /\ \A i \in 1..(e - a) : SubSeq(S, a + 1, e)[i] = S[a + i]
<1>1. QED
  OBVIOUS

\* What was read grows by what comes next.
LEMMA BufGrows ==
    ASSUME HandshakeTypeOK, NEW n \in Nat, Chunk(n), NEW a \in Nat, a <= given, buf = SubSeq(wire, a + 1, given)
    PROVE  buf' = SubSeq(wire', a + 1, given') /\ given' = given + n /\ wire' = wire
<1>1. wire \in Seq(Unit) /\ Len(wire) \in Nat /\ given \in 0..Len(wire)
  BY WireFacts
<1>2. /\ n \in 1..(Len(wire) - given) /\ given' = given + n /\ wire' = wire
      /\ buf' = buf \o SubSeq(wire, given + 1, given + n)
  BY DEF Chunk
<1>3. SubSeq(wire, a + 1, given) \o SubSeq(wire, given + 1, given + n) = SubSeq(wire, a + 1, given + n)
  <2>1. a + 1 \in 1..(Len(wire) + 1) /\ given \in ((a + 1) - 1)..Len(wire) /\ given + n \in given..Len(wire)
    BY <1>1, <1>2
  <2>2. QED
    BY <1>1, <2>1, ConcatAdjacentSubSeq
<1>4. QED
  BY <1>2, <1>3

\* A step that fails tells a client nothing or that its message is not right.
LEMMA FailsServes ==
    ASSUME HandshakeTypeOK, NEW c, NEW code, code = "none" \/ ~Right(c), Fails(code), Says(c)
    PROVE  SocksInv(c)' /\ HttpInv(c)' /\ Says(c)' /\ Served(c)'
<1>1. stage' = "failed"
  BY DEF Fails
<1>2. code = "none" => replies' = replies
  BY DEF Fails
<1>3. QED
  BY <1>1, <1>2 DEF SocksInv, HttpInv, Says, Served

LEMMA ChunkServes ==
    ASSUME HandshakeInv, NEW c, NEW n \in Nat, Chunk(n), Says(c)
    PROVE  Says(c)' /\ Served(c)' /\ stage' # "done"
<1>1. replies' = replies /\ stage' # "done"
  BY DEF Chunk, Waits
<1>2. QED
  BY <1>1 DEF Says, Served

\* The part of the wire a SOCKS5 client's buffer shows.
LEMMA SocksBuf ==
    ASSUME HandshakeInv, NEW c, Socks(c), Client(c), SocksInv(c), NEW G, G = GreetingLength(c)
    PROVE  /\ wire \in Seq(Nat) /\ G \in Nat /\ given \in Nat /\ given <= Len(wire) /\ Len(wire) \in Nat
           /\ SocksLaid(c, wire, G, DestinationBytes(c.to))
           /\ stage \in {"first", "greeting", "methods"} =>
                  Len(buf) = given /\ \A i \in 1..given : buf[i] = wire[i]
           /\ stage \in {"request", "name", "address"} =>
                  given >= G /\ Len(buf) = given - G /\ \A i \in 1..(given - G) : buf[i] = wire[G + i]
<1>1. SocksLaid(c, wire, G, DestinationBytes(c.to))
  BY SocksIsLaid DEF Client
<1>2. wire \in Seq(Nat) /\ G \in Nat
  BY <1>1 DEF SocksLaid
<1>3. given \in Nat /\ given <= Len(wire) /\ Len(wire) \in Nat
  BY WireFacts DEF HandshakeInv
<1>4. ASSUME stage \in {"first", "greeting", "methods"}
      PROVE  Len(buf) = given /\ \A i \in 1..given : buf[i] = wire[i]
  <2>1. buf = SubSeq(wire, 1, given)
    BY <1>4 DEF SocksInv
  <2>2. QED
    BY <1>2, <1>3, <2>1
<1>5. ASSUME stage \in {"request", "name", "address"}
      PROVE  given >= G /\ Len(buf) = given - G /\ \A i \in 1..(given - G) : buf[i] = wire[G + i]
  <2>1. given >= G /\ buf = SubSeq(wire, G + 1, given)
    BY <1>5 DEF SocksInv
  <2>2. G <= given
    BY <1>2, <1>3, <2>1
  <2>3. /\ Len(SubSeq(wire, G + 1, given)) = given - G
        /\ \A i \in 1..(given - G) : SubSeq(wire, G + 1, given)[i] = wire[G + i]
    <3>1. \A S \in Seq(Nat) : \A a, e \in Nat : a <= e /\ e <= Len(S) =>
              /\ Len(SubSeq(S, a + 1, e)) = e - a
              /\ \A i \in 1..(e - a) : SubSeq(S, a + 1, e)[i] = S[a + i]
      BY PartIs
    <3>2. QED
      BY <1>2, <1>3, <2>2, <3>1
  <2>4. QED
    BY <2>1, <2>3
<1>6. QED
  BY <1>1, <1>2, <1>3, <1>4, <1>5

LEMMA SocksRight ==
    ASSUME NEW c, Socks(c), Right(c)
    PROVE  /\ \E i \in DOMAIN c.methods : c.methods[i] = 0
           /\ c.version = 5 /\ c.command = 1
           /\ c.to.type \in {IPv4, IPv6} \/ (c.to.type = Domain /\ c.to.host # <<>>)
<1>1. SocksAsks(c) # Refused
  BY DEF Right, Asks, Socks
<1>2. QED
  BY <1>1 DEF SocksAsks

LEMMA SocksChunk ==
    ASSUME HandshakeInv, NEW c, Socks(c), Client(c), SocksInv(c), NEW n \in Nat, Chunk(n) PROVE SocksInv(c)'
<1>1. given \in Nat /\ n \in Nat /\ given' = given + n /\ wire' = wire
  BY WireFacts DEF HandshakeInv, Chunk
<1>2. CASE stage \in {"first", "greeting", "methods"}
  <2>1. buf = SubSeq(wire, 0 + 1, given) /\ 0 <= given
    BY <1>1, <1>2 DEF SocksInv
  <2>2. buf' = SubSeq(wire', 0 + 1, given')
    BY <2>1, BufGrows DEF HandshakeInv
  <2>3. stage' \notin {"request", "name", "address"}
    BY <1>2 DEF Chunk
  <2>4. QED
    BY <2>2, <2>3 DEF SocksInv
<1>3. CASE stage \in {"request", "name", "address"}
  <2> DEFINE G == GreetingLength(c)
  <2>1. G \in Nat
    BY SocksFacts DEF GreetingLength
  <2>2. G <= given /\ buf = SubSeq(wire, G + 1, given) /\ \E i \in DOMAIN c.methods : c.methods[i] = 0
    BY <1>1, <1>3, <2>1 DEF SocksInv
  <2> HIDE DEF G
  <2>3. buf' = SubSeq(wire', G + 1, given')
    BY <2>1, <2>2, BufGrows DEF HandshakeInv
  <2>4. stage' = stage
    BY <1>3 DEF Chunk
  <2>5. given' >= G
    BY <1>1, <2>1, <2>2
  <2>6. QED
    BY <1>3, <2>2, <2>3, <2>4, <2>5 DEF SocksInv, G
<1>4. CASE stage = "header"
  BY <1>4 DEF Chunk, SocksInv
<1>5. QED
  BY <1>2, <1>3, <1>4 DEF Chunk, Waits

LEMMA SocksMethods ==
    ASSUME HandshakeInv, NEW c, Socks(c), Client(c), SocksInv(c), Methods, Says(c)
    PROVE  SocksInv(c)' /\ Says(c)' /\ Served(c)'
<1> DEFINE G == GreetingLength(c)
           n == Len(c.methods)
<1>1. /\ wire \in Seq(Nat) /\ G \in Nat /\ given \in Nat /\ given <= Len(wire)
      /\ SocksLaid(c, wire, G, DestinationBytes(c.to))
      /\ stage \in {"first", "greeting", "methods"} => Len(buf) = given /\ \A i \in 1..given : buf[i] = wire[i]
  BY SocksBuf
<1>2. stage = "methods" /\ Len(buf) >= 2 + buf[2] /\ Len(buf) >= 2
  BY DEF Methods, Has, Need, HandshakeInv, Stages
<1>3. wire[2] = n /\ (\A i \in 1..n : wire[2 + i] = c.methods[i]) /\ G = 2 + n /\ n \in Nat
  <2>1. n \in Nat
    BY SocksFacts
  <2> HIDE DEF G
  <2>2. QED
    BY <1>1, <2>1 DEF SocksLaid
<1> HIDE DEF n
<1>4. buf[2] = n /\ given >= G /\ \A i \in 1..given : buf[i] = wire[i]
  <2>1. 2 \in 1..given
    BY <1>1, <1>2
  <2>2. buf[2] = n
    BY <1>1, <1>2, <1>3, <2>1
  <2> HIDE DEF G
  <2>3. QED
    BY <1>1, <1>2, <1>3, <2>2
<1> HIDE DEF G
<1>5. DOMAIN c.methods = 1..n
  BY SocksFacts DEF n
<1>6. (\E i \in 3..(2 + buf[2]) : buf[i] = 0) <=> \E i \in DOMAIN c.methods : c.methods[i] = 0
  <2>1. ASSUME NEW i \in 3..(2 + n), buf[i] = 0 PROVE \E k \in 1..n : c.methods[k] = 0
    <3>1. i - 2 \in 1..n /\ 2 + (i - 2) = i /\ i \in 1..given
      BY <1>1, <1>3, <1>4
    <3>2. c.methods[i - 2] = 0
      BY <1>3, <1>4, <2>1, <3>1
    <3>3. QED
      BY <3>1, <3>2
  <2>2. ASSUME NEW k \in 1..n, c.methods[k] = 0 PROVE \E i \in 3..(2 + n) : buf[i] = 0
    <3>1. 2 + k \in 3..(2 + n) /\ 2 + k \in 1..given
      BY <1>1, <1>3, <1>4
    <3>2. buf[2 + k] = 0
      BY <1>3, <1>4, <2>2, <3>1
    <3>3. QED
      BY <3>1, <3>2
  <2>3. QED
    BY <1>4, <1>5, <2>1, <2>2
<1>7. CASE Fails("none")
  BY <1>7, FailsServes DEF HandshakeInv
<1>8. CASE ~(\E i \in 3..(2 + buf[2]) : buf[i] = 0) /\ Fails("no_acceptable_method")
  <2>1. ~Right(c)
    BY <1>6, <1>8, SocksRight
  <2>2. QED
    BY <1>8, <2>1, FailsServes DEF HandshakeInv
<1>9. CASE /\ \E i \in 3..(2 + buf[2]) : buf[i] = 0
           /\ replies' = Append(replies, "no_auth")
           /\ buf' = SubSeq(buf, 3 + buf[2], Len(buf))
           /\ stage' = "request"
           /\ Stay(<<dst, leftover, isConnect, replySent>>)
  <2>1. wire' = wire /\ given' = given
    BY <1>9 DEF Stay
  <2>2. buf = SubSeq(wire, 0 + 1, given)
    BY <1>2 DEF SocksInv
  <2>3. SubSeq(buf, G + 1, Len(buf)) = SubSeq(wire, (0 + G) + 1, given)
    <3>1. 0 \in Nat /\ 0 <= given /\ G \in 0..(given - 0)
      BY <1>1, <1>4
    <3>2. QED
      BY <1>1, <2>2, <3>1, SliceFacts
  <2>4. 3 + buf[2] = G + 1 /\ 0 + G = G
    BY <1>1, <1>3, <1>4
  <2>5. buf' = SubSeq(wire, G + 1, given)
    BY <1>9, <2>3, <2>4
  <2>6. SocksInv(c)'
    BY <1>4, <1>6, <1>9, <2>1, <2>5 DEF SocksInv, G
  <2>7. Says(c)'
    <3>1. replies \in Seq(Codes) /\ Len(replies) \in Nat
      BY DEF HandshakeInv, HandshakeTypeOK, Codes
    <3>2. \A i \in DOMAIN replies' : (i \in DOMAIN replies /\ replies'[i] = replies[i]) \/ replies'[i] = "no_auth"
      BY <1>9, <3>1
    <3>3. QED
      BY <3>2 DEF Says, Acceptable
  <2>8. Served(c)'
    BY <1>9 DEF Served
  <2>9. QED
    BY <2>6, <2>7, <2>8
<1>10. QED
  BY <1>7, <1>8, <1>9 DEF Methods

\* The request as the buffer shows it, once it is there.
LEMMA SocksRequestIs ==
    ASSUME HandshakeInv, NEW c, Socks(c), Client(c), SocksInv(c), stage \in {"request", "name", "address"},
           Len(buf) >= 4
    PROVE  /\ buf[1] = c.version /\ buf[2] = c.command
           /\ buf[4] = c.to.type
           /\ c.to.type = Domain /\ Len(buf) >= 5 => buf[5] = Len(c.to.host)
<1> DEFINE G == GreetingLength(c)
           D == DestinationBytes(c.to)
           n == Len(c.to.host)
           h == HostAt(c.to)
<1>1. /\ wire \in Seq(Nat) /\ G \in Nat /\ given \in Nat
      /\ SocksLaid(c, wire, G, D)
      /\ given >= G /\ Len(buf) = given - G /\ \A i \in 1..(given - G) : buf[i] = wire[G + i]
  BY SocksBuf
<1>2. LaidOut(c.to, D, h, n)
  BY SocksFacts
<1> HIDE DEF G, D, h, n
<1>3. Len(D) = h + n + 2 /\ n \in Nat /\ h \in {1, 2} /\ D[1] = c.to.type
      /\ (c.to.type = Domain => D[2] = n)
  BY <1>2 DEF LaidOut
<1>4. wire[G + 1] = c.version /\ wire[G + 2] = c.command /\ \A i \in 1..Len(D) : wire[G + 3 + i] = D[i]
  BY <1>1 DEF SocksLaid
<1>5. 1 \in 1..(given - G) /\ 2 \in 1..(given - G) /\ 4 \in 1..(given - G) /\ (Len(buf) >= 5 => 5 \in 1..(given - G))
  BY <1>1
<1>6. 1 \in 1..Len(D) /\ 2 \in 1..Len(D) /\ G + 4 = G + 3 + 1 /\ G + 5 = G + 3 + 2
  BY <1>1, <1>3
<1>7. buf[1] = c.version /\ buf[2] = c.command
  BY <1>1, <1>4, <1>5
<1>8. buf[4] = D[1]
  BY <1>1, <1>4, <1>5, <1>6
<1>9. Len(buf) >= 5 => buf[5] = D[2]
  BY <1>1, <1>4, <1>5, <1>6
<1>10. QED
  BY <1>3, <1>7, <1>8, <1>9 DEF n

LEMMA GoesServes ==
    ASSUME NEW c, SocksInv(c), Says(c), NEW next, Goes(next),
           \/ stage \in {"first", "greeting", "methods"} /\ next \in {"greeting", "methods"}
           \/ stage \in {"request", "name", "address"} /\ next \in {"name", "address"}
    PROVE  SocksInv(c)' /\ Says(c)' /\ Served(c)'
<1>1. stage' = next /\ UNCHANGED <<wire, given, buf, replies>>
  BY DEF Goes, Stay
<1>2. QED
  BY <1>1 DEF SocksInv, Says, Served

LEMMA SocksRequest ==
    ASSUME HandshakeInv, NEW c, Socks(c), Client(c), SocksInv(c), Request, Says(c)
    PROVE  SocksInv(c)' /\ Says(c)' /\ Served(c)'
<1>1. stage = "request" /\ Len(buf) >= 4
  BY DEF Request, Has, Need
<1>2. buf[1] = c.version /\ buf[2] = c.command /\ buf[4] = c.to.type
  BY <1>1, SocksRequestIs
<1>3. CASE Fails("none")
  BY <1>3, FailsServes DEF HandshakeInv
<1>4. CASE buf[2] # 1 /\ Fails("command_not_supported")
  <2>1. ~Right(c)
    BY <1>2, <1>4, SocksRight
  <2>2. QED
    BY <1>4, <2>1, FailsServes DEF HandshakeInv
<1>5. CASE buf[4] \notin {IPv4, IPv6} /\ buf[4] # Domain /\ Fails("address_type_not_supported")
  <2>1. ~Right(c)
    BY <1>2, <1>5, SocksRight
  <2>2. QED
    BY <1>5, <2>1, FailsServes DEF HandshakeInv
<1>6. CASE Goes("address") \/ Goes("name")
  BY <1>1, <1>6, GoesServes
<1>7. QED
  BY <1>3, <1>4, <1>5, <1>6 DEF Request

\* What the request's address takes behind its first three octets.
LEMMA SocksNeed ==
    ASSUME HandshakeInv, NEW c, Socks(c), Client(c), SocksInv(c), stage = "address"
    PROVE  Need = 3 + Len(DestinationBytes(c.to)) /\ Len(DestinationBytes(c.to)) \in Nat
           /\ Len(DestinationBytes(c.to)) >= 1 /\ Need \in Nat
<1> DEFINE D == DestinationBytes(c.to)
           n == Len(c.to.host)
           h == HostAt(c.to)
           m == Need
<1>1. stage = "address"
  OBVIOUS
<1>2. Len(buf) >= 4 /\ buf[1] = 5 /\ buf[2] = 1
      /\ (buf[4] \in {IPv4, IPv6} \/ (buf[4] = Domain /\ Len(buf) >= 5 /\ buf[5] # 0))
  BY <1>1 DEF HandshakeInv, Stages
<1>3. /\ c.version = 5 /\ c.command = 1 /\ buf[4] = c.to.type
      /\ c.to.type = Domain /\ Len(buf) >= 5 => buf[5] = n
  BY <1>1, <1>2, SocksRequestIs
<1>4. LaidOut(c.to, D, h, n) /\ IsDestination(c.to) /\ c.to.host \in Seq(Nat) /\ c.to.port \in Nat
  BY SocksFacts
<1>5. m = 3 + Len(D) /\ Len(D) \in Nat /\ Len(D) >= 1 /\ m \in Nat
  <2> HIDE DEF D, h, n
  <2>1. Len(D) = h + n + 2 /\ n \in Nat /\ (c.to.type = Domain => h = 2) /\ (c.to.type # Domain => h = 1)
    BY <1>4 DEF LaidOut
  <2>2. (c.to.type = IPv4 => n = 4) /\ (c.to.type = IPv6 => n = 16)
    BY <1>4 DEF IsDestination, n
  <2>3. m = 4 + (CASE buf[4] = IPv4 -> 4 [] buf[4] = Domain -> 1 + buf[5] [] OTHER -> 16) + 2
    BY <1>1 DEF Need
  <2> HIDE DEF m
  <2>4. CASE c.to.type = IPv4
    <3>1. h = 1 /\ n = 4 /\ m = 4 + 4 + 2
      BY <1>3, <2>1, <2>2, <2>3, <2>4 DEF IPv4, Domain
    <3>2. QED
      BY <2>1, <3>1
  <2>5. CASE c.to.type = IPv6
    <3>1. h = 1 /\ n = 16 /\ m = 4 + 16 + 2
      BY <1>3, <2>1, <2>2, <2>3, <2>5 DEF IPv4, IPv6, Domain
    <3>2. QED
      BY <2>1, <3>1
  <2>6. CASE c.to.type = Domain
    <3>1. h = 2 /\ buf[5] = n
      BY <1>2, <1>3, <2>1, <2>6 DEF IPv4, IPv6, Domain
    <3>2. m = 4 + (1 + n) + 2
      BY <1>3, <2>3, <2>6, <3>1 DEF IPv4, Domain
    <3>3. QED
      BY <2>1, <3>1, <3>2
  <2>7. QED
    BY <1>2, <1>3, <2>4, <2>5, <2>6
<1>6. QED
  BY <1>5 DEF D, m

LEMMA ParseIsAsked ==
    ASSUME NEW d, IsDestination(d), d.host \in Seq(Nat), d.port \in Nat,
           d.type \in {IPv4, IPv6} \/ (d.type = Domain /\ Len(d.host) # 0)
    PROVE  /\ ParseBrookDestination(DestinationBytes(d)) = ToAddress(d.type, d.host, d.port)
           /\ d.type \in {IPv4, IPv6} \/ (d.type = Domain /\ d.host # <<>>)
<1>1. Len(d.host) \in Nat /\ (d.host = <<>> => Len(d.host) = 0)
  OBVIOUS
<1>2. /\ d.type = IPv4 => Len(d.host) = 4
      /\ d.type = IPv6 => Len(d.host) = 16
      /\ d.type = Domain => Len(d.host) \in 0..255
  BY DEF IsDestination, Octet
<1>3. d.type = Domain => Len(d.host) # 0
  BY DEF IPv4, IPv6, Domain
<1>4. d.type = Domain => Len(d.host) \in 1..255
  BY <1>1, <1>2, <1>3
<1>5. d.type \in {IPv4, Domain, IPv6}
  OBVIOUS
<1>6. ParseBrookDestination(DestinationBytes(d)) = ToAddress(d.type, d.host, d.port)
  BY <1>2, <1>4, <1>5, ParseIsTo
<1>7. QED
  BY <1>1, <1>3, <1>6

LEMMA SocksAddress ==
    ASSUME LinkInv, NEW c, Socks(c), Client(c), SocksInv(c), Address, UNCHANGED tunnel, Says(c)
    PROVE  SocksInv(c)' /\ Says(c)' /\ Served(c)'
<1> DEFINE G == GreetingLength(c)
           D == DestinationBytes(c.to)
           n == Len(c.to.host)
           h == HostAt(c.to)
           m == Need
<1>1. HandshakeInv /\ tunnel = "idle" /\ stage = "address"
  BY DEF LinkInv, TunnelInv, Address, Has
<1>2. /\ Len(buf) >= m /\ dst' = SubSeq(buf, 4, m) /\ leftover' = SubSeq(buf, m + 1, Len(buf))
      /\ stage' = "done" /\ UNCHANGED <<wire, given, type, replies>>
  BY DEF Address, Has, Stay
<1>3. Len(buf) >= 4 /\ buf[1] = 5 /\ buf[2] = 1
      /\ (buf[4] \in {IPv4, IPv6} \/ (buf[4] = Domain /\ Len(buf) >= 5 /\ buf[5] # 0))
  BY <1>1 DEF HandshakeInv, Stages
<1>4. /\ c.version = 5 /\ c.command = 1 /\ buf[4] = c.to.type
      /\ c.to.type = Domain /\ Len(buf) >= 5 => buf[5] = n
  BY <1>1, <1>3, SocksRequestIs
<1>5. LaidOut(c.to, D, h, n) /\ IsDestination(c.to) /\ c.to.host \in Seq(Nat) /\ c.to.port \in Nat
  BY SocksFacts
<1>6. m = 3 + Len(D) /\ Len(D) \in Nat /\ Len(D) >= 1 /\ m \in Nat
  BY <1>1, SocksNeed
<1>7. /\ wire \in Seq(Nat) /\ G \in Nat /\ given \in Nat /\ given <= Len(wire) /\ Len(wire) \in Nat
      /\ SocksLaid(c, wire, G, D)
      /\ given >= G /\ Len(buf) = given - G
  BY <1>1, SocksBuf
<1>8. buf = SubSeq(wire, G + 1, given)
  BY <1>1 DEF SocksInv
<1>9. D \in Seq(Nat) /\ \A i \in 1..Len(D) : wire[G + 3 + i] = D[i]
  <2> HIDE DEF D, G, h, n
  <2>1. QED
    BY <1>5, <1>7 DEF SocksLaid, LaidOut
<1> HIDE DEF G, D, m, n, h
<1>10. leftover' = SubSeq(wire, (G + m) + 1, given)
  <2>1. G <= given /\ m \in 0..(given - G)
    BY <1>2, <1>6, <1>7
  <2>2. SubSeq(buf, m + 1, Len(buf)) = SubSeq(wire, (G + m) + 1, given)
    BY <1>7, <1>8, <2>1, SliceFacts
  <2>3. QED
    BY <1>2, <2>2
<1>11. dst' = D
  <2>1. buf \in Seq(Nat) /\ \A i \in 1..(given - G) : buf[i] = wire[G + i]
    BY <1>7, <1>8, PartIs
  <2>2. SubSeq(buf, 3 + 1, m) \in Seq(Nat) /\ Len(SubSeq(buf, 3 + 1, m)) = m - 3
        /\ \A i \in 1..(m - 3) : SubSeq(buf, 3 + 1, m)[i] = buf[3 + i]
    <3>1. 3 \in Nat /\ 3 <= m /\ m <= Len(buf)
      BY <1>2, <1>6
    <3>2. QED
      BY <1>6, <2>1, <3>1, PartIs
  <2>3. dst' = SubSeq(buf, 3 + 1, m)
    BY <1>2
  <2>4. dst' \in Seq(Nat) /\ Len(dst') = Len(D) /\ m - 3 = Len(D)
    BY <1>6, <2>2, <2>3
  <2>5. ASSUME NEW i \in 1..Len(D) PROVE dst'[i] = D[i]
    <3>1. i \in 1..(m - 3) /\ 3 + i \in 1..(given - G) /\ G + (3 + i) = G + 3 + i
      BY <1>2, <1>6, <1>7
    <3>2. dst'[i] = buf[3 + i]
      BY <2>2, <2>3, <3>1
    <3>3. buf[3 + i] = wire[G + 3 + i]
      BY <2>1, <3>1
    <3>4. QED
      BY <1>9, <3>2, <3>3
  <2>6. QED
    BY <1>9, <2>4, <2>5, SeqEqual
<1>12. ParseBrookDestination(D) = Asks(c)
  <2>1. c.to.type \in {IPv4, IPv6} \/ (c.to.type = Domain /\ Len(c.to.host) # 0)
    BY <1>3, <1>4 DEF IPv4, IPv6, Domain, n
  <2>2. /\ ParseBrookDestination(D) = ToAddress(c.to.type, c.to.host, c.to.port)
        /\ c.to.type \in {IPv4, IPv6} \/ (c.to.type = Domain /\ c.to.host # <<>>)
    BY <1>5, <2>1, ParseIsAsked DEF D
  <2>3. \E i \in DOMAIN c.methods : c.methods[i] = 0
    BY <1>1 DEF SocksInv
  <2>4. SocksAsks(c) = ToAddress(c.to.type, c.to.host, c.to.port)
    BY <1>4, <2>2, <2>3 DEF SocksAsks
  <2>5. QED
    BY <2>2, <2>4 DEF Asks, Socks
<1>13. leftover' \o SubSeq(wire, given + 1, Len(wire)) = c.body
  <2> DEFINE H == G + 3 + Len(D)
  <2>1. H \in Nat /\ G + m = H /\ H <= given
    <3>1. Len(buf) = given - G /\ G \in Nat /\ given \in Nat
      BY <1>7
    <3>2. Len(buf) >= m
      BY <1>2
    <3>3. QED
      BY <1>6, <3>1, <3>2
  <2>2. SubSeq(wire, H + 1, Len(wire)) = c.body
    BY <1>7 DEF SocksLaid, BodyBehind
  <2> HIDE DEF H
  <2>3. SubSeq(wire, H + 1, given) \o SubSeq(wire, given + 1, Len(wire)) = SubSeq(wire, H + 1, Len(wire))
    <3>1. H + 1 \in 1..(Len(wire) + 1) /\ given \in ((H + 1) - 1)..Len(wire) /\ Len(wire) \in given..Len(wire)
      BY <1>7, <2>1
    <3>2. QED
      BY <1>7, <3>1, ConcatAdjacentSubSeq
  <2>4. QED
    BY <1>10, <2>1, <2>2, <2>3
<1>14. Upload(c) = c.body
  BY DEF Upload, Plain, Socks
<1>15. Served(c)'
  <2>1. Taken' = leftover'
    BY <1>1 DEF Taken
  <2>2. QED
    BY <1>2, <1>11, <1>12, <1>13, <1>14, <2>1 DEF Served
<1>16. SocksInv(c)' /\ Says(c)'
  BY <1>2 DEF SocksInv, Says
<1>17. QED
  BY <1>15, <1>16

\* No step of the handshake, wherever the chunks begin and end, misunderstands a
\* SOCKS5 client.
LEMMA SocksStep ==
    ASSUME LinkInv, NEW c, Socks(c), Client(c), SocksInv(c), Says(c), HandshakeStep, UNCHANGED tunnel
    PROVE  SocksInv(c)' /\ Says(c)' /\ Served(c)'
<1>1. HandshakeInv /\ HandshakeTypeOK
  BY DEF LinkInv, HandshakeInv
<1>2. CASE \E n \in 1..Len(wire) : Chunk(n)
  <2>1. PICK n \in 1..Len(wire) : Chunk(n)
    BY <1>2
  <2>2. n \in Nat
    BY <1>1, WireFacts
  <2>3. SocksInv(c)'
    BY <1>1, <2>1, <2>2, SocksChunk
  <2>4. Says(c)' /\ Served(c)'
    BY <1>1, <2>1, <2>2, ChunkServes
  <2>5. QED
    BY <2>3, <2>4
<1>3. CASE Abandon
  BY <1>1, <1>3, FailsServes DEF Abandon
<1>4. CASE Version
  <2>1. CASE Fails("none")
    BY <1>1, <2>1, FailsServes
  <2>2. CASE Goes("methods")
    BY <1>4, <2>2, GoesServes DEF Version, Has
  <2>3. QED
    BY <1>4, <2>1, <2>2 DEF Version
<1>5. CASE Methods
  BY <1>1, <1>5, SocksMethods
<1>6. CASE Request
  BY <1>1, <1>6, SocksRequest
<1>7. CASE NameLength
  <2>1. CASE Fails("none")
    BY <1>1, <2>1, FailsServes
  <2>2. CASE Goes("address")
    BY <1>7, <2>2, GoesServes DEF NameLength, Has
  <2>3. QED
    BY <1>7, <2>1, <2>2 DEF NameLength
<1>8. CASE Address
  BY <1>8, SocksAddress
<1>9. CASE TooLarge \/ Header
  <2>1. stage = "header"
    BY <1>9 DEF TooLarge, Header
  <2>2. type = "http"
    BY <1>1, <2>1 DEF HandshakeInv, Stages
  <2>3. FALSE
    BY <2>2 DEF Client, Socks
  <2>4. QED
    BY <2>3
<1>10. QED
  BY <1>2, <1>3, <1>4, <1>5, <1>6, <1>7, <1>8, <1>9 DEF HandshakeStep

-----------------------------------------------------------------------------
(* An HTTP client's header *)

Http(c) == c \in Clients /\ c.protocol = "http"

\* The header W[1], ..., W[H] of n lines, every line of w units with its end.
HasLines(W, H, L, n, w) ==
    /\ W \in Seq(Nat) /\ n \in Nat \ {0} /\ w \in {2, 3} /\ H = n * w + (w - 1) /\ H \in Nat /\ H <= Len(W)
    /\ \A k \in 1..n : L[k] \in DOMAIN Text
    /\ \A k \in 1..n : W[(k - 1) * w + 1] = L[k] /\ W[k * w] = LF
    /\ \A p \in 1..H : W[p] \in {CR, LF} \/ \E k \in 1..n : p = (k - 1) * w + 1

\* It ends at H and nowhere before.
HasEnd(W, H, w) ==
    /\ w = 2 => /\ \A p \in 1..H : W[p] # CR
                /\ \A p \in 1..(H - 2) : ~(W[p] = LF /\ W[p + 1] = LF)
                /\ W[H - 1] = LF /\ W[H] = LF /\ W[2] = LF
    /\ w = 3 => /\ \A p \in 1..(H - 1) : ~(W[p] = LF /\ W[p + 1] = LF)
                /\ \A p \in 1..(H - 4) : ~(W[p] = CR /\ W[p + 2] = CR)
                /\ W[H - 3] = CR /\ W[H - 2] = LF /\ W[H - 1] = CR /\ W[H] = LF
                /\ W[2] = CR /\ W[3] = LF

HttpLaid(c, W, H, n, w) ==
    /\ BodyBehind(W, H, MessageOf(c), c.body) /\ H = Len(MessageOf(c))
    /\ HasLines(W, H, c.lines, n, w) /\ HasEnd(W, H, w)

LEMMA HttpFacts ==
    ASSUME NEW c, Http(c)
    PROVE  /\ c.lines \in Seq(DOMAIN Text) /\ c.lines # <<>> /\ c.end \in {CRLF, <<LF>>} /\ c.body \in Seq(Nat)
           /\ Bytes(c) = MessageOf(c) \o c.body /\ MessageOf(c) = EachWith(c.lines, c.end) \o c.end
<1>1. c.lines \in Seq(DOMAIN Text) /\ c.lines # <<>> /\ c.end \in {CRLF, <<LF>>} /\ c.body \in Seq(Unit)
  BY ClientsAssumption DEF Http
<1>2. c.body \in Seq(Nat)
  BY <1>1, UnitFacts
<1>3. Bytes(c) = MessageOf(c) \o c.body
  BY DEF Bytes
<1>4. MessageOf(c) = EachWith(c.lines, c.end) \o c.end
  BY DEF MessageOf, HeaderOf, Http
<1>5. QED
  BY <1>1, <1>2, <1>3, <1>4

\* The units of a header, place by place.
Spelled(W, L, end, n, w) ==
    /\ \A i \in 1..n : W[(i - 1) * w + 1] = L[i]
    /\ \A i \in 1..n : \A j \in 1..(w - 1) : W[(i - 1) * w + 1 + j] = end[j]
    /\ \A j \in 1..(w - 1) : W[n * w + j] = end[j]

LEMMA HttpIsSpelled ==
    ASSUME NEW c, Http(c)
    PROVE  /\ BodyBehind(Bytes(c), Len(MessageOf(c)), MessageOf(c), c.body)
           /\ Len(MessageOf(c)) = Len(c.lines) * (Len(c.end) + 1) + Len(c.end)
           /\ Spelled(Bytes(c), c.lines, c.end, Len(c.lines), Len(c.end) + 1)
           /\ Len(c.end) + 1 \in {2, 3} /\ Len(c.lines) \in Nat \ {0}
<1> DEFINE E == EachWith(c.lines, c.end)
           M == E \o c.end
           W == Bytes(c)
           n == Len(c.lines)
           w == Len(c.end) + 1
<1>1. /\ c.lines \in Seq(DOMAIN Text) /\ c.lines # <<>> /\ c.end \in {CRLF, <<LF>>} /\ c.body \in Seq(Nat)
      /\ W = MessageOf(c) \o c.body /\ MessageOf(c) = M
  BY HttpFacts
<1>2. c.lines \in Seq(Nat) /\ CR \in Nat /\ LF \in Nat
  <2>1. DOMAIN Text \subseteq Nat
    BY HandshakeAssumption
  <2>2. QED
    BY <1>1, <2>1, SeqMonotonic DEF CR, LF
<1>3. n \in Nat \ {0}
  BY <1>1
<1>4. E \in Seq(Nat) /\ w \in {2, 3} /\ c.end \in Seq(Nat) /\ Lined(E, c.lines, c.end, n, w)
  BY <1>1, <1>2, EachWithFacts
<1>5. Len(c.end) = w - 1
  BY <1>4
<1> HIDE DEF E, n, w
<1>6. M \in Seq(Nat) /\ Len(M) = Len(E) + Len(c.end)
      /\ (\A i \in 1..Len(E) : M[i] = E[i]) /\ (\A i \in 1..Len(c.end) : M[Len(E) + i] = c.end[i])
  <2>1. E \in Seq(Nat) /\ c.end \in Seq(Nat)
    BY <1>4
  <2>2. \A P \in Seq(Nat), Q \in Seq(Nat) :
          /\ P \o Q \in Seq(Nat) /\ Len(P \o Q) = Len(P) + Len(Q)
          /\ (\A i \in 1..Len(P) : (P \o Q)[i] = P[i]) /\ (\A i \in 1..Len(Q) : (P \o Q)[Len(P) + i] = Q[i])
    BY JoinAt
  <2>3. QED
    BY <2>1, <2>2
<1> HIDE DEF M
<1>7. BodyBehind(M \o c.body, Len(M), M, c.body)
  BY <1>1, <1>6, BodyIsBehind
<1>8. BodyBehind(W, Len(M), M, c.body)
  BY <1>1, <1>7
<1>9. Len(E) = n * w /\ Len(M) = n * w + (w - 1) /\ n * w \in Nat
  <2>1. Len(E) = n * w
    BY <1>4 DEF Lined
  <2>2. n * w \in Nat
    BY <1>3, <1>4
  <2>3. QED
    BY <1>5, <1>6, <2>1
<1> HIDE DEF W
<1> DEFINE q == n * w
<1>10. q \in Nat /\ (\A i \in 1..q : i \in 1..(q + (w - 1))) /\ (\A j \in 1..(w - 1) : q + j \in 1..(q + (w - 1)))
  <2>1. q \in Nat
    BY <1>9
  <2> HIDE DEF q
  <2>2. QED
    BY <1>4, <2>1
<1>11. \A i \in 1..q : W[i] = E[i]
  BY <1>6, <1>8, <1>9, <1>10 DEF BodyBehind
<1>12. \A j \in 1..(w - 1) : W[q + j] = c.end[j]
  BY <1>5, <1>6, <1>8, <1>9, <1>10 DEF BodyBehind
<1>13. \A i \in 1..n : \A j \in 0..(w - 1) : (i - 1) * w + 1 + j \in 1..q
  BY <1>3, <1>4, Placed
<1>14. \A i \in 1..n : W[(i - 1) * w + 1] = c.lines[i]
  <2> SUFFICES ASSUME NEW i \in 1..n PROVE W[(i - 1) * w + 1] = c.lines[i]
    OBVIOUS
  <2>1. 0 \in 0..(w - 1) /\ (i - 1) * w + 1 + 0 = (i - 1) * w + 1
    BY <1>3, <1>4
  <2>2. (i - 1) * w + 1 \in 1..q
    BY <1>13, <2>1
  <2>3. E[(i - 1) * w + 1] = c.lines[i]
    BY <1>4 DEF Lined
  <2>4. QED
    BY <1>11, <2>2, <2>3
<1>15. \A i \in 1..n : \A j \in 1..(w - 1) : W[(i - 1) * w + 1 + j] = c.end[j]
  <2> SUFFICES ASSUME NEW i \in 1..n, NEW j \in 1..(w - 1) PROVE W[(i - 1) * w + 1 + j] = c.end[j]
    OBVIOUS
  <2>1. j \in 0..(w - 1)
    BY <1>4
  <2>2. (i - 1) * w + 1 + j \in 1..q
    BY <1>13, <2>1
  <2>3. E[(i - 1) * w + 1 + j] = c.end[j]
    BY <1>4 DEF Lined
  <2>4. QED
    BY <1>11, <2>2, <2>3
<1>16. Spelled(W, c.lines, c.end, n, w)
  BY <1>12, <1>14, <1>15 DEF Spelled
<1>17. QED
  BY <1>1, <1>3, <1>4, <1>5, <1>8, <1>9, <1>16 DEF W, n, w

\* Every place of the lines is in one of them.
LEMMA InALine ==
    ASSUME NEW w \in {2, 3}, NEW n \in Nat, NEW p \in 1..(n * w)
    PROVE  \E i \in 1..n : \E j \in 0..(w - 1) : p = (i - 1) * w + 1 + j
<1> DEFINE i == ((p - 1) \div w) + 1
           j == (p - 1) % w
<1>1. j \in 0..(w - 1) /\ i \in 1..n /\ p = (i - 1) * w + 1 + j
  BY Places
<1> HIDE DEF i, j
<1>2. QED
  BY <1>1

LEMMA TextIsNoEnd == \A u \in DOMAIN Text : u # CR /\ u # LF
<1>1. QED
  BY UnitFacts

\* The header of lines that end in LF.
LEMMA LinesOfLF ==
    ASSUME NEW W, NEW L, NEW n \in Nat \ {0}, Spelled(W, L, <<LF>>, n, 2), \A k \in 1..n : L[k] \in DOMAIN Text
    PROVE  /\ \A k \in 1..n : W[(k - 1) * 2 + 1] = L[k] /\ W[k * 2] = LF
           /\ \A p \in 1..(n * 2 + 1) : W[p] \in {CR, LF} \/ \E k \in 1..n : p = (k - 1) * 2 + 1
           /\ HasEnd(W, n * 2 + 1, 2)
<1> DEFINE H == n * 2 + 1
<1>1. <<LF>>[1] = LF /\ 1 \in 1..(2 - 1)
  OBVIOUS
<1>2. /\ \A i \in 1..n : W[(i - 1) * 2 + 1] = L[i]
      /\ \A i \in 1..n : W[(i - 1) * 2 + 1 + 1] = LF
      /\ W[n * 2 + 1] = LF
  BY <1>1 DEF Spelled
<1>3. \A i \in 1..n : W[i * 2] = LF
  <2>1. \A i \in 1..n : (i - 1) * 2 + 1 + 1 = i * 2
    OBVIOUS
  <2>2. QED
    BY <1>2, <2>1
<1>4. \A p \in 1..(n * 2) : \E i \in 1..n : p = (i - 1) * 2 + 1 \/ p = i * 2
  <2> SUFFICES ASSUME NEW p \in 1..(n * 2) PROVE \E i \in 1..n : p = (i - 1) * 2 + 1 \/ p = i * 2
    OBVIOUS
  <2>1. PICK i \in 1..n, j \in 0..(2 - 1) : p = (i - 1) * 2 + 1 + j
    BY InALine
  <2>2. p = (i - 1) * 2 + 1 \/ p = i * 2
    BY <2>1
  <2>3. QED
    BY <2>2
<1>5. \A p \in 1..H : p \in 1..(n * 2) \/ p = n * 2 + 1
  OBVIOUS
<1>6. ASSUME NEW p \in 1..H PROVE W[p] \in {CR, LF} \/ \E k \in 1..n : p = (k - 1) * 2 + 1
  BY <1>2, <1>3, <1>4, <1>5
<1>7. ASSUME NEW p \in 1..H PROVE W[p] # CR
  <2>1. LF # CR /\ \A i \in 1..n : L[i] # CR
    BY TextIsNoEnd DEF CR, LF
  <2>2. QED
    BY <1>2, <1>3, <1>4, <1>5, <2>1
<1>8. ASSUME NEW p \in 1..(H - 2), W[p] = LF, W[p + 1] = LF PROVE FALSE
  <2>1. \A i \in 1..n : L[i] # LF
    BY TextIsNoEnd
  <2>2. p \in 1..(n * 2)
    OBVIOUS
  <2>3. PICK i \in 1..n : p = (i - 1) * 2 + 1 \/ p = i * 2
    BY <1>4, <2>2
  <2>4. p # (i - 1) * 2 + 1
    BY <1>2, <1>8, <2>1
  <2>5. i + 1 \in 1..n /\ p + 1 = ((i + 1) - 1) * 2 + 1
    BY <2>3, <2>4
  <2>6. W[p + 1] = L[i + 1]
    BY <1>2, <2>5
  <2>7. QED
    BY <1>8, <2>1, <2>5, <2>6
<1>9. W[H - 1] = LF /\ W[H] = LF /\ W[2] = LF
  <2>1. n \in 1..n /\ H - 1 = n * 2 /\ 1 \in 1..n /\ 1 * 2 = 2
    OBVIOUS
  <2>2. QED
    BY <1>2, <1>3, <2>1
<1>10. HasEnd(W, H, 2)
  <2>1. 2 # 3
    OBVIOUS
  <2>2. QED
    BY <1>7, <1>8, <1>9, <2>1 DEF HasEnd
<1>11. QED
  BY <1>2, <1>3, <1>6, <1>10

\* The header of lines that end in CR LF.
LEMMA LinesOfCRLF ==
    ASSUME NEW W, NEW L, NEW n \in Nat \ {0}, Spelled(W, L, CRLF, n, 3), \A k \in 1..n : L[k] \in DOMAIN Text
    PROVE  /\ \A k \in 1..n : W[(k - 1) * 3 + 1] = L[k] /\ W[k * 3] = LF
           /\ \A p \in 1..(n * 3 + 2) : W[p] \in {CR, LF} \/ \E k \in 1..n : p = (k - 1) * 3 + 1
           /\ HasEnd(W, n * 3 + 2, 3)
<1> DEFINE H == n * 3 + 2
<1>1. CRLF[1] = CR /\ CRLF[2] = LF /\ 1 \in 1..(3 - 1) /\ 2 \in 1..(3 - 1)
  BY DEF CRLF
<1>2. /\ \A i \in 1..n : W[(i - 1) * 3 + 1] = L[i]
      /\ \A i \in 1..n : W[(i - 1) * 3 + 1 + 1] = CR /\ W[(i - 1) * 3 + 1 + 2] = LF
      /\ W[n * 3 + 1] = CR /\ W[n * 3 + 2] = LF
  BY <1>1 DEF Spelled
<1>3. \A i \in 1..n : W[i * 3 - 1] = CR /\ W[i * 3] = LF
  <2>1. \A i \in 1..n : (i - 1) * 3 + 1 + 1 = i * 3 - 1 /\ (i - 1) * 3 + 1 + 2 = i * 3
    OBVIOUS
  <2>2. QED
    BY <1>2, <2>1
<1>4. \A p \in 1..(n * 3) : \E i \in 1..n : p = (i - 1) * 3 + 1 \/ p = i * 3 - 1 \/ p = i * 3
  <2> SUFFICES ASSUME NEW p \in 1..(n * 3)
               PROVE  \E i \in 1..n : p = (i - 1) * 3 + 1 \/ p = i * 3 - 1 \/ p = i * 3
    OBVIOUS
  <2>1. PICK i \in 1..n, j \in 0..(3 - 1) : p = (i - 1) * 3 + 1 + j
    BY InALine
  <2>2. p = (i - 1) * 3 + 1 \/ p = i * 3 - 1 \/ p = i * 3
    BY <2>1
  <2>3. QED
    BY <2>2
<1>5. \A p \in 1..H : p \in 1..(n * 3) \/ p = n * 3 + 1 \/ p = n * 3 + 2
  OBVIOUS
<1>6. ASSUME NEW p \in 1..H PROVE W[p] \in {CR, LF} \/ \E k \in 1..n : p = (k - 1) * 3 + 1
  <2>1. CASE p \in 1..(n * 3)
    <3>1. PICK i \in 1..n : p = (i - 1) * 3 + 1 \/ p = i * 3 - 1 \/ p = i * 3
      BY <1>4, <2>1
    <3>2. CASE p = (i - 1) * 3 + 1
      BY <3>2
    <3>3. CASE p = i * 3 - 1 \/ p = i * 3
      BY <1>3, <3>3
    <3>4. QED
      BY <3>1, <3>2, <3>3
  <2>2. CASE p = n * 3 + 1 \/ p = n * 3 + 2
    BY <1>2, <2>2
  <2>3. QED
    BY <1>5, <2>1, <2>2
<1>7. LF # CR /\ \A i \in 1..n : L[i] # CR /\ L[i] # LF
  BY TextIsNoEnd DEF CR, LF
<1>8. ASSUME NEW p \in 1..(H - 1), W[p] = LF, W[p + 1] = LF PROVE FALSE
  <2>1. p # n * 3 + 1
    BY <1>2, <1>8, <1>7
  <2>2. p \in 1..(n * 3)
    BY <2>1
  <2>3. PICK i \in 1..n : p = (i - 1) * 3 + 1 \/ p = i * 3 - 1 \/ p = i * 3
    BY <1>4, <2>2
  <2>4. p # (i - 1) * 3 + 1 /\ p # i * 3 - 1
    BY <1>2, <1>3, <1>8, <1>7
  <2>5. (i + 1 \in 1..n /\ p + 1 = ((i + 1) - 1) * 3 + 1) \/ p + 1 = n * 3 + 1
    BY <2>3, <2>4
  <2>6. QED
    BY <1>2, <1>8, <1>7, <2>5
<1>9. ASSUME NEW p \in 1..(H - 4), W[p] = CR, W[p + 2] = CR PROVE FALSE
  <2>1. p \in 1..(n * 3)
    OBVIOUS
  <2>2. PICK i \in 1..n : p = (i - 1) * 3 + 1 \/ p = i * 3 - 1 \/ p = i * 3
    BY <1>4, <2>1
  <2>3. p # (i - 1) * 3 + 1 /\ p # i * 3
    BY <1>2, <1>3, <1>9, <1>7
  <2>4. i + 1 \in 1..n /\ p + 2 = ((i + 1) - 1) * 3 + 1
    BY <2>2, <2>3
  <2>5. QED
    BY <1>2, <1>9, <1>7, <2>4
<1>10. /\ W[H - 3] = CR /\ W[H - 2] = LF /\ W[H - 1] = CR /\ W[H] = LF
      /\ W[2] = CR /\ W[3] = LF
  <2>1. /\ n \in 1..n /\ H - 3 = n * 3 - 1 /\ H - 2 = n * 3 /\ H - 1 = n * 3 + 1
        /\ 1 \in 1..n /\ 1 * 3 - 1 = 2 /\ 1 * 3 = 3
    OBVIOUS
  <2>2. QED
    BY <1>2, <1>3, <2>1
<1>11. HasEnd(W, H, 3)
  <2>1. 2 # 3
    OBVIOUS
  <2>2. QED
    BY <1>8, <1>9, <1>10, <2>1 DEF HasEnd
<1>12. QED
  BY <1>2, <1>3, <1>6, <1>11

LEMMA HttpIsLaid ==
    ASSUME NEW c, Http(c)
    PROVE  HttpLaid(c, Bytes(c), Len(MessageOf(c)), Len(c.lines), Len(c.end) + 1)
<1> DEFINE W == Bytes(c)
           M == MessageOf(c)
           H == Len(M)
           n == Len(c.lines)
           w == Len(c.end) + 1
<1>1. c.lines \in Seq(DOMAIN Text) /\ c.end \in {CRLF, <<LF>>}
  BY HttpFacts
<1>2. /\ BodyBehind(W, H, M, c.body) /\ H = n * w + Len(c.end) /\ Spelled(W, c.lines, c.end, n, w)
      /\ w \in {2, 3} /\ n \in Nat \ {0}
  BY HttpIsSpelled
<1>3. \A k \in 1..n : c.lines[k] \in DOMAIN Text
  BY <1>1
<1>4. (c.end = <<LF>> /\ w = 2) \/ (c.end = CRLF /\ w = 3)
  <2>1. Len(<<LF>>) + 1 = 2 /\ Len(CRLF) + 1 = 3
    BY DEF CRLF
  <2>2. CASE c.end = <<LF>>
    BY <2>1, <2>2
  <2>3. CASE c.end = CRLF
    BY <2>1, <2>3
  <2>4. QED
    BY <1>1, <2>2, <2>3
<1>5. Len(c.end) = w - 1
  BY <1>2
<1> HIDE DEF W, M, H, n, w
<1>6. W \in Seq(Nat) /\ H \in Nat /\ H <= Len(W)
  <2>1. W \in Seq(Nat) /\ H \in Nat /\ Len(W) = H + Len(c.body) /\ c.body \in Seq(Nat)
    BY <1>2, HttpFacts DEF BodyBehind
  <2>2. QED
    BY <2>1
<1>7. /\ \A k \in 1..n : W[(k - 1) * w + 1] = c.lines[k] /\ W[k * w] = LF
      /\ \A p \in 1..H : W[p] \in {CR, LF} \/ \E k \in 1..n : p = (k - 1) * w + 1
      /\ HasEnd(W, H, w)
  <2>1. CASE c.end = <<LF>> /\ w = 2
    <3>1. Spelled(W, c.lines, <<LF>>, n, 2) /\ n \in Nat \ {0}
      BY <1>2, <2>1
    <3>2. /\ \A k \in 1..n : W[(k - 1) * 2 + 1] = c.lines[k] /\ W[k * 2] = LF
          /\ \A p \in 1..(n * 2 + 1) : W[p] \in {CR, LF} \/ \E k \in 1..n : p = (k - 1) * 2 + 1
          /\ HasEnd(W, n * 2 + 1, 2)
      BY <1>3, <3>1, LinesOfLF
    <3>3. H = n * 2 + 1
      BY <1>2, <1>5, <2>1
    <3>4. QED
      BY <2>1, <3>2, <3>3
  <2>2. CASE c.end = CRLF /\ w = 3
    <3>1. Spelled(W, c.lines, CRLF, n, 3) /\ n \in Nat \ {0}
      BY <1>2, <2>2
    <3>2. /\ \A k \in 1..n : W[(k - 1) * 3 + 1] = c.lines[k] /\ W[k * 3] = LF
          /\ \A p \in 1..(n * 3 + 2) : W[p] \in {CR, LF} \/ \E k \in 1..n : p = (k - 1) * 3 + 1
          /\ HasEnd(W, n * 3 + 2, 3)
      BY <1>3, <3>1, LinesOfCRLF
    <3>3. H = n * 3 + 2
      BY <1>2, <1>5, <2>2
    <3>4. QED
      BY <2>2, <3>2, <3>3
  <2>3. QED
    BY <1>4, <2>1, <2>2
<1>8. HasLines(W, H, c.lines, n, w)
  BY <1>2, <1>3, <1>6, <1>7, <1>5 DEF HasLines
<1>9. QED
  BY <1>2, <1>7, <1>8 DEF HttpLaid, W, M, H, n, w

-----------------------------------------------------------------------------
(* What the proxy reads of such a header *)

\* Two and four units are the end of a line and of a header.
LEMMA TwoAre ==
    ASSUME NEW b \in Seq(Unit), NEW j \in 1..(Len(b) - 1), NEW x \in Nat, NEW y \in Nat
    PROVE  SubSeq(b, j, j + 1) = <<x, y>> <=> b[j] = x /\ b[j + 1] = y
<1> DEFINE s == SubSeq(b, j, j + 1)
           t == <<x, y>>
<1>1. s \in Seq(Unit) /\ Len(s) = 2 /\ s[1] = b[j] /\ s[2] = b[j + 1]
  <2>1. /\ j \in 1..Len(b) /\ j + 1 \in 1..Len(b) /\ Len(b) \in Nat
        /\ (j + 1) - j + 1 = 2 /\ j + 1 - 1 = j /\ j + 2 - 1 = j + 1
    OBVIOUS
  <2>2. QED
    BY <2>1
<1>2. t \in Seq(Nat) /\ Len(t) = 2 /\ t[1] = x /\ t[2] = y
  OBVIOUS
<1>3. s \in Seq(Nat)
  BY <1>1, UnitFacts
<1> HIDE DEF s, t
<1>4. ASSUME s[1] = x, s[2] = y PROVE s = t
  <2>1. \A i \in 1..2 : s[i] = t[i]
    <3>1. \A i \in 1..2 : i = 1 \/ i = 2
      OBVIOUS
    <3>2. QED
      BY <1>2, <1>4, <3>1
  <2>2. QED
    BY <1>1, <1>2, <1>3, <2>1, SeqEqual
<1>5. s = t <=> s[1] = x /\ s[2] = y
  BY <1>2, <1>4
<1>6. QED
  BY <1>1, <1>5 DEF s, t

LEMMA FourAre ==
    ASSUME NEW b \in Seq(Unit), NEW j \in 1..(Len(b) - 3)
    PROVE  SubSeq(b, j, j + 3) = CRLF \o CRLF <=> b[j] = CR /\ b[j + 1] = LF /\ b[j + 2] = CR /\ b[j + 3] = LF
<1> DEFINE s == SubSeq(b, j, j + 3)
           t == CRLF \o CRLF
<1>1. s \in Seq(Unit) /\ Len(s) = 4 /\ s[1] = b[j] /\ s[2] = b[j + 1] /\ s[3] = b[j + 2] /\ s[4] = b[j + 3]
  OBVIOUS
<1>2. t \in Seq(Nat) /\ Len(t) = 4 /\ t[1] = CR /\ t[2] = LF /\ t[3] = CR /\ t[4] = LF
  BY DEF CRLF, CR, LF
<1>3. s \in Seq(Nat)
  BY <1>1, UnitFacts
<1> HIDE DEF s, t
<1>4. ASSUME s[1] = CR, s[2] = LF, s[3] = CR, s[4] = LF PROVE s = t
  <2>1. \A i \in 1..4 : s[i] = t[i]
    <3>1. \A i \in 1..4 : i = 1 \/ i = 2 \/ i = 3 \/ i = 4
      OBVIOUS
    <3>2. QED
      BY <1>2, <1>4, <3>1
  <2>2. QED
    BY <1>1, <1>2, <1>3, <2>1, SeqEqual
<1>5. s = t <=> s[1] = CR /\ s[2] = LF /\ s[3] = CR /\ s[4] = LF
  BY <1>2, <1>4
<1>6. QED
  BY <1>1, <1>5 DEF s, t

LEMMA HeaderEndsAre ==
    ASSUME NEW b \in Seq(Unit), NEW e
    PROVE  e \in HeaderEnds(b) <=>
               \/ e \in 2..Len(b) /\ b[e - 1] = LF /\ b[e] = LF
               \/ e \in 4..Len(b) /\ b[e - 3] = CR /\ b[e - 2] = LF /\ b[e - 1] = CR /\ b[e] = LF
<1> DEFINE n == Len(b)
<1>1. n \in Nat
  OBVIOUS
<1>2. ASSUME NEW j \in 1..(n - 1) PROVE SubSeq(b, j, j + 1) = <<LF, LF>> <=> b[j] = LF /\ b[j + 1] = LF
  <2>1. LF \in Nat
    BY DEF LF
  <2>2. QED
    BY <2>1, TwoAre
<1>3. ASSUME NEW j \in 1..(n - 3)
      PROVE  SubSeq(b, j, j + 3) = CRLF \o CRLF <=> b[j] = CR /\ b[j + 1] = LF /\ b[j + 2] = CR /\ b[j + 3] = LF
  BY FourAre
<1>4. e \in HeaderEnds(b) <=>
          \/ \E j \in 1..(n - 1) : e = j + 1 /\ SubSeq(b, j, j + 1) = <<LF, LF>>
          \/ \E j \in 1..(n - 3) : e = j + 3 /\ SubSeq(b, j, j + 3) = CRLF \o CRLF
  BY DEF HeaderEnds
<1> HIDE DEF n
<1>5. (\E j \in 1..(n - 1) : e = j + 1 /\ SubSeq(b, j, j + 1) = <<LF, LF>>)
      <=> e \in 2..n /\ b[e - 1] = LF /\ b[e] = LF
  <2>1. ASSUME NEW j \in 1..(n - 1), e = j + 1, SubSeq(b, j, j + 1) = <<LF, LF>>
        PROVE  e \in 2..n /\ b[e - 1] = LF /\ b[e] = LF
    <3>1. e \in 2..n /\ e - 1 = j
      BY <1>1, <2>1
    <3>2. QED
      BY <1>2, <2>1, <3>1
  <2>2. ASSUME e \in 2..n, b[e - 1] = LF, b[e] = LF
        PROVE  \E j \in 1..(n - 1) : e = j + 1 /\ SubSeq(b, j, j + 1) = <<LF, LF>>
    <3>1. e - 1 \in 1..(n - 1) /\ e = (e - 1) + 1
      BY <1>1, <2>2
    <3>2. SubSeq(b, e - 1, (e - 1) + 1) = <<LF, LF>>
      BY <1>2, <2>2, <3>1
    <3>3. QED
      BY <3>1, <3>2
  <2>3. QED
    BY <2>1, <2>2
<1>6. (\E j \in 1..(n - 3) : e = j + 3 /\ SubSeq(b, j, j + 3) = CRLF \o CRLF)
      <=> e \in 4..n /\ b[e - 3] = CR /\ b[e - 2] = LF /\ b[e - 1] = CR /\ b[e] = LF
  <2>1. ASSUME NEW j \in 1..(n - 3), e = j + 3, SubSeq(b, j, j + 3) = CRLF \o CRLF
        PROVE  e \in 4..n /\ b[e - 3] = CR /\ b[e - 2] = LF /\ b[e - 1] = CR /\ b[e] = LF
    <3>1. e \in 4..n /\ e - 3 = j /\ e - 2 = j + 1 /\ e - 1 = j + 2
      BY <1>1, <2>1
    <3>2. QED
      BY <1>3, <2>1, <3>1
  <2>2. ASSUME e \in 4..n, b[e - 3] = CR, b[e - 2] = LF, b[e - 1] = CR, b[e] = LF
        PROVE  \E j \in 1..(n - 3) : e = j + 3 /\ SubSeq(b, j, j + 3) = CRLF \o CRLF
    <3> DEFINE j == e - 3
    <3>1. j \in 1..(n - 3) /\ e = j + 3 /\ e - 2 = j + 1 /\ e - 1 = j + 2
      BY <1>1, <2>2
    <3> HIDE DEF j
    <3>2. b[j] = CR /\ b[j + 1] = LF /\ b[j + 2] = CR /\ b[j + 3] = LF
      BY <2>2, <3>1 DEF j
    <3>3. SubSeq(b, j, j + 3) = CRLF \o CRLF
      BY <1>3, <3>1, <3>2
    <3>4. QED
      BY <3>1, <3>3
  <2>3. QED
    BY <2>1, <2>2
<1>7. QED
  BY <1>4, <1>5, <1>6 DEF n

\* What was read of a wire has its units.
LEMMA ReadIs ==
    ASSUME NEW W \in Seq(Unit), NEW g \in 0..Len(W)
    PROVE  /\ SubSeq(W, 1, g) \in Seq(Unit) /\ Len(SubSeq(W, 1, g)) = g /\ g \in Nat
           /\ \A i \in 1..g : SubSeq(W, 1, g)[i] = W[i]
<1>1. QED
  OBVIOUS

LEMMA HeaderEndIs ==
    ASSUME NEW W \in Seq(Unit), NEW L, NEW n, NEW w, NEW H, HasLines(W, H, L, n, w), HasEnd(W, H, w),
           NEW g \in 0..Len(W)
    PROVE  HeaderEnd(SubSeq(W, 1, g)) = IF g < H THEN 0 ELSE H
<1> DEFINE b == SubSeq(W, 1, g)
<1>1. b \in Seq(Unit) /\ Len(b) = g /\ g \in Nat /\ \A i \in 1..g : b[i] = W[i]
  BY ReadIs
<1>2. n \in Nat \ {0} /\ w \in {2, 3} /\ H = n * w + (w - 1) /\ H \in Nat
  BY DEF HasLines
<1>3. H >= w + (w - 1)
  <2>1. CASE w = 2
    BY <1>2, <2>1
  <2>2. CASE w = 3
    BY <1>2, <2>2
  <2>3. QED
    BY <1>2, <2>1, <2>2
<1>4. CR # LF
  BY DEF CR, LF
<1> HIDE DEF b
<1>5. ASSUME NEW e \in HeaderEnds(b) PROVE e \in Nat /\ e >= H
  <2>1. \/ e \in 2..g /\ b[e - 1] = LF /\ b[e] = LF
        \/ e \in 4..g /\ b[e - 3] = CR /\ b[e - 2] = LF /\ b[e - 1] = CR /\ b[e] = LF
    BY <1>1, HeaderEndsAre
  <2>2. e \in Nat
    BY <1>1, <2>1
  <2>3. CASE e \in 2..g /\ b[e - 1] = LF /\ b[e] = LF
    <3>1. e - 1 \in 1..g /\ e \in 1..g /\ (e - 1) + 1 = e
      BY <1>1, <2>3
    <3>2. W[e - 1] = LF /\ W[(e - 1) + 1] = LF
      BY <1>1, <2>3, <3>1
    <3>3. ~(e < H)
      <4>1. e < H => e - 1 \in 1..(H - 2) /\ e - 1 \in 1..(H - 1)
        BY <1>2, <3>1
      <4>2. QED
        BY <1>2, <3>2, <4>1 DEF HasEnd
    <3>4. QED
      BY <1>2, <2>2, <3>3
  <2>4. CASE e \in 4..g /\ b[e - 3] = CR /\ b[e - 2] = LF /\ b[e - 1] = CR /\ b[e] = LF
    <3>1. e - 3 \in 1..g /\ e - 1 \in 1..g /\ (e - 3) + 2 = e - 1
      BY <1>1, <2>4
    <3>2. W[e - 3] = CR /\ W[(e - 3) + 2] = CR
      BY <1>1, <2>4, <3>1
    <3>3. ~(e < H)
      <4>1. e < H => e - 3 \in 1..(H - 4) /\ e - 3 \in 1..H
        <5>1. e \in Nat /\ 4 <= e /\ H \in Nat
          BY <1>1, <1>2, <2>4
        <5>2. QED
          BY <5>1
      <4>2. QED
        BY <1>2, <3>2, <4>1 DEF HasEnd
    <3>4. QED
      BY <1>2, <2>2, <3>3
  <2>5. QED
    BY <2>1, <2>3, <2>4
<1>6. CASE g < H
  <2>1. HeaderEnds(b) = {}
    <3>1. ASSUME NEW e \in HeaderEnds(b) PROVE FALSE
      <4>1. e \in 1..g
        BY <1>1, HeaderEndFacts
      <4>2. e >= H
        BY <1>5
      <4>3. QED
        BY <1>1, <1>2, <1>6, <4>1, <4>2
    <3>2. QED
      BY <3>1
  <2>2. QED
    BY <1>1, <1>6, <2>1, HeaderEndFacts DEF b
<1>7. CASE ~(g < H)
  <2>1. H \in HeaderEnds(b)
    <3>1. CASE w = 2
      <4>1. H \in 2..g /\ H - 1 \in 1..g /\ H \in 1..g
        BY <1>1, <1>2, <1>7, <1>3, <3>1
      <4>2. W[H - 1] = LF /\ W[H] = LF
        BY <3>1 DEF HasEnd
      <4>3. b[H - 1] = LF /\ b[H] = LF
        BY <1>1, <4>1, <4>2
      <4>4. QED
        BY <1>1, <4>1, <4>3, HeaderEndsAre
    <3>2. CASE w = 3
      <4>1. H \in 4..g /\ H - 3 \in 1..g /\ H - 2 \in 1..g /\ H - 1 \in 1..g /\ H \in 1..g
        BY <1>1, <1>2, <1>7, <1>3, <3>2
      <4>2. W[H - 3] = CR /\ W[H - 2] = LF /\ W[H - 1] = CR /\ W[H] = LF
        BY <3>2 DEF HasEnd
      <4>3. b[H - 3] = CR /\ b[H - 2] = LF /\ b[H - 1] = CR /\ b[H] = LF
        BY <1>1, <4>1, <4>2
      <4>4. QED
        BY <1>1, <4>1, <4>3, HeaderEndsAre
    <3>3. QED
      BY <1>2, <3>1, <3>2
  <2>2. HeaderEnd(b) \in HeaderEnds(b) /\ HeaderEnd(b) <= H
    BY <1>1, <2>1, HeaderEndFacts
  <2>3. HeaderEnd(b) >= H /\ HeaderEnd(b) \in Nat
    BY <1>5, <2>2
  <2>4. HeaderEnd(b) = H
    BY <1>2, <2>2, <2>3
  <2>5. QED
    BY <1>7, <2>4 DEF b
<1>8. QED
  BY <1>6, <1>7

\* The request line is the first unit.
LEMMA FirstLineIs ==
    ASSUME NEW h \in Seq(Unit), NEW L, NEW n, NEW w, NEW H, HasLines(h, H, L, n, w), HasEnd(h, H, w), Len(h) = H
    PROVE  FirstLineEnd(h) = 2
<1> DEFINE crlf == {i \in 1..(Len(h) - 1) : SubSeq(h, i, i + 1) = CRLF}
           ends == IF crlf # {} THEN crlf ELSE {i \in 1..Len(h) : h[i] = LF}
<1>1. n \in Nat \ {0} /\ w \in {2, 3} /\ H = n * w + (w - 1) /\ H \in Nat
  BY DEF HasLines
<1>2. h[1] # CR /\ h[1] # LF
  <2>1. 1 \in 1..n
    BY <1>1
  <2>2. h[(1 - 1) * w + 1] = L[1] /\ L[1] \in DOMAIN Text
    BY <2>1 DEF HasLines
  <2>3. (1 - 1) * w + 1 = 1
    BY <1>1
  <2>4. QED
    BY <2>2, <2>3, TextIsNoEnd
<1>3. \A i \in 1..(H - 1) : SubSeq(h, i, i + 1) = CRLF <=> h[i] = CR /\ h[i + 1] = LF
  <2> SUFFICES ASSUME NEW i \in 1..(H - 1) PROVE SubSeq(h, i, i + 1) = CRLF <=> h[i] = CR /\ h[i + 1] = LF
    OBVIOUS
  <2>1. CR \in Nat /\ LF \in Nat /\ CRLF = <<CR, LF>> /\ i \in 1..(Len(h) - 1)
    BY DEF CR, LF, CRLF
  <2>2. QED
    BY <2>1, TwoAre
<1>4. FirstLineEnd(h) = CHOOSE e \in ends : \A f \in ends : e <= f
  BY DEF FirstLineEnd
<1>5. 2 \in ends /\ \A f \in ends : f \in Nat /\ 2 <= f
  <2>1. CASE w = 2
    <3>1. \A p \in 1..H : h[p] # CR
      BY <2>1 DEF HasEnd
    <3>2. crlf = {}
      <4>1. \A i \in 1..(H - 1) : i \in 1..H
        BY <1>1
      <4>2. QED
        BY <1>3, <3>1, <4>1
    <3>3. ends = {i \in 1..H : h[i] = LF}
      BY <3>2
    <3>4. h[2] = LF /\ 2 \in 1..H
      BY <1>1, <2>1 DEF HasEnd
    <3> HIDE DEF ends
    <3>5. ASSUME NEW f \in ends PROVE f \in Nat /\ 2 <= f
      BY <1>1, <1>2, <3>3
    <3>6. QED
      BY <3>3, <3>4, <3>5
  <2>2. CASE w = 3
    <3>1. h[2] = CR /\ h[3] = LF /\ 2 \in 1..(H - 1) /\ 2 + 1 = 3
      BY <1>1, <2>2 DEF HasEnd
    <3>2. 2 \in crlf
      BY <1>3, <3>1
    <3>3. ends = crlf
      BY <3>2
    <3>4. ASSUME NEW f \in crlf PROVE f \in Nat /\ 2 <= f
      <4>1. f \in 1..(H - 1) /\ h[f] = CR
        BY <1>3
      <4>2. f # 1
        BY <1>2, <4>1
      <4>3. QED
        BY <1>1, <4>1, <4>2
    <3> HIDE DEF ends, crlf
    <3>5. QED
      BY <3>2, <3>3, <3>4
  <2>3. QED
    BY <1>1, <2>1, <2>2
<1> HIDE DEF ends
<1>6. \A e \in ends : (\A f \in ends : e <= f) => e = 2
  BY <1>5
<1>7. QED
  BY <1>4, <1>5, <1>6

\* The Host header is the first line that is one and not the first.
LEMMA HostLineFound ==
    ASSUME NEW h \in Seq(Unit), NEW L, NEW n, NEW w, NEW H, HasLines(h, H, L, n, w), Len(h) = H,
           n = Len(L)
    PROVE  HostLine(h) = LET hosts == {i \in 2..Len(L) : Is(L[i], {"host"})}
                         IN  IF hosts = {} THEN 0 ELSE L[CHOOSE i \in hosts : \A j \in hosts : i <= j]
<1> DEFINE hosts == {i \in 2..Len(L) : Is(L[i], {"host"})}
           lines == {i \in 2..Len(h) : h[i - 1] = LF /\ Is(h[i], {"host"})}
           a == CHOOSE i \in hosts : \A j \in hosts : i <= j
           b == CHOOSE i \in lines : \A j \in lines : i <= j
           at(k) == (k - 1) * w + 1
<1>1. n \in Nat \ {0} /\ w \in {2, 3} /\ H = n * w + (w - 1) /\ H \in Nat
  BY DEF HasLines
<1>2. \A k \in 1..n : h[at(k)] = L[k] /\ h[k * w] = LF
  BY DEF HasLines
<1>3. \A p \in 1..H : h[p] \in {CR, LF} \/ \E k \in 1..n : p = at(k)
  BY DEF HasLines
<1>4. hosts \subseteq Nat /\ lines \subseteq Nat
  OBVIOUS
<1>5. ASSUME NEW k \in hosts PROVE at(k) \in lines /\ k \in 1..n
  <2>1. k \in 2..n /\ Is(L[k], {"host"})
    OBVIOUS
  <2>2. k - 1 \in 1..n /\ k \in 1..n
    BY <1>1, <2>1
  <2>3. at(k) - 1 = (k - 1) * w /\ at(k) \in 2..H
    <3>1. CASE w = 2
      BY <1>1, <2>1, <3>1
    <3>2. CASE w = 3
      BY <1>1, <2>1, <3>2
    <3>3. QED
      BY <1>1, <3>1, <3>2
  <2>4. h[at(k)] = L[k] /\ h[(k - 1) * w] = LF
    BY <1>2, <2>2
  <2> HIDE DEF at
  <2>5. QED
    BY <2>1, <2>2, <2>3, <2>4
<1>6. ASSUME NEW i \in lines PROVE \E k \in hosts : i = at(k)
  <2>1. i \in 2..H /\ i \in 1..H /\ Is(h[i], {"host"})
    BY <1>1
  <2>2. h[i] # CR /\ h[i] # LF
    BY <2>1, TextIsNoEnd DEF Is, IsText
  <2>3. PICK k \in 1..n : i = at(k)
    BY <1>3, <2>1, <2>2
  <2>4. k # 1
    BY <1>1, <2>1, <2>3
  <2>5. k \in 2..n /\ Is(L[k], {"host"})
    BY <1>1, <1>2, <2>1, <2>3, <2>4
  <2>6. QED
    BY <2>3, <2>5
<1>7. HostLine(h) = IF lines = {} THEN 0 ELSE h[b]
  BY DEF HostLine
<1>8. CASE hosts = {}
  <2>1. lines = {}
    BY <1>6, <1>8
  <2> HIDE DEF lines, hosts
  <2>2. HostLine(h) = 0
    BY <1>7, <2>1
  <2>3. QED
    BY <1>8, <2>2 DEF hosts
<1>9. CASE hosts # {}
  <2> HIDE DEF lines, hosts
  <2>1. a \in hosts /\ \A j \in hosts : a <= j
    <3>1. \E i \in hosts : \A j \in hosts : i <= j
      BY <1>4, <1>9, LeastNat
    <3>2. QED
      BY <3>1
  <2>2. lines # {}
    BY <1>5, <2>1
  <2>3. b \in lines /\ \A j \in lines : b <= j
    <3>1. \E i \in lines : \A j \in lines : i <= j
      BY <1>4, <2>2, LeastNat
    <3>2. QED
      BY <3>1
  <2> HIDE DEF a, b
  <2>4. PICK k \in hosts : b = at(k)
    BY <1>6, <2>3
  <2>5. at(k) <= at(a) /\ a <= k /\ a \in Nat /\ k \in Nat
    BY <1>4, <1>5, <2>1, <2>3, <2>4
  <2>6. a = k
    <3>1. CASE w = 2
      BY <2>5, <3>1
    <3>2. CASE w = 3
      BY <2>5, <3>2
    <3>3. QED
      BY <1>1, <3>1, <3>2
  <2>7. h[b] = L[a]
    BY <1>2, <1>5, <2>1, <2>4, <2>6
  <2>8. HostLine(h) = L[a]
    BY <1>7, <2>2, <2>7
  <2>9. QED
    BY <1>9, <2>8 DEF a, hosts
<1>10. QED
  BY <1>8, <1>9

LEMMA TextsOfOne == ASSUME NEW u \in DOMAIN Text PROVE Texts(<<u>>) = <<u>>
<1> DEFINE g == [i \in 0..1 |-> IF i = 0 THEN <<>> ELSE <<u>>]
<1>1. Len(<<u>>) = 1 /\ <<u>>[1] = u /\ Append(<<>>, u) = <<u>>
  OBVIOUS
<1>2. Filters(g, <<u>>, DOMAIN Text, 1)
  <2>1. \A i \in 0..1 : i = 0 \/ i = 1
    OBVIOUS
  <2>2. g[0] = <<>>
    OBVIOUS
  <2>3. \A i \in 0..1 : (IF i = 0 THEN <<>> ELSE <<u>>)
            = IF i = 0 THEN <<>> ELSE IF <<u>>[i] \in DOMAIN Text THEN Append(g[i - 1], <<u>>[i]) ELSE g[i - 1]
    <3>1. 1 - 1 = 0
      OBVIOUS
    <3> HIDE DEF g
    <3>2. QED
      BY <1>1, <2>1, <2>2, <3>1
  <2>4. QED
    BY <2>3 DEF Filters
<1>3. Only(<<u>>, DOMAIN Text) = g[1]
  BY <1>1, <1>2, OnlyIs
<1>4. QED
  BY <1>3 DEF Texts

-----------------------------------------------------------------------------
(* What the proxy sends on of such a header *)

\* What was read up to the end of the header is such a header.
LEMMA Carried ==
    ASSUME NEW W, NEW h \in Seq(Nat), NEW L, NEW n, NEW w, NEW H, HasLines(W, H, L, n, w), HasEnd(W, H, w),
           Len(h) = H, \A i \in 1..H : h[i] = W[i]
    PROVE  HasLines(h, H, L, n, w) /\ HasEnd(h, H, w)
<1>1. n \in Nat \ {0} /\ w \in {2, 3} /\ H = n * w + (w - 1) /\ H \in Nat
  BY DEF HasLines
<1>2. \A k \in 1..n : (k - 1) * w + 1 \in 1..H /\ k * w \in 1..H
  <2>1. CASE w = 2
    BY <1>1, <2>1
  <2>2. CASE w = 3
    BY <1>1, <2>2
  <2>3. QED
    BY <1>1, <2>1, <2>2
<1>3. \A k \in 1..n : h[(k - 1) * w + 1] = L[k] /\ h[k * w] = LF
  BY <1>2 DEF HasLines
<1>4. \A p \in 1..H : h[p] \in {CR, LF} \/ \E k \in 1..n : p = (k - 1) * w + 1
  BY DEF HasLines
<1>5. HasLines(h, H, L, n, w)
  <2>1. H <= Len(h) /\ \A k \in 1..n : L[k] \in DOMAIN Text
    BY <1>1 DEF HasLines
  <2>2. QED
    BY <1>1, <1>3, <1>4, <2>1 DEF HasLines
<1>6. ASSUME w = 2
      PROVE  /\ \A p \in 1..H : h[p] # CR
             /\ \A p \in 1..(H - 2) : ~(h[p] = LF /\ h[p + 1] = LF)
             /\ h[H - 1] = LF /\ h[H] = LF /\ h[2] = LF
  <2>1. /\ \A p \in 1..H : W[p] # CR
        /\ \A p \in 1..(H - 2) : ~(W[p] = LF /\ W[p + 1] = LF)
        /\ W[H - 1] = LF /\ W[H] = LF /\ W[2] = LF
    BY <1>6 DEF HasEnd
  <2>2. H >= 3
    BY <1>1, <1>6
  <2>3. \A p \in 1..(H - 2) : p \in 1..H /\ p + 1 \in 1..H
    BY <1>1
  <2>4. H - 1 \in 1..H /\ H \in 1..H /\ 2 \in 1..H
    BY <1>1, <2>2
  <2>5. QED
    BY <2>1, <2>3, <2>4
<1>7. ASSUME w = 3
      PROVE  /\ \A p \in 1..(H - 1) : ~(h[p] = LF /\ h[p + 1] = LF)
             /\ \A p \in 1..(H - 4) : ~(h[p] = CR /\ h[p + 2] = CR)
             /\ h[H - 3] = CR /\ h[H - 2] = LF /\ h[H - 1] = CR /\ h[H] = LF
             /\ h[2] = CR /\ h[3] = LF
  <2>1. /\ \A p \in 1..(H - 1) : ~(W[p] = LF /\ W[p + 1] = LF)
        /\ \A p \in 1..(H - 4) : ~(W[p] = CR /\ W[p + 2] = CR)
        /\ W[H - 3] = CR /\ W[H - 2] = LF /\ W[H - 1] = CR /\ W[H] = LF
        /\ W[2] = CR /\ W[3] = LF
    BY <1>7 DEF HasEnd
  <2>2. H >= 5
    BY <1>1, <1>7
  <2>3. /\ \A p \in 1..(H - 1) : p \in 1..H /\ p + 1 \in 1..H
        /\ \A p \in 1..(H - 4) : p \in 1..H /\ p + 2 \in 1..H
    BY <1>1
  <2>4. H - 3 \in 1..H /\ H - 2 \in 1..H /\ H - 1 \in 1..H /\ H \in 1..H /\ 2 \in 1..H /\ 3 \in 1..H
    BY <1>1, <2>2
  <2>5. QED
    BY <2>1, <2>3, <2>4
<1>8. HasEnd(h, H, w)
  BY <1>6, <1>7 DEF HasEnd
<1>9. QED
  BY <1>5, <1>8

\* The lines, but the first, that begin in the first i units behind a header's first.
LinesIn(i, n, w) == IF i \div w <= n - 1 THEN i \div w ELSE n - 1

LinesGrow(i, n, w) ==
    /\ LinesIn(i, n, w) \in 0..(n - 1)
    /\ i = 0 => LinesIn(i, n, w) = 0
    /\ i = n * w + (w - 1) - 1 => LinesIn(i, n, w) = n - 1
    /\ i # 0 => \/ \E k \in 2..n : /\ i + 1 = (k - 1) * w + 1
                                    /\ LinesIn(i, n, w) = k - 1 /\ LinesIn(i - 1, n, w) = k - 2
                \/ LinesIn(i, n, w) = LinesIn(i - 1, n, w) /\ \A k \in 1..n : i + 1 # (k - 1) * w + 1

LEMMA LinesInFacts ==
    ASSUME NEW w \in {2, 3}, NEW n \in Nat \ {0}, NEW i \in Nat, i <= n * w + (w - 1) - 1
    PROVE  LinesGrow(i, n, w)
<1>1. CASE w = 2
  <2>1. LinesIn(i, n, w) \in 0..(n - 1) /\ (i = 0 => LinesIn(i, n, w) = 0)
    BY <1>1 DEF LinesIn
  <2>2. i = n * w + (w - 1) - 1 => LinesIn(i, n, w) = n - 1
    BY <1>1 DEF LinesIn
  <2>3. ASSUME i # 0, NEW k \in 2..n, i + 1 = (k - 1) * w + 1
        PROVE  LinesIn(i, n, w) = k - 1 /\ LinesIn(i - 1, n, w) = k - 2
    BY <1>1, <2>3 DEF LinesIn
  <2>4. ASSUME i # 0, \A k \in 1..n : i + 1 # (k - 1) * w + 1 PROVE LinesIn(i, n, w) = LinesIn(i - 1, n, w)
    <3> DEFINE q == i \div 2
    <3>1. q \in Nat /\ (i = 2 * q \/ i = 2 * q + 1) /\ i - 1 \in Nat
      BY <2>4
    <3>2. CASE i = 2 * q + 1
      <4>1. i - 1 = 2 * q
        BY <3>1, <3>2
      <4>2. (i - 1) \div 2 = q
        BY <4>1, <3>1
      <4>3. QED
        BY <1>1, <4>2 DEF LinesIn
    <3>3. CASE i = 2 * q
      <4>1. i + 1 = ((q + 1) - 1) * w + 1
        BY <1>1, <3>1, <3>3
      <4>2. q + 1 \notin 1..n
        BY <2>4, <4>1
      <4>3. (i - 1) \div 2 >= n - 1 /\ (i - 1) \div 2 \in Nat /\ q >= n
        BY <3>1, <3>3, <4>2
      <4> HIDE DEF q
      <4>4. LinesIn(i, n, w) = n - 1
        BY <1>1, <3>1, <4>3 DEF LinesIn, q
      <4>5. LinesIn(i - 1, n, w) = n - 1
        BY <1>1, <4>3 DEF LinesIn
      <4>6. QED
        BY <4>4, <4>5
    <3>4. QED
      BY <3>1, <3>2, <3>3
  <2>5. i # 0 => \A k \in 1..n : i + 1 = (k - 1) * w + 1 => k \in 2..n
    BY <1>1
  <2> HIDE DEF LinesIn
  <2>6. QED
    BY <2>1, <2>2, <2>3, <2>4, <2>5 DEF LinesGrow
<1>2. CASE w = 3
  <2>1. LinesIn(i, n, w) \in 0..(n - 1) /\ (i = 0 => LinesIn(i, n, w) = 0)
    BY <1>2 DEF LinesIn
  <2>2. i = n * w + (w - 1) - 1 => LinesIn(i, n, w) = n - 1
    BY <1>2 DEF LinesIn
  <2>3. ASSUME i # 0, NEW k \in 2..n, i + 1 = (k - 1) * w + 1
        PROVE  LinesIn(i, n, w) = k - 1 /\ LinesIn(i - 1, n, w) = k - 2
    BY <1>2, <2>3 DEF LinesIn
  <2>4. ASSUME i # 0, \A k \in 1..n : i + 1 # (k - 1) * w + 1 PROVE LinesIn(i, n, w) = LinesIn(i - 1, n, w)
    <3> DEFINE q == i \div 3
    <3>1. q \in Nat /\ (i = 3 * q \/ i = 3 * q + 1 \/ i = 3 * q + 2) /\ i - 1 \in Nat
      BY <2>4
    <3>2. CASE i = 3 * q + 1 \/ i = 3 * q + 2
      <4>1. i - 1 = 3 * q \/ i - 1 = 3 * q + 1
        BY <3>1, <3>2
      <4>2. (i - 1) \div 3 = q
        BY <4>1, <3>1
      <4>3. QED
        BY <1>2, <4>2 DEF LinesIn
    <3>3. CASE i = 3 * q
      <4>1. i + 1 = ((q + 1) - 1) * w + 1
        BY <1>2, <3>1, <3>3
      <4>2. q + 1 \notin 1..n
        BY <2>4, <4>1
      <4>3. (i - 1) \div 3 >= n - 1 /\ (i - 1) \div 3 \in Nat /\ q >= n
        BY <3>1, <3>3, <4>2
      <4> HIDE DEF q
      <4>4. LinesIn(i, n, w) = n - 1
        BY <1>2, <3>1, <4>3 DEF LinesIn, q
      <4>5. LinesIn(i - 1, n, w) = n - 1
        BY <1>2, <4>3 DEF LinesIn
      <4>6. QED
        BY <4>4, <4>5
    <3>4. QED
      BY <3>1, <3>2, <3>3
  <2>5. i # 0 => \A k \in 1..n : i + 1 = (k - 1) * w + 1 => k \in 2..n
    BY <1>2
  <2> HIDE DEF LinesIn
  <2>6. QED
    BY <2>1, <2>2, <2>3, <2>4, <2>5 DEF LinesGrow
<1>3. QED
  BY <1>1, <1>2

LEMMA OneUnitMore ==
    ASSUME NEW X, NEW S \in Seq(X), NEW k \in 1..Len(S)
    PROVE  Append(SubSeq(S, 1, k - 1), S[k]) = SubSeq(S, 1, k)
<1> DEFINE a == SubSeq(S, 1, k - 1)
           b == SubSeq(S, 1, k)
           u == S[k]
<1>1. k \in Nat /\ k - 1 \in Nat /\ u \in X
  OBVIOUS
<1>2. a \in Seq(X) /\ Len(a) = k - 1 /\ \A i \in 1..(k - 1) : a[i] = S[i]
  OBVIOUS
<1>3. b \in Seq(X) /\ Len(b) = k /\ \A i \in 1..k : b[i] = S[i]
  OBVIOUS
<1> HIDE DEF a, b
<1>4. Append(a, u) \in Seq(X) /\ Len(Append(a, u)) = k
      /\ (\A i \in 1..(k - 1) : Append(a, u)[i] = a[i]) /\ Append(a, u)[k] = u
  BY <1>1, <1>2, AppendProperties
<1>5. ASSUME NEW i \in 1..k PROVE Append(a, u)[i] = b[i]
  <2>1. i = k \/ i \in 1..(k - 1)
    BY <1>1
  <2>2. QED
    BY <1>2, <1>3, <1>4, <2>1
<1>6. Append(a, u) = b
  <2> DEFINE c == Append(a, u)
  <2>1. c \in Seq(X) /\ Len(c) = Len(b) /\ \A i \in 1..Len(b) : c[i] = b[i]
    BY <1>3, <1>4, <1>5
  <2> HIDE DEF c
  <2>2. c = b
    BY <1>3, <2>1, SeqEqual
  <2>3. QED
    BY <2>2 DEF c
<1>7. QED
  BY <1>6 DEF a, b

\* Behind the first line are the texts of the other lines.
LEMMA TextsBehind ==
    ASSUME NEW h \in Seq(Nat), NEW L \in Seq(DOMAIN Text), NEW n, NEW w, NEW H, HasLines(h, H, L, n, w), Len(h) = H,
           n = Len(L)
    PROVE  Texts(SubSeq(h, 2, H)) = Tail(L)
<1> DEFINE s == SubSeq(h, 2, H)
           T == Tail(L)
           m == H - 1
           at(i) == LinesIn(i, n, w)
           g == [i \in 0..m |-> SubSeq(T, 1, at(i))]
<1>1. n \in Nat \ {0} /\ w \in {2, 3} /\ H = n * w + (w - 1) /\ H \in Nat
  BY DEF HasLines
<1>2. H >= 3
  <2>1. CASE w = 2
    BY <1>1, <2>1
  <2>2. CASE w = 3
    BY <1>1, <2>2
  <2>3. QED
    BY <1>1, <2>1, <2>2
<1>3. m \in Nat /\ Len(s) = m /\ s \in Seq(Nat) /\ \A i \in 1..m : s[i] = h[i + 1]
  <2>1. 1 \in Nat /\ 1 + 1 = 2 /\ 1 <= H /\ H <= Len(h)
    BY <1>1, <1>2
  <2>2. SubSeq(h, 1 + 1, H) \in Seq(Nat) /\ Len(SubSeq(h, 1 + 1, H)) = H - 1
        /\ \A i \in 1..(H - 1) : SubSeq(h, 1 + 1, H)[i] = h[1 + i]
    <3>1. 1 <= H /\ H <= Len(h) /\ 1 \in Nat /\ H \in Nat
      BY <1>1, <2>1
    <3>2. QED
      BY <3>1, PartIs
  <2>3. \A i \in 1..m : 1 + i = i + 1
    BY <1>1
  <2>4. m \in Nat /\ s = SubSeq(h, 1 + 1, H)
    BY <1>1, <1>2, <2>1
  <2>5. QED
    BY <2>2, <2>3, <2>4
<1>4. T \in Seq(DOMAIN Text) /\ Len(T) = n - 1 /\ \A k \in 2..n : T[k - 1] = L[k]
  <2>1. L # <<>> /\ Len(L) \in Nat
    BY <1>1
  <2>2. T \in Seq(DOMAIN Text) /\ Len(T) = Len(L) - 1 /\ \A i \in 1..Len(T) : T[i] = L[i + 1]
    BY <2>1, HeadTailProperties
  <2>3. ASSUME NEW k \in 2..n PROVE T[k - 1] = L[k]
    <3>1. k - 1 \in 1..Len(T) /\ (k - 1) + 1 = k
      BY <1>1, <2>2
    <3> HIDE DEF T
    <3>2. QED
      BY <2>2, <3>1
  <2>4. QED
    BY <2>2, <2>3
<1>5. \A k \in 1..n : L[k] \in DOMAIN Text /\ h[(k - 1) * w + 1] = L[k]
  BY DEF HasLines
<1>6. \A p \in 1..H : h[p] \in {CR, LF} \/ \E k \in 1..n : p = (k - 1) * w + 1
  BY DEF HasLines
<1>7. \A k \in 2..n : Append(SubSeq(T, 1, k - 2), T[k - 1]) = SubSeq(T, 1, k - 1)
  <2> SUFFICES ASSUME NEW k \in 2..n PROVE Append(SubSeq(T, 1, k - 2), T[k - 1]) = SubSeq(T, 1, k - 1)
    OBVIOUS
  <2>1. k - 1 \in 1..Len(T) /\ (k - 1) - 1 = k - 2
    BY <1>1, <1>4
  <2> HIDE DEF T
  <2>2. Append(SubSeq(T, 1, (k - 1) - 1), T[k - 1]) = SubSeq(T, 1, k - 1)
    BY <1>4, <2>1, OneUnitMore
  <2>3. QED
    BY <2>1, <2>2
<1>8. SubSeq(T, 1, 0) = <<>> /\ SubSeq(T, 1, n - 1) = T
  <2> HIDE DEF T
  <2>1. SubSeq(T, 1, Len(T)) = T
    BY <1>4, SubSeqFull
  <2>2. SubSeq(T, 1, 0) = <<>>
    BY <1>4
  <2>3. QED
    BY <1>4, <2>1, <2>2
<1> HIDE DEF s, T, m
<1>9. \A i \in 0..m : i \in Nat /\ i <= n * w + (w - 1) - 1
  BY <1>1, <1>3 DEF m
<1>10. ASSUME NEW i \in 0..m
       PROVE  SubSeq(T, 1, at(i)) = IF i = 0 THEN <<>>
                                    ELSE IF s[i] \in DOMAIN Text THEN Append(SubSeq(T, 1, at(i - 1)), s[i])
                                    ELSE SubSeq(T, 1, at(i - 1))
  <2>1. i \in Nat /\ i <= n * w + (w - 1) - 1
    BY <1>9
  <2>2. /\ i = 0 => at(i) = 0
        /\ i # 0 => \/ \E k \in 2..n : i + 1 = (k - 1) * w + 1 /\ at(i) = k - 1 /\ at(i - 1) = k - 2
                    \/ at(i) = at(i - 1) /\ \A k \in 1..n : i + 1 # (k - 1) * w + 1
    <3>1. LinesGrow(i, n, w)
      BY <1>1, <2>1, LinesInFacts
    <3>2. QED
      BY <3>1 DEF LinesGrow
  <2> HIDE DEF at
  <2>3. CASE i = 0
    BY <1>8, <2>2, <2>3
  <2>4. CASE i # 0 /\ \E k \in 2..n : i + 1 = (k - 1) * w + 1 /\ at(i) = k - 1 /\ at(i - 1) = k - 2
    <3>1. PICK k \in 2..n : i + 1 = (k - 1) * w + 1 /\ at(i) = k - 1 /\ at(i - 1) = k - 2
      BY <2>4
    <3>2. k \in 1..n /\ i \in 1..m
      BY <1>1, <1>3, <2>4
    <3>3. s[i] = T[k - 1] /\ s[i] \in DOMAIN Text
      BY <1>3, <1>4, <1>5, <3>1, <3>2
    <3>4. QED
      BY <1>7, <2>4, <3>1, <3>3
  <2>5. CASE i # 0 /\ at(i) = at(i - 1) /\ \A k \in 1..n : i + 1 # (k - 1) * w + 1
    <3>1. i \in 1..m /\ i + 1 \in 1..H
      BY <1>1, <1>3, <2>5 DEF m
    <3>2. h[i + 1] \in {CR, LF}
      BY <1>6, <2>5, <3>1
    <3>3. s[i] \notin DOMAIN Text
      BY <1>3, <3>1, <3>2, UnitFacts
    <3>4. QED
      BY <2>5, <3>3
  <2>6. QED
    BY <2>2, <2>3, <2>4, <2>5
<1>11. \A i \in 1..m : g[i - 1] = SubSeq(T, 1, at(i - 1))
  <2> SUFFICES ASSUME NEW i \in 1..m PROVE g[i - 1] = SubSeq(T, 1, at(i - 1))
    OBVIOUS
  <2>1. i - 1 \in 0..m
    BY <1>3
  <2> HIDE DEF at
  <2>2. QED
    BY <2>1
<1>12. \A i \in 0..m : g[i] = IF i = 0 THEN <<>> ELSE IF s[i] \in DOMAIN Text THEN Append(g[i - 1], s[i]) ELSE g[i - 1]
  <2> SUFFICES ASSUME NEW i \in 0..m
               PROVE  g[i] = IF i = 0 THEN <<>> ELSE IF s[i] \in DOMAIN Text THEN Append(g[i - 1], s[i]) ELSE g[i - 1]
    OBVIOUS
  <2>1. g[i] = SubSeq(T, 1, at(i))
    OBVIOUS
  <2>2. i # 0 => i \in 1..m
    BY <1>3
  <2>3. i # 0 => g[i - 1] = SubSeq(T, 1, at(i - 1))
    BY <1>11, <2>2
  <2> HIDE DEF g, at
  <2>4. QED
    BY <1>10, <2>1, <2>3 DEF at
<1>13. g = [i \in 0..m |-> g[i]]
  OBVIOUS
<1>14. g[m] = T
  <2>1. m \in Nat /\ m <= n * w + (w - 1) - 1 /\ m = n * w + (w - 1) - 1
    BY <1>1, <1>3 DEF m
  <2>2. at(m) = n - 1
    <3>1. LinesGrow(m, n, w)
      BY <1>1, <2>1, LinesInFacts
    <3>2. QED
      BY <2>1, <3>1 DEF LinesGrow
  <2>3. g[m] = SubSeq(T, 1, at(m))
    <3>1. m \in 0..m
      BY <1>3
    <3> HIDE DEF at
    <3>2. QED
      BY <3>1
  <2> HIDE DEF g, at
  <2>4. QED
    BY <1>8, <2>2, <2>3
<1> HIDE DEF g, at
<1>15. Filters(g, s, DOMAIN Text, m)
  BY <1>12, <1>13 DEF Filters
<1>16. Only(s, DOMAIN Text) = g[m]
  BY <1>3, <1>15, OnlyIs
<1>17. QED
  BY <1>14, <1>16 DEF Texts, s, T

\* The first of several lines goes before the others.
LEMMA FirstAndOthers ==
    ASSUME NEW f \in Nat, NEW K \in Seq(Nat)
    PROVE  EachWith(<<f>> \o K, CRLF) = <<f>> \o CRLF \o EachWith(K, CRLF)
<1> DEFINE J == <<f>> \o K
           E == EachWith(K, CRLF)
           B == <<f>> \o CRLF
           A == EachWith(J, CRLF)
           C == B \o E
           n == Len(K)
<1>1. CR \in Nat /\ LF \in Nat /\ CRLF \in {CRLF, <<LF>>} /\ Len(CRLF) + 1 = 3 /\ CRLF[1] = CR /\ CRLF[2] = LF
  BY DEF CR, LF, CRLF
<1>2. J \in Seq(Nat) /\ Len(J) = n + 1 /\ n \in Nat /\ J[1] = f /\ \A k \in 1..n : J[k + 1] = K[k]
  OBVIOUS
<1>3. B \in Seq(Nat) /\ Len(B) = 3 /\ B[1] = f /\ B[2] = CR /\ B[3] = LF
  BY <1>1 DEF CRLF
<1>4. E \in Seq(Nat) /\ Lined(E, K, CRLF, n, 3)
  BY <1>1, EachWithFacts
<1> HIDE DEF J
<1>5. A \in Seq(Nat) /\ Lined(A, J, CRLF, n + 1, 3)
  <2>1. A \in Seq(Nat) /\ Lined(A, J, CRLF, Len(J), Len(CRLF) + 1)
    BY <1>1, <1>2, EachWithFacts
  <2>2. QED
    BY <1>1, <1>2, <2>1
<1> HIDE DEF A, B, E, n
<1>6. C \in Seq(Nat) /\ Len(C) = 3 + Len(E) /\ (\A i \in 1..3 : C[i] = B[i]) /\ (\A i \in 1..Len(E) : C[3 + i] = E[i])
  <2>1. \A P \in Seq(Nat), Q \in Seq(Nat) :
          /\ P \o Q \in Seq(Nat) /\ Len(P \o Q) = Len(P) + Len(Q)
          /\ (\A i \in 1..Len(P) : (P \o Q)[i] = P[i]) /\ (\A i \in 1..Len(Q) : (P \o Q)[Len(P) + i] = Q[i])
    BY JoinAt
  <2>2. B \in Seq(Nat) /\ E \in Seq(Nat)
    BY <1>3, <1>4
  <2>3. C \in Seq(Nat) /\ Len(C) = Len(B) + Len(E)
        /\ (\A i \in 1..Len(B) : C[i] = B[i]) /\ (\A i \in 1..Len(E) : C[Len(B) + i] = E[i])
    BY <2>1, <2>2
  <2>4. Len(B) = 3
    BY <1>3
  <2> HIDE DEF C
  <2>5. QED
    BY <2>3, <2>4
<1> HIDE DEF C
<1>7. /\ Len(E) = n * 3 /\ Len(A) = (n + 1) * 3
      /\ \A k \in 1..n : E[(k - 1) * 3 + 1] = K[k] /\ E[(k - 1) * 3 + 1 + 1] = CR /\ E[(k - 1) * 3 + 1 + 2] = LF
      /\ \A k \in 1..(n + 1) : A[(k - 1) * 3 + 1] = J[k] /\ A[(k - 1) * 3 + 1 + 1] = CR /\ A[(k - 1) * 3 + 1 + 2] = LF
  <2>1. 1 \in 1..(3 - 1) /\ 2 \in 1..(3 - 1)
    OBVIOUS
  <2>2. QED
    BY <1>1, <1>4, <1>5, <2>1 DEF Lined
<1>8. ASSUME NEW p \in 1..((n + 1) * 3) PROVE A[p] = C[p]
  <2>1. PICK k \in 1..(n + 1), j \in 0..(3 - 1) : p = (k - 1) * 3 + 1 + j
    <3>1. n + 1 \in Nat /\ 3 \in {2, 3}
      BY <1>2
    <3>2. QED
      BY <3>1, InALine
  <2>2. A[p] = IF j = 0 THEN J[k] ELSE IF j = 1 THEN CR ELSE LF
    <3>1. j = 0 \/ j = 1 \/ j = 2
      OBVIOUS
    <3>2. (k - 1) * 3 + 1 + 0 = (k - 1) * 3 + 1
      BY <1>2
    <3>3. A[(k - 1) * 3 + 1] = J[k] /\ A[(k - 1) * 3 + 1 + 1] = CR /\ A[(k - 1) * 3 + 1 + 2] = LF
      BY <1>7
    <3>4. QED
      BY <2>1, <3>1, <3>2, <3>3
  <2>3. CASE k = 1
    <3>1. p = 1 + j /\ (j = 0 \/ j = 1 \/ j = 2)
      BY <2>1, <2>3
    <3>2. C[p] = IF j = 0 THEN f ELSE IF j = 1 THEN CR ELSE LF
      BY <1>3, <1>6, <3>1
    <3>3. QED
      BY <1>2, <2>2, <2>3, <3>2
  <2>4. CASE k # 1
    <3> DEFINE l == k - 1
    <3>1. l \in 1..n /\ l + 1 = k /\ p = 3 + ((l - 1) * 3 + 1 + j) /\ (l - 1) * 3 + 1 + j \in 1..(n * 3)
      BY <1>2, <2>1, <2>4
    <3> HIDE DEF l
    <3>2. C[p] = E[(l - 1) * 3 + 1 + j]
      BY <1>6, <1>7, <3>1
    <3>3. E[(l - 1) * 3 + 1 + j] = IF j = 0 THEN K[l] ELSE IF j = 1 THEN CR ELSE LF
      <4>1. j = 0 \/ j = 1 \/ j = 2
        OBVIOUS
      <4>2. (l - 1) * 3 + 1 + 0 = (l - 1) * 3 + 1
        BY <1>2, <3>1
      <4>3. E[(l - 1) * 3 + 1] = K[l] /\ E[(l - 1) * 3 + 1 + 1] = CR /\ E[(l - 1) * 3 + 1 + 2] = LF
        BY <1>7, <3>1
      <4>4. QED
        BY <4>1, <4>2, <4>3
    <3>4. J[k] = K[l]
      BY <1>2, <3>1
    <3>5. QED
      BY <2>2, <3>2, <3>3, <3>4
  <2>5. QED
    BY <2>3, <2>4
<1>9. Len(A) = Len(C) /\ Len(A) = (n + 1) * 3
  BY <1>2, <1>6, <1>7
<1>10. A = C
  BY <1>5, <1>6, <1>8, <1>9, SeqEqual
<1>11. QED
  BY <1>10 DEF A, B, C, E, J

LEMMA KeptSeq == ASSUME NEW lines, Len(lines) \in Nat PROVE Kept(lines) \in Seq(Nat)
<1> DEFINE S == {u \in DOMAIN Text : ~Is(u, {"proxy"})}
<1>1. S \subseteq Nat
  BY HandshakeAssumption
<1>2. Kept(lines) = Only(lines, S)
  BY DEF Kept
<1> HIDE DEF S
<1>3. Only(lines, S) \in Seq(S)
  BY OnlySeq
<1>4. QED
  BY <1>1, <1>2, <1>3, SeqMonotonic

\* What the proxy makes of a header is what the client's lines have to become.
LEMMA RewrittenIs ==
    ASSUME NEW request \in DOMAIN Text, NEW units, NEW L, Texts(units) = Tail(L), PassedOn(L) # <<>>,
           Len(Tail(L)) \in Nat
    PROVE  Rewritten(request, units)
           = HeaderOf(<<IF Is(request, {"absolute"}) THEN Text[request].path ELSE request>> \o PassedOn(L), CRLF)
<1> DEFINE f == IF Is(request, {"absolute"}) THEN Text[request].path ELSE request
           K == PassedOn(L)
<1>1. f \in Nat
  BY HandshakeAssumption
<1>2. K \in Seq(Nat)
  BY KeptSeq DEF PassedOn
<1>3. Kept(Texts(units)) = K
  BY DEF PassedOn
<1>4. K # <<>>
  OBVIOUS
<1>5. Rewritten(request, units) = <<f>> \o CRLF \o EachWith(Kept(Texts(units)), CRLF) \o CRLF
  BY <1>3, <1>4 DEF Rewritten
<1> HIDE DEF f, K
<1>6. EachWith(<<f>> \o K, CRLF) = <<f>> \o CRLF \o EachWith(K, CRLF)
  BY <1>1, <1>2, FirstAndOthers
<1>7. QED
  BY <1>3, <1>5, <1>6 DEF HeaderOf, f, K

-----------------------------------------------------------------------------
(* An HTTP client is understood *)

HttpRead(c, H) ==
    /\ wire \in Seq(Unit) /\ given \in Nat /\ given <= Len(wire) /\ Len(wire) \in Nat
    /\ buf = SubSeq(wire, 1, given) /\ buf \in Seq(Unit) /\ Len(buf) = given
    /\ \A i \in 1..given : buf[i] = wire[i]
    /\ HttpLaid(c, wire, H, Len(c.lines), Len(c.end) + 1)
    /\ H = Len(MessageOf(c)) /\ H \in Nat /\ H >= 3 /\ H <= Len(wire)
    /\ HeaderEnd(buf) = IF given < H THEN 0 ELSE H

LEMMA HttpBuf ==
    ASSUME HandshakeInv, NEW c, Http(c), Client(c), HttpInv(c), stage = "header"
    PROVE  HttpRead(c, Len(MessageOf(c)))
<1> DEFINE H == Len(MessageOf(c))
           n == Len(c.lines)
           w == Len(c.end) + 1
<1>1. wire \in Seq(Unit) /\ Len(wire) \in Nat /\ given \in 0..Len(wire)
  BY WireFacts DEF HandshakeInv
<1>2. buf = SubSeq(wire, 1, given)
  BY DEF HttpInv
<1>3. buf \in Seq(Unit) /\ Len(buf) = given /\ given \in Nat /\ \A i \in 1..given : buf[i] = wire[i]
  BY <1>1, <1>2, ReadIs
<1>4. HttpLaid(c, wire, H, n, w)
  <2>1. HttpLaid(c, Bytes(c), H, n, w)
    BY HttpIsLaid
  <2>2. Bytes(c) = wire
    BY DEF Client
  <2>3. QED
    BY <2>1, <2>2
<1> HIDE DEF H, n, w
<1>5. HasLines(wire, H, c.lines, n, w) /\ HasEnd(wire, H, w)
  BY <1>4 DEF HttpLaid
<1>6. HeaderEnd(SubSeq(wire, 1, given)) = IF given < H THEN 0 ELSE H
  BY <1>1, <1>5, HeaderEndIs
<1>7. H \in Nat /\ H >= 3 /\ H <= Len(wire)
  <2>1. n \in Nat \ {0} /\ w \in {2, 3} /\ H = n * w + (w - 1) /\ H \in Nat /\ H <= Len(wire)
    BY <1>5 DEF HasLines
  <2>2. CASE w = 2
    BY <2>1, <2>2
  <2>3. CASE w = 3
    BY <2>1, <2>3
  <2>4. QED
    BY <2>1, <2>2, <2>3
<1>8. given <= Len(wire)
  BY <1>1
<1>9. QED
  BY <1>1, <1>2, <1>3, <1>4, <1>6, <1>7, <1>8 DEF HttpRead, H, n, w

\* What the header shows when all of it was read.
HeaderShows(c, h, H) ==
    /\ h \in Seq(Unit) /\ Len(h) = H
    /\ c.lines[1] \in DOMAIN Text /\ c.lines \in Seq(DOMAIN Text) /\ c.lines # <<>>
    /\ FirstLineEnd(h) = 2 /\ Texts(SubSeq(h, 1, 2 - 1)) = <<c.lines[1]>>
    /\ HostLine(h) = LET hosts == {i \in 2..Len(c.lines) : Is(c.lines[i], {"host"})}
                     IN  IF hosts = {} THEN 0 ELSE c.lines[CHOOSE i \in hosts : \A j \in hosts : i <= j]
    /\ SubSeq(h, 2, Len(h)) \in Seq(Unit) /\ Texts(SubSeq(h, 2, Len(h))) = Tail(c.lines)

LEMMA HeaderIsShown ==
    ASSUME NEW c, Http(c), NEW H, HttpRead(c, H), given >= H
    PROVE  HeaderShows(c, SubSeq(buf, 1, H), H)
<1> DEFINE L == c.lines
           n == Len(L)
           w == Len(c.end) + 1
           h == SubSeq(buf, 1, H)
<1>1. /\ given \in Nat /\ buf \in Seq(Unit) /\ Len(buf) = given /\ \A i \in 1..given : buf[i] = wire[i]
      /\ HttpLaid(c, wire, H, n, w) /\ H \in Nat /\ H >= 3
  BY DEF HttpRead
<1>2. L \in Seq(DOMAIN Text) /\ L # <<>>
  BY HttpFacts
<1>3. L[1] \in DOMAIN Text
  BY <1>2
<1>4. h \in Seq(Unit) /\ Len(h) = H /\ \A i \in 1..H : h[i] = buf[i]
  <2>1. H \in 0..Len(buf)
    BY <1>1
  <2>2. QED
    BY <1>1, <2>1, ReadIs
<1> HIDE DEF w, h
<1>5. \A i \in 1..H : h[i] = wire[i]
  <2>1. \A i \in 1..H : i \in 1..given
    BY <1>1
  <2>2. QED
    BY <1>1, <1>4, <2>1
<1>6. h \in Seq(Nat)
  BY <1>4, UnitFacts
<1>7. HasLines(wire, H, L, n, w) /\ HasEnd(wire, H, w)
  BY <1>1 DEF HttpLaid
<1>8. HasLines(h, H, L, n, w) /\ HasEnd(h, H, w)
  BY <1>4, <1>5, <1>6, <1>7, Carried
<1>9. FirstLineEnd(h) = 2
  BY <1>4, <1>8, FirstLineIs
<1>10. HostLine(h) = LET hosts == {i \in 2..Len(L) : Is(L[i], {"host"})}
                     IN  IF hosts = {} THEN 0 ELSE L[CHOOSE i \in hosts : \A j \in hosts : i <= j]
  BY <1>4, <1>8, HostLineFound
<1>11. Texts(SubSeq(h, 2, H)) = Tail(L)
  BY <1>2, <1>4, <1>6, <1>8, TextsBehind
<1>12. h[1] = L[1]
  <2>1. n \in Nat \ {0} /\ w \in {2, 3} /\ \A k \in 1..n : h[(k - 1) * w + 1] = L[k]
    BY <1>8 DEF HasLines
  <2>2. 1 \in 1..n /\ (1 - 1) * w + 1 = 1
    BY <2>1
  <2>3. QED
    BY <2>1, <2>2
<1>13. Texts(SubSeq(h, 1, 2 - 1)) = <<L[1]>>
  <2>1. SubSeq(h, 1, 2 - 1) = <<h[1]>>
    <3> DEFINE s == SubSeq(h, 1, 2 - 1)
    <3>1. Len(h) >= 3 /\ Len(h) \in Nat /\ 2 - 1 = 1
      BY <1>1, <1>4
    <3>2. s \in Seq(Unit) /\ Len(s) = 1 /\ s[1] = h[1]
      BY <1>4, <3>1
    <3> HIDE DEF s
    <3>3. s = <<s[1]>>
      BY <3>2
    <3>4. s = <<h[1]>>
      BY <3>2, <3>3
    <3>5. QED
      BY <3>4 DEF s
  <2>2. Texts(<<L[1]>>) = <<L[1]>>
    BY <1>3, TextsOfOne
  <2>3. QED
    BY <1>12, <2>1, <2>2
<1>14. SubSeq(h, 2, H) \in Seq(Unit)
  BY <1>1, <1>4
<1>15. HeaderShows(c, h, H)
  BY <1>2, <1>3, <1>4, <1>9, <1>10, <1>11, <1>13, <1>14 DEF HeaderShows
<1>16. QED
  BY <1>15 DEF h

\* A whole header is refused when the client's message is not right, and else it
\* names whom the client asks for and leaves what the target has to get.
LEMMA HttpHeader ==
    ASSUME LinkInv, NEW c, Http(c), Client(c), HttpInv(c), Header, UNCHANGED tunnel, Says(c)
    PROVE  HttpInv(c)' /\ Says(c)' /\ Served(c)'
<1> DEFINE L == c.lines
           H == Len(MessageOf(c))
           h == SubSeq(buf, 1, HeaderEnd(buf))
           rest == SubSeq(buf, HeaderEnd(buf) + 1, Len(buf))
           end == FirstLineEnd(h)
           words == Texts(SubSeq(h, 1, end - 1))
           request == words[1]
           connect == Is(request, {"connect"})
           authority == IF Is(request, {"connect", "absolute"}) THEN request ELSE HostLine(h)
           host == Text[authority].host
           port == PortOf(authority, IF connect THEN 443 ELSE 80)
           rewritten == Rewritten(request, SubSeq(h, end, Len(h)))
<1>1. HandshakeInv /\ HandshakeTypeOK /\ tunnel = "idle" /\ stage = "header" /\ HeaderEnd(buf) # 0
  BY DEF LinkInv, HandshakeInv, TunnelInv, Header
<1>2. HttpRead(c, H)
  BY <1>1, HttpBuf
<1>3. HeaderEnd(buf) = H /\ given >= H /\ H \in Nat /\ H >= 3 /\ H <= Len(wire) /\ given \in Nat /\ Len(wire) \in Nat
      /\ given <= Len(wire)
  <2> HIDE DEF H
  <2>1. HeaderEnd(buf) = (IF given < H THEN 0 ELSE H) /\ H \in Nat /\ H >= 3 /\ given \in Nat
        /\ H <= Len(wire) /\ Len(wire) \in Nat /\ given <= Len(wire)
    BY <1>2 DEF HttpRead
  <2>2. QED
    BY <1>1, <2>1
<1>4. HeaderShows(c, SubSeq(buf, 1, H), H)
  BY <1>2, <1>3, HeaderIsShown
<1>5. HeaderShows(c, h, H)
  BY <1>3, <1>4
<1>6. /\ CASE words = <<>> \/ (Len(words) = 1 /\ Is(words[1], {"bare"})) -> Fails("400")
           [] words # <<>> /\ ~(Len(words) = 1 /\ Is(words[1], {"bare"})) ->
                CASE authority = 0 -> Fails("400")
                  [] authority # 0 /\ ~Encodable(host, port) -> Fails("none")
                  [] authority # 0 /\ Encodable(host, port) ->
                       /\ dst' = EncodeAddress(host, port)
                       /\ leftover' = IF connect THEN rest ELSE rewritten \o rest
                       /\ isConnect' = connect
                       /\ stage' = "done"
                       /\ Stay(<<buf, replies, replySent>>)
  BY DEF Header
<1> HIDE DEF h, H
<1>7. end = 2 /\ words = <<L[1]>> /\ L[1] \in DOMAIN Text /\ L \in Seq(DOMAIN Text) /\ L # <<>>
  BY <1>5 DEF HeaderShows
<1>8. request = L[1] /\ words # <<>> /\ Len(words) = 1
  BY <1>7
<1>9. HostLine(h) = LET hosts == {i \in 2..Len(L) : Is(L[i], {"host"})}
                    IN  IF hosts = {} THEN 0 ELSE L[CHOOSE i \in hosts : \A j \in hosts : i <= j]
  BY <1>5 DEF HeaderShows
<1> HIDE DEF words
<1>10. authority = Authority(L)
  BY <1>8, <1>9 DEF Authority
<1>11. connect = Connects(L)
  BY <1>8 DEF Connects
<1>12. port = AskedPort(L)
  BY <1>10, <1>11 DEF AskedPort
<1> DEFINE asked0 == Text[Authority(L)].host
<1>13. host = asked0
  BY <1>10
<1>14. rewritten = Rewritten(L[1], SubSeq(h, 2, Len(h)))
  BY <1>7, <1>8
<1> HIDE DEF request, connect, authority, host, port, end, rewritten, rest
<1>15. \/ Is(L[1], {"bare"}) /\ Fails("400")
       \/ Authority(L) = 0 /\ Fails("400")
       \/ Fails("none")
       \/ /\ ~Is(L[1], {"bare"}) /\ Authority(L) # 0 /\ Encodable(asked0, AskedPort(L))
          /\ dst' = EncodeAddress(asked0, AskedPort(L))
          /\ leftover' = IF connect THEN rest ELSE rewritten \o rest
          /\ stage' = "done"
          /\ Stay(<<buf, replies, replySent>>)
  BY <1>6, <1>7, <1>8, <1>10, <1>12, <1>13
<1>16. ASSUME Is(L[1], {"bare"}) \/ Authority(L) = 0 PROVE ~Right(c)
  <2>1. HttpAsks(L) = Refused
    BY <1>16 DEF HttpAsks
  <2>2. Asks(c) = Refused
    BY <2>1 DEF Asks, Http
  <2>3. QED
    BY <2>2 DEF Right
<1>17. CASE Fails("400") /\ (Is(L[1], {"bare"}) \/ Authority(L) = 0)
  BY <1>1, <1>16, <1>17, FailsServes
<1>18. CASE Fails("none")
  BY <1>1, <1>18, FailsServes
<1>19. CASE /\ ~Is(L[1], {"bare"}) /\ Authority(L) # 0 /\ Encodable(asked0, AskedPort(L))
            /\ dst' = EncodeAddress(asked0, AskedPort(L))
            /\ leftover' = IF connect THEN rest ELSE rewritten \o rest
            /\ stage' = "done"
            /\ Stay(<<buf, replies, replySent>>)
  <2>1. IsHost(asked0)
    <3>1. Authority(L) \in DOMAIN Text
      <4>1. CASE Is(L[1], {"connect", "absolute"})
        BY <1>7, <4>1 DEF Authority
      <4>2. CASE ~Is(L[1], {"connect", "absolute"})
        <5>1. Authority(L) = HostLine(h) /\ Len(h) \in Nat
          <6>1. Len(h) = H
            BY <1>5 DEF HeaderShows
          <6>2. QED
            BY <1>3, <1>9, <4>2, <6>1 DEF Authority
        <5>2. QED
          BY <1>19, <5>1, HostLineIs
      <4>3. QED
        BY <4>1, <4>2
    <3>2. QED
      BY <3>1, HandshakeAssumption
  <2> HIDE DEF asked0
  <2>2. ParseBrookDestination(dst') = ToAddress(HostType(asked0), HostBytes(asked0), AskedPort(L))
    BY <1>19, <2>1, AddressesAgree
  <2>3. Asks(c) = ToAddress(HostType(asked0), HostBytes(asked0), AskedPort(L))
    BY <1>19 DEF Asks, Http, HttpAsks, asked0
  <2>4. rest = SubSeq(wire, H + 1, given)
    <3>1. wire \in Seq(Unit) /\ buf = SubSeq(wire, 0 + 1, given) /\ Len(buf) = given
      <4>1. 0 + 1 = 1
        OBVIOUS
      <4>2. QED
        BY <1>2, <4>1 DEF HttpRead
    <3>2. 0 \in Nat /\ 0 <= given /\ H \in 0..(given - 0) /\ 0 + H = H
      BY <1>3
    <3>3. SubSeq(buf, H + 1, Len(buf)) = SubSeq(wire, (0 + H) + 1, given)
      BY <1>3, <3>1, <3>2, SliceFacts
    <3>4. QED
      BY <1>3, <3>2, <3>3 DEF rest
  <2>5. rest \o SubSeq(wire, given + 1, Len(wire)) = c.body
    <3>1. SubSeq(wire, H + 1, Len(wire)) = c.body /\ wire \in Seq(Unit)
      BY <1>2 DEF HttpRead, HttpLaid, BodyBehind
    <3>2. H + 1 \in 1..(Len(wire) + 1) /\ given \in ((H + 1) - 1)..Len(wire) /\ Len(wire) \in given..Len(wire)
      BY <1>3
    <3>3. SubSeq(wire, H + 1, given) \o SubSeq(wire, given + 1, Len(wire)) = SubSeq(wire, H + 1, Len(wire))
      BY <3>1, <3>2, ConcatAdjacentSubSeq
    <3>4. QED
      BY <2>4, <3>1, <3>3
  <2>6. ASSUME ~Bare(c) PROVE leftover' \o SubSeq(wire, given + 1, Len(wire)) = Upload(c)
    <3>1. CASE connect
      <4>1. ~Plain(c)
        BY <1>11, <3>1 DEF Plain
      <4>2. QED
        BY <1>19, <2>5, <3>1, <4>1 DEF Upload
    <3>2. CASE ~connect
      <4>1. Plain(c) /\ PassedOn(L) # <<>>
        BY <1>11, <2>6, <3>2 DEF Plain, Bare, Http
      <4> DEFINE units == SubSeq(h, 2, Len(h))
                 tail == SubSeq(wire, given + 1, Len(wire))
                 head == HeaderOf(<<IF Is(L[1], {"absolute"}) THEN Text[L[1]].path ELSE L[1]>> \o PassedOn(L), CRLF)
      <4>2. units \in Seq(Unit) /\ Texts(units) = Tail(L) /\ Len(Tail(L)) \in Nat
        <5>1. Len(Tail(L)) \in Nat
          BY <1>7
        <5>2. QED
          BY <1>5, <5>1 DEF HeaderShows
      <4>3. Rewritten(L[1], units) \in Seq(Nat) /\ rewritten = Rewritten(L[1], units)
        BY <1>7, <1>14, <4>2, RewrittenSeq
      <4>4. Rewritten(L[1], units) = head
        <5> HIDE DEF units
        <5>1. QED
          BY <1>7, <4>1, <4>2, RewrittenIs
      <4>5. rest \in Seq(Nat) /\ tail \in Seq(Nat)
        <5>1. wire \in Seq(Unit)
          BY <1>2 DEF HttpRead
        <5>2. wire \in Seq(Nat)
          BY <5>1, UnitFacts
        <5>3. SubSeq(wire, H + 1, given) \in Seq(Nat) /\ tail \in Seq(Nat)
          BY <1>3, <5>2
        <5>4. QED
          BY <2>4, <5>3
      <4> HIDE DEF units, tail, head
      <4>6. (rewritten \o rest) \o tail = rewritten \o (rest \o tail)
        BY <4>3, <4>5, JoinTwice
      <4>7. rest \o tail = c.body
        BY <2>5 DEF tail
      <4>8. Upload(c) = head \o c.body
        BY <4>1 DEF Upload, head
      <4>9. leftover' \o tail = Upload(c)
        BY <1>19, <3>2, <4>3, <4>4, <4>6, <4>7, <4>8
      <4>10. QED
        BY <4>9 DEF tail
    <3>3. QED
      BY <3>1, <3>2
  <2>7. stage' = "done" /\ wire' = wire /\ given' = given /\ replies' = replies /\ Taken' = leftover'
    BY <1>1, <1>19 DEF Stay, Taken
  <2>8. Served(c)'
    BY <2>2, <2>3, <2>6, <2>7 DEF Served
  <2>9. HttpInv(c)' /\ Says(c)'
    BY <2>7 DEF HttpInv, Says
  <2>10. QED
    BY <2>8, <2>9
<1>20. QED
  BY <1>15, <1>17, <1>18, <1>19

LEMMA HttpTooLarge ==
    ASSUME HandshakeInv, NEW c, Http(c), Client(c), HttpInv(c), TooLarge, Says(c)
    PROVE  HttpInv(c)' /\ Says(c)' /\ Served(c)'
<1> DEFINE H == Len(MessageOf(c))
<1>1. stage = "header" /\ HeaderEnd(buf) = 0 /\ Len(buf) > MAX_HEADER /\ Fails("431") /\ HandshakeTypeOK
  BY DEF TooLarge, HandshakeInv
<1>2. HttpRead(c, H)
  BY <1>1, HttpBuf
<1> HIDE DEF H
<1>3. Len(buf) = given /\ given \in Nat /\ H \in Nat /\ H >= 3 /\ (0 = IF given < H THEN 0 ELSE H)
  BY <1>1, <1>2 DEF HttpRead
<1>4. MAX_HEADER \in Nat
  BY HandshakeAssumption
<1>5. ~(H <= MAX_HEADER + 1)
  BY <1>1, <1>3, <1>4
<1>6. ~Right(c)
  BY <1>5 DEF Right, Http, H
<1>7. QED
  BY <1>1, <1>6, FailsServes

LEMMA HttpChunk ==
    ASSUME HandshakeInv, NEW c, HttpInv(c), NEW n \in Nat, Chunk(n) PROVE HttpInv(c)'
<1>1. CASE stage = "header"
  <2>1. buf = SubSeq(wire, 0 + 1, given) /\ 0 <= given /\ HandshakeTypeOK
    <3>1. given \in Nat /\ 0 + 1 = 1
      BY WireFacts DEF HandshakeInv
    <3>2. QED
      BY <1>1, <3>1 DEF HttpInv, HandshakeInv
  <2>2. buf' = SubSeq(wire', 0 + 1, given')
    BY <2>1, BufGrows
  <2>3. QED
    BY <2>2 DEF HttpInv
<1>2. CASE stage = "first"
  <2>1. buf = <<>> /\ given = 0 /\ HandshakeTypeOK
    BY <1>2 DEF HandshakeInv, Stages
  <2>2. SubSeq(wire, 0 + 1, 0) = <<>>
    BY <2>1, WireFacts
  <2>3. buf' = SubSeq(wire', 0 + 1, given')
    BY <2>1, <2>2, BufGrows
  <2>4. QED
    BY <2>3 DEF HttpInv
<1>3. CASE stage \notin {"first", "header"}
  <2>1. stage' # "header"
    BY <1>3 DEF Chunk
  <2>2. QED
    BY <2>1 DEF HttpInv
<1>4. QED
  BY <1>1, <1>2, <1>3

\* No step of the handshake, wherever the chunks begin and end, misunderstands an
\* HTTP client.
LEMMA HttpStep ==
    ASSUME LinkInv, NEW c, Http(c), Client(c), HttpInv(c), Says(c), HandshakeStep, UNCHANGED tunnel
    PROVE  HttpInv(c)' /\ Says(c)' /\ Served(c)'
<1>1. HandshakeInv /\ HandshakeTypeOK
  BY DEF LinkInv, HandshakeInv
<1>2. CASE \E n \in 1..Len(wire) : Chunk(n)
  <2>1. PICK n \in 1..Len(wire) : Chunk(n)
    BY <1>2
  <2>2. n \in Nat
    BY <1>1, WireFacts
  <2>3. HttpInv(c)'
    BY <1>1, <2>1, <2>2, HttpChunk
  <2>4. Says(c)' /\ Served(c)'
    BY <1>1, <2>1, <2>2, ChunkServes
  <2>5. QED
    BY <2>3, <2>4
<1>3. CASE Abandon
  BY <1>1, <1>3, FailsServes DEF Abandon
<1>4. CASE Version \/ Methods \/ Request \/ NameLength \/ Address
  <2>1. stage \in {"greeting", "methods", "request", "name", "address"}
    BY <1>4 DEF Version, Methods, Request, NameLength, Address, Has
  <2>2. type = "socks5"
    BY <1>1, <2>1 DEF HandshakeInv, Stages
  <2>3. FALSE
    BY <2>2 DEF Client, Http
  <2>4. QED
    BY <2>3
<1>5. CASE TooLarge
  BY <1>1, <1>5, HttpTooLarge
<1>6. CASE Header
  BY <1>6, HttpHeader
<1>7. QED
  BY <1>2, <1>3, <1>4, <1>5, <1>6 DEF HandshakeStep

-----------------------------------------------------------------------------
(* Every client is understood *)

LEMMA ClientStarts == ProxyInit => ClientInv
<1> SUFFICES ASSUME ProxyInit PROVE ClientInv
  OBVIOUS
<1>1. stage = "first" /\ given = 0 /\ buf = <<>> /\ replies = <<>>
  BY DEF ProxyInit, HandshakeInit
<1>2. HandshakeTypeOK
  BY HandshakeStarts DEF ProxyInit, HandshakeInv
<1>3. SubSeq(wire, 1, given) = <<>>
  BY <1>1, <1>2, WireFacts
<1>4. \A i \in DOMAIN replies : replies[i] \in Acceptable
  BY <1>1
<1>5. QED
  BY <1>1, <1>3, <1>4 DEF ClientInv, SocksInv, HttpInv, Says, Served

\* Whoever it is afterwards was it before.
LEMMA ClientWas == ASSUME [ProxyNext]_proxyVars, NEW c, Client(c)' PROVE Client(c)
<1>1. CASE HandshakeStep
  <2>1. wire' = wire /\ (UNCHANGED <<given, type>> \/ \E n \in 1..Len(wire) : Chunk(n))
    BY <1>1, StepIsBefore
  <2>2. type' = type \/ type = "auto"
    BY <2>1 DEF Chunk
  <2>3. QED
    BY <2>1, <2>2 DEF Client
<1>2. CASE UNCHANGED <<wire, type>>
  BY <1>2 DEF Client
<1>3. CASE Prelude \/ ClientCloses \/ UNCHANGED handshakeVars
  <2>1. UNCHANGED <<wire, type>>
    BY <1>3 DEF Prelude, ClientCloses, handshakeVars
  <2>2. QED
    BY <1>2, <2>1
<1>4. CASE ReadClient \/ NonceTaken \/ Failed
  <2>1. UNCHANGED <<wire, type>>
    BY <1>4 DEF ReadClient, NonceTaken, Failed, SendSuccess, SendFailure, Answer
  <2>2. QED
    BY <1>2, <2>1
<1>5. QED
  BY <1>1, <1>3, <1>4 DEF ProxyNext, proxyVars

\* What one client is promised.
Understood(c) ==
    /\ c.protocol = "socks5" => SocksInv(c)
    /\ c.protocol = "http" => HttpInv(c)
    /\ Says(c) /\ Served(c)

\* A step that leaves the handshake where it is.
LEMMA UnmovedUnderstood ==
    ASSUME NEW c, UNCHANGED <<wire, given, stage, buf, dst, replies>>, Taken' = Taken, Understood(c)
    PROVE  Understood(c)'
<1>1. Says(c)'
  BY DEF Understood, Says
<1>2. Served(c)'
  BY DEF Understood, Served
<1>3. c.protocol = "socks5" => SocksInv(c)'
  BY DEF Understood, SocksInv
<1>4. c.protocol = "http" => HttpInv(c)'
  BY DEF Understood, HttpInv
<1>5. QED
  BY <1>1, <1>2, <1>3, <1>4 DEF Understood

LEMMA DoneUnderstood ==
    ASSUME NEW c, stage' = "done", Says(c)', Served(c)' PROVE Understood(c)'
<1>1. SocksInv(c)' /\ HttpInv(c)'
  BY DEF SocksInv, HttpInv
<1>2. QED
  BY <1>1 DEF Understood

LEMMA ReadClientServes ==
    ASSUME LinkInv, NEW c, ReadClient, Understood(c) PROVE Understood(c)'
<1>1. PICK n \in 1..(Len(wire) - given) :
          /\ UpstreamReads(SubSeq(wire, given + 1, given + n))
          /\ given' = given + n
          /\ UNCHANGED <<wire, type, stage, buf, replies, dst, leftover, isConnect, replySent>>
  BY DEF ReadClient
<1> DEFINE chunk == SubSeq(wire, given + 1, given + n)
           rest == SubSeq(wire, (given + n) + 1, Len(wire))
<1>2. tunnel = "leftover" /\ tunnel' = "leftover" /\ sent' = sent \o chunk
  BY <1>1 DEF UpstreamReads, TunnelMayRead
<1>3. stage = "done" /\ sent \in Seq(Nat)
  BY <1>2 DEF LinkInv, TunnelInv
<1>4. wire \in Seq(Unit) /\ Len(wire) \in Nat /\ given \in 0..Len(wire)
  BY WireFacts DEF LinkInv, HandshakeInv
<1>5. wire \in Seq(Nat)
  BY <1>4, UnitFacts
<1>6. chunk \in Seq(Nat) /\ rest \in Seq(Nat)
  BY <1>4, <1>5
<1>7. chunk \o rest = SubSeq(wire, given + 1, Len(wire))
  <2>1. /\ given + 1 \in 1..(Len(wire) + 1) /\ given + n \in ((given + 1) - 1)..Len(wire)
        /\ Len(wire) \in (given + n)..Len(wire)
    BY <1>4
  <2>2. QED
    BY <1>4, <2>1, ConcatAdjacentSubSeq
<1> HIDE DEF chunk
<1>8. rest = SubSeq(wire', given' + 1, Len(wire'))
  BY <1>1
<1> HIDE DEF rest
<1>9. (sent \o chunk) \o rest = sent \o (chunk \o rest)
  BY <1>3, <1>6, JoinTwice
<1>10. Taken = sent /\ Taken' = sent \o chunk
  BY <1>2 DEF Taken
<1>11. ASSUME ~Bare(c) PROVE Taken' \o SubSeq(wire', given' + 1, Len(wire')) = Upload(c)
  <2>1. Taken \o SubSeq(wire, given + 1, Len(wire)) = Upload(c)
    BY <1>3, <1>11 DEF Understood, Served
  <2>2. QED
    BY <1>7, <1>8, <1>9, <1>10, <2>1
<1>12. Served(c)'
  BY <1>1, <1>3, <1>11 DEF Understood, Served
<1>13. Says(c)'
  BY <1>1 DEF Understood, Says
<1>14. stage' = "done"
  BY <1>1, <1>3
<1>15. QED
  BY <1>12, <1>13, <1>14, DoneUnderstood

LEMMA AppendedAre ==
    ASSUME NEW S, NEW A, NEW s \in Seq(S), NEW x \in S, x \in A, \A i \in DOMAIN s : s[i] \in A
    PROVE  \A i \in DOMAIN Append(s, x) : Append(s, x)[i] \in A
<1> DEFINE t == Append(s, x)
           n == Len(s)
<1>1. t \in Seq(S) /\ Len(t) = n + 1 /\ n \in Nat /\ (\A i \in 1..n : t[i] = s[i]) /\ t[n + 1] = x
  OBVIOUS
<1>2. DOMAIN s = 1..n /\ DOMAIN t = 1..(n + 1)
  <2>1. DOMAIN t = 1..Len(t)
    BY <1>1, LenProperties
  <2>2. DOMAIN s = 1..n
    BY LenProperties
  <2> HIDE DEF t, n
  <2>3. QED
    BY <1>1, <2>1, <2>2
<1> HIDE DEF t, n
<1>3. ASSUME NEW i \in 1..(n + 1) PROVE t[i] \in A
  <2>1. i \in 1..n \/ i = n + 1
    BY <1>1
  <2>2. QED
    BY <1>1, <1>2, <2>1
<1>4. QED
  BY <1>2, <1>3 DEF t

LEMMA AnswerServes ==
    ASSUME LinkInv, NEW c, NonceTaken \/ Failed, Understood(c) PROVE Understood(c)'
<1>1. UNCHANGED <<tunnel, sent>>
  BY FramingLeaves DEF NonceTaken, Failed, framingVars, clientVars
<1>2. \E says \in {"", "success", "failure"} : Answer(says)
  BY DEF NonceTaken, Failed, SendSuccess, SendFailure
<1>3. PICK says \in {"", "success", "failure"} : Answer(says)
  BY <1>2
<1>4. stage = "done" /\ UNCHANGED <<wire, given, stage, dst, leftover>>
      /\ replies' = IF says = "" THEN replies ELSE Append(replies, says)
  BY <1>3 DEF Answer
<1>5. Taken' = Taken
  BY <1>1, <1>4 DEF Taken
<1>6. Served(c)'
  BY <1>4, <1>5 DEF Understood, Served
<1>7. ASSUME Right(c) PROVE \A i \in DOMAIN replies' : replies'[i] \in Acceptable
  <2>1. \A i \in DOMAIN replies : replies[i] \in Acceptable
    BY <1>7 DEF Understood, Says
  <2>2. replies \in Seq(Codes)
    BY DEF LinkInv, HandshakeInv, HandshakeTypeOK, Codes
  <2>3. replies' = replies \/ (says \in Acceptable /\ replies' = Append(replies, says))
    BY <1>4 DEF Acceptable
  <2>4. CASE says \in Acceptable /\ replies' = Append(replies, says)
    <3>1. says \in Codes
      BY <2>4 DEF Acceptable, Codes
    <3>2. \A i \in DOMAIN Append(replies, says) : Append(replies, says)[i] \in Acceptable
      BY <2>1, <2>2, <2>4, <3>1, AppendedAre
    <3>3. QED
      BY <2>4, <3>2
  <2>5. QED
    BY <2>1, <2>3, <2>4
<1>8. Says(c)'
  BY <1>7 DEF Says
<1>9. stage' = "done"
  BY <1>4
<1>10. QED
  BY <1>6, <1>8, <1>9, DoneUnderstood

LEMMA StepServes ==
    ASSUME LinkInv, NEW c \in Clients, Client(c), Understood(c), HandshakeStep, UNCHANGED tunnel PROVE Understood(c)'
<1>1. c.protocol \in {"socks5", "http"}
  BY ClientsAssumption DEF Client
<1>2. Says(c)
  BY DEF Understood
<1>3. CASE c.protocol = "socks5"
  <2>1. Socks(c) /\ SocksInv(c)
    BY <1>3 DEF Socks, Understood
  <2>2. SocksInv(c)' /\ Says(c)' /\ Served(c)'
    BY <1>2, <2>1, SocksStep
  <2>3. QED
    BY <1>3, <2>2 DEF Understood
<1>4. CASE c.protocol = "http"
  <2>1. Http(c) /\ HttpInv(c)
    BY <1>4 DEF Http, Understood
  <2>2. HttpInv(c)' /\ Says(c)' /\ Served(c)'
    BY <1>2, <2>1, HttpStep
  <2>3. QED
    BY <1>4, <2>2 DEF Understood
<1>5. QED
  BY <1>1, <1>3, <1>4

LEMMA ClientKept == ASSUME ProxyInv, [ProxyNext]_proxyVars, NEW c \in Clients, Client(c)' PROVE Understood(c)'
<1>1. LinkInv /\ Client(c) /\ Understood(c)
  <2>1. Client(c)
    BY ClientWas
  <2>2. QED
    BY <2>1 DEF ProxyInv, ClientInv, Understood
<1>2. CASE HandshakeStep /\ UNCHANGED framingVars
  <2>1. UNCHANGED tunnel
    BY <1>2 DEF framingVars, clientVars
  <2>2. QED
    BY <1>1, <1>2, <2>1, StepServes
<1>3. CASE (FramingStep \/ UNCHANGED framingVars) /\ UNCHANGED handshakeVars
  <2>1. UNCHANGED <<tunnel, sent>>
    BY <1>3, FramingLeaves DEF framingVars, clientVars
  <2>2. UNCHANGED <<wire, given, stage, buf, dst, replies, leftover>>
    BY <1>3 DEF handshakeVars
  <2>3. Taken' = Taken
    BY <2>1, <2>2 DEF Taken
  <2>4. QED
    BY <1>1, <2>2, <2>3, UnmovedUnderstood
<1>4. CASE Prelude
  <2>1. UNCHANGED handshakeVars /\ (SendNonce \/ SendHeader(dst, leftover))
    BY <1>4 DEF Prelude
  <2>2. UNCHANGED <<wire, given, stage, buf, dst, replies, leftover>>
    BY <2>1 DEF handshakeVars
  <2>3. Taken' = Taken
    BY <2>1, <2>2 DEF Taken, SendNonce, SendHeader
  <2>4. QED
    BY <1>1, <2>2, <2>3, UnmovedUnderstood
<1>5. CASE ReadClient
  BY <1>1, <1>5, ReadClientServes
<1>6. CASE ClientCloses
  <2>1. UNCHANGED handshakeVars /\ tunnel = "leftover" /\ tunnel' = "fin" /\ UNCHANGED sent
    BY <1>6 DEF ClientCloses, TunnelFin, TunnelMayRead
  <2>2. UNCHANGED <<wire, given, stage, buf, dst, replies, leftover>>
    BY <2>1 DEF handshakeVars
  <2>3. Taken' = Taken
    BY <2>1, <2>2 DEF Taken
  <2>4. QED
    BY <1>1, <2>2, <2>3, UnmovedUnderstood
<1>7. CASE NonceTaken \/ Failed
  BY <1>1, <1>7, AnswerServes
<1>8. QED
  BY <1>2, <1>3, <1>4, <1>5, <1>6, <1>7 DEF ProxyNext, proxyVars

LEMMA ProxyInvKept == ProxyInv /\ [ProxyNext]_proxyVars => ProxyInv'
<1> SUFFICES ASSUME ProxyInv, [ProxyNext]_proxyVars PROVE ProxyInv'
  OBVIOUS
<1>1. LinkInv'
  BY LinkKept DEF ProxyInv
<1>2. ASSUME NEW c \in Clients, Client(c)' PROVE Understood(c)'
  BY <1>2, ClientKept
<1>3. ClientInv'
  BY <1>2 DEF ClientInv, Understood
<1>4. QED
  BY <1>1, <1>3 DEF ProxyInv

LEMMA ProxyInvHolds == ProxySpec => []ProxyInv
<1>1. ProxyInit => ProxyInv
  BY LinkStarts, ClientStarts DEF ProxyInv
<1>2. QED
  BY <1>1, ProxyInvKept, PTL DEF ProxySpec

-----------------------------------------------------------------------------
(* What the clients and their targets see of it *)

\* A whole message is not waited for.
LEMMA SocksIsNotAwaited ==
    ASSUME HandshakeInv, NEW c, Socks(c), Client(c), SocksInv(c), given >= Len(MessageOf(c)) PROVE ~Waits
<1> DEFINE G == GreetingLength(c)
           D == DestinationBytes(c.to)
           n == Len(c.to.host)
           h == HostAt(c.to)
<1>1. /\ wire \in Seq(Nat) /\ G \in Nat /\ given \in Nat /\ given <= Len(wire) /\ Len(wire) \in Nat
      /\ SocksLaid(c, wire, G, D)
      /\ stage \in {"first", "greeting", "methods"} => Len(buf) = given /\ \A i \in 1..given : buf[i] = wire[i]
      /\ stage \in {"request", "name", "address"} => given >= G /\ Len(buf) = given - G
  BY SocksBuf
<1>2. LaidOut(c.to, D, h, n) /\ n \in Nat
  BY SocksFacts
<1>3. Len(D) = h + n + 2 /\ h \in {1, 2} /\ (c.to.type = Domain => h = 2)
  BY <1>2 DEF LaidOut
<1>4. Len(MessageOf(c)) = G + 3 + Len(D)
  BY <1>1 DEF SocksLaid, MessageOf, Socks
<1> HIDE DEF G, D, n, h
<1>5. given >= G + 3 + Len(D) /\ Len(D) \in Nat /\ Len(D) >= 3 /\ (c.to.type = Domain => Len(D) >= 4) /\ G >= 2
  <2>1. G >= 2
    BY <1>1 DEF SocksLaid, G
  <2>2. QED
    BY <1>2, <1>3, <1>4, <2>1
<1>6. stage # "first"
  BY <1>1, <1>5 DEF HandshakeInv, Stages
<1>7. CASE stage \in {"greeting", "methods"}
  <2>1. Len(buf) = given /\ given >= 2 /\ buf[2] = wire[2]
    BY <1>1, <1>5, <1>7
  <2>2. wire[2] = Len(c.methods) /\ G = 2 + Len(c.methods)
    BY <1>1 DEF SocksLaid
  <2>3. Need = 2 \/ Need = G
    BY <1>7, <2>1, <2>2 DEF Need
  <2>4. ~(Len(buf) < Need)
    BY <1>1, <1>5, <2>1, <2>3
  <2>5. QED
    BY <1>7, <2>4 DEF Waits
<1>8. CASE stage = "request"
  <2>1. Need = 4
    BY <1>8 DEF Need
  <2>2. ~(Len(buf) < Need)
    BY <1>1, <1>5, <1>8, <2>1
  <2>3. QED
    BY <1>8, <2>2 DEF Waits
<1>9. CASE stage = "name"
  <2>1. Need = 5 /\ Len(buf) = given - G
    BY <1>1, <1>9 DEF Need
  <2>2. c.to.type = Domain
    <3>1. Len(buf) >= 4 /\ buf[4] = Domain
      BY <1>9 DEF HandshakeInv, Stages
    <3>2. buf[4] = c.to.type
      BY <1>9, <3>1, SocksRequestIs
    <3>3. QED
      BY <3>1, <3>2
  <2>3. ~(Len(buf) < Need)
    BY <1>1, <1>5, <2>1, <2>2
  <2>4. QED
    BY <1>9, <2>3 DEF Waits
<1>10. CASE stage = "address"
  <2>1. Need = 3 + Len(D)
    BY <1>10, SocksNeed DEF D
  <2>2. ~(Len(buf) < Need)
    BY <1>1, <1>5, <1>10, <2>1
  <2>3. QED
    BY <1>10, <2>2 DEF Waits
<1>11. CASE stage = "header"
  <2>1. type = "http"
    BY <1>11 DEF HandshakeInv, Stages
  <2>2. QED
    BY <2>1 DEF Client, Socks
<1>12. CASE stage \in {"done", "failed"}
  BY <1>12 DEF Waits
<1>13. QED
  BY <1>6, <1>7, <1>8, <1>9, <1>10, <1>11, <1>12 DEF HandshakeInv, HandshakeTypeOK

LEMMA HttpIsNotAwaited ==
    ASSUME HandshakeInv, NEW c, Http(c), Client(c), HttpInv(c), given >= Len(MessageOf(c)) PROVE ~Waits
<1> DEFINE H == Len(MessageOf(c))
<1>1. CASE stage = "header"
  <2>1. HttpRead(c, H)
    BY <1>1, HttpBuf
  <2>2. HeaderEnd(buf) = (IF given < H THEN 0 ELSE H) /\ H \in Nat /\ H >= 3 /\ given \in Nat /\ given >= H
    BY <2>1 DEF HttpRead
  <2> HIDE DEF H
  <2>3. HeaderEnd(buf) # 0
    BY <2>2
  <2>4. QED
    BY <1>1, <2>3 DEF Waits
<1>2. CASE stage = "first"
  <2>1. given = 0
    BY <1>2 DEF HandshakeInv, Stages
  <2>2. H \in Nat /\ H >= 3
    <3>1. HttpLaid(c, Bytes(c), H, Len(c.lines), Len(c.end) + 1)
      BY HttpIsLaid
    <3> DEFINE n == Len(c.lines)
               w == Len(c.end) + 1
    <3> HIDE DEF H, n, w
    <3>2. n \in Nat \ {0} /\ w \in {2, 3} /\ H = n * w + (w - 1) /\ H \in Nat
      BY <3>1 DEF HttpLaid, HasLines, n, w
    <3>3. CASE w = 2
      BY <3>2, <3>3
    <3>4. CASE w = 3
      BY <3>2, <3>4
    <3>5. QED
      BY <3>2, <3>3, <3>4
  <2>3. given >= H
    OBVIOUS
  <2> HIDE DEF H
  <2>4. QED
    BY <2>1, <2>2, <2>3
<1>3. CASE stage \in {"greeting", "methods", "request", "name", "address"}
  <2>1. type = "socks5"
    BY <1>3 DEF HandshakeInv, Stages
  <2>2. QED
    BY <2>1 DEF Client, Http
<1>4. CASE stage \in {"done", "failed"}
  BY <1>4 DEF Waits
<1>5. QED
  BY <1>1, <1>2, <1>3, <1>4 DEF HandshakeInv, HandshakeTypeOK

\* Who speaks is a client.
LEMMA WhoSpeaks ==
    ASSUME ProxyInv, NEW m \in Meanings, Speaks(m)
    PROVE  \E c \in Clients : m = Meaning(c) /\ Client(c) /\ Understood(c)
<1>1. PICK c \in {d \in Clients : d.protocol # "other"} : m = Meaning(c)
  BY DEF Meanings
<1>2. m.bytes = Bytes(c) /\ m.protocol = c.protocol
  BY <1>1 DEF Meaning
<1>3. Client(c)
  BY <1>1, <1>2 DEF Speaks, Client
<1>4. QED
  BY <1>1, <1>3 DEF ProxyInv, ClientInv, Understood

LEMMA NobodyIsDialled == ParseBrookDestination(<<>>) = Refused
<1>1. Len(<<>>) = 0
  OBVIOUS
<1>2. QED
  BY <1>1 DEF ParseBrookDestination

LEMMA TargetImplied == ASSUME ProxyInv, FramingTypeOK, UploadInOrder PROVE TargetAgrees
<1>1. HandshakeInv /\ TunnelInv
  BY DEF ProxyInv, LinkInv
<1>2. ProxyTypeOK
  BY <1>1 DEF ProxyTypeOK, HandshakeInv
<1>3. ASSUME NEW m \in Meanings, Speaks(m)
      PROVE  /\ given >= m.length => ~Waits
             /\ m.right => \A i \in DOMAIN replies : replies[i] \in {"no_auth", "success", "failure"}
             /\ target # Refused => target = m.asks
  <2>1. PICK c \in Clients : m = Meaning(c) /\ Client(c) /\ Understood(c)
    BY <1>3, WhoSpeaks
  <2>2. m.length = Len(MessageOf(c)) /\ m.right = Right(c) /\ m.asks = Asks(c)
    BY <2>1 DEF Meaning
  <2>3. c.protocol \in {"socks5", "http"}
    BY <2>1, ClientsAssumption DEF Client
  <2>4. ASSUME given >= m.length PROVE ~Waits
    <3>1. CASE c.protocol = "socks5"
      BY <1>1, <2>1, <2>2, <2>4, <3>1, SocksIsNotAwaited DEF Socks, Understood
    <3>2. CASE c.protocol = "http"
      BY <1>1, <2>1, <2>2, <2>4, <3>2, HttpIsNotAwaited DEF Http, Understood
    <3>3. QED
      BY <2>3, <3>1, <3>2
  <2>5. m.right => \A i \in DOMAIN replies : replies[i] \in {"no_auth", "success", "failure"}
    BY <2>1, <2>2 DEF Understood, Says, Acceptable
  <2>6. ASSUME target # Refused PROVE target = m.asks
    <3>1. target = ParseBrookDestination(asked)
      BY <2>6 DEF UploadInOrder
    <3>2. asked # <<>>
      BY <2>6, <3>1, NobodyIsDialled
    <3>3. asked = dst /\ stage = "done"
      BY <1>1, <3>2 DEF TunnelInv
    <3>4. ParseBrookDestination(dst) = Asks(c)
      BY <2>1, <3>3 DEF Understood, Served
    <3>5. QED
      BY <2>2, <3>1, <3>3, <3>4
  <2>7. QED
    BY <2>4, <2>5, <2>6
<1>4. QED
  BY <1>2, <1>3 DEF TargetAgrees

LEMMA UploadSeq == ASSUME NEW c \in Clients, c.protocol # "other" PROVE Upload(c) \in Seq(Nat)
<1>1. c.body \in Seq(Nat)
  BY ClientsAssumption, UnitFacts
<1>2. CASE Plain(c)
  <2> DEFINE L == c.lines
             f == IF Is(L[1], {"absolute"}) THEN Text[L[1]].path ELSE L[1]
             K == PassedOn(L)
             E == EachWith(<<f>> \o K, CRLF)
  <2>1. L \in Seq(DOMAIN Text) /\ L # <<>>
    BY <1>2, HttpFacts DEF Plain, Http
  <2>2. L[1] \in DOMAIN Text /\ Len(Tail(L)) \in Nat
    BY <2>1
  <2>3. f \in Nat
    BY <2>2, HandshakeAssumption
  <2>4. K \in Seq(Nat)
    BY <2>2, KeptSeq DEF PassedOn
  <2>5. Upload(c) = (E \o CRLF) \o c.body
    BY <1>2 DEF Upload, HeaderOf
  <2> HIDE DEF f, K
  <2>6. <<f>> \o K \in Seq(Nat) /\ CR \in Nat /\ LF \in Nat /\ CRLF \in {CRLF, <<LF>>} /\ CRLF \in Seq(Nat)
    BY <2>3, <2>4 DEF CR, LF, CRLF
  <2>7. E \in Seq(Nat)
    BY <2>6, EachWithFacts
  <2> HIDE DEF E
  <2>8. E \o CRLF \in Seq(Nat)
    BY <2>6, <2>7, ConcatProperties
  <2>9. (E \o CRLF) \o c.body \in Seq(Nat)
    BY <1>1, <2>8, ConcatProperties
  <2>10. QED
    BY <2>5, <2>9
<1>3. CASE ~Plain(c)
  BY <1>1, <1>3 DEF Upload
<1>4. QED
  BY <1>2, <1>3

LEMMA PrefixOfJoin ==
    ASSUME NEW X, NEW a \in Seq(X), NEW b \in Seq(X), NEW s \in Seq(X), IsPrefix(s, a) PROVE IsPrefix(s, a \o b)
<1> DEFINE n == Len(s)
<1>1. n <= Len(a) /\ SubSeq(s, 1, n) = SubSeq(a, 1, n) /\ n \in Nat /\ Len(a) \in Nat
  BY DEF IsPrefix
<1> HIDE DEF n
<1>2. n \in 0..Len(a)
  BY <1>1
<1>3. Len(a \o b) = Len(a) + Len(b) /\ SubSeq(a \o b, 1, n) = SubSeq(a, 1, n)
  BY <1>2, TakeFacts
<1>4. n <= Len(a \o b)
  BY <1>1, <1>3
<1>5. QED
  BY <1>1, <1>3, <1>4 DEF IsPrefix, n

LEMMA UploadImplied == ASSUME ProxyInv, FramingTypeOK, UploadInOrder PROVE UploadIsBody
<1>1. HandshakeInv /\ TunnelInv /\ sent \in Seq(Nat) /\ remote \in Seq(Nat)
  BY DEF ProxyInv, LinkInv, TunnelInv, FramingTypeOK
<1>2. IsPrefix(remote, sent) /\ (unsealed = <<>> /\ up = <<>> => remote = sent)
  BY DEF UploadInOrder
<1>3. wire \in Seq(Unit) /\ Len(wire) \in Nat /\ given \in 0..Len(wire)
  BY <1>1, WireFacts DEF HandshakeInv
<1>4. wire \in Seq(Nat)
  BY <1>3, UnitFacts
<1> DEFINE rest == SubSeq(wire, given + 1, Len(wire))
<1>5. rest \in Seq(Nat) /\ (given = Len(wire) => rest = <<>>)
  BY <1>3, <1>4
<1> HIDE DEF rest
<1>6. ASSUME NEW m \in Meanings, Speaks(m), ~m.bare
      PROVE  /\ IsPrefix(remote, m.upload)
             /\ tunnel = "fin" /\ unsealed = <<>> /\ up = <<>> => remote = m.upload
  <2>1. PICK c \in Clients : m = Meaning(c) /\ Client(c) /\ Understood(c)
    BY <1>6, WhoSpeaks
  <2>2. m.upload = Upload(c) /\ m.bare = Bare(c)
    BY <2>1 DEF Meaning, Bare
  <2>3. Upload(c) \in Seq(Nat)
    BY <2>1, UploadSeq DEF Client
  <2>4. CASE tunnel \in {"idle", "header"}
    <3>1. sent = <<>>
      BY <1>1, <2>4 DEF TunnelInv
    <3>2. remote = <<>>
      BY <1>1, <1>2, <3>1 DEF IsPrefix
    <3>3. IsPrefix(<<>>, Upload(c))
      BY <2>3 DEF IsPrefix
    <3>4. QED
      BY <2>2, <2>4, <3>2, <3>3
  <2>5. CASE tunnel \in {"leftover", "fin"}
    <3>1. stage = "done" /\ Taken = sent /\ (tunnel = "fin" => given = Len(wire))
      BY <1>1, <2>5 DEF TunnelInv, Taken
    <3>2. sent \o rest = Upload(c)
      BY <1>6, <2>1, <2>2, <3>1 DEF Understood, Served, rest
    <3>3. IsPrefix(remote, sent \o rest)
      BY <1>1, <1>2, <1>5, PrefixOfJoin
    <3>4. ASSUME tunnel = "fin", unsealed = <<>>, up = <<>> PROVE remote = Upload(c)
      <4>1. rest = <<>> /\ remote = sent
        BY <1>2, <1>5, <3>1, <3>4
      <4>2. sent \o <<>> = sent
        BY <1>1, ConcatEmptySeq
      <4>3. QED
        BY <3>2, <4>1, <4>2
    <3>5. QED
      BY <2>2, <3>2, <3>3, <3>4
  <2>6. QED
    BY <1>1, <2>4, <2>5 DEF TunnelInv
<1>7. QED
  BY <1>6 DEF UploadIsBody

-----------------------------------------------------------------------------
(* The proxied stream *)

\* Whatever the clients send and however it is cut: the handshake's variables keep
\* their types.
THEOREM HandshakeTypes == ProxySpec => []HandshakeTypeOK
<1>1. ProxyInv => HandshakeTypeOK
  BY DEF ProxyInv, LinkInv, HandshakeInv
<1>2. QED
  BY <1>1, ProxyInvHolds, PTL

\* The proxy's steps are ones of the stream of some client.
LEMMA StreamStepIsFraming == ASSUME HandshakeTypeOK, [ProxyNext]_proxyVars PROVE [FramingNext]_framingVars
<1>1. ASSUME HandshakeStep, UNCHANGED framingVars PROVE UNCHANGED framingVars
  BY <1>1
<1>2. CASE FramingStep
  BY <1>2 DEF FramingNext
<1>3. CASE Prelude
  <2>1. dst \in Seq(Nat) /\ leftover \in Seq(Nat)
    BY DEF HandshakeTypeOK
  <2>2. SendNonce \/ SendHeader(dst, leftover)
    BY <1>3 DEF Prelude
  <2>3. QED
    BY <2>1, <2>2 DEF FramingNext
<1>4. CASE ReadClient
  <2>1. PICK n \in 1..(Len(wire) - given) : UpstreamReads(SubSeq(wire, given + 1, given + n))
    BY <1>4 DEF ReadClient
  <2>2. wire \in Seq(Nat) /\ given \in 0..Len(wire)
    BY WireFacts, UnitFacts
  <2>3. SubSeq(wire, given + 1, given + n) \in Seq(Nat)
    BY <2>1, <2>2
  <2>4. QED
    BY <2>1, <2>3 DEF FramingNext
<1>5. CASE ClientCloses
  BY <1>5 DEF ClientCloses, FramingNext
<1>6. CASE NonceTaken
  BY <1>6 DEF NonceTaken, FramingNext
<1>7. CASE Failed
  BY <1>7 DEF Failed
<1>8. CASE UNCHANGED proxyVars
  BY <1>8 DEF proxyVars
<1>9. QED
  BY <1>1, <1>2, <1>3, <1>4, <1>5, <1>6, <1>7, <1>8 DEF ProxyNext

\* The stream behind a handshake is a stream of the framing: the destination and
\* the leftover that the handshake makes of the client's first bytes are
\* sequences of bytes, and so is all that is read later.
THEOREM ProxyStreamIsFraming == ProxySpec => FramingSpec
<1>1. ProxyInit => FramingInit
  BY DEF ProxyInit
<1>2. HandshakeTypeOK /\ [ProxyNext]_proxyVars => [FramingNext]_framingVars
  BY StreamStepIsFraming
<1>3. QED
  BY <1>1, <1>2, HandshakeTypes, PTL DEF ProxySpec, FramingSpec

\* So the bytes of a proxied client are in order, too.
THEOREM ProxyStreamBytesInOrder == ProxySpec => []BytesInOrder
<1>1. QED
  BY ProxyStreamIsFraming, BytesInOrderHolds, PTL

LEMMA ProxyStreamTypes == ProxySpec => []FramingTypeOK
<1>1. QED
  BY ProxyStreamIsFraming, FramingInvHolds, FramingTypes, PTL

\* Whatever SOCKS5 requests and HTTP headers the clients send, in whichever form
\* they name the target and wherever the chunks end: a whole message is never
\* waited for, a right one never called wrong, and the server dials nobody
\* but whom the client asked for.
THEOREM TargetAgreesHolds == ProxySpec => []TargetAgrees
<1>1. BytesInOrder => UploadInOrder
  BY DEF BytesInOrder
<1>2. QED
  BY <1>1, TargetImplied, ProxyInvHolds, ProxyStreamTypes, ProxyStreamBytesInOrder, PTL

\* And the target gets the client's bytes behind the message, a plain HTTP request
\* in origin form before them, and nothing else: whole, in order, and all of
\* them after a clean end.  This is for every client but the one whose plain
\* request has no header line to pass on, which the code does not rewrite well.
THEOREM UploadIsBodyHolds == ProxySpec => []UploadIsBody
<1>1. BytesInOrder => UploadInOrder
  BY DEF BytesInOrder
<1>2. QED
  BY <1>1, UploadImplied, ProxyInvHolds, ProxyStreamTypes, ProxyStreamBytesInOrder, PTL
=============================================================================
