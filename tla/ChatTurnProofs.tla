--------------------------- MODULE ChatTurnProofs ---------------------------
(***************************************************************************)
(* Proofs about ChatTurn, for any requests, sessions, streams and stored   *)
(* turns, any number of iterations, and any size of the window, the queue  *)
(* and the message store.                                                  *)
(***************************************************************************)
EXTENDS ChatTurn, FiniteSetTheorems, SequenceTheorems, TLAPS

(* Sequences *)

LEMMA EntryOfSeq ==
  ASSUME NEW S, NEW s \in Seq(S), NEW i \in DOMAIN s
  PROVE  s[i] \in S
OBVIOUS

LEMMA SetOfSeq ==
  ASSUME NEW S, NEW s \in Seq(S)
  PROVE  /\ Len(s) \in Nat /\ DOMAIN s = 1..Len(s)
         /\ ToSet(s) \subseteq S
         /\ \A x : x \in ToSet(s) <=> \E i \in 1..Len(s) : s[i] = x
BY DEF ToSet

(* A piece of a sequence.                                                  *)
LEMMA PieceProps ==
  ASSUME NEW S, NEW s \in Seq(S), NEW m \in Nat \ {0}, NEW n \in Nat,
         m <= n + 1, n <= Len(s)
  PROVE  /\ SubSeq(s, m, n) \in Seq(S)
         /\ Len(SubSeq(s, m, n)) = n - m + 1
         /\ \A i \in 1..(n - m + 1) : SubSeq(s, m, n)[i] = s[m + i - 1]
<1>1. \A i \in m..n : s[i] \in S
  OBVIOUS
<1>2. m \in Int /\ n \in Int
  OBVIOUS
<1>3. /\ SubSeq(s, m, n) \in Seq(S)
      /\ Len(SubSeq(s, m, n)) = IF m <= n THEN n - m + 1 ELSE 0
      /\ \A i \in 1..(n - m + 1) : SubSeq(s, m, n)[i] = s[m + i - 1]
  BY <1>1, <1>2, SubSeqProperties
<1>4. (IF m <= n THEN n - m + 1 ELSE 0) = n - m + 1
  OBVIOUS
<1>5. QED
  BY <1>3, <1>4

(* A sequence is what it is cut into.                                      *)
LEMMA CutProps ==
  ASSUME NEW S, NEW s \in Seq(S), NEW k \in 0..Len(s)
  PROVE  /\ SubSeq(s, 1, k) \in Seq(S) /\ Len(SubSeq(s, 1, k)) = k
         /\ SubSeq(s, k + 1, Len(s)) \in Seq(S)
         /\ SubSeq(s, 1, k) \o SubSeq(s, k + 1, Len(s)) = s
<1>0. Len(s) \in Nat /\ k \in Nat /\ k <= Len(s)
  OBVIOUS
<1>1. SubSeq(s, 1, k) \in Seq(S) /\ Len(SubSeq(s, 1, k)) = k
  <2>1. 1 \in Nat \ {0} /\ 1 <= k + 1 /\ k - 1 + 1 = k
    BY <1>0
  <2>2. SubSeq(s, 1, k) \in Seq(S) /\ Len(SubSeq(s, 1, k)) = k - 1 + 1
    BY <1>0, <2>1, PieceProps
  <2>3. QED
    BY <2>1, <2>2
<1>2. SubSeq(s, k + 1, Len(s)) \in Seq(S)
  <2>1. \A i \in (k + 1)..Len(s) : s[i] \in S
    BY <1>0
  <2>2. k + 1 \in Int /\ Len(s) \in Int
    BY <1>0
  <2>3. QED
    BY <2>1, <2>2, SubSeqProperties
<1>3. SubSeq(s, 1, k) \o SubSeq(s, k + 1, Len(s)) = SubSeq(s, 1, Len(s))
  <2>1. 1 \in 1..(Len(s) + 1) /\ k \in (1 - 1)..Len(s) /\ Len(s) \in k..Len(s)
    BY <1>0
  <2>2. QED
    BY <2>1, ConcatAdjacentSubSeq
<1>4. QED
  BY <1>1, <1>2, <1>3, SubSeqFull

(* As much of a sequence as there is room for, and the rest.               *)
Fitting(s, room) == SubSeq(s, 1, Smaller(room, Len(s)))
Waiting(s, room) == SubSeq(s, room + 1, Len(s))

LEMMA RoomProps ==
  ASSUME NEW S, NEW s \in Seq(S), NEW room \in Nat
  PROVE  /\ Fitting(s, room) \in Seq(S) /\ Len(Fitting(s, room)) <= room
         /\ Waiting(s, room) \in Seq(S)
         /\ s = Fitting(s, room) \o Waiting(s, room)
         /\ Len(s) <= room => Waiting(s, room) = <<>>
<1>1. Len(s) \in Nat
  OBVIOUS
<1>2. CASE room < Len(s)
  <2>1. Smaller(room, Len(s)) = room /\ room \in 0..Len(s) /\ ~(Len(s) <= room)
    BY <1>1, <1>2 DEF Smaller
  <2>2. /\ SubSeq(s, 1, room) \in Seq(S) /\ Len(SubSeq(s, 1, room)) = room
        /\ SubSeq(s, room + 1, Len(s)) \in Seq(S)
        /\ SubSeq(s, 1, room) \o SubSeq(s, room + 1, Len(s)) = s
    BY ONLY s \in Seq(S), <2>1, CutProps
  <2>3. Fitting(s, room) = SubSeq(s, 1, room)
    BY <2>1 DEF Fitting
  <2>4. Waiting(s, room) = SubSeq(s, room + 1, Len(s))
    BY DEF Waiting
  <2>5. Len(Fitting(s, room)) <= room
    BY <2>2, <2>3
  <2>6. QED
    BY <2>1, <2>2, <2>3, <2>4, <2>5, Zenon
<1>3. CASE ~(room < Len(s))
  <2>1. Smaller(room, Len(s)) = Len(s) /\ Len(s) < room + 1 /\ Len(s) <= room
    BY <1>1, <1>3 DEF Smaller
  <2>2. Fitting(s, room) = s
    BY <2>1, SubSeqFull DEF Fitting
  <2>3. Waiting(s, room) = <<>>
    BY <1>1, <2>1, SubSeqEmpty DEF Waiting
  <2>4. s \o <<>> = s
    BY ConcatEmptySeq
  <2>5. <<>> \in Seq(S)
    OBVIOUS
  <2>6. QED
    BY <2>1, <2>2, <2>3, <2>4, <2>5, Zenon
<1>4. QED
  BY <1>2, <1>3

LEMMA Regroup ==
  ASSUME NEW S, NEW q \in Seq(S), NEW a \in Seq(S), NEW b \in Seq(S),
         NEW e, e = a \o b
  PROVE  (q \o a) \o b = q \o e
BY ConcatAssociative

(* The latest elements of a sequence.                                      *)
LEMMA CappedProps ==
  ASSUME NEW S, NEW s \in Seq(S), NEW n \in Nat \ {0}
  PROVE  LET r == Capped(s, n)
             d == IF Len(s) > n THEN Len(s) - n ELSE 0
         IN  /\ r \in Seq(S) /\ Len(r) = Len(s) - d /\ Len(r) <= n
             /\ d \in Nat /\ \A i \in 1..Len(r) : r[i] = s[i + d]
             /\ ToSet(r) \subseteq ToSet(s)
             /\ IsInjective(s) => IsInjective(r)
<1> DEFINE r == Capped(s, n)
           d == IF Len(s) > n THEN Len(s) - n ELSE 0
           L == Len(s)
<1>1. L \in Nat /\ DOMAIN s = 1..L
  OBVIOUS
<1>2. /\ r \in Seq(S) /\ Len(r) = L - d /\ d \in 0..L /\ L - d <= n
      /\ \A i \in 1..(L - d) : r[i] = s[i + d]
  <2>1. CASE L > n
    <3>1. d = L - n /\ r = SubSeq(s, L - n + 1, L)
      BY <2>1 DEF Capped, Newest
    <3>2. /\ L - n + 1 \in Nat \ {0} /\ L - n + 1 <= L + 1 /\ L <= Len(s)
          /\ L - (L - n + 1) + 1 = n
          /\ \A i \in 1..n : (L - n + 1) + i - 1 = i + (L - n)
      BY <1>1, <2>1
    <3>3. /\ SubSeq(s, L - n + 1, L) \in Seq(S)
          /\ Len(SubSeq(s, L - n + 1, L)) = L - (L - n + 1) + 1
          /\ \A i \in 1..(L - (L - n + 1) + 1) :
               SubSeq(s, L - n + 1, L)[i] = s[(L - n + 1) + i - 1]
      BY <1>1, <3>2, PieceProps
    <3>4. L - d = n /\ d \in 0..L
      BY <1>1, <2>1, <3>1
    <3>5. \A i \in 1..n : SubSeq(s, L - n + 1, L)[i] = s[i + (L - n)]
      BY <3>2, <3>3
    <3>6. r \in Seq(S) /\ Len(r) = n
      BY <3>1, <3>2, <3>3
    <3> HIDE DEF L, d, r
    <3>7. \A i \in 1..n : r[i] = s[i + d]
      BY <3>1, <3>5
    <3>8. QED
      BY <3>4, <3>6, <3>7
  <2>2. CASE ~(L > n)
    BY <1>1, <2>2 DEF Capped
  <2>3. QED
    BY <2>1, <2>2
<1> HIDE DEF r, d, L
<1>3. DOMAIN r = 1..(L - d) /\ \A i \in 1..(L - d) : i + d \in 1..L
  BY <1>1, <1>2
<1>4. ToSet(r) \subseteq ToSet(s)
  BY <1>1, <1>2, <1>3 DEF ToSet
<1>5. IsInjective(s) => IsInjective(r)
  <2>1. SUFFICES ASSUME IsInjective(s), NEW i \in 1..(L - d), NEW j \in 1..(L - d),
                        r[i] = r[j]
                 PROVE  i = j
    BY <1>3 DEF IsInjective
  <2>2. s[i + d] = s[j + d] /\ i + d \in DOMAIN s /\ j + d \in DOMAIN s
    BY <1>1, <1>2, <1>3, <2>1
  <2>3. i + d = j + d
    BY <2>1, <2>2 DEF IsInjective
  <2>4. QED
    BY <1>1, <1>2, <2>3
<1>6. QED
  BY <1>1, <1>2, <1>4, <1>5 DEF r, d, L

(* A new element behind the others.                                        *)
LEMMA BehindProps ==
  ASSUME NEW S, NEW s \in Seq(S), NEW e \in S
  PROVE  /\ Append(s, e) \in Seq(S) /\ Len(Append(s, e)) = Len(s) + 1
         /\ \A i \in 1..Len(s) : Append(s, e)[i] = s[i]
         /\ Append(s, e)[Len(s) + 1] = e
         /\ ToSet(Append(s, e)) = ToSet(s) \cup {e}
         /\ IsInjective(s) /\ e \notin ToSet(s) => IsInjective(Append(s, e))
<1> DEFINE n == Len(s)
           r == Append(s, e)
<1>1. /\ n \in Nat /\ DOMAIN s = 1..n /\ r \in Seq(S) /\ Len(r) = n + 1
      /\ DOMAIN r = 1..(n + 1) /\ \A i \in 1..n : r[i] = s[i]
      /\ r[n + 1] = e
  OBVIOUS
<1> HIDE DEF n, r
<1>2. ToSet(r) = ToSet(s) \cup {e}
  BY <1>1 DEF ToSet
<1>3. ASSUME IsInjective(s), e \notin ToSet(s)
      PROVE  IsInjective(r)
  <2>1. \A i, j \in 1..n : s[i] = s[j] => i = j
    BY <1>1, <1>3 DEF IsInjective
  <2>2. \A i \in 1..n : s[i] # e
    BY <1>1, <1>3 DEF ToSet
  <2>3. QED
    BY <1>1, <2>1, <2>2 DEF IsInjective
<1>4. QED
  BY <1>1, <1>2, <1>3 DEF n, r

LEMMA CountTo ==
  ASSUME NEW n \in Nat
  PROVE  IsFiniteSet(1..n) /\ Cardinality(1..n) = n
<1>1. IsFiniteSet(1..n) /\ Cardinality(1..n) = IF 1 > n THEN 0 ELSE n - 1 + 1
  BY FS_Interval
<1>2. (IF 1 > n THEN 0 ELSE n - 1 + 1) = n
  OBVIOUS
<1>3. QED
  BY <1>1, <1>2

(* What is left of a sequence when some elements are taken out: the        *)
(* others, each at a place of its own.                                     *)
LEMMA WithoutProps ==
  ASSUME NEW S, NEW q \in Seq(S), NEW M
  PROVE  /\ Without(q, M) \in Seq(S) /\ Len(Without(q, M)) <= Len(q)
         /\ ToSet(Without(q, M)) \subseteq ToSet(q)
         /\ IsInjective(q) => IsInjective(Without(q, M))
<1> DEFINE left == {i \in DOMAIN q : q[i] \notin M}
           upto(i) == {j \in left : j <= i}
           rank == [i \in left |-> Cardinality(upto(i))]
           N == Cardinality(left)
           Place(n) == CHOOSE i \in left : Cardinality(upto(i)) = n
           r == Without(q, M)
<1>1. Len(q) \in Nat /\ DOMAIN q = 1..Len(q) /\ left \subseteq 1..Len(q)
  OBVIOUS
<1>2. /\ IsFiniteSet(left) /\ N \in Nat /\ N <= Len(q)
  <2>1. IsFiniteSet(1..Len(q)) /\ Cardinality(1..Len(q)) = Len(q)
    BY <1>1, CountTo
  <2>2. IsFiniteSet(left) /\ Cardinality(left) <= Cardinality(1..Len(q))
    BY <1>1, <2>1, FS_Subset
  <2>3. QED
    BY <2>1, <2>2, FS_CardinalityType
<1>3. r = [n \in 1..N |-> q[Place(n)]]
  BY DEF Without
<1> HIDE DEF left, N, r
<1>4. \A i \in left : upto(i) \subseteq left /\ i \in upto(i) /\ IsFiniteSet(upto(i))
  <2>1. SUFFICES ASSUME NEW i \in left
                 PROVE  upto(i) \subseteq left /\ i \in upto(i) /\ IsFiniteSet(upto(i))
    OBVIOUS
  <2>2. upto(i) \subseteq left /\ i \in upto(i)
    BY <1>1
  <2>3. QED
    BY <1>2, <2>2, FS_Subset
<1>5. \A i \in left : rank[i] \in 1..N
  <2>1. SUFFICES ASSUME NEW i \in left PROVE rank[i] \in 1..N
    OBVIOUS
  <2>2. Cardinality(upto(i)) \in Nat /\ Cardinality(upto(i)) <= N
    BY <1>2, <1>4, FS_Subset, FS_CardinalityType DEF N
  <2>3. Cardinality(upto(i)) # 0
    BY <1>4, FS_EmptySet
  <2>4. QED
    BY <1>2, <2>2, <2>3
<1>6. \A i, j \in left : rank[i] = rank[j] => i = j
  <2>1. ASSUME NEW i \in left, NEW j \in left, i < j
        PROVE  Cardinality(upto(i)) # Cardinality(upto(j))
    <3>1. upto(i) \subseteq upto(j) /\ j \notin upto(i)
      <4>1. i \in Nat /\ j \in Nat /\ \A k \in left : k \in Nat
        BY <1>1
      <4>2. ~(j <= i) /\ \A k \in left : k <= i => k <= j
        BY <2>1, <4>1
      <4>3. QED
        BY <4>2
    <3>2. QED
      BY <1>4, <3>1, FS_Subset
  <2>2. \A i, j \in left : i < j => rank[i] # rank[j]
    BY <2>1
  <2> HIDE DEF rank
  <2>3. QED
    BY <1>1, <2>2
<1>7. \A n \in 1..N : \E i \in left : Cardinality(upto(i)) = n
  <2>1. rank \in Injection(left, 1..N)
    BY <1>5, <1>6 DEF Injection, IsInjective
  <2>2. IsFiniteSet(1..N) /\ Cardinality(1..N) = N
    BY <1>2, CountTo
  <2>3. rank \in Surjection(left, 1..N)
    BY <2>1, <2>2, FS_Injection DEF N
  <2>4. QED
    BY <2>3 DEF Surjection
<1>8. \A n \in 1..N : Place(n) \in left /\ Cardinality(upto(Place(n))) = n
  BY <1>7
<1> HIDE DEF Place, upto
<1>9. \A n \in 1..N : Place(n) \in DOMAIN q /\ q[Place(n)] \in S
  <2>1. SUFFICES ASSUME NEW n \in 1..N PROVE Place(n) \in DOMAIN q /\ q[Place(n)] \in S
    OBVIOUS
  <2>2. Place(n) \in DOMAIN q
    BY <1>1, <1>8
  <2>3. QED
    BY <2>2, EntryOfSeq
<1>10. r \in Seq(S) /\ Len(r) = N /\ DOMAIN r = 1..N
  BY <1>2, <1>3, <1>9
<1>11. \A n \in 1..N : r[n] = q[Place(n)]
  BY <1>3
<1>12. ToSet(r) \subseteq ToSet(q)
  BY <1>9, <1>10, <1>11 DEF ToSet
<1>13. IsInjective(q) => IsInjective(r)
  BY <1>8, <1>9, <1>10, <1>11 DEF IsInjective
<1>14. QED
  BY <1>2, <1>10, <1>12, <1>13 DEF r

(* As many different elements as places.                                   *)
LEMMA CountInjective ==
  ASSUME NEW S, NEW s \in Seq(S), IsInjective(s)
  PROVE  IsFiniteSet(ToSet(s)) /\ Cardinality(ToSet(s)) = Len(s)
<1>1. Len(s) \in Nat /\ s \in [1..Len(s) -> ToSet(s)]
  BY DEF ToSet
<1>2. IsFiniteSet(1..Len(s)) /\ Cardinality(1..Len(s)) = Len(s)
  BY <1>1, CountTo
<1>3. s \in Surjection(1..Len(s), ToSet(s))
  BY <1>1 DEF Surjection, ToSet
<1>4. s \in Injection(1..Len(s), ToSet(s))
  BY <1>1 DEF Injection, IsInjective
<1>5. QED
  BY <1>2, <1>3, <1>4, FS_Surjection

(* The first part of a sequence.                                           *)
LEMMA FirstPart ==
  ASSUME NEW S, NEW a \in Seq(S), NEW b \in Seq(S)
  PROVE  /\ IsPrefix(a, a \o b)
         /\ \A x : Contains(a, x) => Contains(a \o b, x)
<1>1. /\ a \o b \in Seq(S) /\ Len(a \o b) = Len(a) + Len(b)
      /\ \A i \in 1..(Len(a) + Len(b)) :
           (a \o b)[i] = IF i <= Len(a) THEN a[i] ELSE b[i - Len(a)]
  BY ConcatProperties
<1>2. Len(a) \in Nat /\ Len(b) \in Nat
  OBVIOUS
<1>3. \A i \in 1..Len(a) : (a \o b)[i] = a[i] /\ i \in 1..Len(a \o b)
  BY <1>1, <1>2
<1>4. SubSeq(a, 1, Len(a)) = SubSeq(a \o b, 1, Len(a))
  <2>1. CASE Len(a) = 0
    BY <1>2, <2>1, SubSeqEmpty
  <2>2. CASE Len(a) # 0
    BY <1>2, <2>2, SubSeqOfConcat1
  <2>3. QED
    BY <2>1, <2>2
<1>5. QED
  BY <1>1, <1>2, <1>3, <1>4 DEF IsPrefix, Contains

-----------------------------------------------------------------------------
(* What the parts of the actions do                                        *)

LEMMA Scripts ==
  /\ Opening \in Seq(Events) /\ Len(Opening) = 3
  /\ Closing \in Seq(Events)
  /\ \A n \in Nat : ToolCalls(n) \in Seq(Events)
  /\ <<>> \in Seq(Events) /\ <<"error", "__end__">> \in Seq(Events)
  /\ <<"__end__">> \in Seq(Events)
<1>1. \A n \in Nat : ToolCalls(n) \in Seq(Events)
  BY DEF ToolCalls, Events
<1>2. Opening \in Seq(Events) /\ Len(Opening) = 3
  BY DEF Opening, Events
<1>3. Closing \in Seq(Events)
  BY DEF Closing, Events
<1>4. QED
  BY <1>1, <1>2, <1>3 DEF Events

QueueTyped ==
  /\ put \in [Turns -> Seq(Events)]
  /\ queue \in [Turns -> Seq(Events)] /\ \A t \in Turns : Len(queue[t]) <= QueueMax

(* What is put is in the queue or waits, in its order; nothing waits if    *)
(* there is room.                                                          *)
LEMMA SendProps ==
  ASSUME QueueTyped, NEW t \in Turns, NEW events \in Seq(Events), Send(t, events)
  PROVE  /\ QueueTyped'
         /\ queue'[t] \o put'[t] = queue[t] \o events
         /\ Fits(t, events) => put'[t] = <<>>
         /\ \A u \in Turns \ {t} : queue'[u] = queue[u] /\ put'[u] = put[u]
<1> DEFINE room == Room(t)
           now == Fitting(events, room)
           rest == Waiting(events, room)
<1>1. /\ queue[t] \in Seq(Events) /\ Len(queue[t]) \in Nat /\ QueueMax \in Nat
      /\ room \in Nat /\ room = QueueMax - Len(queue[t])
  <2>1. queue[t] \in Seq(Events) /\ Len(queue[t]) <= QueueMax
    BY DEF QueueTyped
  <2>2. Len(queue[t]) \in Nat /\ QueueMax \in Nat
    BY <2>1, ChatAssumption
  <2>3. QED
    BY <2>1, <2>2 DEF Room
<1>2. /\ queue' = [queue EXCEPT ![t] = queue[t] \o now]
      /\ put' = [put EXCEPT ![t] = rest]
  BY DEF Send, Left, Fitting, Waiting
<1> HIDE DEF room
<1>3. /\ now \in Seq(Events) /\ Len(now) <= room /\ rest \in Seq(Events)
      /\ events = now \o rest /\ (Len(events) <= room => rest = <<>>)
  BY <1>1, RoomProps
<1> HIDE DEF now, rest
<1>4. /\ queue[t] \o now \in Seq(Events)
      /\ Len(queue[t] \o now) = Len(queue[t]) + Len(now)
  BY <1>1, <1>3, ConcatProperties
<1>5. Len(queue[t] \o now) <= QueueMax
  <2>1. Len(now) \in Nat
    BY <1>3
  <2>2. QED
    BY <1>1, <1>3, <1>4, <2>1
<1>6. /\ queue'[t] = queue[t] \o now /\ put'[t] = rest
      /\ \A u \in Turns \ {t} : queue'[u] = queue[u] /\ put'[u] = put[u]
  BY <1>2 DEF QueueTyped
<1>7. QueueTyped'
  <2>1. put' \in [Turns -> Seq(Events)] /\ queue' \in [Turns -> Seq(Events)]
    BY <1>2, <1>3, <1>4 DEF QueueTyped
  <2>2. \A u \in Turns : Len(queue'[u]) <= QueueMax
    BY <1>5, <1>6 DEF QueueTyped
  <2>3. QED
    BY <2>1, <2>2 DEF QueueTyped
<1>8. (queue[t] \o now) \o rest = queue[t] \o events
  <2>1. ASSUME NEW q \in Seq(Events) PROVE (q \o now) \o rest = q \o events
    <3>1. now \in Seq(Events) /\ rest \in Seq(Events) /\ events = now \o rest
      BY <1>3
    <3>2. QED
      BY <3>1, Regroup
  <2>2. QED
    BY <1>1, <2>1
<1>9. queue'[t] \o put'[t] = queue[t] \o events
  BY <1>6, <1>8
<1>10. Fits(t, events) => put'[t] = <<>>
  BY <1>3, <1>6 DEF Fits, room
<1>11. QED
  BY <1>6, <1>7, <1>9, <1>10

(* An empty script always fits.                                            *)
LEMMA NothingFits ==
  ASSUME QueueTyped, NEW t \in Turns
  PROVE  Fits(t, <<>>)
<1>1. Len(queue[t]) \in Nat /\ Len(queue[t]) <= QueueMax /\ QueueMax \in Nat
  BY ChatAssumption DEF QueueTyped
<1>2. QED
  BY <1>1 DEF Fits, Room

MsgsTyped ==
  /\ msgs \in [Sessions -> Seq(Message)]
  /\ \A s \in Sessions : IsInjective(msgs[s]) /\ Len(msgs[s]) <= MaxPerSession

(* A message the store does not hold yet.                                  *)
LEMMA AddProps ==
  ASSUME MsgsTyped, NEW t \in Turns, NEW role \in {"user", "assistant"},
         NEW s, s = SessionOf[t], <<t, role>> \notin ToSet(msgs[s]), Add(<<t, role>>)
  PROVE  /\ MsgsTyped'
         /\ ToSet(msgs'[s]) \subseteq ToSet(msgs[s]) \cup {<<t, role>>}
         /\ \A r \in Sessions \ {s} : msgs'[r] = msgs[r]
<1> DEFINE m == <<t, role>>
           longer == Append(msgs[s], m)
           kept == Capped(longer, MaxPerSession)
<1>1. s \in Sessions /\ m \in Message /\ msgs[s] \in Seq(Message) /\ IsInjective(msgs[s])
  BY ChatAssumption DEF Message, MsgsTyped
<1>2. /\ longer \in Seq(Message) /\ IsInjective(longer)
      /\ ToSet(longer) = ToSet(msgs[s]) \cup {m}
  BY <1>1, BehindProps
<1>3. msgs' = [msgs EXCEPT ![s] = kept]
  BY DEF Add
<1> HIDE DEF longer, m
<1>4. MaxPerSession \in Nat \ {0}
  BY ChatAssumption
<1>5. /\ kept \in Seq(Message) /\ Len(kept) <= MaxPerSession /\ IsInjective(kept)
      /\ ToSet(kept) \subseteq ToSet(longer)
  BY <1>2, <1>4, CappedProps
<1> HIDE DEF kept
<1>6. msgs'[s] = kept /\ \A r \in Sessions \ {s} : msgs'[r] = msgs[r]
  BY <1>1, <1>3 DEF MsgsTyped
<1>7. MsgsTyped'
  BY <1>3, <1>5, <1>6 DEF MsgsTyped
<1>8. QED
  BY <1>2, <1>5, <1>6, <1>7 DEF m

RowsTyped == rows \in [Sessions -> Seq(Kept)] /\ \A s \in Sessions : IsInjective(rows[s])

(* A turn its session's rows do not hold yet.                              *)
LEMMA StoreProps ==
  ASSUME RowsTyped, NEW t \in Turns, NEW s, s = SessionOf[t],
         t \notin ToSet(rows[s]), Store(t)
  PROVE  /\ RowsTyped' /\ s \in Sessions
         /\ rows' = [rows EXCEPT ![s] = Append(rows[s], t)]
         /\ rows'[s] = Append(rows[s], t)
         /\ ToSet(rows'[s]) = ToSet(rows[s]) \cup {t}
         /\ \A r \in Sessions \ {s} : rows'[r] = rows[r]
<1>1. s \in Sessions /\ rows[s] \in Seq(Kept) /\ IsInjective(rows[s]) /\ t \in Kept
  BY ChatAssumption DEF RowsTyped, Kept
<1>2. rows' = [rows EXCEPT ![s] = Append(rows[s], t)]
  BY DEF Store
<1>3. /\ Append(rows[s], t) \in Seq(Kept) /\ IsInjective(Append(rows[s], t))
      /\ ToSet(Append(rows[s], t)) = ToSet(rows[s]) \cup {t}
  BY <1>1, BehindProps
<1>4. rows'[s] = Append(rows[s], t) /\ \A r \in Sessions \ {s} : rows'[r] = rows[r]
  BY <1>1, <1>2 DEF RowsTyped
<1>5. RowsTyped'
  BY <1>1, <1>2, <1>3, <1>4 DEF RowsTyped
<1>6. QED
  BY <1>1, <1>2, <1>3, <1>4, <1>5

SettledPC == {"ending", "ended"}

LEMMA EndProps ==
  ASSUME QueueTyped, pc \in [Turns -> PC],
         NEW t \in Turns, NEW events \in Seq(Events), End(t, events)
  PROVE  /\ QueueTyped' /\ pc' \in [Turns -> PC] /\ pc'[t] \in SettledPC
         /\ queue'[t] \o put'[t] = queue[t] \o events
         /\ \A u \in Turns \ {t} :
              queue'[u] = queue[u] /\ put'[u] = put[u] /\ pc'[u] = pc[u]
<1>1. Send(t, events)
  BY DEF End
<1>2. /\ QueueTyped' /\ queue'[t] \o put'[t] = queue[t] \o events
      /\ \A u \in Turns \ {t} : queue'[u] = queue[u] /\ put'[u] = put[u]
  BY <1>1, SendProps
<1>3. PICK p \in SettledPC : pc' = [pc EXCEPT ![t] = p]
  BY DEF End, SettledPC
<1>4. /\ pc' \in [Turns -> PC] /\ pc'[t] \in SettledPC
      /\ \A u \in Turns \ {t} : pc'[u] = pc[u]
  BY <1>3 DEF PC, Handling, SettledPC
<1>5. QED
  BY <1>2, <1>4

(* A reply is given, or its tool calls do not fit yet.                     *)
LEMMA ReplyProps ==
  ASSUME QueueTyped, MsgsTyped, pc \in [Turns -> PC], verdict \in [Turns -> Verdicts],
         NEW t \in Turns, NEW events \in Seq(Events), NEW outcome,
         <<t, "assistant">> \notin ToSet(msgs[SessionOf[t]]), Reply(t, events, outcome)
  PROVE  /\ QueueTyped' /\ MsgsTyped' /\ pc' \in [Turns -> PC] /\ verdict' \in [Turns -> Verdicts]
         /\ \A u \in Turns \ {t} : /\ queue'[u] = queue[u] /\ put'[u] = put[u]
                                   /\ pc'[u] = pc[u] /\ verdict'[u] = verdict[u]
         /\ \A r \in Sessions \ {SessionOf[t]} : msgs'[r] = msgs[r]
         /\ \/ /\ pc'[t] \in SettledPC /\ verdict'[t] = VerdictOf(outcome)
               /\ queue'[t] \o put'[t] = queue[t] \o (events \o Streamed(t, Closing))
               /\ ToSet(msgs'[SessionOf[t]]) \subseteq ToSet(msgs[SessionOf[t]]) \cup {<<t, "assistant">>}
            \/ /\ ~Fits(t, events) /\ pc'[t] = "storing"
               /\ verdict' = verdict /\ msgs' = msgs
               /\ queue'[t] \o put'[t] = queue[t] \o events
<1>1. CASE /\ Add(<<t, "assistant">>)
           /\ verdict' = [verdict EXCEPT ![t] = VerdictOf(outcome)]
           /\ End(t, events \o Streamed(t, Closing))
  <2>1. events \o Streamed(t, Closing) \in Seq(Events)
    <3>1. Streamed(t, Closing) \in Seq(Events)
      BY Scripts DEF Streamed
    <3>2. QED
      BY <3>1, ConcatProperties
  <2>2. /\ QueueTyped' /\ pc' \in [Turns -> PC] /\ pc'[t] \in SettledPC
        /\ queue'[t] \o put'[t] = queue[t] \o (events \o Streamed(t, Closing))
        /\ \A u \in Turns \ {t} :
             queue'[u] = queue[u] /\ put'[u] = put[u] /\ pc'[u] = pc[u]
    BY <1>1, <2>1, EndProps
  <2>3. /\ MsgsTyped'
        /\ ToSet(msgs'[SessionOf[t]]) \subseteq ToSet(msgs[SessionOf[t]]) \cup {<<t, "assistant">>}
        /\ \A r \in Sessions \ {SessionOf[t]} : msgs'[r] = msgs[r]
    BY <1>1, AddProps
  <2>4. /\ verdict' \in [Turns -> Verdicts] /\ verdict'[t] = VerdictOf(outcome)
        /\ \A u \in Turns \ {t} : verdict'[u] = verdict[u]
    BY <1>1 DEF Verdicts, VerdictOf
  <2>5. QED
    BY <2>2, <2>3, <2>4
<1>2. CASE /\ ~Fits(t, events) /\ Send(t, events)
           /\ pc' = [pc EXCEPT ![t] = "storing"] /\ UNCHANGED <<verdict, msgs>>
  <2>1. /\ QueueTyped' /\ queue'[t] \o put'[t] = queue[t] \o events
        /\ \A u \in Turns \ {t} : queue'[u] = queue[u] /\ put'[u] = put[u]
    BY <1>2, SendProps
  <2>2. /\ pc' \in [Turns -> PC] /\ pc'[t] = "storing"
        /\ \A u \in Turns \ {t} : pc'[u] = pc[u]
    BY <1>2 DEF PC
  <2>3. verdict' = verdict /\ msgs' = msgs
    BY <1>2
  <2>4. MsgsTyped'
    BY <2>3 DEF MsgsTyped
  <2>5. QED
    BY <1>2, <2>1, <2>2, <2>3, <2>4
<1>3. QED
  BY <1>1, <1>2 DEF Reply

-----------------------------------------------------------------------------
(* The inductive invariant: where a turn stands, what has become of it,    *)
(* what it will return and whether it is stored agree; the tables hold     *)
(* nothing else than these turns and their messages.                       *)
FlowTyped ==
  /\ pc \in [Turns -> PC] /\ calls \in [Turns -> 0..MaxIterations]
  /\ history \in [Turns -> SUBSET Kept] /\ before \in [Turns -> SUBSET Kept]
  /\ shown \in [Turns -> SUBSET Kept]
  /\ result \in [Turns -> Results] /\ verdict \in [Turns -> Verdicts]
  /\ got \in [Turns -> Seq(Events)]
  /\ gen \in [Turns -> {"none", "getting", "sending", "closing", "closed"}]
  /\ orphans \in SUBSET Turns /\ appended \in SUBSET Turns
  /\ erasures \in 0..MaxErasures

TurnOf(p, v, n, r, g, stored, orphan) ==
  /\ p = "idle" <=> v = "unasked"
  /\ p \in Handling \cup {"storing"} <=> v = "asked"
  /\ p \in {"idle", "reading"} => n = 0 /\ r = "none"
  /\ p = "thinking" => n < MaxIterations /\ r = "none"
  /\ p = "appending" => r = "answer"
  /\ p = "raising" => stored
  /\ p \in {"journaling", "storing"} =>
       (r = "answer" /\ stored) \/ (r = "exhausted" /\ ~stored)
  /\ g # "none" => p # "idle"
  /\ stored => p \in {"raising", "journaling", "storing"} \cup SettledPC
  /\ orphan => p \in SettledPC /\ v = "refused" /\ ~stored
  /\ v = "answered" => stored
  /\ v = "excused" => ~stored

TurnInv ==
  \A t \in Turns : TurnOf(pc[t], verdict[t], calls[t], result[t], gen[t],
                          t \in appended, t \in orphans)

RowsInv ==
  \A s \in Sessions : \A u \in ToSet(rows[s]) :
    u \in ToSet(Past[s]) \/ (u \in appended /\ SessionOf[u] = s)

MsgInv ==
  \A s \in Sessions : \A m \in ToSet(msgs[s]) :
    /\ SessionOf[m[1]] = s
    /\ m[2] = "user" => pc[m[1]] # "idle"
    /\ m[2] = "assistant" => verdict[m[1]] \in {"answered", "excused", "failed"}

TablesTyped == QueueTyped /\ MsgsTyped /\ RowsTyped
Ind == FlowTyped /\ TablesTyped /\ TurnInv /\ RowsInv /\ MsgInv

LEMMA IndTypeOK == Ind => TypeOK
BY DEF Ind, FlowTyped, TablesTyped, QueueTyped, MsgsTyped, RowsTyped, TypeOK

(* What a step of a turn does not concern.                                 *)
Elsewhere(t) ==
  /\ appended \subseteq appended'
  /\ \A u \in Turns \ {t} :
       /\ pc'[u] = pc[u] /\ verdict'[u] = verdict[u] /\ calls'[u] = calls[u]
       /\ result'[u] = result[u] /\ gen'[u] = gen[u]
       /\ (u \in appended') = (u \in appended) /\ (u \in orphans') = (u \in orphans)

LEMMA TurnKept ==
  ASSUME TurnInv, NEW t \in Turns, Elsewhere(t),
         TurnOf(pc'[t], verdict'[t], calls'[t], result'[t], gen'[t],
                t \in appended', t \in orphans')
  PROVE  TurnInv'
<1>1. SUFFICES ASSUME NEW u \in Turns
               PROVE  TurnOf(pc'[u], verdict'[u], calls'[u], result'[u], gen'[u],
                             u \in appended', u \in orphans')
  BY DEF TurnInv
<1>2. CASE u # t
  <2>1. TurnOf(pc[u], verdict[u], calls[u], result[u], gen[u],
               u \in appended, u \in orphans)
    BY DEF TurnInv
  <2>2. /\ pc'[u] = pc[u] /\ verdict'[u] = verdict[u] /\ calls'[u] = calls[u]
        /\ result'[u] = result[u] /\ gen'[u] = gen[u]
        /\ (u \in appended') = (u \in appended) /\ (u \in orphans') = (u \in orphans)
    BY <1>2 DEF Elsewhere
  <2>3. QED
    BY <2>1, <2>2 DEF TurnOf
<1>3. QED
  BY <1>2

LEMMA RowsKept ==
  ASSUME RowsTyped, RowsInv, rows' = rows, appended \subseteq appended'
  PROVE  RowsTyped' /\ RowsInv'
BY DEF RowsTyped, RowsInv

(* A stored turn is a new row of its session.                              *)
LEMMA RowsGrow ==
  ASSUME RowsTyped, RowsInv, NEW t \in Turns, t \notin appended, Store(t)
  PROVE  /\ t \notin ToSet(rows[SessionOf[t]])
         /\ RowsTyped' /\ RowsInv' /\ appended' = appended \cup {t}
<1>0. SessionOf[t] \in Sessions /\ t \notin ToSet(Past[SessionOf[t]])
  BY ChatAssumption
<1>1. t \notin ToSet(rows[SessionOf[t]])
  BY <1>0 DEF RowsInv
<1>2. PICK s : s = SessionOf[t]
  OBVIOUS
<1>3. /\ RowsTyped' /\ s \in Sessions
      /\ ToSet(rows'[s]) = ToSet(rows[s]) \cup {t}
      /\ \A r \in Sessions \ {s} : rows'[r] = rows[r]
  BY <1>1, <1>2, StoreProps
<1>4. appended' = appended \cup {t}
  BY DEF Store
<1>5. RowsInv'
  <2>1. SUFFICES ASSUME NEW r \in Sessions, NEW u \in ToSet(rows'[r])
                 PROVE  u \in ToSet(Past[r]) \/ (u \in appended' /\ SessionOf[u] = r)
    BY DEF RowsInv
  <2>2. CASE u \in ToSet(rows[r])
    BY <2>2, <1>4 DEF RowsInv
  <2>3. CASE u \notin ToSet(rows[r])
    <3>1. r = s /\ u = t
      BY <1>3, <2>1, <2>3
    <3>2. QED
      BY <1>2, <1>4, <3>1
  <2>4. QED
    BY <2>2, <2>3
<1>6. QED
  BY <1>1, <1>3, <1>4, <1>5

(* What holds of a message goes on to hold.                                *)
Onward ==
  \A u \in Turns :
    /\ pc[u] # "idle" => pc'[u] # "idle"
    /\ verdict[u] \in {"answered", "excused", "failed"} => verdict'[u] \in {"answered", "excused", "failed"}

LEMMA MsgsKept ==
  ASSUME MsgsTyped, MsgInv, Onward,
         \A s \in Sessions : ToSet(msgs'[s]) \subseteq ToSet(msgs[s])
  PROVE  MsgInv'
<1>1. SUFFICES ASSUME NEW s \in Sessions, NEW m \in ToSet(msgs'[s])
               PROVE  /\ SessionOf[m[1]] = s
                      /\ m[2] = "user" => pc'[m[1]] # "idle"
                      /\ m[2] = "assistant" => verdict'[m[1]] \in {"answered", "excused", "failed"}
  BY DEF MsgInv
<1>2. m \in ToSet(msgs[s])
  OBVIOUS
<1>3. m \in Message
  BY <1>2, SetOfSeq DEF MsgsTyped
<1>4. m[1] \in Turns
  BY <1>3 DEF Message
<1>5. QED
  BY <1>2, <1>4 DEF MsgInv, Onward

LEMMA MsgsGrow ==
  ASSUME MsgsTyped, MsgInv, Onward, NEW t \in Turns, NEW role \in {"user", "assistant"},
         ToSet(msgs'[SessionOf[t]]) \subseteq ToSet(msgs[SessionOf[t]]) \cup {<<t, role>>},
         \A r \in Sessions \ {SessionOf[t]} : msgs'[r] = msgs[r],
         role = "user" => pc'[t] # "idle",
         role = "assistant" => verdict'[t] \in {"answered", "excused", "failed"}
  PROVE  MsgInv'
<1>1. SUFFICES ASSUME NEW s \in Sessions, NEW m \in ToSet(msgs'[s])
               PROVE  /\ SessionOf[m[1]] = s
                      /\ m[2] = "user" => pc'[m[1]] # "idle"
                      /\ m[2] = "assistant" => verdict'[m[1]] \in {"answered", "excused", "failed"}
  BY DEF MsgInv
<1>2. CASE m \in ToSet(msgs[s])
  <2>1. m \in Message
    BY <1>2, SetOfSeq DEF MsgsTyped
  <2>2. m[1] \in Turns
    BY <2>1 DEF Message
  <2>3. QED
    BY <1>2, <2>2 DEF MsgInv, Onward
<1>3. CASE m \notin ToSet(msgs[s])
  <2>1. s = SessionOf[t] /\ m = <<t, role>>
    BY <1>1, <1>3
  <2>2. m[1] = t /\ m[2] = role
    BY <2>1
  <2>3. QED
    BY <2>1, <2>2
<1>4. QED
  BY <1>2, <1>3

-----------------------------------------------------------------------------
(* Every action keeps it                                                   *)

LEMMA InitInd == Init => Ind
<1>1. SUFFICES ASSUME Init PROVE Ind
  OBVIOUS
<1>2. FlowTyped
  <2>1. <<>> \in Seq(Events) /\ 0 \in 0..MaxIterations /\ 0 \in 0..MaxErasures
    BY ChatAssumption
  <2>2. QED
    BY <1>1, <2>1 DEF Init, FlowTyped, PC, Handling, Results, Verdicts
<1>3. QueueTyped
  <2>1. <<>> \in Seq(Events) /\ Len(<<>>) = 0 /\ 0 <= QueueMax
    BY ChatAssumption
  <2>2. QED
    BY <1>1, <2>1 DEF Init, QueueTyped
<1>4. MsgsTyped
  <2>1. <<>> \in Seq(Message) /\ Len(<<>>) = 0 /\ 0 <= MaxPerSession /\ IsInjective(<<>>)
    BY ChatAssumption DEF IsInjective
  <2>2. QED
    BY <1>1, <2>1 DEF Init, MsgsTyped
<1>5. RowsTyped
  <2>1. SUFFICES ASSUME NEW s \in Sessions PROVE Past[s] \in Seq(Kept) /\ IsInjective(Past[s])
    BY <1>1 DEF Init, RowsTyped
  <2>2. /\ Past[s] \in Seq(ToSet(Past[s])) /\ IsInjective(Past[s])
        /\ ToSet(Past[s]) \subseteq Kept
    BY ChatAssumption DEF Kept
  <2>3. QED
    BY <2>2
<1>6. TurnInv
  BY <1>1 DEF Init, TurnInv, TurnOf, Handling
<1>7. RowsInv
  BY <1>1 DEF Init, RowsInv
<1>8. MsgInv
  <2>1. ToSet(<<>>) = {}
    BY DEF ToSet
  <2>2. QED
    BY <1>1, <2>1 DEF Init, MsgInv
<1>9. QED
  BY <1>2, <1>3, <1>4, <1>5, <1>6, <1>7, <1>8 DEF Ind, TablesTyped

LEMMA TurnAt ==
  ASSUME Ind, NEW t \in Turns
  PROVE  /\ TurnOf(pc[t], verdict[t], calls[t], result[t], gen[t],
                   t \in appended, t \in orphans)
         /\ SessionOf[t] \in Sessions
         /\ pc[t] \in PC /\ verdict[t] \in Verdicts /\ result[t] \in Results
         /\ calls[t] \in Nat /\ calls[t] <= MaxIterations
BY ChatAssumption DEF Ind, FlowTyped, TurnInv

(* The message of a reply that has not been given is not stored.           *)
LEMMA NotStoredYet ==
  ASSUME Ind, NEW t \in Turns
  PROVE  /\ pc[t] = "idle" => <<t, "user">> \notin ToSet(msgs[SessionOf[t]])
         /\ verdict[t] \notin {"answered", "excused", "failed"} =>
              <<t, "assistant">> \notin ToSet(msgs[SessionOf[t]])
<1>1. SessionOf[t] \in Sessions
  BY TurnAt
<1>2. /\ <<t, "user">>[1] = t /\ <<t, "user">>[2] = "user"
      /\ <<t, "assistant">>[1] = t /\ <<t, "assistant">>[2] = "assistant"
  OBVIOUS
<1>3. QED
  BY <1>1, <1>2 DEF Ind, MsgInv

LEMMA BeginInd ==
  ASSUME Ind, NEW t \in Turns, Begin(t)
  PROVE  Ind' /\ Elsewhere(t)
<1> DEFINE s == SessionOf[t]
<1>1. /\ TurnOf(pc[t], verdict[t], calls[t], result[t], gen[t],
                t \in appended, t \in orphans)
      /\ s \in Sessions /\ pc[t] = "idle"
  BY TurnAt DEF Begin
<1>2. FlowTyped /\ QueueTyped /\ MsgsTyped /\ RowsTyped /\ TurnInv /\ RowsInv /\ MsgInv
  BY DEF Ind, TablesTyped
<1>3. FlowTyped'
  <2>1. /\ pc' \in [Turns -> PC] /\ verdict' \in [Turns -> Verdicts]
        /\ gen' \in [Turns -> {"none", "getting", "sending", "closing", "closed"}]
    BY <1>2 DEF Begin, FlowTyped, PC, Handling, Verdicts
  <2>2. before' \in [Turns -> SUBSET Kept]
    <3>1. {u \in Turns : SessionOf[u] = SessionOf[t] /\ Told(u)} \cup ToSet(Past[SessionOf[t]])
            \in SUBSET Kept
      BY <1>1 DEF Kept
    <3>2. QED
      BY <1>2, <3>1 DEF Begin, FlowTyped
  <2>3. QED
    BY <1>2, <2>1, <2>2 DEF Begin, FlowTyped
<1>4. QueueTyped'
  <2>1. Streamed(t, Opening) \in Seq(Events)
    BY Scripts DEF Streamed
  <2>2. QED
    BY <1>2, <2>1, SendProps DEF Begin
<1>5. /\ MsgsTyped' /\ ToSet(msgs'[s]) \subseteq ToSet(msgs[s]) \cup {<<t, "user">>}
      /\ \A r \in Sessions \ {s} : msgs'[r] = msgs[r]
  <2>1. <<t, "user">> \notin ToSet(msgs[s]) /\ Add(<<t, "user">>)
    BY <1>1, NotStoredYet DEF Begin
  <2>2. QED
    BY <1>2, <2>1, AddProps
<1>6. /\ pc'[t] = "reading" /\ verdict'[t] = "asked" /\ calls' = calls /\ result' = result
      /\ appended' = appended /\ orphans' = orphans /\ rows' = rows
      /\ \A u \in Turns \ {t} : pc'[u] = pc[u] /\ verdict'[u] = verdict[u] /\ gen'[u] = gen[u]
  BY <1>2 DEF Begin, FlowTyped
<1>7. Elsewhere(t)
  BY <1>6 DEF Elsewhere
<1>8. TurnInv'
  <2>1. TurnOf(pc'[t], verdict'[t], calls'[t], result'[t], gen'[t],
               t \in appended', t \in orphans')
    BY <1>1, <1>6 DEF TurnOf, Handling, SettledPC
  <2>2. QED
    BY <1>2, <1>7, <2>1, TurnKept
<1>9. RowsTyped' /\ RowsInv'
  BY <1>2, <1>6, RowsKept
<1>10. MsgInv'
  <2>1. Onward
    BY <1>1, <1>6 DEF Onward, TurnOf
  <2>2. QED
    BY <1>2, <1>5, <1>6, <2>1, MsgsGrow
<1>11. QED
  BY <1>3, <1>4, <1>5, <1>7, <1>8, <1>9, <1>10 DEF Ind, TablesTyped

(* A step of a turn that leaves the tables and the queue alone.            *)
LEMMA QuietInd ==
  ASSUME Ind, NEW t \in Turns, FlowTyped', Elsewhere(t), UNCHANGED <<put, queue, rows, msgs>>,
         TurnOf(pc'[t], verdict'[t], calls'[t], result'[t], gen'[t],
                t \in appended', t \in orphans'),
         pc[t] # "idle" => pc'[t] # "idle",
         verdict[t] \in {"answered", "excused", "failed"} => verdict'[t] = verdict[t]
  PROVE  Ind'
<1>1. TablesTyped'
  BY DEF Ind, TablesTyped, QueueTyped, MsgsTyped, RowsTyped
<1>2. TurnInv'
  BY TurnKept DEF Ind
<1>3. RowsInv'
  BY RowsKept DEF Ind, TablesTyped, Elsewhere
<1>4. Onward
  BY DEF Onward, Elsewhere
<1>5. MsgInv'
  <2>1. \A s \in Sessions : ToSet(msgs'[s]) \subseteq ToSet(msgs[s])
    OBVIOUS
  <2>2. QED
    BY <1>4, <2>1, MsgsKept DEF Ind, TablesTyped
<1>6. QED
  BY <1>1, <1>2, <1>3, <1>5 DEF Ind

(* What trim_history leaves of a history is part of it.                    *)
LEMMA NewestProps ==
  ASSUME NEW S, NEW q \in Seq(S), NEW n \in 0..Len(q)
  PROVE  /\ Newest(q, n) \in Seq(S) /\ Len(Newest(q, n)) = n
         /\ \A i \in 1..n : Newest(q, n)[i] = q[i + (Len(q) - n)]
<1>1. Len(q) \in Nat /\ Len(q) - n + 1 \in 1..(Len(q) + 1)
  OBVIOUS
<1>2. QED
  BY <1>1 DEF Newest

LEMMA CollapsedProps ==
  ASSUME NEW S, NEW q \in Seq(S)
  PROVE  /\ Collapsed(q) \in Seq(S)
         /\ Len(q) > SoftWindow =>
              /\ Len(Collapsed(q)) = KeepOldest + KeepNewest
              /\ \A i \in 1..KeepOldest : Collapsed(q)[i] = q[i]
              /\ \A i \in 1..KeepNewest :
                   Collapsed(q)[KeepOldest + i] = q[i + (Len(q) - KeepNewest)]
         /\ ~(Len(q) > SoftWindow) => Collapsed(q) = q
<1>1. /\ SoftWindow \in Nat /\ KeepOldest \in Nat /\ KeepNewest \in Nat /\ Len(q) \in Nat
      /\ KeepOldest + KeepNewest <= SoftWindow
  BY ChatAssumption
<1>2. CASE Len(q) > SoftWindow
  <2>1. KeepNewest \in 0..Len(q) /\ KeepOldest \in 0..Len(q)
    BY <1>1, <1>2
  <2>2. PICK n : n = Newest(q, KeepNewest)
    OBVIOUS
  <2>3. PICK o : o = SubSeq(q, 1, KeepOldest)
    OBVIOUS
  <2>4. /\ n \in Seq(S) /\ Len(n) = KeepNewest
        /\ \A i \in 1..KeepNewest : n[i] = q[i + (Len(q) - KeepNewest)]
    BY <2>1, <2>2, NewestProps
  <2>5. /\ o \in Seq(S) /\ Len(o) = KeepOldest /\ \A i \in 1..KeepOldest : o[i] = q[i]
    BY <1>1, <2>1, <2>3
  <2>6. Collapsed(q) = o \o n
    BY <1>2, <2>2, <2>3 DEF Collapsed
  <2>7. /\ o \o n \in Seq(S) /\ Len(o \o n) = Len(o) + Len(n)
        /\ \A i \in 1..(Len(o) + Len(n)) :
             (o \o n)[i] = IF i <= Len(o) THEN o[i] ELSE n[i - Len(o)]
    BY <2>4, <2>5, ConcatProperties
  <2>8. \A i \in 1..KeepOldest : (o \o n)[i] = q[i]
    BY <1>1, <2>4, <2>5, <2>7
  <2>9. ASSUME NEW i \in 1..KeepNewest
        PROVE  (o \o n)[KeepOldest + i] = q[i + (Len(q) - KeepNewest)]
    <3>1. /\ KeepOldest + i \in 1..(Len(o) + Len(n)) /\ ~(KeepOldest + i <= Len(o))
          /\ (KeepOldest + i) - Len(o) = i
      BY <1>1, <2>4, <2>5
    <3>2. (o \o n)[KeepOldest + i] = n[i]
      BY <2>7, <3>1
    <3>3. QED
      BY <2>4, <3>2
  <2>10. QED
    BY <1>2, <2>4, <2>5, <2>6, <2>7, <2>8, <2>9
<1>3. CASE ~(Len(q) > SoftWindow)
  BY <1>3 DEF Collapsed
<1>4. QED
  BY <1>2, <1>3

LEMMA TrimsProps ==
  ASSUME NEW S, NEW q \in Seq(S), NEW turns \in Trims(q)
  PROVE  turns \subseteq ToSet(q)
<1>1. PICK c : c = Collapsed(q)
  OBVIOUS
<1>2. PICK n \in 0..Len(c) : turns = ToSet(Newest(c, n))
  BY <1>1 DEF Trims
<1>3. /\ SoftWindow \in Nat /\ KeepOldest \in Nat /\ KeepNewest \in Nat /\ Len(q) \in Nat
      /\ KeepOldest + KeepNewest <= SoftWindow
  BY ChatAssumption
<1>4. c \in Seq(S) /\ \A i \in 1..Len(c) : c[i] \in ToSet(q)
  <2>1. CASE Len(q) > SoftWindow
    <3>1. /\ c \in Seq(S) /\ Len(c) = KeepOldest + KeepNewest
          /\ \A i \in 1..KeepOldest : c[i] = q[i]
          /\ \A i \in 1..KeepNewest : c[KeepOldest + i] = q[i + (Len(q) - KeepNewest)]
      BY <1>1, <2>1, CollapsedProps
    <3>2. ASSUME NEW i \in 1..Len(c) PROVE c[i] \in ToSet(q)
      <4>1. CASE i <= KeepOldest
        <5>1. i \in 1..Len(q) /\ c[i] = q[i]
          BY <1>3, <2>1, <3>1, <4>1
        <5>2. QED
          BY <5>1, SetOfSeq
      <4>2. CASE ~(i <= KeepOldest)
        <5>1. PICK k \in 1..KeepNewest : i = KeepOldest + k
          <6>1. i - KeepOldest \in 1..KeepNewest /\ i = KeepOldest + (i - KeepOldest)
            BY <1>3, <3>1, <4>2
          <6>2. QED
            BY <6>1
        <5>2. k + (Len(q) - KeepNewest) \in 1..Len(q)
          BY <1>3, <2>1
        <5>3. c[i] = q[k + (Len(q) - KeepNewest)]
          BY <3>1, <5>1
        <5>4. QED
          BY <5>2, <5>3, SetOfSeq
      <4>3. QED
        BY <4>1, <4>2
    <3>3. QED
      BY <3>1, <3>2
  <2>2. CASE ~(Len(q) > SoftWindow)
    <3>1. c = q
      BY <1>1, <2>2, CollapsedProps
    <3>2. QED
      BY <3>1, SetOfSeq
  <2>3. QED
    BY <2>1, <2>2
<1>5. PICK r : r = Newest(c, n)
  OBVIOUS
<1>6. /\ r \in Seq(S) /\ Len(r) = n
      /\ \A i \in 1..n : r[i] = c[i + (Len(c) - n)]
  BY <1>4, <1>5, NewestProps
<1>7. ASSUME NEW x \in ToSet(r) PROVE x \in ToSet(q)
  <2>1. PICK i \in 1..n : r[i] = x
    BY <1>6, SetOfSeq
  <2>2. i + (Len(c) - n) \in 1..Len(c)
    BY <1>4
  <2>3. QED
    BY <1>4, <1>6, <2>1, <2>2
<1>8. QED
  BY <1>2, <1>5, <1>7

LEMMA RecentProps ==
  ASSUME RowsTyped, NEW s \in Sessions
  PROVE  /\ Recent(s) \in Seq(Kept) /\ ToSet(Recent(s)) \in SUBSET Kept
         /\ Trims(Recent(s)) \subseteq SUBSET Kept
<1>1. rows[s] \in Seq(Kept) /\ Window \in Nat \ {0}
  BY ChatAssumption DEF RowsTyped
<1>2. PICK q : q = rows[s]
  OBVIOUS
<1>3. PICK r : r = Capped(q, Window)
  OBVIOUS
<1>4. r \in Seq(Kept)
  BY <1>1, <1>2, <1>3, CappedProps
<1>5. ToSet(r) \subseteq Kept
  BY <1>4, SetOfSeq
<1>6. \A turns \in Trims(r) : turns \subseteq ToSet(r)
  BY <1>4, TrimsProps
<1>7. QED
  BY <1>2, <1>3, <1>4, <1>5, <1>6 DEF Recent

LEMMA ReadInd ==
  ASSUME Ind, NEW t \in Turns, Read(t)
  PROVE  Ind' /\ Elsewhere(t)
<1>1. /\ TurnOf(pc[t], verdict[t], calls[t], result[t], gen[t],
                t \in appended, t \in orphans)
      /\ SessionOf[t] \in Sessions /\ pc[t] = "reading"
  BY TurnAt DEF Read
<1>2. FlowTyped'
  <2>1. /\ ToSet(Recent(SessionOf[t])) \in SUBSET Kept
        /\ Trims(Recent(SessionOf[t])) \subseteq SUBSET Kept
    BY <1>1, RecentProps DEF Ind, TablesTyped
  <2>2. /\ pc' \in [Turns -> PC] /\ history' \in [Turns -> SUBSET Kept]
        /\ shown' \in [Turns -> SUBSET Kept]
    BY <2>1 DEF Ind, FlowTyped, Read, PC, Handling
  <2>3. QED
    BY <2>2 DEF Ind, FlowTyped, Read
<1>3. /\ pc'[t] = "thinking" /\ UNCHANGED <<verdict, calls, result, gen, appended, orphans>>
      /\ \A u \in Turns \ {t} : pc'[u] = pc[u]
  BY DEF Ind, FlowTyped, Read
<1>4. Elsewhere(t)
  BY <1>3 DEF Elsewhere
<1>5. TurnOf(pc'[t], verdict'[t], calls'[t], result'[t], gen'[t],
             t \in appended', t \in orphans')
  <2>1. MaxIterations \in Nat \ {0}
    BY ChatAssumption
  <2>2. QED
    BY <1>1, <1>3, <2>1 DEF TurnOf, Handling, SettledPC
<1>6. UNCHANGED <<put, queue, rows, msgs>>
  BY DEF Read
<1>7. QED
  BY <1>2, <1>3, <1>4, <1>5, <1>6, QuietInd

LEMMA ForgetTyped ==
  ASSUME FlowTyped, NEW t \in Turns, Forget(t)
  PROVE  history' \in [Turns -> SUBSET Kept] /\ before' \in [Turns -> SUBSET Kept]
BY DEF FlowTyped, Forget

LEMMA DismissTyped ==
  ASSUME FlowTyped, NEW t \in Turns, Dismiss(t)
  PROVE  /\ history' \in [Turns -> SUBSET Kept] /\ before' \in [Turns -> SUBSET Kept]
         /\ shown' \in [Turns -> SUBSET Kept]
<1>1. history' \in [Turns -> SUBSET Kept] /\ before' \in [Turns -> SUBSET Kept]
  BY ForgetTyped DEF Dismiss
<1>2. QED
  BY <1>1 DEF Dismiss, FlowTyped

LEMMA UseToolsInd ==
  ASSUME Ind, NEW t \in Turns, UseTools(t)
  PROVE  Ind' /\ Elsewhere(t)
<1> DEFINE n == calls[t] + 1
<1>1. /\ TurnOf(pc[t], verdict[t], calls[t], result[t], gen[t],
                t \in appended, t \in orphans)
      /\ calls[t] \in Nat /\ MaxIterations \in Nat /\ pc[t] = "thinking"
  BY TurnAt, ChatAssumption DEF UseTools
<1>2. calls[t] < MaxIterations /\ n \in 0..MaxIterations
  BY <1>1 DEF TurnOf
<1>3. /\ calls'[t] = n /\ pc'[t] = AfterTools(n)
      /\ result'[t] = IF n < MaxIterations THEN result[t] ELSE "exhausted"
      /\ UNCHANGED <<verdict, gen, appended, orphans>>
      /\ \A u \in Turns \ {t} :
           pc'[u] = pc[u] /\ calls'[u] = calls[u] /\ result'[u] = result[u]
  BY DEF Ind, FlowTyped, UseTools
<1>4. FlowTyped'
  <2>1. pc' \in [Turns -> PC]
    BY DEF Ind, FlowTyped, UseTools, AfterTools, PC, Handling
  <2>2. calls' \in [Turns -> 0..MaxIterations]
    BY <1>2 DEF Ind, FlowTyped, UseTools
  <2>3. result' \in [Turns -> Results]
    BY DEF Ind, FlowTyped, UseTools, Results
  <2>4. history' \in [Turns -> SUBSET Kept] /\ before' \in [Turns -> SUBSET Kept]
    BY ForgetTyped DEF Ind, UseTools
  <2>5. shown' \in [Turns -> SUBSET Kept]
    <3>1. shown[t] \in SUBSET Kept /\ shown \in [Turns -> SUBSET Kept]
      BY DEF Ind, FlowTyped
    <3>2. PICK turns \in SUBSET shown[t] : shown' = [shown EXCEPT ![t] = turns]
      BY DEF UseTools
    <3>3. QED
      BY <3>1, <3>2
  <2>6. QED
    BY <2>1, <2>2, <2>3, <2>4, <2>5 DEF Ind, FlowTyped, UseTools
<1>5. Elsewhere(t)
  BY <1>3 DEF Elsewhere
<1>6. TurnOf(pc'[t], verdict'[t], calls'[t], result'[t], gen'[t],
             t \in appended', t \in orphans')
  <2>1. CASE n < MaxIterations
    BY <1>1, <1>3, <2>1 DEF TurnOf, AfterTools, Handling, SettledPC
  <2>2. CASE ~(n < MaxIterations)
    BY <1>1, <1>3, <2>2 DEF TurnOf, AfterTools, Handling, SettledPC
  <2>3. QED
    BY <2>1, <2>2
<1>7. UNCHANGED <<put, queue, rows, msgs>> /\ pc'[t] # "idle"
  BY <1>3 DEF UseTools, AfterTools
<1>8. QED
  BY <1>3, <1>4, <1>5, <1>6, <1>7, QuietInd

LEMMA ConcludeInd ==
  ASSUME Ind, NEW t \in Turns, Conclude(t)
  PROVE  Ind' /\ Elsewhere(t)
<1>1. /\ TurnOf(pc[t], verdict[t], calls[t], result[t], gen[t],
                t \in appended, t \in orphans)
      /\ pc[t] = "thinking"
  BY TurnAt DEF Conclude
<1>2. FlowTyped'
  <2>1. /\ history' \in [Turns -> SUBSET Kept] /\ before' \in [Turns -> SUBSET Kept]
        /\ shown' \in [Turns -> SUBSET Kept]
    BY DismissTyped DEF Ind, Conclude
  <2>2. pc' \in [Turns -> PC] /\ result' \in [Turns -> Results]
    BY DEF Ind, FlowTyped, Conclude, PC, Handling, Results
  <2>3. QED
    BY <2>1, <2>2 DEF Ind, FlowTyped, Conclude
<1>3. /\ pc'[t] = "appending" /\ result'[t] = "answer"
      /\ UNCHANGED <<verdict, calls, gen, appended, orphans>>
      /\ \A u \in Turns \ {t} : pc'[u] = pc[u] /\ result'[u] = result[u]
  BY DEF Ind, FlowTyped, Conclude
<1>4. Elsewhere(t)
  BY <1>3 DEF Elsewhere
<1>5. TurnOf(pc'[t], verdict'[t], calls'[t], result'[t], gen'[t],
             t \in appended', t \in orphans')
  BY <1>1, <1>3 DEF TurnOf, Handling, SettledPC
<1>6. UNCHANGED <<put, queue, rows, msgs>>
  BY DEF Conclude
<1>7. QED
  BY <1>2, <1>3, <1>4, <1>5, <1>6, QuietInd

LEMMA GetSentInd ==
  ASSUME Ind, NEW t \in Turns, Get(t) \/ Sent(t)
  PROVE  Ind' /\ Elsewhere(t)
<1>1. /\ TurnOf(pc[t], verdict[t], calls[t], result[t], gen[t],
                t \in appended, t \in orphans)
      /\ gen[t] \in {"getting", "sending"}
      /\ FlowTyped /\ TablesTyped /\ TurnInv /\ RowsInv /\ MsgInv
  BY TurnAt DEF Get, Sent, Ind
<1>2. /\ UNCHANGED <<pc, calls, history, shown, result, verdict, put, orphans, rows, msgs,
                     erasures, appended, before>>
      /\ \/ Fetch(t)
         \/ gen' = [gen EXCEPT ![t] = "closed"] /\ UNCHANGED <<got, queue>>
  BY DEF Get, Sent
<1>3. /\ gen' \in [Turns -> {"none", "getting", "sending", "closing", "closed"}]
      /\ \A u \in Turns \ {t} : gen'[u] = gen[u]
  BY <1>1, <1>2 DEF Fetch, FlowTyped
<1>4. got' \in [Turns -> Seq(Events)] /\ QueueTyped'
  <2>1. CASE queue[t] # <<>> /\ got' = [got EXCEPT ![t] = Append(@, Head(queue[t]))]
             /\ queue' = [queue EXCEPT ![t] = Tail(@)]
    <3>1. /\ queue[t] \in Seq(Events) /\ got[t] \in Seq(Events) /\ Len(queue[t]) <= QueueMax
          /\ QueueMax \in Nat
      BY <1>1, ChatAssumption DEF FlowTyped, TablesTyped, QueueTyped
    <3>2. /\ Head(queue[t]) \in Events /\ Tail(queue[t]) \in Seq(Events)
          /\ Len(Tail(queue[t])) <= QueueMax
      <4>1. ASSUME NEW q \in Seq(Events), q # <<>>, Len(q) <= QueueMax
            PROVE  /\ Head(q) \in Events /\ Tail(q) \in Seq(Events)
                   /\ Len(Tail(q)) <= QueueMax
        BY <3>1, <4>1
      <4>2. QED
        BY <2>1, <3>1, <4>1
    <3>3. Append(got[t], Head(queue[t])) \in Seq(Events)
      BY <3>1, <3>2
    <3>4. QED
      BY <1>1, <1>2, <2>1, <3>2, <3>3 DEF FlowTyped, TablesTyped, QueueTyped
  <2>2. CASE UNCHANGED <<got, queue>>
    BY <1>1, <1>2, <2>2 DEF FlowTyped, TablesTyped, QueueTyped
  <2>3. QED
    BY <1>2, <2>1, <2>2 DEF Fetch
<1>5. FlowTyped'
  BY <1>1, <1>2, <1>3, <1>4 DEF FlowTyped
<1>6. TablesTyped'
  BY <1>1, <1>2, <1>4 DEF TablesTyped, MsgsTyped, RowsTyped
<1>7. Elsewhere(t)
  BY <1>2, <1>3 DEF Elsewhere
<1>8. TurnInv'
  <2>1. TurnOf(pc'[t], verdict'[t], calls'[t], result'[t], gen'[t],
               t \in appended', t \in orphans')
    BY <1>1, <1>2 DEF TurnOf
  <2>2. QED
    BY <1>1, <1>7, <2>1, TurnKept
<1>9. RowsInv' /\ MsgInv'
  BY <1>1, <1>2 DEF RowsInv, MsgInv
<1>10. QED
  BY <1>5, <1>6, <1>7, <1>8, <1>9 DEF Ind

(* Whatever is given as a reply.                                           *)
LEMMA ReplyInd ==
  ASSUME Ind, NEW t \in Turns, NEW events \in Seq(Events), NEW outcome,
         pc[t] \in Handling \cup {"storing"}, Reply(t, events, outcome),
         result' \in [Turns -> Results], calls' \in [Turns -> 0..MaxIterations],
         history' \in [Turns -> SUBSET Kept], before' \in [Turns -> SUBSET Kept],
         shown' \in [Turns -> SUBSET Kept],
         result'[t] = outcome,
         \A u \in Turns \ {t} : result'[u] = result[u] /\ calls'[u] = calls[u],
         UNCHANGED <<gen, got, orphans, rows, erasures, appended>>,
         outcome = "answer" => t \in appended, outcome = "exhausted" => t \notin appended,
         outcome \in Results \ {"none"},
         ~Fits(t, events) => outcome \in {"answer", "exhausted"}
  PROVE  Ind' /\ Elsewhere(t)
<1>1. /\ TurnOf(pc[t], verdict[t], calls[t], result[t], gen[t],
                t \in appended, t \in orphans)
      /\ SessionOf[t] \in Sessions
  BY TurnAt
<1>2. FlowTyped /\ QueueTyped /\ MsgsTyped /\ RowsTyped /\ TurnInv /\ RowsInv /\ MsgInv
  BY DEF Ind, TablesTyped
<1>3. verdict[t] = "asked" /\ t \notin orphans /\ pc[t] # "idle"
  BY <1>1 DEF TurnOf, Handling, SettledPC
<1>5. <<t, "assistant">> \notin ToSet(msgs[SessionOf[t]])
  BY <1>3, NotStoredYet
<1>6. /\ QueueTyped' /\ MsgsTyped' /\ pc' \in [Turns -> PC] /\ verdict' \in [Turns -> Verdicts]
      /\ \A u \in Turns \ {t} : /\ queue'[u] = queue[u] /\ put'[u] = put[u]
                                /\ pc'[u] = pc[u] /\ verdict'[u] = verdict[u]
      /\ \A r \in Sessions \ {SessionOf[t]} : msgs'[r] = msgs[r]
      /\ \/ /\ pc'[t] \in SettledPC /\ verdict'[t] = VerdictOf(outcome)
            /\ ToSet(msgs'[SessionOf[t]]) \subseteq ToSet(msgs[SessionOf[t]]) \cup {<<t, "assistant">>}
         \/ /\ ~Fits(t, events) /\ pc'[t] = "storing"
            /\ verdict' = verdict /\ msgs' = msgs
  <2>1. pc \in [Turns -> PC] /\ verdict \in [Turns -> Verdicts]
    BY <1>2 DEF FlowTyped
  <2>2. QED
    BY <1>2, <1>5, <2>1, ReplyProps
<1>7. FlowTyped'
  BY <1>2, <1>6 DEF FlowTyped
<1>8. Elsewhere(t)
  BY <1>6 DEF Elsewhere
<1>9. TurnInv'
  <2>1. TurnOf(pc'[t], verdict'[t], calls'[t], result'[t], gen'[t],
               t \in appended', t \in orphans')
    <3>1. CASE pc'[t] \in SettledPC /\ verdict'[t] = VerdictOf(outcome)
      BY <1>3, <3>1 DEF TurnOf, VerdictOf, Handling, SettledPC
    <3>2. CASE ~Fits(t, events) /\ pc'[t] = "storing" /\ verdict' = verdict
      BY <1>3, <3>2 DEF TurnOf, VerdictOf, Handling, SettledPC
    <3>3. QED
      BY <1>6, <3>1, <3>2
  <2>2. QED
    BY <1>2, <1>8, <2>1, TurnKept
<1>10. RowsTyped' /\ RowsInv'
  BY <1>2, RowsKept
<1>11. MsgInv'
  <2>1. CASE /\ pc'[t] \in SettledPC /\ verdict'[t] = VerdictOf(outcome)
             /\ ToSet(msgs'[SessionOf[t]]) \subseteq ToSet(msgs[SessionOf[t]]) \cup {<<t, "assistant">>}
    <3>1. verdict'[t] \in {"answered", "excused", "failed"} /\ pc'[t] # "idle"
      BY <2>1 DEF VerdictOf, SettledPC
    <3>2. Onward
      BY <1>6, <3>1 DEF Onward
    <3>3. QED
      BY <1>2, <1>6, <2>1, <3>1, <3>2, MsgsGrow
  <2>2. CASE pc'[t] = "storing" /\ verdict' = verdict /\ msgs' = msgs
    <3>1. Onward
      BY <1>6, <2>2 DEF Onward
    <3>2. \A r \in Sessions : ToSet(msgs'[r]) \subseteq ToSet(msgs[r])
      BY <2>2
    <3>3. QED
      BY <1>2, <3>1, <3>2, MsgsKept
  <2>3. QED
    BY <1>6, <2>1, <2>2
<1>12. QED
  BY <1>6, <1>7, <1>8, <1>9, <1>10, <1>11 DEF Ind, TablesTyped

LEMMA ReturnInd ==
  ASSUME Ind, NEW t \in Turns, Return(t)
  PROVE  Ind' /\ Elsewhere(t)
<1> DEFINE events == Streamed(t, ToolCalls(calls[t]))
<1>1. /\ TurnOf(pc[t], verdict[t], calls[t], result[t], gen[t],
                t \in appended, t \in orphans)
      /\ calls[t] \in Nat /\ pc[t] = "journaling"
  BY TurnAt DEF Return
<1>2. events \in Seq(Events)
  BY <1>1, Scripts DEF Streamed
<1>3. /\ (result[t] = "answer" => t \in appended) /\ (result[t] = "exhausted" => t \notin appended)
      /\ result[t] \in {"answer", "exhausted"} /\ result[t] \in Results \ {"none"}
      /\ pc[t] \in Handling \cup {"storing"}
  BY <1>1 DEF TurnOf, Handling, Results
<1>4. /\ history' \in [Turns -> SUBSET Kept] /\ before' \in [Turns -> SUBSET Kept]
      /\ shown' \in [Turns -> SUBSET Kept]
  BY DismissTyped DEF Return, Ind
<1>5. /\ Reply(t, events, result[t])
      /\ UNCHANGED <<calls, result, gen, got, orphans, rows, erasures, appended>>
      /\ result \in [Turns -> Results] /\ calls \in [Turns -> 0..MaxIterations]
  BY DEF Return, Ind, FlowTyped
<1> HIDE DEF events
<1>6. QED
  BY <1>2, <1>3, <1>4, <1>5, ReplyInd

LEMMA AgentFailsInd ==
  ASSUME Ind, NEW t \in Turns, AgentFails(t)
  PROVE  Ind' /\ Elsewhere(t)
<1>1. /\ TurnOf(pc[t], verdict[t], calls[t], result[t], gen[t],
                t \in appended, t \in orphans)
      /\ pc[t] \in Handling
  BY TurnAt DEF AgentFails
<1>2. pc[t] \in Handling \cup {"storing"} /\ "failed" \in Results \ {"none"}
  BY <1>1 DEF Results
<1>3. /\ history' \in [Turns -> SUBSET Kept] /\ before' \in [Turns -> SUBSET Kept]
      /\ shown' \in [Turns -> SUBSET Kept]
  BY DismissTyped DEF AgentFails, Ind
<1>4. /\ Reply(t, <<>>, "failed")
      /\ UNCHANGED <<gen, got, orphans, rows, erasures, appended>>
  BY DEF AgentFails
<1>5. /\ result' \in [Turns -> Results] /\ calls' \in [Turns -> 0..MaxIterations]
      /\ result'[t] = "failed"
      /\ \A u \in Turns \ {t} : result'[u] = result[u] /\ calls'[u] = calls[u]
  <2>1. 0 \in 0..MaxIterations
    BY ChatAssumption
  <2>2. QED
    BY <2>1 DEF AgentFails, Ind, FlowTyped, Results
<1>6. Fits(t, <<>>) /\ <<>> \in Seq(Events)
  BY NothingFits DEF Ind, TablesTyped
<1>7. QED
  BY <1>2, <1>3, <1>4, <1>5, <1>6, ReplyInd

LEMMA LeaveProps ==
  ASSUME FlowTyped, NEW t \in Turns, LeaveThread(t)
  PROVE  /\ orphans' \in SUBSET Turns
         /\ t \in orphans' => t \in orphans \/ pc[t] = "appending"
         /\ \A u \in Turns \ {t} : (u \in orphans') = (u \in orphans)
BY DEF FlowTyped, LeaveThread

LEMMA GiveUpInd ==
  ASSUME Ind, NEW t \in Turns, GiveUp(t)
  PROVE  Ind' /\ Elsewhere(t)
<1> DEFINE events == Streamed(t, <<"error", "__end__">>)
<1>1. /\ TurnOf(pc[t], verdict[t], calls[t], result[t], gen[t],
                t \in appended, t \in orphans)
      /\ pc[t] \in Handling
  BY TurnAt DEF GiveUp
<1>2. FlowTyped /\ QueueTyped /\ MsgsTyped /\ RowsTyped /\ TurnInv /\ RowsInv /\ MsgInv
  BY DEF Ind, TablesTyped
<1>3. events \in Seq(Events) /\ End(t, events)
  BY Scripts DEF Streamed, GiveUp
<1> HIDE DEF events
<1>4. /\ QueueTyped' /\ pc' \in [Turns -> PC] /\ pc'[t] \in SettledPC
      /\ \A u \in Turns \ {t} : pc'[u] = pc[u]
  BY <1>2, <1>3, EndProps DEF FlowTyped
<1>5. /\ orphans' \in SUBSET Turns
      /\ t \in orphans' => t \in orphans \/ pc[t] = "appending"
      /\ \A u \in Turns \ {t} : (u \in orphans') = (u \in orphans)
  BY <1>2, LeaveProps DEF GiveUp
<1>6. /\ verdict' \in [Turns -> Verdicts] /\ verdict'[t] = "refused"
      /\ \A u \in Turns \ {t} : verdict'[u] = verdict[u]
      /\ UNCHANGED <<calls, result, gen, got, rows, msgs, erasures, appended>>
  BY <1>2 DEF GiveUp, FlowTyped, Verdicts
<1>7. FlowTyped'
  <2>1. /\ history' \in [Turns -> SUBSET Kept] /\ before' \in [Turns -> SUBSET Kept]
        /\ shown' \in [Turns -> SUBSET Kept]
    BY <1>2, DismissTyped DEF GiveUp
  <2>2. QED
    BY <1>2, <1>4, <1>5, <1>6, <2>1 DEF FlowTyped
<1>8. Elsewhere(t)
  BY <1>4, <1>5, <1>6 DEF Elsewhere
<1>9. TurnInv'
  <2>1. ~(pc[t] = "appending" /\ t \in appended) /\ verdict[t] = "asked"
    BY <1>1 DEF TurnOf, Handling, SettledPC
  <2>2. t \notin orphans
    BY <1>1 DEF TurnOf, Handling, SettledPC
  <2>3. t \in orphans' => ~(t \in appended')
    BY <1>5, <1>6, <2>1, <2>2
  <2>4. /\ pc'[t] \notin Handling \cup {"idle", "storing"} /\ pc'[t] \in SettledPC
        /\ verdict'[t] = "refused"
    BY <1>4, <1>6 DEF SettledPC, Handling
  <2>5. TurnOf(pc'[t], verdict'[t], calls'[t], result'[t], gen'[t],
               t \in appended', t \in orphans')
    BY <2>3, <2>4 DEF TurnOf, Handling, SettledPC
  <2>6. QED
    BY <1>2, <1>8, <2>5, TurnKept
<1>10. RowsTyped' /\ RowsInv'
  BY <1>2, <1>6, RowsKept
<1>11. MsgInv'
  <2>1. Onward
    <3>1. verdict[t] = "asked" /\ pc'[t] # "idle"
      BY <1>1, <1>4 DEF TurnOf, Handling, SettledPC
    <3>2. QED
      BY <1>4, <1>6, <3>1 DEF Onward
  <2>2. \A r \in Sessions : ToSet(msgs'[r]) \subseteq ToSet(msgs[r])
    BY <1>6
  <2>3. QED
    BY <1>2, <2>1, <2>2, MsgsKept
<1>12. MsgsTyped'
  BY <1>2, <1>6 DEF MsgsTyped
<1>13. QED
  BY <1>4, <1>7, <1>8, <1>9, <1>10, <1>11, <1>12 DEF Ind, TablesTyped

LEMMA StoredInd ==
  ASSUME Ind, NEW t \in Turns, Stored(t) \/ StoreRaises(t) \/ LateStored(t)
  PROVE  Ind' /\ Elsewhere(t) /\ t \notin appended /\ t \notin ToSet(rows[SessionOf[t]])
<1>1. TurnOf(pc[t], verdict[t], calls[t], result[t], gen[t],
             t \in appended, t \in orphans)
  BY TurnAt
<1>2. FlowTyped /\ QueueTyped /\ MsgsTyped /\ RowsTyped /\ TurnInv /\ RowsInv /\ MsgInv
  BY DEF Ind, TablesTyped
<1>3. /\ Store(t) /\ UNCHANGED <<calls, history, shown, result, verdict, put, queue, gen, got,
                                 msgs, erasures, before>>
      /\ \/ /\ pc[t] = "appending" /\ orphans' = orphans
            /\ \E p \in {"journaling", "raising"} : pc' = [pc EXCEPT ![t] = p]
         \/ t \in orphans /\ orphans' = orphans \ {t} /\ pc' = pc
  BY DEF Stored, StoreRaises, LateStored
<1>4. t \notin appended
  BY <1>1, <1>3 DEF TurnOf, SettledPC
<1>5. /\ t \notin ToSet(rows[SessionOf[t]])
      /\ RowsTyped' /\ RowsInv' /\ appended' = appended \cup {t}
  BY <1>2, <1>3, <1>4, RowsGrow
<1>6. /\ pc' \in [Turns -> PC] /\ orphans' \in SUBSET Turns
      /\ \A u \in Turns \ {t} : pc'[u] = pc[u] /\ (u \in orphans') = (u \in orphans)
      /\ (pc'[t] \in {"journaling", "raising"} /\ pc[t] = "appending") \/ pc'[t] = pc[t]
  <2>1. pc \in [Turns -> PC] /\ orphans \in SUBSET Turns
    BY <1>2 DEF FlowTyped
  <2>2. CASE /\ pc[t] = "appending" /\ orphans' = orphans
             /\ \E p \in {"journaling", "raising"} : pc' = [pc EXCEPT ![t] = p]
    <3>1. PICK p \in {"journaling", "raising"} : pc' = [pc EXCEPT ![t] = p]
      BY <2>2
    <3>2. p \in PC
      BY DEF PC, Handling
    <3>3. pc' \in [Turns -> PC] /\ pc'[t] = p /\ \A u \in Turns \ {t} : pc'[u] = pc[u]
      BY <2>1, <3>1, <3>2
    <3>4. QED
      BY <2>1, <2>2, <3>3
  <2>3. CASE t \in orphans /\ orphans' = orphans \ {t} /\ pc' = pc
    BY <2>1, <2>3
  <2>4. QED
    BY <1>3, <2>2, <2>3
<1>7. FlowTyped'
  BY <1>2, <1>3, <1>5, <1>6 DEF FlowTyped
<1>8. Elsewhere(t)
  BY <1>3, <1>5, <1>6 DEF Elsewhere
<1>9. TurnInv'
  <2>1. /\ verdict'[t] = verdict[t] /\ calls'[t] = calls[t] /\ result'[t] = result[t]
        /\ gen'[t] = gen[t] /\ t \in appended'
    BY <1>3, <1>5
  <2>2. CASE /\ pc[t] = "appending" /\ orphans' = orphans
             /\ \E p \in {"journaling", "raising"} : pc' = [pc EXCEPT ![t] = p]
    <3>1. pc'[t] \in {"journaling", "raising"}
      BY <1>2, <2>2 DEF FlowTyped
    <3>2. TurnOf(pc'[t], verdict'[t], calls'[t], result'[t], gen'[t],
                 t \in appended', t \in orphans')
      BY <1>1, <2>1, <2>2, <3>1 DEF TurnOf, Handling, SettledPC
    <3>3. QED
      BY <1>2, <1>8, <3>2, TurnKept
  <2>3. CASE t \in orphans /\ orphans' = orphans \ {t} /\ pc' = pc
    <3>1. /\ pc'[t] = pc[t] /\ pc[t] \in SettledPC /\ verdict[t] = "refused"
          /\ t \notin orphans'
      BY <1>1, <2>3 DEF TurnOf
    <3>2. TurnOf(pc'[t], verdict'[t], calls'[t], result'[t], gen'[t],
                 t \in appended', t \in orphans')
      BY <2>1, <3>1 DEF TurnOf, Handling, SettledPC
    <3>3. QED
      BY <1>2, <1>8, <3>2, TurnKept
  <2>4. QED
    BY <1>3, <2>2, <2>3
<1>10. MsgsTyped' /\ QueueTyped'
  BY <1>2, <1>3 DEF MsgsTyped, QueueTyped
<1>11. MsgInv'
  <2>1. Onward
    BY <1>3, <1>6 DEF Onward
  <2>2. \A r \in Sessions : ToSet(msgs'[r]) \subseteq ToSet(msgs[r])
    BY <1>3
  <2>3. QED
    BY <1>2, <2>1, <2>2, MsgsKept
<1>12. QED
  BY <1>4, <1>5, <1>7, <1>8, <1>9, <1>10, <1>11 DEF Ind, TablesTyped

LEMMA PutInd ==
  ASSUME Ind, NEW t \in Turns, Put(t)
  PROVE  Ind' /\ Elsewhere(t)
<1>1. /\ TurnOf(pc[t], verdict[t], calls[t], result[t], gen[t],
                t \in appended, t \in orphans)
      /\ FlowTyped /\ QueueTyped /\ MsgsTyped /\ RowsTyped /\ TurnInv /\ RowsInv /\ MsgInv
  BY TurnAt DEF Ind, TablesTyped
<1>2. /\ put[t] \in Seq(Events)
      /\ UNCHANGED <<calls, history, shown, result, gen, got, orphans, rows, erasures,
                     appended, before>>
  BY <1>1 DEF Put, QueueTyped
<1>3. PICK events \in Seq(Events) : events = put[t]
  BY <1>2
<1>4. CASE pc[t] = "storing" /\ Reply(t, put[t], result[t])
  <2>1. /\ (result[t] = "answer" => t \in appended) /\ (result[t] = "exhausted" => t \notin appended)
        /\ result[t] \in {"answer", "exhausted"} /\ result[t] \in Results \ {"none"}
        /\ pc[t] \in Handling \cup {"storing"}
    BY <1>1, <1>4 DEF TurnOf, Handling, Results
  <2>2. /\ result' \in [Turns -> Results] /\ calls' \in [Turns -> 0..MaxIterations]
        /\ history' \in [Turns -> SUBSET Kept] /\ before' \in [Turns -> SUBSET Kept]
        /\ shown' \in [Turns -> SUBSET Kept]
    BY <1>1, <1>2 DEF FlowTyped
  <2>3. Reply(t, events, result[t])
    BY <1>3, <1>4
  <2>4. QED
    BY <1>2, <2>1, <2>2, <2>3, ReplyInd
<1>5. CASE pc[t] = "ending" /\ End(t, put[t]) /\ UNCHANGED <<verdict, msgs>>
  <2>1. /\ QueueTyped' /\ pc' \in [Turns -> PC] /\ pc'[t] \in SettledPC
        /\ \A u \in Turns \ {t} : pc'[u] = pc[u]
    <3>1. End(t, events) /\ pc \in [Turns -> PC]
      BY <1>1, <1>3, <1>5 DEF FlowTyped
    <3>2. QED
      BY <1>1, <3>1, EndProps
  <2>2. FlowTyped'
    BY <1>1, <1>2, <1>5, <2>1 DEF FlowTyped
  <2>3. Elsewhere(t)
    BY <1>2, <1>5, <2>1 DEF Elsewhere
  <2>4. TurnInv'
    <3>1. TurnOf(pc'[t], verdict'[t], calls'[t], result'[t], gen'[t],
                 t \in appended', t \in orphans')
      BY <1>1, <1>2, <1>5, <2>1 DEF TurnOf, Handling, SettledPC
    <3>2. QED
      BY <1>1, <2>3, <3>1, TurnKept
  <2>5. MsgsTyped' /\ RowsTyped' /\ RowsInv'
    BY <1>1, <1>2, <1>5 DEF MsgsTyped, RowsTyped, RowsInv
  <2>6. MsgInv'
    <3>1. Onward
      BY <1>5, <2>1 DEF Onward, SettledPC
    <3>2. \A r \in Sessions : ToSet(msgs'[r]) \subseteq ToSet(msgs[r])
      BY <1>5
    <3>3. QED
      BY <1>1, <3>1, <3>2, MsgsKept
  <2>7. QED
    BY <2>1, <2>2, <2>3, <2>4, <2>5, <2>6 DEF Ind, TablesTyped
<1>6. QED
  BY <1>4, <1>5 DEF Put

LEMMA DisconnectInd ==
  ASSUME Ind, NEW t \in Turns, Disconnect(t)
  PROVE  Ind' /\ Elsewhere(t)
<1>1. /\ TurnOf(pc[t], verdict[t], calls[t], result[t], gen[t],
                t \in appended, t \in orphans)
      /\ FlowTyped /\ QueueTyped /\ MsgsTyped /\ RowsTyped /\ TurnInv /\ RowsInv /\ MsgInv
      /\ gen[t] \in {"getting", "sending"}
  BY TurnAt DEF Ind, TablesTyped, Disconnect
<1>2. UNCHANGED <<calls, result, queue, got, rows, msgs, erasures, appended>>
  BY DEF Disconnect
<1>3. PICK stuck \in BOOLEAN :
        /\ gen' = [gen EXCEPT ![t] = IF stuck THEN "closing" ELSE "closed"]
        /\ pc' = [pc EXCEPT ![t] = IF stuck THEN "ending" ELSE "ended"]
        /\ put' = [put EXCEPT ![t] = IF stuck THEN AtCancel(t) ELSE <<>>]
  BY DEF Disconnect, Stuck
<1>4. put' \in [Turns -> Seq(Events)] /\ QueueTyped'
  <2>1. (IF stuck THEN AtCancel(t) ELSE <<>>) \in Seq(Events)
    BY Scripts DEF AtCancel
  <2>2. QED
    BY <1>1, <1>2, <1>3, <2>1 DEF QueueTyped
<1>5. /\ gen' \in [Turns -> {"none", "getting", "sending", "closing", "closed"}]
      /\ pc' \in [Turns -> PC] /\ pc'[t] \in SettledPC
      /\ \A u \in Turns \ {t} : pc'[u] = pc[u] /\ gen'[u] = gen[u]
  BY <1>1, <1>3 DEF FlowTyped, PC, SettledPC
<1>6. /\ verdict' \in [Turns -> Verdicts]
      /\ verdict'[t] = IF verdict[t] = "asked" THEN "refused" ELSE verdict[t]
      /\ \A u \in Turns \ {t} : verdict'[u] = verdict[u]
  BY <1>1 DEF Disconnect, FlowTyped, Verdicts
<1>7. /\ orphans' \in SUBSET Turns
      /\ t \in orphans' => t \in orphans \/ pc[t] = "appending"
      /\ \A u \in Turns \ {t} : (u \in orphans') = (u \in orphans)
  BY <1>1, LeaveProps DEF Disconnect
<1>8. FlowTyped'
  <2>1. /\ history' \in [Turns -> SUBSET Kept] /\ before' \in [Turns -> SUBSET Kept]
        /\ shown' \in [Turns -> SUBSET Kept]
    BY <1>1, DismissTyped DEF Disconnect
  <2>2. QED
    BY <1>1, <1>2, <1>5, <1>6, <1>7, <2>1 DEF FlowTyped
<1>9. Elsewhere(t)
  BY <1>2, <1>5, <1>6, <1>7 DEF Elsewhere
<1>10. TurnInv'
  <2>1. pc[t] # "idle" /\ verdict[t] # "unasked"
    BY <1>1 DEF TurnOf
  <2>2. /\ pc'[t] \notin Handling \cup {"idle", "storing"} /\ pc'[t] \in SettledPC
        /\ verdict'[t] \notin {"asked", "unasked"}
    BY <1>5, <1>6, <2>1 DEF SettledPC, Handling
  <2>3. t \in orphans' => ~(t \in appended') /\ verdict'[t] = "refused"
    <3>1. t \in orphans => verdict[t] = "refused" /\ t \notin appended
      BY <1>1 DEF TurnOf
    <3>2. pc[t] = "appending" => verdict[t] = "asked" /\ t \notin appended
      BY <1>1 DEF TurnOf, Handling, SettledPC
    <3>3. QED
      BY <1>2, <1>6, <1>7, <3>1, <3>2
  <2>4. /\ verdict'[t] = "answered" => t \in appended'
        /\ verdict'[t] = "excused" => t \notin appended'
    BY <1>1, <1>2, <1>6 DEF TurnOf
  <2>5. TurnOf(pc'[t], verdict'[t], calls'[t], result'[t], gen'[t],
               t \in appended', t \in orphans')
    BY <2>2, <2>3, <2>4 DEF TurnOf, Handling, SettledPC
  <2>6. QED
    BY <1>1, <1>9, <2>5, TurnKept
<1>11. MsgsTyped' /\ RowsTyped' /\ RowsInv'
  BY <1>1, <1>2 DEF MsgsTyped, RowsTyped, RowsInv
<1>12. MsgInv'
  <2>1. Onward
    BY <1>5, <1>6 DEF Onward, SettledPC
  <2>2. \A r \in Sessions : ToSet(msgs'[r]) \subseteq ToSet(msgs[r])
    BY <1>2
  <2>3. QED
    BY <1>1, <2>1, <2>2, MsgsKept
<1>13. QED
  BY <1>4, <1>8, <1>9, <1>10, <1>11, <1>12 DEF Ind, TablesTyped

(* A DELETE concerns the tables only.                                      *)
Undisturbed ==
  UNCHANGED <<pc, calls, history, shown, result, verdict, put, queue, gen, got, orphans,
              appended, before>>

LEMMA DeleteInd ==
  ASSUME Ind, Undisturbed, erasures' \in 0..MaxErasures, MsgsTyped', RowsTyped',
         \A s \in Sessions : ToSet(msgs'[s]) \subseteq ToSet(msgs[s]),
         \A s \in Sessions : ToSet(rows'[s]) \subseteq ToSet(rows[s])
  PROVE  Ind'
<1>1. FlowTyped' /\ QueueTyped' /\ TurnInv' /\ RowsInv'
  BY DEF Ind, TablesTyped, FlowTyped, QueueTyped, TurnInv, RowsInv, Undisturbed
<1>2. Onward
  BY DEF Onward, Undisturbed
<1>3. MsgInv'
  BY <1>2, MsgsKept DEF Ind, TablesTyped
<1>4. QED
  BY <1>1, <1>3 DEF Ind, TablesTyped

LEMMA EraseInd ==
  ASSUME Ind, \/ \E S \in SUBSET Sessions \ {{}} : \E M \in SUBSET S : ClearSessions(S, M)
              \/ \E s \in Sessions : \E M \in SUBSET ToSet(msgs[s]) \ {{}} : DeleteMessages(s, M)
  PROVE  Ind' /\ Undisturbed
<1>1. MsgsTyped /\ RowsTyped /\ erasures \in Nat /\ MaxErasures \in Nat
  BY ChatAssumption DEF Ind, TablesTyped, FlowTyped
<1>2. <<>> \in Seq(Message) /\ <<>> \in Seq(Kept) /\ IsInjective(<<>>) /\ ToSet(<<>>) = {}
      /\ Len(<<>>) = 0 /\ 0 <= MaxPerSession
  BY ChatAssumption DEF IsInjective, ToSet
<1>3. ASSUME NEW S \in SUBSET Sessions, NEW M \in SUBSET S, ClearSessions(S, M)
      PROVE  Ind' /\ Undisturbed
  <2>1. Undisturbed /\ erasures' \in 0..MaxErasures
    BY <1>1, <1>3 DEF ClearSessions, Undisturbed
  <2>2. \A s \in Sessions : /\ rows'[s] = IF s \in S THEN <<>> ELSE rows[s]
                            /\ msgs'[s] = IF s \in M THEN <<>> ELSE msgs[s]
    BY <1>3 DEF ClearSessions
  <2>3. MsgsTyped' /\ RowsTyped'
    BY <1>1, <1>2, <1>3, <2>2 DEF ClearSessions, MsgsTyped, RowsTyped
  <2>4. \A s \in Sessions : /\ ToSet(msgs'[s]) \subseteq ToSet(msgs[s])
                            /\ ToSet(rows'[s]) \subseteq ToSet(rows[s])
    BY <1>2, <2>2
  <2>5. QED
    BY <2>1, <2>3, <2>4, DeleteInd
<1>4. ASSUME NEW s \in Sessions, NEW M, DeleteMessages(s, M)
      PROVE  Ind' /\ Undisturbed
  <2>1. Undisturbed /\ erasures' \in 0..MaxErasures /\ rows' = rows
    BY <1>1, <1>4 DEF DeleteMessages, Undisturbed
  <2>2. PICK rest : rest = Without(msgs[s], M)
    OBVIOUS
  <2>3. /\ msgs' = [msgs EXCEPT ![s] = rest]
        /\ msgs[s] \in Seq(Message) /\ Len(msgs[s]) <= MaxPerSession /\ IsInjective(msgs[s])
    BY <1>1, <1>4, <2>2 DEF DeleteMessages, MsgsTyped
  <2>4. /\ rest \in Seq(Message) /\ Len(rest) <= Len(msgs[s]) /\ IsInjective(rest)
        /\ ToSet(rest) \subseteq ToSet(msgs[s])
    BY <2>2, <2>3, WithoutProps
  <2>5. Len(rest) <= MaxPerSession
    BY <2>3, <2>4, ChatAssumption
  <2>6. \A r \in Sessions : msgs'[r] = IF r = s THEN rest ELSE msgs[r]
    BY <1>1, <2>3 DEF MsgsTyped
  <2>7. MsgsTyped' /\ RowsTyped'
    BY <1>1, <2>1, <2>3, <2>4, <2>5, <2>6 DEF MsgsTyped, RowsTyped
  <2>8. \A r \in Sessions : /\ ToSet(msgs'[r]) \subseteq ToSet(msgs[r])
                            /\ ToSet(rows'[r]) \subseteq ToSet(rows[r])
    BY <2>1, <2>4, <2>6
  <2>9. QED
    BY <2>1, <2>7, <2>8, DeleteInd
<1>5. QED
  BY <1>3, <1>4

(* A step of a turn, of its producer or of its generator.                  *)
TurnStep(t) == Begin(t) \/ Work(t) \/ LateStored(t) \/ Deliver(t)

LEMMA StepCases ==
  ASSUME NEW t \in Turns, TurnStep(t)
  PROVE  \/ Begin(t) \/ Read(t) \/ UseTools(t) \/ Conclude(t) \/ Stored(t)
         \/ StoreRaises(t) \/ LateStored(t) \/ Return(t) \/ AgentFails(t) \/ GiveUp(t) \/ Put(t)
         \/ Get(t) \/ Sent(t) \/ Disconnect(t)
BY DEF TurnStep, Work, Deliver

LEMMA TurnStepInd ==
  ASSUME Ind, NEW t \in Turns, TurnStep(t)
  PROVE  Ind' /\ Elsewhere(t)
<1>1. CASE Begin(t)
  BY <1>1, BeginInd
<1>2. CASE Read(t)
  BY <1>2, ReadInd
<1>3. CASE UseTools(t)
  BY <1>3, UseToolsInd
<1>4. CASE Conclude(t)
  BY <1>4, ConcludeInd
<1>5. CASE Stored(t) \/ StoreRaises(t) \/ LateStored(t)
  BY <1>5, StoredInd
<1>6. CASE Return(t)
  BY <1>6, ReturnInd
<1>7. CASE AgentFails(t)
  BY <1>7, AgentFailsInd
<1>8. CASE GiveUp(t)
  BY <1>8, GiveUpInd
<1>9. CASE Put(t)
  BY <1>9, PutInd
<1>10. CASE Get(t) \/ Sent(t)
  BY <1>10, GetSentInd
<1>11. CASE Disconnect(t)
  BY <1>11, DisconnectInd
<1>12. QED
  BY <1>1, <1>2, <1>3, <1>4, <1>5, <1>6, <1>7, <1>8, <1>9, <1>10, <1>11, StepCases

Erases ==
  \/ \E S \in SUBSET Sessions \ {{}} : \E M \in SUBSET S : ClearSessions(S, M)
  \/ \E s \in Sessions : \E M \in SUBSET ToSet(msgs[s]) \ {{}} : DeleteMessages(s, M)

LEMMA NextCases ==
  ASSUME [Next]_vars
  PROVE  (\E t \in Turns : TurnStep(t)) \/ Erases \/ UNCHANGED vars
BY DEF Next, Quiet, TurnStep, Erases

LEMMA IndStutter == Ind /\ UNCHANGED vars => Ind'
BY DEF vars, Ind, FlowTyped, TablesTyped, QueueTyped, MsgsTyped, RowsTyped, TurnInv,
       RowsInv, MsgInv

LEMMA NextInd == Ind /\ [Next]_vars => Ind'
<1>1. SUFFICES ASSUME Ind, [Next]_vars PROVE Ind'
  OBVIOUS
<1>2. CASE \E t \in Turns : TurnStep(t)
  BY <1>1, <1>2, TurnStepInd
<1>3. CASE Erases
  BY <1>1, <1>3, EraseInd DEF Erases
<1>4. CASE UNCHANGED vars
  BY <1>1, <1>4, IndStutter
<1>5. QED
  BY <1>1, <1>2, <1>3, <1>4, NextCases

LEMMA IndHolds == Spec => []Ind
BY InitInd, NextInd, PTL DEF Spec

(* The state of every turn, queue and table keeps its type: a queue never  *)
(* holds more than QueueMax events, nor a session more than MaxPerSession  *)
(* messages, and no table holds an entry twice.                            *)
THEOREM TurnTypeCorrect == Spec => []TypeOK
BY IndHolds, IndTypeOK, PTL

-----------------------------------------------------------------------------
(* What the model is shown of a session                                    *)

Behind(q, u, v) == \E i, j \in DOMAIN q : i < j /\ q[i] = u /\ q[j] = v

(* SeesAnswered for a turn, of its session's rows q, the history it read,  *)
(* what of that was shown and the turns that have to be.                   *)
Shown(q, seen, kept, due) ==
  \A u \in due :
    \/ u \in kept
    \/ u \notin ToSet(q)
    \/ Cardinality(seen) = Window /\ \A v \in seen : Behind(q, u, v)
    \/ /\ u \in seen
       /\ \/ /\ Cardinality(seen) > SoftWindow
             /\ \E newest \in SUBSET seen :
                  Cardinality(newest) = KeepNewest /\ \A v \in newest : Behind(q, u, v)
          \/ \A v \in kept : Behind(q, u, v)

LEMMA SeesShown ==
  SeesAnswered <=>
    \A t \in Turns : (pc[t] = "thinking" /\ calls[t] = 0) =>
      Shown(rows[SessionOf[t]], history[t], shown[t], before[t])
BY DEF SeesAnswered, Shown, Displaced, Trimmed, Crowded, Later, Behind

(* What trim_history takes out makes room for later turns.                 *)
LEMMA TrimsLater ==
  ASSUME NEW S, NEW r \in Seq(S), IsInjective(r), NEW turns \in Trims(r),
         NEW u \in ToSet(r), u \notin turns
  PROVE  \/ /\ Cardinality(ToSet(r)) > SoftWindow
            /\ \E newest \in SUBSET ToSet(r) :
                 Cardinality(newest) = KeepNewest /\ \A v \in newest : Behind(r, u, v)
         \/ \A v \in turns : Behind(r, u, v)
<1>1. /\ SoftWindow \in Nat /\ KeepOldest \in Nat /\ KeepNewest \in Nat
      /\ KeepOldest + KeepNewest <= SoftWindow
      /\ Len(r) \in Nat /\ DOMAIN r = 1..Len(r)
  BY ChatAssumption
<1>2. PICK c : c = Collapsed(r)
  OBVIOUS
<1>3. PICK n \in 0..Len(c) : turns = ToSet(Newest(c, n))
  BY <1>2 DEF Trims
<1>4. c \in Seq(S)
  BY <1>2, CollapsedProps
<1>5. PICK m : m = Newest(c, n)
  OBVIOUS
<1>6. /\ m \in Seq(S) /\ Len(m) = n
      /\ \A i \in 1..n : m[i] = c[i + (Len(c) - n)]
  BY <1>4, <1>5, NewestProps
<1>7. \A x : x \in turns <=> \E i \in 1..n : m[i] = x
  BY <1>3, <1>5, <1>6, SetOfSeq
(* Those kept are at the end of what was collapsed. *)
<1>8. \A v \in turns : \E i \in (Len(c) - n + 1)..Len(c) : c[i] = v
  <2>1. SUFFICES ASSUME NEW v \in turns PROVE \E i \in (Len(c) - n + 1)..Len(c) : c[i] = v
    OBVIOUS
  <2>2. PICK i \in 1..n : m[i] = v
    BY <1>7
  <2>3. i + (Len(c) - n) \in (Len(c) - n + 1)..Len(c)
    BY <1>4
  <2>4. QED
    BY <1>6, <2>2, <2>3
<1>9. \A i \in 1..Len(c) : c[i] = u => i <= Len(c) - n
  <2>1. SUFFICES ASSUME NEW i \in 1..Len(c), c[i] = u, ~(i <= Len(c) - n) PROVE FALSE
    OBVIOUS
  <2>2. Len(c) \in Nat
    BY <1>4
  <2>3. i - (Len(c) - n) \in 1..n /\ (i - (Len(c) - n)) + (Len(c) - n) = i
    BY <2>1, <2>2
  <2>4. m[i - (Len(c) - n)] = u
    BY <1>6, <2>1, <2>3
  <2>5. QED
    BY <1>7, <2>3, <2>4
<1>10. PICK k \in 1..Len(r) : r[k] = u
  BY SetOfSeq
<1>11. CASE ~(Len(r) > SoftWindow)
  <2>1. c = r
    BY <1>2, <1>11, CollapsedProps
  <2>2. k <= Len(r) - n
    BY <1>9, <1>10, <2>1
  <2>3. \A v \in turns : Behind(r, u, v)
    <3>1. SUFFICES ASSUME NEW v \in turns PROVE Behind(r, u, v)
      OBVIOUS
    <3>2. PICK i \in (Len(r) - n + 1)..Len(r) : r[i] = v
      BY <1>8, <2>1
    <3>3. i \in 1..Len(r) /\ k < i
      BY <1>1, <2>1, <2>2
    <3>4. QED
      BY <1>1, <1>10, <3>2, <3>3 DEF Behind
  <2>4. QED
    BY <2>3
<1>12. CASE Len(r) > SoftWindow /\ k <= Len(r) - KeepNewest
  <2>1. PICK w : w = Newest(r, KeepNewest)
    OBVIOUS
  <2>2. KeepNewest \in 0..Len(r)
    BY <1>1, <1>12
  <2>3. /\ w \in Seq(S) /\ Len(w) = KeepNewest
        /\ \A i \in 1..KeepNewest : w[i] = r[i + (Len(r) - KeepNewest)]
    BY <2>1, <2>2, NewestProps
  <2>4. \A i \in 1..KeepNewest : i + (Len(r) - KeepNewest) \in 1..Len(r)
    BY <1>1, <2>2
  <2>5. \A i, j \in 1..Len(r) : r[i] = r[j] => i = j
    BY <1>1 DEF IsInjective
  <2>6. IsInjective(w)
    <3>1. DOMAIN w = 1..KeepNewest
      BY <2>3
    <3>2. ASSUME NEW i \in 1..KeepNewest, NEW j \in 1..KeepNewest, w[i] = w[j]
          PROVE  i = j
      <4>1. PICK a \in 1..Len(r) : a = i + (Len(r) - KeepNewest) /\ r[a] = w[i]
        BY <2>3, <2>4
      <4>2. PICK b \in 1..Len(r) : b = j + (Len(r) - KeepNewest) /\ r[b] = w[j]
        BY <2>3, <2>4
      <4>3. a = b
        BY <2>5, <3>2, <4>1, <4>2
      <4>4. QED
        BY <1>1, <4>1, <4>2, <4>3
    <3>3. QED
      BY <3>1, <3>2 DEF IsInjective
  <2>7. Cardinality(ToSet(w)) = KeepNewest
    BY <2>3, <2>6, CountInjective
  <2>8. ASSUME NEW v \in ToSet(w)
        PROVE  v \in ToSet(r) /\ Behind(r, u, v)
    <3>1. PICK i \in 1..KeepNewest : w[i] = v
      BY <2>3, SetOfSeq
    <3>2. PICK j : j = i + (Len(r) - KeepNewest)
      OBVIOUS
    <3>3. j \in 1..Len(r) /\ r[j] = v /\ k < j
      BY <1>1, <1>12, <2>3, <2>4, <3>1, <3>2
    <3>4. QED
      BY <1>1, <1>10, <3>3, SetOfSeq DEF Behind
  <2>9. Cardinality(ToSet(r)) = Len(r)
    BY CountInjective
  <2>10. QED
    BY <1>12, <2>7, <2>8, <2>9
<1>13. CASE Len(r) > SoftWindow /\ ~(k <= Len(r) - KeepNewest)
  <2>1. /\ Len(c) = KeepOldest + KeepNewest
        /\ \A i \in 1..KeepNewest : c[KeepOldest + i] = r[i + (Len(r) - KeepNewest)]
    BY <1>2, <1>13, CollapsedProps
  <2>2. PICK l \in 1..KeepNewest : l + (Len(r) - KeepNewest) = k
    <3>1. /\ k - (Len(r) - KeepNewest) \in 1..KeepNewest
          /\ (k - (Len(r) - KeepNewest)) + (Len(r) - KeepNewest) = k
      BY <1>1, <1>13
    <3>2. QED
      BY <3>1
  <2>3. KeepOldest + l \in 1..Len(c) /\ c[KeepOldest + l] = u
    BY <1>1, <1>10, <2>1, <2>2
  <2>4. KeepOldest + l <= Len(c) - n
    BY <1>9, <2>3
  <2>5. ASSUME NEW v \in turns PROVE Behind(r, u, v)
    <3>1. PICK i \in (Len(c) - n + 1)..Len(c) : c[i] = v
      BY <1>8
    <3>2. PICK h : h = i - KeepOldest
      OBVIOUS
    <3>3. /\ h \in 1..KeepNewest /\ l < h /\ KeepOldest + h = i
          /\ h + (Len(r) - KeepNewest) \in 1..Len(r)
      BY <1>1, <1>13, <2>1, <2>2, <2>4, <3>1, <3>2
    <3>4. r[h + (Len(r) - KeepNewest)] = v /\ k < h + (Len(r) - KeepNewest)
      BY <1>1, <2>1, <2>2, <3>1, <3>3
    <3>5. QED
      BY <1>1, <1>10, <3>3, <3>4 DEF Behind
  <2>6. QED
    BY <2>5
<1>14. QED
  BY <1>11, <1>12, <1>13

(* The latest rows are read: a row that is not is before all of these.     *)
LEMMA ShownRecent ==
  ASSUME NEW S, NEW q \in Seq(S), IsInjective(q), NEW due,
         NEW turns \in Trims(Capped(q, Window))
  PROVE  Shown(q, ToSet(Capped(q, Window)), turns, due)
<1> DEFINE r == Capped(q, Window)
           d == IF Len(q) > Window THEN Len(q) - Window ELSE 0
<1>1. Window \in Nat \ {0} /\ Len(q) \in Nat /\ DOMAIN q = 1..Len(q)
  BY ChatAssumption
<1>2. /\ r \in Seq(S) /\ Len(r) = Len(q) - d /\ Len(r) <= Window
      /\ d \in Nat /\ \A i \in 1..Len(r) : r[i] = q[i + d]
      /\ IsInjective(r)
  BY <1>1, CappedProps
<1>3. /\ DOMAIN r = 1..Len(r) /\ Len(r) \in Nat
      /\ \A x : x \in ToSet(r) <=> \E i \in 1..Len(r) : r[i] = x
  BY <1>2, SetOfSeq
<1>4. Cardinality(ToSet(r)) = Len(r)
  BY <1>2, CountInjective
<1>5. d = 0 \/ (d > 0 /\ Len(r) = Window)
  <2>1. Len(r) = Len(q) - d
    BY <1>2
  <2>2. CASE Len(q) > Window
    <3>1. d = Len(q) - Window
      BY <2>2
    <3>2. Len(q) \in Nat /\ Window \in Nat
      BY <1>1
    <3> HIDE DEF r, d
    <3>3. \A m, n \in Nat : m > n => m - n > 0 /\ m - (m - n) = n
      OBVIOUS
    <3>4. d > 0 /\ Len(q) - d = Window
      BY <2>2, <3>1, <3>2, <3>3
    <3>5. QED
      BY <2>1, <3>4
  <2>3. CASE ~(Len(q) > Window)
    BY <2>3
  <2>4. QED
    BY <2>2, <2>3
<1> HIDE DEF r, d
<1>6. \A u, v : Behind(r, u, v) => Behind(q, u, v)
  <2>1. SUFFICES ASSUME NEW u, NEW v, NEW i \in 1..Len(r), NEW j \in 1..Len(r),
                        i < j, r[i] = u, r[j] = v
                 PROVE  Behind(q, u, v)
    BY <1>3 DEF Behind
  <2>2. /\ i + d \in 1..Len(q) /\ j + d \in 1..Len(q) /\ i + d < j + d
        /\ q[i + d] = u /\ q[j + d] = v
    BY <1>1, <1>2, <2>1
  <2>3. QED
    BY <1>1, <2>2 DEF Behind
<1>7. turns \in Trims(r)
  BY DEF r
<1>8. ASSUME NEW u \in ToSet(q), u \notin ToSet(r)
      PROVE  Cardinality(ToSet(r)) = Window /\ \A v \in ToSet(r) : Behind(q, u, v)
  <2>1. PICK i \in 1..Len(q) : q[i] = u
    BY SetOfSeq
  <2>2. i <= d
    <3>1. SUFFICES ASSUME ~(i <= d) PROVE FALSE
      OBVIOUS
    <3>2. i - d \in 1..Len(r) /\ (i - d) + d = i
      BY <1>1, <1>2, <3>1
    <3>3. r[i - d] = q[i]
      BY <1>2, <3>2
    <3>4. QED
      BY <1>3, <1>8, <2>1, <3>2, <3>3
  <2>3. Cardinality(ToSet(r)) = Window
    BY <1>2, <1>4, <1>5, <2>1, <2>2
  <2>4. ASSUME NEW v \in ToSet(r) PROVE Behind(q, u, v)
    <3>1. PICK j \in 1..Len(r) : r[j] = v
      BY <1>3
    <3>2. j + d \in 1..Len(q) /\ i < j + d /\ q[j + d] = v
      BY <1>1, <1>2, <2>2, <3>1
    <3>3. QED
      BY <1>1, <2>1, <3>2 DEF Behind
  <2>5. QED
    BY <2>3, <2>4
<1>9. ASSUME NEW u \in ToSet(r), u \notin turns
      PROVE  \/ /\ Cardinality(ToSet(r)) > SoftWindow
                /\ \E newest \in SUBSET ToSet(r) :
                     Cardinality(newest) = KeepNewest /\ \A v \in newest : Behind(q, u, v)
             \/ \A v \in turns : Behind(q, u, v)
  <2>1. \/ /\ Cardinality(ToSet(r)) > SoftWindow
           /\ \E newest \in SUBSET ToSet(r) :
                Cardinality(newest) = KeepNewest /\ \A v \in newest : Behind(r, u, v)
        \/ \A v \in turns : Behind(r, u, v)
    BY <1>2, <1>7, <1>9, TrimsLater
  <2>2. QED
    BY <1>6, <2>1
<1>10. Shown(q, ToSet(r), turns, due)
  BY <1>8, <1>9 DEF Shown
<1>11. QED
  BY <1>10 DEF r

(* A row behind the others changes nothing for the turns before it.        *)
LEMMA ShownAppend ==
  ASSUME NEW S, NEW q \in Seq(S), NEW e \in S, NEW seen, NEW kept, NEW due,
         Shown(q, seen, kept, due), e \notin due
  PROVE  Shown(Append(q, e), seen, kept, due)
<1>1. /\ Append(q, e) \in Seq(S) /\ Len(Append(q, e)) = Len(q) + 1 /\ Len(q) \in Nat
      /\ \A i \in 1..Len(q) : Append(q, e)[i] = q[i]
      /\ ToSet(Append(q, e)) = ToSet(q) \cup {e}
  BY BehindProps
<1>2. /\ DOMAIN q = 1..Len(q) /\ DOMAIN Append(q, e) = 1..(Len(q) + 1)
      /\ \A i \in DOMAIN q : i \in DOMAIN Append(q, e) /\ Append(q, e)[i] = q[i]
  BY <1>1
<1>3. PICK r : r = Append(q, e)
  OBVIOUS
<1>4. /\ ToSet(r) = ToSet(q) \cup {e}
      /\ \A i \in DOMAIN q : i \in DOMAIN r /\ r[i] = q[i]
  BY <1>1, <1>2, <1>3
<1>5. \A u, v : Behind(q, u, v) => Behind(r, u, v)
  BY <1>4 DEF Behind
<1>6. Shown(r, seen, kept, due)
  BY <1>4, <1>5 DEF Shown
<1>7. QED
  BY <1>3, <1>6

LEMMA ShownNothing ==
  ASSUME NEW seen, NEW kept, NEW due
  PROVE  Shown(<<>>, seen, kept, due)
<1>1. ToSet(<<>>) = {}
  BY DEF ToSet
<1>2. QED
  BY <1>1 DEF Shown

(* A turn has to be shown what its session had stored before.              *)
BeforeInv ==
  \A t \in Turns : \A u \in before[t] : u \in appended \/ u \in ToSet(Past[SessionOf[t]])

(* What a step leaves of the history of a turn.                            *)
Keeps(t) ==
  history'[t] = history[t] /\ shown'[t] = shown[t] /\ before'[t] = before[t]

LEMMA MessagesOf ==
  ASSUME Ind, NEW t \in Turns, TurnStep(t)
  PROVE  /\ \A u \in Turns \ {t} : Keeps(u)
         /\ \/ Keeps(t)
            \/ Read(t)
            \/ /\ history'[t] = {} /\ before'[t] = {}
            \/ Begin(t)
<1>1. /\ history \in [Turns -> SUBSET Kept] /\ before \in [Turns -> SUBSET Kept]
      /\ shown \in [Turns -> SUBSET Kept]
  BY DEF Ind, FlowTyped
<1>2. CASE Forget(t) /\ \E turns : shown' = [shown EXCEPT ![t] = turns]
  BY <1>1, <1>2 DEF Forget, Keeps
<1>3. CASE UNCHANGED <<history, shown, before>>
  BY <1>3 DEF Keeps
<1>4. CASE Read(t)
  <2>1. /\ \E seen : history' = [history EXCEPT ![t] = seen]
        /\ \E turns : shown' = [shown EXCEPT ![t] = turns]
        /\ before' = before
    BY <1>4 DEF Read
  <2>2. QED
    BY <1>1, <1>4, <2>1 DEF Keeps
<1>5. CASE Begin(t)
  BY <1>1, <1>5 DEF Begin, Keeps
<1>6. \/ Forget(t) /\ \E turns : shown' = [shown EXCEPT ![t] = turns]
      \/ UNCHANGED <<history, shown, before>>
      \/ Read(t) \/ Begin(t)
  BY StepCases DEF UseTools, Conclude, Stored, StoreRaises, LateStored, Return, AgentFails,
                   GiveUp, Put, Get, Sent, Disconnect, Dismiss
<1>7. QED
  BY <1>2, <1>3, <1>4, <1>5, <1>6

LEMMA BeforeInd ==
  ASSUME Ind, BeforeInv, [Next]_vars
  PROVE  BeforeInv'
<1>1. CASE \E t \in Turns : TurnStep(t)
  <2>1. PICK t \in Turns : TurnStep(t)
    BY <1>1
  <2>2. appended \subseteq appended'
    BY <2>1, TurnStepInd DEF Elsewhere
  <2>3. SUFFICES ASSUME NEW u \in Turns, NEW v \in before'[u]
                 PROVE  v \in appended' \/ v \in ToSet(Past[SessionOf[u]])
    BY DEF BeforeInv
  <2>4. CASE Keeps(u)
    BY <2>2, <2>3, <2>4 DEF BeforeInv, Keeps
  <2>5. CASE u = t /\ Read(t)
    <3>1. before' = before
      BY <2>5 DEF Read
    <3>2. QED
      BY <2>2, <2>3, <3>1 DEF BeforeInv
  <2>6. CASE u = t /\ Begin(t)
    <3>1. before'[t] = {w \in Turns : SessionOf[w] = SessionOf[t] /\ Told(w)}
                         \cup ToSet(Past[SessionOf[t]])
      BY <2>6 DEF Begin, Ind, FlowTyped
    <3>2. \A w \in Turns : Told(w) => w \in appended
      BY TurnAt DEF Told, TurnOf
    <3>3. QED
      BY <2>2, <2>3, <2>6, <3>1, <3>2
  <2>7. CASE u = t /\ before'[t] = {}
    BY <2>3, <2>7
  <2>8. QED
    BY <2>1, <2>4, <2>5, <2>6, <2>7, MessagesOf
<1>2. CASE Erases
  BY <1>2, EraseInd DEF Erases, Undisturbed, BeforeInv
<1>3. CASE UNCHANGED vars
  BY <1>3 DEF vars, BeforeInv
<1>4. QED
  BY <1>1, <1>2, <1>3, NextCases

(* Where the rows of a session are changed.                                *)
LEMMA RowsOf ==
  ASSUME Ind, NEW t \in Turns, TurnStep(t)
  PROVE  rows' = rows \/ Stored(t) \/ StoreRaises(t) \/ LateStored(t)
BY StepCases DEF Begin, Read, UseTools, Conclude, Return, AgentFails, GiveUp, Put, Get,
                 Sent, Disconnect

(* A turn of which the model is asked for the first time was so before, or *)
(* has just read its session's rows.                                       *)
LEMMA ThinkingOf ==
  ASSUME Ind, NEW t \in Turns, TurnStep(t), pc'[t] = "thinking", calls'[t] = 0
  PROVE  \/ Read(t)
         \/ pc[t] = "thinking" /\ calls[t] = 0 /\ Keeps(t)
<1>1. FlowTyped /\ QueueTyped /\ MsgsTyped
  BY DEF Ind, TablesTyped
<1>2. CASE Begin(t)
  BY <1>1, <1>2 DEF Begin, FlowTyped
<1>3. CASE UseTools(t)
  <2>1. calls'[t] = calls[t] + 1 /\ calls[t] \in Nat
    BY <1>1, <1>3, TurnAt DEF UseTools, FlowTyped
  <2>2. QED
    BY <2>1
<1>4. CASE Conclude(t)
  BY <1>1, <1>4 DEF Conclude, FlowTyped
<1>5. CASE Stored(t) \/ StoreRaises(t)
  BY <1>1, <1>5 DEF Stored, StoreRaises, FlowTyped
<1>6. CASE LateStored(t) \/ Get(t) \/ Sent(t)
  BY <1>6 DEF LateStored, Get, Sent, Keeps
<1>7. CASE GiveUp(t)
  BY <1>1, <1>7 DEF GiveUp, End, FlowTyped
<1>8. CASE Disconnect(t)
  BY <1>1, <1>8 DEF Disconnect, FlowTyped
<1>9. CASE Return(t) \/ AgentFails(t) \/ Put(t)
  <2>1. \/ \E p \in {"ending", "ended", "storing"} : pc' = [pc EXCEPT ![t] = p]
    BY <1>9 DEF Return, AgentFails, Put, Reply, End
  <2>2. QED
    BY <1>1, <2>1 DEF FlowTyped
<1>10. QED
  BY <1>2, <1>3, <1>4, <1>5, <1>6, <1>7, <1>8, <1>9, StepCases

LEMMA SeesInd ==
  ASSUME Ind, BeforeInv, SeesAnswered, [Next]_vars
  PROVE  SeesAnswered'
<1> DEFINE Sees(t) ==
             (pc[t] = "thinking" /\ calls[t] = 0) =>
               Shown(rows[SessionOf[t]], history[t], shown[t], before[t])
<1>0. \A t \in Turns : Sees(t)
  BY SeesShown
<1>1. (\A t \in Turns : Sees(t)') => SeesAnswered'
  <2>1. (\A t \in Turns : Sees(t)) => SeesAnswered
    BY SeesShown
  <2>2. QED
    BY DEF SeesAnswered, Shown, Displaced, Trimmed, Crowded, Later, Behind
<1>2. CASE \E t \in Turns : TurnStep(t)
  <2>1. PICK t \in Turns : TurnStep(t)
    BY <1>2
  <2>2. SUFFICES ASSUME NEW u \in Turns, pc'[u] = "thinking", calls'[u] = 0
                 PROVE  Shown(rows'[SessionOf[u]], history'[u], shown'[u], before'[u])
    BY <1>1
  <2>3. SessionOf[u] \in Sessions /\ RowsTyped
    BY TurnAt DEF Ind, TablesTyped
  <2>4. CASE u = t /\ Read(t)
    <3>1. /\ rows' = rows /\ history'[u] = ToSet(Capped(rows[SessionOf[u]], Window))
          /\ shown'[u] \in Trims(Capped(rows[SessionOf[u]], Window))
      <4>1. /\ history \in [Turns -> SUBSET Kept] /\ shown \in [Turns -> SUBSET Kept]
        BY DEF Ind, FlowTyped
      <4>2. PICK turns \in Trims(Capped(rows[SessionOf[u]], Window)) :
              shown' = [shown EXCEPT ![u] = turns]
        BY <2>4 DEF Read, Recent
      <4>3. shown'[u] = turns
        BY <4>1, <4>2
      <4>4. rows' = rows /\ history'[u] = ToSet(Capped(rows[SessionOf[u]], Window))
        BY <2>4, <4>1 DEF Read, Recent
      <4>5. QED
        BY <4>2, <4>3, <4>4
    <3>2. rows[SessionOf[u]] \in Seq(Kept) /\ IsInjective(rows[SessionOf[u]])
      BY <2>3 DEF RowsTyped
    <3>3. Shown(rows[SessionOf[u]], ToSet(Capped(rows[SessionOf[u]], Window)), shown'[u], before'[u])
      BY <3>1, <3>2, ShownRecent
    <3>4. QED
      BY <3>1, <3>3
  <2>5. CASE pc[u] = "thinking" /\ calls[u] = 0 /\ Keeps(u)
    <3>1. /\ Shown(rows[SessionOf[u]], history[u], shown[u], before[u])
          /\ history'[u] = history[u] /\ shown'[u] = shown[u] /\ before'[u] = before[u]
      BY <1>0, <2>5 DEF Keeps
    <3>2. CASE rows' = rows
      BY <3>1, <3>2
    <3>3. CASE Stored(t) \/ StoreRaises(t) \/ LateStored(t)
      <4>1. /\ t \notin appended /\ t \notin ToSet(rows[SessionOf[t]]) /\ Store(t)
        BY <3>3, StoredInd DEF Stored, StoreRaises, LateStored
      <4>2. PICK s : s = SessionOf[t]
        OBVIOUS
      <4>3. /\ rows'[s] = Append(rows[s], t)
            /\ \A r \in Sessions \ {s} : rows'[r] = rows[r]
        BY <2>3, <4>1, <4>2, StoreProps
      <4>4. CASE SessionOf[u] # s
        BY <2>3, <3>1, <4>3, <4>4
      <4>5. CASE SessionOf[u] = s
        <5>1. t \notin before[u]
          <6>1. t \notin ToSet(Past[SessionOf[u]])
            BY <2>3, ChatAssumption
          <6>2. QED
            BY <4>1, <6>1 DEF BeforeInv
        <5>2. rows[s] \in Seq(Kept) /\ t \in Kept
          BY <2>3, <4>5 DEF RowsTyped, Kept
        <5>3. Shown(rows[s], history[u], shown[u], before[u])
          BY <3>1, <4>5
        <5>4. Shown(Append(rows[s], t), history[u], shown[u], before[u])
          BY <5>1, <5>2, <5>3, ShownAppend
        <5>5. QED
          BY <3>1, <4>3, <4>5, <5>4
      <4>6. QED
        BY <4>4, <4>5
    <3>4. QED
      BY <2>1, <3>2, <3>3, RowsOf
  <2>6. QED
    <3>1. CASE u = t
      BY <2>1, <2>2, <2>4, <2>5, <3>1, ThinkingOf
    <3>2. CASE u # t
      <4>1. Keeps(u) /\ pc'[u] = pc[u] /\ calls'[u] = calls[u]
        BY <2>1, <3>2, MessagesOf, TurnStepInd DEF Elsewhere
      <4>2. QED
        BY <2>2, <2>5, <4>1
    <3>3. QED
      BY <3>1, <3>2
<1>3. CASE Erases
  <2>1. UNCHANGED <<pc, calls, history, shown, before>>
    BY <1>3, EraseInd DEF Erases, Undisturbed
  <2>2. \A s \in Sessions : rows'[s] = rows[s] \/ rows'[s] = <<>>
    BY <1>3 DEF Erases, ClearSessions, DeleteMessages
  <2>3. SUFFICES ASSUME NEW u \in Turns, pc'[u] = "thinking", calls'[u] = 0
                 PROVE  Shown(rows'[SessionOf[u]], history'[u], shown'[u], before'[u])
    BY <1>1
  <2>4. SessionOf[u] \in Sessions
    BY TurnAt
  <2>5. Shown(rows[SessionOf[u]], history[u], shown[u], before[u])
    BY <1>0, <2>1, <2>3
  <2>6. QED
    BY <2>1, <2>2, <2>4, <2>5, ShownNothing
<1>4. CASE UNCHANGED vars
  BY <1>4 DEF vars, SeesAnswered, Displaced, Trimmed, Crowded, Later
<1>5. QED
  BY <1>2, <1>3, <1>4, NextCases

(* A client that was told the answer of a turn before it asks again: that  *)
(* turn is in the prompt of the model's first call, unless it was deleted  *)
(* or had to make room for later turns, in the window or where             *)
(* trim_history keeps to its limits, whatever other requests of the        *)
(* session do in the meantime.                                             *)
THEOREM SeesAnsweredHolds == Spec => []SeesAnswered
<1>1. Init => BeforeInv /\ SeesAnswered
  BY DEF Init, BeforeInv, SeesAnswered
<1>2. Ind /\ BeforeInv /\ SeesAnswered /\ [Next]_vars => BeforeInv' /\ SeesAnswered'
  BY BeforeInd, SeesInd
<1>3. QED
  BY <1>1, <1>2, IndHolds, PTL DEF Spec

-----------------------------------------------------------------------------
(* What the client of a stream reads                                       *)

(* What its producer has written: what the client was sent, what is in     *)
(* the queue and what waits for room.                                      *)
Whole(sent, queued, waiting) == sent \o (queued \o waiting)
ErrorEnd == <<"error", "__end__">>
Answer(n) == Opening \o ToolCalls(n) \o Closing
Refusal == Opening \o ErrorEnd

LEMMA Texts ==
  /\ Opening \in Seq(Events) /\ Closing \in Seq(Events) /\ ErrorEnd \in Seq(Events)
  /\ Refusal \in Seq(Events) /\ <<>> \in Seq(Events)
  /\ \A n \in Nat : /\ ToolCalls(n) \in Seq(Events) /\ Opening \o ToolCalls(n) \in Seq(Events)
                    /\ Answer(n) \in Seq(Events)
                    /\ Answer(n) = (Opening \o ToolCalls(n)) \o Closing
                    /\ Answer(n) = Opening \o (ToolCalls(n) \o Closing)
  /\ ToolCalls(0) = <<>>
<1>1. /\ Opening \in Seq(Events) /\ Closing \in Seq(Events) /\ ErrorEnd \in Seq(Events)
      /\ \A n \in Nat : ToolCalls(n) \in Seq(Events)
  BY Scripts DEF ErrorEnd
<1>2. ASSUME NEW n \in Nat
      PROVE  /\ ToolCalls(n) \in Seq(Events) /\ Opening \o ToolCalls(n) \in Seq(Events)
             /\ Answer(n) \in Seq(Events)
             /\ Answer(n) = (Opening \o ToolCalls(n)) \o Closing
             /\ Answer(n) = Opening \o (ToolCalls(n) \o Closing)
  <2>1. ToolCalls(n) \in Seq(Events)
    BY <1>1
  <2>2. Opening \o ToolCalls(n) \in Seq(Events)
    BY <1>1, <2>1, ConcatProperties
  <2>3. (Opening \o ToolCalls(n)) \o Closing \in Seq(Events)
    BY <1>1, <2>2, ConcatProperties
  <2>4. (Opening \o ToolCalls(n)) \o Closing = Opening \o (ToolCalls(n) \o Closing)
    <3>1. Opening \in Seq(Events) /\ Closing \in Seq(Events)
      BY <1>1
    <3>2. QED
      BY <2>1, <3>1
  <2>5. QED
    BY <2>1, <2>2, <2>3, <2>4 DEF Answer
<1>3. Refusal \in Seq(Events)
  BY <1>1, ConcatProperties DEF Refusal
<1>4. ToolCalls(0) = <<>>
  BY DEF ToolCalls
<1>5. QED
  BY <1>1, <1>2, <1>3, <1>4

(* What is put is added to what was written.                               *)
Continues(q1, r1, q, e) == q1 \o r1 = q \o e

LEMMA WriteMore ==
  ASSUME NEW a \in Seq(Events), NEW q \in Seq(Events), NEW r \in Seq(Events),
         NEW e \in Seq(Events), NEW q1, NEW r1, Continues(q1, r1, q, r \o e)
  PROVE  Whole(a, q1, r1) = Whole(a, q, r) \o e
<1>1. q \o (r \o e) = (q \o r) \o e
  OBVIOUS
<1>2. q \o r \in Seq(Events)
  BY ConcatProperties
<1>3. (a \o (q \o r)) \o e = a \o ((q \o r) \o e)
  BY <1>2
<1>4. QED
  BY <1>1, <1>3, Zenon DEF Whole, Continues

LEMMA WriteFirst ==
  ASSUME NEW a \in Seq(Events), NEW q \in Seq(Events), NEW e \in Seq(Events),
         NEW q1, NEW r1, Continues(q1, r1, q, e)
  PROVE  Whole(a, q1, r1) = Whole(a, q, <<>>) \o e
<1>1. q \o <<>> = q
  BY ConcatEmptySeq
<1>2. (a \o q) \o e = a \o (q \o e)
  OBVIOUS
<1>3. QED
  BY <1>1, <1>2, Zenon DEF Whole, Continues

LEMMA WriteRest ==
  ASSUME NEW a, NEW q, NEW r, NEW q1, NEW r1, Continues(q1, r1, q, r)
  PROVE  Whole(a, q1, r1) = Whole(a, q, r)
BY Zenon DEF Whole, Continues

(* An event that is sent has been written before.                          *)
LEMMA SendNext ==
  ASSUME NEW a \in Seq(Events), NEW q \in Seq(Events), NEW r \in Seq(Events), q # <<>>
  PROVE  Whole(Append(a, Head(q)), Tail(q), r) = Whole(a, q, r)
<1>1. ASSUME NEW h \in Events, NEW l \in Seq(Events), NEW p, p = <<h>> \o l
      PROVE  (a \o <<h>>) \o (l \o r) = a \o (p \o r)
  BY <1>1
<1>2. Head(q) \in Events /\ Tail(q) \in Seq(Events) /\ q = <<Head(q)>> \o Tail(q)
  OBVIOUS
<1>3. Append(a, Head(q)) = a \o <<Head(q)>>
  BY <1>2
<1>4. (a \o <<Head(q)>>) \o (Tail(q) \o r) = a \o (q \o r)
  BY <1>1, <1>2, Zenon
<1>5. QED
  BY <1>3, <1>4, Zenon DEF Whole

LEMMA Either ==
  ASSUME NEW S, NEW a \in Seq(S), NEW b \in Seq(S), NEW x, Contains(a \o b, x)
  PROVE  Contains(a, x) \/ Contains(b, x)
<1>1. /\ Len(a \o b) = Len(a) + Len(b) /\ Len(a) \in Nat /\ Len(b) \in Nat
      /\ \A i \in 1..(Len(a) + Len(b)) :
           (a \o b)[i] = IF i <= Len(a) THEN a[i] ELSE b[i - Len(a)]
  BY ConcatProperties
<1>2. PICK i \in 1..(Len(a) + Len(b)) : (a \o b)[i] = x
  BY <1>1 DEF Contains
<1>3. CASE i <= Len(a)
  <2>1. i \in 1..Len(a) /\ a[i] = x
    BY <1>1, <1>2, <1>3
  <2>2. QED
    BY <2>1 DEF Contains
<1>4. CASE ~(i <= Len(a))
  <2>1. i - Len(a) \in 1..Len(b) /\ b[i - Len(a)] = x
    BY <1>1, <1>2, <1>4
  <2>2. QED
    BY <2>1 DEF Contains
<1>5. QED
  BY <1>3, <1>4

(* What the texts do not say.                                              *)
LEMMA Unsaid ==
  ASSUME NEW n \in Nat
  PROVE  /\ \A x \in {"done", "error", "__end__"} :
              ~Contains(Opening, x) /\ ~Contains(Opening \o ToolCalls(n), x)
         /\ ~Contains(Answer(n), "error") /\ ~Contains(Refusal, "done")
<1>1. \A x \in {"done", "error", "__end__"} : ~Contains(Opening, x)
  BY DEF Opening, Contains
<1>2. \A x \in {"done", "error", "__end__"} : ~Contains(ToolCalls(n), x)
  BY DEF ToolCalls, Contains
<1>3. ~Contains(Closing, "error")
  BY DEF Closing, Contains
<1>4. ~Contains(ErrorEnd, "done")
  BY DEF ErrorEnd, Contains
<1>5. \A x \in {"done", "error", "__end__"} : ~Contains(Opening \o ToolCalls(n), x)
  BY <1>1, <1>2, Texts, Either
<1>6. ~Contains(Answer(n), "error")
  <2>1. Answer(n) = (Opening \o ToolCalls(n)) \o Closing
    BY Texts
  <2>2. Opening \o ToolCalls(n) \in Seq(Events) /\ Closing \in Seq(Events)
    BY Texts
  <2>3. QED
    BY <1>3, <1>5, <2>1, <2>2, Either
<1>7. ~Contains(Refusal, "done")
  BY <1>1, <1>4, Texts, Either DEF Refusal
<1>8. QED
  BY <1>1, <1>5, <1>6, <1>7

(* What was sent so far is the start of a story, and a true one.           *)
TrueSoFar(a, n, v) ==
  /\ \E x \in Seq(Events) : a \o x = Answer(n) \/ a \o x = Refusal
  /\ Contains(a, "done") => v \in {"answered", "excused", "failed"}
  /\ Contains(a, "error") => v = "refused"

LEMMA TruePart ==
  ASSUME NEW a \in Seq(Events), NEW y \in Seq(Events), NEW n, NEW v, TrueSoFar(a \o y, n, v)
  PROVE  TrueSoFar(a, n, v)
<1>1. \A e : Contains(a, e) => Contains(a \o y, e)
  BY FirstPart
<1>2. ASSUME NEW x \in Seq(Events)
      PROVE  (a \o y) \o x = a \o (y \o x) /\ y \o x \in Seq(Events)
  <2>1. y \o x \in Seq(Events)
    BY ConcatProperties
  <2>2. (a \o y) \o x = a \o (y \o x)
    OBVIOUS
  <2>3. QED
    BY <2>1, <2>2
<1>3. PICK x \in Seq(Events) : (a \o y) \o x = Answer(n) \/ (a \o y) \o x = Refusal
  BY DEF TrueSoFar
<1>4. y \o x \in Seq(Events) /\ (a \o (y \o x) = Answer(n) \/ a \o (y \o x) = Refusal)
  BY <1>2, <1>3, Zenon
<1>5. \E z \in Seq(Events) : a \o z = Answer(n) \/ a \o z = Refusal
  BY <1>4, Zenon
<1>6. QED
  BY <1>1, <1>5, Zenon DEF TrueSoFar

LEMMA TrueTexts ==
  ASSUME NEW n \in Nat
  PROVE  /\ \A v : TrueSoFar(Opening, n, v) /\ TrueSoFar(Opening \o ToolCalls(n), n, v)
         /\ \A v \in {"answered", "excused", "failed"} : TrueSoFar(Answer(n), n, v)
         /\ TrueSoFar(Refusal, n, "refused")
<1>1. /\ ToolCalls(n) \o Closing \in Seq(Events) /\ Closing \in Seq(Events)
      /\ <<>> \in Seq(Events)
      /\ Opening \o (ToolCalls(n) \o Closing) = Answer(n)
      /\ (Opening \o ToolCalls(n)) \o Closing = Answer(n)
  <2>1. ToolCalls(n) \in Seq(Events) /\ Closing \in Seq(Events) /\ <<>> \in Seq(Events)
    BY Texts
  <2>2. ToolCalls(n) \o Closing \in Seq(Events)
    BY <2>1, ConcatProperties
  <2>3. /\ Answer(n) = Opening \o (ToolCalls(n) \o Closing)
        /\ Answer(n) = (Opening \o ToolCalls(n)) \o Closing
    BY Texts
  <2>4. QED
    BY <2>1, <2>2, <2>3, Zenon
<1>2. /\ Answer(n) \in Seq(Events) /\ Refusal \in Seq(Events)
  BY Texts
<1>3. Answer(n) \o <<>> = Answer(n) /\ Refusal \o <<>> = Refusal
  BY <1>2, ConcatEmptySeq
<1>4. /\ \A x \in {"done", "error", "__end__"} :
              ~Contains(Opening, x) /\ ~Contains(Opening \o ToolCalls(n), x)
      /\ ~Contains(Answer(n), "error") /\ ~Contains(Refusal, "done")
  BY Unsaid
<1>5. ASSUME NEW v PROVE TrueSoFar(Opening, n, v) /\ TrueSoFar(Opening \o ToolCalls(n), n, v)
  BY <1>1, <1>4, Zenon DEF TrueSoFar
<1>6. ASSUME NEW v \in {"answered", "excused", "failed"} PROVE TrueSoFar(Answer(n), n, v)
  BY <1>1, <1>3, <1>4, Zenon DEF TrueSoFar
<1>7. TrueSoFar(Refusal, n, "refused")
  BY <1>1, <1>3, <1>4, Zenon DEF TrueSoFar
<1>8. QED
  BY <1>5, <1>6, <1>7

(* The inductive invariant of a stream: what was written agrees with where *)
(* the turn stands until the client leaves; g, p, v and n are its gen, pc, *)
(* verdict and calls, a, q and r its got, queue and put.                   *)
Reading(g) == g \in {"getting", "sending"}
StreamOf(g, p, v, n, a, q, r) ==
  /\ \/ g = "none" /\ p = "idle" /\ a = <<>> /\ q = <<>> /\ r = <<>>
     \/ Reading(g) /\ p \in Handling /\ Whole(a, q, r) = Opening /\ r = <<>>
     \/ Reading(g) /\ p = "storing" /\ Whole(a, q, r) = Opening \o ToolCalls(n)
     \/ /\ Reading(g) /\ p \in SettledPC /\ v \in {"answered", "excused", "failed"}
        /\ Whole(a, q, r) = Answer(n)
     \/ Reading(g) /\ p \in SettledPC /\ v = "refused" /\ Whole(a, q, r) = Refusal
     \/ g \in {"closing", "closed"} /\ p \in SettledPC /\ TrueSoFar(a, n, v)
  /\ g = "sending" => a # <<>>

StreamInv ==
  \A t \in Streams :
    StreamOf(gen[t], pc[t], verdict[t], calls[t], got[t], queue[t], put[t])

LEMMA TrueSent ==
  ASSUME NEW a \in Seq(Events), NEW q \in Seq(Events), NEW r \in Seq(Events),
         NEW g, NEW p, NEW v, NEW n \in Nat, StreamOf(g, p, v, n, a, q, r)
  PROVE  /\ TrueSoFar(a, n, v)
         /\ p = "storing" \/ p \in Handling =>
              ~Contains(a, "done") /\ ~Contains(a, "error") /\ ~Contains(a, "__end__")
<1>1. q \o r \in Seq(Events)
  BY ConcatProperties
<1>2. PICK y \in Seq(Events) : y = q \o r
  BY <1>1
<1>3. Whole(a, q, r) = a \o y
  BY <1>2, Zenon DEF Whole
<1>4. \A e : Contains(a, e) => Contains(a \o y, e)
  BY FirstPart
<1>5. \A x \in {"done", "error", "__end__"} :
           ~Contains(Opening, x) /\ ~Contains(Opening \o ToolCalls(n), x)
  BY Unsaid
<1>6. TrueSoFar(a \o y, n, v) => TrueSoFar(a, n, v)
  BY TruePart
<1>7. CASE g = "none" /\ p = "idle" /\ a = <<>>
  <2>1. TrueSoFar(<<>>, n, v)
    <3>1. <<>> \o Refusal = Refusal /\ Refusal \in Seq(Events)
      BY Texts, ConcatEmptySeq
    <3>2. \A e : ~Contains(<<>>, e)
      BY DEF Contains
    <3>3. QED
      BY <3>1, <3>2, Zenon DEF TrueSoFar
  <2>2. p # "storing" /\ p \notin Handling
    BY <1>7 DEF Handling
  <2>3. TrueSoFar(a, n, v)
    BY <1>7, <2>1, Zenon
  <2>4. QED
    BY <2>2, <2>3
<1>8. CASE p \in Handling /\ Whole(a, q, r) = Opening
  <2>1. a \o y = Opening
    BY <1>3, <1>8, Zenon
  <2>2. TrueSoFar(a, n, v)
    BY <1>6, <2>1, TrueTexts, Zenon
  <2>3. ~Contains(a, "done") /\ ~Contains(a, "error") /\ ~Contains(a, "__end__")
    BY <1>4, <1>5, <2>1, Zenon
  <2>4. QED
    BY <2>2, <2>3
<1>9. CASE p = "storing" /\ Whole(a, q, r) = Opening \o ToolCalls(n)
  <2>1. a \o y = Opening \o ToolCalls(n)
    BY <1>3, <1>9, Zenon
  <2>2. TrueSoFar(a, n, v)
    BY <1>6, <2>1, TrueTexts, Zenon
  <2>3. ~Contains(a, "done") /\ ~Contains(a, "error") /\ ~Contains(a, "__end__")
    BY <1>4, <1>5, <2>1, Zenon
  <2>4. QED
    BY <2>2, <2>3
<1>10. CASE p \in SettledPC
  <2>1. p # "storing" /\ p \notin Handling
    BY <1>10 DEF Handling, SettledPC
  <2>2. CASE v \in {"answered", "excused", "failed"} /\ Whole(a, q, r) = Answer(n)
    <3>1. a \o y = Answer(n)
      BY <1>3, <2>2, Zenon
    <3>2. TrueSoFar(a, n, v)
      BY <1>6, <2>2, <3>1, TrueTexts, Zenon
    <3>3. QED
      BY <2>1, <3>2
  <2>3. CASE v = "refused" /\ Whole(a, q, r) = Refusal
    <3>1. a \o y = Refusal
      BY <1>3, <2>3, Zenon
    <3>2. TrueSoFar(a, n, v)
      BY <1>6, <2>3, <3>1, TrueTexts, Zenon
    <3>3. QED
      BY <2>1, <3>2
  <2>4. CASE TrueSoFar(a, n, v)
    BY <2>1, <2>4
  <2>5. QED
    BY <1>10, <2>2, <2>3, <2>4 DEF StreamOf, Handling, SettledPC
<1>11. QED
  BY <1>7, <1>8, <1>9, <1>10 DEF StreamOf

(* A step of a turn concerns the events of its own stream only.            *)
LEMMA EventsOf ==
  ASSUME Ind, NEW t \in Turns, TurnStep(t)
  PROVE  \A u \in Turns \ {t} : got'[u] = got[u] /\ queue'[u] = queue[u] /\ put'[u] = put[u]
<1>1. FlowTyped /\ QueueTyped
  BY DEF Ind, TablesTyped
<1>2. CASE \E events : Send(t, events) /\ got' = got
  BY <1>1, <1>2 DEF Send, FlowTyped, QueueTyped
<1>3. CASE UNCHANGED <<got, queue, put>>
  BY <1>3
<1>4. CASE Get(t) \/ Sent(t)
  <2>1. put' = put /\ (Fetch(t) \/ UNCHANGED <<got, queue>>)
    BY <1>4 DEF Get, Sent
  <2>2. QED
    BY <1>1, <2>1 DEF Fetch, FlowTyped, QueueTyped
<1>5. CASE Disconnect(t)
  BY <1>1, <1>5 DEF Disconnect, FlowTyped, QueueTyped
<1>6. ASSUME NEW events, NEW outcome, Reply(t, events, outcome)
      PROVE  \E more : Send(t, more)
  BY <1>6 DEF Reply, End
<1>7. Begin(t) \/ Return(t) \/ AgentFails(t) \/ GiveUp(t) \/ Put(t) =>
        (\E events : Send(t, events)) /\ got' = got
  BY <1>6 DEF Begin, Return, AgentFails, GiveUp, Put, End
<1>8. Read(t) \/ UseTools(t) \/ Conclude(t) \/ Stored(t) \/ StoreRaises(t) \/ LateStored(t) =>
        UNCHANGED <<got, queue, put>>
  BY DEF Read, UseTools, Conclude, Stored, StoreRaises, LateStored
<1>9. QED
  BY <1>2, <1>3, <1>4, <1>5, <1>7, <1>8, StepCases

LEMMA StreamAt ==
  ASSUME Ind, StreamInv, NEW t \in Streams
  PROVE  /\ StreamOf(gen[t], pc[t], verdict[t], calls[t], got[t], queue[t], put[t])
         /\ t \in Turns /\ got[t] \in Seq(Events) /\ queue[t] \in Seq(Events)
         /\ put[t] \in Seq(Events) /\ calls[t] \in Nat
<1>1. t \in Turns
  BY ChatAssumption
<1>2. QED
  BY <1>1, TurnAt DEF StreamInv, Ind, FlowTyped, TablesTyped, QueueTyped

LEMMA BeginStream ==
  ASSUME Ind, StreamInv, NEW t \in Streams, Begin(t)
  PROVE  StreamOf(gen'[t], pc'[t], verdict'[t], calls'[t], got'[t], queue'[t], put'[t])
<1>1. /\ StreamOf(gen[t], pc[t], verdict[t], calls[t], got[t], queue[t], put[t])
      /\ t \in Turns /\ pc[t] = "idle" /\ FlowTyped /\ QueueTyped
  BY StreamAt DEF Begin, Ind, TablesTyped
<1>2. got[t] = <<>> /\ queue[t] = <<>> /\ put[t] = <<>>
  BY <1>1 DEF StreamOf, Handling, SettledPC
<1>3. Opening \in Seq(Events) /\ Send(t, Opening)
  BY Scripts DEF Begin, Streamed
<1>4. Fits(t, Opening)
  BY <1>2, Scripts, ChatAssumption DEF Fits, Room
<1>5. /\ queue'[t] \o put'[t] = queue[t] \o Opening /\ put'[t] = <<>>
  BY <1>1, <1>3, <1>4, SendProps
<1>6. gen'[t] = "getting" /\ pc'[t] = "reading" /\ got'[t] = <<>>
  BY <1>1, <1>2 DEF Begin, FlowTyped
<1>7. <<>> \o Opening = Opening
  BY <1>3, ConcatEmptySeq
<1>8. Whole(got'[t], queue'[t], put'[t]) = Opening
  BY <1>2, <1>5, <1>6, <1>7, Zenon DEF Whole
<1>9. QED
  BY <1>5, <1>6, <1>8 DEF StreamOf, Reading, Handling

(* A step within handle() that puts nothing.                               *)
LEMMA HandleStream ==
  ASSUME Ind, StreamInv, NEW t \in Streams,
         Read(t) \/ UseTools(t) \/ Conclude(t) \/ Stored(t) \/ StoreRaises(t)
  PROVE  StreamOf(gen'[t], pc'[t], verdict'[t], calls'[t], got'[t], queue'[t], put'[t])
<1>1. /\ StreamOf(gen[t], pc[t], verdict[t], calls[t], got[t], queue[t], put[t])
      /\ t \in Turns /\ FlowTyped
  BY StreamAt DEF Ind
<1>2. pc[t] \in Handling /\ pc'[t] \in Handling /\ UNCHANGED <<got, queue, put, gen>>
  BY <1>1 DEF Read, UseTools, AfterTools, Conclude, Stored, StoreRaises, Handling, FlowTyped
<1>3. /\ Reading(gen[t]) /\ Whole(got[t], queue[t], put[t]) = Opening /\ put[t] = <<>>
      /\ gen[t] = "sending" => got[t] # <<>>
  BY <1>1, <1>2 DEF StreamOf, Handling, SettledPC
<1>4. QED
  BY <1>2, <1>3, Zenon DEF StreamOf

LEMMA LateStream ==
  ASSUME Ind, StreamInv, NEW t \in Streams, LateStored(t)
  PROVE  StreamOf(gen'[t], pc'[t], verdict'[t], calls'[t], got'[t], queue'[t], put'[t])
BY StreamAt DEF LateStored

(* Events that, put, make the turn's text one with n tool calls, and with  *)
(* the closing ones the complete answer.                                   *)
Leads(a, b, events, n) ==
  \A q, r : /\ Continues(q, r, b, events) => Whole(a, q, r) = Opening \o ToolCalls(n)
            /\ Continues(q, r, b, events \o Closing) => Whole(a, q, r) = Answer(n)

(* A reply to a turn that is being handled, or of which tool calls wait.   *)
LEMMA ReplyStream ==
  ASSUME Ind, NEW t \in Streams, NEW events \in Seq(Events), NEW outcome, calls'[t] \in Nat,
         verdict[t] = "asked", Reply(t, events, outcome),
         UNCHANGED <<gen, got>>, Reading(gen[t]), gen[t] = "sending" => got[t] # <<>>,
         Leads(got[t], queue[t], events, calls'[t])
  PROVE  StreamOf(gen'[t], pc'[t], verdict'[t], calls'[t], got'[t], queue'[t], put'[t])
<1>1. t \in Turns /\ FlowTyped /\ QueueTyped /\ MsgsTyped
  BY ChatAssumption DEF Ind, TablesTyped
<1>2. <<t, "assistant">> \notin ToSet(msgs[SessionOf[t]])
  BY <1>1, NotStoredYet
<1>3. \/ /\ pc'[t] \in SettledPC /\ verdict'[t] = VerdictOf(outcome)
         /\ queue'[t] \o put'[t] = queue[t] \o (events \o Streamed(t, Closing))
      \/ /\ pc'[t] = "storing"
         /\ queue'[t] \o put'[t] = queue[t] \o events
  <2>1. pc \in [Turns -> PC] /\ verdict \in [Turns -> Verdicts]
    BY <1>1 DEF FlowTyped
  <2>2. QED
    BY <1>1, <1>2, <2>1, ReplyProps
<1>4. CASE /\ pc'[t] \in SettledPC /\ verdict'[t] = VerdictOf(outcome)
           /\ queue'[t] \o put'[t] = queue[t] \o (events \o Streamed(t, Closing))
  <2>1. Continues(queue'[t], put'[t], queue[t], events \o Closing)
    BY <1>4, Zenon DEF Streamed, Continues
  <2>2. Whole(got[t], queue'[t], put'[t]) = Answer(calls'[t])
    BY <2>1, Zenon DEF Leads
  <2>3. verdict'[t] \in {"answered", "excused", "failed"}
    BY <1>4 DEF VerdictOf
  <2>4. gen'[t] = gen[t] /\ got'[t] = got[t]
    OBVIOUS
  <2>5. QED
    BY <1>4, <2>2, <2>3, <2>4, Zenon DEF StreamOf
<1>5. CASE pc'[t] = "storing" /\ queue'[t] \o put'[t] = queue[t] \o events
  <2>1. Continues(queue'[t], put'[t], queue[t], events)
    BY <1>5, Zenon DEF Continues
  <2>2. Whole(got[t], queue'[t], put'[t]) = Opening \o ToolCalls(calls'[t])
    BY <2>1, Zenon DEF Leads
  <2>3. gen'[t] = gen[t] /\ got'[t] = got[t]
    OBVIOUS
  <2>4. QED
    BY <1>5, <2>2, <2>3, Zenon DEF StreamOf
<1>6. QED
  BY <1>3, <1>4, <1>5

Says(a, q, r, text) == Whole(a, q, r) = text

LEMMA FirstReply ==
  ASSUME NEW a \in Seq(Events), NEW b \in Seq(Events), NEW n \in Nat,
         Says(a, b, <<>>, Opening)
  PROVE  Leads(a, b, ToolCalls(n), n)
<1>1. /\ ToolCalls(n) \in Seq(Events) /\ Closing \in Seq(Events)
      /\ Answer(n) = Opening \o (ToolCalls(n) \o Closing)
  BY Texts
<1>2. ToolCalls(n) \o Closing \in Seq(Events)
  BY <1>1, ConcatProperties
<1>3. ASSUME NEW e \in Seq(Events), NEW q, NEW r, Continues(q, r, b, e)
      PROVE  Whole(a, q, r) = Opening \o e
  <2>1. Whole(a, q, r) = Whole(a, b, <<>>) \o e
    BY <1>3, WriteFirst
  <2>2. QED
    BY <2>1, Zenon DEF Says
<1>4. QED
  BY <1>1, <1>2, <1>3, Zenon DEF Leads

LEMMA LaterReply ==
  ASSUME NEW a \in Seq(Events), NEW b \in Seq(Events), NEW c \in Seq(Events),
         NEW n \in Nat, Says(a, b, c, Opening \o ToolCalls(n))
  PROVE  Leads(a, b, c, n)
<1>1. Closing \in Seq(Events) /\ Answer(n) = (Opening \o ToolCalls(n)) \o Closing
  BY Texts
<1>2. ASSUME NEW q, NEW r, Continues(q, r, b, c)
      PROVE  Whole(a, q, r) = Opening \o ToolCalls(n)
  <2>1. Whole(a, q, r) = Whole(a, b, c)
    BY <1>2, WriteRest
  <2>2. QED
    BY <2>1, Zenon DEF Says
<1>3. ASSUME NEW q, NEW r, Continues(q, r, b, c \o Closing)
      PROVE  Whole(a, q, r) = Answer(n)
  <2>1. Whole(a, q, r) = Whole(a, b, c) \o Closing
    BY <1>1, <1>3, WriteMore
  <2>2. QED
    BY <1>1, <2>1, Zenon DEF Says
<1>4. QED
  BY <1>2, <1>3, Zenon DEF Leads

LEMMA ReturnStream ==
  ASSUME Ind, StreamInv, NEW t \in Streams, Return(t) \/ AgentFails(t)
  PROVE  StreamOf(gen'[t], pc'[t], verdict'[t], calls'[t], got'[t], queue'[t], put'[t])
<1>1. /\ StreamOf(gen[t], pc[t], verdict[t], calls[t], got[t], queue[t], put[t])
      /\ t \in Turns /\ got[t] \in Seq(Events) /\ queue[t] \in Seq(Events)
      /\ calls[t] \in Nat /\ FlowTyped
  BY StreamAt DEF Ind
<1>2. pc[t] \in Handling /\ UNCHANGED <<gen, got>>
  BY DEF Return, AgentFails, Handling
<1>3. /\ Reading(gen[t]) /\ (gen[t] = "sending" => got[t] # <<>>)
      /\ Whole(got[t], queue[t], put[t]) = Opening /\ put[t] = <<>>
  BY <1>1, <1>2 DEF StreamOf, Handling, SettledPC
<1>4. verdict[t] = "asked"
  BY <1>1, <1>2, TurnAt DEF TurnOf
<1>5. PICK n, outcome : n \in Nat /\ calls'[t] = n /\ Reply(t, ToolCalls(n), outcome)
  <2>1. CASE Return(t)
    BY <1>1, <2>1 DEF Return, Streamed
  <2>2. CASE AgentFails(t)
    <3>1. Reply(t, <<>>, "failed") /\ calls'[t] = 0
      BY <1>1, <2>2 DEF AgentFails, FlowTyped
    <3>2. ToolCalls(0) = <<>> /\ 0 \in Nat
      BY Texts
    <3>3. Reply(t, ToolCalls(0), "failed")
      BY <3>1, <3>2
    <3>4. QED
      BY <3>1, <3>2, <3>3
  <2>3. QED
    BY <2>1, <2>2
<1>6. calls'[t] \in Nat /\ Reply(t, ToolCalls(calls'[t]), outcome)
  BY <1>5
<1>7. Says(got[t], queue[t], <<>>, Opening)
  BY <1>3 DEF Says
<1>8. Leads(got[t], queue[t], ToolCalls(calls'[t]), calls'[t])
  BY <1>1, <1>6, <1>7, FirstReply
<1>9. ToolCalls(calls'[t]) \in Seq(Events)
  BY <1>6, Texts
<1>10. QED
  BY <1>2, <1>3, <1>4, <1>6, <1>8, <1>9, ReplyStream

LEMMA GiveUpStream ==
  ASSUME Ind, StreamInv, NEW t \in Streams, GiveUp(t)
  PROVE  StreamOf(gen'[t], pc'[t], verdict'[t], calls'[t], got'[t], queue'[t], put'[t])
<1>1. /\ StreamOf(gen[t], pc[t], verdict[t], calls[t], got[t], queue[t], put[t])
      /\ t \in Turns /\ got[t] \in Seq(Events) /\ queue[t] \in Seq(Events)
      /\ FlowTyped /\ QueueTyped
  BY StreamAt DEF Ind, TablesTyped
<1>2. pc[t] \in Handling /\ UNCHANGED <<gen, got>> /\ verdict'[t] = "refused"
  BY <1>1 DEF GiveUp, FlowTyped
<1>3. /\ Reading(gen[t]) /\ (gen[t] = "sending" => got[t] # <<>>)
      /\ Whole(got[t], queue[t], put[t]) = Opening /\ put[t] = <<>>
  BY <1>1, <1>2 DEF StreamOf, Handling, SettledPC
<1>4. End(t, ErrorEnd) /\ ErrorEnd \in Seq(Events)
  BY Texts DEF GiveUp, Streamed, ErrorEnd
<1>5. pc'[t] \in SettledPC /\ queue'[t] \o put'[t] = queue[t] \o ErrorEnd
  BY <1>1, <1>4, EndProps DEF FlowTyped
<1>6. Continues(queue'[t], put'[t], queue[t], ErrorEnd)
  BY <1>5, Zenon DEF Continues
<1>7. Whole(got[t], queue[t], <<>>) = Opening
  BY <1>3
<1>8. Whole(got[t], queue'[t], put'[t]) = Whole(got[t], queue[t], <<>>) \o ErrorEnd
  BY <1>1, <1>4, <1>6, WriteFirst
<1>9. Whole(got[t], queue'[t], put'[t]) = Refusal
  BY <1>7, <1>8, Zenon DEF Refusal
<1>10. /\ Reading(gen'[t]) /\ pc'[t] \in SettledPC /\ verdict'[t] = "refused"
       /\ Whole(got'[t], queue'[t], put'[t]) = Refusal
  BY <1>2, <1>3, <1>5, <1>9
<1>11. gen'[t] = "sending" => got'[t] # <<>>
  BY <1>2, <1>3
<1>12. QED
  BY <1>10, <1>11, Zenon DEF StreamOf

LEMMA PutStream ==
  ASSUME Ind, StreamInv, NEW t \in Streams, Put(t)
  PROVE  StreamOf(gen'[t], pc'[t], verdict'[t], calls'[t], got'[t], queue'[t], put'[t])
<1>1. /\ StreamOf(gen[t], pc[t], verdict[t], calls[t], got[t], queue[t], put[t])
      /\ t \in Turns /\ got[t] \in Seq(Events) /\ queue[t] \in Seq(Events)
      /\ put[t] \in Seq(Events) /\ calls[t] \in Nat /\ FlowTyped /\ QueueTyped
  BY StreamAt DEF Ind, TablesTyped
<1>2. UNCHANGED <<gen, got, calls>>
  BY DEF Put
<1>3. CASE pc[t] = "storing" /\ Reply(t, put[t], result[t])
  <2>1. /\ Reading(gen[t]) /\ (gen[t] = "sending" => got[t] # <<>>)
        /\ Whole(got[t], queue[t], put[t]) = Opening \o ToolCalls(calls[t])
    BY <1>1, <1>3 DEF StreamOf, Handling, SettledPC
  <2>2. verdict[t] = "asked"
    BY <1>1, <1>3, TurnAt DEF TurnOf
  <2>3. Says(got[t], queue[t], put[t], Opening \o ToolCalls(calls[t]))
    BY <2>1 DEF Says
  <2>4. Leads(got[t], queue[t], put[t], calls[t])
    BY <1>1, <2>3, LaterReply
  <2>5. Leads(got[t], queue[t], put[t], calls'[t])
    BY <1>2, <2>4
  <2>6. calls'[t] \in Nat
    BY <1>1, <1>2
  <2>7. QED
    BY <1>1, <1>2, <1>3, <2>1, <2>2, <2>5, <2>6, ReplyStream
<1>4. CASE pc[t] = "ending" /\ End(t, put[t]) /\ UNCHANGED verdict
  <2>1. pc'[t] \in SettledPC /\ queue'[t] \o put'[t] = queue[t] \o put[t]
    BY <1>1, <1>4, EndProps DEF FlowTyped
  <2>2. Continues(queue'[t], put'[t], queue[t], put[t])
    BY <2>1, Zenon DEF Continues
  <2>3. Whole(got[t], queue'[t], put'[t]) = Whole(got[t], queue[t], put[t])
    BY <2>2, WriteRest
  <2>4. pc[t] \in SettledPC /\ pc[t] # "idle" /\ pc[t] # "storing" /\ pc[t] \notin Handling
    BY <1>4 DEF SettledPC, Handling
  <2>5. \/ /\ Reading(gen[t]) /\ verdict[t] \in {"answered", "excused", "failed"}
           /\ Whole(got[t], queue[t], put[t]) = Answer(calls[t])
        \/ /\ Reading(gen[t]) /\ verdict[t] = "refused"
           /\ Whole(got[t], queue[t], put[t]) = Refusal
        \/ gen[t] \in {"closing", "closed"} /\ TrueSoFar(got[t], calls[t], verdict[t])
    BY <1>1, <2>4, Zenon DEF StreamOf
  <2>6. gen[t] = "sending" => got[t] # <<>>
    BY <1>1 DEF StreamOf
  <2>7. /\ gen'[t] = gen[t] /\ got'[t] = got[t] /\ calls'[t] = calls[t]
        /\ verdict'[t] = verdict[t]
    BY <1>2, <1>4
  <2>8. QED
    BY <2>1, <2>3, <2>5, <2>6, <2>7, Zenon DEF StreamOf
<1>5. QED
  BY <1>3, <1>4 DEF Put

(* The generator takes an event, or closes after the last.                 *)
LEMMA GetSentStream ==
  ASSUME Ind, StreamInv, NEW t \in Streams, Get(t) \/ Sent(t)
  PROVE  StreamOf(gen'[t], pc'[t], verdict'[t], calls'[t], got'[t], queue'[t], put'[t])
<1>1. /\ StreamOf(gen[t], pc[t], verdict[t], calls[t], got[t], queue[t], put[t])
      /\ t \in Turns /\ got[t] \in Seq(Events) /\ queue[t] \in Seq(Events)
      /\ put[t] \in Seq(Events) /\ calls[t] \in Nat /\ FlowTyped /\ QueueTyped
  BY StreamAt DEF Ind, TablesTyped
<1>2. UNCHANGED <<pc, verdict, calls, put>> /\ Reading(gen[t])
  BY DEF Get, Sent, Reading
<1>3. \/ /\ pc[t] \in Handling
         /\ Whole(got[t], queue[t], put[t]) = Opening /\ put[t] = <<>>
      \/ /\ pc[t] = "storing"
         /\ Whole(got[t], queue[t], put[t]) = Opening \o ToolCalls(calls[t])
      \/ /\ pc[t] \in SettledPC /\ verdict[t] \in {"answered", "excused", "failed"}
         /\ Whole(got[t], queue[t], put[t]) = Answer(calls[t])
      \/ /\ pc[t] \in SettledPC /\ verdict[t] = "refused"
         /\ Whole(got[t], queue[t], put[t]) = Refusal
  BY <1>1, <1>2, Zenon DEF StreamOf, Reading
<1>4. CASE /\ queue[t] # <<>> /\ got' = [got EXCEPT ![t] = Append(@, Head(queue[t]))]
           /\ queue' = [queue EXCEPT ![t] = Tail(@)]
           /\ gen' = [gen EXCEPT ![t] = "sending"]
  <2>1. /\ got'[t] = Append(got[t], Head(queue[t])) /\ queue'[t] = Tail(queue[t])
        /\ gen'[t] = "sending"
    BY <1>1, <1>4 DEF FlowTyped, QueueTyped
  <2>2. Whole(Append(got[t], Head(queue[t])), Tail(queue[t]), put[t]) =
          Whole(got[t], queue[t], put[t])
    BY <1>1, <1>4, SendNext
  <2>3. Whole(got'[t], queue'[t], put'[t]) = Whole(got[t], queue[t], put[t])
    BY <1>2, <2>1, <2>2
  <2>4. got'[t] # <<>>
    <3>1. ASSUME NEW x \in Seq(Events), NEW e PROVE Append(x, e) # <<>>
      <4>1. Len(Append(x, e)) = Len(x) + 1 /\ Len(x) \in Nat /\ Len(<<>>) = 0
        OBVIOUS
      <4>2. Len(Append(x, e)) # Len(<<>>)
        BY <4>1
      <4>3. QED
        BY <4>2, Zenon
    <3>2. QED
      BY <1>1, <2>1, <3>1
  <2>5. /\ pc'[t] = pc[t] /\ verdict'[t] = verdict[t] /\ calls'[t] = calls[t]
        /\ put'[t] = put[t] /\ Reading(gen'[t])
    BY <1>2, <2>1 DEF Reading
  <2>6. QED
    BY <1>3, <2>3, <2>4, <2>5, Zenon DEF StreamOf
<1>5. CASE gen' = [gen EXCEPT ![t] = "getting"] /\ UNCHANGED <<got, queue>>
  <2>1. gen'[t] = "getting" /\ Reading(gen'[t])
    BY <1>1, <1>5 DEF FlowTyped, Reading
  <2>2. /\ pc'[t] = pc[t] /\ verdict'[t] = verdict[t] /\ calls'[t] = calls[t]
        /\ put'[t] = put[t] /\ got'[t] = got[t] /\ queue'[t] = queue[t]
    BY <1>2, <1>5
  <2>3. gen'[t] # "sending"
    BY <2>1
  <2>4. QED
    BY <1>3, <2>1, <2>2, <2>3, Zenon DEF StreamOf
<1>6. CASE /\ gen[t] = "sending" /\ LastSent(t)
           /\ gen' = [gen EXCEPT ![t] = "closed"] /\ UNCHANGED <<got, queue>>
  <2>1. gen'[t] = "closed"
    BY <1>1, <1>6 DEF FlowTyped
  <2>2. Contains(got[t], "__end__")
    <3>1. got[t] # <<>> /\ Last(got[t]) = "__end__"
      BY <1>1, <1>6 DEF StreamOf, LastSent
    <3>2. Len(got[t]) \in 1..Len(got[t])
      BY <1>1, <3>1
    <3>3. QED
      BY <3>1, <3>2 DEF Last, Contains
  <2>3. /\ TrueSoFar(got[t], calls[t], verdict[t])
        /\ pc[t] # "storing" /\ pc[t] \notin Handling
    <3>1. /\ TrueSoFar(got[t], calls[t], verdict[t])
          /\ pc[t] = "storing" \/ pc[t] \in Handling => ~Contains(got[t], "__end__")
      BY <1>1, TrueSent
    <3>2. QED
      BY <2>2, <3>1
  <2>4. pc[t] \in SettledPC
    BY <1>3, <2>3
  <2>5. /\ pc'[t] = pc[t] /\ verdict'[t] = verdict[t] /\ calls'[t] = calls[t]
        /\ got'[t] = got[t]
    BY <1>2, <1>6
  <2>6. gen'[t] \in {"closing", "closed"} /\ gen'[t] # "sending"
    BY <2>1
  <2>7. QED
    BY <2>3, <2>4, <2>5, <2>6, Zenon DEF StreamOf
<1>7. QED
  BY <1>4, <1>5, <1>6 DEF Get, Sent, Fetch

LEMMA DisconnectStream ==
  ASSUME Ind, StreamInv, NEW t \in Streams, Disconnect(t)
  PROVE  StreamOf(gen'[t], pc'[t], verdict'[t], calls'[t], got'[t], queue'[t], put'[t])
<1>1. /\ StreamOf(gen[t], pc[t], verdict[t], calls[t], got[t], queue[t], put[t])
      /\ t \in Turns /\ got[t] \in Seq(Events) /\ queue[t] \in Seq(Events)
      /\ put[t] \in Seq(Events) /\ calls[t] \in Nat /\ FlowTyped
  BY StreamAt DEF Ind
<1>2. UNCHANGED <<calls, got>>
  BY DEF Disconnect
<1>3. /\ gen'[t] \in {"closing", "closed"} /\ pc'[t] \in SettledPC
      /\ verdict'[t] = IF verdict[t] = "asked" THEN "refused" ELSE verdict[t]
  BY <1>1 DEF Disconnect, FlowTyped, SettledPC
<1>4. /\ TrueSoFar(got[t], calls[t], verdict[t])
      /\ pc[t] = "storing" \/ pc[t] \in Handling => ~Contains(got[t], "done")
  BY <1>1, TrueSent
<1>5. TrueSoFar(got[t], calls[t], verdict'[t])
  <2>1. CASE verdict[t] = "asked"
    <3>1. pc[t] = "storing" \/ pc[t] \in Handling
      BY <1>1, <2>1, TurnAt DEF TurnOf
    <3>2. ~Contains(got[t], "done") /\ verdict'[t] = "refused"
      BY <1>3, <1>4, <2>1, <3>1
    <3>3. QED
      BY <1>4, <3>2, Zenon DEF TrueSoFar
  <2>2. CASE verdict[t] # "asked"
    <3>1. verdict'[t] = verdict[t]
      BY <1>3, <2>2
    <3>2. QED
      BY <1>4, <3>1
  <2>3. QED
    BY <2>1, <2>2
<1>6. calls'[t] = calls[t] /\ got'[t] = got[t] /\ gen'[t] # "sending"
  BY <1>2, <1>3
<1>7. QED
  BY <1>3, <1>5, <1>6, Zenon DEF StreamOf

LEMMA StreamInd ==
  ASSUME Ind, StreamInv, [Next]_vars
  PROVE  StreamInv'
<1>1. CASE \E t \in Turns : TurnStep(t)
  <2>1. PICK t \in Turns : TurnStep(t)
    BY <1>1
  <2>2. SUFFICES ASSUME NEW u \in Streams
                 PROVE  StreamOf(gen'[u], pc'[u], verdict'[u], calls'[u], got'[u],
                                 queue'[u], put'[u])
    BY DEF StreamInv
  <2>3. CASE u = t
    <3>1. TurnStep(u)
      BY <2>1, <2>3
    <3>2. QED
      BY <3>1, StepCases, ChatAssumption, BeginStream, HandleStream, LateStream,
         ReturnStream, GiveUpStream, PutStream, GetSentStream, DisconnectStream
  <2>4. CASE u # t
    <3>1. u \in Turns \ {t}
      BY <2>4, ChatAssumption
    <3>2. /\ gen'[u] = gen[u] /\ pc'[u] = pc[u] /\ verdict'[u] = verdict[u]
          /\ calls'[u] = calls[u]
      BY <2>1, <3>1, TurnStepInd DEF Elsewhere
    <3>3. got'[u] = got[u] /\ queue'[u] = queue[u] /\ put'[u] = put[u]
      BY <2>1, <3>1, EventsOf
    <3>4. QED
      BY <3>2, <3>3, StreamAt
  <2>5. QED
    BY <2>3, <2>4
<1>2. CASE Erases
  BY <1>2, EraseInd DEF Erases, Undisturbed, StreamInv
<1>3. CASE UNCHANGED vars
  BY <1>3 DEF vars, StreamInv
<1>4. QED
  BY <1>1, <1>2, <1>3, NextCases

LEMMA StreamTells == Ind /\ StreamInv => StreamTrue
<1>1. SUFFICES ASSUME Ind, StreamInv, NEW t \in Streams
               PROVE  /\ \E story \in Stories(t) : IsPrefix(got[t], story)
                      /\ Contains(got[t], "done") => verdict[t] \in {"answered", "excused", "failed"}
                      /\ Contains(got[t], "error") =>
                           verdict[t] = "refused" /\ ~Contains(msgs[SessionOf[t]], <<t, "assistant">>)
  BY DEF StreamTrue
<1>2. /\ StreamOf(gen[t], pc[t], verdict[t], calls[t], got[t], queue[t], put[t])
      /\ t \in Turns /\ got[t] \in Seq(Events) /\ queue[t] \in Seq(Events)
      /\ put[t] \in Seq(Events) /\ calls[t] \in Nat
  BY <1>1, StreamAt
<1>3. TrueSoFar(got[t], calls[t], verdict[t])
  BY <1>2, TrueSent
<1>4. \E story \in Stories(t) : IsPrefix(got[t], story)
  <2>1. PICK x \in Seq(Events) : got[t] \o x = Answer(calls[t]) \/ got[t] \o x = Refusal
    BY <1>3 DEF TrueSoFar
  <2>2. IsPrefix(got[t], got[t] \o x)
    BY <1>2, FirstPart
  <2>3. Answer(calls[t]) \in Stories(t) /\ Refusal \in Stories(t)
    BY Zenon DEF Stories, Answer, Refusal, ErrorEnd
  <2>4. QED
    BY <2>1, <2>2, <2>3, Zenon
<1>5. ASSUME Contains(got[t], "error")
      PROVE  verdict[t] = "refused" /\ ~Contains(msgs[SessionOf[t]], <<t, "assistant">>)
  <2>1. verdict[t] = "refused"
    BY <1>3, <1>5 DEF TrueSoFar
  <2>2. <<t, "assistant">> \notin ToSet(msgs[SessionOf[t]])
    BY <1>1, <1>2, <2>1, NotStoredYet
  <2>3. msgs[SessionOf[t]] \in Seq(Message)
    BY <1>1, <1>2, TurnAt DEF Ind, TablesTyped, MsgsTyped
  <2>4. QED
    BY <2>1, <2>2, <2>3, SetOfSeq DEF Contains
<1>6. Contains(got[t], "done") => verdict[t] \in {"answered", "excused", "failed"}
  BY <1>3 DEF TrueSoFar
<1>7. QED
  BY <1>4, <1>5, <1>6

(* What a client of /chat/stream reads is the start of one complete story, *)
(* with nothing lost, repeated or out of order, although the queue may     *)
(* fill up at any event and the client may go away at any time; and the    *)
(* story is true: "done" only when the assistant's message was stored,     *)
(* "error" only when it was not.                                           *)
THEOREM StreamTrueHolds == Spec => []StreamTrue
<1>1. Init => StreamInv
  <2>1. SUFFICES ASSUME Init, NEW t \in Streams
                 PROVE  StreamOf(gen[t], pc[t], verdict[t], calls[t], got[t], queue[t], put[t])
    BY DEF StreamInv
  <2>2. t \in Turns
    BY ChatAssumption
  <2>3. QED
    BY <2>1, <2>2 DEF Init, StreamOf
<1>2. Ind /\ StreamInv /\ [Next]_vars => StreamInv'
  BY StreamInd
<1>3. QED
  BY <1>1, <1>2, IndHolds, StreamTells, PTL DEF Spec

-----------------------------------------------------------------------------
(* The contract of a turn and its memory                                   *)

Mem == [t \in Turns |-> Memory(t)]
Refined == UNCHANGED <<verdict, Mem>> \/ Contract!Next

LEMMA MemKept ==
  ASSUME rows' = rows, appended' = appended
  PROVE  Mem' = Mem
BY DEF Mem, Memory

(* Memory is kept only of what has been stored.                            *)
LEMMA MemOf ==
  ASSUME NEW t \in Turns
  PROVE  Mem[t] = Memory(t) /\ (Memory(t) = "none" <=> t \notin appended)
BY DEF Mem, Memory

LEMMA AskRefined ==
  ASSUME Ind, NEW t \in Turns, Begin(t)
  PROVE  Refined
<1>1. /\ verdict[t] = "unasked" /\ verdict' = [verdict EXCEPT ![t] = "asked"]
      /\ rows' = rows /\ appended' = appended
  BY TurnAt DEF Begin, TurnOf
<1>2. Mem' = Mem
  BY <1>1, MemKept
<1>3. Contract!Ask(t)
  BY <1>1, <1>2 DEF Contract!Ask, Mem
<1>4. QED
  BY <1>3 DEF Contract!Next, Refined

LEMMA StoreRefined ==
  ASSUME Ind, NEW t \in Turns, Stored(t) \/ StoreRaises(t) \/ LateStored(t)
  PROVE  Refined
<1>1. /\ verdict' = verdict /\ t \notin appended /\ Store(t)
      /\ t \notin ToSet(rows[SessionOf[t]]) /\ RowsTyped
  BY StoredInd DEF Stored, StoreRaises, LateStored, Ind, TablesTyped
<1>2. verdict[t] \in {"asked", "refused"}
  BY TurnAt DEF Stored, StoreRaises, LateStored, TurnOf, Handling
<1>3. PICK s : s = SessionOf[t]
  OBVIOUS
<1>4. /\ ToSet(rows'[s]) = ToSet(rows[s]) \cup {t}
      /\ \A r \in Sessions \ {s} : rows'[r] = rows[r]
      /\ appended' = appended \cup {t}
  BY <1>1, <1>3, StoreProps DEF Store
<1>5. Memory(t) = "none" /\ Memory(t)' = "kept"
  BY <1>1, <1>3, <1>4 DEF Memory
<1>6. ASSUME NEW u \in Turns \ {t} PROVE Memory(u)' = Memory(u)
  <2>1. SessionOf[u] \in Sessions /\ (u \in appended' <=> u \in appended)
    BY <1>4, TurnAt
  <2>2. u \in ToSet(rows'[SessionOf[u]]) <=> u \in ToSet(rows[SessionOf[u]])
    BY <1>4, <2>1
  <2>3. QED
    BY <2>1, <2>2 DEF Memory
<1>7. Mem' = [Mem EXCEPT ![t] = "kept"]
  BY <1>5, <1>6 DEF Mem
<1>8. Contract!Remember(t)
  BY <1>1, <1>2, <1>5, <1>7, MemOf DEF Contract!Remember, Mem
<1>9. QED
  BY <1>8 DEF Contract!Next, Refined

LEMMA ReplyRefined ==
  ASSUME Ind, NEW t \in Turns, NEW events, NEW outcome, Reply(t, events, outcome),
         verdict[t] = "asked", rows' = rows, appended' = appended,
         outcome = "answer" => t \in appended, outcome = "exhausted" => t \notin appended
  PROVE  Refined
<1>1. Mem' = Mem
  BY MemKept
<1>2. CASE verdict' = verdict
  BY <1>1, <1>2 DEF Refined
<1>3. CASE outcome = "answer" /\ verdict' = [verdict EXCEPT ![t] = "answered"]
  <2>1. Memory(t) # "none"
    BY <1>3, MemOf
  <2>2. Contract!Answer(t)
    BY <1>1, <1>3, <2>1, MemOf DEF Contract!Answer, Mem
  <2>3. QED
    BY <2>2 DEF Contract!Next, Refined
<1>4. CASE outcome = "exhausted" /\ verdict' = [verdict EXCEPT ![t] = "excused"]
  <2>1. Memory(t) = "none"
    BY <1>4, MemOf
  <2>2. Contract!Excuse(t)
    BY <1>1, <1>4, <2>1, MemOf DEF Contract!Excuse, Mem
  <2>3. QED
    BY <2>2 DEF Contract!Next, Refined
<1>5. CASE verdict' = [verdict EXCEPT ![t] = "failed"]
  <2>1. Contract!Fail(t)
    BY <1>1, <1>5 DEF Contract!Fail, Mem
  <2>2. QED
    BY <2>1 DEF Contract!Next, Refined
<1>6. QED
  BY <1>2, <1>3, <1>4, <1>5 DEF Reply, VerdictOf

LEMMA RefuseRefined ==
  ASSUME Ind, NEW t \in Turns, verdict[t] = "asked", rows' = rows, appended' = appended,
         verdict' = [verdict EXCEPT ![t] = "refused"]
  PROVE  Refined
<1>1. Mem' = Mem
  BY MemKept
<1>2. Contract!Refuse(t)
  BY <1>1 DEF Contract!Refuse, Mem
<1>3. QED
  BY <1>2 DEF Contract!Next, Refined

LEMMA TurnRefined ==
  ASSUME Ind, NEW t \in Turns, TurnStep(t)
  PROVE  Refined
<1>0. /\ TurnOf(pc[t], verdict[t], calls[t], result[t], gen[t],
                t \in appended, t \in orphans)
      /\ verdict \in [Turns -> Verdicts]
  BY TurnAt DEF Ind, FlowTyped
<1>1. CASE Begin(t)
  BY <1>1, AskRefined
<1>2. CASE Stored(t) \/ StoreRaises(t) \/ LateStored(t)
  BY <1>2, StoreRefined
<1>3. CASE UNCHANGED <<verdict, rows, appended>>
  BY <1>3, MemKept DEF Refined
<1>4. CASE Return(t)
  <2>1. /\ verdict[t] = "asked"
        /\ result[t] = "answer" => t \in appended
        /\ result[t] = "exhausted" => t \notin appended
    BY <1>0, <1>4 DEF Return, TurnOf, Handling
  <2>2. QED
    BY <1>4, <2>1, ReplyRefined DEF Return
<1>5. CASE AgentFails(t)
  <2>1. verdict[t] = "asked"
    BY <1>0, <1>5 DEF AgentFails, TurnOf, Handling, SettledPC
  <2>2. Reply(t, <<>>, "failed") /\ "failed" # "answer" /\ "failed" # "exhausted"
    BY <1>5 DEF AgentFails
  <2>3. rows' = rows /\ appended' = appended
    BY <1>5 DEF AgentFails
  <2>4. QED
    BY <2>1, <2>2, <2>3, ReplyRefined
<1>6. CASE GiveUp(t)
  <2>1. verdict[t] = "asked"
    BY <1>0, <1>6 DEF GiveUp, TurnOf
  <2>2. QED
    BY <1>6, <2>1, RefuseRefined DEF GiveUp
<1>7. CASE Put(t)
  <2>1. CASE pc[t] = "storing" /\ Reply(t, put[t], result[t])
    <3>1. /\ verdict[t] = "asked"
          /\ result[t] = "answer" => t \in appended
          /\ result[t] = "exhausted" => t \notin appended
      BY <1>0, <2>1 DEF TurnOf, Handling
    <3>2. QED
      BY <1>7, <2>1, <3>1, ReplyRefined DEF Put
  <2>2. CASE UNCHANGED verdict
    BY <1>3, <1>7, <2>2 DEF Put
  <2>3. QED
    BY <1>7, <2>1, <2>2 DEF Put
<1>8. CASE Disconnect(t)
  <2>1. rows' = rows /\ appended' = appended
    BY <1>8 DEF Disconnect
  <2>2. CASE verdict[t] = "asked"
    <3>1. verdict' = [verdict EXCEPT ![t] = "refused"]
      BY <1>8, <2>2 DEF Disconnect
    <3>2. QED
      BY <2>1, <2>2, <3>1, RefuseRefined
  <2>3. CASE verdict[t] # "asked"
    <3>1. verdict' = verdict
      BY <1>0, <1>8, <2>3 DEF Disconnect
    <3>2. QED
      BY <1>3, <2>1, <3>1
  <2>4. QED
    BY <2>2, <2>3
<1>9. Read(t) \/ UseTools(t) \/ Conclude(t) \/ Get(t) \/ Sent(t) =>
        UNCHANGED <<verdict, rows, appended>>
  BY DEF Read, UseTools, Conclude, Get, Sent
<1>10. QED
  BY <1>1, <1>2, <1>3, <1>4, <1>5, <1>6, <1>7, <1>8, <1>9, StepCases

LEMMA EraseRefined ==
  ASSUME Ind, Erases
  PROVE  Refined
<1>1. CASE \E s \in Sessions : \E M \in SUBSET ToSet(msgs[s]) \ {{}} : DeleteMessages(s, M)
  BY <1>1, MemKept DEF DeleteMessages, Refined
<1>2. ASSUME NEW S \in SUBSET Sessions, NEW M \in SUBSET S, ClearSessions(S, M)
      PROVE  Refined
  <2> DEFINE T == {t \in Turns : SessionOf[t] \in S}
  <2>1. /\ verdict' = verdict /\ appended' = appended
        /\ \A s \in Sessions : rows'[s] = IF s \in S THEN <<>> ELSE rows[s]
    BY <1>2 DEF ClearSessions
  <2>2. ASSUME NEW t \in Turns
        PROVE  Memory(t)' = IF t \in T /\ Memory(t) = "kept" THEN "erased" ELSE Memory(t)
    <3>1. SessionOf[t] \in Sessions /\ ToSet(<<>>) = {}
      BY TurnAt DEF ToSet
    <3>2. QED
      BY <2>1, <3>1 DEF Memory
  <2>3. T \in SUBSET Turns
    OBVIOUS
  <2> HIDE DEF T
  <2>4. Mem' = [t \in Turns |-> IF t \in T /\ Mem[t] = "kept" THEN "erased" ELSE Mem[t]]
    BY <2>2 DEF Mem
  <2>5. Contract!Erase(T)
    BY <2>1, <2>4 DEF Contract!Erase, Mem
  <2>6. QED
    BY <2>3, <2>5 DEF Contract!Next, Refined
<1>3. QED
  BY <1>1, <1>2 DEF Erases

(* What becomes of a turn and of its memory is what the contract promises: *)
(* it is remembered at most once, an answer only after that; a turn that   *)
(* used up its iterations never, one that an error was told of not later;  *)
(* only a turn that was given up may still be stored, and what was erased  *)
(* does not come back.                                                     *)
THEOREM TurnContractHolds == Spec => ImplementsContract
<1>1. Init => Contract!Init
  <2>1. SUFFICES ASSUME Init PROVE Contract!Init
    OBVIOUS
  <2>2. verdict = [t \in Turns |-> "unasked"] /\ \A t \in Turns : Memory(t) = "none"
    BY <2>1 DEF Init, Memory
  <2>3. QED
    BY <2>2 DEF Contract!Init
<1>2. Ind /\ [Next]_vars => [Contract!Next]_(Contract!contractVars)
  <2>1. SUFFICES ASSUME Ind, [Next]_vars PROVE Refined
    BY DEF Refined, Mem, Contract!contractVars
  <2>2. UNCHANGED vars => Refined
    BY MemKept DEF vars, Refined
  <2>3. QED
    BY <2>1, <2>2, TurnRefined, EraseRefined, NextCases
<1>3. QED
  BY <1>1, <1>2, IndHolds, PTL DEF Spec, ImplementsContract, Contract!Spec

=============================================================================
