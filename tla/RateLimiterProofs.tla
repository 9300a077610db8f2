------------------------- MODULE RateLimiterProofs -------------------------
(***************************************************************************)
(* The limiter's bound, for every rate, burst, cost, set of keys, limit on *)
(* the table and history of evictions, restarts and clock changes.         *)
(*                                                                         *)
(* AdmittedBound is not inductive: a restart puts the saved rows in place  *)
(* of the buckets, and a bucket that is created must not be the second of  *)
(* a life that admitted something.  Inv adds the bound for the rows, and   *)
(* Remembered.                                                             *)
(***************************************************************************)
EXTENDS RateLimiter, FiniteSetTheorems, SequenceTheorems, TLAPS

RowBound ==
  /\ \A k \in DOMAIN row : k \in DOMAIN life /\ Within(life[k], row[k])
  /\ ~Persistent => DOMAIN row = {}

Inv == TypeOK /\ AdmittedBound /\ Remembered /\ RowBound
-----------------------------------------------------------------------------
(* Tables.                                                                 *)

LEMMA WithoutProps ==
  ASSUME NEW f, NEW R, TableOf(f, R), NEW S
  PROVE  /\ TableOf(Without(f, S), R)
         /\ DOMAIN Without(f, S) = DOMAIN f \ S
         /\ \A x \in DOMAIN f \ S : Without(f, S)[x] = f[x]
  BY DEF TableOf, Without, Restrict

LEMMA EmptyTable ==
  ASSUME NEW R
  PROVE  TableOf(<< >>, R) /\ DOMAIN << >> = {}
<1>1. << >> \in Seq(R) /\ DOMAIN << >> = {}
  OBVIOUS
<1>2. QED
  BY <1>1 DEF TableOf
-----------------------------------------------------------------------------
(* The arithmetic of a bucket.                                             *)

LEMMA Products ==
  ASSUME NEW a \in Nat, NEW b \in Nat
  PROVE  /\ a * b \in Nat
         /\ \A c \in Int : a * (b + c) = a * b + a * c
  OBVIOUS

LEMMA RefilledProps ==
  ASSUME NEW b \in Bucket, now \in Time
  PROVE  /\ Refilled(b) \in Bucket
         /\ b.last <= Refilled(b).last
         /\ Refilled(b).tokens <= b.tokens + Rate * (Refilled(b).last - b.last)
<1>0. Rate \in Nat /\ Burst \in Nat /\ MaxTime \in Nat
  BY RateLimiterAssumption
<1>1. b.tokens \in 0..Burst /\ b.last \in Time /\ now \in Nat /\ b.last \in Nat
  BY <1>0 DEF Bucket, Time
<1>2. CASE now > b.last
  <2> DEFINE gain == (now - b.last) * Rate
  <2>1. now - b.last \in Nat
    BY <1>1, <1>2
  <2>2. gain \in Nat /\ gain = Rate * (now - b.last)
    BY <1>0, <2>1
  <2>3. Refilled(b) = [tokens |-> Smaller(Burst, b.tokens + gain), last |-> now]
    BY <1>2 DEF Refilled
  <2> HIDE DEF gain
  <2>4. Smaller(Burst, b.tokens + gain) \in 0..Burst
        /\ Smaller(Burst, b.tokens + gain) <= b.tokens + gain
    BY <1>0, <1>1, <2>2 DEF Smaller
  <2>5. QED
    BY <1>1, <1>2, <2>2, <2>3, <2>4 DEF Bucket
<1>3. CASE ~(now > b.last)
  <2>1. Refilled(b) = b
    BY <1>3 DEF Refilled
  <2>2. Rate * (b.last - b.last) = 0
    BY <1>0, <1>1
  <2>3. QED
    BY <1>1, <2>1, <2>2
<1>4. QED
  BY <1>2, <1>3

LEMMA TicksType ==
  ASSUME NEW d \in Nat
  PROVE  Ticks(d) \in Nat
<1>1. Rate \in Nat \ {0} /\ d + Rate - 1 \in Nat
  BY RateLimiterAssumption
<1>2. QED
  BY <1>1 DEF Ticks
-----------------------------------------------------------------------------
(* What _refill leaves, and what it hands out.                             *)

LEMMA EvictedProps ==
  ASSUME NEW k \in Keys, NEW S \in Evicted(k)
  PROVE  S \subseteq DOMAIN bucket /\ k \notin S /\ (k \in DOMAIN bucket => S = {})
  BY DEF Evicted, Oldest

LEMMA AfterProps ==
  ASSUME TypeOK, NEW k \in Keys, NEW S \in Evicted(k)
  PROVE  /\ TableOf(AfterRefill(k, S), Bucket)
         /\ DOMAIN bucket \ S \subseteq DOMAIN AfterRefill(k, S)
         /\ DOMAIN AfterRefill(k, S) \subseteq (DOMAIN bucket \ S) \cup {k}
         /\ \A x \in DOMAIN bucket \ S : x # k => AfterRefill(k, S)[x] = bucket[x]
         /\ Handed(k, S) \in Bucket
         /\ k \in DOMAIN AfterRefill(k, S) => Handed(k, S) = AfterRefill(k, S)[k]
         /\ k \notin DOMAIN AfterRefill(k, S) => Handed(k, S).tokens = 0
         /\ k \notin DOMAIN bucket => Handed(k, S).last = now
         /\ k \in DOMAIN bucket => Handed(k, S) = Refilled(bucket[k])
<1>0. now \in Time /\ TableOf(bucket, Bucket) /\ Burst \in Nat
  BY RateLimiterAssumption DEF TypeOK
<1>1. [tokens |-> 0, last |-> now] \in Bucket /\ [tokens |-> Burst, last |-> now] \in Bucket
  BY <1>0 DEF Bucket
<1>2. CASE k \in DOMAIN bucket
  <2>1. S = {} /\ AfterRefill(k, S) = [bucket EXCEPT ![k] = Refilled(bucket[k])]
    BY <1>2, EvictedProps DEF AfterRefill
  <2>2. bucket[k] \in Bucket /\ Refilled(bucket[k]) \in Bucket
    BY <1>0, <1>2, RefilledProps DEF TableOf
  <2>3. Handed(k, S) = Refilled(bucket[k])
    BY <1>0, <1>2, <2>1 DEF Handed, TableOf
  <2>4. QED
    BY <1>0, <1>2, <2>1, <2>2, <2>3 DEF TableOf
<1>3. CASE k \notin DOMAIN bucket
  <2> DEFINE rest == Without(bucket, S)
  <2>1. /\ TableOf(rest, Bucket) /\ DOMAIN rest = DOMAIN bucket \ S
        /\ \A x \in DOMAIN bucket \ S : rest[x] = bucket[x]
    BY <1>0, WithoutProps
  <2>2. CASE IsFull(rest)
    <3>1. AfterRefill(k, S) = rest /\ Handed(k, S) = [tokens |-> 0, last |-> now]
      BY <1>3, <2>1, <2>2 DEF AfterRefill, Handed
    <3> HIDE DEF rest
    <3>2. QED
      BY <1>1, <1>3, <2>1, <3>1
  <2>3. CASE ~IsFull(rest)
    <3> DEFINE full == [tokens |-> Burst, last |-> now]
    <3>1. AfterRefill(k, S) = Put(rest, k, full)
      BY <1>3, <2>3 DEF AfterRefill
    <3>0. full \in Bucket /\ full.last = now
      BY <1>1
    <3> HIDE DEF rest, full
    <3>2. /\ TableOf(Put(rest, k, full), Bucket)
          /\ DOMAIN Put(rest, k, full) = (DOMAIN bucket \ S) \cup {k}
          /\ Put(rest, k, full)[k] = full
          /\ \A x \in DOMAIN bucket \ S : x # k => Put(rest, k, full)[x] = bucket[x]
      <4>1. /\ TableOf(Put(Without(bucket, S), k, full), Bucket)
            /\ DOMAIN Put(Without(bucket, S), k, full) = (DOMAIN bucket \ S) \cup {k}
            /\ Put(Without(bucket, S), k, full)[k] = full
            /\ \A x \in DOMAIN bucket \ S :
                 x # k => Put(Without(bucket, S), k, full)[x] = bucket[x]
        BY <1>0, <3>0 DEF TableOf, Put, Without, Restrict
      <4>2. QED
        BY <4>1 DEF rest
    <3>3. Handed(k, S) = full
      BY <3>1, <3>2 DEF Handed
    <3>4. QED
      BY <1>3, <3>0, <3>1, <3>2, <3>3
  <2>4. QED
    BY <2>2, <2>3
<1>4. QED
  BY <1>2, <1>3

(* Opening a life again loses nothing of what was within the bound.        *)
LEMMA OpenedProps ==
  ASSUME TypeOK, NEW k \in Keys
  PROVE  /\ Opened(k) \in Life
         /\ k \notin DOMAIN life => Opened(k).admitted = 0
         /\ k \in DOMAIN life => Opened(k).admitted = life[k].admitted
         /\ Opened(k).admitted = 0 => Opened(k).since <= now
         /\ \A b \in Bucket : k \in DOMAIN life /\ Within(life[k], b) => Within(Opened(k), b)
<1>0. now \in Time /\ now \in Nat /\ Rate \in Nat /\ Burst \in Nat /\ MaxTime \in Nat
  BY RateLimiterAssumption DEF TypeOK, Time
<1>1. CASE k \notin DOMAIN life
  BY <1>0, <1>1 DEF Opened, Life
<1>2. CASE k \in DOMAIN life
  <2>1. life[k] \in Life /\ life[k].since \in Time /\ life[k].since \in Nat
    BY <1>0, <1>2 DEF TypeOK, TableOf, Life, Time
  <2>2. CASE life[k].admitted = 0
    <3> DEFINE s == Smaller(life[k].since, now)
    <3>1. s \in Time /\ s <= now /\ s <= life[k].since
      BY <1>0, <2>1 DEF Smaller
    <3>2. Opened(k) = [since |-> s, admitted |-> 0]
      BY <1>2, <2>1, <2>2 DEF Opened, Life
    <3> HIDE DEF s
    <3>3. ASSUME NEW b \in Bucket, Within(life[k], b)
          PROVE  Within(Opened(k), b)
      <4>1. b.last \in Nat /\ b.tokens \in 0..Burst /\ s <= b.last /\ s \in Nat
        BY <1>0, <2>1, <3>1, <3>3 DEF Bucket, Within, Time
      <4>2. b.last - s \in Nat /\ Rate * (b.last - s) \in Nat
        BY <1>0, <4>1, Products
      <4>3. QED
        BY <1>0, <3>2, <4>1, <4>2 DEF Within
    <3>4. QED
      BY <1>2, <2>2, <3>1, <3>2, <3>3 DEF Life
  <2>3. CASE life[k].admitted # 0
    BY <1>2, <2>1, <2>3 DEF Opened
  <2>4. QED
    BY <2>2, <2>3
<1>3. QED
  BY <1>1, <1>2

(* What a request is handed is within the bound of the life it belongs to. *)
LEMMA HandedProps ==
  ASSUME Inv, NEW k \in Keys, NEW S \in Evicted(k)
  PROVE  Within(Opened(k), Handed(k, S))
<1>0. now \in Time /\ now \in Nat /\ Rate \in Nat /\ Burst \in Nat /\ MaxTime \in Nat
  BY RateLimiterAssumption DEF Inv, TypeOK, Time
<1> DEFINE h == Handed(k, S)
           l == Opened(k)
<1>1. h \in Bucket /\ h.tokens \in 0..Burst /\ h.last \in Nat
  BY <1>0, AfterProps DEF Inv, Bucket, Time
<1>2. l \in Life /\ l.since \in Nat /\ l.admitted \in Nat
  BY <1>0, OpenedProps DEF Inv, Life, Time
<1>3. CASE k \notin DOMAIN bucket
  <2>1. h.last = now
    BY <1>3, AfterProps DEF Inv
  <2>2. l.admitted = 0 /\ l.since <= now
    <3>1. k \in DOMAIN life => life[k] \in Life /\ ~(life[k].admitted > 0)
      BY <1>3 DEF Inv, Remembered, TypeOK, TableOf
    <3>2. k \in DOMAIN life => life[k].admitted = 0
      BY <3>1 DEF Life
    <3>3. QED
      BY <3>2, OpenedProps DEF Inv
  <2>3. now - l.since \in Nat /\ Rate * (now - l.since) \in Nat
    BY <1>0, <1>2, <2>2, Products
  <2> HIDE DEF h, l
  <2>4. QED
    BY <1>0, <1>1, <1>2, <2>1, <2>2, <2>3 DEF Within, h, l
<1>4. CASE k \in DOMAIN bucket
  <2> DEFINE b == bucket[k]
  <2>1. /\ h = Refilled(b) /\ b \in Bucket /\ b.last \in Nat /\ b.tokens \in Nat
        /\ k \in DOMAIN life /\ Within(life[k], b)
    BY <1>0, <1>4, AfterProps DEF Inv, TypeOK, TableOf, AdmittedBound, Bucket, Time
  <2>2. Within(l, b)
    BY <2>1, OpenedProps DEF Inv
  <2>3. b.last <= h.last /\ h.tokens <= b.tokens + Rate * (h.last - b.last)
    BY <1>0, <2>1, RefilledProps
  <2> HIDE DEF h, l, b
  <2>4. Rate * (h.last - l.since) = Rate * (h.last - b.last) + Rate * (b.last - l.since)
    <3>1. h.last - b.last \in Nat /\ b.last - l.since \in Int
      BY <1>1, <1>2, <2>1, <2>3
    <3>2. h.last - l.since = (h.last - b.last) + (b.last - l.since)
      BY <1>1, <1>2, <2>1
    <3>3. QED
      BY <1>0, <3>1, <3>2, Products
  <2>5. Rate * (h.last - b.last) \in Int /\ Rate * (b.last - l.since) \in Int
    BY <1>0, <1>1, <1>2, <2>1
  <2>6. l.since <= b.last /\ l.admitted + b.tokens <= Burst + Rate * (b.last - l.since)
    BY <2>2 DEF Within
  <2>7. l.since <= h.last /\ l.admitted + h.tokens <= Burst + Rate * (h.last - l.since)
    BY <1>0, <1>1, <1>2, <2>1, <2>3, <2>4, <2>5, <2>6
  <2>8. QED
    BY <2>7 DEF Within, h, l
<1>5. QED
  BY <1>3, <1>4
-----------------------------------------------------------------------------
(* g is f without S, and with k set or unset.                              *)
Moved(f, g, S, k) ==
  /\ DOMAIN g \subseteq (DOMAIN f \ S) \cup {k}
  /\ DOMAIN f \ S \subseteq DOMAIN g
  /\ \A x \in DOMAIN f \ S : x # k => g[x] = f[x]

(* A step that evicts S and gives key k the life l.                        *)
Combined(k, S, l) ==
  /\ Moved(bucket, bucket', S, k) /\ Moved(row, row', S, k)
  /\ life' = Put(Without(life, S), k, l)
  /\ k \in DOMAIN bucket' => Within(l, bucket'[k])
  /\ k \in DOMAIN row' => Within(l, row'[k])
  /\ l.admitted > 0 => k \in DOMAIN bucket' /\ (Persistent => k \in DOMAIN row')
  /\ ~Persistent => DOMAIN row' = {}

LEMMA Combine ==
  ASSUME Inv, NEW k \in Keys, NEW S, k \notin S, NEW l \in Life, Combined(k, S, l)
  PROVE  TableOf(life', Life) /\ AdmittedBound' /\ Remembered' /\ RowBound'
<1> USE DEF Combined, Moved
<1>1. TableOf(life, Life)
  BY DEF Inv, TypeOK
<1>5. /\ TableOf(life', Life) /\ DOMAIN life' = (DOMAIN life \ S) \cup {k}
      /\ life'[k] = l
      /\ \A x \in DOMAIN life \ S : x # k => life'[x] = life[x]
  BY <1>1
     DEF TableOf, Put, Without, Restrict
<1>6. ASSUME NEW x \in DOMAIN bucket'
      PROVE  x \in DOMAIN life' /\ Within(life'[x], bucket'[x])
  <2>1. CASE x = k
    BY <1>5, <2>1
  <2>2. CASE x # k
    <3>1. x \in DOMAIN bucket /\ x \notin S /\ bucket'[x] = bucket[x]
      BY <1>6, <2>2
    <3>2. x \in DOMAIN life /\ Within(life[x], bucket[x])
      BY <3>1 DEF Inv, AdmittedBound
    <3>3. QED
      BY <1>5, <2>2, <3>1, <3>2
  <2>3. QED
    BY <2>1, <2>2
<1>7. ASSUME NEW x \in DOMAIN row'
      PROVE  x \in DOMAIN life' /\ Within(life'[x], row'[x])
  <2>1. CASE x = k
    BY <1>5, <1>7, <2>1
  <2>2. CASE x # k
    <3>1. x \in DOMAIN row /\ x \notin S /\ row'[x] = row[x]
      BY <1>7, <2>2
    <3>2. x \in DOMAIN life /\ Within(life[x], row[x])
      BY <3>1 DEF Inv, RowBound
    <3>3. QED
      BY <1>5, <2>2, <3>1, <3>2
  <2>3. QED
    BY <2>1, <2>2
<1>8. ASSUME NEW x \in DOMAIN life', life'[x].admitted > 0
      PROVE  x \in DOMAIN bucket' /\ (Persistent => x \in DOMAIN row')
  <2>1. CASE x = k
    BY <1>5, <1>8, <2>1
  <2>2. CASE x # k
    <3>1. x \in DOMAIN life /\ x \notin S /\ life[x].admitted > 0
      BY <1>5, <1>8, <2>2
    <3>2. x \in DOMAIN bucket /\ (Persistent => x \in DOMAIN row)
      BY <3>1 DEF Inv, Remembered
    <3>3. QED
      BY <3>1, <3>2
  <2>3. QED
    BY <2>1, <2>2
<1>9. (\A x \in DOMAIN bucket' : x \in DOMAIN life' /\ Within(life'[x], bucket'[x]))
        => AdmittedBound'
  BY DEF AdmittedBound, Within
<1>10. (\A x \in DOMAIN row' : x \in DOMAIN life' /\ Within(life'[x], row'[x]))
        => RowBound'
  BY DEF RowBound, Within
<1>11. QED
  BY <1>5, <1>6, <1>7, <1>8, <1>9, <1>10 DEF Remembered

LEMMA TakeNext ==
  ASSUME Inv, NEW k \in Keys, Take(k)
  PROVE  Inv'
<1>1. PICK S \in Evicted(k) :
        LET b    == Handed(k, S)
            ok   == b.tokens >= Cost
            left == IF ok THEN [b EXCEPT !.tokens = @ - Cost] ELSE b
        IN  /\ bucket' = IF k \in DOMAIN AfterRefill(k, S)
                         THEN [AfterRefill(k, S) EXCEPT ![k] = left]
                         ELSE AfterRefill(k, S)
            /\ row' = Saved(k, left, S, ok)
            /\ life' = Put(Without(life, S), k,
                           [Opened(k) EXCEPT !.admitted = @ + (IF ok THEN Cost ELSE 0)])
            /\ Promise(k, b, ok)
            /\ kept' = (kept /\ ~( /\ k = Watched /\ told # Never /\ told <= now
                                  /\ ~ok /\ k \in DOMAIN AfterRefill(k, S) ))
            /\ UNCHANGED <<now, maxKeys, restarts, setBacks>>
  BY DEF Take
<1> DEFINE b    == Handed(k, S)
           ok   == b.tokens >= Cost
           left == IF ok THEN [b EXCEPT !.tokens = @ - Cost] ELSE b
           spent == IF ok THEN Cost ELSE 0
           l    == [Opened(k) EXCEPT !.admitted = @ + spent]
<1>0. /\ TypeOK /\ now \in Nat /\ Rate \in Nat /\ Burst \in Nat /\ Cost \in Nat \ {0}
      /\ MaxTime \in Nat /\ Persistent \in BOOLEAN
  BY RateLimiterAssumption DEF Inv, TypeOK, Time
<1>2. k \notin S /\ S \subseteq DOMAIN bucket
  BY EvictedProps
<1>3. b \in Bucket /\ b.tokens \in 0..Burst /\ b.last \in Nat
  BY <1>0, AfterProps DEF Bucket, Time
<1>4. Opened(k) \in Life /\ Opened(k).since \in Nat /\ Opened(k).admitted \in Nat
  BY <1>0, OpenedProps DEF Life, Time
<1>5. Within(Opened(k), b)
  BY HandedProps
<1>6. /\ left \in Bucket /\ left.last = b.last
      /\ left.tokens = b.tokens - spent /\ spent \in Nat
  BY <1>0, <1>3 DEF Bucket
<1>7. /\ l \in Life /\ l.since = Opened(k).since
      /\ l.admitted = Opened(k).admitted + spent
  BY <1>0, <1>4, <1>6 DEF Life
<1>8. Within(l, left)
  <2> DEFINE bound == Burst + Rate * (b.last - Opened(k).since)
  <2>1. bound \in Int
    BY <1>0, <1>3, <1>4
  <2>2. Opened(k).since <= b.last /\ Opened(k).admitted + b.tokens <= bound
    BY <1>5 DEF Within
  <2>3. left.last - l.since = b.last - Opened(k).since
    BY <1>6, <1>7
  <2> HIDE DEF b, l, left, spent, ok
  <2>4. Burst + Rate * (left.last - l.since) = bound
    BY <2>3
  <2> HIDE DEF bound
  <2>5. l.admitted + left.tokens <= bound /\ l.since <= left.last
    BY <1>3, <1>4, <1>6, <1>7, <2>1, <2>2
  <2>6. QED
    BY <2>4, <2>5 DEF Within
<1>9. /\ TableOf(AfterRefill(k, S), Bucket)
      /\ DOMAIN bucket \ S \subseteq DOMAIN AfterRefill(k, S)
      /\ DOMAIN AfterRefill(k, S) \subseteq (DOMAIN bucket \ S) \cup {k}
      /\ \A x \in DOMAIN bucket \ S : x # k => AfterRefill(k, S)[x] = bucket[x]
      /\ k \notin DOMAIN AfterRefill(k, S) => b.tokens = 0
  BY <1>0, AfterProps
<1>10. /\ bucket' = IF k \in DOMAIN AfterRefill(k, S)
                    THEN [AfterRefill(k, S) EXCEPT ![k] = left]
                    ELSE AfterRefill(k, S)
       /\ row' = Saved(k, left, S, ok)
       /\ life' = Put(Without(life, S), k, l)
       /\ now' = now /\ maxKeys' = maxKeys /\ restarts' = restarts /\ setBacks' = setBacks
  BY <1>1
<1>11. kept' \in BOOLEAN /\ told' \in Nat \cup {Never}
  <2>1. kept' \in BOOLEAN
    BY <1>0, <1>1 DEF TypeOK
  <2>2. b.tokens < Cost => Cost - b.tokens \in Nat
    BY <1>0, <1>3
  <2>3. b.tokens < Cost => now + Ticks(Cost - b.tokens) \in Nat
    BY <1>0, <2>2, TicksType
  <2>4. Promise(k, b, b.tokens >= Cost)
    BY <1>1
  <2>5. told \in Nat \cup {Never}
    BY <1>0 DEF TypeOK
  <2> HIDE DEF b
  <2>6. QED
    BY <1>0, <1>3, <2>1, <2>3, <2>4, <2>5 DEF Promise
<1> HIDE DEF left, l, ok, spent, b
<1>12. /\ TableOf(bucket', Bucket)
       /\ DOMAIN bucket' = DOMAIN AfterRefill(k, S)
       /\ \A x \in DOMAIN bucket \ S : x # k => bucket'[x] = bucket[x]
       /\ k \in DOMAIN bucket' => bucket'[k] = left
  BY <1>6, <1>9, <1>10 DEF TableOf
<1>13. /\ TableOf(row', Bucket)
       /\ DOMAIN row' \subseteq (DOMAIN row \ S) \cup {k}
       /\ DOMAIN row \ S \subseteq DOMAIN row'
       /\ \A x \in DOMAIN row \ S : x # k => row'[x] = row[x]
       /\ k \in DOMAIN row' => row'[k] = left
       /\ Persistent => k \in DOMAIN row'
       /\ ~Persistent => DOMAIN row' = {}
  <2>0. TableOf(row, Bucket) /\ (~Persistent => DOMAIN row = {})
    BY DEF Inv, TypeOK, RowBound
  <2>1. CASE Persistent
    <3>1. row' = Put(Without(row, S), k, left)
      BY <1>10, <2>1 DEF Saved
    <3>2. left \in Bucket /\ TableOf(row, Bucket)
      BY <1>6, <2>0
    <3>3. /\ TableOf(Put(Without(row, S), k, left), Bucket)
          /\ DOMAIN Put(Without(row, S), k, left) = (DOMAIN row \ S) \cup {k}
          /\ Put(Without(row, S), k, left)[k] = left
          /\ \A x \in DOMAIN row \ S : x # k => Put(Without(row, S), k, left)[x] = row[x]
      BY <3>2 DEF TableOf, Put, Without, Restrict
    <3>4. QED
      BY <2>1, <3>1, <3>3
  <2>2. CASE ~Persistent
    <3>1. row' = row
      BY <1>10, <2>2 DEF Saved
    <3>2. QED
      BY <2>0, <2>2, <3>1
  <2>3. QED
    BY <2>1, <2>2
<1>14. l.admitted > 0 => k \in DOMAIN bucket'
  <2>1. CASE spent = 0
    <3>1. l.admitted > 0 => k \in DOMAIN life /\ life[k].admitted > 0
      BY <1>0, <1>4, <1>7, <2>1, OpenedProps
    <3>2. l.admitted > 0 => k \in DOMAIN bucket
      BY <3>1 DEF Inv, Remembered
    <3>3. QED
      BY <1>2, <1>9, <1>12, <3>2
  <2>2. CASE spent # 0
    <3>1. b.tokens # 0
      BY <1>0, <1>3, <2>2 DEF spent, ok
    <3>2. QED
      BY <1>9, <1>12, <3>1
  <2>3. QED
    BY <2>1, <2>2
<1>15. TableOf(life', Life) /\ AdmittedBound' /\ Remembered' /\ RowBound'
  <2>1. k \in DOMAIN bucket' => Within(l, bucket'[k])
    BY <1>8, <1>12
  <2>2. k \in DOMAIN row' => Within(l, row'[k])
    BY <1>8, <1>13
  <2>3. DOMAIN bucket' \subseteq (DOMAIN bucket \ S) \cup {k}
        /\ DOMAIN bucket \ S \subseteq DOMAIN bucket'
    BY <1>9, <1>12
  <2>4. Moved(bucket, bucket', S, k) /\ Moved(row, row', S, k)
    BY <1>12, <1>13, <2>3 DEF Moved
  <2>5. Combined(k, S, l)
    BY <1>10, <1>13, <1>14, <2>1, <2>2, <2>4 DEF Combined
  <2>6. l \in Life
    BY <1>7
  <2>7. QED
    BY <1>2, <2>5, <2>6, Combine
<1>16. TypeOK'
  BY <1>0, <1>10, <1>11, <1>12, <1>13, <1>15 DEF TypeOK, TableOf
<1>17. QED
  BY <1>15, <1>16 DEF Inv

LEMMA AskNext ==
  ASSUME Inv, NEW k \in Keys, Ask(k)
  PROVE  Inv'
<1>1. PICK S \in Evicted(k) :
        /\ bucket' = AfterRefill(k, S)
        /\ row' = Without(row, S)
        /\ life' = IF k \in DOMAIN AfterRefill(k, S)
                   THEN Put(Without(life, S), k, Opened(k)) ELSE Without(life, S)
        /\ UNCHANGED <<now, maxKeys, restarts, setBacks, told, kept>>
  BY DEF Ask
<1> DEFINE b == Handed(k, S)
<1>0. /\ TypeOK /\ now \in Nat /\ Rate \in Nat /\ Burst \in Nat /\ Cost \in Nat \ {0}
      /\ MaxTime \in Nat /\ Persistent \in BOOLEAN
  BY RateLimiterAssumption DEF Inv, TypeOK, Time
<1>2. k \notin S /\ S \subseteq DOMAIN bucket
  BY EvictedProps
<1>3. b \in Bucket /\ b.tokens \in 0..Burst
  BY <1>0, AfterProps DEF Bucket
<1>4. /\ TableOf(bucket', Bucket) /\ Moved(bucket, bucket', S, k)
      /\ k \in DOMAIN bucket' => bucket'[k] = b
      /\ k \in DOMAIN bucket => k \in DOMAIN bucket'
  BY <1>0, <1>1, <1>2, AfterProps DEF Moved
<1>5. TableOf(row, Bucket) /\ TableOf(life, Life)
  BY <1>0 DEF TypeOK
<1>6. /\ TableOf(row', Bucket) /\ Moved(row, row', S, k) /\ DOMAIN row' = DOMAIN row \ S
      /\ \A x \in DOMAIN row' : row'[x] = row[x]
  BY <1>1, <1>5 DEF TableOf, Moved, Without, Restrict
<1>7. ~Persistent => DOMAIN row' = {}
  BY <1>6 DEF Inv, RowBound
<1>8. k \in DOMAIN row' => k \in DOMAIN life /\ Within(life[k], row'[k]) /\ row'[k] \in Bucket
  BY <1>5, <1>6 DEF Inv, RowBound, TableOf
<1>9. TableOf(life', Life) /\ AdmittedBound' /\ Remembered' /\ RowBound'
  <2>1. CASE k \in DOMAIN bucket'
    <3> DEFINE l == Opened(k)
    <3>1. l \in Life /\ life' = Put(Without(life, S), k, l)
      BY <1>0, <1>1, <2>1, OpenedProps
    <3>2. Within(l, bucket'[k])
      BY <1>4, <2>1, HandedProps
    <3>3. k \in DOMAIN row' => Within(l, row'[k])
      BY <1>0, <1>8, OpenedProps
    <3>4. l.admitted > 0 => (Persistent => k \in DOMAIN row')
      <4>1. l.admitted > 0 => k \in DOMAIN life /\ life[k].admitted > 0
        BY <1>0, OpenedProps
      <4>2. QED
        BY <1>2, <1>6, <4>1 DEF Inv, Remembered
    <3> HIDE DEF l
    <3>5. Combined(k, S, l)
      BY <1>4, <1>6, <1>7, <2>1, <3>1, <3>2, <3>3, <3>4 DEF Combined
    <3>6. l \in Life
      BY <3>1
    <3>7. QED
      BY <1>2, <3>5, <3>6, Combine
  <2>2. CASE k \notin DOMAIN bucket'
    <3>1. life' = Without(life, S)
      BY <1>1, <2>2
    <3>2. /\ TableOf(life', Life) /\ DOMAIN life' = DOMAIN life \ S
          /\ \A x \in DOMAIN life' : life'[x] = life[x]
      BY <1>5, <3>1 DEF TableOf, Without, Restrict
    <3>3. \A x \in DOMAIN bucket' : x \in DOMAIN bucket /\ x \notin S /\ bucket'[x] = bucket[x]
      BY <1>4, <2>2 DEF Moved
    <3>4. ASSUME NEW x \in DOMAIN bucket' PROVE x \in DOMAIN life' /\ Within(life'[x], bucket'[x])
      BY <3>2, <3>3 DEF Inv, AdmittedBound
    <3>5. ASSUME NEW x \in DOMAIN row' PROVE x \in DOMAIN life' /\ Within(life'[x], row'[x])
      BY <1>6, <3>2 DEF Inv, RowBound
    <3>6. ASSUME NEW x \in DOMAIN life', life'[x].admitted > 0
          PROVE  x \in DOMAIN bucket' /\ (Persistent => x \in DOMAIN row')
      <4>1. x \in DOMAIN life /\ x \notin S /\ life[x].admitted > 0
        BY <3>2, <3>6
      <4>2. x \in DOMAIN bucket /\ (Persistent => x \in DOMAIN row)
        BY <4>1 DEF Inv, Remembered
      <4>3. QED
        BY <1>4, <1>6, <4>1, <4>2 DEF Moved
    <3>7. QED
      BY <1>7, <3>2, <3>4, <3>5, <3>6 DEF AdmittedBound, Remembered, RowBound, Within
  <2>3. QED
    BY <2>1, <2>2
<1>10. told' \in Nat \cup {Never}
  BY <1>0, <1>1 DEF TypeOK
<1>11. TypeOK'
  BY <1>0, <1>1, <1>4, <1>6, <1>9, <1>10 DEF TypeOK, TableOf
<1>12. QED
  BY <1>9, <1>11 DEF Inv

LEMMA ResetNext ==
  ASSUME Inv, NEW S \in SUBSET Keys, Reset(S)
  PROVE  Inv'
<1>0. TypeOK /\ TableOf(bucket, Bucket) /\ TableOf(row, Bucket) /\ TableOf(life, Life)
  BY DEF Inv, TypeOK
<1>1. /\ TableOf(bucket', Bucket) /\ DOMAIN bucket' = DOMAIN bucket \ S
      /\ \A x \in DOMAIN bucket' : bucket'[x] = bucket[x]
      /\ TableOf(row', Bucket) /\ DOMAIN row' = DOMAIN row \ S
      /\ \A x \in DOMAIN row' : row'[x] = row[x]
      /\ TableOf(life', Life) /\ DOMAIN life' = DOMAIN life \ S
      /\ \A x \in DOMAIN life' : life'[x] = life[x]
  BY <1>0 DEF Reset, TableOf, Without, Restrict
<1>2. TypeOK'
  BY <1>0, <1>1 DEF Reset, TypeOK, TableOf
<1>3. AdmittedBound' /\ RowBound'
  BY <1>1 DEF Inv, AdmittedBound, RowBound, Within
<1>4. Remembered'
  BY <1>1 DEF Inv, Remembered
<1>5. QED
  BY <1>2, <1>3, <1>4 DEF Inv

LEMMA RestartNext ==
  ASSUME Inv, NEW limit \in Limits, Restart(limit)
  PROVE  Inv'
<1>0. /\ TypeOK /\ restarts' \in 0..MaxRestarts /\ row' = row
      /\ maxKeys' \in Limits /\ told' \in Nat \cup {Never}
  BY RateLimiterAssumption DEF Inv, Restart, TypeOK
<1>1. CASE Persistent
  <2>1. bucket' = row /\ life' = life
    BY <1>1 DEF Restart, Loaded
  <2>2. TypeOK'
    BY <1>0, <2>1 DEF Restart, TypeOK, TableOf
  <2>3. AdmittedBound' /\ RowBound'
    BY <1>0, <1>1, <2>1 DEF Inv, AdmittedBound, RowBound, Within
  <2>4. Remembered'
    BY <1>0, <1>1, <2>1 DEF Inv, Remembered
  <2>5. QED
    BY <2>2, <2>3, <2>4 DEF Inv
<1>2. CASE ~Persistent
  <2>1. bucket' = << >> /\ life' = << >>
    BY <1>2 DEF Restart, Loaded
  <2>2. TableOf(bucket', Bucket) /\ TableOf(life', Life)
        /\ DOMAIN bucket' = {} /\ DOMAIN life' = {} /\ DOMAIN row' = {}
    BY <1>0, <1>2, <2>1, EmptyTable DEF Inv, RowBound
  <2>3. TypeOK'
    BY <1>0, <2>2 DEF Restart, TypeOK, TableOf
  <2>4. QED
    BY <2>2, <2>3 DEF Inv, AdmittedBound, RowBound, Remembered
<1>3. QED
  BY <1>1, <1>2

LEMMA ClockNext ==
  ASSUME Inv, Tick \/ (\E t \in Time : SetBack(t)) \/ UNCHANGED vars
  PROVE  Inv'
<1>1. /\ bucket' = bucket /\ row' = row /\ life' = life
      /\ UNCHANGED <<maxKeys, restarts, kept>>
  BY DEF Tick, SetBack, vars
<1>2. now' \in Time /\ told' \in Nat \cup {Never} /\ setBacks' \in 0..MaxSetBacks
  BY RateLimiterAssumption DEF Inv, TypeOK, Tick, SetBack, vars, Time
<1>3. TypeOK'
  BY <1>1, <1>2 DEF Inv, TypeOK, TableOf
<1>4. AdmittedBound' /\ RowBound' /\ Remembered'
  BY <1>1 DEF Inv, AdmittedBound, RowBound, Remembered, Within
<1>5. QED
  BY <1>3, <1>4 DEF Inv

LEMMA InvInit == Init => Inv
<1> SUFFICES ASSUME Init PROVE Inv
  OBVIOUS
<1>1. /\ TableOf(bucket, Bucket) /\ TableOf(row, Bucket) /\ TableOf(life, Life)
      /\ DOMAIN bucket = {} /\ DOMAIN row = {} /\ DOMAIN life = {}
  BY EmptyTable DEF Init
<1>2. TypeOK
  BY <1>1, RateLimiterAssumption DEF Init, TypeOK, Time
<1>3. QED
  BY <1>1, <1>2 DEF Inv, AdmittedBound, RowBound, Remembered

LEMMA InvNext == Inv /\ [Next]_vars => Inv'
<1> SUFFICES ASSUME Inv, [Next]_vars PROVE Inv'
  OBVIOUS
<1>1. ASSUME NEW k \in Keys, Take(k) PROVE Inv'
  BY <1>1, TakeNext
<1>2. ASSUME NEW k \in Keys, Ask(k) PROVE Inv'
  BY <1>2, AskNext
<1>3. ASSUME NEW k \in Keys, Reset({k}) PROVE Inv'
  BY <1>3, ResetNext
<1>4. CASE Reset(Keys)
  BY <1>4, ResetNext
<1>5. ASSUME NEW limit \in Limits, Restart(limit) PROVE Inv'
  BY <1>5, RestartNext
<1>6. CASE Tick \/ (\E t \in Time : SetBack(t)) \/ UNCHANGED vars
  BY <1>6, ClockNext
<1>7. QED
  BY <1>1, <1>2, <1>3, <1>4, <1>5, <1>6 DEF Next

LEMMA InvHolds == Spec => []Inv
  BY InvInit, InvNext, PTL DEF Spec

(* Every variable keeps its type; no bucket, in memory or in the file,     *)
(* ever holds more than Burst or less than nothing.                        *)
THEOREM TypeCorrect == Spec => []TypeOK
<1>1. Inv => TypeOK
  BY DEF Inv
<1>2. QED
  BY <1>1, InvHolds, PTL

(* The token-bucket bound itself.                                          *)
THEOREM AdmittedBoundHolds == Spec => []AdmittedBound
<1>1. Inv => AdmittedBound
  BY DEF Inv
<1>2. QED
  BY <1>1, InvHolds, PTL

(* Nothing that was admitted is forgotten, in memory or in the file.       *)
THEOREM RememberedHolds == Spec => []Remembered
<1>1. Inv => Remembered
  BY DEF Inv
<1>2. QED
  BY <1>1, InvHolds, PTL
-----------------------------------------------------------------------------
(* The size of the table.                                                  *)

(* However many keys there are, the tables are finite.                     *)
FiniteTables == IsFiniteSet(DOMAIN bucket) /\ IsFiniteSet(DOMAIN row)

Sized(f) == Cardinality(DOMAIN f) <= maxKeys \/ DOMAIN f \subseteq DOMAIN bucket

LEMMA AfterSize ==
  ASSUME TypeOK, IsFiniteSet(DOMAIN bucket), NEW k \in Keys, NEW S \in Evicted(k)
  PROVE  IsFiniteSet(DOMAIN AfterRefill(k, S)) /\ Sized(AfterRefill(k, S))
<1> DEFINE rest == Without(bucket, S)
<1>0. maxKeys \in Nat /\ TableOf(bucket, Bucket)
  BY RateLimiterAssumption DEF TypeOK
<1>1. DOMAIN rest = DOMAIN bucket \ S /\ IsFiniteSet(DOMAIN rest)
  <2>1. DOMAIN rest = DOMAIN bucket \ S
    BY <1>0, WithoutProps
  <2>2. IsFiniteSet(DOMAIN bucket \ S)
    BY FS_Subset
  <2>3. QED
    BY <2>1, <2>2
<1> HIDE DEF rest
<1>2. CASE k \in DOMAIN bucket
  <2>1. DOMAIN AfterRefill(k, S) = DOMAIN bucket
    BY <1>0, <1>2 DEF AfterRefill, TableOf
  <2>2. QED
    BY <2>1 DEF Sized
<1>3. CASE k \notin DOMAIN bucket /\ IsFull(rest)
  <2>1. AfterRefill(k, S) = rest
    BY <1>3 DEF AfterRefill, rest
  <2>2. QED
    BY <1>1, <2>1 DEF Sized
<1>4. CASE k \notin DOMAIN bucket /\ ~IsFull(rest)
  <2>1. DOMAIN AfterRefill(k, S) = DOMAIN rest \cup {k}
    BY <1>4 DEF AfterRefill, Put, rest
  <2>2. /\ IsFiniteSet(DOMAIN rest \cup {k}) /\ k \notin DOMAIN rest
        /\ Cardinality(DOMAIN rest) \in Nat
        /\ Cardinality(DOMAIN rest \cup {k}) = Cardinality(DOMAIN rest) + 1
    BY <1>1, <1>4, FS_AddElement, FS_CardinalityType
  <2>3. Cardinality(DOMAIN rest) + 1 <= maxKeys
    BY <1>0, <1>4, <2>2 DEF IsFull
  <2>4. QED
    BY <2>1, <2>2, <2>3 DEF Sized
<1>5. QED
  BY <1>2, <1>3, <1>4

LEMMA SizeNext ==
  ASSUME Inv, FiniteTables, [Next]_vars
  PROVE  FiniteTables' /\ (restarts' = restarts => Sized(bucket'))
<1>0. /\ TypeOK /\ TableOf(bucket, Bucket) /\ TableOf(row, Bucket) /\ restarts \in Nat
      /\ IsFiniteSet(DOMAIN bucket) /\ IsFiniteSet(DOMAIN row)
  BY RateLimiterAssumption DEF Inv, TypeOK, FiniteTables
<1>1. ASSUME NEW T, T \subseteq DOMAIN row
      PROVE  IsFiniteSet(T) /\ \A k \in Keys : IsFiniteSet(T \cup {k})
  <2>1. IsFiniteSet(T)
    BY <1>0, <1>1, FS_Subset
  <2>2. QED
    BY <2>1, FS_AddElement
<1>2. ASSUME NEW k \in Keys, Take(k)
      PROVE  FiniteTables' /\ Sized(bucket')
  <2>1. PICK S \in Evicted(k) :
          /\ DOMAIN bucket' = DOMAIN AfterRefill(k, S)
          /\ \E b, ok : row' = Saved(k, b, S, ok)
    BY <1>2 DEF Take
  <2>2. IsFiniteSet(DOMAIN row')
    <3>1. CASE Persistent
      <4>1. DOMAIN row' = DOMAIN Without(row, S) \cup {k}
        BY <2>1, <3>1 DEF Saved, Put
      <4>2. DOMAIN Without(row, S) = DOMAIN row \ S
        BY <1>0, WithoutProps
      <4>3. QED
        BY <1>1, <4>1, <4>2
    <3>2. CASE ~Persistent
      BY <1>0, <2>1, <3>2 DEF Saved
    <3>3. QED
      BY <3>1, <3>2
  <2>3. QED
    BY <1>0, <2>1, <2>2, AfterSize DEF FiniteTables, Sized
<1>3. ASSUME NEW k \in Keys, Ask(k)
      PROVE  FiniteTables' /\ Sized(bucket')
  <2>1. PICK S \in Evicted(k) : bucket' = AfterRefill(k, S) /\ row' = Without(row, S)
    BY <1>3 DEF Ask
  <2>2. DOMAIN row' = DOMAIN row \ S
    BY <1>0, <2>1, WithoutProps
  <2>3. QED
    BY <1>0, <1>1, <2>1, <2>2, AfterSize DEF FiniteTables
<1>4. ASSUME NEW S \in SUBSET Keys, Reset(S)
      PROVE  FiniteTables' /\ Sized(bucket')
  <2>1. DOMAIN row' = DOMAIN row \ S /\ DOMAIN bucket' = DOMAIN bucket \ S
    BY <1>0, <1>4, WithoutProps DEF Reset
  <2>2. QED
    BY <1>0, <2>1, FS_Subset DEF FiniteTables, Sized
<1>5. ASSUME NEW limit \in Limits, Restart(limit)
      PROVE  FiniteTables' /\ restarts' # restarts
  <2>1. restarts' # restarts /\ row' = row
    BY <1>0, <1>5 DEF Restart
  <2>2. bucket' = IF Persistent THEN row ELSE << >>
    BY <1>5 DEF Restart, Loaded
  <2>3. DOMAIN << >> = {} /\ IsFiniteSet({})
    BY EmptyTable, FS_EmptySet
  <2>4. QED
    BY <1>0, <2>1, <2>2, <2>3 DEF FiniteTables
<1>6. CASE Tick \/ (\E t \in Time : SetBack(t)) \/ UNCHANGED vars
  <2>1. bucket' = bucket /\ row' = row
    BY <1>6 DEF Tick, SetBack, vars
  <2>2. QED
    BY <1>0, <2>1 DEF FiniteTables, Sized
<1>7. QED
  BY <1>2, <1>3, <1>4, <1>5, <1>6 DEF Next

(* A table that a process has within max_keys stays within it, and one it  *)
(* loaded over the limit only shrinks until it is.                         *)
THEOREM RoomKeptHolds == Spec => RoomKept
<1>1. Init => FiniteTables
  <2>1. DOMAIN << >> = {} /\ IsFiniteSet({})
    BY EmptyTable, FS_EmptySet
  <2>2. QED
    BY <2>1 DEF Init, FiniteTables
<1>2. Inv /\ FiniteTables /\ [Next]_vars => FiniteTables'
  BY SizeNext
<1>3. Inv /\ FiniteTables /\ [Next]_vars =>
        [ restarts' = restarts =>
            \/ Cardinality(DOMAIN bucket') <= maxKeys
            \/ DOMAIN bucket' \subseteq DOMAIN bucket ]_vars
  BY SizeNext DEF Sized
<1>4. QED
  BY <1>1, <1>2, <1>3, InvHolds, PTL DEF Spec, RoomKept
-----------------------------------------------------------------------------
(* The promise to a refused caller.                                        *)

(* At time n bucket b is on its way to the cost of a request by time t.    *)
ReadyAt(b, t, n) ==
  b.last <= n /\ Cost <= b.tokens + Rate * (Greater(t, b.last) - b.last)

(* A promise that stands is one the bucket keeps, and the row that a       *)
(* restart would put in its place.                                         *)
KeptInv ==
  /\ kept = TRUE
  /\ told # Never =>
       /\ Watched \in DOMAIN bucket => ReadyAt(bucket[Watched], told, now)
       /\ Watched \in DOMAIN row => ReadyAt(row[Watched], told, now)

LEMMA Sums ==
  /\ \A a, b \in Nat : Rate * (a + b) = Rate * a + Rate * b
  /\ \A a \in Nat : Rate * a \in Nat
  /\ Rate * 0 = 0
  BY RateLimiterAssumption, Products

LEMMA TicksCover ==
  ASSUME NEW d \in Nat
  PROVE  d <= Rate * Ticks(d)
<1> DEFINE e == d + Rate - 1
<1>0. Rate \in Nat \ {0} /\ e \in Nat /\ e \div Rate \in Nat
  BY RateLimiterAssumption
<1>1. e = Rate * (e \div Rate) + (e % Rate) /\ (e % Rate) \in 0..Rate - 1
  BY <1>0
<1>2. Ticks(d) = e \div Rate
  BY DEF Ticks
<1>3. Rate * (e \div Rate) \in Nat
  BY <1>0, Sums
<1> DEFINE q == Rate * (e \div Rate)
           r == e % Rate
<1>4. q \in Nat /\ r \in 0..Rate - 1 /\ d + Rate - 1 = q + r
  BY <1>1, <1>3
<1> HIDE DEF q, r
<1>5. d <= q
  BY <1>0, <1>4
<1>6. QED
  BY <1>2, <1>5 DEF q

LEMMA ReadyRefilled ==
  ASSUME Cost <= Burst, NEW b \in Bucket, now \in Time, NEW t \in Nat, ReadyAt(b, t, now)
  PROVE  /\ ReadyAt(Refilled(b), t, now)
         /\ t <= now => Refilled(b).tokens >= Cost
<1>0. /\ b.tokens \in Nat /\ b.last \in Nat /\ now \in Nat /\ b.last <= now
      /\ Burst \in Nat /\ Cost \in Nat
  BY RateLimiterAssumption DEF Bucket, Time, ReadyAt
<1>1. /\ Refilled(b).tokens \in Nat /\ Refilled(b).last = now
      /\ ReadyAt(Refilled(b), t, now)
  <2>1. CASE b.last = now
    <3>1. Refilled(b) = b
      BY <1>0, <2>1 DEF Refilled
    <3>2. QED
      BY <1>0, <2>1, <3>1
  <2>2. CASE now > b.last
    <3> DEFINE g == Greater(t, now)
               h == Greater(t, b.last)
               gain == Rate * (now - b.last)
               more == Rate * (g - now)
    <3>1. /\ g - now \in Nat /\ now - b.last \in Nat /\ h - b.last \in Nat /\ g - h \in Nat
          /\ (now - b.last) + (g - now) = (h - b.last) + (g - h)
      BY <1>0, <2>2 DEF Greater
    <3>2. /\ gain \in Nat /\ more \in Nat /\ Rate * (h - b.last) \in Nat /\ Rate * (g - h) \in Nat
          /\ gain + more = Rate * (h - b.last) + Rate * (g - h)
      <4>1. gain + more = Rate * ((now - b.last) + (g - now))
        BY <3>1, Sums
      <4>2. Rate * ((h - b.last) + (g - h)) = Rate * (h - b.last) + Rate * (g - h)
        BY <3>1, Sums
      <4>3. QED
        BY <3>1, <4>1, <4>2, Sums
    <3>3. Cost <= b.tokens + Rate * (h - b.last)
      BY DEF ReadyAt
    <3>4. Refilled(b) = [tokens |-> Smaller(Burst, b.tokens + gain), last |-> now]
      <4>1. (now - b.last) * Rate = gain
        BY <1>0, RateLimiterAssumption
      <4>2. QED
        BY <2>2, <4>1 DEF Refilled
    <3> DEFINE T == Smaller(Burst, b.tokens + gain)
               x == Rate * (h - b.last)
               y == Rate * (g - h)
    <3>5. T \in Nat /\ Cost <= T + more
      <4>1. /\ gain \in Nat /\ more \in Nat /\ x \in Nat /\ y \in Nat
            /\ gain + more = x + y /\ Cost <= b.tokens + x
        BY <3>2, <3>3
      <4> HIDE DEF gain, more, x, y
      <4>2. QED
        BY <1>0, <4>1 DEF Smaller
    <3>6. Refilled(b).tokens = T /\ Refilled(b).last = now
      BY <3>4
    <3> HIDE DEF T
    <3>7. QED
      BY <1>0, <3>5, <3>6 DEF ReadyAt
  <2>3. QED
    BY <1>0, <2>1, <2>2
<1>2. ASSUME t <= now PROVE Refilled(b).tokens >= Cost
  <2>1. Greater(t, Refilled(b).last) - Refilled(b).last = 0
    BY <1>0, <1>1, <1>2 DEF Greater
  <2>2. Cost <= Refilled(b).tokens + Rate * 0
    BY <1>1, <2>1 DEF ReadyAt
  <2>3. Rate * 0 = 0
    BY Sums
  <2>4. QED
    BY <1>0, <1>1, <2>2, <2>3
<1>3. QED
  BY <1>1, <1>2

LEMMA ReadyNew ==
  ASSUME Cost <= Burst, now \in Time, NEW t \in Nat
  PROVE  ReadyAt([tokens |-> Burst, last |-> now], t, now)
<1>1. now \in Nat /\ Greater(t, now) - now \in Nat /\ Burst \in Nat /\ Cost \in Nat
  BY RateLimiterAssumption DEF Time, Greater
<1> DEFINE m == Rate * (Greater(t, now) - now)
<1>2. m \in Nat
  BY <1>1, Sums
<1> HIDE DEF m
<1>3. now <= now /\ Cost <= Burst + m
  BY <1>1, <1>2
<1>4. QED
  BY <1>3 DEF ReadyAt, m

LEMMA ReadyLater ==
  ASSUME NEW b \in Bucket, NEW t, NEW n \in Nat, NEW m \in Nat, n <= m, ReadyAt(b, t, n)
  PROVE  ReadyAt(b, t, m)
<1>1. b.last \in Nat
  BY RateLimiterAssumption DEF Bucket, Time
<1>2. b.last <= m
  BY <1>1 DEF ReadyAt
<1>3. QED
  BY <1>2 DEF ReadyAt

(* What a refused caller is handed is ready by the time it is told.        *)
LEMMA ReadyTold ==
  ASSUME NEW b \in Bucket, now \in Time, b.last <= now, b.tokens < Cost
  PROVE  ReadyAt(b, now + Ticks(Cost - b.tokens), now)
<1> DEFINE d == Cost - b.tokens
           t == now + Ticks(d)
<1>0. b.tokens \in Nat /\ b.last \in Nat /\ now \in Nat /\ Cost \in Nat /\ d \in Nat
  BY RateLimiterAssumption DEF Bucket, Time
<1>1. Ticks(d) \in Nat /\ d <= Rate * Ticks(d)
  BY <1>0, TicksType, TicksCover
<1> HIDE DEF d
<1>2. Greater(t, b.last) = t /\ now - b.last \in Nat /\ t - b.last = Ticks(d) + (now - b.last)
  BY <1>0, <1>1 DEF Greater
<1>3. Rate * (t - b.last) = Rate * Ticks(d) + Rate * (now - b.last)
  BY <1>1, <1>2, Sums
<1>4. Rate * Ticks(d) \in Nat /\ Rate * (now - b.last) \in Nat
  BY <1>1, <1>2, Sums
<1> DEFINE x == Rate * Ticks(d)
           y == Rate * (now - b.last)
<1>5. Cost <= b.tokens + (x + y)
  <2>1. x \in Nat /\ y \in Nat /\ d <= x /\ d = Cost - b.tokens
    BY <1>1, <1>4 DEF d
  <2> HIDE DEF x, y
  <2>2. QED
    BY <1>0, <2>1
<1>6. QED
  BY <1>2, <1>3, <1>5 DEF ReadyAt, d

LEMMA KeptNext ==
  ASSUME Cost <= Burst, Inv, KeptInv, [Next]_vars
  PROVE  KeptInv'
<1>0. /\ TypeOK /\ now \in Time /\ now \in Nat /\ TableOf(bucket, Bucket) /\ TableOf(row, Bucket)
      /\ told \in Nat \cup {Never} /\ Watched \in Keys /\ Cost \in Nat \ {0}
      /\ ~Persistent => DOMAIN row = {}
  BY RateLimiterAssumption DEF Inv, TypeOK, Time, RowBound
<1>1. ASSUME told' = told, kept' = kept, now' \in Nat, told # Never => now <= now',
             told # Never /\ Watched \in DOMAIN bucket' =>
               bucket'[Watched] \in Bucket /\ ReadyAt(bucket'[Watched], told, now),
             told # Never /\ Watched \in DOMAIN row' =>
               row'[Watched] \in Bucket /\ ReadyAt(row'[Watched], told, now)
      PROVE  KeptInv'
  <2>1. told # Never /\ Watched \in DOMAIN bucket' => ReadyAt(bucket'[Watched], told, now')
    BY <1>0, <1>1, ReadyLater
  <2>2. told # Never /\ Watched \in DOMAIN row' => ReadyAt(row'[Watched], told, now')
    BY <1>0, <1>1, ReadyLater
  <2>3. QED
    BY <1>1, <2>1, <2>2 DEF KeptInv, ReadyAt
<1>2. ASSUME told # Never
      PROVE  /\ told \in Nat
             /\ Watched \in DOMAIN bucket =>
                  bucket[Watched] \in Bucket /\ ReadyAt(bucket[Watched], told, now)
             /\ Watched \in DOMAIN row =>
                  row[Watched] \in Bucket /\ ReadyAt(row[Watched], told, now)
  BY <1>0, <1>2 DEF KeptInv, TableOf
(* What a request or a question of Watched, or of another, finds.          *)
<1>3. ASSUME NEW k \in Keys, NEW S \in Evicted(k), told # Never
      PROVE  /\ Watched \in DOMAIN AfterRefill(k, S) =>
                  /\ AfterRefill(k, S)[Watched] \in Bucket
                  /\ ReadyAt(AfterRefill(k, S)[Watched], told, now)
             /\ k = Watched /\ Watched \in DOMAIN AfterRefill(k, S) /\ told <= now =>
                  AfterRefill(k, S)[Watched].tokens >= Cost
  <2> DEFINE A == AfterRefill(k, S)
  <2>1. /\ TableOf(A, Bucket)
        /\ DOMAIN A \subseteq (DOMAIN bucket \ S) \cup {k}
        /\ \A x \in DOMAIN bucket \ S : x # k => A[x] = bucket[x]
        /\ k \in DOMAIN A => Handed(k, S) = A[k]
        /\ k \in DOMAIN bucket => Handed(k, S) = Refilled(bucket[k])
    BY <1>0, AfterProps
  <2>2. CASE k # Watched
    BY <1>2, <1>3, <2>1, <2>2 DEF TableOf
  <2>3. CASE k = Watched /\ k \in DOMAIN bucket
    <3>1. ReadyAt(Refilled(bucket[k]), told, now)
          /\ (told <= now => Refilled(bucket[k]).tokens >= Cost)
      BY <1>0, <1>2, <1>3, <2>3, ReadyRefilled
    <3>2. QED
      BY <2>1, <2>3, <3>1 DEF TableOf
  <2>4. CASE k = Watched /\ k \notin DOMAIN bucket
    <3>1. ASSUME k \in DOMAIN A PROVE A[k] = [tokens |-> Burst, last |-> now]
      <4>1. k \notin DOMAIN Without(bucket, S)
        BY <1>0, <2>4, WithoutProps
      <4>2. A = Put(Without(bucket, S), k, [tokens |-> Burst, last |-> now])
        BY <2>4, <3>1, <4>1 DEF AfterRefill
      <4>3. QED
        BY <4>2 DEF Put
    <3>2. ReadyAt([tokens |-> Burst, last |-> now], told, now) /\ Burst >= Cost
      BY <1>0, <1>2, <1>3, ReadyNew, RateLimiterAssumption
    <3>3. QED
      BY <2>1, <2>4, <3>1, <3>2 DEF TableOf
  <2>5. QED
    BY <2>2, <2>3, <2>4
<1>4. ASSUME NEW k \in Keys, Take(k)
      PROVE  KeptInv'
  <2>1. PICK S \in Evicted(k) :
          LET b    == Handed(k, S)
              ok   == b.tokens >= Cost
              left == IF ok THEN [b EXCEPT !.tokens = @ - Cost] ELSE b
          IN  /\ bucket' = IF k \in DOMAIN AfterRefill(k, S)
                           THEN [AfterRefill(k, S) EXCEPT ![k] = left]
                           ELSE AfterRefill(k, S)
              /\ row' = Saved(k, left, S, ok)
              /\ Promise(k, b, ok)
              /\ kept' = (kept /\ ~( /\ k = Watched /\ told # Never /\ told <= now
                                    /\ ~ok /\ k \in DOMAIN AfterRefill(k, S) ))
              /\ now' = now
    BY <1>4 DEF Take
  <2> DEFINE A    == AfterRefill(k, S)
             b    == Handed(k, S)
             ok   == b.tokens >= Cost
             left == IF ok THEN [b EXCEPT !.tokens = @ - Cost] ELSE b
  <2>2. /\ TableOf(A, Bucket) /\ b \in Bucket
        /\ k \in DOMAIN A => b = A[k]
    BY <1>0, AfterProps
  <2>3. /\ bucket' = IF k \in DOMAIN A THEN [A EXCEPT ![k] = left] ELSE A
        /\ row' = Saved(k, left, S, ok)
        /\ Promise(k, b, ok) /\ now' = now
        /\ kept' = (kept /\ ~( /\ k = Watched /\ told # Never /\ told <= now
                              /\ ~ok /\ k \in DOMAIN A ))
    BY <2>1
  <2>4. kept' = TRUE
    BY <1>3, <2>2, <2>3 DEF KeptInv
  <2>5. /\ Persistent => row' = Put(Without(row, S), k, left)
        /\ ~Persistent => row' = row
    BY <2>3 DEF Saved
  <2>6. CASE k # Watched
    <3>1. told' = told
      BY <2>3, <2>6 DEF Promise
    <3>2. Watched \in DOMAIN bucket' => Watched \in DOMAIN A /\ bucket'[Watched] = A[Watched]
      BY <2>2, <2>3, <2>6 DEF TableOf
    <3>3. Watched \in DOMAIN row' => Watched \in DOMAIN row /\ row'[Watched] = row[Watched]
      <4>1. /\ DOMAIN Without(row, S) = DOMAIN row \ S
            /\ \A x \in DOMAIN row \ S : Without(row, S)[x] = row[x]
        BY <1>0, WithoutProps
      <4>2. CASE Persistent
        BY <2>5, <2>6, <4>1, <4>2 DEF Put
      <4>3. CASE ~Persistent
        BY <2>5, <4>3
      <4>4. QED
        BY <4>2, <4>3
    <3>4. kept' = kept
      BY <2>4 DEF KeptInv
    <3> HIDE DEF A, b, ok, left
    <3>5. now' \in Nat /\ now <= now'
      BY <1>0, <2>3
    <3>6. told # Never => told \in Nat /\ (Watched \in DOMAIN A => A[Watched] \in Bucket /\ ReadyAt(A[Watched], told, now))
      BY <1>2, <1>3 DEF A
    <3>7. QED
      BY <1>1, <1>2, <3>1, <3>2, <3>3, <3>4, <3>5, <3>6
  <2>7. CASE k = Watched /\ (ok \/ b.last > now)
    <3>1. told' = Never
      BY <2>3, <2>7 DEF Promise
    <3>2. QED
      BY <2>4, <3>1 DEF KeptInv
  <2>8. CASE k = Watched /\ ~ok /\ ~(b.last > now)
    <3>1. told' = now + Ticks(Cost - b.tokens) /\ left = b
      BY <2>3, <2>8 DEF Promise
    <3>2. b.last <= now /\ b.tokens < Cost
      BY <1>0, <2>2, <2>8, RateLimiterAssumption DEF Bucket, Time
    <3>3. ReadyAt(b, told', now)
      BY <1>0, <2>2, <3>1, <3>2, ReadyTold
    <3>4. Watched \in DOMAIN bucket' => bucket'[Watched] = b
      BY <2>2, <2>3, <2>8, <3>1 DEF TableOf
    <3>5. Watched \in DOMAIN row' => row'[Watched] = b
      <4>1. CASE Persistent
        BY <2>5, <2>8, <3>1, <4>1 DEF Put
      <4>2. CASE ~Persistent
        BY <1>0, <2>5, <4>2
      <4>3. QED
        BY <4>1, <4>2
    <3>6. now' = now
      BY <2>3
    <3> HIDE DEF A, b, ok, left
    <3>7. QED
      BY <2>4, <3>3, <3>4, <3>5, <3>6 DEF KeptInv, ReadyAt
  <2>9. QED
    BY <2>6, <2>7, <2>8
<1>5. ASSUME NEW k \in Keys, Ask(k)
      PROVE  KeptInv'
  <2>1. PICK S \in Evicted(k) :
          /\ bucket' = AfterRefill(k, S) /\ row' = Without(row, S)
          /\ now' = now /\ told' = told /\ kept' = kept
    BY <1>5 DEF Ask
  <2>2. /\ DOMAIN Without(row, S) = DOMAIN row \ S
        /\ \A x \in DOMAIN row \ S : Without(row, S)[x] = row[x]
    BY <1>0, WithoutProps
  <2>3. QED
    BY <1>0, <1>1, <1>2, <1>3, <2>1, <2>2
<1>6. ASSUME NEW S \in SUBSET Keys, Reset(S)
      PROVE  KeptInv'
  <2>1. /\ bucket' = Without(bucket, S) /\ row' = Without(row, S)
        /\ now' = now /\ told' = told /\ kept' = kept
    BY <1>6 DEF Reset
  <2>2. /\ DOMAIN Without(row, S) = DOMAIN row \ S
        /\ \A x \in DOMAIN row \ S : Without(row, S)[x] = row[x]
        /\ DOMAIN Without(bucket, S) = DOMAIN bucket \ S
        /\ \A x \in DOMAIN bucket \ S : Without(bucket, S)[x] = bucket[x]
    BY <1>0, WithoutProps
  <2>3. QED
    BY <1>0, <1>1, <1>2, <2>1, <2>2
<1>7. ASSUME NEW limit \in Limits, Restart(limit)
      PROVE  KeptInv'
  <2>1. /\ bucket' = IF Persistent THEN row ELSE << >>
        /\ row' = row /\ now' = now /\ told' = told /\ kept' = kept
    BY <1>7 DEF Restart, Loaded
  <2>2. DOMAIN << >> = {}
    BY EmptyTable
  <2>3. QED
    BY <1>0, <1>1, <1>2, <2>1, <2>2
<1>8. CASE Tick \/ UNCHANGED vars
  <2>1. /\ bucket' = bucket /\ row' = row /\ now' \in Nat /\ now <= now'
        /\ told' = told /\ kept' = kept
    BY <1>0, <1>8 DEF Tick, vars
  <2>2. QED
    BY <1>1, <1>2, <2>1
<1>9. CASE \E t \in Time : SetBack(t)
  BY <1>9 DEF SetBack, KeptInv
<1>10. QED
  BY <1>4, <1>5, <1>6, <1>7, <1>8, <1>9 DEF Next

(* For every rate and every burst that a request fits into: a caller that  *)
(* comes back when try_consume said is not refused for want of tokens.     *)
THEOREM KeptPromiseHolds ==
  ASSUME Cost <= Burst
  PROVE  Spec => []KeptPromise
<1>1. Init => KeptInv
  BY DEF Init, KeptInv
<1>2. Inv /\ KeptInv /\ [Next]_vars => KeptInv'
  BY KeptNext
<1>3. KeptInv => KeptPromise
  BY DEF KeptInv, KeptPromise
<1>4. QED
  BY <1>1, <1>2, <1>3, InvHolds, PTL DEF Spec
=============================================================================
