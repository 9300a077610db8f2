------------------------ MODULE ProviderRouterProofs ------------------------
(***************************************************************************)
(* The router's circuit breakers and nested retries, for every list of     *)
(* providers, strategy, threshold, cooldown and number of attempts.        *)
(*                                                                         *)
(* Cooled follows from Guarded: while a key's last failure counts, its     *)
(* breaker is open until a cooldown after it, or half open with the        *)
(* cooldown behind it.  PostsBound follows from Bounded, which says where  *)
(* the counters of a request stand at each place of its task.              *)
(***************************************************************************)
EXTENDS ProviderRouter, FiniteSetTheorems, SequenceTheorems, TLAPS

(* A failure that counts is guarded by the breaker; an open or half open   *)
(* breaker has seen enough failures, so that the next one opens it again.  *)
GuardedBy(b, c) ==
  \A k \in Keys :
    /\ b[k].state # "closed" => b[k].fails >= FailThreshold
    /\ c[k] # Never =>
         /\ c[k] <= now
         /\ \/ b[k].state = "open" /\ b[k].until = c[k] + Cooldown
            \/ b[k].state = "half_open" /\ now - c[k] >= Cooldown
Guarded == GuardedBy(breaker, cool)

(* Where the counters of request r stand.                                  *)
BoundedOf(r) ==
  /\ Len(order[r]) <= Len(Listed)
  /\ pc[r] \in {"idle", "ended"} => pos[r] = 0 /\ tries[r] = 0 /\ posts[r] = 0
  /\ pc[r] \in Busy =>
       /\ pos[r] \in 1..Len(order[r])
       /\ tries[r] \in 1..AttemptsOf(r)
       /\ posts[r] \in 1..(Backoffs + 1)
  /\ pc[r] = "backoff" => posts[r] <= Backoffs
  /\ pc[r] = "retry" => tries[r] < AttemptsOf(r)
Bounded == \A r \in Requests : BoundedOf(r)

Inv == TypeOK /\ Guarded /\ Bounded
-----------------------------------------------------------------------------
(* The orders in which a request tries its providers.                      *)

LEMMA ListedProps ==
  /\ Listed \in Seq(Providers)
  /\ Len(Listed) \in Nat \ {0}
  /\ DOMAIN Listed = 1..Len(Listed)
  BY RouterAssumption

LEMMA RankedProps ==
  Ranked \in Seq(Providers) /\ Len(Ranked) = Len(Listed)
<1> DEFINE D == DOMAIN Listed
           Before(i, j) == \/ Rank[Listed[i]] < Rank[Listed[j]]
                           \/ Rank[Listed[i]] = Rank[Listed[j]] /\ i < j
           Ahead(i) == {j \in D : Before(j, i)}
           Place(i) == Cardinality(Ahead(i)) + 1
           f == [i \in D |-> Place(i)]
<1>1. /\ D = 1..Len(Listed) /\ Len(Listed) \in Nat
      /\ \A i \in D : i \in Nat /\ Listed[i] \in Providers /\ Rank[Listed[i]] \in Nat
  BY ListedProps, RouterAssumption
<1>2. IsFiniteSet(D) /\ Cardinality(D) = Len(Listed)
  <2> DEFINE n == Len(Listed)
  <2>0. n \in Int /\ 1 \in Int /\ ~(1 > n) /\ n - 1 + 1 = n
    BY ListedProps
  <2> HIDE DEF n
  <2>1. IsFiniteSet(1..n) /\ Cardinality(1..n) = n
    BY <2>0, FS_Interval
  <2>2. QED
    BY <1>1, <2>1 DEF n
<1>3. \A i \in D : IsFiniteSet(Ahead(i)) /\ Cardinality(Ahead(i)) \in Nat
  BY <1>2, FS_Subset, FS_CardinalityType
<1>4. \A i \in D : Place(i) \in D
  <2> SUFFICES ASSUME NEW i \in D PROVE Place(i) \in D
    OBVIOUS
  <2>1. Ahead(i) \subseteq D /\ i \notin Ahead(i)
    BY <1>1
  <2>2. Cardinality(Ahead(i)) <= Cardinality(D) /\ Cardinality(Ahead(i)) # Cardinality(D)
    BY <1>2, <2>1, FS_Subset
  <2>3. Cardinality(Ahead(i)) \in Nat
    BY <1>3
  <2> HIDE DEF Ahead
  <2>4. QED
    BY <1>1, <1>2, <2>2, <2>3
<1>5. \A i, j \in D : Before(i, j) => Place(i) # Place(j)
  <2> SUFFICES ASSUME NEW i \in D, NEW j \in D, Before(i, j)
               PROVE  Place(i) # Place(j)
    OBVIOUS
  <2>1. Ahead(i) \subseteq Ahead(j) /\ i \in Ahead(j) /\ i \notin Ahead(i)
    BY <1>1
  <2>2. Cardinality(Ahead(i)) # Cardinality(Ahead(j))
    BY <1>3, <2>1, FS_Subset
  <2>3. Cardinality(Ahead(i)) \in Nat /\ Cardinality(Ahead(j)) \in Nat
    BY <1>3
  <2> HIDE DEF Ahead
  <2>4. QED
    BY <2>2, <2>3
<1>6. \A i, j \in D : i # j => Before(i, j) \/ Before(j, i)
  BY <1>1
<1>7. f \in Injection(D, D)
  <2> HIDE DEF Place, Before, D
  <2>1. f \in [D -> D]
    BY <1>4
  <2>2. \A i, j \in D : f[i] = f[j] => i = j
    BY <1>5, <1>6
  <2>3. QED
    BY <2>1, <2>2 DEF Injection, IsInjective
<1>8. \A n \in D : \E i \in D : Place(i) = n
  <2>1. f \in Surjection(D, D)
    BY <1>2, <1>7, FS_Injection
  <2> HIDE DEF Place, D
  <2>2. QED
    BY <2>1 DEF Surjection
<1>9. \A n \in D : Listed[CHOOSE i \in D : Place(i) = n] \in Providers
  <2> HIDE DEF Place
  <2>1. QED
    BY <1>1, <1>8
<1>10. Ranked = [n \in D |-> Listed[CHOOSE i \in D : Place(i) = n]]
  BY DEF Ranked
<1> HIDE DEF Place
<1>11. Ranked \in [1..Len(Listed) -> Providers]
  BY <1>1, <1>9, <1>10
<1>12. QED
  BY <1>1, <1>11

LEMMA RotatedProps ==
  ASSUME rr \in 0..(Len(Listed) - 1)
  PROVE  Rotated \in Seq(Providers) /\ Len(Rotated) = Len(Listed)
<1> DEFINE n == Len(Listed)
<1>1. n \in Nat \ {0} /\ DOMAIN Listed = 1..n /\ \A i \in 1..n : Listed[i] \in Providers
  BY ListedProps
<1>2. \A i \in 1..n : ((i - 1 + rr) % n) + 1 \in 1..n
  <2> HIDE DEF n
  <2>1. \A i \in 1..n : i - 1 + rr \in Nat
    BY <1>1 DEF n
  <2>2. QED
    BY <1>1, <2>1
<1>3. Rotated \in [1..n -> Providers]
  BY <1>1, <1>2 DEF Rotated
<1>4. QED
  BY <1>1, <1>3

LEMMA OrderProps ==
  ASSUME rr \in 0..(Len(Listed) - 1)
  PROVE  Order \in Seq(Providers) /\ Len(Order) = Len(Listed)
  BY RankedProps, RotatedProps, ListedProps DEF Order

LEMMA NextIndexProps ==
  ASSUME rr \in 0..(Len(Listed) - 1)
  PROVE  NextIndex \in 0..(Len(Listed) - 1)
<1> DEFINE n == Len(Listed)
<1>1. n \in Nat \ {0} /\ rr + 1 \in Nat
  BY ListedProps
<1> HIDE DEF n
<1>2. (rr + 1) % n \in 0..(n - 1)
  BY <1>1
<1>3. QED
  BY <1>2 DEF NextIndex, n
-----------------------------------------------------------------------------
(* A request goes on: it leaves, or turns to the next provider whose       *)
(* breaker lets it by.                                                     *)

(* A finite set of naturals has a smallest element: the one below which    *)
(* its elements form a minimal set.                                        *)
LEMMA SmallestIn ==
  ASSUME NEW S \in SUBSET Nat, IsFiniteSet(S), S # {}
  PROVE  \E i \in S : \A j \in S : i <= j
<1> DEFINE below(i) == {j \in S : j < i}
           T == {below(i) : i \in S}
<1>1. T \subseteq FiniteSubsetsOf(S) /\ T # {}
  <2>1. FiniteSubsetsOf(S) = SUBSET S
    BY FS_FiniteSubsetsOfFinite
  <2>2. T \subseteq SUBSET S /\ T # {}
    OBVIOUS
  <2>3. QED
    BY <2>1, <2>2
<1> HIDE DEF T
<1>2. PICK x \in T : \A y \in T : ~ (<<y, x>> \in StrictSubsetOrdering(S))
  BY <1>1, WFMin, FS_StrictSubsetOrderingWellFounded
<1>3. PICK i \in S : x = below(i)
  BY DEF T
<1>4. ASSUME NEW j \in S, ~(i <= j)
      PROVE  FALSE
  <2>0. i \in Nat /\ j \in Nat /\ S \subseteq Nat
    OBVIOUS
  <2>1. below(j) \subseteq below(i) /\ j \in below(i) /\ j \notin below(j)
    <3>1. j < i /\ ~(j < j)
      BY <1>4, <2>0
    <3>2. \A k \in S : k < j => k < i
      BY <2>0, <3>1
    <3>3. QED
      BY <3>1, <3>2
  <2>2. <<below(j), below(i)>> \in StrictSubsetOrdering(S)
    BY <2>1 DEF StrictSubsetOrdering
  <2>3. QED
    BY <1>2, <1>3, <2>2 DEF T
<1>5. QED
  BY <1>4
-----------------------------------------------------------------------------
(* Type correctness *)

(* Request r turns to place n of the order ord, with the breakers b.       *)
Turned(r, ord, n, b) ==
  LET k == KeyOf[ord[n]]
  IN  /\ pc' = [pc EXCEPT ![r] = "posting"]
      /\ order' = [order EXCEPT ![r] = ord]
      /\ pos' = [pos EXCEPT ![r] = n]
      /\ tries' = [tries EXCEPT ![r] = 1]
      /\ posts' = [posts EXCEPT ![r] = 1]
      /\ k \in Keys
      /\ ~IsOpen(b[k])
      /\ breaker' = [b EXCEPT ![k] = Passed(b[k])]

LEMMA GoOnProps ==
  ASSUME NEW r \in Requests, NEW ord \in Seq(Providers), NEW i \in Nat \ {0},
         NEW b, GoOn(r, ord, i, b)
  PROVE  \/ Leave(r) /\ breaker' = b
         \/ \E n \in i..Len(ord) : Turned(r, ord, n, b)
<1> DEFINE able == {j \in i..Len(ord) : ~IsOpen(b[KeyOf[ord[j]]])}
           next == CHOOSE j \in able : \A k \in able : j <= k
           key  == KeyOf[ord[next]]
<1>1. CASE able = {}
  BY <1>1 DEF GoOn
<1>2. CASE able # {}
  <2>1. able \in SUBSET Nat /\ IsFiniteSet(able)
    <3>1. IsFiniteSet(i..Len(ord)) /\ i..Len(ord) \subseteq Nat
      BY FS_Interval
    <3>2. able \subseteq i..Len(ord)
      OBVIOUS
    <3> HIDE DEF able
    <3>3. QED
      BY <3>1, <3>2, FS_Subset
  <2>2. next \in able
    <3> HIDE DEF able
    <3>1. \E j \in able : \A k \in able : j <= k
      BY <1>2, <2>1, SmallestIn
    <3>2. QED
      BY <3>1
  <2>3. /\ order' = [order EXCEPT ![r] = ord]
        /\ pos' = [pos EXCEPT ![r] = next]
        /\ tries' = [tries EXCEPT ![r] = 1]
        /\ Post(r, "first")
        /\ breaker' = [b EXCEPT ![key] = Passed(@)]
    <3> HIDE DEF next
    <3>1. QED
      BY <1>2 DEF GoOn, next
  <2> HIDE DEF next
  <2>4. next \in i..Len(ord) /\ ~IsOpen(b[key]) /\ key \in Keys
    BY <2>2 DEF Keys
  <2>5. Turned(r, ord, next, b)
    BY <2>3, <2>4 DEF Turned, Post, Goto
  <2>6. QED
    BY <2>4, <2>5
<1>3. QED
  BY <1>1, <1>2

LEMMA BreakerOps ==
  ASSUME now \in Nat, NEW b \in Breaker
  PROVE  Passed(b) \in Breaker /\ Closed(b) \in Breaker /\ Failed(b) \in Breaker
<1>1. Cooldown \in Nat /\ FailThreshold \in Nat \ {0}
  BY RouterAssumption
<1>2. b.fails \in Nat /\ b.fails + 1 \in Nat /\ now + Cooldown \in Nat
  BY <1>1 DEF Breaker
<1>3. QED
  BY <1>1, <1>2 DEF Breaker, Passed, Closed, Failed
-----------------------------------------------------------------------------
(* The counters of the requests.                                           *)

CallsOK ==
  /\ pc \in [Requests -> PC]
  /\ order \in [Requests -> Seq(Providers)]
  /\ pos \in [Requests -> Nat] /\ tries \in [Requests -> Nat]
  /\ posts \in [Requests -> Nat]

LEMMA AttemptsOfType ==
  ASSUME NEW r \in Requests
  PROVE  AttemptsOf(r) \in Nat \ {0}
  BY RouterAssumption DEF AttemptsOf

(* A step that changes one request alone need only keep its bounds.        *)
LEMMA OthersBounded ==
  ASSUME CallsOK, Bounded, NEW r \in Requests, CallsOK', BoundedOf(r)',
         \A x \in Requests \ {r} :
           /\ pc'[x] = pc[x] /\ order'[x] = order[x] /\ pos'[x] = pos[x]
           /\ tries'[x] = tries[x] /\ posts'[x] = posts[x]
  PROVE  Bounded'
<1>1. \A x \in Requests \ {r} : BoundedOf(x)'
  BY DEF Bounded, BoundedOf, AttemptsOf
<1>2. QED
  BY <1>1 DEF Bounded

LEMMA LeaveCalls ==
  ASSUME CallsOK, Bounded, NEW r \in Requests, Leave(r)
  PROVE  CallsOK' /\ Bounded'
<1>1. /\ pc' = [pc EXCEPT ![r] = "ended"] /\ order' = [order EXCEPT ![r] = <<>>]
      /\ pos' = [pos EXCEPT ![r] = 0] /\ tries' = [tries EXCEPT ![r] = 0]
      /\ posts' = [posts EXCEPT ![r] = 0]
  BY DEF Leave, Goto
<1>2. <<>> \in Seq(Providers) /\ Len(<<>>) = 0 /\ "ended" \in PC
  BY DEF PC
<1>3. CallsOK'
  BY <1>1, <1>2 DEF CallsOK
<1>4. BoundedOf(r)'
  <2>1. /\ pc'[r] = "ended" /\ order'[r] = <<>> /\ pos'[r] = 0
        /\ tries'[r] = 0 /\ posts'[r] = 0
    BY <1>1 DEF CallsOK
  <2>2. QED
    BY <1>2, <2>1, ListedProps DEF BoundedOf, Busy
<1>5. QED
  BY <1>1, <1>3, <1>4, OthersBounded DEF CallsOK

LEMMA TurnedCalls ==
  ASSUME CallsOK, Bounded, NEW r \in Requests, NEW ord \in Seq(Providers),
         Len(ord) <= Len(Listed), NEW n \in 1..Len(ord), NEW b, Turned(r, ord, n, b)
  PROVE  CallsOK' /\ Bounded'
<1>1. /\ pc' = [pc EXCEPT ![r] = "posting"] /\ order' = [order EXCEPT ![r] = ord]
      /\ pos' = [pos EXCEPT ![r] = n] /\ tries' = [tries EXCEPT ![r] = 1]
      /\ posts' = [posts EXCEPT ![r] = 1]
  BY DEF Turned
<1>2. CallsOK'
  BY <1>1 DEF CallsOK, PC, Busy
<1>3. BoundedOf(r)'
  <2>1. /\ pc'[r] = "posting" /\ order'[r] = ord /\ pos'[r] = n
        /\ tries'[r] = 1 /\ posts'[r] = 1
    BY <1>1 DEF CallsOK
  <2>2. 1 \in 1..AttemptsOf(r)' /\ 1 \in 1..(Backoffs + 1)
    BY AttemptsOfType, RouterAssumption DEF AttemptsOf
  <2>3. QED
    BY <2>1, <2>2 DEF BoundedOf, Busy
<1>4. QED
  BY <1>1, <1>2, <1>3, OthersBounded DEF CallsOK

LEMMA GoOnCalls ==
  ASSUME CallsOK, Bounded, NEW r \in Requests, NEW ord \in Seq(Providers),
         Len(ord) <= Len(Listed), NEW i \in Nat \ {0}, NEW b, GoOn(r, ord, i, b)
  PROVE  CallsOK' /\ Bounded'
<1>1. CASE Leave(r)
  BY <1>1, LeaveCalls
<1>2. CASE \E n \in i..Len(ord) : Turned(r, ord, n, b)
  <2>1. PICK n \in i..Len(ord) : Turned(r, ord, n, b)
    BY <1>2
  <2>2. n \in 1..Len(ord)
    BY <2>1
  <2>3. QED
    BY <2>1, <2>2, TurnedCalls
<1>3. QED
  BY <1>1, <1>2, GoOnProps

(* A busy request moves on at its provider.                                *)
LEMMA MoveCalls ==
  ASSUME CallsOK, Bounded, NEW r \in Requests, pc[r] \in Busy,
         NEW where \in Busy, NEW t \in 1..AttemptsOf(r), NEW n \in 1..(Backoffs + 1),
         where = "backoff" => n <= Backoffs, where = "retry" => t < AttemptsOf(r),
         pc' = [pc EXCEPT ![r] = where], order' = order, pos' = pos,
         tries' = [tries EXCEPT ![r] = t], posts' = [posts EXCEPT ![r] = n]
  PROVE  CallsOK' /\ Bounded'
<1>1. t \in Nat /\ n \in Nat
  BY AttemptsOfType, RouterAssumption
<1>2. CallsOK'
  BY <1>1 DEF CallsOK, PC
<1>3. BoundedOf(r)'
  <2>1. pc'[r] = where /\ tries'[r] = t /\ posts'[r] = n
    BY DEF CallsOK
  <2>2. Len(order[r]) <= Len(Listed) /\ pos[r] \in 1..Len(order[r])
    BY DEF Bounded, BoundedOf
  <2>3. where # "idle" /\ where # "ended"
    BY DEF Busy
  <2>4. QED
    BY <2>1, <2>2, <2>3 DEF BoundedOf, AttemptsOf
<1>4. QED
  BY <1>2, <1>3, OthersBounded DEF CallsOK

LEMMA CallsStep ==
  ASSUME TypeOK, Bounded, [Next]_vars
  PROVE  CallsOK' /\ Bounded'
<1>1. CallsOK
  BY DEF TypeOK, CallsOK
<1>2. Backoffs \in Nat /\ \A r \in Requests : AttemptsOf(r) \in Nat \ {0}
  BY AttemptsOfType, RouterAssumption
<1>3. \A r \in Requests : pc[r] \in Busy =>
        /\ pos[r] \in 1..Len(order[r])
        /\ tries[r] \in 1..AttemptsOf(r) /\ posts[r] \in 1..(Backoffs + 1)
        /\ Len(order[r]) <= Len(Listed) /\ order[r] \in Seq(Providers)
        /\ [tries EXCEPT ![r] = tries[r]] = tries
        /\ [posts EXCEPT ![r] = posts[r]] = posts
  BY <1>1 DEF Bounded, BoundedOf, CallsOK
<1>4. {"posting", "backoff", "retry", "pause"} = Busy
  BY DEF Busy
<1>5. CASE UNCHANGED <<pc, calls>>
  BY <1>1, <1>5 DEF CallsOK, calls, Bounded, BoundedOf, AttemptsOf
<1>6. ASSUME NEW r \in Requests, Call(r)
      PROVE  CallsOK' /\ Bounded'
  <2>1. Order \in Seq(Providers) /\ Len(Order) <= Len(Listed)
    BY OrderProps, ListedProps DEF TypeOK
  <2>2. GoOn(r, Order, 1, breaker) /\ 1 \in Nat \ {0}
    BY <1>6 DEF Call
  <2>3. QED
    BY <1>1, <2>1, <2>2, GoOnCalls
<1>7. ASSUME NEW r \in Requests, Answer(r) \/ Cancel(r)
      PROVE  CallsOK' /\ Bounded'
  BY <1>1, <1>7, LeaveCalls DEF Answer, Cancel
<1>8. ASSUME NEW r \in Requests, Transient(r)
      PROVE  CallsOK' /\ Bounded'
  <2>1. /\ pc[r] = "posting" /\ posts[r] <= Backoffs
        /\ pc' = [pc EXCEPT ![r] = "backoff"] /\ UNCHANGED calls
    <3>1. posts[r] \in Nat
      BY <1>1 DEF CallsOK
    <3>2. QED
      BY <1>2, <1>8, <3>1 DEF Transient, LastPost, Goto
  <2>2. QED
    BY <1>1, <1>3, <1>4, <2>1, MoveCalls DEF calls
<1>9. ASSUME NEW r \in Requests, Repost(r)
      PROVE  CallsOK' /\ Bounded'
  <2>1. /\ pc[r] = "backoff" /\ pc' = [pc EXCEPT ![r] = "posting"]
        /\ posts' = [posts EXCEPT ![r] = posts[r] + 1]
        /\ UNCHANGED <<order, pos, tries>>
    BY <1>9 DEF Repost, Post, Goto
  <2>2. posts[r] + 1 \in 1..(Backoffs + 1)
    BY <1>2, <1>3, <1>4, <2>1 DEF Bounded, BoundedOf
  <2>3. QED
    BY <1>1, <1>3, <1>4, <2>1, <2>2, MoveCalls
<1>10. ASSUME NEW r \in Requests, Retry(r)
       PROVE  CallsOK' /\ Bounded'
  <2>1. /\ pc[r] = "posting" /\ tries[r] < AttemptsOf(r)
        /\ pc' = [pc EXCEPT ![r] = "retry"] /\ UNCHANGED calls
    <3>1. tries[r] \in Nat /\ Attempts \in Nat
      BY <1>1, RouterAssumption DEF CallsOK
    <3>2. QED
      BY <1>10, <3>1 DEF Retry, LastTry, AttemptsOf, Goto
  <2>2. QED
    BY <1>1, <1>3, <1>4, <2>1, MoveCalls DEF calls
<1>11. ASSUME NEW r \in Requests, Again(r)
       PROVE  CallsOK' /\ Bounded'
  <2>1. /\ pc[r] = "retry" /\ pc' = [pc EXCEPT ![r] = "posting"]
        /\ posts' = [posts EXCEPT ![r] = 1]
        /\ tries' = [tries EXCEPT ![r] = tries[r] + 1]
        /\ UNCHANGED <<order, pos>>
    BY <1>11 DEF Again, Post, Goto
  <2>2. tries[r] + 1 \in 1..AttemptsOf(r) /\ 1 \in 1..(Backoffs + 1)
    BY <1>2, <1>3, <1>4, <2>1 DEF Bounded, BoundedOf
  <2>3. QED
    BY <1>1, <1>3, <1>4, <2>1, <2>2, MoveCalls
<1>12. ASSUME NEW r \in Requests, GiveUp(r)
       PROVE  CallsOK' /\ Bounded'
  <2>1. pc[r] = "posting" /\ pos[r] + 1 \in Nat \ {0}
    BY <1>1, <1>12 DEF GiveUp, CallsOK
  <2>2. CASE r \in Retries
    <3>1. PICK b : GoOn(r, order[r], pos[r] + 1, b)
      BY <1>12, <2>2 DEF GiveUp
    <3>2. QED
      BY <1>1, <1>3, <1>4, <2>1, <3>1, GoOnCalls
  <2>3. CASE r \notin Retries
    <3>1. pc' = [pc EXCEPT ![r] = "pause"] /\ UNCHANGED calls
      BY <1>12, <2>3 DEF GiveUp, Goto
    <3>2. QED
      BY <1>1, <1>3, <1>4, <2>1, <3>1, MoveCalls DEF calls
  <2>4. QED
    BY <2>2, <2>3
<1>13. ASSUME NEW r \in Requests, Resume(r)
       PROVE  CallsOK' /\ Bounded'
  <2>1. /\ pc[r] = "pause" /\ pos[r] + 1 \in Nat \ {0}
        /\ GoOn(r, order[r], pos[r] + 1, breaker)
    BY <1>1, <1>13 DEF Resume, CallsOK
  <2>2. QED
    BY <1>1, <1>3, <1>4, <2>1, GoOnCalls
<1>14. ASSUME Tick \/ Quiet \/ UNCHANGED vars
       PROVE  UNCHANGED <<pc, calls>>
  BY <1>14 DEF Tick, Quiet, vars, calls
<1>15. QED
  BY <1>5, <1>6, <1>7, <1>8, <1>9, <1>10, <1>11, <1>12, <1>13, <1>14
     DEF Next, Progress
-----------------------------------------------------------------------------
(* The breakers and the failures they guard.                               *)

BreakersOK(b, c) ==
  b \in [Keys -> Breaker] /\ c \in [Keys -> Nat \cup {Never}] /\ GuardedBy(b, c)

CooledBy(k, c) == c[k] = Never \/ now - c[k] >= Cooldown

(* A breaker that lets a call by has cooled.                               *)
LEMMA PassedCooled ==
  ASSUME now \in Nat, NEW b, NEW c, BreakersOK(b, c), NEW k \in Keys, ~IsOpen(b[k])
  PROVE  CooledBy(k, c) /\ BreakersOK([b EXCEPT ![k] = Passed(b[k])], c)
<1> DEFINE d == [b EXCEPT ![k] = Passed(b[k])]
<1>1. Cooldown \in Nat /\ FailThreshold \in Nat \ {0}
  BY RouterAssumption
<1>2. /\ b[k] \in Breaker /\ b[k].until \in Nat /\ b[k].fails \in Nat
      /\ c[k] \in Nat \cup {Never}
  BY DEF BreakersOK, Breaker
<1>3. CooledBy(k, c)
  <2> SUFFICES ASSUME c[k] # Never PROVE now - c[k] >= Cooldown
    BY DEF CooledBy
  <2>1. c[k] \in Nat
    BY <1>2
  <2>2. \/ b[k].state = "open" /\ b[k].until = c[k] + Cooldown
        \/ now - c[k] >= Cooldown
    BY DEF BreakersOK, GuardedBy
  <2>3. b[k].state = "open" => ~(now < b[k].until)
    BY DEF IsOpen
  <2>4. QED
    BY <1>1, <1>2, <2>1, <2>2, <2>3
<1>4. d \in [Keys -> Breaker]
  BY <1>2, BreakerOps DEF BreakersOK
<1>5. GuardedBy(d, c)
  <2>1. ASSUME NEW x \in Keys, x # k
        PROVE  d[x] = b[x]
    BY <2>1 DEF BreakersOK
  <2>2. /\ d[k].fails = b[k].fails
        /\ b[k].state = "open" => d[k].state = "half_open"
        /\ b[k].state # "open" => d[k] = b[k]
    <3>1. d[k] = Passed(b[k])
      BY DEF BreakersOK
    <3>2. QED
      BY <1>2, <3>1 DEF Passed, Breaker
  <2>3. ASSUME NEW x \in Keys
        PROVE  /\ d[x].state # "closed" => d[x].fails >= FailThreshold
               /\ c[x] # Never =>
                    /\ c[x] <= now
                    /\ \/ d[x].state = "open" /\ d[x].until = c[x] + Cooldown
                       \/ d[x].state = "half_open" /\ now - c[x] >= Cooldown
    <3>1. /\ b[x].state # "closed" => b[x].fails >= FailThreshold
          /\ c[x] # Never =>
                /\ c[x] <= now
                /\ \/ b[x].state = "open" /\ b[x].until = c[x] + Cooldown
                   \/ b[x].state = "half_open" /\ now - c[x] >= Cooldown
      BY DEF BreakersOK, GuardedBy
    <3>2. CASE x # k
      BY <2>1, <3>1, <3>2
    <3>3. CASE x = k /\ b[k].state # "open"
      BY <2>2, <3>1, <3>3
    <3>4. CASE x = k /\ b[k].state = "open"
      BY <1>3, <2>2, <3>1, <3>4 DEF CooledBy
    <3>5. QED
      BY <3>2, <3>3, <3>4
  <2> HIDE DEF d
  <2>4. QED
    BY <2>3 DEF GuardedBy
<1>6. QED
  BY <1>3, <1>4, <1>5 DEF BreakersOK

(* Where request r turns to, the breaker has cooled.                       *)
ToCooled(r, c) == pc'[r] = "posting" => CooledBy(KeyOf[order'[r][pos'[r]]], c)

LEMMA GoOnBreakers ==
  ASSUME now \in Nat, CallsOK, NEW b, NEW c, BreakersOK(b, c),
         NEW r \in Requests, NEW ord \in Seq(Providers), NEW i \in Nat \ {0},
         GoOn(r, ord, i, b)
  PROVE  BreakersOK(breaker', c) /\ ToCooled(r, c)
<1>1. CASE Leave(r) /\ breaker' = b
  <2>1. pc'[r] = "ended"
    BY <1>1 DEF Leave, Goto, CallsOK
  <2>2. QED
    BY <1>1, <2>1 DEF ToCooled
<1>2. ASSUME NEW n \in i..Len(ord), Turned(r, ord, n, b)
      PROVE  BreakersOK(breaker', c) /\ ToCooled(r, c)
  <2> DEFINE k == KeyOf[ord[n]]
  <2>1. /\ order'[r] = ord /\ pos'[r] = n /\ k \in Keys /\ ~IsOpen(b[k])
        /\ breaker' = [b EXCEPT ![k] = Passed(b[k])]
    BY <1>2 DEF Turned, CallsOK
  <2> HIDE DEF k
  <2>2. CooledBy(k, c) /\ BreakersOK(breaker', c)
    BY <2>1, PassedCooled
  <2>3. QED
    BY <2>1, <2>2 DEF ToCooled, k
<1>3. QED
  BY <1>1, <1>2, GoOnProps

LEMMA ClosedBreakers ==
  ASSUME NEW k \in Keys, TypeOK, Guarded
  PROVE  BreakersOK([breaker EXCEPT ![k] = Closed(breaker[k])],
                    [cool EXCEPT ![k] = Never])
<1> DEFINE d == [breaker EXCEPT ![k] = Closed(breaker[k])]
           e == [cool EXCEPT ![k] = Never]
<1>0. now \in Nat /\ breaker[k] \in Breaker
  BY RouterAssumption DEF TypeOK
<1>1. d \in [Keys -> Breaker] /\ e \in [Keys -> Nat \cup {Never}]
  <2>1. Closed(breaker[k]) \in Breaker
    BY <1>0, BreakerOps
  <2>2. QED
    BY <2>1 DEF TypeOK
<1>2. d[k].state = "closed" /\ e[k] = Never
  BY <1>0 DEF Closed, TypeOK, Breaker
<1>3. \A x \in Keys : x # k => d[x] = breaker[x] /\ e[x] = cool[x]
  BY DEF TypeOK
<1> HIDE DEF d, e
<1>4. GuardedBy(d, e)
  BY <1>2, <1>3 DEF Guarded, GuardedBy
<1>5. QED
  BY <1>1, <1>4 DEF BreakersOK, d, e

LEMMA FailedBreakers ==
  ASSUME NEW k \in Keys, TypeOK, Guarded
  PROVE  LET d == [breaker EXCEPT ![k] = Failed(breaker[k])]
         IN  BreakersOK(d, [cool EXCEPT ![k] =
                              IF d[k].state = "open" THEN now ELSE cool[k]])
<1> DEFINE f == Failed(breaker[k])
           d == [breaker EXCEPT ![k] = f]
           e == [cool EXCEPT ![k] = IF d[k].state = "open" THEN now ELSE cool[k]]
<1>0. /\ now \in Nat /\ breaker[k] \in Breaker /\ cool[k] \in Nat \cup {Never}
      /\ breaker[k].fails \in Nat /\ breaker[k].state \in {"closed", "open", "half_open"}
      /\ FailThreshold \in Nat \ {0} /\ Cooldown \in Nat
  BY RouterAssumption DEF TypeOK, Breaker
<1>1. f \in Breaker
  BY <1>0, BreakerOps
<1> HIDE DEF f
<1>2. d[k] = f /\ e[k] = (IF f.state = "open" THEN now ELSE cool[k])
  BY DEF TypeOK
<1>3. d \in [Keys -> Breaker] /\ e \in [Keys -> Nat \cup {Never}]
  BY <1>0, <1>1 DEF TypeOK
<1>4. \A x \in Keys : x # k => d[x] = breaker[x] /\ e[x] = cool[x]
  BY DEF TypeOK
<1>5. /\ f.state # "closed" => f.fails >= FailThreshold
      /\ f.state = "open" => f.until = now + Cooldown
      /\ f.state # "open" => f.state = breaker[k].state /\ f.state # "half_open"
  <2>1. /\ breaker[k].state # "closed" => breaker[k].fails >= FailThreshold
    BY DEF Guarded, GuardedBy
  <2>2. CASE Tripped(breaker[k])
    <3>1. f = [state |-> "open", fails |-> breaker[k].fails + 1, until |-> now + Cooldown]
      BY <2>2 DEF f, Failed
    <3>2. breaker[k].fails + 1 >= FailThreshold
      BY <1>0, <2>1, <2>2 DEF Tripped
    <3>3. QED
      BY <3>1, <3>2
  <2>3. CASE ~Tripped(breaker[k])
    <3>1. f = [breaker[k] EXCEPT !.fails = breaker[k].fails + 1]
      BY <2>3 DEF f, Failed
    <3>2. breaker[k].state = "closed"
      BY <1>0, <2>1, <2>3 DEF Tripped
    <3>3. f.state = "closed"
      BY <1>0, <3>1, <3>2 DEF Breaker
    <3>4. QED
      BY <3>2, <3>3
  <2>4. QED
    BY <2>2, <2>3
<1> HIDE DEF d, e
<1>6. GuardedBy(d, e)
  <2> SUFFICES ASSUME NEW x \in Keys
               PROVE  /\ d[x].state # "closed" => d[x].fails >= FailThreshold
                      /\ e[x] # Never =>
                           /\ e[x] <= now
                           /\ \/ d[x].state = "open" /\ d[x].until = e[x] + Cooldown
                              \/ d[x].state = "half_open" /\ now - e[x] >= Cooldown
    BY DEF GuardedBy
  <2>1. CASE x # k
    BY <1>4, <2>1 DEF Guarded, GuardedBy
  <2>2. CASE x = k /\ f.state = "open"
    <3>1. e[x] = now /\ d[x] = f /\ now <= now
      BY <1>0, <1>2, <2>2
    <3>2. QED
      BY <1>5, <2>2, <3>1
  <2>3. CASE x = k /\ f.state # "open"
    <3>1. /\ e[x] = cool[x] /\ d[x] = f
          /\ breaker[x].state # "open" /\ breaker[x].state # "half_open"
      BY <1>2, <1>5, <2>3
    <3>2. cool[x] = Never
      BY <3>1 DEF Guarded, GuardedBy
    <3>3. QED
      BY <1>5, <2>3, <3>1, <3>2
  <2>4. QED
    BY <2>1, <2>2, <2>3
<1>7. QED
  BY <1>3, <1>6 DEF BreakersOK, d, e, f

(* A step in which only request r may turn to a provider.                  *)
LEMMA OnlyTurns ==
  ASSUME CallsOK, NEW r \in Requests, NEW ord \in Seq(Providers),
         NEW i \in Nat \ {0}, NEW b, GoOn(r, ord, i, b)
  PROVE  \A x \in Requests \ {r} : pc'[x] = pc[x] /\ pos'[x] = pos[x]
<1>1. CASE Leave(r)
  BY <1>1 DEF Leave, Goto, CallsOK
<1>2. ASSUME NEW n \in i..Len(ord), Turned(r, ord, n, b)
      PROVE  \A x \in Requests \ {r} : pc'[x] = pc[x] /\ pos'[x] = pos[x]
  BY <1>2 DEF Turned, CallsOK
<1>3. QED
  BY <1>1, <1>2, GoOnProps

CooledStep ==
  \A r \in Requests : TurnsTo(r) => CooledBy(KeyOf[order'[r][pos'[r]]], cool')

LEMMA NoTurn ==
  ASSUME NEW x, pc'[x] = pc[x] \/ pc'[x] # "posting" \/ pc[x] \notin {"idle", "pause"},
         pos'[x] = pos[x] \/ pc'[x] # "posting"
  PROVE  ~TurnsTo(x)
  BY DEF TurnsTo

(* The step of a request that goes on with breakers b and history c.       *)
LEMMA GoOnStep ==
  ASSUME TypeOK, NEW b, BreakersOK(b, cool'), NEW r \in Requests,
         NEW ord \in Seq(Providers), NEW i \in Nat \ {0}, GoOn(r, ord, i, b),
         now' = now
  PROVE  BreakersOK(breaker, cool)' /\ CooledStep
<1>1. now \in Nat /\ CallsOK
  BY RouterAssumption DEF TypeOK, CallsOK
<1>2. BreakersOK(breaker', cool') /\ ToCooled(r, cool')
  BY <1>1, GoOnBreakers
<1>3. \A x \in Requests \ {r} : ~TurnsTo(x)
  BY <1>1, OnlyTurns, NoTurn
<1>4. TurnsTo(r) => pc'[r] = "posting"
  BY DEF TurnsTo
<1>5. QED
  BY <1>2, <1>3, <1>4 DEF BreakersOK, GuardedBy, CooledStep, ToCooled

(* The step of a request that stays with its provider, pauses or leaves.   *)
LEMMA StayStep ==
  ASSUME TypeOK, NEW r \in Requests, pc[r] \in Busy, BreakersOK(breaker', cool'),
         now' = now,
         NEW where, pc' = [pc EXCEPT ![r] = where],
         \/ pos' = pos /\ pc[r] # "pause"
         \/ where = "ended" /\ Leave(r)
  PROVE  BreakersOK(breaker, cool)' /\ CooledStep
<1>1. \A x \in Requests \ {r} : pc'[x] = pc[x] /\ pos'[x] = pos[x]
  BY DEF TypeOK, Leave
<1>2. pc'[r] = where /\ pc[r] # "idle"
  BY DEF TypeOK, Busy
<1>3. \A x \in Requests : ~TurnsTo(x)
  BY <1>1, <1>2, NoTurn
<1>4. QED
  BY <1>3 DEF BreakersOK, GuardedBy, CooledStep

LEMMA BreakersStep ==
  ASSUME TypeOK, Guarded, [Next]_vars
  PROVE  BreakersOK(breaker, cool)' /\ CooledStep
<1>1. CallsOK /\ now \in Nat /\ BreakersOK(breaker, cool)
  BY RouterAssumption DEF TypeOK, CallsOK, BreakersOK, Guarded
<1>2. /\ {"posting", "backoff", "retry", "pause"} = Busy
      /\ \A r \in Requests : pc[r] \in {"posting", "backoff", "retry"} =>
           pos[r] \in DOMAIN order[r]
  BY DEF Busy, TypeOK
<1>3. \A r \in Requests : order[r] \in Seq(Providers) /\ pos[r] + 1 \in Nat \ {0}
  BY DEF TypeOK
<1>4. \A r \in Requests : pc[r] = "posting" => Key(r) \in Keys
  BY <1>2, <1>3 DEF Key, Current, Keys
<1>5. ASSUME NEW r \in Requests, Call(r)
      PROVE  BreakersOK(breaker, cool)' /\ CooledStep
  <2>1. Order \in Seq(Providers)
    BY OrderProps DEF TypeOK
  <2>2. GoOn(r, Order, 1, breaker) /\ cool' = cool /\ now' = now /\ 1 \in Nat \ {0}
    BY <1>5 DEF Call
  <2>3. QED
    BY <1>1, <2>1, <2>2, GoOnStep
<1>6. ASSUME NEW r \in Requests, Answer(r)
      PROVE  BreakersOK(breaker, cool)' /\ CooledStep
  <2>1. /\ pc[r] = "posting" /\ Leave(r) /\ now' = now
        /\ pc' = [pc EXCEPT ![r] = "ended"]
        /\ breaker' = [breaker EXCEPT ![Key(r)] = Closed(breaker[Key(r)])]
        /\ cool' = [cool EXCEPT ![Key(r)] = Never]
    BY <1>6 DEF Answer, Leave, Goto
  <2>2. BreakersOK(breaker', cool')
    BY <1>4, <2>1, ClosedBreakers
  <2>3. QED
    BY <1>2, <2>1, <2>2, StayStep
<1>7. ASSUME NEW r \in Requests, Transient(r) \/ Repost(r) \/ Retry(r) \/ Again(r)
      PROVE  BreakersOK(breaker, cool)' /\ CooledStep
  <2>1. /\ pc[r] \in {"posting", "backoff", "retry"}
        /\ UNCHANGED <<now, breaker, cool, pos>>
        /\ \E where : pc' = [pc EXCEPT ![r] = where]
    BY <1>7 DEF Transient, Repost, Retry, Again, Post, Goto, calls
  <2>2. QED
    BY <1>1, <1>2, <2>1, StayStep
<1>8. ASSUME NEW r \in Requests, GiveUp(r)
      PROVE  BreakersOK(breaker, cool)' /\ CooledStep
  <2> DEFINE b == [breaker EXCEPT ![Key(r)] = Failed(breaker[Key(r)])]
  <2>1. /\ pc[r] = "posting" /\ now' = now
        /\ cool' = [cool EXCEPT ![Key(r)] =
                      IF b[Key(r)].state = "open" THEN now ELSE cool[Key(r)]]
        /\ r \in Retries => GoOn(r, order[r], pos[r] + 1, b)
        /\ r \notin Retries =>
             /\ pc' = [pc EXCEPT ![r] = "pause"]
             /\ breaker' = b /\ UNCHANGED calls
    BY <1>8 DEF GiveUp, Goto
  <2>2. BreakersOK(b, cool')
    BY <1>4, <2>1, FailedBreakers
  <2> HIDE DEF b
  <2>3. CASE r \in Retries
    BY <1>3, <2>1, <2>2, <2>3, GoOnStep
  <2>4. CASE r \notin Retries
    BY <1>2, <2>1, <2>2, <2>4, StayStep DEF calls
  <2>5. QED
    BY <2>3, <2>4
<1>9. ASSUME NEW r \in Requests, Resume(r)
      PROVE  BreakersOK(breaker, cool)' /\ CooledStep
  BY <1>1, <1>3, <1>9, GoOnStep DEF Resume
<1>10. ASSUME NEW r \in Requests, Cancel(r)
       PROVE  BreakersOK(breaker, cool)' /\ CooledStep
  <2>1. /\ pc[r] \in Busy /\ Leave(r) /\ UNCHANGED <<now, breaker, cool>>
        /\ pc' = [pc EXCEPT ![r] = "ended"]
    BY <1>10 DEF Cancel, Leave, Goto
  <2>2. QED
    BY <1>1, <2>1, StayStep
<1>11. ASSUME Tick \/ Quiet \/ UNCHANGED vars
       PROVE  BreakersOK(breaker, cool)' /\ CooledStep
  <2>1. /\ UNCHANGED <<breaker, cool, pc, pos>>
        /\ now' = now \/ now' = now + 1
    BY <1>11 DEF Tick, Quiet, vars, calls
  <2>2. \A x \in Requests : ~TurnsTo(x)
    BY <2>1, NoTurn
  <2>3. ASSUME NEW k \in Keys, cool[k] # Never
        PROVE  /\ cool[k] <= now'
               /\ now - cool[k] >= Cooldown => now' - cool[k] >= Cooldown
    <3>1. cool[k] \in Nat /\ cool[k] <= now /\ Cooldown \in Nat
      BY <2>3, RouterAssumption DEF TypeOK, Guarded, GuardedBy
    <3>2. QED
      BY <1>1, <2>1, <3>1
  <2>4. GuardedBy(breaker, cool)'
    BY <2>1, <2>3 DEF Guarded, GuardedBy
  <2>5. QED
    BY <1>1, <2>1, <2>2, <2>4 DEF BreakersOK, CooledStep
<1>12. QED
  BY <1>5, <1>6, <1>7, <1>8, <1>9, <1>10, <1>11 DEF Next, Progress
-----------------------------------------------------------------------------
(* The posts of one request, counted through its nested loops.             *)

LEMMA Carry ==
  ASSUME NEW m \in Nat, NEW x \in Int, NEW y \in Int, x < y
  PROVE  x * m + m <= y * m
<1>1. (y - x - 1) * m \in Nat
  OBVIOUS
<1>2. y * m = x * m + m + (y - x - 1) * m
  OBVIOUS
<1>3. x * m \in Int /\ y * m \in Int
  OBVIOUS
<1>4. QED
  BY <1>1, <1>2, <1>3

(* Place p, attempt t, post n are numbered in lexicographic order ...      *)
Number(a, m, p, t, n) == ((p - 1) * a + t - 1) * m + n

LEMMA NumberOrder ==
  ASSUME NEW a \in Nat \ {0}, NEW m \in Nat \ {0},
         NEW p \in Nat, NEW t \in 0..a, NEW n \in 0..m,
         NEW q \in Nat, NEW u \in 1..a, NEW o \in 1..m,
         \/ p < q
         \/ p = q /\ t < u
         \/ p = q /\ t = u /\ n < o
  PROVE  Number(a, m, p, t, n) < Number(a, m, q, u, o)
<1> DEFINE c == (p - 1) * a + t - 1
           d == (q - 1) * a + u - 1
<1>1. (p - 1) * a \in Int /\ (q - 1) * a \in Int /\ c \in Int /\ d \in Int
  OBVIOUS
<1>2. c < d \/ (c = d /\ n < o)
  <2>1. CASE p < q
    <3>1. (p - 1) * a + a <= (q - 1) * a
      BY <2>1, Carry
    <3>2. QED
      BY <1>1, <3>1
  <2>2. CASE p = q
    <3>1. (p - 1) * a = (q - 1) * a
      BY <2>2
    <3>2. t < u \/ (t = u /\ n < o)
      BY <2>2
    <3>3. QED
      BY <1>1, <3>1, <3>2
  <2>3. QED
    BY <2>1, <2>2
<1>3. Number(a, m, p, t, n) = c * m + n /\ Number(a, m, q, u, o) = d * m + o
  BY DEF Number
<1> HIDE DEF c, d
<1>4. c * m \in Int /\ d * m \in Int
  BY <1>1
<1>5. CASE c < d
  <2>1. c * m + m <= d * m
    BY <1>1, <1>5, Carry
  <2>2. QED
    BY <1>3, <1>4, <2>1
<1>6. CASE c = d /\ n < o
  BY <1>3, <1>4, <1>6
<1>7. QED
  BY <1>2, <1>5, <1>6

(* ... up to the product of the three bounds.                              *)
LEMMA NumberBound ==
  ASSUME NEW a \in Nat \ {0}, NEW m \in Nat \ {0}, NEW l \in Nat,
         NEW p \in 1..l, NEW t \in 1..a, NEW n \in 1..m
  PROVE  Number(a, m, p, t, n) <= l * a * m
<1> DEFINE c == (p - 1) * a + t - 1
<1>1. (p - 1) * a \in Int /\ l * a \in Int /\ c \in Int
  OBVIOUS
<1>2. (p - 1) * a + a <= l * a
  BY Carry
<1>3. c < l * a
  BY <1>1, <1>2
<1>4. Number(a, m, p, t, n) = c * m + n
  BY DEF Number
<1> DEFINE e == l * a
<1> HIDE DEF c, e
<1>5. c * m + m <= e * m /\ c * m \in Int /\ e * m \in Int
  BY <1>1, <1>3, Carry DEF e
<1>6. QED
  BY <1>4, <1>5 DEF e

LEMMA PostsStep ==
  ASSUME TypeOK, Bounded, [Next]_vars
  PROVE  \A r \in Requests : Posted(r) =>
           /\ Nth(r) < Nth(r)'
           /\ Nth(r)' <= Len(Listed) * AttemptsOf(r) * (Backoffs + 1)
<1> DEFINE Later(r) == \/ pos[r] < pos'[r]
                       \/ pos[r] = pos'[r] /\ tries[r] < tries'[r]
                       \/ pos[r] = pos'[r] /\ tries[r] = tries'[r] /\ posts[r] < posts'[r]
<1>1. CallsOK /\ CallsOK' /\ Bounded'
  BY CallsStep DEF TypeOK, CallsOK
<1>2. ASSUME NEW r \in Requests, Posted(r)
      PROVE  Later(r)
  <2>1. CASE UNCHANGED <<pc, pos>>
    BY <1>2, <2>1 DEF Posted
  <2>2. ASSUME NEW x \in Requests, NEW ord \in Seq(Providers), NEW b,
               GoOn(x, ord, pos[x] + 1, b)
        PROVE  Later(r)
    <3>0. pos[x] \in Nat /\ pos[r] \in Nat
      BY <1>1 DEF CallsOK
    <3>1. pos[x] \in Nat /\ pos[x] + 1 \in Nat \ {0} /\ pos[r] \in Nat
      BY <3>0
    <3>2. r = x
      BY <1>1, <1>2, <2>2, <3>1, OnlyTurns DEF Posted
    <3>3. pc'[r] = "posting"
      BY <1>2 DEF Posted
    <3>4. ~Leave(x)
      BY <1>1, <3>2, <3>3 DEF Leave, Goto, CallsOK
    <3>5. PICK n \in (pos[x] + 1)..Len(ord) : Turned(x, ord, n, b)
      BY <2>2, <3>1, <3>4, GoOnProps
    <3>6. pos'[r] = n
      BY <1>1, <3>2, <3>5 DEF Turned, CallsOK
    <3>7. QED
      BY <3>1, <3>2, <3>5, <3>6
  <2>3. ASSUME NEW x \in Requests, Call(x)
        PROVE  Later(r)
    <3>1. pos[x] + 1 = 1
      BY <2>3 DEF Call, Bounded, BoundedOf
    <3>2. Order \in Seq(Providers) /\ GoOn(x, Order, 1, breaker)
      BY <2>3, OrderProps DEF Call, TypeOK
    <3>3. QED
      BY <2>2, <3>1, <3>2
  <2>4. ASSUME NEW x \in Requests, NEW where,
               pc' = [pc EXCEPT ![x] = where], where # "posting", pos' = pos
        PROVE  FALSE
    BY <1>1, <1>2, <2>4 DEF Posted, CallsOK
  <2>5. ASSUME NEW x \in Requests, Leave(x)
        PROVE  FALSE
    <3>1. pc' = [pc EXCEPT ![x] = "ended"] /\ pos' = [pos EXCEPT ![x] = 0]
      BY <2>5 DEF Leave, Goto
    <3>2. QED
      BY <1>1, <1>2, <3>1 DEF Posted, CallsOK
  <2>6. ASSUME NEW x \in Requests, Answer(x) \/ Cancel(x)
        PROVE  Later(r)
    BY <2>5, <2>6 DEF Answer, Cancel
  <2>7. ASSUME NEW x \in Requests, Transient(x) \/ Retry(x)
        PROVE  Later(r)
    BY <2>4, <2>7 DEF Transient, Retry, Goto, calls
  <2>8. ASSUME NEW x \in Requests, Repost(x)
        PROVE  Later(r)
    <3>1. /\ pc' = [pc EXCEPT ![x] = "posting"]
          /\ posts' = [posts EXCEPT ![x] = posts[x] + 1] /\ UNCHANGED <<pos, tries>>
      BY <2>8 DEF Repost, Post, Goto
    <3>2. r = x /\ posts[x] \in Nat
      BY <1>1, <1>2, <3>1 DEF Posted, CallsOK
    <3>3. posts'[r] = posts[r] + 1 /\ posts[r] < posts[r] + 1
      BY <1>1, <3>1, <3>2 DEF CallsOK
    <3>4. QED
      BY <3>1, <3>3
  <2>9. ASSUME NEW x \in Requests, Again(x)
        PROVE  Later(r)
    <3>1. /\ pc' = [pc EXCEPT ![x] = "posting"]
          /\ tries' = [tries EXCEPT ![x] = tries[x] + 1] /\ pos' = pos
      BY <2>9 DEF Again, Post, Goto
    <3>2. r = x /\ tries[x] \in Nat
      BY <1>1, <1>2, <3>1 DEF Posted, CallsOK
    <3>3. tries'[r] = tries[r] + 1 /\ tries[r] < tries[r] + 1
      BY <1>1, <3>1, <3>2 DEF CallsOK
    <3>4. QED
      BY <3>1, <3>3
  <2>10. ASSUME NEW x \in Requests, GiveUp(x)
         PROVE  Later(r)
    <3>1. order[x] \in Seq(Providers)
      BY <1>1 DEF CallsOK
    <3>2. CASE x \in Retries
      BY <2>2, <2>10, <3>1, <3>2 DEF GiveUp
    <3>3. CASE x \notin Retries
      BY <2>4, <2>10, <3>3 DEF GiveUp, Goto, calls
    <3>4. QED
      BY <3>2, <3>3
  <2>11. ASSUME NEW x \in Requests, Resume(x)
         PROVE  Later(r)
    BY <1>1, <2>2, <2>11 DEF Resume, CallsOK
  <2>12. ASSUME Tick \/ Quiet \/ UNCHANGED vars
         PROVE  Later(r)
    BY <2>1, <2>12 DEF Tick, Quiet, vars, calls
  <2> HIDE DEF Later
  <2>13. QED
    BY <2>3, <2>6, <2>7, <2>8, <2>9, <2>10, <2>11, <2>12 DEF Next, Progress
<1>3. SUFFICES ASSUME NEW r \in Requests, Posted(r)
               PROVE  /\ Nth(r) < Nth(r)'
                      /\ Nth(r)' <= Len(Listed) * AttemptsOf(r) * (Backoffs + 1)
  OBVIOUS
<1> DEFINE a == AttemptsOf(r)
           m == Backoffs + 1
<1>4. a \in Nat \ {0} /\ m \in Nat \ {0} /\ Len(Listed) \in Nat
  BY AttemptsOfType, ListedProps, RouterAssumption
<1>5. pos[r] \in Nat /\ tries[r] \in 0..a /\ posts[r] \in 0..m
  <2>1. pc[r] \in {"idle", "ended"} \/ pc[r] \in Busy
    BY <1>1 DEF CallsOK, PC
  <2> HIDE DEF a, m
  <2>2. CASE pc[r] \in {"idle", "ended"}
    BY <1>4, <2>2 DEF Bounded, BoundedOf
  <2>3. CASE pc[r] \in Busy
    BY <1>1, <1>4, <2>3 DEF Bounded, BoundedOf, CallsOK, a, m
  <2>4. QED
    BY <2>1, <2>2, <2>3
<1>6. pos'[r] \in 1..Len(Listed) /\ tries'[r] \in 1..a /\ posts'[r] \in 1..m
  <2>1. pc'[r] \in Busy
    BY <1>3 DEF Posted, Busy
  <2>2. /\ Len(order'[r]) <= Len(Listed) /\ pos'[r] \in 1..Len(order'[r])
        /\ tries'[r] \in 1..AttemptsOf(r) /\ posts'[r] \in 1..(Backoffs + 1)
    BY <1>1, <2>1 DEF Bounded, BoundedOf, AttemptsOf
  <2>3. Len(order'[r]) \in Nat
    BY <1>1 DEF CallsOK
  <2>4. QED
    BY <1>4, <2>2, <2>3
<1>7. /\ Nth(r) = Number(a, m, pos[r], tries[r], posts[r])
      /\ Nth(r)' = Number(a, m, pos'[r], tries'[r], posts'[r])
  BY DEF Nth, Number, AttemptsOf
<1>8. Later(r)
  BY <1>2, <1>3
<1> HIDE DEF a, m
<1>9. Number(a, m, pos[r], tries[r], posts[r]) < Number(a, m, pos'[r], tries'[r], posts'[r])
  <2>1. pos'[r] \in Nat
    BY <1>4, <1>6
  <2>2. QED
    BY <1>4, <1>5, <1>6, <1>8, <2>1, NumberOrder
<1>10. Number(a, m, pos'[r], tries'[r], posts'[r]) <= Len(Listed) * a * m
  BY <1>4, <1>6, NumberBound
<1>11. QED
  BY <1>7, <1>9, <1>10 DEF a, m
-----------------------------------------------------------------------------
(* The invariant and the theorems.                                         *)

LEMMA InitInv == Init => Inv
<1> SUFFICES ASSUME Init PROVE Inv
  OBVIOUS
<1>1. /\ Len(Listed) \in Nat \ {0} /\ MaxTime \in Nat /\ <<>> \in Seq(Providers)
      /\ FailThreshold \in Nat
  BY ListedProps, RouterAssumption
<1>2. TypeOK
  BY <1>1 DEF Init, TypeOK, Breaker, PC, Busy
<1>3. Guarded
  BY DEF Init, Guarded, GuardedBy
<1>4. Bounded
  BY <1>1 DEF Init, Bounded, BoundedOf, Busy
<1>5. QED
  BY <1>2, <1>3, <1>4 DEF Inv

LEMMA StepInv == Inv /\ [Next]_vars => Inv'
<1> SUFFICES ASSUME Inv, [Next]_vars PROVE Inv'
  OBVIOUS
<1>1. CallsOK' /\ Bounded'
  BY CallsStep DEF Inv
<1>2. BreakersOK(breaker, cool)'
  BY BreakersStep DEF Inv
<1>3. now' \in 0..MaxTime
  <2>1. now' = now \/ (now < MaxTime /\ now' = now + 1)
    BY DEF Next, Progress, Call, Answer, Transient, Repost, Retry, Again, GiveUp,
           Resume, Cancel, Tick, Quiet, vars
  <2>2. QED
    BY <2>1, RouterAssumption DEF Inv, TypeOK
<1>4. rr' \in 0..(Len(Listed) - 1)
  <2>1. rr' = rr \/ rr' = NextIndex
    BY DEF Next, Progress, Call, Answer, Transient, Repost, Retry, Again, GiveUp,
           Resume, Cancel, Tick, Quiet, vars
  <2>2. QED
    BY <2>1, NextIndexProps DEF Inv, TypeOK
<1>5. \A r \in Requests : pc'[r] \in Busy \ {"pause"} => pos'[r] \in DOMAIN order'[r]
  <2>1. \A r \in Requests : order'[r] \in Seq(Providers)
    BY <1>1 DEF CallsOK
  <2>2. \A r \in Requests : pc'[r] \in Busy => pos'[r] \in 1..Len(order'[r])
    BY <1>1 DEF Bounded, BoundedOf
  <2>3. QED
    BY <2>1, <2>2
<1>6. TypeOK'
  BY <1>1, <1>2, <1>3, <1>4, <1>5 DEF TypeOK, CallsOK, BreakersOK
<1>7. QED
  BY <1>1, <1>2, <1>6 DEF Inv, Guarded, BreakersOK

(* The types of the router's breakers, of its index and of all that a      *)
(* request keeps between two awaits; its place is one in its order.        *)
THEOREM TypeCorrect == Spec => []TypeOK
<1>1. Inv => TypeOK
  BY DEF Inv
<1>2. QED
  BY InitInv, StepInv, <1>1, PTL DEF Spec

(* A provider whose failure opened its breaker is left alone for the       *)
(* cooldown, whatever other requests do, unless a call of its has          *)
(* succeeded since (ProviderCircuitBreaker.is_open and record_failure).    *)
THEOREM CooledHolds == Spec => Cooled
<1>1. Inv /\ [Next]_vars =>
        [\A r \in Requests : TurnsTo(r) =>
           LET k == KeyOf[order'[r][pos'[r]]]
           IN  cool'[k] = Never \/ now - cool'[k] >= Cooldown]_vars
  BY BreakersStep DEF Inv, CooledStep, CooledBy
<1>2. QED
  BY InitInv, StepInv, <1>1, PTL DEF Spec, Cooled

(* The posts of a request are strictly numbered and at most providers      *)
(* times attempts times posts per call (acomplete_with_retry over the      *)
(* client's own retry loop).                                               *)
THEOREM PostsBoundHolds == Spec => PostsBound
<1>1. Inv /\ [Next]_vars =>
        [\A r \in Requests : Posted(r) =>
           /\ Nth(r) < Nth(r)'
           /\ Nth(r)' <= Len(Listed) * AttemptsOf(r) * (Backoffs + 1)]_vars
  BY PostsStep DEF Inv
<1>2. QED
  BY InitInv, StepInv, <1>1, PTL DEF Spec, PostsBound
=============================================================================
