------------------------- MODULE LarkChannelProofs -------------------------
(***************************************************************************)
(* Proofs about LarkChannel, for any deliveries, chats, users, policy and  *)
(* size of the lock pool, and, from the line of the same name on, about    *)
(* LarkDedup, for any ids, capacity and TTL and any number of saves and    *)
(* crashes.                                                                *)
(***************************************************************************)
EXTENDS LarkChannel, LarkDedup, FiniteSetTheorems, SequenceTheorems, TLAPS

Distinct(s) == \A i, j \in DOMAIN s : s[i] = s[j] => i = j

LEMMA AppendProps ==
  ASSUME NEW S, NEW s \in Seq(S), Distinct(s), NEW c \in S, c \notin ToSet(s)
  PROVE  /\ Append(s, c) \in Seq(S) /\ Distinct(Append(s, c))
         /\ ToSet(Append(s, c)) = ToSet(s) \cup {c}
<1> DEFINE n == Len(s)
<1>1. /\ n \in Nat /\ DOMAIN s = 1..n /\ DOMAIN Append(s, c) = 1..(n + 1)
      /\ \A i \in 1..n : Append(s, c)[i] = s[i] /\ s[i] # c
      /\ Append(s, c)[n + 1] = c
  BY DEF ToSet
<1>2. Distinct(Append(s, c))
  BY <1>1 DEF Distinct
<1>3. ToSet(Append(s, c)) = ToSet(s) \cup {c}
  BY <1>1 DEF ToSet
<1>4. QED
  BY <1>2, <1>3

LEMMA WithoutProps ==
  ASSUME NEW S, NEW s \in Seq(S), Distinct(s), NEW x \in ToSet(s)
  PROVE  /\ Without(s, x) \in Seq(S) /\ Distinct(Without(s, x))
         /\ ToSet(Without(s, x)) = ToSet(s) \ {x}
<1> DEFINE n == Len(s)
           k == CHOOSE i \in DOMAIN s : s[i] = x
           r == RemoveAt(s, k)
<1>1. n \in Nat /\ DOMAIN s = 1..n /\ k \in 1..n /\ s[k] = x
  BY DEF ToSet
<1> HIDE DEF k
<1>2. /\ SubSeq(s, 1, k - 1) \in Seq(S) /\ Len(SubSeq(s, 1, k - 1)) = k - 1
      /\ \A i \in 1..(k - 1) : SubSeq(s, 1, k - 1)[i] = s[i]
  BY <1>1
<1>3. /\ SubSeq(s, k + 1, n) \in Seq(S) /\ Len(SubSeq(s, k + 1, n)) = n - k
      /\ \A i \in 1..(n - k) : SubSeq(s, k + 1, n)[i] = s[i + k]
  <2>1. k + 1 \in 1..(n + 1) /\ n \in k..n /\ n - (k + 1) + 1 = n - k
        /\ \A i \in 1..(n - k) : (k + 1) + i - 1 = i + k
    BY <1>1
  <2>2. /\ SubSeq(s, k + 1, n) \in Seq(S)
        /\ Len(SubSeq(s, k + 1, n)) = IF k + 1 <= n THEN n - (k + 1) + 1 ELSE 0
        /\ \A i \in 1..(n - (k + 1) + 1) : SubSeq(s, k + 1, n)[i] = s[(k + 1) + i - 1]
    BY <1>1, <2>1, SubSeqProperties
  <2>3. Len(SubSeq(s, k + 1, n)) = n - k
    <3>1. CASE k + 1 <= n
      BY <2>1, <2>2, <3>1
    <3>2. CASE ~(k + 1 <= n)
      <4>1. n - k = 0
        <5>1. n \in Nat /\ k \in Int /\ k <= n
          BY <1>1
        <5> HIDE DEF n
        <5>2. QED
          BY <3>2, <5>1
      <4>2. QED
        BY <2>2, <3>2, <4>1
    <3>3. QED
      BY <3>1, <3>2
  <2>4. \A i \in 1..(n - k) : SubSeq(s, k + 1, n)[i] = s[i + k]
    BY <2>1, <2>2
  <2>5. QED
    BY <2>2, <2>3, <2>4
<1> DEFINE old(i) == IF i < k THEN i ELSE i + 1
<1>4. /\ r \in Seq(S) /\ DOMAIN r = 1..(n - 1)
      /\ \A i \in 1..(n - 1) : old(i) \in 1..n /\ old(i) # k /\ r[i] = s[old(i)]
  <2> DEFINE a == SubSeq(s, 1, k - 1)
             b == SubSeq(s, k + 1, n)
  <2>1. /\ a \in Seq(S) /\ Len(a) = k - 1 /\ \A i \in 1..(k - 1) : a[i] = s[i]
        /\ b \in Seq(S) /\ Len(b) = n - k /\ \A i \in 1..(n - k) : b[i] = s[i + k]
    BY <1>2, <1>3
  <2>2. r = a \o b
    BY DEF RemoveAt
  <2> HIDE DEF a, b
  <2>3. /\ a \o b \in Seq(S) /\ Len(a \o b) = n - 1 /\ DOMAIN (a \o b) = 1..(n - 1)
        /\ \A i \in 1..(n - 1) : (a \o b)[i] = IF i <= k - 1 THEN a[i] ELSE b[i - (k - 1)]
    <3>1. (k - 1) + (n - k) = n - 1
      BY <1>1
    <3>2. /\ a \o b \in Seq(S) /\ Len(a \o b) = Len(a) + Len(b)
          /\ \A i \in 1..(Len(a) + Len(b)) :
               (a \o b)[i] = IF i <= Len(a) THEN a[i] ELSE b[i - Len(a)]
      BY <2>1, ConcatProperties
    <3>3. DOMAIN (a \o b) = 1..Len(a \o b)
      BY <3>2
    <3>4. QED
      BY <2>1, <3>1, <3>2, <3>3
  <2>4. \A i \in 1..(n - 1) : (a \o b)[i] = s[old(i)]
    <3> SUFFICES ASSUME NEW i \in 1..(n - 1) PROVE (a \o b)[i] = s[old(i)]
      OBVIOUS
    <3>0. i \in Int /\ k \in Int
      BY <1>1
    <3>1. CASE i < k
      <4>1. i <= k - 1 /\ i \in 1..(k - 1)
        BY <3>0, <3>1
      <4>2. (a \o b)[i] = a[i]
        BY <2>3, <4>1
      <4>3. QED
        BY <2>1, <3>1, <4>1, <4>2
    <3>2. CASE ~(i < k)
      <4>1. i - (k - 1) \in 1..(n - k) /\ (i - (k - 1)) + k = i + 1
        BY <1>1, <3>2
      <4>2. (a \o b)[i] = b[i - (k - 1)]
        <5>1. ~(i <= k - 1)
          BY <3>0, <3>2
        <5>2. QED
          BY <2>3, <5>1
      <4>3. QED
        BY <2>1, <3>2, <4>1, <4>2
    <3>3. QED
      BY <3>1, <3>2
  <2>5. \A i \in 1..(n - 1) : old(i) \in 1..n /\ old(i) # k
    BY <1>1
  <2>6. QED
    BY <2>2, <2>3, <2>4, <2>5
<1> HIDE DEF r
<1>5. Distinct(r)
  <2> SUFFICES ASSUME NEW i \in 1..(n - 1), NEW j \in 1..(n - 1), r[i] = r[j]
               PROVE  i = j
    BY <1>4 DEF Distinct
  <2>1. old(i) = old(j)
    BY <1>1, <1>4 DEF Distinct
  <2>2. QED
    BY <1>1, <2>1
<1>6. \A i \in DOMAIN r : r[i] \in ToSet(s) \ {x}
  <2>1. \A i \in 1..(n - 1) : s[old(i)] # x
    BY <1>1, <1>4 DEF Distinct
  <2>2. QED
    BY <1>1, <1>4, <2>1 DEF ToSet
<1>7. \A i \in 1..n : s[i] # x => \E j \in DOMAIN r : r[j] = s[i]
  <2> SUFFICES ASSUME NEW i \in 1..n, s[i] # x
               PROVE  \E j \in DOMAIN r : r[j] = s[i]
    OBVIOUS
  <2>1. CASE i < k
    BY <1>1, <1>4, <2>1
  <2>2. CASE i > k
    <3>1. i - 1 \in DOMAIN r /\ old(i - 1) = i
      BY <1>1, <1>4, <2>2
    <3>2. QED
      BY <1>4, <3>1
  <2>3. QED
    BY <1>1, <2>1, <2>2
<1>8. ToSet(r) = ToSet(s) \ {x}
  BY <1>1, <1>6, <1>7 DEF ToSet
<1>9. Without(s, x) = r
  BY DEF Without, k, r
<1>10. QED
  BY <1>4, <1>5, <1>8, <1>9

(* A finite set of naturals has a smallest element: the one below which    *)
(* its elements form a minimal set.                                        *)
LEMMA SmallestIn ==
  ASSUME NEW S \in SUBSET Nat, IsFiniteSet(S), S # {}
  PROVE  \E i \in S : \A j \in S : i <= j
<1> DEFINE below(i) == {j \in S : j < i}
           T == {below(i) : i \in S}
<1>1. T \subseteq FiniteSubsetsOf(S) /\ T # {}
  <2>1. FiniteSubsetsOf(S) = SUBSET S
    BY FS_FiniteSubsetsOfFinite
  <2>2. T \subseteq SUBSET S /\ T # {}
    OBVIOUS
  <2>3. QED
    BY <2>1, <2>2
<1> HIDE DEF T
<1>2. PICK x \in T : \A y \in T : ~ (<<y, x>> \in StrictSubsetOrdering(S))
  BY <1>1, WFMin, FS_StrictSubsetOrderingWellFounded
<1>3. PICK i \in S : x = below(i)
  BY DEF T
<1>4. ASSUME NEW j \in S, ~(i <= j)
      PROVE  FALSE
  <2>0. i \in Nat /\ j \in Nat /\ S \subseteq Nat
    OBVIOUS
  <2>1. below(j) \subseteq below(i) /\ j \in below(i) /\ j \notin below(j)
    <3>1. j < i /\ ~(j < j)
      BY <1>4, <2>0
    <3>2. \A k \in S : k < j => k < i
      BY <2>0, <3>1
    <3>3. QED
      BY <3>1, <3>2
  <2>2. <<below(j), below(i)>> \in StrictSubsetOrdering(S)
    BY <2>1 DEF StrictSubsetOrdering
  <2>3. QED
    BY <1>2, <1>3, <2>2 DEF T
<1>5. QED
  BY <1>4
-----------------------------------------------------------------------------
(* Type correctness *)

PoolType ==
  /\ DOMAIN pool \subseteq Chats /\ pool \in [DOMAIN pool -> Events]
  /\ recent \in Seq(Chats) /\ ToSet(recent) = DOMAIN pool
  /\ Distinct(recent)

LEMMA FinitePool ==
  ASSUME TypeOK
  PROVE  /\ IsFiniteSet(DOMAIN pool) /\ Cardinality(DOMAIN pool) \in Nat
         /\ Cardinality(DOMAIN pool) > 0 => DOMAIN recent # {}
<1>1. IsFiniteSet(DOMAIN pool) /\ Cardinality(DOMAIN pool) \in Nat
  BY FS_Subset, FS_CardinalityType, LarkAssumption DEF TypeOK
<1>2. DOMAIN recent = {} => DOMAIN pool = {}
  BY DEF TypeOK, ToSet
<1>3. DOMAIN pool = {} => Cardinality(DOMAIN pool) = 0
  <2>1. Cardinality({}) = 0
    BY FS_EmptySet
  <2>2. QED
    BY <2>1
<1>4. ~(0 > 0)
  OBVIOUS
<1>5. Cardinality(DOMAIN pool) > 0 => DOMAIN recent # {}
  BY <1>2, <1>3, <1>4, Zenon
<1>6. QED
  BY <1>1, <1>5, Zenon

LEMMA VictimProps ==
  ASSUME TypeOK, PoolFull
  PROVE  Victim \in ToSet(recent)
<1> DEFINE free == {i \in DOMAIN recent : pool[recent[i]] \notin locked}
           from == IF free = {} THEN DOMAIN recent ELSE free
<1>1. DOMAIN recent # {}
  BY FinitePool, LarkAssumption DEF PoolFull
<1>2. from # {} /\ from \subseteq DOMAIN recent /\ from \subseteq Nat
  BY <1>1 DEF TypeOK
<1> HIDE DEF from
<1>3. IsFiniteSet(from)
  <2>1. DOMAIN recent = 1..Len(recent) /\ Len(recent) \in Nat
    BY DEF TypeOK
  <2>2. IsFiniteSet(1..Len(recent))
    BY <2>1, FS_Interval
  <2>3. QED
    BY <1>2, <2>1, <2>2, FS_Subset
<1>4. \E i \in from : \A j \in from : i <= j
  BY <1>2, <1>3, SmallestIn
<1>5. (CHOOSE i \in from : \A j \in from : i <= j) \in DOMAIN recent
  BY <1>2, <1>4
<1>6. QED
  BY <1>5 DEF Victim, from, ToSet

(* What asking for a chat's lock does to the pool. *)
LEMMA GetChatLockProps ==
  ASSUME TypeOK, NEW e \in Events, GetChatLock(Chat(e), e)
  PROVE  PoolType' /\ held' \in [Events -> Events] /\ evicted' \subseteq Events
<1> DEFINE c == Chat(e)
<1>0. c \in Chats
  BY LarkAssumption DEF Chat
<1>1. PoolType /\ held \in [Events -> Events] /\ evicted \subseteq Events
  BY DEF TypeOK, PoolType, Distinct
<1>2. CASE c \in DOMAIN pool
  <2>1. pool[c] \in Events
    BY <1>1, <1>2 DEF PoolType
  <2>2. held' = [held EXCEPT ![e] = pool[c]] /\ pool' = pool /\ evicted' = evicted
        /\ recent' = Append(Without(recent, c), c)
    BY <1>2 DEF GetChatLock, Pooled, Touched
  <2>3. /\ Without(recent, c) \in Seq(Chats) /\ Distinct(Without(recent, c))
        /\ ToSet(Without(recent, c)) = DOMAIN pool \ {c}
    BY <1>1, <1>2, WithoutProps DEF PoolType
  <2>4. recent' \in Seq(Chats) /\ Distinct(recent') /\ ToSet(recent') = DOMAIN pool
    <3> DEFINE rest == Without(recent, c)
    <3>1. rest \in Seq(Chats) /\ Distinct(rest) /\ c \notin ToSet(rest)
          /\ recent' = Append(rest, c) /\ ToSet(rest) \cup {c} = DOMAIN pool
      BY <1>2, <2>2, <2>3
    <3> HIDE DEF rest
    <3>2. QED
      BY <1>0, <3>1, AppendProps
  <2>5. QED
    BY <1>1, <2>1, <2>2, <2>4 DEF PoolType
<1>3. CASE c \notin DOMAIN pool
  <2> DEFINE kept == IF PoolFull THEN (DOMAIN pool) \ {Victim} ELSE DOMAIN pool
             rest == IF PoolFull THEN Without(recent, Victim) ELSE recent
  <2>1. /\ held' = [held EXCEPT ![e] = e]
        /\ recent' = Append(rest, c)
        /\ pool' = [d \in kept \cup {c} |-> IF d = c THEN e ELSE pool[d]]
        /\ evicted' = IF PoolFull THEN evicted \cup {pool[Victim]} ELSE evicted
    BY <1>3 DEF GetChatLock, NewChatLock, Pooled
  <2>2. rest \in Seq(Chats) /\ Distinct(rest) /\ ToSet(rest) = kept
    BY <1>1, WithoutProps, VictimProps DEF PoolType
  <2>3. kept \subseteq DOMAIN pool /\ c \notin kept
    BY <1>3
  <2>7. evicted' \subseteq Events
    BY <1>1, <2>1, VictimProps DEF PoolType
  <2> HIDE DEF kept, rest
  <2>4. recent' \in Seq(Chats) /\ Distinct(recent') /\ ToSet(recent') = kept \cup {c}
    BY <1>0, <2>1, <2>2, <2>3, AppendProps
  <2>5. DOMAIN pool' = kept \cup {c} /\ pool' \in [DOMAIN pool' -> Events]
    BY <1>1, <2>1, <2>3 DEF PoolType
  <2>6. QED
    BY <1>0, <1>1, <2>1, <2>3, <2>4, <2>5, <2>7 DEF PoolType
<1>4. QED
  BY <1>2, <1>3

LEMMA TypeInit == Init => TypeOK
<1> SUFFICES ASSUME Init PROVE TypeOK
  OBVIOUS
<1>1. recent = <<>> /\ recent \in Seq(Chats) /\ DOMAIN recent = {} /\ DOMAIN pool = {}
  BY DEF Init
<1>2. QED
  BY <1>1 DEF Init, TypeOK, PC, ToSet

LEMMA TypeNext ==
  ASSUME TypeOK, [Next]_vars
  PROVE  TypeOK'
<1>0. \A e \in Events : /\ Event[e].msg \in Msgs /\ Event[e].user \in Users
                         /\ Chat(e) \in Chats /\ SessionOf(e) \in Chats \X Users
                         /\ Finished(e) \in PC
  BY LarkAssumption DEF Chat, SessionOf, Finished, PC
<1>1. ASSUME UNCHANGED lockVars, UNCHANGED lastMsg,
             pc' \in [Events -> PC], seen' \subseteq Msgs,
             target' \in [Events -> Msgs \cup {NoMsg}]
      PROVE  TypeOK'
  BY <1>1 DEF TypeOK, lockVars
<1>2. ASSUME NEW e \in Events, NEW w \in PC, Goto(e, w)
      PROVE  pc' \in [Events -> PC]
  BY <1>2 DEF TypeOK, Goto
<1>3. ASSUME NEW e \in Events, Send(e)
      PROVE  pc' \in [Events -> PC] /\ target' \in [Events -> Msgs \cup {NoMsg}]
  <2>1. "sending" \in PC /\ lastMsg[SessionOf(e)] \in Msgs \cup {NoMsg}
    BY <1>0 DEF PC, TypeOK
  <2>2. QED
    BY <1>0, <1>2, <1>3, <2>1 DEF Send, TypeOK
<1>4. ASSUME NEW e \in Events, Deliver(e) \/ Progress(e)
      PROVE  TypeOK'
  <2>1. CASE Arrive(e)
    <3>1. Record(e) \subseteq Msgs
      BY <1>0 DEF Record, TypeOK
    <3>2. QED
      BY <1>1, <1>2, <2>1, <3>1 DEF Arrive, PC, TypeOK
  <2>2. CASE Refuse(e)
    BY <1>1, <1>2, <2>2 DEF Refuse, PC, TypeOK
  <2>3. CASE Download(e)
    BY <1>1, <1>2, <2>3 DEF Download, PC, TypeOK
  <2>4. CASE Request(e)
    <3>1. /\ PoolType' /\ held' \in [Events -> Events] /\ held'[e] \in Events
          /\ evicted' \subseteq Events
      BY <2>4, GetChatLockProps DEF Request
    <3>2. lastMsg' \in [Chats \X Users -> Msgs \cup {NoMsg}]
      BY <1>0, <2>4 DEF Request, TypeOK
    <3>3. requests' \in Seq(Events)
      BY <2>4 DEF Request, TypeOK
    <3>4. pc' \in [Events -> PC] /\ locked' \subseteq Events /\ waiters' \in [Events -> Seq(Events)]
      <4>1. CASE AtOnce(held'[e])
        BY <1>2, <2>4, <3>1, <4>1 DEF Request, TypeOK, PC
      <4>2. CASE ~AtOnce(held'[e])
        <5>1. Append(waiters[held'[e]], e) \in Seq(Events)
          BY <3>1 DEF TypeOK
        <5>2. waiters' \in [Events -> Seq(Events)] /\ locked' = locked
          <6> DEFINE l == held'[e]
          <6>1. waiters' = [waiters EXCEPT ![l] = Append(@, e)] /\ locked' = locked
            BY <2>4, <4>2 DEF Request
          <6>2. l \in Events /\ Append(waiters[l], e) \in Seq(Events)
            BY <3>1, <5>1
          <6> HIDE DEF l
          <6>3. waiters \in [Events -> Seq(Events)]
            BY DEF TypeOK
          <6>4. QED
            BY <6>1, <6>2, <6>3
        <5>3. pc' \in [Events -> PC]
          BY <1>2, <2>4, <4>2 DEF Request, PC
        <5>4. QED
          BY <5>2, <5>3 DEF TypeOK
      <4>3. QED
        BY <4>1, <4>2
    <3>5. QED
      BY <2>4, <3>1, <3>2, <3>3, <3>4 DEF Request, TypeOK, PoolType, Distinct
  <2>5. CASE Wake(e)
    <3>1. held[e] \in Events /\ Tail(waiters[held[e]]) \in Seq(Events)
      BY <2>5 DEF Wake, TypeOK
    <3>2. pc' \in [Events -> PC]
      BY <1>2, <2>5 DEF Wake, PC
    <3>3. locked' \subseteq Events /\ waiters' \in [Events -> Seq(Events)]
      BY <2>5, <3>1 DEF Wake, TypeOK
    <3>4. QED
      BY <2>5, <3>2, <3>3 DEF Wake, TypeOK
  <2>6. CASE Dispatch(e)
    <3>1. pc' \in [Events -> PC] /\ target' \in [Events -> Msgs \cup {NoMsg}]
      BY <1>0, <1>2, <1>3, <2>6 DEF Dispatch, PC, TypeOK
    <3>2. QED
      BY <1>1, <2>6, <3>1 DEF Dispatch, TypeOK
  <2>7. CASE AgentReturns(e)
    BY <1>1, <1>3, <2>7 DEF AgentReturns, TypeOK
  <2>8. CASE Posted(e)
    BY <1>0, <1>1, <1>2, <2>8 DEF Posted, TypeOK
  <2>9. CASE Release(e)
    <3>1. pc' \in [Events -> PC] /\ locked' \subseteq Events
      BY <1>2, <2>9 DEF Release, Unlocked, PC, TypeOK
    <3>2. QED
      BY <2>9, <3>1 DEF Release, TypeOK
  <2>10. QED
    BY <1>4, <2>1, <2>2, <2>3, <2>4, <2>5, <2>6, <2>7, <2>8, <2>9 DEF Deliver, Progress
<1>5. CASE UNCHANGED vars
  BY <1>5 DEF vars, TypeOK
<1>6. QED
  BY <1>4, <1>5 DEF Next, Quiet

(* Every variable keeps its type, and `recent` lists the pool's chats, each *)
(* once, through every hit, insertion and eviction.                        *)
THEOREM TypeCorrect == Spec => []TypeOK
BY TypeInit, TypeNext, PTL DEF Spec

-----------------------------------------------------------------------------
(* Mutual exclusion *)

Queued == {e \in Events : pc[e] = "waiting"}

(* Callbacks never reach the stages that belong to the lock. *)
KindInv ==
  \A e \in Events : ~Message(e) => pc[e] \in {"idle", "agent", "sending", "ended"}

(* A task inside its block holds its lock, which is locked, alone. *)
HolderInv ==
  /\ \A e \in Inside : held[e] \in locked
  /\ \A e, f \in Inside : held[e] = held[f] => e = f

(* The tasks that have been given a lock, and what it is: the one the pool *)
(* has for the chat, or one the pool has dropped.                          *)
Given(e) == Message(e) /\ (pc[e] = "waiting" \/ Handled(e))
BelongInv ==
  \A e \in Events : Given(e) =>
    held[e] \in evicted \/ (Chat(e) \in DOMAIN pool /\ held[e] = pool[Chat(e)])

LockInv == KindInv /\ HolderInv /\ BelongInv

LEMMA LockInit == Init => LockInv
BY DEF Init, LockInv, KindInv, HolderInv, BelongInv, Inside, Given, Handled

(* Whatever is evicted for it, the task that asks has the pool's lock of   *)
(* its chat then, and every other lock stays where it is or is evicted.    *)
LEMMA PoolStep ==
  ASSUME TypeOK, NEW e \in Events, GetChatLock(Chat(e), e)
  PROVE  /\ Chat(e) \in DOMAIN pool' /\ held'[e] = pool'[Chat(e)]
         /\ \A f \in Events \ {e} : held'[f] = held[f]
         /\ evicted \subseteq evicted'
         /\ \A d \in DOMAIN pool :
                pool[d] \in evicted' \/ (d \in DOMAIN pool' /\ pool'[d] = pool[d])
<1> DEFINE c == Chat(e)
<1>0. held \in [Events -> Events]
  BY DEF TypeOK
<1>1. CASE c \in DOMAIN pool
  BY <1>0, <1>1 DEF GetChatLock, Pooled
<1>2. CASE c \notin DOMAIN pool
  <2> DEFINE kept == IF PoolFull THEN (DOMAIN pool) \ {Victim} ELSE DOMAIN pool
  <2>1. /\ held' = [held EXCEPT ![e] = e]
        /\ pool' = [d \in kept \cup {c} |-> IF d = c THEN e ELSE pool[d]]
        /\ evicted' = IF PoolFull THEN evicted \cup {pool[Victim]} ELSE evicted
    BY <1>2 DEF GetChatLock, NewChatLock, Pooled
  <2>2. \A d \in DOMAIN pool : d # c /\ (d \in kept \/ pool[d] \in evicted')
    BY <1>2, <2>1
  <2> HIDE DEF kept
  <2>3. QED
    BY <1>0, <2>1, <2>2
<1>3. QED
  BY <1>1, <1>2

LEMMA LockNext ==
  ASSUME TypeOK, LockInv, [Next]_vars
  PROVE  LockInv'
<1> USE DEF LockInv
<1>0. pc \in [Events -> PC] /\ held \in [Events -> Events]
  BY DEF TypeOK
<1>1. ASSUME NEW e \in Events, Deliver(e) \/ Progress(e)
      PROVE  LockInv'
  <2>0. \A f \in Events \ {e} : pc'[f] = pc[f]
    BY <1>0, <1>1 DEF Deliver, Progress, Arrive, Refuse, Download, Request, Wake, Dispatch,
                      AgentReturns, Posted, Release, Goto, Send
  <2>1. ASSUME ~Message(e) => pc'[e] \in {"idle", "agent", "sending", "ended"}
        PROVE  KindInv'
    BY <2>0, <2>1 DEF KindInv, Message
  <2>2. ASSUME UNCHANGED <<pool, held, evicted>>, Given(e)' => Given(e)
        PROVE  BelongInv'
    <3>1. \A f \in Events : Given(f)' => Given(f)
      BY <2>0, <2>2 DEF Given, Handled, Message
    <3>2. QED
      BY <2>2, <3>1 DEF BelongInv, Chat
  <2>3. ASSUME UNCHANGED <<locked, held>>, e \in Inside' <=> e \in Inside
        PROVE  HolderInv'
    <3>1. Inside' = Inside
      BY <2>0, <2>3 DEF Inside, Message
    <3>2. QED
      BY <2>3, <3>1 DEF HolderInv
  <2>4. CASE Arrive(e) \/ Refuse(e) \/ Download(e)
    <3>1. /\ Message(e) /\ UNCHANGED <<pool, held, evicted, locked>>
          /\ pc[e] \in {"idle", "persist"} /\ pc'[e] \in {"persist", "dropped", "download"}
      BY <1>0, <2>4 DEF Arrive, Refuse, Download, Goto, KindInv, lockVars
    <3>2. /\ e \in Inside' <=> e \in Inside
          /\ Given(e)' => Given(e)
      BY <3>1 DEF Inside, Given, Handled
    <3>3. QED
      BY <2>1, <2>2, <2>3, <3>1, <3>2
  <2>5. CASE Dispatch(e) \/ AgentReturns(e) \/ Posted(e)
    <3>1. /\ UNCHANGED <<pool, held, evicted, locked>>
          /\ pc'[e] \in {Finished(e), "agent", "sending"}
      BY <1>0, <2>5 DEF Dispatch, AgentReturns, Posted, Send, Goto, lockVars
    <3>2. /\ Message(e) => pc[e] \in {"typing", "agent", "sending"}
          /\ ~Message(e) => pc[e] \in {"idle", "agent", "sending"}
      BY <2>5 DEF Dispatch, AgentReturns, Posted, KindInv
    <3>3. /\ e \in Inside' <=> e \in Inside
          /\ Given(e)' => Given(e)
          /\ ~Message(e) => pc'[e] \in {"agent", "sending", "ended"}
      BY <3>1, <3>2 DEF Inside, Finished, Given, Handled, Message
    <3>4. QED
      BY <2>1, <2>2, <2>3, <3>1, <3>3
  <2>6. CASE Request(e)
    <3>1. /\ Message(e) /\ pc[e] \in {"persist", "download"} /\ GetChatLock(Chat(e), e)
          /\ e \notin Inside
      BY <2>6 DEF Request, Message, KindInv, Inside
    <3>2. /\ Chat(e) \in DOMAIN pool' /\ held'[e] = pool'[Chat(e)]
          /\ \A f \in Events \ {e} : held'[f] = held[f]
          /\ evicted \subseteq evicted'
          /\ \A d \in DOMAIN pool :
                pool[d] \in evicted' \/ (d \in DOMAIN pool' /\ pool'[d] = pool[d])
      BY <3>1, PoolStep
    <3>3. BelongInv'
      <4> SUFFICES ASSUME NEW f \in Events, Given(f)'
                   PROVE  \/ held'[f] \in evicted'
                          \/ Chat(f) \in DOMAIN pool' /\ held'[f] = pool'[Chat(f)]
        BY DEF BelongInv, Chat
      <4>1. CASE f = e
        BY <3>2, <4>1
      <4>2. CASE f # e
        <5>1. Given(f) /\ held'[f] = held[f]
          BY <2>0, <3>2, <4>2 DEF Given, Handled, Message
        <5>2. held[f] \in evicted \/ (Chat(f) \in DOMAIN pool /\ held[f] = pool[Chat(f)])
          BY <5>1 DEF BelongInv
        <5>3. QED
          BY <3>2, <5>1, <5>2
      <4>3. QED
        BY <4>1, <4>2
    <3>4. CASE AtOnce(held'[e])
      <4>1. pc'[e] = "typing" /\ locked' = locked \cup {held'[e]} /\ held'[e] \notin locked
        BY <1>0, <2>6, <3>4 DEF Request, Goto, AtOnce
      <4>2. Inside' = Inside \cup {e}
        BY <2>0, <3>1, <4>1 DEF Inside, Message
      <4>3. HolderInv'
        BY <3>1, <3>2, <4>1, <4>2 DEF HolderInv, Inside
      <4>4. QED
        BY <2>1, <3>1, <3>3, <4>3
    <3>5. CASE ~AtOnce(held'[e])
      <4>1. pc'[e] = "waiting" /\ locked' = locked
        BY <1>0, <2>6, <3>5 DEF Request, Goto
      <4>2. Inside' = Inside
        BY <2>0, <3>1, <4>1 DEF Inside, Message
      <4>3. HolderInv'
        BY <3>1, <3>2, <4>1, <4>2 DEF HolderInv, Inside
      <4>4. QED
        BY <2>1, <3>1, <3>3, <4>3
    <3>6. QED
      BY <3>4, <3>5
  <2>7. CASE Wake(e)
    <3>1. /\ pc[e] = "waiting" /\ pc'[e] = "typing" /\ Message(e)
          /\ held[e] \notin locked /\ locked' = locked \cup {held[e]}
          /\ UNCHANGED <<pool, held, evicted>>
      BY <1>0, <2>7 DEF Wake, Goto, KindInv
    <3>2. Inside' = Inside \cup {e} /\ Given(e)
      BY <2>0, <3>1 DEF Inside, Message, Given
    <3>3. HolderInv'
      BY <3>1, <3>2 DEF HolderInv
    <3>4. QED
      BY <2>1, <2>2, <3>1, <3>2, <3>3
  <2>8. CASE Release(e)
    <3>1. /\ pc[e] = "clearing" /\ pc'[e] = "ended" /\ Message(e)
          /\ locked' = locked \ {held[e]} /\ UNCHANGED <<pool, held, evicted>>
      BY <1>0, <2>8 DEF Release, Unlocked, Goto, KindInv
    <3>2. Inside' = Inside \ {e} /\ e \in Inside /\ Given(e)
      BY <2>0, <3>1 DEF Inside, Message, Given, Handled
    <3>3. HolderInv'
      BY <3>1, <3>2 DEF HolderInv
    <3>4. QED
      BY <2>1, <2>2, <3>1, <3>2, <3>3
  <2>9. QED
    BY <1>1, <2>4, <2>5, <2>6, <2>7, <2>8 DEF Deliver, Progress
<1>2. CASE UNCHANGED vars
  BY <1>2 DEF vars, KindInv, HolderInv, BelongInv, Inside, Given, Handled, Chat, Message
<1>3. QED
  BY <1>1, <1>2 DEF Next, Quiet

(* Two messages of a chat are handled at once only under two locks, one of *)
(* which the pool has dropped, for any size of the pool and however        *)
(* deliveries, downloads, writes, evictions and answers interleave.        *)
THEOREM OneInChatHolds == Spec => []OneInChat
<1>1. Init => TypeOK /\ LockInv
  BY TypeInit, LockInit
<1>2. TypeOK /\ LockInv /\ [Next]_vars => (TypeOK /\ LockInv)'
  BY TypeNext, LockNext
<1>3. LockInv => OneInChat
  <2>1. \A e \in Inside : Given(e) /\ e \in Events
    BY DEF Inside, Given, Handled
  <2>2. QED
    BY <2>1 DEF LockInv, HolderInv, BelongInv, OneInChat
<1>4. QED
  BY <1>1, <1>2, <1>3, PTL DEF Spec
-----------------------------------------------------------------------------
(* The pool of chat locks never exceeds its limit, whatever is evicted.    *)

LEMMA PoolBoundNext ==
  ASSUME TypeOK, PoolBound, [Next]_vars
  PROVE  PoolBound'
<1>0. IsFiniteSet(DOMAIN pool) /\ Cardinality(DOMAIN pool) \in Nat /\ ChatLockMax \in Nat \ {0}
  BY FinitePool, FS_CardinalityType, LarkAssumption
<1>1. ASSUME NEW e \in Events, GetChatLock(Chat(e), e)
      PROVE  PoolBound'
  <2> DEFINE c == Chat(e)
             kept == IF PoolFull THEN (DOMAIN pool) \ {Victim} ELSE DOMAIN pool
  <2>1. CASE c \in DOMAIN pool
    BY <1>1, <2>1 DEF GetChatLock, Pooled, PoolBound
  <2>2. CASE c \notin DOMAIN pool
    <3>1. DOMAIN pool' = kept \cup {c}
      BY <1>1, <2>2 DEF GetChatLock, NewChatLock, Pooled
    <3>2. IsFiniteSet(kept) /\ Cardinality(kept) + 1 <= ChatLockMax
      <4>1. CASE PoolFull
        <5>2. Victim \in DOMAIN pool
          BY <4>1, VictimProps DEF TypeOK
        <5>3. IsFiniteSet(kept) /\ Cardinality(kept) = Cardinality(DOMAIN pool) - 1
          BY <1>0, <4>1, <5>2, FS_RemoveElement
        <5>4. QED
          BY <1>0, <5>3 DEF PoolBound
      <4>2. CASE ~PoolFull
        BY <1>0, <4>2 DEF PoolFull
      <4>3. QED
        BY <4>1, <4>2
    <3> HIDE DEF kept
    <3>3. Cardinality(kept \cup {c}) <= Cardinality(kept) + 1 /\ Cardinality(kept) \in Nat
      <4>1. /\ Cardinality(kept) \in Nat
            /\ Cardinality(kept \cup {c}) = IF c \in kept THEN Cardinality(kept)
                                                        ELSE Cardinality(kept) + 1
        BY <3>2, FS_AddElement, FS_CardinalityType
      <4>2. QED
        BY <4>1
    <3>4. Cardinality(kept \cup {c}) <= ChatLockMax
      <4>1. Cardinality(kept \cup {c}) \in Nat
        BY <3>2, FS_AddElement, FS_CardinalityType
      <4>2. QED
        BY <1>0, <3>2, <3>3, <4>1
    <3>5. QED
      BY <3>1, <3>4 DEF PoolBound
  <2>3. QED
    BY <2>1, <2>2
<1>2. ASSUME UNCHANGED pool
      PROVE  PoolBound'
  BY <1>2 DEF PoolBound
<1>3. ASSUME NEW e \in Events, Deliver(e) \/ Progress(e)
      PROVE  PoolBound'
  <2>1. CASE Request(e)
    BY <1>1, <2>1 DEF Request
  <2>2. CASE ~Request(e)
    BY <1>2, <1>3, <2>2 DEF Deliver, Progress, Arrive, Refuse, Download, Wake, Dispatch,
                            AgentReturns, Posted, Release, lockVars
  <2>3. QED
    BY <2>1, <2>2
<1>4. QED
  BY <1>2, <1>3 DEF Next, Quiet, vars

(* For any number of chats, messages and users.                            *)
THEOREM PoolBoundHolds == Spec => []PoolBound
<1>1. Init => PoolBound
  <2>1. ASSUME Init PROVE DOMAIN pool = {}
    BY <2>1 DEF Init
  <2>2. QED
    BY <2>1, FS_EmptySet, LarkAssumption DEF PoolBound
<1>2. TypeOK /\ PoolBound /\ [Next]_vars => PoolBound'
  BY PoolBoundNext
<1>3. QED
  BY <1>1, <1>2, TypeCorrect, PTL DEF Spec
-----------------------------------------------------------------------------
(* Redelivery and replies *)

(* A message whose task has started is recorded, and of its deliveries one *)
(* at most was not dropped.                                                *)
SeenInv ==
  /\ \A e \in Events : Message(e) /\ pc[e] # "idle" => Event[e].msg \in seen
  /\ \A e, f \in Events :
       /\ Message(e) /\ pc[e] \notin {"idle", "dropped"}
       /\ Message(f) /\ pc[f] \notin {"idle", "dropped"}
       /\ Event[e].msg = Event[f].msg
       => e = f

(* Message m was sent in session s by a sender who may write. *)
Admitted(s, m) ==
  \E f \in Events : /\ Event[f].msg = m /\ Message(f)
                    /\ <<Chat(f), Event[f].user>> = s
                    /\ SenderAllowed(f)

ReplyInv ==
  /\ \A s \in Chats \X Users : lastMsg[s] # NoMsg => Admitted(s, lastMsg[s])
  /\ \A e \in Events : pc[e] = "download" => SenderAllowed(e)
  /\ \A e \in Events : target[e] # NoMsg => Admitted(SessionOf(e), target[e])

HandlingInv == KindInv /\ SeenInv /\ ReplyInv

LEMMA HandlingInit == Init => HandlingInv
BY LarkAssumption DEF Init, HandlingInv, KindInv, SeenInv, ReplyInv

LEMMA HandlingNext ==
  ASSUME TypeOK, HandlingInv, [Next]_vars
  PROVE  HandlingInv'
<1> USE DEF HandlingInv
<1>0. /\ pc \in [Events -> PC] /\ target \in [Events -> Msgs \cup {NoMsg}]
      /\ lastMsg \in [Chats \X Users -> Msgs \cup {NoMsg}]
      /\ \A e \in Events : SessionOf(e) \in Chats \X Users
  BY LarkAssumption DEF TypeOK, SessionOf, Chat
<1>1. ASSUME NEW e \in Events, Deliver(e) \/ Progress(e)
      PROVE  HandlingInv'
  <2>0. \A f \in Events \ {e} : pc'[f] = pc[f]
    BY <1>0, <1>1 DEF Deliver, Progress, Arrive, Refuse, Download, Request, Wake, Dispatch,
                      AgentReturns, Posted, Release, Goto, Send
  <2>1. ASSUME ~Message(e) => pc'[e] \in {"idle", "agent", "sending", "ended"}
        PROVE  KindInv'
    BY <2>0, <2>1 DEF KindInv, Message
  <2>2. ASSUME Message(e) => pc[e] \notin {"idle", "dropped"}, seen' = seen
        PROVE  SeenInv'
    BY <2>0, <2>2 DEF SeenInv, Message
  <2>3. ASSUME pc'[e] # "download", UNCHANGED <<lastMsg, target>>
        PROVE  ReplyInv'
    BY <2>0, <2>3 DEF ReplyInv, Admitted, SenderAllowed, Message, Chat, SessionOf
  <2>4. ASSUME Send(e), UNCHANGED lastMsg
        PROVE  ReplyInv' /\ pc'[e] \in {Finished(e), "sending"}
    <3>1. /\ target' = [target EXCEPT ![e] = lastMsg[SessionOf(e)]]
          /\ pc'[e] \in {Finished(e), "sending"}
      BY <1>0, <2>4 DEF Send, Goto
    <3>2. target'[e] # NoMsg => Admitted(SessionOf(e), target'[e])
      BY <1>0, <3>1 DEF ReplyInv
    <3>3. pc'[e] # "download"
      BY <3>1 DEF Finished
    <3>4. QED
      BY <1>0, <2>0, <2>4, <3>1, <3>2, <3>3
         DEF ReplyInv, Admitted, SenderAllowed, Message, Chat, SessionOf
  <2>5. CASE Arrive(e)
    <3>1. /\ Message(e) /\ pc[e] = "idle" /\ UNCHANGED <<lastMsg, target>>
          /\ seen' = seen \cup {Event[e].msg}
          /\ pc'[e] = IF Event[e].msg \in seen THEN "dropped" ELSE "persist"
      BY <1>0, <2>5 DEF Arrive, Goto, Record
    <3>2. \A f \in Events : Message(f) /\ pc[f] # "idle" => Event[f].msg \in seen
      BY DEF SeenInv
    <3>3. SeenInv'
      BY <2>0, <3>1, <3>2 DEF SeenInv, Message
    <3>4. QED
      BY <2>1, <2>3, <3>1, <3>3
  <2>6. CASE Refuse(e)
    <3>1. /\ pc[e] = "persist" /\ pc'[e] = "dropped" /\ Message(e)
          /\ UNCHANGED <<seen, lastMsg, target>>
      BY <1>0, <2>6 DEF Refuse, Goto, KindInv
    <3>2. QED
      BY <2>1, <2>2, <2>3, <3>1
  <2>7. CASE Download(e)
    <3>1. /\ pc[e] = "persist" /\ pc'[e] = "download" /\ Message(e) /\ SenderAllowed(e)
          /\ UNCHANGED <<seen, lastMsg, target>>
      BY <1>0, <2>7 DEF Download, Goto, KindInv
    <3>2. ReplyInv'
      BY <2>0, <3>1 DEF ReplyInv, Admitted, SenderAllowed, Message, Chat, SessionOf
    <3>3. QED
      BY <2>1, <2>2, <3>1, <3>2
  <2>8. CASE Request(e)
    <3>1. /\ pc[e] \in {"persist", "download"} /\ pc'[e] \in {"typing", "waiting"}
          /\ Message(e) /\ SenderAllowed(e) /\ UNCHANGED <<seen, target>>
          /\ lastMsg' = [lastMsg EXCEPT ![SessionOf(e)] = Event[e].msg]
      BY <1>0, <2>8 DEF Request, Goto, KindInv, ReplyInv
    <3>2. Admitted(SessionOf(e), Event[e].msg)
      BY <3>1 DEF Admitted, SessionOf
    <3>3. \A s \in Chats \X Users : lastMsg'[s] # NoMsg => Admitted(s, lastMsg'[s])
      BY <1>0, <3>1, <3>2 DEF ReplyInv
    <3>4. ReplyInv'
      BY <2>0, <3>1, <3>3 DEF ReplyInv, Admitted, SenderAllowed, Message, Chat, SessionOf
    <3>5. QED
      BY <2>1, <2>2, <3>1, <3>4
  <2>9. CASE Wake(e) \/ Release(e) \/ Posted(e)
    <3>1. /\ pc[e] \notin {"idle", "dropped"} /\ UNCHANGED <<seen, lastMsg, target>>
          /\ pc'[e] \in {"typing", "ended", Finished(e)}
          /\ pc'[e] = "typing" => Message(e)
      BY <1>0, <2>9 DEF Wake, Release, Posted, Goto, KindInv, Finished
    <3>2. QED
      BY <2>1, <2>2, <2>3, <3>1 DEF Finished
  <2>10. CASE Dispatch(e) \/ AgentReturns(e)
    <3>1. /\ Message(e) => pc[e] \notin {"idle", "dropped"}
          /\ UNCHANGED <<seen, lastMsg>>
          /\ \/ Send(e)
             \/ pc'[e] \in {Finished(e), "agent"} /\ UNCHANGED target
      BY <1>0, <2>10 DEF Dispatch, AgentReturns, Goto
    <3>2. ReplyInv' /\ pc'[e] \in {Finished(e), "agent", "sending"}
      BY <2>3, <2>4, <3>1 DEF Finished
    <3>3. QED
      BY <2>1, <2>2, <3>1, <3>2 DEF Finished
  <2>11. QED
    BY <1>1, <2>5, <2>6, <2>7, <2>8, <2>9, <2>10 DEF Deliver, Progress
<1>2. CASE UNCHANGED vars
  BY <1>2 DEF vars, KindInv, SeenInv, ReplyInv, Admitted, SenderAllowed, Message, Chat, SessionOf
<1>3. QED
  BY <1>1, <1>2 DEF Next, Quiet

LEMMA HandlingHolds == Spec => []HandlingInv
<1>1. TypeOK /\ HandlingInv /\ [Next]_vars => HandlingInv'
  BY HandlingNext
<1>2. QED
  BY HandlingInit, <1>1, TypeCorrect, PTL DEF Spec

(* A redelivered message is handled once, wherever the first delivery      *)
(* stands when the second one comes in.                                    *)
THEOREM HandledOnceHolds == Spec => []HandledOnce
<1>1. HandlingInv => HandledOnce
  BY DEF HandlingInv, SeenInv, HandledOnce, Handled
<1>2. QED
  BY <1>1, HandlingHolds, PTL

(* A reply is posted to a message of the session it answers, whatever      *)
(* other messages, of the chat or of the user, came in meanwhile.          *)
THEOREM ReplyStaysInSessionHolds == Spec => []ReplyStaysInSession
<1>1. HandlingInv => ReplyStaysInSession
  BY DEF HandlingInv, ReplyInv, Admitted, SessionOf, ReplyStaysInSession
<1>2. QED
  BY <1>1, HandlingHolds, PTL
-----------------------------------------------------------------------------
(* The order of the waiters *)

(* The waiters of a lock are exactly the waiting tasks that hold on to it, *)
(* each once, in the order of their requests.                              *)
WaiterInv ==
  /\ \A l \in Events : Distinct(waiters[l])
  /\ \A l \in Events : \A p \in DOMAIN waiters[l] :
       waiters[l][p] \in Queued /\ held[waiters[l][p]] = l
  /\ \A e \in Queued : \E p \in DOMAIN waiters[held[e]] : waiters[held[e]][p] = e

AskedInv ==
  \A i \in DOMAIN requests : requests[i] \in Queued \/ Handled(requests[i])

InOrder(i, j) ==
  \A p, q \in DOMAIN waiters[held[requests[j]]] :
    /\ waiters[held[requests[j]]][p] = requests[i]
    /\ waiters[held[requests[j]]][q] = requests[j]
    => p < q

SequenceInv ==
  \A i, j \in DOMAIN requests :
    i < j /\ requests[i] \in Queued /\ requests[j] \in Queued => InOrder(i, j)

(* Who asks later for the lock of a chat gets the same one, unless it was  *)
(* evicted meanwhile.                                                      *)
Together(i, j) ==
  Chat(requests[i]) = Chat(requests[j])
    => held[requests[i]] \in evicted \/ held[requests[j]] = held[requests[i]]
TogetherInv ==
  /\ \A i \in DOMAIN requests : Message(requests[i])
  /\ \A i, j \in DOMAIN requests : i < j => Together(i, j)

(* Among those of one lock a waiter has nobody handled after it.           *)
LaneInv ==
  \A i, j \in DOMAIN requests :
    i < j /\ held[requests[i]] = held[requests[j]] /\ Handled(requests[j])
      => Handled(requests[i])

OrderInv == WaiterInv /\ AskedInv /\ SequenceInv /\ LaneInv

LEMMA OrderInit == Init => OrderInv
<1> SUFFICES ASSUME Init PROVE OrderInv
  OBVIOUS
<1>1. /\ requests = <<>> /\ DOMAIN requests = {}
      /\ \A l \in Events : waiters[l] = <<>> /\ DOMAIN waiters[l] = {}
      /\ Queued = {}
  BY DEF Init, Queued
<1>2. QED
  BY <1>1 DEF OrderInv, WaiterInv, AskedInv, SequenceInv, LaneInv, Distinct

(* A step of task e that leaves the locks alone, with e neither waiting    *)
(* before nor after it and handled after it if it was before.              *)
LEMMA OrderUnmoved ==
  ASSUME TypeOK, OrderInv, NEW e \in Events,
         \A f \in Events \ {e} : pc'[f] = pc[f],
         pc[e] # "waiting", pc'[e] # "waiting",
         Handled(e) => Handled(e)', \A i \in DOMAIN requests : requests[i] = e => Handled(e),
         UNCHANGED <<waiters, held, requests>>
  PROVE  OrderInv'
<1>1. requests \in Seq(Events) /\ \A i \in DOMAIN requests : requests[i] \in Events
  BY DEF TypeOK
<1>2. Queued' = Queued
  BY DEF Queued
<1>3. \A i \in DOMAIN requests : Handled(requests[i])' <=> Handled(requests[i])
  BY <1>1 DEF Handled
<1>4. WaiterInv'
  BY <1>2 DEF OrderInv, WaiterInv, Distinct
<1>5. AskedInv'
  BY <1>2, <1>3 DEF OrderInv, AskedInv
<1>6. SequenceInv'
  BY <1>2 DEF OrderInv, SequenceInv, InOrder
<1>7. LaneInv'
  BY <1>3 DEF OrderInv, LaneInv
<1>8. QED
  BY <1>4, <1>5, <1>6, <1>7 DEF OrderInv

(* A task whose lock has neither holder nor waiter goes ahead: nobody is   *)
(* waiting for that lock.                                                  *)
LEMMA OrderAtOnce ==
  ASSUME TypeOK, OrderInv, NEW e \in Events,
         \A f \in Events \ {e} : pc'[f] = pc[f] /\ held'[f] = held[f],
         pc[e] \in {"persist", "download"}, pc'[e] = "typing", waiters' = waiters,
         requests' = Append(requests, e),
         \A f \in Queued : held[f] # held'[e]
  PROVE  OrderInv'
<1> DEFINE n == Len(requests)
<1>1. /\ n \in Nat /\ DOMAIN requests = 1..n /\ DOMAIN requests' = 1..(n + 1)
      /\ \A i \in 1..n : requests'[i] = requests[i] /\ requests[i] \in Events
      /\ requests'[n + 1] = e
  BY DEF TypeOK
<1>2. Queued' = Queued /\ e \notin Queued /\ ~Handled(e)
  BY DEF Queued, Handled
<1>3. \A i \in 1..n : requests[i] # e /\ (Handled(requests[i])' <=> Handled(requests[i]))
  <2>1. \A i \in 1..n : requests[i] # e
    BY <1>1, <1>2 DEF OrderInv, AskedInv
  <2>2. QED
    BY <1>1, <2>1 DEF Handled
<1>4. Handled(e)'
  BY DEF Handled
<1>5. WaiterInv'
  <2>1. \A f \in Queued : f # e /\ held'[f] = held[f] /\ held[f] \in Events
    BY <1>2 DEF Queued, TypeOK
  <2>2. \A l \in Events : Distinct(waiters[l])'
    BY DEF OrderInv, WaiterInv, Distinct
  <2>3. \A l \in Events : \A p \in DOMAIN waiters[l] : waiters[l][p] \in Queued /\ held[waiters[l][p]] = l
    BY DEF OrderInv, WaiterInv
  <2>4. \A f \in Queued : \E p \in DOMAIN waiters[held[f]] : waiters[held[f]][p] = f
    BY DEF OrderInv, WaiterInv
  <2>5. QED
    BY <1>2, <2>1, <2>2, <2>3, <2>4 DEF WaiterInv
<1>6. AskedInv'
  BY <1>1, <1>2, <1>3, <1>4 DEF OrderInv, AskedInv
<1>7. SequenceInv'
  <2> SUFFICES ASSUME NEW i \in 1..(n + 1), NEW j \in 1..(n + 1), i < j,
                      requests'[i] \in Queued, requests'[j] \in Queued
               PROVE  InOrder(i, j)'
    BY <1>1, <1>2 DEF SequenceInv
  <2>1. i \in 1..n /\ j \in 1..n
    BY <1>1, <1>2
  <2>2. InOrder(i, j) /\ requests[j] # e
    BY <1>1, <1>3, <2>1 DEF OrderInv, SequenceInv
  <2>3. held'[requests[j]] = held[requests[j]]
    BY <1>1, <2>1, <2>2
  <2>4. QED
    BY <1>1, <2>1, <2>2, <2>3 DEF InOrder
<1>8. LaneInv'
  <2> SUFFICES ASSUME NEW i \in 1..(n + 1), NEW j \in 1..(n + 1), i < j,
                      held'[requests'[i]] = held'[requests'[j]], Handled(requests[j])'
               PROVE  Handled(requests[i])'
    BY <1>1 DEF LaneInv
  <2>1. i \in 1..n /\ held'[requests'[i]] = held[requests[i]]
    BY <1>1, <1>3
  <2>2. CASE j \in 1..n
    <3>1. held[requests[i]] = held[requests[j]] /\ Handled(requests[j])
      BY <1>1, <1>3, <2>1, <2>2
    <3>2. Handled(requests[i])
      BY <1>1, <2>1, <2>2, <3>1 DEF OrderInv, LaneInv
    <3>3. QED
      BY <1>1, <1>3, <2>1, <3>2
  <2>3. CASE j = n + 1
    <3>1. requests[i] \notin Queued
      BY <1>1, <2>1, <2>3
    <3>2. QED
      BY <1>1, <1>3, <2>1, <3>1 DEF OrderInv, AskedInv
  <2>4. QED
    BY <1>1, <2>2, <2>3
<1>9. QED
  BY <1>5, <1>6, <1>7, <1>8 DEF OrderInv

(* A task that has to wait is appended to the waiters.                     *)
LEMMA OrderWait ==
  ASSUME TypeOK, OrderInv, NEW e \in Events, NEW k \in Events,
         \A f \in Events \ {e} : pc'[f] = pc[f] /\ held'[f] = held[f],
         pc[e] \in {"persist", "download"}, pc'[e] = "waiting", held'[e] = k,
         waiters' = [waiters EXCEPT ![k] = Append(@, e)],
         requests' = Append(requests, e)
  PROVE  OrderInv'
<1> DEFINE n == Len(requests)
           m == Len(waiters[k])
<1>1. /\ n \in Nat /\ DOMAIN requests = 1..n /\ DOMAIN requests' = 1..(n + 1)
      /\ \A i \in 1..n : requests'[i] = requests[i] /\ requests[i] \in Events
      /\ requests'[n + 1] = e
  BY DEF TypeOK
<1>2. Queued' = Queued \cup {e} /\ e \notin Queued /\ ~Handled(e) /\ ~Handled(e)'
  BY DEF Queued, Handled
<1>3. \A i \in 1..n : requests[i] # e /\ (Handled(requests[i])' <=> Handled(requests[i]))
  <2>1. \A i \in 1..n : requests[i] # e
    BY <1>1, <1>2 DEF OrderInv, AskedInv
  <2>2. QED
    BY <1>1, <2>1 DEF Handled
<1>4. /\ m \in Nat /\ DOMAIN waiters[k] = 1..m /\ DOMAIN waiters'[k] = 1..(m + 1)
      /\ \A p \in 1..m : waiters'[k][p] = waiters[k][p]
      /\ waiters'[k][m + 1] = e
      /\ \A l \in Events \ {k} : waiters'[l] = waiters[l]
  <2>1. waiters[k] \in Seq(Events) /\ waiters'[k] = Append(waiters[k], e)
    BY DEF TypeOK
  <2>2. \A l \in Events \ {k} : waiters'[l] = waiters[l]
    BY DEF TypeOK
  <2>3. QED
    BY <2>1, <2>2
<1>5. \A f \in Queued : f # e /\ held'[f] = held[f] /\ held[f] \in Events
  BY <1>2 DEF Queued, TypeOK
<1>6. \A l \in Events : \A p \in DOMAIN waiters[l] : waiters[l][p] \in Queued /\ held[waiters[l][p]] = l
  BY DEF OrderInv, WaiterInv
<1> HIDE DEF n, m
<1>7. WaiterInv'
  <2>1. ASSUME NEW l \in Events PROVE Distinct(waiters'[l])
    <3>1. Distinct(waiters[l])
      BY DEF OrderInv, WaiterInv
    <3>2. CASE l = k
      BY <1>2, <1>4, <1>6, <3>1, <3>2 DEF Distinct
    <3>3. CASE l # k
      BY <1>4, <3>1, <3>3
    <3>4. QED
      BY <3>2, <3>3
  <2>2. ASSUME NEW l \in Events, NEW p \in DOMAIN waiters'[l]
        PROVE  waiters'[l][p] \in Queued' /\ held'[waiters'[l][p]] = l
    <3>1. CASE l = k /\ p = m + 1
      BY <1>2, <1>4, <3>1
    <3>2. CASE ~(l = k /\ p = m + 1)
      <4>1. p \in DOMAIN waiters[l] /\ waiters'[l][p] = waiters[l][p]
        BY <1>4, <2>2, <3>2
      <4>2. QED
        BY <1>2, <1>5, <1>6, <4>1
    <3>3. QED
      BY <3>1, <3>2
  <2>3. ASSUME NEW f \in Queued'
        PROVE  \E p \in DOMAIN waiters'[held'[f]] : waiters'[held'[f]][p] = f
    <3>1. CASE f = e
      <4>1. held'[f] = k /\ m + 1 \in DOMAIN waiters'[k] /\ waiters'[k][m + 1] = e
        BY <1>4, <3>1
      <4>2. QED
        BY <3>1, <4>1
    <3>2. CASE f # e
      <4>1. f \in Queued /\ held'[f] = held[f] /\ held[f] \in Events
        BY <1>2, <1>5, <3>2
      <4>2. PICK p \in DOMAIN waiters[held[f]] : waiters[held[f]][p] = f
        BY <4>1 DEF OrderInv, WaiterInv
      <4>3. p \in DOMAIN waiters'[held[f]] /\ waiters'[held[f]][p] = f
        BY <1>4, <4>1, <4>2
      <4>4. QED
        BY <4>1, <4>3
    <3>3. QED
      BY <3>1, <3>2
  <2>4. (\A l \in Events : Distinct(waiters'[l])) => \A l \in Events : Distinct(waiters[l])'
    BY DEF Distinct
  <2>5. QED
    BY <2>1, <2>2, <2>3, <2>4 DEF WaiterInv
<1>8. AskedInv'
  BY <1>1, <1>2, <1>3 DEF OrderInv, AskedInv
<1>9. SequenceInv'
  <2> SUFFICES ASSUME NEW i \in 1..(n + 1), NEW j \in 1..(n + 1), i < j,
                      requests'[i] \in Queued', requests'[j] \in Queued'
               PROVE  InOrder(i, j)'
    BY <1>1 DEF SequenceInv
  <2> SUFFICES ASSUME NEW p \in DOMAIN waiters'[held'[requests'[j]]],
                      NEW q \in DOMAIN waiters'[held'[requests'[j]]],
                      waiters'[held'[requests'[j]]][p] = requests'[i],
                      waiters'[held'[requests'[j]]][q] = requests'[j]
               PROVE  p < q
    BY DEF InOrder
  <2>1. i \in 1..n /\ requests[i] # e /\ requests[i] \in Queued /\ requests'[i] = requests[i]
    BY <1>1, <1>2, <1>3
  <2>2. CASE j \in 1..n
    <3> DEFINE l == held[requests[j]]
    <3>1. /\ requests'[j] = requests[j] /\ requests[j] # e /\ requests[j] \in Queued
          /\ held'[requests[j]] = l /\ l \in Events
      BY <1>1, <1>2, <1>3, <1>5, <2>2
    <3> HIDE DEF l
    <3>2. /\ p \in DOMAIN waiters[l] /\ waiters[l][p] = requests[i]
          /\ q \in DOMAIN waiters[l] /\ waiters[l][q] = requests[j]
      BY <1>4, <2>1, <3>1
    <3>3. InOrder(i, j)
      BY <1>1, <2>1, <2>2, <3>1 DEF OrderInv, SequenceInv
    <3>4. QED
      BY <3>2, <3>3 DEF InOrder, l
  <2>3. CASE j = n + 1
    <3>1. requests'[j] = e /\ held'[e] = k
      BY <1>1, <2>3
    <3>2. q = m + 1 /\ p \in 1..(m + 1) /\ p # m + 1
      <4>1. p \in 1..(m + 1) /\ q \in 1..(m + 1) /\ waiters'[k][p] # e /\ waiters'[k][q] = e
        BY <1>4, <2>1, <3>1
      <4>2. \A r \in 1..m : waiters'[k][r] # e
        BY <1>2, <1>4, <1>6
      <4>3. QED
        BY <1>4, <4>1, <4>2
    <3>3. QED
      BY <1>4, <3>2
  <2>4. QED
    BY <1>1, <2>2, <2>3
<1>10. LaneInv'
  <2> SUFFICES ASSUME NEW i \in 1..(n + 1), NEW j \in 1..(n + 1), i < j,
                      held'[requests'[i]] = held'[requests'[j]], Handled(requests[j])'
               PROVE  Handled(requests[i])'
    BY <1>1 DEF LaneInv
  <2>1. j \in 1..n
    <3>1. requests'[j] # e
      BY <1>2 DEF Handled
    <3>2. QED
      BY <1>1, <3>1
  <2>2. i \in 1..n
    BY <1>1, <2>1
  <2>3. held[requests[i]] = held[requests[j]] /\ Handled(requests[j])
    BY <1>1, <1>3, <2>1, <2>2
  <2>4. Handled(requests[i])
    BY <1>1, <2>1, <2>2, <2>3 DEF OrderInv, LaneInv
  <2>5. QED
    BY <1>1, <1>3, <2>2, <2>4
<1>11. QED
  BY <1>7, <1>8, <1>9, <1>10 DEF OrderInv

(* The first waiter of a released lock goes ahead: no earlier request for  *)
(* that lock is still waiting.                                             *)
LEMMA OrderWake ==
  ASSUME TypeOK, OrderInv, NEW e \in Events, Wake(e)
  PROVE  OrderInv'
<1> DEFINE k == held[e]
           m == Len(waiters[k])
<1>1. /\ pc[e] = "waiting" /\ pc'[e] = "typing"
      /\ \A f \in Events \ {e} : pc'[f] = pc[f]
      /\ held' = held /\ requests' = requests /\ k \in Events
      /\ waiters[k] \in Seq(Events) /\ waiters[k] # <<>> /\ Head(waiters[k]) = e
      /\ waiters' = [waiters EXCEPT ![k] = Tail(@)]
  BY DEF Wake, Goto, TypeOK
<1>2. /\ m \in Nat \ {0} /\ DOMAIN waiters[k] = 1..m /\ DOMAIN waiters'[k] = 1..(m - 1)
      /\ \A p \in 1..(m - 1) : waiters'[k][p] = waiters[k][p + 1] /\ p + 1 \in 1..m
      /\ waiters[k][1] = e
      /\ \A l \in Events \ {k} : waiters'[l] = waiters[l]
  <2>1. waiters'[k] = Tail(waiters[k]) /\ \A l \in Events \ {k} : waiters'[l] = waiters[l]
    BY <1>1 DEF TypeOK
  <2>2. /\ m \in Nat \ {0} /\ DOMAIN waiters[k] = 1..m /\ waiters[k][1] = e
        /\ Tail(waiters[k]) \in Seq(Events) /\ Len(Tail(waiters[k])) = m - 1
        /\ \A p \in 1..(m - 1) : Tail(waiters[k])[p] = waiters[k][p + 1]
    <3> DEFINE w == waiters[k]
    <3>1. w \in Seq(Events) /\ w # <<>> /\ Head(w) = e
      BY <1>1
    <3> HIDE DEF w
    <3>2. /\ Len(w) \in Nat \ {0} /\ DOMAIN w = 1..Len(w) /\ w[1] = e
          /\ Tail(w) \in Seq(Events) /\ Len(Tail(w)) = Len(w) - 1
          /\ \A p \in 1..(Len(w) - 1) : Tail(w)[p] = w[p + 1]
      BY <3>1, HeadTailProperties, EmptySeq
    <3>3. QED
      BY <3>2 DEF w
  <2>3. DOMAIN Tail(waiters[k]) = 1..(m - 1)
    BY <2>2
  <2> HIDE DEF k, m
  <2>4. \A p \in 1..(m - 1) : p + 1 \in 1..m
    BY <2>2
  <2>5. QED
    BY <2>1, <2>2, <2>3, <2>4
<1>3. Queued' = Queued \ {e} /\ e \in Queued /\ Handled(e)'
  BY <1>1 DEF Queued, Handled
<1>4. \A f \in Events \ {e} : Handled(f)' <=> Handled(f)
  BY <1>1 DEF Handled
<1>5. \A i \in DOMAIN requests : requests[i] \in Events
  BY DEF TypeOK
<1>6. /\ \A l \in Events : Distinct(waiters[l])
      /\ \A l \in Events : \A p \in DOMAIN waiters[l] :
           waiters[l][p] \in Queued /\ held[waiters[l][p]] = l
  BY DEF OrderInv, WaiterInv
<1> HIDE DEF m
(* Where an entry of a queue stood before.                                 *)
<1>7. ASSUME NEW l \in Events, NEW p \in DOMAIN waiters'[l]
      PROVE  /\ l = k => p + 1 \in DOMAIN waiters[k] /\ waiters'[k][p] = waiters[k][p + 1]
                         /\ waiters'[k][p] # e /\ p \in Int
             /\ l # k => p \in DOMAIN waiters[l] /\ waiters'[l][p] = waiters[l][p]
                         /\ waiters'[l][p] # e
  <2>1. CASE l = k
    <3>1. p \in 1..(m - 1) /\ p + 1 \in 1..m /\ p + 1 # 1 /\ 1 \in 1..m
      BY <1>2, <1>7, <2>1
    <3>2. waiters[k][p + 1] # waiters[k][1]
      BY <1>1, <1>2, <1>6, <3>1 DEF Distinct
    <3>3. QED
      BY <1>2, <2>1, <3>1, <3>2
  <2>2. CASE l # k
    BY <1>2, <1>6, <1>7, <2>2
  <2>3. QED
    BY <2>1, <2>2
<1>8. WaiterInv'
  <2>1. ASSUME NEW l \in Events PROVE Distinct(waiters'[l])
    <3>1. CASE l = k
      <4> SUFFICES ASSUME NEW p \in DOMAIN waiters'[k], NEW q \in DOMAIN waiters'[k],
                          waiters'[k][p] = waiters'[k][q]
                   PROVE  p = q
        BY <3>1 DEF Distinct
      <4>1. p + 1 = q + 1 /\ p \in Int /\ q \in Int
        BY <1>1, <1>6, <1>7 DEF Distinct
      <4>2. QED
        BY <4>1
    <3>2. CASE l # k
      BY <1>2, <1>6, <3>2
    <3>3. QED
      BY <3>1, <3>2
  <2>2. \A l \in Events : \A p \in DOMAIN waiters'[l] :
          waiters'[l][p] \in Queued' /\ held'[waiters'[l][p]] = l
    BY <1>1, <1>3, <1>6, <1>7
  <2>3. ASSUME NEW f \in Queued'
        PROVE  \E p \in DOMAIN waiters'[held'[f]] : waiters'[held'[f]][p] = f
    <3>1. f \in Queued /\ f # e /\ held[f] \in Events
      BY <1>3 DEF Queued, TypeOK
    <3>2. PICK p \in DOMAIN waiters[held[f]] : waiters[held[f]][p] = f
      BY <3>1 DEF OrderInv, WaiterInv
    <3>3. CASE held[f] = k
      <4>1. p \in 1..m /\ p # 1
        BY <1>2, <3>1, <3>2, <3>3
      <4>2. p - 1 \in 1..(m - 1) /\ (p - 1) + 1 = p
        BY <1>2, <4>1
      <4>3. QED
        BY <1>1, <1>2, <3>2, <3>3, <4>2
    <3>4. CASE held[f] # k
      BY <1>1, <1>2, <3>1, <3>2, <3>4
    <3>5. QED
      BY <3>3, <3>4
  <2>4. (\A l \in Events : Distinct(waiters'[l])) => \A l \in Events : Distinct(waiters[l])'
    BY DEF Distinct
  <2>5. QED
    BY <2>1, <2>2, <2>3, <2>4 DEF WaiterInv
<1>9. AskedInv'
  BY <1>1, <1>3, <1>4, <1>5 DEF OrderInv, AskedInv
<1>10. SequenceInv'
  <2> SUFFICES ASSUME NEW i \in DOMAIN requests, NEW j \in DOMAIN requests, i < j,
                      requests[i] \in Queued', requests[j] \in Queued'
               PROVE  InOrder(i, j)'
    BY <1>1 DEF SequenceInv
  <2> SUFFICES ASSUME NEW p \in DOMAIN waiters'[held[requests[j]]],
                      NEW q \in DOMAIN waiters'[held[requests[j]]],
                      waiters'[held[requests[j]]][p] = requests[i],
                      waiters'[held[requests[j]]][q] = requests[j]
               PROVE  p < q
    BY <1>1 DEF InOrder
  <2> DEFINE l == held[requests[j]]
  <2>1. l \in Events /\ InOrder(i, j)
    BY <1>3, <1>5 DEF OrderInv, SequenceInv, TypeOK
  <2>2. CASE l = k
    <3>1. p + 1 < q + 1 /\ p \in Int /\ q \in Int
      BY <1>7, <2>1, <2>2 DEF InOrder
    <3>2. QED
      BY <3>1
  <2>3. CASE l # k
    BY <1>7, <2>1, <2>3 DEF InOrder
  <2>4. QED
    BY <2>2, <2>3
<1>11. LaneInv'
  <2> SUFFICES ASSUME NEW i \in DOMAIN requests, NEW j \in DOMAIN requests, i < j,
                      held[requests[i]] = held[requests[j]], Handled(requests[j])'
               PROVE  Handled(requests[i])'
    BY <1>1 DEF LaneInv
  <2>1. CASE requests[i] = e
    BY <1>1, <1>3, <2>1
  <2>2. CASE requests[i] # e /\ requests[j] # e
    <3>1. Handled(requests[j])
      BY <1>1, <1>4, <1>5, <2>2
    <3>2. Handled(requests[i])
      BY <3>1 DEF OrderInv, LaneInv
    <3>3. QED
      BY <1>1, <1>4, <1>5, <2>2, <3>2
  <2>3. CASE requests[i] # e /\ requests[j] = e
    <3>1. ASSUME requests[i] \in Queued PROVE FALSE
      <4>1. held[requests[i]] = k
        BY <2>3
      <4>2. PICK p \in DOMAIN waiters[k] : waiters[k][p] = requests[i]
        BY <3>1, <4>1 DEF OrderInv, WaiterInv
      <4>3. p < 1
        <5>1. InOrder(i, j) /\ 1 \in DOMAIN waiters[k]
          BY <1>2, <1>3, <2>3, <3>1 DEF OrderInv, SequenceInv
        <5>2. QED
          BY <1>2, <2>3, <4>2, <5>1 DEF InOrder
      <4>4. QED
        BY <1>2, <4>2, <4>3
    <3>2. Handled(requests[i])
      BY <3>1 DEF OrderInv, AskedInv
    <3>3. QED
      BY <1>1, <1>4, <1>5, <2>3, <3>2
  <2>4. QED
    BY <2>1, <2>2, <2>3
<1>12. QED
  BY <1>8, <1>9, <1>10, <1>11 DEF OrderInv

LEMMA OrderNext ==
  ASSUME TypeOK, OrderInv, [Next]_vars
  PROVE  OrderInv'
<1>0. /\ pc \in [Events -> PC] /\ held \in [Events -> Events]
      /\ waiters \in [Events -> Seq(Events)]
      /\ \A i \in DOMAIN requests : requests[i] \in Events
  BY DEF TypeOK
<1>1. ASSUME NEW e \in Events, Deliver(e) \/ Progress(e)
      PROVE  OrderInv'
  <2>0. \A f \in Events \ {e} : pc'[f] = pc[f]
    BY <1>0, <1>1 DEF Deliver, Progress, Arrive, Refuse, Download, Request, Wake, Dispatch,
                      AgentReturns, Posted, Release, Goto, Send
  <2>1. (e \in Queued \/ Handled(e)) \/ \A i \in DOMAIN requests : requests[i] # e
    BY DEF OrderInv, AskedInv
  <2>2. CASE Arrive(e) \/ Refuse(e) \/ Download(e)
    <3>1. /\ pc[e] \in {"idle", "persist"} /\ pc'[e] \in {"dropped", "persist", "download"}
          /\ UNCHANGED <<waiters, held, requests>>
      BY <1>0, <2>2 DEF Arrive, Refuse, Download, Goto, lockVars
    <3>2. ~Handled(e) /\ e \notin Queued
      BY <3>1 DEF Handled, Queued
    <3>3. QED
      BY <2>0, <2>1, <3>1, <3>2, OrderUnmoved
  <2>3. CASE Dispatch(e) \/ AgentReturns(e) \/ Posted(e) \/ Release(e)
    <3>1. /\ pc[e] # "waiting" /\ pc'[e] \in {"agent", "sending", "clearing", "ended"}
          /\ UNCHANGED <<waiters, held, requests>>
      <4>1. pc[e] # "waiting" /\ UNCHANGED <<waiters, held, requests>>
        BY <2>3 DEF Dispatch, AgentReturns, Posted, Release, lockVars
      <4>2. pc'[e] \in {"agent", "sending", "clearing", "ended"}
        BY <1>0, <2>3 DEF Dispatch, AgentReturns, Posted, Release, Goto, Send, Finished
      <4>3. QED
        BY <4>1, <4>2
    <3>2. Handled(e)' /\ e \notin Queued
      BY <3>1 DEF Handled, Queued
    <3>3. QED
      BY <2>0, <2>1, <3>1, <3>2, OrderUnmoved
  <2>4. CASE Request(e)
    <3>1. /\ pc[e] \in {"persist", "download"} /\ GetChatLock(Chat(e), e)
          /\ requests' = Append(requests, e)
      BY <2>4 DEF Request
    <3>2. held'[e] \in Events /\ \A f \in Events \ {e} : held'[f] = held[f]
      BY <3>1, GetChatLockProps, PoolStep
    <3>3. CASE AtOnce(held'[e])
      <4>1. pc'[e] = "typing" /\ waiters' = waiters /\ waiters[held'[e]] = <<>>
        BY <1>0, <2>4, <3>3 DEF Request, Goto, AtOnce
      <4>2. \A f \in Queued : held[f] # held'[e]
        <5>1. \A f \in Queued : DOMAIN waiters[held[f]] # {}
          BY DEF OrderInv, WaiterInv
        <5>2. DOMAIN waiters[held'[e]] = {}
          BY <4>1
        <5>3. QED
          BY <5>1, <5>2
      <4>3. QED
        BY <2>0, <3>1, <3>2, <4>1, <4>2, OrderAtOnce
    <3>4. CASE ~AtOnce(held'[e])
      <4>1. pc'[e] = "waiting" /\ waiters' = [waiters EXCEPT ![held'[e]] = Append(@, e)]
        BY <1>0, <2>4, <3>4 DEF Request, Goto
      <4> DEFINE l == held'[e]
      <4>2. l \in Events /\ waiters' = [waiters EXCEPT ![l] = Append(@, e)] /\ held'[e] = l
        BY <3>2, <4>1
      <4> HIDE DEF l
      <4>3. QED
        BY <2>0, <3>1, <3>2, <4>1, <4>2, OrderWait
    <3>5. QED
      BY <3>3, <3>4
  <2>5. CASE Wake(e)
    BY <2>5, OrderWake
  <2>6. QED
    BY <1>1, <2>2, <2>3, <2>4, <2>5 DEF Deliver, Progress
<1>2. CASE UNCHANGED vars
  BY <1>2 DEF vars, OrderInv, WaiterInv, AskedInv, SequenceInv, InOrder, LaneInv,
              Queued, Handled, Distinct
<1>3. QED
  BY <1>1, <1>2 DEF Next, Quiet

LEMMA TogetherNext ==
  ASSUME TypeOK, LockInv, AskedInv, TogetherInv, [Next]_vars
  PROVE  TogetherInv'
<1>1. /\ requests \in Seq(Events) /\ \A i \in DOMAIN requests : requests[i] \in Events
  BY DEF TypeOK
<1>2. CASE UNCHANGED <<held, evicted, requests>>
  BY <1>2 DEF TogetherInv, Together, Chat, Message
<1>3. ASSUME NEW e \in Events, Request(e)
      PROVE  TogetherInv'
  <2> DEFINE n == Len(requests)
  <2>1. /\ n \in Nat /\ DOMAIN requests = 1..n /\ DOMAIN requests' = 1..(n + 1)
        /\ \A i \in 1..n : requests'[i] = requests[i] /\ requests[i] \in Events
        /\ requests'[n + 1] = e
    BY <1>1, <1>3 DEF Request
  <2> HIDE DEF n
  <2>2. /\ GetChatLock(Chat(e), e) /\ pc[e] \in {"persist", "download"} /\ Message(e)
    BY <1>3 DEF Request, LockInv, KindInv
  <2>3. /\ Chat(e) \in DOMAIN pool' /\ held'[e] = pool'[Chat(e)]
        /\ \A f \in Events \ {e} : held'[f] = held[f]
        /\ evicted \subseteq evicted'
        /\ \A d \in DOMAIN pool :
                pool[d] \in evicted' \/ (d \in DOMAIN pool' /\ pool'[d] = pool[d])
    BY <2>2, PoolStep
  <2>4. ASSUME NEW i \in 1..n
        PROVE  /\ requests[i] # e /\ held'[requests[i]] = held[requests[i]]
               /\ Given(requests[i])
    <3>1. requests[i] \in Queued \/ Handled(requests[i])
      BY <2>1 DEF AskedInv
    <3>2. requests[i] # e
      BY <2>2, <3>1 DEF Queued, Handled
    <3>3. Message(requests[i])
      BY <2>1 DEF TogetherInv
    <3>4. QED
      BY <2>1, <2>3, <3>1, <3>2, <3>3 DEF Given, Queued
  <2>10. \A i \in 1..(n + 1) : Message(requests'[i])
    BY <2>1, <2>2, <2>4 DEF Given
  <2>5. SUFFICES ASSUME NEW i \in 1..(n + 1), NEW j \in 1..(n + 1), i < j,
                        Chat(requests'[i]) = Chat(requests'[j])
                 PROVE  held'[requests'[i]] \in evicted' \/ held'[requests'[j]] = held'[requests'[i]]
    BY <2>1, <2>10 DEF TogetherInv, Together, Chat, Message
  <2>6. i \in 1..n
    BY <2>1, <2>5
  <2>7. CASE j \in 1..n
    <3>1. held[requests[i]] \in evicted \/ held[requests[j]] = held[requests[i]]
      BY <2>1, <2>5, <2>6, <2>7 DEF TogetherInv, Together
    <3>2. QED
      BY <2>1, <2>3, <2>4, <2>6, <2>7, <3>1
  <2>8. CASE j = n + 1
    <3> DEFINE f == requests[i]
    <3>1. f \in Events /\ Given(f) /\ held'[f] = held[f] /\ Chat(f) = Chat(e)
          /\ requests'[i] = f /\ requests'[j] = e
      BY <2>1, <2>4, <2>5, <2>6, <2>8
    <3>2. held[f] \in evicted \/ (Chat(e) \in DOMAIN pool /\ held[f] = pool[Chat(e)])
      BY <3>1 DEF LockInv, BelongInv
    <3> HIDE DEF f
    <3>3. QED
      BY <2>3, <3>1, <3>2
  <2>9. QED
    BY <2>1, <2>7, <2>8
<1>4. QED
  BY <1>2, <1>3
     DEF Next, Deliver, Progress, Arrive, Refuse, Download, Wake, Dispatch, AgentReturns, Posted,
         Release, Quiet, lockVars, vars

(* The messages of a chat are handled in the order in which their tasks    *)
(* asked for its lock; only one that has a later lock gets past a waiter,  *)
(* on a lock the pool has dropped.                                         *)
THEOREM RequestOrderHolds == Spec => []RequestOrder
<1> DEFINE I == TypeOK /\ LockInv /\ OrderInv /\ TogetherInv
<1>1. Init => I
  <2>1. Init => TogetherInv
    BY DEF Init, TogetherInv
  <2>2. QED
    BY <2>1, TypeInit, LockInit, OrderInit
<1>2. I /\ [Next]_vars => I'
  BY TypeNext, LockNext, OrderNext, TogetherNext DEF OrderInv
<1>3. I => RequestOrder
  BY DEF OrderInv, LaneInv, TogetherInv, Together, RequestOrder
<1>4. QED
  BY <1>1, <1>2, <1>3, PTL DEF Spec

-----------------------------------------------------------------------------
(* LarkDedup: the record, its list and its file                            *)

LEMMA EntryOfSeq ==
  ASSUME NEW S, NEW s \in Seq(S), NEW i \in DOMAIN s
  PROVE  s[i] \in S
OBVIOUS

LEMMA EntriesProps ==
  ASSUME NEW e \in Entries
  PROVE  /\ DOMAIN e \subseteq Ids /\ e = [k \in DOMAIN e |-> e[k]]
         /\ \A k \in DOMAIN e : e[k] \in 0..MaxTime
BY DEF Entries

LEMMA EntriesIntro ==
  ASSUME NEW D \in SUBSET Ids, NEW e, e = [k \in D |-> e[k]],
         \A k \in D : e[k] \in 0..MaxTime
  PROVE  e \in Entries
<1>1. e \in [D -> 0..MaxTime]
  OBVIOUS
<1>2. QED
  BY <1>1 DEF Entries

LEMMA NoEntries == <<>> \in Entries
<1>1. <<>> \in [{} -> 0..MaxTime]
  OBVIOUS
<1>2. QED
  BY <1>1 DEF Entries

(* A list of the elements of a finite set, each once. *)
LEMMA ListOfSet ==
  ASSUME NEW S, NEW K \in SUBSET S, IsFiniteSet(K), NEW o \in SetToSeqs(K)
  PROVE  o \in Seq(S) /\ Len(o) = Cardinality(K) /\ ToSet(o) \subseteq K
<1>1. Cardinality(K) \in Nat
  BY FS_CardinalityType
<1>2. o \in [1..Cardinality(K) -> K]
  BY DEF SetToSeqs
<1>3. o \in Seq(K) /\ Len(o) = Cardinality(K)
  BY <1>1, <1>2
<1>4. QED
  BY <1>3 DEF ToSet

(* What is read from the file. *)
LEMMA OnDiskTyped ==
  ASSUME DedupTypeOK
  PROVE  OnDisk \in Entries
<1>1. path \in {0} \cup Inodes /\ \A i \in Inodes : file[i].entries \in Entries
  BY DEF DedupTypeOK
<1>2. QED
  BY <1>1, NoEntries DEF OnDisk

(* What a load leaves in memory. *)
LEMMA LoadProps ==
  ASSUME DedupTypeOK, Load
  PROVE  /\ order' \in Seq(Ids) /\ Len(order') <= Cap
         /\ known' \in Entries
         /\ \A m \in DOMAIN known' : m \in DOMAIN OnDisk /\ known'[m] = OnDisk[m]
<1>1. PICK o \in UNION {SetToSeqs(K) : K \in SUBSET (DOMAIN OnDisk)} :
        Loads(OnDisk, o) /\ order' = o /\ known' = [m \in ToSet(o) |-> OnDisk[m]]
  BY DEF Load
<1> DEFINE live == {m \in DOMAIN OnDisk : Lives(OnDisk[m])}
<1>2. PICK K \in SUBSET live :
        /\ Cardinality(K) = IF Cardinality(live) < Cap THEN Cardinality(live) ELSE Cap
        /\ o \in SetToSeqs(K)
  BY <1>1 DEF Loads
<1>3. DOMAIN OnDisk \subseteq Ids /\ \A k \in DOMAIN OnDisk : OnDisk[k] \in 0..MaxTime
  BY OnDiskTyped, EntriesProps
<1>4. K \in SUBSET Ids /\ K \subseteq DOMAIN OnDisk
  BY <1>3
<1>5. IsFiniteSet(K) /\ IsFiniteSet(live) /\ live \subseteq Ids
  BY <1>3, <1>4, FS_Subset, LarkDedupAssumption
<1>6. o \in Seq(Ids) /\ Len(o) = Cardinality(K) /\ ToSet(o) \subseteq K
  BY <1>2, <1>4, <1>5, ListOfSet
<1>7. Cardinality(live) \in Nat /\ Cap \in Nat
  BY <1>5, FS_CardinalityType, LarkDedupAssumption
<1>8. Len(o) <= Cap
  BY <1>2, <1>6, <1>7
<1>9. ToSet(o) \in SUBSET Ids /\ DOMAIN known' = ToSet(o)
      /\ \A m \in ToSet(o) : known'[m] = OnDisk[m] /\ m \in DOMAIN OnDisk
  BY <1>1, <1>4, <1>6
<1>10. known' \in Entries
  <2>1. known' = [k \in ToSet(o) |-> known'[k]]
    BY <1>1, <1>9
  <2>2. \A k \in ToSet(o) : known'[k] \in 0..MaxTime
    BY <1>3, <1>9
  <2>3. QED
    BY <1>9, <2>1, <2>2, EntriesIntro
<1>11. QED
  BY <1>1, <1>6, <1>8, <1>9, <1>10

(* Admitting an id to the list: the oldest entry goes when it is full. *)
LEMMA AdmitProps ==
  ASSUME DedupTypeOK, NEW m \in Ids, Admit(m), NEW N, N = Len(order), NEW n,
         n = Excess(Append(order, m))
  PROVE  /\ N \in Nat /\ N <= Cap
         /\ n = (IF N = Cap THEN 1 ELSE 0)
         /\ order' \in Seq(Ids) /\ Len(order') = N + 1 - n
         /\ \A p \in 1..(N - n) : order'[p] = order[p + n]
         /\ order'[N + 1 - n] = m
         /\ known' = [k \in (DOMAIN known \cup {m})
                              \ (IF n = 1 THEN {order[1]} ELSE {}) |->
                        IF k = m THEN now ELSE known[k]]
<1> DEFINE o == Append(order, m)
<1>1. /\ N \in Nat /\ N <= Cap /\ Cap \in Nat \ {0} /\ order \in Seq(Ids)
      /\ DOMAIN order = 1..N
  BY LarkDedupAssumption DEF DedupTypeOK
<1>2. /\ o \in Seq(Ids) /\ Len(o) = N + 1 /\ o[N + 1] = m
      /\ \A p \in 1..N : o[p] = order[p]
  BY <1>1
<1> HIDE DEF o
<1>3. n = IF N = Cap THEN 1 ELSE 0
  BY <1>1, <1>2 DEF Excess, o
<1>4. order' = SubSeq(o, n + 1, N + 1)
  BY <1>2 DEF Admit, o
<1>5. /\ order' \in Seq(Ids) /\ Len(order') = N + 1 - n
      /\ \A p \in 1..(N + 1 - n) : order'[p] = o[p + n]
  <2>1. n + 1 \in 1..(Len(o) + 1) /\ N + 1 \in n..Len(o) /\ n \in 0..1
    BY <1>1, <1>2, <1>3
  <2>2. SubSeq(o, n + 1, N + 1) \in Seq(Ids)
        /\ Len(SubSeq(o, n + 1, N + 1)) = (IF n + 1 <= N + 1 THEN N + 1 - (n + 1) + 1 ELSE 0)
        /\ \A p \in 1..(N + 1 - (n + 1) + 1) :
             SubSeq(o, n + 1, N + 1)[p] = o[(n + 1) + p - 1]
    BY <1>1, <1>2, <2>1, SubSeqProperties
  <2>3. n + 1 <= N + 1 /\ N + 1 - (n + 1) + 1 = N + 1 - n
        /\ \A p \in 1..(N + 1 - n) : (n + 1) + p - 1 = p + n
    <3>1. N \in Nat /\ n \in 0..1 /\ n <= N
      BY <1>1, <1>3
    <3>2. QED
      BY <3>1
  <2>4. QED
    BY <1>4, <2>2, <2>3
<1>6. \A p \in 1..(N - n) : order'[p] = order[p + n]
  <2>1. \A p \in 1..(N - n) : p \in 1..(N + 1 - n) /\ p + n \in 1..N
    BY <1>1, <1>3
  <2>2. QED
    BY <1>2, <1>5, <2>1
<1>7. order'[N + 1 - n] = m
  <2>1. N + 1 - n \in 1..(N + 1 - n) /\ (N + 1 - n) + n = N + 1
    BY <1>1, <1>3
  <2>2. QED
    BY <1>2, <1>5, <2>1
<1>8. Forgotten(o, n) = IF n = 1 THEN {order[1]} ELSE {}
  <2>1. CASE n = 1
    <3>1. N >= 1 /\ o[1] = order[1]
      BY <1>1, <1>2, <1>3, <2>1
    <3>2. 1..n = {1}
      BY <2>1
    <3>3. QED
      BY <2>1, <3>1, <3>2 DEF Forgotten
  <2>2. CASE n = 0
    <3>1. 1..n = {}
      BY <2>2
    <3>2. QED
      BY <2>2, <3>1 DEF Forgotten
  <2>3. QED
    BY <1>3, <2>1, <2>2
<1>9. known' = [k \in (DOMAIN known \cup {m}) \ Forgotten(o, n) |->
                  IF k = m THEN now ELSE known[k]]
  BY DEF Admit, o
<1>10. QED
  BY <1>1, <1>3, <1>5, <1>6, <1>7, <1>8, <1>9

LEMMA DedupTypeInit == DedupInit => DedupTypeOK
<1> SUFFICES ASSUME DedupInit PROVE DedupTypeOK
  OBVIOUS
<1> USE LarkDedupAssumption
<1>1. PICK o \in SetToSeqs(Legacy) :
        /\ order = SubSeq(o, 1, IF Len(o) < Cap THEN Len(o) ELSE Cap)
        /\ known = [m \in ToSet(order) |-> 0]
  BY DEF DedupInit
<1>2. o \in Seq(Ids)
  BY FS_Subset, ListOfSet
<1>3. /\ order \in Seq(Ids) /\ Len(order) <= Cap
  <2> DEFINE c == IF Len(o) < Cap THEN Len(o) ELSE Cap
  <2>1. c \in 0..Len(o) /\ c <= Cap
    BY <1>2
  <2>2. SubSeq(o, 1, c) \in Seq(Ids)
        /\ Len(SubSeq(o, 1, c)) = (IF 1 <= c THEN c - 1 + 1 ELSE 0)
    BY <1>2, <2>1, SubSeqProperties
  <2>3. QED
    BY <1>1, <2>1, <2>2
<1>4. known \in Entries
  <2>1. ToSet(order) \in SUBSET Ids /\ DOMAIN known = ToSet(order)
        /\ known = [k \in ToSet(order) |-> known[k]]
        /\ \A k \in ToSet(order) : known[k] \in 0..MaxTime
    BY <1>1, <1>3 DEF ToSet
  <2>2. QED
    BY <2>1, EntriesIntro
<1>5. [m \in Legacy |-> 0] \in Entries
  <2>1. \A k \in Legacy : [m \in Legacy |-> 0][k] \in 0..MaxTime
    OBVIOUS
  <2>2. [m \in Legacy |-> 0] = [k \in Legacy |-> [m \in Legacy |-> 0][k]]
    OBVIOUS
  <2>3. QED
    BY <2>1, <2>2, EntriesIntro
<1>6. file \in [Inodes -> [state : {"empty", "torn", "whole"}, entries : Entries]]
  BY <1>5, NoEntries DEF DedupInit, Whole, Empty
<1>7. /\ now \in 1..MaxTime /\ calls \in 0..MaxCalls /\ restarts \in 0..MaxRestarts
      /\ stage \in [Saves -> Stages] /\ tmp \in {0} \cup Inodes
      /\ ever \subseteq Ids \X (0..MaxTime)
  BY DEF DedupInit, Stages
<1>8. path \in {0} \cup Inodes
  BY DEF DedupInit, LegacyInode, Inodes
<1>9. snap \in [Saves -> Entries] /\ fd \in [Saves -> {0} \cup Inodes]
  BY NoEntries DEF DedupInit
<1>10. QED
  BY <1>3, <1>4, <1>6, <1>7, <1>8, <1>9 DEF DedupTypeOK

LEMMA StartSaveTyped ==
  ASSUME DedupTypeOK, StartSave, known' \in Entries, order' \in Seq(Ids)
  PROVE  /\ calls' \in 0..MaxCalls /\ stage' \in [Saves -> Stages]
         /\ snap' \in [Saves -> Entries] /\ fd' \in [Saves -> {0} \cup Inodes]
<1> DEFINE taken == [k \in DOMAIN known' \cap ToSet(order') |-> known'[k]]
<1>1. taken \in Entries
  <2>1. DOMAIN known' \in SUBSET Ids /\ \A k \in DOMAIN known' : known'[k] \in 0..MaxTime
    BY EntriesProps
  <2>2. /\ DOMAIN known' \cap ToSet(order') \in SUBSET Ids
        /\ taken = [k \in DOMAIN known' \cap ToSet(order') |-> taken[k]]
        /\ \A k \in DOMAIN known' \cap ToSet(order') : taken[k] \in 0..MaxTime
    BY <2>1
  <2> HIDE DEF taken
  <2>3. QED
    BY <2>2, EntriesIntro
<1>2. snap' = [snap EXCEPT ![calls + 1] = taken] /\ fd' = fd
  BY DEF StartSave
<1> HIDE DEF taken
<1>3. calls' \in 0..MaxCalls
  BY LarkDedupAssumption DEF DedupTypeOK, StartSave
<1>4. stage' \in [Saves -> Stages]
  BY DEF DedupTypeOK, StartSave, Stages
<1>5. snap' \in [Saves -> Entries] /\ fd' \in [Saves -> {0} \cup Inodes]
  BY <1>1, <1>2 DEF DedupTypeOK
<1>6. QED
  BY <1>3, <1>4, <1>5

LEMMA DedupTypeNext ==
  ASSUME DedupTypeOK, [DedupNext]_dedupVars
  PROVE  DedupTypeOK'
<1> DEFINE FileSet == [Inodes -> [state : {"empty", "torn", "whole"}, entries : Entries]]
<1>0. Empty \in [state : {"empty", "torn", "whole"}, entries : Entries]
      /\ Torn \in [state : {"empty", "torn", "whole"}, entries : Entries]
      /\ \A e \in Entries :
           Whole(e) \in [state : {"empty", "torn", "whole"}, entries : Entries]
  BY NoEntries DEF Empty, Torn, Whole
<1>1. ASSUME NEW m \in Ids, Admit(m)
      PROVE  DedupTypeOK'
  <2> DEFINE N == Len(order)
             n == Excess(Append(order, m))
  <2>1. /\ N \in Nat /\ N <= Cap
        /\ n = (IF N = Cap THEN 1 ELSE 0)
        /\ order' \in Seq(Ids) /\ Len(order') = N + 1 - n
        /\ known' = [k \in (DOMAIN known \cup {m})
                             \ (IF n = 1 THEN {order[1]} ELSE {}) |->
                       IF k = m THEN now ELSE known[k]]
    BY <1>1, AdmitProps
  <2> HIDE DEF N, n
  <2>2. Len(order') <= Cap
    BY <2>1, LarkDedupAssumption
  <2>3. known' \in Entries
    <3> DEFINE D == (DOMAIN known \cup {m}) \ (IF n = 1 THEN {order[1]} ELSE {})
    <3>1. DOMAIN known \subseteq Ids /\ \A k \in DOMAIN known : known[k] \in 0..MaxTime
      BY EntriesProps DEF DedupTypeOK
    <3>2. now \in 0..MaxTime
      BY LarkDedupAssumption DEF DedupTypeOK
    <3>3. D \in SUBSET Ids
      BY <3>1
    <3>4. \A k \in D : known'[k] = IF k = m THEN now ELSE known[k]
      BY <2>1
    <3>5. \A k \in D : known'[k] \in 0..MaxTime
      BY <3>1, <3>2, <3>4
    <3>6. known' = [k \in D |-> known'[k]]
      BY <2>1
    <3> HIDE DEF D
    <3>7. QED
      BY <3>3, <3>5, <3>6, EntriesIntro
  <2>4. StartSave /\ UNCHANGED <<now, files, restarts>> /\ ever' = ever \cup {<<m, now>>}
    BY <1>1 DEF Admit
  <2>5. /\ calls' \in 0..MaxCalls /\ stage' \in [Saves -> Stages]
        /\ snap' \in [Saves -> Entries] /\ fd' \in [Saves -> {0} \cup Inodes]
    BY <2>1, <2>3, <2>4, StartSaveTyped
  <2>6. ever' \subseteq Ids \X (0..MaxTime)
    BY <2>4, LarkDedupAssumption DEF DedupTypeOK
  <2>7. QED
    BY <2>1, <2>2, <2>3, <2>4, <2>5, <2>6 DEF DedupTypeOK, files
<1>2. CASE Stop
  <2>1. StartSave /\ UNCHANGED <<now, memory, files, restarts>>
    BY <1>2 DEF Stop
  <2>2. known' \in Entries /\ order' \in Seq(Ids)
    BY <2>1 DEF DedupTypeOK, memory
  <2>3. /\ calls' \in 0..MaxCalls /\ stage' \in [Saves -> Stages]
        /\ snap' \in [Saves -> Entries] /\ fd' \in [Saves -> {0} \cup Inodes]
    BY <2>1, <2>2, StartSaveTyped
  <2>4. QED
    BY <2>1, <2>3 DEF DedupTypeOK, files, memory
<1>3. ASSUME NEW n \in Saves, Open(n)
      PROVE  DedupTypeOK'
  <2> DEFINE inode == IF tmp = 0 THEN n ELSE tmp
  <2>1. inode \in Inodes
    BY LarkDedupAssumption DEF DedupTypeOK, Saves, Inodes
  <2>2. /\ fd' = [fd EXCEPT ![n] = inode] /\ file' = [file EXCEPT ![inode] = Empty]
        /\ tmp' = inode /\ stage' = [stage EXCEPT ![n] = "open"]
        /\ UNCHANGED <<now, memory, calls, snap, path, restarts>>
    BY <1>3 DEF Open
  <2> HIDE DEF inode
  <2>3. fd' \in [Saves -> {0} \cup Inodes] /\ stage' \in [Saves -> Stages]
    BY <2>1, <2>2 DEF DedupTypeOK, Stages
  <2>4. file' \in FileSet
    BY <1>0, <2>1, <2>2 DEF DedupTypeOK
  <2>5. QED
    BY <2>1, <2>2, <2>3, <2>4 DEF DedupTypeOK, memory
<1>4. ASSUME NEW n \in Saves, Write(n)
      PROVE  DedupTypeOK'
  <2>1. PICK text \in {Whole(snap[n])} \cup (IF file[fd[n]] = Empty THEN {} ELSE {Torn}) :
          file' = [file EXCEPT ![fd[n]] = text]
    BY <1>4 DEF Write
  <2>2. text \in [state : {"empty", "torn", "whole"}, entries : Entries]
    BY <1>0, <2>1 DEF DedupTypeOK
  <2>3. file' \in FileSet
    BY <2>1, <2>2 DEF DedupTypeOK
  <2>4. stage' \in [Saves -> Stages]
    BY <1>4 DEF DedupTypeOK, Stages, Write
  <2>5. QED
    BY <1>4, <2>3, <2>4 DEF DedupTypeOK, Write, memory
<1>5. ASSUME NEW n \in Saves, Rename(n)
      PROVE  DedupTypeOK'
  <2>1. stage' \in [Saves -> Stages] /\ tmp' \in {0} \cup Inodes /\ path' \in {0} \cup Inodes
    BY <1>5 DEF DedupTypeOK, Stages, Rename
  <2>2. QED
    BY <1>5, <2>1 DEF DedupTypeOK, Rename, memory
<1>6. CASE Restart
  <2>1. order' \in Seq(Ids) /\ Len(order') <= Cap /\ known' \in Entries
    BY <1>6, LoadProps DEF Restart
  <2>2. stage' \in [Saves -> Stages]
    BY <1>6 DEF DedupTypeOK, Stages, Restart
  <2>3. restarts' \in 0..MaxRestarts
    BY <1>6, LarkDedupAssumption DEF DedupTypeOK, Restart
  <2>4. QED
    BY <1>6, <2>1, <2>2, <2>3 DEF DedupTypeOK, Restart, files
<1>7. CASE Tick
  <2>1. now' \in 1..MaxTime
    BY <1>7, LarkDedupAssumption DEF DedupTypeOK, Tick
  <2>2. QED
    BY <1>7, <2>1 DEF DedupTypeOK, Tick, memory, saves, files
<1>8. CASE UNCHANGED dedupVars
  BY <1>8 DEF DedupTypeOK, dedupVars
<1>9. QED
  BY <1>1, <1>2, <1>3, <1>4, <1>5, <1>6, <1>7, <1>8 DEF DedupNext, DedupQuiet

(* The record of ids and the list stay within the capacity, the files and  *)
(* the snapshots keep the form a load expects (_is_duplicate and the       *)
(* writers of _persist_seen_message_ids_async).                            *)
THEOREM DedupTypeCorrect == DedupSpec => []DedupTypeOK
<1>1. DedupTypeOK /\ [DedupNext]_dedupVars => DedupTypeOK'
  BY DedupTypeNext
<1>2. QED
  BY <1>1, DedupTypeInit, PTL DEF DedupSpec

-----------------------------------------------------------------------------
(* What a restart believes                                                 *)

RecordedIn(past, entries) == \A m \in DOMAIN entries : <<m, entries[m]>> \in past

RecordedInv ==
  /\ RecordedIn(ever, known)
  /\ \A n \in Saves : RecordedIn(ever, snap[n])
  /\ \A i \in Inodes : RecordedIn(ever, file[i].entries)

LEMMA RecordedInit == DedupInit => RecordedInv
<1> SUFFICES ASSUME DedupInit PROVE RecordedInv
  OBVIOUS
<1>1. \A m \in Legacy : <<m, 0>> \in ever
  BY DEF DedupInit
<1>2. RecordedIn(ever, <<>>)
  BY DEF RecordedIn
<1>3. RecordedIn(ever, [m \in Legacy |-> 0])
  BY <1>1 DEF RecordedIn
<1>4. \A i \in Inodes : RecordedIn(ever, file[i].entries)
  BY <1>2, <1>3 DEF DedupInit, Whole, Empty
<1>5. \A n \in Saves : RecordedIn(ever, snap[n])
  BY <1>2 DEF DedupInit
<1>6. RecordedIn(ever, known)
  <2>1. PICK o \in SetToSeqs(Legacy) :
          /\ order = SubSeq(o, 1, IF Len(o) < Cap THEN Len(o) ELSE Cap)
          /\ known = [m \in ToSet(order) |-> 0]
    BY DEF DedupInit
  <2>2. o \in Seq(Legacy) /\ ToSet(o) \subseteq Legacy
    BY FS_Subset, ListOfSet, LarkDedupAssumption
  <2> DEFINE c == IF Len(o) < Cap THEN Len(o) ELSE Cap
  <2>3. c \in 0..Len(o)
    BY <2>2, LarkDedupAssumption
  <2>4. SubSeq(o, 1, c) \in Seq(Legacy)
    BY <2>2, <2>3, SubSeqProperties
  <2>5. ToSet(order) \subseteq Legacy
    BY <2>1, <2>4 DEF ToSet
  <2>6. QED
    BY <1>1, <2>1, <2>5 DEF RecordedIn
<1>7. QED
  BY <1>4, <1>5, <1>6 DEF RecordedInv

(* The past only grows. *)
LEMMA RecordedGrows ==
  ASSUME NEW past, NEW later, past \subseteq later, NEW entries,
         RecordedIn(past, entries)
  PROVE  RecordedIn(later, entries)
BY DEF RecordedIn

LEMMA RecordedNext ==
  ASSUME DedupTypeOK, RecordedInv, [DedupNext]_dedupVars
  PROVE  RecordedInv'
<1>0. /\ RecordedIn(ever, known)
      /\ \A n \in Saves : RecordedIn(ever, snap[n])
      /\ \A i \in Inodes : RecordedIn(ever, file[i].entries)
  BY DEF RecordedInv
<1>1. ASSUME ever \subseteq ever', RecordedIn(ever', known'), StartSave
      PROVE  \A n \in Saves : RecordedIn(ever', snap'[n])
  <2>1. SUFFICES ASSUME NEW n \in Saves PROVE RecordedIn(ever', snap'[n])
    OBVIOUS
  <2> DEFINE taken == [k \in DOMAIN known' \cap ToSet(order') |-> known'[k]]
  <2>2. snap' = [snap EXCEPT ![calls + 1] = taken]
    BY <1>1 DEF StartSave
  <2>3. RecordedIn(ever', taken)
    BY <1>1 DEF RecordedIn
  <2>4. RecordedIn(ever', snap[n])
    BY <1>0, <1>1, RecordedGrows
  <2> HIDE DEF taken
  <2>5. snap'[n] = taken \/ snap'[n] = snap[n]
    BY <2>2 DEF DedupTypeOK
  <2>6. QED
    BY <2>3, <2>4, <2>5
<1>2. ASSUME NEW m \in Ids, Admit(m)
      PROVE  RecordedInv'
  <2>1. /\ ever' = ever \cup {<<m, now>>} /\ StartSave /\ UNCHANGED file
    BY <1>2 DEF Admit, files
  <2>2. RecordedIn(ever', known')
    <3> DEFINE N == Len(order)
               n == Excess(Append(order, m))
               D == (DOMAIN known \cup {m}) \ (IF n = 1 THEN {order[1]} ELSE {})
    <3>1. known' = [k \in D |-> IF k = m THEN now ELSE known[k]]
      BY <1>2, AdmitProps
    <3>2. D \subseteq DOMAIN known \cup {m}
      OBVIOUS
    <3> HIDE DEF D
    <3>3. SUFFICES ASSUME NEW k \in D PROVE <<k, known'[k]>> \in ever'
      BY <3>1 DEF RecordedIn
    <3>4. CASE k = m
      BY <2>1, <3>1, <3>4
    <3>5. CASE k # m
      BY <1>0, <2>1, <3>1, <3>2, <3>5 DEF RecordedIn
    <3>6. QED
      BY <3>4, <3>5
  <2>3. \A n \in Saves : RecordedIn(ever', snap'[n])
    BY <1>1, <2>1, <2>2
  <2>4. \A i \in Inodes : RecordedIn(ever', file'[i].entries)
    BY <1>0, <2>1, RecordedGrows
  <2>5. QED
    BY <2>2, <2>3, <2>4 DEF RecordedInv
<1>3. CASE Stop
  <2>1. UNCHANGED <<known, ever, file>> /\ StartSave
    BY <1>3 DEF Stop, memory, files
  <2>2. \A n \in Saves : RecordedIn(ever', snap'[n])
    BY <1>0, <1>1, <2>1
  <2>3. QED
    BY <1>0, <2>1, <2>2 DEF RecordedInv
<1>4. ASSUME NEW n \in Saves, Open(n)
      PROVE  RecordedInv'
  <2> DEFINE inode == IF tmp = 0 THEN n ELSE tmp
  <2>1. file' = [file EXCEPT ![inode] = Empty] /\ UNCHANGED <<known, ever, snap>>
    BY <1>4 DEF Open, memory
  <2>2. RecordedIn(ever, Empty.entries)
    BY DEF RecordedIn, Empty
  <2>3. \A i \in Inodes : file'[i] = Empty \/ file'[i] = file[i]
    BY <2>1 DEF DedupTypeOK
  <2>4. QED
    BY <1>0, <2>1, <2>2, <2>3 DEF RecordedInv
<1>5. ASSUME NEW n \in Saves, Write(n)
      PROVE  RecordedInv'
  <2>1. PICK text \in {Whole(snap[n]), Torn} : file' = [file EXCEPT ![fd[n]] = text]
    BY <1>5 DEF Write
  <2>2. RecordedIn(ever, text.entries)
    BY <1>0, <2>1 DEF RecordedIn, Whole, Torn
  <2>3. \A i \in Inodes : file'[i] = text \/ file'[i] = file[i]
    BY <2>1 DEF DedupTypeOK
  <2>4. UNCHANGED <<known, ever, snap>>
    BY <1>5 DEF Write, memory
  <2>5. QED
    BY <1>0, <2>2, <2>3, <2>4 DEF RecordedInv
<1>6. ASSUME NEW n \in Saves, Rename(n)
      PROVE  RecordedInv'
  BY <1>0, <1>6 DEF Rename, memory, RecordedInv
<1>7. CASE Restart
  <2>1. RecordedIn(ever, OnDisk)
    <3>1. RecordedIn(ever, <<>>)
      BY DEF RecordedIn
    <3>2. QED
      BY <1>0, <3>1 DEF OnDisk, DedupTypeOK
  <2>2. RecordedIn(ever, known')
    BY <1>7, <2>1, LoadProps DEF Restart, RecordedIn
  <2>3. UNCHANGED <<ever, snap, file>>
    BY <1>7 DEF Restart, files
  <2>4. QED
    BY <1>0, <2>2, <2>3 DEF RecordedInv
<1>8. CASE Tick
  BY <1>0, <1>8 DEF Tick, memory, saves, files, RecordedInv
<1>9. CASE UNCHANGED dedupVars
  BY <1>0, <1>9 DEF dedupVars, RecordedInv
<1>10. QED
  BY <1>2, <1>3, <1>4, <1>5, <1>6, <1>7, <1>8, <1>9 DEF DedupNext, DedupQuiet

(* Whatever the writers do to the file they share and wherever a crash     *)
(* stops them, a message is only dropped as a duplicate of one that was    *)
(* recorded at the very time its entry says.                               *)
THEOREM NoFalseDuplicateHolds == DedupSpec => []NoFalseDuplicate
<1>1. RecordedInv => NoFalseDuplicate
  BY DEF RecordedInv, RecordedIn, NoFalseDuplicate
<1>2. DedupTypeOK /\ RecordedInv /\ [DedupNext]_dedupVars => RecordedInv'
  BY RecordedNext
<1>3. QED
  BY <1>1, <1>2, DedupTypeCorrect, RecordedInit, PTL DEF DedupSpec

-----------------------------------------------------------------------------
(* When a message is handled again                                         *)

LogTyped ==
  /\ log \in Seq([msg : Ids, at : Int, again : BOOLEAN])
  /\ \A i \in DOMAIN log : log[i].at <= now

(* The entry of an id is never older than a record of it in this life.     *)
EntryIsLatest ==
  \A i \in DOMAIN log :
    log[i].msg \in DOMAIN known => known[log[i].msg] >= log[i].at

(* An id that was not listed when it was recorded is listed nowhere before *)
(* the place its record has in the list,                                   *)
NotListedBefore ==
  \A i \in DOMAIN log : ~log[i].again =>
    \A p \in DOMAIN order : p < Len(order) - (Len(log) - i) => order[p] # log[i].msg

(* and so it is known until as many others as the list holds came after.   *)
KnownForCap ==
  \A i \in DOMAIN log :
    ~log[i].again /\ (Len(log) - i) < Cap => log[i].msg \in DOMAIN known

RepeatInv ==
  LogTyped /\ EntryIsLatest /\ NotListedBefore /\ KnownForCap /\ NoEarlyRepeat

LEMMA EmptyLog == log = <<>> => RepeatInv
<1> SUFFICES ASSUME log = <<>> PROVE RepeatInv
  OBVIOUS
<1>1. DOMAIN log = {} /\ log \in Seq([msg : Ids, at : Int, again : BOOLEAN])
  OBVIOUS
<1>2. QED
  BY <1>1 DEF RepeatInv, LogTyped, EntryIsLatest, NotListedBefore, KnownForCap,
              NoEarlyRepeat

LEMMA RepeatUnmoved ==
  ASSUME RepeatInv, UNCHANGED memory, now' = now
  PROVE  RepeatInv'
BY DEF RepeatInv, LogTyped, EntryIsLatest, NotListedBefore, KnownForCap,
       NoEarlyRepeat, memory

LEMMA RepeatAdmit ==
  ASSUME DedupTypeOK, RepeatInv, NEW m \in Ids, Admit(m)
  PROVE  RepeatInv'
<1> DEFINE N == Len(order)
           n == Excess(Append(order, m))
           L == Len(log)
           r == [msg |-> m, at |-> now, again |-> m \in ToSet(order)]
<1>1. /\ N \in Nat /\ N <= Cap /\ Cap \in Nat \ {0}
      /\ n = (IF N = Cap THEN 1 ELSE 0)
      /\ order' \in Seq(Ids) /\ Len(order') = N + 1 - n
      /\ \A p \in 1..(N - n) : order'[p] = order[p + n]
      /\ order'[N + 1 - n] = m
      /\ known' = [k \in (DOMAIN known \cup {m})
                           \ (IF n = 1 THEN {order[1]} ELSE {}) |->
                     IF k = m THEN now ELSE known[k]]
  BY AdmitProps, LarkDedupAssumption
<1>2. DOMAIN order = 1..N /\ DOMAIN order' = 1..(N + 1 - n)
  BY <1>1 DEF DedupTypeOK
<1>3. log' = Append(log, r) /\ now' = now /\ ~IsFresh(m)
  BY DEF Admit
<1>4. now \in Int
  BY DEF DedupTypeOK
<1>5. log \in Seq([msg : Ids, at : Int, again : BOOLEAN])
      /\ \A i \in DOMAIN log : log[i].at <= now
  BY DEF RepeatInv, LogTyped
<1>6. r \in [msg : Ids, at : Int, again : BOOLEAN]
  BY <1>4
<1>7. /\ r.msg = m /\ r.at = now /\ (~r.again => m \notin ToSet(order))
  OBVIOUS
<1> HIDE DEF r, N, n
<1>8. /\ L \in Nat /\ DOMAIN log = 1..L
      /\ log' \in Seq([msg : Ids, at : Int, again : BOOLEAN])
      /\ Len(log') = L + 1 /\ DOMAIN log' = 1..(L + 1)
      /\ log'[L + 1] = r /\ \A i \in 1..L : log'[i] = log[i]
  BY <1>3, <1>5, <1>6
<1>9. ASSUME NEW i \in 1..L
      PROVE  log[i].msg \in Ids /\ log[i].at \in Int /\ log[i].at <= now
  <2>1. i \in DOMAIN log
    BY <1>8, <1>9
  <2>2. log[i] \in [msg : Ids, at : Int, again : BOOLEAN]
    BY <1>5, <2>1, EntryOfSeq
  <2>3. QED
    BY <1>5, <2>1, <2>2
<1> HIDE DEF L
<1>10. L = Len(log)
  BY DEF L
<1>11. \A k \in DOMAIN known' : known'[k] = IF k = m THEN now ELSE known[k]
  BY <1>1
<1>12. LogTyped'
  <2>1. \A i \in 1..(L + 1) : log'[i].at <= now
    <3>1. SUFFICES ASSUME NEW i \in 1..(L + 1) PROVE log'[i].at <= now
      OBVIOUS
    <3>2. CASE i = L + 1
      BY <1>4, <1>7, <1>8, <3>2
    <3>3. CASE i \in 1..L
      BY <1>8, <1>9, <3>3
    <3>4. QED
      BY <1>8, <3>2, <3>3
  <2>2. QED
    BY <1>3, <1>8, <2>1 DEF LogTyped
<1>13. EntryIsLatest'
  <2>1. SUFFICES ASSUME NEW i \in 1..(L + 1), log'[i].msg \in DOMAIN known'
                 PROVE  known'[log'[i].msg] >= log'[i].at
    BY <1>8 DEF EntryIsLatest
  <2>2. CASE i = L + 1
    BY <1>4, <1>7, <1>8, <1>11, <2>1, <2>2
  <2>3. CASE i \in 1..L /\ log[i].msg = m
    BY <1>8, <1>9, <1>11, <2>1, <2>3
  <2>4. CASE i \in 1..L /\ log[i].msg # m
    <3>1. log[i].msg \in DOMAIN known
      BY <1>1, <1>8, <2>1, <2>4
    <3>2. known[log[i].msg] >= log[i].at
      BY <1>8, <2>4, <3>1 DEF RepeatInv, EntryIsLatest
    <3>3. QED
      BY <1>8, <1>11, <2>1, <2>4, <3>2
  <2>5. QED
    BY <1>8, <2>2, <2>3, <2>4
<1>14. ASSUME NEW i \in 1..L, ~log[i].again, NEW p \in 1..N, p < N - (L - i)
       PROVE  order[p] # log[i].msg
  BY <1>2, <1>8, <1>10, <1>14 DEF RepeatInv, NotListedBefore, N
<1>15. NotListedBefore'
  <2>0. SUFFICES ASSUME NEW i \in DOMAIN log', ~log'[i].again,
                        NEW p \in DOMAIN order',
                        p < Len(order') - (Len(log') - i)
                 PROVE  order'[p] # log'[i].msg
    BY DEF NotListedBefore
  <2>1. /\ i \in 1..(L + 1) /\ ~log'[i].again /\ p \in 1..(N + 1 - n)
        /\ p < N + 1 - n - (L + 1 - i)
    BY <1>1, <1>2, <1>8, <2>0
  <2>2. /\ n \in 0..1 /\ p \in 1..(N - n) /\ p + n \in 1..N
        /\ p + n < N - (L - i)
    <3>1. n \in 0..1 /\ n <= N /\ N \in Nat
      BY <1>1
    <3>2. L \in Nat /\ i \in 1..(L + 1) /\ p \in 1..(N + 1 - n)
          /\ p < N + 1 - n - (L + 1 - i)
      BY <1>8, <2>1
    <3>3. QED
      BY <3>1, <3>2
  <2>3. order'[p] = order[p + n]
    BY <1>1, <2>2
  <2>4. CASE i = L + 1
    <3>1. m \notin ToSet(order)
      BY <1>7, <1>8, <2>1, <2>4
    <3>2. order[p + n] # m
      BY <1>2, <2>2, <3>1 DEF ToSet
    <3>3. QED
      BY <1>7, <1>8, <2>3, <2>4, <3>2
  <2>5. CASE i \in 1..L
    BY <1>8, <1>14, <2>1, <2>2, <2>3, <2>5
  <2>6. QED
    BY <1>8, <2>4, <2>5
<1>16. ASSUME NEW i \in 1..L, ~log[i].again, L - i < Cap
       PROVE  log[i].msg \in DOMAIN known
  BY <1>8, <1>10, <1>16 DEF RepeatInv, KnownForCap
<1>17. KnownForCap'
  <2>1. SUFFICES ASSUME NEW i \in 1..(L + 1), ~log'[i].again, L + 1 - i < Cap
                 PROVE  log'[i].msg \in DOMAIN known'
    BY <1>8, <1>10 DEF KnownForCap
  <2>2. CASE i = L + 1
    <3>1. m \notin ToSet(order)
      BY <1>7, <1>8, <2>1, <2>2
    <3>2. n = 1 => order[1] # m
      <4>1. n = 1 => 1 \in 1..N
        BY <1>1
      <4>2. QED
        BY <1>2, <3>1, <4>1 DEF ToSet
    <3>3. QED
      BY <1>1, <1>7, <1>8, <2>2, <3>2
  <2>3. CASE i \in 1..L
    <3>1. log[i].msg \in DOMAIN known
      BY <1>1, <1>8, <1>16, <2>1, <2>3
    <3>2. n = 1 => order[1] # log[i].msg
      <4>1. n = 1 => 1 \in 1..N /\ 1 < N - (L - i)
        BY <1>1, <1>8, <2>1, <2>3
      <4>2. QED
        BY <1>8, <1>14, <2>1, <2>3, <4>1
    <3>3. QED
      BY <1>1, <1>8, <2>3, <3>1, <3>2
  <2>4. QED
    BY <1>8, <2>2, <2>3
<1>18. NoEarlyRepeat'
  <2>1. SUFFICES ASSUME NEW i \in 1..(L + 1), NEW j \in 1..(L + 1),
                        i < j, log'[i].msg = log'[j].msg, ~log'[i].again
                 PROVE  (TTL > 0 /\ log'[j].at - log'[i].at >= TTL) \/ j - i > Cap
    BY <1>8 DEF NoEarlyRepeat
  <2>2. i \in 1..L /\ log'[i] = log[i]
    BY <1>8, <2>1
  <2>3. CASE j \in 1..L
    <3>1. log'[j] = log[j] /\ j \in DOMAIN log /\ i \in DOMAIN log
      BY <1>8, <2>2, <2>3
    <3>2. QED
      BY <2>1, <2>2, <3>1 DEF RepeatInv, NoEarlyRepeat
  <2>4. CASE j = L + 1 /\ L - i < Cap
    <3>1. m \in DOMAIN known /\ log[i].msg = m
      BY <1>7, <1>8, <1>16, <2>1, <2>2, <2>4
    <3>2. ~Lives(known[m])
      BY <1>3, <3>1 DEF IsFresh
    <3>3. TTL > 0 /\ now - known[m] >= TTL /\ known[m] \in Int
      <4>1. known[m] \in 0..MaxTime
        BY <3>1, EntriesProps DEF DedupTypeOK
      <4>2. QED
        BY <1>4, <3>2, <4>1, LarkDedupAssumption DEF Lives
    <3>4. known[m] >= log[i].at
      BY <1>8, <2>2, <3>1 DEF RepeatInv, EntryIsLatest
    <3>5. log'[j].at = now
      BY <1>7, <1>8, <2>4
    <3>6. log[i].at \in Int /\ TTL \in Int
      BY <1>9, <2>2, LarkDedupAssumption
    <3>7. now - log[i].at >= TTL
      BY <1>4, <3>3, <3>4, <3>6
    <3>8. QED
      BY <2>2, <3>3, <3>5, <3>7
  <2>5. CASE j = L + 1 /\ ~(L - i < Cap)
    BY <1>1, <1>8, <2>2, <2>5
  <2>6. QED
    BY <1>8, <2>3, <2>4, <2>5
<1>19. QED
  BY <1>12, <1>13, <1>15, <1>17, <1>18 DEF RepeatInv

LEMMA RepeatNext ==
  ASSUME DedupTypeOK, RepeatInv, [DedupNext]_dedupVars
  PROVE  RepeatInv'
<1>1. ASSUME NEW m \in Ids, Admit(m)
      PROVE  RepeatInv'
  BY <1>1, RepeatAdmit
<1>2. ASSUME NEW n \in Saves, Open(n) \/ Write(n) \/ Rename(n)
      PROVE  RepeatInv'
  <2>1. UNCHANGED memory /\ now' = now
    BY <1>2 DEF Open, Write, Rename
  <2>2. QED
    BY <2>1, RepeatUnmoved
<1>3. CASE Stop
  BY <1>3, RepeatUnmoved DEF Stop
<1>4. CASE Restart
  <2>1. (log = <<>> => RepeatInv)'
    BY EmptyLog, PTL
  <2>2. QED
    BY <1>4, <2>1 DEF Restart
<1>5. CASE Tick
  <2>1. UNCHANGED <<known, order, log>> /\ now' = now + 1 /\ now \in Int
    BY <1>5 DEF Tick, memory, DedupTypeOK
  <2>2. \A i \in DOMAIN log : log[i].at <= now'
    <3>1. \A i \in DOMAIN log : log[i].at \in Int /\ log[i].at <= now
      <4>1. ASSUME NEW i \in DOMAIN log
            PROVE  log[i].at \in Int
        <5>1. log[i] \in [msg : Ids, at : Int, again : BOOLEAN]
          BY <4>1, EntryOfSeq DEF RepeatInv, LogTyped
        <5>2. QED
          BY <5>1
      <4>2. QED
        BY <4>1 DEF RepeatInv, LogTyped
    <3>2. QED
      BY <2>1, <3>1
  <2>3. QED
    BY <2>1, <2>2 DEF RepeatInv, LogTyped, EntryIsLatest, NotListedBefore,
                      KnownForCap, NoEarlyRepeat
<1>6. CASE UNCHANGED dedupVars
  BY <1>6, RepeatUnmoved DEF dedupVars, memory
<1>7. QED
  BY <1>1, <1>2, <1>3, <1>4, <1>5, <1>6 DEF DedupNext, DedupQuiet

(* Within one life a message is handled again only when its entry expired  *)
(* or as many others as the list holds were recorded since, unless its id  *)
(* was still listed when it was recorded (_is_duplicate): for any capacity,*)
(* any TTL and any order of records, loads and saves.                      *)
THEOREM NoEarlyRepeatHolds == DedupSpec => []NoEarlyRepeat
<1>1. DedupInit => RepeatInv
  BY EmptyLog DEF DedupInit
<1>2. DedupTypeOK /\ RepeatInv /\ [DedupNext]_dedupVars => RepeatInv'
  BY RepeatNext
<1>3. RepeatInv => NoEarlyRepeat
  BY DEF RepeatInv
<1>4. QED
  BY <1>1, <1>2, <1>3, DedupTypeCorrect, PTL DEF DedupSpec
=============================================================================
