---------------------------- MODULE RedisProofs -----------------------------
(***************************************************************************)
(* What the workers and replicas share through Redis: the event bus, for   *)
(* any consumers, batch size and number of entries, and the limiter, for   *)
(* any number of replicas, any rate, burst and cost, and clocks and delays *)
(* that the lifetime of a bucket leaves room for.                          *)
(***************************************************************************)
EXTENDS RedisBus, RedisLimiter, SequenceTheorems, TLAPS

-----------------------------------------------------------------------------
(* RedisBus *)

(* A consumer has a batch exactly while it works on one; the entries in    *)
(* batches have been delivered, each to one place of one batch.            *)
BatchInv ==
  /\ \A c \in Consumers : batch[c] # <<>> <=> loop[c] \in Working
  /\ \A c \in Consumers : \A i \in DOMAIN batch[c] : batch[c][i] <= last
  /\ \A c, d \in Consumers : \A i \in DOMAIN batch[c], j \in DOMAIN batch[d] :
       batch[c][i] = batch[d][j] => c = d /\ i = j

(* Only an entry whose handler returned is about to be acknowledged.       *)
AckInv == \A c \in Consumers : loop[c] = "ack" => Head(batch[c]) \in done

(* What waits in a batch, or is being handled, has not been done before.   *)
FreshInv ==
  \A c \in Consumers : \A i \in DOMAIN batch[c] :
    (i > 1 \/ loop[c] # "ack") => batch[c][i] \notin done

(* Nobody reads before the group exists.                                   *)
GroupInv ==
  /\ group \/ last = 0
  /\ \A c \in Consumers : loop[c] \in Live => group

BusInv ==
  BusTypeOK /\ GroupInv /\ BatchInv /\ Accounted /\ AckInv /\ FreshInv

LEMMA TailProps ==
  ASSUME NEW S, NEW s \in Seq(S), s # <<>>
  PROVE  /\ Tail(s) \in Seq(S) /\ Head(s) = s[1] /\ 1 \in DOMAIN s /\ s[1] \in S
         /\ DOMAIN Tail(s) = 1..(Len(s) - 1)
         /\ \A i \in DOMAIN Tail(s) : i + 1 \in DOMAIN s /\ Tail(s)[i] = s[i + 1]
         /\ \A i \in DOMAIN Tail(s) : i \in Nat \ {0}
<1>1. Len(s) \in Nat /\ Len(s) > 0 /\ DOMAIN s = 1..Len(s)
  BY EmptySeq
<1>2. QED
  BY <1>1

LEMMA BatchTyped ==
  ASSUME BusTypeOK, BatchInv, NEW c \in Consumers, loop[c] \in Working
  PROVE  /\ batch[c] \in Seq(Entries) /\ batch[c] # <<>>
         /\ Head(batch[c]) \in Entries /\ Head(batch[c]) = batch[c][1]
         /\ Head(batch[c]) <= last /\ 1 \in DOMAIN batch[c]
<1>1. batch[c] \in Seq(Entries) /\ batch[c] # <<>>
  BY DEF BusTypeOK, BatchInv
<1>2. QED
  BY <1>1, TailProps DEF BatchInv

LEMMA InitBusInv == BusAssumption /\ BusInit => BusInv
<1> SUFFICES ASSUME BusAssumption, BusInit PROVE BusInv
  OBVIOUS
<1>1. Pending = {} /\ 1..last = {} /\ MaxEntries \in Nat
  BY DEF BusInit, Pending, BusAssumption
<1>2. owner \in [Pending -> Consumers]
  BY <1>1 DEF BusInit, Pending
<1>3. batch \in [Consumers -> Seq(Entries)] /\ \A c \in Consumers : DOMAIN batch[c] = {}
  BY DEF BusInit
<1>4. BusTypeOK
  <2>1. published \in 0..MaxEntries /\ last \in 0..published /\ began \in [Entries -> Nat]
    BY <1>1 DEF BusInit
  <2>2. stale \subseteq Pending /\ done \subseteq 1..last /\ forsaken \subseteq 1..last
        /\ Pending \subseteq 1..last
    BY <1>1 DEF BusInit
  <2>3. group \in BOOLEAN /\ loop \in [Consumers -> PC]
    BY DEF BusInit, PC
  <2>4. QED
    BY <1>2, <1>3, <2>1, <2>2, <2>3 DEF BusTypeOK
<1>5. BatchInv /\ AckInv /\ FreshInv /\ GroupInv /\ Accounted
  BY <1>1, <1>3 DEF BusInit, BatchInv, AckInv, FreshInv, GroupInv, Accounted, Working, Live
<1>6. QED
  BY <1>4, <1>5 DEF BusInv

(* A step that leaves the batches and the history alone, and keeps no      *)
(* consumer from or puts one to work, only has the types to mind.          *)
QuietStep ==
  /\ UNCHANGED <<last, batch, busHistory>>
  /\ DOMAIN owner' = DOMAIN owner
  /\ \A c \in Consumers :
       \/ loop'[c] = loop[c]
       \/ (loop[c] \notin Working /\ loop'[c] \notin Working)

LEMMA QuietKeepsBusInv ==
  ASSUME BusInv, BusTypeOK', GroupInv', QuietStep
  PROVE  BusInv'
<1>1. BatchInv' /\ AckInv' /\ FreshInv'
  BY DEF BusInv, QuietStep, BatchInv, AckInv, FreshInv, Working, busHistory
<1>2. Accounted'
  BY DEF BusInv, QuietStep, Accounted, Pending, busHistory
<1>3. QED
  BY <1>1, <1>2 DEF BusInv

LEMMA PublishStep ==
  ASSUME BusAssumption, BusInv, Publish
  PROVE  BusInv'
<1> USE DEF BusInv, BusTypeOK, GroupInv, QuietStep, Live, busHistory, Pending
<1>1. published' \in 0..MaxEntries /\ last \in 0..published'
  BY DEF Publish, BusAssumption
<1>2. BusTypeOK' /\ GroupInv' /\ QuietStep
  BY <1>1 DEF Publish
<1>3. QED
  BY <1>2, QuietKeepsBusInv

LEMMA AgeStep ==
  ASSUME BusInv, NEW e \in Entries, Age(e)
  PROVE  BusInv'
<1> USE DEF BusInv, BusTypeOK, GroupInv, QuietStep, Live, busHistory, Pending
<1>1. BusTypeOK' /\ GroupInv' /\ QuietStep
  BY DEF Age
<1>2. QED
  BY <1>1, QuietKeepsBusInv

LEMMA QuietSteps ==
  ASSUME BusInv, NEW c \in Consumers,
         \/ Subscribe(c) \/ SubscribeFails(c)
         \/ Reclaim(c) \/ ReclaimFails(c) \/ ReadNothing(c)
  PROVE  BusInv'
<1> USE DEF BusInv, BusTypeOK, GroupInv, QuietStep, PC, Live, Working, At, redis, busHistory, Pending
<1>1. CASE SubscribeFails(c)
  <2>1. BusTypeOK' /\ GroupInv' /\ QuietStep
    BY <1>1 DEF SubscribeFails
  <2>2. QED
    BY <2>1, QuietKeepsBusInv
<1>2. CASE Reclaim(c)
  <2>1. BusTypeOK' /\ GroupInv' /\ QuietStep
    BY <1>2 DEF Reclaim
  <2>2. QED
    BY <2>1, QuietKeepsBusInv
<1>3. CASE ReclaimFails(c) \/ ReadNothing(c)
  <2>1. BusTypeOK' /\ GroupInv' /\ QuietStep
    BY <1>3 DEF ReclaimFails, ReadNothing
  <2>2. QED
    BY <2>1, QuietKeepsBusInv
<1>4. CASE Subscribe(c)
  <2>1. last' = last
    BY <1>4 DEF Subscribe
  <2>2. BusTypeOK' /\ GroupInv' /\ QuietStep
    BY <1>4, <2>1 DEF Subscribe
  <2>3. QED
    BY <2>2, QuietKeepsBusInv
<1>5. QED
  BY <1>1, <1>2, <1>3, <1>4

LEMMA DeliverProps ==
  ASSUME BusAssumption, BusTypeOK, NEW c \in Consumers, Deliver(c)
  PROVE  /\ Given \in Nat \ {0} /\ last' = last + Given /\ last' \in 0..published'
         /\ published' = published /\ group' = group
         /\ Fresh \subseteq 1..last' /\ 1..last' = 1..last \cup Fresh
         /\ 1..last' \subseteq Entries
         /\ owner' \in [Pending \cup Fresh -> Consumers] /\ Pending' = Pending \cup Fresh
         /\ stale' \subseteq Pending'
<1>1. /\ published \in Nat /\ last \in Nat /\ last <= published /\ published <= MaxEntries
      /\ BatchSize \in Nat /\ MaxEntries \in Nat
  BY DEF BusTypeOK, BusAssumption
<1>2. Given \in Nat \ {0} /\ last + Given <= published
  BY <1>1 DEF Deliver, Given
<1>3. last' = last + Given /\ published' = published /\ group' = group
  BY DEF Deliver
<1> HIDE DEF Given
<1>4. Fresh \subseteq 1..last' /\ 1..last' = 1..last \cup Fresh /\ 1..last' \subseteq Entries
  BY <1>1, <1>2, <1>3 DEF Fresh, Entries
<1>5. owner' \in [Pending \cup Fresh -> Consumers] /\ Pending' = Pending \cup Fresh
  BY DEF Deliver, BusTypeOK, Pending
<1>6. stale' \subseteq Pending'
  BY <1>5 DEF Deliver, BusTypeOK
<1>7. QED
  BY <1>1, <1>2, <1>3, <1>4, <1>5, <1>6

LEMMA ReadSteps ==
  ASSUME BusAssumption, BusInv, NEW c \in Consumers, Read(c) \/ ReadLost(c)
  PROVE  BusInv'
<1> USE DEF BusInv
<1>1. Deliver(c) /\ loop[c] = "read" /\ UNCHANGED <<began, done>>
  BY DEF Read, ReadLost, At, busHistory
<1>2. /\ Given \in Nat \ {0} /\ last' = last + Given /\ last' \in 0..published'
      /\ published' = published /\ group' = group
      /\ Fresh \subseteq 1..last' /\ 1..last' = 1..last \cup Fresh
      /\ 1..last' \subseteq Entries
      /\ owner' \in [Pending \cup Fresh -> Consumers] /\ Pending' = Pending \cup Fresh
      /\ stale' \subseteq Pending'
  BY <1>1, DeliverProps
<1> HIDE DEF Given
<1>3. last \in Nat /\ published \in 0..MaxEntries
  BY DEF BusTypeOK
<1>4. Accounted'
  BY <1>1, <1>2 DEF Accounted
<1>5. CASE Read(c)
  <2>1. /\ batch' = [batch EXCEPT ![c] = [i \in 1..Given |-> last + i]]
        /\ loop' = [loop EXCEPT ![c] = "handle"] /\ forsaken' = forsaken
    BY <1>5 DEF Read, At, busHistory
  <2> DEFINE new == [i \in 1..Given |-> last + i]
  <2>2. new \in Seq(Entries) /\ DOMAIN new = 1..Given /\ new # <<>>
        /\ \A i \in DOMAIN new : new[i] = last + i /\ new[i] <= last' /\ new[i] > last /\ new[i] \in Entries
    <3>1. \A i \in 1..Given : last + i \in Entries
      BY <1>2, <1>3
    <3>2. QED
      BY <1>2, <1>3, <3>1
  <2>3. batch'[c] = new /\ \A d \in Consumers \ {c} : batch'[d] = batch[d] /\ loop'[d] = loop[d]
    BY <2>1 DEF BusTypeOK
  <2> HIDE DEF new
  <2>4. BusTypeOK'
    BY <1>1, <1>2, <1>3, <2>1, <2>2 DEF BusTypeOK, PC, new
  <2>5. loop'[c] = "handle"
    BY <2>1 DEF BusTypeOK
  <2>6. BatchInv'
    <3>1. \A d \in Consumers : batch'[d] # <<>> <=> loop'[d] \in Working
      BY <2>2, <2>3, <2>5 DEF BatchInv, Working
    <3>2. \A d \in Consumers : \A i \in DOMAIN batch[d] : batch[d][i] \in Entries /\ batch[d][i] <= last
      BY DEF BatchInv, BusTypeOK
    <3>3. \A d \in Consumers : \A i \in DOMAIN batch'[d] : batch'[d][i] <= last'
      <4>1. \A d \in Consumers \ {c} : \A i \in DOMAIN batch[d] : batch[d][i] <= last'
        BY <1>2, <1>3, <3>2 DEF Entries
      <4>2. QED
        BY <2>2, <2>3, <4>1
    <3>4. \A d \in Consumers \ {c} : \A i \in DOMAIN new, j \in DOMAIN batch[d] : new[i] # batch[d][j]
      BY <1>3, <2>2, <3>2 DEF Entries
    <3>5. \A i, j \in DOMAIN new : new[i] = new[j] => i = j
      BY <1>2, <1>3, <2>2
    <3>6. \A a, d \in Consumers : \A i \in DOMAIN batch'[a], j \in DOMAIN batch'[d] :
            batch'[a][i] = batch'[d][j] => a = d /\ i = j
      BY <2>3, <3>4, <3>5 DEF BatchInv
    <3>7. QED
      BY <3>1, <3>3, <3>6 DEF BatchInv
  <2>7. FreshInv'
    <3>1. \A i \in DOMAIN new : new[i] \notin done
      <4>1. \A i \in DOMAIN new : new[i] > last
        BY <2>2
      <4>2. \A e \in done : e \in Nat /\ e <= last
        BY <1>3 DEF BusTypeOK
      <4>3. QED
        BY <1>2, <1>3, <2>2, <4>1, <4>2
    <3>2. QED
      BY <1>1, <2>3, <3>1 DEF FreshInv
  <2>8. AckInv' /\ GroupInv'
    BY <1>1, <1>2, <2>3, <2>5 DEF AckInv, GroupInv, Live
  <2>9. QED
    BY <1>4, <2>4, <2>6, <2>7, <2>8
<1>6. CASE ReadLost(c)
  <2>1. /\ batch' = batch /\ forsaken' = forsaken \cup Fresh
        /\ loop' = [loop EXCEPT ![c] = "reclaim"]
    BY <1>6 DEF ReadLost, At
  <2>2. BusTypeOK'
    BY <1>1, <1>2, <1>3, <2>1 DEF BusTypeOK, PC
  <2>3. BatchInv'
    <3>1. \A d \in Consumers : \A i \in DOMAIN batch[d] : batch[d][i] \in Entries /\ batch[d][i] <= last
      BY DEF BatchInv, BusTypeOK
    <3>2. \A d \in Consumers : \A i \in DOMAIN batch[d] : batch[d][i] <= last'
      BY <1>2, <1>3, <3>1 DEF Entries
    <3>3. QED
      BY <1>1, <2>1, <3>2 DEF BatchInv, Working, BusTypeOK
  <2>4. FreshInv'
    BY <1>1, <2>1 DEF FreshInv, BusTypeOK
  <2>5. AckInv' /\ GroupInv'
    BY <1>1, <1>2, <2>1 DEF AckInv, GroupInv, Live, BusTypeOK
  <2>6. QED
    BY <1>4, <2>2, <2>3, <2>4, <2>5
<1>7. QED
  BY <1>5, <1>6

LEMMA HandleStep ==
  ASSUME BusAssumption, BusInv, NEW c \in Consumers, Handle(c)
  PROVE  BusInv'
<1> USE DEF BusInv
<1> DEFINE b == batch[c]
           e == Head(b)
<1>1. /\ loop[c] = "handle" /\ loop' = [loop EXCEPT ![c] = "busy"]
      /\ began' = [began EXCEPT ![e] = @ + 1]
      /\ UNCHANGED <<redis, batch, done, forsaken>>
  BY DEF Handle, At
<1>2. b \in Seq(Entries) /\ b # <<>> /\ e \in Entries /\ e = b[1] /\ e <= last /\ 1 \in DOMAIN b
  BY <1>1, BatchTyped DEF Working
<1>3. BusTypeOK' /\ GroupInv'
  BY <1>1, <1>2 DEF BusTypeOK, GroupInv, PC, Live, redis, Pending
<1>4. BatchInv' /\ AckInv' /\ Accounted'
  BY <1>1 DEF BatchInv, AckInv, Accounted, Working, BusTypeOK, redis, Pending
<1>5. FreshInv'
  BY <1>1 DEF FreshInv, BusTypeOK, redis
<1>6. QED
  BY <1>3, <1>4, <1>5

LEMMA ReturnStep ==
  ASSUME BusAssumption, BusInv, NEW c \in Consumers, HandlerReturns(c)
  PROVE  BusInv'
<1> USE DEF BusInv
<1>1. /\ loop[c] = "busy" /\ loop' = [loop EXCEPT ![c] = "ack"]
      /\ done' = done \cup {Head(batch[c])}
      /\ UNCHANGED <<redis, batch, began, forsaken>>
  BY DEF HandlerReturns, At
<1>2. Head(batch[c]) \in 1..last
  BY <1>1, BatchTyped DEF Working, Entries, BusTypeOK
<1>3. BusTypeOK' /\ GroupInv'
  BY <1>1, <1>2 DEF BusTypeOK, GroupInv, PC, Live, redis, Pending
<1>4. BatchInv' /\ Accounted' /\ AckInv'
  BY <1>1 DEF BatchInv, Accounted, AckInv, Working, BusTypeOK, redis, Pending
<1>5. FreshInv'
  <2>1. Head(batch[c]) = batch[c][1] /\ 1 \in DOMAIN batch[c]
    BY <1>1, BatchTyped DEF Working
  <2>2. ASSUME NEW d \in Consumers, NEW i \in DOMAIN batch[d], i > 1 \/ loop'[d] # "ack"
        PROVE  batch[d][i] \notin done /\ ~(d = c /\ i = 1)
    BY <1>1, <2>2 DEF FreshInv, BusTypeOK
  <2>3. ASSUME NEW d \in Consumers, NEW i \in DOMAIN batch[d], i > 1 \/ loop'[d] # "ack"
        PROVE  batch[d][i] \notin done'
    BY <1>1, <2>1, <2>2, <2>3 DEF BatchInv
  <2>4. QED
    BY <1>1, <2>3 DEF FreshInv, redis
<1>6. QED
  BY <1>3, <1>4, <1>5

(* A batch without its head is still a batch.                              *)
LEMMA ContinueStep ==
  ASSUME BusAssumption, BusInv, NEW c \in Consumers, loop[c] \in {"busy", "ack"}, Continue(c),
         UNCHANGED <<published, group, last, busHistory>>,
         Pending' \subseteq Pending, owner' \in [Pending' -> Consumers], stale' \subseteq Pending',
         Accounted'
  PROVE  BusInv'
<1> USE DEF BusInv
<1> DEFINE b == batch[c]
           t == Tail(b)
<1>1. b \in Seq(Entries) /\ b # <<>>
  BY BatchTyped DEF Working
<1>2. /\ t \in Seq(Entries)
      /\ \A i \in DOMAIN t : i \in Nat \ {0} /\ i + 1 \in DOMAIN b /\ t[i] = b[i + 1]
  BY <1>1, TailProps
<1> HIDE DEF t
<1>3. /\ batch' = [batch EXCEPT ![c] = t]
      /\ loop' = [loop EXCEPT ![c] = IF t = <<>> THEN "reclaim" ELSE "handle"]
  BY DEF Continue, t
<1>4. /\ batch'[c] = t /\ \A d \in Consumers \ {c} : batch'[d] = batch[d] /\ loop'[d] = loop[d]
      /\ loop'[c] = IF t = <<>> THEN "reclaim" ELSE "handle"
  BY <1>3 DEF BusTypeOK
<1>5. BusTypeOK' /\ GroupInv'
  BY <1>2, <1>3 DEF BusTypeOK, GroupInv, PC, Live, busHistory
<1>6. AckInv'
  BY <1>4 DEF AckInv, busHistory
<1>7. BatchInv'
  <2>1. \A d \in Consumers : batch'[d] # <<>> <=> loop'[d] \in Working
    BY <1>4 DEF BatchInv, Working
  <2>2. \A d \in Consumers : \A i \in DOMAIN batch'[d] : batch'[d][i] <= last'
    BY <1>2, <1>4 DEF BatchInv
  <2>3. ASSUME NEW a \in Consumers, NEW d \in Consumers,
               NEW i \in DOMAIN batch'[a], NEW j \in DOMAIN batch'[d], batch'[a][i] = batch'[d][j]
        PROVE  a = d /\ i = j
    <3>1. CASE a = c /\ d = c
      <4>1. /\ i + 1 \in DOMAIN b /\ j + 1 \in DOMAIN b /\ i \in Nat /\ j \in Nat
            /\ b[i + 1] = b[j + 1]
        BY <1>2, <1>4, <2>3, <3>1
      <4>2. i + 1 = j + 1
        BY <4>1 DEF BatchInv
      <4>3. QED
        BY <3>1, <4>1, <4>2
    <3>2. CASE a = c /\ d # c
      BY <1>2, <1>4, <2>3, <3>2 DEF BatchInv
    <3>3. CASE a # c /\ d = c
      BY <1>2, <1>4, <2>3, <3>3 DEF BatchInv
    <3>4. CASE a # c /\ d # c
      BY <1>4, <2>3, <3>4 DEF BatchInv
    <3>5. QED
      BY <3>1, <3>2, <3>3, <3>4
  <2>4. QED
    BY <2>1, <2>2, <2>3 DEF BatchInv
<1>8. FreshInv'
  <2>1. \A i \in DOMAIN t : i + 1 \in DOMAIN b /\ i + 1 > 1 /\ t[i] = b[i + 1]
    BY <1>2
  <2>2. \A i \in DOMAIN t : t[i] \notin done
    BY <2>1 DEF FreshInv
  <2>3. QED
    BY <1>4, <2>2 DEF FreshInv, busHistory
<1>9. QED
  BY <1>5, <1>6, <1>7, <1>8

LEMMA ContinueSteps ==
  ASSUME BusAssumption, BusInv, NEW c \in Consumers,
         HandlerRaises(c) \/ AckFails(c) \/ Ack(c)
  PROVE  BusInv'
<1> USE DEF BusInv
<1>1. CASE HandlerRaises(c) \/ AckFails(c)
  <2>1. loop[c] \in {"busy", "ack"} /\ Continue(c) /\ UNCHANGED <<redis, busHistory>>
    BY <1>1 DEF HandlerRaises, AckFails
  <2>2. /\ UNCHANGED <<published, group, last, busHistory>> /\ Pending' = Pending
        /\ owner' \in [Pending' -> Consumers] /\ stale' \subseteq Pending' /\ Accounted'
    BY <2>1 DEF redis, busHistory, Pending, BusTypeOK, Accounted
  <2>3. QED
    BY <2>1, <2>2, ContinueStep
<1>2. CASE Ack(c)
  <2> DEFINE e == Head(batch[c])
  <2>1. /\ loop[c] = "ack" /\ Continue(c) /\ UNCHANGED <<published, group, last, busHistory>>
        /\ owner' = [f \in Pending \ {e} |-> owner[f]] /\ stale' = stale \ {e}
    BY <1>2 DEF Ack
  <2>2. e \in done
    BY <2>1 DEF AckInv
  <2> HIDE DEF e
  <2>3. /\ Pending' = Pending \ {e} /\ owner' \in [Pending' -> Consumers]
        /\ stale' \subseteq Pending'
    BY <2>1 DEF Pending, BusTypeOK
  <2>4. Accounted'
    BY <2>1, <2>2, <2>3 DEF Accounted, busHistory
  <2>5. QED
    BY <2>1, <2>3, <2>4, ContinueStep
<1>3. QED
  BY <1>1, <1>2

LEMMA DieStep ==
  ASSUME BusAssumption, BusInv, NEW c \in Consumers, Die(c)
  PROVE  BusInv'
<1> USE DEF BusInv
<1>1. /\ loop' = [loop EXCEPT ![c] = "dead"] /\ batch' = [batch EXCEPT ![c] = <<>>]
      /\ forsaken' = forsaken \cup Unbegun(c) /\ UNCHANGED <<redis, began, done>>
  BY DEF Die
<1>2. Unbegun(c) \subseteq 1..last
  BY DEF Unbegun, BatchInv, BusTypeOK, Entries
<1>3. BusTypeOK' /\ GroupInv'
  BY <1>1, <1>2 DEF BusTypeOK, GroupInv, PC, Live, redis, Pending
<1>4. /\ batch'[c] = <<>> /\ loop'[c] = "dead" /\ DOMAIN batch'[c] = {}
      /\ \A d \in Consumers \ {c} : batch'[d] = batch[d] /\ loop'[d] = loop[d]
  BY <1>1 DEF BusTypeOK
<1>5. BatchInv'
  BY <1>1, <1>4 DEF BatchInv, Working, redis
<1>6. AckInv' /\ FreshInv' /\ Accounted'
  BY <1>1, <1>4 DEF AckInv, FreshInv, Accounted, redis, Pending
<1>7. QED
  BY <1>3, <1>5, <1>6

(* The inductive invariant of the bus holds in every state.                *)
THEOREM BusInvHolds == BusSpec => []BusInv
<1>1. BusInit => BusInv
  BY BusAssumption, InitBusInv
<1>2. BusInv /\ [BusNext]_busVars => BusInv'
  <2> SUFFICES ASSUME BusInv, [BusNext]_busVars PROVE BusInv'
    OBVIOUS
  <2>1. CASE UNCHANGED busVars
    BY <2>1 DEF BusInv, busVars, BusTypeOK, GroupInv, BatchInv, Accounted, AckInv, FreshInv,
                Pending
  <2>2. ASSUME NEW c \in Consumers,
               Subscribe(c) \/ SubscribeFails(c) \/ Step(c) \/ Die(c)
        PROVE  BusInv'
    <3>2. CASE Subscribe(c) \/ SubscribeFails(c) \/ Reclaim(c) \/ ReclaimFails(c) \/ ReadNothing(c)
      BY <3>2, BusAssumption, QuietSteps
    <3>3. CASE Read(c) \/ ReadLost(c)
      BY <3>3, BusAssumption, ReadSteps
    <3>4. CASE Handle(c)
      BY <3>4, BusAssumption, HandleStep
    <3>5. CASE HandlerReturns(c)
      BY <3>5, BusAssumption, ReturnStep
    <3>6. CASE HandlerRaises(c) \/ AckFails(c) \/ Ack(c)
      BY <3>6, BusAssumption, ContinueSteps
    <3>7. CASE Die(c)
      BY <3>7, BusAssumption, DieStep
    <3>8. QED
      BY <2>2, <3>2, <3>3, <3>4, <3>5, <3>6, <3>7 DEF Step
  <2>3. CASE Publish
    BY <2>3, BusAssumption, PublishStep
  <2>4. ASSUME NEW e \in Entries, Age(e) PROVE BusInv'
    BY <2>4, BusAssumption, AgeStep
  <2>5. QED
    BY <2>1, <2>2, <2>3, <2>4 DEF BusNext
<1>3. QED
  BY <1>1, <1>2, PTL DEF BusSpec

(* The types of all variables.                                             *)
THEOREM BusTypeCorrect == BusSpec => []BusTypeOK
BY BusInvHolds, PTL DEF BusInv

(* For any number of workers and entries: what has been delivered is done  *)
(* or still on the pending list.                                           *)
THEOREM AccountedHolds == BusSpec => []Accounted
BY BusInvHolds, PTL DEF BusInv

(* For any number of workers and entries: an entry in the hands of a       *)
(* handler is in those of no other, and has been through none.             *)
THEOREM HandledOnceHolds == BusSpec => []HandledOnce
<1>1. BusInv => HandledOnce
  <2> SUFFICES ASSUME BusInv, NEW c \in Consumers, loop[c] = "busy"
               PROVE  /\ Head(batch[c]) \notin done
                      /\ \A d \in Consumers \ {c} :
                           loop[d] = "busy" => Head(batch[d]) # Head(batch[c])
    BY DEF HandledOnce
  <2>1. \A d \in Consumers : loop[d] = "busy" =>
          Head(batch[d]) = batch[d][1] /\ 1 \in DOMAIN batch[d]
    BY BatchTyped DEF BusInv, Working
  <2>2. QED
    BY <2>1 DEF BusInv, BatchInv, FreshInv
<1>2. QED
  BY <1>1, BusInvHolds, PTL

-----------------------------------------------------------------------------
(* RedisLimiter *)

(* SharedBound is not inductive: a call that finds the bucket gone makes a *)
(* full one, so that the time since the last call must be long enough to   *)
(* have filled it (ExpiryInv); that in turn needs to know how old a call   *)
(* can be (StampInv).  The promise needs to know what will be in the       *)
(* bucket when the client comes back (ToldInv, and OwnToldInv for the      *)
(* replicas' own).                                                         *)
OnItsWay(r) == pc[r] \in {"sent", "given"}

StampInv ==
  \A r \in Replicas :
    stamp[r] <= Clock(r) /\ (OnItsWay(r) => Clock(r) <= stamp[r] + MaxDelay)

ExpiryInv == granted = 0 \/ bucket.ts + Ttl <= bucket.until + Spread

ToldInv ==
  told # NotTold =>
    /\ told.at \in Nat
    /\ bucket.ts <= told.at + told.ahead
    /\ Cost <= bucket.tokens + Rate * (told.at + told.ahead - bucket.ts)

OwnInv ==
  \A r \in Replicas : IF own[r] = None THEN grantedBy[r] = 0 ELSE own[r].last \in Nat

OwnToldInv ==
  /\ \A r \in Replicas : ownTold[r] # -1 => Fallback
  /\ \A r \in Replicas : own[r] # None =>
       /\ own[r].last <= Clock(r)
       /\ ownTold[r] # -1 =>
            /\ own[r].last <= ownTold[r]
            /\ Cost <= own[r].tokens + Rate * (ownTold[r] - own[r].last)

IInv ==
  /\ TypeOK /\ StampInv /\ ExpiryInv /\ ToldInv /\ OwnInv /\ OwnToldInv
  /\ SharedBound /\ OwnBound
-----------------------------------------------------------------------------
(* Arithmetic.                                                             *)

LEMMA Constants ==
  /\ Rate \in Nat \ {0} /\ Burst \in Nat \ {0} /\ Cost \in 1..Burst
  /\ Spread \in Nat /\ MaxDelay \in Nat /\ MaxTime \in Nat /\ MaxFailures \in Nat
  /\ Ttl \in Nat /\ Spread + MaxDelay <= Ttl
  /\ Burst <= Rate * (Ttl - Spread - MaxDelay)
<1>1. (TtlFactor * Burst) \in Nat
  BY RedisLimiterAssumption
<1>2. (TtlFactor * Burst) \div Rate \in Int
  BY <1>1, RedisLimiterAssumption
<1>3. Ttl \in Int
  BY <1>2, RedisLimiterAssumption DEF Ttl, Greater
<1>4. QED
  BY <1>3, RedisLimiterAssumption

LEMMA Products ==
  /\ \A a \in Int, b \in Int : Rate * (a + b) = Rate * a + Rate * b
  /\ \A a \in Int : Rate * a \in Int
  /\ \A a \in Nat : Rate * a \in Nat
  /\ Rate * 0 = 0
  BY Constants

LEMMA Monotone ==
  ASSUME NEW a \in Int, NEW b \in Int, a <= b
  PROVE  Rate * a <= Rate * b
<1>1. b - a \in Nat
  OBVIOUS
<1>2. Rate * (b - a) \in Nat /\ Rate * a \in Int
  BY <1>1, Products
<1>3. Rate * (a + (b - a)) = Rate * a + Rate * (b - a)
  BY <1>1, Products
<1>4. a + (b - a) = b
  OBVIOUS
<1>5. QED
  BY <1>2, <1>3, <1>4

LEMMA RetryAfterCovers ==
  ASSUME NEW d \in Nat
  PROVE  RetryAfter(d) \in Nat /\ d <= Rate * RetryAfter(d)
<1>1. d \div Rate \in Nat
  BY Constants
<1>2. d = Rate * (d \div Rate) + (d % Rate) /\ (d % Rate) \in 0..Rate - 1
  BY Constants
<1>3. Rate * (d \div Rate + 1) = Rate * (d \div Rate) + Rate * 1
  BY <1>1, Products
<1>4. Rate * 1 = Rate
  BY Constants
<1>5. QED
  BY <1>1, <1>2, <1>3, <1>4, Constants, Products DEF RetryAfter
-----------------------------------------------------------------------------
(* The script.                                                             *)

LEMMA RefilledProps ==
  ASSUME NEW b, b.tokens \in 0..Burst, b.ts \in Nat, NEW t \in Nat
  PROVE  /\ Refilled(b, t) \in 0..Burst
         /\ b.ts <= t => Refilled(b, t) <= b.tokens + Rate * (t - b.ts)
         /\ t < b.ts => Refilled(b, t) = b.tokens
         /\ \A n \in 0..Burst : b.ts <= t /\ n <= b.tokens + Rate * (t - b.ts) => n <= Refilled(b, t)
<1>1. CASE b.ts <= t
  <2>1. t - b.ts \in Nat /\ Greater(0, t - b.ts) = t - b.ts
    BY <1>1 DEF Greater
  <2>2. Rate * (t - b.ts) \in Nat
    BY <2>1, Products
  <2> DEFINE gain == Rate * (t - b.ts)
  <2>3. Refilled(b, t) = Smaller(Burst, b.tokens + gain)
    BY <2>1 DEF Refilled
  <2> HIDE DEF gain
  <2>4. Smaller(Burst, b.tokens + gain) \in 0..Burst
        /\ Smaller(Burst, b.tokens + gain) <= b.tokens + gain
        /\ \A n \in 0..Burst : n <= b.tokens + gain => n <= Smaller(Burst, b.tokens + gain)
    BY <2>2, Constants DEF Smaller, gain
  <2>5. QED
    BY <1>1, <2>3, <2>4 DEF gain
<1>2. CASE t < b.ts
  <2>1. Greater(0, t - b.ts) = 0
    BY <1>2 DEF Greater
  <2>2. Refilled(b, t) = Smaller(Burst, b.tokens + 0)
    BY <2>1, Products DEF Refilled
  <2>3. QED
    BY <1>2, <2>2, Constants DEF Smaller
<1>3. QED
  BY <1>1, <1>2

(* A bucket that is found, or made, leaves the bound as it was.            *)
LEMMA FoundProps ==
  ASSUME IInv, NEW r \in Replicas, OnItsWay(r)
  PROVE  LET b == Found(stamp[r])
         IN  /\ b.tokens \in 0..Burst /\ b.ts \in Time
             /\ granted + b.tokens <= Burst + Rate * (b.ts + back)
             /\ now < bucket.until => b = bucket
             /\ ~(now < bucket.until) => b.tokens = Burst /\ b.ts = stamp[r]
<1> USE Constants
<1>1. /\ now \in Nat /\ ahead[r] \in 0..Spread /\ stamp[r] \in Time
      /\ bucket.tokens \in 0..Burst /\ bucket.ts \in Time /\ bucket.until \in Nat
      /\ granted \in Nat /\ back \in Nat
  BY DEF IInv, TypeOK
<1>2. CASE now < bucket.until
  BY <1>1, <1>2 DEF Found, IInv, SharedBound
<1>3. CASE ~(now < bucket.until)
  <2>1. Found(stamp[r]) = [tokens |-> Burst, ts |-> stamp[r], until |-> 0]
    BY <1>3 DEF Found
  <2>2. stamp[r] <= now + ahead[r] /\ now + ahead[r] <= stamp[r] + MaxDelay
    BY DEF IInv, StampInv, Clock
  <2>3. stamp[r] \in Nat /\ bucket.ts \in Nat
    BY <1>1 DEF Time
  <2>4. granted + Burst <= Burst + Rate * (stamp[r] + back)
    <3>1. CASE granted = 0
      BY <1>1, <2>3, <3>1, Products
    <3>2. CASE granted # 0
      <4>1. bucket.ts + Ttl <= bucket.until + Spread
        BY <3>2 DEF IInv, ExpiryInv
      <4>2. bucket.ts + back + (Ttl - Spread - MaxDelay) <= stamp[r] + back
        BY <1>1, <1>3, <2>2, <2>3, <4>1
      <4>3. Rate * (bucket.ts + back + (Ttl - Spread - MaxDelay)) <= Rate * (stamp[r] + back)
        BY <1>1, <2>3, <4>2, Monotone
      <4>4. Rate * (bucket.ts + back + (Ttl - Spread - MaxDelay))
              = Rate * (bucket.ts + back) + Rate * (Ttl - Spread - MaxDelay)
        BY <1>1, <2>3, Products
      <4>5. granted + bucket.tokens <= Burst + Rate * (bucket.ts + back)
        BY DEF IInv, SharedBound
      <4>6. /\ Rate * (bucket.ts + back) \in Int /\ Rate * (Ttl - Spread - MaxDelay) \in Int
            /\ Rate * (stamp[r] + back) \in Int
        BY <1>1, <2>3, Products
      <4>7. QED
        BY <1>1, <4>3, <4>4, <4>5, <4>6
    <3>3. QED
      BY <3>1, <3>2
  <2>5. QED
    BY <1>1, <1>3, <2>1, <2>4
<1>4. QED
  BY <1>2, <1>3

(* Steps that leave the replicas' own buckets alone.                       *)
LEMMA OwnToldQuiet ==
  ASSUME IInv, UNCHANGED <<own, ownTold, ahead>>, now' \in {now, now + 1}
  PROVE  OwnToldInv'
<1>1. now \in Nat /\ \A r \in Replicas : ahead[r] \in Nat
  BY Constants DEF IInv, TypeOK
<1>2. \A r \in Replicas : own[r] # None => own[r].last \in Nat /\ own[r].last <= now + ahead[r]
  BY DEF IInv, OwnInv, OwnToldInv, Clock
<1>3. \A r \in Replicas : own'[r] # None => own'[r].last <= now' + ahead'[r]
  BY <1>1, <1>2
<1>4. QED
  BY <1>3 DEF IInv, OwnToldInv, Clock

LEMMA RunNext ==
  ASSUME IInv, NEW r \in Replicas, Run(r)
  PROVE  IInv'
<1> USE Constants
<1> DEFINE t  == stamp[r]
           b  == Found(t)
           n  == Refilled(b, t)
           ok == n >= Cost
           left == IF ok THEN n - Cost ELSE n
<1>1. /\ now \in 0..MaxTime /\ ahead \in [Replicas -> 0..Spread] /\ ahead[r] \in 0..Spread
      /\ stamp \in [Replicas -> Time] /\ t \in Time /\ t \in Nat
      /\ granted \in Nat /\ back \in Nat /\ OnItsWay(r)
      /\ pc \in [Replicas -> {"idle", "sent", "yes", "no", "given"}]
  BY DEF IInv, TypeOK, Run, OnItsWay, Time
<1>2. /\ b.tokens \in 0..Burst /\ b.ts \in Time /\ b.ts \in Nat
      /\ granted + b.tokens <= Burst + Rate * (b.ts + back)
  BY <1>1, FoundProps DEF Time
<1>3. t <= now + ahead[r] /\ now + ahead[r] <= t + MaxDelay
  BY <1>1 DEF IInv, StampInv, Clock
<1> HIDE DEF b
<1>4. /\ n \in 0..Burst
      /\ b.ts <= t => n <= b.tokens + Rate * (t - b.ts)
      /\ t < b.ts => n = b.tokens
  BY <1>1, <1>2, RefilledProps
<1>5. /\ bucket' = [tokens |-> left, ts |-> t, until |-> now + Ttl]
      /\ granted' = granted + (n - left)
      /\ back' = back + Greater(0, b.ts - t)
      /\ told' = IF ok THEN NotTold
                 ELSE [at |-> now + RetryAfter(Cost - n), ahead |-> ahead[r]]
      /\ pc' = [pc EXCEPT ![r] = IF @ = "given" THEN "idle" ELSE IF ok THEN "yes" ELSE "no"]
      /\ UNCHANGED <<now, ahead, own, stamp, failures, grantedBy, ownTold>>
  BY <1>1, <1>4 DEF Run, Stored, b
<1> HIDE DEF n
<1>6. left \in 0..Burst /\ left <= n /\ n - left \in Nat /\ granted' \in Nat
  BY <1>1, <1>4, <1>5
<1>7. back' \in Nat /\ (b.ts <= t => back' = back) /\ (t < b.ts => t + back' = b.ts + back)
  BY <1>1, <1>2, <1>5 DEF Greater
<1>8. SharedBound'
  <2>1. granted + n <= Burst + Rate * (t + back')
    <3>1. CASE b.ts <= t
      <4>1. Rate * ((b.ts + back) + (t - b.ts)) = Rate * (b.ts + back) + Rate * (t - b.ts)
        BY <1>1, <1>2, Products
      <4>2. (b.ts + back) + (t - b.ts) = t + back'
        BY <1>1, <1>2, <1>7, <3>1
      <4>3. Rate * (b.ts + back) \in Int /\ Rate * (t - b.ts) \in Int
        BY <1>1, <1>2, Products
      <4>4. Rate * (t + back') = Rate * (b.ts + back) + Rate * (t - b.ts)
        BY <4>1, <4>2
      <4>5. QED
        BY <1>1, <1>2, <1>4, <3>1, <4>3, <4>4
    <3>2. CASE t < b.ts
      BY <1>4, <1>2, <1>7, <3>2
    <3>3. QED
      BY <1>1, <1>2, <3>1, <3>2
  <2>2. Rate * (t + back') \in Int
    BY <1>1, <1>7, Products
  <2>3. granted' + left = granted + n
    BY <1>1, <1>4, <1>5, <1>6
  <2>4. bucket'.tokens = left /\ bucket'.ts = t
    BY <1>5
  <2>5. QED
    BY <2>1, <2>3, <2>4 DEF SharedBound
<1>9. told' # NotTold => /\ Cost - n \in Nat /\ left = n /\ RetryAfter(Cost - n) \in Nat
                         /\ Cost - n <= Rate * RetryAfter(Cost - n)
                         /\ told' = [at |-> now + RetryAfter(Cost - n), ahead |-> ahead[r]]
  BY <1>4, <1>5, RetryAfterCovers
<1>10. ToldInv'
  <2> SUFFICES ASSUME told' # NotTold
               PROVE  /\ told'.at \in Nat
                      /\ t <= told'.at + told'.ahead
                      /\ Cost <= left + Rate * (told'.at + told'.ahead - t)
    BY <1>5 DEF ToldInv
  <2> DEFINE w == RetryAfter(Cost - n)
             late == now + ahead[r] - t
  <2>1. w \in Nat /\ late \in Nat /\ told'.at = now + w /\ told'.ahead = ahead[r]
    BY <1>1, <1>3, <1>9
  <2>2. told'.at + told'.ahead - t = w + late
    BY <1>1, <2>1
  <2>3. Rate * (w + late) = Rate * w + Rate * late /\ Rate * late \in Nat /\ Rate * w \in Nat
    BY <2>1, Products
  <2>4. Cost - n <= Rate * w /\ left = n
    BY <1>9
  <2> HIDE DEF w, late, left
  <2>5. Cost <= left + (Rate * w + Rate * late)
    BY <1>4, <2>3, <2>4
  <2>6. QED
    BY <1>1, <1>3, <2>1, <2>2, <2>3, <2>5 DEF late
<1>11. TypeOK'
  <2>1. told' \in [at : Nat \cup {-1}, ahead : 0..Spread]
    <3>1. CASE told' = NotTold
      BY <3>1 DEF NotTold
    <3>2. CASE told' # NotTold
      BY <1>1, <1>9, <3>2
    <3>3. QED
      BY <3>1, <3>2
  <2>2. bucket' \in [tokens : 0..Burst, ts : Time, until : Nat]
    BY <1>1, <1>5, <1>6
  <2>3. pc' \in [Replicas -> {"idle", "sent", "yes", "no", "given"}]
    BY <1>1, <1>5
  <2>4. QED
    BY <1>5, <1>6, <1>7, <2>1, <2>2, <2>3 DEF IInv, TypeOK
<1>12. StampInv'
  <2>1. \A q \in Replicas : OnItsWay(q)' => OnItsWay(q)
    BY <1>1, <1>5 DEF OnItsWay
  <2>2. QED
    BY <1>5, <2>1 DEF IInv, StampInv, Clock
<1>13. ExpiryInv'
  BY <1>1, <1>3, <1>5 DEF ExpiryInv
<1>14. OwnInv' /\ OwnBound'
  BY <1>5 DEF IInv, OwnInv, OwnBound
<1>15. OwnToldInv'
  BY <1>5, OwnToldQuiet
<1>16. QED
  BY <1>8, <1>10, <1>11, <1>12, <1>13, <1>14, <1>15 DEF IInv
-----------------------------------------------------------------------------
(* The other steps.                                                        *)

(* Steps that leave the bucket, the time and the histories alone.          *)
LEMMA QuietNext ==
  ASSUME IInv, TypeOK', OwnInv', OwnToldInv', OwnBound',
         UNCHANGED <<bucket, granted, back, told, now, ahead>>,
         \A q \in Replicas :
           stamp'[q] <= Clock(q) /\ (OnItsWay(q)' => Clock(q) <= stamp'[q] + MaxDelay)
  PROVE  IInv'
<1>1. StampInv'
  BY DEF StampInv, Clock
<1>2. ExpiryInv' /\ ToldInv' /\ SharedBound'
  BY DEF IInv, ExpiryInv, ToldInv, SharedBound
<1>3. QED
  BY <1>1, <1>2 DEF IInv

LEMMA CallNext ==
  ASSUME IInv, NEW r \in Replicas, Call(r)
  PROVE  IInv'
<1> USE Constants
<1>1. /\ now \in 0..MaxTime /\ ahead \in [Replicas -> 0..Spread]
      /\ stamp \in [Replicas -> Time] /\ Clock(r) \in Time
      /\ pc \in [Replicas -> {"idle", "sent", "yes", "no", "given"}]
  BY DEF IInv, TypeOK, Clock, Time
<1>2. TypeOK' /\ OwnInv' /\ OwnBound'
  BY <1>1 DEF Call, history, IInv, TypeOK, OwnInv, OwnBound
<1>3. ASSUME NEW q \in Replicas
      PROVE  stamp'[q] <= Clock(q) /\ (OnItsWay(q)' => Clock(q) <= stamp'[q] + MaxDelay)
  <2>1. CASE q = r
    BY <1>1, <2>1 DEF Call, Clock, Time
  <2>2. CASE q # r
    <3>1. (OnItsWay(q)' => OnItsWay(q)) /\ stamp'[q] = stamp[q]
      BY <1>1, <2>2 DEF Call, OnItsWay
    <3>2. QED
      BY <3>1 DEF IInv, StampInv
  <2>3. QED
    BY <2>1, <2>2
<1>4. UNCHANGED <<bucket, granted, back, told, now, ahead, own, ownTold>>
  BY DEF Call, history
<1>5. QED
  BY <1>2, <1>3, <1>4, OwnToldQuiet, QuietNext

LEMMA AnsweredNext ==
  ASSUME IInv, NEW r \in Replicas, Answered(r)
  PROVE  IInv'
<1> USE Constants
<1>1. /\ stamp \in [Replicas -> Time] /\ 0 \in Time
      /\ pc \in [Replicas -> {"idle", "sent", "yes", "no", "given"}]
  BY DEF IInv, TypeOK, Time
<1>2. TypeOK' /\ OwnInv' /\ OwnBound'
  BY <1>1 DEF Answered, history, IInv, TypeOK, OwnInv, OwnBound
<1>3. ASSUME NEW q \in Replicas
      PROVE  stamp'[q] <= Clock(q) /\ (OnItsWay(q)' => Clock(q) <= stamp'[q] + MaxDelay)
  <2>1. CASE q = r
    BY <1>1, <2>1 DEF Answered, OnItsWay, Clock, Time, IInv, TypeOK
  <2>2. CASE q # r
    <3>1. (OnItsWay(q)' => OnItsWay(q)) /\ stamp'[q] = stamp[q]
      BY <1>1, <2>2 DEF Answered, OnItsWay
    <3>2. QED
      BY <3>1 DEF IInv, StampInv
  <2>3. QED
    BY <2>1, <2>2
<1>4. UNCHANGED <<bucket, granted, back, told, now, ahead, own, ownTold>>
  BY DEF Answered, history
<1>5. QED
  BY <1>2, <1>3, <1>4, OwnToldQuiet, QuietNext

LEMMA ResendNext ==
  ASSUME IInv, NEW r \in Replicas, Resend(r)
  PROVE  IInv'
<1> USE Constants
<1>1. /\ now \in 0..MaxTime /\ ahead \in [Replicas -> 0..Spread] /\ ahead[r] \in 0..Spread
      /\ stamp \in [Replicas -> Time] /\ stamp[r] \in Time
      /\ pc \in [Replicas -> {"idle", "sent", "yes", "no", "given"}] /\ failures \in 0..MaxFailures
  BY DEF IInv, TypeOK
<1>2. TypeOK' /\ OwnInv' /\ OwnBound'
  BY <1>1 DEF Resend, Fails, history, IInv, TypeOK, OwnInv, OwnBound
<1>3. ASSUME NEW q \in Replicas
      PROVE  stamp'[q] <= Clock(q) /\ (OnItsWay(q)' => Clock(q) <= stamp'[q] + MaxDelay)
  <2>1. CASE q = r
    BY <1>1, <2>1 DEF Resend, Fails, IInv, StampInv
  <2>2. CASE q # r
    <3>1. (OnItsWay(q)' => OnItsWay(q)) /\ stamp'[q] = stamp[q]
      BY <1>1, <2>2 DEF Resend, Fails, OnItsWay
    <3>2. QED
      BY <3>1 DEF IInv, StampInv
  <2>3. QED
    BY <2>1, <2>2
<1>4. UNCHANGED <<bucket, granted, back, told, now, ahead, own, ownTold>>
  BY DEF Resend, Fails, history
<1>5. QED
  BY <1>2, <1>3, <1>4, OwnToldQuiet, QuietNext

(* What a replica's own bucket holds once it is refilled.                  *)
LEMMA OwnRefilledProps ==
  ASSUME IInv, NEW r \in Replicas
  PROVE  LET b == OwnRefilled(r)
         IN  /\ b \in [tokens : 0..Burst, last : Time] /\ b.last \in Nat
             /\ b.last = Clock(r) /\ Clock(r) \in Nat
             /\ grantedBy[r] + b.tokens <= Burst + Rate * b.last
<1> USE Constants
<1>1. /\ now \in 0..MaxTime /\ ahead[r] \in 0..Spread /\ Clock(r) \in Time /\ Clock(r) \in Nat
      /\ grantedBy[r] \in Nat
  BY DEF IInv, TypeOK, Clock, Time
<1>2. own[r] \in [tokens : 0..Burst, last : Time \cup {-1}]
  BY DEF IInv, TypeOK
<1>3. CASE own[r] = None
  <2>1. OwnRefilled(r) = [tokens |-> Burst, last |-> Clock(r)] /\ grantedBy[r] = 0
    BY <1>3 DEF OwnRefilled, IInv, OwnInv
  <2>2. Rate * Clock(r) \in Nat
    BY <1>1, Products
  <2>3. QED
    BY <1>1, <2>1, <2>2
<1>4. CASE own[r] # None
  <2>1. /\ own[r].last \in Nat /\ own[r].last \in Time /\ own[r].tokens \in 0..Burst
        /\ grantedBy[r] + own[r].tokens <= Burst + Rate * own[r].last
    BY <1>2, <1>4 DEF IInv, OwnInv, OwnBound, Time
  <2>2. CASE ~(Clock(r) > own[r].last)
    <3>1. own[r].last = Clock(r)
      BY <1>1, <1>4, <2>1, <2>2 DEF IInv, OwnToldInv
    <3>2. QED
      BY <1>1, <1>2, <1>4, <2>1, <2>2, <3>1 DEF OwnRefilled
  <2>3. CASE Clock(r) > own[r].last
    <3> DEFINE d == Clock(r) - own[r].last
               gain == Rate * d
    <3>1. d \in Nat /\ own[r].last + d = Clock(r)
      BY <1>1, <2>1, <2>3
    <3>2. gain \in Nat
      BY <3>1, Products
    <3> HIDE DEF d
    <3>3. Rate * (own[r].last + d) = Rate * own[r].last + gain /\ Rate * own[r].last \in Nat
      <4>1. \A l \in Nat : Rate * (l + d) = Rate * l + Rate * d /\ Rate * l \in Nat
        BY <3>1, Products
      <4>2. QED
        BY <2>1, <4>1 DEF gain
    <3>4. OwnRefilled(r) = [tokens |-> Smaller(Burst, own[r].tokens + gain), last |-> Clock(r)]
      BY <1>4, <2>3 DEF OwnRefilled, d
    <3> HIDE DEF gain
    <3>5. /\ Smaller(Burst, own[r].tokens + gain) \in 0..Burst
          /\ Smaller(Burst, own[r].tokens + gain) <= own[r].tokens + gain
      BY <2>1, <3>2 DEF Smaller
    <3>6. QED
      BY <1>1, <2>1, <3>1, <3>2, <3>3, <3>4, <3>5
  <2>4. QED
    BY <2>2, <2>3
<1>5. QED
  BY <1>3, <1>4

LEMMA GiveUpNext ==
  ASSUME IInv, NEW r \in Replicas, GiveUp(r)
  PROVE  IInv'
<1> USE Constants
<1> DEFINE b  == OwnRefilled(r)
           ok == Fallback /\ b.tokens >= Cost
<1>1. /\ stamp \in [Replicas -> Time] /\ 0 \in Time /\ failures \in 0..MaxFailures
      /\ pc \in [Replicas -> {"idle", "sent", "yes", "no", "given"}]
      /\ own \in [Replicas -> [tokens : 0..Burst, last : Time \cup {-1}]]
      /\ grantedBy \in [Replicas -> Nat]
  BY DEF IInv, TypeOK, Time
<1>2. /\ b \in [tokens : 0..Burst, last : Time] /\ b.last \in Nat
      /\ b.last = Clock(r) /\ Clock(r) \in Nat
      /\ grantedBy[r] + b.tokens <= Burst + Rate * b.last
  BY OwnRefilledProps
<1>3. /\ own' = [own EXCEPT ![r] = IF ~Fallback THEN own[r]
                                   ELSE IF ok THEN [b EXCEPT !.tokens = b.tokens - Cost] ELSE b]
      /\ grantedBy' = [grantedBy EXCEPT ![r] = IF ok THEN grantedBy[r] + Cost ELSE grantedBy[r]]
      /\ ownTold' = [ownTold EXCEPT ![r] = IF ok \/ ~Fallback THEN -1
                                           ELSE Clock(r) + RetryAfter(Cost - b.tokens)]
      /\ UNCHANGED <<bucket, granted, back, told, now, ahead>>
      /\ failures' \in 0..MaxFailures
  BY <1>1 DEF GiveUp, Fails
<1> HIDE DEF b
<1>4. /\ pc' \in [Replicas -> {"idle", "sent", "yes", "no", "given"}]
      /\ stamp' \in [Replicas -> Time]
      /\ \A q \in Replicas : OnItsWay(q)' => OnItsWay(q) /\ stamp'[q] = stamp[q]
      /\ \A q \in Replicas : stamp'[q] = stamp[q] \/ stamp'[q] = 0
  BY <1>1 DEF GiveUp, OnItsWay
<1>5. ASSUME NEW q \in Replicas
      PROVE  /\ own'[q] \in [tokens : 0..Burst, last : Time \cup {-1}] /\ grantedBy'[q] \in Nat
             /\ IF own'[q] = None THEN grantedBy'[q] = 0
                ELSE /\ own'[q].last \in Nat
                     /\ grantedBy'[q] + own'[q].tokens <= Burst + Rate * own'[q].last
  <2>1. CASE q # r \/ ~Fallback
    <3>1. own'[q] = own[q] /\ grantedBy'[q] = grantedBy[q]
      BY <1>1, <1>3, <2>1
    <3>2. QED
      BY <1>1, <3>1 DEF IInv, OwnInv, OwnBound
  <2>2. CASE q = r /\ Fallback /\ ok
    <3>1. own'[q] = [tokens |-> b.tokens - Cost, last |-> b.last] /\ grantedBy'[q] = grantedBy[r] + Cost
      BY <1>1, <1>2, <1>3, <2>2
    <3>2. own'[q].last # None.last
      BY <1>2, <3>1 DEF None
    <3>3. Rate * b.last \in Nat
      BY <1>2, Products
    <3>4. QED
      BY <1>1, <1>2, <2>2, <3>1, <3>2, <3>3
  <2>3. CASE q = r /\ Fallback /\ ~ok
    <3>1. own'[q] = b /\ grantedBy'[q] = grantedBy[r]
      BY <1>1, <1>3, <2>3
    <3>2. own'[q].last # None.last
      BY <1>2, <3>1 DEF None
    <3>3. QED
      BY <1>1, <1>2, <2>3, <3>1, <3>2
  <2>4. QED
    BY <2>1, <2>2, <2>3
<1>6. OwnInv' /\ OwnBound'
  BY <1>5 DEF OwnInv, OwnBound
<1>7. own' \in [Replicas -> [tokens : 0..Burst, last : Time \cup {-1}]]
      /\ grantedBy' \in [Replicas -> Nat]
  BY <1>1, <1>3, <1>5
<1>8. ASSUME Fallback, ~ok
      PROVE  /\ ownTold'[r] \in Nat /\ b.last <= ownTold'[r]
             /\ Cost <= b.tokens + Rate * (ownTold'[r] - b.last)
  <2> DEFINE w == RetryAfter(Cost - b.tokens)
  <2>1. Cost - b.tokens \in Nat
    BY <1>2, <1>8
  <2>2. w \in Nat /\ Cost - b.tokens <= Rate * w
    BY <2>1, RetryAfterCovers
  <2>3. ownTold'[r] = b.last + w
    BY <1>2, <1>3, <1>8 DEF IInv, TypeOK
  <2> HIDE DEF w
  <2>4. ownTold'[r] - b.last = w
    BY <1>2, <2>2, <2>3
  <2>5. Rate * w \in Nat
    BY <2>2, Products
  <2>6. QED
    BY <1>2, <2>2, <2>3, <2>4, <2>5
<1>9. TypeOK'
  <2>1. ownTold' \in [Replicas -> Nat \cup {-1}]
    BY <1>3, <1>8 DEF IInv, TypeOK
  <2>2. QED
    BY <1>3, <1>4, <1>7, <2>1 DEF IInv, TypeOK
<1>10. OwnToldInv'
  <2>0. \A q \in Replicas : ownTold'[q] # -1 => Fallback
    BY <1>3 DEF IInv, TypeOK, OwnToldInv
  <2> SUFFICES ASSUME NEW q \in Replicas, own'[q] # None
               PROVE  /\ own'[q].last <= Clock(q)
                      /\ ownTold'[q] # -1 =>
                           /\ own'[q].last <= ownTold'[q]
                           /\ Cost <= own'[q].tokens + Rate * (ownTold'[q] - own'[q].last)
    BY <1>3, <2>0 DEF OwnToldInv, Clock
  <2>1. CASE q # r
    <3>1. own'[q] = own[q] /\ ownTold'[q] = ownTold[q]
      BY <1>1, <1>3, <2>1 DEF IInv, TypeOK
    <3>2. QED
      BY <3>1 DEF IInv, OwnToldInv
  <2>2. CASE q = r /\ ~Fallback
    <3>1. own'[q] = own[q] /\ ownTold'[q] = -1
      BY <1>1, <1>3, <2>2 DEF IInv, TypeOK
    <3>2. QED
      BY <3>1 DEF IInv, OwnToldInv
  <2>3. CASE q = r /\ Fallback /\ ok
    <3>1. own'[q].last = b.last /\ ownTold'[q] = -1
      BY <1>1, <1>2, <1>3, <2>3 DEF IInv, TypeOK
    <3>2. QED
      BY <1>2, <2>3, <3>1
  <2>4. CASE q = r /\ Fallback /\ ~ok
    <3>1. own'[q] = b
      BY <1>1, <1>3, <2>4
    <3>2. QED
      BY <1>2, <1>8, <2>4, <3>1
  <2>5. QED
    BY <2>1, <2>2, <2>3, <2>4
<1>11. \A q \in Replicas :
        stamp'[q] <= Clock(q) /\ (OnItsWay(q)' => Clock(q) <= stamp'[q] + MaxDelay)
  BY <1>4 DEF IInv, StampInv, TypeOK, Clock
<1>12. QED
  BY <1>3, <1>6, <1>11, <1>10, <1>9, QuietNext

LEMMA ResetNext ==
  ASSUME IInv, NEW r \in Replicas, Reset(r)
  PROVE  IInv'
<1> USE Constants
<1>1. None \in [tokens : 0..Burst, last : Time \cup {-1}]
  BY DEF None
<1>2. TypeOK'
  BY <1>1 DEF Reset, IInv, TypeOK
<1>3. OwnInv' /\ OwnBound'
  BY DEF Reset, IInv, TypeOK, OwnInv, OwnBound
<1>4. UNCHANGED <<bucket, granted, back, told, now, ahead, pc, stamp>>
  BY DEF Reset
<1>5. OwnToldInv'
  BY DEF Reset, IInv, TypeOK, OwnToldInv, Clock
<1>6. QED
  BY <1>2, <1>3, <1>4, <1>5, QuietNext DEF IInv, StampInv, OnItsWay

LEMMA TickNext ==
  ASSUME IInv, Tick
  PROVE  IInv'
<1> USE Constants
<1>1. TypeOK'
  BY DEF Tick, history, IInv, TypeOK
<1>2. StampInv'
  BY DEF Tick, history, IInv, TypeOK, StampInv, OnItsWay, Clock, Time
<1>3. UNCHANGED <<bucket, own, granted, grantedBy, back, told, ownTold>>
  BY DEF Tick, history
<1>4. ExpiryInv' /\ ToldInv' /\ OwnInv' /\ SharedBound' /\ OwnBound'
  BY <1>3 DEF IInv, ExpiryInv, ToldInv, OwnInv, SharedBound, OwnBound
<1>5. OwnToldInv'
  BY <1>3, OwnToldQuiet DEF Tick
<1>6. QED
  BY <1>1, <1>2, <1>4, <1>5 DEF IInv
-----------------------------------------------------------------------------
LEMMA InitIInv == Init => IInv
<1> SUFFICES ASSUME Init PROVE IInv
  OBVIOUS
<1> USE Constants
<1>1. TypeOK
  BY DEF Init, TypeOK, Time, None, NotTold
<1>2. StampInv /\ ExpiryInv /\ ToldInv /\ OwnInv /\ OwnToldInv /\ OwnBound
  BY DEF Init, StampInv, OnItsWay, Clock, ExpiryInv, ToldInv, OwnInv, OwnToldInv, OwnBound
<1>3. SharedBound
  BY Products DEF Init, SharedBound
<1>4. QED
  BY <1>1, <1>2, <1>3 DEF IInv

LEMMA NextIInv == IInv /\ [Next]_vars => IInv'
<1> SUFFICES ASSUME IInv, [Next]_vars PROVE IInv'
  OBVIOUS
<1>1. ASSUME NEW r \in Replicas, Call(r) PROVE IInv'
  BY <1>1, CallNext
<1>2. ASSUME NEW r \in Replicas, Run(r) PROVE IInv'
  BY <1>2, RunNext
<1>3. ASSUME NEW r \in Replicas, Answered(r) PROVE IInv'
  BY <1>3, AnsweredNext
<1>4. ASSUME NEW r \in Replicas, Resend(r) PROVE IInv'
  BY <1>4, ResendNext
<1>5. ASSUME NEW r \in Replicas, GiveUp(r) PROVE IInv'
  BY <1>5, GiveUpNext
<1>6. ASSUME NEW r \in Replicas, Reset(r) PROVE IInv'
  BY <1>6, ResetNext
<1>7. CASE Tick
  BY <1>7, TickNext
<1>8. CASE UNCHANGED vars
  <2>1. TypeOK' /\ StampInv' /\ ExpiryInv' /\ ToldInv'
    BY <1>8 DEF vars, IInv, TypeOK, StampInv, OnItsWay, Clock, ExpiryInv, ToldInv
  <2>2. OwnInv' /\ OwnToldInv' /\ SharedBound' /\ OwnBound'
    BY <1>8 DEF vars, IInv, OwnInv, OwnToldInv, Clock, SharedBound, OwnBound
  <2>3. QED
    BY <2>1, <2>2 DEF IInv
<1>9. QED
  BY <1>1, <1>2, <1>3, <1>4, <1>5, <1>6, <1>7, <1>8 DEF Next

(* The inductive invariant holds in every state.                           *)
THEOREM IInvHolds == Spec => []IInv
  BY InitIInv, NextIInv, PTL DEF Spec

(* Buckets hold between nothing and Burst, and every variable keeps its    *)
(* type, for any number of replicas.                                       *)
THEOREM TypeCorrect == Spec => []TypeOK
<1>1. IInv => TypeOK
  BY DEF IInv
<1>2. QED
  BY <1>1, IInvHolds, PTL

(* The bound on what Redis grants a client, for any replicas, clocks,      *)
(* delays, losses and repetitions of calls.                                *)
THEOREM SharedBoundHolds == Spec => []SharedBound
<1>1. IInv => SharedBound
  BY DEF IInv
<1>2. QED
  BY <1>1, IInvHolds, PTL

(* The bound on what a replica grants by itself.                           *)
THEOREM OwnBoundHolds == Spec => []OwnBound
<1>1. IInv => OwnBound
  BY DEF IInv
<1>2. QED
  BY <1>1, IInvHolds, PTL
-----------------------------------------------------------------------------
(* What the bucket holds when a client that was told to wait is back.      *)
LEMMA BackInTime ==
  ASSUME IInv, NEW r \in Replicas, OnItsWay(r), told # NotTold,
         stamp[r] - ahead[r] >= told.at, ahead[r] >= told.ahead
  PROVE  Cost <= Refilled(Found(stamp[r]), stamp[r])
<1> USE Constants
<1> DEFINE b == Found(stamp[r])
<1>1. /\ stamp[r] \in Nat /\ ahead[r] \in Nat /\ told.ahead \in Nat
      /\ bucket.tokens \in 0..Burst /\ bucket.ts \in Nat
  BY DEF IInv, TypeOK, Time
<1>2. /\ told.at \in Nat /\ bucket.ts <= told.at + told.ahead
      /\ Cost <= bucket.tokens + Rate * (told.at + told.ahead - bucket.ts)
  BY DEF IInv, ToldInv
<1>3. /\ b.tokens \in 0..Burst /\ b.ts \in Nat
      /\ now < bucket.until => b = bucket
      /\ ~(now < bucket.until) => b.tokens = Burst /\ b.ts = stamp[r]
  BY FoundProps DEF Time
<1> HIDE DEF b
<1>4. \A n \in 0..Burst :
        b.ts <= stamp[r] /\ n <= b.tokens + Rate * (stamp[r] - b.ts) => n <= Refilled(b, stamp[r])
  BY <1>1, <1>3, RefilledProps
<1>5. b.ts <= stamp[r] /\ Cost <= b.tokens + Rate * (stamp[r] - b.ts)
  <2>1. CASE now < bucket.until
    <3>1. told.at + told.ahead - bucket.ts <= stamp[r] - bucket.ts
      BY <1>1, <1>2
    <3>2. Rate * (told.at + told.ahead - bucket.ts) <= Rate * (stamp[r] - bucket.ts)
      BY <1>1, <1>2, <3>1, Monotone
    <3>3. Rate * (told.at + told.ahead - bucket.ts) \in Int /\ Rate * (stamp[r] - bucket.ts) \in Int
      BY <1>1, <1>2, Products
    <3>4. Cost <= bucket.tokens + Rate * (stamp[r] - bucket.ts)
      BY <1>1, <1>2, <3>2, <3>3
    <3>5. QED
      BY <1>1, <1>2, <1>3, <2>1, <3>4
  <2>2. CASE ~(now < bucket.until)
    <3>1. Rate * (stamp[r] - b.ts) = 0
      BY <1>1, <1>3, <2>2, Products
    <3>2. QED
      BY <1>1, <1>3, <2>2, <3>1
  <2>3. QED
    BY <2>1, <2>2
<1>6. QED
  BY <1>4, <1>5 DEF b

(* What a replica's own bucket holds then.                                 *)
LEMMA OwnBackInTime ==
  ASSUME IInv, NEW r \in Replicas, ownTold[r] # -1, Clock(r) >= ownTold[r]
  PROVE  Cost <= OwnRefilled(r).tokens
<1> USE Constants
<1>1. Clock(r) \in Nat /\ ownTold[r] \in Nat
  BY OwnRefilledProps DEF IInv, TypeOK
<1>2. CASE own[r] = None
  BY <1>2 DEF OwnRefilled
<1>3. CASE own[r] # None
  <2> DEFINE b == own[r]
  <2>1. /\ b.last \in Nat /\ b.last <= ownTold[r] /\ b.tokens \in 0..Burst
        /\ Cost <= b.tokens + Rate * (ownTold[r] - b.last)
    BY <1>3 DEF IInv, TypeOK, OwnInv, OwnToldInv
  <2>2. Rate * (ownTold[r] - b.last) <= Rate * (Clock(r) - b.last)
    BY <1>1, <2>1, Monotone
  <2>3. Rate * (ownTold[r] - b.last) \in Int /\ Rate * (Clock(r) - b.last) \in Int
    BY <1>1, <2>1, Products
  <2>4. Cost <= b.tokens + Rate * (Clock(r) - b.last)
    BY <2>1, <2>2, <2>3
  <2>5. CASE Clock(r) > b.last
    <3>1. OwnRefilled(r).tokens = Smaller(Burst, b.tokens + Rate * (Clock(r) - b.last))
      BY <1>3, <2>5 DEF OwnRefilled
    <3>2. QED
      BY <2>3, <2>4, <3>1 DEF Smaller
  <2>6. CASE ~(Clock(r) > b.last)
    <3>1. OwnRefilled(r) = b /\ Clock(r) - b.last = 0
      BY <1>1, <1>3, <2>1, <2>6 DEF OwnRefilled
    <3>2. QED
      BY <2>1, <2>4, <3>1, Products
  <2>7. QED
    BY <2>5, <2>6
<1>4. QED
  BY <1>2, <1>3

(* A client that waits as Redis told it is admitted there, whichever       *)
(* replica answers, if its clock is not behind; one that waits as a        *)
(* replica's own bucket told it is admitted by that bucket.                *)
THEOREM KeptPromiseHolds == Spec => KeptPromise
<1>1. IInv /\ [Next]_vars => [\A r \in Replicas : KeptAtRedis(r)]_vars
  <2> SUFFICES ASSUME IInv, Next, NEW r \in Replicas,
                      pc[r] = "sent", pc'[r] \in {"yes", "no"}, told # NotTold,
                      stamp[r] - ahead[r] >= told.at, ahead[r] >= told.ahead
               PROVE  pc'[r] = "yes"
    BY DEF KeptAtRedis
  <2>1. pc \in [Replicas -> {"idle", "sent", "yes", "no", "given"}]
    BY DEF IInv, TypeOK
  <2>2. ~Tick
    BY DEF Tick
  <2>3. ASSUME NEW q \in Replicas,
               Call(q) \/ Answered(q) \/ Resend(q) \/ GiveUp(q) \/ Reset(q)
        PROVE  FALSE
    BY <2>1, <2>3 DEF Call, Answered, Resend, GiveUp, Reset, Fails
  <2>4. ASSUME NEW q \in Replicas, Run(q)
        PROVE  pc'[r] = "yes"
    <3>1. q = r
      BY <2>1, <2>4 DEF Run
    <3>2. Cost <= Refilled(Found(stamp[r]), stamp[r])
      BY BackInTime DEF OnItsWay
    <3>3. Refilled(Found(stamp[r]), stamp[r]) \in 0..Burst
      <4>1. Found(stamp[r]).tokens \in 0..Burst /\ Found(stamp[r]).ts \in Nat /\ stamp[r] \in Nat
        BY FoundProps, Constants DEF OnItsWay, Time, IInv, TypeOK
      <4>2. QED
        BY <4>1, RefilledProps
    <3>4. QED
      BY <2>1, <2>4, <3>1, <3>2, <3>3, Constants DEF Run
  <2>5. CASE now = MaxTime /\ back >= MaxBack /\ UNCHANGED vars
    BY <2>5 DEF vars
  <2>6. QED
    BY <2>2, <2>3, <2>4, <2>5 DEF Next
<1>2. IInv /\ [Next]_vars => [\A r \in Replicas : KeptByOwn(r)]_vars
  <2> SUFFICES ASSUME IInv, NEW r \in Replicas, GiveUp(r),
                      ownTold[r] # -1, Clock(r) >= ownTold[r]
               PROVE  grantedBy'[r] = grantedBy[r] + Cost
    BY DEF KeptByOwn
  <2>1. OwnRefilled(r).tokens >= Cost
    <3>1. OwnRefilled(r).tokens \in 0..Burst
      BY OwnRefilledProps
    <3>2. QED
      BY <3>1, OwnBackInTime, Constants
  <2>2. Fallback
    BY DEF IInv, OwnToldInv
  <2>3. QED
    BY <2>1, <2>2 DEF GiveUp, IInv, TypeOK
<1>3. IInv /\ [Next]_vars => [\A r \in Replicas : KeptAtRedis(r) /\ KeptByOwn(r)]_vars
  BY <1>1, <1>2
<1>4. QED
  BY <1>3, IInvHolds, PTL DEF Spec, KeptPromise
=============================================================================
