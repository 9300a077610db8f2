------------------------- MODULE PlanExecutorProofs -------------------------
(***************************************************************************)
(* Proofs about PlanExecutor and, in the second part, about MultiAgent,    *)
(* which runs it: for every set of identifiers, every set of plans, every  *)
(* size of the semaphore and any number of reflections.                    *)
(***************************************************************************)
EXTENDS MultiAgent, FiniteSetTheorems, SequenceTheorems, TLAPS

-----------------------------------------------------------------------------
(* The inductive invariant, beyond TypeOK.                                 *)

(* The tasks being gathered are exactly the next layer's steps that have   *)
(* no result yet, each once, and gathering never starts after a failure.   *)
GatherInv ==
  pc = "gather" =>
    /\ Batch = Pending
    /\ ~failed
    /\ \A i, j \in DOMAIN order : order[i] = order[j] => i = j

(* Only steps of the layer being gathered are in progress. *)
ActiveInv == \A s \in Ids : status[s] \in Active => pc = "gather" /\ s \in Batch

(* The layers done with are closed under dependencies and have results. *)
LayeredInv == \A s \in layered : plan.deps[s] \subseteq layered /\ status[s] \in Terminal

(* Until a failure is recorded every critical step of those layers is DONE. *)
GoodInv == ~failed => \A s \in layered \cap plan.critical : status[s] = "done"

(* A cached step stays DONE until its layer is done with. *)
CacheInv ==
  pc \notin {"validate", "rejected"} => \A s \in cache \ layered : status[s] = "done"

(* A step skipped inside the layer has a failed critical step beside it. *)
SkipInv ==
  pc = "gather" => \A s \in Batch : status[s] = "skipped" => LocalFailed # {}

(* Tasks that have not started are untouched. *)
UnstartedInv ==
  pc = "gather" => \A i \in DOMAIN order : i > started => status[order[i]] = "new"

(* A step that is in no layer so far and has no cached result is untouched. *)
FreshInv ==
  \A s \in plan.steps \ (layered \cup cache) :
    status[s] = "new" \/ (pc = "gather" /\ s \in Batch)

(* The queue holds the waiting tasks, each once. *)
QueueInv ==
  /\ \A s \in Ids : status[s] = "waiting" <=> \E i \in DOMAIN queue : queue[i] = s
  /\ \A i, j \in DOMAIN queue : queue[i] = queue[j] => i = j

IInv ==
  /\ GatherInv /\ ActiveInv /\ LayeredInv /\ GoodInv
  /\ CacheInv /\ SkipInv /\ UnstartedInv /\ FreshInv /\ QueueInv
-----------------------------------------------------------------------------
(* An ordering of a finite set lists each of its elements once. *)
LEMMA SetToSeqsProps ==
  ASSUME NEW S, IsFiniteSet(S), NEW o \in SetToSeqs(S)
  PROVE  /\ o \in Seq(S)
         /\ DOMAIN o = 1..Cardinality(S)
         /\ {o[i] : i \in DOMAIN o} = S
         /\ \A i, j \in DOMAIN o : o[i] = o[j] => i = j
<1> DEFINE n == Cardinality(S)
           T == {o[i] : i \in 1..n}
<1>1. n \in Nat
  BY FS_CardinalityType
<1>2. o \in [1..n -> S] /\ \A i, j \in 1..n : i # j => o[i] # o[j]
  BY DEF SetToSeqs
<1>3. o \in Seq(S)
  BY <1>1, <1>2
<1>4. T = S
  <2>1. T \subseteq S
    BY <1>2
  <2>2. o \in Bijection(1..n, T)
    BY <1>2, Zenon DEF Bijection, Injection, Surjection, IsInjective
  <2>3. ExistsBijection(1..n, T)
    BY <2>2 DEF ExistsBijection
  <2>4. IsFiniteSet(1..n) /\ Cardinality(1..n) = n
    BY <1>1, FS_Interval
  <2>5. Cardinality(T) = n
    BY <2>3, <2>4, FS_Bijection
  <2>6. QED
    BY <2>1, <2>5, FS_Subset
<1>5. DOMAIN o = 1..n
  BY <1>2
<1>6. QED
  BY <1>2, <1>3, <1>4, <1>5

-----------------------------------------------------------------------------
LEMMA FiniteSteps ==
  ASSUME TypeOK
  PROVE  /\ IsFiniteSet(plan.steps) /\ plan.steps \subseteq Ids
         /\ IsFiniteSet(cache) /\ IsFiniteSet(NextLayer) /\ IsFiniteSet(Pending)
         /\ Pending \subseteq NextLayer /\ NextLayer \subseteq plan.steps
         /\ IsFiniteSet(Running) /\ Cardinality(Running) \in Nat
<1>1. plan.steps \subseteq Ids
  BY DEF TypeOK, PlanSet
<1>2. cache \subseteq Ids /\ NextLayer \subseteq plan.steps /\ Pending \subseteq NextLayer
      /\ Running \subseteq Ids
  BY <1>1 DEF TypeOK, NextLayer, Pending, Running
<1>3. \A S : S \subseteq Ids => IsFiniteSet(S)
  BY FS_Subset, PlanExecutorAssumption
<1>4. QED
  BY <1>1, <1>2, <1>3, FS_CardinalityType
-----------------------------------------------------------------------------
(* What a task does between two awaits, seen from outside: it moves itself *)
(* and at most one waiter, and touches nothing of the loop in run().       *)
OwnStep(s) ==
  /\ pc = "gather" /\ s \in Batch /\ status[s] \notin Terminal
  /\ UNCHANGED <<plan, cache, pc, layered, order, failed, results>>
  /\ status' \in [Ids -> Status] /\ status'[s] # "new"
  /\ \A t \in Ids \ {s} :
       \/ status'[t] = status[t]
       \/ status[t] = "waiting" /\ status'[t] = "running" /\ t \in Batch
  /\ status'[s] = "skipped" => LocalFailed # {}
  /\ started <= started' /\ started' \in 0..Len(order)
  /\ \A i \in DOMAIN order : i > started' => order[i] # s

LEMMA HandedProps ==
  ASSUME TypeOK, QueueInv
  PROVE  /\ Handed \subseteq {t \in Ids : status[t] = "waiting"}
         /\ queue = <<>> <=> Handed = {}
         /\ queue # <<>> => Handed = {queue[1]} /\ Tail(queue) \in Seq(Ids)
<1>1. queue \in Seq(Ids)
  BY DEF TypeOK
<1>2. CASE queue = <<>>
  BY <1>2 DEF Handed
<1>3. CASE queue # <<>>
  <2>1. Len(queue) >= 1 /\ Head(queue) = queue[1] /\ queue[1] \in Ids /\ 1 \in DOMAIN queue
    BY <1>1, <1>3
  <2>2. status[queue[1]] = "waiting"
    BY <2>1 DEF QueueInv
  <2>3. Tail(queue) \in Seq(Ids)
    BY <1>1, <1>3
  <2>4. QED
    BY <1>3, <2>1, <2>2, <2>3 DEF Handed
<1>4. QED
  BY <1>2, <1>3

LEMMA IsNextProps ==
  ASSUME TypeOK, GatherInv, UnstartedInv, NEW s \in Ids, IsNext(s), started' = started + 1
  PROVE  /\ pc = "gather" /\ s \in Batch /\ status[s] = "new"
         /\ started' \in 0..Len(order) /\ started <= started'
         /\ \A i \in DOMAIN order : i > started' => order[i] # s
<1>1. order \in Seq(Ids) /\ started \in 0..Len(order)
  BY DEF TypeOK
<1>2. started + 1 \in DOMAIN order /\ order[started + 1] = s /\ pc = "gather"
  BY <1>1 DEF IsNext
<1>3. status[s] = "new"
  BY <1>1, <1>2 DEF UnstartedInv
<1>4. \A i \in DOMAIN order : i > started + 1 => order[i] # s
  BY <1>1, <1>2 DEF GatherInv
<1>5. QED
  BY <1>1, <1>2, <1>3, <1>4 DEF Batch, IsNext

(* Which tasks arrive at the semaphore. *)
LEMMA ArriveProps ==
  ASSUME TypeOK, GatherInv, ActiveInv, UnstartedInv, NEW s \in Ids, Arrive(s)
  PROVE  /\ pc = "gather" /\ s \in Batch /\ status[s] \in {"new", "backoff"}
         /\ started' \in 0..Len(order) /\ started <= started'
         /\ \A i \in DOMAIN order : i > started' => order[i] # s
         /\ attempts' \in [Ids -> Nat]
<1>1. attempts' \in [Ids -> Nat]
  BY DEF Arrive, TypeOK
<1>2. CASE IsNext(s) /\ started' = started + 1
  BY <1>1, <1>2, IsNextProps
<1>3. CASE pc = "gather" /\ AllStarted /\ status[s] = "backoff" /\ UNCHANGED started
  <2>1. s \in Batch
    BY <1>3 DEF ActiveInv, Active
  <2>2. \A i \in DOMAIN order : ~(i > started')
    BY <1>3 DEF AllStarted, TypeOK
  <2>3. QED
    BY <1>1, <1>3, <2>1, <2>2 DEF TypeOK
<1>4. QED
  BY <1>2, <1>3 DEF Arrive

LEMMA StepIsOwn ==
  ASSUME TypeOK, IInv, NEW s \in Ids, StepNext(s)
  PROVE  OwnStep(s)
<1> USE DEF IInv
<1>0. status \in [Ids -> Status]
  BY DEF TypeOK
<1>1. CASE ShortCircuit(s)
  BY <1>0, <1>1, IsNextProps DEF ShortCircuit, ShortCircuited, OwnStep, Status, Terminal
<1>2. CASE NeverTried(s)
  BY <1>0, <1>2, IsNextProps DEF NeverTried, OwnStep, Status, Terminal
<1>3. CASE Park(s)
  BY <1>0, <1>3, ArriveProps DEF Park, Arrive, OwnStep, Status, Active, Terminal
<1>4. CASE Launch(s)
  BY <1>0, <1>4, ArriveProps DEF Launch, Arrive, OwnStep, Status, Active, Terminal
<1>5. ASSUME NEW ok \in BOOLEAN, LaunchSync(s, ok)
      PROVE  OwnStep(s)
  <2>1. AfterAttempt(s, attempts'[s], ok) \in {"done", "backoff", "failed"}
    BY DEF AfterAttempt
  <2>2. QED
    BY <1>0, <1>5, <2>1, ArriveProps DEF LaunchSync, Arrive, OwnStep, Status, Active, Terminal
<1>6. ASSUME NEW ok \in BOOLEAN, Complete(s, ok)
      PROVE  OwnStep(s)
  <2>1. AfterAttempt(s, attempts[s], ok) \in {"done", "backoff", "failed"}
    BY DEF AfterAttempt
  <2>2. \A t \in Handed : t \in Ids /\ status[t] = "waiting" /\ t \in Batch
    BY HandedProps DEF ActiveInv, Active
  <2>3. s \in Batch /\ pc = "gather" /\ status[s] \notin Terminal
    BY <1>6 DEF Complete, ActiveInv, Active, Terminal
  <2>4. \A i \in DOMAIN order : ~(i > started')
    BY <1>6 DEF Complete, AllStarted, TypeOK
  <2>5. status' \in [Ids -> Status] /\ status'[s] \in {"done", "backoff", "failed"}
    BY <1>0, <1>6, <2>1 DEF Complete, Status, Active, Terminal
  <2>6. \A t \in Ids \ {s} : \/ status'[t] = status[t]
                             \/ status[t] = "waiting" /\ status'[t] = "running" /\ t \in Batch
    BY <1>6, <2>2 DEF Complete
  <2>7. started <= started' /\ started' \in 0..Len(order)
    BY <1>6 DEF Complete, TypeOK
  <2>8. UNCHANGED <<plan, cache, pc, layered, order, failed, results>>
    BY <1>6 DEF Complete
  <2>9. QED
    BY <2>3, <2>4, <2>5, <2>6, <2>7, <2>8 DEF OwnStep
<1>7. QED
  BY <1>1, <1>2, <1>3, <1>4, <1>5, <1>6 DEF StepNext
-----------------------------------------------------------------------------
(* Type correctness *)

LEMMA FunctionIsSeq ==
  ASSUME NEW S, NEW n \in Nat, NEW f \in [1..n -> S]
  PROVE  f \in Seq(S)
OBVIOUS

LEMMA ResultsType ==
  ASSUME NEW S, S \subseteq Ids, IsFiniteSet(S), NEW o \in SetToSeqs(S), NEW st \in Terminal
  PROVE  [i \in DOMAIN o |-> [id |-> o[i], st |-> st]] \in Seq([id : Ids, st : Terminal])
<1>1. DOMAIN o = 1..Cardinality(S) /\ Cardinality(S) \in Nat /\ o \in Seq(S)
  BY SetToSeqsProps, FS_CardinalityType
<1>2. \A i \in DOMAIN o : o[i] \in Ids
  BY <1>1
<1>3. [i \in DOMAIN o |-> [id |-> o[i], st |-> st]]
        \in [1..Cardinality(S) -> [id : Ids, st : Terminal]]
  BY <1>1, <1>2
<1>4. QED
  BY <1>1, <1>3, FunctionIsSeq

(* A run starts alike on a given plan and on a patched one.               *)
LEMMA TypeInitRun ==
  ASSUME NEW p \in PlanSet, NEW c \in SUBSET p.steps, InitRun(p, c)
  PROVE  TypeOK
<1>1. started \in 0..Len(order) /\ order \in Seq(Ids) /\ queue \in Seq(Ids)
      /\ results \in Seq([id : Ids, st : Terminal])
  BY EmptySeq DEF InitRun
<1>2. QED
  BY <1>1 DEF InitRun, TypeOK, Status

LEMMA TypeInit == Init => TypeOK
BY TypeInitRun, PlanExecutorAssumption DEF Init

LEMMA TypeNext ==
  ASSUME TypeOK, IInv, [Next]_vars
  PROVE  TypeOK'
<1>1. CASE Reject
  BY <1>1 DEF Reject, TypeOK
<1>2. CASE Accept
  <2>1. results' \in Seq([id : Ids, st : Terminal])
    <3>1. PICK o \in SetToSeqs(cache) :
            results' = [i \in DOMAIN o |-> [id |-> o[i], st |-> "done"]]
      BY <1>2 DEF Accept
    <3>2. cache \subseteq Ids /\ IsFiniteSet(cache) /\ "done" \in Terminal
      BY FiniteSteps DEF TypeOK, Terminal
    <3>3. QED
      BY <3>1, <3>2, ResultsType
  <2>2. QED
    BY <1>2, <2>1 DEF Accept, TypeOK, Status, Terminal
<1>3. CASE BeginLayer
  <2>1. order' \in Seq(Ids)
    <3>1. order' \in Seq(Pending)
      BY <1>3, FiniteSteps, SetToSeqsProps DEF BeginLayer
    <3>2. QED
      BY <3>1, FiniteSteps, SeqMonotonic
  <2>2. started' \in 0..Len(order')
    BY <1>3, <2>1 DEF BeginLayer
  <2>3. NextLayer \subseteq plan.steps
    BY DEF NextLayer
  <2>4. QED
    BY <1>3, <2>1, <2>2, <2>3 DEF BeginLayer, TypeOK
<1>4. CASE SkipLayer
  <2>1. PICK o \in SetToSeqs(NextLayer) :
          results' = results \o [i \in DOMAIN o |-> [id |-> o[i], st |-> "skipped"]]
    BY <1>4 DEF SkipLayer
  <2>2. NextLayer \subseteq Ids /\ IsFiniteSet(NextLayer) /\ "skipped" \in Terminal
    BY FiniteSteps DEF Terminal
  <2>3. [i \in DOMAIN o |-> [id |-> o[i], st |-> "skipped"]] \in Seq([id : Ids, st : Terminal])
    BY <2>2, ResultsType
  <2>4. results' \in Seq([id : Ids, st : Terminal])
    BY <2>1, <2>3, ConcatProperties DEF TypeOK
  <2>5. NextLayer \subseteq plan.steps
    BY DEF NextLayer
  <2>6. QED
    BY <1>4, <2>4, <2>5 DEF SkipLayer, TypeOK, Status, Terminal
<1>5. CASE EndLayer
  <2>1. LayerResults \in Seq([id : Ids, st : Terminal])
    <3>1. order \in Seq(Ids) /\ \A i \in DOMAIN order : status[order[i]] \in Terminal
      BY <1>5 DEF EndLayer, LayerDone, Batch, TypeOK
    <3>2. Len(order) \in Nat /\ DOMAIN order = 1..Len(order)
          /\ \A i \in DOMAIN order : order[i] \in Ids
      BY <3>1
    <3>3. LayerResults \in [1..Len(order) -> [id : Ids, st : Terminal]]
      BY <3>1, <3>2 DEF LayerResults, Reported
    <3>4. QED
      BY <3>2, <3>3, FunctionIsSeq
  <2>2. results' \in Seq([id : Ids, st : Terminal])
    BY <1>5, <2>1, ConcatProperties DEF EndLayer, TypeOK
  <2>3. NextLayer \subseteq plan.steps
    BY DEF NextLayer
  <2>4. QED
    BY <1>5, <2>2, <2>3 DEF EndLayer, TypeOK, LayerFailed
<1>6. CASE Return
  BY <1>6 DEF Return, TypeOK
<1>7. ASSUME NEW s \in Ids, StepNext(s)
      PROVE  TypeOK'
  <2>1. OwnStep(s)
    BY <1>7, StepIsOwn
  <2>2. attempts' \in [Ids -> Nat]
    BY <1>7 DEF StepNext, ShortCircuit, NeverTried, Park, Launch, LaunchSync, Complete, Arrive, TypeOK
  <2>3. queue' \in Seq(Ids)
    <3>1. CASE Park(s)
      BY <3>1, AppendProperties DEF Park, TypeOK
    <3>2. ASSUME NEW ok \in BOOLEAN, Complete(s, ok)
          PROVE  queue' \in Seq(Ids)
      BY <3>2, HandedProps DEF Complete, TypeOK, IInv
    <3>3. QED
      BY <1>7, <3>1, <3>2 DEF StepNext, ShortCircuit, NeverTried, Launch, LaunchSync, TypeOK
  <2>4. QED
    BY <2>1, <2>2, <2>3 DEF OwnStep, TypeOK
<1>8. CASE UNCHANGED vars
  BY <1>8 DEF vars, TypeOK
<1>9. QED
  BY <1>1, <1>2, <1>3, <1>4, <1>5, <1>6, <1>7, <1>8 DEF Next, RunNext, Idle
-----------------------------------------------------------------------------
(* Inductiveness of IInv *)

LEMMA IInvInitRun ==
  ASSUME NEW p \in PlanSet, NEW c \in SUBSET p.steps, InitRun(p, c)
  PROVE  IInv
<1>1. order = <<>> /\ queue = <<>> /\ layered = {} /\ pc = "validate"
      /\ \A s \in Ids : status[s] = "new"
  BY DEF InitRun
<1>2. DOMAIN queue = {}
  BY <1>1
<1>3. QED
  BY <1>1, <1>2, TypeInitRun, FiniteSteps
     DEF IInv, GatherInv, ActiveInv, LayeredInv, GoodInv, CacheInv, SkipInv,
         UnstartedInv, FreshInv, QueueInv, Active

LEMMA IInvInit == Init => IInv
BY IInvInitRun, PlanExecutorAssumption DEF Init

(* The queue changes only together with the status of the task that joins  *)
(* or leaves it.                                                           *)
LEMMA QueueStep ==
  ASSUME TypeOK, IInv, NEW s \in Ids, StepNext(s)
  PROVE  QueueInv'
<1> USE DEF IInv
<1>0. status \in [Ids -> Status] /\ queue \in Seq(Ids)
  BY DEF TypeOK
<1>1. CASE Park(s)
  <2>1. status' = [status EXCEPT ![s] = "waiting"] /\ queue' = Append(queue, s)
    BY <1>1 DEF Park
  <2>2. status[s] # "waiting"
    BY <1>1, ArriveProps DEF Park
  <2>3. \A i \in DOMAIN queue : queue[i] # s
    BY <2>2 DEF QueueInv
  <2>4. DOMAIN queue' = 1..(Len(queue) + 1) /\ queue'[Len(queue) + 1] = s
        /\ \A i \in 1..Len(queue) : queue'[i] = queue[i]
    BY <1>0, <2>1
  <2>5. DOMAIN queue = 1..Len(queue) /\ Len(queue) \in Nat
    BY <1>0
  <2>6. \A t \in Ids : status'[t] = "waiting" <=> \E i \in DOMAIN queue' : queue'[i] = t
    <3> SUFFICES ASSUME NEW t \in Ids
                 PROVE  status'[t] = "waiting" <=> \E i \in DOMAIN queue' : queue'[i] = t
      OBVIOUS
    <3>1. CASE t = s
      BY <1>0, <2>1, <2>4, <2>5, <3>1
    <3>2. CASE t # s
      <4>1. status'[t] = status[t]
        BY <1>0, <2>1, <3>2
      <4>2. (\E i \in DOMAIN queue : queue[i] = t) <=> \E i \in DOMAIN queue' : queue'[i] = t
        BY <2>4, <2>5, <3>2
      <4>3. QED
        BY <4>1, <4>2 DEF QueueInv
    <3>3. QED
      BY <3>1, <3>2
  <2>7. \A i, j \in DOMAIN queue' : queue'[i] = queue'[j] => i = j
    BY <2>3, <2>4, <2>5 DEF QueueInv
  <2>8. QED
    BY <2>6, <2>7 DEF QueueInv
<1>2. ASSUME NEW ok \in BOOLEAN, Complete(s, ok)
      PROVE  QueueInv'
  <2>1. AfterAttempt(s, attempts[s], ok) # "waiting" /\ status[s] = "running"
    BY <1>2 DEF AfterAttempt, Complete
  <2>2. \A t \in Ids : status'[t] = IF t = s THEN AfterAttempt(s, attempts[s], ok)
                                    ELSE IF t \in Handed THEN "running" ELSE status[t]
    BY <1>2 DEF Complete
  <2>3. CASE queue = <<>>
    <3>1. Handed = {} /\ queue' = queue
      BY <1>2, <2>3, HandedProps DEF Complete
    <3>2. QED
      BY <2>1, <2>2, <3>1 DEF QueueInv
  <2>4. CASE queue # <<>>
    <3>1. Handed = {queue[1]} /\ queue' = Tail(queue) /\ status[queue[1]] = "waiting"
      BY <1>2, <2>4, HandedProps DEF Complete
    <3>2. /\ Len(queue) \in Nat /\ Len(queue) >= 1 /\ DOMAIN queue = 1..Len(queue)
          /\ DOMAIN queue' = 1..(Len(queue) - 1)
          /\ \A i \in DOMAIN queue' : queue'[i] = queue[i + 1]
      BY <1>0, <2>4, <3>1
    <3>3. \A t \in Ids : status'[t] = "waiting" <=> status[t] = "waiting" /\ t # queue[1]
      BY <2>1, <2>2, <3>1
    <3>4. \A t \in Ids : (\E i \in DOMAIN queue' : queue'[i] = t)
                         <=> (\E i \in DOMAIN queue : queue[i] = t) /\ t # queue[1]
      <4> SUFFICES ASSUME NEW t \in Ids
                   PROVE  (\E i \in DOMAIN queue' : queue'[i] = t)
                          <=> (\E i \in DOMAIN queue : queue[i] = t) /\ t # queue[1]
        OBVIOUS
      <4>1. ASSUME NEW i \in DOMAIN queue', queue'[i] = t
            PROVE  (\E k \in DOMAIN queue : queue[k] = t) /\ t # queue[1]
        <5>1. i + 1 \in DOMAIN queue /\ i + 1 # 1 /\ 1 \in DOMAIN queue /\ queue[i + 1] = t
          BY <3>2, <4>1
        <5>2. QED
          BY <5>1 DEF QueueInv
      <4>2. ASSUME NEW i \in DOMAIN queue, queue[i] = t, t # queue[1]
            PROVE  \E k \in DOMAIN queue' : queue'[k] = t
        <5>1. i - 1 \in DOMAIN queue' /\ (i - 1) + 1 = i
          BY <3>2, <4>2
        <5>2. queue'[i - 1] = t
          BY <3>2, <4>2, <5>1
        <5>3. QED
          BY <5>1, <5>2
      <4>3. QED
        BY <4>1, <4>2
    <3>5. \A i, j \in DOMAIN queue' : queue'[i] = queue'[j] => i = j
      BY <3>2 DEF QueueInv
    <3>6. QED
      BY <3>3, <3>4, <3>5 DEF QueueInv
  <2>5. QED
    BY <2>3, <2>4
<1>3. ASSUME queue' = queue, NEW v \in Status \ {"waiting"},
             status' = [status EXCEPT ![s] = v], status[s] # "waiting"
      PROVE  QueueInv'
  BY <1>0, <1>3 DEF QueueInv
<1>4. CASE ShortCircuit(s)
  BY <1>3, <1>4, IsNextProps DEF ShortCircuit, Status, Terminal
<1>5. CASE NeverTried(s)
  BY <1>3, <1>5, IsNextProps DEF NeverTried, Status, Terminal
<1>6. CASE Launch(s)
  BY <1>3, <1>6, ArriveProps DEF Launch, Status, Active
<1>7. ASSUME NEW ok \in BOOLEAN, LaunchSync(s, ok)
      PROVE  QueueInv'
  <2>1. AfterAttempt(s, attempts'[s], ok) \in Status \ {"waiting"}
    BY DEF AfterAttempt, Status, Active, Terminal
  <2>2. QED
    BY <1>3, <1>7, <2>1, ArriveProps DEF LaunchSync
<1>8. QED
  BY <1>1, <1>2, <1>4, <1>5, <1>6, <1>7 DEF StepNext
LEMMA OwnStepKeepsIInv ==
  ASSUME TypeOK, IInv, NEW s \in Ids, OwnStep(s), QueueInv'
  PROVE  IInv'
<1> USE DEF IInv
<1>1. /\ pc = "gather" /\ pc' = "gather" /\ s \in Batch /\ status[s] \notin Terminal
      /\ plan' = plan /\ cache' = cache /\ layered' = layered /\ order' = order
      /\ failed' = failed /\ Batch' = Batch /\ Pending' = Pending
  BY DEF OwnStep, Batch, Pending, NextLayer
<1>2. s \in Pending /\ s \notin layered /\ s \notin cache
  BY <1>1 DEF GatherInv, Pending, NextLayer
<1>3. \A t \in Ids \ {s} : \/ status'[t] = status[t]
                           \/ status[t] = "waiting" /\ status'[t] = "running" /\ t \in Batch
  BY DEF OwnStep
<1>4. layered \subseteq Ids /\ cache \subseteq Ids /\ Batch \subseteq Ids
  BY FiniteSteps DEF TypeOK, Batch
<1>5. \A t \in layered \cup cache : status'[t] = status[t]
  <2> SUFFICES ASSUME NEW t \in layered \cup cache
               PROVE  status'[t] = status[t]
    OBVIOUS
  <2>1. t \in Ids \ {s} /\ t \notin Batch
    BY <1>1, <1>2, <1>4 DEF GatherInv, Pending, NextLayer
  <2>2. QED
    BY <1>3, <2>1
<1>6. LocalFailed \subseteq LocalFailed'
  <2> SUFFICES ASSUME NEW t \in LocalFailed
               PROVE  t \in LocalFailed'
    OBVIOUS
  <2>1. t \in Batch /\ t \in plan.critical /\ status[t] = "failed" /\ t # s /\ t \in Ids
    BY <1>1, <1>4 DEF LocalFailed, Terminal
  <2>2. status'[t] = "failed"
    BY <1>3, <2>1
  <2>3. QED
    BY <1>1, <2>1, <2>2 DEF LocalFailed
<1>7. GatherInv'
  BY <1>1 DEF GatherInv
<1>8. ActiveInv'
  <2> SUFFICES ASSUME NEW t \in Ids, status'[t] \in Active
               PROVE  t \in Batch
    BY <1>1 DEF ActiveInv
  <2>1. CASE t = s
    BY <1>1, <2>1
  <2>2. CASE t # s
    BY <1>3, <2>2 DEF ActiveInv
  <2>3. QED
    BY <2>1, <2>2
<1>9. LayeredInv'
  BY <1>1, <1>5 DEF LayeredInv
<1>10. GoodInv'
  BY <1>1, <1>5 DEF GoodInv
<1>11. CacheInv'
  BY <1>1, <1>5 DEF CacheInv
<1>12. SkipInv'
  <2> SUFFICES ASSUME NEW t \in Batch, status'[t] = "skipped"
               PROVE  LocalFailed' # {}
    BY <1>1 DEF SkipInv
  <2>1. CASE t = s
    BY <1>6, <2>1 DEF OwnStep
  <2>2. CASE t # s
    <3>1. status[t] = "skipped"
      BY <1>3, <1>4, <2>2
    <3>2. QED
      BY <1>1, <1>6, <3>1 DEF SkipInv
  <2>3. QED
    BY <2>1, <2>2
<1>13. UnstartedInv'
  <2> SUFFICES ASSUME NEW i \in DOMAIN order, i > started'
               PROVE  status'[order[i]] = "new"
    BY <1>1 DEF UnstartedInv
  <2>1. order[i] # s /\ order[i] \in Ids /\ i > started
    BY DEF OwnStep, TypeOK
  <2>2. status[order[i]] = "new"
    BY <1>1, <2>1 DEF UnstartedInv
  <2>3. QED
    BY <1>3, <2>1, <2>2
<1>14. FreshInv'
  <2> SUFFICES ASSUME NEW t \in plan.steps \ (layered \cup cache)
               PROVE  status'[t] = "new" \/ t \in Batch
    BY <1>1 DEF FreshInv
  <2>1. t \in Ids
    BY FiniteSteps
  <2>2. QED
    BY <1>1, <1>3, <2>1 DEF FreshInv
<1>15. QED
  BY <1>7, <1>8, <1>9, <1>10, <1>11, <1>12, <1>13, <1>14

LEMMA IInvNext ==
  ASSUME TypeOK, IInv, [Next]_vars
  PROVE  IInv'
<1> USE DEF IInv
<1>0. status \in [Ids -> Status] /\ layered \subseteq plan.steps /\ plan.steps \subseteq Ids
      /\ cache \subseteq plan.steps /\ order \in Seq(Ids)
  BY FiniteSteps DEF TypeOK
<1>1. CASE Reject
  BY <1>1 DEF Reject, GatherInv, ActiveInv, LayeredInv, GoodInv, CacheInv, SkipInv,
              UnstartedInv, FreshInv, QueueInv
<1>2. CASE Accept
  <2>1. \A s \in Ids : status'[s] = IF s \in cache THEN "done" ELSE status[s]
    BY <1>2 DEF Accept
  <2>2. /\ pc = "validate" /\ pc' = "select" /\ cache' = cache /\ plan' = plan
        /\ layered' = layered /\ order' = order /\ queue' = queue /\ failed' = failed
    BY <1>2 DEF Accept
  <2>3. \A s \in Ids : status[s] \notin Active
    BY <2>2 DEF ActiveInv
  <2>4. \A i \in DOMAIN queue : queue[i] \in Ids
    BY DEF TypeOK
  <2>5. QueueInv'
    BY <2>1, <2>2, <2>3, <2>4 DEF QueueInv, Active
  <2>6. QED
    BY <1>0, <2>1, <2>2, <2>3, <2>5
       DEF GatherInv, ActiveInv, LayeredInv, GoodInv, CacheInv, SkipInv, UnstartedInv,
           FreshInv, Active, Terminal
<1>3. CASE BeginLayer
  <2>1. /\ pc = "select" /\ ~failed /\ status' = status /\ cache' = cache /\ plan' = plan
        /\ failed' = failed /\ queue' = queue /\ started' = 0
    BY <1>3 DEF BeginLayer
  <2>2. /\ {order'[i] : i \in DOMAIN order'} = Pending
        /\ \A i, j \in DOMAIN order' : order'[i] = order'[j] => i = j
        /\ \A i \in DOMAIN order' : order'[i] \in Pending
    BY <1>3, FiniteSteps, SetToSeqsProps DEF BeginLayer
  <2>3. \A s \in Ids : status[s] \notin Active
    BY <2>1 DEF ActiveInv
  <2>4. QueueInv'
    BY <2>1 DEF QueueInv
  <2>5. CASE Pending = {}
    <3>1. pc' = "select" /\ layered' = layered \cup NextLayer
      BY <1>3, <2>5 DEF BeginLayer
    <3>2. \A s \in NextLayer : status[s] = "done" /\ plan.deps[s] \subseteq layered
      BY <2>1, <2>5 DEF Pending, NextLayer, CacheInv
    <3>3. QED
      BY <2>1, <2>3, <2>4, <3>1, <3>2
         DEF GatherInv, ActiveInv, LayeredInv, GoodInv, CacheInv, SkipInv, UnstartedInv, FreshInv,
             Terminal
  <2>6. CASE Pending # {}
    <3>1. pc' = "gather" /\ layered' = layered
      BY <1>3, <2>6 DEF BeginLayer
    <3>2. Batch' = Pending' /\ Pending' = Pending
      BY <2>1, <2>2, <3>1 DEF Batch, Pending, NextLayer
    <3>3. GatherInv'
      BY <2>1, <2>2, <3>2 DEF GatherInv
    <3>4. \A s \in Pending : status[s] = "new"
      <4> SUFFICES ASSUME NEW s \in Pending
                   PROVE  status[s] = "new"
        OBVIOUS
      <4>1. s \in Ids /\ s \in plan.steps \ layered /\ s \notin cache
        BY <1>0 DEF Pending, NextLayer
      <4>2. QED
        BY <2>1, <4>1 DEF FreshInv
    <3>5. UnstartedInv' /\ SkipInv'
      BY <2>1, <2>2, <3>2, <3>4 DEF UnstartedInv, SkipInv
    <3>6. QED
      BY <2>1, <2>3, <2>4, <3>1, <3>3, <3>5 DEF ActiveInv, LayeredInv, GoodInv, CacheInv, FreshInv
  <2>7. QED
    BY <2>5, <2>6
<1>4. CASE SkipLayer
  <2>1. /\ pc = "select" /\ pc' = "select" /\ cache' = cache /\ plan' = plan /\ failed
        /\ failed' = failed /\ queue' = queue /\ layered' = layered \cup NextLayer
    BY <1>4 DEF SkipLayer
  <2>2. \A s \in Ids : status'[s] = IF s \in NextLayer THEN "skipped" ELSE status[s]
    BY <1>4 DEF SkipLayer
  <2>3. \A s \in Ids : status[s] \notin Active
    BY <2>1 DEF ActiveInv
  <2>4. \A i \in DOMAIN queue : queue[i] \in Ids
    BY DEF TypeOK
  <2>5. QueueInv'
    BY <2>1, <2>2, <2>3, <2>4 DEF QueueInv, Active
  <2>6. \A s \in NextLayer : s \in Ids /\ plan.deps[s] \subseteq layered
    BY <1>0 DEF NextLayer
  <2>7. QED
    BY <1>0, <2>1, <2>2, <2>3, <2>5, <2>6
       DEF GatherInv, ActiveInv, LayeredInv, GoodInv, CacheInv, SkipInv, UnstartedInv,
           FreshInv, Active, Terminal
<1>5. CASE EndLayer
  <2>1. /\ pc = "gather" /\ pc' = "select" /\ status' = status /\ cache' = cache
        /\ plan' = plan /\ queue' = queue /\ order' = order
        /\ layered' = layered \cup NextLayer /\ failed' = (LocalFailed # {})
    BY <1>5 DEF EndLayer, LayerFailed
  <2>2. \A s \in NextLayer : s \in Batch \/ s \in cache \ layered
    BY <2>1 DEF GatherInv, Pending, NextLayer
  <2>3. \A s \in NextLayer : status[s] \in Terminal /\ plan.deps[s] \subseteq layered
    <3>1. \A s \in Batch : status[s] \in Terminal
      BY <1>5 DEF EndLayer, LayerDone
    <3>2. \A s \in cache \ layered : status[s] \in Terminal
      BY <2>1 DEF CacheInv, Terminal
    <3>3. QED
      BY <2>2, <3>1, <3>2 DEF NextLayer
  <2>4. LocalFailed = {} => \A s \in NextLayer \cap plan.critical : status[s] = "done"
    <3> SUFFICES ASSUME LocalFailed = {}, NEW s \in NextLayer \cap plan.critical
                 PROVE  status[s] = "done"
      OBVIOUS
    <3>1. CASE s \in Batch
      BY <2>1, <2>3, <3>1 DEF SkipInv, LocalFailed, Terminal
    <3>2. CASE s \in cache \ layered
      BY <2>1, <3>2 DEF CacheInv
    <3>3. QED
      BY <2>2, <3>1, <3>2
  <2>5. \A s \in Ids : status[s] \notin Active
    BY <1>5, <2>1 DEF EndLayer, LayerDone, ActiveInv, Active, Terminal
  <2>6. GoodInv'
    BY <2>1, <2>4 DEF GoodInv, GatherInv
  <2>7. FreshInv'
    BY <2>1, <2>2 DEF FreshInv, GatherInv, Pending
  <2>8. LayeredInv'
    BY <2>1, <2>3 DEF LayeredInv
  <2>9. QED
    BY <2>1, <2>5, <2>6, <2>7, <2>8
       DEF GatherInv, ActiveInv, CacheInv, SkipInv, UnstartedInv, QueueInv
<1>6. CASE Return
  BY <1>6 DEF Return, GatherInv, ActiveInv, LayeredInv, GoodInv, CacheInv, SkipInv,
              UnstartedInv, FreshInv, QueueInv
<1>7. ASSUME NEW s \in Ids, StepNext(s)
      PROVE  IInv'
  BY <1>7, StepIsOwn, QueueStep, OwnStepKeepsIInv
<1>8. CASE UNCHANGED vars
  BY <1>8 DEF vars, GatherInv, ActiveInv, LayeredInv, GoodInv, CacheInv, SkipInv,
              UnstartedInv, FreshInv, QueueInv, Batch, Pending, NextLayer, LocalFailed
<1>9. QED
  BY <1>1, <1>2, <1>3, <1>4, <1>5, <1>6, <1>7, <1>8 DEF Next, RunNext, Idle
LEMMA InductiveInvariant == Spec => [](TypeOK /\ IInv)
<1>1. Init => TypeOK /\ IInv
  BY TypeInit, IInvInit
<1>2. TypeOK /\ IInv /\ [Next]_vars => (TypeOK /\ IInv)'
  BY TypeNext, IInvNext
<1>3. QED
  BY <1>1, <1>2, PTL DEF Spec

(* Every variable of a run keeps its type; in particular what run() reports *)
(* are final statuses only.                                                *)
THEOREM TypeCorrect == Spec => []TypeOK
BY InductiveInvariant, PTL

(* No step is in progress before its dependencies have their results, nor  *)
(* after a critical one among them failed, whatever the plan, the cache    *)
(* and the order in which tasks end.                                       *)
THEOREM DependenciesFirstHolds == Spec => []DependenciesFirst
<1>1. TypeOK /\ IInv => DependenciesFirst
  <2> SUFFICES ASSUME TypeOK, IInv, NEW s \in Ids, status[s] \in Active, NEW d \in plan.deps[s]
               PROVE  status[d] \in Terminal /\ (d \in plan.critical => status[d] = "done")
    BY DEF DependenciesFirst
  <2>1. pc = "gather" /\ s \in NextLayer /\ ~failed
    BY DEF IInv, ActiveInv, GatherInv, Pending
  <2>2. d \in layered
    BY <2>1 DEF NextLayer
  <2>3. QED
    BY <2>1, <2>2 DEF IInv, LayeredInv, GoodInv
<1>2. QED
  BY <1>1, InductiveInvariant, PTL

(* While any step is in progress, every critical step of the layers before *)
(* is DONE: a critical failure stops everything below it.                  *)
THEOREM LayerBarrierHolds == Spec => []LayerBarrier
<1>1. TypeOK /\ IInv => LayerBarrier
  BY DEF IInv, ActiveInv, GatherInv, GoodInv, LayerBarrier
<1>2. QED
  BY <1>1, InductiveInvariant, PTL

-----------------------------------------------------------------------------
(* The semaphore *)

SlotInv ==
  /\ Cardinality(Running) <= MaxParallel
  /\ queue # <<>> => Cardinality(Running) = MaxParallel

LEMMA SlotInit == Init => SlotInv
<1> SUFFICES ASSUME NEW p \in Plans, NEW c \in SUBSET p.steps, InitRun(p, c)
             PROVE  SlotInv
  BY DEF Init
<1>1. Running = {} /\ queue = <<>>
  BY DEF InitRun, Running
<1>2. QED
  BY <1>1, FS_EmptySet, PlanExecutorAssumption DEF SlotInv

(* Outside the layer being gathered nothing runs and nothing waits. *)
LEMMA QuietOutsideGather ==
  ASSUME TypeOK, IInv, pc # "gather"
  PROVE  Running = {} /\ queue = <<>>
<1>1. Running = {}
  BY DEF IInv, ActiveInv, Active, Running
<1>2. \A i \in DOMAIN queue : FALSE
  BY DEF IInv, ActiveInv, Active, QueueInv, TypeOK
<1>3. queue \in Seq(Ids) /\ DOMAIN queue = 1..Len(queue) /\ Len(queue) \in Nat
  BY DEF TypeOK
<1>4. Len(queue) = 0
  BY <1>2, <1>3
<1>5. QED
  BY <1>1, <1>3, <1>4

LEMMA SlotNext ==
  ASSUME TypeOK, IInv, SlotInv, [Next]_vars
  PROVE  SlotInv'
<1> USE DEF SlotInv
<1>0. /\ MaxParallel \in Nat \ {0} /\ IsFiniteSet(Running) /\ Cardinality(Running) \in Nat
      /\ status \in [Ids -> Status] /\ queue \in Seq(Ids)
  BY FiniteSteps, PlanExecutorAssumption DEF TypeOK
<1>1. ASSUME Running' = Running, queue' = queue
      PROVE  SlotInv'
  BY <1>1
<1>2. CASE Reject \/ BeginLayer \/ EndLayer \/ Return \/ UNCHANGED vars
  BY <1>1, <1>2 DEF Reject, BeginLayer, EndLayer, Return, vars, Running
<1>3. CASE Accept \/ SkipLayer
  <2>1. Running = {} /\ queue = <<>>
    BY <1>3, QuietOutsideGather DEF Accept, SkipLayer
  <2>2. Running' = {} /\ queue' = <<>>
    BY <1>3, <2>1 DEF Accept, SkipLayer, Running
  <2>3. QED
    BY <1>0, <2>2, FS_EmptySet
<1>4. ASSUME NEW s \in Ids, StepNext(s)
      PROVE  SlotInv'
  <2>1. ASSUME NEW v \in Status \ {"running"}, status' = [status EXCEPT ![s] = v],
               status[s] # "running"
        PROVE  Running' = Running
    BY <1>0, <2>1 DEF Running
  <2>2. CASE ShortCircuit(s)
    BY <1>1, <2>1, <2>2, IsNextProps DEF ShortCircuit, IInv, Status, Terminal
  <2>3. CASE NeverTried(s)
    BY <1>1, <2>1, <2>3, IsNextProps DEF NeverTried, IInv, Status, Terminal
  <2>4. CASE Park(s)
    <3>1. Running' = Running
      BY <2>1, <2>4, ArriveProps DEF Park, IInv, Status, Active
    <3>2. Cardinality(Running) = MaxParallel
      BY <1>0, <2>4 DEF Park, SlotFree
    <3>3. QED
      BY <1>0, <3>1, <3>2
  <2>5. CASE Launch(s)
    <3>1. Running' = Running \cup {s}
      BY <1>0, <2>5 DEF Launch, Running
    <3>2. queue' = <<>> /\ Cardinality(Running) < MaxParallel
      BY <2>5 DEF Launch, SlotFree
    <3>3. Cardinality(Running \cup {s})
            = IF s \in Running THEN Cardinality(Running) ELSE Cardinality(Running) + 1
      BY <1>0, FS_AddElement
    <3>4. QED
      BY <1>0, <3>1, <3>2, <3>3
  <2>6. ASSUME NEW ok \in BOOLEAN, LaunchSync(s, ok)
        PROVE  SlotInv'
    <3>1. AfterAttempt(s, attempts'[s], ok) \in Status \ {"running"}
      BY DEF AfterAttempt, Status, Active, Terminal
    <3>2. QED
      BY <1>1, <2>1, <2>6, <3>1, ArriveProps DEF LaunchSync, IInv
  <2>7. ASSUME NEW ok \in BOOLEAN, Complete(s, ok)
        PROVE  SlotInv'
    <3>1. s \in Running /\ AfterAttempt(s, attempts[s], ok) # "running"
      BY <2>7 DEF Complete, Running, AfterAttempt
    <3>2. Handed \subseteq {t \in Ids : status[t] = "waiting"}
      BY HandedProps DEF IInv
    <3>3. Running' = (Running \ {s}) \cup Handed
      BY <1>0, <2>7, <3>1, <3>2 DEF Complete, Running
    <3>4. IsFiniteSet(Running \ {s}) /\ Cardinality(Running \ {s}) = Cardinality(Running) - 1
      BY <1>0, <3>1, FS_RemoveElement
    <3>5. CASE queue = <<>>
      <4>1. Handed = {} /\ queue' = <<>>
        BY <2>7, <3>5, HandedProps DEF Complete, IInv
      <4>2. QED
        BY <1>0, <3>3, <3>4, <4>1
    <3>6. CASE queue # <<>>
      <4>1. Handed = {queue[1]} /\ queue[1] \notin Running
        BY <3>2, <3>6, HandedProps DEF IInv, Running
      <4>2. Cardinality((Running \ {s}) \cup {queue[1]}) = Cardinality(Running \ {s}) + 1
        BY <3>4, <4>1, FS_AddElement
      <4>3. Cardinality(Running') = Cardinality(Running)
        BY <1>0, <3>3, <3>4, <4>1, <4>2
      <4>4. QED
        BY <1>0, <3>6, <4>3
    <3>7. QED
      BY <3>5, <3>6
  <2>8. QED
    BY <1>4, <2>2, <2>3, <2>4, <2>5, <2>6, <2>7 DEF StepNext
<1>5. QED
  BY <1>2, <1>3, <1>4 DEF Next, RunNext, Idle

LEMMA SlotInvariant == Spec => [](TypeOK /\ IInv /\ SlotInv)
<1>1. Init => SlotInv
  BY SlotInit
<1>2. TypeOK /\ IInv /\ SlotInv /\ [Next]_vars => SlotInv'
  BY SlotNext
<1>3. QED
  BY <1>1, <1>2, InductiveInvariant, PTL DEF Spec

(* No more than MaxParallel callbacks ever run at once.                    *)
THEOREM ParallelBoundHolds == Spec => []ParallelBound
<1>1. SlotInv => ParallelBound
  BY DEF SlotInv, ParallelBound
<1>2. QED
  BY <1>1, SlotInvariant, PTL

(* The semaphore loses no slot and no waiter: tasks wait only while every  *)
(* slot is taken, and the queue holds exactly the waiting tasks.           *)
THEOREM NoIdleSlotHolds == Spec => []NoIdleSlot
<1>1. TypeOK /\ IInv /\ SlotInv => NoIdleSlot
  BY DEF SlotInv, IInv, QueueInv, NoIdleSlot
<1>2. QED
  BY <1>1, SlotInvariant, PTL
-----------------------------------------------------------------------------
(* Refinement: run() implements PlanContract                               *)

(* Only a valid plan is executed, and `failed` has its cause in the plan.  *)
CauseInv ==
  /\ pc \notin {"validate", "rejected"} => Valid(plan)
  /\ pc = "validate" => \A s \in Ids : status[s] = "new"
  /\ failed => \E f \in plan.steps \cap plan.critical : status[f] = "failed"
  /\ failed => pc \in {"select", "failed"}

LEMMA CauseInit == Init => CauseInv
BY DEF Init, InitRun, CauseInv

LEMMA CauseNext ==
  ASSUME TypeOK, IInv, CauseInv, [Next]_vars
  PROVE  CauseInv'
<1> USE DEF CauseInv
<1>0. plan.steps \subseteq Ids /\ failed \in BOOLEAN
  BY FiniteSteps DEF TypeOK
<1>1. CASE Reject
  BY <1>1 DEF Reject
<1>2. CASE Accept
  BY <1>2 DEF Accept
<1>3. CASE BeginLayer
  BY <1>3 DEF BeginLayer
<1>4. CASE SkipLayer
  <2>1. \A s \in Ids : status'[s] = IF s \in NextLayer THEN "skipped" ELSE status[s]
    BY <1>4 DEF SkipLayer
  <2>2. PICK f \in plan.steps \cap plan.critical : status[f] = "failed"
    BY <1>4 DEF SkipLayer
  <2>3. f \notin NextLayer
    <3>1. SUFFICES ASSUME f \in NextLayer PROVE FALSE
      OBVIOUS
    <3>2. pc = "select"
      BY <1>4 DEF SkipLayer
    <3>3. f \in cache \/ status[f] = "new"
      BY <3>1, <3>2 DEF IInv, FreshInv, NextLayer
    <3>4. f \in cache => status[f] = "done"
      BY <3>1, <3>2 DEF IInv, CacheInv, NextLayer
    <3>5. QED
      BY <2>2, <3>3, <3>4
  <2>4. status'[f] = "failed"
    BY <1>0, <2>1, <2>2, <2>3
  <2>5. QED
    BY <1>4, <2>2, <2>4 DEF SkipLayer
<1>5. CASE EndLayer
  <2>1. LocalFailed \subseteq {f \in plan.steps \cap plan.critical : status[f] = "failed"}
    BY <1>5 DEF EndLayer, LocalFailed, IInv, GatherInv, Pending, NextLayer
  <2>2. QED
    BY <1>5, <2>1 DEF EndLayer, LayerFailed
<1>6. CASE Return
  BY <1>6 DEF Return
<1>7. ASSUME NEW s \in Ids, StepNext(s)
      PROVE  CauseInv'
  BY <1>7, StepIsOwn DEF OwnStep, IInv, GatherInv
<1>8. CASE UNCHANGED vars
  BY <1>8 DEF vars
<1>9. QED
  BY <1>1, <1>2, <1>3, <1>4, <1>5, <1>6, <1>7, <1>8 DEF Next, RunNext, Idle

Outcomes == [s \in Ids |-> Outcome(s)]

(* When no layer is left, every step is in a layer: the plan has no cycle. *)
LEMMA AllLayered ==
  ASSUME TypeOK, Valid(plan), NextLayer = {}
  PROVE  layered = plan.steps
<1> DEFINE S == plan.steps \ layered
<1>1. SUFFICES ASSUME S # {} PROVE FALSE
  BY DEF TypeOK
<1>2. PICK s \in S : plan.deps[s] \cap S = {}
  BY <1>1 DEF Valid, Acyclic
<1>3. plan.deps[s] \subseteq layered
  BY <1>2 DEF Valid, DepsKnown
<1>4. QED
  BY <1>2, <1>3 DEF NextLayer

LEMMA RefinementInit == Init => Contract!Init
<1> SUFFICES ASSUME NEW p \in Plans, NEW c \in SUBSET p.steps, InitRun(p, c)
             PROVE  Contract!Init
  BY DEF Init
<1>1. plan \in Plans /\ Verdict = "new" /\ \A s \in Ids : Outcome(s) = "none"
  BY DEF InitRun, Verdict, Outcome
<1>2. QED
  BY <1>1 DEF Contract!Init

LEMMA RefinementStep ==
  ASSUME TypeOK, IInv, CauseInv, NEW s \in Ids, StepNext(s)
  PROVE  Contract!Next \/ UNCHANGED <<plan, Outcomes, Verdict>>
<1>1. OwnStep(s)
  BY StepIsOwn
<1>2. /\ pc = "gather" /\ pc' = "gather" /\ plan' = plan /\ cache' = cache
      /\ Verdict = "open" /\ Verdict' = "open"
  BY <1>1 DEF OwnStep, Verdict, RunOver
<1>3. s \in plan.steps /\ s \notin cache /\ plan.deps[s] \subseteq layered /\ ~failed
  BY <1>1 DEF OwnStep, IInv, GatherInv, Pending, NextLayer
<1>4. Outcome(s) = "none"
  BY <1>1, <1>2 DEF OwnStep, Outcome
<1>5. \A t \in Ids \ {s} : Outcome(t)' = Outcome(t)
  <2> SUFFICES ASSUME NEW t \in Ids \ {s}
               PROVE  Outcome(t)' = Outcome(t)
    OBVIOUS
  <2>1. CASE status'[t] = status[t]
    BY <1>2, <2>1 DEF Outcome
  <2>2. CASE status[t] = "waiting" /\ status'[t] = "running"
    BY <1>2, <2>2 DEF Outcome, Terminal
  <2>3. QED
    BY <1>1, <2>1, <2>2 DEF OwnStep
<1>6. \A o : Outcome(s)' = o => Outcomes' = [Outcomes EXCEPT ![s] = o]
  BY <1>5 DEF Outcomes
<1>7. CASE status'[s] \notin Terminal
  <2>1. Outcome(s)' = "none"
    BY <1>7 DEF Outcome
  <2>2. Outcomes' = Outcomes
    BY <1>4, <1>5, <2>1 DEF Outcomes
  <2>3. QED
    BY <1>2, <2>2
<1>8. CASE status'[s] \in {"done", "failed"}
  <2>1. Outcome(s)' = status'[s]
    BY <1>2, <1>3, <1>8 DEF Outcome, Terminal
  <2>2. \A d \in plan.deps[s] : /\ Outcomes[d] # "none"
                                /\ d \in plan.critical => Outcomes[d] \in {"done", "reused"}
    <3> SUFFICES ASSUME NEW d \in plan.deps[s]
                 PROVE  /\ Outcome(d) # "none"
                        /\ d \in plan.critical => Outcome(d) \in {"done", "reused"}
      BY <1>3, FiniteSteps DEF Outcomes, TypeOK
    <3>1. status[d] \in Terminal /\ (d \in plan.critical => status[d] = "done")
      BY <1>3 DEF IInv, LayeredInv, GoodInv
    <3>2. QED
      BY <1>2, <3>1 DEF Outcome, Terminal
  <2>3. Outcomes[s] = "none" /\ Outcomes' = [Outcomes EXCEPT ![s] = status'[s]]
    BY <1>4, <1>6, <2>1 DEF Outcomes
  <2>4. Contract!Finish(s, status'[s])
    BY <1>2, <2>2, <2>3 DEF Contract!Finish, Contract!Ready, Contract!Settled, Contract!Good, Outcomes
  <2>5. QED
    BY <1>3, <1>8, <2>4 DEF Contract!Next
<1>9. CASE status'[s] = "skipped"
  <2>1. Outcome(s)' = "skipped"
    BY <1>2, <1>3, <1>9 DEF Outcome, Terminal
  <2>2. Outcomes' = [t \in Ids |-> IF t \in {s} THEN "skipped" ELSE Outcomes[t]]
    BY <1>5, <2>1 DEF Outcomes
  <2>3. PICK f \in LocalFailed : TRUE
    BY <1>1, <1>9 DEF OwnStep
  <2>4. f \in plan.steps \cap plan.critical /\ f \in Ids /\ status[f] = "failed"
    BY <1>2, <2>3, FiniteSteps DEF LocalFailed, IInv, GatherInv, Pending, NextLayer
  <2>5. Outcomes[f] = "failed" /\ Outcomes[s] = "none"
    BY <1>2, <1>4, <2>4 DEF Outcome, Outcomes, Terminal
  <2>6. Contract!GiveUp({s})
    BY <1>2, <2>2, <2>4, <2>5 DEF Contract!GiveUp, Contract!CriticalFailure, Outcomes
  <2>7. QED
    BY <1>3, <2>6 DEF Contract!Next
<1>10. QED
  BY <1>7, <1>8, <1>9 DEF Terminal

LEMMA RefinementNext ==
  ASSUME TypeOK, IInv, CauseInv, [Next]_vars
  PROVE  Contract!Next \/ UNCHANGED <<plan, Outcomes, Verdict>>
<1>0. /\ plan.steps \subseteq Ids /\ cache \subseteq plan.steps /\ failed \in BOOLEAN
      /\ status \in [Ids -> Status]
  BY FiniteSteps DEF TypeOK
<1>1. ASSUME pc # "validate", pc' # "validate", plan' = plan, cache' = cache,
             status' = status
      PROVE  Outcomes' = Outcomes
  BY <1>1 DEF Outcomes, Outcome
<1>2. CASE Reject
  <2>1. pc = "validate" /\ pc' = "rejected" /\ plan' = plan /\ ~Valid(plan)
        /\ status' = status /\ \A s \in Ids : status[s] = "new"
    BY <1>2 DEF Reject, CauseInv
  <2>2. Outcomes' = Outcomes /\ Verdict = "new" /\ Verdict' = "rejected"
    BY <2>1 DEF Outcomes, Outcome, Verdict, RunOver, Terminal
  <2>3. Contract!Refuse
    BY <2>1, <2>2 DEF Contract!Refuse, Contract!Runnable, Valid, DepsKnown, Acyclic, Outcomes
  <2>4. QED
    BY <2>3 DEF Contract!Next
<1>3. CASE Accept
  <2>1. /\ pc = "validate" /\ pc' = "select" /\ plan' = plan /\ cache' = cache /\ Valid(plan)
        /\ \A s \in Ids : status[s] = "new"
        /\ status' = [s \in Ids |-> IF s \in cache THEN "done" ELSE status[s]]
    BY <1>3 DEF Accept, CauseInv
  <2>2. Verdict = "new" /\ Verdict' = "open"
    BY <2>1 DEF Verdict, RunOver
  <2>3. Outcomes' = [s \in Ids |-> IF s \in cache THEN "reused" ELSE "none"]
    BY <2>1 DEF Outcomes, Outcome, Terminal
  <2>4. Contract!Open(cache)
    BY <2>1, <2>2, <2>3
       DEF Contract!Open, Contract!Runnable, Valid, DepsKnown, Acyclic, Outcomes
  <2>5. QED
    BY <1>0, <2>4 DEF Contract!Next
<1>4. CASE BeginLayer
  <2>1. pc = "select" /\ pc' \in {"select", "gather"} /\ plan' = plan /\ cache' = cache
        /\ status' = status
    BY <1>4 DEF BeginLayer
  <2>2. QED
    BY <1>1, <2>1 DEF Verdict, RunOver
<1>5. CASE SkipLayer
  <2>1. /\ pc = "select" /\ pc' = "select" /\ plan' = plan /\ cache' = cache /\ failed
        /\ status' = [s \in Ids |-> IF s \in NextLayer THEN "skipped" ELSE status[s]]
    BY <1>5 DEF SkipLayer
  <2>2. PICK f \in plan.steps \cap plan.critical : status[f] = "failed"
    BY <2>1 DEF CauseInv
  <2>3. f \in Ids /\ Outcomes[f] = "failed"
    BY <1>0, <2>1, <2>2 DEF Outcomes, Outcome, Terminal
  <2>4. \A s \in NextLayer : Outcomes[s] \in {"none", "reused"}
    <3> SUFFICES ASSUME NEW s \in NextLayer
                 PROVE  Outcomes[s] \in {"none", "reused"}
      OBVIOUS
    <3>1. s \in plan.steps \ layered /\ s \in Ids
      BY <1>0 DEF NextLayer
    <3>2. CASE s \in cache
      BY <2>1, <3>1, <3>2 DEF IInv, CacheInv, Outcomes, Outcome
    <3>3. CASE s \notin cache
      BY <2>1, <3>1, <3>3 DEF IInv, FreshInv, Outcomes, Outcome, Terminal
    <3>4. QED
      BY <3>2, <3>3
  <2>5. Outcomes' = [s \in Ids |-> IF s \in NextLayer THEN "skipped" ELSE Outcomes[s]]
    BY <2>1 DEF Outcomes, Outcome, Terminal
  <2>6. Verdict = "open" /\ Verdict' = "open"
    BY <2>1 DEF Verdict, RunOver
  <2>7. Contract!GiveUp(NextLayer)
    BY <2>1, <2>2, <2>3, <2>4, <2>5, <2>6
       DEF Contract!GiveUp, Contract!CriticalFailure, Outcomes
  <2>8. QED
    BY <2>7, FiniteSteps DEF Contract!Next
<1>6. CASE EndLayer
  <2>1. pc = "gather" /\ pc' = "select" /\ plan' = plan /\ cache' = cache
        /\ status' = status
    BY <1>6 DEF EndLayer
  <2>2. QED
    BY <1>1, <2>1 DEF Verdict, RunOver
<1>7. CASE Return
  <2>1. /\ pc = "select" /\ pc' = (IF failed THEN "failed" ELSE "finished")
        /\ plan' = plan /\ cache' = cache /\ status' = status /\ NextLayer = {}
    BY <1>7 DEF Return
  <2>2. layered = plan.steps
    BY <2>1, AllLayered DEF CauseInv
  <2>3. \A s \in plan.steps : s \in Ids /\ status[s] \in Terminal /\ Outcomes[s] # "none"
    BY <1>0, <2>1, <2>2 DEF IInv, LayeredInv, Outcomes, Outcome, Terminal
  <2>4. failed <=> \E s \in plan.steps \cap plan.critical : Outcomes[s] = "failed"
    <3>1. ASSUME failed
          PROVE  \E s \in plan.steps \cap plan.critical : Outcomes[s] = "failed"
      BY <1>0, <2>1, <3>1 DEF CauseInv, Outcomes, Outcome, Terminal
    <3>2. ASSUME ~failed, NEW s \in plan.steps \cap plan.critical
          PROVE  Outcomes[s] # "failed"
      BY <1>0, <2>1, <2>2, <3>2 DEF IInv, GoodInv, Outcomes, Outcome
    <3>3. QED
      BY <3>1, <3>2
  <2>5. Outcomes' = Outcomes
    BY <1>1, <2>1
  <2>6. Verdict = "open" /\ Verdict' = IF failed THEN "failed" ELSE "finished"
    BY <1>0, <2>1 DEF Verdict, RunOver
  <2>7. Contract!Close
    BY <2>1, <2>3, <2>4, <2>5, <2>6
       DEF Contract!Close, Contract!Settled, Contract!CriticalFailure, Outcomes
  <2>8. QED
    BY <2>7 DEF Contract!Next
<1>8. ASSUME NEW s \in Ids, StepNext(s)
      PROVE  Contract!Next \/ UNCHANGED <<plan, Outcomes, Verdict>>
  BY <1>8, RefinementStep
<1>9. CASE UNCHANGED vars
  BY <1>9 DEF vars, Outcomes, Outcome, Verdict, RunOver
<1>10. QED
  BY <1>2, <1>3, <1>4, <1>5, <1>6, <1>7, <1>8, <1>9 DEF Next, RunNext, Idle

(* Every run of the executor is a behaviour of PlanContract: a step ends   *)
(* once and after its dependencies, nothing is given up without a critical *)
(* failure, and the verdict says whether there was one.                    *)
THEOREM Implements == Spec => ImplementsContract
<1>1. Init => CauseInv
  BY CauseInit
<1>2. TypeOK /\ IInv /\ CauseInv /\ [Next]_vars => CauseInv'
  BY CauseNext
<1>3. TypeOK /\ IInv /\ CauseInv /\ [Next]_vars
        => [Contract!Next]_(Contract!contractVars)
  BY RefinementNext DEF Contract!contractVars, Outcomes
<1>4. QED
  BY <1>1, <1>2, <1>3, InductiveInvariant, RefinementInit, PTL
     DEF Spec, ImplementsContract, Contract!Spec
-----------------------------------------------------------------------------
(***************************************************************************)
(* MultiAgent: one execution after the other, on plans that were patched.  *)
(*                                                                         *)
(* A cached step must not be skipped (ReportedOnce), run again             *)
(* (DoneNotRepeated) or be taken for the latest result (AnswerFromDeepest),*)
(* although a patched plan has other layers.  All of it follows from where *)
(* the cache lies: there is a cut K of the plan, a union of its first      *)
(* layers, such that what is cached lies in K and the layer after it, every*)
(* critical step of K is cached, and a critical step of the layer after it *)
(* is not.                                                                 *)
(***************************************************************************)

(* The layer that follows the set L in plan p.                             *)
LayerAfter(p, L) == {s \in p.steps \ L : p.deps[s] \subseteq L}
Upto(p, L) == L \cup LayerAfter(p, L)

(* The unions of first layers: the smallest family with the empty set that *)
(* takes each of its members to the next one.                              *)
Closes(p, F) == {} \in F /\ \A L \in F : Upto(p, L) \in F
LayerPrefixes(p) == {L \in SUBSET p.steps :
                 \A F \in SUBSET SUBSET p.steps : Closes(p, F) => L \in F}

(* L lies before, at or after K, by whole layers.                          *)
Ordered(p, L, K) == \/ Upto(p, L) \subseteq K
                    \/ L = K
                    \/ Upto(p, K) \subseteq L
Cut(p, K) ==
  /\ K \subseteq p.steps
  /\ \A s \in K : p.deps[s] \subseteq K
  /\ \A L \in LayerPrefixes(p) : Ordered(p, L, K)

(* Where the cache c of a run on plan p lies.                              *)
CacheAt(p, c, K) ==
  /\ Cut(p, K)
  /\ c \subseteq Upto(p, K)
  /\ K \cap p.critical \subseteq c
  /\ \E r \in LayerAfter(p, K) \cap p.critical : r \notin c
CacheLies(p, c) == c = {} \/ \E K \in SUBSET p.steps : CacheAt(p, c, K)
CacheBefore(p, c, r) ==
  \E K \in SUBSET p.steps : CacheAt(p, c, K) /\ r \in LayerAfter(p, K) \cap p.critical

(* The layers are taken in order, and none that holds a cached step is     *)
(* skipped.                                                                *)
PrefixInv == layered \in LayerPrefixes(plan)
ReuseInv ==
  /\ failed => cache \subseteq layered
  /\ pc \notin {"validate", "rejected"} => \A s \in cache : status[s] = "done"

(* After a critical failure: the layer it happened in, with nothing DONE   *)
(* below it.                                                               *)
FailedAfter(K) ==
  /\ K \in LayerPrefixes(plan)
  /\ Upto(plan, K) \subseteq layered
  /\ \A s \in K : plan.deps[s] \subseteq K
  /\ \A s \in K \cap plan.critical : status[s] = "done"
  /\ \A s \in plan.steps : status[s] = "done" => s \in Upto(plan, K)
  /\ \A s \in plan.steps \cap plan.critical :
       status[s] = "failed" => s \in LayerAfter(plan, K)
FailInv ==
  /\ failed => \E K \in SUBSET plan.steps : FailedAfter(K)
  /\ pc = "failed" => failed
  /\ pc = "finished" => ~failed /\ layered = plan.steps
  /\ \A s \in Ids \ plan.steps : status[s] = "new"

(* The results so far: of each cached step and each step of a layer that   *)
(* is over, once, with the status it has kept; cached ones first, then a   *)
(* step after those it depends on and after those of every cut before it.  *)
ReportInv ==
  /\ pc \in {"validate", "rejected"} => results = <<>> /\ layered = {}
  /\ pc \notin {"validate", "rejected"} =>
       {results[i].id : i \in DOMAIN results} = cache \cup layered
  /\ \A i \in DOMAIN results : results[i].st = status[results[i].id]
  /\ \A i, j \in DOMAIN results : results[i].id = results[j].id => i = j
Precedes(s, t) ==
  \/ s \in cache
  \/ s \in plan.deps[t]
  \/ \E K \in SUBSET plan.steps : Cut(plan, K) /\ s \in K /\ t \notin K
ReportOrder ==
  \A i, j \in DOMAIN results :
    results[j].id \notin cache /\ Precedes(results[i].id, results[j].id) => i < j

RunInv == /\ TypeOK /\ IInv /\ CauseInv /\ CacheLies(plan, cache)
          /\ PrefixInv /\ ReuseInv /\ FailInv /\ ReportInv /\ ReportOrder

(* The rest of run(): what was DONE is kept, a reflection has its cause,   *)
(* the answer is the last output, and a step in the place of one that      *)
(* failed, in the layer after the cut, has an output once it is DONE.      *)
DoneInv == \A s \in doneEver : s \in cache \/ status[s] = "done"
ReflectInv ==
  /\ phase = "reflecting" => pc = "failed" /\ FailedCriticalAt # {} /\ loops < MaxReflectionLoops
  /\ phase \in {"criticising", "writing", "returned"} => answer = LastOutput

Speaks(s) == s \notin tools \/ s \in unknown
SpeakInv ==
  /\ \A s \in unknown : status[s] # "done"
  /\ cache # {} => \E r \in plan.steps \ cache : Speaks(r) /\ CacheBefore(plan, cache, r)

AgentInv == /\ RunInv /\ AgentTypeOK /\ DoneInv /\ ReflectInv /\ PatchKeepsValid
            /\ SpeakInv

-----------------------------------------------------------------------------
(* Layers                                                                  *)

LEMMA UptoProps ==
  ASSUME NEW p, NEW L, NEW M
  PROVE  /\ L \subseteq Upto(p, L)
         /\ L \subseteq p.steps => Upto(p, L) \subseteq p.steps
         /\ L \subseteq M => Upto(p, L) \subseteq Upto(p, M)
BY DEF Upto, LayerAfter

LEMMA PrefixInduction ==
  ASSUME NEW p, NEW F \in SUBSET SUBSET p.steps, Closes(p, F)
  PROVE  LayerPrefixes(p) \subseteq F
BY DEF LayerPrefixes

LEMMA PrefixProps ==
  ASSUME NEW p
  PROVE  /\ LayerPrefixes(p) \subseteq SUBSET p.steps
         /\ Closes(p, LayerPrefixes(p))
<1>1. LayerPrefixes(p) \subseteq SUBSET p.steps
  BY DEF LayerPrefixes
<1>2. {} \in LayerPrefixes(p)
  BY DEF LayerPrefixes, Closes
<1>3. ASSUME NEW L \in LayerPrefixes(p)
      PROVE  Upto(p, L) \in LayerPrefixes(p)
  <2>1. Upto(p, L) \subseteq p.steps
    BY <1>1, UptoProps
  <2>2. ASSUME NEW F \in SUBSET SUBSET p.steps, Closes(p, F)
        PROVE  Upto(p, L) \in F
    <3>1. L \in F
      BY <2>2 DEF LayerPrefixes
    <3>2. QED
      BY <2>2, <3>1 DEF Closes
  <2>3. QED
    BY <2>1, <2>2 DEF LayerPrefixes
<1>4. QED
  BY <1>1, <1>2, <1>3 DEF Closes

(* A union of first layers is closed under dependencies. *)
LEMMA PrefixClosed ==
  ASSUME NEW p, NEW K \in LayerPrefixes(p)
  PROVE  \A s \in K : p.deps[s] \subseteq K
<1> DEFINE F == {L \in SUBSET p.steps : \A s \in L : p.deps[s] \subseteq L}
<1>1. {} \in F
  OBVIOUS
<1>2. ASSUME NEW L \in F
      PROVE  Upto(p, L) \in F
  BY DEF Upto, LayerAfter
<1>3. Closes(p, F)
  BY <1>1, <1>2 DEF Closes
<1>4. K \in F
  BY <1>3, PrefixInduction
<1>5. QED
  BY <1>4

LEMMA OrderedEmpty ==
  ASSUME NEW p, NEW K \in LayerPrefixes(p)
  PROVE  Ordered(p, {}, K) /\ Ordered(p, K, {})
<1> DEFINE F == {L \in SUBSET p.steps : L = {} \/ Upto(p, {}) \subseteq L}
<1>1. {} \in F
  OBVIOUS
<1>2. ASSUME NEW L \in F
      PROVE  Upto(p, L) \in F
  BY UptoProps
<1>3. Closes(p, F)
  BY <1>1, <1>2 DEF Closes
<1>4. K \in F
  BY <1>3, PrefixInduction
<1>5. QED
  BY <1>4 DEF Ordered

(* Of two unions of first layers one lies before the other.                *)
LEMMA PrefixChain ==
  ASSUME NEW p, NEW K \in LayerPrefixes(p), NEW L \in LayerPrefixes(p)
  PROVE  Ordered(p, L, K)
<1> DEFINE Q == LayerPrefixes(p)
           F == {X \in Q : \A Y \in Q : Ordered(p, Y, X)}
<1>1. Q \subseteq SUBSET p.steps /\ {} \in Q /\ \A X \in Q : Upto(p, X) \in Q
  BY PrefixProps DEF Closes
<1>2. {} \in F
  BY <1>1, OrderedEmpty
<1>3. ASSUME NEW X \in F
      PROVE  Upto(p, X) \in F
  <2> DEFINE X1 == Upto(p, X)
             G == {Y \in Q : Ordered(p, Y, X1)}
  <2>1. X \in Q /\ X1 \in Q /\ \A Y \in Q : Ordered(p, Y, X)
    BY <1>1
  <2>2. {} \in G
    BY <1>1, <2>1, OrderedEmpty
  <2>3. ASSUME NEW Y \in G
        PROVE  Upto(p, Y) \in G
    <3> DEFINE Y1 == Upto(p, Y)
    <3>1. Y \in Q /\ Y1 \in Q /\ Ordered(p, Y, X1) /\ Ordered(p, Y1, X)
      BY <1>1, <2>1
    <3>2. X \subseteq X1 /\ Y \subseteq Y1
      BY UptoProps
    <3>3. CASE Y1 \subseteq X1
      BY <3>1, <3>2, <3>3 DEF Ordered
    <3>4. CASE Y = X1
      BY <3>1, <3>4 DEF Ordered
    <3>5. CASE Upto(p, X1) \subseteq Y
      BY <3>1, <3>2, <3>5 DEF Ordered
    <3>6. QED
      BY <3>1, <3>3, <3>4, <3>5 DEF Ordered
  <2>4. Closes(p, G) /\ G \in SUBSET SUBSET p.steps
    BY <1>1, <2>2, <2>3 DEF Closes
  <2>5. Q \subseteq G
    BY <2>4, PrefixInduction
  <2>6. QED
    BY <2>1, <2>5
<1>4. Closes(p, F) /\ F \in SUBSET SUBSET p.steps
  BY <1>1, <1>2, <1>3 DEF Closes
<1>5. Q \subseteq F
  BY <1>4, PrefixInduction
<1>6. QED
  BY <1>5

LEMMA PrefixIsCut ==
  ASSUME NEW p, NEW K \in LayerPrefixes(p)
  PROVE  Cut(p, K)
<1>1. K \subseteq p.steps
  BY PrefixProps
<1>2. QED
  BY <1>1, PrefixClosed, PrefixChain DEF Cut

-----------------------------------------------------------------------------
(* A step of the executor keeps RunInv                                     *)

LEMMA LayerFacts ==
  ASSUME TypeOK
  PROVE  /\ NextLayer = LayerAfter(plan, layered)
         /\ layered \cup NextLayer = Upto(plan, layered)
         /\ plan.steps \subseteq Ids /\ cache \subseteq Ids /\ layered \subseteq plan.steps
         /\ NextLayer \subseteq plan.steps /\ NextLayer \cap layered = {}
BY FiniteSteps DEF NextLayer, LayerAfter, Upto, TypeOK

(* Which variables a step may change, by the place run() stands at.        *)
LEMMA OwnStepFacts ==
  ASSUME TypeOK, IInv, NEW s \in Ids, OwnStep(s)
  PROVE  /\ s \in NextLayer /\ s \notin cache /\ s \notin layered
         /\ \A t \in Ids \ {s} : status'[t] # status[t] =>
              status[t] = "waiting" /\ status'[t] = "running" /\ t \in NextLayer \ cache
         /\ \A t \in Ids : status[t] \in Terminal => status'[t] = status[t]
<1>1. s \in Batch /\ Batch = NextLayer \ cache /\ status[s] \notin Terminal
  BY DEF OwnStep, IInv, GatherInv, Pending
<1>2. \A t \in Ids \ {s} : \/ status'[t] = status[t]
                           \/ status[t] = "waiting" /\ status'[t] = "running" /\ t \in Batch
  BY DEF OwnStep
<1>3. QED
  BY <1>1, <1>2 DEF NextLayer, Terminal

LEMMA PrefixNext ==
  ASSUME TypeOK, IInv, PrefixInv, [Next]_vars
  PROVE  PrefixInv'
<1>1. Upto(plan, layered) \in LayerPrefixes(plan)
  BY PrefixProps DEF PrefixInv, Closes
<1>2. plan' = plan /\ layered' \in {layered, Upto(plan, layered)}
  <2>1. CASE Reject \/ Accept \/ Return
    BY <2>1 DEF Reject, Accept, Return
  <2>2. CASE BeginLayer \/ SkipLayer \/ EndLayer
    BY <2>2, LayerFacts DEF BeginLayer, SkipLayer, EndLayer
  <2>3. ASSUME NEW s \in Ids, StepNext(s)
        PROVE  plan' = plan /\ layered' = layered
    BY <2>3, StepIsOwn DEF OwnStep
  <2>4. QED
    BY <2>1, <2>2, <2>3 DEF Next, RunNext, Idle, vars
<1>3. QED
  BY <1>1, <1>2 DEF PrefixInv

(* A failure in a layer proves that the whole cache lies up to it.         *)
LEMMA CacheAbove ==
  ASSUME TypeOK, CacheLies(plan, cache), PrefixInv,
         NEW c \in NextLayer \cap plan.critical, c \notin cache
  PROVE  cache \subseteq Upto(plan, layered)
<1>1. CASE cache = {}
  BY <1>1
<1>2. ASSUME NEW K \in SUBSET plan.steps, CacheAt(plan, cache, K)
      PROVE  cache \subseteq Upto(plan, layered)
  <2>1. cache \subseteq Upto(plan, K) /\ K \cap plan.critical \subseteq cache
        /\ Ordered(plan, layered, K)
    BY <1>2 DEF CacheAt, Cut, PrefixInv
  <2>2. c \in Upto(plan, layered) /\ c \notin K
    BY <2>1, LayerFacts
  <2>3. layered \subseteq Upto(plan, layered)
    BY UptoProps
  <2>4. QED
    BY <2>1, <2>2, <2>3 DEF Ordered
<1>3. QED
  BY <1>1, <1>2 DEF CacheLies

(* A cached step keeps its result, and is DONE once the run is open.       *)
LEMMA ReuseNext ==
  ASSUME TypeOK, IInv, CauseInv, CacheLies(plan, cache), PrefixInv, ReuseInv, [Next]_vars
  PROVE  ReuseInv'
<1> USE DEF ReuseInv
<1>0. cache \subseteq Ids
  BY LayerFacts
<1>1. CASE Reject \/ BeginLayer \/ Return
  BY <1>1 DEF Reject, BeginLayer, Return
<1>2. CASE Accept
  <2>1. ~failed
    BY <1>2 DEF Accept, CauseInv
  <2>2. QED
    BY <1>0, <1>2, <2>1 DEF Accept
<1>3. CASE SkipLayer
  <2>1. \A s \in cache : s \notin NextLayer
    BY <1>3 DEF SkipLayer, NextLayer
  <2>2. QED
    BY <1>0, <1>3, <2>1 DEF SkipLayer
<1>4. CASE EndLayer
  <2>1. pc = "gather" /\ pc' = "select" /\ cache' = cache /\ status' = status
        /\ layered' = Upto(plan, layered) /\ failed' = (LocalFailed # {})
    BY <1>4, LayerFacts DEF EndLayer, LayerFailed
  <2>2. ASSUME NEW c \in LocalFailed
        PROVE  cache \subseteq layered'
    <3>1. c \in NextLayer \cap plan.critical /\ c \notin cache
      BY <2>1 DEF LocalFailed, IInv, GatherInv, Pending
    <3>2. QED
      BY <2>1, <3>1, CacheAbove
  <2>3. QED
    BY <2>1, <2>2
<1>5. ASSUME NEW s \in Ids, StepNext(s)
      PROVE  ReuseInv'
  <2>1. OwnStep(s)
    BY <1>5, StepIsOwn
  <2>2. \A t \in cache : status[t] = "done"
    BY <2>1 DEF OwnStep
  <2>3. \A t \in cache : status'[t] = "done"
    BY <1>0, <2>1, <2>2, OwnStepFacts DEF Terminal
  <2>4. QED
    BY <2>1, <2>3 DEF OwnStep
<1>6. CASE UNCHANGED vars
  BY <1>6 DEF vars
<1>7. QED
  BY <1>1, <1>2, <1>3, <1>4, <1>5, <1>6 DEF Next, RunNext, Idle

(* The layer a critical step failed in stays the cut of the run.           *)
LEMMA FailNext ==
  ASSUME TypeOK, IInv, CauseInv, CacheLies(plan, cache), PrefixInv, ReuseInv, FailInv,
         [Next]_vars
  PROVE  FailInv'
<1> USE DEF FailInv
<1>0. /\ plan.steps \subseteq Ids /\ cache \subseteq plan.steps
      /\ NextLayer \subseteq plan.steps /\ NextLayer \cap layered = {}
      /\ layered \cup NextLayer = Upto(plan, layered) /\ layered \subseteq plan.steps
  BY LayerFacts DEF TypeOK
<1>1. CASE Reject \/ BeginLayer
  BY <1>1 DEF Reject, BeginLayer, CauseInv
<1>2. CASE Accept
  BY <1>0, <1>2 DEF Accept, CauseInv
<1>3. CASE SkipLayer
  <2>1. /\ failed /\ failed' = failed /\ pc = "select" /\ pc' = pc /\ plan' = plan
        /\ layered' = layered \cup NextLayer
        /\ \A s \in Ids : status'[s] = IF s \in NextLayer THEN "skipped" ELSE status[s]
    BY <1>3 DEF SkipLayer
  <2>2. PICK K \in SUBSET plan.steps : FailedAfter(K)
    BY <2>1
  <2>3. K \subseteq layered
    BY <2>2, UptoProps DEF FailedAfter
  <2>4. FailedAfter(K)'
    BY <1>0, <2>1, <2>2, <2>3 DEF FailedAfter
  <2>5. QED
    BY <1>0, <2>1, <2>4
<1>4. CASE EndLayer
  <2>1. /\ pc = "gather" /\ pc' = "select" /\ plan' = plan /\ cache' = cache /\ status' = status
        /\ layered' = Upto(plan, layered) /\ failed' = (LocalFailed # {})
    BY <1>4, LayerFacts DEF EndLayer, LayerFailed
  <2>2. ASSUME LocalFailed # {}, NEW K, K = layered
        PROVE  FailedAfter(K)'
    <3>1. cache \subseteq Upto(plan, layered) /\ \A s \in cache : status[s] = "done"
      <4>1. ReuseInv'
        BY ReuseNext
      <4>2. QED
        BY <2>1, <2>2, <4>1 DEF ReuseInv
    <3>2. \A s \in plan.steps : s \in Upto(plan, layered) \/ status[s] = "new"
      <4>1. \A s \in plan.steps \ (layered \cup cache) : status[s] = "new" \/ s \in NextLayer
        BY <2>1 DEF IInv, FreshInv, GatherInv, Pending
      <4>2. QED
        BY <1>0, <3>1, <4>1
    <3>3. \A s \in layered : plan.deps[s] \subseteq layered
                              /\ (s \in plan.critical => status[s] = "done")
      BY <2>1 DEF IInv, LayeredInv, GoodInv, GatherInv
    <3>4. \A s \in plan.steps \cap plan.critical :
            status[s] = "failed" => s \in LayerAfter(plan, layered)
      BY <3>2, <3>3 DEF Upto
    <3>5. QED
      BY <2>1, <2>2, <3>2, <3>3, <3>4 DEF FailedAfter, PrefixInv
  <2>3. QED
    BY <1>0, <2>1, <2>2
<1>5. CASE Return
  <2>1. /\ NextLayer = {} /\ pc = "select" /\ pc' = (IF failed THEN "failed" ELSE "finished")
        /\ UNCHANGED <<plan, status, layered, failed>>
    BY <1>5 DEF Return
  <2>2. layered = plan.steps
    BY <2>1, AllLayered DEF CauseInv
  <2>3. failed' => \E K \in SUBSET plan.steps : FailedAfter(K)'
    BY <2>1 DEF FailedAfter
  <2>4. QED
    BY <2>1, <2>2, <2>3 DEF TypeOK
<1>6. ASSUME NEW s \in Ids, StepNext(s)
      PROVE  FailInv'
  <2>1. OwnStep(s)
    BY <1>6, StepIsOwn
  <2>2. pc = "gather" /\ pc' = "gather" /\ ~failed /\ failed' = failed /\ plan' = plan
    BY <2>1 DEF OwnStep, CauseInv
  <2>3. \A t \in Ids \ plan.steps : status'[t] = status[t]
    BY <1>0, <2>1, OwnStepFacts
  <2>4. QED
    BY <2>2, <2>3
<1>7. CASE UNCHANGED vars
  BY <1>7 DEF vars, FailedAfter
<1>8. QED
  BY <1>1, <1>2, <1>3, <1>4, <1>5, <1>6, <1>7 DEF Next, RunNext, Idle

(* Appending one result for each member of S, in the order o, to the       *)
(* results r of other steps.                                               *)
ResultType == [id : Ids, st : Terminal]
IdsOf(r) == {r[i].id : i \in DOMAIN r}
OncePerId(r) == \A i, j \in DOMAIN r : r[i].id = r[j].id => i = j
Listing(o, n, S) ==
  /\ DOMAIN o = DOMAIN n /\ \A i \in DOMAIN n : n[i].id = o[i]
  /\ {o[i] : i \in DOMAIN o} = S /\ \A i, j \in DOMAIN o : o[i] = o[j] => i = j
Grown(r, n, q, S) ==
  /\ IdsOf(q) = IdsOf(r) \cup S
  /\ \A i \in DOMAIN q : \/ i \in DOMAIN r /\ q[i] = r[i]
                         \/ /\ i > Len(r) /\ i - Len(r) \in DOMAIN n
                            /\ q[i] = n[i - Len(r)] /\ q[i].id \in S
  /\ OncePerId(q)

LEMMA AppendedResults ==
  ASSUME NEW r \in Seq(ResultType), NEW n \in Seq(ResultType), NEW S, NEW o,
         Listing(o, n, S), S \cap IdsOf(r) = {}, OncePerId(r), NEW q, q = r \o n
  PROVE  Grown(r, n, q, S)
<1> USE DEF Listing, OncePerId
<1>1. /\ Len(r) \in Nat /\ Len(n) \in Nat /\ DOMAIN r = 1..Len(r) /\ DOMAIN n = 1..Len(n)
      /\ DOMAIN q = 1..(Len(r) + Len(n))
      /\ \A i \in 1..Len(r) : q[i] = r[i]
      /\ \A i \in (Len(r) + 1)..(Len(r) + Len(n)) : q[i] = n[i - Len(r)]
  BY ConcatProperties
<1>2. \A i \in DOMAIN n : n[i].id \in S
  OBVIOUS
<1>3. \A i \in DOMAIN q : \/ i \in DOMAIN r /\ q[i] = r[i]
                          \/ /\ i > Len(r) /\ i - Len(r) \in DOMAIN n
                             /\ q[i] = n[i - Len(r)] /\ q[i].id \in S
  BY <1>1, <1>2
<1>4. IdsOf(q) = IdsOf(r) \cup S
  <2>1. IdsOf(q) \subseteq IdsOf(r) \cup S
    BY <1>3 DEF IdsOf
  <2>2. ASSUME NEW i \in DOMAIN r
        PROVE  r[i].id \in IdsOf(q)
    BY <1>1 DEF IdsOf
  <2>3. ASSUME NEW i \in DOMAIN n
        PROVE  n[i].id \in IdsOf(q)
    <3>1. i + Len(r) \in DOMAIN q /\ q[i + Len(r)] = n[i]
      BY <1>1
    <3>2. QED
      BY <3>1 DEF IdsOf
  <2>4. S \subseteq IdsOf(q)
    BY <2>3
  <2>5. IdsOf(r) \subseteq IdsOf(q)
    BY <2>2 DEF IdsOf
  <2>6. QED
    BY <2>1, <2>4, <2>5
<1>5. ASSUME NEW i \in DOMAIN q, NEW j \in DOMAIN q, q[i].id = q[j].id
      PROVE  i = j
  <2>1. CASE i \in DOMAIN r /\ q[i] = r[i]
    <3>1. q[i].id \in IdsOf(r)
      BY <2>1 DEF IdsOf
    <3>2. j \in DOMAIN r /\ q[j] = r[j]
      BY <1>3, <1>5, <3>1
    <3>3. QED
      BY <1>5, <2>1, <3>2
  <2>2. CASE /\ i > Len(r) /\ i - Len(r) \in DOMAIN n
             /\ q[i] = n[i - Len(r)] /\ q[i].id \in S
    <3>1. j > Len(r) /\ j - Len(r) \in DOMAIN n /\ q[j] = n[j - Len(r)]
      <4>1. j \in DOMAIN r /\ q[j] = r[j] => q[j].id \in IdsOf(r)
        BY DEF IdsOf
      <4>2. QED
        BY <1>3, <1>5, <2>2, <4>1
    <3>2. o[i - Len(r)] = o[j - Len(r)]
      BY <1>5, <2>2, <3>1
    <3>3. i - Len(r) = j - Len(r)
      BY <2>2, <3>1, <3>2
    <3>4. QED
      BY <1>1, <3>3
  <2>3. QED
    BY <1>3, <2>1, <2>2
<1>6. QED
  BY <1>3, <1>4, <1>5 DEF Grown

(* How results grow: by the statuses of the steps of a finished layer that *)
(* were not reported before.                                               *)
Reports(S) ==
  \E o, n :
    /\ results' = results \o n /\ n \in Seq(ResultType) /\ Listing(o, n, S)
    /\ \A i \in DOMAIN n : n[i].st = status'[o[i]]

LEMMA EndLayerReports ==
  ASSUME TypeOK, IInv, EndLayer
  PROVE  Reports(NextLayer \ cache)
<1>1. pc = "gather" /\ results' = results \o LayerResults /\ status' = status
  BY DEF EndLayer
<1>2. /\ order \in Seq(Ids) /\ Len(order) \in Nat /\ DOMAIN order = 1..Len(order)
      /\ \A i \in DOMAIN order : order[i] \in Ids /\ status[order[i]] \in Terminal
  BY DEF EndLayer, LayerDone, Batch, TypeOK
<1>3. LayerResults \in [1..Len(order) -> ResultType]
  BY <1>2 DEF LayerResults, Reported, ResultType
<1>4. LayerResults \in Seq(ResultType)
  BY <1>2, <1>3, FunctionIsSeq
<1>5. /\ DOMAIN order = DOMAIN LayerResults
      /\ \A i \in DOMAIN LayerResults : LayerResults[i].id = order[i]
                                       /\ LayerResults[i].st = status[order[i]]
  BY DEF LayerResults, Reported
<1>6. {order[i] : i \in DOMAIN order} = NextLayer \ cache
      /\ \A i, j \in DOMAIN order : order[i] = order[j] => i = j
  BY <1>1 DEF IInv, GatherInv, Batch, Pending
<1>7. Listing(order, LayerResults, NextLayer \ cache)
  BY <1>5, <1>6 DEF Listing
<1>8. QED
  BY <1>1, <1>4, <1>5, <1>7 DEF Reports

LEMMA SkipLayerReports ==
  ASSUME TypeOK, SkipLayer
  PROVE  Reports(NextLayer)
<1>1. PICK o \in SetToSeqs(NextLayer) :
        results' = results \o [i \in DOMAIN o |-> [id |-> o[i], st |-> "skipped"]]
  BY DEF SkipLayer
<1> DEFINE n == [i \in DOMAIN o |-> [id |-> o[i], st |-> "skipped"]]
<1>2. NextLayer \subseteq Ids /\ IsFiniteSet(NextLayer) /\ "skipped" \in Terminal
  BY FiniteSteps DEF Terminal
<1>3. n \in Seq(ResultType)
  BY <1>2, ResultsType DEF ResultType
<1>4. /\ {o[i] : i \in DOMAIN o} = NextLayer
      /\ \A i, j \in DOMAIN o : o[i] = o[j] => i = j
  BY <1>2, SetToSeqsProps
<1>5. \A s \in NextLayer : status'[s] = "skipped"
  BY <1>2 DEF SkipLayer
<1>6. DOMAIN o = DOMAIN n /\ \A i \in DOMAIN n : n[i].id = o[i] /\ n[i].st = status'[o[i]]
  BY <1>4, <1>5
<1>7. results' = results \o n
  BY <1>1
<1> HIDE DEF n
<1>8. Listing(o, n, NextLayer)
  BY <1>4, <1>6 DEF Listing
<1>9. QED
  BY <1>3, <1>6, <1>7, <1>8 DEF Reports

LEMMA ReportStep ==
  ASSUME TypeOK, ReportInv, pc \notin {"validate", "rejected"},
         NEW S, S \subseteq Ids, S \cap (cache \cup layered) = {}, Reports(S),
         \A s \in cache \cup layered : status'[s] = status[s]
  PROVE  /\ IdsOf(results') = cache \cup layered \cup S
         /\ \A i \in DOMAIN results' :
              \/ i \in DOMAIN results /\ results'[i] = results[i]
              \/ i > Len(results) /\ results'[i].id \in S
         /\ \A i \in DOMAIN results' : results'[i].st = status'[results'[i].id]
         /\ \A i, j \in DOMAIN results' : results'[i].id = results'[j].id => i = j
<1>1. PICK o, n :
        /\ results' = results \o n /\ n \in Seq(ResultType) /\ Listing(o, n, S)
        /\ \A i \in DOMAIN n : n[i].st = status'[o[i]]
  BY DEF Reports
<1>2. results \in Seq(ResultType) /\ IdsOf(results) = cache \cup layered /\ OncePerId(results)
  BY DEF TypeOK, ReportInv, ResultType, IdsOf, OncePerId
<1>3. Grown(results, n, results', S)
  <2>1. S \cap IdsOf(results) = {}
    BY <1>2
  <2>2. QED
    BY <1>1, <1>2, <2>1, AppendedResults
<1>4. ASSUME NEW i \in DOMAIN results'
      PROVE  results'[i].st = status'[results'[i].id]
  <2>1. CASE i \in DOMAIN results /\ results'[i] = results[i]
    <3>1. results[i].id \in cache \cup layered
      BY <1>2, <2>1 DEF IdsOf
    <3>2. QED
      BY <2>1, <3>1 DEF ReportInv
  <2>2. CASE i - Len(results) \in DOMAIN n /\ results'[i] = n[i - Len(results)]
    BY <1>1, <2>2 DEF Listing
  <2>3. QED
    BY <1>3, <2>1, <2>2 DEF Grown
<1>5. QED
  BY <1>2, <1>3, <1>4 DEF Grown, OncePerId

LEMMA MemberOfSeq ==
  ASSUME NEW S, NEW q \in Seq(S), NEW i \in DOMAIN q
  PROVE  q[i] \in S
OBVIOUS

LEMMA ResultTyped ==
  ASSUME TypeOK, NEW i \in DOMAIN results
  PROVE  results[i].id \in Ids /\ results[i].st \in Terminal
<1>1. results \in Seq([id : Ids, st : Terminal])
  BY DEF TypeOK
<1>2. results[i] \in [id : Ids, st : Terminal]
  BY <1>1, MemberOfSeq
<1>3. QED
  BY <1>2

(* What a finished or skipped layer reports was not reported before.       *)
LEMMA LayerReports ==
  ASSUME TypeOK, IInv, CauseInv, CacheLies(plan, cache), PrefixInv, ReuseInv, ReportInv,
         EndLayer \/ SkipLayer
  PROVE  \E S \in SUBSET (NextLayer \ cache) :
           /\ cache \cup layered \cup S = (cache \cup layered)'
           /\ IdsOf(results') = cache \cup layered \cup S
           /\ \A i \in DOMAIN results' :
                \/ i \in DOMAIN results /\ results'[i] = results[i]
                \/ i > Len(results) /\ results'[i].id \in S
           /\ \A i \in DOMAIN results' : results'[i].st = status'[results'[i].id]
           /\ \A i, j \in DOMAIN results' : results'[i].id = results'[j].id => i = j
<1>0. NextLayer \subseteq Ids /\ NextLayer \cap layered = {}
      /\ cache \cup layered \subseteq Ids
  BY LayerFacts
<1>1. CASE EndLayer
  <2> DEFINE S == NextLayer \ cache
  <2>1. /\ pc = "gather" /\ status' = status /\ cache' = cache
        /\ layered' = layered \cup NextLayer
    BY <1>1 DEF EndLayer
  <2>2. Reports(S)
    BY <1>1, EndLayerReports
  <2>3. S \subseteq Ids /\ S \cap (cache \cup layered) = {}
    BY <1>0
  <2>4. /\ IdsOf(results') = cache \cup layered \cup S
        /\ \A i \in DOMAIN results' :
             \/ i \in DOMAIN results /\ results'[i] = results[i]
             \/ i > Len(results) /\ results'[i].id \in S
        /\ \A i \in DOMAIN results' : results'[i].st = status'[results'[i].id]
        /\ \A i, j \in DOMAIN results' : results'[i].id = results'[j].id => i = j
    BY <2>1, <2>2, <2>3, ReportStep
  <2>5. cache \cup layered \cup S = (cache \cup layered)'
    BY <2>1
  <2>6. QED
    BY <2>4, <2>5
<1>2. CASE SkipLayer
  <2>1. /\ pc = "select" /\ failed /\ cache' = cache /\ layered' = layered \cup NextLayer
        /\ \A s \in Ids : status'[s] = IF s \in NextLayer THEN "skipped" ELSE status[s]
    BY <1>2 DEF SkipLayer
  <2>2. cache \subseteq layered
    BY <2>1 DEF ReuseInv
  <2>3. Reports(NextLayer)
    BY <1>2, SkipLayerReports
  <2>4. NextLayer \subseteq Ids /\ NextLayer \cap (cache \cup layered) = {}
    BY <1>0, <2>2
  <2>5. \A s \in cache \cup layered : status'[s] = status[s]
    BY <1>0, <2>1, <2>4
  <2>6. /\ IdsOf(results') = cache \cup layered \cup NextLayer
        /\ \A i \in DOMAIN results' :
             \/ i \in DOMAIN results /\ results'[i] = results[i]
             \/ i > Len(results) /\ results'[i].id \in NextLayer
        /\ \A i \in DOMAIN results' : results'[i].st = status'[results'[i].id]
        /\ \A i, j \in DOMAIN results' : results'[i].id = results'[j].id => i = j
    BY <2>1, <2>3, <2>4, <2>5, ReportStep
  <2>7. cache \cup layered \cup NextLayer = (cache \cup layered)'
        /\ NextLayer \in SUBSET (NextLayer \ cache)
    BY <2>1, <2>4
  <2>8. QED
    BY <2>6, <2>7
<1>3. QED
  BY <1>1, <1>2

LEMMA AcceptReports ==
  ASSUME TypeOK, ReportInv, Accept
  PROVE  /\ IdsOf(results') = cache
         /\ \A i \in DOMAIN results' : results'[i].st = "done"
         /\ \A i, j \in DOMAIN results' : results'[i].id = results'[j].id => i = j
<1>1. PICK o \in SetToSeqs(cache) :
        results' = [i \in DOMAIN o |-> [id |-> o[i], st |-> "done"]]
  BY DEF Accept
<1>2. /\ {o[i] : i \in DOMAIN o} = cache
      /\ \A i, j \in DOMAIN o : o[i] = o[j] => i = j
  BY FiniteSteps, SetToSeqsProps
<1>3. DOMAIN results' = DOMAIN o
      /\ \A i \in DOMAIN o : results'[i].id = o[i] /\ results'[i].st = "done"
  BY <1>1
<1>4. IdsOf(results') = {o[i] : i \in DOMAIN o}
  BY <1>3 DEF IdsOf
<1>5. QED
  BY <1>2, <1>3, <1>4

LEMMA ReportNext ==
  ASSUME TypeOK, IInv, CauseInv, CacheLies(plan, cache), PrefixInv, ReuseInv, ReportInv,
         [Next]_vars
  PROVE  ReportInv'
<1> USE DEF ReportInv
<1>0. cache \cup layered \subseteq Ids
  BY LayerFacts
<1>1. CASE Reject
  BY <1>1 DEF Reject
<1>2. CASE Accept
  <2>1. /\ pc = "validate" /\ pc' = "select" /\ cache' = cache /\ layered' = {}
        /\ \A s \in cache : status'[s] = "done"
    BY <1>0, <1>2 DEF Accept
  <2>2. \A i \in DOMAIN results' : results'[i].id \in cache
    BY <1>2, AcceptReports DEF IdsOf
  <2>3. /\ IdsOf(results') = cache
        /\ \A i \in DOMAIN results' : results'[i].st = status'[results'[i].id]
        /\ \A i, j \in DOMAIN results' : results'[i].id = results'[j].id => i = j
    BY <1>2, <2>1, <2>2, AcceptReports
  <2>4. QED
    BY <2>1, <2>3 DEF IdsOf
<1>3. CASE BeginLayer
  <2>1. /\ pc = "select" /\ pc' \in {"select", "gather"}
        /\ UNCHANGED <<cache, status, results>>
        /\ layered' = layered \/ (layered' = layered \cup NextLayer /\ Pending = {})
    BY <1>3 DEF BeginLayer
  <2>2. (cache \cup layered)' = cache \cup layered
    BY <2>1 DEF Pending
  <2>3. QED
    BY <2>1, <2>2
<1>4. CASE EndLayer \/ SkipLayer
  <2>1. pc' = "select"
    BY <1>4 DEF EndLayer, SkipLayer
  <2>2. /\ IdsOf(results') = (cache \cup layered)'
        /\ \A i \in DOMAIN results' : results'[i].st = status'[results'[i].id]
        /\ \A i, j \in DOMAIN results' : results'[i].id = results'[j].id => i = j
    BY <1>4, LayerReports
  <2>3. QED
    BY <2>1, <2>2 DEF IdsOf
<1>5. CASE Return
  BY <1>5 DEF Return
<1>6. ASSUME NEW s \in Ids, StepNext(s)
      PROVE  ReportInv'
  <2>1. OwnStep(s)
    BY <1>6, StepIsOwn
  <2>2. pc = "gather" /\ UNCHANGED <<pc, cache, layered, results>>
    BY <2>1 DEF OwnStep
  <2>3. \A i \in DOMAIN results : results[i].id \in Ids /\ status[results[i].id] \in Terminal
    <3>1. \A i \in DOMAIN results : results[i].st = status[results[i].id]
      OBVIOUS
    <3> HIDE DEF ReportInv
    <3>2. QED
      BY <3>1, ResultTyped
  <2>4. \A i \in DOMAIN results : status'[results[i].id] = status[results[i].id]
    BY <2>1, <2>3, OwnStepFacts
  <2>5. QED
    BY <2>2, <2>4
<1>7. CASE UNCHANGED vars
  BY <1>7 DEF vars
<1>8. QED
  BY <1>1, <1>2, <1>3, <1>4, <1>5, <1>6, <1>7 DEF Next, RunNext, Idle

(* A step of a later layer precedes none that is reported with or before   *)
(* this layer.                                                             *)
LEMMA NotPreceded ==
  ASSUME TypeOK, IInv, PrefixInv,
         NEW s \in plan.steps, s \notin cache \cup layered, NEW t \in Upto(plan, layered)
  PROVE  ~Precedes(s, t)
<1>1. plan.deps[t] \subseteq layered
  BY DEF Upto, LayerAfter, IInv, LayeredInv
<1>2. ASSUME NEW K \in SUBSET plan.steps, Cut(plan, K), s \in K, t \notin K
      PROVE  FALSE
  <2>1. Ordered(plan, layered, K)
    BY <1>2 DEF PrefixInv, Cut
  <2>2. K \subseteq Upto(plan, K)
    BY UptoProps
  <2>3. QED
    BY <1>2, <2>1, <2>2 DEF Ordered
<1>3. QED
  BY <1>1, <1>2 DEF Precedes

(* Results are listed in an order the dependencies and the layers allow.   *)
LEMMA OrderNext ==
  ASSUME TypeOK, IInv, CauseInv, CacheLies(plan, cache), PrefixInv, ReuseInv, ReportInv,
         ReportOrder, [Next]_vars
  PROVE  ReportOrder'
<1>0. plan' = plan /\ cache' = cache
  <2>1. ASSUME NEW s \in Ids, StepNext(s)
        PROVE  plan' = plan /\ cache' = cache
    BY <2>1, StepIsOwn DEF OwnStep
  <2>2. QED
    BY <2>1 DEF Next, RunNext, Idle, vars, Reject, Accept, BeginLayer, SkipLayer, EndLayer, Return
<1>1. \A s, t : Precedes(s, t)' <=> Precedes(s, t)
  BY <1>0 DEF Precedes
<1>2. CASE results' = results
  BY <1>0, <1>1, <1>2 DEF ReportOrder
<1>3. CASE Accept
  <2>1. \A j \in DOMAIN results' : results'[j].id \in cache
    BY <1>3, AcceptReports DEF IdsOf
  <2>2. QED
    BY <1>0, <2>1 DEF ReportOrder
<1>4. CASE EndLayer \/ SkipLayer
  <2>1. PICK S \in SUBSET (NextLayer \ cache) :
           \A i \in DOMAIN results' : \/ i \in DOMAIN results /\ results'[i] = results[i]
                                      \/ i > Len(results) /\ results'[i].id \in S
    BY <1>4, LayerReports
  <2>2. \A s \in S : s \in plan.steps /\ s \notin cache \cup layered /\ s \in Upto(plan, layered)
    BY LayerFacts
  <2>3. pc \notin {"validate", "rejected"}
    BY <1>4 DEF EndLayer, SkipLayer
  <2>4. \A i \in DOMAIN results : results[i].id \in cache \cup layered
    BY <2>3 DEF ReportInv
  <2>5. results \in Seq([id : Ids, st : Terminal])
    BY DEF TypeOK
  <2>6. ASSUME NEW i \in DOMAIN results', NEW j \in DOMAIN results',
               results'[j].id \notin cache, Precedes(results'[i].id, results'[j].id)
        PROVE  i < j
    <3>1. CASE i > Len(results) /\ results'[i].id \in S
      <4>1. results'[j].id \in Upto(plan, layered)
        BY <2>1, <2>2, <2>4, <2>6, UptoProps
      <4>2. QED
        BY <2>2, <2>6, <3>1, <4>1, NotPreceded
    <3>2. CASE i \in DOMAIN results /\ results'[i] = results[i]
      <4>1. CASE j \in DOMAIN results /\ results'[j] = results[j]
        BY <2>6, <3>2, <4>1 DEF ReportOrder
      <4>2. CASE j > Len(results)
        <5>1. i <= Len(results) /\ i \in Int /\ Len(results) \in Int
          BY <2>5, <3>2
        <5>2. j \in Int
          <6>1. TypeOK'
            BY TypeNext
          <6>2. QED
            BY <6>1 DEF TypeOK
        <5>3. QED
          BY <4>2, <5>1, <5>2
      <4>3. QED
        BY <2>1, <4>1, <4>2
    <3>3. QED
      BY <2>1, <3>1, <3>2
  <2>7. QED
    BY <1>0, <1>1, <2>6 DEF ReportOrder
<1>5. ASSUME NEW s \in Ids, StepNext(s)
      PROVE  results' = results
  BY <1>5, StepIsOwn DEF OwnStep
<1>6. QED
  BY <1>2, <1>3, <1>4, <1>5 DEF Next, RunNext, Idle, vars, Reject, BeginLayer, Return

LEMMA RunInvNext ==
  ASSUME RunInv, [Next]_vars
  PROVE  RunInv'
<1>1. plan' = plan /\ cache' = cache
  <2>1. ASSUME NEW s \in Ids, StepNext(s)
        PROVE  plan' = plan /\ cache' = cache
    BY <2>1, StepIsOwn DEF OwnStep, RunInv
  <2>2. QED
    BY <2>1 DEF Next, RunNext, Idle, vars, Reject, Accept, BeginLayer, SkipLayer, EndLayer, Return
<1>2. CacheLies(plan, cache)'
  BY <1>1 DEF RunInv
<1>3. QED
  BY <1>2, TypeNext, IInvNext, CauseNext, PrefixNext, ReuseNext, FailNext, ReportNext, OrderNext
     DEF RunInv

-----------------------------------------------------------------------------
(* The patch: r takes the place of the failed step f                       *)

Patched(p, q, f, r) ==
  /\ q.steps = (p.steps \ {f}) \cup {r}
  /\ q.critical = (p.critical \ {f}) \cup {r}
  /\ q.deps[r] = p.deps[f]
  /\ \A s \in p.steps \ {f} :
       q.deps[s] = IF f \in p.deps[s] THEN (p.deps[s] \ {f}) \cup {r} ELSE p.deps[s]

LEMMA PatchPlanIsPatched ==
  ASSUME plan \in PlanSet, NEW f \in plan.steps, NEW r \in Ids \ plan.steps
  PROVE  PatchPlan(f, r) \in PlanSet /\ Patched(plan, PatchPlan(f, r), f, r)
<1> DEFINE q == PatchPlan(f, r)
           D == [s \in Ids |->
                  IF s = r THEN plan.deps[f]
                  ELSE IF s = f THEN {}
                  ELSE IF f \in plan.deps[s] THEN (plan.deps[s] \ {f}) \cup {r} ELSE plan.deps[s]]
<1>1. /\ plan.steps \subseteq Ids /\ plan.critical \subseteq Ids
      /\ plan.deps \in [Ids -> SUBSET Ids] /\ plan.retries \in [Ids -> Int] /\ f \in Ids /\ f # r
  BY DEF PlanSet
<1>2. q = [steps |-> (plan.steps \ {f}) \cup {r}, deps |-> D,
           critical |-> (plan.critical \ {f}) \cup {r},
           retries |-> [plan.retries EXCEPT ![r] = plan.retries[f]]]
  BY DEF PatchPlan
<1>3. D \in [Ids -> SUBSET Ids]
  BY <1>1
<1>4. q \in PlanSet
  BY <1>1, <1>2, <1>3 DEF PlanSet
<1>5. Patched(plan, q, f, r)
  BY <1>1, <1>2 DEF Patched
<1>6. QED
  BY <1>4, <1>5

(* The patched plan has no unknown dependency and no cycle. *)
LEMMA PatchValid ==
  ASSUME NEW p, NEW q, NEW f \in p.steps, NEW r, r \notin p.steps, Patched(p, q, f, r), Valid(p)
  PROVE  Valid(q)
<1>1. \A s \in p.steps : p.deps[s] \subseteq p.steps
  BY DEF Valid, DepsKnown
<1>2. f \notin p.deps[f]
  <2>1. \E s \in {f} : p.deps[s] \cap {f} = {}
    BY Zenon DEF Valid, Acyclic
  <2>2. QED
    BY <2>1
<1>3. DepsKnown(q)
  <2> SUFFICES ASSUME NEW s \in q.steps
               PROVE  q.deps[s] \subseteq q.steps
    BY DEF DepsKnown
  <2>1. CASE s = r
    BY <1>1, <1>2, <2>1 DEF Patched
  <2>2. CASE s # r
    BY <1>1, <2>2 DEF Patched
  <2>3. QED
    BY <2>1, <2>2
<1>4. Acyclic(q)
  <2> SUFFICES ASSUME NEW S \in SUBSET q.steps, S # {}
               PROVE  \E s \in S : q.deps[s] \cap S = {}
    BY DEF Acyclic
  <2> DEFINE T == IF r \in S THEN (S \ {r}) \cup {f} ELSE S
  <2>1. T \subseteq p.steps /\ T # {} /\ (f \in T <=> r \in S) /\ \A x \in S : x # r => x \in T
    BY DEF Patched
  <2>2. PICK t \in T : p.deps[t] \cap T = {}
    BY <2>1, Zenon DEF Valid, Acyclic
  <2> HIDE DEF T
  <2>3. CASE t = f
    <3>1. r \in S /\ q.deps[r] = p.deps[f] /\ r \notin p.deps[f]
      BY <1>1, <2>1, <2>2, <2>3 DEF Patched
    <3>2. q.deps[r] \cap S = {}
      BY <2>1, <2>2, <2>3, <3>1
    <3>3. QED
      BY <3>1, <3>2
  <2>4. CASE t # f
    <3>1. t \in S /\ t \in p.steps \ {f} /\ r \notin p.deps[t]
      BY <1>1, <2>1, <2>2, <2>4 DEF T
    <3>2. q.deps[t] = IF f \in p.deps[t] THEN (p.deps[t] \ {f}) \cup {r} ELSE p.deps[t]
      BY <3>1 DEF Patched
    <3>3. q.deps[t] \cap S = {}
      BY <2>1, <2>2, <3>1, <3>2
    <3>4. QED
      BY <3>1, <3>3
  <2>5. QED
    BY <2>3, <2>4
<1>5. QED
  BY <1>3, <1>4 DEF Valid

(* Below a closed set that f does not belong to nothing changes.           *)
LEMMA PatchLayer ==
  ASSUME NEW p, NEW q, NEW f \in p.steps, NEW r, r \notin p.steps, Patched(p, q, f, r),
         NEW L, L \subseteq p.steps, f \notin Upto(p, L)
  PROVE  Upto(q, L) = Upto(p, L)
<1>1. ASSUME NEW s \in LayerAfter(p, L)
      PROVE  s \in LayerAfter(q, L)
  BY <1>1 DEF LayerAfter, Upto, Patched
<1>2. ASSUME NEW s \in LayerAfter(q, L)
      PROVE  s \in LayerAfter(p, L)
  <2>1. s \in q.steps /\ s \notin L /\ q.deps[s] \subseteq L
    BY DEF LayerAfter
  <2>2. s # r
    BY <2>1 DEF LayerAfter, Upto, Patched
  <2>3. s \in p.steps \ {f} /\ r \notin L
    BY <2>1, <2>2 DEF Patched
  <2>4. f \notin p.deps[s]
    BY <2>1, <2>3 DEF Patched
  <2>5. QED
    BY <2>1, <2>3, <2>4 DEF LayerAfter, Patched
<1>3. QED
  BY <1>1, <1>2 DEF Upto

(* The layers before the failed step's stay the first layers.              *)
LEMMA PatchCut ==
  ASSUME NEW p, NEW q, NEW K \in LayerPrefixes(p), NEW f \in LayerAfter(p, K),
         NEW r, r \notin p.steps, Patched(p, q, f, r)
  PROVE  Cut(q, K)
<1> DEFINE Q == LayerPrefixes(p)
           F == {L \in SUBSET q.steps : \/ L \in Q /\ (Upto(p, L) \subseteq K \/ L = K)
                                        \/ Upto(q, K) \subseteq L}
<1>1. /\ f \in p.steps /\ f \notin K /\ K \subseteq p.steps
      /\ \A s \in K : p.deps[s] \subseteq K
      /\ {} \in Q /\ \A L \in Q : Upto(p, L) \in Q /\ L \subseteq p.steps
  BY PrefixProps, PrefixClosed DEF LayerAfter, Closes
<1>2. K \subseteq q.steps /\ \A s \in K : q.deps[s] = p.deps[s]
  BY <1>1 DEF Patched
<1>3. {} \in F
  <2>1. Ordered(p, {}, K) /\ K \subseteq Upto(p, K)
    BY <1>1, PrefixChain, UptoProps
  <2>2. QED
    BY <1>1, <2>1 DEF Ordered
<1>4. ASSUME NEW L \in Q, Upto(p, L) \subseteq K
      PROVE  Upto(q, L) = Upto(p, L)
  BY <1>1, <1>4, PatchLayer
<1>5. ASSUME NEW L \in F
      PROVE  Upto(q, L) \in F
  <2>1. Upto(q, L) \subseteq q.steps
    BY UptoProps
  <2>2. CASE L \in Q /\ Upto(p, L) \subseteq K
    <3>1. Upto(q, L) = Upto(p, L) /\ Upto(p, L) \in Q
      BY <1>1, <1>4, <2>2
    <3>2. Ordered(p, Upto(p, L), K) /\ K \subseteq Upto(p, K)
      BY <3>1, PrefixChain, UptoProps
    <3>3. QED
      BY <2>1, <2>2, <3>1, <3>2 DEF Ordered
  <2>3. CASE L = K
    BY <2>1, <2>3
  <2>4. CASE Upto(q, K) \subseteq L
    BY <2>1, <2>4, UptoProps
  <2>5. QED
    BY <2>2, <2>3, <2>4
<1>6. Closes(q, F)
  BY <1>3, <1>5 DEF Closes
<1>7. LayerPrefixes(q) \subseteq F
  BY <1>6, PrefixInduction
<1>8. ASSUME NEW L \in LayerPrefixes(q)
      PROVE  Ordered(q, L, K)
  BY <1>4, <1>7 DEF Ordered
<1>9. QED
  BY <1>1, <1>2, <1>8 DEF Cut

(* The results of the failed execution lie where the next one can reuse    *)
(* them.                                                                   *)
LEMMA PatchCache ==
  ASSUME NEW p, NEW q, NEW K \in LayerPrefixes(p), NEW f \in LayerAfter(p, K),
         NEW r, r \notin p.steps, Patched(p, q, f, r),
         NEW c, c \subseteq Upto(p, K), f \notin c, r \notin c, K \cap p.critical \subseteq c
  PROVE  CacheAt(q, c, K) /\ r \in LayerAfter(q, K) \cap q.critical
<1>1. f \in p.steps /\ f \notin K /\ p.deps[f] \subseteq K /\ K \subseteq p.steps
  BY PrefixProps DEF LayerAfter
<1>2. r \in LayerAfter(q, K) \cap q.critical
  BY <1>1 DEF LayerAfter, Patched
<1>3. K \cap q.critical \subseteq c
  BY <1>1 DEF Patched
<1>4. ASSUME NEW s \in c, s \notin K
      PROVE  s \in LayerAfter(q, K)
  <2>1. s \in p.steps \ {f} /\ p.deps[s] \subseteq K
    BY <1>4 DEF Upto, LayerAfter
  <2>2. f \notin p.deps[s]
    BY <1>1, <2>1
  <2>3. QED
    BY <1>4, <2>1, <2>2 DEF LayerAfter, Patched
<1>5. c \subseteq Upto(q, K)
  BY <1>4 DEF Upto
<1>6. QED
  BY <1>2, <1>3, <1>5, PatchCut DEF CacheAt

-----------------------------------------------------------------------------
(* From one execution to the next                                          *)

LEMMA FreshRun ==
  \A p, c : /\ p \in PlanSet /\ c \in SUBSET p.steps /\ CacheLies(p, c)
            /\ InitRun(p, c)
            => RunInv
<1> SUFFICES ASSUME NEW p \in PlanSet, NEW c \in SUBSET p.steps, CacheLies(p, c), InitRun(p, c)
             PROVE  RunInv
  OBVIOUS
<1>1. TypeOK /\ IInv
  BY TypeInitRun, IInvInitRun
<1>2. /\ plan = p /\ cache = c /\ pc = "validate" /\ layered = {} /\ results = <<>>
      /\ failed = FALSE /\ \A s \in Ids : status[s] = "new"
  BY DEF InitRun
<1>3. CauseInv /\ PrefixInv /\ ReuseInv
  BY <1>2, PrefixProps DEF CauseInv, PrefixInv, ReuseInv, Closes
<1>4. FailInv
  BY <1>2 DEF FailInv
<1>5. DOMAIN results = {}
  BY <1>2
<1>6. ReportInv /\ ReportOrder
  BY <1>2, <1>5 DEF ReportInv, ReportOrder
<1>7. QED
  BY <1>1, <1>2, <1>3, <1>4, <1>6 DEF RunInv

LEMMA FreshRunNext ==
  (\A p, c : /\ p \in PlanSet /\ c \in SUBSET p.steps /\ CacheLies(p, c)
             /\ InitRun(p, c)
             => RunInv)'
BY FreshRun, PTL

LEMMA RestartIsFresh ==
  ASSUME NEW p \in PlanSet, NEW c \in SUBSET p.steps, CacheLies(p, c), RestartRun(p, c)
  PROVE  RunInv'
<1>1. InitRun(p, c)'
  BY DEF RestartRun, InitRun
<1>2. QED
  BY <1>1, FreshRunNext

(* A finite set of naturals has a smallest element: the one below which    *)
(* its elements form a minimal set.                                        *)
LEMMA SmallestIn ==
  ASSUME NEW S \in SUBSET Nat, IsFiniteSet(S), S # {}
  PROVE  \E i \in S : \A j \in S : i <= j
<1> DEFINE below(i) == {j \in S : j < i}
           T == {below(i) : i \in S}
<1>1. T \subseteq FiniteSubsetsOf(S) /\ T # {}
  <2>1. FiniteSubsetsOf(S) = SUBSET S
    BY FS_FiniteSubsetsOfFinite
  <2>2. T \subseteq SUBSET S /\ T # {}
    OBVIOUS
  <2>3. QED
    BY <2>1, <2>2
<1> HIDE DEF T
<1>2. PICK x \in T : \A y \in T : ~ (<<y, x>> \in StrictSubsetOrdering(S))
  BY <1>1, WFMin, FS_StrictSubsetOrderingWellFounded
<1>3. PICK i \in S : x = below(i)
  BY DEF T
<1>4. ASSUME NEW j \in S, ~(i <= j)
      PROVE  FALSE
  <2>0. i \in Nat /\ j \in Nat /\ S \subseteq Nat
    OBVIOUS
  <2>1. below(j) \subseteq below(i) /\ j \in below(i) /\ j \notin below(j)
    <3>1. j < i /\ ~(j < j)
      BY <1>4, <2>0
    <3>2. \A k \in S : k < j => k < i
      BY <2>0, <3>1
    <3>3. QED
      BY <3>1, <3>2
  <2>2. <<below(j), below(i)>> \in StrictSubsetOrdering(S)
    BY <2>1 DEF StrictSubsetOrdering
  <2>3. QED
    BY <1>2, <1>3, <2>2 DEF T
<1>5. QED
  BY <1>4

(* _first_failed returns a critical step that failed.                      *)
LEMMA FirstFailedProps ==
  ASSUME RunInv, FailedCriticalAt # {}
  PROVE  /\ FirstFailed \in plan.critical /\ FirstFailed \in Ids
         /\ status[FirstFailed] = "failed"
<1>1. FailedCriticalAt \subseteq DOMAIN results
  BY DEF FailedCriticalAt
<1>2. results \in Seq([id : Ids, st : Terminal])
  BY DEF RunInv, TypeOK
<1>3. DOMAIN results \in SUBSET Nat /\ IsFiniteSet(DOMAIN results)
  <2>1. DOMAIN results = 1..Len(results) /\ Len(results) \in Nat
    BY <1>2
  <2>2. IsFiniteSet(1..Len(results))
    BY <2>1, FS_Interval
  <2>3. QED
    BY <2>1, <2>2
<1>4. FailedCriticalAt \in SUBSET Nat /\ IsFiniteSet(FailedCriticalAt)
  BY <1>1, <1>3, FS_Subset
<1>5. \E i \in FailedCriticalAt : \A j \in FailedCriticalAt : i <= j
  BY <1>4, SmallestIn
<1>6. PICK i \in FailedCriticalAt : FirstFailed = results[i].id
  BY <1>5 DEF FirstFailed
<1>7. i \in DOMAIN results /\ results[i].st = "failed" /\ results[i].id \in plan.critical
  BY <1>6 DEF FailedCriticalAt
<1>8. results[i].id \in Ids /\ status[results[i].id] = "failed"
  BY <1>7, ResultTyped DEF RunInv, ReportInv
<1>9. QED
  BY <1>6, <1>7, <1>8

(* The next execution may start from what the failed one leaves.           *)
LEMMA ReflectRestarts ==
  ASSUME RunInv, DoneInv, doneEver \subseteq plan.steps, pc = "failed", FailedCriticalAt # {},
         NEW r \in Ids \ plan.steps, NEW f, f = FirstFailed, NEW c, c = StepCache,
         NEW q, q = PatchPlan(f, r)
  PROVE  /\ q \in PlanSet /\ Valid(q) /\ Patched(plan, q, f, r)
         /\ f \in plan.steps /\ f \notin c /\ f \notin doneEver
         /\ c \in SUBSET q.steps /\ CacheLies(q, c) /\ doneEver \subseteq c
         /\ r \notin c /\ CacheBefore(q, c, r)
<1> USE DEF RunInv
<1>1. /\ plan \in PlanSet /\ plan.steps \subseteq Ids /\ cache \subseteq plan.steps
      /\ layered \subseteq plan.steps /\ Valid(plan)
  BY LayerFacts DEF TypeOK, CauseInv
<1>2. f \in plan.critical /\ f \in Ids /\ status[f] = "failed"
  BY FirstFailedProps
<1>3. f \in plan.steps
  BY <1>2 DEF FailInv
<1>4. PICK K \in SUBSET plan.steps : FailedAfter(K)
  BY DEF FailInv
<1>5. f \in LayerAfter(plan, K) /\ K \in LayerPrefixes(plan) /\ Upto(plan, K) \subseteq layered
  BY <1>2, <1>3, <1>4 DEF FailedAfter
<1>6. q \in PlanSet /\ Patched(plan, q, f, r)
  BY <1>1, <1>3, PatchPlanIsPatched
<1>7. Valid(q)
  BY <1>1, <1>3, <1>6, PatchValid
<1>8. \A s \in cache : status[s] = "done"
  BY DEF ReuseInv
<1>9. \A s : s \in c <=> s \in plan.steps /\ status[s] = "done"
  <2>1. ASSUME NEW s \in c
        PROVE  s \in plan.steps /\ status[s] = "done"
    <3>1. CASE s \in cache
      BY <1>1, <1>8, <3>1
    <3>2. ASSUME NEW i \in DOMAIN results, results[i].st = "done", s = results[i].id
          PROVE  s \in plan.steps /\ status[s] = "done"
      BY <1>1, <3>2 DEF ReportInv
    <3>3. QED
      BY <3>1, <3>2 DEF StepCache
  <2>2. ASSUME NEW s \in plan.steps, status[s] = "done"
        PROVE  s \in c
    <3>1. s \in layered
      BY <1>4, <1>5, <2>2 DEF FailedAfter
    <3>2. PICK i \in DOMAIN results : results[i].id = s
      BY <3>1 DEF ReportInv
    <3>3. results[i].st = "done"
      BY <2>2, <3>2 DEF ReportInv
    <3>4. QED
      BY <3>2, <3>3 DEF StepCache
  <2>3. QED
    BY <2>1, <2>2
<1>10. f \notin c /\ r \notin c /\ c \subseteq plan.steps
  BY <1>2, <1>9
<1>11. c \subseteq Upto(plan, K) /\ K \cap plan.critical \subseteq c
  BY <1>4, <1>9 DEF FailedAfter
<1>12. CacheAt(q, c, K) /\ r \in LayerAfter(q, K) \cap q.critical
  BY <1>5, <1>6, <1>10, <1>11, PatchCache
<1>13. K \in SUBSET q.steps
  BY <1>12 DEF CacheAt, Cut
<1>14. c \in SUBSET q.steps
  BY <1>10, <1>6 DEF Patched
<1>15. doneEver \subseteq c
  BY <1>8, <1>9, <1>1 DEF DoneInv
<1>16. QED
  BY <1>3, <1>6, <1>7, <1>10, <1>12, <1>13, <1>14, <1>15 DEF CacheLies, CacheBefore

-----------------------------------------------------------------------------
(* The inductive invariant of MultiAgent                                   *)

LEMMA NextFrame ==
  ASSUME TypeOK, IInv, [Next]_vars
  PROVE  plan' = plan /\ cache' = cache
<1>1. ASSUME NEW s \in Ids, StepNext(s)
      PROVE  plan' = plan /\ cache' = cache
  BY <1>1, StepIsOwn DEF OwnStep
<1>2. QED
  BY <1>1 DEF Next, RunNext, Idle, vars, Reject, Accept, BeginLayer, SkipLayer, EndLayer, Return

(* Within an execution a DONE step stays DONE.                             *)
LEMMA DonePersists ==
  ASSUME RunInv, [Next]_vars, NEW s \in Ids, status[s] = "done"
  PROVE  status'[s] = "done"
<1>1. CASE SkipLayer
  <2>1. s \notin NextLayer
    BY <1>1 DEF SkipLayer, NextLayer, RunInv, IInv, FreshInv, ReuseInv
  <2>2. QED
    BY <1>1, <2>1 DEF SkipLayer
<1>2. CASE Accept
  BY <1>2 DEF Accept
<1>3. ASSUME NEW t \in Ids, StepNext(t)
      PROVE  status'[s] = "done"
  BY <1>3, StepIsOwn, OwnStepFacts DEF RunInv, Terminal
<1>4. QED
  BY <1>1, <1>2, <1>3 DEF Next, RunNext, Idle, vars, Reject, BeginLayer, EndLayer, Return

LEMMA AgentInvInit == AgentInit => AgentInv
<1> SUFFICES ASSUME AgentInit
             PROVE  AgentInv
  OBVIOUS
<1>1. PICK p \in Plans : InitRun(p, {}) /\ tools \in {t \cap p.steps : t \in ToolSteps}
  BY DEF AgentInit
<1>2. p \in PlanSet /\ CacheLies(p, {})
  BY PlanExecutorAssumption DEF CacheLies
<1>3. RunInv
  BY <1>1, <1>2, FreshRun
<1>4. plan = p
  BY <1>1 DEF InitRun
<1>5. AgentTypeOK
  <2>1. Cardinality({}) = 0
    BY FS_EmptySet
  <2>2. tools \subseteq plan.steps
    BY <1>1, <1>4
  <2>3. 0 \in 0..MaxReflectionLoops
    BY MultiAgentAssumption
  <2>4. /\ loops = 0 /\ answer = {} /\ doneEver = {} /\ silent = {} /\ remembered = FALSE
        /\ phase = "planning" /\ unknown \subseteq tools
    BY DEF AgentInit
  <2>5. Cardinality(answer) <= 1
    BY <2>1, <2>4
  <2>6. QED
    BY <1>3, <2>2, <2>3, <2>4, <2>5 DEF AgentTypeOK, RunInv
<1>6. DoneInv /\ ReflectInv /\ PatchKeepsValid
  BY DEF AgentInit, DoneInv, ReflectInv, PatchKeepsValid
<1>7. SpeakInv
  <2>1. cache = {} /\ unknown \subseteq Ids /\ status = [s \in Ids |-> "new"]
    BY <1>1, <1>3, <1>4, <1>5, LayerFacts DEF InitRun, AgentTypeOK, RunInv
  <2>2. QED
    BY <2>1 DEF SpeakInv
<1>8. QED
  BY <1>3, <1>5, <1>6, <1>7 DEF AgentInv

LEMMA ExecuteKeeps ==
  ASSUME AgentInv, Execute
  PROVE  AgentInv'
<1>1. RunInv /\ [Next]_vars /\ TypeOK /\ IInv /\ plan.steps \subseteq Ids
  BY LayerFacts DEF AgentInv, Execute, Next, RunInv
<1>2. RunInv' /\ plan' = plan /\ cache' = cache
  BY <1>1, RunInvNext, NextFrame
<1>3. /\ phase = "executing" /\ phase' = "executing"
      /\ UNCHANGED <<loops, tools, unknown, answer, remembered>>
      /\ silent' \subseteq silent \cup ((doneEver' \ doneEver) \cap tools)
      /\ \A s \in unknown : status'[s] # "done"
      /\ doneEver' = doneEver \cup {s \in Ids : status'[s] = "done"}
  BY DEF Execute
<1>4. doneEver \subseteq plan.steps
  BY DEF AgentInv, AgentTypeOK
<1>5. DoneInv'
  <2>1. ASSUME NEW s \in doneEver
        PROVE  s \in cache' \/ status'[s] = "done"
    BY <1>1, <1>2, <1>4, DonePersists DEF AgentInv, DoneInv
  <2>2. QED
    BY <1>3, <2>1 DEF DoneInv
<1>6. doneEver' \subseteq plan.steps
  <2>1. \A s \in Ids : status'[s] = "done" => s \in plan.steps
    BY <1>2 DEF RunInv, FailInv
  <2>2. QED
    BY <1>3, <1>4, <2>1
<1>7. AgentTypeOK'
  <2>1. silent' \subseteq doneEver' \cap tools'
    BY <1>3 DEF AgentInv, AgentTypeOK
  <2>2. QED
    BY <1>2, <1>3, <1>6, <2>1 DEF AgentInv, AgentTypeOK, RunInv
<1>8. PatchKeepsValid'
  <2>1. ASSUME loops > 0
        PROVE  pc' # "rejected" /\ Valid(plan)
    <3>1. pc # "rejected" /\ Valid(plan) /\ RunNext
      BY <2>1 DEF AgentInv, PatchKeepsValid, Execute
    <3>2. ASSUME NEW s \in Ids, StepNext(s)
          PROVE  pc' = pc
      BY <1>1, <3>2, StepIsOwn DEF OwnStep
    <3>3. QED
      BY <3>1, <3>2 DEF RunNext, Reject, Accept, BeginLayer, SkipLayer, EndLayer, Return
  <2>2. QED
    BY <1>2, <1>3, <2>1 DEF PatchKeepsValid
<1>9. SpeakInv'
  BY <1>2, <1>3 DEF AgentInv, SpeakInv, Speaks
<1>10. QED
  BY <1>2, <1>3, <1>5, <1>7, <1>8, <1>9 DEF AgentInv, ReflectInv

LEMMA ReflectKeeps ==
  ASSUME AgentInv, NEW r \in Ids, Reflect(r)
  PROVE  AgentInv'
<1>1. /\ RunInv /\ DoneInv /\ doneEver \subseteq plan.steps /\ pc = "failed"
      /\ FailedCriticalAt # {} /\ r \in Ids \ plan.steps
      /\ loops < MaxReflectionLoops /\ loops \in Nat
  BY MultiAgentAssumption DEF AgentInv, ReflectInv, Reflect, AgentTypeOK
<1>2. PICK f, c, q : f = FirstFailed /\ c = StepCache /\ q = PatchPlan(f, r)
  OBVIOUS
<1>3. /\ q \in PlanSet /\ Valid(q) /\ Patched(plan, q, f, r)
      /\ f \in plan.steps /\ f \notin c /\ f \notin doneEver
      /\ c \in SUBSET q.steps /\ CacheLies(q, c) /\ doneEver \subseteq c
      /\ r \notin c /\ CacheBefore(q, c, r)
  BY <1>1, <1>2, ReflectRestarts
<1>4. /\ RestartRun(q, c)
      /\ tools' = IF f \in tools THEN (tools \ {f}) \cup {r} ELSE tools
      /\ unknown' = IF f \in tools THEN (unknown \ {f}) \cup {r} ELSE unknown
      /\ loops' = loops + 1 /\ phase' = "executing"
      /\ UNCHANGED <<doneEver, silent, answer, remembered>>
  BY <1>2 DEF Reflect, NextLoop
<1>5. RunInv'
  BY <1>3, <1>4, RestartIsFresh
<1>6. plan' = q /\ cache' = c /\ pc' = "validate"
  BY <1>4 DEF RestartRun
<1>7. DoneInv'
  BY <1>3, <1>4, <1>6 DEF DoneInv
<1>8. AgentTypeOK'
  <2>1. unknown \subseteq tools /\ tools \subseteq plan.steps /\ remembered \in BOOLEAN
        /\ Cardinality(answer) <= 1 /\ silent \subseteq doneEver \cap tools
    BY DEF AgentInv, AgentTypeOK
  <2>2. tools' \subseteq q.steps /\ unknown' \subseteq tools'
    BY <1>3, <1>4, <2>1 DEF Patched
  <2>3. doneEver' \subseteq q.steps
    BY <1>3, <1>4
  <2>4. loops' \in 0..MaxReflectionLoops
    BY <1>1, <1>4, MultiAgentAssumption
  <2>5. silent' \subseteq doneEver' \cap tools'
    BY <1>3, <1>4, <2>1
  <2>6. QED
    BY <1>4, <1>5, <1>6, <2>1, <2>2, <2>3, <2>4, <2>5 DEF AgentTypeOK, RunInv
<1>9. PatchKeepsValid' /\ ReflectInv'
  BY <1>3, <1>4, <1>6 DEF PatchKeepsValid, ReflectInv
<1>10. SpeakInv'
  <2>1. unknown' \subseteq tools' /\ tools' \subseteq Ids
    BY <1>3, <1>6, <1>8 DEF AgentTypeOK, PlanSet
  <2>2. \A s \in unknown' : status'[s] # "done"
    BY <1>4, <2>1 DEF RestartRun
  <2>3. r \in q.steps \ c
    BY <1>3 DEF Patched
  <2>4. Speaks(r)'
    BY <1>1, <1>4 DEF Speaks, AgentInv, AgentTypeOK
  <2>5. QED
    BY <1>3, <1>6, <2>2, <2>3, <2>4 DEF SpeakInv
<1>11. QED
  BY <1>5, <1>7, <1>8, <1>9, <1>10 DEF AgentInv

(* The last output is that of one step at most.                            *)
LEMMA LastOutputType ==
  ASSUME TypeOK
  PROVE  Cardinality(LastOutput) <= 1
<1>1. \A i \in DOMAIN results : i \in Int
  BY DEF TypeOK
<1>2. CASE LastOutput = {}
  BY <1>2, FS_EmptySet
<1>3. ASSUME NEW a \in LastOutput
      PROVE  Cardinality(LastOutput) <= 1
  <2>1. PICK i \in DoneAt : a = results[i].id /\ \A k \in DoneAt : k <= i
    BY DEF LastOutput
  <2>2. ASSUME NEW b \in LastOutput
        PROVE  b = a
    <3>1. PICK j \in DoneAt : b = results[j].id /\ \A k \in DoneAt : k <= j
      BY DEF LastOutput
    <3>2. i = j
      BY <1>1, <2>1, <3>1 DEF DoneAt
    <3>3. QED
      BY <2>1, <3>1, <3>2
  <2>3. LastOutput = {a}
    BY <2>2
  <2>4. Cardinality({a}) = 1
    BY FS_Singleton
  <2>5. QED
    BY <2>3, <2>4
<1>4. QED
  BY <1>2, <1>3

(* The other steps of run() leave the execution alone.                     *)
LEMMA QuietKeeps ==
  ASSUME AgentInv, UNCHANGED vars, UNCHANGED <<loops, tools, unknown, doneEver, silent>>,
         phase' \in {"planning", "executing", "reflecting", "criticising", "writing",
                     "returned", "raised"},
         remembered' \in BOOLEAN, Cardinality(answer') <= 1, ReflectInv'
  PROVE  AgentInv'
<1>1. RunInv'
  BY RunInvNext DEF AgentInv
<1>2. AgentTypeOK'
  BY <1>1 DEF AgentInv, AgentTypeOK, RunInv, vars
<1>3. DoneInv' /\ PatchKeepsValid' /\ SpeakInv'
  BY DEF AgentInv, DoneInv, PatchKeepsValid, SpeakInv, Speaks, vars
<1>4. QED
  BY <1>1, <1>2, <1>3 DEF AgentInv

LEMMA AgentInvNext ==
  ASSUME AgentInv, [AgentNext]_allVars
  PROVE  AgentInv'
<1>0. remembered \in BOOLEAN /\ Cardinality(answer) <= 1
  BY DEF AgentInv, AgentTypeOK
<1>1. CASE Plan
  BY <1>0, <1>1, QuietKeeps DEF Plan, ReflectInv
<1>2. CASE Execute
  BY <1>2, ExecuteKeeps
<1>3. CASE BeginReflection
  <2>1. /\ UNCHANGED vars /\ UNCHANGED <<loops, tools, unknown, doneEver, silent, answer, remembered>>
        /\ phase' = "reflecting" /\ pc \in {"failed", "rejected"}
        /\ FailedCriticalAt # {} /\ loops < MaxReflectionLoops
    BY <1>3 DEF BeginReflection, NeedsReflection
  <2>2. pc = "failed"
    <3>1. pc = "rejected" => results = <<>>
      BY DEF AgentInv, RunInv, ReportInv
    <3>2. DOMAIN <<>> = {}
      OBVIOUS
    <3>3. QED
      BY <2>1, <3>1, <3>2 DEF FailedCriticalAt
  <2>3. ReflectInv'
    BY <2>1, <2>2 DEF ReflectInv, FailedCriticalAt, vars
  <2>4. QED
    BY <1>0, <2>1, <2>3, QuietKeeps
<1>4. CASE Compose
  <2>1. /\ UNCHANGED vars /\ UNCHANGED <<loops, tools, unknown, doneEver, silent, remembered>>
        /\ phase' \in {"criticising", "writing"} /\ answer' = LastOutput
    BY <1>4 DEF Compose
  <2>2. Cardinality(answer') <= 1
    BY <2>1, LastOutputType DEF AgentInv, RunInv
  <2>3. ReflectInv'
    BY <2>1 DEF ReflectInv, LastOutput, DoneAt, vars
  <2>4. QED
    BY <1>0, <2>1, <2>2, <2>3, QuietKeeps
<1>5. CASE Criticise
  <2>1. /\ UNCHANGED vars /\ UNCHANGED <<loops, tools, unknown, doneEver, silent, answer, remembered>>
        /\ phase = "criticising" /\ phase' = "writing"
    BY <1>5 DEF Criticise
  <2>2. ReflectInv'
    BY <2>1 DEF AgentInv, ReflectInv, LastOutput, DoneAt, vars
  <2>3. QED
    BY <1>0, <2>1, <2>2, QuietKeeps
<1>6. ASSUME NEW r \in Ids, Reflect(r)
      PROVE  AgentInv'
  BY <1>6, ReflectKeeps
<1>7. ASSUME NEW ok \in BOOLEAN, WriteMemory(ok)
      PROVE  AgentInv'
  <2>1. /\ UNCHANGED vars /\ UNCHANGED <<loops, tools, unknown, doneEver, silent, answer>>
        /\ phase = "writing" /\ phase' = "returned" /\ remembered' = ok
    BY <1>7 DEF WriteMemory
  <2>2. ReflectInv'
    BY <2>1 DEF AgentInv, ReflectInv, LastOutput, DoneAt, vars
  <2>3. QED
    BY <1>0, <2>1, <2>2, QuietKeeps
<1>8. ASSUME NEW ph \in {"planning", "reflecting", "criticising"}, LLMFails(ph)
      PROVE  AgentInv'
  BY <1>0, <1>8, QuietKeeps DEF LLMFails, ReflectInv
<1>9. CASE UNCHANGED allVars
  <2>1. UNCHANGED vars /\ UNCHANGED <<phase, loops, tools, unknown, doneEver, silent, answer, remembered>>
    BY <1>9 DEF allVars, agentVars
  <2>2. ReflectInv'
    BY <2>1 DEF AgentInv, ReflectInv, LastOutput, DoneAt, FailedCriticalAt, vars
  <2>3. QED
    BY <1>0, <2>1, <2>2, QuietKeeps DEF AgentInv, AgentTypeOK
<1>10. QED
  BY <1>1, <1>2, <1>3, <1>4, <1>5, <1>6, <1>7, <1>8, <1>9 DEF AgentNext, AgentStep

LEMMA AgentInvariant == AgentSpec => []AgentInv
BY AgentInvInit, AgentInvNext, PTL DEF AgentSpec

(* Whatever is planned, executed and patched, every variable of run() keeps *)
(* its type: the budget of reflections is kept, what was DONE stays in the  *)
(* plan, tools are steps of the plan.                                       *)
THEOREM AgentTypeCorrect == AgentSpec => []AgentTypeOK
<1>1. AgentInv => AgentTypeOK
  BY DEF AgentInv
<1>2. QED
  BY <1>1, AgentInvariant, PTL

(* result.steps holds one result of each step, however the layers shift    *)
(* between executions: a step with a cached result is never skipped.       *)
THEOREM ReportedOnceHolds == AgentSpec => []ReportedOnce
<1>1. AgentInv => ReportedOnce
  BY DEF AgentInv, RunInv, ReportInv, ReportedOnce
<1>2. QED
  BY <1>1, AgentInvariant, PTL

(* A patched plan is accepted by validate() however often it was patched.  *)
THEOREM PatchKeepsValidHolds == AgentSpec => []PatchKeepsValid
<1>1. AgentInv => PatchKeepsValid
  BY DEF AgentInv
<1>2. QED
  BY <1>1, AgentInvariant, PTL

(* A step that was DONE in some execution is never in progress again.      *)
THEOREM DoneNotRepeatedHolds == AgentSpec => DoneNotRepeated
<1>1. ASSUME AgentInv, TypeOK', IInv', [AgentNext]_allVars, NEW s \in doneEver
      PROVE  status'[s] \notin Active
  <2>1. s \in Ids /\ RunInv /\ (s \in cache \/ status[s] = "done")
    BY <1>1, LayerFacts DEF AgentInv, AgentTypeOK, DoneInv, RunInv
  <2>2. CASE Execute
    <3>1. [Next]_vars
      BY <2>2 DEF Execute, Next
    <3>2. status'[s] \in Active => s \notin cache'
      BY <1>1, <2>1 DEF IInv, ActiveInv, GatherInv, Pending
    <3>3. cache' = cache
      BY <2>1, <3>1, NextFrame DEF RunInv
    <3>4. status[s] = "done" => status'[s] = "done"
      BY <2>1, <3>1, DonePersists
    <3>5. QED
      BY <2>1, <3>2, <3>3, <3>4 DEF Active
  <2>3. ASSUME NEW r \in Ids, Reflect(r)
        PROVE  status'[s] \notin Active
    BY <2>1, <2>3 DEF Reflect, RestartRun, Active
  <2>4. CASE status' = status
    <3>1. status[s] \in Active => s \notin cache
      BY <2>1 DEF RunInv, IInv, ActiveInv, GatherInv, Pending
    <3>2. QED
      BY <2>1, <2>4, <3>1 DEF Active
  <2>5. QED
    BY <1>1, <2>2, <2>3, <2>4
       DEF AgentNext, AgentStep, Plan, BeginReflection, Compose, Criticise, WriteMemory, LLMFails,
           allVars, vars
<1>2. AgentInv => TypeOK /\ IInv
  BY DEF AgentInv, RunInv
<1>3. AgentInv /\ (TypeOK /\ IInv)' /\ [AgentNext]_allVars
        => [\A s \in doneEver : status'[s] \notin Active]_allVars
  BY <1>1
<1>4. QED
  BY <1>2, <1>3, AgentInvariant, PTL DEF AgentSpec, DoneNotRepeated

(* The answer of a finished run() is the output of a step that no step     *)
(* with an output depends on, although result.steps lists cached results   *)
(* first and a tool may be DONE without one: the step that took the place  *)
(* of the last critical failure is DONE now and has an output, and it and  *)
(* what depends on it are listed after everything it came after.           *)
THEOREM AnswerFromDeepestHolds == AgentSpec => []AnswerFromDeepest
<1>1. ASSUME AgentInv
      PROVE  AnswerFromDeepest
  <2> SUFFICES ASSUME pc = "finished", NEW k \in DoneAt, \A m \in DoneAt : m <= k,
                      NEW i \in DoneAt, results[k].id \in plan.deps[results[i].id]
               PROVE  FALSE
    BY <1>1 DEF AnswerFromDeepest, AgentInv, ReflectInv, LastOutput
  <2> DEFINE a == results[k].id
             x == results[i].id
  <2>1. /\ TypeOK /\ IInv /\ RunInv /\ ReportOrder /\ ReportInv /\ ~failed /\ layered = plan.steps
        /\ i \in DOMAIN results /\ k \in DOMAIN results /\ cache \subseteq plan.steps
    BY <1>1 DEF AgentInv, RunInv, FailInv, DoneAt, TypeOK
  <2>2. \A m \in DOMAIN results : m \in Int
    BY <2>1 DEF TypeOK
  <2>3. ASSUME NEW m \in DoneAt, results[m].id \notin cache, Precedes(a, results[m].id)
        PROVE  FALSE
    <3>1. k < m /\ m <= k /\ m \in DOMAIN results
      BY <2>1, <2>3 DEF ReportOrder, DoneAt
    <3>2. QED
      BY <2>1, <2>2, <3>1
  <2>4. CASE x \notin cache
    BY <2>3, <2>4 DEF Precedes
  <2>5. CASE x \in cache
    <3>0. PICK r \in plan.steps \ cache : Speaks(r) /\ CacheBefore(plan, cache, r)
      BY <1>1, <2>5 DEF AgentInv, SpeakInv
    <3>1. PICK K \in SUBSET plan.steps :
            CacheAt(plan, cache, K) /\ r \in LayerAfter(plan, K) \cap plan.critical
      BY <3>0 DEF CacheBefore
    <3>2. r \in LayerAfter(plan, K) \cap plan.critical /\ r \notin cache
      BY <3>0, <3>1
    <3>3. r \in plan.steps /\ r \notin K
      BY <3>2 DEF LayerAfter
    <3>4. status[r] = "done"
      BY <2>1, <3>2, <3>3 DEF IInv, GoodInv
    <3>5. PICK m \in DOMAIN results : results[m].id = r
      BY <2>1, <3>3 DEF ReportInv
    <3>6. m \in DoneAt /\ results[m].id \notin cache
      <4>1. r \notin unknown
        BY <1>1, <3>4 DEF AgentInv, SpeakInv
      <4>2. r \notin silent
        BY <1>1, <3>0, <4>1 DEF Speaks, AgentInv, AgentTypeOK
      <4>3. QED
        BY <2>1, <3>2, <3>4, <3>5, <4>2 DEF ReportInv, DoneAt
    <3>7. a \in K
      BY <2>5, <3>1 DEF CacheAt, Cut, Upto, LayerAfter
    <3>8. Precedes(a, r)
      BY <3>1, <3>3, <3>7 DEF Precedes, CacheAt
    <3>9. QED
      BY <2>3, <3>5, <3>6, <3>8
  <2>6. QED
    BY <2>4, <2>5
<1>2. QED
  BY <1>1, AgentInvariant, PTL
=============================================================================
