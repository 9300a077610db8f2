---------------------------- MODULE PlanExecutor ----------------------------
(***************************************************************************)
(* One call of PlanExecutor.run (agent/executor.py) on one Plan            *)
(* (agent/planner.py): validation, topological layers, one asyncio.gather  *)
(* per layer throttled by a FIFO semaphore, retries with backoff, and the  *)
(* two short circuits after a critical step failed (inside the layer and   *)
(* for the layers below it).                                               *)
(*                                                                         *)
(* The event loop is single threaded: an action is what one task does      *)
(* between two awaits.  gather() schedules the tasks of a layer together,  *)
(* so all of them have started before any suspended one is resumed.        *)
(***************************************************************************)
EXTENDS Integers, FiniteSets, Sequences, SequencesExt

CONSTANTS
  Ids,          (* identifiers a PlanStep may carry                         *)
  Plans,        (* the plans run() may be called with                       *)
  MaxParallel   (* size of the semaphore: max(1, max_parallel)              *)

(* A plan: its steps, the depends_on of every step, the critical steps and *)
(* the max_retries of every step (any integer: plan_from_json checks none).*)
PlanSet == [steps : SUBSET Ids, deps : [Ids -> SUBSET Ids],
            critical : SUBSET Ids, retries : [Ids -> Int]]

ASSUME PlanExecutorAssumption ==
  /\ IsFiniteSet(Ids)
  /\ Plans \subseteq PlanSet
  /\ MaxParallel \in Nat \ {0}

VARIABLES
  plan,      (* the argument of run()                                       *)
  cache,     (* the ids step_cache holds a DONE result for                  *)
  pc,        (* where run() stands                                          *)
  status,    (* per step: where its task stands, or the status it got       *)
  attempts,  (* per step: attempts made so far                              *)
  layered,   (* the steps of the layers the loop is done with               *)
  order,     (* the current layer's `pending` list                          *)
  started,   (* how many tasks of `order` have started                      *)
  queue,     (* tasks parked on the semaphore, oldest first                 *)
  failed,    (* `failed` is set: a critical step of a finished layer failed *)
  results    (* result.steps                                                *)

vars == <<plan, cache, pc, status, attempts, layered, order, started, queue,
          failed, results>>

Active   == {"waiting", "running", "backoff"}
Terminal == {"done", "failed", "skipped"}
Status   == {"new"} \cup Active \cup Terminal

-----------------------------------------------------------------------------
(* Plan.validate and Plan.topological_layers *)

DepsKnown(p) == \A s \in p.steps : p.deps[s] \subseteq p.steps

(* Kahn's loop visits every step exactly when every set of steps has one   *)
(* without a dependency inside the set.                                    *)
Acyclic(p) ==
  \A S \in SUBSET p.steps : S # {} => \E s \in S : p.deps[s] \cap S = {}

Valid_NoCycleCheck(p) == DepsKnown(p)
Valid(p) == DepsKnown(p) /\ Acyclic(p)

(* The next layer: the steps left over whose dependencies all lie in the   *)
(* layers before.                                                          *)
NextLayer_AnyDep ==
  {s \in plan.steps \ layered : plan.deps[s] # {} => plan.deps[s] \cap layered # {}}
NextLayer == {s \in plan.steps \ layered : plan.deps[s] \subseteq layered}


(* Its steps that have no result yet. *)
Pending_All == NextLayer
Pending == NextLayer \ cache

-----------------------------------------------------------------------------
Batch       == {order[i] : i \in DOMAIN order}
AllStarted  == started = Len(order)
Running     == {s \in Ids : status[s] = "running"}

LocalFailed == {s \in Batch \cap plan.critical : status[s] = "failed"}

(* Semaphore.locked(), negated. *)
SlotFree == queue = <<>> /\ Cardinality(Running) < MaxParallel

(* The waiter a released slot is handed to. *)
Handed_LostWakeup == {}
Handed == IF queue = <<>> THEN {} ELSE {Head(queue)}

LayerDone == \A s \in Batch : status[s] \in Terminal

Reported(s) == [id |-> s, st |-> status[s]]

LayerResults == [i \in DOMAIN order |-> Reported(order[i])]

LayerFailed == LocalFailed # {}

RunOver == pc \in {"rejected", "finished", "failed"}

InitRun(p, c) ==
  /\ plan = p
  /\ cache = c
  /\ pc = "validate"
  /\ status = [s \in Ids |-> "new"]
  /\ attempts = [s \in Ids |-> 0]
  /\ layered = {}
  /\ order = <<>>
  /\ started = 0
  /\ queue = <<>>
  /\ failed = FALSE
  /\ results = <<>>

Init == \E p \in Plans : \E c \in SUBSET p.steps : InitRun(p, c)

(* An invalid plan is returned unexecuted, finished = False. *)
Reject ==
  /\ pc = "validate"
  /\ ~Valid(plan)
  /\ pc' = "rejected"
  /\ UNCHANGED <<plan, cache, status, attempts, layered, order, started,
                 queue, failed, results>>

(* DONE results of the cache go into step_results and result.steps first.  *)
Accept ==
  /\ pc = "validate"
  /\ Valid(plan)
  /\ pc' = "select"
  /\ status' = [s \in Ids |-> IF s \in cache THEN "done" ELSE status[s]]
  /\ \E o \in SetToSeqs(cache) :
       results' = [i \in DOMAIN o |-> [id |-> o[i], st |-> "done"]]
  /\ UNCHANGED <<plan, cache, attempts, layered, order, started, queue, failed>>

(* No critical failure so far: the steps of the next layer that have no    *)
(* result yet are gathered (the list order is that of a Python set).       *)
BeginLayer ==
  /\ pc = "select"
  /\ NextLayer # {}
  /\ ~failed
  /\ \E o \in SetToSeqs(Pending) : order' = o
  /\ pc' = IF Pending = {} THEN "select" ELSE "gather"
  /\ layered' = IF Pending = {} THEN layered \cup NextLayer ELSE layered
  /\ started' = 0
  /\ UNCHANGED <<plan, cache, status, attempts, queue, failed, results>>

(* After a critical failure every step of a later layer is SKIPPED, even   *)
(* one whose result came from the cache.                                   *)
SkipLayer ==
  /\ pc = "select"
  /\ NextLayer # {}
  /\ failed
  /\ status' = [s \in Ids |-> IF s \in NextLayer THEN "skipped" ELSE status[s]]
  /\ \E o \in SetToSeqs(NextLayer) :
       results' = results \o [i \in DOMAIN o |-> [id |-> o[i], st |-> "skipped"]]
  /\ layered' = layered \cup NextLayer
  /\ UNCHANGED <<plan, cache, pc, attempts, order, started, queue, failed>>

-----------------------------------------------------------------------------
(* _run_one and _exec_step *)

IsNext(s) == pc = "gather" /\ started < Len(order) /\ order[started + 1] = s

ShortCircuited(s) == LocalFailed # {} /\ s \in plan.critical

(* A critical step that sees a local failure when it starts is not run.    *)
ShortCircuit(s) ==
  /\ IsNext(s)
  /\ ShortCircuited(s)
  /\ started' = started + 1
  /\ status' = [status EXCEPT ![s] = "skipped"]
  /\ UNCHANGED <<plan, cache, pc, attempts, layered, order, queue, failed, results>>

(* A negative max_retries: the attempt loop is never entered.              *)
NeverTried(s) ==
  /\ IsNext(s)
  /\ ~ShortCircuited(s)
  /\ plan.retries[s] < 0
  /\ started' = started + 1
  /\ status' = [status EXCEPT ![s] = "failed"]
  /\ UNCHANGED <<plan, cache, pc, attempts, layered, order, queue, failed, results>>

(* The task reaches `async with sem`: for the first time, or again when    *)
(* the backoff sleep of a failed attempt is over.                          *)
Arrive(s) ==
  /\ \/ /\ IsNext(s)
        /\ ~ShortCircuited(s)
        /\ plan.retries[s] >= 0
        /\ started' = started + 1
     \/ /\ pc = "gather" /\ AllStarted
        /\ status[s] = "backoff"
        /\ UNCHANGED started
  /\ attempts' = [attempts EXCEPT ![s] = @ + 1]
  /\ UNCHANGED <<plan, cache, pc, layered, order, failed, results>>

(* attempts <= max_retries leaves another attempt, after a backoff.        *)
AfterAttempt(s, n, ok) ==
  IF ok THEN "done" ELSE IF n <= plan.retries[s] THEN "backoff" ELSE "failed"

Park(s) ==
  /\ Arrive(s)
  /\ ~SlotFree
  /\ status' = [status EXCEPT ![s] = "waiting"]
  /\ queue' = Append(queue, s)

Launch(s) ==
  /\ Arrive(s)
  /\ SlotFree
  /\ status' = [status EXCEPT ![s] = "running"]
  /\ UNCHANGED queue

(* The callback returned or raised without ever suspending: the slot is    *)
(* free again before another task runs.                                    *)
LaunchSync(s, ok) ==
  /\ Arrive(s)
  /\ SlotFree
  /\ status' = [status EXCEPT ![s] = AfterAttempt(s, attempts'[s], ok)]
  /\ UNCHANGED queue

(* The callback of a suspended attempt returned or raised; leaving the     *)
(* semaphore hands the slot to the oldest waiter, which is dispatched      *)
(* without a new look at local_failed.                                     *)
Complete(s, ok) ==
  /\ pc = "gather" /\ AllStarted
  /\ status[s] = "running"
  /\ status' = [t \in Ids |->
                  IF t = s THEN AfterAttempt(s, attempts[s], ok)
                  ELSE IF t \in Handed THEN "running"
                  ELSE status[t]]
  /\ queue' = IF Handed = {} THEN queue ELSE Tail(queue)
  /\ UNCHANGED <<plan, cache, pc, attempts, layered, order, started, failed, results>>

(* gather() returns once every task has: results are appended in list      *)
(* order, a failed critical step sets `failed`.                            *)
EndLayer ==
  /\ pc = "gather" /\ AllStarted
  /\ LayerDone
  /\ pc' = "select"
  /\ failed' = LayerFailed
  /\ layered' = layered \cup NextLayer
  /\ results' = results \o LayerResults
  /\ UNCHANGED <<plan, cache, status, attempts, order, started, queue>>

Return ==
  /\ pc = "select"
  /\ NextLayer = {}
  /\ pc' = IF failed THEN "failed" ELSE "finished"
  /\ UNCHANGED <<plan, cache, status, attempts, layered, order, started,
                 queue, failed, results>>

StepNext(s) ==
  \/ ShortCircuit(s)
  \/ NeverTried(s)
  \/ Park(s)
  \/ Launch(s)
  \/ \E ok \in BOOLEAN : LaunchSync(s, ok) \/ Complete(s, ok)

RunNext ==
  \/ Reject \/ Accept \/ BeginLayer \/ SkipLayer \/ EndLayer \/ Return
  \/ \E s \in Ids : StepNext(s)

Idle == RunOver /\ UNCHANGED vars

Next == RunNext \/ Idle

Spec == Init /\ [][Next]_vars

(* The event loop keeps running ready tasks, a backoff sleep ends, and a   *)
(* callback returns: provider and tool calls carry their own timeouts.     *)
FairSpec == Spec /\ WF_vars(RunNext)

-----------------------------------------------------------------------------
TypeOK ==
  /\ plan \in PlanSet
  /\ cache \subseteq plan.steps
  /\ pc \in {"validate", "select", "gather", "rejected", "finished", "failed"}
  /\ status \in [Ids -> Status]
  /\ attempts \in [Ids -> Nat]
  /\ layered \subseteq plan.steps
  /\ order \in Seq(Ids)
  /\ started \in 0..Len(order)
  /\ queue \in Seq(Ids)
  /\ failed \in BOOLEAN
  /\ results \in Seq([id : Ids, st : Terminal])

(* At most MaxParallel callbacks run at any time, whichever way slots are  *)
(* taken, kept over a retry and handed on (asyncio.Semaphore(max_parallel)).*)
ParallelBound == Cardinality(Running) <= MaxParallel

(* No slot is wasted: a task waits on the semaphore only while every slot  *)
(* is taken, and the queue holds each waiting task once.                   *)
NoIdleSlot ==
  /\ queue # <<>> => Cardinality(Running) = MaxParallel
  /\ \A s \in Ids : status[s] = "waiting"
                     <=> \E i \in DOMAIN queue : queue[i] = s
  /\ \A i, j \in DOMAIN queue : queue[i] = queue[j] => i = j

(* A step is in progress only when all its dependencies have their final   *)
(* result, and those of them that are critical are DONE: no prompt is      *)
(* built from an input that a critical step failed to produce.             *)
DependenciesFirst ==
  \A s \in Ids : status[s] \in Active =>
    \A d \in plan.deps[s] :
      /\ status[d] \in Terminal
      /\ d \in plan.critical => status[d] = "done"

(* Nothing below a critical failure runs, not even a step that does not    *)
(* depend on it: while any step is in progress, every critical step of the *)
(* layers before is DONE.                                                  *)
LayerBarrier ==
  (\E s \in Ids : status[s] \in Active) =>
    \A t \in layered \cap plan.critical : status[t] = "done"

(* run() returns: no plan, failure pattern or contention for the semaphore *)
(* leaves it waiting (retries are bounded, slots are always handed on).    *)
Termination == <>RunOver

(***************************************************************************)
(* The outcome a step has from the caller's point of view, and the run's   *)
(* verdict: run() implements PlanContract under this mapping.              *)
(***************************************************************************)
Outcome(s) ==
  IF pc = "validate" \/ status[s] \notin Terminal THEN "none"
  ELSE IF s \in cache /\ status[s] = "done" THEN "reused"
  ELSE status[s]

Verdict ==
  IF pc = "validate" THEN "new" ELSE IF RunOver THEN pc ELSE "open"

Contract ==
  INSTANCE PlanContract WITH outcome <- [s \in Ids |-> Outcome(s)],
                             verdict <- Verdict

(* Every run of the executor is one the contract allows: a step ends once, *)
(* after its dependencies; steps are given up only after a critical        *)
(* failure; the verdict tells whether there was one.                       *)
ImplementsContract == Contract!Spec
=============================================================================
