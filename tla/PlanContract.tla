---------------------------- MODULE PlanContract ----------------------------
(***************************************************************************)
(* What PlanExecutor.run promises its caller, with no layers, tasks,       *)
(* semaphore or retries: which outcomes a step may get and when, and which *)
(* verdict the run may end with.                                           *)
(***************************************************************************)
EXTENDS Integers, FiniteSets

CONSTANTS
  Ids,      (* step identifiers                                             *)
  Plans     (* the plans that may be run                                    *)

VARIABLES
  plan,     (* [steps, deps, critical, retries]                             *)
  outcome,  (* per step: "none" until it has one                            *)
  verdict   (* "open" until run() returns                                   *)

contractVars == <<plan, outcome, verdict>>

Settled(s) == outcome[s] # "none"
Good(s)    == outcome[s] \in {"done", "reused"}

(* The dependencies of s have their outcome, the critical ones a good one. *)
Ready(s) ==
  \A d \in plan.deps[s] : Settled(d) /\ (d \in plan.critical => Good(d))

CriticalFailure == \E s \in plan.steps \cap plan.critical : outcome[s] = "failed"

Runnable(p) ==
  /\ \A s \in p.steps : p.deps[s] \subseteq p.steps
  /\ \A S \in SUBSET p.steps : S # {} => \E s \in S : p.deps[s] \cap S = {}

Init ==
  /\ plan \in Plans
  /\ outcome = [s \in Ids |-> "none"]
  /\ verdict = "new"

(* A plan with unknown dependencies or a cycle is never started ...        *)
Refuse ==
  /\ verdict = "new" /\ ~Runnable(plan)
  /\ verdict' = "rejected"
  /\ UNCHANGED <<plan, outcome>>

(* ... any other plan is, with the results the caller already has.         *)
Open(S) ==
  /\ verdict = "new" /\ Runnable(plan)
  /\ verdict' = "open"
  /\ outcome' = [s \in Ids |-> IF s \in S THEN "reused" ELSE "none"]
  /\ UNCHANGED plan

(* A step ends once, and only after what it depends on.                    *)
Finish(s, o) ==
  /\ verdict = "open"
  /\ outcome[s] = "none"
  /\ Ready(s)
  /\ outcome' = [outcome EXCEPT ![s] = o]
  /\ UNCHANGED <<plan, verdict>>

(* After a critical failure steps are given up, never those that ran.      *)
GiveUp(S) ==
  /\ verdict = "open"
  /\ CriticalFailure
  /\ \A s \in S : outcome[s] \in {"none", "reused"}
  /\ outcome' = [s \in Ids |-> IF s \in S THEN "skipped" ELSE outcome[s]]
  /\ UNCHANGED <<plan, verdict>>

Close ==
  /\ verdict = "open"
  /\ \A s \in plan.steps : Settled(s)
  /\ verdict' = IF CriticalFailure THEN "failed" ELSE "finished"
  /\ UNCHANGED <<plan, outcome>>

Next ==
  \/ Refuse
  \/ \E S \in SUBSET plan.steps : Open(S) \/ GiveUp(S)
  \/ \E s \in plan.steps : \E o \in {"done", "failed"} : Finish(s, o)
  \/ Close

Spec == Init /\ [][Next]_contractVars
=============================================================================
