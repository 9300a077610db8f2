----------------------------- MODULE MultiAgent -----------------------------
(***************************************************************************)
(* MultiAgentRoles.run (agent/multi_agent.py): plan, execute, and while a  *)
(* critical step failed let the reflector patch the plan and execute it    *)
(* again with the DONE results of the executions before; then compose the  *)
(* answer, have it criticised and write the turn to memory.                *)
(*                                                                         *)
(* It runs PlanExecutor, one execution after the other: the executor's     *)
(* variables are those of the current execution.                           *)
(***************************************************************************)
EXTENDS PlanExecutor

CONSTANTS
  MaxReflectionLoops,   (* max_reflection_loops                             *)
  EnableReflector,
  EnableCritic,
  ToolSteps             (* the sets of steps the planner may give kind TOOL *)

ASSUME MultiAgentAssumption ==
  /\ MaxReflectionLoops \in Nat
  /\ {EnableReflector, EnableCritic} \subseteq BOOLEAN
  /\ ToolSteps \subseteq SUBSET Ids

VARIABLES
  phase,      (* the await run() stands at                                  *)
  loops,      (* reflections made                                           *)
  tools,      (* the steps of kind TOOL                                     *)
  unknown,    (* those whose target names no registered tool                *)
  doneEver,   (* history: the steps that were DONE in some execution        *)
  silent,     (* those of them whose output is None                         *)
  answer,     (* the step whose output is the answer, if any                *)
  remembered  (* the turn was written to memory                             *)

agentVars == <<phase, loops, tools, unknown, doneEver, silent, answer, remembered>>
allVars   == <<vars, agentVars>>

AgentInit ==
  /\ \E p \in Plans :
       /\ InitRun(p, {})
       /\ tools \in {t \cap p.steps : t \in ToolSteps}
  /\ unknown \in SUBSET tools
  /\ phase = "planning"
  /\ loops = 0
  /\ doneEver = {}
  /\ silent = {}
  /\ answer = {}
  /\ remembered = FALSE

(* A provider call of run() itself raises: nothing catches it.             *)
LLMFails(ph) ==
  /\ phase = ph
  /\ phase' = "raised"
  /\ UNCHANGED <<vars, loops, tools, unknown, doneEver, silent, answer, remembered>>

Plan ==
  /\ phase = "planning"
  /\ phase' = "executing"
  /\ UNCHANGED <<vars, loops, tools, unknown, doneEver, silent, answer, remembered>>

(* A step of the execution; ToolRegistry.call raises for an unknown name.  *)
(* A tool may return None; what a provider says is a string (_on_llm).     *)
Execute ==
  /\ phase = "executing"
  /\ RunNext
  /\ \A s \in unknown : status'[s] # "done"
  /\ doneEver' = doneEver \cup {s \in Ids : status'[s] = "done"}
  /\ \E q \in SUBSET ((doneEver' \ doneEver) \cap tools) : silent' = silent \cup q
  /\ UNCHANGED <<phase, loops, tools, unknown, answer, remembered>>

-----------------------------------------------------------------------------
FailedCriticalAt ==
  {i \in DOMAIN results : results[i].st = "failed" /\ results[i].id \in plan.critical}

(* _first_failed *)
FirstFailed == results[CHOOSE i \in FailedCriticalAt : \A j \in FailedCriticalAt : i <= j].id

NeedsReflection ==
  /\ pc \in {"failed", "rejected"}
  /\ EnableReflector
  /\ loops < MaxReflectionLoops
  /\ FailedCriticalAt # {}

BeginReflection ==
  /\ phase = "executing" /\ RunOver
  /\ NeedsReflection
  /\ phase' = "reflecting"
  /\ UNCHANGED <<vars, loops, tools, unknown, doneEver, silent, answer, remembered>>

(* _patch_plan: the failed step f gives its place, its dependencies and    *)
(* its dependents to a new step r, critical by default.                    *)
PatchPlan_KeepDependents(f, r) ==
  [steps    |-> (plan.steps \ {f}) \cup {r},
   deps     |-> [plan.deps EXCEPT ![r] = plan.deps[f], ![f] = {}],
   critical |-> (plan.critical \ {f}) \cup {r},
   retries  |-> [plan.retries EXCEPT ![r] = plan.retries[f]]]
PatchPlan(f, r) ==
  [steps    |-> (plan.steps \ {f}) \cup {r},
   deps     |-> [s \in Ids |->
                   IF s = r THEN plan.deps[f]
                   ELSE IF s = f THEN {}
                   ELSE IF f \in plan.deps[s] THEN (plan.deps[s] \ {f}) \cup {r}
                   ELSE plan.deps[s]],
   critical |-> (plan.critical \ {f}) \cup {r},
   retries  |-> [plan.retries EXCEPT ![r] = plan.retries[f]]]

(* The results the next execution starts from. *)
StepCache_Reset == {}
StepCache == cache \cup {results[i].id : i \in {j \in DOMAIN results : results[j].st = "done"}}

NextLoop_Stuck == loops
NextLoop == loops + 1

(* A new PlanExecutor: InitRun for the next state. *)
RestartRun(p, c) ==
  /\ plan' = p
  /\ cache' = c
  /\ pc' = "validate"
  /\ status' = [s \in Ids |-> "new"]
  /\ attempts' = [s \in Ids |-> 0]
  /\ layered' = {}
  /\ order' = <<>>
  /\ started' = 0
  /\ queue' = <<>>
  /\ failed' = FALSE
  /\ results' = <<>>

(* The retry's id is new (a uuid); an id that left the plan may stand for  *)
(* it.  Its target is the old one with the advice appended: for a TOOL     *)
(* step that is the name of no tool.                                       *)
Reflect(r) ==
  /\ phase = "reflecting"
  /\ r \in Ids \ plan.steps
  /\ LET f == FirstFailed IN
       /\ RestartRun(PatchPlan(f, r), StepCache)
       /\ tools' = IF f \in tools THEN (tools \ {f}) \cup {r} ELSE tools
       /\ unknown' = IF f \in tools THEN (unknown \ {f}) \cup {r} ELSE unknown
  /\ loops' = NextLoop
  /\ phase' = "executing"
  /\ UNCHANGED <<doneEver, silent, answer, remembered>>

-----------------------------------------------------------------------------
(* The results last_output looks at: DONE, with an output.                 *)
DoneAt ==
  {i \in DOMAIN results : results[i].st = "done" /\ results[i].id \notin silent}

(* _compose_final: the output of the last of them.                         *)
LastOutput_First == {results[i].id : i \in {j \in DoneAt : \A k \in DoneAt : j <= k}}
LastOutput == {results[i].id : i \in {j \in DoneAt : \A k \in DoneAt : k <= j}}

Compose ==
  /\ phase = "executing" /\ RunOver
  /\ ~NeedsReflection
  /\ answer' = LastOutput
  /\ phase' = IF EnableCritic THEN "criticising" ELSE "writing"
  /\ UNCHANGED <<vars, loops, tools, unknown, doneEver, silent, remembered>>

Criticise ==
  /\ phase = "criticising"
  /\ phase' = "writing"
  /\ UNCHANGED <<vars, loops, tools, unknown, doneEver, silent, answer, remembered>>

(* A failing append_turn is logged and swallowed.                          *)
WriteMemory(ok) ==
  /\ phase = "writing"
  /\ remembered' = ok
  /\ phase' = "returned"
  /\ UNCHANGED <<vars, loops, tools, unknown, doneEver, silent, answer>>

AgentOver == phase \in {"returned", "raised"}

AgentStep ==
  \/ Plan \/ Execute \/ BeginReflection \/ Compose \/ Criticise
  \/ \E r \in Ids : Reflect(r)
  \/ \E ok \in BOOLEAN : WriteMemory(ok)
  \/ \E ph \in {"planning", "reflecting", "criticising"} : LLMFails(ph)

AgentNext == AgentStep \/ (AgentOver /\ UNCHANGED allVars)

AgentSpec == AgentInit /\ [][AgentNext]_allVars

(* Provider calls return or raise (they carry timeouts), see FairSpec.     *)
AgentFairSpec == AgentSpec /\ WF_allVars(AgentStep)

-----------------------------------------------------------------------------
AgentTypeOK ==
  /\ TypeOK
  /\ phase \in {"planning", "executing", "reflecting", "criticising", "writing",
                "returned", "raised"}
  /\ loops \in 0..MaxReflectionLoops
  /\ unknown \subseteq tools /\ tools \subseteq plan.steps
  /\ doneEver \subseteq plan.steps
  /\ silent \subseteq doneEver \cap tools
  /\ Cardinality(answer) <= 1
  /\ remembered \in BOOLEAN

(* A step that was DONE in any execution is never run again: reflection    *)
(* repeats no tool or provider call that succeeded (RT-6).                 *)
DoneNotRepeated ==
  [][\A s \in doneEver : status'[s] \notin Active]_allVars

(* However the layers shift between executions, result.steps never holds   *)
(* two results of one step: a cached step is never also reported SKIPPED.  *)
ReportedOnce ==
  RunOver => \A i, j \in DOMAIN results : results[i].id = results[j].id => i = j

(* The answer of a finished execution is the output of a step that no step *)
(* which has an output of its own depends on, although cached results are  *)
(* listed before new ones and a tool may be DONE without an output.        *)
AnswerFromDeepest ==
  phase \in {"criticising", "writing", "returned"} /\ pc = "finished" =>
    \A a \in answer : \A i \in DoneAt : a \notin plan.deps[results[i].id]

(* A patched plan is always executable: no reflection makes validate()     *)
(* refuse a plan it accepted.                                              *)
PatchKeepsValid == loops > 0 => pc # "rejected" /\ Valid(plan)

(* run() comes to an end. *)
AgentTermination == <>AgentOver
=============================================================================
