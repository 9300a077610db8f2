-------------------------- MODULE MCPlanExecutor --------------------------
(* Bounds: three steps (two layers with a choice of who depends on whom,   *)
(* or one layer wider than the semaphore), every acyclic and cyclic        *)
(* dependency relation on them, every set of critical steps, max_retries   *)
(* of -1, 0 and 1.                                                         *)
EXTENDS PlanExecutor, TLC

CONSTANTS s1, s2, s3

MCIds == {s1, s2, s3}

MCRetries == {[s \in MCIds |-> 0], [s \in MCIds |-> IF s = s1 THEN 1 ELSE 0],
              [s \in MCIds |-> IF s = s2 THEN -1 ELSE 1]}

(* s1 never depends on s3 and s2 only on s1, unless the plan is cyclic.    *)
MCDeps == {[s \in MCIds |-> CASE s = s1 -> d1 [] s = s2 -> d2 [] OTHER -> d3] :
             d1 \in {{}, {s3}}, d2 \in SUBSET {s1}, d3 \in SUBSET {s1, s2}}

MCAllPlans ==
  {[steps |-> st, deps |-> d, critical |-> c, retries |-> r] :
     st \in {MCIds, {s1, s2}}, d \in MCDeps, c \in SUBSET MCIds, r \in MCRetries}

MCPlans == {p \in MCAllPlans : p.critical \subseteq p.steps}
=============================================================================
