---------------------------- MODULE MCMultiAgent ----------------------------
(* Bounds: three steps in a chain, a fork, a join, a triangle, a chain     *)
(* beside a single step or all side by side, any of them critical; two     *)
(* reflections, for which one spare identifier is enough; a few choices of *)
(* tool steps, whose tools may or may not be registered.                   *)
EXTENDS MultiAgent, TLC

CONSTANTS s1, s2, s3, r1

MCIds == {s1, s2, s3, r1}

MCDeps(d2, d3) ==
  [s \in MCIds |-> CASE s = s2 -> d2 [] s = s3 -> d3 [] OTHER -> {}]

MCPlans ==
  {[steps |-> {s1, s2, s3}, deps |-> d, critical |-> c,
    retries |-> [s \in MCIds |-> 0]] :
     d \in {MCDeps({}, {}), MCDeps({s1}, {}), MCDeps({s1}, {s1}), MCDeps({s1}, {s2}),
            MCDeps({}, {s1, s2}), MCDeps({s1}, {s1, s2})},
     c \in SUBSET {s1, s2, s3}}

MCToolSteps == {{}, {s2}, {s1, s3}}
=============================================================================
