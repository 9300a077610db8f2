----------------------------- MODULE MCRedisBus -----------------------------
(* Bounds: a consumer that stays and one that may die, three entries read  *)
(* in batches of two.                                                      *)
EXTENDS RedisBus, TLC

CONSTANTS c1, c2
=============================================================================
