-------------------------- MODULE MCRedisLimiter --------------------------
(* Bounds: two replicas whose clocks differ by a second or not; a call is  *)
(* a second on its way at most; a bucket of one request fills in two       *)
(* seconds and is forgotten after four.  Of three calls that fail the own  *)
(* bucket of a replica admits one, refuses one and keeps what it promised. *)
EXTENDS RedisLimiter, TLC

CONSTANTS r1, r2

MCSymmetry == Permutations(Replicas)
=============================================================================
