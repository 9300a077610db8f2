--------------------------- MODULE MCRateLimiter ---------------------------
(* Bounds: three keys for a table of one or two buckets; two thirds of *)
(* a request come back per tick, so that a refused caller waits one or two *)
(* ticks; two restarts; the clock is set back once. *)
EXTENDS RateLimiter, TLC

CONSTANTS alice, bob, carol

MCKeys == {alice, bob, carol}
MCSymmetry == Permutations({bob, carol})
=============================================================================
