----------------------------- MODULE MCLarkSync -----------------------------
(***************************************************************************)
(* Two processes (one may be refused the lock, take over after an exit or  *)
(* a crash, or give up), three messages of one user or two of one and one  *)
(* of another, a window of one turn, one model call at a time with two     *)
(* attempts, two tries at the file lock.                                   *)
(***************************************************************************)
EXTENDS LarkSync

CONSTANTS m1, m2, m3, u1, u2

MCMessages == {m1, m2, m3}
MCUsers == {u1, u2}
MCSenders == {[m \in MCMessages |-> u1],
              [m \in MCMessages |-> IF m = m2 THEN u2 ELSE u1]}
=============================================================================
