---------------------------- MODULE TurnContract ----------------------------
(***************************************************************************)
(* What the gateway promises about a turn of a conversation and its memory,*)
(* with no tasks, threads, queues or timeouts.                             *)
(***************************************************************************)
CONSTANTS Turns

VARIABLES
  verdict,   (* per turn: "unasked", "asked", or how it was settled         *)
  memory     (* per turn: "none", "kept" or, after that, "erased"           *)

contractVars == <<verdict, memory>>

Init ==
  /\ verdict = [t \in Turns |-> "unasked"]
  /\ memory = [t \in Turns |-> "none"]

Ask(t) ==
  /\ verdict[t] = "unasked"
  /\ verdict' = [verdict EXCEPT ![t] = "asked"]
  /\ UNCHANGED memory

(* A turn is remembered once, and not after its client was replied to;     *)
(* but a turn that timed out may still be on its way into memory.          *)
Remember(t) ==
  /\ verdict[t] \in {"asked", "refused"}
  /\ memory[t] = "none"
  /\ memory' = [memory EXCEPT ![t] = "kept"]
  /\ UNCHANGED verdict

(* Only what has been remembered counts as answered ...                    *)
Answer(t) ==
  /\ verdict[t] = "asked" /\ memory[t] # "none"
  /\ verdict' = [verdict EXCEPT ![t] = "answered"]
  /\ UNCHANGED memory

(* ... and the excuse that the iterations were used up leaves no trace.    *)
Excuse(t) ==
  /\ verdict[t] = "asked" /\ memory[t] = "none"
  /\ verdict' = [verdict EXCEPT ![t] = "excused"]
  /\ UNCHANGED memory

(* An error, which the client is told of in place of an answer, may have   *)
(* come after the turn was remembered; it is not remembered later.         *)
Fail(t) ==
  /\ verdict[t] = "asked"
  /\ verdict' = [verdict EXCEPT ![t] = "failed"]
  /\ UNCHANGED memory

Refuse(t) ==
  /\ verdict[t] = "asked"
  /\ verdict' = [verdict EXCEPT ![t] = "refused"]
  /\ UNCHANGED memory

Erase(S) ==
  /\ memory' = [t \in Turns |-> IF t \in S /\ memory[t] = "kept" THEN "erased" ELSE memory[t]]
  /\ UNCHANGED verdict

Next ==
  \/ \E t \in Turns : Ask(t) \/ Remember(t) \/ Answer(t) \/ Excuse(t) \/ Fail(t)
                     \/ Refuse(t)
  \/ \E S \in SUBSET Turns : Erase(S)

Spec == Init /\ [][Next]_contractVars
=============================================================================
