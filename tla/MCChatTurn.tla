----------------------------- MODULE MCChatTurn -----------------------------
(* Bounds: a stream and a plain request in one session with three turns of *)
(* earlier days, a queue of three events for a story of up to nine, so     *)
(* that it fills up at every point; three turns of history, so that an     *)
(* older one drops out, of which trim_history collapses the second; room   *)
(* for two messages, so that a turn may lose its question when another is  *)
(* under way; one deletion.                                                *)
EXTENDS ChatTurn

CONSTANTS stream, plain, old1, old2, old3, s1

MCTurns == {stream, plain}
MCSessions == {s1}
MCSessionOf == [t \in MCTurns |-> s1]
MCStreams == {stream}
MCPast == [s \in MCSessions |-> <<old1, old2, old3>>]
=============================================================================
