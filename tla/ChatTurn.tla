------------------------------ MODULE ChatTurn ------------------------------
(***************************************************************************)
(* A turn of a conversation through the gateway: POST /v1/chat and         *)
(* /v1/chat/stream (gateway/routes/chat.py), the message store, the agent  *)
(* loop (agent/loop.py) and short-term memory, with DELETE of sessions and *)
(* messages (gateway/routes/sessions.py) at any time.                      *)
(*                                                                         *)
(* What a task does between two awaits is one step; the message store's    *)
(* asyncio lock never suspends, since nothing under it does.  SQLite runs  *)
(* in worker threads, which outlive the task that started them.            *)
(***************************************************************************)
EXTENDS Integers, Sequences, SequencesExt, FiniteSets

CONSTANTS
  Turns,          (* the requests                                           *)
  Sessions,
  SessionOf,
  Streams,        (* the requests made to /chat/stream                      *)
  MaxIterations,  (* max_tool_iterations                                    *)
  Window,         (* history_window, in turns of two messages               *)
  SoftWindow,     (* trim_history: the most turns it leaves as they are     *)
  KeepOldest,     (* ... and how many of the oldest and                     *)
  KeepNewest,     (* of the newest it keeps of more                         *)
  QueueMax,       (* maxsize of a stream's queue                            *)
  MaxPerSession,  (* capacity of the message store                          *)
  Past,           (* session -> turns stored before this process started    *)
  MaxErasures     (* bound: DELETEs                                         *)

ASSUME ChatAssumption ==
  /\ SessionOf \in [Turns -> Sessions]
  /\ Streams \subseteq Turns
  /\ MaxIterations \in Nat \ {0} /\ Window \in Nat \ {0}
  /\ SoftWindow \in Nat /\ KeepOldest \in Nat /\ KeepNewest \in Nat
  /\ KeepOldest + KeepNewest <= SoftWindow
  /\ QueueMax \in Nat /\ QueueMax >= 3
  /\ MaxPerSession \in Nat \ {0} /\ MaxErasures \in Nat
  /\ \A s \in Sessions : Past[s] \in Seq(ToSet(Past[s])) /\ IsInjective(Past[s])
  /\ \A s \in Sessions : ToSet(Past[s]) \cap Turns = {}

VARIABLES
  pc,        (* per turn: where the task that produces its reply stands     *)
  calls,     (* per turn: iterations that called tools                      *)
  history,   (* per turn: the turns it read as history                      *)
  shown,     (* per turn: those of them in the model's last prompt, whole   *)
  result,    (* per turn: what handle() is going to return                  *)
  verdict,   (* per turn: what became of it                                 *)
  put,       (* per stream: events its producer has left to put             *)
  queue,     (* per stream: its asyncio.Queue                               *)
  gen,       (* per stream: where its generator stands                      *)
  got,       (* per stream: the events its client was sent                  *)
  orphans,   (* turns given up while a thread was storing them              *)
  rows,      (* table `turns`: session -> turns, oldest first               *)
  msgs,      (* the message store: session -> messages, oldest first        *)
  erasures,
  appended,  (* history: the turns stored so far                            *)
  before     (* history: per turn, those answered when it was asked; as the *)
             (* history read, of use until the model's first reply          *)

vars == <<pc, calls, history, shown, result, verdict, put, queue, gen, got,
          orphans, rows, msgs, erasures, appended, before>>

Handling == {"reading", "thinking", "appending", "raising", "journaling"}
PC == Handling \cup {"idle", "storing", "ending", "ended"}
Results == {"none", "answer", "exhausted", "failed"}
Verdicts == {"unasked", "asked", "answered", "excused", "failed", "refused"}
Message == Turns \X {"user", "assistant"}

Kept == Turns \cup UNION {ToSet(Past[s]) : s \in Sessions}

Opening == <<"start", "message", "thinking">>
ToolCalls(n) == [i \in 1..n |-> "tool_call"]
Closing == <<"message", "delta", "done", "__end__">>
Events == {"start", "message", "thinking", "tool_call", "delta", "done", "error", "__end__"}

Init ==
  /\ pc = [t \in Turns |-> "idle"]
  /\ calls = [t \in Turns |-> 0]
  /\ history = [t \in Turns |-> {}] /\ shown = [t \in Turns |-> {}]
  /\ result = [t \in Turns |-> "none"]
  /\ verdict = [t \in Turns |-> "unasked"]
  /\ put = [t \in Turns |-> <<>>] /\ queue = [t \in Turns |-> <<>>]
  /\ gen = [t \in Turns |-> "none"] /\ got = [t \in Turns |-> <<>>]
  /\ orphans = {}
  /\ rows = [s \in Sessions |-> Past[s]] /\ msgs = [s \in Sessions |-> <<>>]
  /\ erasures = 0 /\ appended = {}
  /\ before = [t \in Turns |-> {}]

-----------------------------------------------------------------------------
(* The queue between a producer and its generator                          *)

Smaller(m, n) == IF m < n THEN m ELSE n
Room(t) == QueueMax - Len(queue[t])
Fits(t, events) == Len(events) <= Room(t)

(* Puts go on until one has to wait; the rest is left for later.           *)
Left_Lossy(t, events) ==
  IF Fits(t, events) THEN <<>>
  ELSE SubSeq(events, Smaller(Room(t) + 2, Len(events)), Len(events))
Left(t, events) == SubSeq(events, Room(t) + 1, Len(events))
Send(t, events) ==
  /\ queue' = [queue EXCEPT ![t] = @ \o SubSeq(events, 1, Smaller(Room(t), Len(events)))]
  /\ put' = [put EXCEPT ![t] = Left(t, events)]

(* The producer's last events.                                             *)
End(t, events) ==
  /\ Send(t, events)
  /\ pc' = [pc EXCEPT ![t] = IF Fits(t, events) THEN "ended" ELSE "ending"]

Streamed(t, events) == IF t \in Streams THEN events ELSE <<>>

-----------------------------------------------------------------------------
(* MessageStore.add                                                        *)

Newest(s, n) == SubSeq(s, Len(s) - n + 1, Len(s))
Capped(s, n) == IF Len(s) > n THEN Newest(s, n) ELSE s

Add(m) ==
  msgs' = [msgs EXCEPT ![SessionOf[m[1]]] = Capped(Append(@, m), MaxPerSession)]

-----------------------------------------------------------------------------
(* A turn                                                                  *)

(* The client has its answer. *)
Told(t) == verdict[t] = "answered" /\ (t \in Streams => Contains(got[t], "done"))

Begin(t) ==
  /\ pc[t] = "idle"
  /\ pc' = [pc EXCEPT ![t] = "reading"]
  /\ verdict' = [verdict EXCEPT ![t] = "asked"]
  /\ gen' = [gen EXCEPT ![t] = IF t \in Streams THEN "getting" ELSE "none"]
  /\ Add(<<t, "user">>)
  /\ Send(t, Streamed(t, Opening))
  /\ before' = [before EXCEPT ![t] = {u \in Turns : SessionOf[u] = SessionOf[t] /\ Told(u)}
                                          \cup ToSet(Past[SessionOf[t]])]
  /\ UNCHANGED <<calls, history, shown, result, got, orphans, rows, erasures,
                 appended>>

(* trim_history before the model is asked for the first time: the middle   *)
(* of more than SoftWindow turns is collapsed into a note, then the oldest *)
(* go while there are too many characters.                                 *)
Collapsed(h) ==
  IF Len(h) > SoftWindow THEN SubSeq(h, 1, KeepOldest) \o Newest(h, KeepNewest) ELSE h
Trims_Newest(h) == {ToSet(SubSeq(Collapsed(h), 1, n)) : n \in 0..Len(Collapsed(h))}
Trims(h) == {ToSet(Newest(Collapsed(h), n)) : n \in 0..Len(Collapsed(h))}

(* A thread reads the session's latest turns; the model is asked.          *)
Recent(s) == Capped(rows[s], Window)
Read(t) ==
  /\ pc[t] = "reading"
  /\ pc' = [pc EXCEPT ![t] = "thinking"]
  /\ history' = [history EXCEPT ![t] = ToSet(Recent(SessionOf[t]))]
  /\ \E turns \in Trims(Recent(SessionOf[t])) : shown' = [shown EXCEPT ![t] = turns]
  /\ UNCHANGED <<calls, result, verdict, put, queue, gen, got, orphans, rows,
                 msgs, erasures, appended, before>>

(* The history is of no use once the model has replied.                    *)
Forget(t) ==
  /\ history' = [history EXCEPT ![t] = {}]
  /\ before' = [before EXCEPT ![t] = {}]

Dismiss(t) == Forget(t) /\ shown' = [shown EXCEPT ![t] = {}]

(* The model wants tools, whose failures it is told of, and is asked again *)
(* unless that was the last iteration; trim_history may by then collapse   *)
(* any of the history into its note.                                       *)
AfterTools_Stored(n) == IF n < MaxIterations THEN "thinking" ELSE "appending"
AfterTools(n) == IF n < MaxIterations THEN "thinking" ELSE "journaling"
UseTools(t) ==
  /\ pc[t] = "thinking"
  /\ calls' = [calls EXCEPT ![t] = @ + 1]
  /\ pc' = [pc EXCEPT ![t] = AfterTools(calls[t] + 1)]
  /\ result' = [result EXCEPT ![t] = IF calls[t] + 1 < MaxIterations THEN @ ELSE "exhausted"]
  /\ \E turns \in IF calls[t] + 1 < MaxIterations THEN SUBSET shown[t] ELSE {{}} :
       shown' = [shown EXCEPT ![t] = turns]
  /\ Forget(t)
  /\ UNCHANGED <<verdict, put, queue, gen, got, orphans, rows, msgs, erasures,
                 appended>>

(* The model answers: the turn goes to a thread to be stored.              *)
Conclude(t) ==
  /\ pc[t] = "thinking"
  /\ pc' = [pc EXCEPT ![t] = "appending"]
  /\ result' = [result EXCEPT ![t] = "answer"]
  /\ Dismiss(t)
  /\ UNCHANGED <<calls, verdict, put, queue, gen, got, orphans, rows, msgs,
                 erasures, appended>>

(* What thread and store do with the turn; erased in between or not.       *)
Store(t) ==
  /\ rows' = [rows EXCEPT ![SessionOf[t]] = Append(@, t)]
  /\ appended' = appended \cup {t}

Stored(t) ==
  /\ pc[t] = "appending"
  /\ pc' = [pc EXCEPT ![t] = "journaling"]
  /\ Store(t)
  /\ UNCHANGED <<calls, history, shown, result, verdict, put, queue, gen, got,
                 orphans, msgs, erasures, before>>

(* The turn is stored, and then its backup raises. *)
StoreRaises(t) ==
  /\ pc[t] = "appending"
  /\ pc' = [pc EXCEPT ![t] = "raising"]
  /\ Store(t)
  /\ UNCHANGED <<calls, history, shown, result, verdict, put, queue, gen, got,
                 orphans, msgs, erasures, before>>

(* The reply: the tool calls are put; once they fit, the assistant's       *)
(* message is stored and the rest is put, or, for /chat, is returned.      *)
VerdictOf(outcome) ==
  IF outcome = "answer" THEN "answered"
  ELSE IF outcome = "exhausted" THEN "excused" ELSE "failed"
Reply(t, events, outcome) ==
  \/ /\ Fits(t, events)
     /\ Add(<<t, "assistant">>)
     /\ verdict' = [verdict EXCEPT ![t] = VerdictOf(outcome)]
     /\ End(t, events \o Streamed(t, Closing))
  \/ /\ ~Fits(t, events)
     /\ Send(t, events)
     /\ pc' = [pc EXCEPT ![t] = "storing"]
     /\ UNCHANGED <<verdict, msgs>>

Return(t) ==
  /\ pc[t] = "journaling"
  /\ Reply(t, Streamed(t, ToolCalls(calls[t])), result[t])
  /\ Dismiss(t)
  /\ UNCHANGED <<calls, result, gen, got, orphans, rows, erasures, appended>>

(* The provider or a thread raises, the latter before or after it stored   *)
(* the turn: handle() makes a reply of it.                                 *)
AgentFails(t) ==
  /\ pc[t] \in Handling \ {"journaling"}
  /\ calls' = [calls EXCEPT ![t] = 0]
  /\ result' = [result EXCEPT ![t] = "failed"]
  /\ Reply(t, <<>>, "failed")
  /\ Dismiss(t)
  /\ UNCHANGED <<gen, got, orphans, rows, erasures, appended>>

(* A thread goes on when the task that waits for it is cancelled, if it    *)
(* has begun.                                                              *)
LeaveThread(t) ==
  orphans' \in IF pc[t] = "appending" THEN {orphans, orphans \cup {t}} ELSE {orphans}

(* The timeout of handle(), or an error it passes on.                      *)
GiveUp_NoEnd(t) ==
  /\ pc[t] \in Handling
  /\ verdict' = [verdict EXCEPT ![t] = "refused"]
  /\ LeaveThread(t)
  /\ End(t, Streamed(t, <<"error">>))
  /\ Dismiss(t)
  /\ UNCHANGED <<calls, result, gen, got, rows, msgs, erasures, appended>>

GiveUp(t) ==
  /\ pc[t] \in Handling
  /\ verdict' = [verdict EXCEPT ![t] = "refused"]
  /\ LeaveThread(t)
  /\ End(t, Streamed(t, <<"error", "__end__">>))
  /\ Dismiss(t)
  /\ UNCHANGED <<calls, result, gen, got, rows, msgs, erasures, appended>>

LateStored(t) ==
  /\ t \in orphans
  /\ orphans' = orphans \ {t}
  /\ Store(t)
  /\ UNCHANGED <<pc, calls, history, shown, result, verdict, put, queue, gen,
                 got, msgs, erasures, before>>

(* The queue has room again for a producer that waits.                     *)
Put(t) ==
  /\ put[t] # <<>> /\ Room(t) > 0
  /\ \/ /\ pc[t] = "storing"
        /\ Reply(t, put[t], result[t])
     \/ /\ pc[t] = "ending"
        /\ End(t, put[t])
        /\ UNCHANGED <<verdict, msgs>>
  /\ UNCHANGED <<calls, history, shown, result, gen, got, orphans, rows, erasures,
                 appended, before>>

-----------------------------------------------------------------------------
(* The generator of a stream                                               *)

(* What comes next: an event it sends, or a wait for one.                  *)
Fetch(t) ==
  IF queue[t] # <<>>
  THEN /\ got' = [got EXCEPT ![t] = Append(@, Head(queue[t]))]
       /\ queue' = [queue EXCEPT ![t] = Tail(@)]
       /\ gen' = [gen EXCEPT ![t] = "sending"]
  ELSE /\ gen' = [gen EXCEPT ![t] = "getting"]
       /\ UNCHANGED <<got, queue>>

Get(t) ==
  /\ gen[t] = "getting" /\ queue[t] # <<>>
  /\ Fetch(t)
  /\ UNCHANGED <<pc, calls, history, shown, result, verdict, put, orphans, rows,
                 msgs, erasures, appended, before>>

(* The client has taken the event. *)
LastSent(t) == Last(got[t]) = "__end__"
Sent(t) ==
  /\ gen[t] = "sending"
  /\ IF LastSent(t)
     THEN gen' = [gen EXCEPT ![t] = "closed"] /\ UNCHANGED <<got, queue>>
     ELSE Fetch(t)
  /\ UNCHANGED <<pc, calls, history, shown, result, verdict, put, orphans, rows,
                 msgs, erasures, appended, before>>

(* The client goes away: the generator cancels the producer and waits for  *)
(* it.  A put that is cancelled is gone, but __end__ is put once more; if  *)
(* that has to wait too it does so for good, unless the generator itself   *)
(* was waiting for an event: the server then cancels both again.           *)
AtCancel(t) == IF pc[t] = "ended" \/ put[t] = <<"__end__">> THEN <<>> ELSE <<"__end__">>
Stuck(t) == gen[t] = "sending" /\ ~Fits(t, AtCancel(t))
Disconnect(t) ==
  /\ gen[t] \in {"getting", "sending"}
  /\ gen' = [gen EXCEPT ![t] = IF Stuck(t) THEN "closing" ELSE "closed"]
  /\ pc' = [pc EXCEPT ![t] = IF Stuck(t) THEN "ending" ELSE "ended"]
  /\ put' = [put EXCEPT ![t] = IF Stuck(t) THEN AtCancel(t) ELSE <<>>]
  /\ verdict' = [verdict EXCEPT ![t] = IF @ = "asked" THEN "refused" ELSE @]
  /\ LeaveThread(t)
  /\ Dismiss(t)
  /\ UNCHANGED <<calls, result, queue, got, rows, msgs, erasures, appended>>

-----------------------------------------------------------------------------
(* DELETE                                                                  *)

(* /v1/sessions: rows and messages go in one step; or, when memory raises  *)
(* after it deleted the rows, the rows of S and only the messages of M.    *)
ClearSessions(S, M) ==
  /\ erasures < MaxErasures
  /\ erasures' = erasures + 1
  /\ rows' = [s \in Sessions |-> IF s \in S THEN <<>> ELSE rows[s]]
  /\ msgs' = [s \in Sessions |-> IF s \in M THEN <<>> ELSE msgs[s]]
  /\ UNCHANGED <<pc, calls, history, shown, result, verdict, put, queue, gen,
                 got, orphans, appended, before>>

(* /v1/sessions/{id}/messages: memory keeps the turns.                     *)
Without(q, M) ==
  LET left == {i \in DOMAIN q : q[i] \notin M}
      Place(n) == CHOOSE i \in left : Cardinality({j \in left : j <= i}) = n
  IN  [n \in 1..Cardinality(left) |-> q[Place(n)]]
DeleteMessages(s, M) ==
  /\ erasures < MaxErasures
  /\ erasures' = erasures + 1
  /\ msgs' = [msgs EXCEPT ![s] = Without(@, M)]
  /\ UNCHANGED <<pc, calls, history, shown, result, verdict, put, queue, gen,
                 got, orphans, rows, appended, before>>

-----------------------------------------------------------------------------
Over(t) == pc[t] = "ended" /\ gen[t] \in {"none", "closed"}
Abandoned(t) == gen[t] = "closing"

(* Every request is over; nothing more has to happen.                      *)
Quiet ==
  /\ \A t \in Turns : Over(t) \/ Abandoned(t)
  /\ UNCHANGED vars

Work(t) ==
  \/ Read(t) \/ UseTools(t) \/ Conclude(t) \/ Stored(t)
  \/ StoreRaises(t) \/ Return(t) \/ AgentFails(t) \/ GiveUp(t) \/ Put(t)
Deliver(t) == Get(t) \/ Sent(t) \/ Disconnect(t)

Next ==
  \/ \E t \in Turns : Begin(t) \/ Work(t) \/ LateStored(t) \/ Deliver(t)
  \/ \E S \in SUBSET Sessions \ {{}} : \E M \in SUBSET S : ClearSessions(S, M)
  \/ \E s \in Sessions : \E M \in SUBSET ToSet(msgs[s]) \ {{}} : DeleteMessages(s, M)
  \/ Quiet

Spec == Init /\ [][Next]_vars

(* The event loop, the worker threads and the timeout move every turn on;  *)
(* a client takes an event it is sent or goes away.                        *)
FairSpec ==
  /\ Spec
  /\ \A t \in Turns :
       /\ WF_vars(Work(t))
       /\ WF_vars(Get(t))
       /\ WF_vars(gen[t] = "sending" /\ (Sent(t) \/ Disconnect(t)))

-----------------------------------------------------------------------------
(* Properties                                                              *)

(* The message store keeps to its capacity and holds no message twice, a   *)
(* session's rows hold no turn twice.                                      *)
TypeOK ==
  /\ pc \in [Turns -> PC] /\ calls \in [Turns -> 0..MaxIterations]
  /\ history \in [Turns -> SUBSET Kept] /\ before \in [Turns -> SUBSET Kept]
  /\ shown \in [Turns -> SUBSET Kept]
  /\ result \in [Turns -> Results] /\ verdict \in [Turns -> Verdicts]
  /\ put \in [Turns -> Seq(Events)] /\ got \in [Turns -> Seq(Events)]
  /\ queue \in [Turns -> Seq(Events)] /\ \A t \in Turns : Len(queue[t]) <= QueueMax
  /\ gen \in [Turns -> {"none", "getting", "sending", "closing", "closed"}]
  /\ orphans \in SUBSET Turns /\ appended \in SUBSET Turns
  /\ rows \in [Sessions -> Seq(Kept)] /\ \A s \in Sessions : IsInjective(rows[s])
  /\ msgs \in [Sessions -> Seq(Message)]
  /\ \A s \in Sessions : IsInjective(msgs[s]) /\ Len(msgs[s]) <= MaxPerSession
  /\ erasures \in 0..MaxErasures

(* A client that was told the answer of a turn before it asks again: that  *)
(* turn is in the prompt of the model's first call (build_messages and     *)
(* trim_history after append_turn), whatever other requests of the session *)
(* are under way; unless it was deleted, or later turns fill the window,   *)
(* or trim_history took it out, and then for the sake of later turns: for  *)
(* want of characters nothing older stays, and of too many turns the       *)
(* newest are later.  On later calls it may take out any of them.          *)
Later(s, u, v) == \E i, j \in DOMAIN rows[s] : i < j /\ rows[s][i] = u /\ rows[s][j] = v
Displaced(t, u) ==
  /\ Cardinality(history[t]) = Window
  /\ \A v \in history[t] : Later(SessionOf[t], u, v)
Crowded(t, u) ==
  /\ Cardinality(history[t]) > SoftWindow
  /\ \E newest \in SUBSET history[t] :
       Cardinality(newest) = KeepNewest /\ \A v \in newest : Later(SessionOf[t], u, v)
Trimmed(t, u) ==
  /\ u \in history[t]
  /\ Crowded(t, u) \/ \A v \in shown[t] : Later(SessionOf[t], u, v)
SeesAnswered ==
  \A t \in Turns : (pc[t] = "thinking" /\ calls[t] = 0) =>
    \A u \in before[t] :
      \/ u \in shown[t]
      \/ u \notin ToSet(rows[SessionOf[t]])
      \/ Displaced(t, u) \/ Trimmed(t, u)

(* What a client of /chat/stream reads is the start of one complete story: *)
(* every tool call of the turn, the answer and the end, or an error and    *)
(* the end, none lost, repeated or out of order, although the queue may    *)
(* fill up at any event and the client may go away; and the story is true: *)
(* "done" only when the assistant's message was stored, "error" only when  *)
(* it was not.                                                             *)
Stories(t) ==
  {Opening \o ToolCalls(calls[t]) \o Closing, Opening \o <<"error", "__end__">>}
StreamTrue ==
  \A t \in Streams :
    /\ \E story \in Stories(t) : IsPrefix(got[t], story)
    /\ Contains(got[t], "done") => verdict[t] \in {"answered", "excused", "failed"}
    /\ Contains(got[t], "error") =>
         verdict[t] = "refused" /\ ~Contains(msgs[SessionOf[t]], <<t, "assistant">>)

(* What a turn leaves in memory agrees with what its client was told.      *)
Memory(t) ==
  IF t \notin appended THEN "none"
  ELSE IF t \in ToSet(rows[SessionOf[t]]) THEN "kept" ELSE "erased"
Contract == INSTANCE TurnContract WITH memory <- [t \in Turns |-> Memory(t)]
ImplementsContract == Contract!Spec

(* Every request comes to an end, and so does its stream, whatever fails;  *)
(* except a producer whose client left it with a full queue.               *)
EveryTurnEnds ==
  \A t \in Turns : (verdict[t] = "asked") ~> (Over(t) \/ Abandoned(t))
=============================================================================
