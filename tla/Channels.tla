------------------------------ MODULE Channels ------------------------------
(***************************************************************************)
(* The channels of a gateway process, the manager that starts and stops    *)
(* them (channels/base.py) and the shutdown of the gateway around it       *)
(* (gateway/app.py, _lifespan), through restarts and crashes.              *)
(*                                                                         *)
(* A channel is its start() coroutine, the task that start() creates, and  *)
(* its stop().  What the kinds differ in is modelled kind by kind; of the  *)
(* messages only those a server keeps (Telegram's updates, Signal's        *)
(* envelopes) are followed, by number, to the end of their handler         *)
(* (dispatch, whatever it decides).  Cancelling a task ends it where it    *)
(* waits: no handler on the way keeps a CancelledError.                    *)
(***************************************************************************)
EXTENDS Integers, Sequences

CONSTANTS
  N,            (* number of channels, numbered as they were registered     *)
  KindSets,     (* the sets of kinds per channel to start from              *)
  MaxAttempts,  (* of the Lark WS loop: 12                                  *)
  MaxUpdates,   (* bound: messages per server                               *)
  MaxBoots,     (* bound: processes, one after the other                    *)
  MaxCrashes    (* bound                                                    *)

Channels == 1..N
Kinds == {"telegram", "signal", "discord", "lark_ws", "lark_hook", "hook", "echo"}

ASSUME ChannelsAssumption ==
  /\ N \in Nat
  /\ KindSets \subseteq [Channels -> Kinds] /\ KindSets # {}
  /\ MaxAttempts \in Nat /\ MaxUpdates \in Nat
  /\ MaxBoots \in Nat \ {0} /\ MaxCrashes \in Nat

VARIABLES
  kind,      (* of each channel                                             *)
  life,      (* of the process: up, stopping (stop_all), closing (agent,    *)
             (* providers), ended, down after a crash                       *)
  boots, crashes,
  pos, at,   (* stop_all: the channel it stops, the await it stands at      *)
  cut,       (* the ten seconds of stop_all are over                        *)
  stopped,   (* per channel: _stopped                                       *)
  start,     (* per channel: where start() stands                           *)
  task,      (* per channel: where the task it created stands               *)
  attempt,   (* per channel: of the Lark WS loop                            *)
  offset,    (* per channel: Telegram's _offset                             *)
  batch,     (* per channel: what is left of the poll, the head in its      *)
             (* handler                                                     *)
  sent,      (* per server: messages 1..sent have arrived                   *)
  forgot,    (* per server: messages 1..forgot will not be handed out again *)
  ended,     (* history: per channel, the messages whose handler ended      *)
  begun,     (* history: per channel, the messages whose handler began in   *)
             (* this process, in order                                      *)
  late       (* history: per channel, stop() came before start() was done   *)

process == <<life, boots, crashes>>
stopping == <<pos, at, cut>>
tasks == <<start, task, attempt, offset, batch>>
server == <<sent, forgot>>
history == <<ended, begun, late>>
vars == <<kind, process, stopping, stopped, tasks, server, history>>

Running == {"new", "poll", "handle", "backoff", "connect", "recv", "setup", "serve"}
Over == {"none", "done", "raised", "cancelled"}
Polling == {c \in Channels : kind[c] \in {"telegram", "signal"}}
Lark == {"lark_ws", "lark_hook"}
Alive == life \in {"up", "stopping", "closing"}

Init ==
  /\ kind \in KindSets
  /\ life = "up" /\ boots = 1 /\ crashes = 0
  /\ pos = 1 /\ at = "none" /\ cut = FALSE
  /\ stopped = [c \in Channels |-> FALSE]
  /\ start = [c \in Channels |-> "begin"]
  /\ task = [c \in Channels |-> "none"]
  /\ attempt = [c \in Channels |-> 0]
  /\ offset = [c \in Channels |-> 0]
  /\ batch = [c \in Channels |-> <<>>]
  /\ sent = [c \in Channels |-> 0] /\ forgot = [c \in Channels |-> 0]
  /\ ended = [c \in Channels |-> {}]
  /\ begun = [c \in Channels |-> <<>>]
  /\ late = [c \in Channels |-> FALSE]
-----------------------------------------------------------------------------
(* start(): a setting is missing or the server, asked first, does not      *)
(* answer; or the task is made and start() waits for _stopped.             *)

HasTask(c) == kind[c] \notin {"hook", "echo"}

Started(c) ==
  /\ Alive /\ start[c] = "begin"
  /\ start' = [start EXCEPT ![c] = "wait"]
  /\ task' = [task EXCEPT ![c] = IF HasTask(c) THEN "new" ELSE "none"]
  /\ UNCHANGED <<kind, process, stopping, stopped, attempt, offset, batch, server, history>>

StartFails(c) ==
  /\ Alive /\ start[c] = "begin" /\ kind[c] # "echo"
  /\ start' = [start EXCEPT ![c] = "failed"]
  /\ UNCHANGED <<kind, process, stopping, stopped, task, attempt, offset, batch, server, history>>

StartReturns(c) ==
  /\ Alive /\ start[c] = "wait" /\ stopped[c]
  /\ start' = [start EXCEPT ![c] = "returned"]
  /\ UNCHANGED <<kind, process, stopping, stopped, task, attempt, offset, batch, server, history>>
-----------------------------------------------------------------------------
(* The tasks.  A step of the task of c that only moves it:                 *)
Moves(c, from, to) ==
  /\ Alive /\ task[c] = from
  /\ task' = [task EXCEPT ![c] = to]
  /\ UNCHANGED <<kind, process, stopping, stopped, start>>

(* `while not self._stopped.is_set()`                                      *)
Unless(c, next) == IF stopped[c] THEN "done" ELSE next

FirstStep(c) ==
  /\ Moves(c, "new", CASE c \in Polling -> Unless(c, "poll")
                       [] kind[c] = "lark_ws" -> Unless(c, "serve")
                       [] kind[c] = "lark_hook" -> "setup"
                       [] kind[c] = "discord" -> "connect")
  /\ UNCHANGED <<attempt, offset, batch, server, history>>

(* Telegram: getUpdates with an offset makes the server forget what is     *)
(* before it and answers with what it has from there; offset 0 asks for    *)
(* all it still has.  Signal: what is received is forgotten.               *)
Later(m, n) == IF m > n THEN m ELSE n
First(c) == IF kind[c] = "telegram" THEN Later(forgot[c] + 1, offset[c]) ELSE forgot[c] + 1
Wanted(c) == [i \in 1..(sent[c] - First(c) + 1) |-> First(c) + i - 1]
AfterPoll(c) == IF kind[c] = "telegram" THEN First(c) - 1 ELSE sent[c]

(* The handler of the first of msgs begins, if there is one.               *)
Begin(c, msgs) ==
  begun' = [begun EXCEPT ![c] = IF msgs = <<>> THEN @ ELSE Append(@, Head(msgs))]

Poll(c) ==
  /\ c \in Polling
  /\ Moves(c, "poll", IF Wanted(c) = <<>> THEN Unless(c, "poll") ELSE "handle")
  /\ batch' = [batch EXCEPT ![c] = Wanted(c)]
  /\ forgot' = [forgot EXCEPT ![c] = AfterPoll(c)]
  /\ Begin(c, Wanted(c))
  /\ UNCHANGED <<attempt, offset, sent, ended, late>>

(* The request or its reply is lost, the server refuses, the client was    *)
(* closed by stop().                                                       *)
PollFails_EndsLoop(c) ==
  /\ c \in Polling
  /\ Moves(c, "poll", "raised")
  /\ UNCHANGED <<attempt, offset, batch, server, history>>
PollFails(c) ==
  /\ c \in Polling
  /\ Moves(c, "poll", "backoff")
  /\ forgot' \in {forgot, [forgot EXCEPT ![c] = AfterPoll(c)]}
  /\ UNCHANGED <<attempt, offset, batch, sent, history>>

(* The handler of one message returned or raised.  The messages of the     *)
(* poll that are left are handled without a look at _stopped.              *)
AfterUpdate_SameOffset(c, u) == Later(offset[c], u)
AfterUpdate(c, u) == Later(offset[c], u + 1)

Handled(c) ==
  /\ c \in Polling /\ task[c] = "handle"
  /\ ended' = [ended EXCEPT ![c] = @ \cup {Head(batch[c])}]
  /\ UNCHANGED <<attempt, server, late>>

HandleEnds_DropsRest(c) ==
  /\ Handled(c)
  /\ Moves(c, "handle", Unless(c, "poll"))
  /\ batch' = [batch EXCEPT ![c] = <<>>]
  /\ offset' = [offset EXCEPT ![c] = batch[c][Len(batch[c])] + 1]
  /\ UNCHANGED begun
HandleEnds(c) ==
  /\ Handled(c)
  /\ LET rest == Tail(batch[c])
     IN  /\ Moves(c, "handle", IF rest = <<>> THEN Unless(c, "poll") ELSE "handle")
         /\ batch' = [batch EXCEPT ![c] = rest]
         /\ Begin(c, rest)
  /\ offset' = IF kind[c] = "telegram"
               THEN [offset EXCEPT ![c] = AfterUpdate(c, Head(batch[c]))]
               ELSE offset

Backoff(c) ==
  /\ Moves(c, "backoff", Unless(c, IF kind[c] = "lark_ws" THEN "serve" ELSE "poll"))
  /\ UNCHANGED <<attempt, offset, batch, server, history>>

(* Discord: no connection, or one that breaks, ends the task; _stopped is  *)
(* looked at between two messages.                                         *)
Connect(c) ==
  /\ \E to \in {"recv", "done", "raised"} :
       Moves(c, "connect", IF to = "recv" THEN Unless(c, to) ELSE to)
  /\ UNCHANGED <<attempt, offset, batch, server, history>>
Receive(c) ==
  /\ \E to \in {"recv", "raised"} :
       Moves(c, "recv", IF to = "recv" THEN Unless(c, to) ELSE to)
  /\ UNCHANGED <<attempt, offset, batch, server, history>>

(* Lark by webhook: the server comes up or the task raises; it is cleaned  *)
(* up at _stopped.                                                         *)
SetUp(c) ==
  /\ \E to \in {"serve", "raised"} : Moves(c, "setup", to)
  /\ UNCHANGED <<attempt, offset, batch, server, history>>
CleanUp(c) ==
  /\ kind[c] = "lark_hook" /\ stopped[c]
  /\ Moves(c, "serve", "done")
  /\ UNCHANGED <<attempt, offset, batch, server, history>>

(* Lark by WS: the client's thread returned or raised.                     *)
Disconnected(c) ==
  /\ kind[c] = "lark_ws"
  /\ Moves(c, "serve", IF attempt[c] = MaxAttempts THEN "done" ELSE Unless(c, "backoff"))
  /\ attempt' = [attempt EXCEPT ![c] = IF @ = MaxAttempts THEN @ ELSE @ + 1]
  /\ UNCHANGED <<offset, batch, server, history>>
-----------------------------------------------------------------------------
(* stop_all: one channel after the other.                                  *)

(* A task that is told to end, and its message unfinished.                 *)
Cancelled(c) ==
  /\ task' = [task EXCEPT ![c] = IF @ \in Running THEN "cancelled" ELSE @]
  /\ batch' = [batch EXCEPT ![c] = <<>>]
Undisturbed == UNCHANGED <<task, batch>>

(* The awaits of stop() by kind, each with the one after it: closing the   *)
(* client or the webhook server and saving (flush), waiting three seconds  *)
(* for the task (wait) or until the task it has cancelled is gone (join),  *)
(* what remains (finish).  After the last one stop_all goes on to the next *)
(* channel.                                                                *)
StopPath(c) ==
  CASE kind[c] = "telegram" -> [none |-> "flush", flush |-> "wait", wait |-> "none"]
    [] kind[c] \in Lark -> [none |-> "flush", flush |-> "wait", wait |-> "finish", finish |-> "none"]
    [] kind[c] \in {"signal", "discord"} -> [none |-> "join", join |-> "finish", finish |-> "none"]
    [] kind[c] = "hook" -> [none |-> "flush", flush |-> "none"]
    [] kind[c] = "echo" -> [none |-> "none"]
Proceed(c) == at' = StopPath(c)[at] /\ pos' = IF at' = "none" THEN pos + 1 ELSE pos
Leave == pos' = pos + 1 /\ at' = "none"

Shutdown ==
  /\ life = "up" /\ life' = "stopping"
  /\ UNCHANGED <<kind, boots, crashes, stopping, stopped, tasks, server, history>>

StopStep(c) ==
  /\ life = "stopping" /\ pos = c /\ c \in Channels
  /\ UNCHANGED <<kind, process, start, attempt, offset, server, ended, begun>>

BeginStop(c) ==
  /\ StopStep(c) /\ at = "none"
  /\ stopped' = [stopped EXCEPT ![c] = TRUE]
  /\ late' = [late EXCEPT ![c] = start[c] = "begin"]
  /\ Proceed(c)
  /\ IF kind[c] \in {"signal", "discord"} THEN Cancelled(c) ELSE Undisturbed
  /\ UNCHANGED cut

Flushed(c) ==
  /\ StopStep(c) /\ at \in {"flush", "join", "finish"}
  /\ Proceed(c) /\ Undisturbed
  /\ UNCHANGED <<cut, stopped, late>>

(* The wait for the task hands on what the task raised: stop() ends there, *)
(* the manager logs it.                                                    *)
Waited(c) ==
  /\ StopStep(c) /\ at = "wait" /\ task[c] \in Over
  /\ IF task[c] = "raised" THEN Leave ELSE Proceed(c)
  /\ Undisturbed
  /\ UNCHANGED <<cut, stopped, late>>

WaitedTooLong_LetsRun(c) ==
  /\ StopStep(c) /\ at = "wait" /\ task[c] \in Running
  /\ Proceed(c) /\ Undisturbed
  /\ UNCHANGED <<cut, stopped, late>>
WaitedTooLong(c) ==
  /\ StopStep(c) /\ at = "wait" /\ task[c] \in Running
  /\ Proceed(c) /\ Cancelled(c)
  /\ UNCHANGED <<cut, stopped, late>>

(* Ten seconds are over: stop_all is cancelled at the await it stands at.  *)
(* The waits for a task that is cancelled may swallow that (Telegram's     *)
(* where wait_for awaits the task itself, as from Python 3.12), and        *)
(* stop_all goes on.                                                       *)
Swallows(c) ==
  \/ at = "join"
  \/ at = "finish" /\ kind[c] \in Lark
  \/ at = "wait" /\ task[c] \in {"poll", "handle"}
DeadlineOver(c) ==
  /\ life = "stopping" /\ pos = c /\ c \in Channels /\ at # "none" /\ ~cut
  /\ cut' = TRUE
  /\ IF at = "wait" THEN Cancelled(c) ELSE Undisturbed
  /\ \/ life' = "closing" /\ at # "join" /\ UNCHANGED <<pos, at>>
     \/ life' = life /\ Swallows(c) /\ Proceed(c)
  /\ UNCHANGED <<kind, boots, crashes, stopped, start, attempt, offset, server, history>>

AllStopped ==
  /\ life = "stopping" /\ pos \notin Channels
  /\ life' = "closing"
  /\ UNCHANGED <<kind, boots, crashes, stopping, stopped, tasks, server, history>>

(* The agent loop and the providers are closed, each in its time; then the *)
(* process ends, or it crashes before.  What was in memory is gone.        *)
Gone ==
  /\ start' = [c \in Channels |-> "none"] /\ task' = [c \in Channels |-> "none"]
  /\ batch' = [c \in Channels |-> <<>>] /\ attempt' = [c \in Channels |-> 0]
  /\ offset' = [c \in Channels |-> 0] /\ stopped' = [c \in Channels |-> FALSE]
  /\ begun' = [c \in Channels |-> <<>>] /\ late' = [c \in Channels |-> FALSE]
  /\ pos' = 1 /\ at' = "none" /\ cut' = FALSE
  /\ UNCHANGED <<kind, boots, server, ended>>

Close == life = "closing" /\ life' = "ended" /\ Gone /\ UNCHANGED crashes
Crash ==
  /\ Alive /\ crashes < MaxCrashes
  /\ life' = "down" /\ crashes' = crashes + 1 /\ Gone

Boot ==
  /\ life \in {"ended", "down"} /\ boots < MaxBoots
  /\ life' = "up" /\ boots' = boots + 1
  /\ start' = [c \in Channels |-> "begin"]
  /\ UNCHANGED <<kind, crashes, stopping, stopped, task, attempt, offset, batch, server, history>>

Arrive(c) ==
  /\ c \in Polling /\ sent[c] < MaxUpdates
  /\ sent' = [sent EXCEPT ![c] = @ + 1]
  /\ UNCHANGED <<kind, process, stopping, stopped, tasks, forgot, history>>
-----------------------------------------------------------------------------
TaskStep(c) ==
  \/ Started(c) \/ StartFails(c) \/ StartReturns(c) \/ FirstStep(c)
  \/ Poll(c) \/ PollFails(c) \/ HandleEnds(c) \/ Backoff(c)
  \/ Connect(c) \/ SetUp(c) \/ CleanUp(c)

StopAll(c) ==
  BeginStop(c) \/ Flushed(c) \/ Waited(c) \/ WaitedTooLong(c) \/ DeadlineOver(c)

Idle == life \in {"ended", "down"} /\ boots = MaxBoots /\ UNCHANGED vars

Stopping == AllStopped \/ Close \/ \E c \in Channels : StopAll(c)

Next ==
  \/ \E c \in Channels : TaskStep(c) \/ Receive(c) \/ Disconnected(c) \/ Arrive(c)
  \/ Stopping \/ Shutdown \/ Crash \/ Boot \/ Idle

(* A poll of Telegram that goes through.                                   *)
Answered(c) == kind[c] = "telegram" /\ Poll(c)

Spec == Init /\ [][Next]_vars

FairSpec ==
  /\ Spec
  /\ \A c \in Channels : WF_vars(TaskStep(c)) /\ SF_vars(Answered(c))
  /\ WF_vars(Stopping)
-----------------------------------------------------------------------------
TypeOK ==
  /\ kind \in KindSets
  /\ life \in {"up", "stopping", "closing", "ended", "down"}
  /\ boots \in 1..MaxBoots /\ crashes \in 0..MaxCrashes
  /\ pos \in Nat /\ at \in {"none", "flush", "wait", "join", "finish"} /\ cut \in BOOLEAN
  /\ stopped \in [Channels -> BOOLEAN] /\ late \in [Channels -> BOOLEAN]
  /\ start \in [Channels -> {"none", "begin", "wait", "failed", "returned"}]
  /\ task \in [Channels -> Running \cup Over]
  /\ attempt \in [Channels -> 0..MaxAttempts]
  /\ offset \in [Channels -> 0..MaxUpdates + 1]
  /\ batch \in [Channels -> Seq(1..MaxUpdates)] /\ begun \in [Channels -> Seq(1..MaxUpdates)]
  /\ sent \in [Channels -> 0..MaxUpdates] /\ forgot \in [Channels -> 0..MaxUpdates]
  /\ ended \in [Channels -> SUBSET (1..MaxUpdates)]

(* An update that Telegram will not hand out again has been through its    *)
(* handler to the end: whatever is cancelled, crashes or fails to arrive,  *)
(* the offset is never ahead of the handlers.                              *)
NoUpdateLost ==
  \A c \in Channels : kind[c] = "telegram" => 1..forgot[c] \subseteq ended[c]

(* Within one process the messages of a server go through the handler one  *)
(* after the other, in their order, none twice.                            *)
OnceInOrder ==
  \A c \in Channels : \A i, j \in DOMAIN begun[c] : i < j => begun[c][i] < begun[c][j]

(* Once stop_all went through within its time, the task that the start()   *)
(* of a channel made is left running for none of them, whichever failed    *)
(* before or raised out of its stop().  (Handlers of the Lark SDK's events *)
(* are tasks of their own and no part of this.)                            *)
StoppedIsQuiet ==
  life = "closing" /\ ~cut => \A c \in Channels : late[c] \/ task[c] \in Over

(* While the process stays up, every update is handled some time, through  *)
(* failed polls and backoffs, unless the bot could not start.              *)
EveryUpdateEnds ==
  \A c \in Channels : kind[c] = "telegram" =>
    []<>(life # "up" \/ start[c] = "failed" \/ 1..sent[c] \subseteq ended[c])
=============================================================================
