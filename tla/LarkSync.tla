------------------------------ MODULE LarkSync ------------------------------
(***************************************************************************)
(* The stand-alone Lark script (start_lark_sync.py): processes started     *)
(* beside each other that a file lock keeps to one at a time, and inside   *)
(* a process the two threads of the script.  The SDK's dispatch thread     *)
(* runs _on_message: it takes a snapshot of the user's history under a     *)
(* lock and submits the handler to the worker thread's event loop.  There  *)
(* the handlers of several messages interleave at their awaits: token,     *)
(* reaction, model (under a semaphore), history, reply.                    *)
(*                                                                         *)
(* A message is one delivery: the script keeps no ids, so one that Lark    *)
(* delivers twice is two messages.  What the model said, or that the       *)
(* apology stands in for it, is not told apart: both are recorded and      *)
(* sent.  The location remembered of a user goes into the prompt under     *)
(* the same lock and is left out.                                          *)
(***************************************************************************)
EXTENDS Integers, FiniteSets, Sequences

CONSTANTS
  NumProcs,   (* processes, each run once, numbered as they are launched    *)
  Messages,
  Users,
  Senders,    (* the functions from messages to users to start from         *)
  Window,     (* HISTORY_WINDOW: entries kept of a user, 20                 *)
  MaxLLM,     (* model calls at a time: 4                                   *)
  MaxTries,   (* attempts of one model call: 3                              *)
  MaxLocks,   (* attempts at the file lock: 20                              *)
  None

Procs == 1..NumProcs

ASSUME LarkSyncAssumption ==
  /\ NumProcs \in Nat /\ IsFiniteSet(Messages)
  /\ Senders \subseteq [Messages -> Users] /\ Senders # {}
  /\ Window \in Nat \ {0} /\ Window % 2 = 0 /\ MaxLLM \in Nat \ {0}
  /\ MaxTries \in Nat \ {0} /\ MaxLocks \in Nat \ {0}
  /\ None \notin Messages \cup Procs

VARIABLES
  sender,   (* of each message                                              *)
  stage,    (* per process: off, locking, starting, up, closing (in the     *)
            (* atexit hook), leaving (past it), gone                        *)
  locks,    (* per process: attempts at the file lock that failed           *)
  holder,   (* the process that holds the file lock                         *)
  worker,   (* per process: none, loop (an event loop, not yet a client),   *)
            (* ready, closed (the client is), stopping, stopped (the loop   *)
            (* is)                                                          *)
  history,  (* per process and user: _histories, a sequence of <<m, role>>  *)
  writer,   (* per process: the message whose handler holds _history_lock   *)
  queue,    (* per process: the messages waiting for the semaphore          *)
  pc,       (* per message: where its handler stands                        *)
  home,     (* per message: the process it is in                            *)
  try,      (* per message: attempt of the model call                       *)
  snapshot, (* per message: history_snapshot, until the call is over        *)
  replied   (* history: per message, until the call is over, those of its   *)
            (* user whose reply its process had under way when it came      *)

process == <<stage, locks, holder, worker>>
memory == <<history, writer>>
request == <<snapshot, replied>>
delivery == <<sender, home>>
vars == <<process, memory, queue, pc, try, request, delivery>>

Over == {"done", "lost"}
InProgress(m) == pc[m] \notin Over \cup {"away"}
At(p) == {m \in Messages : home[m] = p}

Init ==
  /\ sender \in Senders
  /\ stage = [p \in Procs |-> "off"] /\ locks = [p \in Procs |-> 0]
  /\ holder = None /\ worker = [p \in Procs |-> "none"]
  /\ history = [p \in Procs |-> [u \in Users |-> <<>>]]
  /\ writer = [p \in Procs |-> None] /\ queue = [p \in Procs |-> <<>>]
  /\ pc = [m \in Messages |-> "away"] /\ home = [m \in Messages |-> None]
  /\ try = [m \in Messages |-> 0]
  /\ snapshot = [m \in Messages |-> <<>>]
  /\ replied = [m \in Messages |-> {}]
-----------------------------------------------------------------------------
(* What a handler was given is dropped once its model call is over.        *)
Drop(m) ==
  /\ try' = [try EXCEPT ![m] = 0] /\ snapshot' = [snapshot EXCEPT ![m] = <<>>]
  /\ replied' = [replied EXCEPT ![m] = {}]

(* The life of a process.  The file lock is the operating system's: it is  *)
(* taken or refused at once and goes with the process that holds it.       *)

Launch(p) ==
  /\ stage[p] = "off" /\ \A q \in 1..(p - 1) : stage[q] # "off"
  /\ stage' = [stage EXCEPT ![p] = "locking"]
  /\ UNCHANGED <<locks, holder, worker, memory, queue, pc, try, request, delivery>>

Acquire(p) ==
  /\ stage[p] = "locking" /\ holder = None
  /\ holder' = p /\ stage' = [stage EXCEPT ![p] = "starting"]
  /\ locks' = [locks EXCEPT ![p] = 0]
  /\ UNCHANGED <<worker, memory, queue, pc, try, request, delivery>>

Refused_GoesOn(p) ==
  /\ stage[p] = "locking" /\ holder # None
  /\ locks' = [locks EXCEPT ![p] = @ + 1]
  /\ stage' = [stage EXCEPT ![p] = IF locks'[p] = MaxLocks THEN "starting" ELSE @]
  /\ UNCHANGED <<holder, worker, memory, queue, pc, try, request, delivery>>

(* Refused: it sleeps and tries again, and exits once the tries are used.  *)
Refused(p) ==
  /\ stage[p] = "locking" /\ holder # None
  /\ locks' = [locks EXCEPT ![p] = @ + 1]
  /\ stage' = [stage EXCEPT ![p] = IF locks'[p] = MaxLocks THEN "gone" ELSE @]
  /\ UNCHANGED <<holder, worker, memory, queue, pc, try, request, delivery>>

(* The worker thread makes its loop, then the client and the semaphore and *)
(* runs; stopped, it lets the tasks go on until the client is closed too.  *)
Spawned(p) == stage[p] \in {"starting", "up", "closing", "leaving"}
Ahead == [none |-> "loop", loop |-> "ready", stopping |-> "stopped"]

WorkerStep(p) ==
  /\ Spawned(p) /\ worker[p] \in DOMAIN Ahead /\ writer[p] = None
  /\ worker' = [worker EXCEPT ![p] = Ahead[@]]
  /\ UNCHANGED <<stage, locks, holder, memory, queue, pc, try, request, delivery>>

(* The main thread waits five seconds for the worker and then goes on      *)
(* without it; either way it connects.                                     *)
Connect(p) ==
  /\ stage[p] = "starting" /\ stage' = [stage EXCEPT ![p] = "up"]
  /\ UNCHANGED <<locks, holder, worker, memory, queue, pc, try, request, delivery>>

(* client.start() returns, raises or is interrupted: the atexit hook runs. *)
(* Without a client it has nothing to close.                               *)
Interrupt(p) ==
  /\ stage[p] = "up"
  /\ stage' = [stage EXCEPT ![p] = IF worker[p] = "ready" THEN "closing"
                                                          ELSE "leaving"]
  /\ UNCHANGED <<locks, holder, worker, memory, queue, pc, try, request, delivery>>

(* aclose() on the worker's loop, waited for five seconds.                 *)
CloseClient(p) ==
  /\ stage[p] = "closing" /\ worker[p] = "ready" /\ writer[p] = None
  /\ worker' = [worker EXCEPT ![p] = "closed"]
  /\ UNCHANGED <<stage, locks, holder, memory, queue, pc, try, request, delivery>>

StopLoop(p) ==
  /\ stage[p] = "closing" /\ writer[p] = None
  /\ stage' = [stage EXCEPT ![p] = "leaving"]
  /\ worker' = [worker EXCEPT ![p] = "stopping"]
  /\ UNCHANGED <<locks, holder, memory, queue, pc, try, request, delivery>>

(* The process ends, at the end of the exit or by a crash before: its      *)
(* threads, its tasks and its memory go with it, and the lock.             *)
End(p) ==
  LET lost == {m \in At(p) : InProgress(m)}
  IN  /\ stage' = [stage EXCEPT ![p] = "gone"]
      /\ holder' = IF holder = p THEN None ELSE holder
      /\ locks' = [locks EXCEPT ![p] = 0]
      /\ worker' = [worker EXCEPT ![p] = "none"]
      /\ history' = [history EXCEPT ![p] = [u \in Users |-> <<>>]]
      /\ writer' = [writer EXCEPT ![p] = None]
      /\ queue' = [queue EXCEPT ![p] = <<>>]
      /\ pc' = [m \in Messages |-> IF m \in lost THEN "lost" ELSE pc[m]]
      /\ home' = [m \in Messages |-> IF m \in At(p) THEN None ELSE home[m]]
      /\ try' = [m \in Messages |-> IF m \in lost THEN 0 ELSE try[m]]
      /\ snapshot' = [m \in Messages |-> IF m \in lost THEN <<>> ELSE snapshot[m]]
      /\ replied' = [m \in Messages |-> IF m \in lost THEN {} ELSE replied[m]]
      /\ UNCHANGED sender

Exit(p) == stage[p] = "leaving" /\ End(p)
Crash(p) == stage[p] \in {"locking", "starting", "up", "closing"} /\ End(p)
-----------------------------------------------------------------------------
(* _on_message, on the dispatch thread, which the SDK may keep running     *)
(* through the exit: the snapshot under the lock.  With a stopped loop the *)
(* handler never runs.  Without one it is run at once, on this thread, and *)
(* gives up unless the worker has made the client meanwhile; then it goes  *)
(* like the others (that this keeps the thread from the next message is    *)
(* left out).                                                              *)

Receives_Unlocked(p) == stage[p] \in {"up", "closing", "leaving"}
Receives(p) == stage[p] \in {"up", "closing", "leaving"} /\ writer[p] = None

Submitted(p) == worker[p] # "stopped"
Dropped(p) == worker[p] \in {"none", "stopped"}

(* Those of m's user whose handler, in this process, has come to the reply *)
(* or past it.  What another process replied is in no memory: history is   *)
(* lost with the process.                                                  *)
Answered(m, p) == {x \in At(p) : sender[x] = sender[m] /\ pc[x] \in {"reply", "done"}}

OnMessage(m, p) ==
  /\ pc[m] = "away" /\ Receives(p)
  /\ home' = [home EXCEPT ![m] = p]
  /\ \/ /\ Submitted(p) /\ pc' = [pc EXCEPT ![m] = "token"]
        /\ snapshot' = [snapshot EXCEPT ![m] = history[p][sender[m]]]
        /\ replied' = [replied EXCEPT ![m] = Answered(m, p)]
     \/ /\ Dropped(p) /\ pc' = [pc EXCEPT ![m] = "lost"]
        /\ UNCHANGED request
  /\ UNCHANGED <<sender, process, history, writer, queue, try>>
-----------------------------------------------------------------------------
(* _handle_message_async, on the worker's loop: one handler at a time runs *)
(* there, from await to await.  A request to a closed client fails.  The   *)
(* turn is in the history before its answer is on its way.                 *)

After_ReplyFirst == [llm |-> "reply", reply |-> "write", half |-> "done"]
After == [llm |-> "write", half |-> "reply", reply |-> "done"]

Runs(m, from) ==
  /\ pc[m] = from
  /\ worker[home[m]] \in {"ready", "closed", "stopping"}
  /\ writer[home[m]] = None

Goes(m, to) == pc' = [pc EXCEPT ![m] = to]

Open(m) == worker[home[m]] = "ready"

(* The tenant token, then the reaction: a token that cannot be had ends    *)
(* the handler, a reaction that fails is not fatal.                        *)
Prepare(m) ==
  /\ Runs(m, "token")
  /\ \/ /\ Open(m) /\ Goes(m, "wait")
        /\ queue' = [queue EXCEPT ![home[m]] = Append(@, m)]
        /\ UNCHANGED <<try, request>>
     \/ Goes(m, "lost") /\ Drop(m) /\ UNCHANGED queue
  /\ UNCHANGED <<process, memory, delivery>>

Calling(p) == {m \in At(p) : pc[m] = "llm"}
Slots_Leaked(p) ==
  Cardinality({m \in At(p) : pc[m] \notin {"token", "wait", "lost"}}) < MaxLLM
Slots(p) == Cardinality(Calling(p)) < MaxLLM

(* The semaphore wakes its waiters in order.                               *)
Enter(m) ==
  /\ Runs(m, "wait") /\ queue[home[m]] # <<>> /\ Head(queue[home[m]]) = m
  /\ Slots(home[m])
  /\ queue' = [queue EXCEPT ![home[m]] = Tail(@)]
  /\ Goes(m, "llm") /\ try' = [try EXCEPT ![m] = 1]
  /\ UNCHANGED <<process, memory, request, delivery>>

(* An attempt of the model call answers, or fails (a status, a timeout, a  *)
(* closed client); after the last the apology takes the answer's place.    *)
(* Leaving the call frees the semaphore.                                   *)
Replied(m) ==
  /\ Runs(m, "llm") /\ (Open(m) \/ try[m] = MaxTries)
  /\ Goes(m, After.llm) /\ Drop(m)
  /\ UNCHANGED <<process, memory, queue, delivery>>

TryAgain(m) ==
  /\ Runs(m, "llm") /\ try[m] < MaxTries
  /\ try' = [try EXCEPT ![m] = @ + 1]
  /\ UNCHANGED <<process, memory, queue, pc, request, delivery>>

(* deque(maxlen=HISTORY_WINDOW) drops the oldest.                          *)
Kept(s) == IF Len(s) > Window THEN Tail(s) ELSE s

Recorded(m, role) ==
  [history EXCEPT ![home[m]][sender[m]] = Kept(Append(@, <<m, role>>))]

(* The two appends under the lock; the dispatch thread may come between.   *)
WriteUser(m) ==
  /\ Runs(m, "write") /\ Goes(m, "half")
  /\ writer' = [writer EXCEPT ![home[m]] = m]
  /\ history' = Recorded(m, "user")
  /\ UNCHANGED <<process, queue, try, request, delivery>>

WriteAssistant(m) ==
  /\ pc[m] = "half" /\ Goes(m, After.half)
  /\ writer' = [writer EXCEPT ![home[m]] = None]
  /\ history' = Recorded(m, "assistant")
  /\ UNCHANGED <<process, queue, try, request, delivery>>

(* The reply is sent; a failure is logged.                                 *)
Reply(m) ==
  /\ Runs(m, "reply") /\ Goes(m, After.reply)
  /\ UNCHANGED <<process, memory, queue, try, request, delivery>>
-----------------------------------------------------------------------------
Main(p) == Connect(p) \/ CloseClient(p) \/ StopLoop(p) \/ Exit(p)

Life(p) ==
  \/ Launch(p) \/ Acquire(p) \/ Refused(p) \/ WorkerStep(p)
  \/ Interrupt(p) \/ Main(p) \/ Crash(p)

Handler(m) ==
  \/ Prepare(m) \/ Enter(m) \/ Replied(m) \/ TryAgain(m)
  \/ WriteUser(m) \/ WriteAssistant(m) \/ Reply(m)

Next ==
  \/ \E p \in Procs : Life(p)
  \/ \E m \in Messages, p \in Procs : OnMessage(m, p)
  \/ \E m \in Messages : Handler(m)

Spec == Init /\ [][Next]_vars

(* Threads run and every request has a timeout: while something can go on, *)
(* something does.  Nothing makes a process start, stop or crash, or a     *)
(* message come.                                                           *)
Threads ==
  \/ \E p \in Procs : WorkerStep(p) \/ Main(p)
  \/ \E m \in Messages : Handler(m)

FairSpec == Spec /\ WF_vars(Threads)
-----------------------------------------------------------------------------
TypeOK ==
  /\ sender \in [Messages -> Users]
  /\ stage \in [Procs -> {"off", "locking", "starting", "up", "closing",
                          "leaving", "gone"}]
  /\ locks \in [Procs -> 0..MaxLocks] /\ holder \in Procs \cup {None}
  /\ worker \in [Procs -> {"none", "loop", "ready", "closed", "stopping",
                           "stopped"}]
  /\ history \in [Procs -> [Users -> Seq(Messages \X {"user", "assistant"})]]
  /\ writer \in [Procs -> Messages \cup {None}]
  /\ queue \in [Procs -> Seq(Messages)]
  /\ pc \in [Messages -> {"away", "token", "wait", "llm", "write", "half",
                          "reply"} \cup Over]
  /\ home \in [Messages -> Procs \cup {None}]
  /\ try \in [Messages -> 0..MaxTries]
  /\ snapshot \in [Messages -> Seq(Messages \X {"user", "assistant"})]
  /\ replied \in [Messages -> SUBSET Messages]

(* However launches, exits and crashes meet, one process at a time is      *)
(* connected to Lark, and it is the one that works on messages: with two,  *)
(* Lark would split a user's messages between two memories.                *)
Connected(p) == stage[p] \in {"up", "closing", "leaving"}

OneInstance ==
  /\ \A p, q \in Procs : Connected(p) /\ Connected(q) => p = q
  /\ \A m \in Messages : InProgress(m) => Connected(home[m])

(* The model is never asked more than MaxLLM things at a time, by all      *)
(* processes and through every retry.                                      *)
CallsBound == Cardinality({m \in Messages : pc[m] = "llm"}) <= MaxLLM

(* What a message is answered with: a user's turns, each a question of     *)
(* that user followed by its own answer, never half a turn, also when the  *)
(* oldest entries have been dropped or another handler is writing.         *)
WholeTurns(s, by, u) ==
  /\ Len(s) % 2 = 0
  /\ \A i \in 1..Len(s) :
       /\ by[s[i][1]] = u
       /\ s[i][2] = IF i % 2 = 1 THEN "user" ELSE "assistant"
       /\ i % 2 = 1 => s[i + 1][1] = s[i][1]

WholeContext == \A m \in Messages : WholeTurns(snapshot[m], sender, sender[m])

(* A user who has the answer to a question may refer to it: a message that *)
(* comes after a reply of the same process was sent sees that turn, or a   *)
(* window full of others.  A process that takes over remembers nothing of  *)
(* what the one before it replied.                                         *)
SeesReplied ==
  \A m \in Messages : \A x \in replied[m] :
    Len(snapshot[m]) = Window \/ \E i \in DOMAIN snapshot[m] : snapshot[m][i][1] = x

(* Messages that were taken in are answered or given up, all of them, or   *)
(* their process is gone: neither the semaphore, nor the lock, nor the     *)
(* exit keeps one for ever.                                                *)
EveryMessageEnds == []<>(\A m \in Messages : ~InProgress(m))
=============================================================================
