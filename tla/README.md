# OpenClaw in TLA+

Specifications of OpenClaw (the Python package under `src/openclaw/`), the TLC
configurations that check them on small instances, and TLAPS proofs of their
main theorems. Paths below are relative to `src/openclaw/` unless they start
with `src/`, `tests/` or `docs/`.

- [1. The system](#1-the-system)
- [2. Modules](#2-modules)
- [3. Runs](#3-runs)
- [4. Fairness](#4-fairness)
- [5. Proofs](#5-proofs)
- [6. Where the code and its text disagree](#6-where-the-code-and-its-text-disagree)
- [7. What is not modelled](#7-what-is-not-modelled)
- [8. Plan](#8-plan)
- [9. Running the checks](#9-running-the-checks)

## 1. The system

OpenClaw is an LLM agent gateway. A message comes in through a *channel* (Lark,
Telegram, Discord, Slack, ...) or the HTTP *gateway*; `ChannelBase.dispatch`
lets the auto-reply policy decide, and the agent loop answers: it reads the
scoped memory, calls a model through a *provider* (directly or through the
provider router), runs *tools*, and stores the turn. The multi-agent mode
replaces the single loop by planner, executor, reflector and critic. Almost
everything runs on one asyncio event loop; worker threads do file and SQLite
work; nothing but files, SQLite tables and Redis survives the process. Beside
the package, `src/start_lark_sync.py` is a stand-alone Lark bot with two threads.

| Component | State it keeps | Operations | What makes it hard | What makes it correct |
|---|---|---|---|---|
| Plan executor `agent/executor.py`, `agent/planner.py` | per step: result; semaphore; results list; step cache of the caller | `validate`, `topological_layers`, `run` | tasks of a layer interleave, retries give the slot back, a critical failure short-circuits | dependencies first, layers as barriers, parallelism bound, every step reported once, the run ends |
| Multi-agent roles `agent/multi_agent.py` | plan, results, reflection count, cache of done steps | `run`, `_patch_plan`, `_compose_final` | the plan is rewritten and executed again after side effects | a tool call that succeeded is not made again; a patched plan stays executable |
| Lark channel, inbound `channels/lark.py`, `channels/base.py` | dedup ids, last message id per session, LRU pool of chat locks | `_handle_event`, reactions, cards, `dispatch`, `send` | redelivery, suspension at every await, eviction of locks in use | one handler per chat, in order; no message twice; replies in their session |
| Lark channel, dedup file `channels/lark.py` | ids with time, order, JSON file | `_is_duplicate`, save in threads, load | overlapping writers through one temporary file; crash; expiry against capacity | remembers long enough, never invents, bounded |
| Rate limiter `core/rate_limit.py` | buckets, SQLite rows | `allow`, `try_consume`, `retry_after`, `reset` | eviction at the limit, restart, wall clock set back, a question that changes state | burst plus refill is never exceeded; a promise to a waiting caller holds |
| Redis rate limiter `core/rate_limit.py`, middleware in `gateway/app.py` | a hash per key, in Redis; a replica's own bucket | the same in a Lua script, with a fallback | clocks of several processes, calls that overtake each other or get lost | the same, across processes |
| Provider router `providers/router.py` | breaker per provider, round-robin index | `acomplete`, `acomplete_with_retry` | overlapping calls report late; three nested retry loops | cooldown respected, work bounded, calls end |
| OpenAI-compatible provider `providers/openai_compat.py` | HTTP clients per loop | `acomplete`, `astream` | retries within a time budget | bounded posts |
| Agent loop `agent/loop.py` | LRU table of agents, a turn's messages | `aget_agent`, `handle`, `Agent.run`, `trim_history` | timeout while a thread writes the turn; two turns of one session | a turn is stored once, whole; the model is shown what its user was told |
| Memory `memory/*.py` | turns per scope with a backup file; vector collection | `append`, `recent`, `clear`, `add`, eviction | threads; unlink outside the lock; limit and eviction count different sets | a turn told to a client is in the next history; bounded |
| Gateway chat and sessions `gateway/routes/*.py`, `gateway/message_store.py` | message store per session, event queue per stream | `chat`, `chat_stream`, delete session | bounded queue between producer and a generator that may be closed; deletion during a turn | both ends of a stream stop; a client is told what happened |
| Event bus `bus/*.py` | handlers; Redis stream, group, pending list | `publish`, `subscribe`, reclaim | consumer dies between delivery and acknowledgement; slow ones are claimed from | an unfinished entry stays pending; an entry is in the hands of one worker, and not handled again once done |
| Auto-reply policy `core/auto_reply.py` | two limiters, rules | `decide` | the order of the decisions, one limiter charged before the other refuses | a refused message costs nothing |
| Other channels `channels/*.py` | offsets, tasks, connections | poll loops, `start`, `stop` | crash between handling and confirmation, no reconnect | no update lost; stop ends |
| Channel manager, lifespan `channels/base.py`, `gateway/app.py` | registered channels | `start_all`, `stop_all` | partial failure of start, timeout of stop | what started is stopped |
| Lark script `src/start_lark_sync.py` | file lock; history per user; worker thread's loop, client, semaphore | `_on_message`, `_handle_message_async`, start and exit | two threads share the history, handlers interleave, a second launch during the exit | one process connected; a message sees whole turns, up to the last reply of its process |
| Tools `tools/*.py` | registry; cron jobs | `call`, `approve` | a job that fires before its id is known | nothing unapproved runs |
| Journal `agent/journal.py` | Markdown files by day and session | `record_session`, `reflect` | a later turn rewrites the file of an earlier one | no reflection lost |
| Plugins, skills, configuration, sanitizing, audit, auth, metrics, CLI | none shared | | | |

How they interact: channels call `dispatch`, which calls the auto-reply policy,
the agent handler and then `send` of the same channel; the agent loop calls
memory, provider and tools; the gateway reads and writes the message store and
short-term memory around the same agent loop; multi-agent roles call the
executor with a callback that runs a tool or an agent. Shared state is always
an attribute of one of these objects, changed between two awaits of the event
loop or under a lock in a thread. Replicas of the gateway share only Redis (bus,
limiter); the Lark script shares nothing with the package.

## 2. Modules

A variable that is not state of the code is marked `history` at its
declaration; properties read it, guards do not.

### PlanExecutor, PlanContract, MultiAgent

`PlanExecutor` is one call of `PlanExecutor.run`. `pc` is the place in `run`:
`Reject`/`Accept` are `validate()`, `BeginLayer`/`SkipLayer`/`EndLayer`/`Return`
the loop over the layers. A layer's tasks are created by `asyncio.gather` in
some order and all take their first step before any suspended task resumes:
`order` and `started` hold that. `Arrive` is `async with semaphore`,
`LaunchSync` a callback that does not suspend, `Launch` and `Complete` one that
does, `Park` the FIFO queue of the semaphore and `Handed` the hand-off of a
released slot to the first waiter; `AfterAttempt` decides between result and
retry, whose backoff sleeps *without* the slot. `max_retries` comes unchecked
from the model's JSON, so it may be negative. Duplicate step ids, which
`topological_layers` reports as a cycle, are not represented. The order in
which a layer lists its steps is arbitrary here.

`PlanContract` is what a caller may rely on: outcomes of steps, each set once,
a step only after its dependencies and never after a critical failure in an
earlier layer, and a verdict once every step has an outcome. `PlanExecutor`
implements it under `Outcome`/`Verdict`.

`MultiAgent` EXTENDS the executor with the reflection loop: `Execute` runs the
plan, `BeginReflection` finds the first failed critical step, `PatchPlan`
replaces it by a retry with a fresh id and rewires its dependents, `RestartRun`
runs the new plan with the cache of the steps that were done, `Compose`,
`Criticise` and `WriteMemory` end the run, `LLMFails` is a planner, reflector or
critic call that raises. Retired ids stand for fresh uuids when they are reused. A tool may
return `None` (`silent`); the answer is the output of the last step that is DONE and
has one (`agent/executor.py:51`).

### LarkChannel, LarkDedup

`LarkChannel` runs one task per delivered event. `Arrive` is `_handle_event` up
to the save of the dedup state, `Refuse`/`Download` the sender policy and the
media download, `Request` the lookup in the lock pool (`GetChatLock`, with the
LRU eviction and its preference for unlocked victims), the overwrite of
`_last_msg_id` and the acquisition; `Wake` is the resumption of a waiter. As in
CPython's `asyncio.Lock`, a released lock with a waiter stays unlocked until the
waiter runs, so the pool may take it for idle. `evicted` is history: the locks that
left the pool, in use or not. `Dispatch`, `AgentReturns`, `Send`, `Posted`,
`Release` are the rest of the handler. Reactions and card actions take no lock
and skip dedup and policy (`callback`). The bot id is assumed known, as
`start()` fetches it.

`LarkDedup` opens up the dedup state that `LarkChannel` keeps as a set: `Admit`
is `_is_duplicate` (expiry, capacity, snapshot), `Open`, `Write`, `Rename` the
three file operations of a saving thread, which all use the same temporary path,
so inodes are modelled; `Stop` is a crash, `Restart` loads the file. Dropped
duplicates are stuttering steps. The file survives a crash of the process as
the operating system has it; its clock is monotonic.

### RateLimiter, RedisLimiter

`RateLimiter` has one action per public call (`Take` for `allow`/`try_consume`, `Ask` for
`retry_after`, `Reset`), since each holds the lock throughout. Tokens are
integers in units that make `Rate` per tick whole. `Opened` is the lookup that
may evict the oldest tenth, with ties broken arbitrarily; `Restart` loads the
rows and may lower `max_keys`; `SetBack` sets the wall clock back, `Tick` lets
it run. `life` is history: when the current bucket of a key began and what it
was admitted; a key's life ends with eviction or reset. `told` is the time for
which `try_consume` last sent the watched key's caller away, and `kept` whether
that caller was ever refused for want of tokens from then on.

`RedisLimiter` is the bucket of one client under the middleware of several
replicas. `Call` reads the replica's clock and sends the script, `Run` is the
script at Redis (atomic, but counting in the caller's time, which it stores even
if it is older than what is there), `Answered` the reply with its `Retry-After`.
Calls can overtake each other within `MaxDelay`; one that fails before or after
it took effect is sent again by redis-py (`Resend`) or given up (`GiveUp`), and
then the replica's own bucket decides, or the refusal. A call that was given up
may still run. `Tick` also expires the hash. Every refusal carries a `Retry-After`;
`told` is the one Redis gave, `ownTold` those of the replicas' own buckets (both
history). The fixed wait of a refusal without either (`core/rate_limit.py:376-381`)
is nobody's promise: no bucket was asked. `back` is history: by how much late
calls have set the stored time back; the bound speaks of it because the code
refills that time again.

### RedisBus

A consumer is one call of `subscribe` under its fresh uuid; the group's state is
Redis's. Each call to Redis is a step that may fail before it took effect
(`ReclaimFails`, `ReadNothing`, `AckFails`), or, where that matters, after it
(`ReadLost`: entries delivered in a reply that never came). `Reclaim` moves the
first stale entries to the caller and does nothing else with them, as
`_reclaim_stale` does. `Handle`, `HandlerReturns`, `HandlerRaises` and `Ack` go
through the batch entry by entry, `Die` is the end of the worker at any point.
`Age` makes a pending entry claimable, whether its consumer is dead, slow, or
failed on it.

### Channels

Channel by channel, `start` is where `start()` stands and `task` the task it
made: poll loops (Telegram, Signal), connections (Discord, Lark WS), the Lark
webhook server, nothing (the other webhook channels). Telegram's server keeps an
update until a later offset confirms it (`forgot`), Signal's hands an envelope
out once. `stop_all` walks the channels in order (`pos`); `StopPath` is the list
of awaits of each kind's `stop()`, and `WaitedTooLong` their timeout. The
lifespan gives all of it ten seconds: `DeadlineOver` may come at any await, and
what it cuts off depends on whether that await swallows the cancellation
(`Swallows`). `Close` ends the process after agent and providers, `Crash` at any
time, `Boot` starts the next one. A handler is followed from its begin to its
end only.

### LarkSync

`src/start_lark_sync.py`: processes that are launched one after the other and
try the file lock (`Acquire`, `Refused`), the worker thread (`WorkerStep`), the
dispatch thread (`OnMessage`), the handlers on the worker's loop from await to
await (`Prepare`, `Enter`, `Replied`, `TryAgain`, `WriteUser`, `WriteAssistant`,
`Reply`), the exit (`Interrupt`, `CloseClient`, `StopLoop`, `Exit`) and a crash.
Writing a turn is two steps under `_history_lock`, because the other thread may
run in between; while the worker holds the lock its loop does nothing else. The
semaphore is FIFO. The remembered location of a user is left out: one thread
keeps and reads it, under the same lock. A message that comes before the worker has a
loop is handled by `asyncio.run` on the dispatch thread: it comes to nothing
(`Dropped`) unless the worker makes the client meanwhile, and then is followed like
any other (`Submitted`), so the loop it runs on is not told apart.

### ProviderRouter

Each request is a task. `Call` computes the order and looks for the first
provider whose breaker is not open (`GoOn`, which also turns a cooled breaker
half open); posts are `Answer`ed, fail for now (`Transient`, `Repost` after a
backoff), or make the provider call raise (`Retry`, `Again` for
`acomplete_with_retry`; `GiveUp` records the failure). The plain call pauses
before the next provider, the retrying one does not. `Cancel` is the caller's
timeout: no outcome is recorded, a half-open breaker stays half open. `Rank`
stands for cost or priority; latency and error statistics are not kept.

### ChatTurn, TurnContract

A turn from `POST /v1/chat` or `/v1/chat/stream` to its reply. `pc` is the place
of the task that produces it. `Begin` is everything up to the first await that
suspends: the user's message is stored (the store's lock is never contended,
since nothing under it awaits), the opening events are put, the agent is
called. `Read`, `UseTools`, `Conclude`, `Stored`, `Return` are `Agent.run`:
history read by a thread, iterations, the append by a thread, the journal.
`trim_history` runs before each call of the model: before the first it collapses the
middle of more than `SoftWindow` turns into a note and then drops the oldest while
there are too many characters (`Trims`); on later calls, with the outputs of tools
among the messages, it may take out any of what is left (`shown`).
`StoreRaises` is an `append` that commits and then raises: its backup reads the turns
again outside the `try` (`memory/short_term.py:116-119`, 163).
`AgentFails` is an exception `handle()` turns into a reply, that one included, `GiveUp` one it
passes on, the timeout included; a thread that was appending goes on
(`orphans`, `LateStored`). `Reply` puts the tool calls, then stores the
assistant's message and puts the rest; a put into a full queue waits (`storing`,
`ending`, `Put`). `Get`, `Sent` and `Disconnect` are the generator of the
response: asyncio cancels a pending `get` together with the producer, as often
as needed, while a generator left in `yield` is closed later and cancels the
producer once, so only there may the last put wait for good (`Stuck`).
`ClearSessions` and `DeleteMessages` are the three DELETE routes, each one step
because nothing in them suspends; `clear` may delete the rows of a session and then
raise, which leaves its messages (`ClearSessions(S, M)`).

A turn's two rows and the window are counted in turns. The agents' LRU table is
left out, because an agent keeps nothing between turns; so are the JSON
copies of the memory, which nothing reads, and the reply counts. An iteration
calls one tool.

`TurnContract` is what the gateway promises: a turn is remembered once; it
counts as answered only when it has been; the excuse that the iterations are used up
leaves no trace; an error the client is told of in place of an answer (`Fail`) may
come after the turn was remembered, but the turn is not remembered later; a refused
turn (timeout, error, client gone) may be remembered before or after the refusal. `ChatTurn` implements it under
`Memory`.

## 3. Runs

Each property has a mutant of the code's model that breaks it under the same
configuration.

| Run | Shows | Bounds, and why they are enough |
|---|---|---|
| `plan_executor` | `NoIdleSlot`, `DependenciesFirst`, `Termination`, `ImplementsContract` | two or three steps, every dependency relation (cyclic ones too), every critical set, arbitrary cache, `max_retries` -1/0/1, two slots: a layer wider than the semaphore, a retry that queues behind a waiter, two layers and three |
| `multi_agent` | `DoneNotRepeated`, `ReportedOnce`, `AnswerFromDeepest`, `PatchKeepsValid`, `AgentTermination` | chains, forks, joins and independent triples; two reflections, so a patched step is patched again; a spare id, and reuse of retired ones; tools with and without an output; four slots (the semaphore is the previous run's subject), no retries inside the executor |
| `lark_channel` | `OneInChat`, `RequestOrder`, `HandledOnce`, `ReplyStaysInSession`, `EveryEventEnds` | any four of seven deliveries: a text, its redelivery, a slow media message of the same user, a text of another user, a callback, all in one chat, and a text and a message without text in a second one; a pool of one lock, so that the second chat evicts the first one's, free, held or waited for, and has its own evicted. The state constraint cuts deliveries only, and no fairness asks for those: what is left are the behaviours in which no more are made |
| `lark_dedup` | `NoFalseDuplicate`, `NoEarlyRepeat` | three ids for capacity two, three saves of which any number overlap, a TTL of two ticks within three, one crash at any point, a legacy entry |
| `rate_limiter` | `AdmittedBound`, `RoomKept`, `KeptPromise` | three keys for one or two places; refill and cost that do not divide each other; two restarts, with another limit or the same, the clock set back once: tables loaded over their limit, rows of callers that got no bucket |
| `redis_limiter` | `SharedBound`, `OwnBound`, `KeptPromise` | two replicas with equal clocks or a second apart, a delay of up to a second, a request that takes the whole burst: calls overtake each other and get lost before and after the script. Four seconds are the TTL and twice the time to fill, so the hash expires; with three failures a replica's own bucket admits, refuses and is asked again when it said |
| `provider_router` | `PostsBound`, `Cooled`, `EveryCallEnds` | three requests, one with retries, over two providers with breakers that open at the first failure and cool in one tick of two: late failures and late successes of overlapping calls, reopened breakers, cancellation |
| `chat_turn` | `SeesAnswered`, `StreamTrue`, `ImplementsContract`, `EveryTurnEnds` | a stream and a plain request of one session with three turns of earlier days; a queue of three for stories of up to nine events, so it fills up everywhere; a window of three turns, full from the start, of which `trim_history` keeps the oldest and the newest; room for two messages, one deletion: concurrent and consecutive turns, a question evicted before its answer |
| `redis_bus` | `Accounted`, `HandledOnce`, `EveryEntryReaches` | a worker that stays and one that may die anywhere, three entries in batches of two: a full and a partial batch, a claim from a dead, a slow and a failed consumer |
| `channels` | `NoUpdateLost`, `OnceInOrder`, `StoppedIsQuiet`, `EveryUpdateEnds` | four pairs of kinds, in an order in which the first can hold up or fail the stop of the second; two messages per server, two processes, one crash |
| `lark_sync` | `OneInstance`, `WholeContext`, `SeesReplied`, `EveryMessageEnds` | two launches with two tries at the lock; three messages of one user, or two and one; a window of one turn, so that it overflows; one model call at a time with two attempts. Deadlock is not checked: a script that nobody starts again has stopped |
| `bus_redelivery` | a statement of the repository's text that the code does not keep, with a behaviour that shows it | see section 6 |

What the properties say, where the name does not:

- `NoIdleSlot`: a task waits for the semaphore only while every slot is taken,
  and the queue holds the waiting tasks once each; this is what goes wrong when
  a retry re-enters or a hand-off is lost.
- `AnswerFromDeepest`: the answer comes from a step that nothing else done
  depends on, of those that have an output, although cached results are listed before
  new ones.
- `DoneNotRepeated` is the reason for the step cache: across reflections, a
  DONE step stays so and its callback is not called again.
- `RequestOrder`: handlers of a chat enter their block in the order they *asked*
  for the lock. Arrival order, of which the comment at `channels/lark.py:1252`
  speaks, is not kept: two awaits (the save, the download) lie between. Both this and
  `OneInChat` say what remains when the pool evicts: a second handler, or one that
  overtakes, has another lock than the first, which was evicted while in use.
- `HandledOnce` includes two deliveries in flight; it rests on `_is_duplicate`
  recording the id before its first await.
- `NoEarlyRepeat`: an id admitted again within its TTL has been pushed out by
  capacity or lost in a crash. `NoFalseDuplicate`: whatever file is
  loaded, an id counts as seen only if it was recorded then.
- `AdmittedBound`: what a life was admitted plus what its bucket still holds is
  at most the burst plus the refill since it began; the clock counts only as far
  as the bucket has seen it, so setting it back earns nothing.
- `KeptPromise`: a caller that was refused and waits as long as `try_consume`
  said finds the tokens there, whatever else is asked, evicted, reset or
  restarted meanwhile. The promise is void once the clock is set back, and only
  want of room in a table loaded over its limit can refuse the caller again. It
  is about the answer of a request (what the gateway uses, `gateway/app.py:95`):
  that of `retry_after` alone does not hold (section 6).
- `Cooled`: once a failure has left a breaker open, no request turns to that
  provider until the cooldown is over or an in-flight call has succeeded.
- `PostsBound`: each post of a request is later in the lexicographic order of
  provider, attempt and post, which is bounded by their product.
- `Accounted`: an entry that was delivered is off the pending list only when its
  handler has returned. `HandledOnce` of the bus: an entry in the hands of a handler is in
  those of no other worker and has not been through one that returned, whatever was
  claimed from a slow worker and whichever acknowledgement was lost; one whose handler
  raised may come back. `EveryEntryReaches` exempts entries whose reply was lost
  or whose consumer died first: those nobody gets again (section 6).
- `SharedBound`: what Redis granted plus what its bucket holds is at most the
  burst plus the refill of the time counted, the time set back included.
  `KeptPromise` of `RedisLimiter`: a promise is kept by the bucket that made it.
  Who was refused by Redis and comes back after `Retry-After` to a replica that
  reaches Redis and whose clock is not behind, with no other call of that client in
  between, is admitted; who was refused by a replica's own bucket, comes back when told
  and finds that replica without Redis again, is admitted there. Across the two it
  does not hold (section 6).
- `NoUpdateLost`: Telegram is never told to forget an update whose handler has
  not ended. `StoppedIsQuiet`: a `stop_all` that was not cut off leaves
  running no task that `start()` made, except where `start()` was still under way. It
  says nothing of the handlers the Lark SDK's callbacks schedule on the loop
  (`channels/lark.py:780`) nor of the SDK's own thread (836), which may outlive it.
- `OneInstance`: one process is connected, and messages are in progress only
  there. `SeesReplied`: a message that came after a reply of the same process was on
  its way has that turn in its context, or a window full of others; a process that
  takes over starts with an empty history (`src/start_lark_sync.py:106-112`).
- `SeesAnswered`: a client that was told an answer and asks again gets a model
  whose first prompt has the earlier turn, unless it was deleted, the window is full of
  later ones, or `trim_history` took it out for the sake of later ones.
- `StreamTrue`: what a stream delivers is always the start of a whole story;
  "done" is sent only for a reply that was stored, "error" only for one that was
  not.

`CHECK_DEADLOCK` is on in every run but `lark_sync`; where a system may rightly
be finished the module has an explicit `Quiet`/`Idle` step that requires it. No
run lists a type invariant: they are proved (section 5).

## 4. Fairness

- `PlanExecutor!FairSpec`: weak fairness of the whole run. The loop schedules
  ready tasks, callbacks are assumed to return (tools and agents have
  timeouts of their own), backoffs are finite sleeps. Nothing is assumed of
  which task runs.
- `MultiAgent!AgentFairSpec`: the same for the run with its model calls, which
  return or raise.
- `LarkChannel!FairSpec`: weak fairness of each task's own progress. Downloads,
  posts and agent calls have timeouts. Deliveries are not fair. Waking is not
  strongly fair: a waiter is woken because it is at the head of a FIFO queue.
- `ProviderRouter!FairSpec`: weak fairness of each request's progress, since a
  post ends with its client's timeout and sleeps end. Neither `Call`, `Cancel`
  nor `Tick` is fair: a call ends even if the clock stands still.
- `ChatTurn!FairSpec`: weak fairness of each turn's task and threads (the
  timeout of `handle()` ends what the provider does not), of the generator, and
  of "the client takes the event it is sent or goes away". No client has to
  leave while it waits, no deletion happens by fairness.
- `RedisBus!FairSpec`: weak fairness of each worker's loop, which goes on until it
  dies (reads time out, handlers are assumed to return or raise). For the steady
  worker, that it subscribes, and strong fairness of claiming and reading: Redis
  is not down for ever. Pending entries grow old. Neither publishing nor dying
  is fair.
- `Channels!FairSpec`: weak fairness of each channel's task and of the shutdown
  once it has begun; strong fairness of a Telegram poll that goes through, since
  the loop asks again after each failure. No message has to come, no connection
  to be lost, no process to be stopped.
- `LarkSync!FairSpec`: weak fairness of "some thread makes a step": while
  something can go on, something does. Requests have timeouts. Nothing makes a
  process start, stop or crash or a message come.
- `LarkDedup`, `RateLimiter` and `RedisLimiter` have no liveness properties and no fairness: the
  program does not promise that a save happens or that a client comes back.

## 5. Proofs

Proved by TLAPS for every value of the constants that satisfies the named
assumption of the module.

`PlanExecutorProofs` (from `PlanExecutorAssumption`: a finite set of ids, a
positive semaphore). `TypeOK` is not inductive by itself (the results of a layer
are typed only because its tasks are terminal), so it is proved together with
`IInv`:

- `GatherInv`: the gathered tasks are the steps of the next layer without a
  result, each once, and nothing is gathered after a failure;
- `ActiveInv`: only those are in progress; `UnstartedInv`, `FreshInv`: tasks not
  started and steps in no layer yet are untouched;
- `LayeredInv`, `GoodInv`: finished layers are closed under dependencies, have
  results, and, until `failed`, no failed critical step; `CacheInv`, `SkipInv`;
- `QueueInv`: the queue holds the waiting tasks, each once.

Every step of a task is first shown to be an `OwnStep`, which touches that
task's status, the head of the queue and nothing else (`StepIsOwn`), so the
invariant is checked once for all of them (`OwnStepKeepsIInv`), and once for each
step of the loop. From it follow `TypeCorrect`, `DependenciesFirstHolds` and
`LayerBarrierHolds`. `SlotInv` (at most `MaxParallel` run, exactly that many
while someone waits) adds `ParallelBoundHolds` and `NoIdleSlotHolds`. `CauseInv`
(a recorded failure has a failed critical step, only a valid plan is executed)
adds the refinement `Implements`: initial states map to initial states and each
step to a contract step or a stutter.

Its second part is about `MultiAgent` (`MultiAgentAssumption`), whose run begins
with steps that are done already; the executor's invariant holds there too,
because `RunInv` says what such a cache may be. `CacheLies`: when it is not
empty there is a cut `K` of the plan, its first layers, such that everything
cached lies in `K` or in the layer after it, every critical step of `K` is cached,
and some critical step of that layer is not. So the executor goes through `K`
without a call and always takes up that layer again, and nothing cached is ever
in a layer it does not reach. `PrefixInv` and `ReuseInv` follow the layers as
they are taken, `FailInv` finds a cut again when a critical step fails, and
`PatchPlan` keeps it: the layers below the failed step are the first layers of the
patched plan too (`PatchLayer`, `PatchCut`). `ReportInv` says that the
results name the cached steps and those of finished layers once each, with their
status, `ReportOrder` that a step's result comes after its dependencies' and
after those of the cuts below it. `AgentInv` adds to it that what was once DONE is
cached or DONE (`DoneInv`), that a reflection has its cause and the answer is the last
output (`ReflectInv`). From it: `AgentTypeCorrect`, `ReportedOnceHolds`,
`PatchKeepsValidHolds`, `DoneNotRepeatedHolds` (an action property) and
`AnswerFromDeepestHolds`.

`LarkChannelProofs` (from `LarkAssumption`): `TypeCorrect`, where the substance
is that `recent` always orders exactly the chats of the pool through hits,
insertions and evictions; `PoolBoundHolds`, that the pool never exceeds
`ChatLockMax`; and `OneInChatHolds`, for a pool of any size. Its invariant
`LockInv` says that callbacks stay out of the lock's stages (`KindInv`), a task in
its block holds its lock, locked and alone (`HolderInv`), and that a lock some task was
given is the pool's lock of its chat or was evicted (`BelongInv`): so two handlers of
one chat have two locks, of which one at least was evicted.
`RequestOrderHolds` adds `OrderInv`: the waiters of a
lock are exactly the waiting tasks that hold on to it, each once (`WaiterInv`), in
the order of their requests (`SequenceInv`); who asks later for the lock of a chat
gets the same one unless it was evicted meanwhile (`TogetherInv`); a task that need not
wait finds none waiting for its lock. For `HandledOnceHolds` and `ReplyStaysInSessionHolds`, `SeenInv` says that of the deliveries of a message one
at most was not dropped, `ReplyInv` that a session's last message, and every
target, was sent in that session by somebody who may write.

The same module's last part is about `LarkDedup` (from `LarkDedupAssumption`: finitely
many ids, any capacity, any TTL, any number of saves). `DedupTypeCorrect` includes
that the list never outgrows the capacity.
`NoFalseDuplicateHolds` follows from `RecordedInv`: memory, every snapshot
and every inode, the temporary one included, hold only pairs of an id and a time
that were recorded, whichever threads write and in whatever order they rename.
`NoEarlyRepeatHolds` is about one life of the process and its history
`log` of records: an entry is never older than a record of it (`EntryIsLatest`);
an id that was not listed when it was recorded is listed nowhere before the place
that record has in the list (`NotListedBefore`); so it is known until as many others as
the list holds came after it (`KnownForCap`). Without the middle one the
id could go with an older place of its own, which is what happens to an id
recorded again after it expired (section 6).

`RateLimiterProofs` (from `RateLimiterAssumption`): `AdmittedBoundHolds`,
`RememberedHolds`, `TypeCorrect`. `AdmittedBound` is not inductive: a restart
puts rows in the place of buckets, and a bucket that is created must not be the
second of a life that was admitted something. `Inv` adds the bound for the rows
(`RowBound`) and `Remembered`. `RoomKeptHolds` is the action property on the size of
the table; it needs the tables finite, whatever the set of keys. `KeptPromiseHolds`
assumes that a request fits into the burst (the code's requests cost 1, and a burst
is at least 1): `KeptInv` says that a standing promise is kept by the bucket and also
by the row a restart would put in its place.

`RedisProofs`, first part (`RedisBus`, from `BusAssumption`): `BusTypeCorrect`,
`AccountedHolds` and `HandledOnceHolds`.
A batch is what a working consumer has been handed and is not done with, and no
entry is in two batches or twice in one (`BatchInv`); an entry to be
acknowledged is done (`AckInv`); what waits in a batch or is being handled is not
done (`FreshInv`). A claim touches no batch, which is the whole reason why an entry
is in the hands of one worker.

`RedisProofs`, second part (`RedisLimiter`, from `RedisLimiterAssumption`):
`TypeCorrect`, `SharedBoundHolds`, `OwnBoundHolds`, `KeptPromiseHolds`. The assumption `Burst <= Rate * (Ttl -
Spread - MaxDelay)` says that a bucket is only forgotten when it would be full:
the code's TTL (at least a minute, ten times the fill time) leaves room for it.
`StampInv` bounds the times of calls under way, `ExpiryInv` ties the stored time to
the expiry, `ToldInv` what a client Redis refused was told to what the bucket lacks, `OwnToldInv`
the same for the replicas' own buckets.

`ChannelsProofs` (from `ChannelsAssumption`, any number and kinds of channels):
`NoUpdateLostHolds`, `OnceInOrderHolds`, `StoppedIsQuietHolds`. `OffsetInv` says
that everything before Telegram's offset, or forgotten by it, has ended,
`BatchInv` and `OrderInv` that what is left of a poll is an unbroken run that
follows what was begun, `StopInv` that the channels `stop_all` has passed are
stopped, `PathInv` that it stands at an await its channel has, `DownInv` that a
process that is gone left nothing running.

`LarkSyncProofs` (from `LarkSyncAssumption`: finitely many messages, an even
window): `OneInstanceHolds`, `CallsBoundHolds`, `WholeContextHolds`, `SeesRepliedHolds`. `LifeInv`
ties the file lock to the life of the processes, `WriterInv` says that a half
written turn belongs to the handler that holds the lock, `HistoryInv` that a
history is made of whole turns but for that one. The evenness of the window
matters: an odd one would cut a turn in half. `SeenInv` says that a turn is, from its
first entry on, in the history of its process until a full window pushed it out; the
theorem is about replies of that process.

`ProviderRouterProofs` (from `RouterAssumption`: any list of providers, which may
share breakers, any strategy, threshold, cooldown and number of attempts):
`TypeCorrect`, `CooledHolds`, `PostsBoundHolds`. `Guarded` says that a failure that
still counts lies exactly a cooldown before its breaker's `until`, or that the breaker
is half open with the cooldown past; and that an open breaker has seen at least the
threshold, without which a failure reported late would count without renewing
`until`. `Bounded` places the counters of a request at each stage of its task, and
`NumberOrder` and `NumberBound` number the posts through the nested loops. That every
place of a ranked order is some provider's (`RankedProps`) is a pigeonhole on the
strict order of cost or priority and place in the list.

`ChatTurnProofs` (from `ChatAssumption`: any turns, sessions, number of iterations and
window, a queue of at least three, and a past of each session without repetition and
without the turns of the model): `TurnTypeCorrect`, `SeesAnsweredHolds`,
`StreamTrueHolds`, `TurnContractHolds`. `TurnInv` ties together, turn by turn,
where its task stands, its verdict, its reply, the reader and whether its rows are
stored, or may still come from an orphaned thread; `RowsInv` and `MsgInv` say that
the tables hold nothing but such turns and messages of them.

- `TurnContractHolds` needs no more: each step is a step of `TurnContract` or leaves
  verdict and memory of every turn as they are (`Refined`). The substance is that a turn
  is stored at most once, by its task or by its orphan, that an excuse for used-up
  iterations leaves neither, and that after an `append` that raised no second one comes.
- `SeesAnsweredHolds` adds `BeforeInv` (what a turn has to be shown was
  stored) and lemmas on the store's window: what is cut off at the front when a message
  is added, and what `DeleteMessages` leaves, keep their order, so a turn is missing
  from the history only if a full window of later ones is there (`Displaced`), and what
  `trim_history` leaves out of the first prompt is older than all it leaves in, or than
  the newest it keeps of too many (`Trimmed`).
- `StreamTrueHolds` adds `StreamInv`: until the client leaves, what it got,
  what is queued and what is still to be put make one whole (`Whole`), which is the
  opening, the opening with the tool calls so far, or one of the two endings,
  as the task's place says; what it had got when it left stays true of the turn,
  whatever the cancelled task does then.

So every safety property of a run is a theorem. Only model-checked: all liveness
(`Termination`, `AgentTermination`, `EveryEventEnds`, `EveryCallEnds`,
`EveryTurnEnds`, `EveryEntryReaches`, `EveryUpdateEnds`, `EveryMessageEnds`),
since the prover has neither fairness nor ENABLED. The only hypothesis
beyond the named assumption of the module is that a request fits into the burst
(`KeptPromiseHolds` of the in-process limiter).

## 6. Where the code and its text disagree

With a run:

- `bus_redelivery`: `_reclaim_stale` counts the entries it claims and drops them,
  and the loop only ever reads new ones (`bus/redis_bus.py:131`), so an entry whose
  handler raised, or whose worker died, never reaches a handler again; the log
  line at 99 says "will redeliver", and so do 56 and 113-117. `Accounted` is what
  remains of the promise: it can be found on the pending list.

Each of the following is a short behaviour of a module here:

- `PlanExecutor`: `local_failed` is read once, before the semaphore
  (`agent/executor.py:138-143`), so a critical step that waited for its slot is
  dispatched after another critical step of its layer failed; the comment at
  130-134 says it is skipped.
- `MultiAgent`: the retry of a TOOL step gets a target that is not a tool
  (`agent/multi_agent.py:252` appends the reflector's advice to the name), where
  246-247 says kind and target are kept: such a retry can only fail (`Reflect` adds
  it to `unknown`).
- `LarkChannel`: with every pooled lock in use one is evicted all the same
  (`channels/lark.py:595`; 79 and 580 say never), and its chat then has two handlers.
  The run reaches this; `OneInChat` names the evicted lock as the only way to it.
- `LarkChannel`: `_last_msg_id` is overwritten by a message that only waits for
  the lock (`channels/lark.py:1240`), so the answer to an earlier one is posted as
  a reply to it (342 and 521 say to the original message).
- `LarkDedup`: overlapping saves share one temporary file (`channels/lark.py:715`;
  714 says atomic), so the state file may be one that another save has just
  truncated; a crash then loses every id.

Seen while modelling: a half-open breaker lets every request by
(`providers/router.py:50-56`; 43 says one probe); the producer of a stream whose
client left while an event was being sent and the queue (64 events) was full
waits in its last put (`gateway/routes/chat.py:335`; 347 says it does not leak),
which takes a turn of some sixty tool calls; an id recorded again after it expired is
listed twice in `_seen_message_order` and goes with its old position
(`channels/lark.py:628`), which is why
`NoEarlyRepeat` allows for it; an older snapshot may overwrite a newer file (11-12); the
limiter evicts where `core/rate_limit.py:96` says it refuses new keys, and an
evicted key starts with a fresh burst, which is why `AdmittedBound` speaks of a
life; a caller refused for want of room gets a row without tokens though it has no
bucket (`core/rate_limit.py:149`), is told to come back after `cost / rate` though
the table may still be over its limit then (150), and if `retry_after` then gives it
a full bucket, which is not saved, a restart puts the empty row in its place: a
"0 seconds" that was not true; the router's constructor overwrites metas it was given
(`providers/router.py:146-148`); an `append` whose backup fails raises after its commit,
so the client is told of an error and the turn is remembered
(`memory/short_term.py:116-119`, 163), and a `clear` that fails there leaves a session
whose history is gone with its messages listed; `trim_history` may collapse even the
question of a turn that calls many tools.

Of the newer modules. Redis limiter: two replicas with clocks a second apart that
are called in turn within one instant are granted a second's refill at each turn,
and a call that was overtaken does the same with equal clocks, because the script
stores the caller's time whatever it is (`core/rate_limit.py:75`); `max_keys` is not
enforced in Redis, where 271 says it is; its `retry_after` takes the tokens it asks
about; a `Retry-After` given while Redis was out of reach, by a replica's own bucket or
by the fixed refusal, may not be kept by Redis, nor one of Redis by such a replica
(`core/rate_limit.py:368-381`, `gateway/app.py:103`). Channels: `attempt` of the Lark WS loop is never reset, so the thirteenth
disconnection of a process ends the channel while `start()` goes on waiting
(`channels/lark.py:846`); a webhook task of the Lark channel that raises does the
same, and makes `stop()` raise before its executor is shut down (471-475);
Discord's loop does not reconnect; Signal's receive is destructive, so envelopes
of an interrupted batch are gone (`channels/signal.py:91`); several slow channels
(three seconds each) use up the ten seconds of the lifespan, and those behind
them are not stopped; a wait for a cancelled task swallows the lifespan's
cancellation. Lark script: a refused try truncates the pid in the lock file
(`src/start_lark_sync.py:487`); a process launched while another one closes may use
up its twenty tries and exit, leaving none; a message that comes before the
worker has a loop is dropped unless the worker makes its client in that moment; nothing recognises a redelivery; a token that cannot
be had ends a message without an answer; the apology enters the history as an
assistant's turn.

## 7. What is not modelled

`PROJECT.json` lists every component with its status. Text (prompts, messages,
JSON, formatting, sanitizing), HTTP and the vector store are abstract. Threads
appear where they overlap with something (the dedup file, the chat turn's
stores, the Lark script). Of modelled components: the Lark channel's session
clean-up task, the client a Telegram call makes again after `stop`, the guards of
the webhooks, streaming of the OpenAI provider, the in-process bus, which only
gathers its handlers.

Without a module: the long-term memory (its eviction is one call on an external
store: the limit counts the whole collection, the eviction looks at one scope,
`memory/long_term.py:105`), the auto-reply policy (one sequential function per
message; it charges the channel's limiter before the user's refuses,
`core/auto_reply.py:182`), the journal (text files, rewritten whole), the tool
registry and the tools. Plugins, skills, configuration, auth, metrics, the
command line and the conversions of the providers have no state that several
actors share: a model would restate them.

## 8. Plan

1. Plan executor, contract, multi-agent: done, contract and all safety properties
   proved.
2. Lark channel and its dedup state: done; mutual exclusion, pool bound,
   order, redelivery, replies and both properties of the dedup state proved.
3. In-process rate limiter, then the Redis limiter against the same bound: done,
   proved.
4. Provider router: done, its two safety properties proved.
5. A chat turn: done; contract, memory and stream proved.
6. Redis bus: done, its two safety properties proved.
7. Channel lifecycle (poll loops, manager, the gateway's shutdown): done, its
   three safety properties proved.
8. Lark script: done, its three safety properties and the bound on calls proved.
9. Long-term memory's eviction, the auto-reply policy, the journal.

## 9. Running the checks

`tlc -config MCPlanExecutor.cfg MCPlanExecutor`, and likewise for the other
configurations; the module of each is in `PROJECT.json` under `runs`.
`BusRedelivery.cfg` ends with a counterexample. `tlapm X.tla` checks the proofs of
`PlanExecutorProofs` (with `MultiAgent`), `LarkChannelProofs` (with `LarkDedup`),
`RateLimiterProofs`, `RedisProofs` (bus and limiter), `ChannelsProofs`,
`LarkSyncProofs`, `ProviderRouterProofs` and `ChatTurnProofs`.
