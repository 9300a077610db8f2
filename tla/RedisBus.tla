------------------------------ MODULE RedisBus ------------------------------
(***************************************************************************)
(* The event bus over Redis Streams (bus/redis_bus.py): one stream, one    *)
(* consumer group, and the loops of `subscribe` in any number of worker    *)
(* processes.                                                              *)
(*                                                                         *)
(* A consumer is one call of `subscribe`; its name is fresh (a uuid), so a *)
(* worker that comes back is another consumer.  Entries are numbered in    *)
(* the order of XADD.  The group's state (last delivered entry, pending    *)
(* list with owners and idle times) is Redis's; a call can fail before or  *)
(* after it took effect there.                                             *)
(***************************************************************************)
EXTENDS Integers, FiniteSets, Sequences

CONSTANTS
  Consumers,
  Steady,      (* those that get to their loop and whose process stays      *)
  BatchSize,   (* count=10 of XREADGROUP and XAUTOCLAIM                     *)
  MaxEntries   (* bound: entries published                                  *)

ASSUME BusAssumption ==
  /\ Steady \subseteq Consumers
  /\ BatchSize \in Nat \ {0}
  /\ MaxEntries \in Nat

VARIABLES
  published,   (* the stream holds the entries 1..published                 *)
  group,       (* the consumer group exists                                 *)
  last,        (* its last-delivered entry                                  *)
  owner,       (* its pending list: an unacknowledged entry -> its consumer *)
  stale,       (* the pending entries idle for more than 60 s               *)
  loop,        (* per consumer: where its loop stands                       *)
  batch,       (* per consumer: the entries of this read not done with yet  *)
  began,       (* history: per entry, how often a handler was called        *)
  done,        (* history: the entries whose handler returned               *)
  forsaken     (* history: entries delivered to nobody's loop, their reply  *)
               (* lost or their consumer dead before it called the handler  *)

busVars == <<published, group, last, owner, stale, loop, batch, began, done, forsaken>>
redis == <<published, group, last, owner, stale>>
busHistory == <<began, done, forsaken>>

Entries == 1..MaxEntries
Pending == DOMAIN owner
PC == {"new", "reclaim", "read", "handle", "busy", "ack", "dead"}
Live == {"reclaim", "read", "handle", "busy", "ack"}
Working == {"handle", "busy", "ack"}

BusInit ==
  /\ published = 0 /\ group = FALSE /\ last = 0
  /\ owner = [e \in {} |-> {}] /\ stale = {}
  /\ loop = [c \in Consumers |-> "new"]
  /\ batch = [c \in Consumers |-> <<>>]
  /\ began = [e \in Entries |-> 0]
  /\ done = {} /\ forsaken = {}
-----------------------------------------------------------------------------
At(c, from, to) == loop[c] = from /\ loop' = [loop EXCEPT ![c] = to]

(* publish: XADD.                                                          *)
Publish ==
  /\ published < MaxEntries
  /\ published' = published + 1
  /\ UNCHANGED <<group, last, owner, stale, loop, batch, busHistory>>

(* subscribe: the group is created at entry 0, or it is there already      *)
(* (BUSYGROUP); any other error ends the call.                             *)
Subscribe(c) ==
  /\ At(c, "new", "reclaim")
  /\ group' = TRUE
  /\ last' = IF group THEN last ELSE 0
  /\ UNCHANGED <<published, owner, stale, batch, busHistory>>

SubscribeFails(c) ==
  /\ c \notin Steady
  /\ At(c, "new", "dead")
  /\ UNCHANGED <<redis, batch, busHistory>>

(* _reclaim_stale: XAUTOCLAIM moves the first stale entries to this        *)
(* consumer and resets their idle time.  The loop only counts them.        *)
Claimed ==
  {e \in stale : Cardinality({f \in stale : f < e}) < BatchSize}
Reclaim(c) ==
  /\ At(c, "reclaim", "read")
  /\ owner' = [e \in Pending |-> IF e \in Claimed THEN c ELSE owner[e]]
  /\ stale' = stale \ Claimed
  /\ UNCHANGED <<published, group, last, batch, busHistory>>

(* A failure that Redis did not see: logged, the loop goes on.             *)
ReclaimFails(c) ==
  /\ At(c, "reclaim", "read")
  /\ UNCHANGED <<redis, batch, busHistory>>
-----------------------------------------------------------------------------
(* XREADGROUP ">" hands out the next entries nobody was given, in order.   *)
Given == IF published - last < BatchSize THEN published - last ELSE BatchSize
Fresh == last + 1 .. last + Given

Deliver(c) ==
  /\ Given > 0
  /\ last' = last + Given
  /\ owner' = [e \in Pending \cup Fresh |-> IF e \in Fresh THEN c ELSE owner[e]]
  /\ stale' = stale \ Fresh
  /\ UNCHANGED <<published, group>>

Read(c) ==
  /\ At(c, "read", "handle")
  /\ Deliver(c)
  /\ batch' = [batch EXCEPT ![c] = [i \in 1..Given |-> last + i]]
  /\ UNCHANGED busHistory

(* Nothing new for five seconds, or an error: the next round.              *)
ReadNothing(c) ==
  /\ At(c, "read", "reclaim")
  /\ UNCHANGED <<redis, batch, busHistory>>

(* The reply is lost on its way: Redis has delivered, the loop never knows.*)
ReadLost(c) ==
  /\ At(c, "read", "reclaim")
  /\ Deliver(c)
  /\ forsaken' = forsaken \cup Fresh
  /\ UNCHANGED <<batch, began, done>>
-----------------------------------------------------------------------------
Handle(c) ==
  /\ At(c, "handle", "busy")
  /\ began' = [began EXCEPT ![Head(batch[c])] = @ + 1]
  /\ UNCHANGED <<redis, batch, done, forsaken>>

(* The next entry of the batch, or the next round.                         *)
Continue(c) ==
  /\ loop' = [loop EXCEPT ![c] = IF Tail(batch[c]) = <<>> THEN "reclaim" ELSE "handle"]
  /\ batch' = [batch EXCEPT ![c] = Tail(@)]

HandlerReturns(c) ==
  /\ At(c, "busy", "ack")
  /\ done' = done \cup {Head(batch[c])}
  /\ UNCHANGED <<redis, batch, began, forsaken>>

HandlerRaises_Acks(c) ==
  /\ loop[c] = "busy"
  /\ owner' = [e \in Pending \ {Head(batch[c])} |-> owner[e]]
  /\ stale' = stale \ {Head(batch[c])}
  /\ Continue(c)
  /\ UNCHANGED <<published, group, last, busHistory>>
HandlerRaises_LeavesBatch(c) ==
  /\ At(c, "busy", "reclaim")
  /\ batch' = [batch EXCEPT ![c] = <<>>]
  /\ UNCHANGED <<redis, busHistory>>
(* Not acknowledged: the entry stays pending.                              *)
HandlerRaises(c) ==
  /\ loop[c] = "busy"
  /\ Continue(c)
  /\ UNCHANGED <<redis, busHistory>>

(* XACK names the group and the entry, not the consumer.                   *)
Ack(c) ==
  /\ loop[c] = "ack"
  /\ owner' = [e \in Pending \ {Head(batch[c])} |-> owner[e]]
  /\ stale' = stale \ {Head(batch[c])}
  /\ Continue(c)
  /\ UNCHANGED <<published, group, last, busHistory>>

AckFails_Retries(c) ==
  /\ At(c, "ack", "handle")
  /\ UNCHANGED <<redis, batch, busHistory>>
(* XACK raises before it took effect: logged like an error of the handler. *)
AckFails(c) ==
  /\ loop[c] = "ack"
  /\ Continue(c)
  /\ UNCHANGED <<redis, busHistory>>

(* The process dies or the task is cancelled, wherever it stands.          *)
Unbegun(c) ==
  {batch[c][i] : i \in {j \in DOMAIN batch[c] : j > 1 \/ loop[c] = "handle"}}
Die(c) ==
  /\ c \notin Steady
  /\ loop[c] \in Live
  /\ loop' = [loop EXCEPT ![c] = "dead"]
  /\ batch' = [batch EXCEPT ![c] = <<>>]
  /\ forsaken' = forsaken \cup Unbegun(c)
  /\ UNCHANGED <<redis, began, done>>

(* Sixty seconds pass without a delivery or a claim of the entry.          *)
Age(e) ==
  /\ e \in Pending \ stale
  /\ stale' = stale \cup {e}
  /\ UNCHANGED <<published, group, last, owner, loop, batch, busHistory>>
-----------------------------------------------------------------------------
Step(c) ==
  \/ Reclaim(c) \/ ReclaimFails(c)
  \/ Read(c) \/ ReadNothing(c) \/ ReadLost(c)
  \/ Handle(c) \/ HandlerReturns(c) \/ HandlerRaises(c) \/ Ack(c) \/ AckFails(c)

BusNext ==
  \/ Publish
  \/ \E c \in Consumers : Subscribe(c) \/ SubscribeFails(c) \/ Step(c) \/ Die(c)
  \/ \E e \in Entries : Age(e)

BusSpec == BusInit /\ [][BusNext]_busVars

(* A steady consumer subscribes, and a loop goes on until its process      *)
(* dies: reads time out, and handlers are assumed to return or raise.      *)
(* Redis is not down for ever: a steady consumer that tries again and      *)
(* again to claim and to read succeeds some time.  Time passes for pending *)
(* entries.                                                                *)
BusFairSpec ==
  /\ BusSpec
  /\ \A c \in Consumers : WF_busVars(Step(c) \/ Die(c))
  /\ \A c \in Steady :
       WF_busVars(Subscribe(c)) /\ SF_busVars(Reclaim(c)) /\ SF_busVars(Read(c))
  /\ \A e \in Entries : WF_busVars(Age(e))
-----------------------------------------------------------------------------
BusTypeOK ==
  /\ published \in 0..MaxEntries /\ last \in 0..published
  /\ group \in BOOLEAN
  /\ Pending \subseteq 1..last /\ owner \in [Pending -> Consumers]
  /\ stale \subseteq Pending
  /\ loop \in [Consumers -> PC]
  /\ batch \in [Consumers -> Seq(Entries)]
  /\ began \in [Entries -> Nat]
  /\ done \subseteq 1..last /\ forsaken \subseteq 1..last

(* Unfinished work stays visible: an entry that was delivered is off the   *)
(* pending list only when its handler has returned, so what failed, was    *)
(* lost with its consumer or never reached it can still be found there     *)
(* ("NOT acked"), whoever claims it and whatever call fails.               *)
Accounted == \A e \in 1..last : e \in Pending \/ e \in done

(* "Several workers do not consume the same entry twice" (docstring at    *)
(* 55): an entry in the hands of a handler is in those of no other worker, *)
(* and has not been through one that returned, also when it was claimed    *)
(* from a consumer that is only slow or its acknowledgement was lost.  An  *)
(* entry whose handler raised may come back.                               *)
HandledOnce ==
  \A c \in Consumers : loop[c] = "busy" =>
    /\ Head(batch[c]) \notin done
    /\ \A d \in Consumers \ {c} : loop[d] = "busy" => Head(batch[d]) # Head(batch[c])

(* With one steady consumer each entry, published before or after the      *)
(* group existed, is handed to a handler, unless the reply that carried it *)
(* was lost or the consumer that got it died first.                        *)
EveryEntryReaches ==
  \A e \in Entries : e <= published ~> began[e] > 0 \/ e \in forsaken

(* The docstring at 54-58, the comments at 73-75 and 102, the log line at  *)
(* 99 and the docstring at 113-117: an entry whose handler failed or whose *)
(* consumer died is delivered again, so each pending entry is handled some *)
(* time.                                                                   *)
Redelivered == \A e \in Entries : e \in Pending ~> e \in done
=============================================================================
