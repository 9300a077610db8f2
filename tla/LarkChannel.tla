---------------------------- MODULE LarkChannel ----------------------------
(***************************************************************************)
(* Inbound events of the Lark channel (channels/lark.py) on the event loop:*)
(* deduplication, sender policy, media download, the pool of per-chat      *)
(* asyncio locks with its LRU eviction, dispatch (channels/base.py) and    *)
(* the reply to `_last_msg_id` of the session.                             *)
(*                                                                         *)
(* An action is what one task does between two awaits.  LarkDedup has the  *)
(* expiry, the capacity and the file of the deduplication state, of which  *)
(* only the set of ids is kept here.                                       *)
(***************************************************************************)
EXTENDS Integers, FiniteSets, Sequences, SequencesExt

CONSTANTS
  Events,       (* the deliveries: a message delivered twice is two of them *)
  Chats, Users, Msgs,
  NoMsg,        (* no message id                                            *)
  Event,        (* what is delivered: [msg, chat, user, kind]               *)
  DMs,          (* the chats that are direct (chat_type "p2p")              *)
  AllowedUsers, (* LARK_ALLOWED_USERS                                       *)
  GroupPolicy,  (* LARK_GROUP_POLICY                                        *)
  ChatLockMax   (* CHAT_LOCK_MAX_SIZE                                       *)

(* "callback" stands for reactions and card actions, which carry no message *)
(* of their own to reply to; "empty" for a message without usable text.    *)
Kinds == {"text", "media", "empty", "callback"}

ASSUME LarkAssumption ==
  /\ Event \in [Events -> [msg : Msgs, chat : Chats, user : Users, kind : Kinds]]
  /\ IsFiniteSet(Chats)
  /\ DMs \subseteq Chats /\ AllowedUsers \subseteq Users
  /\ GroupPolicy \in {"open", "allowlist", "disabled"}
  /\ ChatLockMax \in Nat \ {0}
  /\ NoMsg \notin Msgs

VARIABLES
  pc,       (* per event: where its task stands                             *)
  seen,     (* _seen_message_ids                                            *)
  lastMsg,  (* _last_msg_id, per session                                    *)
  pool,     (* _chat_locks: chat -> lock, a lock being named after the      *)
            (* event that created it                                        *)
  recent,   (* the order of that OrderedDict, least recently used first     *)
  held,     (* per event: the lock its task acquired or waits for           *)
  locked,   (* the locks that are locked                                    *)
  waiters,  (* per lock: the tasks waiting for it, oldest first             *)
  target,   (* per event: the message its reply is posted to                *)
  evicted,  (* history: the locks that left the pool                        *)
  requests  (* history: the messages in the order they asked for their lock *)

vars == <<pc, seen, lastMsg, pool, recent, held, locked, waiters, target, evicted, requests>>

lockVars == <<pool, recent, held, locked, waiters, evicted, requests>>

PC == {"idle", "persist", "download", "waiting", "typing", "agent", "sending",
       "clearing", "ended", "dropped"}

Chat(e) == Event[e].chat
Message(e) == Event[e].kind # "callback"

SessionOf_ChatOnly(e) == <<Chat(e), CHOOSE u \in Users : TRUE>>
SessionOf(e) == <<Chat(e), Event[e].user>>

(* The events whose handler is inside the `async with chat_lock` block.    *)
Inside == {e \in Events : Message(e) /\ pc[e] \in {"typing", "agent", "sending", "clearing"}}

Goto(e, where) == pc' = [pc EXCEPT ![e] = where]

Init ==
  /\ pc = [e \in Events |-> "idle"]
  /\ seen = {}
  /\ lastMsg = [s \in Chats \X Users |-> NoMsg]
  /\ pool = <<>>
  /\ recent = <<>>
  /\ held = [e \in Events |-> e]
  /\ locked = {}
  /\ waiters = [l \in Events |-> <<>>]
  /\ target = [e \in Events |-> NoMsg]
  /\ evicted = {}
  /\ requests = <<>>

-----------------------------------------------------------------------------
(* _handle_event up to the lock *)

Record_Later(e) == seen
Record(e) == seen \cup {Event[e].msg}

(* The id is recorded before anything else is done with the message; the   *)
(* task then waits for the executor to write the ids.                      *)
Arrive(e) ==
  /\ pc[e] = "idle" /\ Message(e)
  /\ Goto(e, IF Event[e].msg \in seen THEN "dropped" ELSE "persist")
  /\ seen' = Record(e)
  /\ UNCHANGED <<lastMsg, lockVars, target>>

SenderAllowed(e) ==
  LET listed == AllowedUsers = {} \/ Event[e].user \in AllowedUsers IN
  IF Chat(e) \in DMs THEN listed
  ELSE GroupPolicy = "open" \/ (GroupPolicy = "allowlist" /\ listed)

Refuse(e) ==
  /\ pc[e] = "persist"
  /\ ~SenderAllowed(e) \/ Event[e].kind = "empty"
  /\ Goto(e, "dropped")
  /\ UNCHANGED <<seen, lastMsg, lockVars, target>>

Download(e) ==
  /\ pc[e] = "persist" /\ SenderAllowed(e) /\ Event[e].kind = "media"
  /\ Goto(e, "download")
  /\ UNCHANGED <<seen, lastMsg, lockVars, target>>

-----------------------------------------------------------------------------
(* _get_chat_lock and asyncio.Lock *)

(* A sequence without the one element x. *)
Without(s, x) == RemoveAt(s, CHOOSE i \in DOMAIN s : s[i] = x)

Touched(c) == Append(Without(recent, c), c)

PoolFull == Cardinality(DOMAIN pool) >= ChatLockMax

(* The least recently used chat whose lock is not locked, or failing that  *)
(* the least recently used one.                                            *)
Victim ==
  LET free == {i \in DOMAIN recent : pool[recent[i]] \notin locked}
      from == IF free = {} THEN DOMAIN recent ELSE free
  IN  recent[CHOOSE i \in from : \A j \in from : i <= j]

(* The pool has a lock for chat c. *)
Pooled(c) == c \in DOMAIN pool

(* A new lock for chat c, made by task e; a full pool drops a lock first.  *)
NewChatLock(c, e) ==
  LET kept == IF PoolFull THEN (DOMAIN pool) \ {Victim} ELSE DOMAIN pool IN
  /\ held' = [held EXCEPT ![e] = e]
  /\ recent' = Append(IF PoolFull THEN Without(recent, Victim) ELSE recent, c)
  /\ pool' = [d \in kept \cup {c} |-> IF d = c THEN e ELSE pool[d]]
  /\ evicted' = IF PoolFull THEN evicted \cup {pool[Victim]} ELSE evicted

(* The lock of chat c for task e: the one in the pool, or a new one.       *)
GetChatLock_Renewed(c, e) ==
  IF Pooled(c)
  THEN /\ held' = [held EXCEPT ![e] = IF pool[c] \in locked THEN pool[c] ELSE e]
       /\ recent' = Touched(c)
       /\ pool' = [pool EXCEPT ![c] = held'[e]]
       /\ UNCHANGED evicted
  ELSE NewChatLock(c, e)
GetChatLock(c, e) ==
  IF Pooled(c)
  THEN /\ held' = [held EXCEPT ![e] = pool[c]]
       /\ recent' = Touched(c)
       /\ UNCHANGED <<pool, evicted>>
  ELSE NewChatLock(c, e)

(* acquire() does not wait. *)
AtOnce(l) == l \notin locked /\ waiters[l] = <<>>

(* The message becomes the session's last one; its task asks for the lock  *)
(* of the chat and goes ahead (adding the Typing reaction) or waits.       *)
Request(e) ==
  /\ \/ pc[e] = "persist" /\ SenderAllowed(e) /\ Event[e].kind = "text"
     \/ pc[e] = "download"
  /\ lastMsg' = [lastMsg EXCEPT ![SessionOf(e)] = Event[e].msg]
  /\ GetChatLock(Chat(e), e)
  /\ requests' = Append(requests, e)
  /\ IF AtOnce(held'[e])
     THEN /\ Goto(e, "typing")
          /\ locked' = locked \cup {held'[e]}
          /\ UNCHANGED waiters
     ELSE /\ Goto(e, "waiting")
          /\ waiters' = [waiters EXCEPT ![held'[e]] = Append(@, e)]
          /\ UNCHANGED locked
  /\ UNCHANGED <<seen, target>>

(* The oldest waiter of a released lock gets it. *)
Wake(e) ==
  /\ pc[e] = "waiting"
  /\ held[e] \notin locked
  /\ waiters[held[e]] # <<>> /\ Head(waiters[held[e]]) = e
  /\ Goto(e, "typing")
  /\ locked' = locked \cup {held[e]}
  /\ waiters' = [waiters EXCEPT ![held[e]] = Tail(@)]
  /\ UNCHANGED <<seen, lastMsg, pool, recent, held, target, evicted, requests>>

-----------------------------------------------------------------------------
(* dispatch *)

Finished(e) == IF Message(e) THEN "clearing" ELSE "ended"

(* send() replies to the session's last message, if there is one.          *)
Send(e) ==
  /\ target' = [target EXCEPT ![e] = lastMsg[SessionOf(e)]]
  /\ Goto(e, IF lastMsg[SessionOf(e)] = NoMsg THEN Finished(e) ELSE "sending")

(* The auto-reply policy drops the text, answers it itself or passes it to *)
(* the agent.  Callbacks come here without lock, policy or dedup.          *)
Dispatch(e) ==
  /\ pc[e] = IF Message(e) THEN "typing" ELSE "idle"
  /\ \/ Goto(e, Finished(e)) /\ UNCHANGED target
     \/ Goto(e, "agent") /\ UNCHANGED target
     \/ Send(e)
  /\ UNCHANGED <<seen, lastMsg, lockVars>>

(* The agent has an answer or raised: either text is sent.                 *)
AgentReturns(e) ==
  /\ pc[e] = "agent"
  /\ Send(e)
  /\ UNCHANGED <<seen, lastMsg, lockVars>>

(* The HTTP call is over, whatever came of it. *)
Posted(e) ==
  /\ pc[e] = "sending"
  /\ Goto(e, Finished(e))
  /\ UNCHANGED <<seen, lastMsg, lockVars, target>>

Unlocked_Forgotten(e) == locked
Unlocked_Pooled(e) == locked \ {pool[c] : c \in {Chat(e)} \cap DOMAIN pool}
Unlocked(e) == locked \ {held[e]}

(* The Typing reaction is removed; leaving the block releases the lock.    *)
Release(e) ==
  /\ pc[e] = "clearing"
  /\ Goto(e, "ended")
  /\ locked' = Unlocked(e)
  /\ UNCHANGED <<seen, lastMsg, pool, recent, held, waiters, target, evicted, requests>>

Progress(e) ==
  \/ Refuse(e) \/ Download(e) \/ Request(e) \/ Wake(e)
  \/ AgentReturns(e) \/ Posted(e) \/ Release(e)
  \/ (pc[e] # "idle" /\ Dispatch(e))

Deliver(e) == Arrive(e) \/ (pc[e] = "idle" /\ Dispatch(e))

(* Feishu need not deliver anything more. *)
Quiet == (\A e \in Events : pc[e] \in {"idle", "ended", "dropped"}) /\ UNCHANGED vars

Next == (\E e \in Events : Deliver(e) \/ Progress(e)) \/ Quiet

Spec == Init /\ [][Next]_vars

(* Every await of a handler ends: HTTP calls and the agent's turn carry    *)
(* timeouts, executor calls return, the loop runs tasks that are ready.    *)
FairSpec == Spec /\ \A e \in Events : WF_vars(Progress(e))

-----------------------------------------------------------------------------
TypeOK ==
  /\ pc \in [Events -> PC]
  /\ seen \subseteq Msgs
  /\ lastMsg \in [Chats \X Users -> Msgs \cup {NoMsg}]
  /\ DOMAIN pool \subseteq Chats /\ pool \in [DOMAIN pool -> Events]
  /\ recent \in Seq(Chats) /\ ToSet(recent) = DOMAIN pool
  /\ \A i, j \in DOMAIN recent : recent[i] = recent[j] => i = j
  /\ held \in [Events -> Events]
  /\ locked \subseteq Events
  /\ waiters \in [Events -> Seq(Events)]
  /\ target \in [Events -> Msgs \cup {NoMsg}]
  /\ evicted \subseteq Events
  /\ requests \in Seq(Events)

(* Messages of one chat are handled one at a time, by the per-chat lock.   *)
(* Two are at once only if the pool evicted the lock of one of them while  *)
(* it was in use: every task that was given the lock that is in the pool,  *)
(* before or after an eviction, excludes the others that were.             *)
OneInChat ==
  \A e, f \in Inside :
    (Chat(e) = Chat(f) /\ e # f)
      => held[e] # held[f] /\ {held[e], held[f]} \cap evicted # {}

Handled(e) == pc[e] \in {"typing", "agent", "sending", "clearing", "ended"}

(* ... in the order in which they asked for the lock: nobody overtakes a   *)
(* waiter while a released lock is on its way to it, not even on an        *)
(* evicted lock; only the lock made after an eviction knows nothing of it. *)
RequestOrder ==
  \A i, j \in DOMAIN requests :
    LET r == requests[i]
        q == requests[j] IN
    (i < j /\ Chat(r) = Chat(q) /\ Handled(q))
      => Handled(r) \/ (held[r] # held[q] /\ held[r] \in evicted)

(* A message that is delivered again, even while the first delivery is     *)
(* still being handled, is handled once.                                   *)
HandledOnce ==
  \A e, f \in {g \in Events : Message(g) /\ Handled(g)} :
    Event[e].msg = Event[f].msg => e = f

(* A reply goes to a message of the session it answers: never to another   *)
(* user's message, though all users of a chat share a lock.                *)
ReplyStaysInSession ==
  \A e \in {d \in Events : target[d] # NoMsg} :
    \E f \in Events : /\ Event[f].msg = target[e] /\ Message(f)
                      /\ <<Chat(f), Event[f].user>> = <<Chat(e), Event[e].user>>
                      /\ SenderAllowed(f)

(* The pool of locks stays within its limit.                               *)
PoolBound == Cardinality(DOMAIN pool) <= ChatLockMax

(* Every event that came in is finished with: in the end no task is left   *)
(* waiting for a lock, not even for one evicted from the pool under it.    *)
EveryEventEnds ==
  <>[](\A e \in Events : pc[e] \in {"idle", "ended", "dropped"})
=============================================================================
