--------------------------- MODULE ProviderRouter ---------------------------
(***************************************************************************)
(* Calls of a model through the provider router (providers/router.py) with *)
(* its per-provider circuit breakers, down to the posts of one provider    *)
(* call (providers/openai_compat.py).                                      *)
(*                                                                         *)
(* Requests run on one event loop and share breakers and the round-robin   *)
(* index; what a request does between two awaits is one step.  A post is   *)
(* answered, fails for now (429, 5xx, connection lost) or for good; time   *)
(* budgets may cut retries short at any failure.                           *)
(***************************************************************************)
EXTENDS Integers, FiniteSets, Sequences, SequencesExt

CONSTANTS
  Requests,
  Providers,
  Listed,        (* primary and fallbacks, as configured                    *)
  KeyOf,         (* _prov_key of each provider: its class and model         *)
  Rank,          (* cost_per_1k or priority, whichever the strategy reads   *)
  Strategy,
  Retries,       (* the requests made with acomplete_with_retry             *)
  Attempts,      (* max_attempts_per_step of those                          *)
  Backoffs,      (* Len(_RETRY_BACKOFF): posts after the first              *)
  FailThreshold,
  Cooldown,
  MaxTime        (* bound: the clock                                        *)

Keys == {KeyOf[p] : p \in Providers}
Strategies == {"fallback_only", "round_robin", "cost_aware", "priority"}

ASSUME RouterAssumption ==
  /\ Listed \in Seq(Providers) /\ Listed # <<>>
  /\ \A i, j \in DOMAIN Listed : Listed[i] = Listed[j] => i = j
  /\ Strategy \in Strategies
  /\ Rank \in [Providers -> Nat]
  /\ Retries \subseteq Requests
  /\ Attempts \in Nat \ {0} /\ Backoffs \in Nat
  /\ FailThreshold \in Nat \ {0} /\ Cooldown \in Nat /\ MaxTime \in Nat

VARIABLES
  now,
  breaker,  (* _states: key -> [state, fails, until]                        *)
  rr,       (* _rr_index                                                    *)
  pc,       (* per request: where its task stands                           *)
  order,    (* per request: the providers in the order it tries them        *)
  pos,      (* per request: the place in order of the one being tried       *)
  tries,    (* per request: attempts at this provider                       *)
  posts,    (* per request: posts in this attempt                           *)
  cool      (* history: per key, when a failure last left its breaker open, *)
            (* Never if it did not since the last success                   *)

vars == <<now, breaker, rr, pc, order, pos, tries, posts, cool>>
calls == <<order, pos, tries, posts>>

Never == -1
Busy == {"posting", "backoff", "retry", "pause"}
PC == Busy \cup {"idle", "ended"}
Breaker == [state : {"closed", "open", "half_open"}, fails : Nat, until : Nat]

Current(r) == order[r][pos[r]]
Key(r) == KeyOf[Current(r)]

Init ==
  /\ now = 0
  /\ breaker = [k \in Keys |-> [state |-> "closed", fails |-> 0, until |-> 0]]
  /\ rr = 0
  /\ pc = [r \in Requests |-> "idle"]
  /\ order = [r \in Requests |-> <<>>]
  /\ pos = [r \in Requests |-> 0]
  /\ tries = [r \in Requests |-> 0]
  /\ posts = [r \in Requests |-> 0]
  /\ cool = [k \in Keys |-> Never]
-----------------------------------------------------------------------------
(* _order.                                                                 *)

Ranked ==
  LET Before(i, j) == \/ Rank[Listed[i]] < Rank[Listed[j]]
                      \/ Rank[Listed[i]] = Rank[Listed[j]] /\ i < j
      Place(i) == Cardinality({j \in DOMAIN Listed : Before(j, i)}) + 1
  IN  [n \in DOMAIN Listed |-> Listed[CHOOSE i \in DOMAIN Listed : Place(i) = n]]

Rotated == [i \in DOMAIN Listed |-> Listed[((i - 1 + rr) % Len(Listed)) + 1]]

Order == CASE Strategy = "round_robin" -> Rotated
           [] Strategy = "fallback_only" -> Listed
           [] OTHER -> Ranked

NextIndex == (rr + 1) % Len(Listed)
-----------------------------------------------------------------------------
(* The circuit breaker of one key.                                         *)

IsOpen(b) == b.state = "open" /\ now < b.until

(* is_open lets the call by, and turns a cooled breaker half open.         *)
Passed(b) == IF b.state = "open" THEN [b EXCEPT !.state = "half_open"] ELSE b

Closed(b) == [b EXCEPT !.state = "closed", !.fails = 0]

Tripped(b) == b.fails + 1 >= FailThreshold \/ b.state = "half_open"
Failed_NotRenewed(b) ==
  IF Tripped(b)
  THEN [state |-> "open", fails |-> b.fails + 1,
        until |-> IF b.until > 0 THEN b.until ELSE now + Cooldown]
  ELSE [b EXCEPT !.fails = @ + 1]
Failed(b) ==
  IF Tripped(b)
  THEN [state |-> "open", fails |-> b.fails + 1, until |-> now + Cooldown]
  ELSE [b EXCEPT !.fails = @ + 1]
-----------------------------------------------------------------------------
Goto(r, where) == pc' = [pc EXCEPT ![r] = where]

(* The call returns, raises or is cancelled: its locals are gone.          *)
Leave(r) ==
  /\ Goto(r, "ended")
  /\ order' = [order EXCEPT ![r] = <<>>]
  /\ pos' = [pos EXCEPT ![r] = 0] /\ tries' = [tries EXCEPT ![r] = 0]
  /\ posts' = [posts EXCEPT ![r] = 0]

Post(r, attempt) ==
  /\ Goto(r, "posting")
  /\ posts' = [posts EXCEPT ![r] = IF attempt = "first" THEN 1 ELSE @ + 1]

(* The request's loop over its providers goes on at place i of ord, with   *)
(* the breakers b: providers whose breaker is open are skipped.            *)
GoOn_Waits(r, ord, i, b) ==
  LET able == {j \in i..Len(ord) : ~IsOpen(b[KeyOf[ord[j]]])}
      next == CHOOSE j \in able : \A k \in able : j <= k
      key  == KeyOf[ord[next]]
  IN  /\ order' = [order EXCEPT ![r] = ord]
      /\ IF able = {}
         THEN /\ Goto(r, "pause") /\ breaker' = b
              /\ pos' = [pos EXCEPT ![r] = i - 1]
              /\ UNCHANGED <<tries, posts>>
         ELSE /\ pos' = [pos EXCEPT ![r] = next]
              /\ tries' = [tries EXCEPT ![r] = 1]
              /\ Post(r, "first")
              /\ breaker' = [b EXCEPT ![key] = Passed(@)]
GoOn(r, ord, i, b) ==
  LET able == {j \in i..Len(ord) : ~IsOpen(b[KeyOf[ord[j]]])}
      next == CHOOSE j \in able : \A k \in able : j <= k
      key  == KeyOf[ord[next]]
  IN  IF able = {}
      THEN Leave(r) /\ breaker' = b
      ELSE /\ order' = [order EXCEPT ![r] = ord]
           /\ pos' = [pos EXCEPT ![r] = next]
           /\ tries' = [tries EXCEPT ![r] = 1]
           /\ Post(r, "first")
           /\ breaker' = [b EXCEPT ![key] = Passed(@)]

(* acomplete or acomplete_with_retry is called.                            *)
Call(r) ==
  /\ pc[r] = "idle"
  /\ rr' = IF Strategy = "round_robin" THEN NextIndex ELSE rr
  /\ GoOn(r, Order, 1, breaker)
  /\ UNCHANGED <<now, cool>>

Answer(r) ==
  /\ pc[r] = "posting"
  /\ Leave(r)
  /\ breaker' = [breaker EXCEPT ![Key(r)] = Closed(@)]
  /\ cool' = [cool EXCEPT ![Key(r)] = Never]
  /\ UNCHANGED <<now, rr>>

(* The post fails for now, and posts and time are left.                    *)
LastPost_OneMore(r) == posts[r] > Backoffs + 1
LastPost(r) == posts[r] > Backoffs
Transient(r) ==
  /\ pc[r] = "posting" /\ ~LastPost(r)
  /\ Goto(r, "backoff")
  /\ UNCHANGED <<now, breaker, rr, calls, cool>>

Repost(r) ==
  /\ pc[r] = "backoff"
  /\ Post(r, "again")
  /\ UNCHANGED <<now, breaker, rr, order, pos, tries, cool>>

(* The provider call raises, and this request tries the provider again.    *)
LastTry(r) == r \notin Retries \/ tries[r] >= Attempts
Retry(r) ==
  /\ pc[r] = "posting" /\ ~LastTry(r)
  /\ Goto(r, "retry")
  /\ UNCHANGED <<now, breaker, rr, calls, cool>>

Again(r) ==
  /\ pc[r] = "retry"
  /\ Post(r, "first")
  /\ tries' = [tries EXCEPT ![r] = @ + 1]
  /\ UNCHANGED <<now, breaker, rr, order, pos, cool>>

(* The provider call raises for the last time: the breaker counts it; the  *)
(* plain call then pauses, the retrying one goes on at once.               *)
GiveUp(r) ==
  /\ pc[r] = "posting"
  /\ LET b == [breaker EXCEPT ![Key(r)] = Failed(@)]
     IN  /\ cool' = [cool EXCEPT ![Key(r)] = IF b[Key(r)].state = "open" THEN now ELSE @]
         /\ IF r \in Retries
            THEN GoOn(r, order[r], pos[r] + 1, b)
            ELSE /\ Goto(r, "pause")
                 /\ breaker' = b
                 /\ UNCHANGED calls
  /\ UNCHANGED <<now, rr>>

Resume(r) ==
  /\ pc[r] = "pause"
  /\ GoOn(r, order[r], pos[r] + 1, breaker)
  /\ UNCHANGED <<now, rr, cool>>

(* The caller's timeout: no outcome is recorded.                           *)
Cancel(r) ==
  /\ pc[r] \in Busy
  /\ Leave(r)
  /\ UNCHANGED <<now, breaker, rr, cool>>

Tick ==
  /\ now < MaxTime
  /\ now' = now + 1
  /\ UNCHANGED <<breaker, rr, pc, calls, cool>>

(* A post is answered or fails (the client has a timeout), a sleep ends.   *)
Progress(r) ==
  \/ Answer(r) \/ Transient(r) \/ Repost(r)
  \/ Retry(r) \/ Again(r) \/ GiveUp(r) \/ Resume(r)

Quiet ==
  /\ \A r \in Requests : pc[r] = "ended"
  /\ UNCHANGED vars

Next ==
  \/ \E r \in Requests : Call(r) \/ Progress(r) \/ Cancel(r)
  \/ Tick
  \/ Quiet

Spec == Init /\ [][Next]_vars

(* Every post has a timeout and every sleep ends; no request need ever be  *)
(* made, and no clock need run.                                            *)
FairSpec == Spec /\ \A r \in Requests : WF_vars(Progress(r))
-----------------------------------------------------------------------------
TypeOK ==
  /\ now \in 0..MaxTime
  /\ breaker \in [Keys -> Breaker]
  /\ rr \in 0..(Len(Listed) - 1)
  /\ pc \in [Requests -> PC]
  /\ order \in [Requests -> Seq(Providers)]
  /\ pos \in [Requests -> Nat] /\ tries \in [Requests -> Nat]
  /\ posts \in [Requests -> Nat]
  /\ cool \in [Keys -> Nat \cup {Never}]
  /\ \A r \in Requests : pc[r] \in Busy \ {"pause"} =>
       pos[r] \in DOMAIN order[r]

(* The three nested retry loops multiply, and no further: each post of a   *)
(* request is a later one than all its posts before, of at most providers  *)
(* times attempts times posts per call.                                    *)
AttemptsOf(r) == IF r \in Retries THEN Attempts ELSE 1
Nth(r) == ((pos[r] - 1) * AttemptsOf(r) + tries[r] - 1) * (Backoffs + 1) + posts[r]
Posted(r) == pc'[r] = "posting" /\ (pc[r] # "posting" \/ pos'[r] # pos[r])
PostsBound ==
  [][ \A r \in Requests : Posted(r) =>
        /\ Nth(r) < Nth(r)'
        /\ Nth(r)' <= Len(Listed) * AttemptsOf(r) * (Backoffs + 1) ]_vars

(* A request turns to a provider.                                          *)
TurnsTo(r) == pc'[r] = "posting" /\ (pc[r] \in {"idle", "pause"} \/ pos'[r] # pos[r])

(* After a failure left its breaker open, a provider is left alone for the *)
(* cooldown, unless a call that was still in flight has succeeded.         *)
Cooled ==
  [][ \A r \in Requests : TurnsTo(r) =>
        LET k == KeyOf[order'[r][pos'[r]]]
        IN  cool'[k] = Never \/ now - cool'[k] >= Cooldown ]_vars

(* A call that is made ends: retries, fallbacks and open breakers never    *)
(* hold it for ever.                                                       *)
EveryCallEnds ==
  \A r \in Requests : pc[r] \in Busy ~> pc[r] = "ended"
=============================================================================
