---------------------------- MODULE RedisLimiter ----------------------------
(***************************************************************************)
(* The limiter the replicas of the gateway share (core/rate_limit.py,      *)
(* RedisRateLimiter) under its middleware (gateway/app.py): the token      *)
(* bucket of one client, kept in Redis by a script.                        *)
(*                                                                         *)
(* The script is atomic, but it counts in the time of its caller: read     *)
(* before the call leaves the replica, and on a clock of its own.  A       *)
(* replica that does not reach Redis asks its own bucket, or refuses.      *)
(* Clients share nothing here, so one is enough.  Tokens are counted as in *)
(* RateLimiter; a tick is a second.                                        *)
(***************************************************************************)
EXTENDS Integers

CONSTANTS
  Replicas,
  Rate, Burst, Cost,
  MinTtl,      (* 60 s                                                      *)
  TtlFactor,   (* 10                                                        *)
  Fallback,    (* fallback_to_memory                                        *)
  Spread,      (* of the replicas' clocks                                   *)
  MaxDelay,    (* of a call on its way to Redis: the client's timeout       *)
  MaxTime,     (* bound: the clock                                          *)
  MaxFailures, (* bound: calls and replies that do not arrive               *)
  MaxBack      (* bound: back, when a call begins                           *)

Smaller(a, b) == IF a <= b THEN a ELSE b
Greater(a, b) == IF a >= b THEN a ELSE b

(* How long Redis keeps the bucket after a call.                           *)
Ttl == Greater(MinTtl, (TtlFactor * Burst) \div Rate)

(* With 60 and 10, and any rate from a token in 1000 s: Ttl exceeds the    *)
(* time a bucket fills in by 53 s or more, for clocks and timeouts.        *)
ASSUME RedisLimiterAssumption ==
  /\ Rate \in Nat \ {0} /\ Burst \in Nat \ {0} /\ Cost \in 1..Burst
  /\ MinTtl \in Nat /\ TtlFactor \in Nat /\ Fallback \in BOOLEAN
  /\ Spread \in Nat /\ MaxDelay \in Nat /\ MaxTime \in Nat
  /\ MaxFailures \in Nat /\ MaxBack \in Nat
  /\ Spread + MaxDelay <= Ttl /\ Burst <= Rate * (Ttl - Spread - MaxDelay)

VARIABLES
  now,        (* the time at Redis                                          *)
  ahead,      (* per replica: how far its clock is ahead                    *)
  bucket,     (* at Redis: tokens, ts, and until when it is kept            *)
  own,        (* per replica: _mem's bucket, or None                        *)
  pc,         (* per replica: where its call stands: idle, sent, yes or no  *)
              (* (the answer is on its way), given (up, still on its way)   *)
  stamp,      (* per replica: the time its call was made                    *)
  failures,
  granted,    (* history: tokens taken at Redis                             *)
  grantedBy,  (* history: per replica, taken from its own bucket since it   *)
              (* was made                                                   *)
  back,       (* history: by how much calls that were overtaken, or made by *)
              (* a slower clock, have set ts back                           *)
  told,       (* history: what Redis's last answer was, if it refused       *)
  ownTold     (* history: per replica, when its own bucket has asked its    *)
              (* client to come back, by its clock; -1: it has not          *)

vars == <<now, ahead, bucket, own, pc, stamp, failures, granted, grantedBy, back, told, ownTold>>
history == <<granted, grantedBy, back, told, ownTold>>

None == [tokens |-> 0, last |-> -1]
NotTold == [at |-> -1, ahead |-> 0]
Clock(r) == now + ahead[r]

Init ==
  /\ now = 0 /\ ahead \in [Replicas -> 0..Spread]
  /\ bucket = [tokens |-> 0, ts |-> 0, until |-> 0]
  /\ own = [r \in Replicas |-> None]
  /\ pc = [r \in Replicas |-> "idle"]
  /\ stamp = [r \in Replicas |-> 0]
  /\ failures = 0
  /\ granted = 0 /\ grantedBy = [r \in Replicas |-> 0]
  /\ back = 0 /\ told = NotTold /\ ownTold = [r \in Replicas |-> -1]
-----------------------------------------------------------------------------
(* The middleware calls try_consume, which blocks the replica.  allow and  *)
(* retry_after are the same call: the question, too, takes the tokens.     *)
Call(r) ==
  /\ pc[r] = "idle" /\ back < MaxBack
  /\ pc' = [pc EXCEPT ![r] = "sent"]
  /\ stamp' = [stamp EXCEPT ![r] = Clock(r)]
  /\ UNCHANGED <<now, ahead, bucket, own, failures, history>>

(* The script: a bucket that is missing is full; time that runs backwards  *)
(* refills nothing; the caller's time is stored in any case.               *)
Found(t) ==
  IF now < bucket.until THEN bucket ELSE [tokens |-> Burst, ts |-> t, until |-> 0]
Refilled(b, t) == Smaller(Burst, b.tokens + Rate * Greater(0, t - b.ts))

Stored_Admitted(b, t, ok, tokens) ==
  [tokens |-> tokens, ts |-> IF ok THEN t ELSE b.ts, until |-> now + Ttl]
Stored(b, t, ok, tokens) == [tokens |-> tokens, ts |-> t, until |-> now + Ttl]

(* Retry-After: the middleware rounds up what the script has computed.     *)
RetryAfter_Truncated(missing) == missing \div Rate
RetryAfter(missing) == missing \div Rate + 1

Run(r) ==
  /\ pc[r] \in {"sent", "given"}
  /\ LET t  == stamp[r]
         b  == Found(t)
         n  == Refilled(b, t)
         ok == n >= Cost
     IN  /\ bucket' = Stored(b, t, ok, IF ok THEN n - Cost ELSE n)
         /\ pc' = [pc EXCEPT ![r] = IF @ = "given" THEN "idle" ELSE IF ok THEN "yes" ELSE "no"]
         /\ granted' = IF ok THEN granted + Cost ELSE granted
         /\ back' = back + Greater(0, b.ts - t)
         /\ told' = IF ok THEN NotTold
                    ELSE [at |-> now + RetryAfter(Cost - n), ahead |-> ahead[r]]
  /\ UNCHANGED <<now, ahead, own, stamp, failures, grantedBy, ownTold>>

Answered(r) ==
  /\ pc[r] \in {"yes", "no"}
  /\ pc' = [pc EXCEPT ![r] = "idle"]
  /\ stamp' = [stamp EXCEPT ![r] = 0]
  /\ UNCHANGED <<now, ahead, bucket, own, failures, history>>
-----------------------------------------------------------------------------
(* The call or its reply does not arrive.  The client may send the call    *)
(* again, as it was made, or give up (_on_redis_fail) while it still is on *)
(* its way, to run there unheard.                                          *)
Fails(r) ==
  /\ pc[r] \in {"sent", "yes", "no"} /\ failures < MaxFailures
  /\ failures' = failures + 1
  /\ UNCHANGED <<now, ahead, bucket>>

Resend(r) ==
  /\ Fails(r)
  /\ Clock(r) <= stamp[r] + MaxDelay
  /\ pc' = [pc EXCEPT ![r] = "sent"]
  /\ UNCHANGED <<own, stamp, history>>

(* The in-process limiter of the replica.                                  *)
OwnRefilled_Full(r) == [tokens |-> Burst, last |-> Clock(r)]
OwnRefilled(r) ==
  IF own[r] = None THEN [tokens |-> Burst, last |-> Clock(r)]
  ELSE IF Clock(r) > own[r].last
  THEN [tokens |-> Smaller(Burst, own[r].tokens + Rate * (Clock(r) - own[r].last)),
        last |-> Clock(r)]
  ELSE own[r]

(* A refusal without a bucket to ask (fail-closed) carries two seconds,    *)
(* whatever there is at Redis: nobody's promise.                           *)
GiveUp(r) ==
  /\ Fails(r)
  /\ \E to \in {"idle", "given"} :
       /\ to = "given" => pc[r] = "sent"
       /\ pc' = [pc EXCEPT ![r] = to]
       /\ stamp' = [stamp EXCEPT ![r] = IF to = "given" THEN @ ELSE 0]
  /\ LET ok == Fallback /\ OwnRefilled(r).tokens >= Cost
     IN  /\ own' = [own EXCEPT ![r] = IF ~Fallback THEN @
                                      ELSE IF ok THEN [OwnRefilled(r) EXCEPT !.tokens = @ - Cost]
                                      ELSE OwnRefilled(r)]
         /\ grantedBy' = [grantedBy EXCEPT ![r] = IF ok THEN @ + Cost ELSE @]
         /\ ownTold' = [ownTold EXCEPT ![r] = IF ok \/ ~Fallback THEN -1
                           ELSE Clock(r) + RetryAfter(Cost - OwnRefilled(r).tokens)]
  /\ UNCHANGED <<granted, back, told>>

(* reset: the replica's own bucket only.                                   *)
Reset(r) ==
  /\ pc[r] = "idle" /\ Fallback
  /\ own' = [own EXCEPT ![r] = None]
  /\ grantedBy' = [grantedBy EXCEPT ![r] = 0]
  /\ UNCHANGED <<now, ahead, bucket, pc, stamp, failures, granted, back, told, ownTold>>

Tick ==
  /\ now < MaxTime
  /\ \A r \in Replicas : pc[r] \in {"sent", "given"} => Clock(r) < stamp[r] + MaxDelay
  /\ now' = now + 1
  /\ UNCHANGED <<ahead, bucket, own, pc, stamp, failures, history>>

Next ==
  \/ \E r \in Replicas : Call(r) \/ Run(r) \/ Answered(r) \/ Resend(r) \/ GiveUp(r) \/ Reset(r)
  \/ Tick
  \/ now = MaxTime /\ back >= MaxBack /\ UNCHANGED vars

Spec == Init /\ [][Next]_vars
-----------------------------------------------------------------------------
Time == 0..MaxTime + Spread

TypeOK ==
  /\ now \in 0..MaxTime /\ ahead \in [Replicas -> 0..Spread]
  /\ bucket \in [tokens : 0..Burst, ts : Time, until : Nat]
  /\ own \in [Replicas -> [tokens : 0..Burst, last : Time \cup {-1}]]
  /\ pc \in [Replicas -> {"idle", "sent", "yes", "no", "given"}]
  /\ stamp \in [Replicas -> Time]
  /\ failures \in 0..MaxFailures
  /\ granted \in Nat /\ grantedBy \in [Replicas -> Nat] /\ back \in Nat
  /\ told \in [at : Nat \cup {-1}, ahead : 0..Spread]
  /\ ownTold \in [Replicas -> Nat \cup {-1}]

(* However the calls of the replicas overtake each other, are lost, sent   *)
(* again or find the bucket gone, Redis grants a client no more than the   *)
(* burst and the refill of the time that has passed and of the time by     *)
(* which late calls have set the bucket back.                              *)
SharedBound == granted + bucket.tokens <= Burst + Rate * (bucket.ts + back)

(* A replica that falls back grants another burst and refill, no more.     *)
OwnBound ==
  \A r \in Replicas : own[r] # None =>
    grantedBy[r] + own[r].tokens <= Burst + Rate * own[r].last

(* A promise is kept by the bucket that made it.  A client Redis refused,  *)
(* that comes back when Retry-After says and reaches Redis again, is       *)
(* admitted, by any replica whose clock is not behind the one that told    *)
(* it, unless another call of the client came in between.  A client        *)
(* refused by a replica's own bucket, that comes back when told and finds  *)
(* Redis out of that replica's reach again, is admitted there.             *)
KeptAtRedis(r) ==
  /\ pc[r] = "sent" /\ pc'[r] \in {"yes", "no"}
  /\ told # NotTold /\ stamp[r] - ahead[r] >= told.at /\ ahead[r] >= told.ahead
  => pc'[r] = "yes"

KeptByOwn(r) ==
  /\ GiveUp(r)
  /\ ownTold[r] # -1 /\ Clock(r) >= ownTold[r]
  => grantedBy'[r] = grantedBy[r] + Cost

KeptPromise == [][\A r \in Replicas : KeptAtRedis(r) /\ KeptByOwn(r)]_vars
=============================================================================
