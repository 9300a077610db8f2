---------------------------- MODULE RateLimiter ----------------------------
(***************************************************************************)
(* The in-process token-bucket limiter (core/rate_limit.py, RateLimiter):  *)
(* one bucket per key, at most maxKeys of them, optionally saved to SQLite *)
(* after every request.                                                    *)
(*                                                                         *)
(* Every call holds the limiter's lock from end to end, so a call is one   *)
(* step.  Tokens are counted in a unit that makes the cost of a request    *)
(* and the refill of a tick whole numbers (rate 0.5 per second and cost 1: *)
(* half tokens, Rate = 1, Cost = 2).  The clock is the wall clock: it can  *)
(* be set back.                                                            *)
(***************************************************************************)
EXTENDS Integers, FiniteSets, Functions

CONSTANTS
  Keys,
  Rate,         (* tokens per tick                                          *)
  Burst,        (* the capacity of a bucket                                 *)
  Cost,         (* of one request                                           *)
  Persistent,   (* a persist_path is given                                  *)
  Watched,      (* the key whose caller the history told follows            *)
  Limits,       (* the values max_keys takes, one per process life          *)
  MaxTime,      (* bound: the clock                                         *)
  MaxRestarts,  (* bound: restarts of the process                           *)
  MaxSetBacks   (* bound: how often the clock is set back                   *)

ASSUME RateLimiterAssumption ==
  /\ Rate \in Nat \ {0} /\ Burst \in Nat \ {0} /\ Cost \in Nat \ {0}
  /\ Persistent \in BOOLEAN /\ Watched \in Keys
  /\ Limits \subseteq Nat
  /\ MaxTime \in Nat /\ MaxRestarts \in Nat /\ MaxSetBacks \in Nat

VARIABLES
  now,
  maxKeys,
  bucket,     (* _buckets: key -> [tokens, last]                            *)
  row,        (* the table rl_bucket: key -> [tokens, last]                 *)
  restarts,
  setBacks,
  life,       (* history: key -> [since, admitted], from the creation of    *)
              (* its bucket until it is evicted or reset                    *)
  told,       (* history: when Watched's caller, refused, was last told to  *)
              (* return, or Never: it was not, was admitted since, or the   *)
              (* clock was set back since                                   *)
  kept        (* history: no promise to Watched was broken                  *)

vars == <<now, maxKeys, bucket, row, restarts, setBacks, life, told, kept>>

Time == 0..MaxTime
Never == -1
Bucket == [tokens : 0..Burst, last : Time]
Life == [since : Time, admitted : Nat]
Smaller(a, b) == IF a <= b THEN a ELSE b
Greater(a, b) == IF a >= b THEN a ELSE b

Put(f, k, v) == [x \in DOMAIN f \cup {k} |-> IF x = k THEN v ELSE f[x]]
Without(f, S) == Restrict(f, DOMAIN f \ S)

(* The smallest whole number of ticks in which d tokens come back.         *)
Ticks_Truncated(d) == d \div Rate
Ticks(d) == (d + Rate - 1) \div Rate

Init ==
  /\ now = 0
  /\ maxKeys \in Limits
  /\ bucket = << >> /\ row = << >>
  /\ restarts = 0 /\ setBacks = 0
  /\ life = << >> /\ told = Never /\ kept = TRUE
-----------------------------------------------------------------------------
(* _refill.                                                                 *)

Refilled_Restamped(b) ==
  [tokens |-> IF now > b.last THEN Smaller(Burst, b.tokens + (now - b.last) * Rate)
                              ELSE b.tokens,
   last |-> now]
Refilled(b) ==
  IF now > b.last
  THEN [tokens |-> Smaller(Burst, b.tokens + (now - b.last) * Rate), last |-> now]
  ELSE b

IsFull_OneOver(f) == Cardinality(DOMAIN f) > maxKeys
IsFull(f) == Cardinality(DOMAIN f) >= maxKeys

(* _evict_lru: a tenth of the limit, the longest idle; buckets refilled at *)
(* the same time leave in any order.                                       *)
EvictCount == Greater(1, maxKeys \div 10)
Oldest ==
  {S \in SUBSET DOMAIN bucket :
     /\ Cardinality(S) = Smaller(EvictCount, Cardinality(DOMAIN bucket))
     /\ \A x \in S, y \in DOMAIN bucket \ S : bucket[x].last <= bucket[y].last}

Evicted(k) == IF k \notin DOMAIN bucket /\ IsFull(bucket) THEN Oldest ELSE {{}}

(* The buckets after _refill(k) has evicted S.  One more eviction may not  *)
(* be enough (a smaller limit than the last time): then k gets no bucket.  *)
AfterRefill(k, S) ==
  IF k \in DOMAIN bucket THEN [bucket EXCEPT ![k] = Refilled(@)]
  ELSE IF IsFull(Without(bucket, S)) THEN Without(bucket, S)
  ELSE Put(Without(bucket, S), k, [tokens |-> Burst, last |-> now])

Handed(k, S) ==
  IF k \in DOMAIN AfterRefill(k, S) THEN AfterRefill(k, S)[k]
                                    ELSE [tokens |-> 0, last |-> now]

(* A life begins with its bucket; as long as it has admitted nothing it    *)
(* may begin again.                                                        *)
Opened(k) ==
  IF k \notin DOMAIN life THEN [since |-> now, admitted |-> 0]
  ELSE IF life[k].admitted = 0 THEN [life[k] EXCEPT !.since = Smaller(@, now)]
  ELSE life[k]
-----------------------------------------------------------------------------
Saved(k, b, S, ok) == IF Persistent THEN Put(Without(row, S), k, b) ELSE row

(* What the refused caller of key k, handed bucket b, is told: to come     *)
(* back once the missing tokens are refilled -- too early if the clock     *)
(* stands before the time up to which b is refilled.                       *)
Promise(k, b, ok) ==
  told' = IF k # Watched THEN told
          ELSE IF ok \/ b.last > now THEN Never
          ELSE now + Ticks(Cost - b.tokens)

(* allow, try_consume: refill, take the tokens if they are there, save.    *)
Take(k) ==
  \E S \in Evicted(k) :
    LET b    == Handed(k, S)
        ok   == b.tokens >= Cost
        left == IF ok THEN [b EXCEPT !.tokens = @ - Cost] ELSE b
    IN  /\ bucket' = IF k \in DOMAIN AfterRefill(k, S)
                     THEN [AfterRefill(k, S) EXCEPT ![k] = left]
                     ELSE AfterRefill(k, S)
        /\ row' = Saved(k, left, S, ok)
        /\ life' = Put(Without(life, S), k,
                       [Opened(k) EXCEPT !.admitted = @ + (IF ok THEN Cost ELSE 0)])
        /\ Promise(k, b, ok)
        /\ kept' = (kept /\ ~( /\ k = Watched /\ told # Never /\ told <= now
                              /\ ~ok /\ k \in DOMAIN AfterRefill(k, S) ))
        /\ UNCHANGED <<now, maxKeys, restarts, setBacks>>

(* retry_after: refills, and creates or evicts like a request, but saves   *)
(* nothing except the evictions.                                           *)
Ask(k) ==
  \E S \in Evicted(k) :
    /\ bucket' = AfterRefill(k, S)
    /\ row' = Without(row, S)
    /\ life' = IF k \in DOMAIN AfterRefill(k, S)
               THEN Put(Without(life, S), k, Opened(k)) ELSE Without(life, S)
    /\ UNCHANGED <<now, maxKeys, restarts, setBacks, told, kept>>

(* reset(key) and, with every key, reset().                                *)
Reset(S) ==
  /\ bucket' = Without(bucket, S)
  /\ row' = Without(row, S)
  /\ life' = Without(life, S)
  /\ UNCHANGED <<now, maxKeys, restarts, setBacks, told, kept>>

(* A new process: __init__ with _load, and max_keys as configured now.     *)
Loaded == IF Persistent THEN row ELSE << >>
Restart(limit) ==
  /\ restarts < MaxRestarts
  /\ restarts' = restarts + 1
  /\ maxKeys' = limit
  /\ bucket' = Loaded
  /\ life' = IF Persistent THEN life ELSE << >>
  /\ UNCHANGED <<now, row, setBacks, told, kept>>

Tick ==
  /\ now < MaxTime
  /\ now' = now + 1
  /\ UNCHANGED <<maxKeys, bucket, row, restarts, setBacks, life, told, kept>>

SetBack(t) ==
  /\ setBacks < MaxSetBacks /\ t < now
  /\ setBacks' = setBacks + 1
  /\ now' = t
  /\ told' = Never
  /\ UNCHANGED <<maxKeys, bucket, row, restarts, life, kept>>

Next ==
  \/ \E k \in Keys : Take(k)
  \/ \E k \in Keys : Ask(k)
  \/ \E k \in Keys : Reset({k})
  \/ Reset(Keys)
  \/ \E limit \in Limits : Restart(limit)
  \/ Tick
  \/ \E t \in Time : SetBack(t)

Spec == Init /\ [][Next]_vars
-----------------------------------------------------------------------------
TableOf(f, R) == DOMAIN f \subseteq Keys /\ f \in [DOMAIN f -> R]

(* Every variable has its type; a bucket never holds more than Burst.      *)
TypeOK ==
  /\ now \in Time /\ maxKeys \in Limits
  /\ TableOf(bucket, Bucket)
  /\ TableOf(row, Bucket)
  /\ restarts \in 0..MaxRestarts /\ setBacks \in 0..MaxSetBacks
  /\ TableOf(life, Life)
  /\ told \in Nat \cup {Never} /\ kept \in BOOLEAN

(* What a key was admitted, and what it could still take at once, never    *)
(* exceeds the burst and the refill of the time its bucket has counted --  *)
(* across refusals, questions, restarts from the file and a clock that is  *)
(* set back, until the key is evicted or reset.                            *)
Within(l, b) ==
  l.since <= b.last /\ l.admitted + b.tokens <= Burst + Rate * (b.last - l.since)
AdmittedBound ==
  \A k \in DOMAIN bucket : k \in DOMAIN life /\ Within(life[k], bucket[k])

(* What was admitted is remembered: a key that was admitted something in   *)
(* its life still has its bucket and, in the file, its row.                *)
Remembered ==
  \A k \in DOMAIN life :
    life[k].admitted > 0 => k \in DOMAIN bucket /\ (Persistent => k \in DOMAIN row)

(* While a process lives its table never grows beyond max_keys: a table    *)
(* loaded over the limit only shrinks until it is within it.               *)
RoomKept ==
  [][ restarts' = restarts =>
        \/ Cardinality(DOMAIN bucket') <= maxKeys
        \/ DOMAIN bucket' \subseteq DOMAIN bucket ]_vars

(* A refused caller that waits as long as try_consume told it, and asks    *)
(* for nothing else meanwhile, finds the tokens there: whatever others     *)
(* take, ask, evict or reset, across restarts and changes of the limit --  *)
(* unless the clock was set back.  Only want of room, in a table loaded    *)
(* over its limit, can refuse it again.                                    *)
KeptPromise == kept
=============================================================================
