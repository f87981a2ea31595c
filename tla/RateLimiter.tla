----------------------------- MODULE RateLimiter ----------------------------
(***************************************************************************)
(* auth.RateLimiter as the router uses it: a bounded map from accounts to  *)
(* their token buckets, from which the least recently used entry is        *)
(* evicted when it is full and idle ones by a goroutine.  A request looks  *)
(* its buckets up under the lock and takes its token after releasing it.   *)
(*                                                                         *)
(* Time goes by in ticks.  Requests in the same tick, and entries idle for *)
(* longer than IdleTicks, are not ordered by their time.                   *)
(***************************************************************************)
EXTENDS Naturals, FiniteSets

CONSTANTS
    Accounts,
    Requests,       \* API handler goroutines that may run at the same time
    Buckets,        \* identities of accountLimiter objects
    Burst,          \* Burst[c]: MutatePerMinute, ReadPerMinute
    PerTick,        \* PerTick[c]: the rate of category c
    MaxEntries,     \* maxLimiterEntries
    IdleTicks,      \* evictionInterval
    MaxDelay,       \* bound: ticks a request may take from getLimiter to Allow
    NoEntry, NoRequest

(* rateLimitMutate and rateLimitRead; no endpoint uses the metrics bucket. *)
Categories == {"mutate", "read"}

ASSUME AccountsAssumption == IsFiniteSet(Accounts)
ASSUME NatAssumption == MaxEntries \in Nat \ {0} /\ IdleTicks \in Nat /\ MaxDelay \in Nat
ASSUME RateAssumption ==
    /\ Burst \in [Categories -> Nat]
    /\ PerTick \in [Categories -> Nat]

(* A bucket fills up in a minute, entries stay for five: also one whose   *)
(* last request was slow is full again when it is evicted.                *)
ASSUME IdleAssumption ==
    /\ MaxDelay <= IdleTicks
    /\ \A c \in Categories : Burst[c] <= PerTick[c] * (IdleTicks + 1 - MaxDelay)

LongAgo == IdleTicks + 1

VARIABLES
    limiters,   \* limiters[a]: the entry of account a, or NoEntry
    buckets,    \* buckets[b][c]: tokens of category c in bucket b
    reqs,       \* requests between getLimiter and Allow
    answer,     \* answer[r]: what became of the last request of r, once it has its answer
    asked       \* history: ticks since an account was last seen

vars == <<limiters, buckets, reqs, answer, asked>>

AtMost(n, limit) == IF n <= limit THEN n ELSE limit

Entries == {a \in Accounts : limiters[a] # NoEntry}

-----------------------------------------------------------------------------
(* rate.Limiter of golang.org/x/time. *)

Refilled(bucket) == [c \in Categories |-> AtMost(bucket[c] + PerTick[c], Burst[c])]

(* The bucket object is not in use: not in the map, not held by a request. *)
Unused(b) ==
    /\ \A a \in Entries : limiters[a].bucket # b
    /\ \A r \in Requests : reqs[r] # NoRequest => reqs[r].bucket # b

-----------------------------------------------------------------------------
(* getLimiter, under the lock. *)

(* Fault: all buckets are made with ReadPerMinute. *)
NewLimiterReadRates == [c \in Categories |-> Burst["read"]]

(* The buckets of a new accountLimiter are full. *)
NewLimiter == Burst

Holding(a, c, b) == [account |-> a, category |-> c, bucket |-> b, wait |-> 0]

(* Fault: lastSeen is only set when the entry is made. *)
HitNotSeen(r, a, c) ==
    /\ reqs[r] = NoRequest
    /\ limiters[a] # NoEntry
    /\ reqs' = [reqs EXCEPT ![r] = Holding(a, c, limiters[a].bucket)]
    /\ asked' = [asked EXCEPT ![a] = 0]
    /\ answer' = [answer EXCEPT ![r] = "none"]
    /\ UNCHANGED <<limiters, buckets>>

Hit(r, a, c) ==
    /\ reqs[r] = NoRequest
    /\ limiters[a] # NoEntry
    /\ limiters' = [limiters EXCEPT ![a].idle = 0]
    /\ reqs' = [reqs EXCEPT ![r] = Holding(a, c, limiters[a].bucket)]
    /\ asked' = [asked EXCEPT ![a] = 0]
    /\ answer' = [answer EXCEPT ![r] = "none"]
    /\ UNCHANGED buckets

(* evictOldest: those it may take. *)
Oldest(S) == {a \in S : \A b \in S : limiters[b].idle <= limiters[a].idle}

(* Fault: room is made only after the limit was passed. *)
EvictedLate ==
    IF Cardinality(Entries) > MaxEntries THEN {{a} : a \in Oldest(Entries)} ELSE {{}}

(* The sets of entries that may go to make room for one more. *)
Evicted ==
    IF Cardinality(Entries) >= MaxEntries THEN {{a} : a \in Oldest(Entries)} ELSE {{}}

Miss(r, a, c, b) ==
    /\ reqs[r] = NoRequest
    /\ limiters[a] = NoEntry
    /\ Unused(b)
    /\ \E E \in Evicted :
          limiters' = [x \in Accounts |->
              IF x = a THEN [bucket |-> b, idle |-> 0]
              ELSE IF x \in E THEN NoEntry ELSE limiters[x]]
    /\ buckets' = [buckets EXCEPT ![b] = NewLimiter]
    /\ reqs' = [reqs EXCEPT ![r] = Holding(a, c, b)]
    /\ asked' = [asked EXCEPT ![a] = 0]
    /\ answer' = [answer EXCEPT ![r] = "none"]

-----------------------------------------------------------------------------
(* Allow, after the lock was released: the entry may be gone by now. *)
Allow(r) ==
    /\ reqs[r] # NoRequest
    /\ LET b == reqs[r].bucket
           c == reqs[r].category
       IN  \/ /\ buckets[b][c] > 0
              /\ buckets' = [buckets EXCEPT ![b][c] = @ - 1]
              /\ answer' = [answer EXCEPT ![r] = "served"]
           \/ /\ buckets[b][c] = 0
              /\ answer' = [answer EXCEPT ![r] = "refused"]
              /\ UNCHANGED buckets
    /\ reqs' = [reqs EXCEPT ![r] = NoRequest]
    /\ UNCHANGED <<limiters, asked>>

-----------------------------------------------------------------------------
(* lastSeen is before the cutoff. *)
Idle(a) == limiters[a].idle > IdleTicks

(* One round of evictLoop. *)
EvictIdle ==
    /\ limiters' = [a \in Accounts |->
          IF a \in Entries /\ Idle(a) THEN NoEntry ELSE limiters[a]]
    /\ UNCHANGED <<buckets, reqs, answer, asked>>

Tick ==
    /\ \A r \in Requests : reqs[r] # NoRequest => reqs[r].wait < MaxDelay
    /\ limiters' = [a \in Accounts |->
          IF a \in Entries THEN [limiters[a] EXCEPT !.idle = AtMost(@ + 1, LongAgo)] ELSE NoEntry]
    /\ buckets' = [b \in Buckets |-> Refilled(buckets[b])]
    /\ reqs' = [r \in Requests |->
          IF reqs[r] = NoRequest THEN NoRequest ELSE [reqs[r] EXCEPT !.wait = @ + 1]]
    /\ asked' = [a \in Accounts |-> AtMost(asked[a] + 1, LongAgo)]
    /\ UNCHANGED answer

-----------------------------------------------------------------------------
Init ==
    /\ limiters = [a \in Accounts |-> NoEntry]
    /\ buckets = [b \in Buckets |-> Burst]
    /\ reqs = [r \in Requests |-> NoRequest]
    /\ answer = [r \in Requests |-> "none"]
    /\ asked = [a \in Accounts |-> LongAgo]

Next ==
    \/ \E r \in Requests, a \in Accounts, c \in Categories :
          Hit(r, a, c) \/ \E b \in Buckets : Miss(r, a, c, b)
    \/ \E r \in Requests : Allow(r)
    \/ EvictIdle
    \/ Tick

Spec == Init /\ [][Next]_vars

-----------------------------------------------------------------------------
(* Properties. *)

Entry == [bucket : Buckets, idle : 0..LongAgo]
Request == [account : Accounts, category : Categories, bucket : Buckets, wait : 0..MaxDelay]

Pending == [account : Accounts, category : Categories, forgotten : BOOLEAN]

ASSUME SentinelAssumption == NoEntry \notin Entry /\ NoRequest \notin Request \cup Pending

(* Every variable has its type; no bucket is overdrawn or overfull. *)
TypeOK ==
    /\ limiters \in [Accounts -> Entry \cup {NoEntry}]
    /\ buckets \in [Buckets -> [Categories -> Nat]]
    /\ \A b \in Buckets, c \in Categories : buckets[b][c] <= Burst[c]
    /\ reqs \in [Requests -> Request \cup {NoRequest}]
    /\ answer \in [Requests -> {"none", "served", "refused"}]
    /\ asked \in [Accounts -> 0..LongAgo]

(* However many accounts there are, the map stays within its limit: the   *)
(* memory bound maxLimiterEntries is for.                                 *)
MapBounded == Cardinality(Entries) <= MaxEntries

(* The refinement mapping: an account without an entry has full buckets,  *)
(* and a request is forgotten when it holds a bucket that left the map.   *)
limitTokens ==
    [a \in Accounts |-> IF limiters[a] = NoEntry THEN Burst ELSE buckets[limiters[a].bucket]]

Current(a, b) == limiters[a] # NoEntry /\ limiters[a].bucket = b

limitPending ==
    [r \in Requests |->
        IF reqs[r] = NoRequest THEN NoRequest
        ELSE [account |-> reqs[r].account, category |-> reqs[r].category,
              forgotten |-> ~Current(reqs[r].account, reqs[r].bucket)]]

Limits == INSTANCE AccountLimits WITH
    tokens <- limitTokens, age <- asked, pending <- limitPending

(* The map with its two evictions, and tokens taken outside the lock, keep *)
(* the limits of AccountLimits: an idle eviction is never noticed, and an  *)
(* account gets more than its rate only if it was the least recently used  *)
(* of more than MaxEntries.                                                *)
ImplementsAccountLimits == Limits!Spec
=============================================================================
