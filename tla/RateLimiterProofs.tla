------------------------- MODULE RateLimiterProofs --------------------------
(* Proofs of the rate limiter, for any number of accounts, requests and    *)
(* buckets and any rates that the assumptions of RateLimiter allow.        *)
EXTENDS RateLimiter, FiniteSetTheorems, TLAPS

Holds(r, b) == reqs[r] # NoRequest /\ reqs[r].bucket = b

(* A bucket in the map has one account, and only requests of that account  *)
(* hold it.                                                                *)
BucketsInv ==
    /\ \A a, b \in Entries : limiters[a].bucket = limiters[b].bucket => a = b
    /\ \A r \in Requests, a \in Entries :
          Holds(r, limiters[a].bucket) => reqs[r].account = a

(* lastSeen is right, and a request was looked up no earlier than that. *)
SeenInv ==
    /\ \A a \in Entries : limiters[a].idle = asked[a]
    /\ \A r \in Requests, a \in Entries :
          Holds(r, limiters[a].bucket) => limiters[a].idle <= reqs[r].wait

(* A bucket fills up from when the last request can have taken a token. *)
FilledInv ==
    \A a \in Entries, c \in Categories :
        \/ limiters[a].idle <= MaxDelay
        \/ buckets[limiters[a].bucket][c] = Burst[c]
        \/ PerTick[c] * (limiters[a].idle - MaxDelay) <= buckets[limiters[a].bucket][c]

IInv == TypeOK /\ MapBounded /\ BucketsInv /\ SeenInv /\ FilledInv

-----------------------------------------------------------------------------
(* What the assumptions say of the constants. *)
LEMMA Constants ==
    /\ LongAgo \in Nat /\ IdleTicks \in Nat /\ MaxDelay \in Nat /\ MaxDelay <= IdleTicks
    /\ LongAgo = IdleTicks + 1
    /\ \A c \in Categories : Burst[c] \in Nat /\ PerTick[c] \in Nat
BY NatAssumption, RateAssumption, IdleAssumption DEF LongAgo

(* What the types say of the map and of the requests. *)
LEMMA EntryTypes ==
    ASSUME TypeOK
    PROVE  /\ \A a \in Entries : limiters[a] \in Entry
           /\ \A a \in Accounts : a \notin Entries => limiters[a] = NoEntry
           /\ \A r \in Requests : reqs[r] # NoRequest => reqs[r] \in Request
BY DEF TypeOK, Entries

(* The map is finite. *)
LEMMA EntriesFinite == IsFiniteSet(Entries)
<1>1. Entries \subseteq Accounts
  BY DEF Entries
<1> QED  BY <1>1, AccountsAssumption, FS_Subset

(* The entries after a step are those with an entry then. *)
LEMMA FewerEntries ==
    ASSUME MapBounded, Entries' \subseteq Entries
    PROVE  MapBounded'
<1>1. /\ IsFiniteSet(Entries) /\ IsFiniteSet(Entries') /\ Cardinality(Entries') <= Cardinality(Entries)
      /\ Cardinality(Entries) \in Nat /\ Cardinality(Entries') \in Nat
  BY EntriesFinite, FS_Subset, FS_CardinalityType
<1> QED  BY <1>1, NatAssumption DEF MapBounded

(* The invariant holds initially. *)
LEMMA Initial == Init => IInv
<1> SUFFICES ASSUME Init PROVE IInv
  OBVIOUS
<1>1. Entries = {}
  BY DEF Init, Entries
<1>2. TypeOK
  BY Constants, RateAssumption DEF Init, TypeOK
<1>3. MapBounded
  BY <1>1, FS_EmptySet, NatAssumption DEF MapBounded
<1> QED  BY <1>1, <1>2, <1>3 DEF IInv, BucketsInv, SeenInv, FilledInv

-----------------------------------------------------------------------------
(* getLimiter finds an entry, and only says that it was seen now. *)
LEMMA HitMap ==
    ASSUME IInv, NEW r \in Requests, NEW a \in Accounts, NEW c \in Categories, Hit(r, a, c)
    PROVE  /\ a \in Entries
           /\ limiters' \in [Accounts -> Entry \cup {NoEntry}]
           /\ Entries' = Entries
           /\ \A x \in Entries : limiters'[x].bucket = limiters[x].bucket
           /\ limiters'[a].idle = 0 /\ \A x \in Entries : x # a => limiters'[x] = limiters[x]
<1>0. TypeOK /\ a \in Entries /\ limiters[a] \in Entry
  BY EntryTypes DEF IInv, Hit, Entries
<1> DEFINE b == limiters[a].bucket
<1>s. PICK seen \in Entry : /\ limiters' = [limiters EXCEPT ![a] = seen]
                            /\ seen.bucket = b /\ seen.idle = 0
  <2>1. [limiters[a] EXCEPT !.idle = 0] \in Entry
    BY <1>0, Constants DEF Entry
  <2> QED  BY <1>0, <2>1 DEF Hit, Entry
<1>1. limiters' \in [Accounts -> Entry \cup {NoEntry}]
  BY <1>0, <1>s DEF TypeOK
<1>2. Entries' = Entries
  BY <1>0, <1>s, SentinelAssumption DEF TypeOK, Entries
<1>3. \A x \in Entries : limiters'[x].bucket = limiters[x].bucket
  BY <1>0, <1>s DEF TypeOK, Entries
<1>4. limiters'[a].idle = 0 /\ \A x \in Entries : x # a => limiters'[x] = limiters[x]
  BY <1>0, <1>s DEF TypeOK, Entries
<1> QED  BY <1>0, <1>1, <1>2, <1>3, <1>4

(* A lookup that finds its entry preserves the invariant. *)
LEMMA HitStep ==
    ASSUME IInv, NEW r \in Requests, NEW a \in Accounts, NEW c \in Categories, Hit(r, a, c)
    PROVE  IInv'
<1>0. TypeOK /\ a \in Entries /\ limiters[a] \in Entry
  BY HitMap, EntryTypes DEF IInv
<1> DEFINE b == limiters[a].bucket
<1>1. limiters' \in [Accounts -> Entry \cup {NoEntry}]
  BY HitMap
<1>2. Entries' = Entries
  BY HitMap
<1>3. \A x \in Entries : limiters'[x].bucket = limiters[x].bucket
  BY HitMap
<1>4. limiters'[a].idle = 0 /\ \A x \in Entries : x # a => limiters'[x] = limiters[x]
  BY HitMap
<1>5. Holding(a, c, b) \in Request
  BY <1>0, Constants DEF Holding, Entry, Request
<1>6. reqs'[r] = Holding(a, c, b) /\ reqs'[r] # NoRequest /\ \A q \in Requests : q # r => reqs'[q] = reqs[q]
  BY <1>0, <1>5, SentinelAssumption DEF Hit, TypeOK
<1>7. TypeOK'
  BY <1>0, <1>1, <1>5, Constants DEF Hit, TypeOK
<1>8. MapBounded'
  BY <1>2 DEF IInv, MapBounded
<1>9. BucketsInv'
  BY <1>0, <1>2, <1>3, <1>6 DEF IInv, BucketsInv, Holds, Holding
<1>10. SeenInv'
  <2>1. \A x \in Entries : limiters'[x].idle = asked'[x]
    BY <1>0, <1>4 DEF Hit, TypeOK, IInv, SeenInv, Entries
  <2>2. ASSUME NEW q \in Requests, NEW x \in Entries, Holds(q, limiters[x].bucket)'
        PROVE  limiters'[x].idle <= reqs'[q].wait
    <3>1. CASE x = a
      <4>1. reqs'[q] \in Request
        BY <1>7, <2>2 DEF TypeOK, Holds
      <4> QED  BY <1>4, <3>1, <4>1, Constants DEF Request
    <3>2. CASE x # a
      <4>1. q # r
        BY <1>0, <1>3, <1>6, <2>2, <3>2 DEF Holds, Holding, IInv, BucketsInv
      <4> QED  BY <1>3, <1>4, <1>6, <2>2, <3>2, <4>1 DEF Holds, IInv, SeenInv
    <3> QED  BY <3>1, <3>2
  <2> QED  BY <1>2, <1>3, <2>1, <2>2 DEF SeenInv, Holds
<1>11. FilledInv'
  <2>1. UNCHANGED buckets
    BY DEF Hit
  <2> QED  BY <1>2, <1>3, <1>4, <2>1, Constants DEF IInv, FilledInv
<1> QED  BY <1>7, <1>8, <1>9, <1>10, <1>11 DEF IInv

(* Room is made for one entry: there is some, or an oldest one goes. *)
LEMMA EvictedCases ==
    ASSUME NEW E \in Evicted
    PROVE  \/ E = {} /\ Cardinality(Entries) < MaxEntries
           \/ Cardinality(Entries) >= MaxEntries /\ \E f \in Oldest(Entries) : E = {f}
<1>1. Cardinality(Entries) \in Nat
  BY EntriesFinite, FS_CardinalityType
<1> QED  BY <1>1, NatAssumption DEF Evicted

(* Evicting one entry for another leaves the size of the map as it is. *)
LEMMA SwapCardinality ==
    ASSUME NEW S, IsFiniteSet(S), NEW x \in S, NEW y, y \notin S
    PROVE  Cardinality((S \ {x}) \cup {y}) = Cardinality(S)
<1>1. PICK T : T = S \ {x}
  OBVIOUS
<1>2. IsFiniteSet(T) /\ Cardinality(T) = Cardinality(S) - 1 /\ Cardinality(S) \in Nat
  BY <1>1, FS_RemoveElement, FS_CardinalityType
<1>3. Cardinality(T \cup {y}) = Cardinality(T) + 1
  BY <1>1, <1>2, FS_AddElement
<1> QED  BY <1>1, <1>2, <1>3

(* What a new entry does to the map. *)
LEMMA MissMap ==
    ASSUME IInv, NEW r \in Requests, NEW a \in Accounts, NEW c \in Categories,
           NEW b \in Buckets, Miss(r, a, c, b)
    PROVE  \E E \in Evicted :
              /\ E \subseteq Entries /\ a \notin Entries
              /\ limiters' \in [Accounts -> Entry \cup {NoEntry}]
              /\ Entries' = (Entries \ E) \cup {a}
              /\ limiters'[a] = [bucket |-> b, idle |-> 0]
              /\ \A x \in Entries \ E : x # a /\ limiters'[x] = limiters[x]
<1>1. PICK E \in Evicted :
         limiters' = [x \in Accounts |->
              IF x = a THEN [bucket |-> b, idle |-> 0]
              ELSE IF x \in E THEN NoEntry ELSE limiters[x]]
  BY DEF Miss
<1>2. E \subseteq Entries
  BY EvictedCases DEF Oldest
<1>3. a \notin Entries
  BY DEF Miss, Entries
<1>4. [bucket |-> b, idle |-> 0] \in Entry
  BY Constants DEF Entry
<1>5. limiters' \in [Accounts -> Entry \cup {NoEntry}]
  BY <1>1, <1>4 DEF IInv, TypeOK
<1>6. \A x \in Accounts : limiters'[x] =
         IF x = a THEN [bucket |-> b, idle |-> 0] ELSE IF x \in E THEN NoEntry ELSE limiters[x]
  BY <1>1
<1>7. Entries' = (Entries \ E) \cup {a}
  BY <1>4, <1>6, SentinelAssumption DEF Entries
<1>8. \A x \in Entries \ E : x # a /\ limiters'[x] = limiters[x]
  BY <1>3, <1>6 DEF Entries
<1> QED  BY <1>2, <1>3, <1>5, <1>6, <1>7, <1>8

(* A lookup that adds an entry, evicting one or not, preserves the invariant. *)
LEMMA MissStep ==
    ASSUME IInv, NEW r \in Requests, NEW a \in Accounts, NEW c \in Categories,
           NEW b \in Buckets, Miss(r, a, c, b)
    PROVE  IInv'
<1>0. TypeOK
  BY DEF IInv
<1>1. PICK E \in Evicted :
         /\ E \subseteq Entries /\ a \notin Entries
         /\ limiters' \in [Accounts -> Entry \cup {NoEntry}]
         /\ Entries' = (Entries \ E) \cup {a}
         /\ limiters'[a] = [bucket |-> b, idle |-> 0]
         /\ \A x \in Entries \ E : x # a /\ limiters'[x] = limiters[x]
  BY MissMap
<1>2. Holding(a, c, b) \in Request
  BY Constants DEF Holding, Request
<1>3. /\ reqs'[r] = Holding(a, c, b) /\ reqs'[r] # NoRequest
      /\ \A q \in Requests : q # r => reqs'[q] = reqs[q]
  BY <1>0, <1>2, SentinelAssumption DEF Miss, TypeOK
<1>4. /\ buckets'[b] = Burst
      /\ \A x \in Buckets : x # b => buckets'[x] = buckets[x]
  BY <1>0 DEF Miss, TypeOK, NewLimiter
<1>5. /\ \A x \in Entries : limiters[x].bucket # b
      /\ \A q \in Requests : ~Holds(q, b)
  BY DEF Miss, Unused, Holds
<1>6. asked'[a] = 0 /\ \A x \in Accounts : x # a => asked'[x] = asked[x]
  BY <1>0 DEF Miss, TypeOK
<1>7. TypeOK'
  <2>1. buckets' \in [Buckets -> [Categories -> Nat]]
    BY <1>0, RateAssumption DEF Miss, TypeOK, NewLimiter
  <2>2. \A x \in Buckets, d \in Categories : buckets'[x][d] <= Burst[d]
    BY <1>0, <1>4, Constants DEF TypeOK
  <2>3. reqs' \in [Requests -> Request \cup {NoRequest}]
    BY <1>0, <1>2 DEF Miss, TypeOK
  <2> QED  BY <1>0, <1>1, <2>1, <2>2, <2>3, Constants DEF Miss, TypeOK
<1>8. MapBounded'
  <2>1. IsFiniteSet(Entries) /\ Cardinality(Entries) \in Nat /\ Cardinality(Entries) <= MaxEntries
    BY EntriesFinite, FS_CardinalityType DEF IInv, MapBounded
  <2>2. CASE E = {} /\ Cardinality(Entries) < MaxEntries
    <3>1. Entries' = Entries \cup {a} /\ a \notin Entries
      BY <1>1, <2>2
    <3>2. Cardinality(Entries \cup {a}) = Cardinality(Entries) + 1
      BY <2>1, <3>1, FS_AddElement
    <3> QED  BY <2>1, <2>2, <3>1, <3>2, NatAssumption DEF MapBounded
  <2>3. CASE \E f \in Oldest(Entries) : E = {f}
    <3>1. PICK f \in Entries : E = {f}
      BY <2>3 DEF Oldest
    <3>2. Cardinality((Entries \ {f}) \cup {a}) = Cardinality(Entries)
      BY <1>1, <2>1, <3>1, SwapCardinality
    <3> QED  BY <1>1, <2>1, <3>1, <3>2 DEF MapBounded
  <2> QED  BY <2>2, <2>3, EvictedCases
<1>9. BucketsInv'
  BY <1>1, <1>3, <1>5 DEF IInv, BucketsInv, Holds, Holding
<1>10. SeenInv'
  <2>1. \A x \in Entries' : limiters'[x].idle = asked'[x]
    BY <1>1, <1>6 DEF IInv, SeenInv, Entries
  <2>2. \A q \in Requests, x \in Entries' :
           Holds(q, limiters[x].bucket)' => limiters'[x].idle <= reqs'[q].wait
    <3>1. \A q \in Requests : q # r => ~Holds(q, b)'
      BY <1>3, <1>5 DEF Holds
    <3>2. 0 <= reqs'[r].wait /\ reqs'[r].bucket = b
      BY <1>3 DEF Holding
    <3> QED  BY <1>1, <1>3, <1>5, <3>1, <3>2 DEF IInv, SeenInv, Holds
  <2> QED  BY <2>1, <2>2 DEF SeenInv
<1>11. FilledInv'
  <2>1. \A x \in Entries \ E : buckets'[limiters[x].bucket] = buckets[limiters[x].bucket]
    BY <1>0, <1>4, <1>5, EntryTypes DEF Entry
  <2> QED  BY <1>1, <1>4, <2>1, Constants DEF IInv, FilledInv
<1> QED  BY <1>7, <1>8, <1>9, <1>10, <1>11 DEF IInv

(* A token is taken from a bucket that, if it is still in the map, was     *)
(* looked up less than MaxDelay ago.                                       *)
LEMMA AllowStep ==
    ASSUME IInv, NEW r \in Requests, Allow(r)
    PROVE  IInv'
<1>0. TypeOK /\ reqs[r] \in Request /\ reqs[r] # NoRequest /\ UNCHANGED <<limiters, asked>>
  BY EntryTypes DEF IInv, Allow
<1> DEFINE b == reqs[r].bucket
           c == reqs[r].category
<1>1. b \in Buckets /\ c \in Categories /\ buckets[b][c] \in Nat
  BY <1>0 DEF Request, TypeOK
<1>2. \/ UNCHANGED buckets
      \/ buckets[b][c] > 0 /\ buckets' = [buckets EXCEPT ![b][c] = @ - 1]
  BY DEF Allow
<1>3. /\ buckets' \in [Buckets -> [Categories -> Nat]]
      /\ \A x \in Buckets, d \in Categories : buckets'[x][d] <= buckets[x][d]
      /\ \A x \in Buckets : x # b => buckets'[x] = buckets[x]
  <2>1. CASE UNCHANGED buckets
    BY <1>0, <2>1 DEF TypeOK
  <2>2. CASE buckets[b][c] > 0 /\ buckets' = [buckets EXCEPT ![b][c] = @ - 1]
    <3>1. PICK less : less = [buckets[b] EXCEPT ![c] = @ - 1]
      OBVIOUS
    <3>2. less \in [Categories -> Nat] /\ \A d \in Categories : less[d] <= buckets[b][d]
      BY <1>0, <1>1, <2>2, <3>1 DEF TypeOK
    <3>3. buckets' = [buckets EXCEPT ![b] = less]
      BY <2>2, <3>1
    <3> QED  BY <1>0, <1>1, <3>2, <3>3 DEF TypeOK
  <2> QED  BY <1>2, <2>1, <2>2
<1>4. reqs'[r] = NoRequest /\ \A q \in Requests : q # r => reqs'[q] = reqs[q]
  BY <1>0 DEF Allow, TypeOK
<1>5. TypeOK'
  <2>1. \A x \in Buckets, d \in Categories : buckets'[x][d] <= Burst[d]
    BY <1>0, <1>3, Constants DEF TypeOK
  <2> QED  BY <1>0, <1>3, <2>1 DEF Allow, TypeOK
<1>6. Entries' = Entries
  BY <1>0 DEF Entries
<1>7. MapBounded' /\ BucketsInv' /\ SeenInv'
  BY <1>0, <1>4, <1>6 DEF IInv, MapBounded, BucketsInv, SeenInv, Holds
<1>8. FilledInv'
  <2> SUFFICES ASSUME NEW x \in Entries, NEW d \in Categories, limiters[x].idle > MaxDelay
               PROVE  buckets'[limiters[x].bucket] = buckets[limiters[x].bucket]
    BY <1>0, <1>6, Constants, EntryTypes DEF IInv, FilledInv, Entry
  <2>1. limiters[x].bucket # b
    BY <1>0, Constants, EntryTypes DEF IInv, SeenInv, Holds, Request, Entry
  <2> QED  BY <1>0, <1>3, <2>1, EntryTypes DEF Entry
<1> QED  BY <1>5, <1>7, <1>8 DEF IInv

(* evictLoop removes entries, and nothing else. *)
LEMMA EvictIdleStep ==
    ASSUME IInv, EvictIdle
    PROVE  IInv'
<1>0. TypeOK /\ UNCHANGED <<buckets, reqs, answer, asked>>
  BY DEF IInv, EvictIdle
<1>1. \A a \in Accounts : limiters'[a] = IF a \in Entries /\ Idle(a) THEN NoEntry ELSE limiters[a]
  BY DEF EvictIdle
<1>2. Entries' \subseteq Entries /\ \A a \in Entries' : limiters'[a] = limiters[a]
  BY <1>1 DEF Entries
<1>3. limiters' \in [Accounts -> Entry \cup {NoEntry}]
  BY <1>0 DEF EvictIdle, TypeOK
<1>4. TypeOK'
  BY <1>0, <1>3 DEF TypeOK
<1>5. MapBounded'
  BY <1>2, FewerEntries DEF IInv
<1>6. BucketsInv' /\ SeenInv' /\ FilledInv'
  BY <1>0, <1>2 DEF IInv, BucketsInv, SeenInv, FilledInv, Holds
<1> QED  BY <1>4, <1>5, <1>6 DEF IInv

(* A tick's worth of tokens keeps a bucket ahead of the line it has to     *)
(* stay above, which ends at the bucket's size when the entry gets idle.   *)
LEMMA TickFills ==
    ASSUME NEW P \in Nat, NEW B \in Nat, NEW M \in Nat, NEW L \in Nat, M < L,
           B <= P * (L - M),
           NEW i \in 0..L, NEW t \in 0..B,
           i <= M \/ t = B \/ P * (i - M) <= t
    PROVE  \/ AtMost(i + 1, L) <= M
           \/ AtMost(t + P, B) = B
           \/ P * (AtMost(i + 1, L) - M) <= AtMost(t + P, B)
<1>1. CASE t = B \/ t + P >= B
  BY <1>1 DEF AtMost
<1>2. CASE t + P < B /\ i <= M
  <2>1. AtMost(i + 1, L) <= M \/ AtMost(i + 1, L) - M = 1
    BY <1>2 DEF AtMost
  <2>2. AtMost(t + P, B) = t + P
    BY <1>2 DEF AtMost
  <2>3. P * 1 = P
    OBVIOUS
  <2> QED  BY <2>1, <2>2, <2>3
<1>3. CASE t + P < B /\ i > M /\ i < L
  <2>1. AtMost(i + 1, L) = i + 1 /\ AtMost(t + P, B) = t + P
    BY <1>3 DEF AtMost
  <2>2. PICK k \in Nat : k = i - M
    BY <1>3
  <2>3. P * (k + 1) = P * k + P /\ P * k \in Nat
    BY <2>2
  <2>4. (i + 1) - M = k + 1
    BY <2>2
  <2> QED  BY <1>3, <2>1, <2>2, <2>3, <2>4
<1>4. CASE t + P < B /\ i = L
  <2>1. PICK k \in Nat : k = P * (L - M)
    OBVIOUS
  <2>2. t = B \/ k <= t
    BY <1>4, <2>1
  <2> QED  BY <1>4, <2>1, <2>2
<1> QED  BY <1>1, <1>2, <1>3, <1>4

(* What a tick does to the entries of the map. *)
LEMMA TickMap ==
    ASSUME IInv, Tick
    PROVE  /\ \A a \in Entries :
                 /\ limiters[a] \in Entry /\ limiters'[a] \in Entry /\ limiters'[a] # NoEntry
                 /\ limiters'[a].bucket = limiters[a].bucket
                 /\ limiters'[a].idle = AtMost(limiters[a].idle + 1, LongAgo)
           /\ \A a \in Accounts : a \notin Entries => limiters'[a] = NoEntry
<1>0. TypeOK
  BY DEF IInv
<1>a. ASSUME NEW a \in Accounts, a \notin Entries PROVE limiters'[a] = NoEntry
  BY <1>a DEF Tick
<1> SUFFICES ASSUME NEW a \in Entries
             PROVE  /\ limiters[a] \in Entry /\ limiters'[a] \in Entry
                    /\ limiters'[a].bucket = limiters[a].bucket
                    /\ limiters'[a].idle = AtMost(limiters[a].idle + 1, LongAgo)
  BY <1>a, SentinelAssumption
<1>1. a \in Accounts /\ limiters[a] \in Entry
  BY <1>0, EntryTypes DEF Entries
<1>2. limiters'[a] = [limiters[a] EXCEPT !.idle = AtMost(@ + 1, LongAgo)]
  BY <1>1 DEF Tick
<1>3. AtMost(limiters[a].idle + 1, LongAgo) \in 0..LongAgo
  BY <1>1, Constants DEF Entry, AtMost
<1> QED  BY <1>1, <1>2, <1>3 DEF Entry

(* What a tick does to the requests in flight. *)
LEMMA TickRequests ==
    ASSUME IInv, Tick
    PROVE  \A r \in Requests :
             /\ reqs[r] = NoRequest => reqs'[r] = NoRequest
             /\ reqs[r] # NoRequest =>
                   /\ reqs'[r] \in Request /\ reqs'[r].wait = reqs[r].wait + 1
                   /\ reqs'[r].bucket = reqs[r].bucket /\ reqs'[r].account = reqs[r].account
                   /\ reqs[r].wait \in Nat
<1>0. TypeOK
  BY DEF IInv
<1> SUFFICES ASSUME NEW r \in Requests, reqs[r] # NoRequest
             PROVE  /\ reqs'[r] \in Request /\ reqs'[r].wait = reqs[r].wait + 1
                    /\ reqs'[r].bucket = reqs[r].bucket /\ reqs'[r].account = reqs[r].account
                    /\ reqs[r].wait \in Nat
  BY DEF Tick
<1>1. reqs[r] \in Request /\ reqs[r].wait < MaxDelay /\ reqs[r].wait \in Nat
  BY <1>0, EntryTypes, Constants DEF Tick, Request
<1>2. reqs'[r] = [reqs[r] EXCEPT !.wait = @ + 1]
  BY DEF Tick
<1>3. reqs[r].wait + 1 \in 0..MaxDelay
  BY <1>1, Constants
<1> QED  BY <1>1, <1>2, <1>3 DEF Request

(* A tick preserves the invariant. *)
LEMMA TickStep ==
    ASSUME IInv, Tick
    PROVE  IInv'
<1>0. TypeOK
  BY DEF IInv
<1>1. \A a \in Entries :
         /\ limiters[a] \in Entry /\ limiters'[a] \in Entry
         /\ limiters'[a].bucket = limiters[a].bucket
         /\ limiters'[a].idle = AtMost(limiters[a].idle + 1, LongAgo)
  BY TickMap
<1>2. \A a \in Accounts : a \notin Entries => limiters'[a] = NoEntry
  BY TickMap
<1>3. limiters' \in [Accounts -> Entry \cup {NoEntry}]
  <2>1. \A a \in Accounts : limiters'[a] \in Entry \cup {NoEntry}
    BY <1>1, <1>2
  <2> QED  BY <2>1 DEF Tick
<1>4. Entries' = Entries
  <2>1. \A a \in Accounts : limiters'[a] # NoEntry <=> a \in Entries
    BY <1>1, <1>2, SentinelAssumption
  <2> QED  BY <2>1 DEF Entries
<1>5. \A b \in Buckets, c \in Categories :
         /\ buckets[b][c] \in 0..Burst[c]
         /\ buckets'[b][c] = AtMost(buckets[b][c] + PerTick[c], Burst[c])
         /\ buckets'[b][c] \in 0..Burst[c]
  BY <1>0, Constants DEF Tick, Refilled, AtMost, TypeOK
<1>6. \A r \in Requests :
         /\ reqs[r] = NoRequest => reqs'[r] = NoRequest
         /\ reqs[r] # NoRequest =>
               /\ reqs'[r] \in Request /\ reqs'[r].wait = reqs[r].wait + 1
               /\ reqs'[r].bucket = reqs[r].bucket /\ reqs'[r].account = reqs[r].account
               /\ reqs[r].wait \in Nat
  BY TickRequests
<1>7. \A a \in Accounts : asked'[a] = AtMost(asked[a] + 1, LongAgo) /\ asked'[a] \in 0..LongAgo
  BY <1>0, Constants DEF Tick, TypeOK, AtMost
<1>8. TypeOK'
  <2>1. buckets' \in [Buckets -> [Categories -> Nat]]
    BY <1>5, Constants DEF Tick, Refilled
  <2>2. \A b \in Buckets, c \in Categories : buckets'[b][c] <= Burst[c]
    BY <1>5, Constants
  <2>3. reqs' \in [Requests -> Request \cup {NoRequest}]
    <3>1. \A r \in Requests : reqs'[r] \in Request \cup {NoRequest}
      BY <1>6
    <3> QED  BY <3>1 DEF Tick
  <2>4. asked' \in [Accounts -> 0..LongAgo]
    BY <1>7 DEF Tick
  <2> QED  BY <1>0, <1>3, <2>1, <2>2, <2>3, <2>4 DEF TypeOK, Tick
<1>9. MapBounded'
  BY <1>4 DEF IInv, MapBounded
<1>10. BucketsInv'
  BY <1>1, <1>4, <1>6 DEF IInv, BucketsInv, Holds
<1>11. SeenInv'
  <2>1. \A a \in Entries : limiters'[a].idle = asked'[a]
    BY <1>1, <1>7 DEF IInv, SeenInv, Entries
  <2>2. ASSUME NEW r \in Requests, NEW a \in Entries, Holds(r, limiters[a].bucket)'
        PROVE  limiters'[a].idle <= reqs'[r].wait
    <3>1. limiters[a].idle <= reqs[r].wait /\ reqs'[r].wait = reqs[r].wait + 1 /\ reqs[r].wait \in Nat
      BY <1>1, <1>6, <2>2 DEF IInv, SeenInv, Holds
    <3>2. limiters[a].idle \in 0..LongAgo /\ limiters'[a].idle = AtMost(limiters[a].idle + 1, LongAgo)
      BY <1>1 DEF Entry
    <3> QED  BY <3>1, <3>2, Constants DEF AtMost
  <2> QED  BY <1>1, <1>4, <2>1, <2>2 DEF SeenInv, Holds
<1>12. FilledInv'
  <2> SUFFICES ASSUME NEW a \in Entries, NEW c \in Categories
               PROVE  \/ limiters'[a].idle <= MaxDelay
                      \/ buckets'[limiters'[a].bucket][c] = Burst[c]
                      \/ PerTick[c] * (limiters'[a].idle - MaxDelay) <= buckets'[limiters'[a].bucket][c]
    BY <1>4 DEF FilledInv
  <2>1. PICK b \in Buckets : b = limiters[a].bucket /\ b = limiters'[a].bucket
    BY <1>1 DEF Entry
  <2>2. limiters[a].idle \in 0..LongAgo /\ limiters'[a].idle = AtMost(limiters[a].idle + 1, LongAgo)
    BY <1>1 DEF Entry
  <2>3. buckets[b][c] \in 0..Burst[c] /\ buckets'[b][c] = AtMost(buckets[b][c] + PerTick[c], Burst[c])
    BY <1>5
  <2>4. Burst[c] <= PerTick[c] * (LongAgo - MaxDelay) /\ MaxDelay < LongAgo
    BY IdleAssumption, Constants
  <2>5. limiters[a].idle <= MaxDelay \/ buckets[b][c] = Burst[c]
          \/ PerTick[c] * (limiters[a].idle - MaxDelay) <= buckets[b][c]
    BY <2>1 DEF IInv, FilledInv
  <2>6. PICK P \in Nat, B \in Nat : P = PerTick[c] /\ B = Burst[c]
    BY Constants
  <2>7. PICK i \in 0..LongAgo, t \in 0..B : i = limiters[a].idle /\ t = buckets[b][c]
    BY <2>2, <2>3, <2>6
  <2>8. \/ AtMost(i + 1, LongAgo) <= MaxDelay
        \/ AtMost(t + P, B) = B
        \/ P * (AtMost(i + 1, LongAgo) - MaxDelay) <= AtMost(t + P, B)
    <3>1. i <= MaxDelay \/ t = B \/ P * (i - MaxDelay) <= t
      BY <2>5, <2>6, <2>7
    <3>2. B <= P * (LongAgo - MaxDelay)
      BY <2>4, <2>6
    <3> HIDE DEF LongAgo
    <3> QED  BY <2>4, <3>1, <3>2, TickFills, Constants
  <2> QED  BY <2>1, <2>2, <2>3, <2>6, <2>7, <2>8
<1> QED  BY <1>8, <1>9, <1>10, <1>11, <1>12 DEF IInv

-----------------------------------------------------------------------------
(* Every step, and the stuttering step, preserves the invariant. *)
LEMMA Step == IInv /\ [Next]_vars => IInv'
<1> SUFFICES ASSUME IInv, [Next]_vars PROVE IInv'
  OBVIOUS
<1>1. CASE UNCHANGED vars
  BY <1>1 DEF vars, IInv, TypeOK, MapBounded, BucketsInv, SeenInv, FilledInv, Entries, Holds
<1> QED  BY <1>1, HitStep, MissStep, AllowStep, EvictIdleStep, TickStep DEF Next

(* The inductive invariant of the limiter: the map's buckets are its       *)
(* accounts' own, and they fill up before their entries become idle.       *)
THEOREM Inductive == Spec => []IInv
BY Initial, Step, PTL DEF Spec

(* Type correctness; tokens stay between none and the burst. *)
THEOREM TypeCorrect == Spec => []TypeOK
<1>1. IInv => TypeOK
  BY DEF IInv
<1> QED  BY <1>1, Inductive, PTL

(* getLimiter keeps the map within maxLimiterEntries. *)
THEOREM MapBoundedHolds == Spec => []MapBounded
<1>1. IInv => MapBounded
  BY DEF IInv
<1> QED  BY <1>1, Inductive, PTL

-----------------------------------------------------------------------------
(* The refinement: every step of the limiter is a step of AccountLimits    *)
(* under the mapping limitTokens, limitPending, asked, answer.             *)

(* How a request of the code appears to the account limits. *)
LEMMA MappedRequest ==
    ASSUME TypeOK, NEW q \in Requests
    PROVE  /\ reqs[q] = NoRequest => limitPending[q] = NoRequest
           /\ reqs[q] # NoRequest =>
                 /\ limitPending[q] # NoRequest
                 /\ limitPending[q].account = reqs[q].account
                 /\ limitPending[q].category = reqs[q].category
                 /\ limitPending[q].forgotten = ~Current(reqs[q].account, reqs[q].bucket)
<1>1. CASE reqs[q] = NoRequest
  BY <1>1 DEF limitPending
<1>2. CASE reqs[q] # NoRequest
  <2>1. limitPending[q] =
           [account |-> reqs[q].account, category |-> reqs[q].category,
            forgotten |-> ~Current(reqs[q].account, reqs[q].bucket)]
    BY <1>2 DEF limitPending
  <2>2. reqs[q] \in Request
    BY <1>2, EntryTypes
  <2>3. (~Current(reqs[q].account, reqs[q].bucket)) \in BOOLEAN
    OBVIOUS
  <2>4. limitPending[q] \in Pending
    BY <2>1, <2>2, <2>3 DEF Request, Pending
  <2> QED  BY <1>2, <2>1, <2>4, SentinelAssumption
<1> QED  BY <1>1, <1>2

(* The mapping keeps what it has of a request whose lookup stands. *)
LEMMA MappedSame ==
    ASSUME NEW q \in Requests, reqs'[q] = reqs[q],
           reqs[q] # NoRequest =>
               Current(reqs[q].account, reqs[q].bucket)' = Current(reqs[q].account, reqs[q].bucket)
    PROVE  limitPending'[q] = limitPending[q]
BY DEF limitPending

(* A function that differs from another at one place. *)
LEMMA ChangedAt ==
    ASSUME NEW S, NEW f, NEW g, f = [x \in S |-> f[x]], g = [x \in S |-> g[x]],
           NEW r \in S, NEW v, g[r] = v, \A x \in S : x # r => g[x] = f[x]
    PROVE  g = [f EXCEPT ![r] = v]
OBVIOUS

(* A change of one mapped request is a change of the whole at one place. *)
LEMMA MappedExcept ==
    ASSUME NEW r \in Requests, NEW v, limitPending'[r] = v,
           \A q \in Requests : q # r => limitPending'[q] = limitPending[q]
    PROVE  limitPending' = [limitPending EXCEPT ![r] = v]
<1>1. limitPending = [q \in Requests |-> limitPending[q]]
  BY DEF limitPending
<1>2. limitPending' = [q \in Requests |-> limitPending'[q]]
  BY DEF limitPending
<1> QED  BY <1>1, <1>2, ChangedAt

(* Tokens that stay account by account stay as a whole. *)
LEMMA TokensUnchanged ==
    ASSUME \A a \in Accounts : limitTokens'[a] = limitTokens[a]
    PROVE  UNCHANGED limitTokens
BY DEF limitTokens

(* A change of one account's tokens is a change of the whole at one place. *)
LEMMA TokensExcept ==
    ASSUME NEW a \in Accounts, NEW v, limitTokens'[a] = v,
           \A x \in Accounts : x # a => limitTokens'[x] = limitTokens[x]
    PROVE  limitTokens' = [limitTokens EXCEPT ![a] = v]
<1>1. limitTokens = [x \in Accounts |-> limitTokens[x]]
  BY DEF limitTokens
<1>2. limitTokens' = [x \in Accounts |-> limitTokens'[x]]
  BY DEF limitTokens
<1> QED  BY <1>1, <1>2, ChangedAt

(* How a bucket of the code appears to the account limits. *)
LEMMA MappedTokens ==
    ASSUME NEW a \in Accounts
    PROVE  /\ a \in Entries => limitTokens[a] = buckets[limiters[a].bucket]
           /\ a \notin Entries => limitTokens[a] = Burst
BY DEF limitTokens, Entries

(* The cardinality of AccountLimits is the usual one. *)
LEMMA LimitsCardinality == \A S : Limits!Cardinality(S) = Cardinality(S)
BY DEF Limits!Cardinality, Cardinality

(* A lookup that finds its entry is a request to the account limits. *)
LEMMA HitRefines ==
    ASSUME IInv, NEW r \in Requests, NEW a \in Accounts, NEW c \in Categories, Hit(r, a, c)
    PROVE  Limits!Ask(r, a, c)
<1>0. TypeOK /\ reqs \in [Requests -> Request \cup {NoRequest}] /\ reqs[r] = NoRequest
  BY DEF IInv, TypeOK, Hit
<1>1. /\ a \in Entries /\ Entries' = Entries
      /\ \A x \in Entries : limiters'[x].bucket = limiters[x].bucket
  BY HitMap
<1>2. /\ reqs'[r] = Holding(a, c, limiters[a].bucket)
      /\ \A q \in Requests : q # r => reqs'[q] = reqs[q]
  BY <1>0 DEF Hit
<1>3. \A x \in Accounts : \A b : Current(x, b)' = Current(x, b)
  BY <1>1 DEF Current, Entries
<1>4. \A q \in Requests : q # r => limitPending'[q] = limitPending[q]
  BY <1>0, <1>2, <1>3, EntryTypes, MappedSame DEF Request
<1>5. limitPending'[r] = Limits!Asking(a, c)
  <2>1. PICK b \in Buckets : b = limiters[a].bucket
    BY <1>0, <1>1, EntryTypes DEF Entry
  <2>2. Holding(a, c, b) \in Request
    BY Constants DEF Holding, Request
  <2>3. (~Current(a, b)') = FALSE
    BY <1>1, <1>3, <2>1 DEF Current, Entries
  <2>4. limitPending'[r] = [account |-> a, category |-> c, forgotten |-> ~Current(a, b)']
    BY <1>2, <2>1, <2>2, SentinelAssumption DEF limitPending, Holding
  <2> QED  BY <2>3, <2>4 DEF Limits!Asking
<1>6. UNCHANGED limitTokens
  BY <1>1, TokensUnchanged DEF limitTokens, Hit, Entries
<1>7. limitPending' = [limitPending EXCEPT ![r] = Limits!Asking(a, c)]
  BY <1>4, <1>5, MappedExcept
<1>8. limitPending[r] = NoRequest
  BY <1>0, MappedRequest
<1> QED  BY <1>6, <1>7, <1>8 DEF Limits!Ask, Hit

(* Marking a pending request forgotten changes nothing else of it. *)
LEMMA SetForgotten ==
    ASSUME NEW a, NEW c, NEW was, NEW now
    PROVE  [[account |-> a, category |-> c, forgotten |-> was] EXCEPT !.forgotten = now]
             = [account |-> a, category |-> c, forgotten |-> now]
OBVIOUS

(* A new entry takes the place of at most one other. *)
LEMMA MissRefines ==
    ASSUME IInv, NEW r \in Requests, NEW a \in Accounts, NEW c \in Categories,
           NEW b \in Buckets, Miss(r, a, c, b)
    PROVE  Limits!Ask(r, a, c) \/ \E f \in Accounts : Limits!AskForgetting(r, a, c, f)
<1>0. /\ TypeOK /\ reqs \in [Requests -> Request \cup {NoRequest}] /\ reqs[r] = NoRequest
      /\ asked \in [Accounts -> 0..LongAgo]
  BY DEF IInv, TypeOK, Miss
<1>1. PICK E \in Evicted :
         /\ E \subseteq Entries /\ a \notin Entries
         /\ limiters' \in [Accounts -> Entry \cup {NoEntry}]
         /\ Entries' = (Entries \ E) \cup {a}
         /\ limiters'[a] = [bucket |-> b, idle |-> 0]
         /\ \A x \in Entries \ E : x # a /\ limiters'[x] = limiters[x]
  BY MissMap
<1>2. /\ reqs'[r] = Holding(a, c, b)
      /\ \A q \in Requests : q # r => reqs'[q] = reqs[q]
  BY <1>0 DEF Miss
<1>3. \A x \in Accounts, y \in Buckets : y # b =>
         Current(x, y)' = (x \notin E /\ Current(x, y))
  BY <1>1 DEF Current, Entries
<1>4. \A q \in Requests : reqs[q] # NoRequest =>
         reqs[q].account \in Accounts /\ reqs[q].bucket \in Buckets /\ reqs[q].bucket # b
  BY <1>0, EntryTypes DEF Miss, Unused, Request
<1>5. \A q \in Requests : q # r /\ (reqs[q] # NoRequest => reqs[q].account \notin E)
         => limitPending'[q] = limitPending[q]
  <2> SUFFICES ASSUME NEW q \in Requests, q # r, reqs[q] # NoRequest => reqs[q].account \notin E
               PROVE  limitPending'[q] = limitPending[q]
    OBVIOUS
  <2>1. reqs[q] # NoRequest =>
           Current(reqs[q].account, reqs[q].bucket)' = Current(reqs[q].account, reqs[q].bucket)
    BY <1>2, <1>3, <1>4 DEF Current
  <2> QED  BY <1>2, <2>1, MappedSame
<1>6. limitPending'[r] = Limits!Asking(a, c)
  <2>1. Holding(a, c, b) \in Request
    BY Constants DEF Holding, Request
  <2>2. (~Current(a, b)') = FALSE
    BY <1>1 DEF Current, Entries
  <2>3. limitPending'[r] = [account |-> a, category |-> c, forgotten |-> ~Current(a, b)']
    BY <1>2, <2>1, SentinelAssumption DEF limitPending, Holding
  <2> QED  BY <2>2, <2>3 DEF Limits!Asking
<1>7. \A x \in Accounts : limitTokens'[x] = IF x \in E THEN Burst ELSE limitTokens[x]
  <2> SUFFICES ASSUME NEW x \in Accounts
               PROVE  limitTokens'[x] = IF x \in E THEN Burst ELSE limitTokens[x]
    OBVIOUS
  <2>1. /\ x \in Entries' => limitTokens'[x] = buckets'[limiters'[x].bucket]
        /\ x \notin Entries' => limitTokens'[x] = Burst
    BY DEF limitTokens, Entries
  <2>2. CASE x = a
    BY <1>0, <1>1, <2>1, <2>2, MappedTokens DEF Miss, TypeOK, NewLimiter
  <2>3. CASE x \in Entries \ E
    <3>1. limiters[x].bucket \in Buckets /\ limiters[x].bucket # b
      BY <1>0, <2>3, EntryTypes DEF Miss, Unused, Entry
    <3>2. buckets'[limiters[x].bucket] = buckets[limiters[x].bucket]
      BY <1>0, <3>1 DEF Miss, TypeOK
    <3> QED  BY <1>1, <2>1, <2>3, <3>2, MappedTokens
  <2>4. CASE x # a /\ x \notin Entries \ E
    BY <1>1, <2>1, <2>4, MappedTokens
  <2> QED  BY <2>2, <2>3, <2>4
<1>8. limitPending[r] = NoRequest
  BY <1>0, MappedRequest
<1>9. CASE E = {}
  <2>1. UNCHANGED limitTokens
    BY <1>7, <1>9, TokensUnchanged
  <2>2. limitPending' = [limitPending EXCEPT ![r] = Limits!Asking(a, c)]
    BY <1>5, <1>6, <1>9, MappedExcept
  <2> QED  BY <1>8, <2>1, <2>2 DEF Limits!Ask, Miss
<1>10. CASE Cardinality(Entries) >= MaxEntries /\ \E f \in Oldest(Entries) : E = {f}
  <2>1. PICK f \in Oldest(Entries) : E = {f}
    BY <1>10
  <2>2. f \in Accounts /\ f \in Entries /\ f # a
    BY <1>1, <2>1 DEF Oldest, Entries
  <2>3. limitTokens' = [limitTokens EXCEPT ![f] = Burst]
    <3>1. \A x \in Accounts : limitTokens'[x] = [limitTokens EXCEPT ![f] = Burst][x]
      BY <1>7, <2>1, <2>2 DEF limitTokens
    <3> QED  BY <3>1 DEF limitTokens
  <2>4. \A q \in Requests :
           limitPending'[q] =
              IF q = r THEN Limits!Asking(a, c)
              ELSE IF limitPending[q] # NoRequest /\ limitPending[q].account = f
                   THEN [limitPending[q] EXCEPT !.forgotten = TRUE]
              ELSE limitPending[q]
    <3> SUFFICES ASSUME NEW q \in Requests, q # r
                 PROVE  limitPending'[q] =
                            IF limitPending[q] # NoRequest /\ limitPending[q].account = f
                            THEN [limitPending[q] EXCEPT !.forgotten = TRUE]
                            ELSE limitPending[q]
      BY <1>6
    <3>1. CASE reqs[q] = NoRequest \/ reqs[q].account # f
      BY <1>0, <1>5, <2>1, <3>1, MappedRequest
    <3>2. CASE reqs[q] # NoRequest /\ reqs[q].account = f
      <4>1. PICK y \in Buckets : y = reqs[q].bucket /\ y # b
        BY <1>4, <3>2
      <4>2. (~Current(f, y)') = TRUE
        BY <1>3, <2>1, <2>2, <4>1
      <4>3. limitPending'[q] =
               [account |-> f, category |-> reqs[q].category, forgotten |-> ~Current(f, y)']
        BY <1>2, <3>2, <4>1 DEF limitPending
      <4>4. limitPending[q] =
               [account |-> f, category |-> reqs[q].category, forgotten |-> ~Current(f, y)]
        BY <3>2, <4>1 DEF limitPending
      <4>5. limitPending[q] # NoRequest /\ limitPending[q].account = f
        BY <1>0, <3>2, MappedRequest
      <4>6. PICK was : was = ~Current(f, y)
        OBVIOUS
      <4>7. limitPending[q] = [account |-> f, category |-> reqs[q].category, forgotten |-> was]
        BY <4>4, <4>6
      <4>8. PICK now : now = ~Current(f, y)' /\ now = TRUE
        BY <4>2
      <4>9. limitPending'[q] = [account |-> f, category |-> reqs[q].category, forgotten |-> now]
        BY <4>3, <4>8
      <4>10. limitPending'[q] = [limitPending[q] EXCEPT !.forgotten = now]
        BY <4>7, <4>9, SetForgotten
      <4>11. limitPending'[q] = [limitPending[q] EXCEPT !.forgotten = TRUE]
        BY <4>8, <4>10, Zenon
      <4> QED  BY <4>5, <4>11
    <3> QED  BY <3>1, <3>2
  <2>5. limitPending' = [q \in Requests |->
              IF q = r THEN Limits!Asking(a, c)
              ELSE IF limitPending[q] # NoRequest /\ limitPending[q].account = f
                   THEN [limitPending[q] EXCEPT !.forgotten = TRUE]
              ELSE limitPending[q]]
    <3>1. limitPending' = [q \in Requests |-> limitPending'[q]]
      BY DEF limitPending
    <3> QED  BY <2>4, <3>1
  <2>6. Cardinality({x \in Accounts \ {f} : asked'[x] <= asked[f]}) >= MaxEntries
    <3>1. Cardinality(Entries') = Cardinality(Entries)
      BY <1>1, <2>1, <2>2, EntriesFinite, SwapCardinality
    <3>2. ASSUME NEW x \in Entries' PROVE x \in Accounts \ {f} /\ asked'[x] <= asked[f]
      <4>1. x \in Accounts \ {f}
        BY <1>1, <2>1, <2>2, <3>2 DEF Entries
      <4>2. CASE x = a
        BY <1>0, <2>2, <4>1, <4>2, Constants DEF Miss
      <4>3. CASE x \in Entries /\ x # a
        <5>1. limiters[x].idle <= limiters[f].idle
          BY <2>1, <4>3 DEF Oldest
        <5>2. asked[x] <= asked[f]
          BY <2>2, <4>3, <5>1 DEF IInv, SeenInv
        <5> QED  BY <1>0, <4>1, <4>3, <5>2 DEF Miss
      <4> QED  BY <1>1, <3>2, <4>1, <4>2, <4>3
    <3>3. PICK S : S = {x \in Accounts \ {f} : asked'[x] <= asked[f]}
      OBVIOUS
    <3>4. S \subseteq Accounts /\ Entries' \subseteq S
      BY <3>2, <3>3
    <3>5. IsFiniteSet(S)
      BY <3>4, AccountsAssumption, FS_Subset
    <3>6. Cardinality(Entries') <= Cardinality(S) /\ Cardinality(S) \in Nat
      BY <3>4, <3>5, FS_Subset, FS_CardinalityType
    <3>7. Cardinality(Entries) \in Nat
      BY EntriesFinite, FS_CardinalityType
    <3> QED  BY <1>10, <3>1, <3>3, <3>6, <3>7, NatAssumption
  <2>7. Limits!AskForgetting(r, a, c, f)
    BY LimitsCardinality, <1>8, <2>2, <2>3, <2>5, <2>6 DEF Limits!AskForgetting, Miss
  <2> QED  BY <2>2, <2>7
<1> QED  BY <1>9, <1>10, EvictedCases

(* Allow takes a token of the account, or of a bucket that left the map. *)
LEMMA AllowRefines ==
    ASSUME IInv, NEW r \in Requests, Allow(r)
    PROVE  Limits!Answer(r) \/ Limits!AnswerForgotten(r)
<1>0. /\ TypeOK /\ reqs[r] \in Request /\ reqs[r] # NoRequest /\ UNCHANGED <<limiters, asked>>
      /\ reqs \in [Requests -> Request \cup {NoRequest}]
  BY EntryTypes DEF IInv, Allow, TypeOK
<1>1. PICK b \in Buckets, c \in Categories, a \in Accounts :
         b = reqs[r].bucket /\ c = reqs[r].category /\ a = reqs[r].account
  BY <1>0 DEF Request
<1>2. /\ limitPending[r] # NoRequest /\ limitPending[r].account = a /\ limitPending[r].category = c
      /\ limitPending[r].forgotten = ~Current(a, b)
  BY <1>0, <1>1, MappedRequest
<1>3. limitPending' = [limitPending EXCEPT ![r] = NoRequest]
  <2>1. reqs'[r] = NoRequest /\ \A q \in Requests : q # r => reqs'[q] = reqs[q]
    BY <1>0 DEF Allow
  <2>2. limitPending'[r] = NoRequest
    BY <2>1 DEF limitPending
  <2>3. \A q \in Requests : q # r => limitPending'[q] = limitPending[q]
    BY <1>0, <2>1, MappedSame DEF Current
  <2> QED  BY <2>2, <2>3, MappedExcept
<1>4. Entries' = Entries /\ \A x \in Entries : limiters[x].bucket = b <=> (x = a /\ Current(a, b))
  BY <1>0, <1>1 DEF Entries, Current, IInv, BucketsInv, Holds
<1>5. CASE ~Current(a, b)
  <2>1. \A x \in Buckets : x # b => buckets'[x] = buckets[x]
    BY <1>0, <1>1 DEF Allow, TypeOK
  <2>2. \A x \in Accounts : limitTokens'[x] = limitTokens[x]
    <3> SUFFICES ASSUME NEW x \in Accounts, x \in Entries PROVE limitTokens'[x] = limitTokens[x]
      BY <1>4 DEF limitTokens, Entries
    <3>1. limiters[x].bucket \in Buckets /\ limiters[x].bucket # b
      BY <1>0, <1>4, <1>5, EntryTypes DEF Entry
    <3> QED  BY <1>0, <2>1, <3>1 DEF limitTokens, Entries
  <2>3. \E yes \in {"served", "refused"} : answer' = [answer EXCEPT ![r] = yes]
    BY DEF Allow
  <2> QED  BY <1>0, <1>2, <1>3, <1>5, <2>2, <2>3, TokensUnchanged DEF Limits!AnswerForgotten
<1>6. CASE Current(a, b)
  <2>1. a \in Entries /\ limiters[a].bucket = b
    BY <1>6 DEF Current, Entries
  <2>2. limitTokens[a] = buckets[b]
    BY <2>1, MappedTokens
  <2>3. ~limitPending[r].forgotten
    BY <1>2, <1>6
  <2>4. CASE buckets[b][c] = 0 /\ answer' = [answer EXCEPT ![r] = "refused"] /\ UNCHANGED buckets
    <3>1. UNCHANGED limitTokens
      BY <1>0, <2>4 DEF limitTokens
    <3> QED  BY <1>0, <1>2, <1>3, <2>2, <2>3, <2>4, <3>1 DEF Limits!Answer
  <2>5. CASE /\ buckets[b][c] > 0 /\ answer' = [answer EXCEPT ![r] = "served"]
             /\ buckets' = [buckets EXCEPT ![b][c] = @ - 1]
    <3>1. PICK less : less = [buckets[b] EXCEPT ![c] = @ - 1]
      OBVIOUS
    <3>2. buckets' = [buckets EXCEPT ![b] = less]
      BY <2>5, <3>1
    <3>3. limitTokens'[a] = less
      BY <1>0, <2>1, <3>2 DEF limitTokens, Entries, TypeOK
    <3>4. \A x \in Accounts : x # a => limitTokens'[x] = limitTokens[x]
      <4> SUFFICES ASSUME NEW x \in Accounts, x \in Entries, x # a
                   PROVE  limitTokens'[x] = limitTokens[x]
        BY <1>4 DEF limitTokens, Entries
      <4>1. limiters[x].bucket \in Buckets /\ limiters[x].bucket # b
        BY <1>0, <1>4, EntryTypes DEF Entry
      <4>2. buckets'[limiters[x].bucket] = buckets[limiters[x].bucket]
        BY <1>0, <3>2, <4>1 DEF TypeOK
      <4> QED  BY <1>0, <4>2 DEF limitTokens
    <3>5. limitTokens' = [limitTokens EXCEPT ![a] = less]
      BY <3>3, <3>4, TokensExcept
    <3>6. limitTokens' = [limitTokens EXCEPT ![a][c] = @ - 1]
      BY <2>2, <3>1, <3>5 DEF limitTokens
    <3> QED  BY <1>0, <1>2, <1>3, <2>2, <2>3, <2>5, <3>6 DEF Limits!Answer
  <2> QED  BY <1>1, <2>4, <2>5 DEF Allow
<1> QED  BY <1>5, <1>6

(* The bucket of an idle entry is full, and nobody holds it any more. *)
LEMMA IdleIsFull ==
    ASSUME IInv, NEW a \in Entries, Idle(a)
    PROVE  /\ buckets[limiters[a].bucket] = Burst
           /\ \A r \in Requests : ~Holds(r, limiters[a].bucket)
<1>0. TypeOK /\ limiters[a] \in Entry
  BY EntryTypes DEF IInv
<1>1. PICK b \in Buckets : b = limiters[a].bucket
  BY <1>0 DEF Entry
<1>2. limiters[a].idle = LongAgo
  BY <1>0, Constants DEF Idle, Entry
<1>3. \A c \in Categories : buckets[b][c] = Burst[c]
  <2> SUFFICES ASSUME NEW c \in Categories PROVE buckets[b][c] = Burst[c]
    OBVIOUS
  <2>1. buckets[b][c] \in Nat /\ buckets[b][c] <= Burst[c] /\ Burst[c] \in Nat
    BY <1>0, Constants DEF TypeOK
  <2>2. PICK n : n = PerTick[c] * (LongAgo - MaxDelay)
    OBVIOUS
  <2>3. n \in Int /\ Burst[c] <= n
    BY <2>2, Constants, IdleAssumption
  <2>4. ~(LongAgo <= MaxDelay)
    BY Constants
  <2>5. buckets[b][c] = Burst[c] \/ n <= buckets[b][c]
    BY <1>1, <1>2, <2>2, <2>4 DEF IInv, FilledInv
  <2> QED  BY <2>1, <2>3, <2>5
<1>4. buckets[b] = Burst
  BY <1>0, <1>3, RateAssumption DEF TypeOK
<1>5. ASSUME NEW r \in Requests, Holds(r, b) PROVE FALSE
  <2>1. reqs[r] \in Request /\ limiters[a].idle <= reqs[r].wait
    BY <1>0, <1>1, <1>5, EntryTypes DEF IInv, SeenInv, Holds
  <2> QED  BY <1>2, <2>1, Constants DEF Request
<1> QED  BY <1>1, <1>4, <1>5

(* evictLoop is not noticed. *)
LEMMA EvictIdleRefines ==
    ASSUME IInv, EvictIdle
    PROVE  UNCHANGED <<limitTokens, asked, limitPending, answer>>
<1>0. TypeOK /\ UNCHANGED <<buckets, reqs, answer, asked>>
  BY DEF IInv, EvictIdle
<1>1. \A a \in Accounts : limiters'[a] = IF a \in Entries /\ Idle(a) THEN NoEntry ELSE limiters[a]
  BY DEF EvictIdle
<1>2. ASSUME NEW a \in Accounts PROVE limitTokens'[a] = limitTokens[a]
  <2>1. CASE a \in Entries /\ Idle(a)
    BY <1>1, <2>1, IdleIsFull DEF limitTokens
  <2>2. CASE ~(a \in Entries /\ Idle(a))
    BY <1>0, <1>1, <2>2 DEF limitTokens
  <2> QED  BY <2>1, <2>2
<1>3. ASSUME NEW r \in Requests PROVE limitPending'[r] = limitPending[r]
  <2>1. CASE reqs[r] = NoRequest
    BY <1>0, <2>1, MappedSame
  <2>2. CASE reqs[r] # NoRequest
    <3>1. reqs[r].account \in Accounts /\ reqs[r].bucket \in Buckets
      BY <1>0, <2>2, EntryTypes DEF Request
    <3>2. PICK a \in Accounts, b \in Buckets : a = reqs[r].account /\ b = reqs[r].bucket
      BY <3>1
    <3>3. Current(a, b) => ~Idle(a)
      BY <2>2, <3>2, IdleIsFull DEF Current, Holds, Entries
    <3>4. Current(a, b)' = Current(a, b)
      BY <1>1, <3>3 DEF Current, Entries
    <3>5. Current(reqs[r].account, reqs[r].bucket)' = Current(reqs[r].account, reqs[r].bucket)
      BY <1>0, <3>2, <3>4 DEF Current
    <3> QED  BY <1>0, <3>5, MappedSame
  <2> QED  BY <2>1, <2>2
<1>4. UNCHANGED limitPending
  BY <1>3 DEF limitPending
<1> QED  BY <1>0, <1>2, <1>4, TokensUnchanged

(* A tick of the code is a tick of the account limits. *)
LEMMA TickRefines ==
    ASSUME IInv, Tick
    PROVE  Limits!Tick
<1>0. TypeOK
  BY DEF IInv
<1>1. \A a \in Accounts : \A b : Current(a, b)' = Current(a, b)
  <2> SUFFICES ASSUME NEW a \in Accounts, NEW b PROVE Current(a, b)' = Current(a, b)
    OBVIOUS
  <2>1. /\ a \in Entries => limiters'[a] # NoEntry /\ limiters'[a].bucket = limiters[a].bucket
        /\ a \notin Entries => limiters'[a] = NoEntry
    BY TickMap
  <2> QED  BY <2>1 DEF Current, Entries
<1>2. ASSUME NEW a \in Accounts PROVE limitTokens'[a] = Limits!Refilled(limitTokens[a])
  <2>1. CASE a \in Entries
    <3>1. limitTokens'[a] = buckets'[limiters[a].bucket] /\ limitTokens[a] = buckets[limiters[a].bucket]
      BY <2>1, TickMap, MappedTokens DEF limitTokens
    <3>2. limiters[a].bucket \in Buckets
      BY <1>0, <2>1, EntryTypes DEF Entry
    <3>3. buckets'[limiters[a].bucket] = Refilled(buckets[limiters[a].bucket])
      BY <3>2 DEF Tick
    <3> QED  BY <3>1, <3>3 DEF Refilled, Limits!Refilled, AtMost, Limits!AtMost
  <2>2. CASE a \notin Entries
    <3>1. limitTokens'[a] = Burst /\ limitTokens[a] = Burst
      BY <2>2, TickMap, MappedTokens DEF limitTokens
    <3>2. Limits!Refilled(Burst) = [c \in Categories |-> Burst[c]]
      BY Constants DEF Limits!Refilled, Limits!AtMost
    <3> QED  BY <3>1, <3>2, RateAssumption
  <2> QED  BY <2>1, <2>2
<1>3. limitTokens' = [a \in Accounts |-> Limits!Refilled(limitTokens[a])]
  <2>1. limitTokens' = [a \in Accounts |-> limitTokens'[a]]
    BY DEF limitTokens
  <2> QED  BY <1>2, <2>1
<1>4. ASSUME NEW r \in Requests PROVE limitPending'[r] = limitPending[r]
  <2>1. CASE reqs[r] = NoRequest
    BY <2>1, MappedSame DEF Tick
  <2>2. CASE reqs[r] # NoRequest
    <3>1. PICK a \in Accounts, b \in Buckets, c \in Categories :
             reqs[r] \in Request /\ a = reqs[r].account /\ b = reqs[r].bucket /\ c = reqs[r].category
      BY <1>0, <2>2, EntryTypes DEF Request
    <3>2. reqs'[r] = [reqs[r] EXCEPT !.wait = @ + 1]
      BY <2>2 DEF Tick
    <3>3. /\ reqs'[r].account = a /\ reqs'[r].bucket = b /\ reqs'[r].category = c
      BY <3>1, <3>2 DEF Request
    <3>4. reqs'[r] # NoRequest
      BY <2>2, TickRequests, SentinelAssumption
    <3>5. limitPending'[r] = [account |-> a, category |-> c, forgotten |-> ~Current(a, b)']
      BY <3>3, <3>4 DEF limitPending, Current
    <3>6. limitPending[r] = [account |-> a, category |-> c, forgotten |-> ~Current(a, b)]
      BY <2>2, <3>1 DEF limitPending
    <3>7. (~Current(a, b)') = (~Current(a, b))
      BY <1>1
    <3> QED  BY <3>5, <3>6, <3>7
  <2> QED  BY <2>1, <2>2
<1>5. UNCHANGED limitPending
  BY <1>4 DEF limitPending
<1> QED  BY <1>3, <1>5 DEF Limits!Tick, Tick, AtMost, Limits!AtMost

(* Every step is a step of the account limits, or leaves them alone. *)
LEMMA StepRefines == IInv /\ [Next]_vars => [Limits!Next]_(Limits!vars)
<1> SUFFICES ASSUME IInv, [Next]_vars PROVE [Limits!Next]_(Limits!vars)
  OBVIOUS
<1>1. CASE UNCHANGED vars
  BY <1>1 DEF vars, Limits!vars, limitTokens, limitPending, Current
<1>2. CASE EvictIdle
  BY <1>2, EvictIdleRefines DEF Limits!vars
<1>3. ASSUME NEW r \in Requests, NEW a \in Accounts, NEW c \in Categories,
             Hit(r, a, c) \/ \E b \in Buckets : Miss(r, a, c, b)
      PROVE  Limits!Next
  BY <1>3, HitRefines, MissRefines DEF Limits!Next
<1>4. ASSUME NEW r \in Requests, Allow(r) PROVE Limits!Next
  BY <1>4, AllowRefines DEF Limits!Next
<1>5. CASE Tick
  BY <1>5, TickRefines DEF Limits!Next
<1> QED  BY <1>1, <1>2, <1>3, <1>4, <1>5 DEF Next

(* The limiter keeps the promise of AccountLimits: no account gets more    *)
(* than its rate unless it was the least recently used of MaxEntries + 1.  *)
THEOREM ImplementsAccountLimitsHolds == Spec => ImplementsAccountLimits
<1>1. Init => Limits!Init
  BY DEF Init, Limits!Init, limitTokens, limitPending
<1> QED  BY <1>1, StepRefines, Inductive, PTL DEF Spec, ImplementsAccountLimits, Limits!Spec
=============================================================================
