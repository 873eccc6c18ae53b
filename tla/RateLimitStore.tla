--------------------------- MODULE RateLimitStore ---------------------------
(***************************************************************************)
(* withRateLimit of packages/core/src/enhancers.ts over either of its       *)
(* stores: the sliding window log of packages/core/src/stores.ts, and the   *)
(* fixed window counter of packages/stores/redis, which instances share.    *)
(* Keys may have windows of their own, as when two rate-limited             *)
(* capabilities share one store.                                            *)
(*                                                                          *)
(* A timestamp t is kept as its age, Date.now() - t, saturated at MaxWindow *)
(* (older ones are outside every window).  Several hits may share a tick.   *)
(***************************************************************************)
EXTENDS Naturals, Sequences, FiniteSets, SequencesExt, Filters

CONSTANTS
    Stores,     \* kinds of store: "memory", "redis"
    Key,
    Limit,      \* the limit of every key
    WindowOf,   \* windowMs of each key, in ticks
    MaxKeys,    \* options.maxKeys of the memory store
    MaxCounters \* bound: keys hit over Redis in a window at a time

ASSUME StoreAssumption == /\ Limit \in Nat \ {0}
                          /\ WindowOf \in [Key -> Nat \ {0}]
                          /\ \E k \in Key : \A j \in Key : WindowOf[j] <= WindowOf[k]
                          /\ MaxKeys \in Nat

MaxWindow == CHOOSE w \in {WindowOf[k] : k \in Key} : \A k \in Key : WindowOf[k] <= w

VARIABLES
    store,     \* the kind of store
    counter,   \* redis, per key: [count, left]; a count over Limit is Limit + 1
    order,     \* the keys of the Map, in insertion order
    bucket,    \* per key: the ages of its timestamps, oldest first
    granted,   \* history: per key, ages of the hits allowed in its window
    retryIn,   \* history: per key, what is left of the latest retryAfterMs
    reset      \* history: keys that lost hits of their window to a sweep or a restart

limiterVars == <<store, counter, order, bucket, granted, retryIn, reset>>

Tracked == ToSet(order)
Within(ages, w) == Only(ages, 0 .. w - 1)
Live(k) == IF k \in Tracked THEN Within(bucket[k], WindowOf[k]) ELSE <<>>
\* The history keeps the latest 2 * Limit hits: that is enough to see one too many.
Remember(ages) == Append(IF Len(ages) >= 2 * Limit THEN Tail(ages) ELSE ages, 0)
NoPromise == MaxWindow + 1
NoCount == [count |-> 0, left |-> 0]

LimiterInit ==
    /\ store \in Stores
    /\ counter = [k \in Key |-> NoCount]
    /\ order = <<>>
    /\ bucket = [k \in Key |-> <<>>]
    /\ granted = [k \in Key |-> <<>>]
    /\ retryIn = [k \in Key |-> NoPromise]
    /\ reset = {}

-----------------------------------------------------------------------------
\* Mutant: the sweep judges a key by its first timestamp.
EvictStaleByFirst(w) ==
    LET active == Only(order, {j \in Tracked : bucket[j] # <<>> /\ Head(bucket[j]) < w})
    IN  IF Len(active) > MaxKeys
        THEN SubSeq(active, Len(active) - MaxKeys + 1, Len(active))
        ELSE active

(* The keys that evictStale leaves: those with activity in the window of    *)
(* the key being hit, or of these the last MaxKeys to be tracked.           *)
EvictStale(w) ==
    LET active == Only(order, {j \in Tracked : bucket[j] # <<>> /\ Last(bucket[j]) < w})
    IN  IF Len(active) > MaxKeys
        THEN SubSeq(active, Len(active) - MaxKeys + 1, Len(active))
        ELSE active

Swept(k) == IF Len(order) > MaxKeys THEN EvictStale(WindowOf[k]) ELSE order

\* Mutant: a denied hit tells the time until the newest hit leaves the window.
RetryAfterNewest(ages, w) == w - Last(ages)

\* oldestInWindow + windowMs - now
RetryAfter(ages, w) == w - Head(ages)

Allowed == [allowed |-> TRUE, retryAfter |-> NoPromise]
Denied(retryAfter) == [allowed |-> FALSE, retryAfter |-> retryAfter]

(* The enhancer: what is allowed runs the resolver, what is denied is a 429 *)
(* with retryAfter.                                                         *)
Decided(k, decision) ==
    /\ granted' = IF decision.allowed THEN [granted EXCEPT ![k] = Remember(@)] ELSE granted
    /\ retryIn' = [retryIn EXCEPT ![k] = decision.retryAfter]

\* Mutant: off by one at the limit.
HasRoomOffByOne(ages) == Len(ages) <= Limit

HasRoom(ages) == Len(ages) < Limit

HitMemory(k) ==
    LET kept == Swept(k)
        ages == IF k \in ToSet(kept) THEN Within(bucket[k], WindowOf[k]) ELSE <<>>
    IN  /\ order' = IF k \in ToSet(kept) THEN kept ELSE Append(kept, k)
        /\ bucket' = [j \in Key |-> IF j = k THEN IF HasRoom(ages) THEN Append(ages, 0) ELSE ages
                                    ELSE IF j \in ToSet(kept) THEN bucket[j] ELSE <<>>]
        /\ Decided(k, IF HasRoom(ages) THEN Allowed ELSE Denied(RetryAfter(ages, WindowOf[k])))
        /\ reset' = reset \union {j \in Tracked \ ToSet(kept) : Live(j) # <<>>}
        /\ UNCHANGED counter

-----------------------------------------------------------------------------
(* RATE_LIMIT_SCRIPT: INCR, and PEXPIRE by the first hit of a window.       *)
Incremented(k) ==
    LET old == counter[k]
    IN  IF old.count = 0 THEN [count |-> 1, left |-> WindowOf[k]]
        ELSE [old EXCEPT !.count = IF @ > Limit THEN @ ELSE @ + 1]

(* PTTL is 0 in the last millisecond of a key, and the fallback then tells  *)
(* a full window.                                                           *)
Pttl(left) == IF left = 1 THEN {0, 1} ELSE {left}

CountersLeft(k) ==
    Cardinality({j \in Key \ {k} : counter[j] # NoCount \/ granted[j] # <<>>}) < MaxCounters

HitRedis(k) ==
    LET now == Incremented(k)
    IN  /\ CountersLeft(k)
        /\ counter' = [counter EXCEPT ![k] = now]
        /\ \E ttl \in Pttl(now.left) :
              Decided(k, IF now.count <= Limit THEN Allowed
                         ELSE Denied(IF ttl > 0 THEN ttl ELSE WindowOf[k]))
        /\ UNCHANGED <<order, bucket, reset>>

\* The reply is lost: the hit is counted, and the call fails without a verdict.
ReplyLost(k) ==
    /\ store = "redis" /\ CountersLeft(k)
    /\ counter' = [counter EXCEPT ![k] = Incremented(k)]
    /\ retryIn' = [retryIn EXCEPT ![k] = NoPromise]
    /\ UNCHANGED <<store, order, bucket, granted, reset>>

\* Redis comes back empty.
RedisRestarts ==
    /\ store = "redis"
    /\ counter' = [k \in Key |-> NoCount]
    /\ reset' = reset \union {k \in Key : counter[k].count > 0}
    /\ UNCHANGED <<store, order, bucket, granted, retryIn>>

Hit(k) ==
    /\ \/ store = "memory" /\ HitMemory(k)
       \/ store = "redis" /\ HitRedis(k)
    /\ UNCHANGED store

Older(ages) == [i \in DOMAIN ages |-> IF ages[i] < MaxWindow THEN ages[i] + 1 ELSE ages[i]]

Tick ==
    /\ bucket' = [k \in Key |-> Older(bucket[k])]
    /\ granted' = [k \in Key |-> Within(Older(granted[k]), WindowOf[k])]
    /\ retryIn' = [k \in Key |-> IF retryIn[k] \in 1 .. MaxWindow
                                 THEN retryIn[k] - 1 ELSE retryIn[k]]
    /\ reset' = {k \in reset : granted'[k] # <<>>}
    /\ counter' = [k \in Key |-> IF counter[k].left > 1 THEN [counter[k] EXCEPT !.left = @ - 1] ELSE NoCount]
    /\ UNCHANGED <<store, order>>

LimiterNext == Tick \/ RedisRestarts \/ \E k \in Key : Hit(k) \/ ReplyLost(k)

LimiterSpec == LimiterInit /\ [][LimiterNext]_limiterVars

-----------------------------------------------------------------------------
(* Types; a key is tracked once, and the cap on keys is exceeded by the key *)
(* being hit at most.                                                       *)
LimiterTypes ==
    /\ IsInjective(order) /\ Tracked \subseteq Key
    /\ Len(order) <= MaxKeys + 1
    /\ \A k \in Key : /\ bucket[k] \in Seq(0 .. MaxWindow) /\ Len(bucket[k]) <= Limit
                      /\ k \notin Tracked => bucket[k] = <<>>
                      /\ retryIn[k] \in 0 .. NoPromise
    /\ counter \in [Key -> [count : 0 .. Limit + 1, left : 0 .. MaxWindow]]
    /\ reset \subseteq Key

(* In no window of windowMs are more than Limit hits of a key allowed, in   *)
(* memory; over Redis, whose windows do not slide, two of them meet in one  *)
(* and let less than twice as many through.  Keys that a sweep evicted or a *)
(* restart forgot in that window are excepted.                              *)
WithinLimit ==
    \A k \in Key \ reset : Len(granted[k]) < IF store = "memory" THEN Limit + 1 ELSE 2 * Limit

Admits(k) == IF store = "memory" THEN HasRoom(Live(k)) ELSE counter[k].count < Limit

(* A denied key that waits for retryAfterMs is allowed; in memory it is     *)
(* denied until then, and over Redis too but for the fallback.              *)
RetryIsExact ==
    \A k \in Key \ reset :
        /\ retryIn[k] = 0 => Admits(k)
        /\ store = "memory" /\ retryIn[k] # NoPromise /\ Admits(k) => retryIn[k] = 0

(* A key with hits in its window is evicted only when, after the sweep of   *)
(* the idle ones, more than MaxKeys keys are still active.                  *)
SweepSparesActive ==
    [][store = "memory" => \A k \in reset' \ reset :
         Cardinality({j \in Tracked : Live(j) # <<>>}) > MaxKeys]_limiterVars
=============================================================================
