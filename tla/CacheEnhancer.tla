---------------------------- MODULE CacheEnhancer ---------------------------
(***************************************************************************)
(* withCache of packages/core/src/enhancers.ts over either of its stores:   *)
(* the LRU store of packages/core/src/stores.ts, and packages/stores/redis. *)
(* One withCache(...) value (or one explicit store) may enhance several     *)
(* capabilities, which then share its entries.                              *)
(*                                                                          *)
(* A call is two atomic steps around the await of the resolver: Lookup and, *)
(* after a miss, Fill or Throw; over Redis the SET is a third one, and may  *)
(* come late.  Calls of one key overlap freely.                             *)
(* expiresAt is kept as the time left, the clock being relative.            *)
(***************************************************************************)
EXTENDS Naturals, Sequences, SequencesExt, Filters

CONSTANTS
    Backends, \* kinds of store: "memory", "redis"
    Cap,      \* capabilities enhanced with the one cache
    Input,
    Slot,     \* concurrent calls
    Ttl,      \* ttlSeconds, in ticks
    MaxSize   \* options.maxSize of the LRU store

ASSUME CacheAssumption == Ttl \in Nat /\ MaxSize \in Nat \ {0}

VARIABLES
    backend,  \* the kind of store
    entries,  \* the Map, least recently used first, or what Redis holds: [key, value, left]
    call,     \* per slot: [state, cap, input, value]
    recent    \* history: all keys ever used, least recently used first

cacheVars == <<backend, entries, call, recent>>

(* `${cap.name}:${JSON.stringify(input)}`.  The enhancer closes over the    *)
(* capability it is given, which has no name yet: buildCapability names all *)
(* of them '(unnamed)' and compileRegistry names a copy.                    *)
CacheKey(cap, input) == <<"(unnamed)", input>>
Keys == {CacheKey(cap, input) : cap \in Cap, input \in Input}

\* The result of a run of a resolver; age is the time since it was stored.
Result(cap, input) == [cap |-> cap, input |-> input, age |-> 0]

(* Math.max(1, ttlMs): the expiry that the Redis store sends.               *)
Px == IF Ttl > 0 THEN Ttl ELSE 1
Lifetime == IF backend = "memory" THEN Ttl ELSE Px

\* What JSON.parse throws at.
Corrupt == [age |-> 0]
NoCall == [state |-> "idle"]

CacheInit ==
    /\ backend \in Backends
    /\ entries = <<>>
    /\ call = [s \in Slot |-> NoCall]
    /\ recent = <<>>

Without(k) == Only(entries, {e \in ToSet(entries) : e.key # k})
Entry(k) == CHOOSE e \in ToSet(entries) : e.key = k
Stored == {e.key : e \in ToSet(entries)}
Use(k) == recent' = Append(Only(recent, Keys \ {k}), k)

-----------------------------------------------------------------------------
\* Mutant: get serves an entry without looking at its expiry.
GetNeverExpires(k) == k \in Stored

\* Mutant: get does not refresh the recency of an entry.
AfterGetKeepsPlace(k) == entries

(* get: an entry is served while it has time left.                          *)
GetHits(k) == k \in Stored /\ Entry(k).left > 0

(* get deletes an expired entry and moves a live one to the end.            *)
AfterGet(k) == IF GetHits(k) THEN Append(Without(k), Entry(k)) ELSE Without(k)

(* set evicts the least recently used entry when the Map is full.           *)
Victims(k) ==
    IF Len(entries) >= MaxSize /\ k \notin Stored THEN {Head(entries).key} ELSE {}

AfterSet(k, value) ==
    Append(Only(entries, {e \in ToSet(entries) : e.key \notin Victims(k) \union {k}}),
           [key |-> k, value |-> value, left |-> Ttl])

-----------------------------------------------------------------------------
(* redisCacheStore: what has expired is gone, a corrupt entry is a miss and *)
(* get moves nothing.                                                       *)
RedisGetHits(k) == k \in Stored /\ Entry(k).value # Corrupt

(* SET with PX, whatever was there.                                         *)
RedisSet(k, value) == Append(Without(k), [key |-> k, value |-> value, left |-> Px])

-----------------------------------------------------------------------------
Hits(k) == IF backend = "memory" THEN GetHits(k) ELSE RedisGetHits(k)

Lookup(s, cap, input) ==
    LET k == CacheKey(cap, input) IN
    /\ call[s].state \in {"idle", "hit"}
    /\ entries' = IF backend = "memory" THEN AfterGet(k) ELSE entries
    /\ IF Hits(k)
       THEN /\ call' = [call EXCEPT ![s] = [state |-> "hit", cap |-> cap, input |-> input,
                                            value |-> Entry(k).value]]
            /\ Use(k)
       ELSE /\ call' = [call EXCEPT ![s] = [state |-> "resolving", cap |-> cap, input |-> input]]
            /\ UNCHANGED recent
    /\ UNCHANGED backend

\* The resolver has returned: its result is stored, and then returned.
Fill(s) ==
    /\ call[s].state = IF backend = "memory" THEN "resolving" ELSE "storing"
    /\ LET k == CacheKey(call[s].cap, call[s].input)
           value == Result(call[s].cap, call[s].input)
       IN  /\ entries' = IF backend = "memory" THEN AfterSet(k, value) ELSE RedisSet(k, value)
           /\ Use(k)
    /\ call' = [call EXCEPT ![s] = NoCall]
    /\ UNCHANGED backend

\* The resolver returns, and the SET is on its way.
SendSet(s) ==
    /\ backend = "redis" /\ call[s].state = "resolving"
    /\ call' = [call EXCEPT ![s].state = "storing"]
    /\ UNCHANGED <<backend, entries, recent>>

\* The resolver, or the SET after it, throws: nothing is stored.
Throw(s) ==
    /\ call[s].state \in {"resolving", "storing"}
    /\ call' = [call EXCEPT ![s] = NoCall]
    /\ UNCHANGED <<backend, entries, recent>>

\* Another program writes under a key, or Redis comes back empty.
Foreign(k) ==
    /\ backend = "redis" /\ entries' = RedisSet(k, Corrupt)
    /\ UNCHANGED <<backend, call, recent>>
RedisForgets ==
    /\ backend = "redis" /\ entries' = <<>>
    /\ UNCHANGED <<backend, call, recent>>

Aged(v) == [v EXCEPT !.age = IF v # Corrupt /\ @ < Lifetime THEN @ + 1 ELSE @]

TimePasses ==
    /\ LET older == [i \in DOMAIN entries |->
                       [entries[i] EXCEPT !.left = IF @ > 0 THEN @ - 1 ELSE 0,
                                          !.value = Aged(@)]]
       IN  entries' = IF backend = "memory" THEN older ELSE Only(older, {e \in ToSet(older) : e.left > 0})
    /\ call' = [s \in Slot |-> IF call[s].state = "hit" THEN NoCall ELSE call[s]]
    /\ UNCHANGED <<backend, recent>>

CacheNext ==
    \/ \E s \in Slot : SendSet(s) \/ Fill(s) \/ Throw(s)
    \/ \E s \in Slot, cap \in Cap, input \in Input : Lookup(s, cap, input)
    \/ \E k \in Keys : Foreign(k)
    \/ RedisForgets
    \/ TimePasses

CacheSpec == CacheInit /\ [][CacheNext]_cacheVars

-----------------------------------------------------------------------------
(* Types; a key has one entry and the Map never exceeds maxSize.            *)
CacheTypes ==
    /\ backend = "memory" => Len(entries) <= MaxSize
    /\ \A i, j \in DOMAIN entries : entries[i].key = entries[j].key => i = j
    /\ \A e \in ToSet(entries) : e.key \in Keys /\ e.left \in 0 .. Lifetime
    /\ IsInjective(recent) /\ ToSet(recent) \subseteq Keys

(* What a call is served was stored after a run of the resolver less than   *)
(* ttl ago (over Redis, where a ttl of 0 lives on for a millisecond, less   *)
(* than PX), for that very input, however fills and lookups overlap.        *)
ServedFresh ==
    \A s \in Slot : call[s].state = "hit" =>
        call[s].value.age < Lifetime /\ call[s].value.input = call[s].input

(* The Map is ordered by latest use, so that an eviction takes the key that *)
(* has not been used for the longest time.                                  *)
LruOrder ==
    backend = "memory" => [i \in DOMAIN entries |-> entries[i].key] = Only(recent, Stored)
=============================================================================
