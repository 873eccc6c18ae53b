----------------------------- MODULE StoreProofs ----------------------------
(***************************************************************************)
(* What withCache and withRateLimit promise over either of their stores,    *)
(* for every number of keys, every ttl, limit, window and size.             *)
(***************************************************************************)
EXTENDS CacheEnhancer, RateLimitStore, FilterProofs

(* The entries that withCache stores: a result under its own key, aged by   *)
(* what its lifetime has lost; only Redis holds what others wrote, and it   *)
(* drops what has no time left.                                             *)
Results == [cap : Cap, input : Input, age : Nat]

FitItems == {e \in [key : Keys, value : Results \union {Corrupt}, left : Nat] :
                /\ \/ e.value = Corrupt /\ e.left <= Lifetime
                   \/ /\ e.value.age + e.left = Lifetime
                      /\ e.key = CacheKey(e.value.cap, e.value.input)
                /\ IF backend = "memory" THEN e.value \in Results ELSE e.left > 0}

(* The calls: what a call is served is fresh, and for its input.            *)
FitCalls == {NoCall}
            \union [state : {"resolving", "storing"}, cap : Cap, input : Input]
            \union {h \in [state : {"hit"}, cap : Cap, input : Input, value : Results] :
                       h.value.age < Lifetime /\ h.value.input = h.input}

KeysOf(s) == [i \in DOMAIN s |-> s[i].key]

CacheInv ==
    /\ entries \in Seq(FitItems) /\ IsInjective(KeysOf(entries))
    /\ backend = "memory" => Len(entries) <= MaxSize
    /\ recent \in Seq(Keys) /\ IsInjective(recent)
    /\ call \in [Slot -> FitCalls]
    /\ LruOrder

LEMMA CorruptIsNoResult == Corrupt \notin Results
BY DEF Corrupt, Results

LEMMA LifetimeIsNat == Lifetime \in Nat /\ Px \in Nat \ {0}
BY CacheAssumption DEF Lifetime, Px

LEMMA KeysOfEntries ==
    ASSUME NEW s \in Seq(FitItems)
    PROVE  /\ KeysOf(s) \in Seq(Keys) /\ Len(KeysOf(s)) = Len(s)
           /\ ToSet(KeysOf(s)) = {e.key : e \in ToSet(s)}
<1>1. \A i \in DOMAIN s : s[i].key \in Keys
    BY DEF FitItems
<1> QED BY <1>1 DEF KeysOf, ToSet

(* The entries whose keys are in S, and their keys.                         *)
LEMMA KeysOfSome ==
    ASSUME NEW s \in Seq(FitItems), NEW S
    PROVE  KeysOf(Only(s, {e \in ToSet(s) : e.key \in S})) = Only(KeysOf(s), S)
<1> DEFINE T == ToSet(s)
           R == {e \in T : e.key \in S}
           f == [e \in T |-> e.key]
<1>1. s \in Seq(T) /\ f \in [T -> Keys] /\ \A e \in T : e \in R <=> f[e] \in S
  <2>1. \A i \in DOMAIN s : s[i].key \in Keys
    BY DEF FitItems
  <2>2. s \in Seq(T)
    BY DEF ToSet
  <2> QED BY <2>1, <2>2 DEF ToSet
<1>2. Only(s, R) \in Seq(T)
    BY <1>1, OnlyType
<1>3. \A r \in Seq(T) : KeysOf(r) = Mapped(f, r)
    BY DEF KeysOf, Mapped
<1> HIDE DEF f, T, R
<1>4. Only(Mapped(f, s), S) = Mapped(f, Only(s, R))
  <2>1. s \in Seq(T)
    BY <1>1
  <2>2. \A x \in T : x \in R <=> f[x] \in S
    BY <1>1
  <2> QED BY <2>1, <2>2, OnlyImage
<1>5. KeysOf(Only(s, R)) = Only(KeysOf(s), S)
    BY <1>1, <1>2, <1>3, <1>4
<1> QED BY <1>5 DEF T, R

Some(S) == Only(entries, {e \in ToSet(entries) : e.key \in S})

LEMMA SomeEntries ==
    ASSUME entries \in Seq(FitItems), NEW S
    PROVE  /\ Some(S) \in Seq(FitItems)
           /\ KeysOf(Some(S)) = Only(KeysOf(entries), S)
           /\ Len(Some(S)) <= Len(entries)
           /\ (\E e \in ToSet(entries) : e.key \notin S) => Len(Some(S)) < Len(entries)
<1> DEFINE R == {e \in ToSet(entries) : e.key \in S}
<1>1. KeysOf(Only(entries, R)) = Only(KeysOf(entries), S)
    BY KeysOfSome
<1>2. \A e \in ToSet(entries) : e.key \notin S => e \notin R
    OBVIOUS
<1> HIDE DEF R
<1>3. /\ Only(entries, R) \in Seq(FitItems) /\ Len(Only(entries, R)) <= Len(entries)
      /\ (\E e \in ToSet(entries) : e \notin R) => Len(Only(entries, R)) < Len(entries)
    BY OnlyType
<1> QED BY <1>1, <1>2, <1>3 DEF Some, R

(* get and set keep the entries of all keys but a few.                      *)
LEMMA WithoutSome ==
    ASSUME entries \in Seq(FitItems), NEW K
    PROVE  /\ Only(entries, {e \in ToSet(entries) : e.key \notin K}) = Some(Keys \ K)
           /\ \A k : K = {k} => Without(k) = Some(Keys \ K)
<1>1. \A e \in ToSet(entries) : e.key \in Keys
    BY DEF ToSet, FitItems
<1>2. {e \in ToSet(entries) : e.key \notin K} = {e \in ToSet(entries) : e.key \in Keys \ K}
    BY <1>1
<1>3. \A k : K = {k} => {e \in ToSet(entries) : e.key # k} = {e \in ToSet(entries) : e.key \notin K}
    OBVIOUS
<1> QED BY <1>2, <1>3 DEF Some, Without

LEMMA EntryIs ==
    ASSUME entries \in Seq(FitItems), NEW k \in Stored
    PROVE  Entry(k) \in ToSet(entries) /\ Entry(k) \in FitItems /\ Entry(k).key = k
<1>1. \E e \in ToSet(entries) : e.key = k
    BY DEF Stored
<1>2. Entry(k) \in ToSet(entries) /\ Entry(k).key = k
    BY <1>1 DEF Entry
<1> QED BY <1>2 DEF ToSet

(* The order of the Map follows the order of use.                           *)
LEMMA OrderFollowsUse ==
    ASSUME NEW r \in Seq(Keys), NEW P, NEW S, NEW k \in Keys, k \notin S,
           NEW M, M = Keys \ {k}, NEW Q, Q = (P \cap S) \union {k}
    PROVE  Append(Only(Only(r, P), S), k) = Only(Append(Only(r, M), k), Q)
<1>1. Only(Only(r, P), S) = Only(r, P \cap S)
    BY OnlyTwice
<1>2. Only(r, M) \in Seq(Keys) /\ Only(Only(r, M), Q) = Only(r, M \cap Q)
    BY OnlyType, OnlyTwice
<1>3. Only(r, M \cap Q) = Only(r, P \cap S)
  <2> DEFINE A == M \cap Q
             B == P \cap S
  <2>1. \A x \in Keys : x \in A <=> x \in B
    OBVIOUS
  <2> HIDE DEF A, B
  <2>2. Only(r, A) = Only(r, B)
    BY <2>1, OnlySame
  <2> QED BY <2>2 DEF A, B
<1>4. Only(Append(Only(r, M), k), Q) = Append(Only(Only(r, M), Q), k)
  <2>1. Only(r, M) \in Seq(Keys) /\ k \in Keys /\ k \in Q
    BY <1>2
  <2> QED BY ONLY <2>1, OnlyAppend
<1> QED BY <1>1, <1>2, <1>3, <1>4

LEMMA SameFits == ASSUME backend' = backend PROVE FitItems' = FitItems /\ FitCalls' = FitCalls
BY DEF FitItems, FitCalls, Lifetime

(* Some entries are dropped.                                                *)
LEMMA DropKeepsInv ==
    ASSUME CacheInv, NEW S, UNCHANGED <<backend, recent>>, entries' = Some(S),
           call' \in [Slot -> FitCalls]
    PROVE  CacheInv'
<1>1. /\ entries' \in Seq(FitItems) /\ KeysOf(entries') = Only(KeysOf(entries), S)
      /\ Len(entries') <= Len(entries) /\ Len(entries) \in Nat /\ Len(entries') \in Nat
    BY SomeEntries DEF CacheInv
<1>2. KeysOf(entries) \in Seq(Keys) /\ IsInjective(KeysOf(entries))
    BY KeysOfEntries DEF CacheInv
<1>3. IsInjective(KeysOf(entries'))
    BY <1>1, <1>2, OnlyInjective
<1>4. backend = "memory" => Len(entries') <= MaxSize
    BY <1>1, CacheAssumption DEF CacheInv
<1>5. Stored' = Stored \cap S
  <2>1. ToSet(KeysOf(entries)) = Stored /\ ToSet(KeysOf(entries')) = Stored'
    BY <1>1, KeysOfEntries DEF CacheInv, Stored
  <2>2. ToSet(Only(KeysOf(entries), S)) = ToSet(KeysOf(entries)) \cap S
    BY <1>2, OnlyType
  <2> QED BY <1>1, <2>1, <2>2
<1>6. LruOrder'
  <2>1. SUFFICES ASSUME backend = "memory" PROVE KeysOf(entries') = Only(recent, Stored')
    BY DEF LruOrder, KeysOf
  <2>2. KeysOf(entries) = Only(recent, Stored) /\ recent \in Seq(Keys)
    BY <2>1 DEF CacheInv, LruOrder, KeysOf
  <2>3. Only(Only(recent, Stored), S) = Only(recent, Stored \cap S)
    BY <2>2, OnlyTwice
  <2> QED BY <1>1, <1>5, <2>2, <2>3
<1> QED BY <1>1, <1>3, <1>4, <1>6, SameFits DEF CacheInv

(* An entry goes to the end of the Map, after some are dropped.             *)
LEMMA PutKeepsInv ==
    ASSUME CacheInv, NEW S, NEW e \in FitItems, e.key \notin S,
           backend' = backend, call' \in [Slot -> FitCalls],
           entries' = Append(Some(S), e),
           Use(e.key) \/ (backend # "memory" /\ recent' = recent),
           backend = "memory" => Len(Some(S)) < MaxSize
    PROVE  CacheInv'
<1> DEFINE k == e.key
<1>1. k \in Keys
    BY DEF FitItems
<1>2. /\ Some(S) \in Seq(FitItems) /\ KeysOf(Some(S)) = Only(KeysOf(entries), S)
      /\ Len(Some(S)) \in Nat
    BY SomeEntries DEF CacheInv
<1>3. KeysOf(entries) \in Seq(Keys) /\ IsInjective(KeysOf(entries))
        /\ ToSet(KeysOf(entries)) = Stored
    BY KeysOfEntries DEF CacheInv, Stored
<1>4. entries' \in Seq(FitItems) /\ Len(entries') = Len(Some(S)) + 1
    BY <1>2
<1>5. KeysOf(entries') = Append(Only(KeysOf(entries), S), k)
  <2>1. KeysOf(Append(Some(S), e)) = Append(KeysOf(Some(S)), k)
    BY <1>2 DEF KeysOf
  <2> QED BY <1>2, <2>1
<1>6. IsInjective(KeysOf(entries')) /\ ToSet(KeysOf(entries')) = (Stored \cap S) \union {k}
    BY <1>1, <1>3, <1>5, MovedToEnd
<1>7. Stored' = (Stored \cap S) \union {k}
  <2>1. ToSet(KeysOf(entries')) = Stored'
    BY <1>4, KeysOfEntries DEF Stored
  <2> QED BY <1>6, <2>1
<1>8. recent' \in Seq(Keys) /\ IsInjective(recent')
  <2>1. recent \in Seq(Keys) /\ IsInjective(recent) /\ k \notin Keys \ {k}
    BY DEF CacheInv
  <2>2. /\ Append(Only(recent, Keys \ {k}), k) \in Seq(Keys)
        /\ IsInjective(Append(Only(recent, Keys \ {k}), k))
    BY <1>1, <2>1, MovedToEnd
  <2> QED BY <2>1, <2>2 DEF Use
<1>9. LruOrder'
  <2>1. SUFFICES ASSUME backend = "memory" PROVE KeysOf(entries') = Only(recent', Stored')
    BY DEF LruOrder, KeysOf
  <2>2. KeysOf(entries) = Only(recent, Stored) /\ recent \in Seq(Keys)
    BY <2>1 DEF CacheInv, LruOrder, KeysOf
  <2>3. recent' = Append(Only(recent, Keys \ {k}), k)
    BY <2>1 DEF Use
  <2>4. Append(Only(Only(recent, Stored), S), k)
            = Only(Append(Only(recent, Keys \ {k}), k), (Stored \cap S) \union {k})
    <3> DEFINE M == Keys \ {k}
               Q == (Stored \cap S) \union {k}
    <3>1. k \in Keys /\ k \notin S /\ recent \in Seq(Keys)
      BY <1>1, <2>2
    <3>2. M = Keys \ {k} /\ Q = (Stored \cap S) \union {k}
      OBVIOUS
    <3> HIDE DEF k, M, Q
    <3>3. Append(Only(Only(recent, Stored), S), k) = Only(Append(Only(recent, M), k), Q)
      BY ONLY <3>1, <3>2, OrderFollowsUse
    <3> QED BY <3>3 DEF M, Q
  <2> QED BY <1>5, <1>7, <2>2, <2>3, <2>4
<1>10. backend = "memory" => Len(entries') <= MaxSize
    BY <1>2, <1>4, CacheAssumption
<1> QED BY <1>4, <1>6, <1>8, <1>9, <1>10, SameFits DEF CacheInv

LEMMA CacheBegins == CacheInit => CacheInv
<1> SUFFICES ASSUME CacheInit PROVE CacheInv
    OBVIOUS
<1>1. /\ entries = <<>> /\ recent = <<>> /\ Len(entries) = 0
      /\ entries \in Seq(FitItems) /\ recent \in Seq(Keys)
    BY DEF CacheInit
<1>2. KeysOf(entries) = <<>> /\ IsInjective(<<>>)
    BY <1>1 DEF KeysOf, IsInjective
<1>3. call \in [Slot -> FitCalls]
    BY DEF CacheInit, FitCalls
<1>4. LruOrder
    BY <1>1, <1>2, OnlyEmpty DEF LruOrder, KeysOf
<1> QED BY <1>1, <1>2, <1>3, <1>4, CacheAssumption DEF CacheInv

(* get: a hit is fresh, and moves to the end of the Map in memory only.     *)
LEMMA LookupKeepsInv ==
    ASSUME CacheInv, NEW s \in Slot, NEW cap \in Cap, NEW input \in Input, Lookup(s, cap, input)
    PROVE  CacheInv'
<1> DEFINE k == CacheKey(cap, input)
           S == Keys \ {k}
<1>1. k \in Keys /\ entries \in Seq(FitItems) /\ call \in [Slot -> FitCalls] /\ backend' = backend
    BY DEF Keys, CacheInv, Lookup
<1>2. Without(k) = Some(S)
    BY <1>1, WithoutSome
<1>3. CASE Hits(k)
  <2>1. k \in Stored
    BY <1>3 DEF Hits, GetHits, RedisGetHits
  <2>2. Entry(k) \in ToSet(entries) /\ Entry(k) \in FitItems /\ Entry(k).key = k
    BY <1>1, <2>1, EntryIs
  <2>3. /\ Entry(k).value \in Results /\ Entry(k).value.age + Entry(k).left = Lifetime
        /\ Entry(k).value.input = input /\ Entry(k).left > 0
    <3>1. Entry(k).left > 0 /\ Entry(k).value # Corrupt /\ Entry(k).value \in Results
      BY <1>3, <2>2, CorruptIsNoResult DEF Hits, GetHits, RedisGetHits, FitItems
    <3> QED BY <2>2, <3>1 DEF FitItems, CacheKey
  <2>4. Entry(k).value.age < Lifetime
    BY <2>2, <2>3, LifetimeIsNat DEF FitItems, Results
  <2>5. call' \in [Slot -> FitCalls]
    <3>1. [state |-> "hit", cap |-> cap, input |-> input, value |-> Entry(k).value] \in FitCalls
      BY <2>3, <2>4 DEF FitCalls
    <3>2. call' = [call EXCEPT ![s] = [state |-> "hit", cap |-> cap, input |-> input,
                                       value |-> Entry(k).value]]
      BY <1>3 DEF Lookup
    <3> QED BY <1>1, <3>1, <3>2
  <2>6. recent' = Append(Only(recent, Keys \ {k}), k)
    BY <1>3 DEF Lookup, Use
  <2>7. CASE backend = "memory"
    <3>1. entries' = Append(Some(S), Entry(k))
      BY <1>2, <1>3, <2>7 DEF Lookup, AfterGet, Hits
    <3>2. Len(Some(S)) < MaxSize
      <4>1. Len(Some(S)) < Len(entries) /\ Len(Some(S)) \in Nat /\ Len(entries) \in Nat
        BY <1>1, <2>2, SomeEntries
      <4> QED BY <2>7, <4>1, CacheAssumption DEF CacheInv
    <3> QED BY <1>1, <2>2, <2>5, <2>6, <3>1, <3>2, PutKeepsInv DEF Use
  <2>8. CASE backend # "memory"
    <3>1. entries' = entries
      BY <2>8 DEF Lookup
    <3>2. recent' \in Seq(Keys) /\ IsInjective(recent')
      BY <1>1, <2>6, MovedToEnd DEF CacheInv
    <3> QED BY <1>1, <2>5, <2>8, <3>1, <3>2, SameFits DEF CacheInv, LruOrder
  <2> QED BY <2>7, <2>8
<1>4. CASE ~Hits(k)
  <2>1. call' \in [Slot -> FitCalls] /\ recent' = recent
    <3>1. [state |-> "resolving", cap |-> cap, input |-> input] \in FitCalls
      BY DEF FitCalls
    <3>2. call' = [call EXCEPT ![s] = [state |-> "resolving", cap |-> cap, input |-> input]]
      BY <1>4 DEF Lookup
    <3> QED BY <1>1, <1>4, <3>1, <3>2 DEF Lookup
  <2>2. CASE backend = "memory"
    <3>1. entries' = Some(S)
      BY <1>2, <1>4, <2>2 DEF Lookup, AfterGet, Hits
    <3> QED BY <1>1, <2>1, <3>1, DropKeepsInv
  <2>3. CASE backend # "memory"
    <3>1. entries' = entries
      BY <2>3 DEF Lookup
    <3> QED BY <1>1, <2>1, <2>3, <3>1, SameFits DEF CacheInv, LruOrder
  <2> QED BY <2>2, <2>3
<1> QED BY <1>3, <1>4

(* set: a full Map drops its least recently used entry first.               *)
LEMMA FillKeepsInv == ASSUME CacheInv, NEW s \in Slot, Fill(s) PROVE CacheInv'
<1> DEFINE cap == call[s].cap
           input == call[s].input
           k == CacheKey(cap, input)
           value == Result(cap, input)
           e == [key |-> k, value |-> value, left |-> Lifetime]
<1>1. entries \in Seq(FitItems) /\ call \in [Slot -> FitCalls] /\ backend' = backend
    BY DEF CacheInv, Fill
<1>2. cap \in Cap /\ input \in Input
  <2>1. call[s] \in FitCalls /\ call[s].state \in {"resolving", "storing"}
    BY <1>1 DEF Fill
  <2> QED BY <2>1 DEF FitCalls, NoCall
<1>3. e \in FitItems /\ e.key = k /\ k \in Keys
  <2>1. k \in Keys
    BY <1>2 DEF Keys
  <2>2. /\ value \in Results /\ value.age + Lifetime = Lifetime
        /\ CacheKey(value.cap, value.input) = k
    BY <1>2, LifetimeIsNat DEF Results, Result
  <2>3. backend # "memory" => Lifetime > 0
    BY LifetimeIsNat DEF Lifetime
  <2> HIDE DEF k, value
  <2> QED BY <2>1, <2>2, <2>3, LifetimeIsNat DEF FitItems
<1>4. call' \in [Slot -> FitCalls]
    BY <1>1 DEF Fill, FitCalls
<1>5. Use(k)
    BY DEF Fill
<1>6. CASE backend = "memory"
  <2> DEFINE K == Victims(k) \union {k}
             S == Keys \ K
  <2>1. entries' = Append(Some(S), e)
    <3>1. entries' = Append(Only(entries, {x \in ToSet(entries) : x.key \notin K}), e)
      BY <1>6 DEF Fill, AfterSet, Lifetime
    <3> QED BY <1>1, <3>1, WithoutSome
  <2>2. Len(Some(S)) < MaxSize
    <3>1. /\ Len(Some(S)) \in Nat /\ Len(entries) \in Nat /\ MaxSize \in Nat \ {0}
          /\ Len(Some(S)) <= Len(entries) /\ Len(entries) <= MaxSize
          /\ (\E x \in ToSet(entries) : x.key \notin S) => Len(Some(S)) < Len(entries)
      BY <1>1, <1>6, SomeEntries, CacheAssumption DEF CacheInv
    <3>2. CASE Len(entries) < MaxSize
      BY <3>1, <3>2
    <3>3. CASE k \in Stored
      <4>1. Entry(k) \in ToSet(entries) /\ Entry(k).key \notin S
        BY <1>1, <3>3, EntryIs
      <4> QED BY <3>1, <4>1
    <3>4. CASE Len(entries) >= MaxSize /\ k \notin Stored
      <4>1. 1 \in DOMAIN entries /\ Head(entries) = entries[1] /\ Head(entries).key \in K
        BY <1>1, <3>1, <3>4 DEF Victims
      <4>2. Head(entries) \in ToSet(entries)
        BY <4>1 DEF ToSet
      <4> QED BY <3>1, <4>1, <4>2
    <3> QED BY <3>1, <3>2, <3>3, <3>4
  <2> QED BY <1>1, <1>3, <1>4, <1>5, <2>1, <2>2, PutKeepsInv
<1>7. CASE backend # "memory"
  <2>1. entries' = Append(Some(Keys \ {k}), e)
    <3>1. entries' = Append(Without(k), e)
      BY <1>7 DEF Fill, RedisSet, Lifetime
    <3> QED BY <1>1, <3>1, WithoutSome
  <2> QED BY <1>1, <1>3, <1>4, <1>5, <1>7, <2>1, PutKeepsInv
<1> QED BY <1>6, <1>7

EntryAged(e) == [e EXCEPT !.left = IF @ > 0 THEN @ - 1 ELSE 0, !.value = Aged(@)]
AllAged == [i \in DOMAIN entries |-> EntryAged(entries[i])]

(* An entry that ages stays one, over Redis while it has time left.         *)
LEMMA AgedEntryFits ==
    ASSUME NEW e \in FitItems
    PROVE  /\ EntryAged(e).key = e.key
           /\ backend = "memory" \/ EntryAged(e).left > 0 => EntryAged(e) \in FitItems
<1> DEFINE v == e.value
           a == IF v.age < Lifetime THEN v.age + 1 ELSE v.age
           l == IF e.left > 0 THEN e.left - 1 ELSE 0
           w == Aged(v)
<1>1. /\ e \in [key : Keys, value : Results \union {Corrupt}, left : Nat]
      /\ \/ v = Corrupt /\ e.left <= Lifetime
         \/ v.age + e.left = Lifetime /\ e.key = CacheKey(v.cap, v.input)
      /\ IF backend = "memory" THEN v \in Results ELSE e.left > 0
    BY DEF FitItems
<1>2. Lifetime \in Nat /\ e.left \in Nat /\ e.key \in Keys /\ l \in Nat
    BY <1>1, LifetimeIsNat
<1>3. EntryAged(e) = [key |-> e.key, value |-> w, left |-> l]
  <2>1. EntryAged(e) = [[e EXCEPT !.left = l] EXCEPT !.value = w]
    BY DEF EntryAged
  <2> HIDE DEF w, l
  <2> QED BY <1>1, <2>1
<1>4. CASE v = Corrupt
  <2>1. w = Corrupt /\ backend # "memory" /\ l <= Lifetime
    BY <1>2, <1>1, <1>4, CorruptIsNoResult DEF Aged, Corrupt
  <2> HIDE DEF v, w, l
  <2> QED BY <1>2, <1>3, <2>1 DEF FitItems
<1>5. CASE v # Corrupt
  <2>1. v \in Results /\ v.age \in Nat /\ v.age + e.left = Lifetime
          /\ e.key = CacheKey(v.cap, v.input)
    BY <1>1, <1>5 DEF Results
  <2>2. w = [v EXCEPT !.age = a]
    BY <1>5 DEF Aged
  <2>3. a \in Nat /\ a + l = Lifetime
    BY <1>2, <2>1
  <2>4. w \in Results /\ w.age = a /\ w.cap = v.cap /\ w.input = v.input
    BY <2>1, <2>2, <2>3 DEF Results
  <2> HIDE DEF a, v, l, w
  <2>5. w.age + l = Lifetime /\ e.key = CacheKey(w.cap, w.input)
    BY <2>1, <2>3, <2>4
  <2> QED BY <1>2, <1>3, <2>4, <2>5 DEF FitItems
<1> QED BY <1>4, <1>5

LEMMA AllAgedEntries ==
    ASSUME entries \in Seq(FitItems)
    PROVE  /\ AllAged \in Seq({EntryAged(e) : e \in FitItems})
           /\ DOMAIN AllAged = DOMAIN entries /\ Len(AllAged) = Len(entries)
           /\ \A i \in DOMAIN entries : AllAged[i] = EntryAged(entries[i])
                /\ entries[i] \in FitItems
           /\ KeysOf(AllAged) = KeysOf(entries)
<1>1. \A i \in DOMAIN entries : entries[i] \in FitItems
    OBVIOUS
<1>2. \A i \in DOMAIN entries : EntryAged(entries[i]).key = entries[i].key
    BY <1>1, AgedEntryFits
<1> QED BY <1>1, <1>2 DEF AllAged, KeysOf

(* Time passes: an entry ages; what a call was served is forgotten.         *)
LEMMA AgingKeepsInv == ASSUME CacheInv, TimePasses PROVE CacheInv'
<1> DEFINE S == {e \in ToSet(AllAged) : e.left > 0}
<1>1. /\ entries \in Seq(FitItems) /\ call \in [Slot -> FitCalls] /\ UNCHANGED <<backend, recent>>
      /\ entries' = IF backend = "memory" THEN AllAged ELSE Only(AllAged, S)
    BY DEF CacheInv, TimePasses, AllAged, EntryAged
<1>2. call' \in [Slot -> FitCalls]
    BY <1>1 DEF TimePasses, FitCalls
<1>3. CASE backend = "memory"
  <2>1. /\ entries' = AllAged /\ Len(entries') = Len(entries) /\ KeysOf(entries') = KeysOf(entries)
        /\ DOMAIN entries' = DOMAIN entries
    BY <1>1, <1>3, AllAgedEntries
  <2>2. \A i \in DOMAIN entries' : entries'[i] \in FitItems
    BY <1>1, <1>3, <2>1, AllAgedEntries, AgedEntryFits
  <2>3. entries' \in Seq(FitItems)
    <3> DEFINE Olds == {EntryAged(e) : e \in FitItems}
    <3>1. entries' \in Seq(Olds)
      BY <1>1, <2>1, AllAgedEntries
    <3> HIDE DEF Olds
    <3> QED BY <2>2, <3>1
  <2>4. Stored' = Stored
    BY <1>1, <2>1, <2>3, KeysOfEntries DEF Stored
  <2> QED BY <1>1, <1>2, <2>1, <2>3, <2>4, SameFits DEF CacheInv, LruOrder, KeysOf
<1>4. CASE backend # "memory"
  <2> DEFINE Olds == {EntryAged(e) : e \in FitItems}
             left == Only(AllAged, S)
  <2>1. /\ AllAged \in Seq(Olds) /\ IsInjective(KeysOf(AllAged)) /\ DOMAIN AllAged \subseteq Nat
    BY <1>1, AllAgedEntries DEF CacheInv
  <2>2. \A e \in S : e \in FitItems
    BY <1>1, AllAgedEntries, AgedEntryFits DEF ToSet
  <2> HIDE DEF S, Olds
  <2>3. left \in Seq(Olds) /\ ToSet(left) \subseteq S
    BY ONLY <2>1, OnlyType
  <2>4. \A i \in DOMAIN left, j \in DOMAIN left :
           i < j => \E a, b \in DOMAIN AllAged : a < b /\ left[i] = AllAged[a]
             /\ left[j] = AllAged[b]
    BY ONLY <2>1, OnlyOrder
  <2>5. entries' = left
    BY <1>1, <1>4
  <2> HIDE DEF left
  <2>6. entries' \in Seq(FitItems)
    BY <2>2, <2>3, <2>5 DEF ToSet
  <2>7. \A i \in DOMAIN left, j \in DOMAIN left : i < j => left[i].key # left[j].key
    <3> SUFFICES ASSUME NEW i \in DOMAIN left, NEW j \in DOMAIN left, i < j
                 PROVE  left[i].key # left[j].key
      OBVIOUS
    <3>1. PICK a, b \in DOMAIN AllAged : a < b /\ left[i] = AllAged[a] /\ left[j] = AllAged[b]
      BY <2>4
    <3>2. a # b
      BY <2>1, <3>1
    <3> QED BY <2>1, <3>1, <3>2 DEF IsInjective, KeysOf
  <2>8. IsInjective(KeysOf(entries'))
    <3>1. \A i, j \in DOMAIN left : i # j => i < j \/ j < i
      BY <2>3
    <3> QED BY <2>5, <2>7, <3>1 DEF IsInjective, KeysOf
  <2> QED BY <1>1, <1>2, <1>4, <2>6, <2>8, SameFits DEF CacheInv, LruOrder
<1> QED BY <1>3, <1>4

LEMMA CacheGoes == CacheInv /\ [CacheNext]_cacheVars => CacheInv'
<1> SUFFICES ASSUME CacheInv, [CacheNext]_cacheVars PROVE CacheInv'
    OBVIOUS
<1>1. call \in [Slot -> FitCalls] /\ entries \in Seq(FitItems)
    BY DEF CacheInv
<1>2. ASSUME NEW s \in Slot, SendSet(s) PROVE CacheInv'
  <2>1. [call[s] EXCEPT !.state = "storing"] \in FitCalls
    BY <1>1, <1>2 DEF SendSet, FitCalls, NoCall
  <2>2. call' \in [Slot -> FitCalls]
    BY <1>1, <1>2, <2>1 DEF SendSet
  <2> QED BY <1>2, <2>2, SameFits DEF SendSet, CacheInv, LruOrder, Stored
<1>3. ASSUME NEW s \in Slot, Throw(s) PROVE CacheInv'
  <2>1. call' \in [Slot -> FitCalls]
    BY <1>1, <1>3 DEF Throw, FitCalls
  <2> QED BY <1>3, <2>1, SameFits DEF Throw, CacheInv, LruOrder, Stored
<1>4. ASSUME NEW k \in Keys, Foreign(k) PROVE CacheInv'
  <2> DEFINE e == [key |-> k, value |-> Corrupt, left |-> Px]
  <2>1. e \in FitItems /\ e.key = k
    <3>1. backend # "memory" /\ Px \in Nat /\ Px > 0 /\ Px <= Lifetime
      BY <1>4, LifetimeIsNat DEF Foreign, Lifetime
    <3> QED BY <3>1 DEF FitItems
  <2>2. entries' = Append(Some(Keys \ {k}), e)
    BY <1>1, <1>4, WithoutSome DEF Foreign, RedisSet
  <2> HIDE DEF e
  <2> QED BY <1>1, <1>4, <2>1, <2>2, PutKeepsInv DEF Foreign
<1>5. CASE RedisForgets
  <2>1. entries' = <<>> /\ entries' \in Seq(FitItems) /\ KeysOf(entries') = <<>>
          /\ IsInjective(<<>>)
    BY <1>5 DEF RedisForgets, KeysOf, IsInjective
  <2> QED BY <1>5, <2>1, SameFits DEF RedisForgets, CacheInv, LruOrder
<1>6. CASE UNCHANGED cacheVars
    BY <1>6, SameFits DEF cacheVars, CacheInv, LruOrder, Stored
<1> QED
    BY <1>2, <1>3, <1>4, <1>5, <1>6, LookupKeepsInv, FillKeepsInv, AgingKeepsInv DEF CacheNext

(* The inductive invariant of the cache holds in every reachable state.     *)
THEOREM CacheInvariant == CacheSpec => []CacheInv
<1>1. QED BY CacheBegins, CacheGoes, PTL DEF CacheSpec

(* A key has one entry, and the Map never exceeds maxSize.                  *)
THEOREM CacheTypeCorrect == CacheSpec => []CacheTypes
<1>1. ASSUME CacheInv PROVE CacheTypes
  <2>1. \A e \in ToSet(entries) : e \in FitItems
    BY <1>1 DEF CacheInv, ToSet
  <2>2. \A e \in FitItems : e.key \in Keys /\ e.left \in 0 .. Lifetime
    <3> SUFFICES ASSUME NEW e \in FitItems PROVE e.key \in Keys /\ e.left \in 0 .. Lifetime
      OBVIOUS
    <3>1. /\ e.key \in Keys /\ e.left \in Nat /\ Lifetime \in Nat
          /\ e.left <= Lifetime \/ e.value.age + e.left = Lifetime
          /\ e.value \in Results \union {Corrupt}
      BY LifetimeIsNat DEF FitItems
    <3>2. e.value.age \in Nat
      BY <3>1 DEF Results, Corrupt
    <3> QED BY <3>1, <3>2
  <2>3. \A i, j \in DOMAIN entries : entries[i].key = entries[j].key => i = j
    BY <1>1 DEF CacheInv, KeysOf, IsInjective
  <2>4. ToSet(recent) \subseteq Keys
    BY <1>1 DEF CacheInv, ToSet
  <2> QED BY <1>1, <2>1, <2>2, <2>3, <2>4 DEF CacheTypes, CacheInv
<1> QED BY <1>1, CacheInvariant, PTL

(* What a call is served is younger than the ttl and answers that very      *)
(* input, whatever calls of the key overlap and whatever a full Map drops.  *)
THEOREM HitsAreFresh == CacheSpec => []ServedFresh
<1>1. CacheInv => ServedFresh
    BY DEF CacheInv, ServedFresh, FitCalls, NoCall
<1> QED BY <1>1, CacheInvariant, PTL

(* The Map stays in the order of the latest uses.                           *)
THEOREM LruIsOrdered == CacheSpec => []LruOrder
<1>1. CacheInv => LruOrder
    BY DEF CacheInv
<1> QED BY <1>1, CacheInvariant, PTL

-----------------------------------------------------------------------------
(* The limiter.  In memory the ages of a bucket never increase along it.    *)
(* While nothing of a key was lost, the bucket holds the hits granted in    *)
(* the window, and a denial promises when its oldest hit leaves it; of a    *)
(* key that lost hits, each of the bucket has one granted that is no older. *)
Sorted(s) == \A i, j \in DOMAIN s : i < j => s[j] <= s[i]

MemoryKey(k) ==
    /\ \A a \in ToSet(Live(k)) : \E g \in ToSet(granted[k]) : g <= a
    /\ retryIn[k] \in 1 .. MaxWindow =>
         \E g \in ToSet(granted[k]) : g + retryIn[k] <= WindowOf[k]
    /\ k \notin reset =>
         /\ granted[k] = Live(k)
         /\ retryIn[k] = 0 => Len(Live(k)) < Limit
         /\ retryIn[k] \in 1 .. MaxWindow =>
              Len(Live(k)) >= Limit /\ Head(Live(k)) + retryIn[k] = WindowOf[k]

(* Over Redis, the hits granted since the counter of a key was armed are as *)
(* many as counted, unless replies were lost; if none was, the oldest is    *)
(* the one that armed it.  Those from before are less than Limit: the last  *)
(* one that its window could grant has left by now with the window.         *)
Armed(k) == WindowOf[k] - counter[k].left
SinceArmed(k) == Only(granted[k], 0 .. Armed(k))

RedisKey(k) ==
    /\ counter[k].left <= WindowOf[k] /\ (counter[k].left > 0 <=> counter[k].count > 0)
    /\ retryIn[k] \in 1 .. MaxWindow => counter[k].left <= retryIn[k]
    /\ retryIn[k] = 0 => counter[k].count = 0
    /\ k \notin reset /\ counter[k].count = 0 => Len(granted[k]) < Limit
         /\ 0 \notin ToSet(granted[k])
    /\ k \notin reset /\ counter[k].count > 0 =>
         /\ Len(granted[k]) < Len(SinceArmed(k)) + Limit
         /\ Len(SinceArmed(k)) <= counter[k].count /\ Len(SinceArmed(k)) <= Limit
         /\ Len(SinceArmed(k)) = counter[k].count \/ Len(SinceArmed(k)) = Limit =>
              Head(SinceArmed(k)) = Armed(k)

KeyTypes(k) ==
    /\ bucket[k] \in Seq(0 .. MaxWindow) /\ Len(bucket[k]) <= Limit /\ Sorted(bucket[k])
    /\ k \notin Tracked => bucket[k] = <<>>
    /\ granted[k] \in Seq(0 .. WindowOf[k] - 1)

LimiterInv ==
    /\ order \in Seq(Key) /\ IsInjective(order) /\ Len(order) <= MaxKeys + 1
    /\ DOMAIN bucket = Key /\ DOMAIN granted = Key
    /\ retryIn \in [Key -> 0 .. NoPromise]
    /\ counter \in [Key -> [count : 0 .. Limit + 1, left : 0 .. MaxWindow]]
    /\ reset \subseteq Key
    /\ \A k \in Key : KeyTypes(k) /\ IF store = "memory" THEN MemoryKey(k) ELSE RedisKey(k)

LEMMA Members ==
    ASSUME NEW T, NEW s \in Seq(T)
    PROVE  /\ Len(s) \in Nat /\ DOMAIN s = 1 .. Len(s) /\ ToSet(s) \subseteq T
           /\ \A i \in DOMAIN s : s[i] \in ToSet(s) /\ s[i] \in T
           /\ Len(s) > 0 => 1 \in DOMAIN s /\ Head(s) = s[1] /\ Head(s) \in ToSet(s)
           /\ ToSet(s) = {} => s = <<>>
BY DEF ToSet

LEMMA WindowsAre ==
    /\ MaxWindow \in Nat \ {0} /\ Limit \in Nat \ {0} /\ MaxKeys \in Nat
    /\ \A k \in Key : WindowOf[k] \in Nat /\ 1 <= WindowOf[k] /\ WindowOf[k] <= MaxWindow
<1>1. /\ \A k \in Key : WindowOf[k] \in Nat \ {0}
      /\ Limit \in Nat \ {0} /\ MaxKeys \in Nat
    BY StoreAssumption
<1>2. \E w \in {WindowOf[k] : k \in Key} : \A k \in Key : WindowOf[k] <= w
    BY StoreAssumption
<1>3. MaxWindow \in {WindowOf[k] : k \in Key} /\ \A k \in Key : WindowOf[k] <= MaxWindow
    BY <1>2 DEF MaxWindow
<1> QED BY <1>1, <1>3

(* A filter and an append of a new hit keep the order of the ages.          *)
LEMMA SortedStays ==
    ASSUME NEW n \in Nat, NEW s \in Seq(0 .. n), Sorted(s)
    PROVE  Sorted(Append(s, 0)) /\ \A S : Sorted(Only(s, S))
<1>1. Sorted(Append(s, 0))
  <2>1. /\ DOMAIN Append(s, 0) = 1 .. Len(s) + 1 /\ DOMAIN s = 1 .. Len(s) /\ Len(s) \in Nat
        /\ \A i \in 1 .. Len(s) : Append(s, 0)[i] = s[i] /\ s[i] \in 0 .. n
        /\ Append(s, 0)[Len(s) + 1] = 0
    OBVIOUS
  <2> QED BY <2>1 DEF Sorted
<1>2. ASSUME NEW S PROVE Sorted(Only(s, S))
  <2> DEFINE r == Only(s, S)
  <2>1. \A i \in DOMAIN r, j \in DOMAIN r :
           i < j => \E a, b \in DOMAIN s : a < b /\ r[i] = s[a] /\ r[j] = s[b]
    BY OnlyOrder
  <2> HIDE DEF r
  <2>2. Sorted(r)
    BY <2>1 DEF Sorted
  <2> QED BY <2>2 DEF r
<1> QED BY <1>1, <1>2

LEMMA OlderIs ==
    ASSUME NEW s \in Seq(0 .. MaxWindow)
    PROVE  /\ Older(s) \in Seq(0 .. MaxWindow) /\ Len(Older(s)) = Len(s)
             /\ DOMAIN Older(s) = DOMAIN s
           /\ \A i \in DOMAIN s : /\ s[i] \in 0 .. MaxWindow
                                  /\ Older(s)[i] = IF s[i] < MaxWindow THEN s[i] + 1 ELSE s[i]
           /\ Sorted(s) => Sorted(Older(s))
<1> DEFINE T == 0 .. MaxWindow
<1>1. \A i \in DOMAIN s : /\ s[i] \in 0 .. MaxWindow
                          /\ Older(s)[i] = IF s[i] < MaxWindow THEN s[i] + 1 ELSE s[i]
  <2>1. s \in Seq(T)
    OBVIOUS
  <2> HIDE DEF T
  <2>2. \A i \in DOMAIN s : s[i] \in T /\ Older(s)[i] = IF s[i] < MaxWindow THEN s[i] + 1 ELSE s[i]
    BY <2>1 DEF Older
  <2> QED BY <2>2 DEF T
<1>2. \A i \in DOMAIN s : Older(s)[i] \in T
    BY <1>1, WindowsAre
<1>3. Older(s) \in Seq(T) /\ Len(Older(s)) = Len(s) /\ DOMAIN Older(s) = DOMAIN s
  <2>1. s \in Seq(T)
    OBVIOUS
  <2> HIDE DEF T
  <2>2. DOMAIN Older(s) = DOMAIN s /\ Older(s) = [i \in DOMAIN s |-> Older(s)[i]]
    BY DEF Older
  <2> QED BY <1>2, <2>1, <2>2
<1>4. ASSUME Sorted(s) PROVE Sorted(Older(s))
  <2> SUFFICES ASSUME NEW i \in DOMAIN s, NEW j \in DOMAIN s, i < j PROVE Older(s)[j] <= Older(s)[i]
    BY <1>3 DEF Sorted
  <2>1. s[j] <= s[i]
    BY <1>4 DEF Sorted
  <2> QED BY <1>1, <2>1, WindowsAre
<1> QED BY <1>1, <1>3, <1>4

(* What is within a window now was within one tick less before.             *)
LEMMA OlderWithin ==
    ASSUME NEW s \in Seq(0 .. MaxWindow), NEW n \in Nat, n < MaxWindow
    PROVE  Only(Older(s), 0 .. n) = Older(Only(s, 0 .. n - 1))
<1> DEFINE T == 0 .. MaxWindow
           f == [a \in T |-> IF a < MaxWindow THEN a + 1 ELSE a]
           S == 0 .. n - 1
           R == 0 .. n
<1>1. \A a \in T : a \in S <=> f[a] \in R
    BY WindowsAre
<1>2. ASSUME NEW r \in Seq(T) PROVE Older(r) = Mapped(f, r)
  <2>1. \A a \in T : f[a] = IF a < MaxWindow THEN a + 1 ELSE a
    OBVIOUS
  <2> HIDE DEF T, f
  <2>2. \A i \in DOMAIN r : r[i] \in T
    OBVIOUS
  <2> QED BY <2>1, <2>2 DEF Older, Mapped
<1>3. s \in Seq(T)
    OBVIOUS
<1> HIDE DEF T, f, S, R
<1>4. Only(s, S) \in Seq(T)
    BY <1>3, OnlyType
<1>5. Only(Mapped(f, s), R) = Mapped(f, Only(s, S))
    BY <1>1, <1>3, OnlyImage
<1>6. Only(Older(s), R) = Older(Only(s, S))
    BY <1>2, <1>3, <1>4, <1>5
<1> QED BY <1>6 DEF S, R

(* One tick over the ages of a window: what was in its last tick leaves.    *)
LEMMA WindowSlides ==
    ASSUME NEW w \in 1 .. MaxWindow, NEW s \in Seq(0 .. w - 1), NEW t,
           t = Only(Older(s), 0 .. w - 1)
    PROVE  /\ t \in Seq(0 .. w - 1) /\ Len(t) <= Len(s)
           /\ ToSet(t) = {a + 1 : a \in {b \in ToSet(s) : b < w - 1}}
           /\ (\A a \in ToSet(s) : a < w - 1) => t = Older(s)
           /\ (\E a \in ToSet(s) : a = w - 1) => Len(t) < Len(s)
<1> DEFINE T == 0 .. MaxWindow
           S == 0 .. w - 1
           o == Older(s)
<1>1. s \in Seq(T)
    BY WindowsAre
<1>2. /\ o \in Seq(T) /\ Len(o) = Len(s) /\ DOMAIN o = DOMAIN s
      /\ \A i \in DOMAIN s : s[i] \in S /\ o[i] = s[i] + 1
    BY <1>1, OlderIs, WindowsAre
<1> HIDE DEF T, o
<1>3. /\ Only(o, S) \in Seq(T) /\ ToSet(Only(o, S)) = ToSet(o) \cap S /\ Len(Only(o, S)) <= Len(o)
      /\ ToSet(o) \subseteq S => Only(o, S) = o
      /\ (\E x \in ToSet(o) : x \notin S) => Len(Only(o, S)) < Len(o)
    BY <1>2, OnlyType
<1>4. t = Only(o, S)
    BY DEF o
<1>5. ToSet(o) = {a + 1 : a \in ToSet(s)} /\ \A a \in ToSet(s) : a \in S
    BY <1>2 DEF ToSet
<1>6. t \in Seq(S)
  <2>1. \A i \in DOMAIN t : t[i] \in S
    BY <1>3, <1>4 DEF ToSet
  <2> HIDE DEF S
  <2> QED BY <1>3, <1>4, <2>1
<1>7. ToSet(t) = {a + 1 : a \in {b \in ToSet(s) : b < w - 1}}
  <2>1. \A a \in ToSet(s) : a \in Nat /\ (a + 1 \in S <=> a < w - 1)
    BY <1>5, WindowsAre
  <2>2. ToSet(t) = ToSet(o) \cap S
    BY <1>3, <1>4
  <2> HIDE DEF S
  <2> QED BY <1>5, <2>1, <2>2
<1>8. (\A a \in ToSet(s) : a < w - 1) => t = o
    BY <1>3, <1>4, <1>5
<1>9. (\E a \in ToSet(s) : a = w - 1) => Len(t) < Len(s)
    BY <1>2, <1>3, <1>4, <1>5
<1> QED BY <1>2, <1>3, <1>4, <1>6, <1>7, <1>8, <1>9 DEF o

(* The ages of a key within its window.                                     *)
LEMMA LiveIs ==
    ASSUME NEW k \in Key, KeyTypes(k)
    PROVE  /\ Live(k) = Only(bucket[k], 0 .. WindowOf[k] - 1)
           /\ Live(k) \in Seq(0 .. WindowOf[k] - 1) /\ Sorted(Live(k))
           /\ Len(Live(k)) <= Len(bucket[k]) /\ Len(Live(k)) <= Limit
           /\ Len(bucket[k]) \in Nat /\ Len(Live(k)) \in Nat
<1> DEFINE S == 0 .. WindowOf[k] - 1
           b == bucket[k]
           T == 0 .. MaxWindow
<1>1. b \in Seq(T) /\ Len(b) <= Limit /\ Sorted(b) /\ (k \notin Tracked => b = <<>>)
    BY DEF KeyTypes
<1>2. Live(k) = Only(b, S)
    BY <1>1, OnlyEmpty DEF Live, Within
<1>3. Sorted(Only(b, S))
    BY <1>1, SortedStays, WindowsAre
<1> HIDE DEF S, b, T
<1>4. /\ Only(b, S) \in Seq(T) /\ ToSet(Only(b, S)) \subseteq S /\ Len(Only(b, S)) <= Len(b)
    BY <1>1, OnlyType
<1>5. Only(b, S) \in Seq(S)
    BY <1>4 DEF ToSet
<1>6. Len(b) \in Nat /\ Len(Only(b, S)) \in Nat
    BY <1>1, <1>4
<1>7. Len(Only(b, S)) <= Limit
    BY <1>1, <1>4, <1>6, WindowsAre
<1> QED BY <1>2, <1>3, <1>4, <1>5, <1>6, <1>7 DEF S, b

(* A tick slides the window over the live hits as over the granted ones.    *)
LEMMA LiveSlides ==
    ASSUME NEW k \in Key, KeyTypes(k), LimiterInv, Tick
    PROVE  /\ KeyTypes(k)'
           /\ Live(k)' = Only(Older(Live(k)), 0 .. WindowOf[k] - 1)
           /\ granted'[k] = Only(Older(granted[k]), 0 .. WindowOf[k] - 1)
<1> DEFINE w == WindowOf[k]
           b == bucket[k]
           T == 0 .. MaxWindow
           S == 0 .. w - 1
           R == 0 .. (w - 1) - 1
<1>1. w \in Nat /\ 1 <= w /\ w <= MaxWindow /\ MaxWindow \in Nat /\ w - 1 \in Nat
        /\ w - 1 < MaxWindow
    BY WindowsAre
<1>2. b \in Seq(T) /\ Len(b) <= Limit /\ Sorted(b) /\ granted[k] \in Seq(S)
    BY DEF KeyTypes
<1>3. bucket'[k] = Older(b) /\ granted'[k] = Only(Older(granted[k]), S) /\ order' = order
    BY DEF Tick, Within
<1>4. Older(b) \in Seq(T) /\ Len(Older(b)) = Len(b) /\ Sorted(Older(b))
    BY <1>2, OlderIs
<1>5. granted'[k] \in Seq(S)
    BY <1>1, <1>2, <1>3, WindowSlides
<1>6. b = <<>> => Older(b) = <<>>
    BY <1>4
<1>7. KeyTypes(k)'
    BY <1>2, <1>3, <1>4, <1>5, <1>6 DEF KeyTypes, Tracked
<1>8. Live(k) = Only(b, S) /\ Live(k) \in Seq(S)
    BY LiveIs
<1>9. Live(k)' = Only(Older(b), S)
    BY <1>3, <1>4, <1>6, OnlyEmpty DEF KeyTypes, Live, Within, Tracked
<1>10. Live(k) \in Seq(T)
    BY <1>2, <1>8, OnlyType
<1>11. /\ Only(Older(b), S) = Older(Only(b, R))
       /\ Only(Older(Live(k)), S) = Older(Only(Live(k), R))
    BY <1>1, <1>2, <1>10, OlderWithin
<1>12. Only(Live(k), R) = Only(b, R)
  <2>1. \A a \in T : a \in S \cap R <=> a \in R
    BY <1>1
  <2> HIDE DEF S, R, T, b
  <2>2. Only(Only(b, S), R) = Only(b, S \cap R)
    BY <1>2, OnlyTwice
  <2>3. Only(b, S \cap R) = Only(b, R)
    <3> DEFINE Q == S \cap R
    <3>1. \A a \in T : a \in Q <=> a \in R
      BY <2>1
    <3> HIDE DEF Q
    <3>2. Only(b, Q) = Only(b, R)
      BY <1>2, <3>1, OnlySame
    <3> QED BY <3>2 DEF Q
  <2> QED BY <1>8, <2>2, <2>3
<1> HIDE DEF S, R, T, b
<1>13. Live(k)' = Only(Older(Live(k)), S)
    BY <1>9, <1>11, <1>12
<1> QED BY <1>3, <1>7, <1>13 DEF S

LEMMA TickOfMemory ==
    ASSUME LimiterInv, Tick, store = "memory", NEW k \in Key
    PROVE  MemoryKey(k)'
<1> DEFINE w == WindowOf[k]
           S == 0 .. w - 1
           live == Live(k)
           g == granted[k]
           r == retryIn[k]
<1>1. /\ KeyTypes(k) /\ MemoryKey(k) /\ w \in Nat /\ 1 <= w /\ w <= MaxWindow /\ MaxWindow \in Nat
      /\ Limit \in Nat /\ 1 <= Limit
      /\ r \in Nat /\ r <= MaxWindow + 1
    BY WindowsAre DEF LimiterInv, NoPromise
<1>2. /\ live \in Seq(S) /\ Sorted(live) /\ Len(live) <= Limit /\ Len(live) \in Nat /\ g \in Seq(S)
      /\ Live(k)' = Only(Older(live), S) /\ granted'[k] = Only(Older(g), S)
    BY <1>1, LiveIs, LiveSlides DEF KeyTypes
<1>3. /\ Live(k)' \in Seq(S) /\ Len(Live(k)') <= Len(live)
      /\ ToSet(Live(k)') = {a + 1 : a \in {b \in ToSet(live) : b < w - 1}}
      /\ (\A a \in ToSet(live) : a < w - 1) => Live(k)' = Older(live)
      /\ (\E a \in ToSet(live) : a = w - 1) => Len(Live(k)') < Len(live)
      /\ ToSet(granted'[k]) = {a + 1 : a \in {b \in ToSet(g) : b < w - 1}}
  <2> DEFINE live2 == Live(k)'
             g2 == granted'[k]
  <2>1. w \in 1 .. MaxWindow /\ live \in Seq(0 .. w - 1) /\ live2 = Only(Older(live), 0 .. w - 1)
    BY <1>1, <1>2
  <2>2. g \in Seq(0 .. w - 1) /\ g2 = Only(Older(g), 0 .. w - 1)
    BY <1>2
  <2> HIDE DEF live, live2, g, g2, w
  <2>3. /\ live2 \in Seq(0 .. w - 1) /\ Len(live2) <= Len(live)
        /\ ToSet(live2) = {a + 1 : a \in {b \in ToSet(live) : b < w - 1}}
        /\ (\A a \in ToSet(live) : a < w - 1) => live2 = Older(live)
        /\ (\E a \in ToSet(live) : a = w - 1) => Len(live2) < Len(live)
    BY ONLY <2>1, WindowSlides
  <2>4. ToSet(g2) = {a + 1 : a \in {b \in ToSet(g) : b < w - 1}}
    BY ONLY <2>1, <2>2, WindowSlides
  <2> QED BY <2>3, <2>4 DEF live, live2, g, g2, w
<1>4. \A a \in ToSet(live) \union ToSet(g) : a \in Nat /\ a <= w - 1
  <2>1. ToSet(live) \subseteq S /\ ToSet(g) \subseteq S
    BY <1>2, Members
  <2> QED BY <1>1, <2>1
<1>5. retryIn'[k] = (IF r \in 1 .. MaxWindow THEN r - 1 ELSE r)
        /\ reset' = {j \in reset : granted'[j] # <<>>}
    BY DEF Tick
<1>6. \A a \in ToSet(Live(k)') : \E y \in ToSet(granted'[k]) : y <= a
  <2> SUFFICES ASSUME NEW a \in ToSet(Live(k)') PROVE \E y \in ToSet(granted'[k]) : y <= a
    OBVIOUS
  <2>1. PICK b \in ToSet(live) : b < w - 1 /\ a = b + 1
    BY <1>3
  <2>2. PICK y \in ToSet(g) : y <= b
    BY <1>1 DEF MemoryKey
  <2>3. y < w - 1 /\ y + 1 <= a
    BY <1>1, <1>4, <2>1, <2>2
  <2>4. y + 1 \in ToSet(granted'[k])
    BY <1>3, <2>3
  <2> QED BY <2>3, <2>4
<1>7. retryIn'[k] \in 1 .. MaxWindow => \E y \in ToSet(granted'[k]) : y + retryIn'[k] <= w
  <2> SUFFICES ASSUME retryIn'[k] \in 1 .. MaxWindow
               PROVE  \E y \in ToSet(granted'[k]) : y + retryIn'[k] <= w
    OBVIOUS
  <2>1. r \in 1 .. MaxWindow /\ retryIn'[k] = r - 1 /\ r >= 2
    BY <1>1, <1>5
  <2>2. PICK y \in ToSet(g) : y + r <= w
    BY <1>1, <2>1 DEF MemoryKey
  <2>3. y < w - 1 /\ (y + 1) + retryIn'[k] <= w
    BY <1>1, <1>4, <2>1, <2>2
  <2>4. y + 1 \in ToSet(granted'[k])
    BY <1>3, <2>3
  <2> QED BY <2>3, <2>4
<1>8. ASSUME k \notin reset, retryIn'[k] = 0 PROVE Len(Live(k)') < Limit
  <2>1. CASE r = 0
    <3>1. Len(live) < Limit
      BY <1>1, <1>8, <2>1 DEF MemoryKey
    <3>2. Len(Live(k)') \in Nat
      BY <1>3
    <3> QED BY <1>1, <1>2, <1>3, <3>1, <3>2
  <2>2. CASE r = 1
    <3>1. Len(live) >= Limit /\ Head(live) + r = w
      BY <1>1, <1>8, <2>2 DEF MemoryKey
    <3>2. Len(live) >= 1 /\ Head(live) = live[1] /\ 1 \in DOMAIN live
      BY <1>1, <1>2, <3>1
    <3>3. Head(live) \in ToSet(live)
      BY <3>2 DEF ToSet
    <3>4. Head(live) = w - 1
      BY <1>1, <1>4, <2>2, <3>1, <3>3
    <3>5. Len(Live(k)') < Len(live) /\ Len(Live(k)') \in Nat
      BY <1>3, <3>3, <3>4
    <3> QED BY <1>1, <1>2, <3>5
  <2> QED BY <1>1, <1>5, <1>8, <2>1, <2>2
<1>9. ASSUME k \notin reset, retryIn'[k] \in 1 .. MaxWindow
      PROVE  Len(Live(k)') >= Limit /\ Head(Live(k)') + retryIn'[k] = w
  <2>1. r \in 1 .. MaxWindow /\ retryIn'[k] = r - 1 /\ r >= 2
    BY <1>1, <1>5, <1>9
  <2>2. Len(live) >= Limit /\ Head(live) + r = w
    BY <1>1, <1>9, <2>1 DEF MemoryKey
  <2>3. Len(live) >= 1 /\ Head(live) = live[1] /\ DOMAIN live = 1 .. Len(live)
    BY <1>1, <1>2, <2>2
  <2>4. \A i \in DOMAIN live : live[i] <= Head(live)
    <3>1. 1 \in DOMAIN live /\ \A i \in DOMAIN live : i = 1 \/ 1 < i
      BY <1>2, <2>3
    <3>2. \A i \in DOMAIN live : live[i] \in Nat
      BY <1>4 DEF ToSet
    <3>3. \A i \in DOMAIN live : 1 < i => live[i] <= live[1]
      BY <1>2, <3>1 DEF Sorted
    <3> HIDE DEF live
    <3> QED BY <2>3, <3>1, <3>2, <3>3
  <2>5. Head(live) \in Nat /\ Head(live) < w - 1
    <3>1. Head(live) \in Nat
      BY <1>4, <2>3 DEF ToSet
    <3> QED BY <1>1, <2>1, <2>2, <3>1
  <2>6. \A a \in ToSet(live) : a < w - 1
    <3>1. \A a \in ToSet(live) : a <= Head(live)
      BY <2>4 DEF ToSet
    <3> QED BY <1>1, <1>4, <2>5, <3>1
  <2>7. Live(k)' = Older(live)
    BY <1>3, <2>6
  <2>8. live \in Seq(0 .. MaxWindow)
    BY <1>1, <1>2
  <2>9. Len(Older(live)) = Len(live) /\ Older(live)[1] = Head(live) + 1
    BY <1>1, <2>3, <2>5, <2>8, OlderIs
  <2>10. Head(Older(live)) = Older(live)[1]
    BY <2>3, <2>8, <2>9, OlderIs
  <2>11. Len(Older(live)) >= Limit /\ Head(Older(live)) = Head(live) + 1
    BY <2>2, <2>9, <2>10
  <2>12. (Head(live) + 1) + retryIn'[k] = w
    <3> DEFINE a == Head(live)
               q == retryIn'[k]
    <3>1. a \in Nat /\ a + r = w /\ q = r - 1 /\ r \in Nat /\ w \in Nat
      BY <1>1, <2>1, <2>2, <2>5
    <3> HIDE DEF a, q, r, w
    <3>2. (a + 1) + q = w
      BY <3>1
    <3> QED BY <3>2 DEF a, q
  <2> HIDE DEF live
  <2> QED BY <2>7, <2>11, <2>12
<1>10. CASE k \notin reset
  <2>1. granted'[k] = Live(k)'
    BY <1>1, <1>2, <1>10 DEF MemoryKey
  <2> QED BY <1>6, <1>7, <1>8, <1>9, <1>10, <2>1 DEF MemoryKey
<1>11. CASE k \in reset /\ granted'[k] = <<>>
  <2>1. ToSet(granted'[k]) = {}
    BY <1>11 DEF ToSet
  <2>2. ToSet(Live(k)') = {}
    BY <1>6, <2>1
  <2>3. Live(k)' = <<>>
    BY <1>3, <2>2 DEF ToSet
  <2>4. Len(Live(k)') < Limit /\ retryIn'[k] \notin 1 .. MaxWindow
    BY <1>1, <1>7, <2>1, <2>3
  <2> QED BY <1>6, <1>7, <1>11, <2>3, <2>4 DEF MemoryKey
<1>12. CASE k \in reset /\ granted'[k] # <<>>
  <2>1. k \in reset'
    BY <1>5, <1>12
  <2> QED BY <1>6, <1>7, <2>1 DEF MemoryKey
<1> QED BY <1>10, <1>11, <1>12

LEMMA TickOfRedis ==
    ASSUME LimiterInv, Tick, store # "memory", NEW k \in Key
    PROVE  RedisKey(k)'
<1> DEFINE w == WindowOf[k]
           S == 0 .. w - 1
           g == granted[k]
           h == granted'[k]
           r == retryIn[k]
           n == counter[k].count
           l == counter[k].left
<1>1. /\ KeyTypes(k) /\ RedisKey(k) /\ w \in Nat /\ 1 <= w /\ w <= MaxWindow /\ MaxWindow \in Nat
      /\ Limit \in Nat /\ 1 <= Limit /\ r \in Nat /\ r <= MaxWindow + 1
      /\ n \in Nat /\ l \in Nat /\ l <= w
      /\ counter \in [Key -> [count : 0 .. Limit + 1, left : 0 .. MaxWindow]]
    BY WindowsAre DEF LimiterInv, NoPromise, RedisKey
<1>2. g \in Seq(S) /\ h = Only(Older(g), S)
    BY <1>1, LiveSlides DEF KeyTypes
<1>3. /\ h \in Seq(S) /\ Len(h) <= Len(g) /\ Len(h) \in Nat /\ Len(g) \in Nat
      /\ ToSet(h) = {a + 1 : a \in {b \in ToSet(g) : b < w - 1}}
      /\ (\E a \in ToSet(g) : a = w - 1) => Len(h) < Len(g)
  <2>1. w \in 1 .. MaxWindow /\ g \in Seq(0 .. w - 1) /\ h = Only(Older(g), 0 .. w - 1)
    BY <1>1, <1>2
  <2> HIDE DEF g, h, w
  <2>2. /\ h \in Seq(0 .. w - 1) /\ Len(h) <= Len(g)
        /\ ToSet(h) = {a + 1 : a \in {b \in ToSet(g) : b < w - 1}}
        /\ (\E a \in ToSet(g) : a = w - 1) => Len(h) < Len(g)
    BY ONLY <2>1, WindowSlides
  <2>3. Len(h) \in Nat /\ Len(g) \in Nat
    BY ONLY <2>1, <2>2, Members
  <2> QED BY <2>2, <2>3 DEF g, h, w
<1>4. 0 \notin ToSet(h)
  <2>1. ToSet(g) \subseteq S
    BY <1>2, Members
  <2>2. \A a \in ToSet(g) : a \in Nat
    BY <1>1, <2>1
  <2> QED BY <1>3, <2>2
<1>5. /\ retryIn'[k] = IF r \in 1 .. MaxWindow THEN r - 1 ELSE r
      /\ reset' = {j \in reset : granted'[j] # <<>>}
      /\ counter'[k] = IF l > 1 THEN [counter[k] EXCEPT !.left = l - 1] ELSE NoCount
    BY DEF Tick
<1>6. CASE l > 1
  <2>1. counter'[k].count = n /\ counter'[k].left = l - 1 /\ n > 0
    BY <1>1, <1>5, <1>6 DEF RedisKey
  <2>2. /\ counter'[k].left <= w /\ counter'[k].left > 0 /\ counter'[k].count > 0
        /\ retryIn'[k] \in 1 .. MaxWindow => counter'[k].left <= retryIn'[k]
        /\ retryIn'[k] # 0
    BY <1>1, <1>5, <1>6, <2>1 DEF RedisKey
  <2> DEFINE e == Armed(k)
             C == SinceArmed(k)
             D == SinceArmed(k)'
  <2>3. e = w - l /\ Armed(k)' = e + 1 /\ e \in Nat /\ e + 1 <= w - 1
    BY <1>1, <1>6, <2>1 DEF Armed
  <2>4. C = Only(g, 0 .. e) /\ D = Only(h, 0 .. e + 1)
    BY <2>3 DEF SinceArmed
  <2>5. D = Older(C)
    <3> DEFINE R == 0 .. e + 1
               T == 0 .. MaxWindow
    <3>1. Older(g) \in Seq(T) /\ g \in Seq(T)
      BY <1>1, <1>2, OlderIs
    <3>2. \A a \in T : a \in S \cap R <=> a \in R
      BY <1>1, <2>3
    <3>3. Only(Older(g), R) = Older(Only(g, 0 .. (e + 1) - 1))
      BY <1>1, <2>3, <3>1, OlderWithin
    <3>4. (e + 1) - 1 = e
      BY <2>3
    <3> HIDE DEF R, S, T
    <3>5. Only(Only(Older(g), S), R) = Only(Older(g), S \cap R)
      BY <3>1, OnlyTwice
    <3>6. Only(Older(g), S \cap R) = Only(Older(g), R)
      <4> DEFINE Q == S \cap R
                 o == Older(g)
      <4>1. o \in Seq(T) /\ \A a \in T : a \in Q <=> a \in R
        BY <3>1, <3>2
      <4> HIDE DEF Q, o
      <4>2. Only(o, Q) = Only(o, R)
        BY ONLY <4>1, OnlySame
      <4> QED BY <4>2 DEF Q, o
    <3>7. D = Only(Only(Older(g), S), R)
      BY <1>2, <2>4 DEF R
    <3> QED BY <2>4, <3>3, <3>4, <3>5, <3>6, <3>7
  <2>6. C \in Seq(S) /\ C \in Seq(0 .. MaxWindow) /\ Len(C) \in Nat
    <3> DEFINE R == 0 .. e
    <3> HIDE DEF S, R
    <3>1. Only(g, R) \in Seq(S)
      BY <1>2, OnlyType
    <3>2. C \in Seq(S)
      BY <2>4, <3>1 DEF R
    <3> QED BY <1>1, <3>2 DEF S
  <2>7. Len(D) = Len(C)
    BY <2>5, <2>6, OlderIs
  <2>8. Len(C) > 0 => Head(D) = Head(C) + 1
    <3> SUFFICES ASSUME Len(C) > 0 PROVE Head(D) = Head(C) + 1
      OBVIOUS
    <3>1. 1 \in DOMAIN C /\ Head(C) = C[1] /\ C[1] \in S
      <4> HIDE DEF C, S
      <4> QED BY <2>6, Members
    <3>2. Older(C)[1] = C[1] + 1
      BY <1>1, <2>6, <3>1, OlderIs
    <3>3. Older(C) \in Seq(0 .. MaxWindow) /\ Len(Older(C)) > 0
      BY <2>6, OlderIs
    <3>4. Head(Older(C)) = Older(C)[1]
      BY <3>3
    <3> QED BY <2>5, <3>1, <3>2, <3>4
  <2>9. k \notin reset =>
          /\ Len(h) < Len(D) + Limit
          /\ Len(D) <= n /\ Len(D) <= Limit
          /\ Len(D) = n \/ Len(D) = Limit => Head(D) = e + 1
    <3> SUFFICES ASSUME k \notin reset
                 PROVE  /\ Len(h) < Len(D) + Limit
                        /\ Len(D) <= n /\ Len(D) <= Limit
                        /\ Len(D) = n \/ Len(D) = Limit => Head(D) = e + 1
      OBVIOUS
    <3>1. /\ Len(g) < Len(C) + Limit
          /\ Len(C) <= n /\ Len(C) <= Limit
          /\ Len(C) = n \/ Len(C) = Limit => Head(C) = e
      BY <1>1, <2>1 DEF RedisKey
    <3> HIDE DEF C, D, e, g, h, n
    <3>2. Len(h) < Len(D) + Limit
      BY <1>1, <1>3, <2>6, <2>7, <3>1
    <3>3. Len(D) <= n /\ Len(D) <= Limit
      BY <2>7, <3>1
    <3>4. Len(D) = n \/ Len(D) = Limit => Head(D) = e + 1
      BY <1>1, <2>1, <2>6, <2>7, <2>8, <3>1
    <3> QED BY <3>2, <3>3, <3>4
  <2>10. ASSUME k \in reset, h = <<>>
         PROVE  Len(h) < Len(D) + Limit /\ Len(D) = 0
    <3>1. D = <<>>
      BY <2>4, <2>10, OnlyEmpty
    <3> QED BY <1>1, <2>10, <3>1
  <2>11. k \notin reset' =>
          /\ Len(h) < Len(D) + Limit
          /\ Len(D) <= n /\ Len(D) <= Limit
          /\ Len(D) = n \/ Len(D) = Limit => Head(D) = e + 1
    <3>1. k \notin reset' => k \notin reset \/ (k \in reset /\ h = <<>>)
      BY <1>5
    <3> HIDE DEF C, D, e, g, h, n
    <3>2. ASSUME Len(h) < Len(D) + Limit, Len(D) = 0
          PROVE  /\ Len(h) < Len(D) + Limit
                 /\ Len(D) <= n /\ Len(D) <= Limit
                 /\ Len(D) = n \/ Len(D) = Limit => Head(D) = e + 1
      BY <1>1, <2>1, <3>2
    <3> QED BY <2>9, <2>10, <3>1, <3>2
  <2> HIDE DEF C, D, e
  <2> QED BY <2>1, <2>2, <2>3, <2>11 DEF RedisKey, C, D, e
<1>7. CASE l <= 1
  <2>1. counter'[k].count = 0 /\ counter'[k].left = 0
    BY <1>1, <1>5, <1>7 DEF NoCount
  <2>2. k \notin reset' => Len(h) < Limit
    <3>1. CASE k \in reset
      BY <1>1, <1>5, <3>1
    <3>2. CASE k \notin reset /\ n = 0
      <4>1. Len(g) < Limit
        BY <1>1, <3>2 DEF RedisKey
      <4> QED BY <1>1, <1>3, <4>1
    <3>3. CASE k \notin reset /\ n > 0
      <4>1. l = 1
        BY <1>1, <1>7, <3>3 DEF RedisKey
      <4>2. Armed(k) = w - 1
        BY <4>1 DEF Armed
      <4>3. SinceArmed(k) = g
        <5>1. ToSet(g) \subseteq S
          BY <1>2, Members
        <5>2. Only(g, S) = g
          BY <1>2, <5>1, OnlyType
        <5> QED BY <4>2, <5>2 DEF SinceArmed
      <4>4. Len(g) <= Limit /\ (Len(g) = Limit => Head(g) = w - 1)
        BY <1>1, <3>3, <4>2, <4>3 DEF RedisKey
      <4>5. CASE Len(g) = Limit
        <5>1. 1 \in DOMAIN g /\ g[1] = Head(g)
          BY <1>1, <1>2, <4>5
        <5>2. \E a \in ToSet(g) : a = w - 1
          BY <4>4, <4>5, <5>1 DEF ToSet
        <5> QED BY <1>3, <4>5, <5>2
      <4>6. CASE Len(g) < Limit
        BY <1>1, <1>3, <4>6
      <4> QED BY <1>1, <1>3, <4>4, <4>5, <4>6
    <3> QED BY <1>1, <3>1, <3>2, <3>3
  <2>3. counter'[k].left <= w /\ (retryIn'[k] \in 1 .. MaxWindow => counter'[k].left <= retryIn'[k])
    BY <1>1, <2>1
  <2> QED BY <1>4, <2>1, <2>2, <2>3 DEF RedisKey
<1> QED BY <1>1, <1>6, <1>7

(* A hit adds an age of 0, and only a full history forgets its oldest.      *)
LEMMA RememberIs ==
    ASSUME NEW k \in Key, NEW g \in Seq(0 .. WindowOf[k] - 1)
    PROVE  /\ Remember(g) \in Seq(0 .. WindowOf[k] - 1) /\ 0 \in ToSet(Remember(g))
           /\ Len(g) < 2 * Limit => Remember(g) = Append(g, 0)
<1> DEFINE S == 0 .. WindowOf[k] - 1
           r == IF Len(g) >= 2 * Limit THEN Tail(g) ELSE g
<1>1. 0 \in S /\ g \in Seq(S) /\ Len(g) \in Nat
    BY WindowsAre
<1>2. Len(g) >= 2 * Limit => g # <<>>
    BY <1>1, WindowsAre
<1> HIDE DEF S
<1>3. r \in Seq(S)
    BY <1>1, <1>2, HeadTailProperties
<1>4. Remember(g) = Append(r, 0)
    BY DEF Remember
<1> HIDE DEF r
<1>5. Append(r, 0) \in Seq(S) /\ ToSet(Append(r, 0)) = ToSet(r) \union {0}
    BY <1>1, <1>3, AppendToSet
<1>6. Len(g) < 2 * Limit => r = g
    BY <1>1, WindowsAre DEF r
<1> QED BY <1>4, <1>5, <1>6 DEF S

(* The sweep leaves the keys it leaves in their order, MaxKeys at most.     *)
LEMMA SweptIs ==
    ASSUME NEW k \in Key, order \in Seq(Key), IsInjective(order)
    PROVE  /\ Swept(k) \in Seq(Key) /\ IsInjective(Swept(k))
           /\ ToSet(Swept(k)) \subseteq Tracked /\ Len(Swept(k)) <= MaxKeys
<1> DEFINE A == {j \in Tracked : bucket[j] # <<>> /\ Last(bucket[j]) < WindowOf[k]}
           active == Only(order, A)
           n == Len(active)
           tail == SubSeq(active, n - MaxKeys + 1, n)
<1>1. active \in Seq(Key) /\ IsInjective(active) /\ ToSet(active) \subseteq Tracked /\ n \in Nat
  <2> HIDE DEF A
  <2>1. Only(order, A) \in Seq(Key) /\ ToSet(Only(order, A)) = ToSet(order) \cap A
    BY OnlyType
  <2> QED BY <2>1, OnlyInjective DEF Tracked
<1> HIDE DEF A, active
<1>2. ASSUME n > MaxKeys
      PROVE  /\ tail \in Seq(Key) /\ IsInjective(tail)
             /\ ToSet(tail) \subseteq Tracked /\ Len(tail) = MaxKeys
  <2> DEFINE m == n - MaxKeys
  <2>1. m \in Nat /\ m + 1 \in 1 .. n + 1 /\ n = m + MaxKeys /\ MaxKeys \in Nat
    BY <1>1, <1>2, WindowsAre
  <2>2. /\ tail \in Seq(Key) /\ Len(tail) = MaxKeys /\ DOMAIN tail = 1 .. MaxKeys
        /\ \A i \in 1 .. MaxKeys : tail[i] = active[m + i] /\ m + i \in DOMAIN active
    BY <1>1, <2>1
  <2> HIDE DEF tail, m
  <2>3. IsInjective(tail)
    <3> SUFFICES ASSUME NEW i \in 1 .. MaxKeys, NEW j \in 1 .. MaxKeys, tail[i] = tail[j]
          PROVE i = j
      BY <2>2 DEF IsInjective
    <3>1. m + i = m + j
      BY <1>1, <2>2 DEF IsInjective
    <3> QED BY <2>1, <3>1
  <2>4. ToSet(tail) \subseteq ToSet(active)
    BY <2>2 DEF ToSet
  <2> QED BY <1>1, <2>2, <2>3, <2>4
<1>3. EvictStale(WindowOf[k]) = IF n > MaxKeys THEN tail ELSE active
    BY DEF EvictStale, active, A
<1>4. Len(order) \in Nat
    OBVIOUS
<1>5. CASE Len(order) > MaxKeys
  <2>1. Swept(k) = EvictStale(WindowOf[k])
    BY <1>5 DEF Swept
  <2>2. CASE n > MaxKeys
    BY <1>2, <1>3, <2>1, <2>2, WindowsAre
  <2>3. CASE ~(n > MaxKeys)
    <3>1. n <= MaxKeys
      BY <1>1, <2>3, WindowsAre
    <3> QED BY <1>1, <1>3, <2>1, <2>3, <3>1
  <2> QED BY <2>2, <2>3
<1>6. CASE ~(Len(order) > MaxKeys)
  <2>1. Swept(k) = order /\ Len(order) <= MaxKeys
    BY <1>4, <1>6, WindowsAre DEF Swept
  <2> QED BY <2>1 DEF Tracked
<1> QED BY <1>5, <1>6

(* Any hit of the memory store leaves each key tracked once.                *)
LEMMA OrderStays ==
    ASSUME LimiterInv, NEW k \in Key, HitMemory(k)
    PROVE  /\ order' \in Seq(Key) /\ IsInjective(order') /\ Len(order') <= MaxKeys + 1
           /\ Tracked' = ToSet(Swept(k)) \union {k}
<1> DEFINE kept == Swept(k)
<1>1. /\ kept \in Seq(Key) /\ IsInjective(kept) /\ ToSet(kept) \subseteq Tracked
           /\ Len(kept) <= MaxKeys
      /\ order' = IF k \in ToSet(kept) THEN kept ELSE Append(kept, k)
    BY SweptIs DEF LimiterInv, HitMemory
<1>2. Len(kept) \in Nat
    BY <1>1
<1> HIDE DEF kept
<1>3. CASE k \in ToSet(kept)
    BY <1>1, <1>2, <1>3, WindowsAre DEF Tracked, kept
<1>4. CASE k \notin ToSet(kept)
  <2> DEFINE K == Key \ {k}
  <2>1. ToSet(kept) \subseteq K
    BY <1>1, <1>4, Members
  <2> HIDE DEF K
  <2>2. Only(kept, K) = kept
    BY <1>1, <2>1, OnlyType
  <2>3. k \notin K
    BY DEF K
  <2>4. /\ Append(kept, k) \in Seq(Key) /\ IsInjective(Append(kept, k))
        /\ ToSet(Append(kept, k)) = (ToSet(kept) \cap K) \union {k}
    BY <1>1, <2>2, <2>3, MovedToEnd
  <2>5. Len(Append(kept, k)) <= MaxKeys + 1
    BY <1>1, <1>2, WindowsAre
  <2> QED BY <1>1, <1>4, <2>1, <2>4, <2>5 DEF Tracked, kept
<1> QED BY <1>3, <1>4

(* The key that is hit in memory.                                           *)
LEMMA HitInMemory ==
    ASSUME LimiterInv, store = "memory", NEW k \in Key, HitMemory(k)
    PROVE  KeyTypes(k)' /\ MemoryKey(k)' /\ retryIn'[k] \in 0 .. NoPromise
<1> DEFINE w == WindowOf[k]
           S == 0 .. w - 1
           kept == Swept(k)
           ages == IF k \in ToSet(kept) THEN Within(bucket[k], w) ELSE <<>>
           live == Live(k)
           g == granted[k]
           room == HasRoom(ages)
           b == bucket'[k]
<1>1. /\ w \in Nat /\ 1 <= w /\ w <= MaxWindow /\ MaxWindow \in Nat /\ Limit \in Nat /\ 1 <= Limit
      /\ KeyTypes(k) /\ MemoryKey(k) /\ g \in Seq(S)
      /\ DOMAIN granted = Key /\ retryIn \in [Key -> 0 .. NoPromise]
    BY WindowsAre DEF LimiterInv, KeyTypes
<1>2. /\ live = Within(bucket[k], w) /\ live \in Seq(S) /\ Sorted(live)
      /\ Len(live) <= Limit /\ Len(live) \in Nat
    BY <1>1, LiveIs DEF Within
<1>3. ages = live \/ ages = <<>>
    BY <1>2
<1>4. /\ ages \in Seq(S) /\ Sorted(ages) /\ Len(ages) <= Limit /\ Len(ages) \in Nat
      /\ ToSet(ages) \subseteq ToSet(live) /\ ToSet(ages) \subseteq S
  <2>1. Sorted(<<>>) /\ ToSet(<<>>) = {} /\ <<>> \in Seq(S) /\ Len(<<>>) = 0
    BY DEF Sorted, ToSet
  <2> HIDE DEF ages, live, S
  <2>2. ToSet(live) \subseteq S
    BY <1>2, Members
  <2>3. CASE ages = live
    BY <1>2, <2>2, <2>3
  <2>4. CASE ages = <<>>
    <3>1. Len(<<>>) \in Nat /\ Len(<<>>) <= Limit
      BY <1>1, <2>1
    <3>2. ToSet(ages) = {} /\ ages \in Seq(S) /\ Sorted(ages)
      BY <2>1, <2>4, Zenon
    <3> QED BY <2>4, <3>1, <3>2
  <2> QED BY <1>3, <2>3, <2>4
<1>5. /\ k \in Tracked' /\ b = IF room THEN Append(ages, 0) ELSE ages
      /\ granted'[k] = IF room THEN Remember(g) ELSE g
      /\ retryIn'[k] = IF room THEN NoPromise ELSE w - Head(ages)
      /\ reset' = reset \union {j \in Tracked \ ToSet(kept) : Live(j) # <<>>}
    BY <1>1, OrderStays DEF HitMemory, Decided, Allowed, Denied, RetryAfter
<1>6. k \notin reset' => k \notin reset /\ ages = live
  <2>1. k \notin reset' => k \notin reset /\ (k \in ToSet(kept) \/ k \notin Tracked \/ live = <<>>)
    BY <1>5
  <2>2. k \notin Tracked => live = <<>>
    BY DEF Live
  <2> QED BY <1>2, <1>3, <2>1, <2>2
<1>7. b \in Seq(S) /\ Sorted(b) /\ Len(b) <= Limit
  <2>1. 0 \in S
    BY <1>1
  <2>2. Append(ages, 0) \in Seq(S) /\ Len(Append(ages, 0)) = Len(ages) + 1
    <3> HIDE DEF S, ages
    <3> QED BY <1>4, <2>1
  <2>3. Sorted(Append(ages, 0))
    <3>1. ages \in Seq(0 .. MaxWindow)
      BY <1>1, <1>4
    <3> HIDE DEF ages
    <3> QED BY <1>1, <1>4, <3>1, SortedStays
  <2>4. room <=> Len(ages) < Limit
    BY DEF HasRoom
  <2> HIDE DEF S, ages, room, b
  <2> QED BY <1>1, <1>4, <1>5, <2>2, <2>3, <2>4
<1>8. /\ bucket'[k] \in Seq(0 .. MaxWindow) /\ Live(k)' = b
  <2>1. b \in Seq(0 .. MaxWindow)
    BY <1>1, <1>7
  <2>2. Only(b, S) = b
    <3> HIDE DEF S, b
    <3> QED BY <1>7, Members, OnlyType
  <2> QED BY <1>5, <2>1, <2>2 DEF Live, Within
<1>9. granted'[k] \in Seq(S) /\ (room => 0 \in ToSet(granted'[k]))
    BY <1>1, <1>5, RememberIs
<1>10. KeyTypes(k)'
    BY <1>5, <1>7, <1>8, <1>9 DEF KeyTypes
<1>11. CASE room
  <2>1. retryIn'[k] = NoPromise /\ NoPromise = MaxWindow + 1
    BY <1>5, <1>11 DEF NoPromise
  <2>2. \A a \in ToSet(b) : \E y \in ToSet(granted'[k]) : y <= a
    <3>1. \A a \in ToSet(b) : 0 <= a
      <4>1. ToSet(b) \subseteq S
        <5> HIDE DEF S, b
        <5> QED BY <1>7, Members
      <4> QED BY <1>1, <4>1
    <3> QED BY <1>9, <1>11, <3>1
  <2>3. k \notin reset' => granted'[k] = b
    <3> SUFFICES ASSUME k \notin reset' PROVE granted'[k] = b
      OBVIOUS
    <3>1. g = ages
      BY <1>1, <1>6 DEF MemoryKey
    <3>2. Len(g) < 2 * Limit
      BY <1>1, <1>4, <1>11, <3>1 DEF HasRoom
    <3>3. Remember(g) = Append(g, 0)
      BY <1>1, <3>2, RememberIs
    <3>4. b = Append(ages, 0) /\ granted'[k] = Remember(g)
      BY <1>5, <1>11
    <3> HIDE DEF g, ages, b
    <3> QED BY <3>1, <3>3, <3>4
  <2>4. retryIn'[k] \notin 1 .. MaxWindow /\ retryIn'[k] # 0 /\ retryIn'[k] \in 0 .. NoPromise
    BY <1>1, <2>1
  <2> QED BY <1>8, <1>10, <2>2, <2>3, <2>4 DEF MemoryKey
<1>12. CASE ~room
  <2>1. Len(ages) >= Limit /\ b = ages /\ granted'[k] = g /\ retryIn'[k] = w - Head(ages)
    BY <1>1, <1>4, <1>5, <1>12 DEF HasRoom
  <2>2. Head(ages) \in ToSet(ages)
    <3>1. Len(ages) > 0
      BY <1>1, <1>4, <2>1
    <3> HIDE DEF ages, S
    <3> QED BY <1>4, <3>1, Members
  <2>3. Head(ages) \in Nat /\ Head(ages) <= w - 1
    BY <1>1, <1>4, <2>2
  <2>4. retryIn'[k] \in 1 .. MaxWindow /\ Head(ages) + retryIn'[k] = w
          /\ retryIn'[k] \in 0 .. NoPromise
    BY <1>1, <2>1, <2>3 DEF NoPromise
  <2>5. \A a \in ToSet(b) : \E y \in ToSet(granted'[k]) : y <= a
    BY <1>1, <1>4, <2>1 DEF MemoryKey
  <2>6. \E y \in ToSet(granted'[k]) : y + retryIn'[k] <= w
    <3>1. PICK y \in ToSet(g) : y <= Head(ages)
      BY <1>1, <1>4, <2>2 DEF MemoryKey
    <3>2. y \in Nat
      <4>1. ToSet(g) \subseteq S
        BY <1>1, Members
      <4> QED BY <1>1, <3>1, <4>1
    <3>3. y + retryIn'[k] <= w
      BY <1>1, <2>3, <2>4, <3>1, <3>2
    <3> QED BY <2>1, <3>1, <3>3
  <2>7. k \notin reset' => granted'[k] = b
    BY <1>1, <1>6, <2>1 DEF MemoryKey
  <2>8. retryIn'[k] # 0
    BY <2>4
  <2> HIDE DEF b, ages
  <2> QED BY <1>8, <1>10, <2>1, <2>4, <2>5, <2>6, <2>7, <2>8 DEF MemoryKey
<1> QED BY <1>11, <1>12

(* The other keys: the sweep drops a key as a whole.                        *)
LEMMA HitOfAnother ==
    ASSUME LimiterInv, store = "memory", NEW k \in Key, HitMemory(k), NEW j \in Key, j # k
    PROVE  KeyTypes(j)' /\ MemoryKey(j)' /\ retryIn'[j] = retryIn[j]
<1> DEFINE kept == Swept(k)
<1>1. /\ KeyTypes(j) /\ MemoryKey(j) /\ DOMAIN granted = Key /\ retryIn \in [Key -> 0 .. NoPromise]
      /\ ToSet(kept) \subseteq Tracked /\ Tracked' = ToSet(kept) \union {k}
    BY OrderStays, SweptIs DEF LimiterInv
<1>2. /\ bucket'[j] = IF j \in ToSet(kept) THEN bucket[j] ELSE <<>>
      /\ granted'[j] = granted[j] /\ retryIn'[j] = retryIn[j]
      /\ reset' = reset \union {i \in Tracked \ ToSet(kept) : Live(i) # <<>>}
    BY <1>1 DEF HitMemory, Decided
<1>3. CASE j \in ToSet(kept)
  <2>1. bucket'[j] = bucket[j] /\ (j \in Tracked /\ j \in Tracked')
    BY <1>1, <1>2, <1>3
  <2>2. Live(j)' = Live(j)
    BY <2>1 DEF Live
  <2>3. j \notin reset' => j \notin reset
    BY <1>2
  <2> QED BY <1>1, <1>2, <2>1, <2>2, <2>3 DEF KeyTypes, MemoryKey
<1>4. CASE j \notin ToSet(kept)
  <2>1. bucket'[j] = <<>> /\ j \notin Tracked' /\ Live(j)' = <<>>
    BY <1>1, <1>2, <1>4 DEF Live
  <2>2. KeyTypes(j)'
    <3> DEFINE b == bucket'[j]
    <3>1. b = <<>>
      BY <2>1
    <3> HIDE DEF b
    <3>2. b \in Seq(0 .. MaxWindow) /\ Sorted(b)
      BY <3>1 DEF Sorted
    <3>3. Len(b) <= Limit
      BY <3>1, WindowsAre
    <3>4. granted'[j] \in Seq(0 .. WindowOf[j] - 1)
      BY <1>1, <1>2 DEF KeyTypes
    <3> QED BY <3>1, <3>2, <3>3, <3>4 DEF b, KeyTypes
  <2>3. ToSet(Live(j)') = {}
    BY <2>1 DEF ToSet
  <2>4. j \notin reset' => j \notin reset /\ Live(j) = <<>>
    BY <1>2, <1>4 DEF Live
  <2>5. Live(j) = <<>> => Live(j)' = Live(j)
    BY <2>1
  <2> QED BY <1>1, <1>2, <2>2, <2>3, <2>4, <2>5 DEF MemoryKey
<1> QED BY <1>3, <1>4

(* The counter of a key that is hit over Redis, whatever becomes of the     *)
(* reply: the hits granted before it was armed are less than Limit.         *)
LEMMA CounterGoesUp ==
    ASSUME LimiterInv, store # "memory", NEW k \in Key,
           counter' = [counter EXCEPT ![k] = Incremented(k)]
    PROVE  /\ counter' \in [Key -> [count : 0 .. Limit + 1, left : 0 .. MaxWindow]]
           /\ counter'[k] = Incremented(k)
           /\ Incremented(k).count > 0 /\ Incremented(k).left > 0
           /\ Incremented(k).left <= WindowOf[k] /\ Armed(k)' \in 0 .. WindowOf[k] - 1
           /\ k \notin reset =>
                LET C == Only(granted[k], 0 .. Armed(k)')
                    n == Incremented(k).count
                IN  /\ Len(granted[k]) < Len(C) + Limit
                    /\ Len(C) < n \/ n > Limit
                    /\ Len(C) <= Limit
                    /\ n > Limit => (Len(C) = Limit => Head(C) = Armed(k)')
                    /\ Len(C) + 1 = n => (Len(C) = 0 \/ Head(C) = Armed(k)')
                    /\ n = 1 => Armed(k)' = 0
<1> DEFINE w == WindowOf[k]
           S == 0 .. w - 1
           g == granted[k]
           n == counter[k].count
           l == counter[k].left
           m == Incremented(k).count
           e == Armed(k)'
           C == Only(g, 0 .. e)
<1>1. /\ w \in Nat /\ 1 <= w /\ w <= MaxWindow /\ MaxWindow \in Nat /\ Limit \in Nat /\ 1 <= Limit
      /\ counter \in [Key -> [count : 0 .. Limit + 1, left : 0 .. MaxWindow]]
      /\ g \in Seq(S) /\ RedisKey(k)
    BY WindowsAre DEF LimiterInv, KeyTypes
<1>2. /\ counter[k] \in [count : 0 .. Limit + 1, left : 0 .. MaxWindow]
      /\ n \in Nat /\ n <= Limit + 1 /\ l \in Nat /\ l <= w /\ (l > 0 <=> n > 0)
    BY <1>1 DEF RedisKey
<1>3. Len(C) \in Nat /\ Len(C) <= Len(g) /\ Len(g) \in Nat
  <2> DEFINE R == 0 .. e
  <2> HIDE DEF R, S
  <2>1. Only(g, R) \in Seq(S) /\ Len(Only(g, R)) <= Len(g)
    BY <1>1, OnlyType
  <2> QED BY <1>1, <2>1 DEF R
<1>4. counter'[k] = Incremented(k)
    BY <1>1
<1>5. CASE n = 0
  <2>1. Incremented(k) = [count |-> 1, left |-> w]
    BY <1>5 DEF Incremented
  <2>2. m = 1 /\ Incremented(k).left = w /\ e = 0
    BY <1>1, <1>4, <2>1 DEF Armed
  <2>3. Incremented(k) \in [count : 0 .. Limit + 1, left : 0 .. MaxWindow]
    BY <1>1, <2>1
  <2>4. k \notin reset => Len(g) < Limit /\ Len(C) = 0
    <3> SUFFICES ASSUME k \notin reset PROVE Len(g) < Limit /\ Len(C) = 0
      OBVIOUS
    <3>1. Len(g) < Limit /\ 0 \notin ToSet(g)
      BY <1>1, <1>5 DEF RedisKey
    <3> DEFINE R == 0 .. e
    <3>2. ToSet(g) \cap R = {}
      BY <2>2, <3>1
    <3> HIDE DEF R, S
    <3>3. Only(g, R) \in Seq(S) /\ ToSet(Only(g, R)) = ToSet(g) \cap R
      BY <1>1, OnlyType
    <3>4. Only(g, R) = <<>>
      BY <3>2, <3>3, Members
    <3> QED BY <3>1, <3>4 DEF R
  <2>5. counter' \in [Key -> [count : 0 .. Limit + 1, left : 0 .. MaxWindow]]
    BY <1>1, <2>3
  <2> HIDE DEF C, m, e, g, w
  <2> QED BY <1>1, <1>3, <1>4, <2>2, <2>4, <2>5 DEF C, m, e, g, w
<1>6. CASE n # 0
  <2>1. Incremented(k) = [count |-> IF n > Limit THEN n ELSE n + 1, left |-> l]
    <3> DEFINE A == 0 .. Limit + 1
               B == 0 .. MaxWindow
               c == IF n > Limit THEN n ELSE n + 1
    <3>1. Incremented(k) = [counter[k] EXCEPT !.count = c]
      BY <1>6 DEF Incremented
    <3>2. counter[k] \in [count : A, left : B]
      BY <1>2
    <3> HIDE DEF A, B, c
    <3> QED BY <3>1, <3>2 DEF c
  <2>2. m = (IF n > Limit THEN n ELSE n + 1) /\ Incremented(k).left = l /\ n > 0 /\ l > 0
          /\ m > 0 /\ m # 1
    <3> DEFINE c == IF n > Limit THEN n ELSE n + 1
    <3>1. n > 0 /\ l > 0 /\ c > 0 /\ c # 1
      BY <1>1, <1>2, <1>6
    <3>2. Incremented(k) = [count |-> c, left |-> l]
      BY <2>1
    <3> HIDE DEF c
    <3>3. m = c /\ Incremented(k).left = l
      BY <3>2
    <3> QED BY <3>1, <3>3 DEF c
  <2>3. Incremented(k) \in [count : 0 .. Limit + 1, left : 0 .. MaxWindow]
    BY <1>1, <1>2, <2>1
  <2>4. e = Armed(k) /\ e \in 0 .. w - 1 /\ C = SinceArmed(k)
    BY <1>1, <1>2, <1>4, <2>2 DEF Armed, SinceArmed
  <2>5. k \notin reset =>
          /\ Len(g) < Len(C) + Limit
          /\ Len(C) <= n /\ Len(C) <= Limit
          /\ Len(C) = n \/ Len(C) = Limit => Head(C) = e
    BY <1>1, <2>2, <2>4 DEF RedisKey
  <2>6. counter' \in [Key -> [count : 0 .. Limit + 1, left : 0 .. MaxWindow]]
    BY <1>1, <2>3
  <2> HIDE DEF C, m, e, g, n, l, w
  <2>7. k \notin reset =>
          /\ Len(C) < m \/ m > Limit
          /\ m > Limit => (Len(C) = Limit => Head(C) = e)
          /\ Len(C) + 1 = m => (Len(C) = 0 \/ Head(C) = e)
    <3> SUFFICES ASSUME k \notin reset
                 PROVE  /\ Len(C) < m \/ m > Limit
                        /\ m > Limit => (Len(C) = Limit => Head(C) = e)
                        /\ Len(C) + 1 = m => (Len(C) = 0 \/ Head(C) = e)
      OBVIOUS
    <3>1. Len(C) < m \/ m > Limit
      BY <1>1, <1>2, <1>3, <2>2, <2>5
    <3>2. Len(C) + 1 = m => Len(C) = n \/ Len(C) = Limit
      BY <1>1, <1>2, <1>3, <2>2, <2>5
    <3> QED BY <2>5, <3>1, <3>2
  <2> QED BY <1>1, <1>2, <1>3, <1>4, <2>2, <2>4, <2>5, <2>6, <2>7 DEF C, m, e, g, w, l
<1> QED BY <1>5, <1>6

(* A hit over Redis that is counted, and its verdict, or none.              *)
LEMMA HitOverRedis ==
    ASSUME LimiterInv, store # "memory", NEW k \in Key,
           HitRedis(k) \/ ReplyLost(k)
    PROVE  /\ RedisKey(k)' /\ KeyTypes(k)' /\ retryIn'[k] \in 0 .. NoPromise
           /\ counter' \in [Key -> [count : 0 .. Limit + 1, left : 0 .. MaxWindow]]
<1> DEFINE w == WindowOf[k]
           S == 0 .. w - 1
           g == granted[k]
           h == granted'[k]
           n == counter'[k].count
           l == counter'[k].left
           e == Armed(k)'
           C == Only(g, 0 .. e)
           D == Only(h, 0 .. e)
           r == retryIn'[k]
<1>1. /\ w \in Nat /\ 1 <= w /\ w <= MaxWindow /\ MaxWindow \in Nat /\ Limit \in Nat /\ 1 <= Limit
      /\ DOMAIN granted = Key /\ retryIn \in [Key -> 0 .. NoPromise]
      /\ g \in Seq(S) /\ KeyTypes(k) /\ NoPromise = MaxWindow + 1
    BY WindowsAre DEF LimiterInv, KeyTypes, NoPromise
<1>2. counter' = [counter EXCEPT ![k] = Incremented(k)] /\ reset' = reset
        /\ UNCHANGED <<order, bucket>>
    BY DEF HitRedis, ReplyLost
<1>3. /\ counter' \in [Key -> [count : 0 .. Limit + 1, left : 0 .. MaxWindow]]
      /\ n = Incremented(k).count /\ n > 0 /\ l > 0 /\ l <= w /\ e \in 0 .. w - 1
    BY <1>2, CounterGoesUp
<1>4. n \in Nat /\ l \in Nat
    BY <1>3
<1>5. k \notin reset => /\ Len(g) < Len(C) + Limit
                        /\ Len(C) < n \/ n > Limit
                        /\ Len(C) <= Limit
                        /\ n > Limit => (Len(C) = Limit => Head(C) = e)
                        /\ Len(C) + 1 = n => (Len(C) = 0 \/ Head(C) = e)
                        /\ n = 1 => e = 0
    BY <1>2, <1>3, CounterGoesUp
<1>6. /\ h = g \/ (n <= Limit /\ h = Remember(g))
      /\ r = NoPromise \/ (r \in Nat /\ l <= r /\ r <= w)
  <2>1. CASE HitRedis(k)
    <3>1. PICK ttl \in Pttl(Incremented(k).left) :
             Decided(k, IF Incremented(k).count <= Limit THEN Allowed
                        ELSE Denied(IF ttl > 0 THEN ttl ELSE w))
      BY <2>1 DEF HitRedis
    <3>2. /\ Incremented(k).count <= Limit => h = Remember(g) /\ r = NoPromise
          /\ ~(Incremented(k).count <= Limit) => h = g /\ r = IF ttl > 0 THEN ttl ELSE w
      BY <1>1, <3>1 DEF Decided, Allowed, Denied
    <3>3. ttl = l \/ (ttl = 0 /\ l = 1)
      BY <1>2, <1>3, <3>1, CounterGoesUp, SMTT(30) DEF Pttl
    <3> HIDE DEF h, r, l, g, n
    <3> QED BY <1>1, <1>3, <1>4, <3>2, <3>3
  <2>2. CASE ReplyLost(k)
    BY <1>1, <2>2 DEF ReplyLost
  <2> QED BY <2>1, <2>2
<1>7. r \in 0 .. NoPromise /\ r # 0 /\ (r \in 1 .. MaxWindow => l <= r)
    BY <1>1, <1>3, <1>4, <1>6
<1>8. h \in Seq(S)
    BY <1>1, <1>6, RememberIs
<1>9. KeyTypes(k)'
    BY <1>1, <1>2, <1>8 DEF KeyTypes, Tracked
<1>10. k \notin reset => /\ Len(h) < Len(D) + Limit
                         /\ Len(D) <= n /\ Len(D) <= Limit
                         /\ Len(D) = n \/ Len(D) = Limit => Head(D) = e
  <2> SUFFICES ASSUME k \notin reset
               PROVE  /\ Len(h) < Len(D) + Limit
                      /\ Len(D) <= n /\ Len(D) <= Limit
                      /\ Len(D) = n \/ Len(D) = Limit => Head(D) = e
    OBVIOUS
  <2>1. Len(C) \in Nat /\ Len(g) \in Nat /\ C \in Seq(S)
    <3> DEFINE R == 0 .. e
    <3> HIDE DEF R, S
    <3>1. Only(g, R) \in Seq(S)
      BY <1>1, OnlyType
    <3> QED BY <1>1, <3>1 DEF R
  <2>2. CASE h = g
    <3>1. D = C /\ Len(h) = Len(g)
      BY <2>2
    <3> HIDE DEF C, D, h, g, n, e
    <3>2. Len(C) <= n /\ (Len(C) = n \/ Len(C) = Limit => n > Limit /\ Len(C) = Limit)
      BY <1>1, <1>4, <1>5, <2>1
    <3> QED BY <1>5, <3>1, <3>2
  <2>3. CASE h = Remember(g) /\ n <= Limit
    <3>1. Len(C) < n
      BY <1>1, <1>4, <1>5, <2>1, <2>3
    <3>2. Len(g) < 2 * Limit
      <4> HIDE DEF C, g, n
      <4> QED BY <1>1, <1>4, <1>5, <2>1, <2>3, <3>1
    <3>3. h = Append(g, 0)
      BY <1>1, <2>3, <3>2, RememberIs
    <3>4. D = Append(C, 0)
      <4> DEFINE R == 0 .. e
      <4>1. 0 \in R /\ 0 \in S
        BY <1>1, <1>3
      <4> HIDE DEF R, S
      <4>2. Only(Append(g, 0), R) = Append(Only(g, R), 0)
        BY <1>1, <4>1, OnlyAppend
      <4> QED BY <3>3, <4>2 DEF R
    <3>5. /\ Len(D) = Len(C) + 1 /\ Len(h) = Len(g) + 1
          /\ Head(D) = IF Len(C) = 0 THEN 0 ELSE Head(C)
      <4> HIDE DEF S, C, D, h, g
      <4>1. Len(D) = Len(C) + 1 /\ Len(h) = Len(g) + 1
        BY <1>1, <2>1, <3>3, <3>4
      <4>2. CASE Len(C) = 0
        <5>1. C = <<>>
          BY <2>1, <4>2
        <5>2. Append(<<>>, 0) = <<0>> /\ Head(<<0>>) = 0
          OBVIOUS
        <5> QED BY <3>4, <4>1, <4>2, <5>1, <5>2
      <4>3. CASE Len(C) > 0
        <5>1. Append(C, 0)[1] = C[1] /\ Head(Append(C, 0)) = Append(C, 0)[1] /\ Head(C) = C[1]
          BY <2>1, <4>3
        <5> QED BY <3>4, <4>1, <4>3, <5>1
      <4> QED BY <2>1, <4>2, <4>3
    <3> HIDE DEF C, D, h, g, n, e
    <3>6. Len(h) < Len(D) + Limit /\ Len(D) <= n /\ Len(D) <= Limit
      BY <1>1, <1>4, <1>5, <2>1, <2>3, <3>1, <3>5
    <3>7. ASSUME Len(D) = n \/ Len(D) = Limit PROVE Head(D) = e
      <4>1. Len(C) + 1 = n
        BY <1>1, <1>4, <2>1, <2>3, <3>1, <3>5, <3>7
      <4>2. CASE Len(C) = 0
        BY <1>4, <1>5, <3>5, <4>1, <4>2
      <4>3. CASE Len(C) # 0
        BY <1>5, <3>5, <4>1, <4>3
      <4> QED BY <4>2, <4>3
    <3> QED BY <3>6, <3>7
  <2> QED BY <1>6, <2>2, <2>3
<1>11. SinceArmed(k)' = D
    BY DEF SinceArmed
<1> HIDE DEF D, h, e
<1> QED BY <1>2, <1>3, <1>4, <1>7, <1>9, <1>10, <1>11 DEF RedisKey, h, e

(* The other keys keep what they have, over Redis.                          *)
LEMMA RedisKeyStays ==
    ASSUME LimiterInv, store # "memory", NEW k \in Key,
           \/ counter'[k] = counter[k]
           \/ counter'[k] = NoCount /\ (counter[k].count > 0 => k \in reset'),
           granted'[k] = granted[k], retryIn'[k] = retryIn[k], reset \subseteq reset',
           UNCHANGED <<order, bucket>>
    PROVE  RedisKey(k)' /\ KeyTypes(k)' /\ retryIn'[k] \in 0 .. NoPromise
<1>1. /\ RedisKey(k) /\ KeyTypes(k) /\ retryIn[k] \in 0 .. NoPromise
      /\ counter[k].count \in Nat /\ counter[k].left \in Nat
    BY DEF LimiterInv
<1>2. KeyTypes(k)' /\ retryIn'[k] \in 0 .. NoPromise
    BY <1>1 DEF KeyTypes, Tracked
<1>3. CASE counter'[k] = counter[k]
  <2>1. Armed(k)' = Armed(k) /\ SinceArmed(k)' = SinceArmed(k)
    BY <1>3 DEF Armed, SinceArmed
  <2>2. k \notin reset' => k \notin reset
    OBVIOUS
  <2> QED BY <1>1, <1>2, <1>3, <2>1, <2>2 DEF RedisKey
<1>4. CASE counter'[k] = NoCount /\ (counter[k].count > 0 => k \in reset')
  <2>1. counter'[k].count = 0 /\ counter'[k].left = 0
    BY <1>4 DEF NoCount
  <2>2. k \notin reset' => k \notin reset /\ counter[k].count = 0
    BY <1>1, <1>4
  <2>3. k \notin reset' => Len(granted'[k]) < Limit /\ 0 \notin ToSet(granted'[k])
    BY <1>1, <2>2 DEF RedisKey
  <2>4. 0 <= WindowOf[k] /\ (retryIn'[k] \in 1 .. MaxWindow => 0 <= retryIn'[k])
    BY WindowsAre
  <2> QED BY <1>2, <2>1, <2>3, <2>4 DEF RedisKey
<1> QED BY <1>2, <1>3, <1>4

LEMMA LimiterBegins == LimiterInit => LimiterInv
<1> SUFFICES ASSUME LimiterInit PROVE LimiterInv
    OBVIOUS
<1>1. order = <<>> /\ order \in Seq(Key) /\ IsInjective(order) /\ Len(order) <= MaxKeys + 1
    BY WindowsAre DEF LimiterInit, IsInjective
<1>2. /\ DOMAIN bucket = Key /\ DOMAIN granted = Key /\ reset = {}
      /\ retryIn \in [Key -> 0 .. NoPromise]
    BY WindowsAre DEF LimiterInit, NoPromise
<1>3. counter \in [Key -> [count : 0 .. Limit + 1, left : 0 .. MaxWindow]]
    BY WindowsAre DEF LimiterInit, NoCount
<1>4. ASSUME NEW k \in Key PROVE KeyTypes(k) /\ MemoryKey(k) /\ RedisKey(k)
  <2>1. /\ bucket[k] = <<>> /\ granted[k] = <<>> /\ retryIn[k] = MaxWindow + 1
        /\ counter[k] = [count |-> 0, left |-> 0]
    BY DEF LimiterInit, NoCount, NoPromise
  <2>2. retryIn[k] # 0 /\ retryIn[k] \notin 1 .. MaxWindow
    BY <2>1, WindowsAre
  <2>3. counter[k].count = 0 /\ counter[k].left = 0 /\ 0 <= WindowOf[k]
    BY <2>1, WindowsAre
  <2>4. Live(k) = <<>>
    BY <1>1 DEF Live, Tracked, ToSet
  <2>5. Len(granted[k]) < Limit /\ ToSet(granted[k]) = {} /\ ToSet(Live(k)) = {} /\ 0 <= Limit
    BY <2>1, <2>4, WindowsAre DEF ToSet
  <2>6. KeyTypes(k)
    BY <2>1, <2>5 DEF KeyTypes, Sorted
  <2>7. MemoryKey(k)
    BY <2>1, <2>2, <2>4, <2>5 DEF MemoryKey
  <2>8. RedisKey(k)
    BY <2>2, <2>3, <2>5 DEF RedisKey
  <2> QED BY <2>6, <2>7, <2>8
<1> QED BY <1>1, <1>2, <1>3, <1>4 DEF LimiterInv

LEMMA TickKeepsInv == ASSUME LimiterInv, Tick PROVE LimiterInv'
<1>1. /\ order' = order /\ store' = store /\ DOMAIN bucket' = Key /\ DOMAIN granted' = Key
      /\ reset' \subseteq Key /\ order \in Seq(Key) /\ IsInjective(order)
           /\ Len(order) <= MaxKeys + 1
    BY DEF Tick, LimiterInv
<1>2. retryIn' \in [Key -> 0 .. NoPromise]
  <2>1. \A k \in Key : retryIn[k] \in 0 .. NoPromise
    BY DEF LimiterInv
  <2>2. \A k \in Key : (IF retryIn[k] \in 1 .. MaxWindow THEN retryIn[k] - 1 ELSE retryIn[k])
                       \in 0 .. NoPromise
    BY <2>1, WindowsAre DEF NoPromise
  <2> QED BY <2>2 DEF Tick
<1>3. counter' \in [Key -> [count : 0 .. Limit + 1, left : 0 .. MaxWindow]]
  <2> DEFINE C == [count : 0 .. Limit + 1, left : 0 .. MaxWindow]
  <2>1. NoCount \in C
    BY WindowsAre DEF NoCount
  <2>2. \A c \in C : c.left > 1 => [c EXCEPT !.left = @ - 1] \in C
    BY WindowsAre
  <2>3. counter \in [Key -> C]
    BY DEF LimiterInv
  <2> HIDE DEF C
  <2>4. \A k \in Key : (IF counter[k].left > 1 THEN [counter[k] EXCEPT !.left = @ - 1]
          ELSE NoCount) \in C
    BY <2>1, <2>2, <2>3
  <2>5. counter' \in [Key -> C]
    BY <2>4 DEF Tick
  <2> QED BY <2>5 DEF C
<1>4. ASSUME NEW k \in Key
      PROVE  KeyTypes(k)' /\ IF store' = "memory" THEN MemoryKey(k)' ELSE RedisKey(k)'
  <2>1. KeyTypes(k)'
    BY LiveSlides DEF LimiterInv
  <2> QED BY <1>1, <2>1, TickOfMemory, TickOfRedis
<1> QED BY <1>1, <1>2, <1>3, <1>4 DEF LimiterInv

LEMMA MemoryHitKeepsInv ==
    ASSUME LimiterInv, store = "memory", NEW k \in Key, HitMemory(k), store' = store
    PROVE  LimiterInv'
<1>1. order' \in Seq(Key) /\ IsInjective(order') /\ Len(order') <= MaxKeys + 1
    BY OrderStays
<1>2. /\ DOMAIN bucket' = Key /\ DOMAIN granted' = Key /\ DOMAIN retryIn' = Key
           /\ reset' \subseteq Key
      /\ \E f : retryIn' = [retryIn EXCEPT ![k] = f]
  <2>1. order \in Seq(Key) /\ DOMAIN granted = Key /\ DOMAIN retryIn = Key /\ reset \subseteq Key
    BY DEF LimiterInv
  <2>2. Tracked \subseteq Key
    BY <2>1, Members DEF Tracked
  <2> QED BY <2>1, <2>2 DEF HitMemory, Decided
<1>3. counter' \in [Key -> [count : 0 .. Limit + 1, left : 0 .. MaxWindow]]
    BY DEF HitMemory, LimiterInv
<1>4. ASSUME NEW j \in Key PROVE KeyTypes(j)' /\ MemoryKey(j)' /\ retryIn'[j] \in 0 .. NoPromise
  <2>1. CASE j = k
    BY <2>1, HitInMemory
  <2>2. CASE j # k
    BY <2>2, HitOfAnother DEF LimiterInv
  <2> QED BY <2>1, <2>2
<1>5. retryIn' \in [Key -> 0 .. NoPromise]
    BY <1>2, <1>4
<1> QED BY <1>1, <1>2, <1>3, <1>4, <1>5 DEF LimiterInv

LEMMA RedisHitKeepsInv ==
    ASSUME LimiterInv, store # "memory", NEW k \in Key, HitRedis(k) \/ ReplyLost(k), store' = store
    PROVE  LimiterInv'
<1>1. /\ order' = order /\ bucket' = bucket /\ reset' = reset
      /\ counter' = [counter EXCEPT ![k] = Incremented(k)]
      /\ \A j \in Key \ {k} : granted'[j] = granted[j] /\ retryIn'[j] = retryIn[j]
      /\ DOMAIN granted' = Key /\ DOMAIN retryIn' = Key
      /\ \E r : retryIn' = [retryIn EXCEPT ![k] = r]
  <2>1. DOMAIN granted = Key /\ retryIn \in [Key -> 0 .. NoPromise]
    BY DEF LimiterInv
  <2> QED BY <2>1 DEF HitRedis, ReplyLost, Decided
<1>2. counter' \in [Key -> [count : 0 .. Limit + 1, left : 0 .. MaxWindow]]
    BY HitOverRedis
<1>3. \A j \in Key \ {k} : counter'[j] = counter[j]
    BY <1>1 DEF LimiterInv
<1>4. ASSUME NEW j \in Key PROVE KeyTypes(j)' /\ RedisKey(j)' /\ retryIn'[j] \in 0 .. NoPromise
  <2>1. CASE j = k
    BY <2>1, HitOverRedis
  <2>2. CASE j # k
    <3>1. /\ counter'[j] = counter[j] /\ granted'[j] = granted[j] /\ retryIn'[j] = retryIn[j]
          /\ reset \subseteq reset' /\ UNCHANGED <<order, bucket>>
      BY <1>1, <1>3, <2>2
    <3> QED BY <3>1, RedisKeyStays
  <2> QED BY <2>1, <2>2
<1>5. retryIn' \in [Key -> 0 .. NoPromise]
  <2> HIDE DEF NoPromise
  <2> QED BY <1>1, <1>4
<1>6. /\ order' \in Seq(Key) /\ IsInjective(order') /\ Len(order') <= MaxKeys + 1
      /\ DOMAIN bucket' = Key /\ reset' \subseteq Key
    BY <1>1 DEF LimiterInv
<1> QED BY <1>1, <1>2, <1>4, <1>5, <1>6 DEF LimiterInv

LEMMA LimiterGoes == LimiterInv /\ [LimiterNext]_limiterVars => LimiterInv'
<1> SUFFICES ASSUME LimiterInv, [LimiterNext]_limiterVars PROVE LimiterInv'
    OBVIOUS
<1>1. CASE Tick
    BY <1>1, TickKeepsInv
<1>2. CASE RedisRestarts
  <2>1. /\ store # "memory" /\ store' = store /\ order' = order /\ bucket' = bucket
        /\ granted' = granted /\ retryIn' = retryIn /\ reset \subseteq reset'
             /\ reset' \subseteq Key
        /\ counter' \in [Key -> [count : 0 .. Limit + 1, left : 0 .. MaxWindow]]
    BY <1>2, WindowsAre DEF RedisRestarts, LimiterInv, NoCount
  <2>2. ASSUME NEW k \in Key PROVE RedisKey(k)' /\ KeyTypes(k)'
    <3>1. counter'[k] = NoCount /\ (counter[k].count > 0 => k \in reset')
      BY <1>2 DEF RedisRestarts
    <3>2. granted'[k] = granted[k] /\ retryIn'[k] = retryIn[k]
      BY <2>1
    <3> QED BY <2>1, <3>1, <3>2, RedisKeyStays
  <2> QED BY <2>1, <2>2 DEF LimiterInv
<1>3. ASSUME NEW k \in Key, Hit(k) \/ ReplyLost(k) PROVE LimiterInv'
  <2>1. CASE store = "memory" /\ HitMemory(k) /\ store' = store
    BY <2>1, MemoryHitKeepsInv
  <2>2. CASE store = "redis" /\ HitRedis(k) /\ store' = store
    BY <2>2, RedisHitKeepsInv
  <2>3. CASE ReplyLost(k)
    <3>1. store # "memory" /\ store' = store
      BY <2>3 DEF ReplyLost
    <3> QED BY <2>3, <3>1, RedisHitKeepsInv
  <2> QED BY <1>3, <2>1, <2>2, <2>3 DEF Hit
<1>4. CASE UNCHANGED limiterVars
  <2> USE <1>4 DEF limiterVars
  <2>1. \A k \in Key : /\ KeyTypes(k)' <=> KeyTypes(k)
                       /\ MemoryKey(k)' <=> MemoryKey(k)
                       /\ RedisKey(k)' <=> RedisKey(k)
    BY DEF KeyTypes, MemoryKey, RedisKey, Live, Tracked, SinceArmed, Armed
  <2> QED BY <2>1 DEF LimiterInv
<1> QED BY <1>1, <1>2, <1>3, <1>4 DEF LimiterNext

(* What is granted in a window and what the store knows of it stay as       *)
(* MemoryKey and RedisKey say, through hits, lost replies and restarts.     *)
THEOREM LimiterInvariant == LimiterSpec => []LimiterInv
<1> QED BY LimiterBegins, LimiterGoes, PTL DEF LimiterSpec

(* Types; a key is tracked once, and one more than MaxKeys of them at most. *)
THEOREM LimiterTypeCorrect == LimiterSpec => []LimiterTypes
<1>1. LimiterInv => LimiterTypes
  <2> SUFFICES ASSUME LimiterInv PROVE LimiterTypes
    OBVIOUS
  <2>1. order \in Seq(Key) /\ Tracked \subseteq Key
    BY Members DEF LimiterInv, Tracked
  <2> QED BY <2>1 DEF LimiterInv, LimiterTypes, KeyTypes
<1> QED BY <1>1, LimiterInvariant, PTL

(* In memory no window of a key holds more than Limit allowed hits, and     *)
(* over Redis less than twice as many, whatever the windows and the order   *)
(* of hits, lost replies, sweeps and restarts; keys that a sweep evicted or *)
(* a restart forgot in that window are excepted.                            *)
THEOREM LimitHolds == LimiterSpec => []WithinLimit
<1>1. LimiterInv => WithinLimit
  <2> SUFFICES ASSUME LimiterInv, NEW k \in Key \ reset
               PROVE  Len(granted[k]) < IF store = "memory" THEN Limit + 1 ELSE 2 * Limit
    BY DEF WithinLimit
  <2>1. KeyTypes(k) /\ IF store = "memory" THEN MemoryKey(k) ELSE RedisKey(k)
    BY DEF LimiterInv
  <2>2. CASE store = "memory"
    <3>1. Len(Live(k)) <= Limit /\ Len(Live(k)) \in Nat /\ granted[k] = Live(k)
      BY <2>1, <2>2, LiveIs DEF MemoryKey
    <3> HIDE DEF Live
    <3> QED BY <2>2, <3>1, WindowsAre
  <2>3. CASE store # "memory"
    <3> DEFINE n == counter[k].count
               c == Len(SinceArmed(k))
               g == Len(granted[k])
    <3>1. g \in Nat /\ n \in Nat
      BY <2>1 DEF KeyTypes, LimiterInv
    <3>2. c \in Nat
      <4> DEFINE R == 0 .. Armed(k)
      <4>1. granted[k] \in Seq(0 .. WindowOf[k] - 1)
        BY <2>1 DEF KeyTypes
      <4> HIDE DEF R
      <4>2. Only(granted[k], R) \in Seq(0 .. WindowOf[k] - 1)
        BY <4>1, OnlyType
      <4>3. Len(Only(granted[k], R)) \in Nat
        BY <4>2
      <4> QED BY <4>3 DEF R, SinceArmed
    <3>3. (n = 0 => g < Limit) /\ (n > 0 => g < c + Limit /\ c <= Limit)
      BY <2>1, <2>3 DEF RedisKey
    <3> HIDE DEF n, c, g
    <3>4. g < 2 * Limit
      BY <3>1, <3>2, <3>3, WindowsAre
    <3> QED BY <2>3, <3>4 DEF g
  <2> QED BY <2>2, <2>3
<1> QED BY <1>1, LimiterInvariant, PTL

(* A denied key that waits for retryAfterMs is allowed, over either store,  *)
(* and in memory it is denied until then.                                   *)
THEOREM RetryAfterIsExact == LimiterSpec => []RetryIsExact
<1>1. LimiterInv => RetryIsExact
  <2> SUFFICES ASSUME LimiterInv, NEW k \in Key \ reset
               PROVE  /\ retryIn[k] = 0 => Admits(k)
                      /\ store = "memory" /\ retryIn[k] # NoPromise /\ Admits(k) => retryIn[k] = 0
    BY DEF RetryIsExact
  <2>1. KeyTypes(k) /\ IF store = "memory" THEN MemoryKey(k) ELSE RedisKey(k)
    BY DEF LimiterInv
  <2>2. CASE store = "memory"
    <3>1. retryIn[k] # 0 /\ retryIn[k] # NoPromise => retryIn[k] \in 1 .. MaxWindow
      BY WindowsAre DEF LimiterInv, NoPromise
    <3>2. Len(Live(k)) \in Nat
      BY <2>1, LiveIs
    <3>3. Admits(k) <=> Len(Live(k)) < Limit
      BY <2>2 DEF Admits, HasRoom
    <3>4. /\ retryIn[k] = 0 => Len(Live(k)) < Limit
          /\ retryIn[k] \in 1 .. MaxWindow => Len(Live(k)) >= Limit
      BY <2>1, <2>2 DEF MemoryKey
    <3> QED BY <3>1, <3>2, <3>3, <3>4, WindowsAre
  <2>3. CASE store # "memory"
    BY <2>1, <2>3, WindowsAre DEF RedisKey, Admits
  <2> QED BY <2>2, <2>3
<1> QED BY <1>1, LimiterInvariant, PTL

-----------------------------------------------------------------------------
(* The sweep of the memory store.  It judges every key by the window of the *)
(* key being hit, so a key with a longer window may lose hits that are      *)
(* still in it; where all windows are the same, the keys it calls active    *)
(* are those with a live hit, and it drops one of them only when more than  *)
(* MaxKeys have one.                                                        *)
SameWindows == \A j, k \in Key : WindowOf[j] = WindowOf[k]

LEMMA DistinctMembers ==
    ASSUME NEW T, NEW s \in Seq(T), IsInjective(s)
    PROVE  IsFiniteSet(ToSet(s)) /\ Cardinality(ToSet(s)) = Len(s)
<1>1. s \in Bijection(1 .. Len(s), ToSet(s))
    BY DEF ToSet, IsInjective, Bijection, Injection, Surjection
<1>2. Len(s) \in Nat
    OBVIOUS
<1>3. ExistsBijection(1 .. Len(s), ToSet(s))
    BY <1>1 DEF ExistsBijection
<1> QED BY <1>2, <1>3, FS_CountingElements, FS_NatBijection

LEMMA ActiveAreLive ==
    ASSUME LimiterInv, SameWindows, NEW j \in Tracked, NEW k \in Key
    PROVE  Live(j) # <<>> <=> (bucket[j] # <<>> /\ Last(bucket[j]) < WindowOf[k])
<1> DEFINE w == WindowOf[k]
           S == 0 .. w - 1
           b == bucket[j]
           T == 0 .. MaxWindow
<1>1. j \in Key /\ KeyTypes(j) /\ WindowOf[j] = w /\ w \in Nat
    BY Members, WindowsAre DEF LimiterInv, Tracked, SameWindows
<1>2. /\ Live(j) = Only(b, S) /\ Live(j) \in Seq(S) /\ b \in Seq(T) /\ Sorted(b)
    BY <1>1, LiveIs DEF KeyTypes
<1>3. \A a \in T : a \in S <=> a < w
    BY <1>1, WindowsAre
<1>4. \A i \in DOMAIN b, m \in DOMAIN b : i < m => b[m] <= b[i]
    BY <1>2 DEF Sorted
<1>5. b # <<>> => Len(b) \in DOMAIN b /\ Last(b) = b[Len(b)]
    BY <1>2 DEF Last
<1>6. \A i \in DOMAIN b : i <= Len(b) /\ i \in Nat /\ b[i] \in T
  <2>1. b \in Seq(T)
    BY <1>2
  <2> HIDE DEF T, b
  <2> QED BY <2>1
<1>7. \A a \in T : a \in Nat
    OBVIOUS
<1> HIDE DEF S, T, b, w
<1>8. ToSet(Only(b, S)) = ToSet(b) \cap S /\ Only(b, S) \in Seq(T)
    BY <1>2, OnlyType
<1>9. ASSUME Live(j) # <<>> PROVE b # <<>> /\ Last(b) < w
  <2>1. PICK a \in ToSet(b) : a \in S
    BY <1>2, <1>8, <1>9, Members
  <2>2. PICK i \in DOMAIN b : b[i] = a
    BY <2>1 DEF ToSet
  <2>3. b # <<>>
    BY <2>2, <1>6
  <2>4. i = Len(b) \/ i < Len(b)
    BY <1>2, <1>6, <2>2
  <2>5. b[Len(b)] <= a /\ b[Len(b)] \in T /\ a \in T
    BY <1>4, <1>5, <1>6, <1>7, <2>2, <2>3, <2>4
  <2>6. a < w
    BY <1>3, <2>1, <2>5
  <2> QED BY <1>1, <1>5, <1>7, <2>3, <2>5, <2>6
<1>10. ASSUME b # <<>>, Last(b) < w PROVE Live(j) # <<>>
  <2>1. Last(b) \in ToSet(b) /\ Last(b) \in S
    BY <1>3, <1>5, <1>6, <1>10 DEF ToSet
  <2>2. Last(b) \in ToSet(Only(b, S))
    BY <1>8, <2>1
  <2> QED BY <1>2, <2>2 DEF ToSet
<1> QED BY <1>9, <1>10 DEF b, w

(* Where all windows are the same, a key with hits in its window is evicted *)
(* only when, after the sweep of the idle ones, more than MaxKeys keys are  *)
(* still active.                                                            *)
THEOREM SweepKeepsActive == ASSUME SameWindows PROVE LimiterSpec => SweepSparesActive
<1> DEFINE A == {j \in Tracked : Live(j) # <<>>}
           P == store = "memory" => \A k \in reset' \ reset : Cardinality(A) > MaxKeys
<1>1. LimiterInv /\ [LimiterNext]_limiterVars => [P]_limiterVars
  <2> SUFFICES ASSUME LimiterInv, LimiterNext, store = "memory", NEW i \in reset' \ reset
               PROVE  Cardinality(A) > MaxKeys
    OBVIOUS
  <2>1. PICK k \in Key : HitMemory(k)
    <3>1. ~Tick /\ ~RedisRestarts /\ \A k \in Key : ~ReplyLost(k)
      BY DEF Tick, RedisRestarts, ReplyLost
    <3> QED BY <3>1 DEF LimiterNext, Hit
  <2> DEFINE B == {j \in Tracked : bucket[j] # <<>> /\ Last(bucket[j]) < WindowOf[k]}
             active == Only(order, B)
             n == Len(active)
  <2>2. A = B
    BY ActiveAreLive
  <2>3. i \in Tracked /\ i \notin ToSet(Swept(k)) /\ i \in A
    BY <2>1 DEF HitMemory
  <2>4. order \in Seq(Key) /\ IsInjective(order) /\ A \subseteq ToSet(order)
    BY DEF LimiterInv, Tracked
  <2> HIDE DEF A, B
  <2>5. active \in Seq(Key) /\ IsInjective(active) /\ ToSet(active) = A
    <3>1. Only(order, B) \in Seq(Key) /\ ToSet(Only(order, B)) = ToSet(order) \cap B
      BY ONLY <2>4, OnlyType
    <3>2. IsInjective(Only(order, B))
      BY ONLY <2>4, OnlyInjective
    <3>3. ToSet(order) \cap B = A
      BY <2>2, <2>4
    <3> QED BY <3>1, <3>2, <3>3
  <2>6. Cardinality(A) = n /\ n \in Nat
    BY <2>5, DistinctMembers
  <2>7. Swept(k) = order \/ Swept(k) = EvictStale(WindowOf[k])
    BY DEF Swept
  <2>8. ~(n > MaxKeys) => EvictStale(WindowOf[k]) = active
    BY DEF EvictStale, B
  <2> HIDE DEF active
  <2>9. i \in ToSet(order) /\ i \in ToSet(active)
    BY <2>3, <2>4, <2>5
  <2> QED BY <2>3, <2>6, <2>7, <2>8, <2>9
<1> QED BY <1>1, LimiterInvariant, PTL DEF LimiterSpec, SweepSparesActive
=============================================================================
