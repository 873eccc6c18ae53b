-------------------------------- MODULE Jwks --------------------------------
(***************************************************************************)
(* JwksKeyResolver of packages/plugins/auth/src/jwks.ts: the cached key set *)
(* of an issuer that rotates its keys, behind concurrent calls of getKey.   *)
(*                                                                          *)
(* getKey is one atomic step, or two around the await of the fetch that it  *)
(* starts or joins.  A fetch is in flight between StartFetch and Responds   *)
(* or Fails.  The clocks are the times since fetchedAt and lastAttemptAt,   *)
(* saturated at the only values they are compared with.                     *)
(***************************************************************************)
EXTENDS Naturals, FiniteSets

CONSTANTS
    Kid,
    Slot,        \* concurrent calls of getKey
    CacheTtl,    \* cacheTtlMs, in ticks
    MinRefetch   \* minRefetchIntervalMs, in ticks

ASSUME JwksAssumption == CacheTtl \in Nat \ {0} /\ MinRefetch \in Nat \ {0}

VARIABLES
    issuer,       \* the kids the endpoint publishes
    keys,         \* this.keys
    fetched,      \* this.fetchedAt # 0
    sinceFetch,   \* now - this.fetchedAt
    sinceAttempt, \* now - this.lastAttemptAt
    flights,      \* fetches in flight: this.pending # null iff not 0
    asked,        \* what the issuer published when the fetch began
    call,         \* per slot: [state : idle, waiting, key, null ; kid]
    steady        \* history: kids fetched, and published ever since

fetching == <<keys, fetched, sinceFetch, steady>>
vars == <<issuer, keys, fetched, sinceFetch, sinceAttempt, flights, asked, call, steady>>

Call(state, kid) == [state |-> state, kid |-> kid]
Waiting == {s \in Slot : call[s].state = "waiting"}

Init ==
    /\ issuer \in SUBSET Kid
    /\ keys = {} /\ steady = {}
    /\ fetched = FALSE /\ sinceFetch = CacheTtl
    /\ sinceAttempt = MinRefetch
    /\ flights = 0 /\ asked = {}
    /\ call \in [Slot -> {Call("idle", k) : k \in Kid}]

-----------------------------------------------------------------------------
Stale == ~fetched \/ sinceFetch >= CacheTtl

\* `?? null`
Answer(kid) == IF kid \in keys THEN Call("key", kid) ELSE Call("null", kid)

\* Mutant: known kids are never refetched, however stale.
NeedsFetchUnknownOnly(kid) == kid \notin keys /\ (sinceAttempt >= MinRefetch \/ ~fetched)

\* Mutant: the key set is fetched once.
NeedsFetchOnce(kid) == ~fetched

NeedsFetch(kid) ==
    /\ Stale \/ kid \notin keys
    /\ sinceAttempt >= MinRefetch \/ ~fetched

\* refetch: `this.pending ??= this.doFetch()`.
StartFetch ==
    IF flights = 0
    THEN flights' = 1 /\ sinceAttempt' = 0 /\ asked' = issuer
    ELSE UNCHANGED <<flights, sinceAttempt, asked>>

GetKey(s, kid) ==
    /\ s \notin Waiting
    /\ IF NeedsFetch(kid)
       THEN StartFetch /\ call' = [call EXCEPT ![s] = Call("waiting", kid)]
       ELSE /\ call' = [call EXCEPT ![s] = Answer(kid)]
            /\ UNCHANGED <<flights, sinceAttempt, asked>>
    /\ UNCHANGED <<issuer, fetching>>

\* The callers that awaited the fetch answer from the key set as it is now.
Wake(known) ==
    call' = [s \in Slot |-> IF s \notin Waiting THEN call[s]
                            ELSE IF call[s].kid \in known THEN Call("key", call[s].kid)
                            ELSE Call("null", call[s].kid)]

(* The endpoint answers with the set it publishes, or published when asked. *)
Responds(body) ==
    /\ flights > 0 /\ body \in {issuer, asked}
    /\ keys' = body
    /\ fetched' = TRUE /\ sinceFetch' = 0
    /\ steady' = body \intersect issuer
    /\ flights' = flights - 1
    /\ Wake(body)
    /\ UNCHANGED <<issuer, sinceAttempt, asked>>

\* Mutant: a failed fetch empties the key set.
FailsForgetting ==
    /\ flights > 0
    /\ flights' = flights - 1
    /\ keys' = {}
    /\ Wake({})
    /\ UNCHANGED <<issuer, fetched, sinceFetch, steady, sinceAttempt, asked>>

(* An error status, a body that is no key set, a network failure: the       *)
(* previous key set stays.                                                  *)
Fails ==
    /\ flights > 0
    /\ flights' = flights - 1
    /\ Wake(keys)
    /\ UNCHANGED <<issuer, fetching, sinceAttempt, asked>>

\* The issuer adds or withdraws a key.
Rotate(kid) ==
    /\ issuer' \in {issuer \union {kid}, issuer \ {kid}}
    /\ issuer' # issuer
    /\ steady' = steady \intersect issuer'
    /\ UNCHANGED <<keys, fetched, sinceFetch, sinceAttempt, flights, asked, call>>

Tick ==
    /\ sinceFetch < CacheTtl \/ sinceAttempt < MinRefetch
    /\ sinceFetch' = IF sinceFetch < CacheTtl THEN sinceFetch + 1 ELSE CacheTtl
    /\ sinceAttempt' = IF sinceAttempt < MinRefetch THEN sinceAttempt + 1 ELSE MinRefetch
    /\ UNCHANGED <<issuer, keys, fetched, flights, asked, call, steady>>

Next ==
    \/ \E s \in Slot, kid \in Kid : GetKey(s, kid)
    \/ \E body \in {issuer, asked} : Responds(body)
    \/ Fails
    \/ \E kid \in Kid : Rotate(kid)
    \/ Tick

Spec == Init /\ [][Next]_vars

-----------------------------------------------------------------------------
(* Types; concurrent calls share one fetch, and wait only for one that is   *)
(* in flight.                                                               *)
TypeOK ==
    /\ issuer \subseteq Kid /\ keys \subseteq Kid /\ asked \subseteq Kid
    /\ steady \subseteq keys
    /\ fetched \in BOOLEAN
    /\ sinceFetch \in 0 .. CacheTtl /\ sinceAttempt \in 0 .. MinRefetch
    /\ flights \in 0 .. 1
    /\ call \in [Slot -> [state : {"idle", "waiting", "key", "null"}, kid : Kid]]
    /\ Waiting # {} => flights = 1

(* A key that was fetched and that the issuer has published ever since is   *)
(* always found, however stale the set is and however many fetches fail.    *)
OutageKeepsKeys ==
    [][\A s \in Slot : call'[s] # call[s] /\ call'[s].state = "null" =>
           call'[s].kid \notin steady \union steady']_vars
=============================================================================
