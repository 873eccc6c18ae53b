----------------------------- MODULE JwtVerifier -----------------------------
(***************************************************************************)
(* createJWTHelpers and authPlugin of packages/plugins/auth: verify, its    *)
(* LRU cache of verdicts (jwt-cache.ts) and the lookup of the user, over    *)
(* the keys of the JWKS resolver or over one fixed key.                     *)
(*                                                                          *)
(* A request is in `verify`: it looks in the cache, resolves the key (the   *)
(* slot's `call` of Jwks), checks the token, awaits userFromToken, stores   *)
(* the verdict and answers.  The ages of the cache entries stop at          *)
(* JwtTtl + 1, the first one that `get` tells from JwtTtl.                  *)
(***************************************************************************)
EXTENDS Jwks, Sequences, SequencesExt

CONSTANTS
    Token,
    NoKid,      \* in place of the kid of a token without one
    JwtTtl,     \* ttl of the cache, in ticks
    MaxSize     \* maxSize of the cache

ASSUME VerifierAssumption ==
    /\ NoKid \notin Kid
    /\ JwtTtl \in Nat /\ MaxSize \in Nat \ {0}

VARIABLES
    mode,     \* "jwks" | "key": a secret or a public key
    kidOf,    \* the kid header of a token
    life,     \* "early" (nbf) | "live" | "over": expired, or the user is gone
    cache,    \* entries [token, user, age], the oldest first
    verify,   \* per slot: idle, or [stage, token] that awaits its key or user
    waning    \* history: ticks since a verify could still accept the token

verifierVars == <<mode, kidOf, life, cache, verify, waning>>
allVars == <<vars, verifierVars>>

Idle == [stage |-> "idle"]
Stage(stage, t) == [stage |-> stage, token |-> t]
Entry(t, user) == [token |-> t, user |-> user, age |-> 0]

VerifierInit ==
    /\ Init
    /\ mode \in {"jwks", "key"} /\ (mode = "key" => issuer = {})
    /\ kidOf \in [Token -> Kid \union {NoKid}]
    /\ life \in [Token -> {"early", "live"}]
    /\ cache = <<>>
    /\ verify = [s \in Slot |-> Idle]
    /\ waning = [t \in Token |-> 0]

-----------------------------------------------------------------------------
(* JWTCache                                                                 *)
Find(t) == {i \in DOMAIN cache : cache[i].token = t}

\* Mutant: a hit renews the expiry.
CacheGetSliding(i) == cache' = Append(RemoveAt(cache, i), [cache[i] EXCEPT !.age = 0])

\* get: an entry that lives moves to the young end, and keeps its expiry.
CacheGet(i) == cache' = Append(RemoveAt(cache, i), cache[i])

\* set: the oldest entry goes when the cache is full, be it the token's own;
\* an entry that stays is replaced where it is.
CacheSet(t, user) ==
    IF JwtTtl = 0 THEN UNCHANGED cache
    ELSE LET kept == IF Len(cache) >= MaxSize THEN Tail(cache) ELSE cache
             at == {i \in DOMAIN kept : kept[i].token = t}
         IN cache' = IF at = {} THEN Append(kept, Entry(t, user))
                     ELSE [i \in DOMAIN kept |-> IF i \in at THEN Entry(t, user) ELSE kept[i]]

\* The verdict is stored and is the request's context.user.
Settle(s, t, user) == CacheSet(t, user) /\ verify' = [verify EXCEPT ![s] = Idle]

-----------------------------------------------------------------------------
\* A request whose header carries a Bearer token.
VerifyCached(t, user) ==
    \E i \in Find(t) :
        /\ cache[i].age <= JwtTtl /\ cache[i].user = user
        /\ CacheGet(i)
        /\ UNCHANGED <<vars, verify>>

\* The miss, or the expired entry, which get deletes: on to the key.
VerifyMisses(s, t) ==
    /\ \A i \in Find(t) : cache[i].age > JwtTtl
    /\ \/ Find(t) = {} /\ UNCHANGED cache
       \/ \E i \in Find(t) : cache' = RemoveAt(cache, i)
    /\ verify' = [verify EXCEPT ![s] = Stage("key", t)]
    /\ IF mode = "jwks" /\ kidOf[t] # NoKid THEN GetKey(s, kidOf[t]) ELSE UNCHANGED vars

Verify(s, t) ==
    /\ verify[s] = Idle
    /\ (\E user \in BOOLEAN : VerifyCached(t, user)) \/ VerifyMisses(s, t)
    /\ UNCHANGED <<mode, kidOf, life, waning>>

\* jwt.verify: with a key, a token that is neither early nor expired passes.
KeyResolved(s) ==
    /\ verify[s].stage = "key" /\ s \notin Waiting
    /\ LET t == verify[s].token IN
       IF (mode = "jwks" => kidOf[t] # NoKid /\ call[s].state = "key") /\ life[t] = "live"
       THEN verify' = [verify EXCEPT ![s] = Stage("user", t)] /\ UNCHANGED cache
       ELSE Settle(s, t, FALSE)
    /\ UNCHANGED <<vars, mode, kidOf, life, waning>>

\* userFromToken: the user it saw when asked or sees now; null, or it throws.
UserReturns(s, found) ==
    /\ verify[s].stage = "user"
    /\ Settle(s, verify[s].token, found)
    /\ UNCHANGED <<vars, mode, kidOf, life, waning>>

\* helpers.cache.clear(), as on a logout.
Clear ==
    /\ cache # <<>> /\ cache' = <<>>
    /\ UNCHANGED <<vars, mode, kidOf, life, verify, waning>>

-----------------------------------------------------------------------------
\* A token becomes valid, expires, or loses its user.
Ages(t) ==
    /\ life' = [life EXCEPT ![t] = IF @ = "early" THEN "live" ELSE "over"]
    /\ life' # life
    /\ UNCHANGED <<vars, mode, kidOf, cache, verify, waning>>

\* The keys of the issuer and the fetches of the resolver.
KeyStep ==
    /\ mode = "jwks"
    /\ Fails \/ (\E body \in {issuer, asked} : Responds(body)) \/ \E kid \in Kid : Rotate(kid)
    /\ UNCHANGED verifierVars

\* A token that is over and that no verify took for live is waning.
Wanes(t) == life[t] = "over" /\ \A s \in Slot : verify[s] # Stage("user", t)
Older(n) == IF n <= JwtTtl THEN n + 1 ELSE n

Time ==
    /\ cache' = [i \in DOMAIN cache |-> [cache[i] EXCEPT !.age = Older(@)]]
    /\ waning' = [t \in Token |-> IF Wanes(t) THEN Older(waning[t]) ELSE 0]
    /\ Tick \/ (sinceFetch = CacheTtl /\ sinceAttempt = MinRefetch /\ UNCHANGED vars)
    /\ UNCHANGED <<mode, kidOf, life, verify>>

VerifierNext ==
    \/ \E s \in Slot :
          \/ \E t \in Token : Verify(s, t)
          \/ KeyResolved(s)
          \/ \E found \in BOOLEAN : UserReturns(s, found)
    \/ \E t \in Token : Ages(t)
    \/ Clear \/ KeyStep \/ Time

VerifierSpec == VerifierInit /\ [][VerifierNext]_allVars

(* Every token keeps coming and time passes; a request goes on, a lookup    *)
(* asked again and again finds again and again, and so does the endpoint.   *)
FairVerifierSpec ==
    /\ VerifierSpec
    /\ WF_allVars(Time)
    /\ \A t \in Token : SF_allVars(\E s \in Slot : Verify(s, t))
    /\ \A s \in Slot :
          /\ WF_allVars(KeyResolved(s))
          /\ WF_allVars(\E found \in BOOLEAN : UserReturns(s, found))
    /\ \A t \in Token : SF_allVars(\E s \in Slot : verify[s] = Stage("user", t) /\ UserReturns(s, TRUE))
    /\ SF_allVars(KeyStep /\ Responds(issuer))

-----------------------------------------------------------------------------
\* A request gets the user of token t.
Accepts(t) ==
    \/ VerifyCached(t, TRUE)
    \/ \E s \in Slot : verify[s] = Stage("user", t) /\ UserReturns(s, TRUE)

(* jwt-cache.ts: "A revoked token remains accepted for up to this duration":*)
(* a token that expired or lost its user is accepted for at most the TTL of *)
(* the cache after the last verify that took it for live, however often it  *)
(* is presented meanwhile.                                                  *)
RevocationBites == [][\A t \in Token : Accepts(t) => waning[t] <= JwtTtl]_allVars

(* A token that stays live and whose key stays published is accepted again  *)
(* and again, whatever outages, rotations and lookup errors were remembered *)
(* against it.                                                              *)
AcceptedInTheEnd ==
    \A t \in Token :
        <>[](life[t] = "live" /\ (mode = "jwks" => kidOf[t] \in issuer))
            => []<><<Accepts(t)>>_allVars

(* The tokens of a key that the issuer has withdrawn for good are refused   *)
(* in the end.                                                              *)
WithdrawnInTheEnd ==
    \A t \in Token :
        <>[](mode = "jwks" /\ kidOf[t] \notin issuer) => <>[][~Accepts(t)]_allVars
=============================================================================
