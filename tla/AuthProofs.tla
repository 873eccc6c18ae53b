----------------------------- MODULE AuthProofs -----------------------------
(***************************************************************************)
(* The safety of the key resolver for any sets of keys and of concurrent    *)
(* calls.  The inductive invariant is IInv: besides the types it says that  *)
(* the steady keys are still published, and that the fetch in flight, which *)
(* may answer with what was published when it was sent, was sent after all  *)
(* of them had been fetched.  The second half needs flights <= 1.           *)
(***************************************************************************)
EXTENDS JwtVerifier, SequenceTheorems, TLAPS

SteadyIsPublished ==
    /\ steady \subseteq issuer
    /\ flights > 0 => steady \subseteq asked

IInv == TypeOK /\ SteadyIsPublished

(* Before the first fetch nothing is steady.                                *)
LEMMA InitIInv == Init => IInv
<1> SUFFICES ASSUME Init PROVE IInv
    OBVIOUS
<1>1. \A s \in Slot : call[s] \in [state : {"idle"}, kid : Kid]
    BY DEF Init, Call
<1>2. call \in [Slot -> [state : {"idle", "waiting", "key", "null"}, kid : Kid]] /\ Waiting = {}
    BY <1>1 DEF Init, Waiting
<1>3. /\ issuer \subseteq Kid /\ keys = {} /\ steady = {} /\ fetched = FALSE
      /\ sinceFetch = CacheTtl /\ sinceAttempt = MinRefetch /\ flights = 0 /\ asked = {}
    BY DEF Init
<1>4. sinceFetch \in 0 .. CacheTtl /\ sinceAttempt \in 0 .. MinRefetch /\ flights \in 0 .. 1
    BY <1>3, JwksAssumption
<1>5. asked \subseteq Kid /\ keys \subseteq Kid /\ steady \subseteq keys /\ fetched \in BOOLEAN
    BY <1>3
<1>6. TypeOK
    BY <1>2, <1>3, <1>4, <1>5 DEF TypeOK
<1> QED BY <1>3, <1>6 DEF IInv, SteadyIsPublished

(* getKey answers from the key set, starts a fetch, or joins the one in     *)
(* flight.                                                                  *)
LEMMA GetKeyKeepsIInv ==
    ASSUME IInv, NEW s \in Slot, NEW kid \in Kid, GetKey(s, kid)
    PROVE  IInv'
<1> USE JwksAssumption DEF IInv, TypeOK
<1>1. flights \in {0, 1} /\ s \notin Waiting
    BY DEF GetKey
<1>2. CASE NeedsFetch(kid)
  <2>1. /\ StartFetch /\ call' = [call EXCEPT ![s] = Call("waiting", kid)]
        /\ UNCHANGED <<issuer, fetching>>
    BY <1>2 DEF GetKey
  <2>2. flights' = 1 /\ sinceAttempt' \in 0 .. MinRefetch
    BY <1>1, <2>1 DEF StartFetch
  <2>3. asked' \subseteq Kid /\ (flights > 0 => asked' = asked) /\ (flights = 0 => asked' = issuer)
    BY <1>1, <2>1 DEF StartFetch
  <2>4. call' \in [Slot -> [state : {"idle", "waiting", "key", "null"}, kid : Kid]]
    BY <2>1 DEF Call
  <2>5. TypeOK'
    BY <2>1, <2>2, <2>3, <2>4 DEF fetching
  <2>6. SteadyIsPublished'
    BY <1>1, <2>1, <2>3 DEF SteadyIsPublished, fetching
  <2> QED BY <2>5, <2>6
<1>3. CASE ~NeedsFetch(kid)
  <2>1. /\ call' = [call EXCEPT ![s] = Answer(kid)]
        /\ UNCHANGED <<issuer, fetching, flights, sinceAttempt, asked>>
    BY <1>3 DEF GetKey
  <2>2. call' \in [Slot -> [state : {"idle", "waiting", "key", "null"}, kid : Kid]]
    BY <2>1 DEF Answer, Call
  <2>3. Waiting' \subseteq Waiting
    BY <2>1 DEF Waiting, Answer, Call
  <2>4. TypeOK'
    BY <2>1, <2>2, <2>3 DEF fetching
  <2> QED BY <2>1, <2>4 DEF SteadyIsPublished, fetching
<1> QED BY <1>2, <1>3

(* Whoever waits is answered when the fetch settles.                        *)
LEMMA WakeAnswersAll ==
    ASSUME TypeOK, NEW known, Wake(known)
    PROVE  /\ call' \in [Slot -> [state : {"idle", "waiting", "key", "null"}, kid : Kid]]
           /\ Waiting' = {}
<1>1. \A s \in Slot : call'[s] \in [state : {"idle", "key", "null"}, kid : Kid]
    BY DEF TypeOK, Wake, Waiting, Call
<1> QED BY <1>1 DEF Wake, Waiting

(* A fetch that succeeds replaces the key set by a published one, and one   *)
(* that fails leaves it alone.                                              *)
LEMMA FetchKeepsIInv ==
    ASSUME IInv, Fails \/ \E body \in {issuer, asked} : Responds(body)
    PROVE  IInv'
<1> USE JwksAssumption DEF IInv, TypeOK
<1>1. CASE Fails
  <2>1. /\ flights' = 0 /\ Wake(keys) /\ UNCHANGED <<issuer, fetching, sinceAttempt, asked>>
    BY <1>1 DEF Fails
  <2>2. TypeOK'
    BY <2>1, WakeAnswersAll DEF fetching
  <2> QED BY <2>1, <2>2 DEF SteadyIsPublished, fetching
<1>2. ASSUME NEW body \in {issuer, asked}, Responds(body) PROVE IInv'
  <2>1. /\ keys' = body /\ fetched' = TRUE /\ sinceFetch' = 0 /\ steady' = body \intersect issuer
        /\ flights' = 0 /\ Wake(body) /\ UNCHANGED <<issuer, sinceAttempt, asked>>
    BY <1>2 DEF Responds
  <2>2. TypeOK'
    BY <2>1, WakeAnswersAll
  <2> QED BY <2>1, <2>2 DEF SteadyIsPublished
<1> QED BY <1>1, <1>2

(* No step of the resolver or of its issuer breaks the invariant.           *)
LEMMA NextIInv == IInv /\ [Next]_vars => IInv'
<1> SUFFICES ASSUME IInv, [Next]_vars PROVE IInv'
    OBVIOUS
<1>1. ASSUME NEW kid \in Kid, Rotate(kid) PROVE IInv'
    BY <1>1 DEF Rotate, IInv, TypeOK, SteadyIsPublished, Waiting
<1>2. CASE Tick
    BY <1>2, JwksAssumption DEF Tick, IInv, TypeOK, SteadyIsPublished, Waiting
<1>3. CASE UNCHANGED vars
    BY <1>3 DEF vars, IInv, TypeOK, SteadyIsPublished, Waiting
<1> QED BY <1>1, <1>2, <1>3, GetKeyKeepsIInv, FetchKeepsIInv DEF Next

(* The inductive invariant holds in every reachable state.                  *)
THEOREM Invariant == Spec => []IInv
<1>1. QED BY InitIInv, NextIInv, PTL DEF Spec

(* Concurrent calls of getKey share one fetch, and wait only for one that   *)
(* is in flight.                                                            *)
THEOREM TypeCorrect == Spec => []TypeOK
<1>1. QED BY Invariant, PTL DEF IInv

(* A key that was fetched and is published ever since is always found.      *)
THEOREM OutagesKeepKeys == Spec => OutageKeepsKeys
<1> DEFINE Found == \A s \in Slot : call'[s] # call[s] /\ call'[s].state = "null" =>
                        call'[s].kid \notin steady \union steady'
<1>1. IInv /\ [Next]_vars => [Found]_vars
  <2> SUFFICES ASSUME IInv, Next, NEW s \in Slot, call'[s] # call[s], call'[s].state = "null"
               PROVE  call'[s].kid \notin steady \union steady'
    OBVIOUS
  <2> USE DEF IInv, TypeOK
  <2>1. ASSUME NEW t \in Slot, NEW kid \in Kid, GetKey(t, kid)
        PROVE  call'[s].kid \notin steady \union steady'
    <3>1. t = s /\ call'[s] = Answer(kid) /\ UNCHANGED fetching
      BY <2>1 DEF GetKey, Call
    <3> QED BY <3>1 DEF Answer, Call, fetching
  <2>2. ASSUME NEW body \in {issuer, asked}, Responds(body)
        PROVE  call'[s].kid \notin steady \union steady'
    <3>1. call'[s].kid \notin body /\ steady \subseteq body /\ steady' \subseteq body
      BY <2>2 DEF Responds, Wake, Call, SteadyIsPublished
    <3> QED BY <3>1
  <2>3. CASE Fails
    BY <2>3 DEF Fails, Wake, Call, fetching
  <2> QED BY <2>1, <2>2, <2>3 DEF Next, Rotate, Tick
<1>2. QED BY <1>1, Invariant, PTL DEF Spec, OutageKeepsKeys

-----------------------------------------------------------------------------
(* A token's kid does not change.                                           *)
Kids == kidOf \in [Token -> Kid \union {NoKid}]
LEMMA KidsStay == VerifierSpec => []Kids
<1>1. VerifierInit => Kids
    BY DEF VerifierInit, Kids
<1>2. Kids /\ [VerifierNext]_allVars => Kids'
    BY DEF Kids, VerifierNext, Verify, KeyResolved, UserReturns, Ages, Clear, KeyStep, Time,
           allVars, verifierVars
<1> QED
    BY <1>1, <1>2, PTL DEF VerifierSpec

(* The verifier uses the resolver as the specification of Jwks says.        *)
THEOREM VerifierUsesKeys == VerifierSpec => Spec
<1>1. VerifierInit => Init
    BY DEF VerifierInit
<1>2. ASSUME Kids, [VerifierNext]_allVars PROVE [Next]_vars
    <2>1. ASSUME NEW s \in Slot, NEW t \in Token, Verify(s, t) PROVE [Next]_vars
        <3>1. CASE mode = "jwks" /\ kidOf[t] \in Kid /\ GetKey(s, kidOf[t])
            BY <3>1 DEF Next
        <3>2. kidOf[t] \in Kid \union {NoKid}
            BY <1>2 DEF Kids
        <3> QED
            BY <2>1, <3>1, <3>2 DEF Verify, VerifyCached, VerifyMisses
    <2>2. ASSUME NEW s \in Slot, KeyResolved(s) \/ \E found \in BOOLEAN : UserReturns(s, found)
          PROVE UNCHANGED vars
        BY <2>2 DEF KeyResolved, UserReturns
    <2>3. ASSUME (\E t \in Token : Ages(t)) \/ Clear PROVE UNCHANGED vars
        BY <2>3 DEF Ages, Clear
    <2>4. CASE KeyStep
        BY <2>4 DEF KeyStep, Next
    <2>5. CASE Time
        BY <2>5 DEF Time, Next
    <2>6. CASE UNCHANGED allVars
        BY <2>6 DEF allVars
    <2> QED
        BY <1>2, <2>1, <2>2, <2>3, <2>4, <2>5, <2>6 DEF VerifierNext
<1> QED
    BY <1>1, <1>2, KidsStay, PTL DEF VerifierSpec, Spec

(* So no outage of the endpoint makes a verify miss a steady key.           *)
THEOREM VerifierKeepsKeys == VerifierSpec => OutageKeepsKeys
<1> QED
    BY VerifierUsesKeys, OutagesKeepKeys

-----------------------------------------------------------------------------
(* An entry that grants a user is at least as old as the token is waning,   *)
(* and a token that is live, or that a verify took for live, is not waning. *)
Granted ==
    {e \in [token : Token, user : BOOLEAN, age : Nat] : e.user => waning[e.token] <= e.age}

Bounded ==
    /\ cache \in Seq(Granted)
    /\ waning \in [Token -> Nat] /\ life \in [Token -> {"early", "live", "over"}]
    /\ verify \in [Slot -> {Idle} \union {Stage(stage, t) : stage \in {"key", "user"}, t \in Token}]
    /\ \A t \in Token : life[t] # "over" => waning[t] = 0
    /\ \A s \in Slot, t \in Token : verify[s] = Stage("user", t) => waning[t] = 0

(* Removing an entry, or replacing it, adds none but the new one.           *)
LEMMA Removes ==
    ASSUME NEW S, NEW q \in Seq(S), NEW i \in DOMAIN q
    PROVE  RemoveAt(q, i) \in Seq(S)
<1>1. i \in 1 .. Len(q) /\ Len(q) \in Nat /\ \A j \in 1 .. Len(q) : q[j] \in S
    BY LenProperties, ElementOfSeq
<1>2. SubSeq(q, 1, i - 1) \in Seq(S) /\ SubSeq(q, i + 1, Len(q)) \in Seq(S)
    BY <1>1, SubSeqProperties
<1> QED
    BY <1>2, ConcatProperties DEF RemoveAt

LEMMA Stores ==
    ASSUME NEW S, cache \in Seq(S), NEW t, NEW user, Entry(t, user) \in S, CacheSet(t, user)
    PROVE  cache' \in Seq(S)
<1> DEFINE kept == IF Len(cache) >= MaxSize THEN Tail(cache) ELSE cache
           at == {i \in DOMAIN kept : kept[i].token = t}
<1>1. kept \in Seq(S)
    <2>1. Len(cache) >= MaxSize => cache # <<>>
        BY VerifierAssumption, EmptySeq
    <2> QED
        BY <2>1, HeadTailProperties
<1>2. DOMAIN kept = 1 .. Len(kept) /\ Len(kept) \in Nat /\ \A i \in DOMAIN kept : kept[i] \in S
    BY <1>1, LenProperties, ElementOfSeq
<1>3. CASE UNCHANGED cache
    BY <1>3
<1>4. CASE cache' = Append(kept, Entry(t, user))
    BY <1>1, <1>4, AppendProperties
<1>5. CASE cache' = [i \in DOMAIN kept |-> IF i \in at THEN Entry(t, user) ELSE kept[i]]
    <2>1. cache' \in [1 .. Len(kept) -> S]
        BY <1>2, <1>5
    <2>2. cache' \in UNION {[1 .. n -> S] : n \in Nat}
        BY <1>2, <2>1
    <2> QED
        BY <2>2, SeqDef, Zenon
<1> QED
    BY <1>3, <1>4, <1>5 DEF CacheSet

(* Every step keeps the entries and the verifies within their bounds.       *)
LEMMA BoundedInit == VerifierInit => Bounded
<1> SUFFICES ASSUME VerifierInit PROVE Bounded
    OBVIOUS
<1>1. cache \in Seq(Granted)
    BY EmptySeq DEF VerifierInit
<1>2. waning \in [Token -> Nat] /\ \A t \in Token : waning[t] = 0
    BY DEF VerifierInit
<1>3. life \in [Token -> {"early", "live", "over"}]
    BY DEF VerifierInit
<1>4. verify \in [Slot -> {Idle} \union {Stage(stage, t) : stage \in {"key", "user"}, t \in Token}]
    BY DEF VerifierInit
<1> QED
    BY <1>1, <1>2, <1>3, <1>4 DEF Bounded

LEMMA SettleKeeps ==
    ASSUME Bounded, NEW s \in Slot, NEW t \in Token, NEW user \in BOOLEAN, Settle(s, t, user),
           user => waning[t] = 0, UNCHANGED <<life, waning>>
    PROVE  Bounded'
<1>1. Granted' = Granted
    BY DEF Granted
<1>2. Entry(t, user) \in Granted
    BY DEF Granted, Entry, Bounded
<1>3. cache' \in Seq(Granted)
    BY <1>2, Stores DEF Settle, Bounded
<1>4. /\ verify' \in
             [Slot -> {Idle} \union {Stage(stage, u) : stage \in {"key", "user"}, u \in Token}]
      /\ \A r \in Slot : verify'[r] \in {verify[r], Idle}
    BY DEF Settle, Bounded
<1>5. \A u \in Token : Stage("user", u) # Idle
    BY DEF Stage, Idle
<1> QED
    BY <1>1, <1>3, <1>4, <1>5 DEF Bounded

LEMMA BoundedStep == Bounded /\ [VerifierNext]_allVars => Bounded'
<1> SUFFICES ASSUME Bounded, [VerifierNext]_allVars PROVE Bounded'
    OBVIOUS
<1> USE DEF Bounded
<1>1. ASSUME NEW s \in Slot, NEW t \in Token, Verify(s, t) PROVE Bounded'
    <2>1. Granted' = Granted /\ UNCHANGED <<life, waning>>
        BY <1>1 DEF Verify, Granted
    <2>2. CASE \E user \in BOOLEAN : VerifyCached(t, user)
        <3>1. PICK i \in Find(t) : CacheGet(i) /\ UNCHANGED verify
            BY <2>2 DEF VerifyCached
        <3>2. i \in DOMAIN cache /\ cache[i] \in Granted
            BY LenProperties, ElementOfSeq DEF Find
        <3>3. cache' \in Seq(Granted)
            BY <3>1, <3>2, Removes, AppendProperties DEF CacheGet
        <3> QED
            BY <2>1, <3>1, <3>3
    <2>3. CASE VerifyMisses(s, t)
        <3>1. cache' \in Seq(Granted)
            BY <2>3, Removes DEF VerifyMisses, Find
        <3>2. verify' = [verify EXCEPT ![s] = Stage("key", t)]
            BY <2>3 DEF VerifyMisses
        <3>3. \A u \in Token : Stage("user", u) # Stage("key", t)
            BY DEF Stage
        <3>4. verify' \in
                [Slot -> {Idle} \union {Stage(stage, u) : stage \in {"key", "user"}, u \in Token}]
            BY <3>2
        <3> QED
            BY <2>1, <3>1, <3>2, <3>3, <3>4
    <2> QED
        BY <1>1, <2>2, <2>3, SMTT(30) DEF Verify
<1>2. ASSUME NEW s \in Slot, KeyResolved(s) PROVE Bounded'
    <2>1. PICK t \in Token : verify[s] = Stage("key", t)
        <3>1. verify[s].stage = "key" /\ verify[s] # Idle
            BY <1>2 DEF KeyResolved, Idle
        <3>2. PICK stage \in {"key", "user"}, t \in Token : verify[s] = Stage(stage, t)
            BY <3>1
        <3> QED
            BY <3>1, <3>2 DEF Stage
    <2>2. CASE Settle(s, t, FALSE)
        <3>1. UNCHANGED <<life, waning>>
            BY <1>2 DEF KeyResolved
        <3> HIDE DEF Bounded
        <3> QED
            BY <2>2, <3>1, SettleKeeps
    <2>3. CASE life[t] = "live" /\ verify' = [verify EXCEPT ![s] = Stage("user", t)]
                 /\ UNCHANGED cache
        <3>1. Granted' = Granted /\ UNCHANGED <<life, waning>>
            BY <1>2 DEF KeyResolved, Granted
        <3>2. \A u \in Token : Stage("user", u) = Stage("user", t) => u = t
            BY DEF Stage
        <3> QED
            BY <2>3, <3>1, <3>2
    <2>4. verify[s].token = t
        BY <2>1 DEF Stage
    <2>5. \/ Settle(s, t, FALSE)
          \/ life[t] = "live" /\ verify' = [verify EXCEPT ![s] = Stage("user", t)]
            /\ UNCHANGED cache
        BY <1>2, <2>4 DEF KeyResolved
    <2> HIDE DEF Bounded
    <2> QED
        BY <2>2, <2>3, <2>5
<1>3. ASSUME NEW s \in Slot, NEW found \in BOOLEAN, UserReturns(s, found) PROVE Bounded'
    <2>1. PICK t \in Token : verify[s] = Stage("user", t)
        BY <1>3 DEF UserReturns, Stage, Idle
    <2> QED
        BY <1>3, <2>1, SettleKeeps DEF UserReturns, Stage
<1>4. ASSUME NEW t \in Token, Ages(t) PROVE Bounded'
    <2>1. Granted' = Granted
        BY <1>4 DEF Ages, Granted
    <2> QED
        BY <1>4, <2>1 DEF Ages
<1>5. CASE Clear
    <2>1. Granted' = Granted
        BY <1>5 DEF Clear, Granted
    <2> QED
        BY <1>5, <2>1, EmptySeq DEF Clear
<1>6. CASE KeyStep \/ UNCHANGED allVars
    <2>1. Granted' = Granted
        BY <1>6 DEF KeyStep, allVars, verifierVars, Granted
    <2> QED
        BY <1>6, <2>1 DEF KeyStep, allVars, verifierVars
<1>7. CASE Time
    <2>1. DOMAIN cache = 1 .. Len(cache) /\ Len(cache) \in Nat
            /\ \A i \in DOMAIN cache : cache[i] \in Granted
        BY LenProperties, ElementOfSeq
    <2>2. \A t \in Token : waning'[t] \in {0, Older(waning[t])} /\ Older(waning[t]) \in Nat
        BY <1>7, VerifierAssumption DEF Time, Older
    <2>3. \A a, b \in Nat : a <= b => Older(a) <= Older(b) /\ Older(b) \in Nat
        BY VerifierAssumption DEF Older
    <2>4. ASSUME NEW e \in Granted PROVE [e EXCEPT !.age = Older(@)] \in Granted'
        <3> DEFINE f == [e EXCEPT !.age = Older(@)]
        <3>1. e \in [token : Token, user : BOOLEAN, age : Nat]
                /\ (e.user => waning[e.token] <= e.age)
            BY DEF Granted
        <3>2. e.token \in Token /\ e.age \in Nat /\ waning[e.token] \in Nat
            BY <3>1
        <3>3. Older(e.age) \in Nat
            BY <2>3, <3>2
        <3>4. f \in [token : Token, user : BOOLEAN, age : Nat]
            BY <3>1, <3>3
        <3>5. f.token = e.token /\ f.user = e.user /\ f.age = Older(e.age)
            BY <3>1
        <3>6. waning[e.token] <= e.age => waning'[e.token] <= Older(e.age)
            <4>1. waning'[e.token] \in {0, Older(waning[e.token])}
                BY <2>2, <3>2
            <4>2. waning[e.token] <= e.age => Older(waning[e.token]) <= Older(e.age)
                BY <2>3, <3>2
            <4>3. 0 <= Older(e.age)
                BY <3>3
            <4> QED
                BY <4>1, <4>2, <4>3
        <3>7. f.user => waning'[f.token] <= f.age
            BY <3>1, <3>5, <3>6
        <3> HIDE DEF f
        <3> QED
            BY <3>4, <3>7 DEF Granted, f
    <2>5. cache' \in [1 .. Len(cache) -> Granted']
        BY <1>7, <2>1, <2>4 DEF Time
    <2>6. cache' \in Seq(Granted')
        <3>1. cache' \in UNION {[1 .. n -> Granted'] : n \in Nat}
            BY <2>1, <2>5
        <3> QED
            BY <3>1, SeqDef, Zenon
    <2>7. waning' \in [Token -> Nat]
        BY <1>7, <2>2 DEF Time
    <2>8. \A t \in Token : ~Wanes(t) => waning'[t] = 0
        BY <1>7 DEF Time
    <2> QED
        BY <1>7, <2>6, <2>7, <2>8 DEF Time, Wanes
<1> HIDE DEF Bounded
<1> QED
    BY <1>1, <1>2, <1>3, <1>4, <1>5, <1>6, <1>7 DEF VerifierNext

(* A token that is over is accepted for at most the TTL of the cache after  *)
(* the last verify that took it for live.                                   *)
THEOREM RevocationsBite == VerifierSpec => RevocationBites
<1>1. ASSUME Bounded, NEW t \in Token, Accepts(t) PROVE waning[t] <= JwtTtl
    <2>1. CASE VerifyCached(t, TRUE)
        <3>1. PICK i \in Find(t) : cache[i].age <= JwtTtl /\ cache[i].user = TRUE
            BY <2>1 DEF VerifyCached
        <3>2. cache[i] \in Granted /\ cache[i].token = t
            BY <1>1, LenProperties, ElementOfSeq DEF Bounded, Find
        <3> QED
            BY <1>1, <3>1, <3>2, VerifierAssumption DEF Granted, Bounded
    <2>2. CASE \E s \in Slot : verify[s] = Stage("user", t) /\ UserReturns(s, TRUE)
        BY <1>1, <2>2, VerifierAssumption DEF Bounded
    <2> QED
        BY <1>1, <2>1, <2>2 DEF Accepts
<1>2. Bounded => [\A t \in Token : Accepts(t) => waning[t] <= JwtTtl]_allVars
    BY <1>1
<1> QED
    BY BoundedInit, BoundedStep, <1>2, PTL DEF VerifierSpec, RevocationBites
=============================================================================
