--------------------------- MODULE CircuitBreaker ---------------------------
(***************************************************************************)
(* withCircuitBreaker of packages/core/src/enhancers.ts: the breaker that   *)
(* wraps the resolver of one capability.                                    *)
(*                                                                          *)
(* The closure variables of the enhancer are shared by every call of the    *)
(* capability, and each call runs in two atomic steps separated by the      *)
(* await of the resolver: the gate (Admit, Reject) and the handling of the  *)
(* answer (Succeed, Fail, FailFramework).  Answers arrive in any order, so  *)
(* a call admitted in one state of the breaker is answered in another.      *)
(*                                                                          *)
(* The clock is abstracted to sinceOpen = Date.now() - openedAt, saturated  *)
(* at TimeoutMs: the gate cannot tell greater values apart.                 *)
(***************************************************************************)
EXTENDS Naturals

CONSTANTS
    Call,              \* slots for concurrent calls of the capability
    FailureThreshold,  \* options.failureThreshold
    SuccessThreshold,  \* options.successThreshold
    TimeoutMs          \* options.timeoutMs, in clock ticks

ASSUME ThresholdAssumption == /\ FailureThreshold \in Nat \ {0}
                              /\ SuccessThreshold \in Nat \ {0}
                              /\ TimeoutMs \in Nat

VARIABLES
    state,      \* 'closed' | 'open' | 'half-open'
    failures,
    successes,
    sinceOpen,  \* Date.now() - openedAt, saturated at TimeoutMs
    call,       \* per slot: nothing awaited, turned away, or the state of the
                \* breaker in which the call being awaited was let through
    failRun,    \* history: counted failures since the last success, saturated
    okRun       \* history: successes since the last counted failure, saturated

breaker == <<state, failures, successes, sinceOpen>>
breakerVars == <<state, failures, successes, sinceOpen, call, failRun, okRun>>

Awaited(c) == call[c] \in {"closed", "half-open"}

\* n + 1, never above the cap
Saturate(n, cap) == IF n < cap THEN n + 1 ELSE cap

BreakerInit ==
    /\ state = "closed"
    /\ failures = 0
    /\ successes = 0
    /\ sinceOpen = TimeoutMs      \* openedAt = 0: long ago
    /\ call = [c \in Call |-> "idle"]
    /\ failRun = 0
    /\ okRun = 0

-----------------------------------------------------------------------------
(* The gate, up to the await of the resolver.                               *)

GateShut == state = "open" /\ sinceOpen < TimeoutMs

\* Mutant: the probe is let through and the state is left open.
AdmitLeavingOpen(c) ==
    /\ ~Awaited(c)
    /\ ~GateShut
    /\ call' = [call EXCEPT ![c] = IF state = "open" THEN "half-open" ELSE state]
    /\ UNCHANGED <<breaker, failRun, okRun>>

Admit(c) ==
    /\ ~Awaited(c)
    /\ ~GateShut
    /\ IF state = "open"
       THEN state' = "half-open" /\ successes' = 0
       ELSE UNCHANGED <<state, successes>>
    /\ call' = [call EXCEPT ![c] = state']
    /\ UNCHANGED <<failures, sinceOpen, failRun, okRun>>

Reject(c) ==
    /\ ~Awaited(c)
    /\ GateShut
    /\ call' = [call EXCEPT ![c] = "rejected"]
    /\ UNCHANGED <<breaker, failRun, okRun>>

-----------------------------------------------------------------------------
(* The answer of the resolver.                                              *)

\* Mutant: closing keeps the failures counted before.
OnSuccessKeepsFailures ==
    IF state = "half-open"
    THEN /\ successes' = successes + 1
         /\ state' = IF successes + 1 >= SuccessThreshold THEN "closed" ELSE state
         /\ UNCHANGED failures
    ELSE failures' = 0 /\ UNCHANGED <<state, successes>>

\* Mutant: an answer that arrives while the breaker is open is a probe's.
OnSuccessWhileOpen ==
    IF state # "closed"
    THEN /\ successes' = successes + 1
         /\ IF successes + 1 >= SuccessThreshold
            THEN state' = "closed" /\ failures' = 0
            ELSE UNCHANGED <<state, failures>>
    ELSE failures' = 0 /\ UNCHANGED <<state, successes>>

OnSuccess ==
    IF state = "half-open"
    THEN /\ successes' = successes + 1
         /\ IF successes + 1 >= SuccessThreshold
            THEN state' = "closed" /\ failures' = 0
            ELSE UNCHANGED <<state, failures>>
    ELSE failures' = 0 /\ UNCHANGED <<state, successes>>

\* Mutant: off by one at the threshold.
OnFailureOffByOne ==
    IF state = "half-open" \/ failures >= FailureThreshold
    THEN state' = "open" /\ sinceOpen' = 0 /\ failures' = 0
    ELSE failures' = failures + 1 /\ UNCHANGED <<state, sinceOpen>>

OnFailure ==
    IF state = "half-open" \/ failures + 1 >= FailureThreshold
    THEN state' = "open" /\ sinceOpen' = 0 /\ failures' = 0
    ELSE failures' = failures + 1 /\ UNCHANGED <<state, sinceOpen>>

Succeed(c) ==
    /\ Awaited(c)
    /\ OnSuccess
    /\ call' = [call EXCEPT ![c] = "idle"]
    /\ failRun' = 0
    /\ okRun' = Saturate(okRun, SuccessThreshold)
    /\ UNCHANGED sinceOpen

Fail(c) ==
    /\ Awaited(c)
    /\ OnFailure
    /\ call' = [call EXCEPT ![c] = "idle"]
    /\ failRun' = Saturate(failRun, FailureThreshold)
    /\ okRun' = 0
    /\ UNCHANGED successes

\* A FrameworkError is rethrown and changes nothing, in any state.
FailFramework(c) ==
    /\ Awaited(c)
    /\ call' = [call EXCEPT ![c] = "idle"]
    /\ UNCHANGED <<breaker, failRun, okRun>>

Tick ==
    /\ sinceOpen < TimeoutMs
    /\ sinceOpen' = sinceOpen + 1
    /\ UNCHANGED <<state, failures, successes, call, failRun, okRun>>

BreakerNext ==
    \/ \E c \in Call : \/ Admit(c) \/ Reject(c)
                       \/ Succeed(c) \/ Fail(c) \/ FailFramework(c)
    \/ Tick

BreakerSpec == BreakerInit /\ [][BreakerNext]_breakerVars

(***************************************************************************)
(* The workload under which the breaker is expected to recover: time        *)
(* passes, callers keep calling, and a resolver that is called again and    *)
(* again succeeds again and again.                                          *)
(***************************************************************************)
BreakerFairSpec ==
    /\ BreakerSpec
    /\ WF_breakerVars(Tick)
    /\ \A c \in Call : WF_breakerVars(Admit(c)) /\ SF_breakerVars(Succeed(c))

-----------------------------------------------------------------------------
(* Every variable has its type; the counters stay below their thresholds    *)
(* in whatever order answers arrive.                                        *)
BreakerTypes ==
    /\ state \in {"closed", "open", "half-open"}
    /\ failures \in 0 .. FailureThreshold - 1
    /\ successes \in 0 .. SuccessThreshold
    /\ sinceOpen \in 0 .. TimeoutMs
    /\ call \in [Call -> {"idle", "rejected", "closed", "half-open"}]
    /\ failRun \in 0 .. FailureThreshold
    /\ okRun \in 0 .. SuccessThreshold

(* A closed breaker has not seen FailureThreshold counted failures in a     *)
(* row, even when calls admitted before it last opened are answered now.    *)
ClosedMeansHealthy == state = "closed" => failRun < FailureThreshold

(* The breaker leaves the closed state only after FailureThreshold counted  *)
(* failures with no success in between: a failure counted while it was open *)
(* or half-open never carries over into the next closed period.             *)
TripIsEarned ==
    [][state = "closed" /\ state' # "closed" => failRun' = FailureThreshold]_breakerVars

(* The breaker closes only from half-open, and only after SuccessThreshold  *)
(* successes with no counted failure in between: a success that arrives     *)
(* late, while the breaker is open, never closes it.                        *)
CloseIsEarned ==
    [][state # "closed" /\ state' = "closed" =>
         state = "half-open" /\ okRun' = SuccessThreshold]_breakerVars

(* The inductive invariant behind the properties above.                *)
CountersAgree ==
    /\ state # "half-open" => failures <= failRun
    /\ state = "closed" => failures = failRun
    /\ state = "half-open" => successes < SuccessThreshold /\ successes <= okRun

CountedFailure == \E c \in Call : Fail(c)

(* Once the resolver stops failing, callers that keep calling see the       *)
(* breaker close and stay closed: no state of the breaker is a trap,        *)
(* whatever calls were in flight when it opened.                            *)
Recovers == <>[][~CountedFailure]_breakerVars => <>[](state = "closed")
=============================================================================
