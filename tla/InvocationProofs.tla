-------------------------- MODULE InvocationProofs --------------------------
(***************************************************************************)
(* What an invocation meets on its way: the pipeline of the execution       *)
(* engine, which implements Invocation, and the enhancers of its resolver   *)
(* that keep state of their own, withCircuitBreaker and withRollback.       *)
(***************************************************************************)
EXTENDS ExecutionEngine, CircuitBreaker, Rollback, SequenceTheorems, TLAPS

-----------------------------------------------------------------------------
(***************************************************************************)
(* The safety of the circuit breaker for any number of concurrent calls and *)
(* any thresholds.  The inductive invariant is BreakerInv: the counters the *)
(* code keeps, compared with the history of the answers (CountersAgree).    *)
(***************************************************************************)
BreakerInv == BreakerTypes /\ CountersAgree

(* Adding one below the top, or staying at it, stays within the top and     *)
(* never loses a step that the exact count would have made below it.        *)
LEMMA SaturateBounds ==
    ASSUME NEW top \in Nat \ {0}, NEW n \in 0 .. top
    PROVE  /\ Saturate(n, top) \in 0 .. top
           /\ \A m \in Nat : m <= n /\ m < top => m + 1 <= Saturate(n, top)
<1>1. CASE n < top
  <2>1. Saturate(n, top) = n + 1
    BY <1>1 DEF Saturate
  <2> QED BY <1>1, <2>1
<1>2. CASE n = top
  <2>1. Saturate(n, top) = top
    BY <1>2 DEF Saturate
  <2> QED BY <1>2, <2>1
<1> QED BY <1>1, <1>2

(* The initial values of the enhancer's closure satisfy the invariant.      *)
LEMMA BreakerBegins == BreakerInit => BreakerInv
BY ThresholdAssumption DEF BreakerInit, BreakerInv, BreakerTypes, CountersAgree

(* No step of a call or of the clock breaks the invariant.                  *)
LEMMA BreakerGoes == BreakerInv /\ [BreakerNext]_breakerVars => BreakerInv'
<1> SUFFICES ASSUME BreakerInv, [BreakerNext]_breakerVars PROVE BreakerInv'
    OBVIOUS
<1> USE ThresholdAssumption DEF BreakerInv, BreakerTypes, CountersAgree
<1>1. ASSUME NEW c \in Call, Admit(c) PROVE BreakerInv'
    BY <1>1 DEF Admit, GateShut, Awaited
<1>2. ASSUME NEW c \in Call, Reject(c) PROVE BreakerInv'
    BY <1>2 DEF Reject, breaker
<1>3. ASSUME NEW c \in Call, Succeed(c) PROVE BreakerInv'
  <2>1. /\ okRun' \in 0 .. SuccessThreshold
        /\ \A m \in Nat : m <= okRun /\ m < SuccessThreshold => m + 1 <= okRun'
    BY <1>3, SaturateBounds DEF Succeed
  <2>2. failRun' = 0 /\ sinceOpen' = sinceOpen
    BY <1>3 DEF Succeed
  <2>3. call' \in [Call -> {"idle", "rejected", "closed", "half-open"}]
    BY <1>3 DEF Succeed
  <2>4. CASE state = "half-open"
    BY <1>3, <2>1, <2>2, <2>3, <2>4 DEF Succeed, OnSuccess
  <2>5. CASE state # "half-open"
    BY <1>3, <2>1, <2>2, <2>3, <2>5 DEF Succeed, OnSuccess
  <2> QED BY <2>4, <2>5
<1>4. ASSUME NEW c \in Call, Fail(c) PROVE BreakerInv'
  <2>1. /\ failRun' \in 0 .. FailureThreshold
        /\ \A m \in Nat : m <= failRun /\ m < FailureThreshold => m + 1 <= failRun'
    BY <1>4, SaturateBounds DEF Fail
  <2>2. failRun < FailureThreshold => failRun' = failRun + 1
    BY <1>4 DEF Fail, Saturate
  <2>3. okRun' = 0 /\ successes' = successes
    BY <1>4 DEF Fail
  <2>4. call' \in [Call -> {"idle", "rejected", "closed", "half-open"}]
    BY <1>4 DEF Fail
  <2>5. CASE state = "half-open" \/ failures + 1 >= FailureThreshold
    BY <1>4, <2>1, <2>3, <2>4, <2>5 DEF Fail, OnFailure
  <2>6. CASE state # "half-open" /\ failures + 1 < FailureThreshold
    BY <1>4, <2>1, <2>2, <2>3, <2>4, <2>6 DEF Fail, OnFailure
  <2> QED BY <2>5, <2>6
<1>5. ASSUME NEW c \in Call, FailFramework(c) PROVE BreakerInv'
    BY <1>5 DEF FailFramework, breaker
<1>6. CASE Tick
    BY <1>6 DEF Tick
<1>7. CASE UNCHANGED breakerVars
    BY <1>7 DEF breakerVars
<1> QED
    BY <1>1, <1>2, <1>3, <1>4, <1>5, <1>6, <1>7 DEF BreakerNext

(* In every reachable state the counters of the closure are within their    *)
(* thresholds and agree with the history of the answers.                    *)
THEOREM CountersAreRight == BreakerSpec => [](BreakerTypes /\ CountersAgree)
<1>1. BreakerSpec => []BreakerInv
    BY BreakerBegins, BreakerGoes, PTL DEF BreakerSpec
<1>2. QED BY <1>1, PTL DEF BreakerInv

(* Every variable keeps its type for all thresholds and numbers of calls.   *)
THEOREM BreakerTypeCorrect == BreakerSpec => []BreakerTypes
<1>1. QED BY CountersAreRight, PTL

(* A closed breaker has seen fewer than FailureThreshold failures in a row. *)
THEOREM ClosedIsHealthy == BreakerSpec => []ClosedMeansHealthy
<1>1. BreakerInv => ClosedMeansHealthy
    BY ThresholdAssumption DEF BreakerInv, BreakerTypes, CountersAgree, ClosedMeansHealthy
<1>2. QED BY <1>1, CountersAreRight, PTL DEF BreakerInv

(* The breaker trips only after FailureThreshold failures in a row.         *)
THEOREM TripsAreEarned == BreakerSpec => TripIsEarned
<1> DEFINE Earned == state = "closed" /\ state' # "closed" => failRun' = FailureThreshold
<1>1. BreakerInv /\ [BreakerNext]_breakerVars => [Earned]_breakerVars
  <2> SUFFICES ASSUME BreakerInv, BreakerNext, state = "closed", state' # "closed"
               PROVE  failRun' = FailureThreshold
    OBVIOUS
  <2> USE ThresholdAssumption DEF BreakerInv, BreakerTypes, CountersAgree
  <2>1. PICK c \in Call : Fail(c)
    BY DEF BreakerNext, Admit, GateShut, Reject, Succeed, OnSuccess, FailFramework, Tick, breaker
  <2>2. failures + 1 >= FailureThreshold
    BY <2>1 DEF Fail, OnFailure
  <2> QED BY <2>1, <2>2 DEF Fail, Saturate
<1>2. QED BY <1>1, CountersAreRight, PTL DEF BreakerSpec, BreakerInv, TripIsEarned

(* The breaker closes only from half-open, after SuccessThreshold successes *)
(* with no counted failure in between.                                      *)
THEOREM ClosesAreEarned == BreakerSpec => CloseIsEarned
<1> DEFINE Earned == state # "closed" /\ state' = "closed" =>
                       state = "half-open" /\ okRun' = SuccessThreshold
<1>1. BreakerInv /\ [BreakerNext]_breakerVars => [Earned]_breakerVars
  <2> SUFFICES ASSUME BreakerInv, BreakerNext, state # "closed", state' = "closed"
               PROVE  state = "half-open" /\ okRun' = SuccessThreshold
    OBVIOUS
  <2> USE ThresholdAssumption DEF BreakerInv, BreakerTypes, CountersAgree
  <2>1. PICK c \in Call : Succeed(c)
    BY DEF BreakerNext, Admit, GateShut, Reject, Fail, OnFailure, FailFramework, Tick, breaker
  <2>2. state = "half-open" /\ successes + 1 >= SuccessThreshold
    BY <2>1 DEF Succeed, OnSuccess
  <2> QED BY <2>1, <2>2 DEF Succeed, Saturate
<1>2. QED BY <1>1, CountersAreRight, PTL DEF BreakerSpec, BreakerInv, CloseIsEarned

-----------------------------------------------------------------------------
(***************************************************************************)
(* The compensation of withRollback for any number of attempts and of       *)
(* registrations.  The inductive invariant is RollbackInv.  Two facts carry *)
(* it: the array is the registrations in order until the loop starts, and   *)
(* from then on those before the failure newest first and the later ones in *)
(* order (ArrayInOrder); and without a timeout nothing runs any more once   *)
(* the loop has started (OneAtATime).                                       *)
(***************************************************************************)
(* The array, and how much of it the loop has called.                       *)
ArrayInOrder ==
    /\ next = 0 => undone = <<>> /\ failedAt = 0
    /\ \A i \in DOMAIN rollbacks :
           rollbacks[i] = IF i <= failedAt THEN failedAt + 1 - i ELSE i
    /\ next > 0 => Len(undone) = next - 1
    /\ \A i \in DOMAIN undone : i \in DOMAIN rollbacks /\ undone[i] = rollbacks[i]

(* Who may still run when the loop has started, or the caller has an answer. *)
OneAtATime ==
    /\ timedOut => next > 0 /\ stack.timer # "none"
    /\ ~timedOut /\ next > 0 => resolver = "ended"
    /\ resolver = "backoff" => attempt < stack.attempts
    /\ answer = "ok" => next = 0 /\ resolver = "ended"
    /\ answer = "error" => /\ next > failedAt
                           /\ ~timedOut => next > Len(rollbacks)

RollbackInv == RollbackTypes /\ ArrayInOrder /\ OneAtATime

(* An invocation that has not begun satisfies the invariant.                *)
LEMMA RollbackBegins == RollbackInit => RollbackInv
<1> SUFFICES ASSUME RollbackInit PROVE RollbackInv
    OBVIOUS
<1>1. stack \in Stacks /\ stack.attempts \in Nat \ {0}
    BY BoundsAssumption DEF RollbackInit, Stacks
<1>2. rollbacks = <<>> /\ undone = <<>> /\ attempt = 1 /\ next = 0 /\ failedAt = 0
      /\ answer = "pending" /\ resolver = "running" /\ timedOut = FALSE
    BY DEF RollbackInit
<1>3. /\ rollbacks \in Seq(1 .. MaxSteps) /\ Len(rollbacks) = 0 /\ undone \in Seq(1 .. MaxSteps)
      /\ attempt \in 1 .. stack.attempts /\ MaxSteps \in Nat
    BY <1>1, <1>2, BoundsAssumption
<1>4. next \in 0 .. Len(rollbacks) + 1 /\ failedAt \in 0 .. Len(rollbacks)
    BY <1>2, <1>3
<1>5. /\ resolver \in {"running", "backoff", "ended"} /\ timedOut \in BOOLEAN
      /\ answer \in {"pending", "ok", "error"}
    BY <1>2
<1>6. Len(rollbacks) <= MaxSteps
    BY <1>3
<1>7. RollbackTypes
    BY <1>1, <1>3, <1>4, <1>5, <1>6 DEF RollbackTypes
<1> QED BY <1>2, <1>3, <1>7 DEF RollbackInv, ArrayInOrder, OneAtATime

(* Starting the loop reverses the registrations made so far.                *)
LEMMA StartReverses ==
    ASSUME RollbackInv, next = 0, StartRollback
    PROVE  /\ rollbacks' \in Seq(1 .. MaxSteps) /\ Len(rollbacks') = Len(rollbacks)
           /\ failedAt' = Len(rollbacks) /\ next' = 1
           /\ \A i \in DOMAIN rollbacks' : rollbacks'[i] = failedAt' + 1 - i
<1> DEFINE n == Len(rollbacks)
<1>1. /\ rollbacks \in Seq(1 .. MaxSteps) /\ n \in Nat /\ failedAt = 0
      /\ \A i \in 1 .. n : rollbacks[i] = i
    BY DEF RollbackInv, RollbackTypes, ArrayInOrder
<1>2. rollbacks' = [i \in 1 .. n |-> rollbacks[(n - i) + 1]] /\ failedAt' = n /\ next' = 1
    BY DEF StartRollback, Reverse
<1>3. \A i \in 1 .. n : (n - i) + 1 \in 1 .. n
    BY <1>1
<1>4. rollbacks' \in [1 .. n -> 1 .. MaxSteps]
  <2> DEFINE S == 1 .. MaxSteps
  <2>0. rollbacks \in Seq(S)
    BY <1>1
  <2> HIDE DEF S
  <2>1. \A i \in 1 .. n : rollbacks[i] \in S
    BY <2>0
  <2>2. \A i \in 1 .. n : rollbacks[(n - i) + 1] \in S
    BY <1>3, <2>1
  <2>3. rollbacks' \in [1 .. n -> S]
    BY <1>2, <2>2
  <2> QED BY <2>3 DEF S
<1>5. rollbacks' \in Seq(1 .. MaxSteps) /\ Len(rollbacks') = n
  <2>1. rollbacks' \in Seq(1 .. MaxSteps)
    BY <1>1, <1>4, SeqDef, ZenonT(40)
  <2>2. Len(rollbacks') \in Nat /\ DOMAIN rollbacks' = 1 .. Len(rollbacks')
          /\ DOMAIN rollbacks' = 1 .. n
    BY <1>4, <2>1, LenProperties
  <2>3. Len(rollbacks') \in 1 .. n \/ Len(rollbacks') = 0
    BY <2>2
  <2>4. n \in 1 .. Len(rollbacks') \/ n = 0
    BY <1>1, <2>2
  <2> QED BY <1>1, <2>1, <2>2, <2>3, <2>4
<1>6. \A i \in 1 .. n : rollbacks'[i] = failedAt' + 1 - i
    BY <1>1, <1>2, <1>3
<1> QED BY <1>2, <1>5, <1>6

(* The resolver runs on: it registers, returns, throws, or is retried.      *)
LEMMA ResolverKeepsInv ==
    ASSUME RollbackInv,
           Register \/ Return \/ NextAttempt \/ \E framework \in BOOLEAN : Throw(framework)
    PROVE  RollbackInv'
<1> USE BoundsAssumption DEF RollbackInv
<1>1. CASE Register
  <2>1. /\ rollbacks' = Append(rollbacks, Len(rollbacks) + 1) /\ Len(rollbacks) < MaxSteps
        /\ resolver = "running"
        /\ UNCHANGED <<stack, resolver, attempt, timedOut, next, answer, failedAt, undone>>
    BY <1>1 DEF Register
  <2>2. /\ rollbacks' \in Seq(1 .. MaxSteps) /\ Len(rollbacks') = Len(rollbacks) + 1
        /\ \A i \in 1 .. Len(rollbacks) : rollbacks'[i] = rollbacks[i]
        /\ rollbacks'[Len(rollbacks) + 1] = Len(rollbacks) + 1
    BY <2>1 DEF RollbackTypes
  <2>3. RollbackTypes'
    BY <2>1, <2>2 DEF RollbackTypes
  <2>4. failedAt \in Nat /\ failedAt <= Len(rollbacks) /\ Len(rollbacks) \in Nat
    BY DEF RollbackTypes
  <2>5. \A i \in DOMAIN rollbacks' :
            rollbacks'[i] = IF i <= failedAt THEN failedAt + 1 - i ELSE i
    <3>1. /\ DOMAIN rollbacks' = 1 .. Len(rollbacks) + 1 /\ DOMAIN rollbacks = 1 .. Len(rollbacks)
          /\ \A i \in DOMAIN rollbacks' : i \in DOMAIN rollbacks \/ i = Len(rollbacks) + 1
      BY <2>2, <2>4, LenProperties DEF RollbackTypes
    <3>2. \A i \in DOMAIN rollbacks : rollbacks'[i] = IF i <= failedAt THEN failedAt + 1 - i ELSE i
      BY <2>2, <3>1 DEF ArrayInOrder
    <3>3. ~ (Len(rollbacks) + 1 <= failedAt)
      BY <2>4
    <3> QED BY <2>2, <3>1, <3>2, <3>3
  <2>6. \A i \in DOMAIN undone : i \in DOMAIN rollbacks' /\ undone[i] = rollbacks'[i]
    <3>1. /\ DOMAIN rollbacks' = 1 .. Len(rollbacks) + 1 /\ DOMAIN rollbacks = 1 .. Len(rollbacks)
          /\ DOMAIN rollbacks \subseteq DOMAIN rollbacks'
      BY <2>2, <2>4, LenProperties DEF RollbackTypes
    <3> QED BY <2>2, <3>1 DEF ArrayInOrder
  <2>7. ArrayInOrder'
    BY <2>1, <2>5, <2>6 DEF ArrayInOrder
  <2>8. OneAtATime'
    BY <2>1, <2>2 DEF OneAtATime, RollbackTypes
  <2> QED BY <2>3, <2>7, <2>8
<1>2. CASE Return
    BY <1>2 DEF Return, RollbackTypes, ArrayInOrder, OneAtATime
<1>3. CASE NextAttempt
  <2>1. stack.attempts \in Nat
    BY DEF RollbackTypes, Stacks
  <2> QED BY <1>3, <2>1 DEF NextAttempt, RollbackTypes, ArrayInOrder, OneAtATime
<1>4. ASSUME NEW framework \in BOOLEAN, Throw(framework) PROVE RollbackInv'
  <2>1. CASE MayRetry(framework) \/ timedOut
      BY <1>4, <2>1 DEF Throw, MayRetry, RollbackTypes, ArrayInOrder, OneAtATime
  <2>2. CASE ~MayRetry(framework) /\ ~timedOut
    <3>1. /\ StartRollback /\ resolver' = "ended" /\ resolver = "running"
          /\ UNCHANGED <<stack, attempt, timedOut, answer, undone>>
      BY <1>4, <2>2 DEF Throw
    <3>2. next = 0 /\ undone = <<>> /\ answer = "pending"
      BY <2>2, <3>1 DEF RollbackTypes, OneAtATime, ArrayInOrder
    <3> QED BY <2>2, <3>1, <3>2, StartReverses DEF RollbackTypes, ArrayInOrder, OneAtATime
  <2> QED BY <2>1, <2>2
<1> QED BY <1>1, <1>2, <1>3, <1>4

(* The timer starts the loop; the loop goes on and rethrows.                *)
LEMMA LoopKeepsInv ==
    ASSUME RollbackInv, Timeout \/ Rethrow \/ \E throws \in BOOLEAN : Undo(throws)
    PROVE  RollbackInv'
<1> USE BoundsAssumption DEF RollbackInv
<1>1. CASE Timeout
  <2>1. /\ StartRollback /\ next = 0 /\ timedOut' = TRUE /\ answer = "pending"
        /\ stack.timer # "none" /\ UNCHANGED <<stack, resolver, attempt, answer, undone>>
    BY <1>1 DEF Timeout
  <2>2. undone = <<>>
    BY <2>1 DEF ArrayInOrder
  <2> QED BY <2>1, <2>2, StartReverses DEF RollbackTypes, ArrayInOrder, OneAtATime
<1>2. CASE Rethrow
    BY <1>2 DEF Rethrow, RollbackTypes, ArrayInOrder, OneAtATime
<1>3. ASSUME NEW throws \in BOOLEAN, Undo(throws) PROVE RollbackInv'
  <2>1. /\ next \in 1 .. Len(rollbacks) /\ undone' = Append(undone, rollbacks[next])
        /\ next' = next + 1 /\ answer = "pending"
        /\ UNCHANGED <<stack, resolver, attempt, timedOut, rollbacks, answer, failedAt>>
    BY <1>3 DEF Undo, RollbackTypes
  <2>2. Len(undone) = next - 1 /\ undone \in Seq(1 .. MaxSteps) /\ next \in Nat
    BY <2>1 DEF RollbackTypes, ArrayInOrder
  <2>3. /\ undone' \in Seq(1 .. MaxSteps) /\ Len(undone') = next
        /\ \A i \in 1 .. next - 1 : undone'[i] = undone[i]
        /\ undone'[next] = rollbacks[next]
    BY <2>1, <2>2 DEF RollbackTypes
  <2>4. RollbackTypes'
    BY <2>1, <2>3, SMTT(30) DEF RollbackTypes
  <2>5. ArrayInOrder'
    BY <2>1, <2>2, <2>3 DEF RollbackTypes, ArrayInOrder
  <2> QED BY <2>1, <2>4, <2>5 DEF OneAtATime, RollbackTypes
<1> QED BY <1>1, <1>2, <1>3

(* No step breaks the invariant.                                            *)
LEMMA RollbackGoes == RollbackInv /\ [RollbackNext]_rollbackVars => RollbackInv'
<1>1. CASE UNCHANGED rollbackVars
    BY <1>1 DEF rollbackVars, RollbackInv, RollbackTypes, ArrayInOrder, OneAtATime
<1> QED BY <1>1, ResolverKeepsInv, LoopKeepsInv DEF RollbackNext

(* The inductive invariant holds in every reachable state.                  *)
THEOREM RollbackInvariant == RollbackSpec => []RollbackInv
<1>1. QED BY RollbackBegins, RollbackGoes, PTL DEF RollbackSpec

(* Attempts stay within maxAttempts and the loop within the array.          *)
THEOREM RollbackTypeCorrect == RollbackSpec => []RollbackTypes
<1>1. QED BY RollbackInvariant, PTL DEF RollbackInv

(* Rollbacks registered before the failure are undone newest first, and     *)
(* nothing is undone twice.                                                 *)
THEOREM UndoneNewestFirst == RollbackSpec => []NewestFirst
<1>1. RollbackInv => NewestFirst
    BY DEF RollbackInv, ArrayInOrder, NewestFirst
<1>2. QED BY <1>1, RollbackInvariant, PTL

(* The caller sees the error only after every rollback registered before    *)
(* the failure has been called.                                             *)
THEOREM FailuresAreCompensated == RollbackSpec => []Compensated
<1>1. ASSUME RollbackInv, answer = "error" PROVE 1 .. failedAt \subseteq ToSet(undone)
  <2> SUFFICES ASSUME NEW r \in 1 .. failedAt PROVE r \in ToSet(undone)
    OBVIOUS
  <2> DEFINE i == failedAt + 1 - r
  <2>1. failedAt \in Nat /\ next > failedAt /\ Len(undone) = next - 1 /\ next \in Nat
    BY <1>1 DEF RollbackInv, RollbackTypes, ArrayInOrder, OneAtATime
  <2>2. i \in 1 .. failedAt /\ i \in DOMAIN undone
    BY <1>1, <2>1 DEF RollbackInv, RollbackTypes
  <2>3. undone[i] = r
    BY <1>1, <2>1, <2>2 DEF RollbackInv, RollbackTypes, ArrayInOrder
  <2> QED BY <2>2, <2>3 DEF ToSet
<1>2. ASSUME RollbackInv, answer = "error", stack.timer = "none"
      PROVE  ToSet(undone) = 1 .. Len(rollbacks)
  <2>1. /\ Len(undone) = Len(rollbacks) /\ Len(rollbacks) \in Nat
        /\ failedAt \in 0 .. Len(rollbacks)
        /\ undone \in Seq(1 .. MaxSteps)
    BY <1>2 DEF RollbackInv, RollbackTypes, ArrayInOrder, OneAtATime
  <2>2. \A i \in 1 .. Len(rollbacks) : undone[i] = IF i <= failedAt THEN failedAt + 1 - i ELSE i
    BY <1>2, <2>1 DEF RollbackInv, RollbackTypes, ArrayInOrder
  <2>3. \A i \in 1 .. Len(rollbacks) : undone[i] \in 1 .. Len(rollbacks)
    BY <2>1, <2>2
  <2>4. \A r \in 1 .. Len(rollbacks) : \E i \in 1 .. Len(rollbacks) : undone[i] = r
    <3> SUFFICES ASSUME NEW r \in 1 .. Len(rollbacks)
                 PROVE  \E i \in 1 .. Len(rollbacks) : undone[i] = r
      OBVIOUS
    <3>1. CASE r <= failedAt
      <4>1. failedAt + 1 - r \in 1 .. Len(rollbacks) /\ undone[failedAt + 1 - r] = r
        BY <2>1, <2>2, <3>1
      <4> QED BY <4>1
    <3>2. CASE r > failedAt
      <4>1. undone[r] = r
        BY <2>1, <2>2, <3>2
      <4> QED BY <4>1
    <3> QED BY <2>1, <3>1, <3>2
  <2>5. DOMAIN undone = 1 .. Len(rollbacks)
    BY <2>1
  <2> QED BY <2>3, <2>4, <2>5 DEF ToSet
<1>3. RollbackInv => Compensated
    BY <1>1, <1>2 DEF Compensated
<1>4. QED BY <1>3, RollbackInvariant, PTL

(* An invocation that answers with a result has undone nothing.             *)
THEOREM SuccessUndoesNothing == RollbackSpec => []NoUndoOnSuccess
<1>1. RollbackInv => NoUndoOnSuccess
    BY DEF RollbackInv, ArrayInOrder, OneAtATime, NoUndoOnSuccess
<1>2. QED BY <1>1, RollbackInvariant, PTL

-----------------------------------------------------------------------------
(***************************************************************************)
(* The execution engine implements Invocation, for any number of guards.    *)
(* A step of the pipeline is a stutter of Invocation, except the resolver's *)
(* (Resolve) and those that settle the promise (Settle).  The refinement    *)
(* needs EngineInv: the outcome is pending until the pipeline is over       *)
(* (PendingUntilDone), the resolver's stage is left as soon as the resolver *)
(* has run, and a success is answered only then (ResolverOnce).  That the   *)
(* callbacks run in order (OnTrack) is an invariant of its own, which       *)
(* counts them.                                                             *)
(***************************************************************************)
Callbacks == {"onRequest", "context", "guard", "validate", "inputGuard", "resolver", "output"}

Stages == {"lookup", "context", "guards", "validate", "inputGuards", "resolve", "output",
           "answer", "done", "rejected"}

PipelineTypes ==
    /\ hooks \in BOOLEAN /\ isDevelopment \in BOOLEAN
    /\ stage \in Stages
    /\ ran \in Seq(Callbacks)

PendingUntilDone ==
    stage \notin {"done", "rejected"} => outcome = "pending" /\ notified = "none"

ResolverOnce ==
    /\ resolved => stage \in {"output", "answer", "done", "rejected"}
    /\ stage = "output" => resolved
    /\ response = Ok => resolved

EngineInv == PipelineTypes /\ PendingUntilDone /\ ResolverOnce /\ ProductionHidesErrors

(* A callback more has been called: the resolver's is the one that tells.   *)
LEMMA CallResolves ==
    ASSUME NEW callback \in Callbacks, ran \in Seq(Callbacks), ran' = Append(ran, callback)
    PROVE  /\ ran' \in Seq(Callbacks)
           /\ resolved' <=> resolved \/ callback = "resolver"
<1>1. /\ Len(ran) \in Nat /\ DOMAIN ran = 1 .. Len(ran)
      /\ ran' \in Seq(Callbacks) /\ Len(ran') = Len(ran) + 1
      /\ \A i \in 1 .. Len(ran) : ran'[i] = ran[i]
      /\ ran'[Len(ran) + 1] = callback
    BY LenProperties
<1>2. DOMAIN ran' = 1 .. Len(ran) + 1
    BY <1>1, LenProperties
<1>3. \A i \in DOMAIN ran' : i \in DOMAIN ran \/ i = Len(ran) + 1
    BY <1>1, <1>2
<1>4. DOMAIN ran \subseteq DOMAIN ran' /\ Len(ran) + 1 \in DOMAIN ran'
    BY <1>1, <1>2
<1> QED BY <1>1, <1>3, <1>4 DEF resolved, ToSet

(* The answers of the pipeline: which are a success, which tell a message.  *)
LEMMA Answers ==
    /\ NoResponse # Ok
    /\ \A r \in {Failure("404", "notFound"), Failure("500", "context"), Failure("400", "issues"),
                Failure("500", "stream"), Failure("500", "undefined"), Failure("500", "output")} :
           r # Ok /\ r.message # "internal"
    /\ \A err \in Raised : /\ ToErrorResponse(err) # Ok
                           /\ ~isDevelopment => ToErrorResponse(err).message # "internal"
    /\ Ok.message # "internal"
BY DEF NoResponse, Ok, Failure, ToErrorResponse, Raised

(* A request that has not begun satisfies the invariant, and is a pending   *)
(* invocation.                                                              *)
LEMMA EngineBegins == EngineInit => EngineInv /\ Promise!Init
<1> SUFFICES ASSUME EngineInit PROVE EngineInv /\ Promise!Init
    OBVIOUS
<1>1. ran = <<>> /\ ran \in Seq(Callbacks) /\ ~resolved
    BY DEF EngineInit, resolved, ToSet
<1> QED BY <1>1, Answers DEF EngineInit, EngineInv, PipelineTypes, Stages, PendingUntilDone,
        ResolverOnce, ProductionHidesErrors, Promise!Init

(* A step before the resolver: it calls a callback or none, and goes on or  *)
(* answers with a failure.                                                  *)
QuietStep ==
    /\ UNCHANGED Rest
    /\ stage \in {"lookup", "context", "guards", "validate", "inputGuards"}
    /\ stage' \in Stages \ {"output", "done", "rejected"}
    /\ \/ UNCHANGED ran
       \/ \E callback \in Callbacks \ {"resolver"} : ran' = Append(ran, callback)
    /\ \/ UNCHANGED response
       \/ response' # Ok /\ (~isDevelopment => response'.message # "internal")

(* Such a step keeps the invariant and is a stutter of Invocation.          *)
LEMMA QuietStepKeepsInv ==
    ASSUME EngineInv, QuietStep
    PROVE  EngineInv' /\ UNCHANGED Promise!vars
<1>1. ran' \in Seq(Callbacks) /\ resolved' = resolved
    BY CallResolves DEF resolved, QuietStep, EngineInv, PipelineTypes
<1>2. UNCHANGED Promise!vars
    BY <1>1 DEF QuietStep, Rest, options, Promise!vars
<1> QED
    BY <1>1, <1>2 DEF QuietStep, EngineInv, PipelineTypes, PendingUntilDone, ResolverOnce,
                      ProductionHidesErrors, Rest, options

(* Everything up to the resolver is such a step, unless validation throws.  *)
LEMMA StepsBefore ==
    ASSUME EngineInv,
           \/ Lookup \/ GuardsDone \/ SkipValidation \/ InputGuardsDone
           \/ \E does \in Does : BuildContext(does) \/ Guard(does) \/ InputGuard(does)
           \/ \E verdict \in {"valid", "invalid"} : Validate(verdict)
    PROVE  EngineInv' /\ UNCHANGED Promise!vars
<1> USE DEF QuietStep, Rest, GoTo, Answer, Calls, Callbacks, Stages
<1>1. CASE Lookup
  <2>1. QuietStep
    BY <1>1, Answers DEF Lookup
  <2> QED BY <2>1, QuietStepKeepsInv
<1>2. CASE GuardsDone \/ SkipValidation \/ InputGuardsDone
  <2>1. QuietStep
    BY <1>2 DEF GuardsDone, SkipValidation, InputGuardsDone
  <2> QED BY <2>1, QuietStepKeepsInv
<1>3. ASSUME NEW does \in Does, BuildContext(does) PROVE EngineInv' /\ UNCHANGED Promise!vars
  <2>1. CASE does = "return"
    <3>1. QuietStep
      BY <1>3, <2>1 DEF BuildContext
    <3> QED BY <3>1, QuietStepKeepsInv
  <2>2. CASE does = "framework"
    <3>1. QuietStep
      BY <1>3, <2>2, Answers DEF BuildContext, Raised
    <3> QED BY <3>1, QuietStepKeepsInv
  <2>3. CASE does = "unexpected"
    <3>1. QuietStep
      BY <1>3, <2>3, Answers DEF BuildContext
    <3> QED BY <3>1, QuietStepKeepsInv
  <2> QED BY <2>1, <2>2, <2>3 DEF Does, Raised
<1>4. ASSUME NEW does \in Does, Guard(does) \/ InputGuard(does)
      PROVE  EngineInv' /\ UNCHANGED Promise!vars
  <2>1. QuietStep
    BY <1>4, Answers DEF Guard, InputGuard, EngineInv, PipelineTypes
  <2> QED BY <2>1, QuietStepKeepsInv
<1>5. ASSUME NEW verdict \in {"valid", "invalid"}, Validate(verdict)
      PROVE  EngineInv' /\ UNCHANGED Promise!vars
  <2>1. QuietStep
    BY <1>5, Answers DEF Validate
  <2> QED BY <2>1, QuietStepKeepsInv
<1> QED BY <1>1, <1>2, <1>3, <1>4, <1>5

(* The resolver runs: Invocation's Resolve.                                 *)
LEMMA StepOfResolver ==
    ASSUME EngineInv, NEW does \in Resolves, Resolve(does)
    PROVE  EngineInv' /\ Promise!Resolve
<1> USE DEF EngineInv
<1>1. /\ stage = "resolve" /\ ran' = Append(ran, "resolver") /\ UNCHANGED Rest
      /\ stage' \in {"answer", "output"}
      /\ \/ UNCHANGED response
         \/ response' = Ok
         \/ response' # Ok /\ (~isDevelopment => response'.message # "internal")
    BY Answers DEF Resolve, Calls, GoTo, Answer, Resolves, Raised
<1>2. ran' \in Seq(Callbacks) /\ resolved'
    BY <1>1, CallResolves DEF PipelineTypes, Callbacks
<1>3. outcome = "pending" /\ notified = "none" /\ ~resolved
    BY <1>1 DEF PendingUntilDone, ResolverOnce
<1>4. Promise!Resolve
    BY <1>1, <1>2, <1>3 DEF Rest, options, Promise!Resolve
<1> QED BY <1>1, <1>2, <1>3, <1>4, Answers
        DEF PipelineTypes, Stages, PendingUntilDone, ResolverOnce, ProductionHidesErrors, Rest,
        options

(* The checks of the output, or the settling of the promise, come after.    *)
LEMMA StepsAfter ==
    ASSUME EngineInv,
           \/ Settle \/ Validate("throws")
           \/ \E verdict \in Verdicts : ValidateOutput(verdict)
    PROVE  EngineInv' /\ [Promise!Next]_(Promise!vars)
<1> USE DEF EngineInv
<1>1. CASE Settle
  <2>1. /\ stage = "answer" /\ stage' = "done" /\ resolved' = resolved
        /\ UNCHANGED <<options, response, ran>>
    BY <1>1 DEF Settle, resolved
  <2>2. Promise!Settle(IF response = Ok THEN "ok" ELSE "error")
    BY <1>1, <2>1 DEF Settle, PipelineTypes, PendingUntilDone, ResolverOnce, options,
       Promise!Settle,
                      Promise!HookFor
  <2>3. EngineInv'
    BY <2>1 DEF PipelineTypes, Stages, PendingUntilDone, ResolverOnce, ProductionHidesErrors,
       options
  <2> QED BY <2>2, <2>3 DEF Promise!Next
<1>2. ASSUME NEW verdict \in Verdicts, Validate(verdict) \/ ValidateOutput(verdict),
             verdict = "throws"
      PROVE  EngineInv' /\ [Promise!Next]_(Promise!vars)
  <2>1. /\ stage \in {"validate", "output"} /\ stage' = "rejected" /\ outcome' = "rejected"
        /\ \E callback \in {"validate", "output"} : ran' = Append(ran, callback)
        /\ UNCHANGED <<options, response, notified>>
    BY <1>2 DEF Validate, ValidateOutput, GoTo, Calls
  <2>2. ran' \in Seq(Callbacks) /\ resolved' = resolved
    BY <2>1, CallResolves DEF PipelineTypes, Callbacks, resolved
  <2>3. Promise!Settle("rejected")
    BY <2>1, <2>2 DEF PipelineTypes, PendingUntilDone, options, Promise!Settle, Promise!HookFor
  <2>4. EngineInv'
    BY <2>1, <2>2 DEF PipelineTypes, Stages, PendingUntilDone, ResolverOnce,
       ProductionHidesErrors, options
  <2> QED BY <2>3, <2>4 DEF Promise!Next
<1>3. ASSUME NEW verdict \in {"valid", "invalid"}, ValidateOutput(verdict)
      PROVE  EngineInv' /\ UNCHANGED Promise!vars
  <2>1. /\ stage = "output" /\ stage' = "answer" /\ UNCHANGED <<Rest, outcome>>
        /\ ran' = Append(ran, "output")
        /\ response' = Ok \/ response'.message # "internal"
    BY <1>3, Answers DEF ValidateOutput, Answer, Calls, Rest
  <2>2. ran' \in Seq(Callbacks) /\ resolved' = resolved
    BY <2>1, CallResolves DEF PipelineTypes, Callbacks, resolved
  <2>3. UNCHANGED Promise!vars
    BY <2>1, <2>2 DEF Rest, options, Promise!vars
  <2> QED BY <2>1, <2>2, <2>3, Answers
          DEF PipelineTypes, Stages, PendingUntilDone, ResolverOnce, ProductionHidesErrors, Rest,
          options
<1> QED BY <1>1, <1>2, <1>3 DEF Verdicts

(* Every step keeps the invariant and is a step or a stutter of Invocation. *)
LEMMA EngineGoes ==
    EngineInv /\ [EngineNext]_engineVars => EngineInv' /\ [Promise!Next]_(Promise!vars)
<1> SUFFICES ASSUME EngineInv, [EngineNext]_engineVars
      PROVE EngineInv' /\ [Promise!Next]_(Promise!vars)
    OBVIOUS
<1>1. CASE UNCHANGED engineVars
  <2>1. resolved' = resolved
    BY <1>1 DEF engineVars, resolved
  <2> QED BY <1>1, <2>1 DEF engineVars, options, EngineInv, PipelineTypes, PendingUntilDone,
          ResolverOnce, ProductionHidesErrors, Promise!vars
<1>2. ASSUME NEW does \in Resolves, Resolve(does)
      PROVE  EngineInv' /\ [Promise!Next]_(Promise!vars)
    BY <1>2, StepOfResolver DEF Promise!Next
<1> QED BY <1>1, <1>2, StepsBefore, StepsAfter DEF EngineNext, Verdicts

(* The inductive invariant holds in every reachable state.                  *)
THEOREM EngineInvariant == EngineSpec => []EngineInv
<1>1. QED BY EngineBegins, EngineGoes, PTL DEF EngineSpec

(* In production no answer carries the message of an unexpected error.      *)
THEOREM ErrorsAreHidden == EngineSpec => []ProductionHidesErrors
<1>1. QED BY EngineInvariant, PTL DEF EngineInv

(* The engine settles at most once, runs the resolver at most once,         *)
(* succeeds only if it ran, and tells the hooks the outcome it returns.     *)
THEOREM Implements == EngineSpec => ImplementsInvocation
<1>1. QED BY EngineBegins, EngineGoes, EngineInvariant, PTL
          DEF EngineSpec, ImplementsInvocation, Promise!Spec

-----------------------------------------------------------------------------
(* How many callbacks have run when a stage of the pipeline is over, and    *)
(* which one is the nth.                                                    *)
Hooked == IF hooks THEN 1 ELSE 0
Guarded == Hooked + 1 + cap.guards
Validated == Guarded + (IF cap.schema = "zod" THEN 1 ELSE 0)
Ready == Validated + cap.inputGuards
Whole == Ready + 1 + (IF cap.outputSchema /\ isDevelopment THEN 1 ELSE 0)
Place(n) == IF n <= Hooked THEN "onRequest"
            ELSE IF n <= Hooked + 1 THEN "context"
            ELSE IF n <= Guarded THEN "guard"
            ELSE IF n <= Validated THEN "validate"
            ELSE IF n <= Ready THEN "inputGuard"
            ELSE IF n <= Ready + 1 THEN "resolver"
            ELSE "output"

(* The numbers of callbacks are numbers, each at least the one before.      *)
LEMMA Counts ==
    ASSUME cap \in Capability
    PROVE  /\ Hooked \in Nat /\ Guarded \in Nat /\ Validated \in Nat /\ Ready \in Nat
             /\ Whole \in Nat
           /\ cap.guards \in Nat /\ cap.inputGuards \in Nat
           /\ Guarded = Hooked + 1 + cap.guards
           /\ Validated = Guarded \/ Validated = Guarded + 1
           /\ cap.schema = "zod" => Validated = Guarded + 1
           /\ cap.schema # "zod" => Validated = Guarded
           /\ Ready = Validated + cap.inputGuards
           /\ cap.outputSchema /\ isDevelopment => Whole = Ready + 2
           /\ ~(cap.outputSchema /\ isDevelopment) => Whole = Ready + 1
           /\ Hooked < Guarded /\ Guarded <= Validated /\ Validated <= Ready /\ Ready < Whole
<1>1. cap.guards \in Nat /\ cap.inputGuards \in Nat
    BY EngineAssumption DEF Capability
<1>2. Hooked \in Nat
    BY DEF Hooked
<1>3. Guarded \in Nat /\ Guarded = Hooked + 1 + cap.guards
    BY <1>1, <1>2 DEF Guarded
<1>4. /\ Validated \in Nat /\ (Validated = Guarded \/ Validated = Guarded + 1)
      /\ cap.schema = "zod" => Validated = Guarded + 1
      /\ cap.schema # "zod" => Validated = Guarded
    BY <1>3 DEF Validated
<1>5. Ready \in Nat /\ Ready = Validated + cap.inputGuards
    BY <1>1, <1>4 DEF Ready
<1>6. /\ Whole \in Nat
      /\ cap.outputSchema /\ isDevelopment => Whole = Ready + 2
      /\ ~(cap.outputSchema /\ isDevelopment) => Whole = Ready + 1
    BY <1>5 DEF Whole
<1>7. Hooked < Guarded /\ Guarded <= Validated /\ Validated <= Ready /\ Ready < Whole
    BY <1>1, <1>2, <1>3, <1>4, <1>5, <1>6
<1> QED BY <1>1, <1>2, <1>3, <1>4, <1>5, <1>6, <1>7

(* A run of one callback after what comes before it.                        *)
LEMMA Joined ==
    ASSUME NEW T, NEW s \in Seq(T), NEW t \in Seq(T), NEW c, \A n \in 1 .. Len(t) : t[n] = c
    PROVE  /\ s \o t \in Seq(T) /\ Len(s \o t) = Len(s) + Len(t)
           /\ \A n \in 1 .. Len(s) + Len(t) : (s \o t)[n] = IF n <= Len(s) THEN s[n] ELSE c
<1>1. Len(s) \in Nat /\ Len(t) \in Nat
    OBVIOUS
<1>2. \A n \in 1 .. Len(s) + Len(t) : n <= Len(s) \/ n - Len(s) \in 1 .. Len(t)
    BY <1>1
<1> QED BY <1>1, <1>2, ConcatProperties

LEMMA Once ==
    ASSUME NEW T, NEW c \in T
    PROVE  <<c>> \in Seq(T) /\ Len(<<c>>) = 1 /\ \A n \in 1 .. Len(<<c>>) : <<c>>[n] = c
OBVIOUS

LEMMA Never ==
    ASSUME NEW T, NEW c
    PROVE  <<>> \in Seq(T) /\ Len(<<>>) = 0 /\ \A n \in 1 .. Len(<<>>) : <<>>[n] = c
OBVIOUS

LEMMA Repeated ==
    ASSUME NEW T, NEW c \in T, NEW m \in Nat
    PROVE  /\ [i \in 1 .. m |-> c] \in Seq(T) /\ Len([i \in 1 .. m |-> c]) = m
           /\ \A n \in 1 .. Len([i \in 1 .. m |-> c]) : [i \in 1 .. m |-> c][n] = c
<1>1. [i \in 1 .. m |-> c] \in Seq(T) /\ Len([i \in 1 .. m |-> c]) = m
    OBVIOUS
<1> QED BY <1>1

(* Pipeline is the sequence of the places.                                  *)
LEMMA PipelinePlaces ==
    ASSUME cap \in Capability
    PROVE  /\ Pipeline \in Seq(Callbacks) /\ Len(Pipeline) = Whole
           /\ \A n \in 1 .. Whole : Pipeline[n] = Place(n)
<1> DEFINE C == Callbacks
           p1 == IF hooks THEN <<"onRequest">> ELSE <<>>
           p2 == <<"context">>
           p3 == [i \in 1 .. cap.guards |-> "guard"]
           p4 == IF cap.schema = "zod" THEN <<"validate">> ELSE <<>>
           p5 == [i \in 1 .. cap.inputGuards |-> "inputGuard"]
           p6 == <<"resolver">>
           p7 == IF cap.outputSchema /\ isDevelopment THEN <<"output">> ELSE <<>>
           q2 == p1 \o p2
           q3 == q2 \o p3
           q4 == q3 \o p4
           q5 == q4 \o p5
           q6 == q5 \o p6
           q7 == q6 \o p7
<1>1. /\ "onRequest" \in C /\ "context" \in C /\ "guard" \in C /\ "validate" \in C
      /\ "inputGuard" \in C /\ "resolver" \in C /\ "output" \in C
    BY DEF Callbacks
<1> HIDE DEF C
<1>2. p1 \in Seq(C) /\ Len(p1) = Hooked /\ \A n \in 1 .. Len(p1) : p1[n] = "onRequest"
  <2>1. CASE hooks
    BY <1>1, <2>1, Once DEF Hooked
  <2>2. CASE ~hooks
    BY <2>2, Never DEF Hooked
  <2> QED BY <2>1, <2>2
<1>3. p2 \in Seq(C) /\ Len(p2) = 1 /\ \A n \in 1 .. Len(p2) : p2[n] = "context"
    BY <1>1, Once
<1>4. p3 \in Seq(C) /\ Len(p3) = cap.guards /\ \A n \in 1 .. Len(p3) : p3[n] = "guard"
    BY <1>1, Repeated, Counts
<1>5. p4 \in Seq(C) /\ Validated = Guarded + Len(p4) /\ \A n \in 1 .. Len(p4) : p4[n] = "validate"
  <2>1. CASE cap.schema = "zod"
    <3>1. Validated = Guarded + 1
      BY <2>1, Counts
    <3> QED BY <1>1, <2>1, <3>1, Once
  <2>2. CASE cap.schema # "zod"
    <3>1. Validated = Guarded /\ Guarded \in Nat
      BY <2>2, Counts
    <3> QED BY <2>2, <3>1, Never
  <2> QED BY <2>1, <2>2
<1>6. p5 \in Seq(C) /\ Len(p5) = cap.inputGuards /\ \A n \in 1 .. Len(p5) : p5[n] = "inputGuard"
    BY <1>1, Repeated, Counts
<1>7. p6 \in Seq(C) /\ Len(p6) = 1 /\ \A n \in 1 .. Len(p6) : p6[n] = "resolver"
    BY <1>1, Once
<1>8. p7 \in Seq(C) /\ Whole = Ready + 1 + Len(p7) /\ \A n \in 1 .. Len(p7) : p7[n] = "output"
  <2>1. CASE cap.outputSchema /\ isDevelopment
    <3>1. Whole = Ready + 1 + 1
      BY <2>1, Counts
    <3> QED BY <1>1, <2>1, <3>1, Once
  <2>2. CASE ~(cap.outputSchema /\ isDevelopment)
    <3>1. Whole = Ready + 1 + 0
      BY <2>2, Counts
    <3> QED BY <2>2, <3>1, Never
  <2> QED BY <2>1, <2>2
<1>9. Pipeline = q7
    BY DEF Pipeline
<1> HIDE DEF p1, p2, p3, p4, p5, p6, p7
<1>10. /\ Hooked \in Nat /\ Guarded \in Nat /\ Validated \in Nat /\ Ready \in Nat /\ Whole \in Nat
       /\ Guarded = Hooked + 1 + Len(p3) /\ Ready = Validated + Len(p5)
       /\ Hooked < Guarded /\ Guarded <= Validated /\ Validated <= Ready /\ Ready < Whole
    BY <1>4, <1>6, Counts
<1>11. /\ q2 \in Seq(C) /\ Len(q2) = Hooked + 1
       /\ \A n \in 1 .. Hooked + 1 : q2[n] = IF n <= Hooked THEN p1[n] ELSE "context"
  <2>1. p1 \in Seq(C) /\ p2 \in Seq(C) /\ \A n \in 1 .. Len(p2) : p2[n] = "context"
    BY <1>2, <1>3
  <2>2. /\ q2 \in Seq(C) /\ Len(q2) = Len(p1) + Len(p2)
        /\ \A n \in 1 .. Len(p1) + Len(p2) : q2[n] = IF n <= Len(p1) THEN p1[n] ELSE "context"
    BY <2>1, Joined
  <2> QED BY <1>2, <1>3, <2>2
<1> HIDE DEF q2
<1>12. /\ q3 \in Seq(C) /\ Len(q3) = Guarded
       /\ \A n \in 1 .. Guarded : q3[n] = IF n <= Hooked + 1 THEN q2[n] ELSE "guard"
  <2>1. q2 \in Seq(C) /\ p3 \in Seq(C) /\ \A n \in 1 .. Len(p3) : p3[n] = "guard"
    BY <1>4, <1>10, <1>11
  <2>2. /\ q3 \in Seq(C) /\ Len(q3) = Len(q2) + Len(p3)
        /\ \A n \in 1 .. Len(q2) + Len(p3) : q3[n] = IF n <= Len(q2) THEN q2[n] ELSE "guard"
    BY <2>1, Joined
  <2> QED BY <1>4, <1>10, <1>11, <2>2
<1> HIDE DEF q3
<1>13. /\ q4 \in Seq(C) /\ Len(q4) = Validated
       /\ \A n \in 1 .. Validated : q4[n] = IF n <= Guarded THEN q3[n] ELSE "validate"
  <2>1. /\ q4 \in Seq(C) /\ Len(q4) = Len(q3) + Len(p4)
        /\ \A n \in 1 .. Len(q3) + Len(p4) : q4[n] = IF n <= Len(q3) THEN q3[n] ELSE "validate"
    BY <1>5, <1>12, Joined
  <2> QED BY <1>5, <1>12, <2>1
<1> HIDE DEF q4
<1>14. /\ q5 \in Seq(C) /\ Len(q5) = Ready
       /\ \A n \in 1 .. Ready : q5[n] = IF n <= Validated THEN q4[n] ELSE "inputGuard"
  <2>1. q4 \in Seq(C) /\ p5 \in Seq(C) /\ \A n \in 1 .. Len(p5) : p5[n] = "inputGuard"
    BY <1>6, <1>10, <1>13
  <2>2. /\ q5 \in Seq(C) /\ Len(q5) = Len(q4) + Len(p5)
        /\ \A n \in 1 .. Len(q4) + Len(p5) : q5[n] = IF n <= Len(q4) THEN q4[n] ELSE "inputGuard"
    BY <2>1, Joined
  <2> QED BY <1>6, <1>10, <1>13, <2>2
<1> HIDE DEF q5
<1>15. /\ q6 \in Seq(C) /\ Len(q6) = Ready + 1
       /\ \A n \in 1 .. Ready + 1 : q6[n] = IF n <= Ready THEN q5[n] ELSE "resolver"
  <2>1. q5 \in Seq(C) /\ p6 \in Seq(C) /\ \A n \in 1 .. Len(p6) : p6[n] = "resolver"
    BY <1>7, <1>14
  <2>2. /\ q6 \in Seq(C) /\ Len(q6) = Len(q5) + Len(p6)
        /\ \A n \in 1 .. Len(q5) + Len(p6) : q6[n] = IF n <= Len(q5) THEN q5[n] ELSE "resolver"
    BY <2>1, Joined
  <2> QED BY <1>7, <1>14, <2>2
<1> HIDE DEF q6
<1>16. /\ q7 \in Seq(C) /\ Len(q7) = Whole
       /\ \A n \in 1 .. Whole : q7[n] = IF n <= Ready + 1 THEN q6[n] ELSE "output"
  <2>1. /\ q7 \in Seq(C) /\ Len(q7) = Len(q6) + Len(p7)
        /\ \A n \in 1 .. Len(q6) + Len(p7) : q7[n] = IF n <= Len(q6) THEN q6[n] ELSE "output"
    BY <1>8, <1>15, Joined
  <2> QED BY <1>8, <1>15, <2>1
<1> HIDE DEF q7
<1>17. ASSUME NEW n \in 1 .. Whole PROVE q7[n] = Place(n)
  <2>1. n \in Nat /\ n > 0
    BY <1>10
  <2>2. n <= Ready + 1 => q7[n] = IF n <= Ready THEN q5[n] ELSE "resolver"
    BY <1>10, <1>15, <1>16, <2>1
  <2>3. n <= Ready => q5[n] = IF n <= Validated THEN q4[n] ELSE "inputGuard"
    BY <1>10, <1>14, <2>1
  <2>4. n <= Validated => q4[n] = IF n <= Guarded THEN q3[n] ELSE "validate"
    BY <1>10, <1>13, <2>1
  <2>5. n <= Guarded => q3[n] = IF n <= Hooked + 1 THEN q2[n] ELSE "guard"
    BY <1>10, <1>12, <2>1
  <2>6. n <= Hooked + 1 => q2[n] = IF n <= Hooked THEN "onRequest" ELSE "context"
    BY <1>2, <1>10, <1>11, <2>1
  <2> QED BY <1>10, <1>16, <2>1, <2>2, <2>3, <2>4, <2>5, <2>6 DEF Place
<1> QED BY <1>9, <1>16, <1>17 DEF C

(* The callbacks that have run are the first of the pipeline (InPlace), as  *)
(* many as the stage tells, and a success is answered when it is over.      *)
InPlace == Len(ran) <= Whole /\ \A n \in 1 .. Len(ran) : ran[n] = Place(n)

AtStage ==
    /\ cap \in Capability /\ passed \in Nat
    /\ stage = "lookup" => Len(ran) = 0
    /\ stage = "context" => Len(ran) = Hooked
    /\ stage = "guards" => passed <= cap.guards /\ Len(ran) = Hooked + 1 + passed
    /\ stage = "validate" => Len(ran) = Guarded
    /\ stage = "inputGuards" => passed <= cap.inputGuards /\ Len(ran) = Validated + passed
    /\ stage = "resolve" => Len(ran) = Ready
    /\ stage = "output" => Len(ran) = Ready + 1 /\ Whole = Ready + 2
    /\ stage \notin {"lookup", "answer", "done", "rejected"} => found
    /\ stage \notin {"answer", "done", "rejected"} => response # Ok
    /\ response = Ok => found /\ Len(ran) = Whole
    /\ outcome = "ok" => response = Ok

OnTrack == InPlace /\ AtStage

(* The capability and the options of a request do not change.               *)
SameRequest ==
    /\ Hooked' = Hooked /\ Guarded' = Guarded /\ Validated' = Validated
    /\ Ready' = Ready /\ Whole' = Whole /\ UNCHANGED <<hooks, isDevelopment, cap>>

LEMMA SamePlaces ==
    ASSUME UNCHANGED <<hooks, isDevelopment, cap>>
    PROVE  SameRequest /\ \A n \in Nat : Place(n)' = Place(n)
BY DEF SameRequest, Hooked, Guarded, Validated, Ready, Whole, Place

(* No callback is called.                                                   *)
LEMMA Stay ==
    ASSUME PipelineTypes, OnTrack, UNCHANGED <<hooks, isDevelopment, cap, ran>>
    PROVE  SameRequest /\ InPlace'
<1>1. Len(ran) \in Nat /\ \A n \in 1 .. Len(ran) : n \in Nat
    BY DEF PipelineTypes
<1> QED BY <1>1, SamePlaces DEF OnTrack, InPlace, SameRequest

(* The next callback of the pipeline is called.                             *)
LEMMA Advance ==
    ASSUME PipelineTypes, OnTrack, UNCHANGED <<hooks, isDevelopment, cap>>,
           NEW callback \in Callbacks, Calls(callback),
           Len(ran) < Whole, Place(Len(ran) + 1) = callback
    PROVE  SameRequest /\ InPlace' /\ Len(ran') = Len(ran) + 1
<1>1. ran \in Seq(Callbacks) /\ ran' = Append(ran, callback)
    BY DEF PipelineTypes, Calls
<1>2. /\ Len(ran) \in Nat /\ Len(ran') = Len(ran) + 1
      /\ \A n \in 1 .. Len(ran) : ran'[n] = ran[n]
      /\ ran'[Len(ran) + 1] = callback
    BY <1>1
<1>3. \A n \in 1 .. Len(ran') : n \in Nat /\ (n \in 1 .. Len(ran) \/ n = Len(ran) + 1)
    BY <1>2
<1>4. \A n \in 1 .. Len(ran) : ran[n] = Place(n)
    BY DEF OnTrack, InPlace
<1>5. \A n \in 1 .. Len(ran') : ran'[n] = Place(n)
    BY <1>2, <1>3, <1>4
<1>6. Whole \in Nat
    BY Counts DEF OnTrack, AtStage
<1>7. Len(ran') <= Whole
    BY <1>2, <1>6
<1> QED BY <1>2, <1>3, <1>5, <1>7, SamePlaces DEF InPlace, SameRequest

(* The callback of each place.                                              *)
LEMMA PlacesAre ==
    ASSUME cap \in Capability
    PROVE  /\ Hooked = 1 => Place(1) = "onRequest"
           /\ Place(Hooked + 1) = "context"
           /\ \A n \in 0 .. cap.guards - 1 : Place((Hooked + 1 + n) + 1) = "guard"
           /\ cap.schema = "zod" => Place(Guarded + 1) = "validate"
           /\ \A n \in 0 .. cap.inputGuards - 1 : Place((Validated + n) + 1) = "inputGuard"
           /\ Place(Ready + 1) = "resolver"
           /\ Place((Ready + 1) + 1) = "output"
BY Counts DEF Place

(* A request that has not begun is on track.                                *)
LEMMA OnTrackBegins == EngineInit => OnTrack
<1> SUFFICES ASSUME EngineInit PROVE OnTrack
    OBVIOUS
<1>1. ran = <<>> /\ Len(ran) = 0 /\ cap \in Capability
    BY DEF EngineInit
<1>2. InPlace
  <2>1. Whole \in Nat
    BY <1>1, Counts
  <2> QED BY <1>1, <2>1 DEF InPlace
<1>3. AtStage
    BY <1>1, Answers DEF EngineInit, AtStage
<1> QED BY <1>2, <1>3 DEF OnTrack

(* Every step keeps a request on track.                                     *)
LEMMA OnTrackGoes == EngineInv /\ OnTrack /\ [EngineNext]_engineVars => OnTrack'
<1> SUFFICES ASSUME EngineInv, OnTrack, [EngineNext]_engineVars PROVE OnTrack'
    OBVIOUS
<1>1. /\ PipelineTypes /\ AtStage /\ Len(ran) \in Nat
      /\ stage \notin {"done", "rejected"} => outcome # "ok"
    BY DEF EngineInv, PipelineTypes, PendingUntilDone, OnTrack
<1>2. cap \in Capability
    BY <1>1 DEF AtStage
<1>3. /\ Hooked \in Nat /\ Guarded \in Nat /\ Validated \in Nat /\ Ready \in Nat /\ Whole \in Nat
      /\ cap.guards \in Nat /\ cap.inputGuards \in Nat
      /\ Guarded = Hooked + 1 + cap.guards
      /\ cap.schema = "zod" => Validated = Guarded + 1
      /\ cap.schema # "zod" => Validated = Guarded
      /\ Ready = Validated + cap.inputGuards
      /\ cap.outputSchema /\ isDevelopment => Whole = Ready + 2
      /\ ~(cap.outputSchema /\ isDevelopment) => Whole = Ready + 1
      /\ Hooked < Guarded /\ Guarded <= Validated /\ Validated <= Ready /\ Ready < Whole
    BY <1>2, Counts
<1>4. CASE UNCHANGED engineVars
  <2>1. SameRequest /\ InPlace'
    BY <1>1, <1>4, Stay DEF engineVars, options
  <2> QED BY <1>1, <1>4, <2>1 DEF engineVars, options, OnTrack, AtStage, SameRequest
<1>5. CASE Lookup
  <2>1. /\ stage = "lookup" /\ UNCHANGED <<hooks, isDevelopment, cap, found, outcome>>
        /\ \/ stage' = "context" /\ found /\ response' = response
           \/ stage' = "answer" /\ response' # Ok
        /\ passed' = 0 /\ Len(ran) = 0
    BY <1>1, <1>5, Answers DEF Lookup, GoTo, Answer, Rest, options, AtStage
  <2>2. CASE hooks
    <3>1. Hooked = 1 /\ Calls("onRequest") /\ Place(Len(ran) + 1) = "onRequest"
      BY <1>2, <1>5, <2>1, <2>2, PlacesAre DEF Lookup, Calls, Hooked
    <3>2. SameRequest /\ InPlace' /\ Len(ran') = Len(ran) + 1
      BY <1>1, <1>3, <2>1, <3>1, Advance DEF Callbacks
    <3> QED BY <1>1, <2>1, <3>1, <3>2 DEF OnTrack, AtStage, SameRequest
  <2>3. CASE ~hooks
    <3>1. Hooked = 0 /\ ran' = ran
      BY <1>5, <2>3 DEF Lookup, Hooked
    <3>2. SameRequest /\ InPlace'
      BY <1>1, <2>1, <3>1, Stay
    <3> QED BY <1>1, <2>1, <3>1, <3>2 DEF OnTrack, AtStage, SameRequest
  <2> QED BY <2>2, <2>3
<1>6. CASE GuardsDone \/ SkipValidation \/ InputGuardsDone
  <2>1. /\ UNCHANGED <<hooks, isDevelopment, cap, found, outcome, response, ran>> /\ passed' = 0
        /\ \/ stage = "guards" /\ passed = cap.guards /\ stage' = "validate"
           \/ stage = "validate" /\ cap.schema # "zod" /\ stage' = "inputGuards"
           \/ stage = "inputGuards" /\ passed = cap.inputGuards /\ stage' = "resolve"
    BY <1>6 DEF GuardsDone, SkipValidation, InputGuardsDone, GoTo, Rest, options
  <2>2. SameRequest /\ InPlace'
    BY <1>1, <2>1, Stay
  <2>3. /\ stage' = "validate" => Len(ran') = Guarded'
        /\ stage' = "inputGuards" => Len(ran') = Validated' + passed' /\ passed' <= cap'.inputGuards
        /\ stage' = "resolve" => Len(ran') = Ready'
    BY <1>1, <1>3, <2>1, <2>2, SMTT(30) DEF AtStage, SameRequest
  <2> QED BY <1>1, <2>1, <2>2, <2>3, SMTT(30) DEF OnTrack, AtStage, SameRequest
<1>7. CASE Settle
  <2>1. SameRequest /\ InPlace'
    BY <1>1, <1>7, Stay DEF Settle, options
  <2> QED BY <1>1, <1>7, <2>1 DEF Settle, options, OnTrack, AtStage, SameRequest
<1>8. ASSUME NEW does \in Does, BuildContext(does) PROVE OnTrack'
  <2>1. /\ stage = "context" /\ UNCHANGED <<hooks, isDevelopment, cap, found, outcome>>
        /\ \/ stage' = "guards" /\ response' = response
           \/ stage' = "answer" /\ response' # Ok
        /\ passed' = 0 /\ Calls("context")
    <3> USE <1>8 DEF BuildContext, GoTo, Answer, Rest, options
    <3>1. CASE does = "return"
      BY <3>1
    <3>2. CASE does = "framework"
      BY <3>2, Answers DEF Raised
    <3>3. CASE does = "unexpected"
      BY <3>3, Answers
    <3> QED BY <3>1, <3>2, <3>3 DEF Does, Raised
  <2>2. Len(ran) = Hooked
    BY <1>1, <2>1 DEF AtStage
  <2>3. Place(Len(ran) + 1) = "context" /\ Len(ran) < Whole
    BY <1>2, <1>3, <2>2, PlacesAre
  <2>4. SameRequest /\ InPlace' /\ Len(ran') = Len(ran) + 1
    BY <1>1, <2>1, <2>3, Advance DEF Callbacks
  <2>5. Len(ran') = Hooked' + 1 + passed' /\ passed' <= cap'.guards /\ passed' \in Nat
    BY <1>3, <2>1, <2>2, <2>4 DEF SameRequest
  <2> QED BY <1>1, <2>1, <2>4, <2>5 DEF OnTrack, AtStage, SameRequest
<1>9. ASSUME NEW does \in Does, Guard(does) PROVE OnTrack'
  <2>1. /\ stage = "guards" /\ passed < cap.guards /\ Calls("guard")
        /\ UNCHANGED <<hooks, isDevelopment, cap, found, outcome>>
        /\ \/ passed' = passed + 1 /\ UNCHANGED <<stage, response>>
           \/ passed' = 0 /\ stage' = "answer" /\ response' # Ok
    BY <1>9, Answers DEF Guard, Answer, Rest, options
  <2>2. Len(ran) = Hooked + 1 + passed /\ passed \in Nat
    BY <1>1, <2>1 DEF AtStage
  <2>3. passed \in 0 .. cap.guards - 1 /\ Len(ran) < Whole
    BY <1>3, <2>1, <2>2
  <2>4. Place(Len(ran) + 1) = "guard"
    BY <1>2, <2>2, <2>3, PlacesAre
  <2>5. SameRequest /\ InPlace' /\ Len(ran') = Len(ran) + 1
    BY <1>1, <2>1, <2>3, <2>4, Advance DEF Callbacks
  <2>6. /\ stage' = "guards" => Len(ran') = Hooked' + 1 + passed' /\ passed' <= cap'.guards
        /\ passed' \in Nat
    <3>1. Hooked' = Hooked /\ cap'.guards = cap.guards
      BY <2>5 DEF SameRequest
    <3>2. CASE passed' = passed + 1
      <4>1. Len(ran') = Hooked + 1 + passed'
        BY <1>3, <2>2, <2>5, <3>2
      <4>2. passed' <= cap.guards /\ passed' \in Nat
        BY <1>3, <2>3, <3>2
      <4> QED BY <3>1, <4>1, <4>2
    <3>3. CASE passed' = 0 /\ stage' = "answer"
      BY <3>3
    <3> QED BY <2>1, <3>2, <3>3
  <2>7. found /\ response # Ok /\ outcome # "ok"
    BY <1>1, <2>1 DEF AtStage
  <2> QED BY <1>1, <2>1, <2>5, <2>6, <2>7 DEF OnTrack, AtStage, SameRequest
<1>10. ASSUME NEW does \in Does, InputGuard(does) PROVE OnTrack'
  <2>1. /\ stage = "inputGuards" /\ passed < cap.inputGuards /\ Calls("inputGuard")
        /\ UNCHANGED <<hooks, isDevelopment, cap, found, outcome>>
        /\ \/ passed' = passed + 1 /\ UNCHANGED <<stage, response>>
           \/ passed' = 0 /\ stage' = "answer" /\ response' # Ok
    BY <1>10, Answers DEF InputGuard, Answer, Rest, options
  <2>2. Len(ran) = Validated + passed /\ passed \in Nat
    BY <1>1, <2>1 DEF AtStage
  <2>3. passed \in 0 .. cap.inputGuards - 1 /\ Len(ran) < Whole
    BY <1>3, <2>1, <2>2
  <2>4. Place(Len(ran) + 1) = "inputGuard"
    BY <1>2, <2>2, <2>3, PlacesAre
  <2>5. SameRequest /\ InPlace' /\ Len(ran') = Len(ran) + 1
    BY <1>1, <2>1, <2>3, <2>4, Advance DEF Callbacks
  <2>6. /\ stage' = "inputGuards" => Len(ran') = Validated' + passed' /\ passed' <= cap'.inputGuards
        /\ passed' \in Nat
    <3>1. Validated' = Validated /\ cap'.inputGuards = cap.inputGuards
      BY <2>5 DEF SameRequest
    <3>2. CASE passed' = passed + 1
      <4>1. Len(ran') = Validated + passed'
        BY <1>3, <2>2, <2>5, <3>2
      <4>2. passed' <= cap.inputGuards /\ passed' \in Nat
        BY <1>3, <2>3, <3>2
      <4> QED BY <3>1, <4>1, <4>2
    <3>3. CASE passed' = 0 /\ stage' = "answer"
      BY <3>3
    <3> QED BY <2>1, <3>2, <3>3
  <2>7. found /\ response # Ok /\ outcome # "ok"
    BY <1>1, <2>1 DEF AtStage
  <2> QED BY <1>1, <2>1, <2>5, <2>6, <2>7 DEF OnTrack, AtStage, SameRequest
<1>11. ASSUME NEW verdict \in Verdicts, Validate(verdict) PROVE OnTrack'
  <2>1. /\ stage = "validate" /\ cap.schema = "zod" /\ Calls("validate") /\ passed' = 0
        /\ UNCHANGED <<hooks, isDevelopment, cap, found>>
        /\ \/ stage' = "inputGuards" /\ UNCHANGED <<response, outcome>>
           \/ stage' = "answer" /\ response' # Ok /\ outcome' = outcome
           \/ stage' = "rejected" /\ response' = response /\ outcome' = "rejected"
    <3> USE <1>11 DEF Validate, GoTo, Answer, options
    <3>1. CASE verdict = "valid"
      BY <3>1
    <3>2. CASE verdict = "invalid"
      BY <3>2, Answers
    <3>3. CASE verdict = "throws"
      BY <3>3
    <3> QED BY <3>1, <3>2, <3>3 DEF Verdicts
  <2>2. Len(ran) = Guarded /\ found /\ response # Ok /\ outcome # "ok"
    BY <1>1, <2>1 DEF AtStage
  <2>3. Place(Len(ran) + 1) = "validate" /\ Len(ran) < Whole
    BY <1>2, <1>3, <2>1, <2>2, PlacesAre
  <2>4. SameRequest /\ InPlace' /\ Len(ran') = Len(ran) + 1
    BY <1>1, <2>1, <2>3, Advance DEF Callbacks
  <2>5. Len(ran') = Validated' + passed' /\ passed' <= cap'.inputGuards /\ passed' \in Nat
    BY <1>3, <2>1, <2>2, <2>4 DEF SameRequest
  <2> QED BY <1>1, <2>1, <2>2, <2>4, <2>5 DEF OnTrack, AtStage, SameRequest
<1>12. ASSUME NEW does \in Resolves, Resolve(does) PROVE OnTrack'
  <2>1. /\ stage = "resolve" /\ Calls("resolver") /\ passed' = 0
        /\ UNCHANGED <<hooks, isDevelopment, cap, found, outcome>>
        /\ \/ stage' = "output" /\ cap.outputSchema /\ isDevelopment /\ response' = response
           \/ stage' = "answer" /\ ~(cap.outputSchema /\ isDevelopment) /\ response' = Ok
           \/ stage' = "answer" /\ response' # Ok
    <3> USE <1>12 DEF Resolve, GoTo, Answer, Rest, options, Raised
    <3>1. CASE does \in Raised
      BY <3>1, Answers
    <3>2. CASE does = "stream" \/ does = "undefined"
      BY <3>2, Answers
    <3>3. CASE does \in {"value", "null"}
      BY <3>3
    <3> QED BY <3>1, <3>2, <3>3 DEF Resolves
  <2>2. Len(ran) = Ready /\ found /\ response # Ok /\ outcome # "ok"
    BY <1>1, <2>1 DEF AtStage
  <2>3. Place(Len(ran) + 1) = "resolver" /\ Len(ran) < Whole
    BY <1>2, <1>3, <2>2, PlacesAre
  <2>4. SameRequest /\ InPlace' /\ Len(ran') = Len(ran) + 1
    BY <1>1, <2>1, <2>3, Advance DEF Callbacks
  <2>5. /\ stage' = "output" => Len(ran') = Ready' + 1 /\ Whole' = Ready' + 2
        /\ response' = Ok => Len(ran') = Whole'
    BY <1>3, <2>1, <2>2, <2>4 DEF SameRequest
  <2> QED BY <1>1, <2>1, <2>2, <2>4, <2>5 DEF OnTrack, AtStage, SameRequest
<1>13. ASSUME NEW verdict \in Verdicts, ValidateOutput(verdict) PROVE OnTrack'
  <2>1. /\ stage = "output" /\ Calls("output") /\ passed' = 0
        /\ UNCHANGED <<hooks, isDevelopment, cap, found>>
        /\ \/ stage' = "answer" /\ outcome' = outcome
           \/ stage' = "rejected" /\ response' = response /\ outcome' = "rejected"
    <3> USE <1>13 DEF ValidateOutput, GoTo, Answer, options
    <3>1. CASE verdict = "valid"
      BY <3>1
    <3>2. CASE verdict = "invalid"
      BY <3>2
    <3>3. CASE verdict = "throws"
      BY <3>3
    <3> QED BY <3>1, <3>2, <3>3 DEF Verdicts
  <2>2. Len(ran) = Ready + 1 /\ Whole = Ready + 2 /\ found /\ response # Ok /\ outcome # "ok"
    BY <1>1, <2>1 DEF AtStage
  <2>3. Place(Len(ran) + 1) = "output" /\ Len(ran) < Whole
    BY <1>2, <1>3, <2>2, PlacesAre
  <2>4. SameRequest /\ InPlace' /\ Len(ran') = Len(ran) + 1
    BY <1>1, <2>1, <2>3, Advance DEF Callbacks
  <2>5. Len(ran') = Whole'
    BY <1>3, <2>2, <2>4 DEF SameRequest
  <2> QED BY <1>1, <2>1, <2>2, <2>4, <2>5 DEF OnTrack, AtStage, SameRequest
<1> QED BY <1>4, <1>5, <1>6, <1>7, <1>8, <1>9, <1>10, <1>11, <1>12, <1>13 DEF EngineNext

(* Whatever fails where, the callbacks run in pipeline order, each at most  *)
(* once, and a request succeeds only if the whole pipeline ran.             *)
THEOREM PipelineIsInOrder == EngineSpec => []PipelineOrder
<1>1. ASSUME EngineInv, OnTrack PROVE PipelineOrder
  <2>1. /\ Pipeline \in Seq(Callbacks) /\ Len(Pipeline) = Whole /\ ran \in Seq(Callbacks)
        /\ Len(ran) <= Len(Pipeline)
        /\ \A n \in 1 .. Len(ran) : ran[n] = Pipeline[n]
    <3>1. cap \in Capability /\ ran \in Seq(Callbacks) /\ InPlace
      BY <1>1 DEF EngineInv, PipelineTypes, OnTrack, AtStage
    <3>2. /\ Pipeline \in Seq(Callbacks) /\ Len(Pipeline) = Whole
          /\ \A n \in 1 .. Whole : Pipeline[n] = Place(n)
      BY <3>1, PipelinePlaces
    <3>3. \A n \in 1 .. Len(ran) : n \in 1 .. Whole
      BY <3>1, <3>2 DEF InPlace
    <3> QED BY <3>1, <3>2, <3>3 DEF InPlace
  <2>2. IsPrefix(ran, Pipeline)
    <3> DEFINE n == Len(ran)
               s == SubSeq(ran, 1, n)
               t == SubSeq(Pipeline, 1, n)
    <3>1. n \in Nat /\ n <= Len(Pipeline) /\ Len(Pipeline) \in Nat
      BY <2>1
    <3>2. /\ s \in Seq(Callbacks) /\ Len(s) = n /\ \A i \in 1 .. n : s[i] = ran[i]
          /\ t \in Seq(Callbacks) /\ Len(t) = n /\ \A i \in 1 .. n : t[i] = Pipeline[i]
      BY <2>1, <3>1
    <3> HIDE DEF s, t
    <3>3. s = t
      BY <2>1, <3>2, SeqEqual
    <3> QED BY <3>1, <3>3 DEF IsPrefix, s, t
  <2>3. ASSUME outcome = "ok" PROVE found /\ ran = Pipeline
    <3>1. found /\ Len(ran) = Len(Pipeline)
      BY <1>1, <2>1, <2>3 DEF OnTrack, AtStage
    <3> QED BY <2>1, <3>1, SeqEqual
  <2> QED BY <2>2, <2>3 DEF PipelineOrder
<1>2. EngineSpec => []OnTrack
    BY OnTrackBegins, OnTrackGoes, EngineInvariant, PTL DEF EngineSpec
<1> QED BY <1>1, <1>2, EngineInvariant, PTL
=============================================================================
