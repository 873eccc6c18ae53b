------------------------------ MODULE Rollback ------------------------------
(***************************************************************************)
(* withRollback of packages/core/src/enhancers.ts around withTimeout and    *)
(* withRetry: one invocation of a capability enhanced with one of           *)
(*     withRollback                                                         *)
(*     withRetry, then withRollback                                         *)
(*     withTimeout, then withRollback                                       *)
(*     withTimeout, then withRetry, then withRollback  (timer "attempt")    *)
(*     withRetry, then withTimeout, then withRollback  (timer "loop")       *)
(*                                                                          *)
(* All attempts of the resolver push on the one array `rollbacks`.  A       *)
(* timeout settles the race and cancels nothing: the resolver, and with     *)
(* timer "loop" the retry loop too, run on while the rollbacks run, and     *)
(* the for-of loop over the live array sees what they push.                 *)
(***************************************************************************)
EXTENDS Naturals, Sequences, SequencesExt

CONSTANTS
    MaxAttempts,  \* withRetry's maxAttempts
    MaxSteps      \* bound: how many rollbacks the resolver registers in all

ASSUME BoundsAssumption == MaxAttempts \in Nat \ {0} /\ MaxSteps \in Nat

Stacks == [attempts : {1, MaxAttempts}, timer : {"none", "attempt", "loop"}]

VARIABLES
    stack,      \* the enhancers around the resolver
    resolver,   \* "running" | "backoff" (withRetry's delay) | "ended"
    attempt,    \* withRetry's loop variable
    timedOut,   \* the timer has settled the race
    rollbacks,  \* the array, of the numbers of the registrations in it
    next,       \* position of the for-of loop, 0 before it starts
    answer,     \* what the caller has got: "pending" | "ok" | "error"
    failedAt,   \* history: registrations made when the loop started
    undone      \* history: the rollbacks called, in order

rollbackVars == <<stack, resolver, attempt, timedOut, rollbacks, next, answer,
          failedAt, undone>>

RollbackInit ==
    /\ stack \in Stacks
    /\ resolver = "running"
    /\ attempt = 1
    /\ timedOut = FALSE
    /\ rollbacks = <<>>
    /\ next = 0
    /\ answer = "pending"
    /\ failedAt = 0
    /\ undone = <<>>

-----------------------------------------------------------------------------
(* Mutant: the rollbacks run in registration order.                         *)
StartRollbackForwards ==
    /\ next' = 1
    /\ failedAt' = Len(rollbacks)
    /\ UNCHANGED rollbacks

\* The inner promise rejected: `for (const rollback of rollbacks.reverse())`.
StartRollback ==
    /\ next' = 1
    /\ failedAt' = Len(rollbacks)
    /\ rollbacks' = Reverse(rollbacks)

(* The resolver registers a compensation: ctx.onRollback(fn).               *)
Register ==
    /\ resolver = "running"
    /\ Len(rollbacks) < MaxSteps
    /\ rollbacks' = Append(rollbacks, Len(rollbacks) + 1)
    /\ UNCHANGED <<stack, resolver, attempt, timedOut, next, answer, failedAt, undone>>

Return ==
    /\ resolver = "running"
    /\ resolver' = "ended"
    /\ answer' = IF timedOut THEN answer ELSE "ok"
    /\ UNCHANGED <<stack, attempt, timedOut, rollbacks, next, failedAt, undone>>

\* withRetry's loop is over once the timeout of an attempt has rejected it.
LoopOver == timedOut /\ stack.timer = "attempt"

MayRetry(framework) == ~framework /\ ~LoopOver /\ attempt < stack.attempts

Throw(framework) ==
    /\ resolver = "running"
    /\ IF MayRetry(framework)
       THEN resolver' = "backoff" /\ UNCHANGED <<rollbacks, next, failedAt>>
       ELSE /\ resolver' = "ended"
            /\ IF timedOut THEN UNCHANGED <<rollbacks, next, failedAt>>
                           ELSE StartRollback
    /\ UNCHANGED <<stack, attempt, timedOut, answer, undone>>

NextAttempt ==
    /\ resolver = "backoff"
    /\ resolver' = "running"
    /\ attempt' = attempt + 1
    /\ UNCHANGED <<stack, timedOut, rollbacks, next, answer, failedAt, undone>>

\* Mutant: the timer covers only the first attempt's run, not the delays.
TimeoutSkipsDelays ==
    /\ stack.timer # "none" /\ attempt = 1 /\ resolver = "running"
    /\ answer = "pending" /\ next = 0
    /\ timedOut' = TRUE
    /\ StartRollback
    /\ UNCHANGED <<stack, resolver, attempt, answer, undone>>

(* withTimeout's timer fires: there is one per attempt, or one for the loop. *)
Timeout ==
    /\ \/ stack.timer = "attempt" /\ resolver = "running"
       \/ stack.timer = "loop"
    /\ answer = "pending" /\ next = 0
    /\ timedOut' = TRUE
    /\ StartRollback
    /\ UNCHANGED <<stack, resolver, attempt, answer, undone>>

\* Mutant: no try/catch around the rollback.
UndoOrGiveUp(throws) ==
    /\ answer = "pending" /\ next \in DOMAIN rollbacks
    /\ undone' = Append(undone, rollbacks[next])
    /\ next' = next + 1
    /\ answer' = IF throws THEN "error" ELSE answer
    /\ UNCHANGED <<stack, resolver, attempt, timedOut, rollbacks, failedAt>>

(* The loop calls the next rollback and awaits it; what it throws is logged. *)
Undo(throws) ==
    /\ answer = "pending" /\ next \in DOMAIN rollbacks
    /\ undone' = Append(undone, rollbacks[next])
    /\ next' = next + 1
    /\ UNCHANGED <<stack, resolver, attempt, timedOut, rollbacks, answer, failedAt>>

Rethrow ==
    /\ answer = "pending" /\ next > Len(rollbacks)
    /\ answer' = "error"
    /\ UNCHANGED <<stack, resolver, attempt, timedOut, rollbacks, next, failedAt, undone>>

RollbackNext ==
    \/ Register \/ Return \/ NextAttempt \/ Timeout \/ Rethrow
    \/ \E b \in BOOLEAN : Throw(b) \/ Undo(b)

RollbackSpec == RollbackInit /\ [][RollbackNext]_rollbackVars

(* Timers fire and awaited rollbacks settle; the resolver may hang for ever. *)
RollbackFairSpec ==
    /\ RollbackSpec
    /\ WF_rollbackVars(Timeout) /\ WF_rollbackVars(NextAttempt) /\ WF_rollbackVars(Rethrow)
    /\ WF_rollbackVars(\E b \in BOOLEAN : Undo(b))

-----------------------------------------------------------------------------
(* Types; attempts stay within maxAttempts, the loop within the array.      *)
RollbackTypes ==
    /\ stack \in Stacks
    /\ resolver \in {"running", "backoff", "ended"}
    /\ attempt \in 1 .. stack.attempts
    /\ timedOut \in BOOLEAN
    /\ rollbacks \in Seq(1 .. MaxSteps) /\ Len(rollbacks) <= MaxSteps
    /\ next \in 0 .. Len(rollbacks) + 1
    /\ answer \in {"pending", "ok", "error"}
    /\ failedAt \in 0 .. Len(rollbacks)
    /\ undone \in Seq(1 .. MaxSteps)

(* What was registered before the failure is undone newest first and before *)
(* anything a resolver still running registers later, and nothing is ever   *)
(* undone twice.                                                            *)
NewestFirst ==
    \A i \in DOMAIN undone :
        undone[i] = IF i <= failedAt THEN failedAt + 1 - i ELSE i

(* The caller sees the error only after every rollback registered before    *)
(* the failure has been called, whichever of them threw; without a timer    *)
(* that is every rollback there is, of every attempt.                       *)
Compensated ==
    answer = "error" =>
        /\ 1 .. failedAt \subseteq ToSet(undone)
        /\ stack.timer = "none" => ToSet(undone) = 1 .. Len(rollbacks)

(* An invocation that answers with a result has undone nothing, even if     *)
(* some of its attempts failed.                                             *)
NoUndoOnSuccess == answer = "ok" => undone = <<>>

(* A timer outside the resolver makes the caller's answer certain, even     *)
(* when the resolver hangs; its rollbacks run first.                        *)
Answered == stack.timer # "none" => <>(answer # "pending")
=============================================================================
