------------------------------ MODULE Delivery ------------------------------
(***************************************************************************)
(* What a queue adapter promises the producer of a job: the job leaves the  *)
(* queue only after a run of its capability that succeeded; where a run is  *)
(* final, after a run; or, where a job has attempts, when it has used them  *)
(* up, or when too many of its runs were cut short.  A body that is no job  *)
(* is thrown away.  JobQueue implements this specification.                 *)
(***************************************************************************)
EXTENDS Naturals

CONSTANTS Msg, Malformed, Attempts, MaxStalledCount

VARIABLES
    policy,      \* "requeue": a failed job stays | "final" | "attempts"
    accepted,    \* jobs the queue has taken on
    completed,   \* jobs with a run that succeeded
    tries,       \* per job with attempts: the runs that ended
    interrupted, \* per job with attempts: the runs that never will
    settled      \* jobs that have left the queue for good

vars == <<policy, accepted, completed, tries, interrupted, settled>>

Init ==
    /\ policy \in {"requeue", "final", "attempts"}
    /\ accepted = {} /\ completed = {} /\ settled = {}
    /\ tries = [m \in Msg |-> 0] /\ interrupted = [m \in Msg |-> 0]

Accept(m) ==
    /\ m \notin accepted
    /\ accepted' = accepted \union {m}
    /\ UNCHANGED <<policy, completed, tries, interrupted, settled>>

\* The policy takes the n-th run that ended for the last one.
Ends(n, ok) == policy = "final" \/ (policy = "attempts" /\ (ok \/ n >= Attempts))

Run(m, ok) ==
    /\ m \in accepted \ Malformed
    /\ completed' = IF ok THEN completed \union {m} ELSE completed
    /\ tries' = IF policy = "attempts" THEN [tries EXCEPT ![m] = @ + 1] ELSE tries
    /\ settled' = IF Ends(tries'[m], ok) THEN settled \union {m} ELSE settled
    /\ UNCHANGED <<policy, accepted, interrupted>>

\* The workers of some jobs die.
Interrupt(S) ==
    /\ policy = "attempts" /\ S \subseteq accepted
    /\ interrupted' = [m \in Msg |-> interrupted[m] + IF m \in S THEN 1 ELSE 0]
    /\ UNCHANGED <<policy, accepted, completed, tries, settled>>

Hopeless(m) == policy = "attempts" /\ interrupted[m] > MaxStalledCount

Settle(m) ==
    /\ m \in accepted /\ (m \in completed \union Malformed \/ Hopeless(m))
    /\ settled' = settled \union {m}
    /\ UNCHANGED <<policy, accepted, completed, tries, interrupted>>

Next ==
    \/ \E m \in Msg : Accept(m) \/ Settle(m) \/ \E ok \in BOOLEAN : Run(m, ok)
    \/ \E S \in SUBSET Msg : Interrupt(S)

Spec == Init /\ [][Next]_vars
=============================================================================
