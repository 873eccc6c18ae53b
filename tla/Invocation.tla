----------------------------- MODULE Invocation -----------------------------
(***************************************************************************)
(* What the execution engine promises a transport about one invocation: it  *)
(* settles at most once, succeeds only if the resolver ran, runs the        *)
(* resolver at most once, and tells the lifecycle hooks the outcome it      *)
(* returns.  ExecutionEngine implements this specification, and             *)
(* the transports' modules are written against it.                          *)
(***************************************************************************)
VARIABLES
    hooks,     \* whether ExecutionEngineOptions.hooks is given
    outcome,   \* "pending" | "ok" | "error" | "rejected"
    resolved,  \* the resolver has been called
    notified   \* the outcome hook fired: "none" | "onResponse" | "onError"

vars == <<hooks, outcome, resolved, notified>>

Init ==
    /\ hooks \in BOOLEAN
    /\ outcome = "pending" /\ resolved = FALSE /\ notified = "none"

Resolve ==
    /\ outcome = "pending" /\ ~resolved
    /\ resolved' = TRUE
    /\ UNCHANGED <<hooks, outcome, notified>>

HookFor(o) == CASE hooks /\ o = "ok" -> "onResponse"
                [] hooks /\ o = "error" -> "onError"
                [] ~hooks \/ o = "rejected" -> "none"

Settle(o) ==
    /\ outcome = "pending"
    /\ o = "ok" => resolved
    /\ outcome' = o
    /\ notified' = HookFor(o)
    /\ UNCHANGED <<hooks, resolved>>

Next == Resolve \/ \E o \in {"ok", "error", "rejected"} : Settle(o)

Spec == Init /\ [][Next]_vars
=============================================================================
