--------------------------- MODULE ExecutionEngine --------------------------
(***************************************************************************)
(* createExecutionEngine of packages/core/src/execution-engine.ts: one      *)
(* request through the pipeline                                             *)
(*   lookup, buildContext, guards, validation, input guards, resolver,      *)
(*   checks of the output, outcome hook                                     *)
(* for every shape of capability.  The engine keeps no state between        *)
(* requests, so one request is the whole of it; each action is the code     *)
(* from one await to the next.  What application code does (return, throw   *)
(* a FrameworkError, throw anything else) is a choice of the action.        *)
(***************************************************************************)
EXTENDS Naturals, Sequences, SequencesExt

CONSTANT MaxGuards  \* bound: guards and input guards of a capability

ASSUME EngineAssumption == MaxGuards \in Nat

(* A registered capability, as far as the pipeline can tell; `schema` is    *)
(* "empty" for z.object({}), whose validation is skipped.                   *)
Capability == [guards : 0 .. MaxGuards, inputGuards : 0 .. MaxGuards,
               schema : {"none", "empty", "zod"}, outputSchema : BOOLEAN]

(* What a callback of the application does.                                 *)
Raised == {"framework", "unexpected"}

VARIABLES
    hooks,          \* options.hooks is given
    isDevelopment,  \* options.isDevelopment
    found,     \* registry.get(req.capability) !== undefined
    cap,       \* the capability
    stage,     \* what the pipeline does next
    passed,    \* guards or input guards passed in this stage
    response,  \* status, and where the message or data comes from
    outcome,   \* of the promise: "pending" | "ok" | "error" | "rejected"
    notified,  \* the outcome hook that fired
    ran        \* history: the callbacks of the application, in order

options == <<hooks, isDevelopment>>
engineVars == <<options, found, cap, stage, passed, response, outcome, notified, ran>>

NoResponse == [status |-> "none", message |-> "none"]
Ok == [status |-> "200", message |-> "data"]
Failure(status, message) == [status |-> status, message |-> message]

EngineInit ==
    /\ hooks \in BOOLEAN /\ isDevelopment \in BOOLEAN
    /\ found \in BOOLEAN
    /\ cap \in Capability
    /\ stage = "lookup"
    /\ passed = 0
    /\ response = NoResponse
    /\ outcome = "pending"
    /\ notified = "none"
    /\ ran = <<>>

-----------------------------------------------------------------------------
\* Mutant: production answers with the message of the unexpected error.
ToErrorResponseLeaks(err) ==
    IF err = "framework" THEN Failure("app", "app")
                         ELSE Failure("500", "internal")

(* toErrorResponse: a FrameworkError speaks for itself; of anything else    *)
(* only development tells the message.                                      *)
ToErrorResponse(err) ==
    IF err = "framework" THEN Failure("app", "app")
    ELSE Failure("500", IF isDevelopment THEN "internal" ELSE "generic")

Calls(callback) == ran' = Append(ran, callback)

GoTo(s) == stage' = s /\ passed' = 0 /\ UNCHANGED response

Answer(r) == stage' = "answer" /\ passed' = 0 /\ response' = r

Rest == <<options, found, cap, outcome, notified>>

\* The hook onRequest fires first; what it throws is caught and logged.
Lookup ==
    /\ stage = "lookup"
    /\ ran' = IF hooks THEN Append(ran, "onRequest") ELSE ran
    /\ IF found THEN GoTo("context") ELSE Answer(Failure("404", "notFound"))
    /\ UNCHANGED Rest

BuildContext(does) ==
    /\ stage = "context"
    /\ Calls("context")
    /\ CASE does = "return" -> GoTo("guards")
         [] does = "framework" -> Answer(ToErrorResponse(does))
         [] does = "unexpected" -> Answer(Failure("500", "context"))
    /\ UNCHANGED Rest

Guard(does) ==
    /\ stage = "guards" /\ passed < cap.guards
    /\ Calls("guard")
    /\ IF does \in Raised
       THEN Answer(ToErrorResponse(does))
       ELSE passed' = passed + 1 /\ UNCHANGED <<stage, response>>
    /\ UNCHANGED Rest

\* Mutant: the pipeline goes on while guards are left.
GuardsDoneEarly ==
    /\ stage = "guards"
    /\ GoTo("validate")
    /\ UNCHANGED <<Rest, ran>>

GuardsDone ==
    /\ stage = "guards" /\ passed = cap.guards
    /\ GoTo("validate")
    /\ UNCHANGED <<Rest, ran>>

(* safeParse, or safeParseAsync if that throws.  An exception out of        *)
(* safeParseAsync (a refinement or transform that throws) is not caught:    *)
(* the promise of invoke rejects.                                           *)
Validate(verdict) ==
    /\ stage = "validate" /\ cap.schema = "zod"
    /\ Calls("validate")
    /\ CASE verdict = "valid" -> GoTo("inputGuards") /\ UNCHANGED outcome
         [] verdict = "invalid" -> Answer(Failure("400", "issues")) /\ UNCHANGED outcome
         [] verdict = "throws" -> GoTo("rejected") /\ outcome' = "rejected"
    /\ UNCHANGED <<options, found, cap, notified>>

SkipValidation ==
    /\ stage = "validate" /\ cap.schema # "zod"
    /\ GoTo("inputGuards")
    /\ UNCHANGED <<Rest, ran>>

InputGuard(does) ==
    /\ stage = "inputGuards" /\ passed < cap.inputGuards
    /\ Calls("inputGuard")
    /\ IF does \in Raised
       THEN Answer(ToErrorResponse(does))
       ELSE passed' = passed + 1 /\ UNCHANGED <<stage, response>>
    /\ UNCHANGED Rest

InputGuardsDone ==
    /\ stage = "inputGuards" /\ passed = cap.inputGuards
    /\ GoTo("resolve")
    /\ UNCHANGED <<Rest, ran>>

Resolve(does) ==
    /\ stage = "resolve"
    /\ Calls("resolver")
    /\ CASE does \in Raised -> Answer(ToErrorResponse(does))
         [] does = "stream" -> Answer(Failure("500", "stream"))
         [] does = "undefined" -> Answer(Failure("500", "undefined"))
         [] does \in {"value", "null"} ->
                IF cap.outputSchema /\ isDevelopment THEN GoTo("output") ELSE Answer(Ok)
    /\ UNCHANGED Rest

ValidateOutput(verdict) ==
    /\ stage = "output"
    /\ Calls("output")
    /\ CASE verdict = "valid" -> Answer(Ok) /\ UNCHANGED outcome
         [] verdict = "invalid" -> Answer(Failure("500", "output")) /\ UNCHANGED outcome
         [] verdict = "throws" -> GoTo("rejected") /\ outcome' = "rejected"
    /\ UNCHANGED <<options, found, cap, notified>>

\* Mutant: onResponse fires whatever the outcome.
SettleAsResponse ==
    /\ stage = "answer"
    /\ stage' = "done"
    /\ outcome' = IF response = Ok THEN "ok" ELSE "error"
    /\ notified' = IF hooks THEN "onResponse" ELSE "none"
    /\ UNCHANGED <<options, found, cap, passed, response, ran>>

\* The outcome hook fires, its errors caught, and the promise resolves.
Settle ==
    /\ stage = "answer"
    /\ stage' = "done"
    /\ outcome' = IF response = Ok THEN "ok" ELSE "error"
    /\ notified' = CASE ~hooks -> "none"
                     [] hooks /\ response = Ok -> "onResponse"
                     [] hooks /\ response # Ok -> "onError"
    /\ UNCHANGED <<options, found, cap, passed, response, ran>>

Does == {"return"} \union Raised
Resolves == {"value", "null", "undefined", "stream"} \union Raised
Verdicts == {"valid", "invalid", "throws"}

EngineNext ==
    \/ Lookup \/ GuardsDone \/ SkipValidation \/ InputGuardsDone \/ Settle
    \/ \E does \in Does : BuildContext(does) \/ Guard(does) \/ InputGuard(does)
    \/ \E does \in Resolves : Resolve(does)
    \/ \E verdict \in Verdicts : Validate(verdict) \/ ValidateOutput(verdict)

EngineSpec == EngineInit /\ [][EngineNext]_engineVars

-----------------------------------------------------------------------------
(* What a request that passes everything runs, in order.                    *)
Pipeline ==
    (IF hooks THEN <<"onRequest">> ELSE <<>>)
    \o <<"context">>
    \o [i \in 1 .. cap.guards |-> "guard"]
    \o (IF cap.schema = "zod" THEN <<"validate">> ELSE <<>>)
    \o [i \in 1 .. cap.inputGuards |-> "inputGuard"]
    \o <<"resolver">>
    \o (IF cap.outputSchema /\ isDevelopment THEN <<"output">> ELSE <<>>)

(* Every variable has its type.                                             *)
EngineTypes ==
    /\ hooks \in BOOLEAN /\ isDevelopment \in BOOLEAN /\ found \in BOOLEAN
    /\ cap \in Capability
    /\ stage \in {"lookup", "context", "guards", "validate", "inputGuards",
                  "resolve", "output", "answer", "done", "rejected"}
    /\ passed \in 0 .. MaxGuards
    /\ response \in [status : {"none", "200", "400", "404", "500", "app"},
                    message : STRING]
    /\ outcome \in {"pending", "ok", "error", "rejected"}
    /\ notified \in {"none", "onResponse", "onError"}
    /\ ran \in Seq({"onRequest", "context", "guard", "validate", "inputGuard",
                    "resolver", "output"})

(* Whatever fails where, the callbacks of the application run in pipeline   *)
(* order and each at most once: the resolver never runs before every guard, *)
(* the validation and every input guard have passed.  A request succeeds    *)
(* only if the whole pipeline ran: a failure is never answered as success.  *)
PipelineOrder ==
    /\ IsPrefix(ran, Pipeline)
    /\ outcome = "ok" => found /\ ran = Pipeline

(* In production no answer carries the message of an unexpected error.      *)
ProductionHidesErrors ==
    ~isDevelopment /\ response # NoResponse => response.message # "internal"

(* The engine keeps the promise the transports rely on.                     *)
resolved == "resolver" \in ToSet(ran)
Promise == INSTANCE Invocation
ImplementsInvocation == Promise!Spec
=============================================================================
