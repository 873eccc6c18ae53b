------------------------------ MODULE Outcomes ------------------------------
(***************************************************************************)
(* What a run of a capability ends in, for its caller and for the layers    *)
(* around its resolver: errors.ts, the enhancers that record an outcome,    *)
(* and the credentials that plugin auth reads.                              *)
(*                                                                          *)
(* A header is [name, value], its value the words that spaces separate, and *)
(* the headers of a request are the sequence that the caller sends.         *)
(***************************************************************************)
EXTENDS Registry, Filters

CONSTANTS
    Lower,       \* a word with capitals: the word without
    LiveTokens   \* the tokens of a user that JwtVerifier accepts

-----------------------------------------------------------------------------
(* errors.ts: the brand, and not its shape, makes a framework error.        *)
DefineError(status) == [status |-> status, branded |-> TRUE]
IsFrameworkError(err) == err.branded

DefaultErrors ==
    [BadRequest |-> DefineError(400), Unauthorized |-> DefineError(401),
     Forbidden |-> DefineError(403), NotFound |-> DefineError(404)]

\* What else is thrown: the caller is told 500.
Unexpected == [status |-> 500, branded |-> FALSE]
NoError == [status |-> 200, branded |-> FALSE]

Thrown(step) ==
    CASE step = "validate" -> DefaultErrors.BadRequest
      [] step = "mustBeAuthenticated" -> DefaultErrors.Unauthorized
      [] step \in Caps \union Resumptions -> Unexpected
      [] OTHER -> DefaultErrors.Forbidden

-----------------------------------------------------------------------------
(* The layers that record: each one rethrows what it saw.                   *)
Layers == {"withLogging", "withMetrics", "loggingEnhancer"}

Record(layer, level) == [by |-> layer, level |-> level]

WithLogging(err) == Record("withLogging", IF err = NoError THEN "info" ELSE "error")
WithMetrics(err) == Record("withMetrics", IF err = NoError THEN "success" ELSE "error")

\* A framework error is an answer like any other; only a bug is an error.
LoggingEnhancer(err) ==
    Record("loggingEnhancer", IF err = NoError \/ IsFrameworkError(err) THEN "info" ELSE "error")

RecordOf(layer, err) ==
    CASE layer = "withLogging" -> WithLogging(err)
      [] layer = "withMetrics" -> WithMetrics(err)
      [] layer = "loggingEnhancer" -> LoggingEnhancer(err)

\* A resolver that goes on after its await finds the layers in there done: a
\* run as far as those that still wait.
Waiting(ran) == Run(ran, {c \in Caps : Def[c].resumes = Last(ran)})

\* A layer waits for what it wraps, so the innermost records first.
Records(ran, err) ==
    LET entered == Reverse(Only(ran, Layers))
        done == Len(entered) - Len(Only(Waiting(ran), Layers))
    IN  [i \in DOMAIN entered |-> RecordOf(entered[i], IF i <= done THEN NoError ELSE err)]

-----------------------------------------------------------------------------
(* Headers, as a transport hands them to the engine: names with a value.    *)
LowerCase(word) == IF word \in DOMAIN Lower THEN Lower[word] ELSE word

Named(headers, name) == Only(headers, {h \in ToSet(headers) : LowerCase(h.name) = name})
Names(headers) == {LowerCase(headers[i].name) : i \in DOMAIN headers}

\* Node's req.headers (external) keep the first of several authorizations.
NodeHeaders(headers) == [name \in Names(headers) |-> Head(Named(headers, name)).value]

\* testServer hands on the headers as they are given.
GivenHeaders(headers) ==
    [name \in {headers[i].name : i \in DOMAIN headers} |->
        Last(Only(headers, {h \in ToSet(headers) : h.name = name})).value]

\* The WebSocket transport goes over rawHeaders itself: the last one stays.
UpgradeHeaders(headers) == [name \in Names(headers) |-> Last(Named(headers, name)).value]

NoToken == ""
ExtractBearerToken(headers) ==
    LET name == IF "authorization" \in DOMAIN headers THEN "authorization" ELSE "Authorization"
    IN  IF name \in DOMAIN headers /\ Len(headers[name]) >= 2 /\ LowerCase(headers[name][1]) = "bearer"
        THEN headers[name][2] ELSE NoToken

HasToken(headers) == ExtractBearerToken(headers) \in LiveTokens \ {NoToken}

\* The context that the application builds: by jwtContextBuilder, or without a user.
BuildContext(builder, headers) == [user |-> builder = "jwt" /\ HasToken(headers)]

\* The context extension of plugin auth sets ctx.user; others leave it alone.
Extend(plugin, ctx, headers) == IF plugin = "auth" THEN [ctx EXCEPT !.user = HasToken(headers)] ELSE ctx

\* wrapContext: the extensions of the plugins, one after the other.
WrapContext(builder, plugins, headers) ==
    LET ctx[i \in 0 .. Len(plugins)] ==
            IF i = 0 THEN BuildContext(builder, headers) ELSE Extend(plugins[i], ctx[i - 1], headers)
    IN  ctx[Len(plugins)]

RejectedBy(ctx) == IF ctx.user THEN {} ELSE {"mustBeAuthenticated"}
=============================================================================
