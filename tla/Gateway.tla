------------------------------ MODULE Gateway -------------------------------
(***************************************************************************)
(* A capability tree that is declared, compiled and mounted on the REST,    *)
(* GraphQL, MCP and WebSocket transports, and the calls that reach it.      *)
(*                                                                          *)
(* A call is one step: what it awaits is in ExecutionEngine and             *)
(* HttpTransport.  Guards and resolvers that reject are chosen per call.    *)
(***************************************************************************)
EXTENDS Payloads, Outcomes

CONSTANTS
    MaxCaps,    \* capabilities of the tree
    ChainOps,   \* per capability that the builder goes on with: what it chains, [chain, step]
    MaxSteps,   \* capabilities and chained calls together
    Options,    \* of the transports: [urlCase, overrides, multipart, sets, playground],
                \* and of the server: builder, plugins (context extensions)
    Headers,    \* the headers of a call
    Credentials, \* some of them, for calls that a guard or a resolver rejects
    Args,       \* per capability: arguments of its input type
    Requests    \* requests of other HTTP clients, with their origin and headers

Intents == {"query", "mutation", "update", "replace", "delete"}

Ops == UNION {ChainOps[c] : c \in DOMAIN ChainOps}

\* Names are dot paths of keys; a capability composes at most one, whose value
\* must exist by then, so that no chain of them comes round; an override has a
\* path, and no hook sets the header that is left to CORS.  Callers are typed,
\* no field is a prototype, an empty token is none, and lower case has no
\* capitals.
ASSUME GatewayAssumption ==
    /\ ({"none", "validate", "mustBeAuthenticated"} \union Layers) \intersect Caps = {}
    /\ Resumptions \intersect (Caps \union Layers \union {"none", "validate", "mustBeAuthenticated"}
                                    \union {op.step : op \in Ops}) = {}
    /\ \A c, d \in Caps : Def[c].resumes = Def[d].resumes => c = d \/ Def[c].calls = "none"
    /\ \A c, d \in Caps : Def[c].name = Def[d].name => c = d
    /\ \A c \in Caps : /\ Def[c].name \in Seq(Seq(Token)) \ {<<>>}
                       /\ Def[c].intent \in Intents \union {"inferred"}
                       /\ Def[c].calls \in Caps \union {"none"} /\ Def[c].resumes \in Token
                       /\ "__proto__" \notin DOMAIN InputShape(c)
                       /\ \A args \in Args[c] : Typed(c, args)
    /\ \A loop \in SUBSET Caps \ {{}} : \E c \in loop : Def[c].calls \notin loop
    /\ DOMAIN ChainOps \subseteq Caps
    /\ Ops \subseteq [chain : {"guard", "inputGuard", "enhance", "output"}, step : Token]
    /\ \A hump \in DOMAIN Undoes : Undoes[hump] \in Token
    /\ \A o \in Options :
          /\ o.urlCase \in Token /\ o.plugins \in Seq(Token)
          /\ \A c \in DOMAIN o.overrides : o.overrides[c].path \in Seq(Segment)
          /\ \A i \in DOMAIN o.sets : "Access-Control-Allow-Origin" \notin o.sets[i].hook
    /\ \A request \in Requests : request.path \in Seq(Token) /\ "?" \notin ToSet(request.path)
    /\ Headers \union Credentials \union {request.headers : request \in Requests}
          \subseteq Seq([name : Token, value : Seq(Token)])
    /\ NoToken \notin LiveTokens
    /\ "Authorization" \in DOMAIN Lower /\ \A word \in DOMAIN Lower : Lower[word] \notin DOMAIN Lower

VARIABLES
    phase,     \* "declaring" | "up" | "refused": createServer or start threw
    tree,      \* the capabilities declared
    script,    \* history: what was chained, per capability
    options,   \* of the transports, <<>> before they are mounted
    registry, routes,
    call       \* the latest call and its answer

vars == <<phase, tree, script, options, registry, routes, call>>

NoCall == [surface |-> "none"]

Init ==
    /\ phase = "declaring"
    /\ tree = <<>> /\ script = <<>> /\ options = <<>>
    /\ registry = <<>> /\ routes = {}
    /\ call = NoCall

-----------------------------------------------------------------------------
(* Declaration                                                              *)
GuardOp(g) == [chain |-> "guard", step |-> g]

Added(f, x, value) == [y \in DOMAIN f \union {x} |-> IF y = x THEN value ELSE f[y]]

Steps == Cardinality(DOMAIN tree) + FoldFunction(LAMBDA ops, n : Len(ops) + n, 0, script)

\* capability(...), or capability.guard(g)(...) with the guard first.
Declare(c, guards) ==
    /\ phase = "declaring" /\ c \notin DOMAIN tree
    /\ Cardinality(DOMAIN tree) < MaxCaps /\ Steps + Len(guards) < MaxSteps
    /\ Def[c].calls = "none" \/ Def[c].calls \in DOMAIN tree
    /\ tree' = Added(tree, c, Capability(guards, Resolver(c, tree)))
    /\ script' = Added(script, c, [i \in DOMAIN guards |-> GuardOp(guards[i])])
    /\ UNCHANGED <<phase, options, registry, routes, call>>

\* The value that another capability composes is final.
ChainOn(c, op) ==
    /\ phase = "declaring" /\ c \in DOMAIN tree
    /\ Steps < MaxSteps /\ op \notin ToSet(script[c])
    /\ \A d \in DOMAIN tree : Def[d].calls # c
    /\ tree' = [tree EXCEPT ![c] = Chain(@, op)]
    /\ script' = [script EXCEPT ![c] = Append(@, op)]
    /\ UNCHANGED <<phase, options, registry, routes, call>>

\* createServer and start: the registry, then the routes and their tree.
Mount(o) ==
    /\ phase = "declaring" /\ DOMAIN tree # {}
    /\ options' = o
    /\ registry' = CompileRegistry(tree)
    /\ routes' = GenerateRoutes(DOMAIN tree, o.urlCase, o.overrides)
    /\ phase' = IF Collides(tree) \/ InvalidKeys(tree) \/ RouterRefuses(routes') THEN "refused" ELSE "up"
    /\ UNCHANGED <<tree, script, call>>

-----------------------------------------------------------------------------
(* cors(), helmet() and mergeHooks()                                        *)
CorsHeaders == {"Access-Control-Allow-Methods", "Access-Control-Allow-Headers"}
AllowOrigin == "Access-Control-Allow-Origin"

\* "*", like any single origin, is fixed; a list is asked per request.
Cors(origins) == [cors |-> <<origins>>, hook |-> IF origins = {"*"} THEN {} ELSE {"Vary"}]
Helmet(headers) == [cors |-> <<>>, hook |-> headers]

MergeHooks(sets) ==
    LET defined == Only(sets, {set \in ToSet(sets) : set.cors # <<>>})
    IN  [origins |-> IF defined = <<>> THEN {"*"} ELSE Head(Last(defined).cors),
         hooks |-> UNION {sets[i].hook : i \in DOMAIN sets}]

Merged == MergeHooks(options.sets)
Dynamic == Merged.origins # {"*"}

\* What handleRequest sets before it looks at the request any further.
SetAtOnce(origin) ==
    Merged.hooks \union IF ~Dynamic THEN {} ELSE
        CorsHeaders \union IF origin \in Merged.origins THEN {AllowOrigin} ELSE {}

\* Mutant: the empty answers go without the prepared headers.
PreparedForJson(status) == IF Dynamic \/ status = 204 THEN {} ELSE CorsHeaders \union {AllowOrigin}

\* The headers prepared for a fixed origin, in each writeHead.
Prepared(status) == IF Dynamic THEN {} ELSE CorsHeaders \union {AllowOrigin}

Written(status) ==
    Prepared(status) \union (IF status = 204 THEN {} ELSE {"Content-Type"})
        \union (IF status = 405 THEN {"Allow"} ELSE {})

-----------------------------------------------------------------------------
(* The answers: status, the capability that ran, its run, what it saw, what  *)
(* the layers recorded, the data that the caller gets, the match of the      *)
(* router, the headers.                                                     *)
NoAnswer == [status |-> 404, by |-> "none", ran |-> <<>>, seen |-> Nothing, records |-> <<>>,
             data |-> "none", match |-> NotFound, headers |-> {}]
Failed(status) == [NoAnswer EXCEPT !.status = status]
Refusal(err) == Failed(err.status)

\* The response: what was thrown, or the data.
Response(c, input, ran, err) ==
    LET answer == [NoAnswer EXCEPT !.by = c, !.ran = ran, !.status = err.status, !.records = Records(ran, err)]
    IN  IF err # NoError THEN answer
        ELSE [answer EXCEPT !.seen = Seen(c, input), !.data = IF Def[c].returns = "null" THEN "null" ELSE "everything"]

Ended(c, input, ran, stops) ==
    Response(c, input, ran, IF Last(ran) \in stops THEN Thrown(Last(ran)) ELSE NoError)

Stops(c, input, ctx, rejecting) ==
    rejecting \union RejectedBy(ctx) \union IF Valid(c, input) THEN {} ELSE {"validate"}

\* invoke of the execution engine, with the context built for the request.
Pass(c, input, stops) == Ended(c, input, Run(Pipeline(registry[c]), stops), stops)
Invoke(c, input, ctx, rejecting) ==
    IF c \notin DOMAIN registry THEN Refusal(DefaultErrors.NotFound)
    ELSE Pass(c, input, Stops(c, input, ctx, rejecting))

\* The context of a request over a transport of the server.
Context(headers) == WrapContext(options.builder, options.plugins, headers)

\* The matched request: its body, the invocation, and the response of it.
Respond(cap, answer) ==
    IF answer.data = "null" THEN [answer EXCEPT !.status = 204]
    ELSE IF answer.status = 200 THEN [answer EXCEPT !.data = Serialize(registry[cap])]
    ELSE answer

Finish(request, match, body, ctx, rejecting) ==
    IF body.status # 200 THEN Failed(body.status)
    ELSE Respond(match.cap, Invoke(match.cap, RestInput(request, match, body.input), ctx, rejecting))

\* handleRequest, after its look into the tree.
Dispatch(request, match, headers, rejecting) ==
    IF request.method = "OPTIONS" THEN Failed(204)
    ELSE CASE match.found = "found" ->
                 Finish(request, match, ReadBody(request, match.cap, options.multipart),
                        Context(NodeHeaders(headers)), rejecting)
           [] match.found = "malformed" -> Failed(400)
           [] match.found = "denied" -> Failed(405)
           [] OTHER -> Failed(404)

Sent(answer, match, origin) ==
    [answer EXCEPT !.match = match, !.headers = SetAtOnce(origin) \union Written(answer.status)]

Handled(request, match, origin, headers, rejecting) ==
    Sent(Dispatch(request, match, headers, rejecting), match, origin)
Rest(request, origin, headers, rejecting) ==
    Handled(request, Match(routes, request.method, request.path), origin, headers, rejecting)

RouteOf(c, table) == CHOOSE r \in table : r.cap = c

\* The generated client is written for kebab case, sends no credentials, and
\* reads JSON out of a 204.
ClientRoute(c) == RouteOf(c, GenerateRoutes(DOMAIN registry, "kebab", options.overrides))
ReadAsJson(answer) == IF answer.status = 204 THEN [answer EXCEPT !.data = "thrown"] ELSE answer
Client(c, args, rejecting) == ReadAsJson(Rest(ClientRequest(ClientRoute(c), args), "none", <<>>, rejecting))

\* The operation of an id in the document, which was given the options of the
\* transport and so lists its routes.
Operation(c) == CHOOSE r \in routes : ToolName[r.cap] = ToolName[c]
OpenApi(c, args, headers, rejecting) == Rest(OpenApiRequest(Operation(c), args), "none", headers, rejecting)

\* A document with the field of the tool name, under the root of its intent.
GqlField(c) == {d \in DOMAIN registry : ToolName[d] = ToolName[c] /\ IsQuery(d) = IsQuery(c)}
FieldValue(cap, answer) ==
    IF answer.data = "null" /\ GqlOutputNonNull(cap) THEN [answer EXCEPT !.data = "thrown"]
    ELSE IF answer.data = "everything" THEN [answer EXCEPT !.data = Serialize(cap)]
    ELSE answer
ResolveField(field, args, ctx, rejecting) ==
    IF GqlAccepts(field, args) THEN FieldValue(registry[field], Invoke(field, GqlArgs(field, args), ctx, rejecting))
    ELSE Failed(400)
GraphQL(c, args, headers, rejecting) ==
    IF GqlField(c) = {} THEN Failed(400)
    ELSE ResolveField(CHOOSE d \in GqlField(c) : TRUE, args, Context(NodeHeaders(headers)), rejecting)

\* httpHandler: the endpoint with or without a slash, the playground, no more.
GraphQLHandler(path, answer) ==
    CASE path \in {"own", "slash"} -> answer
      [] path = "playground" /\ options.playground -> [Failed(200) EXCEPT !.data = "page"]
      [] OTHER -> Failed(404)

\* tools/call, by the tool name; the text of an error result names the error.
ErrorResult(answer) == IF answer.status = 200 THEN answer ELSE [answer EXCEPT !.data = "isError"]
Tools(c) == {d \in DOMAIN registry : ToolName[d] = ToolName[c]}
CallTool(c, args, ctx, rejecting) ==
    IF Tools(c) = {} THEN Refusal(DefaultErrors.NotFound)
    ELSE Invoke(CHOOSE d \in Tools(c) : TRUE, args, ctx, rejecting)
Mcp(c, args, headers, rejecting) == ErrorResult(CallTool(c, args, Context(NodeHeaders(headers)), rejecting))

\* handler: a server of its own for each request to the endpoint.
McpHandler(path, answer) == IF path \in {"own", "slash"} THEN answer ELSE Failed(404)

\* A capability message, with the headers of the connection's upgrade.
Ws(c, args, headers, rejecting) == Invoke(c, args, Context(UpgradeHeaders(headers)), rejecting)

\* In development the engine validates the output; the layers have recorded.
ValidateOutput(c, answer) ==
    IF answer.status # 200 \/ registry[c].output = "none" THEN answer
    ELSE IF answer.data = "everything" THEN [answer EXCEPT !.data = "declared"]
    ELSE IF Wrapped(Outputs[registry[c].output], {"nullable"}) THEN answer
    ELSE [answer EXCEPT !.status = Unexpected.status, !.data = "none"]

\* testServer().call, and `capix call` without headers: in development, and
\* without plugins.
Direct(c, args, headers, rejecting) ==
    ValidateOutput(c, Invoke(c, args, BuildContext(options.builder, GivenHeaders(headers)), rejecting))

\* `capix check` of the capabilities file: its keys and its default routes; what
\* it warns of (names, missing schemas, placeholders) leaves its exit alone.
CheckFails(own) == InvalidKeys(Restrict(tree, own)) \/ RouterRefuses(GenerateRoutes(own, "kebab", <<>>))

-----------------------------------------------------------------------------
RejectNothing == {}
Plain == [headers |-> <<>>, rejecting |-> RejectNothing, path |-> "own"]

\* A guard or a resolver of the run that rejects, other than for its user.
Rejections(c) ==
    {[Plain EXCEPT !.rejecting = {step}] :
        step \in ToSet(Pipeline(registry[c])) \ (Layers \union {"validate", "mustBeAuthenticated"})}

\* Headers matter to a run with mustBeAuthenticated, the path to GraphQL and
\* MCP; rejections and paths are tried with one choice of arguments,
\* and paths with one capability.
With(headers, ways) == {[way EXCEPT !.headers = h] : way \in ways, h \in headers}
Ways(c, args) ==
    LET one == args = CHOOSE a \in Args[c] : TRUE
        rejections == IF one THEN Rejections(c) ELSE {}
        paths == IF one /\ c = CHOOSE d \in DOMAIN registry : TRUE
                 THEN {[Plain EXCEPT !.path = path] : path \in {"slash", "playground", "other"}}
                 ELSE {}
    IN  paths \union
        IF "mustBeAuthenticated" \notin ToSet(Pipeline(registry[c])) THEN {Plain} \union rejections
        ELSE With(Headers, {Plain}) \union With(Credentials, rejections)

\* A server that is up, between two calls.
Ready == phase = "up" /\ call = NoCall

Called(surface, c, args, way, answer) ==
    /\ call' = [surface |-> surface, cap |-> c, args |-> args, way |-> way, answer |-> answer]
    /\ UNCHANGED <<phase, tree, script, options, registry, routes>>

CallClient(c, args, way) ==
    /\ way.path = "own" /\ way.headers = <<>>
    /\ Called("client", c, args, way, Client(c, args, way.rejecting))
CallOpenApi(c, args, way) ==
    /\ way.path = "own"
    /\ Called("openapi", c, args, way, OpenApi(c, args, way.headers, way.rejecting))
CallGraphQL(c, args, way) ==
    Called("graphql", c, args, way, GraphQLHandler(way.path, GraphQL(c, args, way.headers, way.rejecting)))
CallMcp(c, args, way) ==
    Called("mcp", c, args, way, McpHandler(way.path, Mcp(c, args, way.headers, way.rejecting)))
CallWs(c, args, way) ==
    /\ way.path = "own"
    /\ Called("ws", c, args, way, Ws(c, args, way.headers, way.rejecting))
CallDirect(c, args, way) ==
    /\ way.path = "own"
    /\ Called("direct", c, args, way, Direct(c, args, way.headers, way.rejecting))

\* A name that the tree does not have, over the surfaces that take names.
CallUnknown(c) ==
    CallGraphQL(c, Nothing, Plain) \/ CallMcp(c, Nothing, Plain) \/ CallWs(c, Nothing, Plain) \/ CallDirect(c, Nothing, Plain)

\* Any request of any HTTP client, which nothing rejects but the context;
\* `args` keeps it.
HandleRequest(request) ==
    Called("http", "none", request, [Plain EXCEPT !.headers = request.headers],
           Rest(request, request.origin, request.headers, RejectNothing))

CapixCheck ==
    /\ phase # "declaring" /\ call = NoCall
    /\ LET own == DOMAIN tree \ Plugins(tree)
       IN  own # {} /\ call' = [surface |-> "check", way |-> Plain, exit |-> IF CheckFails(own) THEN 1 ELSE 0]
    /\ UNCHANGED <<phase, tree, script, options, registry, routes>>

\* The next call finds the server as it was.
Answered == call # NoCall /\ call' = NoCall /\ UNCHANGED <<phase, tree, script, options, registry, routes>>

Next ==
    \/ \E c \in Caps : Declare(c, <<>>)
    \/ \E c \in DOMAIN ChainOps : \E op \in ChainOps[c] :
          ChainOn(c, op) \/ (op.chain = "guard" /\ Declare(c, <<op.step>>))
    \/ \E o \in Options : Mount(o)
    \/ /\ Ready
       /\ \/ \E c \in DOMAIN registry : \E args \in Args[c] : \E way \in Ways(c, args) :
                \/ CallClient(c, args, way)
                \/ CallOpenApi(c, args, way)
                \/ CallGraphQL(c, args, way)
                \/ CallMcp(c, args, way)
                \/ CallWs(c, args, way)
                \/ CallDirect(c, args, way)
          \/ DOMAIN tree # Caps /\ CallUnknown(CHOOSE c \in Caps : c \notin DOMAIN tree)
          \/ \E request \in Requests : HandleRequest(request)
    \/ CapixCheck
    \/ Answered

Spec == Init /\ [][Next]_vars

-----------------------------------------------------------------------------
Calling == call.surface \notin {"none", "check"}
OverHttp == call.surface \in {"client", "openapi", "http"}

(* The radix tree answers as the table of routes does: among the routes     *)
(* that fit a URL the one with static segments first decides, between a     *)
(* capability with its parameters and a 405 with the methods it has; a URL  *)
(* that cannot be decoded where a parameter would take it is a 400.  And     *)
(* `capix check` passes exactly the trees that start, as far as it knows     *)
(* the server: without plugins, overrides or another case.                   *)
RoutesAgree ==
    /\ call.surface = "http" /\ call.args.method # "OPTIONS" =>
          call.answer.match = Reference(routes, call.args.method, call.args.path)
    /\ /\ call.surface = "check" /\ Plugins(tree) = {}
       /\ options.urlCase = "kebab" /\ DOMAIN options.overrides \intersect DOMAIN tree = {}
       => (call.exit = 0 <=> phase = "up")

\* A static route of the level answers for a path value that is its name.
Shadowed(r, args) ==
    \E s \in routes : \E i \in DOMAIN r.path \intersect DOMAIN s.path :
        IsParam(r.path[i]) /\ s.path[i] = PathText(args, ParamName(r.path[i]))

\* In a path and in a query a value is text: null is not, and a number or
\* boolean only where the schema asks for nothing else; a path needs its values,
\* and none of them a dot segment, escaped or not.
Textual(c, r, args) ==
    /\ \A f \in DOMAIN args :
          f \in PathParams(r) \/ ~HasBody(r) => args[f].type \in {"string", Kind(InputShape(c)[f])}
    /\ \A f \in PathParams(r) \intersect DOMAIN InputShape(c) :
          f \in DOMAIN args /\ args[f].text # <<>> /\ args[f].text \notin DotSegments

\* The static segments of the paths have nothing that a URL treats specially,
\* and a request by OPTIONS is a preflight, whatever route an override gives it.
Marks == Special \ {"+"}
Addressable(r) ==
    /\ \A s \in routes : \A i \in DOMAIN s.path :
          \/ IsParam(s.path[i])
          \/ ToSet(s.path[i]) \intersect (Escapes \union Marks) = {} /\ s.path[i] \notin DotSegments
    /\ r.method # "OPTIONS"

\* What the generated client gets through: it does not escape path values, of
\* which fetch escapes the spaces that end no URL, and writes other spaces as
\* pluses.
ClientCarries(r, args) ==
    /\ options.urlCase = "kebab"
    /\ \A f \in DOMAIN args :
          /\ f \in PathParams(r) => ToSet(args[f].text) \intersect Marks \subseteq {" "} /\ Last(args[f].text) # " "
          /\ ~HasBody(r) /\ f \notin PathParams(r) => " " \notin ToSet(args[f].text)
    /\ Def[call.cap].returns # "null"

\* null is no output of a schema that does not say so.
OutputFits(c) ==
    Def[c].returns = "null" => registry[c].output = "none" \/ Wrapped(Outputs[registry[c].output], {"nullable"})

Carries ==
    LET c == call.cap
        r == RouteOf(c, routes)
    IN  CASE call.surface = "http" \/ c \notin DOMAIN registry \/ call.way.path \notin {"own", "slash"} -> FALSE
          [] OTHER ->
             CASE call.surface \in {"client", "openapi"} ->
                    /\ Addressable(r) /\ Textual(c, r, call.args) /\ ~Shadowed(r, call.args)
                    /\ call.surface = "client" => ClientCarries(r, call.args)
               [] call.surface = "graphql" ->
                    OutputFits(c) /\ \A f \in DOMAIN call.args : call.args[f].type \notin {"object", "array"}
               [] call.surface = "direct" -> OutputFits(c)
               [] call.surface \in {"mcp", "ws"} -> TRUE

\* Of two authorizations one surface takes the first and another the last.
Clear == Len(call.way.headers) <= 1

\* The caller has shown a live bearer token.
IsUser ==
    /\ call.surface # "client" /\ call.way.headers # <<>>
    /\ LET header == Head(call.way.headers)
       IN  /\ options.builder = "jwt" \/ ("auth" \in ToSet(options.plugins) /\ call.surface # "direct")
           /\ Len(header.value) >= 2 /\ LowerCase(header.value[1]) = "bearer" /\ header.value[2] \in LiveTokens
           /\ IF call.surface = "direct" THEN header.name \in {"authorization", "Authorization"}
              ELSE LowerCase(header.name) = "authorization"

Rejected == call.way.rejecting \union IF IsUser THEN {} ELSE {"mustBeAuthenticated"}

Chosen(c, chain) ==
    LET ops == Only(script[c], {op \in Ops : op.chain = chain})
    IN  [i \in DOMAIN ops |-> ops[i].step]

\* The run that the chain of c promises, with a step of its own for `validate`.
Composed(c, validate) ==
    Chosen(c, "guard") \o validate \o Chosen(c, "inputGuard") \o Reverse(Chosen(c, "enhance")) \o <<c>>

\* What each capability awaits and does then, given the part of each other one.
Awaits(parts) ==
    LET awaited[c \in Caps] ==
            IF Def[c].calls = "none" THEN <<>>
            ELSE parts[Def[c].calls] \o awaited[Def[c].calls] \o <<Def[c].resumes>>
    IN  awaited

Promised(c) ==
    Composed(c, <<"validate">>) \o Awaits([d \in DOMAIN script |-> Composed(d, <<>>)])[c]

\* As far as a call of c gets.
PromisedRun(c) == Run(Promised(c), Rejected)
Passes(c) == ToSet(Promised(c)) \intersect Rejected = {}

(* A typed call that nothing rejects reaches its capability over every      *)
(* surface that can carry its arguments: the resolver sees the input that   *)
(* the schema makes of them, whatever way they took, and the caller gets    *)
(* null when it returned null and its data otherwise.                       *)
CallsArrive ==
    Calling /\ Carries /\ Clear /\ Passes(call.cap) =>
        LET input == Def[call.cap].input
            answer == call.answer
        IN  /\ answer.by = call.cap
            /\ answer.status = IF answer.data = "null" /\ OverHttp THEN 204 ELSE 200
            /\ input.given => Restricted(answer.seen, DOMAIN input.shape) = Parsed(input.shape, call.args)
            /\ answer.data = "null" <=> Def[call.cap].returns = "null"

\* Two surfaces know a capability by its tool name.
Unknown ==
    /\ call.cap \notin DOMAIN registry
    /\ call.surface \in {"graphql", "mcp"} => \A d \in DOMAIN registry : ToolName[d] # ToolName[call.cap]

(* Guards and typed errors behave alike over every surface: a call that a   *)
(* guard or a resolver ends has the status of what it threw (401 where a    *)
(* user was asked for and the headers, in any spelling, show none; 403 for  *)
(* another guard; 500 for a bug), and each layer that the run entered has   *)
(* recorded once, the innermost first: a success if what it wraps was done  *)
(* before a resolver that had awaited it threw, and else what the caller    *)
(* was told; a caller of something else than the endpoint or a capability   *)
(* has run nothing.                                                         *)
SameOutcome ==
    /\ Calling /\ Carries /\ Clear =>
        LET run == PromisedRun(call.cap)
            status == call.answer.status
            records == call.answer.records
            places == Only([i \in DOMAIN run |-> i], {i \in DOMAIN run : run[i] \in Layers})
            resumed == {i \in DOMAIN run : run[i] \in Caps /\ Def[run[i]].resumes = Last(run)}
        IN  /\ IF Passes(call.cap) THEN status < 300
               ELSE status = CASE Last(run) = "mustBeAuthenticated" -> 401
                               [] Last(run) \in Caps \union Resumptions -> 500
                               [] OTHER -> 403
            /\ Len(records) = Len(places)
            /\ \A i \in DOMAIN records :
                  LET place == Reverse(places)[i]
                  IN  /\ records[i].by = run[place]
                      /\ records[i].level = "error" <=>
                            /\ \A resolver \in resumed : place < resolver
                            /\ IF records[i].by = "loggingEnhancer" THEN status = 500 ELSE status >= 300
    /\ Calling /\ call.surface # "http" /\ (call.way.path \notin {"own", "slash"} \/ Unknown) =>
          call.answer.ran = <<>> /\ (call.answer.status >= 400 \/ call.way.path = "playground")

(* In whatever order guards, input guards and enhancers are chained, a call *)
(* over any surface runs each of them once and in that order: guards before *)
(* the validation, input guards after it, the latest enhancer outermost,    *)
(* and those of a composed capability too; a rejection ends the call there, *)
(* and the caller gets no data.                                             *)
GuardsRunOnce ==
    Calling /\ call.answer.by # "none" /\ Clear =>
        LET promised == Promised(call.answer.by)
            ran == call.answer.ran
        IN  /\ ran # <<>> /\ IsPrefix(ran, promised)
            /\ \A i \in DOMAIN ran : ran[i] \in Rejected => i = Len(ran)
            /\ call.answer.data \in {"everything", "declared", "null", "thrown"} /\ call.answer.status < 300
                  => ran = promised /\ Last(ran) \notin Rejected

(* Every answer over HTTP, be it data, nothing, an error or a preflight,    *)
(* carries the headers of every merged hook and the CORS headers, with the  *)
(* origin exactly when it is allowed.                                       *)
HeadersOnEveryAnswer ==
    Calling /\ OverHttp =>
        LET headers == call.answer.headers
            origin == IF call.surface = "http" THEN call.args.origin ELSE "none"
        IN  /\ CorsHeaders \union UNION {options.sets[i].hook : i \in DOMAIN options.sets} \subseteq headers
            /\ AllowOrigin \in headers <=> (Dynamic => origin \in Merged.origins)
=============================================================================
