# Formal verification of capix

capix is a TypeScript framework in which an application is a set of
*capabilities* (schema, guards, resolver), served over several transports.
This directory holds TLA+ models of it, TLC configurations that check them on
small instances, and proofs, checked by TLAPS, of safety properties for every
instance.  Paths of code are relative to `src/`.

    tlc -config CircuitBreaker.cfg MCCircuitBreaker     # a run
    tlapm InvocationProofs.tla                          # the proofs of a module

`PROJECT.json` lists the components, the runs, the lines each definition
translates, the hazards with the properties that cover them, and for every
property a mutant of the code that breaks it.

## 1. Inventory

An application declares a tree of capabilities; *compileRegistry* flattens it.
A request reaches a *transport*, which routes it to the *execution engine*;
that looks the capability up in the registry and runs its pipeline.
*Enhancers* wrap the resolver (cache, limiter, breaker, retry, timeout,
rollback, logging, metrics) or act as guards.  *Plugins* add capabilities,
extend the context (auth) or put headers on REST's answers (CORS, Helmet).
The *event bus* connects resolvers that publish with WebSocket clients that
subscribe, across processes if it is the one over Redis.  *Server* mounts and
unmounts the transports.  Everything is one Node process: the interleavings
are those of promises, timers and sockets, and an action of a model is the
code from one `await` to the next.

| component (code) | state | operations | talks to | what is hard |
|---|---|---|---|---|
| circuit breaker (`packages/core/src/enhancers.ts:324`) | state, two counters, openedAt; one closure per capability | a call passes or is refused; its answer is counted | resolver (await) | answers arrive in another state than the one that admitted the call |
| rollback, retry, timeout (`enhancers.ts:87, 111, 241`) | one array per invocation, attempt, timer | register, throw, retry, time out, undo, rethrow | resolver (runs on after a timeout) | the rollback loop iterates over an array that is still pushed to |
| cache (`enhancers.ts:66`, `stores.ts`, `packages/stores/redis`) | LRU Map with expiry, or entries in Redis | lookup, fill | resolver, Redis (await) | overlapping calls of one key, late SETs, a Redis that forgets |
| rate limiter (`enhancers.ts:172`, `stores.ts`, `packages/stores/redis`) | Map of timestamp lists, or counters in Redis | hit, with its sweep | guard of a capability | the window's edges, eviction at the cap, lost replies |
| execution engine (`execution-engine.ts`) | none between requests | the eight stages of one request | callbacks of the application, hooks | any callback may throw anything |
| event bus (`event-bus.ts`) | a Map per event | subscribe, unsubscribe, unsubscribeAll, publish | handlers, called synchronously | handlers change the Map while publish iterates over it |
| Redis event bus (`packages/stores/redis/src/event-bus.ts`) | a connection, a local bus | publish, deliver | the broker, other instances | lost commands and connections, its own messages come back |
| server (`server.ts`) | list of transports | start, stop | transports (await, one by one) | stop during start, mounts that fail, unmounts that reject |
| REST transport (`transports/rest/src/transport.ts`), HTTP shutdown (`http-shutdown.ts`) | http server, timer and abort controller per exchange | request, body, timeout, settle, drain | engine, node:http | timer against answer, drain against exchanges in flight |
| REST router, coercion, multipart, serializer, OpenAPI | the radix tree, fixed at mount | infer routes, insert, match, coerce, parse, serialize | REST transport, clients | backtracking and precedence, text that must become a value |
| WebSocket transport (`transports/ws/src/transport.ts`) | clients, unsubscribe functions, heartbeat's WeakSet | connect, subscribe, unsubscribe, call, pong, close, heartbeat, unmount | event bus, engine, library ws | messages and closes during an authorization |
| GraphQL, MCP transports | a schema, tools | build, call | engine, their libraries | one call, other names, types and headers |
| queue transport, memory / SQS / BullMQ adapters (`transports/queue`) | jobs, in-flight set, running flag | enqueue, receive, acknowledge, stop, restart | brokers | at-least-once delivery, stop against polls and jobs, crashes |
| JWKS resolver (`plugins/auth/src/jwks.ts`) | key set, two timestamps, pending fetch | getKey, fetch | issuer's endpoint | concurrent misses, outages, rotation |
| JWT verification (`plugins/auth/src/index.ts`, `jwt-cache.ts`) | LRU of verdicts | verify, clear | JWKS resolver, userFromToken | a verdict outlives its token, its key or an outage |
| capability builder, registry, plugins (`capability.ts`, `plugin.ts`) | none after startup | chain, compile, merge, extend the context | server | order of composition, guards lost or run twice, collisions |
| CORS, Helmet, logging, testing, CLI client / call / check | none | headers, records, requests | REST, engine | each a copy of what a transport does |
| the CLI's other commands, examples, website | - | - | - | text and I/O |

What makes each correct, in a sentence: the breaker trips and closes only when
it has reason to, and is no trap; a failed invocation is compensated, newest
first, before its caller hears of it, and a successful one never; a cache
serves nothing stale; a limiter allows at most its limit in every window and
tells the truth about waiting; the pipeline never reaches the resolver past a
failed check and never answers a failure as a success; publish serves every
subscriber once, and over Redis every instance in the broker's order; a
client's last reply agrees with the bus, and a dead connection leaves nothing
behind; an exchange is answered once; stop ends and leaves nothing up; a key
that is published verifies through an outage, and a revoked token is refused
when its TTL is over; a job leaves its queue only when it should, and does; a
capability behaves the same, and gets the same input, over every surface.

## 2. The modules and the code

A `VARIABLE` is a variable of the code unless its comment says *history*:
histories record what a property speaks of and are read by no guard.  Data is
abstracted to what the code's conditions tell apart; clocks are kept as the
time since, saturated at the largest value the code compares them with.
Definitions commented *Mutant* are slips the code could have had; no
specification uses them.

**State machines of single components**

- **CircuitBreaker** - `Admit` and `Reject` are the gate, `Succeed`, `Fail` and
  `FailFramework` what follows the await.  `call[c]` remembers in which state a
  call was let through.
- **Rollback** - one invocation under one of five stacks of enhancers. `timer`
  says whether withTimeout is inside withRetry ("attempt") or around it
  ("loop").  A timeout settles the race only: `resolver` goes on registering
  and the loop position `next` walks the same live array.
- **ExecutionEngine** - one action per stage, for every shape of capability.
  **Invocation** is its abstract specification: what a transport may rely on.
- **CacheEnhancer** - `entries` is the Map in order of recency, or what Redis
  holds; `Lookup` and `Fill` are the two sides of the await, and over Redis
  `SendSet` leaves the SET on its way.  Redis loses its data (`RedisForgets`)
  and holds entries that do not parse (`Foreign`).  An entry lives for
  `Lifetime`: the ttl in memory, `Px` over Redis, where a SET needs a
  positive one.
- **RateLimitStore** - `bucket` holds ages in place of timestamps; `Hit` is the
  whole of `hit`, its sweep and eviction included.  Over Redis it is the Lua
  script: a `counter` with its expiry, a reply that is lost after the script
  ran, a restart.
- **WsTransport** - the life of connections (library ws: open, closing, dead,
  closed), `SubscribeMessage` and `AuthorizeSettles` around the await of
  authorizeSubscribe, `Heartbeat`, and `Unmount` with its timer `Stragglers`.
  `listeners` is the event bus, as far as this transport uses it.

**Compositions**

- **EventBus** - an entry is the number of its insertion, as a JavaScript Map
  iterates in insertion order and keeps the place of a key that is set again.
  `Visit` is one turn of publish's loop; between turns anything may happen to
  the Map, which is more than a handler of one event can do.
  **RedisEventBus** extends it with the outbox, the broker, the subscription
  and the channel of one instance; the others are publishers on the channel.
  Its `OnMessage` is a `Publish` of the local bus, and it implements EventBus.
- **HttpTransport** - exchanges (`Arrive`, `ReadBody`, `Settles`, `TimesOut`,
  `Disconnect`) and the operators of mounting and draining one transport.
  **ServerLifecycle** extends it with the loops of start and stop over N
  transports, and composes the two.  `outcome` in `Settles` is Invocation's.
- **Jwks** - `GetKey` up to its answer or its await, `Responds` and `Fails` for
  the fetch, `Rotate` and the content of answers for the issuer.
  **JwtVerifier** extends it with verify: a request's `verify[s]` awaits its
  key as a call of Jwks in the same slot, then its user; `Settle` stores the
  verdict in the LRU and answers.  Tokens age, lose their users, `Clear` is a
  logout.  It implements Jwks.
- **JobQueue** - the queue transport over one of three adapters.  A consumer is
  what one `start` of the adapter made: a poll loop of SQS (`Receive`,
  `Returns`, `Deleted` or `DeleteFails`, `BatchEnds`), a handler in memory, a
  BullMQ Worker.  The loop of an earlier mount may live on beside a later one.
  A handler need not settle: `Hangs` takes it out of the ones that return.
  `Crash` is an exit of the process at any point.  A BullMQ job counts the runs
  that ended (`tries`) against `Attempts`, which is 1 because `Queue.add` gets
  none, and a worker that is gone counts as a stall (`stalled`) against
  `MaxStalledCount`; a job over either limit is failed for good.  **Delivery**
  is its abstract specification, related by `Promise == INSTANCE Delivery WITH
  ...`: a job leaves the queue only after a run that succeeded (SQS), after a
  run (memory), or when its attempts are used up or more of its runs were cut
  short than the worker puts up with (BullMQ).

**The path of a call**, five modules each of which extends the one before, and
Gateway, the state machine over them

- **Registry** - `capability.ts`, `plugin.ts`, `server.ts`: a function of the
  program is the sequence of the steps that a run of it takes, so that
  `Chain` is what `.guard`, `.inputGuard`, `.enhance` and `.output` make of a
  capability, `Resolve` what a capability that composes it calls, `NamedCopy`
  what `compileRegistry` makes of it.  A composing resolver has two steps, its
  own before the await and `resumes` after it, and may throw in either.
- **Routes** - `router.ts`: inference of a route from name, intent and input,
  overrides and case; the radix tree as the set of its nodes, each the path that
  leads to it, and `MatchRoute` with its backtracking, a recursive function over
  them.  `Reference` is the declarative table that the tree is checked against:
  of the routes that fit a URL, the most static ones.
- **Payloads** - `coercion.ts`, the bodies, queries and multipart fields of
  `transport.ts`, `serializer.ts`, and what the generated client, an OpenAPI
  client, a GraphQL document and an MCP call make of arguments.  A text is a
  sequence of tokens; percent-encoding and form encoding are modelled by what
  they do to "/", "%", "+", "?", "#", spaces, backslashes and line ends, and
  `UrlPath` and `UrlQuery` by what the URL parser of fetch leaves of a path: it
  drops line ends and trailing spaces, cuts at "?" and "#", turns a backslash
  into a slash and resolves dot segments.
- **Outcomes** - `errors.ts`, `withLogging`, `withMetrics`, plugin logging as
  layers that record; the headers as each transport hands them on, the bearer
  token in them, and the context that builder and plugins make.  `Waiting` are
  the layers that a throw still meets: those inside a composed capability have
  recorded a success when a resolver throws after awaiting it.
- **Gateway** - `Declare`, `ChainOn` and `Mount` build any tree in any order;
  then one action per surface calls a capability, with rejections, headers and
  paths chosen per call, and the state keeps the answer: status, run, input
  seen, records, data, response headers.  `HandleRequest` is any other HTTP
  request, `CallUnknown` a name that is not there, `CapixCheck` the command.
  A call is one step: its awaits are those of ExecutionEngine and
  HttpTransport.

**Filters** has `Only`, Array.prototype.filter with a set in place of a test,
which the cache, the limiter, the Redis bus and the path of a call share.

`MC*` modules name the model values, the tables and the symmetries of the runs;
`*Proofs` modules hold the proofs, one for each group of components that one
argument covers.  Recursion is written as functions everywhere.

## 3. The runs

| run | instance | states | shows |
|---|---|---|---|
| breaker | 3 calls, thresholds 2, timeout 2 ticks | 2 018 | a closed breaker has reason to be, a trip and a close are earned (ClosedMeansHealthy, TripIsEarned, CloseIsEarned); the breaker recovers (Recovers) |
| engine | up to 2 guards of each kind, every option | 7 560 | PipelineOrder, ProductionHidesErrors, and the refinement of Invocation |
| rollback | 3 attempts, 4 registrations, 5 stacks | 2 010 | NewestFirst, Compensated, Answered |
| cache | 3 inputs, 2 calls, ttl 3, size 2; memory or Redis | 35 995 | ServedFresh, LruOrder under overlapping calls, evictions, late SETs and lost data |
| rate_limit | 4 keys, limit 2, window 2, cap 2; memory or Redis | 285 458 | WithinLimit, RetryIsExact, SweepSparesActive |
| event_bus | 3 keys, 2 events, 4 insertions; memory or Redis with 2 messages | 1 836 247 | EveryoneServedOnce whatever handlers throw or change; UniformOrder through lost commands and connections |
| ws | 2 connections, 1 event, 2 authorizations each | 206 632 | replies true, only granted subscriptions, heartbeat and shutdown right and live |
| ws_leak | 2 connections, 1 event | violation | a late authorization subscribes a closed connection for ever |
| server | 2 transports, 2 connections, 2 starts | 105 180 | abort iff 504, stop takes all down and settles, drain spares what is in flight, every invocation answered |
| queue | 3 adapters, a job and a body that is none, 2 consumers, 1 attempt, 1 stall | 8 781 | StopDrains, the refinement of Delivery, JobsSettle through crashes, failed deletions, stalls and late polls; StopSettles unless a handler that stop waits for hangs |
| auth | 1 key, 1 token, 2 requests, cache of 1 with ttl 1; key set or fixed key | 32 117 | outages keep keys, revocations bite, good tokens are accepted and withdrawn ones refused in the end |
| gateway | trees of up to 3 of 13 capabilities, up to 4 steps of declaring and chaining, 2 sets of options, 8 sets of headers | 307 172 | the tree agrees with its table, typed calls arrive, outcomes are the same over every surface, guards run once, headers are on every answer |

**Bounds.**  Thresholds and limits of 2 are the smallest at which "not yet" and
"now" differ after a first event, and every instance exceeds them: three calls
outnumber the thresholds, three inputs the two entries of the cache, four keys
the cap of two plus the key being hit.  `MaxPlaces` 4 lets a key leave and come
back in front of and behind the cursor; `MaxLog` 2 lets a message of one's own
and one of another instance meet on the channel; `MaxCounters` bounds the keys
hit over Redis at a time, whose counters do not interact; `MaxPending` 2 lets
two authorizations of one event overlap with each other and an unsubscribe;
`MaxSteps` 4 over 3 attempts puts registrations in every attempt and after the
loop began; `MaxStarts` 2 is a restart.  Two consumers of a queue are the poll
loop of an earlier mount beside the present one; jobs share nothing but a batch,
and one of either kind make one.  `Attempts` and `MaxStalledCount` are no bounds
but what BullMQ defaults to, since the adapter gives neither.  A cache of one
entry with a TTL of one tick makes every entry expire or be evicted; a token
with no kid, an early one and one over are choices of the initial state and of
`Ages`.  Three capabilities are what a conflict behind a static sibling needs,
and four steps put a guard, an input guard and an enhancer in any order on one
capability, or one on the third.  The capabilities of MCGateway have one each of
what the code tells apart: an id, inferred and explicit intents, unions,
wrappers, a nested group, a plugin's key, an invalid key, and a capability that
composes one that composes a third; the ids are texts that each of the URL's
treatments would change.

MaxPlaces, MaxLog, MaxCounters, MaxSteps, MaxCaps, MaxGuards, MaxPending and
MaxStarts bound what in the code is unbounded; the other constants are the
code's own parameters.  Safety that is proved (section 4) does not depend on
the bounds.  Symmetry is used in runs without liveness properties only.

**Fairness.**  Timers fire and a settled promise's continuation runs (weak
fairness of Tick, Timeout, NextAttempt, Heartbeat, Stragglers, DrainEnds,
TimesOut, BackoffEnds, BatchEnds, KeyResolved, Time, of the steps of start
and stop, and of the functions that Rollback's loop awaits); ws emits 'close'
for a dead socket, and a BullMQ worker closes when its jobs are over.  A
resolver, a client, an authorizeSubscribe and a handshake owe nothing and may
hang for ever.  The queue has no timer that would end such a resolver: there a
handler hangs by a step (`Hangs`), only one that has not returns in the end
(`Returns`), and StopSettles and JobsSettle say what holds unless one hangs.
Three runs state a workload, and need strong fairness for it because a call may be
refused, or a fetch fail, any number of times first: Recovers assumes that
calls keep coming and that a resolver asked again and again succeeds again and
again; JobsSettle that a queue polled for ever delivers what it holds, that
visibility timeouts end and that a job run, or deleted, again and again
succeeds; the properties of auth that tokens keep coming, that lookups and the
endpoint, asked again and again, answer again and again.  What these properties
say of the code is what it does with such a workload: they fail if a backoff
ends the loop, a verdict never expires or a refetch is given up.

**Deadlock** is checked in breaker, cache, rate_limit, queue and auth.  The
others may stop: an invocation ends, a server stays stopped, insertions reach
their bound, a refused tree is not served.

## 4. The proofs

| module | theorems | the inductive invariant, and why the property alone is not inductive |
|---|---|---|
| InvocationProofs, breaker | CountersAreRight, BreakerTypeCorrect, ClosedIsHealthy, TripsAreEarned, ClosesAreEarned | CountersAgree: while open, `failures` may lag behind the run of failures, and must equal it when closed; `successes` is bounded by the run of successes while half-open |
| InvocationProofs, rollback | RollbackInvariant, UndoneNewestFirst, FailuresAreCompensated, SuccessUndoesNothing, RollbackTypeCorrect | ArrayInOrder: registrations before the failure stand reversed, later ones in order, and the loop has called a prefix; OneAtATime: without a timeout nothing runs beside the loop |
| InvocationProofs, engine | EngineInvariant, Implements, ErrorsAreHidden, PipelineIsInOrder | the outcome is pending until the pipeline is over; after the resolver its stage is never entered again; a success only once it ran.  Each step is then a step of Invocation or a stutter.  For PipelineIsInOrder, OnTrack: the nth callback that ran is the nth of the pipeline, and each stage is entered with exactly the callbacks of the stages before it, counted by Hooked, Guarded, Validated, Ready and Whole |
| StoreProofs, cache | CacheInvariant, CacheTypeCorrect, HitsAreFresh, LruIsOrdered | CacheInv: an entry is under its own key and its value's age and what it has left make up its lifetime, as for every value on its way in a call; keys are distinct, and in the order of `recent` |
| StoreProofs, limiter | LimiterInvariant, LimiterTypeCorrect, LimitHolds, RetryAfterIsExact, SweepKeepsActive | LimiterInv, for each key KeyTypes (the ages of a bucket never increase along it) and MemoryKey: while a key lost nothing, its bucket holds exactly the hits granted in the window, and a denial's promise ends when the oldest leaves; or RedisKey: the hits granted since the counter was armed are as many as it counts, the first is the one that armed it, and those from before it are fewer than the limit |
| EventBusProofs | Invariant, TypeCorrect, EveryoneIsServed, BusImplemented, RedisServesEveryone, OrderIsUniform | DueAgree: a key that is due has an entry, and has been visited iff the cursor has passed its place; needs that places are unique.  Every step of RedisEventBus is one of EventBus or a stutter, given the types of what is on the wire, so that its invariant and property carry over.  UniformOrder is inductive with these types: what the broker appends to the log it appends to the channel of a subscribed instance |
| TransportProofs, WebSocket | WsInvariant, WsTypeCorrect, RepliesAreRight, SubscriptionsAreRight, LeaksAreLate, TerminatedWereSilent | a connection not there yet has nothing (Fresh); an authorization that survived its connection is on record (PendingWasLate); one that the heartbeat would terminate owes a pong (AliveOrAsked) |
| TransportProofs, queue | QueueTypeCorrect, StopDrainsAll, DeliveryImplemented | Held and Jobs: only what the queue holds is worked on, and only the message of a run that succeeded, or of no job, is being deleted.  Stalls: BullMQ has noticed no more stalls of a job than its runs were cut short, and one less while a job is held by a worker that is gone, so that a job is given up only past the limit.  Drain: whoever works is a batch or a worker that the present mount's stop awaits, or is waited for already |
| ServerLifecycleProofs | Invariant, AbortsAre504s, StopsTakeDown, DrainsSpareInFlight, TypeCorrect | a timer is armed only while its invocation is awaited; where each transport stands relative to the loops of start and stop (transports behind a failed one are down, which is why a stop that rejects has finished) |
| AuthProofs | TypeCorrect, VerifierUsesKeys, VerifierKeepsKeys, RevocationsBite | a fetch in flight may answer with what was published when it was sent: it was sent after every steady key had been fetched, as there is at most one.  The steps of the verifier are those of Jwks or leave it alone.  Bounded: an entry that accepts is no younger than its token has been waning |
| GatewayProofs | RouterIsItsTable, RoutesAlwaysAgree, HeadersAreOnAll, GuardsAlwaysRunOnce, ToolNamesAreDistinct, CallsAlwaysArrive, OutcomesAreTheSame | RouterIsItsTable is about any table that the router accepts, any method and any URL.  GatewayInv carries it, and the headers, to every answer: the table is what tree and options generate (Mounted), a call happens only on a server that is up, and the latest answer has the match and the headers that were computed from them (Matched, Headed, Exits).  For GuardsRunOnce, PipelineInv adds BuildInv: every capability is what its history of chained calls makes of it (BuiltAs), around a core that awaits the capability it composes, whose history is final, and all that one awaits in turn; and Ran: the latest answer holds a run that stopped at least where the call's rejections say.  For CallsArrive and SameOutcome, OutcomeInv adds Landed: the latest answer is the very one that promise, rejections and arguments determine, whatever surface gave it; and Missed: nothing ran for a name or a path that is not there |

The assumptions are those of the modules: thresholds, limits and bounds are
naturals (positive where the code needs it, as the attempts of a job are), no
event is called "none" and a foreign message is no event.  Those of Gateway say
what its tables are: names are paths of keys and no two are equal, an intent is
one of the five or inferred; a capability composes at most one other, to any
depth, and no chain of them comes round, since the value of what is composed
must exist first; what a resolver does after its await is a step of its own
name; a request's path ends where its query begins; callers are typed (`Typed`:
a value of every field that may not be left out, each of a type that its field
accepts, numbers and booleans written as JSON writes them), as TypeScript has
it; no schema names a field `__proto__`; paths and header values are sequences
of tokens, and no hook sets the header that is left to CORS; no token is empty
and no lower case a capital.  TLC evaluates them on every run.  Sets of calls,
connections, jobs, tokens, keys and events are arbitrary, and so are ttl, limit,
windows, sizes and the numbers of guards.

One theorem has a hypothesis of its own: SweepKeepsActive takes all windows to
be the same, as the run does.  With windows of different lengths the property
is false of the code (section 5): the sweep judges every key by the window of
the key being hit.  LimitHolds and RetryAfterIsExact need no such hypothesis,
since they except the keys whose hits a sweep dropped.

**FilterProofs** is what the proofs about stores and logs rest on: that a
filtered sequence has the members it should, in their order, distinct if they
were, and how filtering meets Append, concatenation, mapping and a second
filter.  `Only` is a recursive function, and facts about it need induction over
the length of a sequence.  The induction theorems of the library take a
predicate as a parameter, which the provers cannot instantiate; NatSetInduction
and SeqSetInduction state them for a set, and are proved from the pigeonhole
principle for finite sets.  That the equation of `Only` has a solution
(KeptExists) is proved with them too.

**RouterIsItsTable** says that a search with backtracking and a declarative
choice agree.  For a node, `Tried` is the set of the routes through it that fit
the URL or get stuck in it.  From the depth of the URL up to the root,
TreeAnswers shows by induction that the search below a node answers what the
most static routes of Tried decide, and that there are some if Tried is not
empty.  A static child decides if one of its routes is tried (StaticDecides);
otherwise its answer is that nothing was found, and the parameter's child
decides, or the segment cannot be decoded and every route below is stuck
(ParamDecides).  RankedBelow compares the routes of the two children.  A
route's parameters have the same names along the tree as in its own path
because the router refused every clash of names (OwnNames, ParamsAreValues),
and the recursive function exists because its nodes have a depth
(AnswersExist).

**GuardsAlwaysRunOnce** goes along the path of a call.  The builder keeps
BuiltAs (ChainBuilds, DeclareBuilds, ChainOnBuilds), so that the pipeline of the
engine is the promise of the script, two ways of concatenating the same parts
(PipelineIsPromise); a run is its prefix up to the first rejection (RunIs); what
a surface makes of the engine's answer leaves the run alone, and its status an
error where it was one (InvokeRuns, RanLater, RestRuns, OthersRun); and no
surface takes a caller for a user, by the headers as it hands them on, who has
not shown a live token (OneHeader, UserHasToken, UserIsUser).  What a capability
awaits follows the chain of what it composes to its end, so `Awaits` is a
recursive function: since no chain comes round, of any set of capabilities one
composes none of the others (NoLoop), hence its equation has a solution
(Solvable), the only one on a set closed under composition (SolutionsAgree), and
a declared tree is such a set (TreeIsClosed).  So a later declaration, or a step
chained on what nothing composes, leaves every promise alone (AwaitedStays), and
composing a capability nests its promise (ResolverIsCore).

**ToolNamesAreDistinct** is why GraphQL and MCP may address a capability by its
dot path with underscores: what separators join, and a key does not contain, a
split takes apart again (SplitJoined), by induction over the parts.

**CallsAlwaysArrive** and **OutcomesAreTheSame** say that every surface is a way
to the same engine.  `Lands` is what a call should come to: by its capability,
recorded by the layers as thrown, or as done where they had ended by then, and,
if nothing rejects it, the input that the schema makes of the arguments and null
exactly for null; else the status of the step that its run ends in.  The
argument has three parts.

1. The engine lands every input that agrees with typed arguments on the fields
   of the schema (EngineLands): such an input is valid (TypedIsValid) and is
   parsed alike (ParsedAlike).  The layers of a run record what was thrown
   (ThrownIs) if they still wait, and those are the ones placed in it before
   every resolver that has resumed (PlacesAre, WaitingAre, RecordsAre).
2. Each surface makes such an input and hands on such an answer.  Where it goes
   by names, they find one capability (NamesFindTheirs), and typed arguments
   make a valid document (TypedIsDocument; GraphQLLands, McpLands, WsLands,
   DirectLands).  Over HTTP a client fills the path of a route and writes the
   rest into a query or a body.  What encodeURIComponent, fetch and
   URLSearchParams write reads back as it was (EncodeWrites, PathWrites,
   FormWrites), and fetch escapes a URL segment by segment (PathEncodedJoined).
   Its URL parser leaves alone a path joined of parts that have no mark in them,
   end in no space and are no dot segments (CleanPathStays, FetchFills), which
   are the paths of routes filled with escaped values, or with raw ones that
   `ClientCarries` lets through (EncodedIsWritable, RawIsWritable).  The router
   takes a URL that fills the path of a route to that route with the values it
   was filled with, unless a static segment of another route is one of them
   (RouteWins, from RouterIsItsTable: the route is among the most static that
   fit, and all of those have its shape, but one has its method).  The merge of
   query, body and path, and the coercion of text by the kind of its field, then
   give the arguments back (CoercesBack, BodyIs, InputAgrees; RestLands,
   OpenApiLands, ClientLands).
3. The context that a surface builds rejects just the calls that `Rejected` says
   (UserIsUser, ContextIs), and the state after the call is the promised one
   (CalledLands, SurfacesLand).  A name that is not there and a path beside an
   endpoint run nothing (UnknownRunsNothing, ElsewhereRunsNothing).

Every safety property of a run that passes, invariant or action property, is
thus a theorem.  Only model-checked: liveness under fairness, which is out of
the prover's reach (Recovers, Answered, SilentAreDropped, UnmountSettles, the
StopSettles of server and queue, InvocationsAreAnswered, JobsSettle,
AcceptedInTheEnd, WithdrawnInTheEnd), as is ENABLED.

## 5. Where the code and its words differ

Checked by a run that expects a violation:

- ws_leak: `docs/transports/websocket.md:64` promises that subscriptions end
  with the connection; an authorization in flight at the close subscribes it
  afterwards (`transports/ws/src/transport.ts:129`), for ever.

Seen while modelling, in the models, without a run of their own:

- `transports/queue/src/adapters/sqs.ts:10` speaks of the "same retry-by-requeue
  model as the BullMQ adapter", and `bullmq.test.ts:118` says that the adapter
  throws "to trigger BullMQ retry".  No attempts are given to `Queue.add`
  (`bullmq.ts:80`), so BullMQ tries a job once and a failed run is its last;
  with `Attempts = 1` JobQueue reaches such a state in a few steps, and
  ImplementsDelivery promises a BullMQ job no more than its attempts.  A job
  whose process exits in two of its runs is given up without a run that ended.
- `docs/transports/overview.md:66` gives every transport a drain window,
  `shutdownTimeoutMs`.  The queue has none: its stop awaits handlers and workers
  without a timeout (`sqs.ts:193`, `bullmq.ts:85`), and one that hangs keeps the
  server from stopping.  StopSettles excepts a handler that stop waits for and
  that hangs.
- `docs/guide/enhancers.md:89` promises one probe; the gate (`enhancers.ts:345`)
  lets every call through while half-open.
- The comment at `enhancers.ts:65` promises cache keys by capability; the
  enhancer closes over a capability that is still called '(unnamed)', so that
  capabilities sharing a cache share its entries, and likewise the keys of the
  limiter and the tags of withMetrics (`enhancers.ts:75, 181, 290`).
  CacheEnhancer with `Cap = {a, b}` reaches such a state.
- `docs/guide/enhancers.md:130` promises that all registered rollbacks are
  called; a resolver that outlives its timeout registers some that never are
  (`enhancers.ts:253`).  Compensated is stated accordingly.
- A sweep of the memory limiter judges every key by the window of the key being
  hit (`stores.ts:97`): capabilities with windows of their own lose hits to
  each other's sweeps if they share a store.  The run has one window for all.
- `docs/transports/overview.md:140` says that transports are unmounted in
  reverse order; stop goes through them in the order of start
  (`server.ts:175`).  A start after a failed start mounts the transports that
  are up a second time (`server.ts:148`).
- `docs/transports/overview.md:64` says that stop waits for jobs; the memory
  adapter's does not (`adapters/memory.ts:85`), so StopDrains leaves it out.
- The comment at `execution-engine.ts:61` says that onError fires on any
  failure; an exception out of safeParseAsync rejects the promise and fires
  nothing (`execution-engine.ts:280`; Invocation's `HookFor("rejected")`).
- The comment at `jwks.ts:65` says that concurrent callers share a refetch; a
  call that comes while one is in flight finds the interval not over and gives
  up (`jwks.ts:56`), once a first fetch has succeeded, and its refusal is
  cached.
- REST's own timeout also ends capabilities with a longer withTimeout
  (`transport.ts:367`, `docs/transports/rest.md:182`); GraphQL, MCP and
  WebSocket only signal theirs, and wait for the resolver.
- Redis: a failed subscribe of the bus is logged and never retried
  (`event-bus.ts:81`); a PTTL of 0 or below tells a full window to wait
  (`index.ts:119`); withRateLimit rejects calls when its store does.
- The generated client puts path values into the URL as they are
  (`cli/src/commands/client.ts:150-165`): one with "?", "#", "/", "%", a
  backslash or a line end, a trailing space, or a dot segment does not arrive.
  An OpenAPI client escapes them, but not the dots of "." and "..", which the
  URL parser of fetch resolves for it too.
- The layers inside a composed capability have recorded a success when the
  resolver that awaited it throws afterwards and the caller is told 500
  (`capability.ts:200`, `enhancers.ts:26`).
- The generated client reads JSON out of a 204 and so throws where a capability
  returned null, sends no Authorization header, and is written for kebab case
  without overrides, as are `capix check` and `capix openapi`; a "+" in a query
  is not read as a space.
- testServer applies no plugins, keeps the case of header names and validates
  outputs, as development does, after the layers have recorded a success.
- Of two Authorization headers HTTP takes the first, the WebSocket transport
  the last.
- REST and GraphQL leave undeclared output fields out; MCP, WebSocket and
  direct calls do not.  A null against a declared non-null output is a 204 over
  REST and an error over GraphQL.  An object literal given to GraphQL's JSON
  scalar becomes null.  Inputs whose schema is no object have no GraphQL
  arguments; two type names that agree share one entry of a cache
  (`schema-builder.ts:87`).
- A static sibling takes the URL of a path value that is its name, and may
  answer it with 405; null, and a number where a union takes strings too, do
  not survive a query.  An override for OPTIONS is never reached.
- Prefixes are not words: "checkout" counts as a check, and so as a query.
- A WebSocket message that is JSON but no object rejects its handler's promise,
  which nothing catches (`transports/ws/src/transport.ts:104`).

The conditions of CallsArrive and SameOutcome (`Textual`, `ClientCarries`,
`Shadowed`, `OutputFits`, `Clear`) are this list, as far as it concerns a call:
what they leave out is where the surfaces differ today.

## 6. What is not modelled

In the modelled components: a handler that publishes again on the bus in memory
(nested publish); pipelined requests on one connection; a second start without a
stop; a clock that runs backwards; the degradation of cached values to JSON
(results are opaque); a resolver that catches the rejection of what it composes,
or composes several at once; the redrive policy of an SQS queue, which caps its
retries; a BullMQ lock that a blocked event loop loses, and an exit between the
end of a run and its record in Redis; heartbeatIntervalMs false; the rotation of
a fixed secret; the HTTP headers of the answers of GraphQL and MCP; durations
and texts of logs, errors and documents; the response schemas of OpenAPI and the
JSON Schemas of MCP's tools; MCP over stdio, whose unmount does not drain.

External, and modelled by how the code uses them: Redis and its client, SQS and
its visibility timeout, the BullMQ worker, the ws library's close handshake,
node:http's shutdown and headers, the issuer of keys, jsonwebtoken's check of a
signature and of exp and nbf.  The parsing of bytes (busboy), Zod's own
validation beyond types, the graphql and MCP libraries are not modelled.

Not modelled at all: the barrel and the type tests of core (exports and
compile-time assertions), the CLI commands that print and write files, examples,
benchmarks and the website.

What could come next: nested publish; a second start beside a stop; the
degradation of cached values to JSON.
