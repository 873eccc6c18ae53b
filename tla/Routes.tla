------------------------------- MODULE Routes -------------------------------
(***************************************************************************)
(* The routes of the REST transport, of OpenAPI and of the client:          *)
(* packages/transports/rest/src/router.ts.                                  *)
(*                                                                          *)
(* A path is a sequence of segments, a segment a sequence of tokens; the     *)
(* segment of a parameter is <<":", name>>.  A node of the radix tree is     *)
(* the path that leads to it, with Param for every parameter, and the tree   *)
(* is the set of its nodes.                                                 *)
(***************************************************************************)
EXTENDS Registry, Filters

Param == <<>>    \* no segment is empty
IsParam(seg) == Head(seg) = ":"
ById == <<":", "id">>

\* What a URL escapes, escaped.
Escapes == {"%20", "%2F", "%25", "%2B", "%3F", "%23", "%5C", "%0A"}

\* A token is one of the characters that something on the way of a URL treats
\* specially, "newline" being a tab or a line end and "%" a percent sign that
\* begins no escape, or else a name for a run of characters that nothing
\* does, written as it is once escaped and unescaped.  That the special ones
\* are strings is more than a prover knows of STRING.
Special == {" ", "/", "%", "+", "?", "#", "backslash", "newline"}
Token == STRING \union Escapes \union Special \union {".", ":", "id", "7"}
Segment == Seq(Token) \ {<<>>}

\* applyUrlCase: a name of one hump is the same in every case.
Slug(humps, urlCase) == IF Len(humps) = 1 THEN humps ELSE <<urlCase>> \o humps

Route(method, path, c) == [method |-> method, path |-> path, cap |-> c]

-----------------------------------------------------------------------------
(* inferRoutes                                                              *)
CollectionVerbs == {"list", "find", "fetch", "read", "search", "filter", "all"}
CreateVerbs == {"create", "add", "new"}

HasIdField(c) == Def[c].input.given /\ "id" \in DOMAIN Def[c].input.shape

DropS(humps) ==
    IF humps # <<>> /\ Last(humps) \in DOMAIN Singular
    THEN Append(Front(humps), Singular[Last(humps)]) ELSE humps

\* The remainder of get<Remainder> names the last group; only camel case
\* leaves a group of several humps comparable.
MatchesGroup(rest, c, urlCase) ==
    \/ rest = <<>>
    \/ /\ Group(c) # <<>>
       /\ Len(Last(Group(c))) = 1 \/ urlCase = "camel"
       /\ LET group == Last(Group(c))
          IN  rest = group \/ rest = DropS(group) \/ group = DropS(rest)

QueryPath(c, groupPath, urlCase) ==
    LET key == Key(c)
        rest == IF Head(key) = "get" THEN Tail(key) ELSE <<>>
    IN  IF HasIdField(c) THEN Append(groupPath, ById)
        ELSE IF Verb(key) \in CollectionVerbs THEN groupPath
        ELSE IF Verb(key) # "get" THEN Append(groupPath, Slug(key, urlCase))
        ELSE IF MatchesGroup(rest, c, urlCase) THEN groupPath
        ELSE Append(groupPath, Slug(rest, urlCase))

\* un<verb>, as unfollow or as unFollow, whose capital camel case keeps.
Undoing(key) == Head(key) \in DOMAIN Undoes \/ (Head(key) = "un" /\ Tail(key) # <<>>)
Undone(key, urlCase) ==
    IF Head(key) \in DOMAIN Undoes THEN <<Undoes[Head(key)]>> \o Tail(key)
    ELSE IF urlCase = "camel" THEN <<"capital">> \o Tail(key) ELSE Tail(key)

MutationRoute(c, groupPath, urlCase) ==
    LET key == Key(c)
    IN  IF Verb(key) \in CreateVerbs THEN Route("POST", groupPath, c)
        ELSE IF Undoing(key)
        THEN Route("DELETE", groupPath \o <<ById, Slug(Undone(key, urlCase), urlCase)>>, c)
        ELSE Route("POST", Append(groupPath, Slug(key, urlCase)), c)

InferRoute(c, urlCase) ==
    LET groupPath == [i \in DOMAIN Group(c) |-> Slug(Group(c)[i], urlCase)]
        intent == ResolveIntent(c)
    IN  CASE intent = "query" -> Route("GET", QueryPath(c, groupPath, urlCase), c)
          [] intent = "mutation" -> MutationRoute(c, groupPath, urlCase)
          [] intent = "update" -> Route("PATCH", Append(groupPath, ById), c)
          [] intent = "replace" -> Route("PUT", Append(groupPath, ById), c)
          [] intent = "delete" -> Route("DELETE", Append(groupPath, ById), c)

\* overrides: a partial function from capabilities to [method, path].
GenerateRoutes(registry, urlCase, overrides) ==
    {IF c \in DOMAIN overrides THEN Route(overrides[c].method, overrides[c].path, c)
     ELSE InferRoute(c, urlCase) : c \in registry}

-----------------------------------------------------------------------------
(* compileRouter                                                            *)
Shape(path) == [i \in DOMAIN path |-> IF IsParam(path[i]) THEN Param ELSE path[i]]
ParamName(seg) == seg[2]

\* Two routes of a method that name a parameter at one place differently.
NameClash(r, s) ==
    \E i \in DOMAIN r.path \intersect DOMAIN s.path :
        /\ IsParam(r.path[i]) /\ IsParam(s.path[i]) /\ ParamName(r.path[i]) # ParamName(s.path[i])
        /\ Shape(SubSeq(r.path, 1, i)) = Shape(SubSeq(s.path, 1, i))

RouterRefuses(routes) ==
    \E r, s \in routes : /\ r # s /\ r.method = s.method
                         /\ Shape(r.path) = Shape(s.path) \/ NameClash(r, s)

\* The routes that lead through a node, those that end there, and the tree.
Through(routes, node) ==
    {r \in routes : Len(node) <= Len(r.path) /\ Shape(SubSeq(r.path, 1, Len(node))) = node}
Handlers(routes, node) == {r \in routes : Shape(r.path) = node}
Nodes(routes) ==
    {<<>>} \union UNION {{Shape(SubSeq(r.path, 1, i)) : i \in DOMAIN r.path} : r \in routes}

\* methodNames: what a method calls the parameter below a node, or else another.
NameFor(routes, method, node) ==
    LET named == Through(routes, Append(node, Param))
        own == {r \in named : r.method = method}
        route == CHOOSE r \in IF own = {} THEN named ELSE own : TRUE
    IN  ParamName(route.path[Len(node) + 1])

-----------------------------------------------------------------------------
(* matchRoute: over a URL as segments of escaped tokens.                    *)
Unescape == [t \in Escapes |->
                CASE t = "%20" -> " " [] t = "%2F" -> "/" [] t = "%25" -> "%" [] t = "%2B" -> "+"
                  [] t = "%3F" -> "?" [] t = "%23" -> "#" [] t = "%5C" -> "backslash" [] t = "%0A" -> "newline"]
Malformed(text) == "%" \in ToSet(text)
Decode(text) == [i \in DOMAIN text |-> IF text[i] \in DOMAIN Unescape THEN Unescape[text[i]] ELSE text[i]]

NotFound == [found |-> "missing"]
MalformedUrl == [found |-> "malformed"]
NotAllowed(routes) == [found |-> "denied", allow |-> {r.method : r \in routes}]
Found(r, params) == [found |-> "found", cap |-> r.cap, params |-> params]

\* A name takes the decoded segment of its place, of several the last.
Bind(name, segments) ==
    LET places(n) == {i \in DOMAIN name : name[i] = n}
    IN  [n \in {name[i] : i \in DOMAIN name} |->
            Decode(segments[CHOOSE i \in places(n) : \A j \in places(n) : j <= i])]

\* The parameters on the way to a node.
Params(routes, method, node, segments) ==
    Bind([i \in {j \in DOMAIN node : node[j] = Param} |-> NameFor(routes, method, SubSeq(node, 1, i - 1))],
         segments)

\* The URL ends at a node.
EndsAt(routes, method, node, segments) ==
    LET here == Handlers(routes, node)
    IN  IF here = {} THEN NotFound
        ELSE IF \A r \in here : r.method # method THEN NotAllowed(here)
        ELSE Found(CHOOSE r \in here : r.method = method, Params(routes, method, node, segments))

\* Mutant: a static child that leads nowhere hides the parameter.
MatchStaticOnly(routes, method, segments) ==
    LET nodes == {node \in Nodes(routes) : Len(node) <= Len(segments)}
        match[node \in nodes] ==
            LET seg == segments[Len(node) + 1]
            IN  IF Len(node) = Len(segments) THEN EndsAt(routes, method, node, segments)
                ELSE IF Append(node, seg) \in nodes THEN match[Append(node, seg)]
                ELSE IF Append(node, Param) \notin nodes THEN NotFound
                ELSE IF Malformed(seg) THEN MalformedUrl ELSE match[Append(node, Param)]
    IN  match[<<>>]

\* The index is the depth of the node.
MatchRoute(routes, method, segments) ==
    LET nodes == {node \in Nodes(routes) : Len(node) <= Len(segments)}
        match[node \in nodes] ==
            LET seg == segments[Len(node) + 1]
                static == IF Append(node, seg) \in nodes THEN match[Append(node, seg)] ELSE NotFound
            IN  IF Len(node) = Len(segments) THEN EndsAt(routes, method, node, segments)
                ELSE IF static # NotFound THEN static
                ELSE IF Append(node, Param) \notin nodes THEN NotFound
                ELSE IF Malformed(seg) THEN MalformedUrl ELSE match[Append(node, Param)]
    IN  match[<<>>]

\* What is between separators, unless it is empty.
Split(tokens, sep) ==
    LET slash == {i \in DOMAIN tokens : tokens[i] = sep} \union {Len(tokens) + 1}
        first == {i \in DOMAIN tokens : i \notin slash /\ (i = 1 \/ i - 1 \in slash)}
        begin == Only([i \in DOMAIN tokens |-> i], first)
        end == [i \in first |-> CHOOSE j \in slash : i < j /\ \A l \in slash : i < l => j <= l]
    IN  [k \in DOMAIN begin |-> SubSeq(tokens, begin[k], end[begin[k]] - 1)]

SplitPath(tokens) == Split(tokens, "/")

Match(routes, method, tokens) == MatchRoute(routes, method, SplitPath(tokens))

-----------------------------------------------------------------------------
(* The reference.  A route that fits a URL takes it, and one gets stuck     *)
(* that fits it up to a parameter for a segment that cannot be decoded.  Of *)
(* them all the most static ones decide: those that have, where they part   *)
(* from another, the static segment.                                        *)
FitsUpTo(r, segments, n) ==
    /\ n <= Len(r.path) /\ n <= Len(segments)
    /\ \A i \in 1 .. n : IsParam(r.path[i]) \/ r.path[i] = segments[i]
Fits(r, segments) == Len(r.path) = Len(segments) /\ FitsUpTo(r, segments, Len(segments))

Undecodable(r, segments, i) == IsParam(r.path[i]) /\ Malformed(segments[i])
Stuck(r, segments) ==
    \E i \in DOMAIN r.path : FitsUpTo(r, segments, i) /\ Undecodable(r, segments, i)

MoreStatic(r, s, segments) ==
    \E i \in DOMAIN r.path \intersect DOMAIN s.path :
        /\ ~IsParam(r.path[i]) /\ IsParam(s.path[i])
        /\ \A j \in 1 .. i - 1 : /\ IsParam(r.path[j]) <=> IsParam(s.path[j])
                                 /\ ~Undecodable(r, segments, j)
Best(tried, segments) == {r \in tried : \A s \in tried : ~MoreStatic(s, r, segments)}

Values(r, segments) ==
    Bind([i \in {j \in DOMAIN r.path : IsParam(r.path[j])} |-> ParamName(r.path[i])], segments)

Decision(best, method, segments) ==
    IF best = {} THEN NotFound
    ELSE IF \E r \in best : Stuck(r, segments) THEN MalformedUrl
    ELSE IF \A r \in best : r.method # method THEN NotAllowed(best)
    ELSE LET r == CHOOSE r \in best : r.method = method IN Found(r, Values(r, segments))

Reference(routes, method, tokens) ==
    LET segments == SplitPath(tokens)
        tried == {r \in routes : Fits(r, segments) \/ Stuck(r, segments)}
    IN  Decision(Best(tried, segments), method, segments)
=============================================================================
