------------------------------ MODULE Payloads ------------------------------
(***************************************************************************)
(* What a call carries: input schemas and their coercion, the bodies and    *)
(* queries of the REST transport, and the requests that the generated       *)
(* client, an OpenAPI client, a GraphQL document and an MCP tool call make.  *)
(*                                                                          *)
(* A value is [type, text], the text being a sequence of tokens; an input   *)
(* is a function from field names to values.  A field of a schema is        *)
(* [wraps, base, options]: its wrapper types, the type they wrap, and the   *)
(* branches of a union.                                                     *)
(***************************************************************************)
EXTENDS Routes

CONSTANTS
    Outputs,      \* per output schema: its [wraps, base, options]
    Numerals,     \* a text that Number() reads: the number's own text
    MaxFiles      \* options.multipart.maxFiles

Value(type, text) == [type |-> type, text |-> text]
Null == Value("null", <<"null">>)
Nothing == <<>>    \* the empty input

InputShape(c) == IF Def[c].input.given THEN Def[c].input.shape ELSE Nothing

Restricted(input, fields) == Restrict(input, DOMAIN input \intersect fields)

\* Object.assign: the fields of the source, and those that only the target has.
Assign(target, source) ==
    [f \in DOMAIN target \union DOMAIN source |-> IF f \in DOMAIN source THEN source[f] ELSE target[f]]

-----------------------------------------------------------------------------
(* coercion.ts                                                              *)
WRAPPERS == {"optional", "nullable", "default", "prefault", "catch", "readonly",
             "nonoptional", "pipe"}
Primitive == {"number", "boolean"}

\* unwrap stops at a type that wraps nothing.
Unwrapped(field) == ToSet(field.wraps) \subseteq WRAPPERS

\* kindOf: a union counts when its branches but null agree.
Kind(field) ==
    LET bases == IF field.base = "union" THEN field.options \ {"null", "undefined"} ELSE {field.base}
    IN  IF Unwrapped(field) /\ Cardinality(bases) = 1 /\ bases \subseteq Primitive
        THEN CHOOSE b \in bases : TRUE ELSE "none"

\* coerceValue: what does not parse stays the string it is.
CoerceValue(v, kind) ==
    IF v.type # "string" THEN v
    ELSE IF kind = "boolean" /\ v.text \in {<<"true">>, <<"false">>} THEN Value("boolean", v.text)
    ELSE IF kind = "number" /\ v.text \in DOMAIN Numerals THEN Value("number", Numerals[v.text])
    ELSE v

\* Mutant: anything that looks like a number becomes one.
CoerceBlindly(input, c) ==
    [f \in DOMAIN input |-> CoerceValue(input[f], IF input[f].text \in DOMAIN Numerals THEN "number" ELSE "boolean")]

CoerceFields(input, c) ==
    [f \in DOMAIN input |->
        IF Def[c].input.given /\ f \in DOMAIN Def[c].input.shape
        THEN CoerceValue(input[f], Kind(Def[c].input.shape[f])) ELSE input[f]]

-----------------------------------------------------------------------------
(* Zod (external): what a schema accepts and the input the resolver sees.   *)
Wrapped(field, names) == ToSet(field.wraps) \intersect names # {}

Fallback(field) == Value(IF field.base = "union" THEN "null" ELSE field.base, <<"fallback">>)

FieldAccepts(field, v) ==
    \/ field.base = "any" \/ v.type = field.base
    \/ field.base = "union" /\ v.type \in field.options
    \/ v.type = "null" /\ Wrapped(field, {"nullable"})

FieldMayMiss(field) == field.base = "any" \/ Wrapped(field, {"optional", "default", "prefault", "catch"})

Accepts(shape, input) ==
    \A f \in DOMAIN shape :
        IF f \in DOMAIN input THEN FieldAccepts(shape[f], input[f]) \/ Wrapped(shape[f], {"catch"})
        ELSE FieldMayMiss(shape[f])

Parsed(shape, input) ==
    LET filled == {f \in DOMAIN shape \ DOMAIN input : Wrapped(shape[f], {"default", "prefault", "catch"})}
    IN  [f \in (DOMAIN shape \intersect DOMAIN input) \union filled |->
            IF f \in DOMAIN input /\ FieldAccepts(shape[f], input[f]) THEN input[f] ELSE Fallback(shape[f])]

\* What the execution engine hands to the resolver; a void one gets undefined.
Seen(c, input) ==
    IF ~Def[c].input.given THEN Nothing
    ELSE IF SkipsValidation(c) THEN input
    ELSE Parsed(Def[c].input.shape, input)

Valid(c, input) == Def[c].input.given => Accepts(Def[c].input.shape, input)

-----------------------------------------------------------------------------
(* Text on the wire                                                         *)
Escape == [t \in Special |->
              CASE t = " " -> "%20" [] t = "/" -> "%2F" [] t = "%" -> "%25" [] t = "+" -> "%2B"
                [] t = "?" -> "%3F" [] t = "#" -> "%23" [] t = "backslash" -> "%5C" [] t = "newline" -> "%0A"]
EncodeComponent(text) == [i \in DOMAIN text |-> IF text[i] \in DOMAIN Escape THEN Escape[text[i]] ELSE text[i]]
\* URLSearchParams writes a space as a plus, which the transport does not read back.
FormEncode(text) == [i \in DOMAIN text |-> IF text[i] = " " THEN "+" ELSE EncodeComponent(text)[i]]
\* parseQueryString: malformed text stays raw.
ParseQuery(query) ==
    [f \in DOMAIN query \ {"__proto__"} |->
        Value("string", IF Malformed(query[f]) THEN query[f] ELSE Decode(query[f]))]

-----------------------------------------------------------------------------
(* readBody, parseMultipart and the JSON body: [status, input].             *)
NoBody == [kind |-> "none"]
JsonBody(input) == [kind |-> "json", input |-> input]
Usable(input) == [status |-> 200, input |-> input]
Refused(status) == [status |-> status, input |-> Nothing]

Multipart(body, c) ==
    IF Cardinality(DOMAIN body.files) > MaxFiles THEN Refused(400)
    ELSE IF \E f \in DOMAIN body.files : body.files[f].text = <<"big">> THEN Refused(413)
    ELSE Usable(Assign(CoerceFields([f \in DOMAIN body.fields |-> Value("string", body.fields[f])], c), body.files))

\* The bytes of a body: the rest of one that exceeds maxBodySize is drained.
Exceeds(body) == body.kind = "tooLarge"

ReadBody(request, c, multipart) ==
    LET body == request.body
    IN  CASE request.method \in {"GET", "HEAD", "DELETE"} -> Usable(Nothing)
          [] OTHER ->
             CASE Exceeds(body) -> Refused(413)
               [] body.kind = "multipart" -> IF multipart THEN Multipart(body, c) ELSE Usable(Nothing)
               [] body.kind \in {"broken", "notObject"} -> Refused(400)
               [] body.kind = "json" -> Usable(body.input)
               [] body.kind \in {"none", "otherType"} -> Usable(Nothing)

\* assignSafe: no field of the source becomes a prototype.
AssignSafe(target, source) == Assign(target, Restricted(source, DOMAIN source \ {"__proto__"}))

\* query < body < path
Merge(query, body, path) == Assign(AssignSafe(query, body), path)

\* The input of the invocation, once the body is read.
RestInput(request, match, body) ==
    LET c == match.cap
    IN  Merge(CoerceFields(ParseQuery(request.query), c), body,
              CoerceFields([f \in DOMAIN match.params |-> Value("string", match.params[f])], c))

\* serializer.ts: with an output schema only its fields go out.
Serialize(cap) == IF cap.output # "none" THEN "declared" ELSE "everything"

-----------------------------------------------------------------------------
(* The callers, for arguments of the schema's types                         *)
Types == {"string", "number", "boolean", "null", "object", "array", "enum", "date", "file"}

\* Written as JSON writes them.
Literal(v) ==
    /\ v.type = "number" => v.text \in DOMAIN Numerals /\ Numerals[v.text] = v.text
    /\ v.type = "boolean" => v.text \in {<<"true">>, <<"false">>}

Typed(c, args) ==
    LET shape == InputShape(c)
    IN  /\ args \in [DOMAIN args -> [type : Types, text : Seq(Token \ Escapes)]]
        /\ \A f \in DOMAIN args : f \in DOMAIN shape /\ FieldAccepts(shape[f], args[f]) /\ Literal(args[f])
        /\ \A f \in DOMAIN shape \ DOMAIN args : FieldMayMiss(shape[f])

Request(method, path, query, body) == [method |-> method, path |-> path, query |-> query, body |-> body]

PathParams(r) == {ParamName(r.path[i]) : i \in {j \in DOMAIN r.path : IsParam(r.path[j])}}

\* A parameter that no field is called after takes any text.
PathText(args, name) == IF name \in DOMAIN args THEN args[name].text ELSE <<"7">>

\* Every part after a separator.
Joined(sep, parts) == FlattenSeq([i \in DOMAIN parts |-> <<sep>> \o parts[i]])

Fill(r, text) ==
    Joined("/", [i \in DOMAIN r.path |-> IF IsParam(r.path[i]) THEN text[ParamName(r.path[i])] ELSE r.path[i]])

HasBody(r) == r.method \notin {"GET", "HEAD", "DELETE"}

\* The URL parser of every fetch (external), of a path and the query that the
\* caller puts after it.  Spaces at the end of a URL and its line ends are
\* dropped, the path goes up to a query or a fragment, and its dot segments
\* are resolved; percents and slashes stay.
Trim(text) ==
    SubSeq(text, 1, CHOOSE n \in 0 .. Len(text) :
                       /\ n = 0 \/ text[n] # " "
                       /\ \A i \in n + 1 .. Len(text) : text[i] = " ")
Before(text, marks) ==
    SubSeq(text, 1, CHOOSE n \in 0 .. Len(text) :
                       /\ n = Len(text) \/ text[n + 1] \in marks
                       /\ \A i \in 1 .. n : text[i] \notin marks)
PathEncoded(text) ==
    [i \in DOMAIN text |-> CASE text[i] = " " -> "%20" [] text[i] = "backslash" -> "/" [] OTHER -> text[i]]

DoubleDots == {<<"..">>, <<".", ".">>}
DotSegments == DoubleDots \union {<<".">>}
Resolved(done, seg) ==
    IF seg \notin DotSegments THEN Append(done, seg)
    ELSE IF seg \in DoubleDots /\ done # <<>> THEN Front(done) ELSE done
RemoveDots(path) ==
    LET Read(state, t) == IF t = "/" THEN [done |-> Resolved(state.done, state.seg), seg |-> <<>>]
                          ELSE [state EXCEPT !.seg = Append(@, t)]
        end == FoldLeft(Read, [done |-> <<>>, seg |-> <<>>], Tail(path))
        done == Resolved(end.done, end.seg)
    IN  Joined("/", IF end.seg \in DotSegments THEN Append(done, <<>>) ELSE done)
Collapse(path) == IF ToSet(SplitPath(path)) \intersect DotSegments = {} THEN path ELSE RemoveDots(path)

UrlPath(tokens, query) ==
    LET visible == Only(tokens, ToSet(tokens) \ {"newline"})
        url == IF query = Nothing THEN Trim(visible) ELSE visible
    IN  Collapse(PathEncoded(Before(url, {"?", "#"})))

\* After a fragment there is no query, and in one that has begun the first
\* field runs on from what precedes it, under a name that no schema has.
UrlQuery(tokens, query) ==
    IF "#" \in ToSet(tokens) \/ query = Nothing THEN Nothing
    ELSE IF "?" \in ToSet(tokens)
    THEN Restricted(query, DOMAIN query \ {CHOOSE f \in DOMAIN query : TRUE}) ELSE query

Fetched(r, path, query, body) == Request(r.method, UrlPath(path, query), UrlQuery(path, query), body)

\* generateClient: path fields go raw into the path, the rest of them into a
\* query or a body.
ClientRequest(r, args) ==
    LET rest == Restricted(args, DOMAIN args \ PathParams(r))
        raw == [name \in PathParams(r) |-> PathText(args, name)]
    IN  Fetched(r, Fill(r, raw),
                IF HasBody(r) THEN Nothing ELSE [f \in DOMAIN rest |-> FormEncode(rest[f].text)],
                IF HasBody(r) /\ rest # Nothing THEN JsonBody(rest) ELSE NoBody)

\* generateOpenAPI: the parameters of its paths are escaped by its clients.
OpenApiRequest(r, args) ==
    LET rest == Restricted(args, DOMAIN args \ PathParams(r))
        escaped == [name \in PathParams(r) |-> EncodeComponent(PathText(args, name))]
    IN  Fetched(r, Fill(r, escaped),
                IF HasBody(r) THEN Nothing ELSE [f \in DOMAIN rest |-> EncodeComponent(rest[f].text)],
                IF HasBody(r) /\ rest # Nothing THEN JsonBody(rest) ELSE NoBody)

-----------------------------------------------------------------------------
(* GraphQL and MCP                                                          *)
\* toToolName and the GraphQL field: the dot path with underscores.
ToolName == [c \in Caps |-> Tail(Joined("_", Name(c)))]
\* The root type of the GraphQL field, and the hint of the MCP tool.
IsQuery(c) == ResolveIntent(c) = "query"

\* zodToGqlInput and zodToGqlOutput keep the bases and wrappers they know, and
\* require a value unless a wrapper says otherwise; the rest is a JSONScalar.
GqlKnown(field) ==
    /\ field.base \in Primitive \union {"string", "array", "object", "enum"}
    /\ ToSet(field.wraps) \subseteq {"default", "prefault", "optional", "nullable", "pipe"}
Required(field) == GqlKnown(field) /\ ToSet(field.wraps) \subseteq {"pipe"}

GqlInputType(field) == IF GqlKnown(field) THEN field.base ELSE "json"
GqlOutputNonNull(cap) == cap.output # "none" /\ Required(Outputs[cap.output])

GqlAccepts(c, args) ==
    LET shape == InputShape(c)
    IN  /\ DOMAIN args \subseteq DOMAIN shape
        /\ \A f \in DOMAIN shape : f \in DOMAIN args \/ ~Required(shape[f])
        /\ \A f \in DOMAIN args : \/ GqlInputType(shape[f]) \in {"json", args[f].type}
                                  \/ args[f].type = "null" /\ ~Required(shape[f])

\* A JSONScalar written out in the document: parseLiteral gives null for an
\* object or a list.
ParseLiteral(v) == IF v.type \in {"object", "array"} THEN Null ELSE v

GqlArgs(c, args) ==
    [f \in DOMAIN args |-> IF GqlInputType(Def[c].input.shape[f]) = "json" THEN ParseLiteral(args[f]) ELSE args[f]]
=============================================================================
