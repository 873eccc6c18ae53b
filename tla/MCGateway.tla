----------------------------- MODULE MCGateway ------------------------------
EXTENDS Gateway

Field(wraps, base) == [wraps |-> wraps, base |-> base, options |-> {}]
Either(branches) == [wraps |-> <<>>, base |-> "union", options |-> branches]
Void == [given |-> FALSE, shape |-> Nothing]
Object(shape) == [given |-> TRUE, shape |-> shape]

Users(key) == <<<<"users">>, key>>
Defined(name, intent, input, returns) ==
    [name |-> name, intent |-> intent, input |-> input, returns |-> returns, calls |-> "none", resumes |-> "none", plugin |-> FALSE]
Composing(def, c, resumes) == [def EXCEPT !.calls = c, !.resumes = resumes]
Inferred(name, input) == Defined(name, "inferred", input, "object")

Id == Object([id |-> Field(<<>>, "string")])

MCDef ==
    [getUser |-> Inferred(Users(<<"get", "user">>), Id),
     getMe |-> Composing(Inferred(Users(<<"get", "me">>), Object(Nothing)), "getUser", "gotUser"),
     getFeed |-> Composing(Inferred(Users(<<"get", "feed">>), Void), "getMe", "gotMe"),
     getUsers |-> Inferred(Users(<<"get", "users">>), Void),
     search |-> Inferred(Users(<<"search">>),
                         Object([text |-> Field(<<>>, "string"),
                                 limit |-> Field(<<"default">>, "number"),
                                 code |-> Either({"number", "string"}),
                                 live |-> Field(<<"optional", "nullable">>, "boolean")])),
     updateUser |-> Inferred(Users(<<"update", "user">>),
                             Object([id |-> Field(<<>>, "number"), text |-> Field(<<"optional">>, "string"),
                                     limit |-> Field(<<"nullable">>, "number"), filter |-> Field(<<>>, "any")])),
     unfollow |-> Defined(Users(<<"unfollow">>), "inferred", Void, "null"),
     unFollow |-> Inferred(Users(<<"un", "follow">>), Void),
     checkout |-> Inferred(Users(<<"checkout">>), Object([id |-> Field(<<"optional">>, "string")])),
     setRole |-> Defined(Users(<<"set", "role">>), "mutation", Object([role |-> Either({"number", "null"})]), "null"),
     posts |-> Inferred(<<<<"blog", "posts">>, <<"get", "post">>>>,
                        Object([userId |-> Field(<<"pipe">>, "string"), limit |-> Field(<<"optional">>, "number")])),
     usersTop |-> [Inferred(<<<<"users">>>>, Void) EXCEPT !.plugin = TRUE],
     dashed |-> Inferred(<<<<"users", BadHump>>, <<"list">>>>, Void)]
MCCaps == DOMAIN MCDef

MCStartsWith == "checkout" :> "check"
MCUndoes == "unfollow" :> "follow"
MCSingular == ("users" :> "user") @@ ("posts" :> "post")
MCNumerals == (<<"7">> :> <<"7">>) @@ (<<"0", "7">> :> <<"7">>)

Text(text) == Value("string", text)
Seven == Value("number", <<"7">>)
Yes == Value("boolean", <<"true">>)
IdTexts == {<<"0", "7">>, <<"me">>, <<"a", "/", "b">>, <<"%">>, <<>>, <<"a", " ", "b">>, <<"a", " ">>,
            <<"a", "?", "b">>, <<"#">>, <<".", ".">>, <<"backslash", ".">>, <<"7", "newline">>}

MCArgs ==
    [c \in MCCaps |->
        CASE c = "getUser" -> {[id |-> Text(t)] : t \in IdTexts}
          [] c = "checkout" -> {[id |-> Text(<<"7">>)], Nothing}
          [] c = "search" ->
                {[text |-> Text(t), code |-> code] : t \in {<<"7">>, <<"a", " ", "b">>}, code \in {Seven, Text(<<"7">>)}}
                    \union {[text |-> Text(<<"true">>), code |-> Text(<<"7">>), limit |-> Seven, live |-> live] :
                               live \in {Yes, Null}}
          [] c = "updateUser" -> {[id |-> Seven, limit |-> limit] : limit \in {Seven, Null}}
                                    \union {[id |-> Seven, limit |-> Seven, text |-> Text(<<"7">>)],
                                            [id |-> Seven, limit |-> Null, filter |-> Value("object", <<"range">>)]}
          [] c = "setRole" -> {[role |-> role] : role \in {Seven, Null}}
          [] c = "posts" -> {[userId |-> Text(<<"7">>)], [userId |-> Text(<<"a", "/", "b">>)]}
                               \union {[userId |-> Text(<<"a", mark>>), limit |-> Seven] : mark \in {"?", " "}}
          [] OTHER -> {Nothing}]

Op(chain, step) == [chain |-> chain, step |-> step]
MCOps ==
    [getUser |-> {GuardOp("mustBeAuthenticated"), GuardOp("mustBeAdmin"), Op("inputGuard", "mustOwn"),
                  Op("enhance", "withLogging"), Op("enhance", "loggingEnhancer")},
     getMe |-> {Op("inputGuard", "mustBeActive"), Op("enhance", "withMetrics")},
     getUsers |-> {Op("output", "schema")},
     unfollow |-> {Op("output", "schema"), Op("output", "nullable"), Op("enhance", "withMetrics")}]
MCOutputs == [schema |-> Field(<<>>, "object"), nullable |-> Field(<<"nullable">>, "object")]

MCLower == ("AUTHORIZATION" :> "authorization") @@ ("Authorization" :> "authorization") @@ ("Bearer" :> "bearer")
Header(name, value) == <<[name |-> name, value |-> value]>>
Live1 == Header("authorization", <<"Bearer", "live">>)
MCCredentials == {<<>>, Live1}
MCHeaders ==
    {<<>>, Live1, Header("AUTHORIZATION", <<"bearer", "live">>), Header("Authorization", <<"Bearer", "expired">>),
     Header("authorization", <<"Basic", "live">>), Header("token", <<"Bearer", "live">>),
     Header("authorization", <<"Bearer", "", "live">>),
     Live1 \o Header("authorization", <<"Bearer", "expired">>)}

Nested == [posts |-> [method |-> "GET", path |-> <<<<"users">>, <<":", "userId">>, <<"posts">>>>]]
MCOptions ==
    {[urlCase |-> "kebab", overrides |-> Nested, multipart |-> TRUE, playground |-> TRUE,
      sets |-> <<Cors({"app"}), Helmet({"nosniff"})>>, builder |-> "jwt", plugins |-> <<>>],
     [urlCase |-> "camel", overrides |-> Nothing, multipart |-> FALSE, playground |-> FALSE,
      sets |-> <<Helmet({"nosniff"}), Cors({"*"})>>, builder |-> "plain", plugins |-> <<"auth", "audit">>]}

At(method, path, body, origin) ==
    [method |-> method, path |-> path, query |-> [limit |-> <<"0", "7">>, text |-> <<"%">>],
     body |-> body, origin |-> origin, headers |-> Live1]
Paths == {<<"/", "users">>, <<"/", "users", "/", "/", "7", "/">>, <<"/", "users", "/", "me">>,
          <<"/", "users", "/", "kebab", "set", "role", "/", "posts">>, <<"/", "users", "/", "%">>, <<"/", "users", "/", "7", "/", "follow">>,
          <<"/", "users", "/", "%", "/", "posts">>, <<"/", "users", "/", "kebab", "set", "role">>,
          <<"/", "users", "/", "me", "/", "nowhere">>, <<"/">>}
Bodies == {[kind |-> k] : k \in {"tooLarge", "broken", "notObject", "otherType"}}
          \union {[kind |-> "multipart", fields |-> [text |-> <<"7">>, limit |-> <<"7">>], files |-> files] :
                    files \in {[photo |-> Value("file", <<"small">>)], [photo |-> Value("file", <<"big">>)],
                               [photo |-> Value("file", <<"small">>), more |-> Value("file", <<"small">>)]}}
MCRequests ==
    {At("GET", path, NoBody, "app") : path \in Paths}
        \union {At("DELETE", <<"/", "users", "/">> \o path, NoBody, "app") :
                    path \in {<<"me">>, <<"%">>, <<"7", "/", "follow">>}}
        \union {At("PATCH", <<"/", "users", "/", "7">>, body, "evil") : body \in Bodies}
        \union {At("OPTIONS", <<"/", "users">>, NoBody, origin) : origin \in {"app", "evil"}}
=============================================================================
