------------------------------ MODULE Registry ------------------------------
(***************************************************************************)
(* Capabilities as packages/core builds, names and flattens them:           *)
(* capability.ts, plugin.ts and the collision checks of server.ts.          *)
(*                                                                          *)
(* A key is the sequence of its humps in lower case, getUser being          *)
(* <<"get", "user">>, and a dot path the sequence of its keys.  A function   *)
(* of the program is the sequence of the steps that a run of it takes.      *)
(***************************************************************************)
EXTENDS Naturals, Sequences, FiniteSets, SequencesExt, Functions

CONSTANTS
    Caps,
    Def,         \* per capability: [name, intent, input, returns, calls, resumes, plugin]
    StartsWith,  \* a first hump that only starts with a verb: its verb
    Undoes,      \* a first hump un<verb>: the verb
    Singular     \* a hump that ends with s: the hump without it

Name(c) == Def[c].name
Key(c) == Last(Name(c))
Group(c) == Front(Name(c))

BadHump == "_"
ValidKey(key) == key # <<>> /\ BadHump \notin ToSet(key)

-----------------------------------------------------------------------------
(* Intent                                                                   *)
QueryPrefixes == {"get", "find", "fetch", "read", "list", "search", "filter",
                  "me", "status", "health", "count", "check"}
UpdatePrefixes == {"update", "edit", "patch", "modify"}
ReplacePrefixes == {"replace", "set", "put"}
DeletePrefixes == {"delete", "remove", "destroy", "cancel"}

Verb(key) == IF Head(key) \in DOMAIN StartsWith THEN StartsWith[Head(key)] ELSE Head(key)

InferIntent(key) ==
    CASE Verb(key) \in QueryPrefixes -> "query"
      [] Verb(key) \in UpdatePrefixes -> "update"
      [] Verb(key) \in ReplacePrefixes -> "replace"
      [] Verb(key) \in DeletePrefixes -> "delete"
      [] OTHER -> "mutation"

ResolveIntent(c) == IF Def[c].intent = "inferred" THEN InferIntent(Key(c)) ELSE Def[c].intent

-----------------------------------------------------------------------------
(* The builder: every call returns a new capability.                        *)
Capability(guards, resolver) ==
    [guards |-> guards, inputGuards |-> <<>>, fn |-> resolver, output |-> "none"]

\* resolve, for composition: the guards, then the resolver, with no validation.
Resolve(cap) == cap.guards \o cap.inputGuards \o cap.fn

\* A resolver may await the resolve of another capability, and rejects with
\* it, as one that does not catch does; what follows is a step of its own.
Resolver(c, tree) ==
    IF Def[c].calls \in DOMAIN tree THEN <<c>> \o Resolve(tree[Def[c].calls]) \o <<Def[c].resumes>> ELSE <<c>>

Resumptions == {Def[c].resumes : c \in {d \in Caps : Def[d].calls # "none"}}

\* .guard, .inputGuard, .enhance with a layer around _resolverOnly, .output
Chain(cap, op) ==
    CASE op.chain = "guard" -> [cap EXCEPT !.guards = Append(@, op.step)]
      [] op.chain = "inputGuard" -> [cap EXCEPT !.inputGuards = Append(@, op.step)]
      [] op.chain = "enhance" -> [cap EXCEPT !.fn = <<op.step>> \o @]
      [] op.chain = "output" -> [cap EXCEPT !.output = op.step]

-----------------------------------------------------------------------------
(* compileRegistry and the plugins                                          *)
Plugins(tree) == {c \in DOMAIN tree : Def[c].plugin}

\* A plugin's capability is a key at the top of the tree.
Collides(tree) ==
    \E p \in Plugins(tree) : \E c \in DOMAIN tree \ {p} : Head(Name(c)) = Head(Name(p))

InvalidKeys(tree) == \E c \in DOMAIN tree : \E key \in ToSet(Name(c)) : ~ValidKey(key)

\* z.object({}): the engine skips the validation.
SkipsValidation(c) == Def[c].input.given /\ DOMAIN Def[c].input.shape = {}

\* Mutant: the named copy takes the resolve of the original for its resolver.
NamedCopyOfResolve(cap) == [cap EXCEPT !.fn = Resolve(cap)]

\* The named copy takes _resolverOnly, and everything else, of the original.
NamedCopy(cap) == cap

CompileRegistry(tree) == [c \in DOMAIN tree |-> NamedCopy(tree[c])]

\* What the execution engine runs for a valid input.
Pipeline(cap) == cap.guards \o <<"validate">> \o cap.inputGuards \o cap.fn

\* A step that rejects ends the run.
Run(steps, rejecting) ==
    LET stops == {i \in DOMAIN steps : steps[i] \in rejecting}
    IN  IF stops = {} THEN steps
        ELSE SubSeq(steps, 1, CHOOSE i \in stops : \A j \in stops : i <= j)
=============================================================================
