--------------------------- MODULE ServerLifecycle --------------------------
(***************************************************************************)
(* start and stop of createServer (packages/core/src/server.ts) over its    *)
(* HTTP transports: mounts and unmounts are awaited one after the other,    *)
(* requests come in meanwhile, and stop may be called while start is still  *)
(* awaiting a mount (a SIGTERM during startup).                             *)
(*                                                                          *)
(* Assumed of the application: it calls start again only after a stop, and  *)
(* not after a stop that it called during start; it awaits each stop before *)
(* the next.  It may stop a server that is stopped, or was never started.   *)
(***************************************************************************)
EXTENDS HttpTransport

CONSTANT MaxStarts  \* bound: calls of start

ASSUME StartsAssumption == MaxStarts \in Nat

VARIABLES
    mounting,    \* the transport that start awaits, 0 if start is not running
    unmounting,  \* the transport that stop is at, 0 if stop is not running
    starts,      \* calls of start so far
    running,     \* start was called, and no stop has settled since
    raced,       \* history: a stop was called while start was running
    stopped      \* history: how the latest stop ended: "none" | "ok" | "rejected"

calls == <<mounting, unmounting, starts, running, raced, stopped>>

ServerInit ==
    /\ Init
    /\ mounting = 0 /\ unmounting = 0 /\ starts = 0
    /\ running = FALSE /\ raced = FALSE /\ stopped = "none"

-----------------------------------------------------------------------------
Start ==
    /\ mounting = 0 /\ unmounting = 0 /\ ~running /\ ~raced /\ starts < MaxStarts
    /\ mounting' = 1 /\ Mount(1)
    /\ starts' = starts + 1
    /\ running' = TRUE /\ raced' = FALSE /\ stopped' = "none"
    /\ UNCHANGED <<to, socket, exchange, unmounting>>

(* The mount that start awaits has resolved: the next one, if any.          *)
MountResolves(t) ==
    /\ mounting = t /\ server[t] \in {"binding", "abandoned"}
    /\ IF t < N
       THEN /\ mounting' = t + 1
            /\ server' = [server EXCEPT ![t] = IF @ = "binding" THEN "up" ELSE "orphan",
                                        ![t + 1] = "binding"]
       ELSE mounting' = 0 /\ Bound(t)
    /\ UNCHANGED <<to, socket, exchange, unmounting, starts, running, raced, stopped>>

\* A port that is taken rejects start; transports mounted before stay up.
MountRejects(t) ==
    /\ mounting = t /\ server[t] \in {"binding", "abandoned"}
    /\ BindFails(t)
    /\ mounting' = 0
    /\ UNCHANGED <<to, socket, exchange, unmounting, starts, running, raced, stopped>>

Stop ==
    /\ unmounting = 0
    /\ unmounting' = 1
    /\ raced' = (raced \/ mounting # 0)
    /\ UNCHANGED <<vars, mounting, starts, running, stopped>>

\* The loop of stop goes on after transport t, or is over.
StopsAfter(t) ==
    IF t < N THEN unmounting' = t + 1 /\ UNCHANGED <<running, stopped>>
             ELSE unmounting' = 0 /\ running' = FALSE /\ stopped' = "ok"

\* Mutant: stop does not await the unmount.
StopUnmountsAtOnce(t) ==
    /\ unmounting = t /\ server[t] = "up"
    /\ Unmount(t)
    /\ StopsAfter(t)
    /\ UNCHANGED <<to, exchange, mounting, starts, raced>>

StopUnmounts(t) ==
    /\ unmounting = t /\ server[t] = "up"
    /\ Unmount(t)
    /\ UNCHANGED <<to, exchange, calls>>

StopUnmounted(t) ==
    /\ unmounting = t
    /\ Closed(t)
    /\ StopsAfter(t)
    /\ UNCHANGED <<to, socket, exchange, mounting, starts, raced>>

\* `if (!server) return;`
StopSkips(t) ==
    /\ unmounting = t /\ server[t] \in {"down", "abandoned", "orphan"}
    /\ StopsAfter(t)
    /\ UNCHANGED <<vars, mounting, starts, raced>>

\* The first unmount that rejects ends stop.
StopRejects(t) ==
    /\ unmounting = t /\ server[t] \in {"failed", "binding"}
    /\ UnmountRejects(t)
    /\ unmounting' = 0 /\ running' = FALSE /\ stopped' = "rejected"
    /\ UNCHANGED <<to, socket, exchange, mounting, starts, raced>>

Requests == (\E c \in Conn : Exchange(c)) \/ (\E t \in Transport : DrainEnds(t))

Next ==
    \/ Start \/ Stop
    \/ \E t \in Transport : \/ MountResolves(t) \/ MountRejects(t)
                            \/ StopUnmounts(t) \/ StopUnmounted(t)
                            \/ StopSkips(t) \/ StopRejects(t)
    \/ Requests /\ UNCHANGED calls

serverVars == <<vars, calls>>
Spec == ServerInit /\ [][Next]_serverVars

(* Promises settle and timers fire.  A client owes nothing, and a resolver  *)
(* may hang for ever.                                                       *)
FairSpec ==
    /\ Spec
    /\ \A t \in Transport :
          /\ WF_serverVars(MountResolves(t) \/ MountRejects(t))
          /\ WF_serverVars(StopUnmounts(t) \/ StopUnmounted(t)
                             \/ StopSkips(t) \/ StopRejects(t))
          /\ WF_serverVars(DrainEnds(t) /\ UNCHANGED calls)
    /\ \A c \in Conn : WF_serverVars(TimesOut(c) /\ UNCHANGED calls)

-----------------------------------------------------------------------------
(* Types; an exchange is answered at most once, and exactly once when the   *)
(* handler is done with it.                                                 *)
TypeOK ==
    /\ timed \in BOOLEAN
    /\ server \in [Transport -> {"down", "binding", "up", "failed", "draining",
                                 "abandoned", "orphan"}]
    /\ to \in [Conn -> Transport]
    /\ socket \in [Conn -> {"none", "open", "closed"}]
    /\ stage \in [Conn -> {"idle", "reading", "invoking"}]
    /\ timer \in [Conn -> BOOLEAN] /\ aborted \in [Conn -> BOOLEAN]
    /\ reply \in [Conn -> {"none", "awaited", "data", "error", "504"}]
    /\ replies \in [Conn -> 0 .. 1]
    /\ \A c \in Conn : /\ InFlight(c) <=> reply[c] = "awaited"
                       /\ reply[c] \in {"data", "error", "504"} <=> replies[c] = 1
    /\ mounting \in 0 .. N /\ unmounting \in 0 .. N /\ starts \in 0 .. MaxStarts
    /\ running \in BOOLEAN /\ raced \in BOOLEAN
    /\ stopped \in {"none", "ok", "rejected"}

(* A resolver sees its signal aborted only if the caller was told 504, and  *)
(* then always: neither a late timer nor a late result contradicts what     *)
(* the caller got.                                                          *)
AbortMeans504 == \A c \in Conn : aborted[c] <=> reply[c] = "504"

(* The server cuts an exchange in flight only at the end of the drain       *)
(* window: one that settles before it is answered on an open connection.    *)
DrainSparesInFlight ==
    [][\A c \in Conn : socket[c] = "open" /\ socket'[c] = "closed" /\ InFlight(c)
           => Disconnect(c) \/ DrainEnds(to[c])]_serverVars

(* A stop that was called after start had settled, be it with a failure,    *)
(* leaves no transport listening and no connection open, even if it         *)
(* rejects.                                                                 *)
StoppedIsDown ==
    stopped # "none" /\ ~raced /\ ~running =>
        /\ \A t \in Transport : server[t] = "down"
        /\ \A c \in Conn : socket[c] # "open"

(* stop settles, whatever the clients and the resolvers do.                 *)
StopSettles == unmounting # 0 ~> unmounting = 0

(* With a timeout every invocation is answered, even if the resolver hangs. *)
InvocationsAreAnswered ==
    timed => \A c \in Conn : stage[c] = "invoking" ~> stage[c] = "idle"
=============================================================================
