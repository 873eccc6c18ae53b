---------------------------- MODULE HttpTransport ---------------------------
(***************************************************************************)
(* The HTTP transports of a server: node:http with the request handler of   *)
(* packages/transports/rest/src/transport.ts and the shutdown of            *)
(* packages/core/src/http-shutdown.ts, which REST, GraphQL and MCP share.   *)
(*                                                                          *)
(* A transport is its position in the server's list.  A connection carries  *)
(* one exchange at a time (keep-alive, no pipelining).  The handler goes    *)
(* on when its connection is gone: nobody gets its answer then.             *)
(***************************************************************************)
EXTENDS Naturals, FiniteSets

CONSTANTS
    N,       \* number of transports
    Conn     \* connections

ASSUME HttpAssumption == N \in Nat \ {0}

Transport == 1 .. N

VARIABLES
    timed,   \* options.timeout is not `false`
    server,  \* "down" (null) | "binding" | "up" | "failed" | "draining", or
             \* null but "abandoned" (still binding) | "orphan" (listening)
    to,      \* the transport a connection goes to
    socket,  \* "none" | "open" | "closed"
    stage,   \* the handler: "idle" | "reading" (the body) | "invoking"
    timer,   \* the timer of the exchange is armed
    aborted, \* the signal of the exchange is aborted
    reply,   \* answer of the exchange: "none" | "awaited" | "data" | "error" | "504"
    replies  \* history: how often the exchange has been answered

exchange == <<timed, stage, timer, aborted, reply, replies>>
vars == <<server, to, socket, exchange>>

Init ==
    /\ timed \in BOOLEAN
    /\ server = [t \in Transport |-> "down"]
    /\ to \in [Conn -> Transport]
    /\ socket = [c \in Conn |-> "none"]
    /\ stage = [c \in Conn |-> "idle"]
    /\ timer = [c \in Conn |-> FALSE]
    /\ aborted = [c \in Conn |-> FALSE]
    /\ reply = [c \in Conn |-> "none"]
    /\ replies = [c \in Conn |-> 0]

Listens(t) == server[t] \in {"up", "orphan"}
Open(t) == {c \in Conn : to[c] = t /\ socket[c] = "open"}
InFlight(c) == stage[c] # "idle"
Disconnected(C) == [c \in Conn |-> IF c \in C THEN "closed" ELSE socket[c]]

-----------------------------------------------------------------------------
(* Exchanges.                                                               *)

Answer(c, status) ==
    /\ stage' = [stage EXCEPT ![c] = "idle"]
    /\ reply' = [reply EXCEPT ![c] = status]
    /\ replies' = [replies EXCEPT ![c] = @ + 1]

Connect(c) ==
    /\ socket[c] = "none" /\ Listens(to[c])
    /\ socket' = [socket EXCEPT ![c] = "open"]
    /\ UNCHANGED <<server, to, exchange>>

\* A request arrives, which matches no route, has no body, or has one.
Arrive(c, what) ==
    /\ socket[c] = "open" /\ ~InFlight(c)
    /\ aborted' = [aborted EXCEPT ![c] = FALSE]
    /\ CASE what = "unrouted" ->
                /\ reply' = [reply EXCEPT ![c] = "error"]
                /\ replies' = [replies EXCEPT ![c] = 1]
                /\ UNCHANGED <<stage, timer>>
         [] what # "unrouted" ->
                /\ stage' = [stage EXCEPT ![c] = IF what = "body" THEN "reading" ELSE "invoking"]
                /\ timer' = [timer EXCEPT ![c] = what = "bare" /\ timed]
                /\ reply' = [reply EXCEPT ![c] = "awaited"]
                /\ replies' = [replies EXCEPT ![c] = 0]
    /\ UNCHANGED <<timed, server, to, socket>>

\* readBody and the parsers: too large, broken or no object is a 4xx.
ReadBody(c, usable) ==
    /\ stage[c] = "reading"
    /\ socket[c] = "open" \/ ~usable
    /\ IF usable
       THEN /\ stage' = [stage EXCEPT ![c] = "invoking"]
            /\ timer' = [timer EXCEPT ![c] = timed]
            /\ UNCHANGED <<reply, replies>>
       ELSE Answer(c, "error") /\ UNCHANGED timer
    /\ UNCHANGED <<timed, server, to, socket, aborted>>

\* Mutant: the timer is not cleared when the invocation wins the race.
SettlesLeavingTimer(c, outcome) ==
    /\ stage[c] = "invoking"
    /\ Answer(c, IF outcome = "ok" THEN "data" ELSE "error")
    /\ UNCHANGED <<timed, server, to, socket, timer, aborted>>

(* The invocation settles first.  Rejections, and results that cannot be    *)
(* serialized, end in the catch of `finish`: a 500.                         *)
Settles(c, outcome) ==
    /\ stage[c] = "invoking"
    /\ Answer(c, IF outcome = "ok" THEN "data" ELSE "error")
    /\ timer' = [timer EXCEPT ![c] = FALSE]
    /\ UNCHANGED <<timed, server, to, socket, aborted>>

\* Mutant: the timer aborts the invocation and leaves the answer to it.
TimesOutSilently(c) ==
    /\ timer[c]
    /\ timer' = [timer EXCEPT ![c] = FALSE]
    /\ aborted' = [aborted EXCEPT ![c] = TRUE]
    /\ UNCHANGED <<timed, server, to, socket, stage, reply, replies>>

(* The timer fires: it aborts the signal and wins the race.                 *)
TimesOut(c) ==
    /\ timer[c]
    /\ timer' = [timer EXCEPT ![c] = FALSE]
    /\ aborted' = [aborted EXCEPT ![c] = TRUE]
    /\ IF InFlight(c) THEN Answer(c, "504") ELSE UNCHANGED <<stage, reply, replies>>
    /\ UNCHANGED <<timed, server, to, socket>>

\* The client closes, or node:http drops an idle keep-alive connection.
Disconnect(c) ==
    /\ socket[c] = "open"
    /\ socket' = Disconnected({c})
    /\ UNCHANGED <<server, to, exchange>>

-----------------------------------------------------------------------------
(* mount and unmount.                                                       *)

Mount(t) == server' = [server EXCEPT ![t] = "binding"]

Bound(t) ==
    server' = [server EXCEPT ![t] = IF @ = "binding" THEN "up" ELSE "orphan"]

BindFails(t) ==
    server' = [server EXCEPT ![t] = IF @ = "binding" THEN "failed" ELSE "down"]

\* Mutant: every connection is closed at once.
UnmountClosingAll(t) ==
    /\ server' = [server EXCEPT ![t] = "draining"]
    /\ socket' = Disconnected(Open(t))

(* close() stops listening, closeIdleConnections() drops who is idle.       *)
Unmount(t) ==
    /\ server' = [server EXCEPT ![t] = "draining"]
    /\ socket' = Disconnected({c \in Open(t) : ~InFlight(c)})

\* close() of a server that does not listen yet, or never will, rejects.
UnmountRejects(t) ==
    server' = [server EXCEPT ![t] = IF @ = "binding" THEN "abandoned" ELSE "down"]

\* Mutant: the drain timer closes only who is idle by then.
DrainEndsForIdle(t) ==
    /\ server[t] = "draining" /\ Open(t) # {}
    /\ socket' = Disconnected({c \in Open(t) : ~InFlight(c)})
    /\ UNCHANGED <<server, to, exchange>>

\* drainMs after close(): closeAllConnections().
DrainEnds(t) ==
    /\ server[t] = "draining" /\ Open(t) # {}
    /\ socket' = Disconnected(Open(t))
    /\ UNCHANGED <<server, to, exchange>>

\* close() calls back when the last connection is gone.
Closed(t) ==
    /\ server[t] = "draining" /\ Open(t) = {}
    /\ server' = [server EXCEPT ![t] = "down"]

Exchange(c) ==
    \/ Connect(c) \/ TimesOut(c) \/ Disconnect(c)
    \/ \E what \in {"unrouted", "bare", "body"} : Arrive(c, what)
    \/ \E usable \in BOOLEAN : ReadBody(c, usable)
    \/ \E outcome \in {"ok", "error", "rejected"} : Settles(c, outcome)
=============================================================================
