----------------------------- MODULE WsTransport ----------------------------
(***************************************************************************)
(* packages/transports/ws/src/transport.ts on top of the event bus of       *)
(* packages/core/src/event-bus.ts: the life of the connections, their       *)
(* subscriptions, the heartbeat and the shutdown.                           *)
(*                                                                          *)
(* A subscribe message runs in two steps when authorizeSubscribe is set:    *)
(* SubscribeMessage up to its await, AuthorizeSettles from there.  Between  *)
(* them the connection handles other messages, and may close.               *)
(*                                                                          *)
(* The bus keys a client's entry by the id of the connection, so that       *)
(* listeners is a set of pairs; the library `ws` is modelled by the         *)
(* states of a socket it goes through.                                      *)
(***************************************************************************)
EXTENDS Naturals, FiniteSets

CONSTANTS
    Conn,        \* connections; a client that reconnects is another one
    Event,
    MaxPending   \* bound: authorizations in flight per connection and event

ASSUME WsAssumption == MaxPending \in Nat

VARIABLES
    authorize,   \* options.authorizeSubscribe is set
    server,      \* "mounted" | "closing" (unmount awaits) | "unmounted"
    socket,      \* "none" | "open" | "closing" | "dead" (no 'close' event
                 \* yet) | "closed"
    answers,     \* connections whose client answers pings
    alive,       \* the WeakSet of the heartbeat
    unanswered,  \* history: pinged, and no pong since
    listeners,   \* entries of the event bus: <<connection, event>>
    unsubscribe, \* keys of the connections' unsubscribeFns maps
    pending,     \* authorizations in flight
    subscribed,  \* history: subscribed according to the replies sent
    granted,     \* history: authorized at some time
    late         \* history: authorization in flight when the socket closed

subs == <<authorize, listeners, unsubscribe, pending, subscribed, granted, late>>
wsVars == <<server, socket, answers, alive, unanswered, subs>>

WsInit ==
    /\ authorize \in BOOLEAN
    /\ server = "mounted"
    /\ socket = [c \in Conn |-> "none"]
    /\ answers = Conn
    /\ alive = {} /\ unanswered = {}
    /\ listeners = {} /\ unsubscribe = {}
    /\ pending = [c \in Conn |-> [e \in Event |-> 0]]
    /\ subscribed = {} /\ granted = {} /\ late = {}

Clients == {c \in Conn : socket[c] \in {"open", "closing", "dead"}}
Heard(c) == socket[c] \in {"open", "closing"}

-----------------------------------------------------------------------------
(* Messages of a client.                                                    *)

Connect(c) ==
    /\ server = "mounted" /\ socket[c] = "none"
    /\ socket' = [socket EXCEPT ![c] = "open"]
    /\ alive' = alive \union {c}
    /\ UNCHANGED <<server, answers, unanswered, subs>>

(* eventBus.subscribe after the unsubscribe function of an earlier          *)
(* subscription, then the reply.                                            *)
DoSubscribe(c, e) ==
    /\ listeners' = listeners \union {<<c, e>>}
    /\ unsubscribe' = unsubscribe \union {<<c, e>>}
    /\ subscribed' = IF socket[c] = "open" THEN subscribed \union {<<c, e>>}
                                           ELSE subscribed

SubscribeMessage(c, e) ==
    /\ Heard(c)
    /\ IF authorize
       THEN /\ pending[c][e] < MaxPending
            /\ pending' = [pending EXCEPT ![c][e] = @ + 1]
            /\ UNCHANGED <<listeners, unsubscribe, subscribed>>
       ELSE DoSubscribe(c, e) /\ UNCHANGED pending
    /\ UNCHANGED <<authorize, server, socket, answers, alive, unanswered, granted, late>>

\* Mutant: what authorizeSubscribe answers is not awaited.
AuthorizeIgnored(c, e, allowed) ==
    /\ pending[c][e] > 0
    /\ pending' = [pending EXCEPT ![c][e] = @ - 1]
    /\ DoSubscribe(c, e)
    /\ granted' = IF allowed THEN granted \union {<<c, e>>} ELSE granted
    /\ UNCHANGED <<authorize, server, socket, answers, alive, unanswered, late>>

(* authorizeSubscribe settles: false and a rejection are a Forbidden reply. *)
AuthorizeSettles(c, e, allowed) ==
    /\ pending[c][e] > 0
    /\ pending' = [pending EXCEPT ![c][e] = @ - 1]
    /\ IF allowed
       THEN DoSubscribe(c, e) /\ granted' = granted \union {<<c, e>>}
       ELSE UNCHANGED <<listeners, unsubscribe, subscribed, granted>>
    /\ UNCHANGED <<authorize, server, socket, answers, alive, unanswered, late>>

\* Mutant: the unsubscribe function is forgotten before it is called.
UnsubscribeForgets(c, e) ==
    /\ Heard(c)
    /\ unsubscribe' = unsubscribe \ {<<c, e>>}
    /\ subscribed' = IF socket[c] = "open" THEN subscribed \ {<<c, e>>} ELSE subscribed
    /\ UNCHANGED <<authorize, server, socket, answers, alive, unanswered, listeners, pending,
                   granted, late>>

UnsubscribeMessage(c, e) ==
    /\ Heard(c)
    /\ listeners' = IF <<c, e>> \in unsubscribe THEN listeners \ {<<c, e>>} ELSE listeners
    /\ unsubscribe' = unsubscribe \ {<<c, e>>}
    /\ subscribed' = IF socket[c] = "open" THEN subscribed \ {<<c, e>>} ELSE subscribed
    /\ UNCHANGED <<authorize, server, socket, answers, alive, unanswered, pending, granted, late>>

Pong(c) ==
    /\ Heard(c) /\ c \in answers /\ c \in unanswered
    /\ alive' = alive \union {c}
    /\ unanswered' = unanswered \ {c}
    /\ UNCHANGED <<server, socket, answers, subs>>

-----------------------------------------------------------------------------
(* The network and the peer.                                                *)

\* The client, or the network under it, stops answering for good.
FallSilent(c) ==
    /\ c \in answers /\ socket[c] = "open"
    /\ answers' = answers \ {c}
    /\ UNCHANGED <<server, socket, alive, unanswered, subs>>

\* The peer closes, resets, or sends something that is not JSON (1003).
Hangup(c) ==
    /\ socket[c] = "open"
    /\ \E s \in {"closing", "dead"} : socket' = [socket EXCEPT ![c] = s]
    /\ UNCHANGED <<server, answers, alive, unanswered, subs>>

\* The close handshake of a live peer completes.
Handshake(c) ==
    /\ socket[c] = "closing" /\ c \in answers
    /\ socket' = [socket EXCEPT ![c] = "dead"]
    /\ UNCHANGED <<server, answers, alive, unanswered, subs>>

\* Mutant: the 'close' handler removes nothing.
CloseEventKeepsEntries(c) ==
    /\ socket[c] = "dead"
    /\ socket' = [socket EXCEPT ![c] = "closed"]
    /\ late' = late \union {<<c, e>> : e \in {e \in Event : pending[c][e] > 0}}
    /\ UNCHANGED <<authorize, server, answers, alive, unanswered, listeners, unsubscribe, pending,
                   subscribed, granted>>

\* ws emits 'close': eventBus.unsubscribeAll(clientId).
CloseEvent(c) ==
    /\ socket[c] = "dead"
    /\ socket' = [socket EXCEPT ![c] = "closed"]
    /\ listeners' = {s \in listeners : s[1] # c}
    /\ late' = late \union {<<c, e>> : e \in {e \in Event : pending[c][e] > 0}}
    /\ UNCHANGED <<authorize, server, answers, alive, unanswered, unsubscribe, pending,
                   subscribed, granted>>

-----------------------------------------------------------------------------
(* The timers and the shutdown.                                             *)

\* Mutant: the heartbeat pings a connection without marking it.
HeartbeatNeverMarks ==
    /\ server = "mounted" /\ Clients # {}
    /\ socket' = [c \in Conn |-> IF c \in Clients \ alive THEN "dead" ELSE socket[c]]
    /\ unanswered' = unanswered \union {c \in Clients \intersect alive : Heard(c)}
    /\ UNCHANGED <<server, answers, alive, subs>>

(* Clients not marked alive since the previous beat are terminated, the     *)
(* others are unmarked and pinged.                                          *)
Heartbeat ==
    /\ server = "mounted" /\ Clients # {}
    /\ socket' = [c \in Conn |-> IF c \in Clients \ alive THEN "dead" ELSE socket[c]]
    /\ alive' = alive \ Clients
    /\ unanswered' = unanswered \union {c \in Clients \intersect alive : Heard(c)}
    /\ UNCHANGED <<server, answers, subs>>

Unmount ==
    /\ server = "mounted"
    /\ server' = "closing"
    /\ socket' = [c \in Conn |-> IF socket[c] = "open" THEN "closing" ELSE socket[c]]
    /\ UNCHANGED <<answers, alive, unanswered, subs>>

\* Mutant: the straggler timer only asks again for a clean close.
StragglersAskAgain ==
    /\ server = "closing" /\ Clients # {}
    /\ socket' = [c \in Conn |-> IF socket[c] = "open" THEN "closing" ELSE socket[c]]
    /\ UNCHANGED <<server, answers, alive, unanswered, subs>>

\* shutdownTimeoutMs after unmount began: terminate who is left.
Stragglers ==
    /\ server = "closing" /\ Clients # {}
    /\ socket' = [c \in Conn |-> IF c \in Clients THEN "dead" ELSE socket[c]]
    /\ UNCHANGED <<server, answers, alive, unanswered, subs>>

\* server.close calls back when the last client is gone.
Unmounted ==
    /\ server = "closing" /\ Clients = {}
    /\ server' = "unmounted"
    /\ UNCHANGED <<socket, answers, alive, unanswered, subs>>

WsNext ==
    \/ \E c \in Conn : \/ Connect(c) \/ Pong(c) \/ FallSilent(c)
                       \/ Hangup(c) \/ Handshake(c) \/ CloseEvent(c)
    \/ \E c \in Conn, e \in Event :
          \/ SubscribeMessage(c, e) \/ UnsubscribeMessage(c, e)
          \/ \E allowed \in BOOLEAN : AuthorizeSettles(c, e, allowed)
    \/ Heartbeat \/ Unmount \/ Stragglers \/ Unmounted

WsSpec == WsInit /\ [][WsNext]_wsVars

(* Timers fire and the library emits 'close' for a dead socket; clients and *)
(* authorizeSubscribe owe the server nothing.                               *)
WsFairSpec ==
    /\ WsSpec
    /\ WF_wsVars(Heartbeat) /\ WF_wsVars(Stragglers) /\ WF_wsVars(Unmounted)
    /\ \A c \in Conn : WF_wsVars(CloseEvent(c))

-----------------------------------------------------------------------------
(* Types; every entry of the bus has an unsubscribe function on record, so  *)
(* that a later unsubscribe message finds it.                               *)
WsTypes ==
    /\ authorize \in BOOLEAN
    /\ server \in {"mounted", "closing", "unmounted"}
    /\ socket \in [Conn -> {"none", "open", "closing", "dead", "closed"}]
    /\ answers \subseteq Conn /\ alive \subseteq Conn /\ unanswered \subseteq Conn
    /\ \A S \in {listeners, unsubscribe, subscribed, granted, late} : S \subseteq Conn \X Event
    /\ pending \in [Conn -> [Event -> 0 .. MaxPending]]
    /\ listeners \subseteq unsubscribe

(* What the client was last told about an event is what the bus does: an    *)
(* open connection is a listener exactly when its latest reply says so, in  *)
(* whatever order authorizations settle.                                    *)
RepliesAreTrue ==
    \A c \in Conn : socket[c] = "open" =>
        \A e \in Event : <<c, e>> \in listeners <=> <<c, e>> \in subscribed

(* docs/transports/websocket.md: "Subscriptions are cleaned up              *)
(* automatically on disconnect."                                            *)
CleanedUp == \A s \in listeners : socket[s[1]] # "closed"

(* With authorizeSubscribe the bus holds only subscriptions that were       *)
(* authorized, and of a closed connection only those whose authorization    *)
(* was in flight when it closed.                                            *)
OnlyGranted == authorize => listeners \subseteq granted
OrphansWereLate == \A s \in listeners : socket[s[1]] = "closed" => s \in late

(* The heartbeat terminates an open connection only if a ping has gone      *)
(* unanswered since the previous beat: a client that has just connected or  *)
(* that answers in time is never dropped.                                   *)
OnlySilentTerminated ==
    [][Heartbeat => \A c \in Conn : socket[c] = "open" /\ socket'[c] = "dead"
                                       => c \in unanswered]_wsVars

(* A connection whose client has fallen silent is closed in the end, be it  *)
(* by the heartbeat or by the shutdown, so that it does not hold its        *)
(* subscriptions for ever.                                                  *)
SilentAreDropped ==
    \A c \in Conn : (socket[c] = "open" /\ c \notin answers) ~> socket[c] = "closed"

(* unmount settles, whatever clients do about the close handshake.          *)
UnmountSettles == server = "closing" ~> server = "unmounted"
=============================================================================
