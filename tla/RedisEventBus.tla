--------------------------- MODULE RedisEventBus ----------------------------
(***************************************************************************)
(* createRedisEventBus of packages/stores/redis/src/event-bus.ts: publish   *)
(* sends through a Redis channel, and what comes back over the channel is   *)
(* published on a local bus, which EventBus models.  A bus may also be the  *)
(* local one alone.                                                         *)
(*                                                                          *)
(* This is one instance in full.  The others are the publishers that put    *)
(* their messages on the channel; they hear what this one hears.            *)
(***************************************************************************)
EXTENDS EventBus, Sequences, SequencesExt, Filters

CONSTANTS
    Kinds,     \* kinds of bus: "memory", "redis"
    Foreign,   \* a message on the channel that is no event of a bus
    MaxLog     \* bound: messages the broker takes in all

ASSUME RedisAssumption == Foreign \notin Event /\ "none" # Foreign

VARIABLES
    kind,      \* which bus the application was given
    link,      \* of the subscriber: connecting, subscribed, failed or lost
    outbox,    \* PUBLISH commands on their way to the broker
    channel,   \* messages on their way from the broker to this instance
    log,       \* history: the messages the broker took since the subscription
    heard      \* history: the events given to local.publish since then

redisVars == <<kind, link, outbox, channel, log, heard>>

RedisInit ==
    /\ Init
    /\ kind \in Kinds
    /\ link = IF kind = "redis" THEN "connecting" ELSE "none"
    /\ outbox = <<>> /\ channel = <<>> /\ log = <<>> /\ heard = <<>>

Events(messages) == Only(messages, Event)

-----------------------------------------------------------------------------
(* sub.subscribe(channel): a failure is logged and never retried.  Only     *)
(* what the broker takes from then on comes over the channel.               *)
Subscribed ==
    /\ link \in {"connecting", "lost"}
    /\ link' = "subscribed"
    /\ log' = <<>> /\ heard' = <<>>
    /\ UNCHANGED <<vars, kind, outbox, channel>>

SubscribeFails ==
    /\ link = "connecting"
    /\ link' = "failed"
    /\ UNCHANGED <<vars, kind, outbox, channel, log, heard>>

\* The connection drops with what was on its way; the client connects again.
ConnectionLost ==
    /\ link = "subscribed"
    /\ link' = "lost" /\ channel' = <<>>
    /\ UNCHANGED <<vars, kind, outbox, log, heard>>

\* Mutant: the instance also publishes on its local bus.
SendBoth(e) ==
    /\ kind = "redis" /\ Len(outbox) < MaxLog
    /\ outbox' = Append(outbox, e)
    /\ heard' = Append(heard, e)
    /\ UNCHANGED <<vars, kind, link, channel, log>>

(* publish sends and forgets; a handler that publishes does the same.       *)
Send(e) ==
    /\ kind = "redis" /\ Len(outbox) < MaxLog
    /\ outbox' = Append(outbox, e)
    /\ UNCHANGED <<vars, kind, link, channel, log, heard>>

\* The broker takes a message: every subscriber is to hear it.
Broadcast(m) ==
    /\ Len(log) < MaxLog
    /\ log' = Append(log, m)
    /\ channel' = IF link = "subscribed" THEN Append(channel, m) ELSE channel
    /\ UNCHANGED <<vars, kind, link, heard>>

BrokerTakes == outbox # <<>> /\ Broadcast(Head(outbox)) /\ outbox' = Tail(outbox)
OthersPublish(m) == kind = "redis" /\ Broadcast(m) /\ UNCHANGED outbox

\* The command fails: its message is lost, and the failure is logged.
PublishFails ==
    /\ outbox # <<>>
    /\ outbox' = Tail(outbox)
    /\ UNCHANGED <<vars, kind, link, channel, log, heard>>

(* on('message'): foreign traffic is ignored, an event is published on the  *)
(* local bus.  publish is synchronous, so none is running.                  *)
OnMessage ==
    /\ current = "none" /\ channel # <<>>
    /\ channel' = Tail(channel)
    /\ LET m == Head(channel) IN
           IF m = Foreign THEN UNCHANGED <<vars, heard>>
           ELSE /\ heard' = Append(heard, m)
                /\ IF Subscribers(m) # {} THEN Publish(m) ELSE UNCHANGED vars
    /\ UNCHANGED <<kind, link, outbox, log>>

-----------------------------------------------------------------------------
\* The steps of the local bus, whose publish is the application's or OnMessage's.
LocalStep ==
    /\ \/ \E e \in Event : kind = "memory" /\ Publish(e)
       \/ \E e \in Event, k \in Key : Subscribe(e, k) \/ Unsubscribe(e, k)
       \/ \E k \in Key : UnsubscribeAll(k)
       \/ \E k \in Key, throws \in BOOLEAN : Visit(k, throws)
       \/ PublishReturns
    /\ UNCHANGED redisVars

RedisNext ==
    \/ LocalStep
    \/ Subscribed \/ SubscribeFails \/ ConnectionLost
    \/ \E e \in Event : Send(e)
    \/ \E m \in Event \union {Foreign} : OthersPublish(m)
    \/ BrokerTakes \/ PublishFails \/ OnMessage

RedisSpec == RedisInit /\ [][RedisNext]_<<vars, redisVars>>

-----------------------------------------------------------------------------
(* "Ordering and delivery are uniform across instances": an instance hears, *)
(* or is still to hear, the events that the broker has taken since its      *)
(* subscription, its own and those of others, each once and in the order    *)
(* of the broker, whatever is lost before the broker.                       *)
UniformOrder ==
    link = "subscribed" => heard \o Events(channel) = Events(log)
=============================================================================
