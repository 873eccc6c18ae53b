--------------------------- MODULE TransportProofs --------------------------
(***************************************************************************)
(* What the transports that keep clients or jobs promise: WebSocket for any *)
(* number of connections, events and authorizations in flight, and the      *)
(* queue for any jobs, consumers and adapters.                              *)
(***************************************************************************)
EXTENDS WsTransport, JobQueue, TLAPS

(***************************************************************************)
(* WebSocket.  The inductive invariant is WsInv: besides what the runs      *)
(* check it says that a connection that is not there yet has nothing        *)
(* (Fresh), that an authorization that survived its connection is on record *)
(* (PendingWasLate), and that a connection the heartbeat would terminate    *)
(* owes a pong (AliveOrAsked).                                              *)
(***************************************************************************)
(* No message of a connection is handled before it connects. *)
Fresh ==
    \A c \in Conn, e \in Event : socket[c] = "none" =>
        /\ <<c, e>> \notin listeners /\ <<c, e>> \notin subscribed
        /\ pending[c][e] = 0

PendingWasLate ==
    \A c \in Conn, e \in Event :
        socket[c] = "closed" /\ pending[c][e] > 0 => <<c, e>> \in late

AliveOrAsked == \A c \in Conn : Heard(c) => c \in alive \/ c \in unanswered

Safe == RepliesAreTrue /\ OnlyGranted /\ OrphansWereLate
WsInv == WsTypes /\ Safe /\ Fresh /\ PendingWasLate /\ AliveOrAsked

(* A mounted server without connections satisfies the invariant.            *)
LEMMA WsBegins == WsInit => WsInv
BY WsAssumption DEF WsInit, WsInv, WsTypes, Safe, RepliesAreTrue, OnlyGranted, OrphansWereLate,
                    Fresh, PendingWasLate, AliveOrAsked, Heard

(* Types are kept by every step.                                            *)
LEMMA WsTypesStay == WsTypes /\ [WsNext]_wsVars => WsTypes'
<1> SUFFICES ASSUME WsTypes, [WsNext]_wsVars PROVE WsTypes'
    OBVIOUS
<1> USE WsAssumption DEF WsTypes
<1>1. ASSUME NEW c \in Conn,
             Connect(c) \/ Pong(c) \/ FallSilent(c) \/ Hangup(c) \/ Handshake(c)
      PROVE WsTypes'
    BY <1>1 DEF Connect, Pong, FallSilent, Hangup, Handshake, subs
<1>2. ASSUME NEW c \in Conn, CloseEvent(c) PROVE WsTypes'
    BY <1>2 DEF CloseEvent
<1>3. ASSUME NEW c \in Conn, NEW e \in Event, SubscribeMessage(c, e) PROVE WsTypes'
    BY <1>3 DEF SubscribeMessage, DoSubscribe
<1>4. ASSUME NEW c \in Conn, NEW e \in Event, UnsubscribeMessage(c, e) PROVE WsTypes'
    BY <1>4, ZenonT(60) DEF UnsubscribeMessage
<1>5. ASSUME NEW c \in Conn, NEW e \in Event, NEW allowed \in BOOLEAN,
             AuthorizeSettles(c, e, allowed)
      PROVE WsTypes'
    BY <1>5 DEF AuthorizeSettles, DoSubscribe
<1>6. CASE Heartbeat
    BY <1>6 DEF Heartbeat, Clients, subs
<1>7. CASE Unmount \/ Stragglers \/ Unmounted
    BY <1>7 DEF Unmount, Stragglers, Unmounted, Clients, subs
<1>8. CASE UNCHANGED wsVars
    BY <1>8 DEF wsVars, subs
<1> QED
    BY <1>1, <1>2, <1>3, <1>4, <1>5, <1>6, <1>7, <1>8 DEF WsNext

(* A step of one connection's life: connecting, answering pings, falling    *)
(* silent and closing.                                                      *)
LEMMA LifeKeepsInv ==
    ASSUME WsInv, WsTypes', NEW c \in Conn,
           Connect(c) \/ Pong(c) \/ FallSilent(c) \/ Hangup(c) \/ Handshake(c) \/ CloseEvent(c)
    PROVE  WsInv'
<1> USE DEF WsInv, WsTypes, Safe
<1>1. Safe'
    BY DEF Connect, Pong, FallSilent, Hangup, Handshake, CloseEvent, subs,
           RepliesAreTrue, OnlyGranted, OrphansWereLate, Fresh
<1>2. Fresh' /\ PendingWasLate'
    BY DEF Connect, Pong, FallSilent, Hangup, Handshake, CloseEvent, subs,
           Fresh, PendingWasLate
<1>3. AliveOrAsked'
    BY DEF Connect, Pong, FallSilent, Hangup, Handshake, CloseEvent, subs, AliveOrAsked, Heard
<1> QED BY <1>1, <1>2, <1>3

(* A step that handles a message about an event.                            *)
LEMMA MessagesKeepInv ==
    ASSUME WsInv, WsTypes', NEW c \in Conn, NEW e \in Event,
           \/ SubscribeMessage(c, e)
           \/ UnsubscribeMessage(c, e)
           \/ \E allowed \in BOOLEAN : AuthorizeSettles(c, e, allowed)
    PROVE  WsInv'
<1> USE DEF WsInv, WsTypes, Safe
<1>1. Safe'
  <2>1. CASE SubscribeMessage(c, e)
    BY <2>1 DEF SubscribeMessage, DoSubscribe, Heard, RepliesAreTrue, OnlyGranted,
                OrphansWereLate
  <2>2. CASE UnsubscribeMessage(c, e)
    BY <2>2 DEF UnsubscribeMessage, Heard, RepliesAreTrue, OnlyGranted, OrphansWereLate
  <2>3. ASSUME NEW allowed \in BOOLEAN, AuthorizeSettles(c, e, allowed) PROVE Safe'
    BY <2>3 DEF AuthorizeSettles, DoSubscribe, RepliesAreTrue, OnlyGranted, OrphansWereLate,
                PendingWasLate
  <2> QED BY <2>1, <2>2, <2>3
<1>2. Fresh' /\ PendingWasLate'
  <2>1. CASE SubscribeMessage(c, e)
    <3>1. socket[c] \in {"open", "closing"} /\ socket' = socket /\ late' = late
      BY <2>1 DEF SubscribeMessage, Heard
    <3>2. \A d \in Conn, f \in Event : d # c =>
             /\ pending'[d][f] = pending[d][f]
             /\ <<d, f>> \in listeners' <=> <<d, f>> \in listeners
             /\ <<d, f>> \in subscribed' <=> <<d, f>> \in subscribed
      BY <2>1 DEF SubscribeMessage, DoSubscribe
    <3> QED BY <3>1, <3>2, ZenonT(60) DEF Fresh, PendingWasLate
  <2>2. CASE UnsubscribeMessage(c, e)
    BY <2>2 DEF UnsubscribeMessage, Fresh, PendingWasLate
  <2>3. ASSUME NEW allowed \in BOOLEAN, AuthorizeSettles(c, e, allowed)
        PROVE  Fresh' /\ PendingWasLate'
    BY <2>3 DEF AuthorizeSettles, DoSubscribe, Fresh, PendingWasLate
  <2> QED BY <2>1, <2>2, <2>3
<1>3. AliveOrAsked'
    BY DEF SubscribeMessage, UnsubscribeMessage, AuthorizeSettles, AliveOrAsked, Heard
<1> QED BY <1>1, <1>2, <1>3

(* A step of the timers or of the shutdown.                                 *)
LEMMA TimersKeepInv ==
    ASSUME WsInv, WsTypes', Heartbeat \/ Unmount \/ Stragglers \/ Unmounted
    PROVE  WsInv'
<1> USE DEF WsInv, WsTypes, Safe
<1>1. Safe'
    BY DEF Heartbeat, Unmount, Stragglers, Unmounted, Clients, subs, RepliesAreTrue,
           OnlyGranted, OrphansWereLate
<1>2. Fresh' /\ PendingWasLate'
    BY DEF Heartbeat, Unmount, Stragglers, Unmounted, Clients, subs, Fresh, PendingWasLate
<1>3. AliveOrAsked'
    BY DEF Heartbeat, Unmount, Stragglers, Unmounted, Clients, subs, AliveOrAsked, Heard
<1> QED BY <1>1, <1>2, <1>3

(* No step of a client, the network, a timer or the shutdown breaks the     *)
(* invariant.                                                               *)
LEMMA WsGoes == WsInv /\ [WsNext]_wsVars => WsInv'
<1> SUFFICES ASSUME WsInv, [WsNext]_wsVars PROVE WsInv'
    OBVIOUS
<1>1. WsTypes'
    BY WsTypesStay DEF WsInv
<1>2. CASE UNCHANGED wsVars
    BY <1>1, <1>2 DEF wsVars, subs, WsInv, Safe, RepliesAreTrue, OnlyGranted, OrphansWereLate,
                      Fresh, PendingWasLate, AliveOrAsked, Heard
<1> QED
    BY <1>1, <1>2, LifeKeepsInv, MessagesKeepInv, TimersKeepInv DEF WsNext

(* The inductive invariant holds in every reachable state.                  *)
THEOREM WsInvariant == WsSpec => []WsInv
<1>1. QED BY WsBegins, WsGoes, PTL DEF WsSpec

(* Every variable keeps its type, and every entry of the bus can be undone. *)
THEOREM WsTypeCorrect == WsSpec => []WsTypes
<1>1. QED BY WsInvariant, PTL DEF WsInv

(* What a client was last told about an event is what the bus does.         *)
THEOREM RepliesAreRight == WsSpec => []RepliesAreTrue
<1>1. QED BY WsInvariant, PTL DEF WsInv, Safe

(* With authorizeSubscribe only authorized subscriptions are in the bus,    *)
(* whatever was unsubscribed, closed or shut down while one was decided.    *)
THEOREM SubscriptionsAreRight == WsSpec => []OnlyGranted
<1>1. QED BY WsInvariant, PTL DEF WsInv, Safe

(* An entry of the bus outlives its connection only if its authorization    *)
(* was in flight when the connection closed: cleanup misses no other.       *)
THEOREM LeaksAreLate == WsSpec => []OrphansWereLate
<1>1. QED BY WsInvariant, PTL DEF WsInv, Safe

(* The heartbeat terminates only connections that owe a pong.               *)
THEOREM TerminatedWereSilent == WsSpec => OnlySilentTerminated
<1> DEFINE Silent == Heartbeat => \A c \in Conn :
                       socket[c] = "open" /\ socket'[c] = "dead" => c \in unanswered
<1>1. WsInv /\ [WsNext]_wsVars => [Silent]_wsVars
  <2> SUFFICES ASSUME WsInv, Heartbeat, NEW c \in Conn, socket[c] = "open", socket'[c] = "dead"
               PROVE  c \in unanswered
    OBVIOUS
  <2>1. c \notin alive
    BY DEF WsInv, WsTypes, Heartbeat, Clients
  <2> QED BY <2>1 DEF WsInv, AliveOrAsked, Heard
<1>2. QED BY <1>1, WsInvariant, PTL DEF WsSpec, OnlySilentTerminated

-----------------------------------------------------------------------------
(***************************************************************************)
(* The queue: the adapters implement Delivery, and a stop that has returned *)
(* has drained its handlers.                                                *)
(***************************************************************************)
(* Which consumers an adapter has, and what their handlers may be doing.    *)
Held ==
    \A c \in Consumer, m \in Msg :
        /\ handler[c][m] # "none" => job[m] # "new"
        /\ handler[c][m] = "deleting" => m \in done \union Malformed /\ adapter # "bullmq"
        /\ handler[c][m] \in {"scheduled", "invoked", "hung"} => m \notin Malformed
Jobs == \A m \in Msg : adapter # "sqs" /\ job[m] # "new" => m \notin Malformed

(* Where work is left while the transport is up, draining and down.         *)
Busy == {"batch", "open", "closing"}
Placed(c) ==
    /\ Working(c) => consumer[c] \in Busy \union {"dead"}
    /\ adapter = "sqs" => consumer[c] \notin {"open", "closing"}
    /\ adapter = "bullmq" => consumer[c] \notin {"receive", "batch", "backoff"}
    /\ phase = "down" => consumer[c] \notin Busy
    /\ phase = "up" => consumer[c] # "closing"
    /\ phase = "draining" /\ consumer[c] \in Busy => c \in awaited /\ consumer[c] # "open"
Drain ==
    /\ running <=> phase = "up"
    /\ phase \in {"up", "down"} => awaited = {}
    /\ adapter # "memory" => \A c \in Consumer : Placed(c)

(* A BullMQ job that is taken and has no worker is one that an exit of the  *)
(* process left behind; such a job is stalled once, and has one worker else. *)
Orphan(m) == job[m] = "taken" /\ \A c \in Consumer : handler[c][m] = "none"
Owned(m) ==
    \A c \in Consumer : handler[c][m] # "none" =>
        job[m] = "taken" /\ \A d \in Consumer \ {c} : handler[d][m] = "none"
Counted(m) ==
    /\ stalled[m] <= interrupted[m]
    /\ Orphan(m) => stalled[m] < interrupted[m]
Stalls == adapter = "bullmq" => \A m \in Msg : Owned(m) /\ Counted(m)

QueueInv == QueueTypes /\ Held /\ Jobs /\ Drain /\ Stalls

-----------------------------------------------------------------------------
\* The inductive invariant holds initially.
LEMMA QueueBegins == QueueInit => QueueInv
<1> SUFFICES ASSUME QueueInit PROVE QueueInv
  OBVIOUS
<1>1. /\ job = [m \in Msg |-> "new"]
      /\ consumer = [c \in Consumer |-> "off"]
      /\ handler = [c \in Consumer |-> [m \in Msg |-> "none"]]
      /\ adapter \in Adapter /\ phase = "down" /\ awaited = {} /\ done = {}
  BY DEF QueueInit, Idle
<1>2. running = FALSE
  BY DEF QueueInit
<1>9. tries = [m \in Msg |-> 0] /\ stalled = tries /\ interrupted = tries
  BY DEF QueueInit
<1>3. QueueTypes
  BY <1>1, <1>2, <1>9 DEF QueueTypes
<1>4. Held /\ Jobs
  BY <1>1 DEF Held, Jobs
<1>5. running <=> phase = "up"
  BY <1>1, <1>2
<1>6. \A c \in Consumer : ~Working(c) /\ consumer[c] = "off"
  BY <1>1 DEF Working
<1>7. Drain
  BY <1>1, <1>5, <1>6 DEF Drain, Placed, Busy
<1>8. Stalls
  BY <1>1, <1>9 DEF Stalls, Owned, Counted, Orphan
<1> QED
  BY <1>3, <1>4, <1>7, <1>8 DEF QueueInv

\* Every step preserves the types.
LEMMA QueueTypesStay == ASSUME QueueTypes, [QueueNext]_queueVars PROVE QueueTypes'
<1> USE DEF QueueTypes
<1>1. CASE Stop
  BY <1>1 DEF Stop, SqsStop, MemoryStop, BullStop, redis, history
<1>2. CASE StopReturns
  BY <1>2 DEF StopReturns, redis, history
<1>3. CASE Crash
  <2>1. job' \in [Msg -> {"new", "queued", "taken", "gone", "lost"}]
    BY <1>3 DEF Crash, Moves
  <2>2. interrupted' \in [Msg -> Nat]
    BY <1>3 DEF Crash
  <2>3. handler' \in [Consumer -> [Msg -> {"none", "scheduled", "invoked", "hung", "deleting"}]]
    BY <1>3 DEF Crash, Idle
  <2> QED
    BY <1>3, <2>1, <2>2, <2>3 DEF Crash, redis
<1>4. ASSUME NEW m \in Msg, Enqueue(m) PROVE QueueTypes'
  <2>1. \A place \in {"queued", "taken"} : Moves({m}, place) =>
          job' \in [Msg -> {"new", "queued", "taken", "gone", "lost"}]
    BY DEF Moves
  <2>2. ASSUME NEW c \in Consumer, Stage(c, m, "scheduled")
        PROVE handler' \in [Consumer -> [Msg -> {"none", "scheduled", "invoked", "hung", "deleting"}]]
    BY <2>2 DEF Stage
  <2> QED
    BY <1>4, <2>1, <2>2 DEF Enqueue, SqsEnqueue, BullEnqueue, MemoryEnqueue, redis, history
<1>5. ASSUME NEW m \in Msg, Redeliver(m) PROVE QueueTypes'
  BY <1>5 DEF Redeliver, SqsVisible, BullStalled, Moves, redis, history
<1>6. ASSUME NEW c \in Consumer, Start(c) PROVE QueueTypes'
  <2>1. job' \in [Msg -> {"new", "queued", "taken", "gone", "lost"}]
    BY <1>6 DEF Start, SqsStart, BullStart, MemoryStart, Moves
  <2>2. handler' \in [Consumer -> [Msg -> {"none", "scheduled", "invoked", "hung", "deleting"}]]
    BY <1>6 DEF Start, SqsStart, BullStart, MemoryStart, Put
  <2>3. \E state \in {"receive", "open"} : consumer' = [consumer EXCEPT ![c] = state]
    BY <1>6 DEF Start, SqsStart, BullStart, MemoryStart, Goes
  <2> QED
    BY <1>6, <2>1, <2>2, <2>3 DEF Start, redis, history
<1>7. ASSUME NEW c \in Consumer,
             ReceiveFails(c) \/ BackoffEnds(c) \/ BatchEnds(c) \/ WorkerCloses(c)
      PROVE QueueTypes'
  BY <1>7 DEF ReceiveFails, BackoffEnds, BatchEnds, WorkerCloses, Goes, Loops, redis, history
<1>8. ASSUME NEW c \in Consumer, OnErrorThrows(c) PROVE QueueTypes'
  BY <1>8, SMTT(30) DEF OnErrorThrows, Goes, Stage, redis, history
<1>9. ASSUME NEW c \in Consumer, NEW S \in SUBSET Queued, Receive(c, S) PROVE QueueTypes'
  <2>1. job' \in [Msg -> {"new", "queued", "taken", "gone", "lost"}]
    BY <1>9 DEF Receive, Moves
  <2>2. consumer' \in [Consumer -> {"off", "receive", "batch", "backoff", "dead",
                                   "open", "closing"}]
    BY <1>9 DEF Receive, Goes, Loops
  <2>3. handler' \in [Consumer -> [Msg -> {"none", "scheduled", "invoked", "hung", "deleting"}]]
    BY <1>9 DEF Receive
  <2> QED
    BY <1>9, <2>1, <2>2, <2>3 DEF Receive, redis, history
<1>10. ASSUME NEW c \in Consumer, NEW m \in Msg,
              Take(c, m) \/ Hangs(c, m) \/ Deleted(c, m) \/ DeleteFails(c, m)
       PROVE QueueTypes'
  <2>1. job' \in [Msg -> {"new", "queued", "taken", "gone", "lost"}]
    BY <1>10 DEF Take, Hangs, Deleted, DeleteFails, Moves
  <2>2. \E stage \in {"none", "invoked", "hung"} : handler' = [handler EXCEPT ![c][m] = stage]
    BY <1>10 DEF Take, Hangs, Deleted, DeleteFails, Stage
  <2> QED
    BY <1>10, <2>1, <2>2 DEF Take, Hangs, Deleted, DeleteFails, redis, history
<1>11. ASSUME NEW c \in Consumer, NEW m \in Msg, NEW ok \in BOOLEAN, Returns(c, m, ok)
       PROVE QueueTypes'
  <2>1. job' \in [Msg -> {"new", "queued", "taken", "gone", "lost"}]
    BY <1>11 DEF Returns, SqsReturns, MemoryReturns, BullReturns, Moves, redis
  <2>2. \E stage \in {"none", "deleting"} : handler' = [handler EXCEPT ![c][m] = stage]
    BY <1>11 DEF Returns, SqsReturns, MemoryReturns, BullReturns, Stage
  <2>3. tries' \in [Msg -> Nat] /\ stalled' = stalled
    BY <1>11 DEF Returns, SqsReturns, MemoryReturns, BullReturns, redis
  <2>4. done' \subseteq Msg /\ UNCHANGED <<adapter, phase, running, consumer, awaited, interrupted>>
    BY <1>11 DEF Returns
  <2> QED
    BY <2>1, <2>2, <2>3, <2>4
<1>12. CASE UNCHANGED queueVars
  BY <1>12 DEF queueVars, redis, history
<1> QED
  BY <1>1, <1>2, <1>3, <1>4, <1>5, <1>6, <1>7, <1>8, <1>9, <1>10, <1>11, <1>12 DEF QueueNext

\* Handlers work on jobs the queue holds, and delete only what is settled.
LEMMA HeldStep == ASSUME QueueInv, [QueueNext]_queueVars PROVE Held' /\ Jobs'
<1> USE DEF QueueInv, QueueTypes, Held, Jobs
<1>1. CASE Stop
  BY <1>1 DEF Stop, history
<1>2. CASE StopReturns
  BY <1>2 DEF StopReturns, history
<1>3. CASE Crash
  BY <1>3 DEF Crash, Moves, Idle, Queued, history
<1>4. ASSUME NEW m \in Msg, Enqueue(m) PROVE Held' /\ Jobs'
  <2>1. /\ job'[m] # "new" /\ \A n \in Msg \ {m} : job'[n] = job[n]
        /\ adapter # "sqs" => m \notin Malformed
        /\ UNCHANGED <<adapter, done>>
    BY <1>4 DEF Enqueue, SqsEnqueue, BullEnqueue, MemoryEnqueue, Moves, history
  <2>2. \/ UNCHANGED handler
        \/ /\ m \notin Malformed
           /\ \E c \in Consumer : handler' = [handler EXCEPT ![c][m] = "scheduled"]
    BY <1>4 DEF Enqueue, SqsEnqueue, BullEnqueue, MemoryEnqueue, Stage
  <2>3. \A c \in Consumer, n \in Msg :
          \/ handler'[c][n] = handler[c][n]
          \/ n = m /\ m \notin Malformed /\ handler'[c][n] = "scheduled"
    BY <2>2
  <2>4. Jobs'
    BY <2>1
  <2>5. Held'
    BY <2>1, <2>3
  <2> QED
    BY <2>4, <2>5
<1>5. ASSUME NEW m \in Msg, Redeliver(m) PROVE Held' /\ Jobs'
  BY <1>5 DEF Redeliver, SqsVisible, BullStalled, Moves, history
<1>6. ASSUME NEW c \in Consumer, Start(c) PROVE Held' /\ Jobs'
  BY <1>6 DEF Start, SqsStart, BullStart, MemoryStart, Moves, Put, Queued, history
<1>7. ASSUME NEW c \in Consumer,
             ReceiveFails(c) \/ BackoffEnds(c) \/ BatchEnds(c) \/ WorkerCloses(c)
      PROVE Held' /\ Jobs'
  BY <1>7 DEF ReceiveFails, BackoffEnds, BatchEnds, WorkerCloses, history
<1>8. ASSUME NEW c \in Consumer, OnErrorThrows(c) PROVE Held' /\ Jobs'
  BY <1>8 DEF OnErrorThrows, Stage, history
<1>9. ASSUME NEW c \in Consumer, NEW S \in SUBSET Queued, Receive(c, S)
      PROVE Held' /\ Jobs'
  <2>1. adapter # "bullmq"
    BY <1>9 DEF Receive, Drain, Placed
  <2> QED
    BY <1>9, <2>1 DEF Receive, Moves, Queued, history
<1>10. ASSUME NEW c \in Consumer, NEW m \in Msg,
              Take(c, m) \/ Hangs(c, m) \/ Deleted(c, m) \/ DeleteFails(c, m)
       PROVE Held' /\ Jobs'
  <2>1. CASE Take(c, m)
    BY <2>1 DEF Take, Moves, Stage, history
  <2>2. CASE Deleted(c, m)
    BY <2>2 DEF Deleted, Moves, Stage, history
  <2>3. CASE DeleteFails(c, m)
    BY <2>3 DEF DeleteFails, Stage, history
  <2>4. CASE Hangs(c, m)
    BY <2>4 DEF Hangs, Stage, history
  <2> QED
    BY <1>10, <2>1, <2>2, <2>3, <2>4
<1>11. ASSUME NEW c \in Consumer, NEW m \in Msg, NEW ok \in BOOLEAN, Returns(c, m, ok)
       PROVE Held' /\ Jobs'
  BY <1>11 DEF Returns, SqsReturns, MemoryReturns, BullReturns, Moves, Stage
<1>12. CASE UNCHANGED queueVars
  BY <1>12 DEF queueVars, history
<1> QED
  BY <1>1, <1>2, <1>3, <1>4, <1>5, <1>6, <1>7, <1>8, <1>9, <1>10, <1>11, <1>12 DEF QueueNext

\* Work is left only where a stop looks for it.
LEMMA DrainStep == ASSUME QueueInv, [QueueNext]_queueVars PROVE Drain'
<1> USE DEF QueueInv, QueueTypes, Drain, Placed, Busy
<1>1. CASE Stop
  BY <1>1, QueueAssumption DEF Stop, SqsStop, MemoryStop, BullStop, Working, history
<1>2. CASE StopReturns
  BY <1>2 DEF StopReturns, Working, history
<1>3. CASE Crash
  BY <1>3 DEF Crash, Idle, Working, history
<1>4. ASSUME NEW m \in Msg, Enqueue(m) PROVE Drain'
  BY <1>4 DEF Enqueue, SqsEnqueue, BullEnqueue, MemoryEnqueue, Working, history
<1>5. ASSUME NEW m \in Msg, Redeliver(m) PROVE Drain'
  BY <1>5 DEF Redeliver, SqsVisible, BullStalled, Working, history
<1>6. ASSUME NEW c \in Consumer, Start(c) PROVE Drain'
  BY <1>6 DEF Start, SqsStart, BullStart, MemoryStart, Goes, Working, history
<1>7. ASSUME NEW c \in Consumer,
             ReceiveFails(c) \/ BackoffEnds(c) \/ BatchEnds(c) \/ WorkerCloses(c)
      PROVE Drain'
  BY <1>7 DEF ReceiveFails, BackoffEnds, BatchEnds, WorkerCloses, Goes, Loops, Working, history
<1>8. ASSUME NEW c \in Consumer, OnErrorThrows(c) PROVE Drain'
  <2>1. /\ adapter = "sqs" /\ UNCHANGED <<adapter, running>> /\ consumer'[c] = "dead"
        /\ phase' \in {phase, "failed"} /\ awaited' = awaited \ {c}
        /\ c \in awaited \/ phase' = phase
    BY <1>8 DEF OnErrorThrows, Goes
  <2>2. \A d \in Consumer : d # c => consumer'[d] = consumer[d] /\ handler'[d] = handler[d]
    BY <1>8 DEF OnErrorThrows, Goes, Stage
  <2>3. \A d \in Consumer : d # c => (Working(d)' <=> Working(d))
    BY <2>2 DEF Working
  <2>4. c \in awaited => phase # "up"
    OBVIOUS
  <2> QED
    BY <2>1, <2>2, <2>3, <2>4
<1>9. ASSUME NEW c \in Consumer, NEW S \in SUBSET Queued, Receive(c, S) PROVE Drain'
  <2>1. UNCHANGED <<adapter, phase, running, awaited>>
    BY <1>9 DEF Receive
  <2>2. \A d \in Consumer : d # c => consumer'[d] = consumer[d] /\ handler'[d] = handler[d]
    BY <1>9 DEF Receive, Goes, Loops
  <2>3. \A d \in Consumer : d # c => (Working(d)' <=> Working(d))
    BY <2>2 DEF Working
  <2>4. adapter # "memory" => ~Working(c) /\ adapter # "bullmq"
    BY <1>9 DEF Receive
  <2>5. adapter # "memory" =>
        \/ running /\ consumer'[c] = "batch"
        \/ consumer'[c] \in {"receive", "off"} /\ ~Working(c)'
    <3>1. CASE ~running \/ S = {}
      BY <1>9, <2>4, <3>1 DEF Receive, Goes, Loops, Working
    <3>2. CASE running /\ S # {}
      BY <1>9, <3>2 DEF Receive, Goes
    <3> QED
      BY <3>1, <3>2
  <2>6. ASSUME NEW d \in Consumer, adapter # "memory" PROVE Placed(d)'
    <3>1. CASE d = c
      BY <2>1, <2>4, <2>5, <2>6, <3>1
    <3>2. CASE d # c
      BY <2>1, <2>2, <2>3, <2>6, <3>2
    <3> QED
      BY <3>1, <3>2
  <2> QED
    BY <2>1, <2>6
<1>10. ASSUME NEW c \in Consumer, NEW m \in Msg,
              Take(c, m) \/ Hangs(c, m) \/ Deleted(c, m) \/ DeleteFails(c, m)
       PROVE Drain'
  BY <1>10 DEF Take, Hangs, Deleted, DeleteFails, Stage, Working, history
<1>11. ASSUME NEW c \in Consumer, NEW m \in Msg, NEW ok \in BOOLEAN, Returns(c, m, ok)
       PROVE Drain'
  BY <1>11 DEF Returns, SqsReturns, MemoryReturns, BullReturns, Stage, Working
<1>12. CASE UNCHANGED queueVars
  BY <1>12 DEF queueVars, Working, history
<1> QED
  BY <1>1, <1>2, <1>3, <1>4, <1>5, <1>6, <1>7, <1>8, <1>9, <1>10, <1>11, <1>12 DEF QueueNext

(* BullMQ: a job has at most one worker, and only an exit of the process    *)
(* leaves a taken one without.                                              *)
LEMMA StallsStep == ASSUME QueueInv, [QueueNext]_queueVars PROVE Stalls'
<1> SUFFICES ASSUME adapter' = "bullmq", NEW n \in Msg PROVE Owned(n)' /\ Counted(n)'
  BY DEF Stalls
<1> USE DEF QueueInv, QueueTypes, Stalls, Owned, Counted, Orphan
<1>1. CASE Stop
  BY <1>1 DEF Stop, redis, history
<1>2. CASE StopReturns
  BY <1>2 DEF StopReturns, redis, history
<1>3. CASE Crash
  <2>1. /\ adapter = "bullmq" /\ job' = job /\ stalled' = stalled
        /\ \A c \in Consumer : handler'[c][n] = "none"
    BY <1>3 DEF Crash, Idle, redis
  <2>2. CASE \E c \in Consumer : handler[c][n] # "none"
    <3>1. interrupted'[n] = interrupted[n] + 1
      BY <1>3, <2>1, <2>2 DEF Crash
    <3> QED
      BY <2>1, <3>1
  <2>3. CASE \A c \in Consumer : handler[c][n] = "none"
    <3>1. interrupted'[n] = interrupted[n]
      BY <1>3, <2>1, <2>3 DEF Crash
    <3> QED
      BY <2>1, <2>3, <3>1
  <2> QED
    BY <2>2, <2>3
<1>4. ASSUME NEW m \in Msg, Enqueue(m) PROVE Owned(n)' /\ Counted(n)'
  <2>1. /\ adapter = "bullmq" /\ UNCHANGED <<handler, stalled, interrupted>>
        /\ job[m] = "new" /\ job' = [k \in Msg |-> IF k \in {m} THEN "queued" ELSE job[k]]
    BY <1>4 DEF Enqueue, SqsEnqueue, BullEnqueue, MemoryEnqueue, Moves, redis, history
  <2> QED
    BY <2>1
<1>5. ASSUME NEW m \in Msg, Redeliver(m) PROVE Owned(n)' /\ Counted(n)'
  <2>1. /\ adapter = "bullmq" /\ UNCHANGED <<handler, interrupted>> /\ Orphan(m)
        /\ stalled' = [stalled EXCEPT ![m] = @ + 1]
        /\ job'[m] # "taken" /\ \A k \in Msg \ {m} : job'[k] = job[k]
    BY <1>5 DEF Redeliver, SqsVisible, BullStalled, Moves, history
  <2>2. CASE n = m
    BY <2>1, <2>2
  <2>3. CASE n # m
    BY <2>1, <2>3
  <2> QED
    BY <2>2, <2>3
<1>6. ASSUME NEW c \in Consumer, Start(c) PROVE Owned(n)' /\ Counted(n)'
  BY <1>6 DEF Start, SqsStart, BullStart, MemoryStart, redis, history
<1>7. ASSUME NEW c \in Consumer,
             ReceiveFails(c) \/ BackoffEnds(c) \/ BatchEnds(c) \/ WorkerCloses(c)
      PROVE Owned(n)' /\ Counted(n)'
  BY <1>7 DEF ReceiveFails, BackoffEnds, BatchEnds, WorkerCloses, redis, history
<1>8. ASSUME NEW c \in Consumer, OnErrorThrows(c) PROVE Owned(n)' /\ Counted(n)'
  BY <1>8 DEF OnErrorThrows
<1>9. ASSUME NEW c \in Consumer, NEW S \in SUBSET Queued, Receive(c, S)
      PROVE Owned(n)' /\ Counted(n)'
  BY <1>9 DEF Receive, Drain, Placed
<1>10. ASSUME NEW c \in Consumer, NEW m \in Msg, Take(c, m) PROVE Owned(n)' /\ Counted(n)'
  <2>1. /\ adapter = "bullmq" /\ UNCHANGED <<stalled, interrupted>>
        /\ handler' = [handler EXCEPT ![c][m] = "invoked"]
        /\ job' = [k \in Msg |-> IF k = m THEN "taken" ELSE job[k]]
    BY <1>10 DEF Take, Moves, Stage, redis, history
  <2>2. \A d \in Consumer \ {c} : handler[d][m] = "none"
    BY <1>10, <2>1 DEF Take
  <2> QED
    BY <2>1, <2>2
<1>11. ASSUME NEW c \in Consumer, NEW m \in Msg, Hangs(c, m) PROVE Owned(n)' /\ Counted(n)'
  BY <1>11 DEF Hangs, Stage, redis, history
<1>12. ASSUME NEW c \in Consumer, NEW m \in Msg, Deleted(c, m) \/ DeleteFails(c, m)
       PROVE Owned(n)' /\ Counted(n)'
  BY <1>12 DEF Deleted, DeleteFails, Held
<1>13. ASSUME NEW c \in Consumer, NEW m \in Msg, NEW ok \in BOOLEAN, Returns(c, m, ok)
       PROVE Owned(n)' /\ Counted(n)'
  <2>1. /\ adapter = "bullmq" /\ UNCHANGED <<stalled, interrupted>>
        /\ handler[c][m] # "none" /\ handler' = [handler EXCEPT ![c][m] = "none"]
        /\ job'[m] \in {"gone", "queued"} /\ \A k \in Msg \ {m} : job'[k] = job[k]
    BY <1>13 DEF Returns, SqsReturns, MemoryReturns, BullReturns, Moves, Stage
  <2> QED
    BY <2>1
<1>14. CASE UNCHANGED queueVars
  BY <1>14 DEF queueVars, redis, history
<1> QED
  BY <1>1, <1>2, <1>3, <1>4, <1>5, <1>6, <1>7, <1>8, <1>9, <1>10, <1>11, <1>12, <1>13, <1>14
  DEF QueueNext

(* The inductive invariant.                                                 *)
LEMMA QueueInvariant == QueueSpec => []QueueInv
<1>1. ASSUME QueueInv, [QueueNext]_queueVars PROVE QueueInv'
  BY <1>1, QueueTypesStay, HeldStep, DrainStep, StallsStep DEF QueueInv
<1> QED
  BY QueueBegins, <1>1, PTL DEF QueueSpec

-----------------------------------------------------------------------------
(* Types of the adapters' state.                                            *)
THEOREM QueueTypeCorrect == QueueSpec => []QueueTypes
<1>1. QueueInv => QueueTypes
  BY DEF QueueInv
<1> QED
  BY QueueInvariant, <1>1, PTL

(* A stop that has returned has left no handler of SQS or BullMQ at work,   *)
(* but for those of a batch whose onError threw.                            *)
THEOREM StopDrainsAll == QueueSpec => []StopDrains
<1>1. QueueInv => StopDrains
  BY DEF QueueInv, Drain, Placed, Busy, StopDrains
<1> QED
  BY QueueInvariant, <1>1, PTL

(* Every adapter keeps the promise of Delivery: whatever crashes, stops and *)
(* late polls happen, no job leaves the queue before a run of it succeeded  *)
(* (SQS), ended (memory), or used up its attempts, unless more exits of the *)
(* process cut its runs short than the worker puts up with (BullMQ).        *)
THEOREM DeliveryImplemented == QueueSpec => ImplementsDelivery
<1> DEFINE acc == {m \in Msg : job[m] # "new"}
           set == {m \in Msg : job[m] = "gone"}
<1> USE QueueAssumption
<1>1. QueueInit => Promise!Init
  BY DEF QueueInit, Promise!Init
<1>2. ASSUME QueueInv, [QueueNext]_queueVars PROVE [Promise!Next]_(Promise!vars)
  <2> USE DEF QueueInv, QueueTypes
  <2>1. ASSUME acc' = acc, set' = set, UNCHANGED <<adapter, tries, history>>
        PROVE UNCHANGED Promise!vars
    BY <2>1 DEF Promise!vars, history
  <2>2. CASE Stop
    BY <2>2, <2>1 DEF Stop, redis, history
  <2>3. CASE StopReturns
    BY <2>3, <2>1 DEF StopReturns, redis, history
  <2>4. CASE Crash
    <3> DEFINE died == {m \in Msg : \E c \in Consumer : handler[c][m] # "none"}
    <3>1. acc' = acc /\ set' = set /\ UNCHANGED <<adapter, tries, done>>
      BY <2>4 DEF Crash, Moves, Queued, redis
    <3>2. CASE adapter = "bullmq"
      <4>1. interrupted' = [m \in Msg |-> interrupted[m] + IF m \in died THEN 1 ELSE 0]
        BY <2>4, <3>2 DEF Crash
      <4>2. died \subseteq acc /\ died \subseteq Msg
        BY <1>2 DEF Held
      <4> HIDE DEF died
      <4>3. Promise!Interrupt(died)
        BY <3>1, <3>2, <4>1, <4>2 DEF Promise!Interrupt
      <4> QED
        BY <4>2, <4>3 DEF Promise!Next
    <3>3. CASE adapter # "bullmq"
      <4>1. interrupted' = [m \in Msg |-> interrupted[m] + 0]
        BY <2>4, <3>3 DEF Crash
      <4>2. interrupted' = interrupted
        BY <1>2, <4>1
      <4> QED
        BY <2>1, <3>1, <4>2 DEF history
    <3> QED
      BY <3>2, <3>3
  <2>5. ASSUME NEW m \in Msg, Enqueue(m) PROVE [Promise!Next]_(Promise!vars)
    <3>1. acc' = acc \union {m} /\ set' = set /\ m \notin acc
      BY <2>5 DEF Enqueue, SqsEnqueue, BullEnqueue, MemoryEnqueue, Moves
    <3>2. Promise!Accept(m)
      BY <2>5, <3>1 DEF Enqueue, Promise!Accept, redis, history
    <3> QED
      BY <3>2 DEF Promise!Next
  <2>6. ASSUME NEW m \in Msg, Redeliver(m) PROVE [Promise!Next]_(Promise!vars)
    <3>1. /\ job[m] = "taken" /\ UNCHANGED <<adapter, tries, done, interrupted>>
          /\ acc' = acc
      BY <2>6 DEF Redeliver, SqsVisible, BullStalled, Moves, redis, history
    <3>2. CASE job'[m] # "gone"
      <4>1. set' = set
        BY <2>6, <3>1, <3>2 DEF Redeliver, SqsVisible, BullStalled, Moves
      <4> QED
        BY <2>1, <3>1, <4>1 DEF history
    <3>3. CASE job'[m] = "gone"
      <4>1. /\ adapter = "bullmq" /\ Orphan(m) /\ stalled[m] + 1 > MaxStalledCount
            /\ set' = set \union {m}
        BY <1>2, <2>6, <3>1, <3>3 DEF Redeliver, SqsVisible, BullStalled, Moves, Orphan
      <4>2. interrupted[m] > MaxStalledCount
        BY <1>2, <4>1 DEF Stalls, Counted
      <4>3. Promise!Settle(m)
        BY <3>1, <4>1, <4>2 DEF Promise!Settle, Promise!Hopeless
      <4> QED
        BY <4>3 DEF Promise!Next
    <3> QED
      BY <3>2, <3>3
  <2>7. ASSUME NEW c \in Consumer, Start(c) PROVE [Promise!Next]_(Promise!vars)
    BY <2>7, <2>1 DEF Start, SqsStart, BullStart, MemoryStart, Moves, Queued, redis, history
  <2>8. ASSUME NEW c \in Consumer,
               ReceiveFails(c) \/ BackoffEnds(c) \/ BatchEnds(c) \/ WorkerCloses(c)
                 \/ OnErrorThrows(c)
        PROVE [Promise!Next]_(Promise!vars)
    BY <2>8, <2>1
    DEF ReceiveFails, BackoffEnds, BatchEnds, WorkerCloses, OnErrorThrows, redis, history
  <2>9. ASSUME NEW c \in Consumer, NEW S \in SUBSET Queued, Receive(c, S)
        PROVE [Promise!Next]_(Promise!vars)
    BY <2>9, <2>1 DEF Receive, Moves, Queued, redis, history
  <2>10. ASSUME NEW c \in Consumer, NEW m \in Msg,
                Take(c, m) \/ Hangs(c, m) \/ DeleteFails(c, m)
         PROVE [Promise!Next]_(Promise!vars)
    BY <2>10, <2>1 DEF Take, Hangs, DeleteFails, Moves, redis, history
  <2>11. ASSUME NEW c \in Consumer, NEW m \in Msg, Deleted(c, m)
         PROVE [Promise!Next]_(Promise!vars)
    <3>1. m \in acc /\ m \in done \union Malformed
      BY <1>2, <2>11 DEF Deleted, Held
    <3>2. acc' = acc /\ set' = set \union {m}
      BY <2>11, <3>1 DEF Deleted, Moves
    <3>3. Promise!Settle(m)
      BY <2>11, <3>1, <3>2 DEF Deleted, Promise!Settle, redis, history
    <3> QED
      BY <3>3 DEF Promise!Next
  <2>12. ASSUME NEW c \in Consumer, NEW m \in Msg, NEW ok \in BOOLEAN, Returns(c, m, ok)
         PROVE [Promise!Next]_(Promise!vars)
    <3>1. job[m] # "new" /\ m \notin Malformed /\ adapter' = adapter
      BY <1>2, <2>12 DEF Returns, Held
    <3> m \in acc \ Malformed
      BY <3>1
    <3>2. /\ done' = IF ok THEN done \union {m} ELSE done
          /\ interrupted' = interrupted
      BY <2>12 DEF Returns
    <3>3. CASE adapter = "sqs"
      <4>1. acc' = acc /\ set' = set /\ tries' = tries
        BY <2>12, <3>3 DEF Returns, SqsReturns, MemoryReturns, BullReturns, redis
      <4>2. Promise!Run(m, ok)
        BY <3>1, <3>2, <3>3, <4>1 DEF Promise!Run, Promise!Ends
      <4> QED
        BY <4>2 DEF Promise!Next
    <3>4. CASE adapter = "memory"
      <4>1. acc' = acc /\ set' = set \union {m} /\ tries' = tries
        BY <2>12, <3>1, <3>4 DEF Returns, SqsReturns, MemoryReturns, BullReturns, Moves, redis
      <4>2. Promise!Run(m, ok)
        BY <3>1, <3>2, <3>4, <4>1 DEF Promise!Run, Promise!Ends
      <4> QED
        BY <4>2 DEF Promise!Next
    <3>5. CASE adapter = "bullmq"
      <4>1. /\ acc' = acc /\ tries' = [tries EXCEPT ![m] = @ + 1]
            /\ job'[m] = IF ok \/ tries'[m] >= Attempts THEN "gone" ELSE "queued"
            /\ \A n \in Msg \ {m} : job'[n] = job[n]
        BY <2>12, <3>1, <3>5 DEF Returns, SqsReturns, MemoryReturns, BullReturns, Moves
      <4>2. job[m] = "taken"
        BY <1>2, <2>12, <3>5 DEF Returns, Stalls, Owned
      <4>3. set' = IF ok \/ tries'[m] >= Attempts THEN set \union {m} ELSE set
        BY <4>1, <4>2
      <4>4. Promise!Run(m, ok)
        BY <3>1, <3>2, <3>5, <4>1, <4>3 DEF Promise!Run, Promise!Ends
      <4> QED
        BY <4>4 DEF Promise!Next
    <3> QED
      BY <1>2, <3>3, <3>4, <3>5
  <2>13. CASE UNCHANGED queueVars
    BY <2>13, <2>1 DEF queueVars, redis, history
  <2> QED
    BY <1>2, <2>2, <2>3, <2>4, <2>5, <2>6, <2>7, <2>8, <2>9, <2>10, <2>11, <2>12, <2>13 DEF QueueNext
<1> QED
  BY QueueInvariant, <1>1, <1>2, PTL DEF QueueSpec, ImplementsDelivery, Promise!Spec
=============================================================================
