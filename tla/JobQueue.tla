------------------------------ MODULE JobQueue ------------------------------
(***************************************************************************)
(* packages/transports/queue: the queue transport over one queue, with the  *)
(* SQS, the in-memory or the BullMQ adapter (`adapter`, fixed in a          *)
(* behaviour).  Every call of the adapter's start makes a consumer: a poll  *)
(* loop, a registered handler, a Worker.                                    *)
(*                                                                          *)
(* An action is the code from one await to the next.  The process may exit  *)
(* at any point (Crash) and be started again; SQS and Redis survive it.     *)
(***************************************************************************)
EXTENDS Naturals

CONSTANTS
    Adapter, Msg, Malformed, Consumer,
    Attempts,        \* of a BullMQ job: 1, as no attempts are given to Queue.add,
                     \* though sqs.ts and the adapter's test speak of retries
    MaxStalledCount  \* of a BullMQ worker: 1, as it is not given either

ASSUME QueueAssumption ==
    /\ Adapter \subseteq {"sqs", "memory", "bullmq"} /\ Malformed \subseteq Msg
    /\ Attempts \in Nat \ {0} /\ MaxStalledCount \in Nat

VARIABLES
    adapter,
    job,       \* "new" | "queued" | "taken" | "gone" | "lost" with the process
    phase,     \* of the transport: "down" | "up" | "draining" | "failed" to stop
    running,   \* this.running
    consumer,  \* "off" | "receive" | "batch" | "backoff" | "dead" ; "open" | "closing"
    handler,   \* per consumer and job: "none" | "scheduled" | "invoked" | "hung" | "deleting"
    awaited,   \* the consumers whose batch or jobs stop waits for
    tries,     \* BullMQ, per job: the runs that ended
    stalled,   \* BullMQ, per job: how often a worker was found to have gone
    done,      \* history: jobs with a run that succeeded
    interrupted \* history, BullMQ, per job: the runs that an exit of the process cut short

redis == <<tries, stalled>>
history == <<done, interrupted>>
queueVars == <<adapter, job, phase, running, consumer, handler, awaited, redis, history>>

Idle == [m \in Msg |-> "none"]
Working(c) == \E m \in Msg : handler[c][m] # "none"

QueueInit ==
    /\ adapter \in Adapter
    /\ job = [m \in Msg |-> "new"]
    /\ phase = "down" /\ running = FALSE
    /\ consumer = [c \in Consumer |-> "off"]
    /\ handler = [c \in Consumer |-> Idle]
    /\ awaited = {} /\ done = {}
    /\ tries = [m \in Msg |-> 0] /\ stalled = tries /\ interrupted = tries

Goes(c, state) == consumer' = [consumer EXCEPT ![c] = state]
Stage(c, m, stage) == handler' = [handler EXCEPT ![c][m] = stage]
Moves(S, place) == job' = [m \in Msg |-> IF m \in S THEN place ELSE job[m]]
Put(S, c, stage) ==
    handler' = [handler EXCEPT ![c] = [m \in Msg |-> IF m \in S THEN stage ELSE handler[c][m]]]
Queued == {m \in Msg : job[m] = "queued"}

-----------------------------------------------------------------------------
(* createQueueClient.enqueue makes the id, so no two jobs share one.        *)
\* A foreign producer of the SQS queue may send a body that is no job.
SqsEnqueue(m) ==
    /\ adapter = "sqs"
    /\ Moves({m}, "queued") /\ UNCHANGED handler

BullEnqueue(m) ==
    /\ adapter = "bullmq" /\ m \notin Malformed
    /\ Moves({m}, "queued") /\ UNCHANGED handler

\* A running adapter dispatches at once.
MemoryEnqueue(m) ==
    /\ adapter = "memory" /\ m \notin Malformed
    /\ \/ \E c \in Consumer : /\ running /\ consumer[c] = "open"
                              /\ Moves({m}, "taken") /\ Stage(c, m, "scheduled")
       \/ /\ ~running
          /\ Moves({m}, "queued") /\ UNCHANGED handler

Enqueue(m) ==
    /\ job[m] = "new"
    /\ SqsEnqueue(m) \/ BullEnqueue(m) \/ MemoryEnqueue(m)
    /\ UNCHANGED <<adapter, phase, running, consumer, awaited, redis, history>>

SqsStart(c) == adapter = "sqs" /\ Goes(c, "receive") /\ UNCHANGED <<job, handler>>
BullStart(c) == adapter = "bullmq" /\ Goes(c, "open") /\ UNCHANGED <<job, handler>>
\* processQueue dispatches what was enqueued before.
MemoryStart(c) ==
    /\ adapter = "memory" /\ Goes(c, "open")
    /\ Moves(Queued, "taken") /\ Put(Queued, c, "scheduled")

(* mount                                                                    *)
Start(c) ==
    /\ phase = "down" /\ consumer[c] = "off" /\ ~Working(c)
    /\ phase' = "up" /\ running' = TRUE
    /\ SqsStart(c) \/ BullStart(c) \/ MemoryStart(c)
    /\ UNCHANGED <<adapter, awaited, redis, history>>

-----------------------------------------------------------------------------
(* The SQS poll loop: `while (this.running)`                                *)
Loops(c) == Goes(c, IF running THEN "receive" ELSE "off")

\* Mutant: a poll that returns after stop is handled like any other.
ReceiveAfterStop(c, S) ==
    /\ consumer[c] = "receive" /\ S \subseteq Queued
    /\ Moves(S, "taken")
    /\ IF S = {} THEN Loops(c) /\ UNCHANGED handler
       ELSE Goes(c, "batch") /\ Put(S \ Malformed, c, "invoked")
    /\ UNCHANGED <<adapter, phase, running, awaited, redis, history>>

\* The long poll returns.  Bodies that do not parse go straight to deletion.
Receive(c, S) ==
    /\ consumer[c] = "receive" /\ S \subseteq Queued
    /\ Moves(S, "taken")
    /\ IF ~running \/ S = {}
       THEN Loops(c) /\ UNCHANGED handler
       ELSE /\ Goes(c, "batch")
            /\ handler' = [handler EXCEPT ![c] = [m \in Msg |->
                  IF m \notin S THEN "none" ELSE IF m \in Malformed THEN "deleting" ELSE "invoked"]]
    /\ UNCHANGED <<adapter, phase, running, awaited, redis, history>>

ReceiveFails(c) ==
    /\ consumer[c] = "receive"
    /\ Goes(c, "backoff")
    /\ UNCHANGED <<adapter, job, phase, running, handler, awaited, redis, history>>

\* Mutant: a failed receive ends the loop.
BackoffGivesUp(c) ==
    /\ consumer[c] = "backoff"
    /\ Goes(c, "off")
    /\ UNCHANGED <<adapter, job, phase, running, handler, awaited, redis, history>>

BackoffEnds(c) ==
    /\ consumer[c] = "backoff"
    /\ Loops(c)
    /\ UNCHANGED <<adapter, job, phase, running, handler, awaited, redis, history>>

\* Mutant: a batch that has ended stays in inFlight.
BatchStaysInFlight(c) ==
    /\ consumer[c] = "batch" /\ ~Working(c)
    /\ Loops(c)
    /\ UNCHANGED <<adapter, job, phase, running, handler, awaited, redis, history>>

BatchEnds(c) ==
    /\ consumer[c] = "batch" /\ ~Working(c)
    /\ Loops(c)
    /\ awaited' = awaited \ {c}
    /\ UNCHANGED <<adapter, job, phase, running, handler, redis, history>>

(* onError throws: the loop, and a stop that awaits it, reject; the other   *)
(* handlers of the batch run on, in no inFlight set.                        *)
OnErrorThrows(c) ==
    /\ adapter = "sqs"
    /\ consumer[c] = "receive" \/ (consumer[c] = "batch" /\ Working(c))
    /\ Goes(c, "dead")
    /\ \/ consumer[c] = "receive" /\ UNCHANGED handler
       \/ \E m \in Msg : consumer[c] = "batch" /\ handler[c][m] \in {"invoked", "deleting"} /\ Stage(c, m, "none")
    /\ phase' = IF c \in awaited THEN "failed" ELSE phase
    /\ awaited' = awaited \ {c}
    /\ UNCHANGED <<adapter, job, running, redis, history>>

\* The visibility timeout of a message taken and not deleted.
SqsVisible(m) == adapter = "sqs" /\ Moves({m}, "queued") /\ UNCHANGED redis

(* The job of a worker that is gone is stalled: it is queued again, or, once *)
(* too often, given up as failed.                                           *)
BullStalled(m) ==
    /\ adapter = "bullmq" /\ \A c \in Consumer : handler[c][m] = "none"
    /\ stalled' = [stalled EXCEPT ![m] = @ + 1]
    /\ Moves({m}, IF stalled'[m] > MaxStalledCount THEN "gone" ELSE "queued")
    /\ UNCHANGED tries

Redeliver(m) ==
    /\ job[m] = "taken"
    /\ SqsVisible(m) \/ BullStalled(m)
    /\ UNCHANGED <<adapter, phase, running, consumer, handler, awaited, history>>

\* A BullMQ worker takes a job; the immediate of a memory job runs.
Take(c, m) ==
    /\ \/ consumer[c] = "open" /\ adapter = "bullmq" /\ job[m] = "queued" /\ Moves({m}, "taken")
       \/ handler[c][m] = "scheduled" /\ UNCHANGED job
    /\ Stage(c, m, "invoked")
    /\ UNCHANGED <<adapter, phase, running, consumer, awaited, redis, history>>

-----------------------------------------------------------------------------
(* The invocation settles.  handleMessage deletes a job that succeeded and  *)
(* leaves one that failed, or whose onResult throws, to redelivery; in      *)
(* memory a run is final; the BullMQ processor returns, or throws for the   *)
(* worker to try again while the job has attempts left.                     *)
\* Mutant: the message is deleted whatever the result.
SqsReturnsDeleting(c, m, ok) ==
    adapter = "sqs" /\ Stage(c, m, "deleting") /\ UNCHANGED <<job, redis>>

SqsReturns(c, m, ok) ==
    /\ adapter = "sqs"
    /\ \/ ok /\ Stage(c, m, "deleting")
       \/ Stage(c, m, "none")
    /\ UNCHANGED <<job, redis>>

MemoryReturns(c, m) ==
    adapter = "memory" /\ Moves({m}, "gone") /\ Stage(c, m, "none") /\ UNCHANGED redis

BullReturns(c, m, ok) ==
    /\ adapter = "bullmq" /\ Stage(c, m, "none")
    /\ tries' = [tries EXCEPT ![m] = @ + 1]
    /\ Moves({m}, IF ok \/ tries'[m] >= Attempts THEN "gone" ELSE "queued")
    /\ UNCHANGED stalled

Returns(c, m, ok) ==
    /\ handler[c][m] = "invoked"
    /\ done' = IF ok THEN done \union {m} ELSE done
    /\ SqsReturns(c, m, ok) \/ MemoryReturns(c, m) \/ BullReturns(c, m, ok)
    /\ UNCHANGED <<adapter, phase, running, consumer, awaited, interrupted>>

\* A resolver need not settle: the signal of createTimeoutSignal only asks it to.
Hangs(c, m) ==
    /\ handler[c][m] = "invoked"
    /\ Stage(c, m, "hung")
    /\ UNCHANGED <<adapter, job, phase, running, consumer, awaited, redis, history>>

Deleted(c, m) ==
    /\ handler[c][m] = "deleting"
    /\ Moves({m}, "gone") /\ Stage(c, m, "none")
    /\ UNCHANGED <<adapter, phase, running, consumer, awaited, redis, history>>

\* deleteMessage rejects: reported, and the message is redelivered.
DeleteFails(c, m) ==
    /\ handler[c][m] = "deleting"
    /\ Stage(c, m, "none")
    /\ UNCHANGED <<adapter, job, phase, running, consumer, awaited, redis, history>>

-----------------------------------------------------------------------------
SqsStop ==
    /\ adapter = "sqs"
    /\ awaited' = {c \in Consumer : consumer[c] = "batch"} /\ UNCHANGED consumer
MemoryStop ==
    /\ adapter = "memory" /\ UNCHANGED awaited
    /\ consumer' = [c \in Consumer |-> "off"]
\* worker.close() takes no more jobs and waits for the active ones.
BullStop ==
    /\ adapter = "bullmq"
    /\ awaited' = {c \in Consumer : consumer[c] = "open"}
    /\ consumer' = [c \in Consumer |-> IF consumer[c] = "open" THEN "closing" ELSE consumer[c]]

(* unmount                                                                  *)
Stop ==
    /\ phase = "up"
    /\ phase' = "draining" /\ running' = FALSE
    /\ SqsStop \/ MemoryStop \/ BullStop
    /\ UNCHANGED <<adapter, job, handler, redis, history>>

WorkerCloses(c) ==
    /\ consumer[c] = "closing" /\ ~Working(c)
    /\ Goes(c, "off")
    /\ awaited' = awaited \ {c}
    /\ UNCHANGED <<adapter, job, phase, running, handler, redis, history>>

StopReturns ==
    /\ phase = "draining" /\ awaited = {}
    /\ phase' = "down"
    /\ UNCHANGED <<adapter, job, running, consumer, handler, awaited, redis, history>>

Crash ==
    /\ phase # "down" \/ \E c \in Consumer : consumer[c] # "off"
    /\ phase' = "down" /\ running' = FALSE /\ awaited' = {}
    /\ consumer' = [c \in Consumer |-> "off"]
    /\ handler' = [c \in Consumer |-> Idle]
    /\ IF adapter = "memory" THEN Moves(Queued \union {m \in Msg : job[m] = "taken"}, "lost")
                             ELSE UNCHANGED job
    /\ interrupted' = [m \in Msg |-> interrupted[m] +
          IF adapter = "bullmq" /\ \E c \in Consumer : handler[c][m] # "none" THEN 1 ELSE 0]
    /\ UNCHANGED <<adapter, redis, done>>

QueueNext ==
    \/ Stop \/ StopReturns \/ Crash
    \/ \E m \in Msg : Enqueue(m) \/ Redeliver(m)
    \/ \E c \in Consumer :
          \/ Start(c) \/ ReceiveFails(c) \/ BackoffEnds(c) \/ BatchEnds(c)
          \/ OnErrorThrows(c) \/ WorkerCloses(c)
          \/ \E S \in SUBSET Queued : Receive(c, S)
          \/ \E m \in Msg : \/ Take(c, m) \/ Hangs(c, m) \/ Deleted(c, m) \/ DeleteFails(c, m)
                            \/ \E ok \in BOOLEAN : Returns(c, m, ok)

QueueSpec == QueueInit /\ [][QueueNext]_queueVars

(* Timers, callbacks and handlers that do not hang run in the end; a queue  *)
(* polled for ever delivers every message it holds, and a capability that   *)
(* is run again and again succeeds, as does its deletion.                   *)
QueueFairSpec ==
    /\ QueueSpec
    /\ WF_queueVars(StopReturns)
    /\ \A c \in Consumer :
          /\ WF_queueVars(BackoffEnds(c)) /\ WF_queueVars(BatchEnds(c)) /\ WF_queueVars(WorkerCloses(c))
          /\ WF_queueVars(\E S \in SUBSET Queued : Receive(c, S))
          /\ \A m \in Msg : WF_queueVars(Deleted(c, m) \/ DeleteFails(c, m))
                            /\ WF_queueVars(\E ok \in BOOLEAN : Returns(c, m, ok))
    /\ \A m \in Msg :
          /\ WF_queueVars(Redeliver(m))
          /\ SF_queueVars(\E c \in Consumer, S \in SUBSET Queued : m \in S /\ Receive(c, S))
          /\ SF_queueVars(\E c \in Consumer : Take(c, m))
          /\ SF_queueVars(\E c \in Consumer : Returns(c, m, TRUE) /\ handler'[c][m] = "deleting")
          /\ SF_queueVars(\E c \in Consumer : Deleted(c, m))

-----------------------------------------------------------------------------
(* Types of the adapters' state, and of what BullMQ counts.                 *)
QueueTypes ==
    /\ adapter \in Adapter
    /\ job \in [Msg -> {"new", "queued", "taken", "gone", "lost"}]
    /\ phase \in {"down", "up", "draining", "failed"} /\ running \in BOOLEAN
    /\ consumer \in [Consumer -> {"off", "receive", "batch", "backoff", "dead",
                                  "open", "closing"}]
    /\ handler \in [Consumer -> [Msg -> {"none", "scheduled", "invoked", "hung", "deleting"}]]
    /\ awaited \subseteq Consumer /\ done \subseteq Msg
    /\ tries \in [Msg -> Nat] /\ stalled \in [Msg -> Nat] /\ interrupted \in [Msg -> Nat]

(* Whatever crashes, redeliveries and overlapping runs happen, no adapter   *)
(* lets a job leave the queue before a run of it has succeeded (SQS), has   *)
(* ended (memory), or has ended as its attempts allow or been cut short by  *)
(* more exits of the process than its worker puts up with (BullMQ).         *)
Promise == INSTANCE Delivery WITH
    policy <- [sqs |-> "requeue", memory |-> "final", bullmq |-> "attempts"][adapter],
    accepted <- {m \in Msg : job[m] # "new"},
    completed <- done,
    settled <- {m \in Msg : job[m] = "gone"}
ImplementsDelivery == Promise!Spec

(* README of the queue transport: "stop() drains in-flight handlers, then   *)
(* leaves anything the long poll delivers late for redelivery".  When stop  *)
(* has returned no handler of SQS or BullMQ runs or starts, but for those   *)
(* of a batch that a throwing onError has torn.                             *)
StopDrains ==
    phase = "down" /\ adapter # "memory" =>
        \A c \in Consumer : consumer[c] # "dead" => ~Working(c)

Hanging(c) == \E m \in Msg : handler[c][m] = "hung"

(* stop settles, even with the long poll outstanding, unless a handler that *)
(* it waits for hangs: failed deletions, thrown errors, batches and workers *)
(* of an earlier mount keep it waiting for no longer.                       *)
StopSettles ==
    phase = "draining" ~> phase # "draining" \/ \E c \in awaited : Hanging(c)

(* An adapter that stays up, with no loop ended by its onError and no       *)
(* handler hung, settles every job: failed deletions, failed runs, failed   *)
(* receives and late polls of an earlier mount only delay it.               *)
JobsSettle ==
    \A m \in Msg :
        <>[](phase = "up" /\ \A c \in Consumer : consumer[c] # "dead" /\ ~Hanging(c))
            => (job[m] = "queued" ~> job[m] \in {"gone", "lost"})
=============================================================================
