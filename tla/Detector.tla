------------------------------ MODULE Detector ------------------------------
(***************************************************************************)
(* The stream detector: replicas that consume frame references from the    *)
(* partition queues (stream_detector/ and the consumer side of             *)
(* pipeline_common/adapters/rabbitmq.py).                                  *)
(*                                                                         *)
(*   partition queue --(one active consumer)--> inbox --> _handle, one at  *)
(*   a time --> batcher --(size, age or stop)--> next service, then ack    *)
(*                                                                         *)
(* A replica is one event loop with two tasks, the consume loop and the    *)
(* batch timer, that share the batcher under its lock.  RabbitMQ and Redis *)
(* are the environment, seen through the calls the code makes.             *)
(***************************************************************************)
EXTENDS Naturals, Sequences, SequencesExt, FiniteSetsExt, Subsequence

CONSTANTS
    Replicas,          \* the detector containers
    Partitions,        \* frame_partitions
    NumMessages,       \* references published, numbered in publish order
    FrameOf,           \* the frame each names (a resumed job may publish one twice)
    PartitionOf,       \* the queue each is on
    Prefetch,          \* detector_prefetch
    BatchSize,         \* batch_max_size
    Faults,            \* which of the calls may fail, see below
    MaxInterruptions,  \* bound on crashes, shutdowns and dead consume loops
    MaxSinkFailures    \* bound on failed flushes

Messages == 1 .. NumMessages
None == 0

ASSUME ReplicasAssumption == IsFiniteSet(Replicas) /\ Replicas # {}
ASSUME MessagesAssumption ==
    /\ NumMessages \in Nat
    /\ FrameOf \in [Messages -> Messages]
    /\ PartitionOf \in [Messages -> Partitions]
ASSUME SizesAssumption == Prefetch \in Nat \ {0} /\ BatchSize \in Nat \ {0}
ASSUME FaultsAssumption ==
    Faults \subseteq {"crash", "sigterm", "sink", "load", "reject", "stale", "claim", "count"}
ASSUME BoundsAssumption == MaxInterruptions \in Nat /\ MaxSinkFailures \in Nat

VARIABLES
    ready,          \* messages waiting in each partition's queue
    active,         \* the active consumer of each partition
    redelivered,    \* messages that carry the redelivered flag
    acked, dead,    \* messages acknowledged, messages dead-lettered
    connected,      \* is the replica's connection to RabbitMQ open
    unacked,        \* its unsettled deliveries, in delivery-tag order
    fetched,        \* deliveries on their way to its inbox, by partition
    state, current, \* where the consume loop is, and with which message
    pending,        \* ResultBatcher._pending
    flushing,       \* the batch being flushed
    flusher,        \* who flushes, that is, who holds the batcher's lock
    sunk,           \* has the sink accepted that batch
    claimed,        \* dedup keys in Redis
    processed,      \* frames_processed of the job in Redis
    reported,       \* results the next service received, in order
    shed,           \* history: messages acknowledged as stale
    interruptions, sinkFailures

queueVars == <<ready, redelivered, acked, dead>>
channelVars == <<connected, unacked, fetched>>
loopVars == <<state, current>>
batchVars == <<pending, flushing, flusher, sunk>>
redisVars == <<claimed, processed>>
boundVars == <<interruptions, sinkFailures>>

vars == <<queueVars, active, channelVars, loopVars, batchVars, redisVars,
          reported, shed, boundVars>>

-----------------------------------------------------------------------------
Frame(d) == FrameOf[current[d]]
Of(S, p) == {m \in S : PartitionOf[m] = p}

Requeue_Unflagged(S) ==
    /\ ready' = [p \in Partitions |-> ready[p] \cup Of(S, p)]
    /\ UNCHANGED redelivered

\* RabbitMQ puts messages back where they were in their queues, and flags them.
Requeue(S) ==
    /\ ready' = [p \in Partitions |-> ready[p] \cup Of(S, p)]
    /\ redelivered' = redelivered \cup S

\* Settling one delivery of replica d.
Settle(d, m) == unacked' = [unacked EXCEPT ![d] = Without(@, {m})]

\* The qos limit holds for each consumer, that is, for each partition.
MayDeliver_Unlimited(d, p) == TRUE
MayDeliver(d, p) == Cardinality(Of(ToSet(unacked[d]), p)) < Prefetch

\* SET NX on the frame's dedup key.
Claimable_Always(f) == TRUE
Claimable(f) == f \notin claimed

\* How many of d's deliveries, in tag order, ack(multiple) settles: all up to the
\* batch's highest tag.
CumulativeUpTo_Newest(d, batch) == Len(unacked[d])
CumulativeUpTo(d, batch) ==
    Max({0} \cup {i \in DOMAIN unacked[d] : unacked[d][i] \in ToSet(batch)})

\* The frame is loaded before its key is claimed, so a retry finds no key.
LoadedBeforeClaim_After(d) == claimed' = claimed \cup {Frame(d)} /\ UNCHANGED processed
LoadedBeforeClaim(d) == UNCHANGED redisVars

\* The result joins the buffer at its end.
Buffered_Front(d) == <<current[d]>> \o pending[d]
Buffered(d) == Append(pending[d], current[d])

\* The age flush needs no full batch.
AgeReached_OnlyFull(d) == Len(pending[d]) >= BatchSize
AgeReached(d) == pending[d] # << >>

\* A message found stale, a duplicate or bad is settled at once.
DuplicateSettled_Forgotten(d) == UNCHANGED <<unacked, acked>>
DuplicateSettled(d) == Settle(d, current[d]) /\ acked' = acked \cup {current[d]}

Init ==
    /\ ready = [p \in Partitions |-> Of(Messages, p)]
    /\ active \in [Partitions -> Replicas]
    /\ redelivered = {} /\ acked = {} /\ dead = {}
    /\ connected = [d \in Replicas |-> TRUE]
    /\ unacked = [d \in Replicas |-> << >>]
    /\ fetched = [d \in Replicas |-> [p \in Partitions |-> << >>]]
    /\ state = [d \in Replicas |-> "idle"] /\ current = [d \in Replicas |-> None]
    /\ pending = [d \in Replicas |-> << >>] /\ flushing = [d \in Replicas |-> << >>]
    /\ flusher = [d \in Replicas |-> "none"] /\ sunk = [d \in Replicas |-> FALSE]
    /\ claimed = {} /\ processed = 0 /\ reported = << >> /\ shed = {}
    /\ interruptions = 0 /\ sinkFailures = 0

-----------------------------------------------------------------------------
(* RabbitMQ and the pumps.  The pumps of several partitions feed one inbox *)
(* and may interleave in any way that keeps each partition's order.        *)

Deliver(d, p) ==
    /\ connected[d] /\ active[p] = d /\ ready[p] # {} /\ MayDeliver(d, p)
    /\ LET m == Min(ready[p]) IN
       /\ ready' = [ready EXCEPT ![p] = @ \ {m}]
       /\ unacked' = [unacked EXCEPT ![d] = Append(@, m)]
       /\ fetched' = [fetched EXCEPT ![d][p] = Append(@, m)]
    /\ UNCHANGED <<redelivered, acked, dead, active, connected, loopVars, batchVars, redisVars,
                   reported, shed, boundVars>>

\* x-single-active-consumer: another consumer takes over when one is gone.
Promote(p) ==
    /\ ~connected[active[p]]
    /\ \E d \in Replicas : connected[d] /\ active' = [active EXCEPT ![p] = d]
    /\ UNCHANGED <<queueVars, channelVars, loopVars, batchVars, redisVars, reported, shed,
                   boundVars>>

Broker == (\E d \in Replicas, p \in Partitions : Deliver(d, p)) \/ \E p \in Partitions : Promote(p)

-----------------------------------------------------------------------------
(* The consume loop: _handle with FrameProcessor.process.                  *)

TakeDelivery(d) ==
    /\ state[d] = "idle"
    /\ \E p \in Partitions :
        /\ fetched[d][p] # << >>
        /\ current' = [current EXCEPT ![d] = Head(fetched[d][p])]
        /\ fetched' = [fetched EXCEPT ![d][p] = Tail(@)]
    /\ state' = [state EXCEPT ![d] = "working"]
    /\ UNCHANGED <<queueVars, connected, unacked, redisVars, shed>>

\* The frame is past its latency budget.
ShedStale(d) ==
    /\ "stale" \in Faults /\ state[d] = "working"
    /\ Settle(d, current[d]) /\ acked' = acked \cup {current[d]}
    /\ shed' = shed \cup {current[d]}
    /\ state' = [state EXCEPT ![d] = "idle"] /\ current' = [current EXCEPT ![d] = None]
    /\ UNCHANGED <<ready, redelivered, dead, connected, fetched, redisVars>>

\* Redis did not answer: one retry, told by the redelivered flag.
LoadFails(d) ==
    /\ "load" \in Faults /\ state[d] = "working"
    /\ Settle(d, current[d])
    /\ IF current[d] \in redelivered
       THEN dead' = dead \cup {current[d]} /\ UNCHANGED <<ready, redelivered>>
       ELSE Requeue({current[d]}) /\ UNCHANGED dead
    /\ state' = [state EXCEPT ![d] = "idle"] /\ current' = [current EXCEPT ![d] = None]
    /\ LoadedBeforeClaim(d)
    /\ UNCHANGED <<acked, connected, fetched, shed>>

\* The blob is gone or not an image, or the detector raised something unexpected.
Reject(d) ==
    /\ "reject" \in Faults /\ state[d] = "working"
    /\ Settle(d, current[d]) /\ dead' = dead \cup {current[d]}
    /\ state' = [state EXCEPT ![d] = "idle"] /\ current' = [current EXCEPT ![d] = None]
    /\ UNCHANGED <<ready, redelivered, acked, connected, fetched, redisVars, shed>>

Detected(d) ==
    /\ state[d] = "working"
    /\ state' = [state EXCEPT ![d] = "claiming"]
    /\ UNCHANGED <<queueVars, channelVars, current, redisVars, shed>>

Claim(d) ==
    /\ state[d] = "claiming" /\ Claimable(Frame(d))
    /\ claimed' = claimed \cup {Frame(d)}
    /\ state' = [state EXCEPT ![d] = "adding"]
    /\ UNCHANGED <<queueVars, channelVars, current, processed, shed>>

\* Fail open: the key may have been set although the call raised.
ClaimFails(d) ==
    /\ "claim" \in Faults /\ state[d] = "claiming"
    /\ claimed' \in {claimed, claimed \cup {Frame(d)}}
    /\ state' = [state EXCEPT ![d] = "adding"]
    /\ UNCHANGED <<queueVars, channelVars, current, processed, shed>>

Duplicate(d) ==
    /\ state[d] = "claiming" /\ ~Claimable(Frame(d))
    /\ DuplicateSettled(d)
    /\ state' = [state EXCEPT ![d] = "idle"] /\ current' = [current EXCEPT ![d] = None]
    /\ UNCHANGED <<ready, redelivered, dead, connected, fetched, redisVars, shed>>

\* The batcher is entered only with its lock; a full batch is flushed at once.
Add(d) ==
    /\ state[d] = "adding" /\ flusher[d] = "none"
    /\ IF Len(Buffered(d)) >= BatchSize
       THEN /\ flushing' = [flushing EXCEPT ![d] = Buffered(d)]
            /\ pending' = [pending EXCEPT ![d] = << >>]
            /\ flusher' = [flusher EXCEPT ![d] = "worker"]
            /\ state' = [state EXCEPT ![d] = "flushing"]
       ELSE /\ pending' = [pending EXCEPT ![d] = Buffered(d)]
            /\ state' = [state EXCEPT ![d] = "counting"]
            /\ UNCHANGED <<flushing, flusher>>
    /\ current' = [current EXCEPT ![d] = None]
    /\ UNCHANGED <<queueVars, active, channelVars, sunk, redisVars, reported, shed, boundVars>>

Count(d) ==
    /\ state[d] = "counting"
    /\ processed' = processed + 1
    /\ state' = [state EXCEPT ![d] = "idle"]
    /\ UNCHANGED <<queueVars, channelVars, current, claimed, shed>>

Handle(d) ==
    \/ /\ \/ TakeDelivery(d) \/ ShedStale(d) \/ LoadFails(d) \/ Reject(d) \/ Detected(d)
          \/ Claim(d) \/ ClaimFails(d) \/ Duplicate(d) \/ Count(d)
       /\ UNCHANGED <<active, batchVars, reported, boundVars>>
    \/ Add(d)

-----------------------------------------------------------------------------
(* ResultBatcher: the flush runs under the lock, in three steps: the swap   *)
(* of the buffer, the sink's answer, the settlement.                       *)

\* The batch timer finds an old enough buffer.
AgeFlush(d) ==
    /\ state[d] \notin {"stopping", "down"} /\ flusher[d] = "none" /\ AgeReached(d)
    /\ flushing' = [flushing EXCEPT ![d] = pending[d]]
    /\ pending' = [pending EXCEPT ![d] = << >>]
    /\ flusher' = [flusher EXCEPT ![d] = "timer"]
    /\ UNCHANGED <<queueVars, channelVars, state, sunk, reported, boundVars>>

\* batcher.stop() flushes what is left.
StopFlush(d) ==
    /\ state[d] = "stopping" /\ flusher[d] = "none" /\ pending[d] # << >>
    /\ flushing' = [flushing EXCEPT ![d] = pending[d]]
    /\ pending' = [pending EXCEPT ![d] = << >>]
    /\ flusher' = [flusher EXCEPT ![d] = "stop"]
    /\ UNCHANGED <<queueVars, channelVars, state, sunk, reported, boundVars>>

SinkAccepts(d) ==
    /\ flusher[d] # "none" /\ ~sunk[d]
    /\ reported' = reported \o flushing[d]
    /\ sunk' = [sunk EXCEPT ![d] = TRUE]
    /\ UNCHANGED <<queueVars, channelVars, state, pending, flushing, flusher, boundVars>>

Released_Uncounted(d) ==
    /\ flushing' = [flushing EXCEPT ![d] = << >>]
    /\ flusher' = [flusher EXCEPT ![d] = "none"]
    /\ sunk' = [sunk EXCEPT ![d] = FALSE]
    /\ state' = [state EXCEPT ![d] = IF flusher[d] = "worker" THEN "idle" ELSE @]

\* The lock is free again; a worker that flushed from add() goes on to count.
Released(d) ==
    /\ flushing' = [flushing EXCEPT ![d] = << >>]
    /\ flusher' = [flusher EXCEPT ![d] = "none"]
    /\ sunk' = [sunk EXCEPT ![d] = FALSE]
    /\ state' = [state EXCEPT ![d] = IF flusher[d] = "worker" THEN "counting" ELSE @]

\* ack(multiple=True) on the batch's highest tag; it raises once the connection
\* is closed, and nobody is left to notice.
AckBatch(d) ==
    /\ sunk[d]
    /\ IF connected[d]
       THEN LET n == CumulativeUpTo(d, flushing[d]) IN
            /\ acked' = acked \cup ToSet(SubSeq(unacked[d], 1, n))
            /\ unacked' = [unacked EXCEPT ![d] = SubSeq(@, n + 1, Len(@))]
       ELSE UNCHANGED <<acked, unacked>>
    /\ Released(d)
    /\ UNCHANGED <<ready, redelivered, dead, connected, fetched, pending, reported, boundVars>>

\* The sink raises, having delivered the batch or not; every item is handed back.
SinkFails(d) ==
    /\ "sink" \in Faults /\ sinkFailures < MaxSinkFailures
    /\ flusher[d] # "none" /\ ~sunk[d]
    /\ reported' \in {reported, reported \o flushing[d]}
    /\ sinkFailures' = sinkFailures + 1
    /\ IF connected[d]
       THEN /\ Requeue(ToSet(flushing[d]) \cap ToSet(unacked[d]))
            /\ unacked' = [unacked EXCEPT
                             ![d] = Without(@, ToSet(flushing[d]))]
       ELSE UNCHANGED <<ready, redelivered, unacked>>
    /\ Released(d)
    /\ UNCHANGED <<acked, dead, connected, fetched, pending, interruptions>>

Flush(d) ==
    /\ AgeFlush(d) \/ StopFlush(d) \/ SinkAccepts(d) \/ AckBatch(d) \/ SinkFails(d)
    /\ UNCHANGED <<active, current, redisVars, shed>>

-----------------------------------------------------------------------------
(* The ends of a replica.                                                  *)

\* A flush cut short: the sink's thread may still deliver, nothing is settled.
Abandoned(d) ==
    /\ flushing' = [flushing EXCEPT ![d] = << >>]
    /\ flusher' = [flusher EXCEPT ![d] = "none"]
    /\ sunk' = [sunk EXCEPT ![d] = FALSE]
    /\ reported' \in IF sunk[d] THEN {reported} ELSE {reported, reported \o flushing[d]}

\* The connection goes: the broker takes back all that is not settled.
Disconnected(d) ==
    /\ Requeue(ToSet(unacked[d]))
    /\ connected' = [connected EXCEPT ![d] = FALSE]
    /\ unacked' = [unacked EXCEPT ![d] = << >>]
    /\ fetched' = [fetched EXCEPT ![d] = [p \in Partitions |-> << >>]]

MayInterrupt(kind) ==
    /\ kind \in Faults /\ interruptions < MaxInterruptions
    /\ interruptions' = interruptions + 1

\* increment_processed raises, with or without effect: the consume loop ends and
\* its finally stops the batcher, the connection still open.
CountRaises(d) ==
    /\ MayInterrupt("count") /\ state[d] = "counting"
    /\ processed' \in {processed, processed + 1}
    /\ Abandoned(d)
    /\ state' = [state EXCEPT ![d] = "stopping"]
    /\ UNCHANGED <<queueVars, channelVars, current, pending, claimed>>

\* SIGTERM: consumer.close() first, then the loop is cancelled wherever it is,
\* and its finally stops the batcher.
Sigterm(d) ==
    /\ MayInterrupt("sigterm") /\ state[d] \notin {"stopping", "down"}
    /\ Disconnected(d) /\ Abandoned(d)
    /\ state' = [state EXCEPT ![d] = "stopping"] /\ current' = [current EXCEPT ![d] = None]
    /\ UNCHANGED <<acked, dead, pending, redisVars>>

Crash(d) ==
    /\ MayInterrupt("crash") /\ state[d] # "down"
    /\ Disconnected(d) /\ Abandoned(d)
    /\ pending' = [pending EXCEPT ![d] = << >>]
    /\ state' = [state EXCEPT ![d] = "down"] /\ current' = [current EXCEPT ![d] = None]
    /\ UNCHANGED <<acked, dead, redisVars>>

\* The batcher has stopped; what is left of the connection is closed.
Exit(d) ==
    /\ state[d] = "stopping" /\ flusher[d] = "none" /\ pending[d] = << >>
    /\ Disconnected(d)
    /\ state' = [state EXCEPT ![d] = "down"]
    /\ UNCHANGED <<acked, dead, current, batchVars, redisVars, reported, interruptions>>

\* The container is restarted.
Restart(d) ==
    /\ state[d] = "down"
    /\ connected' = [connected EXCEPT ![d] = TRUE]
    /\ state' = [state EXCEPT ![d] = "idle"]
    /\ UNCHANGED <<queueVars, unacked, fetched, current, batchVars, redisVars, reported,
                   interruptions>>

Interruption(d) ==
    /\ CountRaises(d) \/ Sigterm(d) \/ Crash(d)
    /\ UNCHANGED <<active, shed, sinkFailures>>

Recovery(d) ==
    /\ Exit(d) \/ Restart(d)
    /\ UNCHANGED <<active, shed, sinkFailures>>

-----------------------------------------------------------------------------
Drained == acked \cup dead = Messages /\ \A d \in Replicas : state[d] = "idle"

Idle == Drained /\ UNCHANGED vars

Next ==
    \/ Broker
    \/ \E d \in Replicas : Handle(d) \/ Flush(d) \/ Interruption(d) \/ Recovery(d)
    \/ Idle

Spec == Init /\ [][Next]_vars

\* RabbitMQ delivers while the consumer has room and promotes a standby; each
\* replica's tasks get their turn, every call returns or raises, and a container
\* that went down is restarted.  No call has to succeed.
FairSpec ==
    /\ Spec
    /\ WF_vars(Broker)
    /\ \A d \in Replicas :
        WF_vars(Handle(d)) /\ WF_vars(Flush(d)) /\ WF_vars(Recovery(d))

-----------------------------------------------------------------------------
(* Properties.                                                             *)

TypeOK ==
    /\ ready \in [Partitions -> SUBSET Messages] /\ active \in [Partitions -> Replicas]
    /\ redelivered \subseteq Messages /\ acked \subseteq Messages /\ dead \subseteq Messages
    /\ connected \in [Replicas -> BOOLEAN]
    /\ \A d \in Replicas :
        /\ unacked[d] \in Seq(Messages)
        /\ \A p \in Partitions :
              fetched[d][p] \in Seq(Messages) /\ Len(fetched[d][p]) <= Prefetch
        /\ pending[d] \in Seq(Messages) /\ Len(pending[d]) < BatchSize
        /\ flushing[d] \in Seq(Messages) /\ Len(flushing[d]) <= BatchSize
    /\ state \in [Replicas -> {"idle", "working", "claiming", "adding", "flushing", "counting",
                               "stopping", "down"}]
    /\ current \in [Replicas -> Messages \cup {None}]
    /\ flusher \in [Replicas -> {"none", "worker", "timer", "stop"}]
    /\ sunk \in [Replicas -> BOOLEAN]
    /\ claimed \subseteq Messages /\ processed \in Nat
    /\ reported \in Seq(Messages) /\ shed \subseteq Messages
    /\ interruptions \in 0 .. MaxInterruptions /\ sinkFailures \in 0 .. MaxSinkFailures

\* While Redis answers, the next service receives no frame twice, whatever is
\* redelivered, crashes or is published twice.
ReportedAtMostOnce ==
    \A i, j \in DOMAIN reported : FrameOf[reported[i]] = FrameOf[reported[j]] => i = j

\* Frames whose result is on its way to the next service.
InHand(d) ==
    {FrameOf[m] : m \in ToSet(pending[d]) \cup ToSet(flushing[d])}
        \cup IF state[d] = "adding" THEN {Frame(d)} ELSE {}

\* Frames that were acknowledged, not as stale, and that nobody will report.
Lost ==
    ({FrameOf[m] : m \in acked \ shed} \ {FrameOf[m] : m \in ToSet(reported)})
        \ UNION {InHand(d) : d \in Replicas}

\* "Nothing is ever silently dropped."
NoSilentDrop == Lost = {}

\* Once the queues are drained, frames_processed counts what the next service has
\* received, but for a batch per interruption or failed flush that was counted and
\* lost, and a frame per interruption that was reported and not counted.
CounterDrift ==
    Drained =>
        /\ processed <= Len(reported) + BatchSize * (interruptions + sinkFailures)
        /\ Len(reported) <= processed + interruptions

\* A crash, a shutdown, a dead consume loop or a failed flush loses at most one
\* batch, and nothing else loses anything.
LossBounded == Cardinality(Lost) <= BatchSize * (interruptions + sinkFailures)

\* "A batch's tags are contiguous and nothing older is still in flight": the
\* cumulative acknowledgement settles the batch and nothing else.
MultipleAckSafe ==
    \A d \in Replicas : sunk[d] /\ connected[d] =>
        ToSet(SubSeq(unacked[d], 1, CumulativeUpTo(d, flushing[d]))) = ToSet(flushing[d])

\* No delivery leaks: what the broker waits for, a running replica still holds.
HeldIsUnacked ==
    \A d \in Replicas : state[d] \notin {"stopping", "down"} =>
        ToSet(unacked[d]) =
            (UNION {ToSet(fetched[d][p]) : p \in Partitions})
                \cup ToSet(pending[d]) \cup ToSet(flushing[d]) \cup ({current[d]} \ {None})

\* Whatever fails, a frame is overtaken within its partition only if it went back to
\* its queue: the order holds for everything delivered once.
OvertakenOnlyIfRedelivered ==
    \A i, j \in DOMAIN reported :
        /\ i < j /\ PartitionOf[reported[i]] = PartitionOf[reported[j]]
        /\ reported[j] < reported[i]
        => reported[j] \in redelivered

Queue == INSTANCE WorkQueue WITH
    queued <- UNION {ready[p] : p \in Partitions},
    held <- UNION {ToSet(unacked[d]) : d \in Replicas}

\* Replicas, pumps, batches and crashes together keep to the broker ports: every
\* reference is in one place, comes back marked, and once settled stays settled.
ImplementsQueue == Queue!Spec

\* Every message is in the end acknowledged or dead-lettered.
EventuallySettled == <>[](acked \cup dead = Messages)
=============================================================================
