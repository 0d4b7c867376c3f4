------------------------------ MODULE WorkQueue ------------------------------
(***************************************************************************)
(* What the broker ports of pipeline_common/ports.py promise: a published  *)
(* reference is handed out until it is settled, a settled one is gone, and *)
(* what comes back is marked.  No channels, tags, batches or replicas.     *)
(***************************************************************************)
EXTENDS Naturals

CONSTANTS
    Messages,    \* the references, numbered in publish order
    PartitionOf  \* the queue each is on

VARIABLES
    queued,      \* published and waiting
    held,        \* with a consumer, unsettled
    acked, dead, \* settled: acknowledged, dead-lettered
    redelivered  \* handed out before

vars == <<queued, held, acked, dead, redelivered>>

Init ==
    /\ queued \in SUBSET Messages
    /\ held = {} /\ acked = {} /\ dead = {} /\ redelivered = {}

\* FramePublisher.publish returns once the broker has the message.
Publish(m) ==
    /\ m \notin queued \cup held \cup acked \cup dead
    /\ queued' = queued \cup {m}
    /\ UNCHANGED <<held, acked, dead, redelivered>>

\* What was never handed out leaves its queue in publish order.
InOrder(m) ==
    m \in redelivered \/ \A n \in queued \ redelivered : PartitionOf[n] = PartitionOf[m] => m <= n

Deliver(m) ==
    /\ m \in queued /\ InOrder(m)
    /\ queued' = queued \ {m} /\ held' = held \cup {m}
    /\ UNCHANGED <<acked, dead, redelivered>>

\* Delivery.ack, of one delivery or of several.
Ack(S) ==
    /\ held' = held \ S /\ acked' = acked \cup S
    /\ UNCHANGED <<queued, dead, redelivered>>

\* Delivery.nack(requeue=True), and what a consumer that goes away leaves behind.
Requeue(S) ==
    /\ held' = held \ S /\ queued' = queued \cup S /\ redelivered' = redelivered \cup S
    /\ UNCHANGED <<acked, dead>>

\* Delivery.nack(requeue=False).
DeadLetter(S) ==
    /\ held' = held \ S /\ dead' = dead \cup S
    /\ UNCHANGED <<queued, acked, redelivered>>

Next ==
    \/ \E m \in Messages : Publish(m) \/ Deliver(m)
    \/ \E S \in SUBSET held : Ack(S) \/ Requeue(S) \/ DeadLetter(S)

Spec == Init /\ [][Next]_vars
=============================================================================
