--------------------------- MODULE InMemoryBroker ---------------------------
(***************************************************************************)
(* The broker double of the tests (pipeline_common/adapters/memory.py) and *)
(* a consumer that, like the detector, settles deliveries one at a time or *)
(* a batch at a time with one cumulative acknowledgement.                  *)
(*                                                                         *)
(* An envelope gets its tag when it is published and keeps it, so a tag is *)
(* the message.                                                            *)
(***************************************************************************)
EXTENDS Naturals, Sequences, SequencesExt, FiniteSetsExt, Subsequence

CONSTANT FailAfter   \* fail_after: publishes that succeed before one raises

ASSUME FailAfterAssumption == FailAfter \in Nat

Tags == 1 .. FailAfter

VARIABLES
    ready,         \* _ready
    unacked,       \* the tags of _unacked
    redelivered,   \* envelopes with the flag
    acked,         \* acked
    dead,          \* dead_lettered
    published,     \* the last tag taken from _tags
    hand,          \* deliveries the consumer has not settled, in the order handed out
    closed         \* _closed

brokerVars == <<ready, unacked, redelivered, acked, dead, published, hand, closed>>

BrokerInit ==
    /\ ready = << >> /\ unacked = {} /\ redelivered = {}
    /\ acked = {} /\ dead = {} /\ published = 0
    /\ hand = << >> /\ closed = FALSE

-----------------------------------------------------------------------------
\* InMemoryFramePublisher.publish; past fail_after it raises and changes nothing.
Publish ==
    /\ published < FailAfter
    /\ published' = published + 1
    /\ ready' = Append(ready, published')
    /\ UNCHANGED <<unacked, redelivered, acked, dead, hand, closed>>

\* next_delivery and track run without an await in between.
NextDelivery_Untracked ==
    /\ ready # << >>
    /\ ready' = Tail(ready) /\ hand' = Append(hand, Head(ready))
    /\ UNCHANGED <<unacked, redelivered, acked, dead, published, closed>>
NextDelivery ==
    /\ ready # << >>
    /\ ready' = Tail(ready)
    /\ unacked' = unacked \cup {Head(ready)} /\ hand' = Append(hand, Head(ready))
    /\ UNCHANGED <<redelivered, acked, dead, published, closed>>

\* The tags that _ack(multiple=True) settles.
UpTo_All(tag) == unacked
UpTo(tag) == {t \in unacked : t <= tag}

Acked(tags) ==
    /\ unacked' = unacked \ tags /\ acked' = acked \cup tags
    /\ UNCHANGED <<ready, redelivered, dead, published, closed>>

Ack(tag) == Acked({tag}) /\ hand' = Without(hand, {tag})

\* A batch is the oldest deliveries at hand; ack(multiple) on its highest tag.
AckBatch(n) ==
    /\ Acked(UpTo(Max(ToSet(SubSeq(hand, 1, n)))))
    /\ hand' = SubSeq(hand, n + 1, Len(hand))

\* _nack, of one delivery or of each of a batch in turn: it forgets what is not
\* among the unsettled, and appends the rest at the tail.
Requeued_Unflagged(tags) ==
    /\ ready' = ready \o Only(tags, unacked)
    /\ UNCHANGED redelivered
Requeued(tags) ==
    LET known == Only(tags, unacked) IN
    ready' = ready \o known /\ redelivered' = redelivered \cup ToSet(known)

NackRequeue(tags) ==
    /\ Requeued(tags)
    /\ unacked' = unacked \ ToSet(tags)
    /\ hand' = Without(hand, ToSet(tags))
    /\ UNCHANGED <<acked, dead, published, closed>>

NackDead(tag) ==
    /\ dead' = dead \cup ({tag} \cap unacked) /\ unacked' = unacked \ {tag}
    /\ hand' = Without(hand, {tag})
    /\ UNCHANGED <<ready, redelivered, acked, published, closed>>

\* close() wakes the consumer, which ends once _ready is empty.  What is unsettled
\* stays so: the double has no connection to lose.
Close ==
    /\ ~closed /\ closed' = TRUE
    /\ UNCHANGED <<ready, unacked, redelivered, acked, dead, published, hand>>

BrokerIdle == closed /\ ready = << >> /\ hand = << >> /\ UNCHANGED brokerVars

BrokerNext ==
    \/ Publish \/ NextDelivery \/ Close
    \/ \E tag \in ToSet(hand) : Ack(tag) \/ NackRequeue(<<tag>>) \/ NackDead(tag)
    \/ \E n \in 1 .. Len(hand) : AckBatch(n) \/ NackRequeue(SubSeq(hand, 1, n))
    \/ BrokerIdle

BrokerSpec == BrokerInit /\ [][BrokerNext]_brokerVars

-----------------------------------------------------------------------------
(* Properties.                                                             *)

BrokerTypeOK ==
    /\ ready \in Seq(Tags) /\ unacked \subseteq Tags /\ redelivered \subseteq Tags
    /\ acked \subseteq Tags /\ dead \subseteq Tags /\ published \in 0 .. FailAfter
    /\ hand \in Seq(Tags) /\ closed \in BOOLEAN

Queue == INSTANCE WorkQueue WITH
    Messages <- Tags, PartitionOf <- [t \in Tags |-> 1],
    queued <- ToSet(ready), held <- unacked

\* "nack(requeue=True) really redelivers and flips redelivered, nack(requeue=False)
\* really dead-letters": the double keeps to the broker ports as RabbitMQ does.
ImplementsQueue == Queue!Spec

\* What the consumer holds and what the broker waits for are the same, but for
\* redelivered messages: these keep their old tag, so the cumulative ack of an
\* earlier batch may settle them while they are still being worked on.
EarlyOnlyIfRedelivered ==
    /\ unacked \subseteq ToSet(hand)
    /\ ToSet(hand) \ unacked \subseteq redelivered
=============================================================================
