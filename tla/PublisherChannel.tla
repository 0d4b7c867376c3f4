-------------------------- MODULE PublisherChannel --------------------------
(***************************************************************************)
(* How the publisher adapter shares one channel between its callers        *)
(* (RabbitMQFramePublisher in pipeline_common/adapters/rabbitmq.py): the   *)
(* publisher tasks of every run, and the health probes.  _ensure_channel   *)
(* holds no lock across its awaits.                                        *)
(*                                                                         *)
(* A connection carries one channel, so one number names both.             *)
(***************************************************************************)
EXTENDS Naturals, FiniteSets

CONSTANTS
    Callers,      \* tasks that publish or probe
    MaxLosses,    \* bound on channels that the broker or the network closes
    MaxFailures   \* bound on channels that cannot be opened or declared on

ASSUME CallersAssumption == IsFiniteSet(Callers) /\ Callers # {}
ASSUME LossesAssumption == MaxLosses \in Nat /\ MaxFailures \in Nat

None == 0

VARIABLES
    caller,              \* where each caller is
    own,                 \* the connection each caller works with
    connection, channel, \* _connection, _channel
    open,                \* connections open at the broker
    lost,                \* channels that are closed
    opened,              \* connections opened so far
    failures

channelVars == <<caller, own, connection, channel, open, lost, opened, failures>>

Goes(c, s) == caller' = [caller EXCEPT ![c] = s]

ChannelInit ==
    /\ caller = [c \in Callers |-> "idle"] /\ own = [c \in Callers |-> None]
    /\ connection = None /\ channel = None
    /\ open = {} /\ lost = {} /\ opened = 0 /\ failures = 0

-----------------------------------------------------------------------------
\* "is not None and not is_closed"
Usable_Never == FALSE
Usable == channel # None /\ channel \notin lost

UseChannel(c) ==
    /\ caller[c] = "idle" /\ Usable
    /\ own' = [own EXCEPT ![c] = channel]
    /\ Goes(c, "publishing")
    /\ UNCHANGED <<connection, channel, open, lost, opened, failures>>

StartConnecting(c) ==
    /\ caller[c] = "idle" /\ ~Usable
    /\ Goes(c, "connecting")
    /\ UNCHANGED <<own, connection, channel, open, lost, opened, failures>>

\* connect_robust returns: whatever _connection held is overwritten, not closed.
Connected(c) ==
    /\ caller[c] = "connecting"
    /\ opened' = opened + 1
    /\ open' = open \cup {opened'} /\ connection' = opened'
    /\ own' = [own EXCEPT ![c] = opened']
    /\ Goes(c, "declaring")
    /\ UNCHANGED <<channel, lost, failures>>

ConnectFails(c) ==
    /\ caller[c] = "connecting"
    /\ Goes(c, "idle")
    /\ UNCHANGED <<own, connection, channel, open, lost, opened, failures>>

\* The topology is declared before others can see the channel.
Declared_Discarded(c) ==
    /\ caller[c] = "declaring"
    /\ Goes(c, "publishing")
    /\ UNCHANGED <<own, connection, channel, open, lost, opened, failures>>
Declared(c) ==
    /\ caller[c] = "declaring"
    /\ channel' = own[c]
    /\ Goes(c, "publishing")
    /\ UNCHANGED <<own, connection, open, lost, opened, failures>>

\* The channel does not open or a declaration is refused: the connection stays.
SetupFails(c) ==
    /\ caller[c] = "declaring" /\ failures < MaxFailures
    /\ failures' = failures + 1
    /\ own' = [own EXCEPT ![c] = None] /\ Goes(c, "idle")
    /\ UNCHANGED <<connection, channel, open, lost, opened>>

\* The publish is confirmed or raises, or the probe looks at is_closed.
Published(c) ==
    /\ caller[c] = "publishing"
    /\ own' = [own EXCEPT ![c] = None] /\ Goes(c, "idle")
    /\ UNCHANGED <<connection, channel, open, lost, opened, failures>>

\* A channel is closed under its users.
Lose(n) ==
    /\ n \in open \ lost /\ Cardinality(lost) < MaxLosses
    /\ lost' = lost \cup {n}
    /\ UNCHANGED <<caller, own, connection, channel, open, opened, failures>>

\* close(), when the server has no request left.
CloseConnection ==
    /\ connection # None /\ \A c \in Callers : caller[c] = "idle"
    /\ open' = open \ {connection}
    /\ connection' = None /\ channel' = None /\ caller' = [c \in Callers |-> "over"]
    /\ UNCHANGED <<own, lost, opened, failures>>

ChannelIdle == (\A c \in Callers : caller[c] = "over") /\ UNCHANGED channelVars

ChannelNext ==
    \/ \E c \in Callers :
        \/ UseChannel(c) \/ StartConnecting(c) \/ Connected(c) \/ ConnectFails(c)
        \/ Declared(c) \/ SetupFails(c) \/ Published(c)
    \/ \E n \in open : Lose(n)
    \/ CloseConnection
    \/ ChannelIdle

ChannelSpec == ChannelInit /\ [][ChannelNext]_channelVars

-----------------------------------------------------------------------------
(* Properties.                                                             *)

ChannelTypeOK ==
    /\ caller \in [Callers -> {"idle", "connecting", "declaring", "publishing", "over"}]
    /\ own \in [Callers -> 0 .. opened]
    /\ opened \in Nat /\ connection \in 0 .. opened /\ channel \in 0 .. opened
    /\ open \subseteq 1 .. opened /\ lost \subseteq 1 .. opened
    /\ failures \in 0 .. MaxFailures

\* Callers that find no channel at the same time connect each on their own, and the
\* connections that are overwritten stay open even after close().  Their number is
\* bounded all the same: one per caller at first and after each lost channel, and
\* one per failed declaration.
ConnectionsBounded ==
    Cardinality(open) <= Cardinality(Callers) * (1 + Cardinality(lost)) + failures
=============================================================================
