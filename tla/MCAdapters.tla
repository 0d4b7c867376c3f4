----------------------------- MODULE MCAdapters -----------------------------
(* Small instances of the adapter modules for TLC.  They share no state, and *)
(* neither do the stores' jobs and frames but for the clock, so a behaviour   *)
(* exercises one of them.                                                     *)
EXTENDS InMemoryBroker, PublisherChannel, Stores, TLC

VARIABLE part

Init ==
    /\ part \in {"broker", "channel", "jobs", "frames"}
    /\ BrokerInit /\ ChannelInit /\ StoreInit

Next ==
    \/ part = "broker" /\ BrokerNext /\ UNCHANGED <<part, channelVars, storeVars>>
    \/ part = "channel" /\ ChannelNext /\ UNCHANGED <<part, brokerVars, storeVars>>
    \/ part = "jobs" /\ JobsNext /\ UNCHANGED <<part, brokerVars, channelVars>>
    \/ part = "frames" /\ FramesNext /\ UNCHANGED <<part, brokerVars, channelVars>>

Spec == Init /\ [][Next]_<<part, brokerVars, channelVars, storeVars>>

\* Every variable of the adapter modules keeps to its range.
TypeOK == BrokerTypeOK /\ ChannelTypeOK /\ StoreTypeOK

\* Callers, and job ids, are interchangeable; the properties name none of them.
Symmetry == Permutations(Callers) \cup Permutations(Jobs)
=============================================================================
