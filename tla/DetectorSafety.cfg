\* Two replicas on one partition, every fault but a failing claim.
CONSTANTS
    Replicas = {d1, d2}
    Partitions = {"q1"}
    NumMessages = 4
    FrameOf <- MCRepeated
    PartitionOf <- MCOneQueue
    Prefetch = 2
    BatchSize = 2
    Faults = {"crash", "sigterm", "sink", "load", "reject", "stale", "count"}
    MaxInterruptions = 1
    MaxSinkFailures = 1
SPECIFICATION Spec
SYMMETRY Symmetry
INVARIANTS
    TypeOK
    ReportedAtMostOnce
    LossBounded
    MultipleAckSafe
    HeldIsUnacked
    CounterDrift
    OvertakenOnlyIfRedelivered
PROPERTY
    ImplementsQueue
