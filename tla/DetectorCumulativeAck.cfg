\* Two partitions share the channel and the inbox; nothing fails.
CONSTANTS
    Replicas = {d1}
    Partitions = {"q1", "q2"}
    NumMessages = 3
    FrameOf <- MCDistinct
    PartitionOf <- MCTwoQueues
    Prefetch = 2
    BatchSize = 2
    Faults = {}
    MaxInterruptions = 0
    MaxSinkFailures = 0
SPECIFICATION Spec
INVARIANTS
    MultipleAckSafe
