\* A replica may crash once.
CONSTANTS
    Replicas = {d1, d2}
    Partitions = {"q1"}
    NumMessages = 2
    FrameOf <- MCDistinct
    PartitionOf <- MCOneQueue
    Prefetch = 2
    BatchSize = 2
    Faults = {"crash"}
    MaxInterruptions = 1
    MaxSinkFailures = 0
SPECIFICATION Spec
INVARIANTS
    NoSilentDrop
