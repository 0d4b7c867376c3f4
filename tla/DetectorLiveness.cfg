\* The prefetch is smaller than a batch: only the timer can flush.
CONSTANTS
    Replicas = {d1}
    Partitions = {"q1"}
    NumMessages = 3
    FrameOf <- MCDistinct
    PartitionOf <- MCOneQueue
    Prefetch = 2
    BatchSize = 3
    Faults = {"crash", "sigterm", "sink", "load", "count", "claim"}
    MaxInterruptions = 1
    MaxSinkFailures = 1
SPECIFICATION FairSpec
PROPERTY
    EventuallySettled
