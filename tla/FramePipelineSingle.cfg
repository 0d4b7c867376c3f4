\* One publisher, the setting under which the tests exercise resuming.
CONSTANTS
    Workers = {w1}
    NumFrames = 5
    QueueSize = 2
    CheckpointEvery = 2
    Priors <- MCPriors
SPECIFICATION Spec
INVARIANTS
    NoGapAtSeam
    DispatchOrder
    CheckpointLag
PROPERTY
    CheckpointMonotone
