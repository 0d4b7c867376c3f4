\* Two publishers, a queue of one slot, a checkpoint every second confirm.
CONSTANTS
    Workers = {w1, w2}
    NumFrames = 5
    QueueSize = 1
    CheckpointEvery = 2
    Priors <- MCPriors
SPECIFICATION Spec
SYMMETRY Symmetry
INVARIANTS
    TypeOK
    BlobBeforeReference
    DispatchedAtMostOnce
    DispatchComplete
    SeamGapBounded
    OvertakingBounded
    CheckpointNeverAhead
    BoundedLookahead
PROPERTY
    ImplementsLedger
