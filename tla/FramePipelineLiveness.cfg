\* Termination under fair scheduling, two publishers, no symmetry.
CONSTANTS
    Workers = {w1, w2}
    NumFrames = 3
    QueueSize = 1
    CheckpointEvery = 2
    Priors <- MCFresh
SPECIFICATION FairSpec
PROPERTY
    Termination
