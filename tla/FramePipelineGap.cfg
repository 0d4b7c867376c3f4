\* Two publishers: the default of settings.py is four.
CONSTANTS
    Workers = {w1, w2}
    NumFrames = 3
    QueueSize = 1
    CheckpointEvery = 1
    Priors <- MCFresh
SPECIFICATION Spec
INVARIANT
    NoGapAtSeam
