\* Three envelopes; three callers and two lost channels; two jobs and one frame.
CONSTANTS
    FailAfter = 3
    Callers = {c1, c2, c3}
    MaxLosses = 2
    MaxFailures = 1
    Jobs = {j1, j2}
    Frames = {f1}
    JobTtl = 2
    FrameTtl = 1
    MaxTime = 4
    MaxProgress = 2
    NoJob = NoJob
SPECIFICATION Spec
SYMMETRY Symmetry
INVARIANTS
    TypeOK
    EarlyOnlyIfRedelivered
    ConnectionsBounded
    AnswersAgree
PROPERTY
    ImplementsQueue
