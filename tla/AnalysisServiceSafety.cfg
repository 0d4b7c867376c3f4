\* One process with two publishers, three requests for one video.  In one process
\* nobody reads the age of a live run's record, since its key is reserved: silence is
\* left to the records nobody works on.
CONSTANTS
    Replicas = {p1}
    Requests = {r1, r2, r3}
    Keys = {"k1"}
    KeyOf <- MCOneKey
    MaxConcurrentJobs = 2
    NumFrames = 2
    Publishers = 2
    RatioNum = 1
    RatioDen = 2
    LiveMayBeSilent = FALSE
    MaxInterruptions = 1
    None = None
SPECIFICATION Spec
SYMMETRY Symmetry
INVARIANTS
    TypeOK
    OneRunPerKey
    NothingLeaks
    RecordTruthful
    AnswerTruthful
    ResendsBounded
    OrphansBounded
PROPERTY
    ProgressKept
