\* Two processes, heartbeats kept, nothing fails but a client that hangs up.
CONSTANTS
    Replicas = {p1, p2}
    Requests = {r1, r2, r3}
    Keys = {"k1"}
    KeyOf <- MCOneKey
    MaxConcurrentJobs = 2
    NumFrames = 2
    Publishers = 1
    RatioNum = 1
    RatioDen = 2
    LiveMayBeSilent = FALSE
    MaxInterruptions = 0
    None = None
SPECIFICATION Spec
INVARIANTS
    OneRunPerJob
