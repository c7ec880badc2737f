SPECIFICATION RecoverySpec
CONSTANTS
    m1 = m1
    m2 = m2
    fast = fast
    slow = slow
    None = None
    UnknownHostClass = error_unknown_host
    BrokenClass = broken
    Machines = {m1, m2}
    Classes = {fast}
    JobSpecs <- PlainJobs
    SetupSpecs <- NoSpecs
    Offered = {"MakeAvailable", "CancelJob", "AddTag", "AddTaggedJob", "AddMatrix"}
    MaxRequests = 3
    MaxFaults = 1
    ImmediateEvents = {}
    MachineFailures = 2
    MatrixSizes = {2}
    MaxRestarts = 1
    WatchedIds = {}
SYMMETRY Symmetry
INVARIANTS
    FreshIds
    TagsResolve
    LiveCoversActive
    NoLeakAcrossRestarts
    NoGhostAcrossRestarts
PROPERTIES
    OutcomeSurvives
    RequeuesAtMostOne
CHECK_DEADLOCK FALSE
