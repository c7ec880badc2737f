SPECIFICATION ClientSpec
CONSTANTS
    m1 = m1
    m2 = m2
    fast = fast
    slow = slow
    None = None
    UnknownHostClass = error_unknown_host
    BrokenClass = broken
    Machines = {m1}
    Classes = {fast}
    JobSpecs <- PlainJobs
    SetupSpecs <- NoSpecs
    Offered = {"AddJob", "MakeAvailable", "CancelJob", "AddTag", "AddTaggedJob", "AddMatrix"}
    MaxRequests = 4
    MaxFaults = 0
    ImmediateEvents = {}
    MachineFailures = 2
    MatrixSizes = {1}
    Modes = {"suffix", "suffix_running", "last"}
    SuffixLen = 2
    WatchedIds = {}
INVARIANTS
    ListedOnce
    ListingComplete
    RunningShown
    LastIsNewest
