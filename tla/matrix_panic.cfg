SPECIFICATION Spec
CONSTANTS
    m1 = m1
    m2 = m2
    fast = fast
    slow = slow
    None = None
    UnknownHostClass = error_unknown_host
    BrokenClass = broken
    Machines = {m1}
    Classes = {fast}
    JobSpecs <- PlainJobs
    SetupSpecs <- NoSpecs
    Offered = {"AddMatrix", "MakeAvailable"}
    MaxRequests = 2
    MaxFaults = 1
    ImmediateEvents = {}
    MachineFailures = 2
    MatrixSizes = {2}
    WatchedIds = {}
INVARIANTS
    OnlyOutsidePanics
CHECK_DEADLOCK FALSE
