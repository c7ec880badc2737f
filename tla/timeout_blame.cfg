SPECIFICATION Spec
CONSTANTS
    m1 = m1
    m2 = m2
    fast = fast
    slow = slow
    None = None
    UnknownHostClass = error_unknown_host
    BrokenClass = broken
    Machines = {m1}
    Classes = {fast}
    JobSpecs <- TimedJobs
    SetupSpecs <- NoSpecs
    Offered = {"AddJob", "MakeAvailable"}
    MaxRequests = 3
    MaxFaults = 3
    ImmediateEvents = {}
    MachineFailures = 2
    MatrixSizes = {}
    WatchedIds = {}
INVARIANTS
    FaultyMachineQuarantined
CHECK_DEADLOCK FALSE
