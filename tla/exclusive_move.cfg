SPECIFICATION Spec
CONSTANTS
    m1 = m1
    m2 = m2
    fast = fast
    slow = slow
    None = None
    UnknownHostClass = error_unknown_host
    BrokenClass = broken
    Machines = {m1}
    Classes = {fast, slow}
    JobSpecs <- ClassJobs
    SetupSpecs <- NoSpecs
    Offered = {"AddJob", "MakeAvailable", "RemoveAvailable"}
    MaxRequests = 5
    MaxFaults = 0
    ImmediateEvents = {}
    MachineFailures = 2
    MatrixSizes = {}
    WatchedIds = {}
INVARIANTS
    MachineExclusive
CHECK_DEADLOCK FALSE
