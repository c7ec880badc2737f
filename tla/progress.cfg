SPECIFICATION FairSpec
CONSTANTS
    m1 = m1
    m2 = m2
    fast = fast
    slow = slow
    None = None
    UnknownHostClass = error_unknown_host
    BrokenClass = broken
    Machines = {m1}
    Classes = {fast}
    JobSpecs <- FullJobs
    SetupSpecs <- Setups
    Offered = {"AddJob", "MakeAvailable", "RemoveAvailable", "SetUpMachine", "CancelJob", "HoldJob"}
    MaxRequests = 3
    MaxFaults = 1
    ImmediateEvents = {}
    MachineFailures = 2
    MatrixSizes = {}
    WatchedIds <- FirstIds
INVARIANTS
    TypeOK
    RunningIffProcess
    StatusHasMachine
    NoLeakedMachine
PROPERTIES
    ImplementsJobStatus
    CancelHandled
    ExitNoticed
    CopyNoticed
CHECK_DEADLOCK FALSE
