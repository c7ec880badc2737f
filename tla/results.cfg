SPECIFICATION NotifierSpec
CONSTANTS
    m1 = m1
    m2 = m2
    fast = fast
    slow = slow
    None = None
    UnknownHostClass = error_unknown_host
    BrokenClass = broken
    Machines = {m1, m2}
    Classes = {fast}
    JobSpecs <- BothJobs
    SetupSpecs <- NoSpecs
    Offered = {"AddJob", "MakeAvailable", "CancelJob", "AddJobTimeout"}
    MaxRequests = 3
    MaxFaults = 2
    ImmediateEvents = {"running", "complete", "task_failed"}
    MachineFailures = 2
    MatrixSizes = {}
    WatchedIds <- Ids
SYMMETRY Symmetry
INVARIANTS
    NoLostCopy
    OnlyOutsidePanics
    RetryBound
    OutcomeTold
    BrokenTold
PROPERTIES
    UsesCopyService
CHECK_DEADLOCK FALSE
