SPECIFICATION Spec
CONSTANTS
    m1 = m1
    m2 = m2
    fast = fast
    slow = slow
    None = None
    UnknownHostClass = error_unknown_host
    BrokenClass = broken
    Machines = {m1, m2}
    Classes = {fast, slow}
    JobSpecs <- ClassJobs
    SetupSpecs <- NoSpecs
    Offered = {"AddJob", "MakeAvailable", "HoldJob", "UnholdJob", "CancelJob", "AddTag", "AddTaggedJob", "AddMatrix"}
    MaxRequests = 4
    MaxFaults = 2
    ImmediateEvents = {}
    MachineFailures = 2
    MatrixSizes = {1}
    WatchedIds = {}
SYMMETRY Symmetry
INVARIANTS
    MachineExclusive
    FaultyMachineQuarantined
PROPERTIES
    StartsInOrder
    NoUnwantedStart
CHECK_DEADLOCK FALSE
