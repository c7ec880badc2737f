SPECIFICATION TemplateSpec
CONSTANTS
    m1 = m1
    m2 = m2
    fast = fast
    slow = slow
    None = None
    UnknownHostClass = error_unknown_host
    BrokenClass = broken
    x = x
    one = one
    two = two
    Names = {x}
    Values = {one, two}
    Expansions <- Asked
    Machines = {m1}
    Classes = {fast}
    JobSpecs <- RetryJobs
    SetupSpecs <- NoSpecs
    Offered = {"AddJob", "AddTaggedJob", "AddTag", "TagJob", "MakeAvailable", "RemoveAvailable", "CancelJob", "CloneJob", "AddMatrix"}
    MaxRequests = 4
    MaxFaults = 1
    ImmediateEvents = {}
    MachineFailures = 2
    MatrixSizes = {0, 1, 2}
    WatchedIds = {}
SYMMETRY Symmetry
INVARIANTS
    GroupsListMembers
    LogWhereWritten
    MatrixJobsFit
PROPERTIES
    MatrixCovered
CHECK_DEADLOCK FALSE
