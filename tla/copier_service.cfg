SPECIFICATION FairSpec
CONSTANTS
    Jids = {1, 2}
    MAX_CONCURRENCY = 1
    RETRIES = 1
    Troubles = {"log", "spawn", "exit", "host_key", "wait", "timeout"}
    MaxFaults = 4
    MaxDuplicates = 2
INVARIANTS
    TypeOK
    NoLostCopy
PROPERTIES
    ImplementsService
    EveryCopyReported
CHECK_DEADLOCK FALSE
