SPECIFICATION FairLoop
CONSTANTS
    Jids = {1}
    MAX_CONCURRENCY = 2
    RETRIES = 1
    Troubles = {"spawn"}
    MaxFaults = 1
    MaxDuplicates = 1
PROPERTIES
    StartTriedAgain
CHECK_DEADLOCK FALSE
