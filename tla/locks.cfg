SPECIFICATION FairSpec
CONSTANT
    MaxMatrixJobs = 2
INVARIANTS
    OrderRespected
    NoCircularWait
PROPERTIES
    EveryRoundEnds
CHECK_DEADLOCK FALSE
